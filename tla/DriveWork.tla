----------------------------- MODULE DriveWork -----------------------------
(***************************************************************************)
(* Proofs about the work of the drive, second part: what happens to an     *)
(* operation between its claim and its outcome, for every number of        *)
(* sessions, generations, IDs, methods and every bound.                    *)
(*                                                                         *)
(* The argument.  An operation that is not ended is in one place: a queue, *)
(* one frame, the set that waits for jobs, or among those being ended      *)
(* (PlacesInv); which places may be occupied depends on where the runtime  *)
(* thread stands (Control).  Given that, every step of the drive is one of *)
(* six kinds (Kinds): it moves work towards its end, removes a session,    *)
(* rejects, replays, claims or finishes.  At most once, one answer,        *)
(* carried, counted and signalled are each shown from the six kinds by an  *)
(* invariant of their own; type correctness adds the render credits.       *)
(***************************************************************************)
EXTENDS DriveProofs, SequenceTheorems

-----------------------------------------------------------------------------
(* Sequences.                                                              *)

(* Kept is a selection: its positions are those of at, in some order.      *)
LEMMA KeptSeq ==
  ASSUME NEW S, NEW q \in Seq(S), NEW at \in SUBSET DOMAIN q
  PROVE  /\ Kept(q, at) \in Seq(S)
         /\ Range(Kept(q, at)) = {q[k] : k \in at}
         /\ IsInjective(q) => IsInjective(Kept(q, at))
<1> DEFINE n == Cardinality(at)
           low(k) == {j \in at : j <= k}
           rank == [k \in at |-> Cardinality(low(k))]
           nth(i) == CHOOSE k \in at : Cardinality(low(k)) = i
<1>1. IsFiniteSet(at) /\ n \in Nat
  <2>1. IsFiniteSet(1..Len(q)) BY FS_Interval
  <2>2. at \in SUBSET (1..Len(q)) OBVIOUS
  <2>3. QED BY <2>1, <2>2, FS_Subset, FS_CardinalityType
<1>2. at \subseteq Nat OBVIOUS
<1>3. ASSUME NEW k \in at PROVE IsFiniteSet(low(k)) /\ Cardinality(low(k)) \in 1..n
  <2>1. low(k) \in SUBSET at OBVIOUS
  <2>2. IsFiniteSet(low(k)) /\ Cardinality(low(k)) <= n BY <1>1, <2>1, FS_Subset
  <2>3. k \in low(k) BY <1>2
  <2>4. Cardinality(low(k)) # 0 BY <2>2, <2>3, FS_EmptySet
  <2>5. Cardinality(low(k)) \in Nat BY <2>2, FS_CardinalityType
  <2>6. QED BY <1>1, <2>2, <2>4, <2>5
<1>4. ASSUME NEW j \in at, NEW k \in at, j < k PROVE Cardinality(low(j)) # Cardinality(low(k))
  <2>1. j \in Nat /\ k \in Nat BY <1>2
  <2>2. low(j) \in SUBSET low(k) /\ k \in low(k) /\ k \notin low(j) BY <1>2, <1>4, <2>1
  <2>3. IsFiniteSet(low(k)) BY <1>3
  <2> DEFINE A == low(j)
             B == low(k)
  <2>4. A \in SUBSET B /\ A # B /\ IsFiniteSet(B) BY <2>2, <2>3
  <2> HIDE DEF A, B
  <2>5. Cardinality(A) # Cardinality(B) BY <2>4, FS_Subset
  <2>6. QED BY <2>5 DEF A, B
<1>5. rank \in Injection(at, 1..n)
  <2>1. rank \in [at -> 1..n]
    <3> HIDE DEF n
    <3>1. QED BY <1>3
  <2>2. ASSUME NEW j \in at, NEW k \in at, rank[j] = rank[k] PROVE j = k
    <3>1. j \in Nat /\ k \in Nat BY <1>2
    <3>2. rank[j] = Cardinality(low(j)) /\ rank[k] = Cardinality(low(k)) OBVIOUS
    <3> HIDE DEF rank, low
    <3>3. ~(j < k) /\ ~(k < j) BY <1>4, <2>2, <3>2
    <3>4. QED BY <3>1, <3>3
  <2> HIDE DEF rank
  <2>3. QED BY <2>1, <2>2 DEF Injection, IsInjective
<1>6. rank \in Surjection(at, 1..n)
  <2>1. IsFiniteSet(1..n) /\ Cardinality(1..n) = n BY <1>1, FS_Interval
  <2> HIDE DEF rank
  <2>2. QED BY <1>5, <2>1, FS_Injection
<1>7. ASSUME NEW i \in 1..n PROVE nth(i) \in at /\ Cardinality(low(nth(i))) = i
  <2>1. \E k \in at : rank[k] = i
    <3> HIDE DEF rank, n
    <3>1. QED BY <1>6 DEF Surjection
  <2>2. \E k \in at : Cardinality(low(k)) = i BY <2>1
  <2>3. QED BY <2>2
<1>8. Kept(q, at) = [i \in 1..n |-> q[nth(i)]] BY DEF Kept
<1>9. \A k \in at : nth(Cardinality(low(k))) = k
  <2> SUFFICES ASSUME NEW k \in at PROVE nth(Cardinality(low(k))) = k
    OBVIOUS
  <2>1. Cardinality(low(k)) \in 1..n BY <1>3
  <2> DEFINE j == nth(Cardinality(low(k)))
  <2>2. j \in at /\ Cardinality(low(j)) = Cardinality(low(k)) BY <1>7, <2>1
  <2> HIDE DEF j
  <2>3. j \in Nat /\ k \in Nat BY <1>2, <2>2
  <2>4. j = k
    <3> HIDE DEF low
    <3>1. ~(j < k) /\ ~(k < j) BY <1>4, <2>2
    <3>2. QED BY <2>3, <3>1
  <2>5. QED BY <2>4 DEF j
<1>10. \A k \in at : Cardinality(low(k)) \in 1..n BY <1>3
<1> HIDE DEF n, nth, low
<1>11. Kept(q, at) \in Seq(S)
  <2>1. \A i \in 1..n : q[nth(i)] \in S BY <1>7
  <2>2. QED BY <1>1, <1>8, <2>1, IsASeq
<1>12. Range(Kept(q, at)) = {q[k] : k \in at}
  BY <1>7, <1>8, <1>9, <1>10 DEF Range
<1>13. ASSUME IsInjective(q) PROVE IsInjective(Kept(q, at))
  <2> SUFFICES ASSUME NEW i \in 1..n, NEW j \in 1..n, q[nth(i)] = q[nth(j)] PROVE i = j
    BY <1>8 DEF IsInjective
  <2>1. nth(i) = nth(j) BY <1>7, <1>13 DEF IsInjective
  <2>2. QED BY <1>7, <2>1
<1>14. QED BY <1>11, <1>12, <1>13

-----------------------------------------------------------------------------
(* The queues: what they hold after the steps that change them.            *)

LEMMA TailSeq ==
  ASSUME NEW S, NEW q \in Seq(S), q # <<>>, IsInjective(q)
  PROVE  /\ Head(q) \in Range(q) /\ Head(q) \in S
         /\ Tail(q) \in Seq(S) /\ IsInjective(Tail(q))
         /\ Range(Tail(q)) = Range(q) \ {Head(q)}
<1>1. /\ Tail(q) \in Seq(S) /\ Len(Tail(q)) = Len(q) - 1 /\ Len(q) \in Nat \ {0}
      /\ \A k \in 1..(Len(q) - 1) : Tail(q)[k] = q[k + 1]
      /\ Head(q) = q[1] /\ DOMAIN q = 1..Len(q)
  BY HeadTailProperties, EmptySeq
<1>2. DOMAIN Tail(q) = 1..(Len(q) - 1) BY <1>1
<1> DEFINE t == Tail(q)
           n == Len(q)
<1>3. t \in Seq(S) /\ DOMAIN t = 1..(n - 1) /\ n \in Nat \ {0} /\ DOMAIN q = 1..n
      /\ \A k \in 1..(n - 1) : t[k] = q[k + 1]
  BY <1>1, <1>2
<1> HIDE DEF t, n
<1>4. IsInjective(t)
  <2> SUFFICES ASSUME NEW j \in 1..(n - 1), NEW k \in 1..(n - 1), t[j] = t[k] PROVE j = k
    BY <1>3 DEF IsInjective
  <2>1. j + 1 \in 1..n /\ k + 1 \in 1..n BY <1>3
  <2>2. q[j + 1] = q[k + 1] BY <1>3
  <2>3. j + 1 = k + 1 BY <1>3, <2>1, <2>2 DEF IsInjective
  <2>4. QED BY <2>3
<1>5. \A k \in 2..n : k - 1 \in 1..(n - 1) /\ t[k - 1] = q[k] BY <1>3
<1>6. Range(t) = Range(q) \ {q[1]}
  <2>1. ASSUME NEW k \in 1..(n - 1) PROVE t[k] \in Range(q) \ {q[1]}
    <3>1. k + 1 \in 1..n /\ k + 1 # 1 /\ 1 \in 1..n BY <1>3
    <3>2. q[k + 1] \in Range(q) /\ q[k + 1] # q[1] BY <1>3, <3>1 DEF IsInjective, Range
    <3>3. QED BY <1>3, <3>2
  <2>2. ASSUME NEW k \in 1..n, q[k] # q[1] PROVE q[k] \in Range(t)
    <3>1. k \in 2..n BY <2>2
    <3>2. QED BY <1>3, <1>5, <3>1 DEF Range
  <2>3. /\ \A v : v \in Range(t) <=> \E k \in 1..(n - 1) : v = t[k]
        /\ \A v : v \in Range(q) <=> \E k \in 1..n : v = q[k]
    BY <1>3 DEF Range
  <2>4. QED BY <2>1, <2>2, <2>3
<1>7. q[1] \in Range(q) /\ q[1] \in S
  <2>1. 1 \in DOMAIN q BY <1>3
  <2>2. QED BY <2>1 DEF Range
<1>8. QED BY <1>1, <1>3, <1>4, <1>6, <1>7 DEF t

LEMMA AppendSeq ==
  ASSUME NEW S, NEW q \in Seq(S), NEW e \in S
  PROVE  /\ Append(q, e) \in Seq(S)
         /\ Range(Append(q, e)) = Range(q) \cup {e}
         /\ IsInjective(q) /\ e \notin Range(q) => IsInjective(Append(q, e))
<1> DEFINE a == Append(q, e)
           n == Len(q)
<1>1. /\ a \in Seq(S) /\ DOMAIN a = 1..(n + 1) /\ n \in Nat /\ DOMAIN q = 1..n
      /\ a[n + 1] = e /\ \A k \in 1..n : a[k] = q[k]
  BY AppendProperties
<1> HIDE DEF a, n
<1>2. 1..(n + 1) = (1..n) \cup {n + 1} /\ n + 1 \notin 1..n BY <1>1
<1>3. Range(a) = Range(q) \cup {e} BY <1>1, <1>2 DEF Range
<1>4. ASSUME IsInjective(q), e \notin Range(q) PROVE IsInjective(a)
  <2>1. \A k \in 1..n : q[k] # e BY <1>1, <1>4 DEF Range
  <2>2. QED BY <1>1, <1>2, <1>4, <2>1 DEF IsInjective
<1>5. QED BY <1>1, <1>3, <1>4 DEF a

(* RemoveAt closes the gap.                                                *)
LEMMA RemovedSeq ==
  ASSUME NEW S, NEW q \in Seq(S), NEW at \in DOMAIN q
  PROVE  /\ RemoveAt(q, at) \in Seq(S)
         /\ DOMAIN RemoveAt(q, at) = 1..(Len(q) - 1)
         /\ \A k \in 1..(Len(q) - 1) :
              RemoveAt(q, at)[k] = IF k < at THEN q[k] ELSE q[k + 1]
<1> DEFINE a == SubSeq(q, 1, at - 1)
           b == SubSeq(q, at + 1, Len(q))
<1>0. at \in 1..Len(q) OBVIOUS
<1>1. a \in Seq(S) /\ Len(a) = at - 1 /\ \A k \in 1..(at - 1) : a[k] = q[k] BY <1>0
<1>2. b \in Seq(S) /\ Len(b) = Len(q) - at /\ \A k \in 1..(Len(q) - at) : b[k] = q[at + k]
  BY <1>0
<1>3. RemoveAt(q, at) = a \o b BY DEF RemoveAt
<1> HIDE DEF a, b
<1>4. a \o b \in Seq(S) /\ Len(a \o b) = Len(a) + Len(b)
  BY <1>1, <1>2, ConcatProperties
<1>5. ASSUME NEW k \in 1..(Len(q) - 1)
      PROVE  (a \o b)[k] = IF k < at THEN q[k] ELSE q[k + 1]
  <2>0. (a \o b)[k] = IF k <= Len(a) THEN a[k] ELSE b[k - Len(a)]
    <3>1. k \in 1..(Len(a) + Len(b)) BY <1>0, <1>1, <1>2
    <3>2. QED BY <1>1, <1>2, <3>1, ConcatProperties
  <2>1. CASE k < at BY <1>0, <1>1, <1>2, <2>0, <2>1
  <2>2. CASE ~(k < at)
    <3>1. k - (at - 1) \in 1..(Len(q) - at) /\ at + (k - (at - 1)) = k + 1 BY <1>0, <2>2
    <3>2. Len(a) = at - 1 /\ ~(k <= Len(a)) BY <1>0, <1>1, <2>2
    <3>3. (a \o b)[k] = b[k - (at - 1)] BY <2>0, <3>2
    <3> QED BY <1>2, <2>2, <3>1, <3>3
  <2> QED BY <2>1, <2>2
<1>6. DOMAIN (a \o b) = 1..(Len(q) - 1)
  <2>1. Len(a \o b) = Len(q) - 1 BY <1>0, <1>1, <1>2, <1>4
  <2>2. QED BY <1>4, <2>1
<1> QED BY <1>3, <1>4, <1>5, <1>6

-----------------------------------------------------------------------------
(* The started frames.  A token, and the commands, are in one frame only,  *)
(* and only the last frame may be under way.                               *)

FrameRecords ==
  [token : SUBSET Commands, commands : SUBSET PendingCommands,
   stage : {"open", "sent", "acked", "skipped"}, reserved : BOOLEAN]

TokensOf(fs) == UNION {f.token : f \in Range(fs)}
CommandsOf(fs) == UNION {f.commands : f \in Range(fs)}

Apart(fs) ==
  \A j, k \in DOMAIN fs :
    \/ fs[j].token \cap fs[k].token # {}
    \/ fs[j].commands # {} /\ fs[k].commands # {}
    => j = k

OpenLast(fs) == \A k \in DOMAIN fs : fs[k].stage = "open" => k = Len(fs)
Building(fs) == fs # <<>> /\ fs[Len(fs)].stage = "open"

FramesOK(fs) == fs \in Seq(FrameRecords) /\ Apart(fs) /\ OpenLast(fs)

LEMMA InFrames ==
  ASSUME NEW fs
  PROVE  /\ \A c : c \in TokensOf(fs) <=> \E k \in DOMAIN fs : c \in fs[k].token
         /\ \A p : p \in CommandsOf(fs) <=> \E k \in DOMAIN fs : p \in fs[k].commands
<1>1. \A f : f \in Range(fs) <=> \E k \in DOMAIN fs : f = fs[k] BY DEF Range
<1>2. \A c : c \in TokensOf(fs) <=> \E f \in Range(fs) : c \in f.token BY DEF TokensOf
<1>3. \A p : p \in CommandsOf(fs) <=> \E f \in Range(fs) : p \in f.commands BY DEF CommandsOf
<1>4. QED BY <1>1, <1>2, <1>3

LEMMA RemoveFrame ==
  ASSUME NEW fs, FramesOK(fs), NEW at \in DOMAIN fs
  PROVE  LET gs == RemoveAt(fs, at)
         IN /\ FramesOK(gs)
            /\ TokensOf(gs) = TokensOf(fs) \ fs[at].token
            /\ CommandsOf(gs) = CommandsOf(fs) \ fs[at].commands
            /\ Building(gs) => Building(fs)
            /\ fs[at].stage # "open" /\ Building(fs) => Building(gs)
            /\ fs[at].stage = "open" => ~Building(gs)
<1> DEFINE gs == RemoveAt(fs, at)
           n == Len(fs)
<1>0. fs \in Seq(FrameRecords) /\ Apart(fs) /\ OpenLast(fs) BY DEF FramesOK
<1>1. /\ gs \in Seq(FrameRecords) /\ DOMAIN gs = 1..(n - 1)
      /\ \A k \in 1..(n - 1) : gs[k] = IF k < at THEN fs[k] ELSE fs[k + 1]
  BY <1>0, RemovedSeq
<1>2. n \in Nat /\ DOMAIN fs = 1..n /\ at \in 1..n BY <1>0
<1> HIDE DEF gs, n
<1>3. Len(gs) = n - 1
  <2>1. Len(gs) \in Nat /\ DOMAIN gs = 1..Len(gs) BY <1>1, LenProperties
  <2>2. n - 1 \in Nat BY <1>2
  <2>3. QED BY <1>1, <2>1, <2>2
<1> DEFINE from(k) == IF k < at THEN k ELSE k + 1
<1>4. /\ \A k \in 1..(n - 1) : from(k) \in 1..n /\ from(k) # at /\ gs[k] = fs[from(k)]
      /\ \A j, k \in 1..(n - 1) : from(j) = from(k) => j = k
  BY <1>1, <1>2
<1>5. \A k \in 1..n : k # at => \E j \in 1..(n - 1) : from(j) = k /\ gs[j] = fs[k]
  <2> SUFFICES ASSUME NEW k \in 1..n, k # at PROVE \E j \in 1..(n - 1) : from(j) = k /\ gs[j] = fs[k]
    OBVIOUS
  <2>1. CASE k < at BY <1>1, <1>2, <2>1
  <2>2. CASE ~(k < at)
    <3>1. k - 1 \in 1..(n - 1) /\ from(k - 1) = k BY <1>2, <2>2
    <3>2. QED BY <1>4, <3>1
  <2>3. QED BY <2>1, <2>2
<1>6. \A k \in 1..(n - 1) : from(k) = n => k = n - 1 BY <1>2
<1> HIDE DEF from
<1>7. Apart(gs)
  <2> SUFFICES ASSUME NEW j \in 1..(n - 1), NEW k \in 1..(n - 1),
                      \/ gs[j].token \cap gs[k].token # {}
                      \/ gs[j].commands # {} /\ gs[k].commands # {}
               PROVE  j = k
    BY <1>1 DEF Apart
  <2>1. from(j) \in 1..n /\ from(k) \in 1..n /\ gs[j] = fs[from(j)] /\ gs[k] = fs[from(k)] BY <1>4
  <2>2. from(j) = from(k) BY <1>0, <1>2, <2>1 DEF Apart
  <2>3. QED BY <1>4, <2>2
<1>8. OpenLast(gs) BY <1>0, <1>1, <1>2, <1>3, <1>4, <1>6 DEF OpenLast, n
<1>9. TokensOf(gs) = TokensOf(fs) \ fs[at].token
  <2>1. \A k \in 1..n : k # at => fs[k].token \cap fs[at].token = {} BY <1>0, <1>2 DEF Apart
  <2>2. /\ \A c : c \in TokensOf(gs) <=> \E k \in 1..(n - 1) : c \in gs[k].token
        /\ \A c : c \in TokensOf(fs) <=> \E k \in 1..n : c \in fs[k].token
    BY <1>1, <1>2, InFrames
  <2>3. ASSUME NEW c \in TokensOf(gs) PROVE c \in TokensOf(fs) /\ c \notin fs[at].token
    <3>1. PICK k \in 1..(n - 1) : c \in gs[k].token BY <2>2, <2>3
    <3>2. from(k) \in 1..n /\ from(k) # at /\ c \in fs[from(k)].token BY <1>4, <3>1
    <3>3. QED BY <2>1, <2>2, <3>2
  <2>4. ASSUME NEW c \in TokensOf(fs), c \notin fs[at].token PROVE c \in TokensOf(gs)
    <3>1. PICK k \in 1..n : c \in fs[k].token BY <2>2, <2>4
    <3>2. k # at BY <2>4, <3>1
    <3>3. QED BY <1>5, <2>2, <3>1, <3>2
  <2>5. QED BY <2>3, <2>4
<1>10. CommandsOf(gs) = CommandsOf(fs) \ fs[at].commands
  <2>1. \A k \in 1..n : k # at => fs[k].commands = {} \/ fs[at].commands = {}
    BY <1>0, <1>2 DEF Apart
  <2>2. /\ \A p : p \in CommandsOf(gs) <=> \E k \in 1..(n - 1) : p \in gs[k].commands
        /\ \A p : p \in CommandsOf(fs) <=> \E k \in 1..n : p \in fs[k].commands
    BY <1>1, <1>2, InFrames
  <2>3. ASSUME NEW p \in CommandsOf(gs) PROVE p \in CommandsOf(fs) /\ p \notin fs[at].commands
    <3>1. PICK k \in 1..(n - 1) : p \in gs[k].commands BY <2>2, <2>3
    <3>2. from(k) \in 1..n /\ from(k) # at /\ p \in fs[from(k)].commands BY <1>4, <3>1
    <3>3. QED BY <2>1, <2>2, <3>2
  <2>4. ASSUME NEW p \in CommandsOf(fs), p \notin fs[at].commands PROVE p \in CommandsOf(gs)
    <3>1. PICK k \in 1..n : p \in fs[k].commands BY <2>2, <2>4
    <3>2. k # at BY <2>4, <3>1
    <3>3. QED BY <1>5, <2>2, <3>1, <3>2
  <2>5. QED BY <2>3, <2>4
<1>11. gs # <<>> <=> n - 1 \in 1..(n - 1)
  <2>1. gs # <<>> <=> Len(gs) # 0 BY <1>1, EmptySeq
  <2>2. QED BY <1>2, <1>3, <2>1
<1>12. fs # <<>> /\ n \in 1..n BY <1>0, <1>2, EmptySeq DEF n
<1>13. ASSUME Building(gs) PROVE Building(fs)
  <2>1. n - 1 \in 1..(n - 1) /\ gs[n - 1].stage = "open" BY <1>3, <1>11, <1>13 DEF Building
  <2>2. from(n - 1) = n BY <1>0, <1>2, <1>4, <2>1 DEF OpenLast, n
  <2>3. QED BY <1>4, <1>12, <2>1, <2>2 DEF Building, n
<1>14. ASSUME fs[at].stage # "open", Building(fs) PROVE Building(gs)
  <2>1. fs[n].stage = "open" /\ n # at BY <1>14 DEF Building, n
  <2>2. PICK j \in 1..(n - 1) : from(j) = n /\ gs[j] = fs[n] BY <1>5, <1>12, <2>1
  <2>3. j = n - 1 BY <1>6, <2>2
  <2>4. QED BY <1>3, <1>11, <2>1, <2>2, <2>3 DEF Building
<1>15. ASSUME fs[at].stage = "open" PROVE ~Building(gs)
  <2> SUFFICES ASSUME Building(gs) PROVE FALSE
    OBVIOUS
  <2>1. at = n BY <1>0, <1>2, <1>15 DEF OpenLast, n
  <2>2. n - 1 \in 1..(n - 1) /\ gs[n - 1].stage = "open" BY <1>3, <1>11 DEF Building
  <2>3. from(n - 1) = n BY <1>0, <1>2, <1>4, <2>2 DEF OpenLast, n
  <2>4. QED BY <1>4, <2>1, <2>2, <2>3
<1>16. QED BY <1>1, <1>7, <1>8, <1>9, <1>10, <1>13, <1>14, <1>15 DEF FramesOK, gs

LEMMA AppendFrame ==
  ASSUME NEW fs, FramesOK(fs), ~Building(fs), NEW token \in SUBSET Commands,
         token \cap TokensOf(fs) = {}, NEW reserved \in BOOLEAN
  PROVE  LET gs == Append(fs, NewFrame(token, reserved))
         IN /\ FramesOK(gs) /\ Building(gs)
            /\ TokensOf(gs) = TokensOf(fs) \cup token
            /\ CommandsOf(gs) = CommandsOf(fs)
<1> DEFINE f == NewFrame(token, reserved)
           gs == Append(fs, f)
           n == Len(fs)
<1>0. fs \in Seq(FrameRecords) /\ Apart(fs) /\ OpenLast(fs) BY DEF FramesOK
<1>1. /\ f \in FrameRecords /\ f.token = token /\ f.commands = {} /\ f.stage = "open"
  BY DEF NewFrame, FrameRecords
<1> HIDE DEF f
<1>2. /\ gs \in Seq(FrameRecords) /\ DOMAIN gs = 1..(n + 1) /\ Len(gs) = n + 1
      /\ n \in Nat /\ DOMAIN fs = 1..n
      /\ gs[n + 1] = f /\ \A k \in 1..n : gs[k] = fs[k]
  BY <1>0, <1>1, AppendProperties
<1>3. gs # <<>> BY <1>2, EmptySeq
<1> HIDE DEF gs, n
<1>4. 1..(n + 1) = (1..n) \cup {n + 1} /\ n + 1 \notin 1..n BY <1>2
<1>5. \A k \in 1..n : fs[k].stage # "open"
  <2>1. ASSUME NEW k \in 1..n, fs[k].stage = "open" PROVE FALSE
    <3>1. k = Len(fs) BY <1>0, <1>2, <2>1 DEF OpenLast
    <3>2. fs # <<>> BY <1>2, EmptySeq
    <3>3. QED BY <2>1, <3>1, <3>2 DEF Building
  <2>2. QED BY <2>1
<1>6. OpenLast(gs) /\ Building(gs) BY <1>1, <1>2, <1>3, <1>4, <1>5 DEF OpenLast, Building
<1>7. /\ \A c : c \in TokensOf(fs) <=> \E k \in 1..n : c \in fs[k].token
      /\ \A c : c \in TokensOf(gs) <=> \E k \in 1..(n + 1) : c \in gs[k].token
      /\ \A p : p \in CommandsOf(fs) <=> \E k \in 1..n : p \in fs[k].commands
      /\ \A p : p \in CommandsOf(gs) <=> \E k \in 1..(n + 1) : p \in gs[k].commands
  BY <1>2, InFrames
<1>8. TokensOf(gs) = TokensOf(fs) \cup token
  <2>1. ASSUME NEW c PROVE c \in TokensOf(gs) <=> c \in TokensOf(fs) \/ c \in token
    BY <1>1, <1>2, <1>4, <1>7
  <2>2. QED BY <2>1
<1>9. CommandsOf(gs) = CommandsOf(fs)
  <2>1. ASSUME NEW p PROVE p \in CommandsOf(gs) <=> p \in CommandsOf(fs)
    BY <1>1, <1>2, <1>4, <1>7
  <2>2. QED BY <2>1
<1>10. Apart(gs)
  <2> SUFFICES ASSUME NEW j \in 1..(n + 1), NEW k \in 1..(n + 1),
                      \/ gs[j].token \cap gs[k].token # {}
                      \/ gs[j].commands # {} /\ gs[k].commands # {}
               PROVE  j = k
    BY <1>2 DEF Apart
  <2>1. \A i \in 1..n : fs[i].token \cap token = {} BY <1>7
  <2>2. CASE j \in 1..n /\ k \in 1..n BY <1>0, <1>2, <2>2 DEF Apart
  <2>3. CASE j \in 1..n /\ k = n + 1 BY <1>1, <1>2, <2>1, <2>3
  <2>4. CASE j = n + 1 /\ k \in 1..n BY <1>1, <1>2, <2>1, <2>4
  <2>5. QED BY <1>4, <2>2, <2>3, <2>4
<1>11. QED BY <1>2, <1>6, <1>8, <1>9, <1>10 DEF FramesOK, gs, f

(* A frame goes on to its next stage, perhaps with other commands.         *)
Replaced(fs, at, h) == [fs EXCEPT ![at] = h]

LEMMA ReplaceFrame ==
  ASSUME NEW fs, FramesOK(fs), NEW at \in DOMAIN fs, NEW h \in FrameRecords,
         h.token = fs[at].token,
         h.commands # {} => \A k \in DOMAIN fs : k # at => fs[k].commands = {},
         h.stage = "open" => fs[at].stage = "open"
  PROVE  LET gs == Replaced(fs, at, h)
         IN /\ FramesOK(gs)
            /\ TokensOf(gs) = TokensOf(fs)
            /\ CommandsOf(gs) = (CommandsOf(fs) \ fs[at].commands) \cup h.commands
            /\ Building(gs) => Building(fs)
            /\ fs[at].stage # "open" \/ h.stage = "open" => (Building(fs) => Building(gs))
            /\ fs[at].stage = "open" /\ h.stage # "open" => ~Building(gs)
<1> DEFINE gs == [fs EXCEPT ![at] = h]
           n == Len(fs)
<1>0. fs \in Seq(FrameRecords) /\ Apart(fs) /\ OpenLast(fs) BY DEF FramesOK
<1>1. n \in Nat /\ DOMAIN fs = 1..n /\ at \in 1..n /\ n \in 1..n BY <1>0
<1>2. gs \in Seq(FrameRecords) /\ Len(gs) = n /\ DOMAIN gs = 1..n BY <1>0, <1>1, ExceptSeq
<1>3. gs[at] = h /\ \A k \in 1..n : k # at => gs[k] = fs[k] BY <1>1
<1>4. gs # <<>> /\ fs # <<>> BY <1>0, <1>1, <1>2, EmptySeq
<1> HIDE DEF gs
<1>5. /\ \A c : c \in TokensOf(fs) <=> \E k \in 1..n : c \in fs[k].token
      /\ \A c : c \in TokensOf(gs) <=> \E k \in 1..n : c \in gs[k].token
      /\ \A p : p \in CommandsOf(fs) <=> \E k \in 1..n : p \in fs[k].commands
      /\ \A p : p \in CommandsOf(gs) <=> \E k \in 1..n : p \in gs[k].commands
  BY <1>1, <1>2, InFrames
<1> HIDE DEF n
<1>6. \A k \in 1..n : gs[k].token = fs[k].token BY <1>3
<1>7. TokensOf(gs) = TokensOf(fs) BY <1>5, <1>6
<1>8. CommandsOf(gs) = (CommandsOf(fs) \ fs[at].commands) \cup h.commands
  <2>1. \A k \in 1..n : k # at => fs[k].commands = {} \/ fs[at].commands = {}
    BY <1>0, <1>1 DEF Apart
  <2>2. ASSUME NEW p
        PROVE  p \in CommandsOf(gs) <=> (p \in CommandsOf(fs) /\ p \notin fs[at].commands) \/ p \in h.commands
    BY <1>1, <1>3, <1>5, <2>1
  <2>3. QED BY <2>2
<1>9. Apart(gs)
  <2> SUFFICES ASSUME NEW j \in 1..n, NEW k \in 1..n,
                      \/ gs[j].token \cap gs[k].token # {}
                      \/ gs[j].commands # {} /\ gs[k].commands # {}
               PROVE  j = k
    BY <1>2 DEF Apart
  <2>1. CASE gs[j].token \cap gs[k].token # {} BY <1>0, <1>1, <1>6, <2>1 DEF Apart
  <2>2. CASE gs[j].commands # {} /\ gs[k].commands # {}
    BY <1>0, <1>1, <1>3, <2>2 DEF Apart
  <2>3. QED BY <2>1, <2>2
<1>10. OpenLast(gs) BY <1>0, <1>1, <1>2, <1>3 DEF OpenLast, n
<1>11. (Building(gs) <=> gs[n].stage = "open") /\ (Building(fs) <=> fs[n].stage = "open")
  BY <1>2, <1>4 DEF Building, n
<1>12. fs[at].stage = "open" => at = n BY <1>0 DEF OpenLast, n
<1>13. QED BY <1>1, <1>2, <1>3, <1>7, <1>8, <1>9, <1>10, <1>11, <1>12 DEF FramesOK, gs, Replaced

(* The two ways a frame leaves the builder.                                *)
LEMMA FrontSeq ==
  ASSUME NEW S, NEW q \in Seq(S), q # <<>>, NEW e \in S
  PROVE  /\ Len(q) \in DOMAIN q
         /\ Front(q) \o <<e>> = Replaced(q, Len(q), e)
         /\ Front(q) \o <<>> = RemoveAt(q, Len(q))
<1> DEFINE n == Len(q)
           f == SubSeq(q, 1, n - 1)
<1>1. n \in Nat /\ n # 0 /\ DOMAIN q = 1..n /\ n \in 1..n BY EmptySeq
<1>2. f \in Seq(S) /\ Len(f) = n - 1 /\ \A k \in 1..(n - 1) : f[k] = q[k]
  BY <1>1, SubSeqProperties
<1>3. Front(q) = f BY DEF Front
<1>4. SubSeq(q, n + 1, n) = <<>> BY <1>1, SubSeqEmpty
<1>5. Front(q) \o <<>> = RemoveAt(q, n) BY <1>3, <1>4 DEF RemoveAt
<1> HIDE DEF f
<1>6. Front(q) \o <<e>> = [q EXCEPT ![n] = e]
  <2> DEFINE g == f \o <<e>>
             h == [q EXCEPT ![n] = e]
  <2>1. <<e>> \in Seq(S) /\ Len(<<e>>) = 1 /\ <<e>>[1] = e OBVIOUS
  <2>2. g \in Seq(S) /\ Len(g) = n
        /\ \A k \in 1..n : g[k] = IF k <= n - 1 THEN f[k] ELSE <<e>>[k - (n - 1)]
    <3> DEFINE u == <<e>>
    <3> HIDE DEF u, n
    <3>1. u \in Seq(S) /\ Len(u) = 1 BY <2>1 DEF u
    <3>2. /\ f \o u \in Seq(S) /\ Len(f \o u) = Len(f) + Len(u)
          /\ \A k \in 1..(Len(f) + Len(u)) : (f \o u)[k] = IF k <= Len(f) THEN f[k] ELSE u[k - Len(f)]
      BY <1>2, <3>1, ConcatProperties
    <3>3. Len(f) + Len(u) = n BY <1>1, <1>2, <3>1
    <3>4. QED BY <1>2, <3>2, <3>3 DEF u
  <2>3. h \in Seq(S) /\ Len(h) = n /\ \A k \in 1..n : h[k] = IF k = n THEN e ELSE q[k]
    BY <1>1, ExceptSeq
  <2>4. ASSUME NEW k \in 1..n PROVE g[k] = h[k]
    <3>1. CASE k = n
      <4>1. g[k] = <<e>>[1] BY <1>1, <2>2, <3>1
      <4>2. QED BY <2>1, <2>3, <3>1, <4>1
    <3>2. CASE k # n
      <4> HIDE DEF n
      <4>1. k <= n - 1 /\ k \in 1..(n - 1) BY <1>1, <3>2
      <4>2. QED BY <1>2, <2>2, <2>3, <3>2, <4>1
    <3>3. QED BY <3>1, <3>2
  <2> HIDE DEF g, h, n
  <2>5. g = h BY <2>2, <2>3, <2>4, SeqEqual
  <2>6. QED BY <1>3, <2>5 DEF g, h
<1>7. QED BY <1>1, <1>5, <1>6 DEF Replaced

-----------------------------------------------------------------------------
(* All the places of an operation: q and a are the queued time operations  *)
(* and commands, fs the started frames, w the commands that wait for jobs  *)
(* and e what is being ended.                                              *)

Cmds(ps) == {p.cmd : p \in ps}

LiveOf(q, a, fs, w) ==
  (Range(q) \cup TokensOf(fs)) \cup Cmds(Range(a) \cup CommandsOf(fs) \cup w)

(* An operation that lives has one place; one command runs at a time.      *)
LiveOK(q, a, fs, w) ==
  /\ q \in Seq(Commands) /\ IsInjective(q)
  /\ a \in Seq(PendingCommands) /\ IsInjective(a)
  /\ FramesOK(fs)
  /\ w \in SUBSET PendingCommands
  /\ \A c \in Range(q) \cup TokensOf(fs) : c.m \in TimeMethods
  /\ \A p \in Range(a) \cup CommandsOf(fs) \cup w : p.cmd.m = "execute"
  /\ \A p \in Range(a) : p = [cmd |-> p.cmd, jobs |-> 0, failed |-> FALSE]
  /\ \A p, r \in CommandsOf(fs) \cup w : p = r
  /\ CommandsOf(fs) = {} \/ w = {}
  /\ Range(q) \cap TokensOf(fs) = {}
  /\ \A p \in Range(a), r \in CommandsOf(fs) \cup w : p.cmd # r.cmd

(* An operation that is being ended has left all the other places.         *)
EndOK(e, live) ==
  /\ e \in SUBSET [cmd : Commands, outcome : Outcomes]
  /\ \A x, y \in e : x.cmd = y.cmd => x = y
  /\ \A x \in e : x.cmd \notin live

LEMMA LiveType ==
  ASSUME NEW q, NEW a, NEW fs, NEW w, LiveOK(q, a, fs, w)
  PROVE  /\ Range(q) \in SUBSET Commands /\ TokensOf(fs) \in SUBSET Commands
         /\ Range(a) \in SUBSET PendingCommands /\ CommandsOf(fs) \in SUBSET PendingCommands
         /\ LiveOf(q, a, fs, w) \in SUBSET Commands
<1>1. q \in Seq(Commands) /\ a \in Seq(PendingCommands) /\ fs \in Seq(FrameRecords)
      /\ w \in SUBSET PendingCommands
  BY DEF LiveOK, FramesOK
<1>2. Range(q) \in SUBSET Commands /\ Range(a) \in SUBSET PendingCommands BY <1>1 DEF Range
<1>3. \A k \in DOMAIN fs : fs[k].token \in SUBSET Commands /\ fs[k].commands \in SUBSET PendingCommands
  <2>1. \A k \in DOMAIN fs : fs[k] \in FrameRecords BY <1>1
  <2>2. QED BY <2>1 DEF FrameRecords
<1>4. TokensOf(fs) \in SUBSET Commands /\ CommandsOf(fs) \in SUBSET PendingCommands
  BY <1>3, InFrames
<1>5. \A p \in PendingCommands : p.cmd \in Commands BY DEF PendingCommands
<1>6. QED BY <1>1, <1>2, <1>4, <1>5 DEF LiveOf, Cmds

(* TakeOut takes the operations of a set out of every place and disturbs   *)
(* nothing else.                                                           *)
TokensWithout(q, cmds) == Kept(q, {k \in DOMAIN q : q[k] \notin cmds})
CommandsWithout(a, cmds) == Kept(a, {k \in DOMAIN a : a[k].cmd \notin cmds})
FrameWithout(f, cmds) ==
  [f EXCEPT !.token = @ \ cmds, !.commands = {p \in @ : p.cmd \notin cmds}]
FramesWithout(fs, cmds) == [k \in DOMAIN fs |-> FrameWithout(fs[k], cmds)]
WaitingWithout(w, cmds) == {p \in w : p.cmd \notin cmds}

LEMMA TokensTakenOut ==
  ASSUME NEW q, q \in Seq(Commands), IsInjective(q), NEW cmds
  PROVE  /\ TokensWithout(q, cmds) \in Seq(Commands) /\ IsInjective(TokensWithout(q, cmds))
         /\ Range(TokensWithout(q, cmds)) = Range(q) \ cmds
<1> DEFINE at == {k \in DOMAIN q : q[k] \notin cmds}
<1>1. at \in SUBSET DOMAIN q /\ TokensWithout(q, cmds) = Kept(q, at) BY DEF TokensWithout
<1>2. ASSUME NEW c PROVE (\E k \in at : q[k] = c) <=> (c \in Range(q) /\ c \notin cmds)
  BY DEF Range
<1>3. {q[k] : k \in at} = Range(q) \ cmds BY <1>2
<1> HIDE DEF at
<1>4. QED BY <1>1, <1>3, KeptSeq

LEMMA CommandsTakenOut ==
  ASSUME NEW a, a \in Seq(PendingCommands), IsInjective(a), NEW cmds
  PROVE  /\ CommandsWithout(a, cmds) \in Seq(PendingCommands) /\ IsInjective(CommandsWithout(a, cmds))
         /\ Range(CommandsWithout(a, cmds)) = {p \in Range(a) : p.cmd \notin cmds}
<1> DEFINE at == {k \in DOMAIN a : a[k].cmd \notin cmds}
<1>1. at \in SUBSET DOMAIN a /\ CommandsWithout(a, cmds) = Kept(a, at) BY DEF CommandsWithout
<1>2. ASSUME NEW p PROVE (\E k \in at : a[k] = p) <=> (p \in Range(a) /\ p.cmd \notin cmds)
  BY DEF Range
<1>3. {a[k] : k \in at} = {p \in Range(a) : p.cmd \notin cmds} BY <1>2
<1> HIDE DEF at
<1>4. QED BY <1>1, <1>3, KeptSeq

LEMMA FrameTakenOut ==
  ASSUME NEW f \in FrameRecords, NEW cmds
  PROVE  LET g == FrameWithout(f, cmds)
         IN /\ g \in FrameRecords
            /\ g.token = f.token \ cmds
            /\ g.commands = {p \in f.commands : p.cmd \notin cmds}
            /\ g.stage = f.stage /\ g.reserved = f.reserved
BY DEF FrameWithout, FrameRecords

LEMMA FramesTakenOut ==
  ASSUME NEW fs, FramesOK(fs), NEW cmds
  PROVE  LET gs == FramesWithout(fs, cmds)
         IN /\ FramesOK(gs) /\ DOMAIN gs = DOMAIN fs
            /\ TokensOf(gs) = TokensOf(fs) \ cmds
            /\ CommandsOf(gs) = {p \in CommandsOf(fs) : p.cmd \notin cmds}
            /\ Building(gs) <=> Building(fs)
            /\ \A k \in DOMAIN fs : gs[k].stage = fs[k].stage /\ gs[k].reserved = fs[k].reserved
<1> DEFINE gs == FramesWithout(fs, cmds)
           n == Len(fs)
<1>0. fs \in Seq(FrameRecords) /\ Apart(fs) /\ OpenLast(fs) BY DEF FramesOK
<1>1. n \in Nat /\ DOMAIN fs = 1..n BY <1>0
<1>2. gs = [k \in 1..n |-> FrameWithout(fs[k], cmds)] BY <1>1 DEF FramesWithout
<1>3. \A k \in 1..n : fs[k] \in FrameRecords BY <1>0, <1>1
<1>4. \A k \in 1..n : FrameWithout(fs[k], cmds) \in FrameRecords BY <1>3, FrameTakenOut
<1>5. gs \in Seq(FrameRecords) BY <1>1, <1>2, <1>4, IsASeq
<1>6. DOMAIN gs = 1..n /\ Len(gs) = n
  <2>1. DOMAIN gs = 1..n BY <1>2
  <2> HIDE DEF gs, n
  <2>2. Len(gs) \in Nat /\ DOMAIN gs = 1..Len(gs) BY <1>5, LenProperties
  <2>3. QED BY <1>1, <2>1, <2>2
<1>7. \A k \in 1..n : /\ gs[k].token = fs[k].token \ cmds
                      /\ gs[k].commands = {p \in fs[k].commands : p.cmd \notin cmds}
                      /\ gs[k].stage = fs[k].stage /\ gs[k].reserved = fs[k].reserved
  BY <1>2, <1>3, FrameTakenOut
<1> HIDE DEF gs, n
<1>8. Apart(gs)
  <2>1. \A j, k \in 1..n : gs[j].token \cap gs[k].token # {} => fs[j].token \cap fs[k].token # {}
    BY <1>7
  <2>2. \A k \in 1..n : gs[k].commands # {} => fs[k].commands # {} BY <1>7
  <2>3. QED BY <1>0, <1>1, <1>6, <2>1, <2>2 DEF Apart
<1>9. OpenLast(gs) BY <1>0, <1>1, <1>6, <1>7 DEF OpenLast, n
<1>10. Building(gs) <=> Building(fs)
  <2>1. (gs # <<>> <=> n # 0) /\ (fs # <<>> <=> n # 0) BY <1>0, <1>5, <1>6, EmptySeq DEF n
  <2>2. n # 0 => n \in 1..n BY <1>1
  <2>3. QED BY <1>6, <1>7, <2>1, <2>2 DEF Building, n
<1>11. TokensOf(gs) = TokensOf(fs) \ cmds
  <2>1. ASSUME NEW c PROVE c \in TokensOf(gs) <=> c \in TokensOf(fs) /\ c \notin cmds
    BY <1>1, <1>6, <1>7, InFrames
  <2>2. QED BY <2>1
<1>12. CommandsOf(gs) = {p \in CommandsOf(fs) : p.cmd \notin cmds}
  <2>1. ASSUME NEW p PROVE p \in CommandsOf(gs) <=> p \in CommandsOf(fs) /\ p.cmd \notin cmds
    BY <1>1, <1>6, <1>7, InFrames
  <2>2. QED BY <2>1
<1>13. QED BY <1>1, <1>5, <1>6, <1>7, <1>8, <1>9, <1>10, <1>11, <1>12 DEF FramesOK, gs

LEMMA TakenOut ==
  ASSUME NEW q, NEW a, NEW fs, NEW w, LiveOK(q, a, fs, w), NEW cmds
  PROVE  LET q2 == TokensWithout(q, cmds)
             a2 == CommandsWithout(a, cmds)
             fs2 == FramesWithout(fs, cmds)
             w2 == WaitingWithout(w, cmds)
         IN /\ LiveOK(q2, a2, fs2, w2)
            /\ LiveOf(q2, a2, fs2, w2) = LiveOf(q, a, fs, w) \ cmds
            /\ Range(q2) \subseteq Range(q) /\ Range(a2) \subseteq Range(a)
            /\ Building(fs2) <=> Building(fs)
<1> DEFINE q2 == TokensWithout(q, cmds)
           a2 == CommandsWithout(a, cmds)
           fs2 == FramesWithout(fs, cmds)
           w2 == WaitingWithout(w, cmds)
<1>0. /\ q \in Seq(Commands) /\ IsInjective(q) /\ a \in Seq(PendingCommands) /\ IsInjective(a)
      /\ FramesOK(fs) /\ w \in SUBSET PendingCommands
  BY DEF LiveOK
<1>1. q2 \in Seq(Commands) /\ IsInjective(q2) /\ Range(q2) = Range(q) \ cmds
  BY <1>0, TokensTakenOut
<1>2. /\ a2 \in Seq(PendingCommands) /\ IsInjective(a2)
      /\ Range(a2) = {p \in Range(a) : p.cmd \notin cmds}
  BY <1>0, CommandsTakenOut
<1>3. /\ FramesOK(fs2) /\ TokensOf(fs2) = TokensOf(fs) \ cmds
      /\ CommandsOf(fs2) = {p \in CommandsOf(fs) : p.cmd \notin cmds}
      /\ Building(fs2) <=> Building(fs)
  BY <1>0, FramesTakenOut
<1>4. w2 = {p \in w : p.cmd \notin cmds} /\ w2 \in SUBSET PendingCommands BY <1>0 DEF WaitingWithout
<1> HIDE DEF q2, a2, fs2, w2
<1>5. LiveOK(q2, a2, fs2, w2) BY <1>1, <1>2, <1>3, <1>4 DEF LiveOK
<1>6. LiveOf(q2, a2, fs2, w2) = LiveOf(q, a, fs, w) \ cmds
  <2>1. ASSUME NEW c
        PROVE  c \in Cmds(Range(a2) \cup CommandsOf(fs2) \cup w2)
                 <=> c \in Cmds(Range(a) \cup CommandsOf(fs) \cup w) /\ c \notin cmds
    BY <1>2, <1>3, <1>4 DEF Cmds
  <2>2. QED BY <1>1, <1>3, <2>1 DEF LiveOf
<1>7. QED BY <1>1, <1>2, <1>3, <1>5, <1>6 DEF q2, a2, fs2, w2

-----------------------------------------------------------------------------
(* The state: the work of the runtime, the part of it that has not started *)
(* to run, and where the runtime thread stands or will go on.              *)

Live == LiveOf(frameTokens, activations, frames, waiting)
Ending == Cmds(closing)
Pending == Range(frameTokens) \cup Cmds(Range(activations))

PlacesInv ==
  /\ LiveOK(frameTokens, activations, frames, waiting)
  /\ EndOK(closing, Live)

Point == IF rt = "closing" THEN ret ELSE rt
TurnPoints == {"park", "collect", "clear", "admit", "ready"}
FramePoints == {"jobs", "events", "activate"}

(* A frame is under way exactly between its start and its submission; the  *)
(* fence is passed on both sides.                                          *)
Control ==
  /\ rt \in TurnPoints \cup FramePoints \cup {"fence", "closing"}
  /\ rt # "closing" => closing = {}
  /\ rt = "closing" => ret \in TurnPoints \cup FramePoints
  /\ Point \in FramePoints => Building(frames)
  /\ Point \in TurnPoints => ~Building(frames)

FlowInv == PlacesInv /\ Control

(* What a step may do to the work: let it go on towards its end, take a    *)
(* command in, or let go of one that is completed.                         *)
Passes ==
  /\ Live' \subseteq Live /\ Pending' \subseteq Pending
  /\ Live' \cup Ending' = Live \cup Ending

Enters(c) ==
  /\ Live' \subseteq Live \cup {c} /\ Pending' \subseteq Pending \cup {c}
  /\ Live' \cup Ending' = Live \cup Ending \cup {c}

Leaves(x) ==
  /\ Live' = Live /\ Pending' = Pending
  /\ closing' = closing \ {x}

LEMMA InCmds == \A S, c : c \in Cmds(S) <=> \E p \in S : c = p.cmd
BY DEF Cmds

LEMMA LiveIsWork == TokenWork \cup CommandWork = Live
<1>1. FrameTokens = TokensOf(frames) BY DEF FrameTokens, TokensOf
<1>2. FrameCommands = CommandsOf(frames) BY DEF FrameCommands, CommandsOf
<1>3. TokenWork = Range(frameTokens) \cup TokensOf(frames) BY <1>1 DEF TokenWork
<1>4. CommandWork = Cmds(Range(activations) \cup CommandsOf(frames) \cup waiting)
  BY <1>2 DEF CommandWork, Cmds
<1>5. QED BY <1>3, <1>4 DEF Live, LiveOf

LEMMA CmdsUnion == ASSUME NEW A, NEW B PROVE Cmds(A \cup B) = Cmds(A) \cup Cmds(B)
<1>1. ASSUME NEW c PROVE c \in Cmds(A \cup B) <=> c \in Cmds(A) \/ c \in Cmds(B)
  BY InCmds
<1>2. QED BY <1>1

LEMMA PendingIsLive == Pending \subseteq Live
<1> DEFINE A == Range(activations)
           B == CommandsOf(frames) \cup waiting
<1> HIDE DEF A, B
<1>1. Cmds(A \cup B) = Cmds(A) \cup Cmds(B) BY CmdsUnion
<1>2. A \cup B = Range(activations) \cup CommandsOf(frames) \cup waiting BY DEF A, B
<1>3. QED BY <1>1, <1>2 DEF Pending, Live, LiveOf, A

LEMMA ClosingOK ==
  ASSUME NEW cmds \in SUBSET Commands, NEW outcome \in Outcomes
  PROVE  /\ Closing(cmds, outcome) \in SUBSET [cmd : Commands, outcome : Outcomes]
         /\ Cmds(Closing(cmds, outcome)) = cmds
         /\ \A x \in Closing(cmds, outcome) : x.cmd \in cmds /\ x.outcome = outcome
         /\ \A x, y \in Closing(cmds, outcome) : x.cmd = y.cmd => x = y
<1>1. \A x : x \in Closing(cmds, outcome) <=> \E c \in cmds : x = [cmd |-> c, outcome |-> outcome]
  BY DEF Closing
<1>2. ASSUME NEW c PROVE c \in Cmds(Closing(cmds, outcome)) <=> c \in cmds
  <2>1. ASSUME NEW x \in Closing(cmds, outcome) PROVE x.cmd \in cmds BY <1>1
  <2>2. ASSUME c \in cmds PROVE \E x \in Closing(cmds, outcome) : c = x.cmd
    <3>1. [cmd |-> c, outcome |-> outcome] \in Closing(cmds, outcome) BY <1>1, <2>2
    <3>2. QED BY <3>1
  <2>3. QED BY <2>1, <2>2, InCmds
<1>3. QED BY <1>1, <1>2

LEMMA EndAllControl ==
  ASSUME NEW ending, NEW next \in TurnPoints \cup FramePoints, EndAll(ending, next),
         next \in FramePoints => Building(frames)',
         next \in TurnPoints => ~Building(frames)'
  PROVE  Control'
BY DEF EndAll, Control, Point, TurnPoints, FramePoints

(* The whole of a set of live operations ends, as a fence, a cancellation, *)
(* a revocation and a preemption do it.                                    *)
LEMMA TakeOutFlow ==
  ASSUME PlacesInv, NEW cmds, TakeOut(cmds)
  PROVE  /\ LiveOK(frameTokens, activations, frames, waiting)'
         /\ Live' = Live \ cmds /\ Pending' \subseteq Pending
         /\ Building(frames)' <=> Building(frames)
<1>1. /\ frameTokens' = TokensWithout(frameTokens, cmds)
      /\ activations' = CommandsWithout(activations, cmds)
      /\ frames' = FramesWithout(frames, cmds)
      /\ waiting' = WaitingWithout(waiting, cmds)
  BY DEF TakeOut, TokensWithout, CommandsWithout, FramesWithout, FrameWithout, WaitingWithout
<1>2. LiveOK(frameTokens, activations, frames, waiting) BY DEF PlacesInv
<1>3. /\ LiveOK(frameTokens', activations', frames', waiting')
      /\ LiveOf(frameTokens', activations', frames', waiting')
           = LiveOf(frameTokens, activations, frames, waiting) \ cmds
      /\ Range(frameTokens') \subseteq Range(frameTokens)
      /\ Range(activations') \subseteq Range(activations)
      /\ Building(frames') <=> Building(frames)
  BY <1>1, <1>2, TakenOut
<1>4. Pending' \subseteq Pending BY <1>3 DEF Pending, Cmds
<1>5. QED BY <1>3, <1>4 DEF Live

LEMMA TakeOutPasses ==
  ASSUME PlacesInv, closing = {}, NEW cmds \in SUBSET Live, TakeOut(cmds),
         NEW outcome \in Outcomes, closing' = Closing(cmds, outcome)
  PROVE  Passes /\ PlacesInv' /\ (Building(frames)' <=> Building(frames))
<1>1. /\ LiveOK(frameTokens, activations, frames, waiting)'
      /\ Live' = Live \ cmds /\ Pending' \subseteq Pending
      /\ Building(frames)' <=> Building(frames)
  BY TakeOutFlow
<1>2. cmds \in SUBSET Commands BY LiveType DEF PlacesInv, Live
<1>3. /\ closing' \in SUBSET [cmd : Commands, outcome : Outcomes] /\ Ending' = cmds
      /\ \A x \in closing' : x.cmd \in cmds
      /\ \A x, y \in closing' : x.cmd = y.cmd => x = y
  BY <1>2, ClosingOK DEF Ending
<1>4. EndOK(closing, Live)' BY <1>1, <1>3 DEF EndOK
<1>5. Ending = {} BY DEF Ending, Cmds
<1>6. Passes BY <1>1, <1>3, <1>5 DEF Passes
<1>7. QED BY <1>1, <1>4, <1>6 DEF PlacesInv

LEMMA TakeOutEnters ==
  ASSUME PlacesInv, closing = {}, NEW cmds \in SUBSET Live, TakeOut(cmds),
         NEW c \in Commands \ Live, NEW outcome \in Outcomes,
         closing' = Closing({c}, outcome) \cup Closing(cmds, "cancelled")
  PROVE  /\ Enters(c) /\ PlacesInv' /\ (Building(frames)' <=> Building(frames))
         /\ c \notin Pending'
<1>1. /\ LiveOK(frameTokens, activations, frames, waiting)'
      /\ Live' = Live \ cmds /\ Pending' \subseteq Pending
      /\ Building(frames)' <=> Building(frames)
  BY TakeOutFlow
<1>2. cmds \in SUBSET Commands /\ {c} \in SUBSET Commands /\ "cancelled" \in Outcomes
  BY LiveType DEF PlacesInv, Live, Outcomes
<1> DEFINE E1 == Closing({c}, outcome)
           E2 == Closing(cmds, "cancelled")
<1>3. /\ E1 \in SUBSET [cmd : Commands, outcome : Outcomes] /\ Cmds(E1) = {c}
      /\ \A x \in E1 : x.cmd \in {c}
      /\ \A x, y \in E1 : x.cmd = y.cmd => x = y
  BY <1>2, ClosingOK
<1>4. /\ E2 \in SUBSET [cmd : Commands, outcome : Outcomes] /\ Cmds(E2) = cmds
      /\ \A x \in E2 : x.cmd \in cmds
      /\ \A x, y \in E2 : x.cmd = y.cmd => x = y
  BY <1>2, ClosingOK
<1>5. closing' = E1 \cup E2 /\ c \notin cmds OBVIOUS
<1> HIDE DEF E1, E2
<1>6. EndOK(closing, Live)'
  <2>1. closing' \in SUBSET [cmd : Commands, outcome : Outcomes] BY <1>3, <1>4, <1>5
  <2>2. \A x, y \in closing' : x.cmd = y.cmd => x = y
    <3>1. \A x \in E1, y \in E2 : x.cmd # y.cmd BY <1>3, <1>4, <1>5
    <3>2. QED BY <1>3, <1>4, <1>5, <3>1
  <2>3. \A x \in closing' : x.cmd \notin Live' BY <1>1, <1>3, <1>4, <1>5
  <2>4. QED BY <2>1, <2>2, <2>3 DEF EndOK
<1>7. Ending = {} BY DEF Ending, Cmds
<1>8. Ending' = {c} \cup cmds
  <2>1. Cmds(E1 \cup E2) = {c} \cup cmds BY <1>3, <1>4, CmdsUnion
  <2>2. QED BY <1>5, <2>1 DEF Ending
<1>9. Enters(c) BY <1>1, <1>7, <1>8 DEF Enters
<1>10. Pending \subseteq Live BY PendingIsLive
<1>11. QED BY <1>1, <1>6, <1>9, <1>10 DEF PlacesInv

-----------------------------------------------------------------------------
(* The runtime's steps, one by one.                                        *)

LEMMA KeepFlow ==
  ASSUME PlacesInv, UNCHANGED <<frameTokens, activations, frames, waiting>>,
         closing' = closing
  PROVE  /\ Passes /\ PlacesInv' /\ (Building(frames)' <=> Building(frames))
         /\ Live' = Live /\ Ending' = Ending /\ Pending' = Pending
<1>1. Live' = Live /\ Ending' = Ending /\ Pending' = Pending BY DEF Live, Ending, Pending
<1>2. QED BY <1>1 DEF PlacesInv, Passes

LEMMA AfterControlPoint ==
  ASSUME PlacesInv
  PROVE  /\ AfterControl = IF Building(frames) THEN "activate" ELSE "collect"
         /\ AfterControl \in TurnPoints \cup FramePoints
<1>1. frames \in Seq(FrameRecords) /\ OpenLast(frames) BY DEF PlacesInv, LiveOK, FramesOK
<1>2. InFrame <=> \E k \in DOMAIN frames : frames[k].stage = "open" BY DEF InFrame, Range
<1>3. frames # <<>> => Len(frames) \in DOMAIN frames BY <1>1, EmptySeq
<1>4. \A k \in DOMAIN frames : frames # <<>> BY <1>1, EmptySeq
<1>5. InFrame <=> Building(frames) BY <1>1, <1>2, <1>3, <1>4 DEF OpenLast, Building
<1>6. QED BY <1>5 DEF AfterControl, TurnPoints, FramePoints

LEMMA FenceFlow == ASSUME FlowInv, Fence PROVE Passes /\ FlowInv'
<1> DEFINE lost == {c \in TokenWork \cup CommandWork : Key(c) \in taken}
<1>1. rt = "fence" /\ TakeOut(lost) /\ EndAll(Closing(lost, "cancelled"), AfterControl)
  BY DEF Fence
<1>2. lost \in SUBSET Live BY LiveIsWork
<1>3. PlacesInv /\ closing = {} /\ "cancelled" \in Outcomes BY <1>1 DEF FlowInv, Control, Outcomes
<1>4. closing' = Closing(lost, "cancelled") BY <1>1 DEF EndAll
<1> HIDE DEF lost
<1>5. Passes /\ PlacesInv' /\ (Building(frames)' <=> Building(frames))
  BY <1>1, <1>2, <1>3, <1>4, TakeOutPasses
<1>6. Control'
  <2> DEFINE next == AfterControl
  <2>1. next = (IF Building(frames) THEN "activate" ELSE "collect")
        /\ next \in TurnPoints \cup FramePoints BY <1>3, AfterControlPoint
  <2>2. EndAll(Closing(lost, "cancelled"), next) BY <1>1
  <2>3. (next \in FramePoints => Building(frames)') /\ (next \in TurnPoints => ~Building(frames)')
    BY <1>5, <2>1 DEF FramePoints, TurnPoints
  <2> HIDE DEF next
  <2>4. QED BY <2>1, <2>2, <2>3, EndAllControl
<1>7. QED BY <1>5, <1>6 DEF FlowInv

(* serviceControl on its own changes no work.                              *)
LEMMA ServiceFlow ==
  ASSUME FlowInv, rt \in {"park", "jobs", "events"}, ServiceControl,
         UNCHANGED <<frameTokens, activations, frames, waiting>>, closing' = closing
  PROVE  Passes /\ FlowInv'
<1>1. PlacesInv /\ closing = {} BY DEF FlowInv, Control
<1>2. Passes /\ PlacesInv' /\ (Building(frames)' <=> Building(frames)) BY <1>1, KeepFlow
<1>3. rt' = "fence" \/ rt' = IF Building(frames) THEN "activate" ELSE "collect"
  BY <1>1, AfterControlPoint DEF ServiceControl
<1>4. Control' BY <1>1, <1>2, <1>3 DEF Control, Point, TurnPoints, FramePoints
<1>5. QED BY <1>2, <1>4 DEF FlowInv

(* A step between two points of a turn outside a frame.                    *)
LEMMA TurnFlow ==
  ASSUME FlowInv, rt \in TurnPoints, rt' \in TurnPoints,
         UNCHANGED <<frameTokens, activations, frames, waiting>>, closing' = closing
  PROVE  Passes /\ FlowInv'
<1>1. PlacesInv /\ closing = {} /\ ~Building(frames) BY DEF FlowInv, Control, Point, TurnPoints
<1>2. Passes /\ PlacesInv' /\ (Building(frames)' <=> Building(frames)) BY <1>1, KeepFlow
<1>3. Control' BY <1>1, <1>2 DEF Control, Point, TurnPoints, FramePoints
<1>4. QED BY <1>2, <1>3 DEF FlowInv

(* A step that leaves the runtime thread and the work alone.               *)
LEMMA AsideFlow ==
  ASSUME FlowInv, UNCHANGED <<frameTokens, activations, frames, waiting>>, closing' = closing,
         rt' = rt, ret' = ret
  PROVE  Passes /\ FlowInv'
<1>1. Passes /\ PlacesInv' /\ (Building(frames)' <=> Building(frames)) BY KeepFlow DEF FlowInv
<1>2. Control' BY <1>1 DEF FlowInv, Control, Point
<1>3. QED BY <1>1, <1>2 DEF FlowInv

LEMMA CompleteFlow ==
  ASSUME FlowInv, NEW x, CompleteOne(x)
  PROVE  Leaves(x) /\ Live' \cup Ending' \cup {x.cmd} = Live \cup Ending /\ FlowInv'
         /\ x \in closing /\ x.cmd \notin Live' \cup Ending'
<1>1. /\ rt = "closing" /\ x \in closing /\ EndAll(closing \ {x}, ret)
      /\ UNCHANGED <<frameTokens, activations, frames, waiting>>
  BY DEF CompleteOne
<1>2. closing' = closing \ {x} BY <1>1 DEF EndAll
<1>3. Live' = Live /\ Pending' = Pending BY <1>1 DEF Live, Pending
<1>4. LiveOK(frameTokens, activations, frames, waiting) /\ EndOK(closing, Live) BY DEF FlowInv, PlacesInv
<1>5. EndOK(closing, Live)' BY <1>2, <1>3, <1>4 DEF EndOK
<1>6. PlacesInv' BY <1>1, <1>4, <1>5 DEF PlacesInv
<1>7. Control'
  <2>1. /\ ret \in TurnPoints \cup FramePoints
        /\ ret \in FramePoints => Building(frames)
        /\ ret \in TurnPoints => ~Building(frames)
    BY <1>1 DEF FlowInv, Control, Point
  <2>2. Building(frames)' <=> Building(frames) BY <1>1
  <2>3. QED BY <1>1, <2>1, <2>2, EndAllControl
<1>8. x.cmd \notin Live /\ \A y \in closing' : y.cmd # x.cmd BY <1>1, <1>2, <1>4 DEF EndOK
<1>9. Ending' \cup {x.cmd} = Ending /\ x.cmd \notin Ending'
  <2>1. \A c : c \in Ending' <=> \E y \in closing' : c = y.cmd BY DEF Ending, Cmds
  <2>2. \A c : c \in Ending <=> \E y \in closing : c = y.cmd BY DEF Ending, Cmds
  <2>3. x.cmd \notin Ending' BY <1>8, <2>1
  <2>4. ASSUME NEW c PROVE c \in Ending <=> c \in Ending' \/ c = x.cmd
    BY <1>1, <1>2, <2>1, <2>2
  <2>5. QED BY <2>3, <2>4
<1>10. QED BY <1>1, <1>2, <1>3, <1>6, <1>7, <1>8, <1>9 DEF Leaves, FlowInv

(* What is left of the work when some of it goes is still in order.        *)
LEMMA FewerOK ==
  ASSUME NEW q, NEW a, NEW fs, NEW w, LiveOK(q, a, fs, w), NEW q2, NEW a2, NEW fs2, NEW w2,
         q2 \in Seq(Commands), IsInjective(q2), Range(q2) \subseteq Range(q),
         a2 \in Seq(PendingCommands), IsInjective(a2), Range(a2) \subseteq Range(a),
         FramesOK(fs2), TokensOf(fs2) \subseteq TokensOf(fs),
         CommandsOf(fs2) \cup w2 \subseteq CommandsOf(fs) \cup w,
         CommandsOf(fs2) = {} \/ w2 = {}
  PROVE  LiveOK(q2, a2, fs2, w2)
<1>1. CommandsOf(fs) \cup w \in SUBSET PendingCommands
  <2>1. CommandsOf(fs) \in SUBSET PendingCommands BY LiveType
  <2>2. w \in SUBSET PendingCommands BY DEF LiveOK
  <2>3. QED BY <2>1, <2>2
<1>2. w2 \in SUBSET PendingCommands BY <1>1
<1>3. QED BY <1>2 DEF LiveOK

LEMMA SameLive ==
  ASSUME NEW q, NEW a, NEW fs, NEW w, LiveOK(q, a, fs, w), NEW gs, FramesOK(gs),
         TokensOf(gs) = TokensOf(fs), CommandsOf(gs) = CommandsOf(fs)
  PROVE  LiveOK(q, a, gs, w) /\ LiveOf(q, a, gs, w) = LiveOf(q, a, fs, w)
BY DEF LiveOK, LiveOf

Dropped(fs, w, fs2, w2, T, P) ==
  /\ T \in SUBSET TokensOf(fs) /\ P \in SUBSET (CommandsOf(fs) \cup w)
  /\ TokensOf(fs2) = TokensOf(fs) \ T
  /\ CommandsOf(fs2) \cup w2 = (CommandsOf(fs) \cup w) \ P

LEMMA DropLive ==
  ASSUME NEW q, NEW a, NEW fs, NEW w, LiveOK(q, a, fs, w), NEW fs2, NEW w2, NEW T, NEW P,
         Dropped(fs, w, fs2, w2, T, P)
  PROVE  /\ LiveOf(q, a, fs2, w2) = LiveOf(q, a, fs, w) \ (T \cup Cmds(P))
         /\ T \cup Cmds(P) \in SUBSET LiveOf(q, a, fs, w)
         /\ T \cap Cmds(P) = {}
<1> DEFINE R == CommandsOf(fs) \cup w
           A == Range(a)
<1>0. /\ \A c \in Range(q) \cup TokensOf(fs) : c.m \in TimeMethods
      /\ \A p \in A \cup R : p.cmd.m = "execute"
      /\ \A p, r \in R : p = r
      /\ Range(q) \cap TokensOf(fs) = {}
      /\ \A p \in A, r \in R : p.cmd # r.cmd
  BY DEF LiveOK
<1> USE DEF Dropped
<1>1. "execute" \notin TimeMethods BY DEF TimeMethods
<1> HIDE DEF R, A
<1>2. /\ LiveOf(q, a, fs, w) = (Range(q) \cup TokensOf(fs)) \cup Cmds(A \cup R)
      /\ LiveOf(q, a, fs2, w2) = (Range(q) \cup TokensOf(fs2)) \cup Cmds(A \cup (R \ P))
  <2>1. A \cup R = Range(a) \cup CommandsOf(fs) \cup w BY DEF A, R
  <2>2. A \cup (R \ P) = Range(a) \cup CommandsOf(fs2) \cup w2 BY DEF A, R
  <2>3. QED BY <2>1, <2>2 DEF LiveOf
<1>3. P \in SUBSET R BY DEF R
<1>4. ASSUME NEW c PROVE c \in Cmds(A \cup (R \ P)) <=> c \in Cmds(A \cup R) /\ c \notin Cmds(P)
  <2>1. ASSUME c \in Cmds(A \cup (R \ P)) PROVE c \in Cmds(A \cup R) /\ c \notin Cmds(P)
    <3>1. PICK p \in A \cup (R \ P) : c = p.cmd BY <2>1, InCmds
    <3>2. c \in Cmds(A \cup R) BY <3>1, InCmds
    <3>3. ASSUME NEW r \in P, c = r.cmd PROVE FALSE
      <4>1. r \in R BY <1>3
      <4>2. p \notin A BY <1>0, <3>1, <3>3, <4>1
      <4>3. QED BY <1>0, <3>1, <4>1, <4>2
    <3>4. QED BY <3>2, <3>3, InCmds
  <2>2. ASSUME c \in Cmds(A \cup R), c \notin Cmds(P) PROVE c \in Cmds(A \cup (R \ P))
    <3>1. PICK p \in A \cup R : c = p.cmd BY <2>2, InCmds
    <3>2. p \notin P BY <2>2, <3>1, InCmds
    <3>3. QED BY <3>1, <3>2, InCmds
  <2>3. QED BY <2>1, <2>2
<1>5. \A c \in Cmds(A \cup R) : c.m = "execute" BY <1>0, InCmds
<1>6. \A c \in Cmds(P) : c \in Cmds(A \cup R) BY <1>3, InCmds
<1>7. ASSUME NEW c \in Range(q) \cup TokensOf(fs) PROVE c \notin Cmds(A \cup R) /\ c \notin Cmds(P)
  BY <1>0, <1>1, <1>5, <1>6
<1>8. LiveOf(q, a, fs2, w2) = LiveOf(q, a, fs, w) \ (T \cup Cmds(P))
  <2>1. ASSUME NEW c
        PROVE  c \in LiveOf(q, a, fs2, w2) <=> c \in LiveOf(q, a, fs, w) \ (T \cup Cmds(P))
    BY <1>0, <1>2, <1>4, <1>7
  <2>2. QED BY <2>1
<1>9. T \cup Cmds(P) \in SUBSET LiveOf(q, a, fs, w) BY <1>2, <1>6
<1>10. T \cap Cmds(P) = {} BY <1>7
<1>11. QED BY <1>8, <1>9, <1>10

LEMMA EndUnion ==
  ASSUME NEW E1 \in SUBSET [cmd : Commands, outcome : Outcomes],
         NEW E2 \in SUBSET [cmd : Commands, outcome : Outcomes],
         \A x, y \in E1 : x.cmd = y.cmd => x = y,
         \A x, y \in E2 : x.cmd = y.cmd => x = y,
         Cmds(E1) \cap Cmds(E2) = {},
         NEW live, (Cmds(E1) \cup Cmds(E2)) \cap live = {}
  PROVE  EndOK(E1 \cup E2, live)
<1>1. (\A x \in E1 : x.cmd \in Cmds(E1)) /\ (\A x \in E2 : x.cmd \in Cmds(E2)) BY InCmds
<1>2. \A x \in E1, y \in E2 : x.cmd # y.cmd BY <1>1
<1>3. QED BY <1>1, <1>2 DEF EndOK

LEMMA StagedMin ==
  ASSUME PlacesInv, NEW stage, Staged(stage) # {}
  PROVE  Min(Staged(stage)) \in DOMAIN frames /\ frames[Min(Staged(stage))].stage = stage
<1> DEFINE S == Staged(stage)
<1>1. frames \in Seq(FrameRecords) BY DEF PlacesInv, LiveOK, FramesOK
<1>2. S \in SUBSET DOMAIN frames /\ \A k \in S : frames[k].stage = stage BY DEF Staged
<1>3. S \in SUBSET Nat BY <1>1, <1>2
<1> HIDE DEF S
<1>4. PICK k \in S : \A j \in S : k <= j BY <1>3, Least DEF S
<1>5. Min(S) \in S BY <1>4 DEF Min
<1>6. QED BY <1>2, <1>5 DEF S

LEMMA RenderDoneFlow == ASSUME FlowInv, RenderDone PROVE Passes /\ FlowInv'
<1>1. PICK k : k = Min(Staged("sent")) OBVIOUS
<1>2. k \in DOMAIN frames /\ frames[k].stage = "sent" BY <1>1, StagedMin DEF FlowInv, RenderDone
<1>3. /\ frames' = IF frames[k].token \cup frames[k].commands = {} THEN RemoveAt(frames, k)
                   ELSE [frames EXCEPT ![k].stage = "acked"]
      /\ UNCHANGED <<frameTokens, activations, waiting, closing, rt, ret>>
  BY <1>1 DEF RenderDone
<1>4. /\ LiveOK(frameTokens, activations, frames, waiting) /\ FramesOK(frames)
      /\ frames \in Seq(FrameRecords)
  BY DEF FlowInv, PlacesInv, LiveOK, FramesOK
<1>5. /\ FramesOK(frames') /\ TokensOf(frames') = TokensOf(frames)
      /\ CommandsOf(frames') = CommandsOf(frames) /\ (Building(frames') <=> Building(frames))
  <2>1. CASE frames[k].token \cup frames[k].commands = {}
    <3>1. frames' = RemoveAt(frames, k) /\ frames[k].token = {} /\ frames[k].commands = {}
      BY <1>3, <2>1
    <3>2. "sent" # "open" OBVIOUS
    <3>3. /\ FramesOK(frames') /\ TokensOf(frames') = TokensOf(frames) \ {}
          /\ CommandsOf(frames') = CommandsOf(frames) \ {}
          /\ Building(frames') <=> Building(frames)
      BY <1>2, <1>4, <3>1, <3>2, RemoveFrame
    <3>4. QED BY <3>3
  <2>2. CASE frames[k].token \cup frames[k].commands # {}
    <3> DEFINE h == [frames[k] EXCEPT !.stage = "acked"]
    <3>1. frames' = Replaced(frames, k, h) BY <1>3, <2>2 DEF Replaced
    <3>2. frames[k] \in FrameRecords BY <1>2, <1>4
    <3>3. h \in FrameRecords /\ h.token = frames[k].token /\ h.commands = frames[k].commands
          /\ h.stage = "acked"
      BY <3>2 DEF FrameRecords
    <3>4. h.commands # {} => \A j \in DOMAIN frames : j # k => frames[j].commands = {}
      BY <1>2, <1>4, <3>3 DEF FramesOK, Apart
    <3>5. frames[k].commands \subseteq CommandsOf(frames) BY <1>2, InFrames
    <3> HIDE DEF h
    <3>6. /\ FramesOK(frames') /\ TokensOf(frames') = TokensOf(frames)
          /\ CommandsOf(frames') = (CommandsOf(frames) \ frames[k].commands) \cup h.commands
          /\ Building(frames') <=> Building(frames)
      <4>1. (h.stage = "open" => frames[k].stage = "open") /\ frames[k].stage # "open" BY <1>2, <3>3
      <4>2. QED BY <1>2, <1>4, <3>1, <3>3, <3>4, <4>1, ReplaceFrame
    <3>7. QED BY <3>3, <3>5, <3>6
  <2>3. QED BY <2>1, <2>2
<1>6. /\ LiveOK(frameTokens, activations, frames', waiting)
      /\ LiveOf(frameTokens, activations, frames', waiting) = Live
  BY <1>4, <1>5, SameLive DEF Live
<1>7. Live' = Live /\ Ending' = Ending /\ Pending' = Pending BY <1>3, <1>6 DEF Live, Ending, Pending
<1>8. PlacesInv' BY <1>3, <1>6, <1>7 DEF FlowInv, PlacesInv
<1>9. Control' BY <1>3, <1>5 DEF FlowInv, Control, Point
<1>10. QED BY <1>7, <1>8, <1>9 DEF Passes, FlowInv

LEMMA RenderCompletionFlow ==
  ASSUME FlowInv, NEW ready \in BOOLEAN, RenderCompletion(ready)
  PROVE  Passes /\ FlowInv'
<1>1. PICK k : k = Min(Staged("acked")) OBVIOUS
<1>2. rt \in {"park", "collect"} /\ Staged("acked") # {} BY DEF RenderCompletion
<1>3. k \in DOMAIN frames /\ frames[k].stage = "acked" BY <1>1, <1>2, StagedMin DEF FlowInv
<1>4. PICK f : f = frames[k] OBVIOUS
<1>5. PICK ended : ended = {p \in f.commands : CommandOutcome(p, ready) # None} OBVIOUS
<1>6. PICK outcome : outcome = (IF ready THEN "done" ELSE "failed") OBVIOUS
<1> DEFINE E1 == {[cmd |-> p.cmd, outcome |-> CommandOutcome(p, ready)] : p \in ended}
           E2 == Closing(f.token, outcome)
<1>7. /\ frames' = RemoveAt(frames, k)
      /\ waiting' = waiting \cup (f.commands \ ended)
      /\ EndAll(E1 \cup E2, rt)
      /\ UNCHANGED <<frameTokens, activations>>
  BY <1>1, <1>4, <1>5, <1>6 DEF RenderCompletion
<1>8. /\ PlacesInv /\ LiveOK(frameTokens, activations, frames, waiting) /\ FramesOK(frames)
      /\ closing = {} /\ ~Building(frames)
  BY <1>2 DEF FlowInv, PlacesInv, LiveOK, Control, Point, TurnPoints
<1>9. /\ FramesOK(frames') /\ TokensOf(frames') = TokensOf(frames) \ f.token
      /\ CommandsOf(frames') = CommandsOf(frames) \ f.commands
      /\ ~Building(frames')
  BY <1>3, <1>4, <1>7, <1>8, RemoveFrame
<1>10. f.token \in SUBSET TokensOf(frames) /\ f.commands \in SUBSET CommandsOf(frames)
  BY <1>3, <1>4, InFrames
<1>11. TokensOf(frames) \in SUBSET Commands /\ CommandsOf(frames) \in SUBSET PendingCommands
  BY <1>8, LiveType
<1>12. /\ \A p, r \in CommandsOf(frames) \cup waiting : p = r
       /\ CommandsOf(frames) = {} \/ waiting = {}
       /\ frameTokens \in Seq(Commands) /\ IsInjective(frameTokens)
       /\ activations \in Seq(PendingCommands) /\ IsInjective(activations)
  BY <1>8 DEF LiveOK
<1>13. ended \in SUBSET f.commands BY <1>5
<1>14. CommandsOf(frames') \cup waiting' = (CommandsOf(frames) \cup waiting) \ ended
  BY <1>7, <1>9, <1>10, <1>12, <1>13
<1>15. CommandsOf(frames') = {} \/ waiting' = {}
  BY <1>7, <1>9, <1>10, <1>12, <1>13
<1>16. LiveOK(frameTokens, activations, frames', waiting')
  BY <1>8, <1>9, <1>12, <1>14, <1>15, FewerOK
<1>17. ended \in SUBSET (CommandsOf(frames) \cup waiting) BY <1>10, <1>13
<1>18. /\ LiveOf(frameTokens, activations, frames', waiting') = Live \ (f.token \cup Cmds(ended))
       /\ f.token \cup Cmds(ended) \in SUBSET Live /\ f.token \cap Cmds(ended) = {}
  <2> DEFINE T == f.token
  <2>1. T \in SUBSET TokensOf(frames) /\ TokensOf(frames') = TokensOf(frames) \ T BY <1>9, <1>10
  <2> HIDE DEF T
  <2>2. /\ LiveOf(frameTokens, activations, frames', waiting')
             = LiveOf(frameTokens, activations, frames, waiting) \ (T \cup Cmds(ended))
        /\ T \cup Cmds(ended) \in SUBSET LiveOf(frameTokens, activations, frames, waiting)
        /\ T \cap Cmds(ended) = {}
    <3>1. Dropped(frames, waiting, frames', waiting', T, ended) BY <1>14, <1>17, <2>1 DEF Dropped
    <3>2. QED BY <1>8, <3>1, DropLive
  <2>3. QED BY <2>2 DEF Live, T
<1>19. /\ E2 \in SUBSET [cmd : Commands, outcome : Outcomes] /\ Cmds(E2) = f.token
       /\ \A x, y \in E2 : x.cmd = y.cmd => x = y
  <2>1. f.token \in SUBSET Commands /\ outcome \in Outcomes BY <1>6, <1>10, <1>11 DEF Outcomes
  <2>2. QED BY <2>1, ClosingOK
<1>20. /\ E1 \in SUBSET [cmd : Commands, outcome : Outcomes] /\ Cmds(E1) = Cmds(ended)
       /\ \A x, y \in E1 : x.cmd = y.cmd => x = y
  <2>1. ASSUME NEW p \in ended PROVE p.cmd \in Commands /\ CommandOutcome(p, ready) \in Outcomes
    <3>1. p \in PendingCommands BY <1>10, <1>11, <1>13, <2>1
    <3>2. CommandOutcome(p, ready) \in {"failed", "done", None} BY DEF CommandOutcome
    <3>3. CommandOutcome(p, ready) # None BY <1>5, <2>1
    <3>4. QED BY <3>1, <3>2, <3>3 DEF PendingCommands, Outcomes
  <2>2. \A p, r \in ended : p = r BY <1>12, <1>17
  <2>3. \A x : x \in E1 <=> \E p \in ended : x = [cmd |-> p.cmd, outcome |-> CommandOutcome(p, ready)]
    OBVIOUS
  <2> HIDE DEF E1
  <2>4. ASSUME NEW c PROVE c \in Cmds(E1) <=> c \in Cmds(ended)
    <3>1. ASSUME NEW x \in E1 PROVE \E p \in ended : x.cmd = p.cmd BY <2>3
    <3>2. ASSUME NEW p \in ended PROVE \E x \in E1 : p.cmd = x.cmd
      <4>1. [cmd |-> p.cmd, outcome |-> CommandOutcome(p, ready)] \in E1 BY <2>3
      <4>2. QED BY <4>1
    <3>3. QED BY <3>1, <3>2, InCmds
  <2>5. Cmds(E1) = Cmds(ended) BY <2>4
  <2>6. \A x \in E1 : x \in [cmd : Commands, outcome : Outcomes] BY <2>1, <2>3
  <2>7. \A x, y \in E1 : x = y BY <2>2, <2>3
  <2>8. QED BY <2>5, <2>6, <2>7
<1> HIDE DEF E1, E2
<1>21. EndOK(E1 \cup E2, Live \ (f.token \cup Cmds(ended))) BY <1>18, <1>19, <1>20, EndUnion
<1>22. closing' = E1 \cup E2 BY <1>7 DEF EndAll
<1>23. Live' = Live \ (f.token \cup Cmds(ended)) BY <1>7, <1>18 DEF Live
<1>24. PlacesInv' BY <1>7, <1>16, <1>21, <1>22, <1>23 DEF PlacesInv
<1>25. Ending' = f.token \cup Cmds(ended) /\ Ending = {}
  <2>1. Cmds(E1 \cup E2) = f.token \cup Cmds(ended) BY <1>19, <1>20, CmdsUnion
  <2>2. QED BY <1>8, <1>22, <2>1 DEF Ending, Cmds
<1>26. Passes BY <1>7, <1>18, <1>23, <1>25 DEF Passes, Pending
<1>27. Control'
  <2>1. rt \in TurnPoints \cup FramePoints /\ rt \notin FramePoints BY <1>2 DEF TurnPoints, FramePoints
  <2>2. ~Building(frames)' BY <1>9
  <2>3. QED BY <1>7, <2>1, <2>2, EndAllControl
<1>28. QED BY <1>24, <1>26, <1>27 DEF FlowInv

-----------------------------------------------------------------------------
(* Admission.  A new operation has an ID above every one that is known.    *)

Known == \A c \in Live \cup Ending : c.id <= ledger[c.s].highWater
Unique == \A c, d \in Live \cup Ending : c.s = d.s /\ c.id = d.id => c = d

LEMMA NewIsUnknown ==
  ASSUME IInv, Known, NEW c \in Commands, Admissible(c)
  PROVE  c \notin Live \cup Ending
<1>1. c.id = ledger[c.s].highWater + 1 BY DEF Admissible, NextID
<1>2. c.s \in Sessions BY DEF Commands
<1>3. ledger[c.s].highWater \in Nat BY <1>2 DEF IInv, LedgersShaped, Shape
<1>4. QED BY <1>1, <1>3 DEF Known

(* A request that is answered at once.                                     *)
LEMMA AtOnceFlow ==
  ASSUME FlowInv, rt = "admit", NEW c \in Commands, c \notin Live, NEW outcome \in Outcomes,
         EndAll(Closing({c}, outcome) \cup {}, "admit"),
         UNCHANGED <<frameTokens, activations, frames, waiting>>
  PROVE  Enters(c) /\ FlowInv' /\ c \notin Pending'
<1>1. /\ PlacesInv /\ LiveOK(frameTokens, activations, frames, waiting)
      /\ closing = {} /\ ~Building(frames)
  BY DEF FlowInv, PlacesInv, Control, Point, TurnPoints
<1>2. closing' = Closing({c}, outcome) BY DEF EndAll
<1>3. /\ closing' \in SUBSET [cmd : Commands, outcome : Outcomes] /\ Cmds(closing') = {c}
      /\ \A x \in closing' : x.cmd \in {c}
      /\ \A x, y \in closing' : x.cmd = y.cmd => x = y
  <2>1. {c} \in SUBSET Commands OBVIOUS
  <2>2. QED BY <1>2, <2>1, ClosingOK
<1>4. Live' = Live /\ Pending' = Pending /\ Building(frames)' = Building(frames) BY DEF Live, Pending
<1>5. Ending' = {c} /\ Ending = {} BY <1>1, <1>3 DEF Ending, Cmds
<1>6. EndOK(closing, Live)' BY <1>3, <1>4 DEF EndOK
<1>7. PlacesInv' BY <1>1, <1>6 DEF PlacesInv
<1>8. Control' BY <1>1, <1>4, EndAllControl DEF TurnPoints, FramePoints
<1>9. Pending \subseteq Live BY PendingIsLive
<1>10. QED BY <1>4, <1>5, <1>7, <1>8, <1>9 DEF Enters, FlowInv

LEMMA ExecuteFlow ==
  ASSUME FlowInv, NEW c \in Commands, c \notin Live \cup Ending, AdmitExecute(c)
  PROVE  Enters(c) /\ FlowInv'
<1> DEFINE p == [cmd |-> c, jobs |-> 0, failed |-> FALSE]
           R == CommandsOf(frames) \cup waiting
<1>1. /\ activations' = Append(activations, p) /\ c.m = "execute"
      /\ UNCHANGED <<frameTokens, frames, waiting, closing, rt, ret>>
  BY DEF AdmitExecute
<1>2. /\ LiveOK(frameTokens, activations, frames, waiting) /\ EndOK(closing, Live)
  BY DEF FlowInv, PlacesInv
<1>3. p \in PendingCommands /\ p.cmd = c /\ p = [cmd |-> p.cmd, jobs |-> 0, failed |-> FALSE]
  BY PortAssumption DEF PendingCommands
<1> HIDE DEF p
<1>4. \A r \in Range(activations) \cup R : r.cmd # c
  <2>1. \A r \in Range(activations) \cup CommandsOf(frames) \cup waiting : r.cmd \in Live
    BY InCmds DEF Live, LiveOf
  <2>2. QED BY <2>1
<1>5. activations \in Seq(PendingCommands) /\ IsInjective(activations) BY <1>2 DEF LiveOK
<1>6. p \notin Range(activations) BY <1>3, <1>4
<1>7. /\ activations' \in Seq(PendingCommands) /\ IsInjective(activations')
      /\ Range(activations') = Range(activations) \cup {p}
  BY <1>1, <1>3, <1>5, <1>6, AppendSeq
<1>8. LiveOK(frameTokens, activations', frames, waiting)
  BY <1>1, <1>2, <1>3, <1>4, <1>7 DEF LiveOK
<1>9. Cmds(Range(activations')) = Cmds(Range(activations)) \cup {c}
  <2>1. Cmds({p}) = {c} BY <1>3, InCmds
  <2>2. QED BY <1>7, <2>1, CmdsUnion
<1>10. Live' = Live \cup {c}
  <2>1. Range(activations') \cup CommandsOf(frames) \cup waiting = Range(activations') \cup R OBVIOUS
  <2>2. Range(activations) \cup CommandsOf(frames) \cup waiting = Range(activations) \cup R OBVIOUS
  <2> HIDE DEF R
  <2>3. Cmds(Range(activations') \cup R) = Cmds(Range(activations')) \cup Cmds(R) BY CmdsUnion
  <2>4. Cmds(Range(activations) \cup R) = Cmds(Range(activations)) \cup Cmds(R) BY CmdsUnion
  <2>5. QED BY <1>1, <1>9, <2>1, <2>2, <2>3, <2>4 DEF Live, LiveOf
<1>11. Ending' = Ending /\ Pending' = Pending \cup {c} BY <1>1, <1>9 DEF Ending, Pending
<1>12. EndOK(closing, Live)'
  <2>1. \A x \in closing : x.cmd # c BY InCmds DEF Ending
  <2>2. QED BY <1>1, <1>2, <1>10, <2>1 DEF EndOK
<1>13. PlacesInv' BY <1>1, <1>8, <1>12 DEF PlacesInv
<1>14. Control' BY <1>1 DEF FlowInv, Control, Point
<1>15. QED BY <1>10, <1>11, <1>13, <1>14 DEF Enters, FlowInv

LEMMA DeferredFlow ==
  ASSUME FlowInv, NEW c \in Commands, c \notin Live \cup Ending, AdmitTimeDeferred(c)
  PROVE  Enters(c) /\ FlowInv'
<1>1. /\ frameTokens' = Append(frameTokens, c) /\ c.m \in TimeMethods
      /\ UNCHANGED <<activations, frames, waiting, closing, rt, ret>>
  BY DEF AdmitTimeDeferred
<1>2. /\ LiveOK(frameTokens, activations, frames, waiting) /\ EndOK(closing, Live)
  BY DEF FlowInv, PlacesInv
<1>3. c \notin Range(frameTokens) /\ c \notin TokensOf(frames) BY DEF Live, LiveOf
<1>4. frameTokens \in Seq(Commands) /\ IsInjective(frameTokens) BY <1>2 DEF LiveOK
<1>5. /\ frameTokens' \in Seq(Commands) /\ IsInjective(frameTokens')
      /\ Range(frameTokens') = Range(frameTokens) \cup {c}
  BY <1>1, <1>3, <1>4, AppendSeq
<1>6. LiveOK(frameTokens', activations, frames, waiting) BY <1>1, <1>2, <1>3, <1>5 DEF LiveOK
<1>7. Live' = Live \cup {c} /\ Ending' = Ending /\ Pending' = Pending \cup {c}
  BY <1>1, <1>5 DEF Live, LiveOf, Ending, Pending
<1>8. EndOK(closing, Live)'
  <2>1. \A x \in closing : x.cmd # c BY InCmds DEF Ending
  <2>2. QED BY <1>1, <1>2, <1>7, <2>1 DEF EndOK
<1>9. PlacesInv' BY <1>1, <1>6, <1>8 DEF PlacesInv
<1>10. Control' BY <1>1 DEF FlowInv, Control, Point
<1>11. QED BY <1>7, <1>9, <1>10 DEF Enters, FlowInv

(* op.cancel and session.revoke end a set of live operations as they are   *)
(* answered.                                                               *)
LEMMA CancellingFlow ==
  ASSUME FlowInv, rt = "admit", NEW c \in Commands, c \notin Live, NEW outcome \in Outcomes,
         NEW cmds \in SUBSET Live, TakeOut(cmds),
         EndAll(Closing({c}, outcome) \cup Closing(cmds, "cancelled"), "admit")
  PROVE  Enters(c) /\ FlowInv' /\ c \notin Pending'
<1>1. PlacesInv /\ closing = {} /\ ~Building(frames) BY DEF FlowInv, Control, Point, TurnPoints
<1>2. closing' = Closing({c}, outcome) \cup Closing(cmds, "cancelled") BY DEF EndAll
<1>3. /\ Enters(c) /\ PlacesInv' /\ (Building(frames)' <=> Building(frames))
      /\ c \notin Pending'
  BY <1>1, <1>2, TakeOutEnters
<1>4. Control'
  <2>1. "admit" \in TurnPoints \cup FramePoints /\ "admit" \notin FramePoints
    BY DEF TurnPoints, FramePoints
  <2>2. ~Building(frames)' BY <1>1, <1>3
  <2> DEFINE E == Closing({c}, outcome) \cup Closing(cmds, "cancelled")
  <2> HIDE DEF E
  <2>3. EndAll(E, "admit") BY DEF E
  <2>4. QED BY <2>1, <2>2, <2>3, EndAllControl
<1>5. QED BY <1>3, <1>4 DEF FlowInv

LEMMA ReadFlow ==
  ASSUME FlowInv, NEW c \in Commands, c \notin Live, NEW outcome \in {"done", "failed"},
         AdmitRead(c, outcome)
  PROVE  Enters(c) /\ FlowInv' /\ c \notin Pending'
BY AtOnceFlow DEF AdmitRead, AnswerAtOnce, AtHead, workVars, Outcomes

LEMMA TimeAtOnceFlow ==
  ASSUME FlowInv, NEW c \in Commands, c \notin Live, AdmitTimeAtOnce(c)
  PROVE  Enters(c) /\ FlowInv' /\ c \notin Pending'
<1>1. PICK outcome \in {"done", "failed"} : outcome = IF TimeRefused(c) THEN "failed" ELSE "done"
  OBVIOUS
<1>2. /\ rt = "admit" /\ EndAll(Closing({c}, outcome) \cup {}, "admit")
      /\ UNCHANGED <<frameTokens, activations, frames, waiting>>
  BY <1>1 DEF AdmitTimeAtOnce, AnswerAtOnce, AtHead, workVars
<1>3. outcome \in Outcomes BY DEF Outcomes
<1>4. QED BY <1>2, <1>3, AtOnceFlow

LEMMA CancelFlow ==
  ASSUME FlowInv, NEW c \in Commands, c \notin Live, AdmitCancel(c)
  PROVE  Enters(c) /\ FlowInv' /\ c \notin Pending'
<1> DEFINE l == Claim(ledger[c.s], c.id, c.m)
           named == {w \in TokenWork \cup CommandWork : w.s = c.s /\ w.id = CancelTarget}
<1>1. PICK live : live = IF Open(l, CancelTarget) THEN named ELSE {} OBVIOUS
<1>2. PICK outcome \in {"done", "failed"} :
        outcome = IF CancelTarget \in DOMAIN l.entries THEN "done" ELSE "failed"
  OBVIOUS
<1>3. /\ rt = "admit" /\ TakeOut(live)
      /\ EndAll(Closing({c}, outcome) \cup Closing(live, "cancelled"), "admit")
  BY <1>1, <1>2 DEF AdmitCancel, AnswerAtOnce, AtHead
<1>4. live \in SUBSET Live BY <1>1, LiveIsWork
<1>5. outcome \in Outcomes BY DEF Outcomes
<1>6. QED BY <1>3, <1>4, <1>5, CancellingFlow

LEMMA RevokeFlow ==
  ASSUME FlowInv, NEW c \in Commands, c \notin Live, AdmitRevoke(c)
  PROVE  Enters(c) /\ FlowInv' /\ c \notin Pending'
<1>1. PICK live : live = {w \in TokenWork \cup CommandWork : w.s = RevokeTarget} OBVIOUS
<1>2. rt = "admit" BY DEF AdmitRevoke, AtHead
<1>3. CASE InTable(RevokeTarget)
  <2>1. TakeOut(live) /\ EndAll(Closing({c}, "done") \cup Closing(live, "cancelled"), "admit")
    BY <1>1, <1>3 DEF AdmitRevoke, AnswerAtOnce
  <2>2. live \in SUBSET Live /\ "done" \in Outcomes BY <1>1, LiveIsWork DEF Outcomes
  <2>3. QED BY <1>2, <2>1, <2>2, CancellingFlow
<1>4. CASE ~InTable(RevokeTarget)
  <2>1. /\ EndAll(Closing({c}, "failed") \cup {}, "admit")
        /\ UNCHANGED <<frameTokens, activations, frames, waiting>>
    BY <1>4 DEF AdmitRevoke, AnswerAtOnce
  <2>2. "failed" \in Outcomes BY DEF Outcomes
  <2>3. QED BY <1>2, <2>1, <2>2, AtOnceFlow
<1>5. QED BY <1>3, <1>4

-----------------------------------------------------------------------------
(* Frames.                                                                 *)

(* The time operation whose frame is started leaves its queue.             *)
LEMMA TokenLeaves ==
  ASSUME FlowInv, frameTokens # <<>>
  PROVE  LET c == Head(frameTokens)
             q2 == Tail(frameTokens)
         IN /\ c \in Commands /\ c \in Range(frameTokens) /\ c \notin TokensOf(frames)
            /\ q2 \in Seq(Commands) /\ IsInjective(q2) /\ Range(q2) = Range(frameTokens) \ {c}
            /\ c \in Pending /\ c \in Live
            /\ Range(q2) \cup Cmds(Range(activations)) = Pending \ {c}
            /\ LiveOK(q2, activations, frames, waiting)
            /\ LiveOf(q2, activations, frames, waiting) = Live \ {c}
<1> DEFINE c == Head(frameTokens)
           q2 == Tail(frameTokens)
           R == Range(activations) \cup CommandsOf(frames) \cup waiting
<1>1. LiveOK(frameTokens, activations, frames, waiting) BY DEF FlowInv, PlacesInv
<1>2. /\ frameTokens \in Seq(Commands) /\ IsInjective(frameTokens) /\ FramesOK(frames)
      /\ activations \in Seq(PendingCommands) /\ IsInjective(activations)
      /\ Range(frameTokens) \cap TokensOf(frames) = {}
      /\ CommandsOf(frames) = {} \/ waiting = {}
      /\ \A d \in Range(frameTokens) : d.m \in TimeMethods
      /\ \A p \in R : p.cmd.m = "execute"
  BY <1>1 DEF LiveOK
<1>3. /\ c \in Range(frameTokens) /\ c \in Commands /\ q2 \in Seq(Commands) /\ IsInjective(q2)
      /\ Range(q2) = Range(frameTokens) \ {c}
  BY <1>2, TailSeq
<1> HIDE DEF c, q2
<1>4. c \notin Cmds(R) /\ c \notin Cmds(Range(activations))
  <2>1. "execute" \notin TimeMethods BY DEF TimeMethods
  <2>2. QED BY <1>2, <1>3, <2>1, InCmds
<1>5. LiveOK(q2, activations, frames, waiting)
  <2>1. Range(q2) \subseteq Range(frameTokens) BY <1>3
  <2>2. QED BY <1>1, <1>2, <1>3, <2>1, FewerOK
<1>6. LiveOf(q2, activations, frames, waiting) = Live \ {c}
  BY <1>2, <1>3, <1>4 DEF Live, LiveOf
<1>7. Range(q2) \cup Cmds(Range(activations)) = Pending \ {c} BY <1>3, <1>4 DEF Pending
<1>8. c \in Pending /\ c \in Live BY <1>3 DEF Pending, Live, LiveOf
<1>9. QED BY <1>2, <1>3, <1>5, <1>6, <1>7, <1>8 DEF c, q2

(* One live operation ends and everything else stays.                      *)
LEMMA OneEnds ==
  ASSUME FlowInv, closing = {}, NEW c \in Live, NEW outcome \in Outcomes,
         NEW next \in TurnPoints \cup FramePoints, EndAll(Closing({c}, outcome), next),
         LiveOK(frameTokens, activations, frames, waiting)', Live' = Live \ {c},
         Pending' \subseteq Pending,
         next \in FramePoints => Building(frames)', next \in TurnPoints => ~Building(frames)'
  PROVE  Passes /\ FlowInv'
<1>1. closing' = Closing({c}, outcome) BY DEF EndAll
<1>2. {c} \in SUBSET Commands BY LiveType DEF FlowInv, PlacesInv, Live
<1>3. /\ closing' \in SUBSET [cmd : Commands, outcome : Outcomes] /\ Cmds(closing') = {c}
      /\ \A x \in closing' : x.cmd \in {c}
      /\ \A x, y \in closing' : x.cmd = y.cmd => x = y
  BY <1>1, <1>2, ClosingOK
<1>4. Ending' = {c} /\ Ending = {} BY <1>3 DEF Ending, Cmds
<1>5. EndOK(closing, Live)' BY <1>3 DEF EndOK
<1>6. Control' BY EndAllControl
<1>7. QED BY <1>4, <1>5, <1>6 DEF Passes, FlowInv, PlacesInv

LEMMA TokenFrameFlow ==
  ASSUME FlowInv, StartTokenFrame
  PROVE  Passes /\ FlowInv' /\ Head(frameTokens) \in Pending \ Pending'
<1>1. PICK c : c = Head(frameTokens) OBVIOUS
<1>2. /\ rt \in {"park", "ready"} /\ frameTokens # <<>> /\ frameTokens' = Tail(frameTokens)
      /\ UNCHANGED <<activations, waiting>>
  BY DEF StartTokenFrame
<1>3. PlacesInv /\ closing = {} /\ ~Building(frames) /\ FramesOK(frames)
  BY <1>2 DEF FlowInv, PlacesInv, LiveOK, Control, Point, TurnPoints
<1>4. /\ c \in Commands /\ c \in Range(frameTokens) /\ c \notin TokensOf(frames)
      /\ Range(frameTokens') = Range(frameTokens) \ {c}
      /\ c \in Pending /\ c \in Live
      /\ Range(frameTokens') \cup Cmds(Range(activations)) = Pending \ {c}
      /\ LiveOK(frameTokens', activations, frames, waiting)
      /\ LiveOf(frameTokens', activations, frames, waiting) = Live \ {c}
  BY <1>1, <1>2, TokenLeaves
<1>5. Pending' = Pending \ {c} BY <1>2, <1>4 DEF Pending
<1>6. CASE c.m = "advance" /\ clock = "wall"
  <2>1. EndAll(Closing({c}, "failed"), "park") /\ frames' = frames
    BY <1>1, <1>6 DEF StartTokenFrame
  <2>2. LiveOK(frameTokens, activations, frames, waiting)' /\ Live' = Live \ {c}
    BY <1>2, <1>4, <2>1 DEF Live
  <2>3. /\ "park" \in TurnPoints \cup FramePoints /\ "park" \notin FramePoints
        /\ "failed" \in Outcomes
    BY DEF TurnPoints, FramePoints, Outcomes
  <2>4. ~Building(frames)' BY <1>3, <2>1
  <2>5. Passes /\ FlowInv' BY <1>3, <1>4, <1>5, <2>1, <2>2, <2>3, <2>4, OneEnds
  <2>6. QED BY <1>1, <1>4, <1>5, <2>5
<1>7. CASE ~(c.m = "advance" /\ clock = "wall")
  <2>1. /\ frames' = Append(frames, NewFrame({c}, TRUE)) /\ rt' = "jobs"
        /\ closing' = closing /\ ret' = ret
    BY <1>1, <1>7 DEF StartTokenFrame
  <2>2. /\ FramesOK(frames') /\ Building(frames')
        /\ TokensOf(frames') = TokensOf(frames) \cup {c} /\ CommandsOf(frames') = CommandsOf(frames)
    <3>1. {c} \in SUBSET Commands /\ {c} \cap TokensOf(frames) = {} /\ TRUE \in BOOLEAN BY <1>4
    <3>2. QED BY <1>3, <2>1, <3>1, AppendFrame
  <2>3. c.m \in TimeMethods BY <1>4 DEF FlowInv, PlacesInv, LiveOK
  <2>4. LiveOK(frameTokens', activations', frames', waiting')
    BY <1>2, <1>4, <2>2, <2>3 DEF LiveOK
  <2>5. Live' = Live
    <3>1. Live' = (Range(frameTokens') \cup (TokensOf(frames) \cup {c}))
                    \cup Cmds(Range(activations) \cup CommandsOf(frames) \cup waiting)
      BY <1>2, <2>2 DEF Live, LiveOf
    <3>2. Live = (Range(frameTokens) \cup TokensOf(frames))
                    \cup Cmds(Range(activations) \cup CommandsOf(frames) \cup waiting)
      BY DEF Live, LiveOf
    <3>3. QED BY <1>4, <3>1, <3>2
  <2>6. PlacesInv' BY <1>3, <2>1, <2>4, <2>5 DEF PlacesInv
  <2>7. Control' BY <1>3, <2>1, <2>2 DEF Control, Point, TurnPoints, FramePoints
  <2>8. Ending' = Ending BY <2>1 DEF Ending
  <2>9. QED BY <1>1, <1>4, <1>5, <2>5, <2>6, <2>7, <2>8 DEF Passes, FlowInv
<1>8. QED BY <1>6, <1>7

LEMMA WallFrameFlow ==
  ASSUME FlowInv, surface \in BOOLEAN, StartWallFrame
  PROVE  Passes /\ FlowInv'
<1>1. PICK reserved \in BOOLEAN : frames' = Append(frames, NewFrame({}, reserved))
  <2>1. frames' = Append(frames, NewFrame({}, surface)) BY DEF StartWallFrame
  <2>2. QED BY <2>1
<1>2. rt = "ready" /\ rt' = "jobs" /\ UNCHANGED <<frameTokens, activations, waiting, closing, ret>>
  BY DEF StartWallFrame
<1>3. PlacesInv /\ closing = {} /\ ~Building(frames) /\ FramesOK(frames)
      /\ LiveOK(frameTokens, activations, frames, waiting)
  BY <1>2 DEF FlowInv, PlacesInv, LiveOK, Control, Point, TurnPoints
<1>4. /\ FramesOK(frames') /\ Building(frames')
      /\ TokensOf(frames') = TokensOf(frames) \cup {} /\ CommandsOf(frames') = CommandsOf(frames)
  BY <1>1, <1>3, AppendFrame
<1>5. TokensOf(frames') = TokensOf(frames) BY <1>4
<1>6. /\ LiveOK(frameTokens, activations, frames', waiting)
      /\ LiveOf(frameTokens, activations, frames', waiting) = Live
  BY <1>3, <1>4, <1>5, SameLive DEF Live
<1>7. Live' = Live /\ Ending' = Ending /\ Pending' = Pending BY <1>2, <1>6 DEF Live, Ending, Pending
<1>8. PlacesInv' BY <1>2, <1>3, <1>6, <1>7 DEF PlacesInv
<1>9. Control' BY <1>2, <1>3, <1>4 DEF Control, Point, TurnPoints, FramePoints
<1>10. QED BY <1>7, <1>8, <1>9 DEF Passes, FlowInv

(* The one command that runs is changed, or passed on from its frame.      *)
Swapped(fs, w, gs, v, p, r) ==
  /\ FramesOK(gs) /\ TokensOf(gs) = TokensOf(fs)
  /\ CommandsOf(fs) \cup w = {p} /\ CommandsOf(gs) \cup v = {r}
  /\ CommandsOf(gs) = {} \/ v = {}
  /\ r \in PendingCommands /\ r.cmd = p.cmd

LEMMA SwapLive ==
  ASSUME NEW q, NEW a, NEW fs, NEW w, LiveOK(q, a, fs, w),
         NEW gs, NEW v, NEW p, NEW r, Swapped(fs, w, gs, v, p, r)
  PROVE  LiveOK(q, a, gs, v) /\ LiveOf(q, a, gs, v) = LiveOf(q, a, fs, w)
<1>1. /\ FramesOK(gs) /\ TokensOf(gs) = TokensOf(fs)
      /\ CommandsOf(fs) \cup w = {p} /\ CommandsOf(gs) \cup v = {r}
      /\ CommandsOf(gs) = {} \/ v = {}
      /\ r \in PendingCommands /\ r.cmd = p.cmd
  BY DEF Swapped
<1>2. p \in CommandsOf(fs) \cup w /\ r \in CommandsOf(gs) \cup v /\ v \in SUBSET PendingCommands
      /\ \A x \in CommandsOf(gs) \cup v : x = r
  BY <1>1
<1>3. p.cmd.m = "execute" /\ \A x \in Range(a) : x.cmd # p.cmd BY <1>2 DEF LiveOK
<1>4. LiveOK(q, a, gs, v)
  <2>1. /\ \A x \in Range(a) \cup CommandsOf(gs) \cup v : x.cmd.m = "execute"
    BY <1>1, <1>2, <1>3 DEF LiveOK
  <2>2. \A x, y \in CommandsOf(gs) \cup v : x = y BY <1>2
  <2>3. \A x \in Range(a), y \in CommandsOf(gs) \cup v : x.cmd # y.cmd BY <1>1, <1>2, <1>3
  <2>4. QED BY <1>1, <1>2, <2>1, <2>2, <2>3 DEF LiveOK
<1>5. Cmds(Range(a) \cup CommandsOf(gs) \cup v) = Cmds(Range(a) \cup CommandsOf(fs) \cup w)
  <2>1. Range(a) \cup CommandsOf(gs) \cup v = Range(a) \cup {r} BY <1>1
  <2>2. Range(a) \cup CommandsOf(fs) \cup w = Range(a) \cup {p} BY <1>1
  <2>3. ASSUME NEW c PROVE c \in Cmds(Range(a) \cup {r}) <=> c \in Cmds(Range(a) \cup {p})
    BY <1>1, InCmds
  <2>4. Cmds(Range(a) \cup {r}) = Cmds(Range(a) \cup {p}) BY <2>3
  <2>5. QED BY <2>1, <2>2, <2>4
<1>6. QED BY <1>1, <1>4, <1>5 DEF LiveOf

(* The command that runs is in one frame, or waits for its jobs.           *)
LEMMA Runs ==
  ASSUME FlowInv, NEW p \in FrameCommands \cup waiting
  PROVE  /\ p \in PendingCommands
         /\ CommandsOf(frames) \cup waiting = {p}
         /\ p \in FrameCommands =>
              /\ waiting = {}
              /\ \E k \in DOMAIN frames :
                   /\ frames[k].commands = {p}
                   /\ \A j \in DOMAIN frames : j # k => frames[j].commands = {}
         /\ p \in waiting =>
              /\ waiting = {p}
              /\ CommandsOf(frames) = {}
              /\ \A j \in DOMAIN frames : frames[j].commands = {}
<1>0. FrameCommands = CommandsOf(frames) BY DEF FrameCommands, CommandsOf
<1>1. LiveOK(frameTokens, activations, frames, waiting) BY DEF FlowInv, PlacesInv
<1>2. /\ \A x, y \in CommandsOf(frames) \cup waiting : x = y
      /\ CommandsOf(frames) = {} \/ waiting = {}
      /\ waiting \in SUBSET PendingCommands /\ Apart(frames)
  BY <1>1 DEF LiveOK, FramesOK
<1>3. CommandsOf(frames) \in SUBSET PendingCommands BY <1>1, LiveType
<1>4. CommandsOf(frames) \cup waiting = {p} BY <1>0, <1>2
<1>5. \A j \in DOMAIN frames : frames[j].commands \subseteq CommandsOf(frames) BY InFrames
<1>6. ASSUME p \in FrameCommands
      PROVE  /\ waiting = {}
             /\ \E k \in DOMAIN frames :
                   /\ frames[k].commands = {p}
                   /\ \A j \in DOMAIN frames : j # k => frames[j].commands = {}
  <2>1. PICK k \in DOMAIN frames : p \in frames[k].commands BY <1>0, <1>6, InFrames
  <2>2. frames[k].commands = {p} BY <1>4, <1>5, <2>1
  <2>3. \A j \in DOMAIN frames : j # k => frames[j].commands = {} BY <1>2, <2>2 DEF Apart
  <2>4. waiting = {} BY <1>0, <1>2, <1>6
  <2>5. QED BY <2>2, <2>3, <2>4
<1>7. ASSUME p \in waiting
      PROVE waiting = {p} /\ CommandsOf(frames) = {} /\ \A j \in DOMAIN frames : frames[j].commands = {}
  BY <1>2, <1>4, <1>5, <1>7
<1>8. QED BY <1>0, <1>2, <1>3, <1>4, <1>6, <1>7

(* The frame at a position with other commands.                            *)
WithCommands(fs, k, commands) == Replaced(fs, k, [fs[k] EXCEPT !.commands = commands])

LEMMA CommandsReplaced ==
  ASSUME NEW fs, FramesOK(fs), NEW k \in DOMAIN fs, NEW r \in PendingCommands,
         \A j \in DOMAIN fs : j # k => fs[j].commands = {}
  PROVE  /\ FramesOK(WithCommands(fs, k, {r})) /\ TokensOf(WithCommands(fs, k, {r})) = TokensOf(fs)
         /\ CommandsOf(WithCommands(fs, k, {r})) = {r}
         /\ Building(WithCommands(fs, k, {r})) <=> Building(fs)
<1> DEFINE h == [fs[k] EXCEPT !.commands = {r}]
           gs == WithCommands(fs, k, {r})
<1>1. fs[k] \in FrameRecords BY DEF FramesOK
<1>2. /\ h \in FrameRecords /\ h.token = fs[k].token /\ h.commands = {r}
      /\ h.stage = fs[k].stage
  BY <1>1 DEF FrameRecords
<1>3. gs = Replaced(fs, k, h) BY DEF WithCommands
<1> HIDE DEF h, gs
<1>4. /\ FramesOK(gs) /\ TokensOf(gs) = TokensOf(fs)
      /\ CommandsOf(gs) = (CommandsOf(fs) \ fs[k].commands) \cup h.commands
      /\ Building(gs) <=> Building(fs)
  BY <1>2, <1>3, ReplaceFrame
<1>5. CommandsOf(fs) \subseteq fs[k].commands BY InFrames
<1>6. QED BY <1>2, <1>4, <1>5 DEF gs

LEMMA JobDoneFlow ==
  ASSUME FlowInv, NEW p \in FrameCommands \cup waiting, NEW ok \in BOOLEAN, JobDone(p, ok)
  PROVE  Passes /\ FlowInv'
<1>1. PICK r : r = [p EXCEPT !.jobs = IF ok THEN @ - 1 ELSE 0, !.failed = @ \/ ~ok] OBVIOUS
<1>2. /\ PlacesInv /\ LiveOK(frameTokens, activations, frames, waiting) /\ FramesOK(frames)
      /\ rt = "jobs" /\ closing = {} /\ Building(frames)
  BY DEF FlowInv, PlacesInv, LiveOK, JobDone, Control, Point, FramePoints
<1>3. frames \in Seq(FrameRecords) /\ Len(frames) \in DOMAIN frames
  BY <1>2, EmptySeq DEF FramesOK, Building
<1>4. r \in PendingCommands /\ r.cmd = p.cmd
  <2>1. p \in PendingCommands /\ p.jobs > 0 BY Runs DEF JobDone
  <2>2. PICK n, b : n = (IF ok THEN p.jobs - 1 ELSE 0) /\ b = (p.failed \/ ~ok) OBVIOUS
  <2>3. b \in BOOLEAN BY <2>2
  <2>4. n \in 0..MaxJobs BY <2>1, <2>2, PortAssumption DEF PendingCommands
  <2>5. r = [p EXCEPT !.jobs = n, !.failed = b] BY <1>1, <2>2
  <2>6. QED BY <2>1, <2>3, <2>4, <2>5 DEF PendingCommands
<1>5. ASSUME NEW gs, NEW v, Swapped(frames, waiting, gs, v, p, r),
             Building(gs), frames' = gs, waiting' = v,
             UNCHANGED <<frameTokens, activations, closing, rt, ret>>
      PROVE  Passes /\ FlowInv'
  <2>1. /\ LiveOK(frameTokens, activations, gs, v)
        /\ LiveOf(frameTokens, activations, gs, v) = Live
    BY <1>2, <1>5, SwapLive DEF Live
  <2>2. Live' = Live /\ Ending' = Ending /\ Pending' = Pending BY <1>5, <2>1 DEF Live, Ending, Pending
  <2>3. PlacesInv' BY <1>2, <1>5, <2>1, <2>2 DEF PlacesInv
  <2>4. Control' BY <1>2, <1>5 DEF Control, Point, TurnPoints, FramePoints
  <2>5. QED BY <2>2, <2>3, <2>4 DEF Passes, FlowInv
<1>6. UNCHANGED <<frameTokens, activations>> BY DEF JobDone
<1>7. CASE /\ p \in FrameCommands
           /\ frames' = [k \in DOMAIN frames |->
                 [frames[k] EXCEPT !.commands = IF p \in @ THEN (@ \ {p}) \cup {r} ELSE @]]
           /\ UNCHANGED <<waiting, closing, rt, ret>>
  <2>1. PICK k \in DOMAIN frames : /\ frames[k].commands = {p}
                                   /\ \A j \in DOMAIN frames : j # k => frames[j].commands = {}
    BY <1>7, Runs
  <2>2. waiting = {} /\ CommandsOf(frames) \cup waiting = {p} BY <1>7, Runs
  <2> DEFINE gs == WithCommands(frames, k, {r})
  <2>3. frames' = gs
    <3>1. \A j \in DOMAIN frames : frames[j] \in FrameRecords BY <1>3
    <3>2. \A j \in DOMAIN frames : j # k => frames'[j] = frames[j]
      BY <1>7, <2>1, <3>1 DEF FrameRecords
    <3>3. frames'[k] = [frames[k] EXCEPT !.commands = {r}]
      <4>1. (frames[k].commands \ {p}) \cup {r} = {r} /\ p \in frames[k].commands BY <2>1
      <4>2. QED BY <1>7, <4>1
    <3>4. DOMAIN frames' = DOMAIN frames /\ frames' = [j \in DOMAIN frames |-> frames'[j]] BY <1>7
    <3>5. gs = [j \in DOMAIN frames |-> IF j = k THEN [frames[k] EXCEPT !.commands = {r}] ELSE frames[j]]
      BY DEF WithCommands, Replaced
    <3> HIDE DEF gs
    <3>6. QED BY <3>2, <3>3, <3>4, <3>5
  <2>4. FramesOK(gs) /\ TokensOf(gs) = TokensOf(frames) /\ CommandsOf(gs) = {r} /\ Building(gs)
    BY <1>2, <1>4, <2>1, CommandsReplaced
  <2> HIDE DEF gs
  <2>5. Swapped(frames, waiting, gs, waiting, p, r) BY <1>4, <2>2, <2>4 DEF Swapped
  <2>6. QED BY <1>5, <1>6, <1>7, <2>3, <2>4, <2>5
<1>8. CASE /\ p \in waiting /\ ok
           /\ waiting' = (waiting \ {p}) \cup (IF r.jobs > 0 THEN {r} ELSE {})
           /\ frames' = [frames EXCEPT ![Current].commands =
                           @ \cup (IF r.jobs = 0 THEN {r} ELSE {})]
           /\ UNCHANGED <<closing, rt, ret>>
  <2>1. /\ waiting = {p} /\ CommandsOf(frames) = {} /\ CommandsOf(frames) \cup waiting = {p}
        /\ \A j \in DOMAIN frames : frames[j].commands = {}
    BY <1>8, Runs
  <2>2. r.jobs \in Nat BY <1>4, PortAssumption DEF PendingCommands
  <2>3. PICK n : n = Len(frames) OBVIOUS
  <2>4. n \in DOMAIN frames /\ frames[n].commands = {} /\ frames[n] \in FrameRecords
    BY <1>3, <2>1, <2>3
  <2>5. CASE r.jobs = 0
    <3> DEFINE gs == WithCommands(frames, n, {r})
    <3>1. waiting' = {} BY <1>8, <2>1, <2>5
    <3>2. frames' = gs
      <4>1. frames' = [frames EXCEPT ![n] = [frames[n] EXCEPT !.commands = frames[n].commands \cup {r}]]
        BY <1>8, <2>3, <2>5 DEF Current
      <4>2. frames[n].commands \cup {r} = {r} BY <2>4
      <4>3. QED BY <4>1, <4>2 DEF WithCommands, Replaced
    <3>3. FramesOK(gs) /\ TokensOf(gs) = TokensOf(frames) /\ CommandsOf(gs) = {r} /\ Building(gs)
      BY <1>2, <1>4, <2>1, <2>4, CommandsReplaced
    <3> HIDE DEF gs
    <3>4. Swapped(frames, waiting, gs, {}, p, r) BY <1>4, <2>1, <3>3 DEF Swapped
    <3>5. QED BY <1>5, <1>6, <1>8, <3>1, <3>2, <3>3, <3>4
  <2>6. CASE r.jobs # 0
    <3>1. waiting' = {r} BY <1>8, <2>1, <2>2, <2>6
    <3>2. frames' = frames
      <4>1. frames' = [frames EXCEPT ![n] = [frames[n] EXCEPT !.commands = frames[n].commands \cup {}]]
        BY <1>8, <2>3, <2>6 DEF Current
      <4>2. [frames[n] EXCEPT !.commands = frames[n].commands \cup {}] = frames[n]
        BY <2>4 DEF FrameRecords
      <4>3. QED BY <1>3, <2>4, <4>1, <4>2
    <3>3. Swapped(frames, waiting, frames, {r}, p, r) BY <1>2, <1>4, <2>1 DEF Swapped
    <3>4. QED BY <1>2, <1>5, <1>6, <1>8, <3>1, <3>2, <3>3
  <2>7. QED BY <2>5, <2>6
<1>9. CASE /\ p \in waiting /\ ~ok /\ waiting' = waiting \ {p}
           /\ EndAll(Closing({p.cmd}, "failed"), "jobs") /\ UNCHANGED frames
  <2>1. /\ waiting = {p} /\ CommandsOf(frames) = {} /\ CommandsOf(frames) \cup waiting = {p}
    BY <1>9, Runs
  <2>2. waiting' = {} BY <1>9, <2>1
  <2>3. Dropped(frames, waiting, frames, {}, {}, {p}) BY <2>1 DEF Dropped
  <2>4. /\ LiveOf(frameTokens, activations, frames, {}) = Live \ ({} \cup Cmds({p}))
        /\ {} \cup Cmds({p}) \in SUBSET Live
    BY <1>2, <2>3, DropLive DEF Live
  <2>5. Cmds({p}) = {p.cmd} BY DEF Cmds
  <2>6. Live' = Live \ {p.cmd} /\ p.cmd \in Live BY <1>6, <1>9, <2>2, <2>4, <2>5 DEF Live
  <2>7. LiveOK(frameTokens, activations, frames, {})
    <3>1. /\ frameTokens \in Seq(Commands) /\ IsInjective(frameTokens)
          /\ activations \in Seq(PendingCommands) /\ IsInjective(activations)
      BY <1>2 DEF LiveOK
    <3>2. QED BY <1>2, <2>1, <3>1, FewerOK
  <2>8. LiveOK(frameTokens, activations, frames, waiting)' /\ Pending' = Pending /\ Building(frames)'
    BY <1>2, <1>6, <1>9, <2>2, <2>7 DEF Pending
  <2>9. "jobs" \in TurnPoints \cup FramePoints /\ "jobs" \notin TurnPoints /\ "failed" \in Outcomes
    BY DEF TurnPoints, FramePoints, Outcomes
  <2>10. PICK c : c = p.cmd OBVIOUS
  <2>11. QED BY <1>2, <1>9, <2>6, <2>8, <2>9, <2>10, OneEnds
<1>10. QED BY <1>1, <1>7, <1>8, <1>9 DEF JobDone

(* A human takes over: whatever has not started to run ends.               *)
LEMMA PreemptFlow ==
  ASSUME FlowInv, closing = {}, NEW next \in TurnPoints \cup FramePoints, Preempt(next),
         next \in FramePoints => Building(frames), next \in TurnPoints => ~Building(frames)
  PROVE  Passes /\ FlowInv'
<1>1. PICK cmds : cmds = Preemptible OBVIOUS
<1>2. TakeOut(cmds) /\ EndAll(Closing(cmds, "preempted"), next) BY <1>1 DEF Preempt
<1>3. cmds \in SUBSET Live
  <2>1. Preemptible \subseteq TokenWork \cup CommandWork BY DEF Preemptible, CommandWork
  <2>2. QED BY <1>1, <2>1, LiveIsWork
<1>4. PlacesInv /\ "preempted" \in Outcomes /\ closing' = Closing(cmds, "preempted")
  BY <1>2 DEF FlowInv, Outcomes, EndAll
<1>5. Passes /\ PlacesInv' /\ (Building(frames)' <=> Building(frames))
  BY <1>2, <1>3, <1>4, TakeOutPasses
<1>6. Control' BY <1>2, <1>5, EndAllControl
<1>7. QED BY <1>5, <1>6 DEF FlowInv

LEMMA EventsFlow ==
  ASSUME FlowInv, NEW human \in BOOLEAN, NEW lost \in BOOLEAN, FrameEvents(human, lost)
  PROVE  Passes /\ FlowInv'
<1>1. rt = "jobs" /\ closing = {} /\ Building(frames)
  BY DEF FrameEvents, FlowInv, Control, Point, FramePoints
<1>2. CASE human
  <2>1. Preempt("events") BY <1>2 DEF FrameEvents
  <2>2. "events" \in FramePoints /\ "events" \notin TurnPoints BY DEF TurnPoints, FramePoints
  <2>3. QED BY <1>1, <2>1, <2>2, PreemptFlow
<1>3. CASE ~human
  <2>1. ServiceControl /\ UNCHANGED <<frameTokens, activations, frames, waiting>> /\ closing' = closing
    BY <1>3 DEF FrameEvents
  <2>2. QED BY <1>1, <2>1, ServiceFlow
<1>4. QED BY <1>2, <1>3

LEMMA HumanFlow == ASSUME FlowInv, HumanParked PROVE Passes /\ FlowInv'
<1>1. rt = "park" /\ closing = {} /\ ~Building(frames)
  BY DEF HumanParked, FlowInv, Control, Point, TurnPoints
<1>2. CASE Preempt("park")
  <2>1. "park" \in TurnPoints /\ "park" \notin FramePoints BY DEF TurnPoints, FramePoints
  <2>2. QED BY <1>1, <1>2, <2>1, PreemptFlow
<1>3. CASE UNCHANGED <<rt, ret, closing, frameTokens, activations, frames, waiting>>
  BY <1>3, AsideFlow
<1>4. QED BY <1>2, <1>3 DEF HumanParked

(* The frame that was built goes to the renderer, or is left.              *)
LEMMA SubmitFrame ==
  ASSUME FramesOK(frames), Building(frames), NEW f \in FrameRecords,
         f.token = frames[Len(frames)].token,
         f.commands # {} => \A k \in DOMAIN frames : k # Len(frames) => frames[k].commands = {},
         Submit(f)
  PROVE  /\ FramesOK(frames') /\ ~Building(frames') /\ TokensOf(frames') = TokensOf(frames)
         /\ CommandsOf(frames')
              = (CommandsOf(frames) \ frames[Len(frames)].commands) \cup f.commands
<1>1. PICK n : n = Len(frames) OBVIOUS
<1>2. frames \in Seq(FrameRecords) /\ frames # <<>> /\ frames[n].stage = "open"
  BY <1>1 DEF FramesOK, Building
<1>3. n \in DOMAIN frames BY <1>1, <1>2, FrontSeq
<1>4. ASSUME NEW h, h \in FrameRecords, h.token = f.token, h.commands = f.commands,
             h.stage # "open", frames' = Front(frames) \o <<h>>
      PROVE  /\ FramesOK(frames') /\ ~Building(frames') /\ TokensOf(frames') = TokensOf(frames)
             /\ CommandsOf(frames') = (CommandsOf(frames) \ frames[n].commands) \cup f.commands
  <2>1. frames' = Replaced(frames, n, h) BY <1>1, <1>2, <1>4, FrontSeq
  <2>2. /\ h.token = frames[n].token
        /\ h.commands # {} => \A k \in DOMAIN frames : k # n => frames[k].commands = {}
    BY <1>1, <1>4
  <2>3. LET gs == Replaced(frames, n, h)
        IN /\ FramesOK(gs) /\ ~Building(gs) /\ TokensOf(gs) = TokensOf(frames)
           /\ CommandsOf(gs) = (CommandsOf(frames) \ frames[n].commands) \cup h.commands
    BY <1>2, <1>3, <1>4, <2>2, ReplaceFrame
  <2>4. QED BY <1>4, <2>1, <2>3
<1>5. CASE surface
  <2>1. PICK h : h = [f EXCEPT !.stage = "sent"] OBVIOUS
  <2>2. h \in FrameRecords /\ h.token = f.token /\ h.commands = f.commands /\ h.stage # "open"
    BY <2>1 DEF FrameRecords
  <2>3. frames' = Front(frames) \o <<h>> BY <1>5, <2>1 DEF Submit, Submitted
  <2>4. QED BY <1>1, <1>4, <2>2, <2>3
<1>6. CASE ~surface /\ f.token \cup f.commands # {}
  <2>1. PICK h : h = [f EXCEPT !.stage = "skipped"] OBVIOUS
  <2>2. h \in FrameRecords /\ h.token = f.token /\ h.commands = f.commands /\ h.stage # "open"
    BY <2>1 DEF FrameRecords
  <2>3. frames' = Front(frames) \o <<h>> BY <1>6, <2>1 DEF Submit, Submitted
  <2>4. QED BY <1>1, <1>4, <2>2, <2>3
<1>7. CASE ~surface /\ f.token \cup f.commands = {}
  <2>1. frames' = Front(frames) \o <<>> BY <1>7 DEF Submit, Submitted
  <2>2. frames' = RemoveAt(frames, n) BY <1>1, <1>2, <2>1, FrontSeq
  <2>3. /\ FramesOK(frames') /\ ~Building(frames')
        /\ TokensOf(frames') = TokensOf(frames) \ frames[n].token
        /\ CommandsOf(frames') = CommandsOf(frames) \ frames[n].commands
    BY <1>2, <1>3, <2>2, RemoveFrame
  <2>4. frames[n].token = {} /\ f.commands = {} BY <1>1, <1>7
  <2>5. QED BY <1>1, <2>3, <2>4
<1>8. QED BY <1>5, <1>6, <1>7

LEMMA SubmitLast ==
  ASSUME FlowInv, rt = "activate", Submit(Last(frames))
  PROVE  /\ FramesOK(frames') /\ ~Building(frames') /\ TokensOf(frames') = TokensOf(frames)
         /\ CommandsOf(frames') = CommandsOf(frames)
<1>1. FramesOK(frames) /\ Building(frames) BY DEF FlowInv, PlacesInv, LiveOK, Control, Point, FramePoints
<1>2. frames \in Seq(FrameRecords) /\ frames # <<>> /\ Apart(frames) BY <1>1 DEF FramesOK, Building
<1>3. Len(frames) \in DOMAIN frames BY <1>2, EmptySeq
<1>4. PICK f : f = frames[Len(frames)] OBVIOUS
<1>5. Last(frames) = f BY <1>4 DEF Last
<1>6. f \in FrameRecords BY <1>2, <1>3, <1>4
<1>7. f.commands # {} => \A k \in DOMAIN frames : k # Len(frames) => frames[k].commands = {}
  BY <1>2, <1>3, <1>4 DEF Apart
<1>8. /\ FramesOK(frames') /\ ~Building(frames') /\ TokensOf(frames') = TokensOf(frames)
      /\ CommandsOf(frames') = (CommandsOf(frames) \ f.commands) \cup f.commands
  BY <1>1, <1>4, <1>5, <1>6, <1>7, SubmitFrame
<1>9. f.commands \subseteq CommandsOf(frames) BY <1>3, <1>4, InFrames
<1>10. QED BY <1>8, <1>9

LEMMA NoCommandFlow == ASSUME FlowInv, FrameWithoutCommand PROVE Passes /\ FlowInv'
<1>1. /\ rt = "activate" /\ Submit(Last(frames)) /\ rt' = "park"
      /\ UNCHANGED <<frameTokens, activations, waiting, closing, ret>>
  BY DEF FrameWithoutCommand
<1>2. LiveOK(frameTokens, activations, frames, waiting) /\ EndOK(closing, Live) /\ closing = {}
  BY <1>1 DEF FlowInv, PlacesInv, Control
<1>3. /\ FramesOK(frames') /\ ~Building(frames') /\ TokensOf(frames') = TokensOf(frames)
      /\ CommandsOf(frames') = CommandsOf(frames)
  BY <1>1, SubmitLast
<1>4. /\ LiveOK(frameTokens, activations, frames', waiting)
      /\ LiveOf(frameTokens, activations, frames', waiting) = Live
  BY <1>2, <1>3, SameLive DEF Live
<1>5. Live' = Live /\ Ending' = Ending /\ Pending' = Pending BY <1>1, <1>4 DEF Live, Ending, Pending
<1>6. PlacesInv' BY <1>1, <1>2, <1>4, <1>5 DEF PlacesInv
<1>7. Control' BY <1>1, <1>2, <1>3 DEF Control, Point, TurnPoints, FramePoints
<1>8. QED BY <1>5, <1>6, <1>7 DEF Passes, FlowInv

(* The command that is activated leaves its queue.                         *)
LEMMA CommandLeaves ==
  ASSUME FlowInv, activations # <<>>, NEW p, p = Head(activations),
         NEW a2, a2 = Tail(activations)
  PROVE  /\ p \in PendingCommands /\ p.cmd.m = "execute"
         /\ a2 \in Seq(PendingCommands) /\ IsInjective(a2)
         /\ Range(a2) = Range(activations) \ {p}
         /\ \A r \in Range(a2) : r.cmd # p.cmd
         /\ p.cmd \in Pending /\ p.cmd \in Live
         /\ Range(frameTokens) \cup Cmds(Range(a2)) = Pending \ {p.cmd}
         /\ LiveOK(frameTokens, a2, frames, waiting)
         /\ LiveOf(frameTokens, a2, frames, waiting) = Live \ {p.cmd}
<1> DEFINE R == CommandsOf(frames) \cup waiting
<1>1. LiveOK(frameTokens, activations, frames, waiting) BY DEF FlowInv, PlacesInv
<1>2. /\ frameTokens \in Seq(Commands) /\ IsInjective(frameTokens) /\ FramesOK(frames)
      /\ activations \in Seq(PendingCommands) /\ IsInjective(activations)
      /\ CommandsOf(frames) = {} \/ waiting = {}
      /\ \A d \in Range(frameTokens) \cup TokensOf(frames) : d.m \in TimeMethods
      /\ \A r \in Range(activations) : r.cmd.m = "execute"
      /\ \A r \in Range(activations) : r = [cmd |-> r.cmd, jobs |-> 0, failed |-> FALSE]
      /\ \A r \in Range(activations), o \in R : r.cmd # o.cmd
  BY <1>1 DEF LiveOK
<1>3. /\ p \in Range(activations) /\ p \in PendingCommands
      /\ a2 \in Seq(PendingCommands) /\ IsInjective(a2) /\ Range(a2) = Range(activations) \ {p}
  BY <1>2, TailSeq
<1>4. \A r \in Range(a2) : r.cmd # p.cmd BY <1>2, <1>3
<1>5. p.cmd \notin Range(frameTokens) \cup TokensOf(frames)
  <2>1. "execute" \notin TimeMethods BY DEF TimeMethods
  <2>2. QED BY <1>2, <1>3, <2>1
<1>6. \A c : c \in Cmds(Range(a2)) <=> c \in Cmds(Range(activations)) /\ c # p.cmd
  BY <1>3, <1>4, InCmds
<1>7. p.cmd \in Cmds(Range(activations)) /\ p.cmd \notin Cmds(R) BY <1>2, <1>3, InCmds
<1>8. Range(frameTokens) \cup Cmds(Range(a2)) = Pending \ {p.cmd} BY <1>5, <1>6 DEF Pending
<1>9. LiveOK(frameTokens, a2, frames, waiting)
  <2>1. Range(a2) \subseteq Range(activations) BY <1>3
  <2>2. QED BY <1>1, <1>2, <1>3, <2>1, FewerOK
<1>10. LiveOf(frameTokens, a2, frames, waiting) = Live \ {p.cmd}
  <2>1. Range(a2) \cup CommandsOf(frames) \cup waiting = Range(a2) \cup R OBVIOUS
  <2>2. Range(activations) \cup CommandsOf(frames) \cup waiting = Range(activations) \cup R OBVIOUS
  <2> HIDE DEF R
  <2>3. Cmds(Range(a2) \cup R) = Cmds(Range(a2)) \cup Cmds(R) BY CmdsUnion
  <2>4. Cmds(Range(activations) \cup R) = Cmds(Range(activations)) \cup Cmds(R) BY CmdsUnion
  <2>5. QED BY <1>5, <1>6, <1>7, <2>1, <2>2, <2>3, <2>4 DEF Live, LiveOf
<1>11. p.cmd \in Pending /\ p.cmd \in Live
  <2>1. p.cmd \in Pending BY <1>7 DEF Pending
  <2>2. QED BY <2>1, PendingIsLive
<1>12. QED BY <1>2, <1>3, <1>4, <1>8, <1>9, <1>10, <1>11

LEMMA ActivateLostFlow == ASSUME FlowInv, ActivateLost PROVE Passes /\ FlowInv'
<1>1. PICK p, a2, c : p = Head(activations) /\ a2 = Tail(activations) /\ c = p.cmd OBVIOUS
<1>2. /\ rt = "activate" /\ Submit(Last(frames)) /\ activations # <<>>
      /\ EndAll(Closing({c}, "cancelled"), "park") /\ activations' = a2
      /\ UNCHANGED <<frameTokens, waiting>>
  BY <1>1 DEF ActivateLost, NothingToRun
<1>3. /\ c \in Pending /\ c \in Live
      /\ Range(frameTokens) \cup Cmds(Range(a2)) = Pending \ {c}
      /\ LiveOK(frameTokens, a2, frames, waiting)
      /\ LiveOf(frameTokens, a2, frames, waiting) = Live \ {c}
  BY <1>1, <1>2, CommandLeaves
<1>4. /\ FramesOK(frames') /\ ~Building(frames') /\ TokensOf(frames') = TokensOf(frames)
      /\ CommandsOf(frames') = CommandsOf(frames)
  BY <1>2, SubmitLast
<1>5. /\ LiveOK(frameTokens, a2, frames', waiting)
      /\ LiveOf(frameTokens, a2, frames', waiting) = Live \ {c}
  BY <1>3, <1>4, SameLive
<1>6. LiveOK(frameTokens, activations, frames, waiting)' /\ Live' = Live \ {c} /\ ~Building(frames)'
  BY <1>2, <1>4, <1>5 DEF Live
<1>7. Pending' \subseteq Pending BY <1>2, <1>3 DEF Pending
<1>8. /\ "park" \in TurnPoints \cup FramePoints /\ "park" \notin FramePoints
      /\ "cancelled" \in Outcomes /\ closing = {}
  BY <1>2 DEF TurnPoints, FramePoints, Outcomes, FlowInv, Control
<1>9. QED BY <1>2, <1>3, <1>6, <1>7, <1>8, OneEnds

LEMMA ActivateFlow ==
  ASSUME FlowInv, NEW jobs \in 0..MaxJobs, NEW failed \in BOOLEAN, Activate(jobs, failed)
  PROVE  Passes /\ FlowInv' /\ Head(activations).cmd \in Pending \ Pending'
<1>1. PICK p, a2, r, c : /\ p = Head(activations) /\ a2 = Tail(activations) /\ c = p.cmd
                         /\ r = [p EXCEPT !.jobs = jobs, !.failed = failed]
  OBVIOUS
<1>2. PICK n, f : n = Len(frames) /\ f = [frames[n] EXCEPT !.commands = {r}] OBVIOUS
<1>3. /\ rt = "activate" /\ Submit(f) /\ activations # <<>> /\ FrameCommands = {} /\ waiting = {}
      /\ rt' = "park" /\ activations' = a2
      /\ UNCHANGED <<frameTokens, waiting, closing, ret>>
  BY <1>1, <1>2 DEF Activate, NothingToRun, Last
<1>4. /\ p \in PendingCommands /\ c.m = "execute"
      /\ \A o \in Range(a2) : o.cmd # c
      /\ c \in Pending /\ c \in Live
      /\ Range(frameTokens) \cup Cmds(Range(a2)) = Pending \ {c}
      /\ LiveOK(frameTokens, a2, frames, waiting)
      /\ LiveOf(frameTokens, a2, frames, waiting) = Live \ {c}
  BY <1>1, <1>3, CommandLeaves
<1>5. r \in PendingCommands /\ r.cmd = c BY <1>1, <1>4 DEF PendingCommands
<1>6. /\ FramesOK(frames) /\ Building(frames) /\ CommandsOf(frames) = {}
      /\ EndOK(closing, Live) /\ closing = {}
  BY <1>3 DEF FlowInv, PlacesInv, LiveOK, Control, Point, FramePoints, FrameCommands, CommandsOf
<1>7. frames \in Seq(FrameRecords) /\ frames # <<>> BY <1>6 DEF FramesOK, Building
<1>8. n \in DOMAIN frames /\ frames[n] \in FrameRecords BY <1>2, <1>7, EmptySeq
<1>9. f \in FrameRecords /\ f.token = frames[n].token /\ f.commands = {r}
  BY <1>2, <1>5, <1>8 DEF FrameRecords
<1>10. \A k \in DOMAIN frames : frames[k].commands = {} BY <1>6, InFrames
<1>11. /\ FramesOK(frames') /\ ~Building(frames') /\ TokensOf(frames') = TokensOf(frames)
       /\ CommandsOf(frames') = (CommandsOf(frames) \ frames[n].commands) \cup {r}
  BY <1>2, <1>3, <1>6, <1>9, <1>10, SubmitFrame
<1>12. CommandsOf(frames') = {r} BY <1>6, <1>11
<1>13. LiveOK(frameTokens, a2, frames', {})
  BY <1>3, <1>4, <1>5, <1>11, <1>12 DEF LiveOK
<1>14. LiveOf(frameTokens, a2, frames', {}) = Live
  <2>1. LiveOf(frameTokens, a2, frames', {})
          = (Range(frameTokens) \cup TokensOf(frames)) \cup Cmds(Range(a2) \cup {r})
    <3>1. Range(a2) \cup CommandsOf(frames') \cup {} = Range(a2) \cup {r} BY <1>12
    <3>2. QED BY <1>11, <3>1 DEF LiveOf
  <2>2. Live \ {c} = (Range(frameTokens) \cup TokensOf(frames)) \cup Cmds(Range(a2))
    <3>1. Range(a2) \cup CommandsOf(frames) \cup waiting = Range(a2) BY <1>3, <1>6
    <3>2. QED BY <1>4, <3>1 DEF LiveOf
  <2>3. Cmds(Range(a2) \cup {r}) = Cmds(Range(a2)) \cup {c}
    <3>1. Cmds({r}) = {c} BY <1>5, InCmds
    <3>2. QED BY <3>1, CmdsUnion
  <2>4. QED BY <1>4, <2>1, <2>2, <2>3
<1>15. Live' = Live /\ Ending' = Ending /\ Pending' = Pending \ {c}
  BY <1>3, <1>4, <1>14 DEF Live, Ending, Pending
<1>16. PlacesInv' BY <1>3, <1>6, <1>13, <1>15 DEF PlacesInv
<1>17. Control' BY <1>3, <1>6, <1>11 DEF Control, Point, TurnPoints, FramePoints
<1>18. QED BY <1>1, <1>4, <1>15, <1>16, <1>17 DEF Passes, FlowInv

-----------------------------------------------------------------------------
(* The types of what is not work: the sessions and their connections, the  *)
(* queues and flags between the threads, and virtual time.                 *)

SessionTypes ==
  /\ state \in [Sessions -> {"none", "attached", "detached", "gone"}]
  /\ gen \in [Sessions -> 0..MaxGen]
  /\ \A s \in Sessions : state[s] # "none" => gen[s] > 0
  /\ conn \in [Sessions -> [1..MaxGen -> ConnStates]]
  /\ \A s \in Sessions, g \in 1..MaxGen : conn[s][g] = "resumed" => g > 1

QueueTypes ==
  /\ inbox \in Seq(Commands) /\ batch \in Seq(Commands)
  /\ controlKeys \in SUBSET Keys /\ taken \in SUBSET Keys
  /\ nonEmpty \in BOOLEAN /\ controlWanted \in BOOLEAN /\ surface \in BOOLEAN
  /\ workload \in Workloads /\ sends \in 0..MaxSends

TimeTypes == clock \in {"wall", "virtual"} /\ owner \in Keys \cup {NoOwner}

Types == SessionTypes /\ QueueTypes /\ TimeTypes

Revoked == InTable(RevokeTarget) /\ state' = [state EXCEPT ![RevokeTarget] = "gone"]

(* The runtime takes a session out of the table, and does no more to them. *)
LEMMA RuntimeSessions ==
  ASSUME RuntimeStep
  PROVE  gen' = gen /\ (state' = state \/ \E c : AdmitRevoke(c) /\ Revoked)
<1>1. CASE StartTurn \/ Fence \/ ClaimTake \/ ClaimClear \/ AdmitDone
  BY <1>1 DEF StartTurn, Fence, ClaimTake, ClaimClear, AdmitDone, sessionVars
<1>2. CASE \E x \in closing : CompleteOne(x) BY <1>2 DEF CompleteOne
<1>3. CASE \E ready \in BOOLEAN : RenderCompletion(ready) BY <1>3 DEF RenderCompletion, sessionVars
<1>4. ASSUME NEW c, Admit(c)
      PROVE  gen' = gen /\ (state' = state \/ (AdmitRevoke(c) /\ Revoked))
  <2>1. CASE \/ AdmitRefused(c) \/ AdmitReplay(c) \/ AdmitPending(c)
             \/ AdmitRejected(c) \/ AdmitExecute(c)
    BY <2>1 DEF AdmitRefused, AdmitReplay, AdmitPending, AdmitRejected, AdmitExecute, sessionVars
  <2>2. CASE \/ \E outcome \in {"done", "failed"} : AdmitRead(c, outcome)
             \/ AdmitTimeAtOnce(c) \/ AdmitTimeDeferred(c) \/ AdmitCancel(c)
    BY <2>2 DEF AdmitRead, AdmitTimeAtOnce, AdmitTimeDeferred, AdmitCancel
  <2>3. CASE AdmitRevoke(c) BY <2>3 DEF AdmitRevoke, Revoked
  <2>4. QED BY <1>4, <2>1, <2>2, <2>3 DEF Admit
<1>5. CASE StartTokenFrame \/ StartWallFrame \/ NoFrame
  BY <1>5 DEF StartTokenFrame, StartWallFrame, NoFrame, sessionVars
<1>6. CASE \E p \in FrameCommands \cup waiting, ok \in BOOLEAN : JobDone(p, ok)
  BY <1>6 DEF JobDone, sessionVars
<1>7. CASE (\E human, lost \in BOOLEAN : FrameEvents(human, lost)) \/ AfterPreempt
  BY <1>7 DEF FrameEvents, AfterPreempt, sessionVars
<1>8. CASE FrameWithoutCommand \/ ActivateLost BY <1>8 DEF FrameWithoutCommand, ActivateLost, sessionVars
<1>9. CASE \E jobs \in 0..MaxJobs, failed \in BOOLEAN : Activate(jobs, failed)
  BY <1>9 DEF Activate, sessionVars
<1>10. CASE HumanParked \/ SurfaceCreated BY <1>10 DEF HumanParked, SurfaceCreated, sessionVars
<1> QED BY <1>1, <1>2, <1>3, <1>4, <1>5, <1>6, <1>7, <1>8, <1>9, <1>10 DEF RuntimeStep

LEMMA ConnSet ==
  ASSUME SessionTypes, NEW s \in Sessions, NEW g \in 1..MaxGen, NEW where \in ConnStates,
         SetConn(s, g, where), where = "resumed" => g > 1
  PROVE  /\ conn' \in [Sessions -> [1..MaxGen -> ConnStates]]
         /\ \A t \in Sessions, h \in 1..MaxGen :
              conn'[t][h] = IF t = s /\ h = g THEN where ELSE conn[t][h]
         /\ \A t \in Sessions, h \in 1..MaxGen : conn'[t][h] = "resumed" => h > 1
<1>1. conn \in [Sessions -> [1..MaxGen -> ConnStates]] BY DEF SessionTypes
<1>2. conn' = [conn EXCEPT ![s][g] = where] BY DEF SetConn
<1>3. conn' \in [Sessions -> [1..MaxGen -> ConnStates]] BY <1>1, <1>2
<1>4. \A t \in Sessions, h \in 1..MaxGen :
        conn'[t][h] = IF t = s /\ h = g THEN where ELSE conn[t][h]
  BY <1>1, <1>2
<1>5. QED BY <1>3, <1>4 DEF SessionTypes

LEMMA SessionTypesNext == ASSUME SessionTypes, [Next]_vars PROVE SessionTypes'
<1>0. /\ state \in [Sessions -> {"none", "attached", "detached", "gone"}]
      /\ gen \in [Sessions -> 0..MaxGen]
      /\ \A s \in Sessions : state[s] # "none" => gen[s] > 0
      /\ MaxGen \in Nat \ {0}
  BY SessionAssumption DEF SessionTypes
<1>1. CASE RuntimeStep /\ UNCHANGED serverVars
  <2>1. gen' = gen /\ (state' = state \/ Revoked) BY <1>1, RuntimeSessions
  <2>2. CASE state' = state BY <1>1, <2>1, <2>2 DEF SessionTypes, serverVars
  <2>3. CASE Revoked
    <3>1. state' \in [Sessions -> {"none", "attached", "detached", "gone"}]
      BY <1>0, <2>3 DEF Revoked
    <3>2. \A s \in Sessions : state'[s] # "none" => gen[s] > 0
      BY <1>0, <2>3 DEF Revoked, InTable
    <3>3. QED BY <1>1, <2>1, <3>1, <3>2 DEF SessionTypes, serverVars
  <2>4. QED BY <2>1, <2>2, <2>3
<1>2. CASE RenderDone /\ UNCHANGED serverVars
  BY <1>2 DEF RenderDone, sessionVars, serverVars, SessionTypes
<1>3. ASSUME NEW s \in Sessions, Create(s) PROVE SessionTypes'
  <2>1. /\ 1 \in 1..MaxGen /\ "open" \in ConnStates /\ SetConn(s, 1, "open")
    BY <1>0, <1>3 DEF Create, ConnStates
  <2>2. /\ conn' \in [Sessions -> [1..MaxGen -> ConnStates]]
        /\ \A t \in Sessions, h \in 1..MaxGen : conn'[t][h] = "resumed" => h > 1
    BY <2>1, ConnSet
  <2>3. state' = [state EXCEPT ![s] = "attached"] /\ gen' = [gen EXCEPT ![s] = 1]
    BY <1>3 DEF Create, CreateSession
  <2>4. /\ state' \in [Sessions -> {"none", "attached", "detached", "gone"}]
        /\ gen' \in [Sessions -> 0..MaxGen]
    BY <1>0, <2>1, <2>3
  <2>5. \A t \in Sessions : state'[t] # "none" => gen'[t] > 0 BY <1>0, <2>3
  <2>6. QED BY <2>2, <2>4, <2>5 DEF SessionTypes
<1>4. ASSUME NEW s \in Sessions, Resume(s) PROVE SessionTypes'
  <2>1. InTable(s) /\ gen[s] < MaxGen BY <1>4 DEF Resume, AttachSession
  <2>2. PICK g : g = gen[s] + 1 OBVIOUS
  <2>3. g \in 1..MaxGen /\ g > 1 /\ "resumed" \in ConnStates /\ SetConn(s, g, "resumed")
    BY <1>0, <1>4, <2>1, <2>2 DEF Resume, ConnStates, InTable
  <2>4. /\ conn' \in [Sessions -> [1..MaxGen -> ConnStates]]
        /\ \A t \in Sessions, h \in 1..MaxGen : conn'[t][h] = "resumed" => h > 1
    BY <2>3, ConnSet
  <2>5. state' = [state EXCEPT ![s] = "attached"] /\ gen' = [gen EXCEPT ![s] = g]
    BY <1>4, <2>2 DEF Resume, AttachSession
  <2>6. /\ state' \in [Sessions -> {"none", "attached", "detached", "gone"}]
        /\ gen' \in [Sessions -> 0..MaxGen]
    BY <1>0, <2>3, <2>5
  <2>7. \A t \in Sessions : state'[t] # "none" => gen'[t] > 0 BY <1>0, <2>3, <2>5
  <2>8. QED BY <2>4, <2>6, <2>7 DEF SessionTypes
<1>5. ASSUME NEW s \in Sessions, ResumeExpired(s) PROVE SessionTypes'
  <2>1. /\ state[s] = "detached" /\ state' = [state EXCEPT ![s] = "gone"] /\ gen' = gen
        /\ conn' = conn
    BY <1>5 DEF ResumeExpired, ExpireSession, RemoveSession, serverVars
  <2>2. state' \in [Sessions -> {"none", "attached", "detached", "gone"}] BY <1>0, <2>1
  <2>3. \A t \in Sessions : state'[t] # "none" => gen'[t] > 0 BY <1>0, <2>1
  <2>4. QED BY <2>1, <2>2, <2>3 DEF SessionTypes
<1>6. ASSUME NEW s \in Sessions, NEW g \in 1..MaxGen, Close(s, g) PROVE SessionTypes'
  <2>1. PICK where \in {"lost", "closed"} : SetConn(s, g, where) BY <1>6 DEF Close
  <2>2. where \in ConnStates /\ where # "resumed" BY DEF ConnStates
  <2>3. /\ conn' \in [Sessions -> [1..MaxGen -> ConnStates]]
        /\ \A t \in Sessions, h \in 1..MaxGen : conn'[t][h] = "resumed" => h > 1
    BY <2>1, <2>2, ConnSet
  <2>4. /\ state' = [state EXCEPT ![s] = IF Attached(s, g) THEN "detached" ELSE state[s]]
        /\ gen' = gen
    BY <1>6 DEF Close, DetachGeneration
  <2>5. state' \in [Sessions -> {"none", "attached", "detached", "gone"}] BY <1>0, <2>4
  <2>6. \A t \in Sessions : state'[t] # "none" => gen'[t] > 0 BY <1>0, <2>4 DEF Attached
  <2>7. QED BY <2>3, <2>4, <2>5, <2>6 DEF SessionTypes
<1>7. ASSUME NEW s \in Sessions, NEW g \in 1..MaxGen, Signal(s, g) PROVE SessionTypes'
  <2>1. PICK where \in {"open", "closed"} : SetConn(s, g, where) BY <1>7 DEF Signal
  <2>2. where \in ConnStates /\ where # "resumed" BY DEF ConnStates
  <2>3. /\ conn' \in [Sessions -> [1..MaxGen -> ConnStates]]
        /\ \A t \in Sessions, h \in 1..MaxGen : conn'[t][h] = "resumed" => h > 1
    BY <2>1, <2>2, ConnSet
  <2>4. state' = state /\ gen' = gen BY <1>7 DEF Signal, PortStep, sessionVars
  <2>5. QED BY <2>3, <2>4 DEF SessionTypes
<1>8. ASSUME NEW s \in Sessions, NEW g \in 1..MaxGen,
             \/ LeaseExpired(s, g)
             \/ \E id \in IDs : \E m \in workload.sends[id] : Dispatch(s, g, id, m)
      PROVE  SessionTypes'
  BY <1>8 DEF LeaseExpired, Dispatch, PortStep, sessionVars, serverVars, SessionTypes
<1>9. CASE UNCHANGED vars BY <1>9 DEF vars, sessionVars, serverVars, SessionTypes
<1>10. QED BY <1>1, <1>2, <1>3, <1>4, <1>5, <1>6, <1>7, <1>8, <1>9 DEF Next

(* The commands of the inbox and the batch, and the generations that are   *)
(* signalled and taken.                                                    *)
LEMMA ServiceTypes ==
  ASSUME QueueTypes, ServiceControl
  PROVE  controlKeys' \in SUBSET Keys /\ taken' \in SUBSET Keys
BY DEF QueueTypes, ServiceControl

LEMMA AdmitTypes ==
  ASSUME QueueTypes, NEW c, Admit(c)
  PROVE  /\ rt = "admit" /\ batch # <<>> /\ c = Head(batch) /\ c \in Commands
         /\ batch' = Tail(batch) /\ UNCHANGED <<queueVars, taken, surface>>
         /\ batch' \in Seq(Commands)
<1>1. AtHead(c) /\ batch' = Tail(batch) /\ UNCHANGED <<queueVars, taken, surface>>
  <2>1. CASE \/ AdmitRefused(c) \/ AdmitReplay(c) \/ AdmitPending(c)
             \/ AdmitRejected(c) \/ AdmitExecute(c)
    BY <2>1 DEF AdmitRefused, AdmitReplay, AdmitPending, AdmitRejected, AdmitExecute
  <2>2. CASE \/ \E outcome \in {"done", "failed"} : AdmitRead(c, outcome)
             \/ AdmitTimeAtOnce(c) \/ AdmitTimeDeferred(c) \/ AdmitCancel(c)
    BY <2>2 DEF AdmitRead, AdmitTimeAtOnce, AdmitTimeDeferred, AdmitCancel, AnswerAtOnce
  <2>3. CASE AdmitRevoke(c) BY <2>3 DEF AdmitRevoke, AnswerAtOnce
  <2>4. QED BY <2>1, <2>2, <2>3 DEF Admit
<1>2. batch \in Seq(Commands) /\ batch # <<>> /\ c = Head(batch) /\ rt = "admit"
  BY <1>1 DEF AtHead, QueueTypes
<1>3. c \in Commands /\ Tail(batch) \in Seq(Commands) BY <1>2, EmptySeq
<1>4. QED BY <1>1, <1>2, <1>3

LEMMA RuntimeQueueTypes == ASSUME QueueTypes, RuntimeStep, UNCHANGED serverVars PROVE QueueTypes'
<1>0. workload' = workload /\ sends' = sends BY DEF serverVars
<1>1. CASE StartTurn \/ AfterPreempt
  BY <1>0, <1>1, ServiceTypes DEF StartTurn, AfterPreempt, QueueTypes
<1>2. CASE Fence BY <1>0, <1>2 DEF Fence, QueueTypes
<1>3. CASE \E x \in closing : CompleteOne(x) BY <1>0, <1>3 DEF CompleteOne, queueVars, QueueTypes
<1>4. CASE \E ready \in BOOLEAN : RenderCompletion(ready)
  BY <1>0, <1>4 DEF RenderCompletion, queueVars, QueueTypes
<1>5. CASE ClaimTake
  <2>1. <<>> \in Seq(Commands) BY EmptySeq
  <2>2. inbox' \in Seq(Commands) /\ batch' \in Seq(Commands) BY <1>5, <2>1 DEF ClaimTake, QueueTypes
  <2>3. QED BY <1>0, <1>5, <2>2 DEF ClaimTake, QueueTypes
<1>6. CASE ClaimClear \/ AdmitDone BY <1>0, <1>6 DEF ClaimClear, AdmitDone, queueVars, QueueTypes
<1>7. ASSUME NEW c, Admit(c) PROVE QueueTypes'
  BY <1>0, <1>7, AdmitTypes DEF queueVars, QueueTypes
<1>8. CASE StartTokenFrame \/ StartWallFrame \/ NoFrame
  BY <1>0, <1>8 DEF StartTokenFrame, StartWallFrame, NoFrame, queueVars, QueueTypes
<1>9. CASE \E p \in FrameCommands \cup waiting, ok \in BOOLEAN : JobDone(p, ok)
  BY <1>0, <1>9 DEF JobDone, queueVars, QueueTypes
<1>10. ASSUME NEW human \in BOOLEAN, NEW lost \in BOOLEAN, FrameEvents(human, lost)
       PROVE  QueueTypes'
  <2>1. controlKeys' \in SUBSET Keys /\ taken' \in SUBSET Keys
    BY <1>10, ServiceTypes DEF FrameEvents, QueueTypes
  <2>2. surface' \in BOOLEAN BY <1>10 DEF FrameEvents
  <2>3. QED BY <1>0, <1>10, <2>1, <2>2 DEF FrameEvents, QueueTypes
<1>11. CASE FrameWithoutCommand \/ ActivateLost
  BY <1>0, <1>11 DEF FrameWithoutCommand, ActivateLost, queueVars, QueueTypes
<1>12. CASE \E jobs \in 0..MaxJobs, failed \in BOOLEAN : Activate(jobs, failed)
  BY <1>0, <1>12 DEF Activate, queueVars, QueueTypes
<1>13. CASE HumanParked \/ SurfaceCreated
  BY <1>0, <1>13 DEF HumanParked, SurfaceCreated, queueVars, QueueTypes
<1>14. QED BY <1>1, <1>2, <1>3, <1>4, <1>5, <1>6, <1>7, <1>8, <1>9, <1>10, <1>11, <1>12, <1>13
           DEF RuntimeStep

LEMMA QueueTypesNext == ASSUME SessionTypes, QueueTypes, [Next]_vars PROVE QueueTypes'
<1>1. CASE RuntimeStep /\ UNCHANGED serverVars BY <1>1, RuntimeQueueTypes
<1>2. CASE RenderDone /\ UNCHANGED serverVars
  BY <1>2 DEF RenderDone, queueVars, serverVars, QueueTypes
<1>3. ASSUME NEW s \in Sessions, Create(s) \/ Resume(s) \/ ResumeExpired(s) PROVE QueueTypes'
  BY <1>3 DEF Create, Resume, ResumeExpired, portVars, queueVars, serverVars, QueueTypes
<1>4. ASSUME NEW s \in Sessions, NEW g \in 1..MaxGen, Close(s, g) PROVE QueueTypes'
  BY <1>4 DEF Close, portVars, queueVars, QueueTypes
<1>5. ASSUME NEW key \in Keys, SignalControl(key), PortStep, UNCHANGED <<workload, sends>>
      PROVE  QueueTypes'
  BY <1>5 DEF SignalControl, PortStep, QueueTypes
<1>6. ASSUME NEW s \in Sessions, NEW g \in 1..MaxGen, Signal(s, g) PROVE QueueTypes'
  <2>1. CASE SignalControl(<<s, g>>) BY <1>5, <1>6, <2>1 DEF Signal, Keys
  <2>2. CASE conn[s][g] = "resumed" /\ SignalControl(<<s, g - 1>>)
    <3>1. g - 1 \in 1..MaxGen BY <2>2, SessionAssumption DEF SessionTypes
    <3>2. <<s, g - 1>> \in Keys BY <3>1 DEF Keys
    <3>3. QED BY <1>5, <1>6, <2>2, <3>2 DEF Signal
  <2>3. QED BY <1>6, <2>1, <2>2 DEF Signal
<1>7. ASSUME NEW s \in Sessions, NEW g \in 1..MaxGen, LeaseExpired(s, g) PROVE QueueTypes'
  BY <1>5, <1>7 DEF LeaseExpired, serverVars, Keys
<1>8. ASSUME NEW s \in Sessions, NEW g \in 1..MaxGen, NEW id \in IDs,
             NEW m \in workload.sends[id], Dispatch(s, g, id, m)
      PROVE  QueueTypes'
  <2>1. m \in Methods
    <3>1. workload \in [sends : [IDs -> SUBSET Methods], events : SUBSET Disturbances]
      BY ServerAssumption DEF QueueTypes
    <3>2. QED BY <3>1
  <2>2. PICK c : c = [s |-> s, g |-> g, id |-> id, m |-> m] OBVIOUS
  <2>3. c \in Commands BY <2>1, <2>2 DEF Commands
  <2>4. /\ inbox' = Append(inbox, c) /\ nonEmpty' = TRUE
        /\ UNCHANGED <<controlKeys, controlWanted, batch, taken, surface, workload>>
        /\ sends < MaxSends /\ sends' = sends + 1
    BY <1>8, <2>2 DEF Dispatch, SubmitCommand, PortStep
  <2>5. inbox' \in Seq(Commands) BY <2>3, <2>4 DEF QueueTypes
  <2>6. sends' \in 0..MaxSends BY <2>4, ServerAssumption DEF QueueTypes
  <2>7. QED BY <2>4, <2>5, <2>6 DEF QueueTypes
<1>9. CASE UNCHANGED vars BY <1>9 DEF vars, portVars, queueVars, serverVars, QueueTypes
<1>10. QED BY <1>1, <1>2, <1>3, <1>4, <1>6, <1>7, <1>8, <1>9 DEF Next

LEMMA AdmitTimeTypes ==
  ASSUME TimeTypes, QueueTypes, NEW c, Admit(c) PROVE TimeTypes'
<1>0. Key(c) \in Keys
  <2>1. c \in Commands BY AdmitTypes
  <2>2. QED BY <2>1 DEF Commands, Key, Keys
<1>1. CASE \/ AdmitRefused(c) \/ AdmitReplay(c) \/ AdmitPending(c)
           \/ AdmitRejected(c) \/ AdmitExecute(c)
  BY <1>1 DEF AdmitRefused, AdmitReplay, AdmitPending, AdmitRejected, AdmitExecute, timeVars, TimeTypes
<1>2. CASE (\E outcome \in {"done", "failed"} : AdmitRead(c, outcome)) \/ AdmitCancel(c)
  BY <1>2 DEF AdmitRead, AdmitCancel, timeVars, TimeTypes
<1>3. CASE AdmitTimeAtOnce(c) BY <1>0, <1>3 DEF AdmitTimeAtOnce, TimeTypes
<1>4. CASE AdmitTimeDeferred(c) BY <1>0, <1>4 DEF AdmitTimeDeferred, TimeMethods, TimeTypes
<1>5. CASE AdmitRevoke(c) BY <1>5 DEF AdmitRevoke, ForceWall, timeVars, TimeTypes
<1>6. QED BY <1>1, <1>2, <1>3, <1>4, <1>5 DEF Admit

LEMMA TimeTypesNext == ASSUME TimeTypes, QueueTypes, [Next]_vars PROVE TimeTypes'
<1> USE DEF timeVars, TimeTypes
<1>1. CASE StartTurn \/ AfterPreempt BY <1>1 DEF StartTurn, AfterPreempt
<1>2. CASE Fence BY <1>2 DEF Fence, ForceWall
<1>3. CASE \E x \in closing : CompleteOne(x) BY <1>3 DEF CompleteOne
<1>4. CASE \E ready \in BOOLEAN : RenderCompletion(ready) BY <1>4 DEF RenderCompletion
<1>5. CASE ClaimTake \/ ClaimClear \/ AdmitDone BY <1>5 DEF ClaimTake, ClaimClear, AdmitDone
<1>6. ASSUME NEW c, Admit(c) PROVE TimeTypes' BY <1>6, AdmitTimeTypes
<1>7. CASE StartTokenFrame \/ StartWallFrame \/ NoFrame
  BY <1>7 DEF StartTokenFrame, StartWallFrame, NoFrame
<1>8. CASE \E p \in FrameCommands \cup waiting, ok \in BOOLEAN : JobDone(p, ok) BY <1>8 DEF JobDone
<1>9. CASE \E human, lost \in BOOLEAN : FrameEvents(human, lost)
  BY <1>9 DEF FrameEvents, Preempt, ForceWall
<1>10. CASE FrameWithoutCommand \/ ActivateLost BY <1>10 DEF FrameWithoutCommand, ActivateLost
<1>11. CASE \E jobs \in 0..MaxJobs, failed \in BOOLEAN : Activate(jobs, failed) BY <1>11 DEF Activate
<1>12. CASE HumanParked \/ SurfaceCreated BY <1>12 DEF HumanParked, SurfaceCreated, Preempt, ForceWall
<1>13. CASE RenderDone BY <1>13 DEF RenderDone
<1>14. ASSUME NEW s \in Sessions, Create(s) \/ Resume(s) \/ ResumeExpired(s) PROVE TimeTypes'
  BY <1>14 DEF Create, Resume, ResumeExpired, portVars
<1>15. ASSUME NEW s \in Sessions, NEW g \in 1..MaxGen,
             \/ Close(s, g) \/ Signal(s, g) \/ LeaseExpired(s, g)
             \/ \E id \in IDs : \E m \in workload.sends[id] : Dispatch(s, g, id, m)
      PROVE  TimeTypes'
  BY <1>15 DEF Close, Signal, LeaseExpired, Dispatch, PortStep, portVars
<1>16. CASE UNCHANGED vars BY <1>16 DEF vars, portVars
<1> HIDE DEF timeVars, TimeTypes
<1>17. CASE RuntimeStep
  BY <1>1, <1>2, <1>3, <1>4, <1>5, <1>6, <1>7, <1>8, <1>9, <1>10, <1>11, <1>12, <1>17
     DEF RuntimeStep
<1>18. QED BY <1>13, <1>14, <1>15, <1>16, <1>17 DEF Next

LEMMA InitTypes == ASSUME Init PROVE Types
<1>1. SessionTypes
  <2>1. \A s \in Sessions : state[s] = "none" BY DEF Init, SessionsInit
  <2>2. \A s \in Sessions, g \in 1..MaxGen : conn[s][g] = "none" BY DEF Init
  <2>3. 0 \in 0..MaxGen BY SessionAssumption
  <2>4. QED BY <2>1, <2>2, <2>3 DEF Init, SessionsInit, SessionTypes, ConnStates
<1>2. QueueTypes
  <2>1. <<>> \in Seq(Commands) BY EmptySeq
  <2>2. sends \in 0..MaxSends /\ workload \in Workloads BY ServerAssumption DEF Init
  <2>3. /\ controlKeys \in SUBSET Keys /\ taken \in SUBSET Keys
        /\ nonEmpty \in BOOLEAN /\ controlWanted \in BOOLEAN /\ surface \in BOOLEAN
    BY DEF Init, PortInit
  <2>4. inbox \in Seq(Commands) /\ batch \in Seq(Commands) BY <2>1 DEF Init, PortInit
  <2>5. QED BY <2>2, <2>3, <2>4 DEF QueueTypes
<1>3. TimeTypes BY DEF Init, PortInit, TimeTypes
<1>4. QED BY <1>1, <1>2, <1>3 DEF Types

LEMMA NextTypes == ASSUME Types, [Next]_vars PROVE Types'
BY SessionTypesNext, QueueTypesNext, TimeTypesNext DEF Types

-----------------------------------------------------------------------------
(* What a step of the drive can be to the operations: every property below *)
(* follows from these six kinds.                                           *)

RunsLater == {"advance", "execute"}   \* they take effect after their admission

SessionsMove ==
  \A s \in Sessions : /\ state'[s] = "gone" <=> state[s] = "gone"
                      /\ state'[s] = "none" => state[s] = "none"

Quiet ==
  /\ Passes /\ UNCHANGED <<ledger, answers, activeCount>> /\ SessionsMove
  /\ \/ ran' = ran
     \/ \E c \in Pending \ Pending' : c.m \in RunsLater /\ ran' = Took(c)

Expires(s) ==
  /\ Passes /\ UNCHANGED <<answers, ran, activeCount>>
  /\ RemoveSession(s)

Rejects(c) ==
  /\ Passes /\ UNCHANGED <<state, ran, activeCount>>
  /\ c \in Commands /\ Admissible(c)
  /\ ledger' = [ledger EXCEPT ![c.s] = ClaimRejection(ledger[c.s], c.id, c.m, "rejected")]
  /\ answers' = Told(c, "rejected")

(* A rejection is not replayed: its retry is told that it is pending.      *)
Replays(c) ==
  /\ Passes /\ UNCHANGED <<state, ledger, ran, activeCount>>
  /\ c \in Commands /\ c.id \in Terminals(ledger[c.s])
  /\ answers' = Told(c, IF ledger[c.s].entries[c.id].admitted
                        THEN ledger[c.s].entries[c.id].outcome ELSE "pending")

ClaimsThenRevokes(c) ==
  /\ Revoked
  /\ LET after == [ledger EXCEPT ![c.s] = Claim(ledger[c.s], c.id, c.m)]
     IN ledger' = [after EXCEPT ![RevokeTarget] =
                     [NewLedger EXCEPT !.highWater = after[RevokeTarget].highWater]]

Claims(c) ==
  /\ Enters(c) /\ c \in Commands /\ c \notin Live \cup Ending /\ Admissible(c)
  /\ answers' = answers
  /\ activeCount' = IF c.m = "execute" THEN activeCount + 1 ELSE activeCount
  /\ \/ ran' = ran /\ c.m \in RunsLater
     \/ ran' = Took(c) /\ (c \notin Pending' \/ c.m \notin RunsLater)
  /\ \/ state' = state /\ Claimed(c)
     \/ ClaimsThenRevokes(c)

Finishes(x) ==
  /\ Leaves(x) /\ x \in closing /\ x.cmd \notin Live' \cup Ending'
  /\ Live' \cup Ending' \cup {x.cmd} = Live \cup Ending
  /\ UNCHANGED <<state, ran>>
  /\ ledger' = IF InTable(x.cmd.s)
               THEN [ledger EXCEPT ![x.cmd.s] =
                       Complete(ledger[x.cmd.s], x.cmd.id, x.outcome, PayloadOf(x.cmd, x.outcome))]
               ELSE ledger
  /\ activeCount' = IF x.cmd.m = "execute" /\ activeCount > 0
                    THEN activeCount - 1 ELSE activeCount
  /\ answers' = Told(x.cmd, x.outcome)

Kinds ==
  \/ Quiet
  \/ \E s \in Sessions : Expires(s)
  \/ \E c : Rejects(c) \/ Replays(c) \/ Claims(c)
  \/ \E x : Finishes(x)

WorkInv == IInv /\ Types /\ FlowInv /\ Known /\ Unique

(* A step of the runtime that records nothing.                             *)
LEMMA QuietStep ==
  ASSUME Passes, UNCHANGED <<ledger, answers, activeCount, state>>,
         ran' = ran \/ \E c \in Pending \ Pending' : c.m \in RunsLater /\ ran' = Took(c)
  PROVE  Kinds
BY DEF Kinds, Quiet, SessionsMove

LEMMA AdmitKinds ==
  ASSUME WorkInv, NEW c, Admit(c)
  PROVE  FlowInv' /\ Kinds
<1>0. FlowInv /\ IInv /\ Known /\ QueueTypes BY DEF WorkInv, Types
<1>1. rt = "admit" /\ rt \in TurnPoints /\ c \in Commands BY <1>0, AdmitTypes DEF TurnPoints
<1>2. Admissible(c) => c \notin Live \cup Ending BY <1>0, <1>1, NewIsUnknown
<1>3. CASE AdmitRefused(c)
  <2>1. /\ UNCHANGED <<frameTokens, activations, frames, waiting, closing, rt, ret>>
        /\ UNCHANGED <<ledger, answers, activeCount, state, ran>>
    BY <1>3 DEF AdmitRefused, sessionVars, workVars
  <2>2. Passes /\ FlowInv' BY <1>0, <2>1, AsideFlow
  <2>3. QED BY <2>1, <2>2, QuietStep
<1>4. CASE AdmitReplay(c) \/ AdmitPending(c)
  <2>1. /\ UNCHANGED <<frameTokens, activations, frames, waiting, closing, rt, ret>>
        /\ UNCHANGED <<ledger, activeCount, state, ran>>
        /\ Retained(c) /\ Entry(c).state = "terminal"
        /\ answers' = Told(c, IF Entry(c).admitted THEN Entry(c).outcome ELSE "pending")
    BY <1>4 DEF AdmitReplay, AdmitPending, Retried, sessionVars, workVars
  <2>2. Passes /\ FlowInv' BY <1>0, <2>1, AsideFlow
  <2>3. c.id \in Terminals(ledger[c.s])
    BY <2>1 DEF Retained, Lookup, Entry, Terminals
  <2>4. QED BY <1>1, <2>1, <2>2, <2>3 DEF Kinds, Replays, Entry
<1>5. CASE AdmitRejected(c)
  <2>1. /\ UNCHANGED <<frameTokens, activations, frames, waiting, closing, rt, ret>>
        /\ UNCHANGED <<activeCount, state, ran>> /\ Admissible(c)
        /\ ledger' = [ledger EXCEPT ![c.s] = ClaimRejection(ledger[c.s], c.id, c.m, "rejected")]
        /\ answers' = Told(c, "rejected")
    BY <1>5 DEF AdmitRejected, workVars
  <2>2. Passes /\ FlowInv' BY <1>0, <2>1, AsideFlow
  <2>3. QED BY <1>1, <2>1, <2>2 DEF Kinds, Rejects
<1>6. CASE AdmitExecute(c)
  <2>1. /\ Admissible(c) /\ Claimed(c) /\ c.m = "execute" /\ activeCount' = activeCount + 1
        /\ UNCHANGED <<state, ran, answers>>
    BY <1>6 DEF AdmitExecute
  <2>2. Enters(c) /\ FlowInv' BY <1>0, <1>1, <1>2, <1>6, <2>1, ExecuteFlow
  <2>3. QED BY <1>1, <1>2, <2>1, <2>2 DEF Kinds, Claims, RunsLater
<1>7. CASE AdmitTimeDeferred(c)
  <2>1. /\ Admissible(c) /\ Claimed(c) /\ c.m \in TimeMethods /\ activeCount' = activeCount
        /\ UNCHANGED <<state, answers>> /\ ran' = IF c.m = "advance" THEN ran ELSE Took(c)
    BY <1>7 DEF AdmitTimeDeferred
  <2>2. Enters(c) /\ FlowInv' BY <1>0, <1>1, <1>2, <1>7, <2>1, DeferredFlow
  <2>3. QED BY <1>1, <1>2, <2>1, <2>2 DEF Kinds, Claims, RunsLater, TimeMethods
<1>8. ASSUME Enters(c), FlowInv', c \notin Pending', Admissible(c), c.m # "execute",
             ran' = Took(c), UNCHANGED <<activeCount, answers>>,
             (state' = state /\ Claimed(c)) \/ ClaimsThenRevokes(c)
      PROVE  FlowInv' /\ Kinds
  BY <1>1, <1>2, <1>8 DEF Kinds, Claims
<1>9. ASSUME NEW outcome \in {"done", "failed"}, AdmitRead(c, outcome) PROVE FlowInv' /\ Kinds
  <2>1. /\ Admissible(c) /\ Claimed(c) /\ c.m = "read" /\ ran' = Took(c)
        /\ UNCHANGED <<state, activeCount, answers>>
    BY <1>9 DEF AdmitRead, AnswerAtOnce, workVars
  <2>2. Enters(c) /\ FlowInv' /\ c \notin Pending' BY <1>0, <1>1, <1>2, <1>9, <2>1, ReadFlow
  <2>3. QED BY <1>8, <2>1, <2>2
<1>10. CASE AdmitTimeAtOnce(c)
  <2>1. /\ Admissible(c) /\ Claimed(c) /\ c.m \in TimeMethods /\ ran' = Took(c)
        /\ UNCHANGED <<state, activeCount, answers>>
    BY <1>10 DEF AdmitTimeAtOnce, AnswerAtOnce, workVars
  <2>2. Enters(c) /\ FlowInv' /\ c \notin Pending' BY <1>0, <1>1, <1>2, <1>10, <2>1, TimeAtOnceFlow
  <2>3. c.m # "execute" BY <2>1 DEF TimeMethods
  <2>4. QED BY <1>8, <2>1, <2>2, <2>3
<1>11. CASE AdmitCancel(c)
  <2>1. /\ Admissible(c) /\ Claimed(c) /\ c.m = "cancel" /\ ran' = Took(c)
        /\ UNCHANGED <<state, activeCount, answers>>
    BY <1>11 DEF AdmitCancel, AnswerAtOnce
  <2>2. Enters(c) /\ FlowInv' /\ c \notin Pending' BY <1>0, <1>1, <1>2, <1>11, <2>1, CancelFlow
  <2>3. QED BY <1>8, <2>1, <2>2
<1>12. CASE AdmitRevoke(c)
  <2>1. /\ Admissible(c) /\ c.m = "revoke" /\ ran' = Took(c) /\ UNCHANGED <<activeCount, answers>>
    BY <1>12 DEF AdmitRevoke, AnswerAtOnce
  <2>2. (state' = state /\ Claimed(c)) \/ ClaimsThenRevokes(c)
    BY <1>12 DEF AdmitRevoke, ClaimsThenRevokes, Revoked, Claimed
  <2>3. Enters(c) /\ FlowInv' /\ c \notin Pending' BY <1>0, <1>1, <1>2, <1>12, <2>1, RevokeFlow
  <2>4. QED BY <1>8, <2>1, <2>2, <2>3
<1>13. QED BY <1>3, <1>4, <1>5, <1>6, <1>7, <1>9, <1>10, <1>11, <1>12 DEF Admit

LEMMA RuntimeKinds == ASSUME WorkInv, RuntimeStep PROVE FlowInv' /\ Kinds
<1>0. FlowInv /\ QueueTypes BY DEF WorkInv, Types
<1>1. CASE StartTurn \/ AfterPreempt
  <2>1. /\ rt \in {"park", "jobs", "events"} /\ ServiceControl
        /\ UNCHANGED <<frameTokens, activations, frames, waiting, closing>>
        /\ UNCHANGED <<ledger, answers, activeCount, state, ran>>
    BY <1>1 DEF StartTurn, AfterPreempt, workVars, sessionVars
  <2>2. Passes /\ FlowInv' BY <1>0, <2>1, ServiceFlow
  <2>3. QED BY <2>1, <2>2, QuietStep
<1>2. CASE Fence
  <2>1. UNCHANGED <<ledger, answers, activeCount, state, ran>> BY <1>2 DEF Fence, sessionVars
  <2>2. QED BY <1>0, <1>2, <2>1, FenceFlow, QuietStep
<1>3. ASSUME NEW x, CompleteOne(x) PROVE FlowInv' /\ Kinds
  <2>1. /\ Leaves(x) /\ Live' \cup Ending' \cup {x.cmd} = Live \cup Ending /\ FlowInv'
        /\ x \in closing /\ x.cmd \notin Live' \cup Ending'
    BY <1>0, <1>3, CompleteFlow
  <2>2. Finishes(x) BY <1>3, <2>1 DEF CompleteOne, Finishes
  <2>3. QED BY <2>1, <2>2 DEF Kinds
<1>4. ASSUME NEW ready \in BOOLEAN, RenderCompletion(ready) PROVE FlowInv' /\ Kinds
  <2>1. UNCHANGED <<ledger, answers, activeCount, state, ran>> BY <1>4 DEF RenderCompletion, sessionVars
  <2>2. QED BY <1>0, <1>4, <2>1, RenderCompletionFlow, QuietStep
<1>5. CASE ClaimTake \/ ClaimClear \/ AdmitDone \/ NoFrame \/ SurfaceCreated
  <2>1. /\ UNCHANGED <<ledger, answers, activeCount, state, ran>>
        /\ UNCHANGED <<frameTokens, activations, frames, waiting, closing>>
        /\ rt \in TurnPoints /\ rt' \in TurnPoints
    BY <1>5 DEF ClaimTake, ClaimClear, AdmitDone, NoFrame, SurfaceCreated, sessionVars, workVars,
                TurnPoints
  <2>2. Passes /\ FlowInv' BY <1>0, <2>1, TurnFlow
  <2>3. QED BY <2>1, <2>2, QuietStep
<1>6. ASSUME NEW c, Admit(c) PROVE FlowInv' /\ Kinds BY <1>6, AdmitKinds
<1>7. CASE StartTokenFrame
  <2>1. PICK c : c = Head(frameTokens) OBVIOUS
  <2>2. Passes /\ FlowInv' /\ c \in Pending \ Pending' BY <1>0, <1>7, <2>1, TokenFrameFlow
  <2>3. UNCHANGED <<ledger, answers, activeCount, state>> BY <1>7 DEF StartTokenFrame, sessionVars
  <2>4. ran' = ran \/ (c.m = "advance" /\ ran' = Took(c)) BY <1>7, <2>1 DEF StartTokenFrame
  <2>5. ran' = ran \/ \E d \in Pending \ Pending' : d.m \in RunsLater /\ ran' = Took(d)
    BY <2>2, <2>4 DEF RunsLater
  <2>6. QED BY <2>2, <2>3, <2>5, QuietStep
<1>8. CASE StartWallFrame
  <2>1. UNCHANGED <<ledger, answers, activeCount, state, ran>> BY <1>8 DEF StartWallFrame, sessionVars
  <2>2. surface \in BOOLEAN BY <1>0 DEF QueueTypes
  <2>3. QED BY <1>0, <1>8, <2>1, <2>2, WallFrameFlow, QuietStep
<1>9. ASSUME NEW p \in FrameCommands \cup waiting, NEW ok \in BOOLEAN, JobDone(p, ok)
      PROVE  FlowInv' /\ Kinds
  <2>1. UNCHANGED <<ledger, answers, activeCount, state, ran>> BY <1>9 DEF JobDone, sessionVars
  <2>2. QED BY <1>0, <1>9, <2>1, JobDoneFlow, QuietStep
<1>10. ASSUME NEW human \in BOOLEAN, NEW lost \in BOOLEAN, FrameEvents(human, lost)
       PROVE  FlowInv' /\ Kinds
  <2>1. UNCHANGED <<ledger, answers, activeCount, state, ran>> BY <1>10 DEF FrameEvents, sessionVars
  <2>2. QED BY <1>0, <1>10, <2>1, EventsFlow, QuietStep
<1>11. CASE FrameWithoutCommand
  <2>1. UNCHANGED <<ledger, answers, activeCount, state, ran>>
    BY <1>11 DEF FrameWithoutCommand, sessionVars
  <2>2. QED BY <1>0, <1>11, <2>1, NoCommandFlow, QuietStep
<1>12. CASE ActivateLost
  <2>1. UNCHANGED <<ledger, answers, activeCount, state, ran>> BY <1>12 DEF ActivateLost, sessionVars
  <2>2. QED BY <1>0, <1>12, <2>1, ActivateLostFlow, QuietStep
<1>13. ASSUME NEW jobs \in 0..MaxJobs, NEW failed \in BOOLEAN, Activate(jobs, failed)
       PROVE  FlowInv' /\ Kinds
  <2>1. PICK c : c = Head(activations).cmd OBVIOUS
  <2>2. Passes /\ FlowInv' /\ c \in Pending \ Pending' BY <1>0, <1>13, <2>1, ActivateFlow
  <2>3. UNCHANGED <<ledger, answers, activeCount, state>> /\ activations # <<>> /\ ran' = Took(c)
    BY <1>13, <2>1 DEF Activate, sessionVars, NothingToRun
  <2>4. c.m = "execute" BY <1>0, <2>1, <2>3, CommandLeaves
  <2>5. \E d \in Pending \ Pending' : d.m \in RunsLater /\ ran' = Took(d)
    BY <2>2, <2>3, <2>4 DEF RunsLater
  <2>6. QED BY <2>2, <2>3, <2>5, QuietStep
<1>14. CASE HumanParked
  <2>1. UNCHANGED <<ledger, answers, activeCount, state, ran>> BY <1>14 DEF HumanParked, sessionVars
  <2>2. QED BY <1>0, <1>14, <2>1, HumanFlow, QuietStep
<1>15. QED BY <1>1, <1>2, <1>3, <1>4, <1>5, <1>6, <1>7, <1>8, <1>9, <1>10, <1>11, <1>12, <1>13,
              <1>14 DEF RuntimeStep

LEMMA NextKinds == ASSUME WorkInv, [Next]_vars PROVE FlowInv' /\ Kinds
<1>0. FlowInv /\ SessionTypes BY DEF WorkInv, Types
<1>1. CASE RuntimeStep BY <1>1, RuntimeKinds
<1>2. CASE RenderDone
  <2>1. UNCHANGED <<ledger, answers, activeCount, state, ran>> BY <1>2 DEF RenderDone, sessionVars
  <2>2. QED BY <1>0, <1>2, <2>1, RenderDoneFlow, QuietStep
<1>3. ASSUME UNCHANGED <<frameTokens, activations, frames, waiting, closing, rt, ret>>,
             UNCHANGED <<ledger, answers, activeCount, ran>>, SessionsMove
      PROVE  FlowInv' /\ Kinds
  <2>1. Passes /\ FlowInv' BY <1>0, <1>3, AsideFlow
  <2>2. QED BY <1>3, <2>1 DEF Kinds, Quiet
<1>4. state \in [Sessions -> {"none", "attached", "detached", "gone"}] BY <1>0 DEF SessionTypes
<1>5. ASSUME NEW s \in Sessions, Create(s) \/ Resume(s) PROVE FlowInv' /\ Kinds
  <2>1. state' = [state EXCEPT ![s] = "attached"] /\ state[s] # "gone"
    BY <1>5 DEF Create, Resume, CreateSession, AttachSession, InTable
  <2>2. SessionsMove BY <1>4, <2>1 DEF SessionsMove
  <2>3. QED BY <1>3, <1>5, <2>2
     DEF Create, Resume, CreateSession, AttachSession, portVars, workVars
<1>6. ASSUME NEW s \in Sessions, ResumeExpired(s) PROVE FlowInv' /\ Kinds
  <2>1. /\ UNCHANGED <<frameTokens, activations, frames, waiting, closing, rt, ret>>
        /\ UNCHANGED <<answers, activeCount, ran>> /\ RemoveSession(s)
    BY <1>6 DEF ResumeExpired, ExpireSession, portVars, workVars
  <2>2. Passes /\ FlowInv' BY <1>0, <2>1, AsideFlow
  <2>3. QED BY <2>1, <2>2 DEF Kinds, Expires
<1>7. ASSUME NEW s \in Sessions, NEW g \in 1..MaxGen, Close(s, g) PROVE FlowInv' /\ Kinds
  <2>1. state' = [state EXCEPT ![s] = IF Attached(s, g) THEN "detached" ELSE state[s]]
    BY <1>7 DEF Close, DetachGeneration
  <2>2. SessionsMove BY <1>4, <2>1 DEF SessionsMove, Attached
  <2>3. QED BY <1>3, <1>7, <2>2 DEF Close, DetachGeneration, portVars, workVars
<1>8. ASSUME NEW s \in Sessions, NEW g \in 1..MaxGen,
             \/ Signal(s, g) \/ LeaseExpired(s, g)
             \/ \E id \in IDs : \E m \in workload.sends[id] : Dispatch(s, g, id, m)
      PROVE  FlowInv' /\ Kinds
  <2>1. PortStep BY <1>8 DEF Signal, LeaseExpired, Dispatch
  <2>2. SessionsMove BY <2>1 DEF SessionsMove, PortStep, sessionVars
  <2>3. QED BY <1>3, <2>1, <2>2 DEF PortStep, sessionVars, workVars
<1>9. CASE UNCHANGED vars
  <2>1. SessionsMove BY <1>9 DEF SessionsMove, vars, sessionVars
  <2>2. QED BY <1>3, <1>9, <2>1 DEF vars, portVars, sessionVars, workVars
<1>10. QED BY <1>1, <1>2, <1>5, <1>6, <1>7, <1>8, <1>9 DEF Next

-----------------------------------------------------------------------------
(* What the methods of a ledger do to what it holds open and to what it    *)
(* has settled.                                                            *)

Holds(l, m) == \A i \in Terminals(m) : i \in Terminals(l) /\ m.entries[i] = l.entries[i]

(* What an entry is: all are admitted but those of rejections.             *)
EntryOK(e) ==
  /\ e.canonical \in Methods /\ e.admitted \in BOOLEAN
  /\ e.outcome \in Outcomes \cup {None} /\ e.payload \in {0, Payload}
  /\ e.admitted = FALSE => e.state = "terminal" /\ e.outcome = "rejected"

EntriesOK(l) == \A i \in DOMAIN l.entries : EntryOK(l.entries[i])

ClaimedFrom(l, m) ==
  /\ m.highWater = l.highWater + 1 /\ Holds(l, m)
  /\ EntriesOK(l) => EntriesOK(m)
  /\ \A i : Open(m, i) <=> Open(l, i) \/ i = l.highWater + 1

RejectedFrom(l, m, outcome) ==
  /\ m.highWater = l.highWater + 1
  /\ EntriesOK(l) => EntriesOK(m)
  /\ \A i : Open(m, i) <=> Open(l, i)
  /\ \A i \in Terminals(m) :
       \/ i \in Terminals(l) /\ m.entries[i] = l.entries[i]
       \/ i = l.highWater + 1 /\ m.entries[i].outcome = outcome

CompletedFrom(l, m, id, outcome) ==
  /\ m.highWater = l.highWater
  /\ EntriesOK(l) => EntriesOK(m)
  /\ \A i : Open(m, i) <=> Open(l, i) /\ i # id
  /\ \A i \in Terminals(m) :
       \/ i \in Terminals(l) /\ m.entries[i] = l.entries[i]
       \/ Open(l, id) /\ i = id /\ m.entries[i].outcome = outcome

LEMMA ClaimEffect ==
  ASSUME NEW l, Shape(l), NEW canonical \in Methods
  PROVE  ClaimedFrom(l, Claim(l, l.highWater + 1, canonical))
<1> DEFINE e == [canonical |-> canonical, state |-> "admitted", admitted |-> TRUE,
                 outcome |-> None, payload |-> 0]
           m == Append1(l, l.highWater + 1, e)
<1>1. Claim(l, l.highWater + 1, canonical) = m BY DEF Claim
<1>2. /\ e.state = "admitted" /\ e.canonical = canonical /\ e.admitted = TRUE
      /\ e.outcome = None /\ e.payload = 0
      /\ e = [canonical |-> e.canonical, state |-> e.state, admitted |-> e.admitted,
              outcome |-> e.outcome, payload |-> e.payload]
  OBVIOUS
<1> HIDE DEF e
<1>3. /\ m.highWater = l.highWater + 1
      /\ \A i \in DOMAIN m.entries : i # l.highWater + 1
           => i \in DOMAIN l.entries /\ m.entries[i] = l.entries[i]
      /\ \A i \in DOMAIN l.entries : l.entries[i].state = "admitted" => i \in DOMAIN m.entries
      /\ l.highWater + 1 \in DOMAIN m.entries /\ m.entries[l.highWater + 1] = e
  BY <1>2, AppendShape
<1>4. l.highWater + 1 \notin DOMAIN l.entries BY DEF Shape
<1> HIDE DEF m
<1>5. EntriesOK(l) => EntriesOK(m)
  <2>1. EntryOK(e) BY <1>2 DEF EntryOK
  <2>2. QED BY <1>3, <2>1 DEF EntriesOK
<1>6. QED BY <1>1, <1>2, <1>3, <1>4, <1>5 DEF ClaimedFrom, Holds, Open, Terminals

LEMMA RejectionEffect ==
  ASSUME NEW l, Shape(l), NEW canonical \in Methods
  PROVE  RejectedFrom(l, ClaimRejection(l, l.highWater + 1, canonical, "rejected"), "rejected")
<1> DEFINE e == [canonical |-> canonical, state |-> "terminal", admitted |-> FALSE,
                 outcome |-> "rejected", payload |-> 0]
           m == Append1(l, l.highWater + 1, e)
<1>1. ClaimRejection(l, l.highWater + 1, canonical, "rejected") = m BY DEF ClaimRejection
<1>2. /\ e.state = "terminal" /\ e.outcome = "rejected" /\ e.outcome \in Outcomes
      /\ e.canonical = canonical /\ e.admitted = FALSE /\ e.payload = 0
      /\ e = [canonical |-> e.canonical, state |-> e.state, admitted |-> e.admitted,
              outcome |-> e.outcome, payload |-> e.payload]
  BY DEF Outcomes
<1> HIDE DEF e
<1>3. /\ m.highWater = l.highWater + 1
      /\ \A i \in DOMAIN m.entries : i # l.highWater + 1
           => i \in DOMAIN l.entries /\ m.entries[i] = l.entries[i]
      /\ \A i \in DOMAIN l.entries : l.entries[i].state = "admitted" => i \in DOMAIN m.entries
      /\ l.highWater + 1 \in DOMAIN m.entries => m.entries[l.highWater + 1] = e
  BY <1>2, AppendShape
<1>4. l.highWater + 1 \notin DOMAIN l.entries BY DEF Shape
<1> HIDE DEF m
<1>5. EntriesOK(l) => EntriesOK(m)
  <2>1. EntryOK(e) BY <1>2 DEF EntryOK
  <2>2. QED BY <1>3, <2>1 DEF EntriesOK
<1>6. QED BY <1>1, <1>2, <1>3, <1>4, <1>5 DEF RejectedFrom, Open, Terminals

LEMMA CompleteEffect ==
  ASSUME NEW l, Shape(l), NEW id, NEW outcome \in Outcomes, NEW payload \in {0, Payload}
  PROVE  CompletedFrom(l, Complete(l, id, outcome, payload), id, outcome)
<1>1. PICK m : m = Complete(l, id, outcome, payload) OBVIOUS
<1>2. CASE ~Open(l, id)
  <2>1. m = l BY <1>1, <1>2 DEF Complete
  <2>2. QED BY <1>1, <1>2, <2>1 DEF CompletedFrom
<1>3. CASE Open(l, id)
  <2> DEFINE e == [canonical |-> l.entries[id].canonical, state |-> "terminal",
                   admitted |-> l.entries[id].admitted, outcome |-> outcome,
                   payload |-> payload]
             a == [highWater |-> l.highWater, entries |-> [l.entries EXCEPT ![id] = e],
                   bytes |-> l.bytes + payload]
  <2>1. id \in DOMAIN l.entries /\ l.entries[id].state = "admitted" BY <1>3 DEF Open
  <2>2. m = Evict(a) BY <1>1, <1>3 DEF Complete
  <2>3. /\ e = [canonical |-> e.canonical, state |-> e.state, admitted |-> e.admitted,
                outcome |-> e.outcome, payload |-> e.payload]
        /\ e.state = "terminal" /\ e.outcome = outcome /\ e.payload = payload
        /\ e.canonical = l.entries[id].canonical /\ e.admitted = l.entries[id].admitted
    OBVIOUS
  <2> HIDE DEF e
  <2>4. /\ DOMAIN a.entries = DOMAIN l.entries /\ a.entries[id] = e
        /\ \A i \in DOMAIN l.entries : i # id => a.entries[i] = l.entries[i]
        /\ a.highWater = l.highWater
        /\ a = [highWater |-> a.highWater, entries |-> a.entries, bytes |-> a.bytes]
        /\ a.entries = [i \in DOMAIN a.entries |-> a.entries[i]]
    BY <2>1 DEF Shape
  <2> HIDE DEF a
  <2>5. Shape(a) BY <2>3, <2>4 DEF Shape
  <2>6. Keeps(a, m) BY <2>2, <2>5, EvictKeeps
  <2>7. \A i \in DOMAIN m.entries : i \in DOMAIN a.entries /\ m.entries[i] = a.entries[i]
    BY <2>6 DEF Keeps
  <2>8. \A i \in DOMAIN a.entries : a.entries[i].state = "admitted" => i \in DOMAIN m.entries
    BY <2>6 DEF Keeps
  <2>9. m.highWater = l.highWater BY <2>4, <2>6 DEF Keeps
  <2>10. ASSUME NEW i PROVE Open(m, i) <=> Open(l, i) /\ i # id
    BY <2>1, <2>3, <2>4, <2>7, <2>8 DEF Open
  <2>11. ASSUME NEW i \in Terminals(m)
         PROVE  \/ i \in Terminals(l) /\ m.entries[i] = l.entries[i]
                \/ Open(l, id) /\ i = id /\ m.entries[i].outcome = outcome
    BY <1>3, <2>3, <2>4, <2>7 DEF Terminals
  <2>12. EntriesOK(l) => EntriesOK(m)
    <3>1. EntriesOK(l) => EntriesOK(a)
      <4>1. EntryOK(l.entries[id]) => EntryOK(e) BY <2>1, <2>3 DEF EntryOK
      <4>2. QED BY <2>1, <2>4, <4>1 DEF EntriesOK
    <3>2. QED BY <2>7, <3>1 DEF EntriesOK
  <2>13. QED BY <1>1, <2>9, <2>10, <2>11, <2>12 DEF CompletedFrom
<1>4. QED BY <1>2, <1>3

(* A session that is removed keeps its high-water mark and nothing else.   *)
Emptied(m, highWater) ==
  /\ m.highWater = highWater /\ EntriesOK(m)
  /\ Terminals(m) = {} /\ \A i : ~Open(m, i)

LEMMA EmptyEffect ==
  ASSUME NEW highWater
  PROVE  Emptied([NewLedger EXCEPT !.highWater = highWater], highWater)
<1>1. PICK m : m = [NewLedger EXCEPT !.highWater = highWater] OBVIOUS
<1>2. m.highWater = highWater /\ m.entries = [i \in {} |-> None] BY <1>1 DEF NewLedger
<1>3. DOMAIN m.entries = {} BY <1>2
<1>4. EntriesOK(m) BY <1>3 DEF EntriesOK
<1>5. QED BY <1>1, <1>2, <1>3, <1>4 DEF Emptied, Terminals, Open

(* The ledgers of all the sessions in a step of each kind.                 *)
Others(s) == \A t \in Sessions : t # s => ledger'[t] = ledger[t]

LEMMA RejectLedgers ==
  ASSUME IInv, NEW c, Rejects(c)
  PROVE  /\ c.s \in Sessions /\ c.id = ledger[c.s].highWater + 1 /\ Others(c.s)
         /\ RejectedFrom(ledger[c.s], ledger'[c.s], "rejected")
<1>1. /\ c.s \in Sessions /\ c.id = ledger[c.s].highWater + 1 /\ c.m \in Methods
      /\ ledger' = [ledger EXCEPT ![c.s] = ClaimRejection(ledger[c.s], c.id, c.m, "rejected")]
  BY DEF Rejects, Commands, Admissible, NextID
<1>2. DOMAIN ledger = Sessions /\ Shape(ledger[c.s]) BY <1>1 DEF IInv, LedgersShaped
<1>3. ledger'[c.s] = ClaimRejection(ledger[c.s], c.id, c.m, "rejected") /\ Others(c.s)
  BY <1>1, <1>2 DEF Others
<1>4. QED BY <1>1, <1>2, <1>3, RejectionEffect

LEMMA FinishLedgers ==
  ASSUME IInv, FlowInv, NEW x, Finishes(x)
  PROVE  /\ x.cmd \in Commands /\ x.cmd.s \in Sessions /\ x.outcome \in Outcomes
         /\ Others(x.cmd.s)
         /\ InTable(x.cmd.s)
              => CompletedFrom(ledger[x.cmd.s], ledger'[x.cmd.s], x.cmd.id, x.outcome)
         /\ ~InTable(x.cmd.s) => ledger' = ledger
<1>1. x \in closing /\ closing \in SUBSET [cmd : Commands, outcome : Outcomes]
  BY DEF Finishes, FlowInv, PlacesInv, EndOK
<1>2. x.cmd \in Commands /\ x.outcome \in Outcomes BY <1>1
<1>3. x.cmd.s \in Sessions BY <1>2 DEF Commands
<1>4. DOMAIN ledger = Sessions /\ Shape(ledger[x.cmd.s]) BY <1>3 DEF IInv, LedgersShaped
<1>5. CASE InTable(x.cmd.s)
  <2>1. PICK s, id, outcome, payload :
          s = x.cmd.s /\ id = x.cmd.id /\ outcome = x.outcome /\ payload = PayloadOf(x.cmd, x.outcome)
    OBVIOUS
  <2>2. ledger' = [ledger EXCEPT ![s] = Complete(ledger[s], id, outcome, payload)]
    BY <1>5, <2>1 DEF Finishes
  <2>3. ledger'[s] = Complete(ledger[s], id, outcome, payload) /\ Others(s)
    BY <1>3, <1>4, <2>1, <2>2 DEF Others
  <2>4. CompletedFrom(ledger[s], ledger'[s], id, outcome)
    <3>1. payload \in {0, Payload} BY <2>1 DEF PayloadOf
    <3>2. QED BY <1>2, <1>4, <2>1, <2>3, <3>1, CompleteEffect
  <2>5. QED BY <1>2, <1>3, <1>5, <2>1, <2>3, <2>4
<1>6. CASE ~InTable(x.cmd.s)
  <2>1. ledger' = ledger BY <1>6 DEF Finishes
  <2>2. QED BY <1>2, <1>3, <1>6, <2>1 DEF Others
<1>7. QED BY <1>5, <1>6

LEMMA ExpireLedgers ==
  ASSUME IInv, NEW s \in Sessions, RemoveSession(s)
  PROVE  Others(s) /\ Emptied(ledger'[s], ledger[s].highWater)
<1>1. DOMAIN ledger = Sessions BY DEF IInv, LedgersShaped
<1>2. ledger'[s] = [NewLedger EXCEPT !.highWater = ledger[s].highWater] /\ Others(s)
  BY <1>1 DEF RemoveSession, Others
<1>3. QED BY <1>2, EmptyEffect

(* A claim, and perhaps the revocation of a session.                       *)
LEMMA ClaimLedgers ==
  ASSUME IInv, Types, NEW c, Claims(c)
  PROVE  /\ c.s \in Sessions /\ c.id = ledger[c.s].highWater + 1
         /\ \A t \in Sessions :
              \/ state'[t] = state[t] /\ t # c.s /\ ledger'[t] = ledger[t]
              \/ state'[t] = state[t] /\ t = c.s /\ ClaimedFrom(ledger[t], ledger'[t])
              \/ /\ state'[t] = "gone"
                 /\ Emptied(ledger'[t], IF t = c.s THEN ledger[t].highWater + 1
                                        ELSE ledger[t].highWater)
<1>1. c.s \in Sessions /\ c.id = ledger[c.s].highWater + 1 /\ c.m \in Methods
  BY DEF Claims, Commands, Admissible, NextID
<1>2. DOMAIN ledger = Sessions /\ Shape(ledger[c.s]) /\ RevokeTarget \in Sessions
      /\ DOMAIN state = Sessions
  BY <1>1, PortAssumption DEF IInv, LedgersShaped, Types, SessionTypes
<1>3. PICK l : l = Claim(ledger[c.s], c.id, c.m) OBVIOUS
<1>4. ClaimedFrom(ledger[c.s], l) BY <1>1, <1>2, <1>3, ClaimEffect
<1>5. CASE state' = state /\ Claimed(c)
  <2>1. ledger' = [ledger EXCEPT ![c.s] = l] BY <1>3, <1>5 DEF Claimed
  <2>2. QED BY <1>1, <1>2, <1>4, <1>5, <2>1
<1>6. CASE ClaimsThenRevokes(c)
  <2>1. PICK after, r : after = [ledger EXCEPT ![c.s] = l] /\ r = RevokeTarget OBVIOUS
  <2>2. PICK m : m = [NewLedger EXCEPT !.highWater = after[r].highWater] OBVIOUS
  <2>3. /\ ledger' = [after EXCEPT ![r] = m] /\ state' = [state EXCEPT ![r] = "gone"]
    BY <1>3, <1>6, <2>1, <2>2 DEF ClaimsThenRevokes, Revoked
  <2>4. Emptied(m, after[r].highWater) BY <2>2, EmptyEffect
  <2>5. l.highWater = ledger[c.s].highWater + 1 BY <1>4 DEF ClaimedFrom
  <2>6. after[r].highWater = IF r = c.s THEN ledger[r].highWater + 1 ELSE ledger[r].highWater
    BY <1>2, <2>1, <2>5
  <2>7. ASSUME NEW t \in Sessions
        PROVE  \/ state'[t] = state[t] /\ t # c.s /\ ledger'[t] = ledger[t]
               \/ state'[t] = state[t] /\ t = c.s /\ ClaimedFrom(ledger[t], ledger'[t])
               \/ /\ state'[t] = "gone"
                  /\ Emptied(ledger'[t], IF t = c.s THEN ledger[t].highWater + 1
                                         ELSE ledger[t].highWater)
    <3>1. CASE t = r
      <4>1. ledger'[t] = m /\ state'[t] = "gone" BY <1>2, <2>1, <2>3, <3>1
      <4>2. QED BY <2>4, <2>6, <3>1, <4>1
    <3>2. CASE t # r
      <4>1. ledger'[t] = after[t] /\ state'[t] = state[t] BY <1>2, <2>1, <2>3, <3>2
      <4>2. after[t] = IF t = c.s THEN l ELSE ledger[t] BY <1>2, <2>1
      <4>3. QED BY <1>4, <4>1, <4>2
    <3>3. QED BY <3>1, <3>2
  <2>8. QED BY <1>1, <2>7
<1>7. QED BY <1>5, <1>6 DEF Claims

-----------------------------------------------------------------------------
(* The work of the runtime has known IDs, each of them once.               *)

LEMMA WorkType == ASSUME FlowInv PROVE Live \cup Ending \in SUBSET Commands
<1>1. Live \in SUBSET Commands BY LiveType DEF FlowInv, PlacesInv, Live
<1>2. closing \in SUBSET [cmd : Commands, outcome : Outcomes] BY DEF FlowInv, PlacesInv, EndOK
<1>3. \A x \in closing : x.cmd \in Commands BY <1>2
<1>4. Ending \in SUBSET Commands BY <1>3, InCmds DEF Ending
<1>5. QED BY <1>1, <1>4

LEMMA HighWaters ==
  ASSUME IInv, [Next]_vars
  PROVE  \A s \in Sessions : /\ ledger[s].highWater \in Nat /\ ledger'[s].highWater \in Nat
                             /\ ledger'[s].highWater >= ledger[s].highWater
<1>1. LedgersStep BY NextLedgers
<1>2. ASSUME NEW s \in Sessions
      PROVE  /\ ledger[s].highWater \in Nat /\ ledger'[s].highWater \in Nat
             /\ ledger'[s].highWater >= ledger[s].highWater
  <2>1. PICK l, m : l = ledger[s] /\ m = ledger'[s] OBVIOUS
  <2>2. Shape(l) /\ LedgerStep(l, m) BY <1>1, <2>1 DEF IInv, LedgersShaped, LedgersStep
  <2>3. Shape(m) /\ Moves(l, m) BY <2>2, LedgerStepMoves
  <2>4. l.highWater \in Nat /\ m.highWater \in {l.highWater, l.highWater + 1}
    BY <2>2, <2>3 DEF Shape, Moves
  <2>5. QED BY <2>1, <2>4
<1>3. QED BY <1>2

LEMMA WorkInit == ASSUME Init PROVE WorkInv
<1>1. IInv /\ Types BY InitIInv, InitTypes
<1>2. /\ frameTokens = <<>> /\ activations = <<>> /\ frames = <<>> /\ waiting = {} /\ closing = {}
      /\ rt = "park"
  BY DEF Init, PortInit
<1>3. /\ <<>> \in Seq(Commands) /\ <<>> \in Seq(PendingCommands) /\ <<>> \in Seq(FrameRecords)
      /\ DOMAIN <<>> = {}
  BY EmptySeq
<1>4. PICK e : e = <<>> OBVIOUS
<1>5. Range(e) = {} /\ IsInjective(e) /\ Apart(e) /\ OpenLast(e)
  BY <1>3, <1>4 DEF Range, IsInjective, Apart, OpenLast
<1>6. TokensOf(e) = {} /\ CommandsOf(e) = {} BY <1>5 DEF TokensOf, CommandsOf
<1>7. FramesOK(e) BY <1>3, <1>4, <1>5 DEF FramesOK
<1>8. LiveOK(e, e, e, {}) BY <1>3, <1>4, <1>5, <1>6, <1>7 DEF LiveOK
<1>9. Live = {} /\ Ending = {} BY <1>2, <1>4, <1>5, <1>6 DEF Live, LiveOf, Ending, Cmds
<1>10. PlacesInv BY <1>2, <1>4, <1>8 DEF PlacesInv, EndOK
<1>11. Control BY <1>2 DEF Control, Point, TurnPoints, FramePoints, Building
<1>12. Known /\ Unique BY <1>9 DEF Known, Unique
<1>13. QED BY <1>1, <1>10, <1>11, <1>12 DEF WorkInv, FlowInv

LEMMA WorkNext == ASSUME WorkInv, [Next]_vars PROVE WorkInv' /\ Kinds
<1>0. IInv /\ Types /\ FlowInv /\ Known /\ Unique BY DEF WorkInv
<1>1. IInv' /\ Types' BY <1>0, NextIInv, NextTypes
<1>2. FlowInv' /\ Kinds BY NextKinds
<1>3. \A c \in Live \cup Ending : c \in Commands /\ c.s \in Sessions /\ c.id \in Nat
  <2>1. \A c \in Live \cup Ending : c \in Commands BY <1>0, WorkType
  <2>2. QED BY <2>1 DEF Commands, IDs
<1>4. \A s \in Sessions : /\ ledger[s].highWater \in Nat /\ ledger'[s].highWater \in Nat
                          /\ ledger'[s].highWater >= ledger[s].highWater
  BY <1>0, HighWaters
<1>5. \A c \in Live \cup Ending : c.id <= ledger[c.s].highWater /\ c.id <= ledger'[c.s].highWater
  BY <1>0, <1>3, <1>4 DEF Known
<1>6. CASE Live' \cup Ending' \subseteq Live \cup Ending
  <2>1. Known' BY <1>5, <1>6 DEF Known
  <2>2. Unique' BY <1>0, <1>6 DEF Unique
  <2>3. QED BY <1>1, <1>2, <2>1, <2>2 DEF WorkInv
<1>7. ASSUME NEW c, Claims(c) PROVE WorkInv' /\ Kinds
  <2>1. c.s \in Sessions /\ c.id = ledger[c.s].highWater + 1 BY <1>0, <1>7, ClaimLedgers
  <2>2. c.id <= ledger'[c.s].highWater
    <3>1. PICK t : t = c.s OBVIOUS
    <3>2. \/ ClaimedFrom(ledger[t], ledger'[t])
          \/ Emptied(ledger'[t], ledger[t].highWater + 1)
      BY <1>0, <1>7, <2>1, <3>1, ClaimLedgers
    <3>3. ledger'[t].highWater = ledger[t].highWater + 1 BY <3>2 DEF ClaimedFrom, Emptied
    <3>4. QED BY <1>4, <2>1, <3>1, <3>3
  <2>3. Live' \cup Ending' = Live \cup Ending \cup {c} BY <1>7 DEF Claims, Enters
  <2>4. Known' BY <1>5, <2>2, <2>3 DEF Known
  <2>5. \A d \in Live \cup Ending : ~(d.s = c.s /\ d.id = c.id) BY <1>3, <1>4, <1>5, <2>1
  <2>6. Unique' BY <1>0, <2>3, <2>5 DEF Unique
  <2>7. QED BY <1>1, <1>2, <2>4, <2>6 DEF WorkInv
<1>8. CASE Quiet BY <1>6, <1>8 DEF Quiet, Passes
<1>9. CASE \E s \in Sessions : Expires(s) BY <1>6, <1>9 DEF Expires, Passes
<1>10. CASE \E c : Rejects(c) \/ Replays(c) BY <1>6, <1>10 DEF Rejects, Replays, Passes
<1>11. CASE \E x : Finishes(x)
  <2>1. PICK x : Finishes(x) BY <1>11
  <2>2. Live' \cup Ending' \subseteq Live \cup Ending BY <2>1 DEF Finishes
  <2>3. QED BY <1>6, <2>2
<1>12. QED BY <1>2, <1>7, <1>8, <1>9, <1>10, <1>11 DEF Kinds

-----------------------------------------------------------------------------
(* The ledgers have their types: an ID is claimed by a command, and an     *)
(* entry that is not admitted holds a rejection.                           *)

LedgerTyped(l) == l.highWater <= MaxID /\ EntriesOK(l)
LedgersTyped == \A s \in Sessions : LedgerTyped(ledger[s])

LEMMA LedgersTypedNext == ASSUME WorkInv, LedgersTyped, [Next]_vars PROVE LedgersTyped'
<1>0. IInv /\ Types /\ FlowInv /\ Kinds BY WorkNext DEF WorkInv
<1>1. \A s \in Sessions : ledger[s].highWater \in Nat BY <1>0 DEF IInv, LedgersShaped, Shape
<1>2. MaxID \in Nat BY PortAssumption
<1>3. SUFFICES ASSUME NEW s \in Sessions PROVE LedgerTyped(ledger'[s]) BY DEF LedgersTyped
<1>4. PICK l, m : l = ledger[s] /\ m = ledger'[s] OBVIOUS
<1>5. l.highWater \in Nat /\ l.highWater <= MaxID /\ EntriesOK(l)
  BY <1>1, <1>4 DEF LedgersTyped, LedgerTyped
<1>6. SUFFICES m.highWater <= MaxID /\ EntriesOK(m) BY <1>4 DEF LedgerTyped
<1>7. CASE m = l BY <1>5, <1>7
<1>8. CASE Quiet \/ \E c : Replays(c) BY <1>4, <1>7, <1>8 DEF Quiet, Replays
<1>9. ASSUME NEW t \in Sessions, Expires(t) PROVE m.highWater <= MaxID /\ EntriesOK(m)
  <2>1. Others(t) /\ Emptied(ledger'[t], ledger[t].highWater)
    BY <1>0, <1>9, ExpireLedgers DEF Expires
  <2>2. QED BY <1>4, <1>5, <1>7, <2>1 DEF Others, Emptied
<1>10. ASSUME NEW c, Rejects(c) PROVE m.highWater <= MaxID /\ EntriesOK(m)
  <2>1. /\ c.id = ledger[c.s].highWater + 1 /\ Others(c.s)
        /\ RejectedFrom(ledger[c.s], ledger'[c.s], "rejected")
    BY <1>0, <1>10, RejectLedgers
  <2>2. c.id \in IDs BY <1>10 DEF Rejects, Commands
  <2>3. QED BY <1>2, <1>4, <1>5, <1>7, <2>1, <2>2 DEF Others, RejectedFrom, IDs
<1>11. ASSUME NEW c, Claims(c) PROVE m.highWater <= MaxID /\ EntriesOK(m)
  <2>1. /\ c.id = ledger[c.s].highWater + 1
        /\ \/ m = l
           \/ s = c.s /\ ClaimedFrom(l, m)
           \/ Emptied(m, IF s = c.s THEN l.highWater + 1 ELSE l.highWater)
    BY <1>0, <1>4, <1>11, ClaimLedgers
  <2>2. c.id \in IDs BY <1>11 DEF Claims, Commands
  <2>3. s = c.s => l.highWater + 1 <= MaxID BY <1>2, <1>4, <1>5, <2>1, <2>2 DEF IDs
  <2>4. QED BY <1>5, <1>7, <2>1, <2>3 DEF ClaimedFrom, Emptied
<1>12. ASSUME NEW x, Finishes(x) PROVE m.highWater <= MaxID /\ EntriesOK(m)
  <2>1. \/ m = l
        \/ CompletedFrom(l, m, x.cmd.id, x.outcome)
    BY <1>0, <1>4, <1>12, FinishLedgers DEF Others
  <2>2. QED BY <1>5, <1>7, <2>1 DEF CompletedFrom
<1>13. QED BY <1>0, <1>8, <1>9, <1>10, <1>11, <1>12 DEF Kinds

LEMMA LedgersTypedInit == ASSUME Init PROVE LedgersTyped
<1>1. \A s \in Sessions : ledger[s] = NewLedger BY DEF Init, SessionsInit
<1>2. LedgerTyped(NewLedger) BY PortAssumption DEF NewLedger, LedgerTyped, EntriesOK
<1>3. QED BY <1>1, <1>2 DEF LedgersTyped

-----------------------------------------------------------------------------
(* At most once.  An operation that has still to take effect has taken     *)
(* none, and neither has an ID that nobody has claimed.                    *)

OnceInv ==
  /\ ran \in [Sessions -> [IDs -> {0, 1}]]
  /\ \A c \in Pending : c.m \in RunsLater => ran[c.s][c.id] = 0
  /\ \A s \in Sessions, i \in IDs : i > ledger[s].highWater => ran[s][i] = 0

LEMMA OnceTook ==
  ASSUME OnceInv, NEW c \in Commands, ran[c.s][c.id] = 0, ran' = Took(c)
  PROVE  /\ ran' \in [Sessions -> [IDs -> {0, 1}]]
         /\ \A s \in Sessions, i \in IDs :
              ran'[s][i] = IF s = c.s /\ i = c.id THEN 1 ELSE ran[s][i]
<1>1. c.s \in Sessions /\ c.id \in IDs BY DEF Commands
<1>2. ran \in [Sessions -> [IDs -> {0, 1}]] BY DEF OnceInv
<1>3. PICK s, i : s = c.s /\ i = c.id OBVIOUS
<1>4. ran' = [ran EXCEPT ![s] = [ran[s] EXCEPT ![i] = 1]] BY <1>1, <1>2, <1>3 DEF Took
<1>5. [ran[s] EXCEPT ![i] = 1] \in [IDs -> {0, 1}] BY <1>1, <1>2, <1>3
<1>6. QED BY <1>1, <1>2, <1>3, <1>4, <1>5

LEMMA OnceNext == ASSUME WorkInv, OnceInv, [Next]_vars PROVE OnceInv'
<1>0. /\ WorkInv' /\ Kinds /\ IInv /\ Types /\ FlowInv /\ Known /\ Unique
  BY WorkNext DEF WorkInv
<1>1. /\ ran \in [Sessions -> [IDs -> {0, 1}]]
      /\ \A c \in Pending : c.m \in RunsLater => ran[c.s][c.id] = 0
      /\ \A s \in Sessions, i \in IDs : i > ledger[s].highWater => ran[s][i] = 0
  BY DEF OnceInv
<1>2. \A s \in Sessions : /\ ledger[s].highWater \in Nat /\ ledger'[s].highWater \in Nat
                          /\ ledger'[s].highWater >= ledger[s].highWater
  BY <1>0, HighWaters
<1>3. Pending \subseteq Live BY PendingIsLive
<1>4. \A c \in Live \cup Ending : /\ c \in Commands /\ c.s \in Sessions /\ c.id \in IDs
                                  /\ c.id <= ledger[c.s].highWater
  <2>1. \A c \in Live \cup Ending : c \in Commands BY <1>0, WorkType
  <2>2. QED BY <1>0, <2>1 DEF Commands, Known
<1>5. IDs \subseteq Nat BY DEF IDs
<1>6. CASE ran' = ran /\ Pending' \subseteq Pending
  <2>1. \A s \in Sessions, i \in IDs : i > ledger'[s].highWater => i > ledger[s].highWater
    BY <1>2, <1>5
  <2>2. QED BY <1>1, <1>6, <2>1 DEF OnceInv
<1>7. CASE Quiet
  <2>1. Pending' \subseteq Pending BY <1>7 DEF Quiet, Passes
  <2>2. CASE ran' = ran BY <1>6, <2>1, <2>2
  <2>3. ASSUME NEW c \in Pending \ Pending', c.m \in RunsLater, ran' = Took(c) PROVE OnceInv'
    <3>1. c \in Commands /\ c.s \in Sessions /\ c.id \in IDs /\ c.id <= ledger[c.s].highWater
      BY <1>3, <1>4, <2>3
    <3>2. ran[c.s][c.id] = 0 BY <1>1, <2>3
    <3>3. /\ ran' \in [Sessions -> [IDs -> {0, 1}]]
          /\ \A s \in Sessions, i \in IDs :
               ran'[s][i] = IF s = c.s /\ i = c.id THEN 1 ELSE ran[s][i]
      BY <2>3, <3>1, <3>2, OnceTook
    <3>4. ASSUME NEW d \in Pending', d.m \in RunsLater PROVE ran'[d.s][d.id] = 0
      <4>1. d \in Pending /\ d # c BY <2>1, <2>3, <3>4
      <4>2. ~(d.s = c.s /\ d.id = c.id) BY <1>0, <1>3, <2>3, <4>1 DEF Unique
      <4>3. d.s \in Sessions /\ d.id \in IDs BY <1>3, <1>4, <4>1
      <4>4. QED BY <1>1, <3>3, <3>4, <4>1, <4>2, <4>3
    <3>5. ASSUME NEW s \in Sessions, NEW i \in IDs, i > ledger'[s].highWater PROVE ran'[s][i] = 0
      <4>1. i > ledger[s].highWater BY <1>2, <1>5, <3>5
      <4>2. ~(s = c.s /\ i = c.id) BY <1>2, <1>5, <3>1, <4>1
      <4>3. QED BY <1>1, <3>3, <4>1, <4>2
    <3>6. QED BY <3>3, <3>4, <3>5 DEF OnceInv
  <2>4. QED BY <1>7, <2>2, <2>3 DEF Quiet
<1>8. ASSUME NEW c, Claims(c) PROVE OnceInv'
  <2>1. c.s \in Sessions /\ c.id = ledger[c.s].highWater + 1 BY <1>0, <1>8, ClaimLedgers
  <2>2. c \in Commands /\ c.id \in IDs BY <1>8 DEF Claims, Commands
  <2>3. ran[c.s][c.id] = 0 BY <1>1, <1>2, <2>1, <2>2
  <2>4. Pending' \subseteq Pending \cup {c} BY <1>8 DEF Claims, Enters
  <2>5. c.id <= ledger'[c.s].highWater
    <3>1. WorkInv' /\ c \in Live' \cup Ending' BY <1>0, <1>8 DEF Claims, Enters
    <3>2. QED BY <3>1 DEF WorkInv, Known
  <2>6. CASE ran' = ran
    <3>1. \A s \in Sessions, i \in IDs : i > ledger'[s].highWater => i > ledger[s].highWater
      BY <1>2, <1>5
    <3>2. QED BY <1>1, <2>3, <2>4, <2>6, <3>1 DEF OnceInv
  <2>7. CASE ran' = Took(c) /\ (c \notin Pending' \/ c.m \notin RunsLater)
    <3>1. /\ ran' \in [Sessions -> [IDs -> {0, 1}]]
          /\ \A s \in Sessions, i \in IDs :
               ran'[s][i] = IF s = c.s /\ i = c.id THEN 1 ELSE ran[s][i]
      BY <2>2, <2>3, <2>7, OnceTook
    <3>2. ASSUME NEW d \in Pending', d.m \in RunsLater PROVE ran'[d.s][d.id] = 0
      <4>1. d \in Pending BY <2>4, <2>7, <3>2
      <4>2. d.s \in Sessions /\ d.id \in IDs /\ d.id <= ledger[d.s].highWater BY <1>3, <1>4, <4>1
      <4>3. ~(d.s = c.s /\ d.id = c.id) BY <1>2, <1>5, <2>1, <4>2
      <4>4. QED BY <1>1, <3>1, <3>2, <4>1, <4>2, <4>3
    <3>3. ASSUME NEW s \in Sessions, NEW i \in IDs, i > ledger'[s].highWater PROVE ran'[s][i] = 0
      <4>1. i > ledger[s].highWater BY <1>2, <1>5, <3>3
      <4>2. ~(s = c.s /\ i = c.id) BY <1>2, <1>5, <2>5, <3>3
      <4>3. QED BY <1>1, <3>1, <4>1, <4>2
    <3>4. QED BY <3>1, <3>2, <3>3 DEF OnceInv
  <2>8. QED BY <1>8, <2>6, <2>7 DEF Claims
<1>9. CASE \E s \in Sessions : Expires(s) BY <1>6, <1>9 DEF Expires, Passes
<1>10. CASE \E c : Rejects(c) \/ Replays(c) BY <1>6, <1>10 DEF Rejects, Replays, Passes
<1>11. CASE \E x : Finishes(x) BY <1>6, <1>11 DEF Finishes, Leaves
<1>12. QED BY <1>0, <1>7, <1>8, <1>9, <1>10, <1>11 DEF Kinds

(* For any sessions, generations, IDs and methods, and however the clients *)
(* retry, resume, cancel and revoke, the runtime lets no operation take    *)
(* effect twice, and none whose ID was not claimed.                        *)
THEOREM OperationsRunOnce == Spec => []AtMostOnce
<1>1. ASSUME Init PROVE WorkInv /\ OnceInv
  <2>1. WorkInv BY <1>1, WorkInit
  <2>2. ran = [s \in Sessions |-> [i \in IDs |-> 0]] BY <1>1 DEF Init, PortInit
  <2>3. Pending = {}
    <3>1. frameTokens = <<>> /\ activations = <<>> BY <1>1 DEF Init, PortInit
    <3>2. Range(frameTokens) = {} /\ Range(activations) = {} BY <3>1 DEF Range
    <3>3. QED BY <3>2 DEF Pending, Cmds
  <2>4. QED BY <2>1, <2>2, <2>3 DEF OnceInv
<1>2. ASSUME WorkInv /\ OnceInv, [Next]_vars PROVE WorkInv' /\ OnceInv'
  BY <1>2, WorkNext, OnceNext
<1>3. ASSUME WorkInv, OnceInv PROVE AtMostOnce
  <2>1. \A s \in Sessions, i \in IDs : ran[s][i] \in {0, 1} BY <1>3 DEF OnceInv
  <2>2. \A s \in Sessions, i \in IDs : i > ledger[s].highWater => ran[s][i] = 0 BY <1>3 DEF OnceInv
  <2>3. \A s \in Sessions : ledger[s].highWater \in Nat
    BY <1>3 DEF WorkInv, IInv, LedgersShaped, Shape
  <2>4. IDs \subseteq Nat BY DEF IDs
  <2>5. QED BY <2>1, <2>2, <2>3, <2>4 DEF AtMostOnce
<1>4. QED BY <1>1, <1>2, <1>3, PTL DEF Spec

-----------------------------------------------------------------------------
(* One answer.  Nothing was told yet of an operation that is in work or of *)
(* an ID above the high-water mark; what the ledger retains was told, and  *)
(* that it is pending was told of none but a rejected operation.           *)

Answers == [Sessions -> [IDs -> SUBSET (Outcomes \cup {"pending"})]]

AnswerInv ==
  /\ answers \in Answers
  /\ \A s \in Sessions, i \in IDs : \A a, b \in Heard(s, i) : a = b
  /\ \A c \in Live \cup Ending : answers[c.s][c.id] = {}
  /\ \A s \in Sessions, i \in IDs : i > ledger[s].highWater => answers[s][i] = {}
  /\ \A s \in Sessions : \A i \in Terminals(ledger[s]) :
       i \in IDs => Heard(s, i) = {ledger[s].entries[i].outcome}
  /\ \A s \in Sessions, i \in IDs :
       "pending" \in answers[s][i] => Heard(s, i) = {"rejected"}

LEMMA AnswerTold ==
  ASSUME answers \in Answers, NEW c \in Commands, NEW told \in Outcomes \cup {"pending"},
         answers' = Told(c, told)
  PROVE  /\ answers' \in Answers
         /\ \A s \in Sessions, i \in IDs :
              answers'[s][i] = IF s = c.s /\ i = c.id THEN answers[s][i] \cup {told}
                               ELSE answers[s][i]
<1>1. c.s \in Sessions /\ c.id \in IDs BY DEF Commands
<1>2. PICK s, i, new, row :
        /\ s = c.s /\ i = c.id /\ new = answers[s][i] \cup {told}
        /\ row = [answers[s] EXCEPT ![i] = new]
  OBVIOUS
<1>3. answers[s] \in [IDs -> SUBSET (Outcomes \cup {"pending"})] BY <1>1, <1>2 DEF Answers
<1>4. new \in SUBSET (Outcomes \cup {"pending"}) BY <1>1, <1>2, <1>3
<1>5. /\ row \in [IDs -> SUBSET (Outcomes \cup {"pending"})]
      /\ \A j \in IDs : row[j] = IF j = i THEN new ELSE answers[s][j]
  BY <1>1, <1>2, <1>3, <1>4
<1>6. answers' = [answers EXCEPT ![s] = row] BY <1>1, <1>2 DEF Told
<1>7. answers' \in Answers BY <1>1, <1>2, <1>5, <1>6 DEF Answers
<1>8. \A t \in Sessions : answers'[t] = IF t = s THEN row ELSE answers[t]
  BY <1>1, <1>2, <1>6 DEF Answers
<1>9. QED BY <1>2, <1>5, <1>7, <1>8

(* The first answer of an operation, an outcome.                           *)
LEMMA FirstTold ==
  ASSUME AnswerInv, NEW c \in Commands, NEW outcome \in Outcomes,
         answers[c.s][c.id] = {}, answers' = Told(c, outcome)
  PROVE  /\ answers' \in Answers
         /\ \A s \in Sessions, i \in IDs :
              IF s = c.s /\ i = c.id
              THEN answers'[s][i] = {outcome} /\ Heard(s, i)' = {outcome}
              ELSE answers'[s][i] = answers[s][i] /\ Heard(s, i)' = Heard(s, i)
         /\ \A s \in Sessions, i \in IDs : \A a, b \in Heard(s, i)' : a = b
         /\ \A s \in Sessions, i \in IDs :
              "pending" \in answers'[s][i] => Heard(s, i)' = {"rejected"}
<1>1. outcome # "pending" BY DEF Outcomes
<1>2. /\ answers' \in Answers
      /\ \A s \in Sessions, i \in IDs :
           answers'[s][i] = IF s = c.s /\ i = c.id THEN answers[s][i] \cup {outcome}
                            ELSE answers[s][i]
  BY AnswerTold DEF AnswerInv
<1>3. ASSUME NEW s \in Sessions, NEW i \in IDs
      PROVE  /\ IF s = c.s /\ i = c.id
                THEN answers'[s][i] = {outcome} /\ Heard(s, i)' = {outcome}
                ELSE answers'[s][i] = answers[s][i] /\ Heard(s, i)' = Heard(s, i)
             /\ \A a, b \in Heard(s, i)' : a = b
             /\ "pending" \in answers'[s][i] => Heard(s, i)' = {"rejected"}
  <2>1. CASE s = c.s /\ i = c.id
    <3>1. answers'[s][i] = {outcome} BY <1>2, <2>1
    <3>2. Heard(s, i)' = {outcome} BY <1>1, <3>1 DEF Heard
    <3>3. QED BY <1>1, <2>1, <3>1, <3>2
  <2>2. CASE ~(s = c.s /\ i = c.id)
    <3>1. answers'[s][i] = answers[s][i] BY <1>2, <2>2
    <3>2. Heard(s, i)' = Heard(s, i) BY <3>1 DEF Heard
    <3>3. /\ \A a, b \in Heard(s, i) : a = b
          /\ "pending" \in answers[s][i] => Heard(s, i) = {"rejected"}
      BY DEF AnswerInv
    <3>4. QED BY <2>2, <3>1, <3>2, <3>3
  <2>3. QED BY <2>1, <2>2
<1>4. QED BY <1>2, <1>3

LEMMA AnswerNext == ASSUME WorkInv, LedgersTyped, AnswerInv, [Next]_vars PROVE AnswerInv'
<1>0. /\ WorkInv' /\ Kinds /\ IInv /\ Types /\ FlowInv /\ Known /\ Unique
  BY WorkNext DEF WorkInv
<1>1. /\ answers \in Answers
      /\ \A s \in Sessions, i \in IDs : \A a, b \in Heard(s, i) : a = b
      /\ \A c \in Live \cup Ending : answers[c.s][c.id] = {}
      /\ \A s \in Sessions, i \in IDs : i > ledger[s].highWater => answers[s][i] = {}
      /\ \A s \in Sessions : \A i \in Terminals(ledger[s]) :
           i \in IDs => Heard(s, i) = {ledger[s].entries[i].outcome}
      /\ \A s \in Sessions, i \in IDs :
           "pending" \in answers[s][i] => Heard(s, i) = {"rejected"}
  BY DEF AnswerInv
<1>2. \A s \in Sessions : /\ ledger[s].highWater \in Nat /\ ledger'[s].highWater \in Nat
                          /\ ledger'[s].highWater >= ledger[s].highWater
  BY <1>0, HighWaters
<1>3. IDs \subseteq Nat BY DEF IDs
<1>4. \A s \in Sessions, i \in IDs : i > ledger'[s].highWater => i > ledger[s].highWater
  BY <1>2, <1>3
<1>5. \A c \in Live \cup Ending : /\ c \in Commands /\ c.s \in Sessions /\ c.id \in IDs
                                  /\ c.id <= ledger[c.s].highWater
  <2>1. \A c \in Live \cup Ending : c \in Commands BY <1>0, WorkType
  <2>2. QED BY <1>0, <2>1 DEF Commands, Known
<1>6. \A s \in Sessions : \A i \in Terminals(ledger[s]) : i <= ledger[s].highWater
  <2>1. \A s \in Sessions : DOMAIN ledger[s].entries \subseteq 1..ledger[s].highWater
    BY <1>0 DEF IInv, LedgersShaped, Shape
  <2>2. QED BY <1>2, <2>1 DEF Terminals
<1>7. ASSUME answers' = answers, Live' \cup Ending' = Live \cup Ending,
             \A s \in Sessions : Holds(ledger[s], ledger'[s])
      PROVE  AnswerInv'
  <2>1. \A s, i : Heard(s, i)' = Heard(s, i) BY <1>7 DEF Heard
  <2>2. \A s \in Sessions : \A i \in Terminals(ledger'[s]) :
          i \in IDs => Heard(s, i)' = {ledger'[s].entries[i].outcome}
    BY <1>1, <1>7, <2>1 DEF Holds
  <2>3. \A c \in Live' \cup Ending' : answers'[c.s][c.id] = {} BY <1>1, <1>7
  <2>4. \A s \in Sessions, i \in IDs : i > ledger'[s].highWater => answers'[s][i] = {}
    BY <1>1, <1>4, <1>7
  <2>5. /\ answers' \in Answers
        /\ \A s \in Sessions, i \in IDs : \A a, b \in Heard(s, i)' : a = b
        /\ \A s \in Sessions, i \in IDs :
             "pending" \in answers'[s][i] => Heard(s, i)' = {"rejected"}
    BY <1>1, <1>7, <2>1
  <2>6. QED BY <2>2, <2>3, <2>4, <2>5 DEF AnswerInv, Answers
<1>8. CASE Quiet BY <1>7, <1>8 DEF Quiet, Passes, Holds
<1>9. ASSUME NEW s \in Sessions, Expires(s) PROVE AnswerInv'
  <2>1. Others(s) /\ Emptied(ledger'[s], ledger[s].highWater)
    BY <1>0, <1>9, ExpireLedgers DEF Expires
  <2>2. \A t \in Sessions : Holds(ledger[t], ledger'[t]) BY <2>1 DEF Others, Emptied, Holds
  <2>3. QED BY <1>7, <1>9, <2>2 DEF Expires, Passes
<1>10. ASSUME NEW c, Rejects(c) PROVE AnswerInv'
  <2>1. /\ c.s \in Sessions /\ c.id = ledger[c.s].highWater + 1 /\ Others(c.s)
        /\ RejectedFrom(ledger[c.s], ledger'[c.s], "rejected")
    BY <1>0, <1>10, RejectLedgers
  <2>2. c \in Commands /\ c.id \in IDs /\ answers' = Told(c, "rejected") /\ "rejected" \in Outcomes
        /\ Live' \cup Ending' = Live \cup Ending
    BY <1>10 DEF Rejects, Commands, Passes, Outcomes
  <2>3. answers[c.s][c.id] = {} BY <1>1, <1>2, <2>1, <2>2
  <2>4. /\ answers' \in Answers
        /\ \A s \in Sessions, i \in IDs :
             IF s = c.s /\ i = c.id
             THEN answers'[s][i] = {"rejected"} /\ Heard(s, i)' = {"rejected"}
             ELSE answers'[s][i] = answers[s][i] /\ Heard(s, i)' = Heard(s, i)
        /\ \A s \in Sessions, i \in IDs : \A a, b \in Heard(s, i)' : a = b
        /\ \A s \in Sessions, i \in IDs :
             "pending" \in answers'[s][i] => Heard(s, i)' = {"rejected"}
    BY <2>2, <2>3, FirstTold
  <2>5. \A d \in Live' \cup Ending' : answers'[d.s][d.id] = {}
    <3>1. \A d \in Live \cup Ending : ~(d.s = c.s /\ d.id = c.id) BY <1>2, <1>3, <1>5, <2>1
    <3>2. QED BY <1>1, <1>5, <2>2, <2>4, <3>1
  <2>6. ASSUME NEW s \in Sessions, NEW i \in IDs, i > ledger'[s].highWater
        PROVE  answers'[s][i] = {}
    <3>1. ledger'[c.s].highWater = c.id BY <2>1 DEF RejectedFrom
    <3>2. ~(s = c.s /\ i = c.id) BY <1>2, <1>3, <2>6, <3>1
    <3>3. QED BY <1>1, <1>4, <2>4, <2>6, <3>2
  <2>7. ASSUME NEW s \in Sessions, NEW i \in Terminals(ledger'[s]), i \in IDs
        PROVE  Heard(s, i)' = {ledger'[s].entries[i].outcome}
    <3>1. CASE i \in Terminals(ledger[s]) /\ ledger'[s].entries[i] = ledger[s].entries[i]
      <4>1. ~(s = c.s /\ i = c.id) BY <1>2, <1>3, <1>6, <2>1, <2>7, <3>1
      <4>2. QED BY <1>1, <2>4, <2>7, <3>1, <4>1
    <3>2. CASE s = c.s /\ i = c.id /\ ledger'[s].entries[i].outcome = "rejected"
      BY <2>4, <2>7, <3>2
    <3>3. CASE s # c.s BY <2>1, <2>7, <3>1, <3>3 DEF Others
    <3>4. CASE s = c.s BY <2>1, <2>7, <3>1, <3>2, <3>4 DEF RejectedFrom
    <3>5. QED BY <3>3, <3>4
  <2>8. QED BY <2>4, <2>5, <2>6, <2>7 DEF AnswerInv, Answers
<1>11. ASSUME NEW c, Replays(c) PROVE AnswerInv'
  <2>1. PICK e, told : /\ e = ledger[c.s].entries[c.id]
                       /\ told = IF e.admitted THEN e.outcome ELSE "pending"
    OBVIOUS
  <2>2. /\ c \in Commands /\ c.s \in Sessions /\ c.id \in IDs /\ c.id \in Terminals(ledger[c.s])
        /\ answers' = Told(c, told) /\ ledger' = ledger
        /\ Live' \cup Ending' = Live \cup Ending
    BY <1>11, <2>1 DEF Replays, Commands, Passes
  <2>3. Heard(c.s, c.id) = {e.outcome} BY <1>1, <2>1, <2>2
  <2>4. e.outcome \in Outcomes /\ e.outcome # "pending"
    <3>1. answers[c.s][c.id] \in SUBSET (Outcomes \cup {"pending"}) BY <1>1, <2>2 DEF Answers
    <3>2. QED BY <2>3, <3>1 DEF Heard
  <2>5. told = e.outcome \/ (told = "pending" /\ e.outcome = "rejected")
    <3>1. EntriesOK(ledger[c.s]) /\ c.id \in DOMAIN ledger[c.s].entries
      BY <2>2 DEF LedgersTyped, LedgerTyped, Terminals
    <3>2. EntryOK(e) BY <2>1, <3>1 DEF EntriesOK
    <3>3. CASE e.admitted = TRUE BY <2>1, <3>3
    <3>4. CASE e.admitted = FALSE BY <2>1, <3>2, <3>4 DEF EntryOK
    <3>5. QED BY <3>2, <3>3, <3>4 DEF EntryOK
  <2>6. /\ answers' \in Answers
        /\ \A s \in Sessions, i \in IDs :
             answers'[s][i] = IF s = c.s /\ i = c.id THEN answers[s][i] \cup {told}
                              ELSE answers[s][i]
    <3>1. told \in Outcomes \cup {"pending"} BY <2>4, <2>5
    <3>2. QED BY <1>1, <2>2, <3>1, AnswerTold
  <2>7. \A s \in Sessions, i \in IDs : ~(s = c.s /\ i = c.id) => answers'[s][i] = answers[s][i]
    BY <2>6
  <2>8. ASSUME NEW s \in Sessions, NEW i \in IDs
        PROVE  /\ Heard(s, i)' = Heard(s, i)
               /\ "pending" \in answers'[s][i] => Heard(s, i)' = {"rejected"}
    <3>1. CASE s = c.s /\ i = c.id
      <4>1. answers'[s][i] = answers[s][i] \cup {told} BY <2>6, <3>1
      <4>2. Heard(s, i) = {e.outcome} BY <2>3, <3>1
      <4>3. Heard(s, i)' = Heard(s, i) BY <2>4, <2>5, <4>1, <4>2 DEF Heard
      <4>4. "pending" \in answers'[s][i] => "pending" \in answers[s][i] \/ e.outcome = "rejected"
        BY <2>4, <2>5, <4>1
      <4>5. QED BY <1>1, <4>2, <4>3, <4>4
    <3>2. CASE ~(s = c.s /\ i = c.id)
      <4>1. answers'[s][i] = answers[s][i] BY <2>7, <3>2
      <4>2. Heard(s, i)' = Heard(s, i) BY <4>1 DEF Heard
      <4>3. QED BY <1>1, <4>1, <4>2
    <3>3. QED BY <3>1, <3>2
  <2>9. \A s \in Sessions : \A i \in Terminals(ledger'[s]) :
          i \in IDs => Heard(s, i)' = {ledger'[s].entries[i].outcome}
    BY <1>1, <2>2, <2>8
  <2>10. \A d \in Live' \cup Ending' : answers'[d.s][d.id] = {}
    <3>1. Heard(c.s, c.id) # {} BY <2>3
    <3>2. answers[c.s][c.id] # {} BY <3>1 DEF Heard
    <3>3. \A d \in Live \cup Ending : ~(d.s = c.s /\ d.id = c.id) BY <1>1, <3>2
    <3>4. QED BY <1>1, <1>5, <2>2, <2>7, <3>3
  <2>11. \A s \in Sessions, i \in IDs : i > ledger'[s].highWater => answers'[s][i] = {}
    <3>1. c.id <= ledger[c.s].highWater BY <1>6, <2>2
    <3>2. ASSUME NEW s \in Sessions, NEW i \in IDs, i > ledger'[s].highWater
          PROVE  answers'[s][i] = {}
      <4>1. ~(s = c.s /\ i = c.id) BY <1>2, <1>3, <2>2, <3>1, <3>2
      <4>2. QED BY <1>1, <2>2, <2>7, <3>2, <4>1
    <3>3. QED BY <3>2
  <2>12. \A s \in Sessions, i \in IDs : \A a, b \in Heard(s, i)' : a = b BY <1>1, <2>8
  <2>13. \A s \in Sessions, i \in IDs : "pending" \in answers'[s][i] => Heard(s, i)' = {"rejected"}
    BY <2>8
  <2>14. answers' \in Answers BY <2>6
  <2>15. QED BY <2>9, <2>10, <2>11, <2>12, <2>13, <2>14 DEF AnswerInv, Answers
<1>12. ASSUME NEW c, Claims(c) PROVE AnswerInv'
  <2>1. c.s \in Sessions /\ c.id = ledger[c.s].highWater + 1 BY <1>0, <1>12, ClaimLedgers
  <2>2. /\ c.id \in IDs /\ answers' = answers
        /\ Live' \cup Ending' = Live \cup Ending \cup {c}
    BY <1>12 DEF Claims, Enters, Commands
  <2>3. answers[c.s][c.id] = {} BY <1>1, <1>2, <2>1, <2>2
  <2>4. ASSUME NEW t \in Sessions PROVE Holds(ledger[t], ledger'[t])
    <3>1. \/ ledger'[t] = ledger[t]
          \/ ClaimedFrom(ledger[t], ledger'[t])
          \/ Terminals(ledger'[t]) = {}
      BY <1>0, <1>12, ClaimLedgers DEF Emptied
    <3>2. QED BY <3>1 DEF Holds, ClaimedFrom
  <2>5. \A s, i : Heard(s, i)' = Heard(s, i) BY <2>2 DEF Heard
  <2>6. \A s \in Sessions : \A i \in Terminals(ledger'[s]) :
          i \in IDs => Heard(s, i)' = {ledger'[s].entries[i].outcome}
    BY <1>1, <2>4, <2>5 DEF Holds
  <2>7. \A d \in Live' \cup Ending' : answers'[d.s][d.id] = {} BY <1>1, <2>2, <2>3
  <2>8. \A s \in Sessions, i \in IDs : i > ledger'[s].highWater => answers'[s][i] = {}
    BY <1>1, <1>4, <2>2
  <2>9. /\ answers' \in Answers
        /\ \A s \in Sessions, i \in IDs : \A a, b \in Heard(s, i)' : a = b
        /\ \A s \in Sessions, i \in IDs :
             "pending" \in answers'[s][i] => Heard(s, i)' = {"rejected"}
    BY <1>1, <2>2, <2>5
  <2>10. QED BY <2>6, <2>7, <2>8, <2>9 DEF AnswerInv, Answers
<1>13. ASSUME NEW x, Finishes(x) PROVE AnswerInv'
  <2>1. PICK c, outcome : c = x.cmd /\ outcome = x.outcome OBVIOUS
  <2>2. /\ c \in Commands /\ c.s \in Sessions /\ outcome \in Outcomes /\ Others(c.s)
        /\ InTable(c.s) => CompletedFrom(ledger[c.s], ledger'[c.s], c.id, outcome)
        /\ ~InTable(c.s) => ledger' = ledger
    BY <1>0, <1>13, <2>1, FinishLedgers
  <2>3. /\ answers' = Told(c, outcome) /\ c \notin Live' \cup Ending'
        /\ Live' \cup Ending' \cup {c} = Live \cup Ending
    BY <1>13, <2>1 DEF Finishes
  <2>4. c \in Live \cup Ending /\ c.id \in IDs /\ c.id <= ledger[c.s].highWater
        /\ answers[c.s][c.id] = {}
    BY <1>1, <1>5, <2>3
  <2>5. /\ answers' \in Answers
        /\ \A s \in Sessions, i \in IDs :
             IF s = c.s /\ i = c.id
             THEN answers'[s][i] = {outcome} /\ Heard(s, i)' = {outcome}
             ELSE answers'[s][i] = answers[s][i] /\ Heard(s, i)' = Heard(s, i)
        /\ \A s \in Sessions, i \in IDs : \A a, b \in Heard(s, i)' : a = b
        /\ \A s \in Sessions, i \in IDs :
             "pending" \in answers'[s][i] => Heard(s, i)' = {"rejected"}
    BY <2>2, <2>3, <2>4, FirstTold
  <2>6. \A d \in Live' \cup Ending' : answers'[d.s][d.id] = {}
    <3>1. \A d \in Live' \cup Ending' : d \in Live \cup Ending /\ d # c BY <2>3
    <3>2. \A d \in Live' \cup Ending' : ~(d.s = c.s /\ d.id = c.id)
      BY <1>0, <2>4, <3>1 DEF Unique
    <3>3. QED BY <1>1, <1>5, <2>5, <3>1, <3>2
  <2>7. ASSUME NEW s \in Sessions, NEW i \in IDs, i > ledger'[s].highWater
        PROVE  answers'[s][i] = {}
    <3>1. i > ledger[s].highWater BY <1>4, <2>7
    <3>2. ~(s = c.s /\ i = c.id) BY <1>2, <1>3, <2>4, <3>1
    <3>3. QED BY <1>1, <2>5, <3>1, <3>2
  <2>8. ASSUME NEW s \in Sessions, NEW i \in Terminals(ledger'[s]), i \in IDs
        PROVE  Heard(s, i)' = {ledger'[s].entries[i].outcome}
    <3>1. CASE i \in Terminals(ledger[s]) /\ ledger'[s].entries[i] = ledger[s].entries[i]
      <4>1. Heard(s, i) = {ledger[s].entries[i].outcome} BY <1>1, <2>8, <3>1
      <4>2. answers[s][i] # {} BY <4>1 DEF Heard
      <4>3. ~(s = c.s /\ i = c.id) BY <2>4, <4>2
      <4>4. QED BY <2>5, <2>8, <3>1, <4>1, <4>3
    <3>2. CASE s = c.s /\ i = c.id /\ ledger'[s].entries[i].outcome = outcome
      BY <2>5, <2>8, <3>2
    <3>3. CASE s # c.s \/ ~InTable(c.s) BY <2>2, <2>8, <3>1, <3>3 DEF Others
    <3>4. CASE s = c.s /\ InTable(c.s) BY <2>2, <2>8, <3>1, <3>2, <3>4 DEF CompletedFrom
    <3>5. QED BY <3>3, <3>4
  <2>9. QED BY <2>5, <2>6, <2>7, <2>8 DEF AnswerInv, Answers
<1>14. QED BY <1>0, <1>8, <1>9, <1>10, <1>11, <1>12, <1>13 DEF Kinds

(* Whoever asks, on whichever connection, about however old an operation,  *)
(* hears one outcome of it, the one that its ledger holds; and that it is  *)
(* pending after it has ended, of a rejected operation only.               *)
THEOREM AnswersAgree == Spec => []OneAnswer
<1>1. ASSUME Init PROVE WorkInv /\ LedgersTyped /\ AnswerInv
  <2>1. WorkInv /\ LedgersTyped BY <1>1, WorkInit, LedgersTypedInit
  <2>2. answers = [s \in Sessions |-> [i \in IDs |-> {}]] BY <1>1 DEF Init, PortInit
  <2>3. Live \cup Ending = {}
    <3>1. Live = LiveOf(<<>>, <<>>, <<>>, {}) /\ closing = {} BY <1>1 DEF Init, PortInit, Live
    <3>2. PICK e : e = <<>> OBVIOUS
    <3>3. Range(e) = {} BY <3>2 DEF Range
    <3>4. TokensOf(e) = {} /\ CommandsOf(e) = {} BY <3>3 DEF TokensOf, CommandsOf
    <3>5. QED BY <3>1, <3>2, <3>3, <3>4 DEF LiveOf, Ending, Cmds
  <2>4. \A s \in Sessions : Terminals(ledger[s]) = {}
    <3>1. \A s \in Sessions : DOMAIN ledger[s].entries = {}
      BY <1>1 DEF Init, SessionsInit, NewLedger
    <3>2. QED BY <3>1 DEF Terminals
  <2>5. answers \in Answers BY <2>2 DEF Answers
  <2>6. \A s \in Sessions, i \in IDs : answers[s][i] = {} /\ Heard(s, i) = {} BY <2>2 DEF Heard
  <2>7. QED BY <2>1, <2>3, <2>4, <2>5, <2>6 DEF AnswerInv
<1>2. ASSUME WorkInv /\ LedgersTyped /\ AnswerInv, [Next]_vars
      PROVE  WorkInv' /\ LedgersTyped' /\ AnswerInv'
  BY <1>2, WorkNext, LedgersTypedNext, AnswerNext
<1>3. ASSUME AnswerInv PROVE OneAnswer
  <2>1. ASSUME NEW s \in Sessions, NEW i \in IDs
        PROVE  /\ Cardinality(Heard(s, i)) <= 1
               /\ i \in Terminals(ledger[s]) => Heard(s, i) = {ledger[s].entries[i].outcome}
               /\ "pending" \in answers[s][i] => Heard(s, i) = {"rejected"}
    <3>1. \A a, b \in Heard(s, i) : a = b BY <1>3 DEF AnswerInv
    <3>2. /\ i \in Terminals(ledger[s]) => Heard(s, i) = {ledger[s].entries[i].outcome}
          /\ "pending" \in answers[s][i] => Heard(s, i) = {"rejected"}
      BY <1>3 DEF AnswerInv
    <3>3. CASE Heard(s, i) = {}
      <4>1. Cardinality(Heard(s, i)) = 0 BY <3>3, FS_EmptySet
      <4>2. QED BY <3>2, <4>1
    <3>4. CASE Heard(s, i) # {}
      <4>1. PICK a : a \in Heard(s, i) BY <3>4
      <4>2. Heard(s, i) = {a} BY <3>1, <4>1
      <4>3. QED BY <3>2, <4>2, FS_Singleton
    <3>5. QED BY <3>3, <3>4
  <2>2. QED BY <2>1 DEF OneAnswer
<1>4. QED BY <1>1, <1>2, <1>3, PTL DEF Spec

-----------------------------------------------------------------------------
(* Carried.  While a session is not removed, what its ledger holds open    *)
(* is what the runtime has in work for it.                                 *)

CarryInv ==
  \A s \in Sessions :
    /\ state[s] # "gone" =>
         /\ \A c \in Live \cup Ending : c.s = s => Open(ledger[s], c.id)
         /\ \A i : Open(ledger[s], i) => \E c \in Live \cup Ending : c.s = s /\ c.id = i
    /\ state[s] = "none" => \A i : ~Open(ledger[s], i)

LEMMA CarryNext == ASSUME WorkInv, CarryInv, [Next]_vars PROVE CarryInv'
<1>0. /\ WorkInv' /\ Kinds /\ IInv /\ Types /\ FlowInv /\ Known /\ Unique
  BY WorkNext DEF WorkInv
<1>1. DOMAIN state = Sessions BY <1>0 DEF Types, SessionTypes
<1>2. \A c \in Live \cup Ending : c \in Commands /\ c.s \in Sessions
  <2>1. \A c \in Live \cup Ending : c \in Commands BY <1>0, WorkType
  <2>2. QED BY <2>1 DEF Commands
<1>3. ASSUME Live' \cup Ending' = Live \cup Ending,
             \A s \in Sessions : \/ state'[s] = "gone"
                                 \/ /\ state[s] # "gone"
                                    /\ state'[s] = "none" => state[s] = "none"
                                    /\ \A i : Open(ledger'[s], i) <=> Open(ledger[s], i)
      PROVE  CarryInv'
  <2>1. ASSUME NEW s \in Sessions
        PROVE  /\ state'[s] # "gone" =>
                   /\ \A c \in Live' \cup Ending' : c.s = s => Open(ledger'[s], c.id)
                   /\ \A i : Open(ledger'[s], i)
                               => \E c \in Live' \cup Ending' : c.s = s /\ c.id = i
               /\ state'[s] = "none" => \A i : ~Open(ledger'[s], i)
    <3>1. CASE state'[s] = "gone" BY <3>1
    <3>2. CASE /\ state[s] # "gone"
               /\ state'[s] = "none" => state[s] = "none"
               /\ \A i : Open(ledger'[s], i) <=> Open(ledger[s], i)
      BY <1>3, <3>2 DEF CarryInv
    <3>3. QED BY <1>3, <3>1, <3>2
  <2>2. QED BY <2>1 DEF CarryInv
<1>4. CASE Quiet
  <2>1. Live' \cup Ending' = Live \cup Ending /\ ledger' = ledger BY <1>4 DEF Quiet, Passes
  <2>2. \A s \in Sessions : \/ state'[s] = "gone"
                            \/ state[s] # "gone" /\ (state'[s] = "none" => state[s] = "none")
    BY <1>4 DEF Quiet, SessionsMove
  <2>3. QED BY <1>3, <2>1, <2>2
<1>5. ASSUME NEW s \in Sessions, Expires(s) PROVE CarryInv'
  <2>1. Others(s) /\ Live' \cup Ending' = Live \cup Ending
    BY <1>0, <1>5, ExpireLedgers DEF Expires, Passes
  <2>2. state' = [state EXCEPT ![s] = "gone"] BY <1>5 DEF Expires, RemoveSession
  <2>3. \A t \in Sessions : \/ state'[t] = "gone"
                            \/ state'[t] = state[t] /\ ledger'[t] = ledger[t]
    BY <1>1, <2>1, <2>2 DEF Others
  <2>4. QED BY <1>3, <2>1, <2>3
<1>6. ASSUME NEW c, Rejects(c) PROVE CarryInv'
  <2>1. /\ c.s \in Sessions /\ Others(c.s) /\ RejectedFrom(ledger[c.s], ledger'[c.s], "rejected")
    BY <1>0, <1>6, RejectLedgers
  <2>2. state' = state /\ Live' \cup Ending' = Live \cup Ending BY <1>6 DEF Rejects, Passes
  <2>3. \A t \in Sessions : \A i : Open(ledger'[t], i) <=> Open(ledger[t], i)
    BY <2>1 DEF Others, RejectedFrom
  <2>4. QED BY <1>3, <2>2, <2>3
<1>7. ASSUME NEW c, Replays(c) PROVE CarryInv'
  <2>1. state' = state /\ ledger' = ledger /\ Live' \cup Ending' = Live \cup Ending
    BY <1>7 DEF Replays, Passes
  <2>2. QED BY <1>3, <2>1
<1>8. ASSUME NEW c, Claims(c) PROVE CarryInv'
  <2>1. c.s \in Sessions /\ c.id = ledger[c.s].highWater + 1 BY <1>0, <1>8, ClaimLedgers
  <2>2. Live' \cup Ending' = Live \cup Ending \cup {c} BY <1>8 DEF Claims, Enters
  <2>3. state[c.s] = "attached" BY <1>8 DEF Claims, Admissible, Attached
  <2>4. ASSUME NEW t \in Sessions
        PROVE  /\ state'[t] # "gone" =>
                   /\ \A d \in Live' \cup Ending' : d.s = t => Open(ledger'[t], d.id)
                   /\ \A i : Open(ledger'[t], i)
                               => \E d \in Live' \cup Ending' : d.s = t /\ d.id = i
               /\ state'[t] = "none" => \A i : ~Open(ledger'[t], i)
    <3>1. CASE state'[t] = state[t] /\ t # c.s /\ ledger'[t] = ledger[t]
      BY <2>2, <3>1 DEF CarryInv
    <3>2. CASE state'[t] = state[t] /\ t = c.s /\ ClaimedFrom(ledger[t], ledger'[t])
      <4>1. \A i : Open(ledger'[t], i) <=> Open(ledger[t], i) \/ i = c.id
        BY <2>1, <3>2 DEF ClaimedFrom
      <4>2. QED BY <2>2, <2>3, <3>2, <4>1 DEF CarryInv
    <3>3. CASE state'[t] = "gone" BY <3>3
    <3>4. QED BY <1>0, <1>8, <3>1, <3>2, <3>3, ClaimLedgers
  <2>5. QED BY <2>4 DEF CarryInv
<1>9. ASSUME NEW x, Finishes(x) PROVE CarryInv'
  <2>1. PICK c, outcome : c = x.cmd /\ outcome = x.outcome OBVIOUS
  <2>2. /\ c.s \in Sessions /\ Others(c.s)
        /\ InTable(c.s) => CompletedFrom(ledger[c.s], ledger'[c.s], c.id, outcome)
    BY <1>0, <1>9, <2>1, FinishLedgers
  <2>3. /\ state' = state /\ c \notin Live' \cup Ending'
        /\ Live' \cup Ending' \cup {c} = Live \cup Ending
    BY <1>9, <2>1 DEF Finishes
  <2>4. c \in Live \cup Ending /\ \A d \in Live' \cup Ending' : d \in Live \cup Ending /\ d # c
    BY <2>3
  <2>5. \A d \in Live \cup Ending : d # c => d \in Live' \cup Ending' BY <2>3
  <2>6. \A d \in Live' \cup Ending' : ~(d.s = c.s /\ d.id = c.id) BY <1>0, <2>4 DEF Unique
  <2>7. ASSUME NEW t \in Sessions
        PROVE  /\ state'[t] # "gone" =>
                   /\ \A d \in Live' \cup Ending' : d.s = t => Open(ledger'[t], d.id)
                   /\ \A i : Open(ledger'[t], i)
                               => \E d \in Live' \cup Ending' : d.s = t /\ d.id = i
               /\ state'[t] = "none" => \A i : ~Open(ledger'[t], i)
    <3>1. CASE t # c.s
      <4>1. ledger'[t] = ledger[t] BY <2>2, <3>1 DEF Others
      <4>2. QED BY <2>3, <2>4, <2>5, <3>1, <4>1 DEF CarryInv
    <3>2. CASE t = c.s /\ state[t] = "gone" BY <2>3, <3>2
    <3>3. CASE t = c.s /\ state[t] = "none"
      <4>1. Open(ledger[t], c.id) BY <2>4, <3>3 DEF CarryInv
      <4>2. ~Open(ledger[t], c.id) BY <3>3 DEF CarryInv
      <4>3. QED BY <4>1, <4>2
    <3>4. CASE t = c.s /\ InTable(t)
      <4>1. \A i : Open(ledger'[t], i) <=> Open(ledger[t], i) /\ i # c.id
        BY <2>2, <3>4 DEF CompletedFrom
      <4>2. state[t] # "gone" /\ state[t] # "none" BY <3>4 DEF InTable
      <4>3. \A d \in Live' \cup Ending' : d.s = t => Open(ledger'[t], d.id)
        BY <2>4, <2>6, <3>4, <4>1, <4>2 DEF CarryInv
      <4>4. ASSUME NEW i, Open(ledger'[t], i)
            PROVE  \E d \in Live' \cup Ending' : d.s = t /\ d.id = i
        <5>1. Open(ledger[t], i) /\ i # c.id BY <4>1, <4>4
        <5>2. PICK d \in Live \cup Ending : d.s = t /\ d.id = i BY <4>2, <5>1 DEF CarryInv
        <5>3. d \in Live' \cup Ending' BY <2>5, <5>1, <5>2
        <5>4. QED BY <5>2, <5>3
      <4>5. QED BY <2>3, <4>2, <4>3, <4>4
    <3>5. state[t] \in {"none", "attached", "detached", "gone"} BY <1>0 DEF Types, SessionTypes
    <3>6. QED BY <3>1, <3>2, <3>3, <3>4, <3>5 DEF InTable
  <2>8. QED BY <2>7 DEF CarryInv
<1>10. QED BY <1>0, <1>4, <1>5, <1>6, <1>7, <1>8, <1>9 DEF Kinds

LEMMA OneOrNone ==
  ASSUME NEW S, \A a, b \in S : a = b
  PROVE  Cardinality(S) = IF S = {} THEN 0 ELSE 1
<1>1. CASE S = {} BY <1>1, FS_EmptySet
<1>2. CASE S # {}
  <2>1. PICK a : a \in S BY <1>2
  <2>2. S = {a} BY <2>1
  <2>3. QED BY <1>2, <2>2, FS_Singleton
<1>3. QED BY <1>1, <1>2

(* An operation that is in work is in one place.                           *)
LEMMA OnePlace ==
  ASSUME WorkInv, NEW s \in Sessions, NEW i \in IDs
  PROVE  Places(s, i) = IF \E c \in Live \cup Ending : c.s = s /\ c.id = i THEN 1 ELSE 0
<1> DEFINE Is(c) == c.s = s /\ c.id = i
           S1 == {k \in DOMAIN frameTokens : Is(frameTokens[k])}
           S2 == {k \in DOMAIN activations : Is(activations[k].cmd)}
           S3 == {k \in DOMAIN frames : \E c \in frames[k].token : Is(c)}
           S4 == {p \in FrameCommands \cup waiting : Is(p.cmd)}
           S5 == {x \in closing : Is(x.cmd)}
<1>0. Places(s, i) = Cardinality(S1) + Cardinality(S2) + Cardinality(S3) + Cardinality(S4)
                     + Cardinality(S5)
  BY DEF Places
<1>1. FlowInv /\ Unique BY DEF WorkInv
<1>2. FrameCommands = CommandsOf(frames) BY DEF FrameCommands, CommandsOf
<1>3. LiveOK(frameTokens, activations, frames, waiting) /\ EndOK(closing, Live)
  BY <1>1 DEF FlowInv, PlacesInv
<1>4. /\ IsInjective(frameTokens) /\ IsInjective(activations) /\ Apart(frames)
      /\ \A c \in Range(frameTokens) \cup TokensOf(frames) : c.m \in TimeMethods
      /\ \A p \in Range(activations) \cup CommandsOf(frames) \cup waiting : p.cmd.m = "execute"
      /\ \A p \in Range(activations) : p = [cmd |-> p.cmd, jobs |-> 0, failed |-> FALSE]
      /\ \A p, r \in CommandsOf(frames) \cup waiting : p = r
      /\ Range(frameTokens) \cap TokensOf(frames) = {}
      /\ \A p \in Range(activations), r \in CommandsOf(frames) \cup waiting : p.cmd # r.cmd
  BY <1>3 DEF LiveOK, FramesOK
<1>5. /\ \A x, y \in closing : x.cmd = y.cmd => x = y
      /\ \A x \in closing : x.cmd \notin Live
  BY <1>3 DEF EndOK
<1>6. "execute" \notin TimeMethods BY DEF TimeMethods
<1>7. /\ \A k \in DOMAIN frameTokens : frameTokens[k] \in Range(frameTokens)
      /\ \A k \in DOMAIN activations : activations[k] \in Range(activations)
      /\ \A c \in Range(frameTokens) : \E k \in DOMAIN frameTokens : c = frameTokens[k]
      /\ \A p \in Range(activations) : \E k \in DOMAIN activations : p = activations[k]
  BY DEF Range
<1>8. /\ \A c \in Range(frameTokens) \cup TokensOf(frames) : c \in Live
      /\ \A p \in Range(activations) \cup CommandsOf(frames) \cup waiting : p.cmd \in Live
  BY InCmds DEF Live, LiveOf
<1>9. \A c \in Live : \/ c \in Range(frameTokens) \cup TokensOf(frames)
                      \/ \E p \in Range(activations) \cup CommandsOf(frames) \cup waiting : c = p.cmd
  BY InCmds DEF Live, LiveOf
<1>10. (\A x \in closing : x.cmd \in Ending) /\ (\A c \in Ending : \E x \in closing : c = x.cmd)
  BY InCmds DEF Ending
<1>11. \A k \in DOMAIN frames : \A c \in frames[k].token : c \in TokensOf(frames) BY InFrames
<1>12. ASSUME ~ \E c \in Live \cup Ending : Is(c) PROVE Places(s, i) = 0
  <2>1. S1 = {} /\ S2 = {} BY <1>7, <1>8, <1>12
  <2>2. S3 = {} BY <1>8, <1>11, <1>12
  <2>3. S4 = {} BY <1>2, <1>8, <1>12
  <2>4. S5 = {} BY <1>10, <1>12
  <2> HIDE DEF S1, S2, S3, S4, S5
  <2>5. Cardinality({}) = 0 BY FS_EmptySet
  <2>6. QED BY <1>0, <2>1, <2>2, <2>3, <2>4, <2>5
<1>13. ASSUME NEW c \in Live \cup Ending, Is(c) PROVE Places(s, i) = 1
  <2>1. \A d \in Live \cup Ending : Is(d) <=> d = c BY <1>1, <1>13 DEF Unique
  <2>2. S1 = {k \in DOMAIN frameTokens : frameTokens[k] = c} BY <1>7, <1>8, <2>1
  <2>3. S2 = {k \in DOMAIN activations : activations[k].cmd = c} BY <1>7, <1>8, <2>1
  <2>4. S3 = {k \in DOMAIN frames : c \in frames[k].token} BY <1>8, <1>11, <2>1
  <2>5. S4 = {p \in CommandsOf(frames) \cup waiting : p.cmd = c} BY <1>2, <1>8, <2>1
  <2>6. S5 = {x \in closing : x.cmd = c} BY <1>10, <2>1
  <2> HIDE DEF S1, S2, S3, S4, S5
  <2>7. \A k, j \in S1 : k = j BY <1>4, <2>2 DEF IsInjective
  <2>8. \A k, j \in S2 : k = j
    <3>1. ASSUME NEW k \in S2 PROVE activations[k] = [cmd |-> c, jobs |-> 0, failed |-> FALSE]
      <4>1. k \in DOMAIN activations /\ activations[k].cmd = c BY <2>3
      <4>2. activations[k] \in Range(activations) BY <1>7, <4>1
      <4>3. QED BY <1>4, <4>1, <4>2
    <3>2. ASSUME NEW k \in S2, NEW j \in S2 PROVE k = j
      <4>1. k \in DOMAIN activations /\ j \in DOMAIN activations BY <2>3
      <4>2. activations[k] = activations[j] BY <3>1
      <4>3. QED BY <1>4, <4>1, <4>2 DEF IsInjective
    <3>3. QED BY <3>2
  <2>9. \A k, j \in S3 : k = j BY <1>4, <2>4 DEF Apart
  <2>10. \A k, j \in S4 : k = j BY <1>4, <2>5
  <2>11. \A k, j \in S5 : k = j BY <1>5, <2>6
  <2>12. S1 # {} <=> c \in Range(frameTokens) BY <1>7, <2>2
  <2>13. S2 # {} <=> \E p \in Range(activations) : c = p.cmd BY <1>7, <2>3
  <2>14. S3 # {} <=> c \in TokensOf(frames) BY <2>4, InFrames
  <2>15. S4 # {} <=> \E p \in CommandsOf(frames) \cup waiting : c = p.cmd BY <2>5
  <2>16. S5 # {} <=> c \in Ending BY <1>10, <2>6
  <2>17. S5 # {} => c \notin Live BY <1>5, <2>6
  <2>18. c \in Live <=> S1 # {} \/ S2 # {} \/ S3 # {} \/ S4 # {}
    BY <1>8, <1>9, <2>12, <2>13, <2>14, <2>15
  <2>19. ~(S1 # {} /\ S3 # {}) /\ ~(S2 # {} /\ S4 # {}) BY <1>4, <2>12, <2>13, <2>14, <2>15
  <2>20. ~((S1 # {} \/ S3 # {}) /\ (S2 # {} \/ S4 # {}))
    BY <1>4, <1>6, <2>12, <2>13, <2>14, <2>15
  <2>21. Cardinality(S1) = IF S1 = {} THEN 0 ELSE 1 BY <2>7, OneOrNone
  <2>22. Cardinality(S2) = IF S2 = {} THEN 0 ELSE 1 BY <2>8, OneOrNone
  <2>23. Cardinality(S3) = IF S3 = {} THEN 0 ELSE 1 BY <2>9, OneOrNone
  <2>24. Cardinality(S4) = IF S4 = {} THEN 0 ELSE 1 BY <2>10, OneOrNone
  <2>25. Cardinality(S5) = IF S5 = {} THEN 0 ELSE 1 BY <2>11, OneOrNone
  <2>26. QED BY <1>0, <1>13, <2>16, <2>17, <2>18, <2>19, <2>20, <2>21, <2>22, <2>23, <2>24, <2>25
<1>14. QED BY <1>12, <1>13

(* Whatever a live session's ledger holds open has exactly one place in    *)
(* the runtime, so that something is left that will end it; and the        *)
(* runtime works on nothing of a live session that its ledger has closed.  *)
THEOREM OpenWorkIsCarried == Spec => []OpenIsCarried
<1>1. ASSUME Init PROVE WorkInv /\ CarryInv
  <2>1. WorkInv BY <1>1, WorkInit
  <2>2. ASSUME NEW s \in Sessions
        PROVE  (\A i : ~Open(ledger[s], i)) /\ (\A c \in Live \cup Ending : c.s # s)
    <3>1. ledger[s] = NewLedger BY <1>1 DEF Init, SessionsInit
    <3>2. DOMAIN ledger[s].entries = {} /\ ledger[s].highWater = 0 BY <3>1 DEF NewLedger
    <3>3. \A i : ~Open(ledger[s], i) BY <3>2 DEF Open
    <3>4. ASSUME NEW c \in Live \cup Ending PROVE c.s # s
      <4>1. c \in Commands BY <2>1, WorkType DEF WorkInv
      <4>2. c.id <= ledger[c.s].highWater BY <2>1 DEF WorkInv, Known
      <4>3. QED BY <3>2, <4>1, <4>2 DEF Commands, IDs
    <3>5. QED BY <3>3, <3>4
  <2>3. CarryInv BY <2>2 DEF CarryInv
  <2>4. QED BY <2>1, <2>3
<1>2. ASSUME WorkInv /\ CarryInv, [Next]_vars PROVE WorkInv' /\ CarryInv'
  BY <1>2, WorkNext, CarryNext
<1>3. ASSUME WorkInv, CarryInv PROVE OpenIsCarried
  <2>1. ASSUME NEW s \in Sessions, NEW i \in IDs, InTable(s)
        PROVE  Places(s, i) = IF Open(ledger[s], i) THEN 1 ELSE 0
    <3>1. state[s] # "gone" BY <2>1 DEF InTable
    <3>2. Open(ledger[s], i) <=> \E c \in Live \cup Ending : c.s = s /\ c.id = i
      BY <1>3, <3>1 DEF CarryInv
    <3>3. QED BY <1>3, <3>2, OnePlace
  <2>2. QED BY <2>1 DEF OpenIsCarried
<1>4. QED BY <1>1, <1>2, <1>3, PTL DEF Spec

-----------------------------------------------------------------------------
(* Counted.  activeCount is the number of execute operations in work.      *)

Executing == {c \in Live \cup Ending : c.m = "execute"}

CountInv == IsFiniteSet(Executing) /\ activeCount = Cardinality(Executing)

LEMMA CountNext == ASSUME WorkInv, CountInv, [Next]_vars PROVE CountInv'
<1>0. Kinds BY WorkNext
<1>1. PICK E, F : /\ E = Executing /\ F = Executing'
                  /\ \A c : c \in E <=> c \in Live \cup Ending /\ c.m = "execute"
                  /\ \A c : c \in F <=> c \in Live' \cup Ending' /\ c.m = "execute"
  <2>1. \A c : c \in Executing <=> c \in Live \cup Ending /\ c.m = "execute" BY DEF Executing
  <2>2. \A c : c \in Executing' <=> c \in Live' \cup Ending' /\ c.m = "execute" BY DEF Executing
  <2>3. QED BY <2>1, <2>2
<1>2. IsFiniteSet(E) /\ activeCount = Cardinality(E) /\ activeCount \in Nat
  BY <1>1, FS_CardinalityType DEF CountInv
<1>3. SUFFICES IsFiniteSet(F) /\ activeCount' = Cardinality(F) BY <1>1 DEF CountInv
<1>4. CASE Passes /\ activeCount' = activeCount
  <2>1. E = F BY <1>1, <1>4 DEF Passes
  <2>2. QED BY <1>2, <1>4, <2>1
<1>5. ASSUME NEW c, Claims(c) PROVE IsFiniteSet(F) /\ activeCount' = Cardinality(F)
  <2>1. /\ Live' \cup Ending' = Live \cup Ending \cup {c} /\ c \notin Live \cup Ending
        /\ activeCount' = IF c.m = "execute" THEN activeCount + 1 ELSE activeCount
    BY <1>5 DEF Claims, Enters
  <2>2. CASE c.m = "execute"
    <3>1. F = E \cup {c} /\ c \notin E BY <1>1, <2>1, <2>2
    <3>2. QED BY <1>2, <2>1, <2>2, <3>1, FS_AddElement
  <2>3. CASE c.m # "execute"
    <3>1. F = E BY <1>1, <2>1, <2>3
    <3>2. QED BY <1>2, <2>1, <2>3, <3>1
  <2>4. QED BY <2>2, <2>3
<1>6. ASSUME NEW x, Finishes(x) PROVE IsFiniteSet(F) /\ activeCount' = Cardinality(F)
  <2>1. PICK c : c = x.cmd OBVIOUS
  <2>2. /\ Live' \cup Ending' \cup {c} = Live \cup Ending /\ c \notin Live' \cup Ending'
        /\ activeCount' = IF c.m = "execute" /\ activeCount > 0 THEN activeCount - 1 ELSE activeCount
    BY <1>6, <2>1 DEF Finishes
  <2>3. CASE c.m = "execute"
    <3>1. F = E \ {c} /\ c \in E BY <1>1, <2>2, <2>3
    <3>2. Cardinality(E) # 0 BY <1>2, <3>1, FS_EmptySet
    <3>3. IsFiniteSet(F) /\ Cardinality(F) = Cardinality(E) - 1 BY <1>2, <3>1, FS_RemoveElement
    <3>4. QED BY <1>2, <2>2, <2>3, <3>2, <3>3
  <2>4. CASE c.m # "execute"
    <3>1. F = E BY <1>1, <2>2, <2>4
    <3>2. QED BY <1>2, <2>2, <2>4, <3>1
  <2>5. QED BY <2>3, <2>4
<1>7. QED BY <1>0, <1>4, <1>5, <1>6 DEF Kinds, Quiet, Expires, Rejects, Replays

(* A set of records that differ in their commands has as many commands.    *)
LEMMA CmdsCount ==
  ASSUME NEW S, \A x, y \in S : x.cmd = y.cmd => x = y, IsFiniteSet(Cmds(S))
  PROVE  IsFiniteSet(S) /\ Cardinality(S) = Cardinality(Cmds(S))
<1>1. PICK f : f = [x \in S |-> x.cmd] OBVIOUS
<1>2. \A x \in S : x.cmd \in Cmds(S) BY InCmds
<1>3. f \in [S -> Cmds(S)] BY <1>1, <1>2
<1>4. f \in Injection(S, Cmds(S)) BY <1>1, <1>3 DEF Injection, IsInjective
<1>5. \A c \in Cmds(S) : \E x \in S : f[x] = c BY <1>1, InCmds
<1>6. f \in Surjection(S, Cmds(S)) BY <1>3, <1>5 DEF Surjection
<1>7. QED BY <1>4, <1>6, FS_Injection

LEMMA RangeCount ==
  ASSUME NEW T, NEW q \in Seq(T), IsInjective(q)
  PROVE  IsFiniteSet(Range(q)) /\ Cardinality(Range(q)) = Len(q)
<1>1. q \in [1..Len(q) -> T] /\ Len(q) \in Nat /\ DOMAIN q = 1..Len(q) BY LenProperties
<1>2. \A x : x \in Range(q) <=> \E k \in 1..Len(q) : x = q[k] BY <1>1 DEF Range
<1>3. q \in [1..Len(q) -> Range(q)] BY <1>1, <1>2
<1>4. q \in Injection(1..Len(q), Range(q)) BY <1>1, <1>3 DEF Injection, IsInjective
<1>5. q \in Surjection(1..Len(q), Range(q)) BY <1>2, <1>3 DEF Surjection
<1>6. ExistsBijection(1..Len(q), Range(q)) BY <1>4, <1>5 DEF ExistsBijection, Bijection
<1>7. IsFiniteSet(1..Len(q)) /\ Cardinality(1..Len(q)) = Len(q)
  <2>1. PICK n \in Nat : n = Len(q) BY <1>1
  <2>2. 1 \in Int /\ n \in Int OBVIOUS
  <2>3. IsFiniteSet(1..n) /\ Cardinality(1..n) = IF 1 > n THEN 0 ELSE n - 1 + 1
    BY <2>2, FS_Interval
  <2>4. QED BY <2>1, <2>3
<1>8. QED BY <1>6, <1>7, FS_Bijection

LEMMA ThreeParts ==
  ASSUME NEW A, NEW B, NEW C, IsFiniteSet(A \cup B \cup C),
         A \cap B = {}, (A \cup B) \cap C = {}
  PROVE  /\ IsFiniteSet(A) /\ IsFiniteSet(B) /\ IsFiniteSet(C)
         /\ Cardinality(A \cup B \cup C) = Cardinality(A) + Cardinality(B) + Cardinality(C)
<1>1. IsFiniteSet(A) /\ IsFiniteSet(B) /\ IsFiniteSet(C) /\ IsFiniteSet(A \cup B)
  BY FS_Subset
<1>2. Cardinality(A \cap B) = 0 /\ Cardinality((A \cup B) \cap C) = 0 BY FS_EmptySet
<1>3. Cardinality(A \cup B) = Cardinality(A) + Cardinality(B) - Cardinality(A \cap B)
  BY <1>1, FS_Union
<1>4. Cardinality((A \cup B) \cup C)
        = Cardinality(A \cup B) + Cardinality(C) - Cardinality((A \cup B) \cap C)
  BY <1>1, FS_Union
<1>5. /\ Cardinality(A) \in Nat /\ Cardinality(B) \in Nat /\ Cardinality(C) \in Nat
      /\ Cardinality(A \cup B) \in Nat
  BY <1>1, FS_CardinalityType
<1>6. QED BY <1>1, <1>2, <1>3, <1>4, <1>5

LEMMA CountIsExact == ASSUME WorkInv, CountInv PROVE CommandsCounted
<1> DEFINE A == Range(activations)
           B == CommandsOf(frames) \cup waiting
           C == {x \in closing : x.cmd.m = "execute"}
<1>1. FrameCommands = CommandsOf(frames) BY DEF FrameCommands, CommandsOf
<1>2. LiveOK(frameTokens, activations, frames, waiting) /\ EndOK(closing, Live)
  BY DEF WorkInv, FlowInv, PlacesInv
<1>3. /\ activations \in Seq(PendingCommands) /\ IsInjective(activations)
      /\ \A c \in Range(frameTokens) \cup TokensOf(frames) : c.m \in TimeMethods
      /\ \A p \in A \cup B : p.cmd.m = "execute"
      /\ \A p \in A : p = [cmd |-> p.cmd, jobs |-> 0, failed |-> FALSE]
      /\ \A p, r \in B : p = r
      /\ CommandsOf(frames) = {} \/ waiting = {}
      /\ \A p \in A, r \in B : p.cmd # r.cmd
  BY <1>2 DEF LiveOK
<1>4. (\A x, y \in C : x.cmd = y.cmd => x = y) /\ (\A x \in C : x.cmd \notin Live)
  BY <1>2 DEF EndOK
<1>5. \A c : c \in Live <=> \/ c \in Range(frameTokens) \cup TokensOf(frames)
                            \/ \E p \in A \cup B : c = p.cmd
  BY InCmds DEF Live, LiveOf
<1>6. "execute" \notin TimeMethods BY DEF TimeMethods
<1>7. \A c : c \in Ending /\ c.m = "execute" <=> \E x \in C : c = x.cmd BY InCmds DEF Ending
<1> HIDE DEF A, B, C
<1>8. \A c : c \in Executing <=> c \in Cmds(A) \cup Cmds(B) \cup Cmds(C)
  <2>1. \A c : c \in Executing <=> (c \in Live /\ c.m = "execute") \/ (c \in Ending /\ c.m = "execute")
    BY DEF Executing
  <2>2. \A c : c \in Live /\ c.m = "execute" <=> \E p \in A \cup B : c = p.cmd
    BY <1>3, <1>5, <1>6
  <2>3. QED BY <1>7, <2>1, <2>2, InCmds
<1>9. Executing = Cmds(A) \cup Cmds(B) \cup Cmds(C) BY <1>8
<1>10. Cmds(A) \cap Cmds(B) = {} BY <1>3, InCmds
<1>11. (Cmds(A) \cup Cmds(B)) \cap Cmds(C) = {} BY <1>4, <1>5, InCmds
<1>12. /\ IsFiniteSet(Cmds(A)) /\ IsFiniteSet(Cmds(B)) /\ IsFiniteSet(Cmds(C))
       /\ activeCount = Cardinality(Cmds(A)) + Cardinality(Cmds(B)) + Cardinality(Cmds(C))
  <2>1. IsFiniteSet(Cmds(A) \cup Cmds(B) \cup Cmds(C))
        /\ activeCount = Cardinality(Cmds(A) \cup Cmds(B) \cup Cmds(C))
    BY <1>9 DEF CountInv
  <2> HIDE DEF Cmds
  <2>2. QED BY <1>10, <1>11, <2>1, ThreeParts
<1>13. \A x, y \in A : x.cmd = y.cmd => x = y BY <1>3
<1>14. Cardinality(Cmds(A)) = Cardinality(A) BY <1>12, <1>13, CmdsCount
<1>15. Cardinality(Cmds(B)) = Cardinality(B) BY <1>3, <1>12, CmdsCount
<1>16. Cardinality(Cmds(C)) = Cardinality(C) BY <1>4, <1>12, CmdsCount
<1>17. Cardinality(A) = Len(activations) BY <1>3, RangeCount DEF A
<1>18. Cardinality(B) <= 1 BY <1>3, OneOrNone
<1>19. Cardinality(B) = Cardinality(CommandsOf(frames)) + Cardinality(waiting)
  <2>1. CASE waiting = {}
    <3>1. B = CommandsOf(frames) BY <2>1 DEF B
    <3>2. Cardinality(B) \in Nat BY <1>3, OneOrNone
    <3>3. QED BY <2>1, <3>1, <3>2, FS_EmptySet
  <2>2. CASE CommandsOf(frames) = {}
    <3>1. B = waiting BY <2>2 DEF B
    <3>2. Cardinality(B) \in Nat BY <1>3, OneOrNone
    <3>3. QED BY <2>2, <3>1, <3>2, FS_EmptySet
  <2>3. QED BY <1>3, <2>1, <2>2
<1>20. CommandsCounted <=>
         /\ Cardinality(CommandsOf(frames)) + Cardinality(waiting) <= 1
         /\ activeCount = Len(activations) + Cardinality(CommandsOf(frames)) + Cardinality(waiting)
                          + Cardinality(C)
  BY <1>1 DEF CommandsCounted, C
<1>21. /\ Len(activations) \in Nat /\ Cardinality(B) \in Nat /\ Cardinality(C) \in Nat
       /\ Cardinality(CommandsOf(frames)) \in Nat /\ Cardinality(waiting) \in Nat
  <2>1. Len(activations) \in Nat BY <1>3, LenProperties
  <2>2. Cardinality(B) \in Nat BY <1>3, OneOrNone
  <2>3. Cardinality(C) \in Nat BY <1>12, <1>16, FS_CardinalityType
  <2>4. (\A p, r \in CommandsOf(frames) : p = r) /\ (\A p, r \in waiting : p = r) BY <1>3 DEF B
  <2>5. Cardinality(CommandsOf(frames)) \in Nat /\ Cardinality(waiting) \in Nat BY <2>4, OneOrNone
  <2>6. QED BY <2>1, <2>2, <2>3, <2>5
<1>22. QED BY <1>12, <1>14, <1>15, <1>16, <1>17, <1>18, <1>19, <1>20, <1>21

LEMMA CountInit == ASSUME Init PROVE CountInv
<1>1. WorkInv BY WorkInit
<1>2. ASSUME NEW c \in Live \cup Ending PROVE FALSE
  <2>1. c \in Commands BY <1>1, WorkType DEF WorkInv
  <2>2. c.id <= ledger[c.s].highWater BY <1>1 DEF WorkInv, Known
  <2>3. c.s \in Sessions /\ c.id \in IDs BY <2>1 DEF Commands
  <2>4. ledger[c.s].highWater = 0 BY <2>3 DEF Init, SessionsInit, NewLedger
  <2>5. QED BY <2>2, <2>3, <2>4 DEF IDs
<1>3. Executing = {} BY <1>2 DEF Executing
<1>4. activeCount = 0 BY DEF Init, PortInit
<1>5. QED BY <1>1, <1>3, <1>4, FS_EmptySet DEF CountInv

(* Commands run one at a time, and the counter that driveAdmit compares    *)
(* with maxPendingDriveCommands is exact: no way out of the work, be it    *)
(* a fence, a cancellation, a preemption or a lost activation, forgets to  *)
(* count down or counts down twice.                                        *)
THEOREM CommandCountExact == Spec => []CommandsCounted
<1>1. ASSUME Init PROVE WorkInv /\ CountInv BY <1>1, WorkInit, CountInit
<1>2. ASSUME WorkInv /\ CountInv, [Next]_vars PROVE WorkInv' /\ CountInv'
  BY <1>2, WorkNext, CountNext
<1>3. ASSUME WorkInv, CountInv PROVE CommandsCounted BY <1>3, CountIsExact
<1>4. QED BY <1>1, <1>2, <1>3, PTL DEF Spec

-----------------------------------------------------------------------------
(* Signalled.  A generation that has work in the runtime, or owns time, is *)
(* attached or about to be fenced.                                         *)

HeldBy(key) == (\E c \in Live : key = Key(c)) \/ (owner # NoOwner /\ key = owner)

Covered(key) == Attached(key[1], key[2]) \/ SignalOnItsWay(key)

(* A generation that is not reached yet has no connection; keys are taken  *)
(* only on the way to the fence.                                           *)
FreshConns ==
  \A s \in Sessions : /\ state[s] = "none" => gen[s] = 0
                      /\ \A g \in 1..MaxGen : g > gen[s] => conn[s][g] = "none"

SignalInv ==
  /\ taken # {} => rt = "fence"
  /\ FreshConns
  /\ \A key \in Keys : HeldBy(key) => Covered(key)

(* Who gets hold of time or of work is attached at that moment.            *)
LEMMA OwnerIsAttached ==
  ASSUME [Next]_vars
  PROVE  \/ owner' = owner \/ owner' = NoOwner
         \/ \E c : Attached(c.s, c.g) /\ owner' = Key(c)
<1> USE DEF timeVars
<1>1. CASE StartTurn \/ AfterPreempt BY <1>1 DEF StartTurn, AfterPreempt
<1>2. CASE Fence BY <1>2 DEF Fence, ForceWall
<1>3. CASE \E x \in closing : CompleteOne(x) BY <1>3 DEF CompleteOne
<1>4. CASE \E ready \in BOOLEAN : RenderCompletion(ready) BY <1>4 DEF RenderCompletion
<1>5. CASE ClaimTake \/ ClaimClear \/ AdmitDone BY <1>5 DEF ClaimTake, ClaimClear, AdmitDone
<1>6. ASSUME NEW c, Admit(c)
      PROVE  \/ owner' = owner \/ owner' = NoOwner
             \/ Attached(c.s, c.g) /\ owner' = Key(c)
  <2>1. CASE \/ AdmitRefused(c) \/ AdmitReplay(c) \/ AdmitPending(c)
             \/ AdmitRejected(c) \/ AdmitExecute(c)
    BY <2>1 DEF AdmitRefused, AdmitReplay, AdmitPending, AdmitRejected, AdmitExecute
  <2>2. CASE (\E outcome \in {"done", "failed"} : AdmitRead(c, outcome)) \/ AdmitCancel(c)
    BY <2>2 DEF AdmitRead, AdmitCancel
  <2>3. CASE AdmitTimeAtOnce(c) BY <2>3 DEF AdmitTimeAtOnce, Admissible
  <2>4. CASE AdmitTimeDeferred(c) BY <2>4 DEF AdmitTimeDeferred, Admissible
  <2>5. CASE AdmitRevoke(c) BY <2>5 DEF AdmitRevoke, ForceWall
  <2>6. QED BY <1>6, <2>1, <2>2, <2>3, <2>4, <2>5 DEF Admit
<1>7. CASE StartTokenFrame \/ StartWallFrame \/ NoFrame
  BY <1>7 DEF StartTokenFrame, StartWallFrame, NoFrame
<1>8. CASE \E p \in FrameCommands \cup waiting, ok \in BOOLEAN : JobDone(p, ok) BY <1>8 DEF JobDone
<1>9. CASE \E human, lost \in BOOLEAN : FrameEvents(human, lost)
  BY <1>9 DEF FrameEvents, Preempt, ForceWall
<1>10. CASE FrameWithoutCommand \/ ActivateLost BY <1>10 DEF FrameWithoutCommand, ActivateLost
<1>11. CASE \E jobs \in 0..MaxJobs, failed \in BOOLEAN : Activate(jobs, failed) BY <1>11 DEF Activate
<1>12. CASE HumanParked \/ SurfaceCreated BY <1>12 DEF HumanParked, SurfaceCreated, Preempt, ForceWall
<1>13. CASE RenderDone BY <1>13 DEF RenderDone
<1>14. ASSUME NEW s \in Sessions, Create(s) \/ Resume(s) \/ ResumeExpired(s) PROVE owner' = owner
  BY <1>14 DEF Create, Resume, ResumeExpired, portVars
<1>15. ASSUME NEW s \in Sessions, NEW g \in 1..MaxGen,
             \/ Close(s, g) \/ Signal(s, g) \/ LeaseExpired(s, g)
             \/ \E id \in IDs : \E m \in workload.sends[id] : Dispatch(s, g, id, m)
      PROVE  owner' = owner
  BY <1>15 DEF Close, Signal, LeaseExpired, Dispatch, PortStep, portVars
<1>16. CASE UNCHANGED vars BY <1>16 DEF vars, portVars
<1> HIDE DEF timeVars
<1>17. CASE RuntimeStep
  BY <1>1, <1>2, <1>3, <1>4, <1>5, <1>6, <1>7, <1>8, <1>9, <1>10, <1>11, <1>12, <1>17
     DEF RuntimeStep
<1>18. QED BY <1>13, <1>14, <1>15, <1>16, <1>17 DEF Next

LEMMA HolderWasCovered ==
  ASSUME WorkInv, SignalInv, [Next]_vars, NEW key \in Keys, HeldBy(key)'
  PROVE  Covered(key)
<1>1. \A c \in Live' : c \in Live \/ Attached(c.s, c.g)
  <2>1. Kinds BY WorkNext
  <2>2. CASE Passes BY <2>2 DEF Passes
  <2>3. ASSUME NEW c, Claims(c) PROVE \A d \in Live' : d \in Live \/ Attached(d.s, d.g)
    <3>1. Live' \subseteq Live \cup {c} /\ Attached(c.s, c.g) BY <2>3 DEF Claims, Enters, Admissible
    <3>2. QED BY <3>1
  <2>4. ASSUME NEW x, Finishes(x) PROVE Live' = Live BY <2>4 DEF Finishes, Leaves
  <2>5. QED BY <2>1, <2>2, <2>3, <2>4 DEF Kinds, Quiet, Expires, Rejects, Replays
<1>2. \A c : Key(c)[1] = c.s /\ Key(c)[2] = c.g BY DEF Key
<1>3. ASSUME NEW c \in Live', key = Key(c) PROVE Covered(key)
  <2>1. CASE c \in Live BY <1>3, <2>1 DEF SignalInv, HeldBy
  <2>2. CASE Attached(c.s, c.g) BY <1>2, <1>3, <2>2 DEF Covered
  <2>3. QED BY <1>1, <2>1, <2>2
<1>4. ASSUME owner' # NoOwner, key = owner' PROVE Covered(key)
  <2>1. CASE owner' = owner BY <1>4, <2>1 DEF SignalInv, HeldBy
  <2>2. ASSUME NEW c, Attached(c.s, c.g), owner' = Key(c) PROVE Covered(key)
    BY <1>2, <1>4, <2>2 DEF Covered
  <2>3. QED BY <1>4, <2>1, <2>2, OwnerIsAttached
<1>5. (\E c \in Live' : key = Key(c)) \/ (owner' # NoOwner /\ key = owner') BY DEF HeldBy, Key
<1>6. QED BY <1>3, <1>4, <1>5

(* The runtime keeps its hold of the signals until it fences them.         *)
LEMMA SignalsKept ==
  ASSUME RuntimeStep, taken # {} => rt = "fence"
  PROVE  /\ taken' # {} => rt' = "fence"
         /\ Fence \/ controlKeys \cup taken \subseteq controlKeys' \cup taken'
<1> DEFINE G == /\ taken' # {} => rt' = "fence"
                /\ controlKeys \cup taken \subseteq controlKeys' \cup taken'
<1>0. ASSUME rt # "fence", UNCHANGED <<taken, controlKeys>> PROVE G BY <1>0
<1>1. CASE StartTurn \/ AfterPreempt
  <2>1. ServiceControl /\ rt # "fence" BY <1>1 DEF StartTurn, AfterPreempt
  <2>2. G BY <2>1 DEF ServiceControl
  <2>3. QED BY <2>2
<1>2. CASE Fence
  <2>1. taken' = {} BY <1>2 DEF Fence
  <2>2. QED BY <1>2, <2>1
<1>3. CASE \E x \in closing : CompleteOne(x) BY <1>0, <1>3 DEF CompleteOne, queueVars
<1>4. CASE \E ready \in BOOLEAN : RenderCompletion(ready)
  <2>1. rt # "fence" /\ UNCHANGED <<taken, controlKeys>> BY <1>4 DEF RenderCompletion, queueVars
  <2>2. QED BY <1>0, <2>1
<1>5. CASE ClaimTake \/ ClaimClear \/ AdmitDone
  <2>1. rt # "fence" /\ UNCHANGED <<taken, controlKeys>>
    BY <1>5 DEF ClaimTake, ClaimClear, AdmitDone, queueVars
  <2>2. QED BY <1>0, <2>1
<1>6. ASSUME NEW c, Admit(c) PROVE G
  <2>1. AtHead(c) /\ UNCHANGED <<taken, controlKeys>>
    <3>1. CASE \/ AdmitRefused(c) \/ AdmitReplay(c) \/ AdmitPending(c)
               \/ AdmitRejected(c) \/ AdmitExecute(c)
      BY <3>1 DEF AdmitRefused, AdmitReplay, AdmitPending, AdmitRejected, AdmitExecute, queueVars
    <3>2. CASE \/ \E outcome \in {"done", "failed"} : AdmitRead(c, outcome)
               \/ AdmitTimeAtOnce(c) \/ AdmitTimeDeferred(c) \/ AdmitCancel(c)
      BY <3>2 DEF AdmitRead, AdmitTimeAtOnce, AdmitTimeDeferred, AdmitCancel, queueVars
    <3>3. CASE AdmitRevoke(c) BY <3>3 DEF AdmitRevoke, queueVars
    <3>4. QED BY <1>6, <3>1, <3>2, <3>3 DEF Admit
  <2>2. QED BY <1>0, <2>1 DEF AtHead
<1>7. CASE StartTokenFrame \/ StartWallFrame \/ NoFrame
  <2>1. rt # "fence" /\ UNCHANGED <<taken, controlKeys>>
    BY <1>7 DEF StartTokenFrame, StartWallFrame, NoFrame, queueVars
  <2>2. QED BY <1>0, <2>1
<1>8. CASE \E p \in FrameCommands \cup waiting, ok \in BOOLEAN : JobDone(p, ok)
  <2>1. rt # "fence" /\ UNCHANGED <<taken, controlKeys>> BY <1>8 DEF JobDone, queueVars
  <2>2. QED BY <1>0, <2>1
<1>9. ASSUME NEW human \in BOOLEAN, NEW lost \in BOOLEAN, FrameEvents(human, lost) PROVE G
  <2>1. CASE human
    <3>1. rt # "fence" /\ UNCHANGED <<taken, controlKeys>> BY <1>9, <2>1 DEF FrameEvents
    <3>2. QED BY <1>0, <3>1
  <2>2. CASE ~human
    <3>1. ServiceControl /\ rt # "fence" BY <1>9, <2>2 DEF FrameEvents
    <3>2. QED BY <3>1 DEF ServiceControl
  <2>3. QED BY <2>1, <2>2
<1>10. CASE \/ FrameWithoutCommand \/ ActivateLost
            \/ \E jobs \in 0..MaxJobs, failed \in BOOLEAN : Activate(jobs, failed)
  <2>1. rt # "fence" /\ UNCHANGED <<taken, controlKeys>>
    BY <1>10 DEF FrameWithoutCommand, ActivateLost, Activate, queueVars
  <2>2. QED BY <1>0, <2>1
<1>11. CASE HumanParked \/ SurfaceCreated
  <2>1. rt # "fence" /\ UNCHANGED <<taken, controlKeys>>
    BY <1>11 DEF HumanParked, SurfaceCreated, queueVars
  <2>2. QED BY <1>0, <2>1
<1>12. QED
  BY <1>1, <1>2, <1>3, <1>4, <1>5, <1>6, <1>7, <1>8, <1>9, <1>10, <1>11 DEF RuntimeStep

(* A fence leaves nothing behind of the generations it took ...            *)
LEMMA FenceClears ==
  ASSUME WorkInv, Fence, NEW key, HeldBy(key)'
  PROVE  key \notin taken
<1> DEFINE lost == {c \in TokenWork \cup CommandWork : Key(c) \in taken}
<1>1. TakeOut(lost) BY DEF Fence
<1>2. Live' = Live \ lost BY <1>1, TakeOutFlow DEF WorkInv, FlowInv
<1>3. \A c \in Live' : Key(c) \notin taken BY <1>2, LiveIsWork
<1>4. owner' # NoOwner => owner' \notin taken BY DEF Fence, ForceWall, timeVars
<1>5. (\E c \in Live' : key = Key(c)) \/ (owner' # NoOwner /\ key = owner') BY DEF HeldBy, Key
<1>6. QED BY <1>3, <1>4, <1>5

(* ... and a revocation nothing of the session.                            *)
LEMMA RevokeClears ==
  ASSUME WorkInv, NEW c, AdmitRevoke(c), InTable(RevokeTarget), NEW key, HeldBy(key)'
  PROVE  key[1] # RevokeTarget
<1> DEFINE live == {w \in TokenWork \cup CommandWork : w.s = RevokeTarget}
<1>1. TakeOut(live) BY DEF AdmitRevoke
<1>2. Live' = Live \ live BY <1>1, TakeOutFlow DEF WorkInv, FlowInv
<1>3. \A d \in Live' : Key(d)[1] # RevokeTarget BY <1>2, LiveIsWork DEF Key
<1>4. owner' # NoOwner => owner'[1] # RevokeTarget BY DEF AdmitRevoke, ForceWall, timeVars
<1>5. (\E d \in Live' : key = Key(d)) \/ (owner' # NoOwner /\ key = owner') BY DEF HeldBy, Key
<1>6. QED BY <1>3, <1>4, <1>5

LEMMA SignalNext == ASSUME WorkInv, SignalInv, [Next]_vars PROVE SignalInv'
<1>0. /\ state \in [Sessions -> {"none", "attached", "detached", "gone"}]
      /\ gen \in [Sessions -> 0..MaxGen]
      /\ conn \in [Sessions -> [1..MaxGen -> ConnStates]]
      /\ \A s \in Sessions : state[s] # "none" => gen[s] > 0
      /\ MaxGen \in Nat \ {0} /\ SessionTypes
  BY SessionAssumption DEF WorkInv, Types, SessionTypes
<1>1. /\ taken # {} => rt = "fence"
      /\ \A s \in Sessions : state[s] = "none" => gen[s] = 0
      /\ \A s \in Sessions, g \in 1..MaxGen : g > gen[s] => conn[s][g] = "none"
  BY DEF SignalInv, FreshConns
<1>2. \A key \in Keys : key[1] \in Sessions /\ key[2] \in 1..MaxGen BY DEF Keys
<1>3. \A key \in Keys : HeldBy(key)' => Covered(key) BY HolderWasCovered
(* Neither the sessions nor the connections change, and no signal is lost. *)
<1>4. ASSUME UNCHANGED <<state, gen, conn>>,
             \A key \in Keys : HeldBy(key)' /\ key \in controlKeys \cup taken
                                 => key \in controlKeys' \cup taken'
      PROVE  FreshConns' /\ \A key \in Keys : HeldBy(key)' => Covered(key)'
  <2>1. FreshConns' BY <1>1, <1>4 DEF FreshConns
  <2>2. ASSUME NEW key \in Keys, HeldBy(key)' PROVE Covered(key)'
    <3>1. Covered(key) BY <1>3, <2>2
    <3>2. key \in controlKeys \cup taken => key \in controlKeys' \cup taken' BY <1>4, <2>2
    <3>3. QED BY <1>4, <3>1, <3>2 DEF Covered, Attached, SignalOnItsWay
  <2>3. QED BY <2>1, <2>2
<1>5. CASE RuntimeStep /\ UNCHANGED serverVars
  <2>1. /\ taken' # {} => rt' = "fence"
        /\ Fence \/ controlKeys \cup taken \subseteq controlKeys' \cup taken'
    BY <1>1, <1>5, SignalsKept
  <2>2. gen' = gen /\ conn' = conn /\ (state' = state \/ \E c : AdmitRevoke(c) /\ Revoked)
    BY <1>5, RuntimeSessions DEF serverVars
  <2>3. CASE Fence
    <3>1. state' = state /\ controlKeys' = controlKeys BY <2>3 DEF Fence, sessionVars
    <3>2. \A key \in Keys : HeldBy(key)' => key \notin taken BY <2>3, FenceClears
    <3>3. QED BY <1>4, <2>1, <2>2, <3>1, <3>2 DEF SignalInv
  <2>4. CASE state' = state /\ ~Fence BY <1>4, <2>1, <2>2, <2>4 DEF SignalInv
  <2>5. ASSUME NEW c, AdmitRevoke(c), Revoked PROVE SignalInv'
    <3>1. InTable(RevokeTarget) /\ state' = [state EXCEPT ![RevokeTarget] = "gone"]
      BY <2>5 DEF Revoked
    <3>2. \A s \in Sessions : state'[s] = IF s = RevokeTarget THEN "gone" ELSE state[s]
      BY <1>0, <3>1
    <3>3. FreshConns' BY <1>1, <2>2, <3>2 DEF FreshConns
    <3>4. UNCHANGED <<controlKeys, taken>> BY <2>5 DEF AdmitRevoke, queueVars
    <3>5. ASSUME NEW key \in Keys, HeldBy(key)' PROVE Covered(key)'
      <4>1. key[1] # RevokeTarget BY <2>5, <3>1, <3>5, RevokeClears
      <4>2. state'[key[1]] = state[key[1]] BY <1>2, <3>2, <4>1
      <4>3. Covered(key) BY <1>3, <3>5
      <4>4. QED BY <2>2, <3>4, <4>2, <4>3 DEF Covered, Attached, SignalOnItsWay
    <3>6. QED BY <2>1, <3>3, <3>5 DEF SignalInv
  <2>6. QED BY <2>2, <2>3, <2>4, <2>5
<1>6. CASE RenderDone /\ UNCHANGED serverVars
  <2>1. UNCHANGED <<state, gen, conn, taken, rt, controlKeys>>
    BY <1>6 DEF RenderDone, sessionVars, queueVars, serverVars
  <2>2. QED BY <1>1, <1>4, <2>1 DEF SignalInv
<1>7. ASSUME NEW s \in Sessions, Create(s) PROVE SignalInv'
  <2>1. /\ state[s] = "none" /\ state' = [state EXCEPT ![s] = "attached"]
        /\ gen' = [gen EXCEPT ![s] = 1] /\ SetConn(s, 1, "open")
        /\ UNCHANGED <<taken, rt, controlKeys>>
    BY <1>7 DEF Create, CreateSession, portVars, queueVars
  <2>2. 1 \in 1..MaxGen /\ "open" \in ConnStates BY <1>0 DEF ConnStates
  <2>3. \A t \in Sessions, h \in 1..MaxGen :
          conn'[t][h] = IF t = s /\ h = 1 THEN "open" ELSE conn[t][h]
    <3>1. PICK g \in 1..MaxGen : g = 1 BY <2>2
    <3>2. SetConn(s, g, "open") BY <2>1, <3>1
    <3>3. \A t \in Sessions, h \in 1..MaxGen :
            conn'[t][h] = IF t = s /\ h = g THEN "open" ELSE conn[t][h]
      BY <1>0, <2>2, <3>2, ConnSet
    <3>4. QED BY <3>1, <3>3
  <2>4. gen[s] = 0 /\ conn[s][1] = "none" BY <1>1, <2>1, <2>2
  <2>5. FreshConns'
    <3>1. \A t \in Sessions : /\ state'[t] = IF t = s THEN "attached" ELSE state[t]
                            /\ gen'[t] = IF t = s THEN 1 ELSE gen[t]
      BY <1>0, <2>1
    <3>2. ASSUME NEW t \in Sessions
          PROVE  /\ state'[t] = "none" => gen'[t] = 0
                 /\ \A g \in 1..MaxGen : g > gen'[t] => conn'[t][g] = "none"
      <4>1. CASE t = s
        <5>1. state'[t] = "attached" /\ gen'[t] = 1 BY <3>1, <4>1
        <5>2. ASSUME NEW g \in 1..MaxGen, g > 1 PROVE conn'[t][g] = "none"
          <6>1. g # 1 /\ g > gen[s] BY <2>4, <5>2
          <6>2. conn'[s][g] = conn[s][g] BY <2>3, <6>1
          <6>3. conn[s][g] = "none" BY <1>1, <6>1
          <6>4. QED BY <4>1, <6>2, <6>3
        <5>3. QED BY <5>1, <5>2
      <4>2. CASE t # s
        <5>1. state'[t] = state[t] /\ gen'[t] = gen[t] BY <3>1, <4>2
        <5>2. \A g \in 1..MaxGen : conn'[t][g] = conn[t][g] BY <2>3, <4>2
        <5>3. QED BY <1>1, <5>1, <5>2
      <4>3. QED BY <4>1, <4>2
    <3>3. QED BY <3>2 DEF FreshConns
  <2>6. ASSUME NEW key \in Keys, HeldBy(key)' PROVE Covered(key)'
    <3>1. PICK t \in Sessions, h \in 1..MaxGen : t = key[1] /\ h = key[2] BY <1>2
    <3>2. Covered(key) BY <1>3, <2>6
    <3>3. CASE Attached(t, h) BY <1>0, <2>1, <3>1, <3>3 DEF Attached, Covered
    <3>4. CASE key \in controlKeys \cup taken BY <2>1, <3>4 DEF Covered, SignalOnItsWay
    <3>5. CASE conn[t][h] = "lost"
      <4>1. conn'[t][h] = "lost" BY <2>3, <2>4, <3>5
      <4>2. QED BY <3>1, <4>1 DEF Covered, SignalOnItsWay
    <3>6. CASE h < MaxGen /\ conn[t][h + 1] = "resumed"
      <4>1. h + 1 \in 1..MaxGen BY <1>0, <3>6
      <4>2. conn'[t][h + 1] = "resumed" BY <2>3, <2>4, <3>6, <4>1
      <4>3. QED BY <3>1, <3>6, <4>2 DEF Covered, SignalOnItsWay
    <3>7. QED BY <3>1, <3>2, <3>3, <3>4, <3>5, <3>6 DEF Covered, SignalOnItsWay
  <2>7. QED BY <1>1, <2>1, <2>5, <2>6 DEF SignalInv
<1>8. ASSUME NEW s \in Sessions, Resume(s) PROVE SignalInv'
  <2>1. PICK g : g = gen[s] + 1 OBVIOUS
  <2>2. /\ InTable(s) /\ gen[s] < MaxGen /\ state' = [state EXCEPT ![s] = "attached"]
        /\ gen' = [gen EXCEPT ![s] = g] /\ SetConn(s, g, "resumed")
        /\ UNCHANGED <<taken, rt, controlKeys>>
    BY <1>8, <2>1 DEF Resume, AttachSession, portVars, queueVars
  <2>3. gen[s] \in 1..MaxGen /\ g \in 1..MaxGen /\ g > 1 /\ "resumed" \in ConnStates
    BY <1>0, <2>1, <2>2 DEF ConnStates, InTable
  <2>4. \A t \in Sessions, h \in 1..MaxGen :
          conn'[t][h] = IF t = s /\ h = g THEN "resumed" ELSE conn[t][h]
    BY <1>0, <2>2, <2>3, ConnSet
  <2>5. conn[s][g] = "none" BY <1>1, <2>1, <2>3
  <2>6. FreshConns' BY <1>0, <1>1, <2>1, <2>2, <2>3, <2>4 DEF FreshConns
  <2>7. ASSUME NEW key \in Keys, HeldBy(key)' PROVE Covered(key)'
    <3>1. PICK t \in Sessions, h \in 1..MaxGen : t = key[1] /\ h = key[2] BY <1>2
    <3>2. Covered(key) BY <1>3, <2>7
    <3>3. CASE Attached(t, h) /\ t # s BY <1>0, <2>2, <3>1, <3>3 DEF Attached, Covered
    <3>4. CASE Attached(t, h) /\ t = s
      <4>1. h = gen[s] /\ h < MaxGen /\ h + 1 = g BY <2>1, <2>2, <3>4 DEF Attached
      <4>2. conn'[t][h + 1] = "resumed" BY <2>3, <2>4, <3>4, <4>1
      <4>3. QED BY <3>1, <4>1, <4>2 DEF Covered, SignalOnItsWay
    <3>5. CASE key \in controlKeys \cup taken BY <2>2, <3>5 DEF Covered, SignalOnItsWay
    <3>6. CASE conn[t][h] = "lost"
      <4>1. conn'[t][h] = "lost" BY <2>4, <2>5, <3>6
      <4>2. QED BY <3>1, <4>1 DEF Covered, SignalOnItsWay
    <3>7. CASE h < MaxGen /\ conn[t][h + 1] = "resumed"
      <4>1. h + 1 \in 1..MaxGen BY <1>0, <3>7
      <4>2. conn'[t][h + 1] = "resumed" BY <2>4, <3>7, <4>1
      <4>3. QED BY <3>1, <3>7, <4>2 DEF Covered, SignalOnItsWay
    <3>8. QED BY <3>1, <3>2, <3>3, <3>4, <3>5, <3>6, <3>7 DEF Covered, SignalOnItsWay
  <2>8. QED BY <1>1, <2>2, <2>6, <2>7 DEF SignalInv
<1>9. ASSUME NEW s \in Sessions, ResumeExpired(s) PROVE SignalInv'
  <2>1. /\ state[s] = "detached" /\ state' = [state EXCEPT ![s] = "gone"]
        /\ UNCHANGED <<gen, conn, taken, rt, controlKeys>>
    BY <1>9 DEF ResumeExpired, ExpireSession, RemoveSession, portVars, queueVars, serverVars
  <2>2. FreshConns' BY <1>0, <1>1, <2>1 DEF FreshConns
  <2>3. ASSUME NEW key \in Keys, HeldBy(key)' PROVE Covered(key)'
    <3>1. Covered(key) /\ key[1] \in Sessions BY <1>2, <1>3, <2>3
    <3>2. Attached(key[1], key[2]) => Attached(key[1], key[2])'
      BY <1>0, <2>1, <3>1 DEF Attached
    <3>3. QED BY <2>1, <3>1, <3>2 DEF Covered, SignalOnItsWay
  <2>4. QED BY <1>1, <2>1, <2>2, <2>3 DEF SignalInv
<1>10. ASSUME NEW s \in Sessions, NEW g \in 1..MaxGen, Close(s, g) PROVE SignalInv'
  <2>1. PICK where \in {"lost", "closed"} : where = IF Attached(s, g) THEN "lost" ELSE "closed"
    OBVIOUS
  <2>2. /\ conn[s][g] = "open" /\ SetConn(s, g, where)
        /\ state' = [state EXCEPT ![s] = IF Attached(s, g) THEN "detached" ELSE state[s]]
        /\ UNCHANGED <<gen, taken, rt, controlKeys>>
    BY <1>10, <2>1 DEF Close, DetachGeneration, portVars, queueVars
  <2>3. where \in ConnStates /\ where # "resumed" BY DEF ConnStates
  <2>4. \A t \in Sessions, h \in 1..MaxGen :
          conn'[t][h] = IF t = s /\ h = g THEN where ELSE conn[t][h]
    BY <1>0, <2>2, <2>3, ConnSet
  <2>5. \A t \in Sessions :
          state'[t] = IF t = s /\ Attached(s, g) THEN "detached" ELSE state[t]
    BY <1>0, <2>2
  <2>6. FreshConns' BY <1>0, <1>1, <2>2, <2>4, <2>5 DEF FreshConns, Attached
  <2>7. ASSUME NEW key \in Keys, HeldBy(key)' PROVE Covered(key)'
    <3>1. PICK t \in Sessions, h \in 1..MaxGen : t = key[1] /\ h = key[2] BY <1>2
    <3>2. Covered(key) BY <1>3, <2>7
    <3>3. CASE Attached(t, h) /\ Attached(s, g) /\ t = s
      <4>1. h = g BY <3>3 DEF Attached
      <4>2. conn'[t][h] = "lost" BY <2>1, <2>4, <3>3, <4>1
      <4>3. QED BY <3>1, <4>2 DEF Covered, SignalOnItsWay
    <3>4. CASE Attached(t, h) /\ ~(Attached(s, g) /\ t = s)
      <4>1. state'[t] = state[t] BY <2>5, <3>4
      <4>2. QED BY <2>2, <3>1, <3>4, <4>1 DEF Attached, Covered
    <3>5. CASE key \in controlKeys \cup taken BY <2>2, <3>5 DEF Covered, SignalOnItsWay
    <3>6. CASE conn[t][h] = "lost"
      <4>1. conn'[t][h] = "lost" BY <2>2, <2>4, <3>6
      <4>2. QED BY <3>1, <4>1 DEF Covered, SignalOnItsWay
    <3>7. CASE h < MaxGen /\ conn[t][h + 1] = "resumed"
      <4>1. h + 1 \in 1..MaxGen BY <1>0, <3>7
      <4>2. conn'[t][h + 1] = "resumed" BY <2>2, <2>4, <3>7, <4>1
      <4>3. QED BY <3>1, <3>7, <4>2 DEF Covered, SignalOnItsWay
    <3>8. QED BY <3>1, <3>2, <3>3, <3>4, <3>5, <3>6, <3>7 DEF Covered, SignalOnItsWay
  <2>8. QED BY <1>1, <2>2, <2>6, <2>7 DEF SignalInv
<1>11. ASSUME NEW s \in Sessions, NEW g \in 1..MaxGen, Signal(s, g) PROVE SignalInv'
  <2>1. UNCHANGED <<state, gen, taken, rt>> BY <1>11 DEF Signal, PortStep, sessionVars
  <2>2. PICK k, where : /\ \/ conn[s][g] = "lost" /\ k = <<s, g>>
                           \/ conn[s][g] = "resumed" /\ k = <<s, g - 1>>
                        /\ where \in {"open", "closed"} /\ SetConn(s, g, where)
                        /\ controlKeys' = controlKeys \cup {k}
    <3>1. CASE conn[s][g] = "lost" /\ SignalControl(<<s, g>>) /\ SetConn(s, g, "closed")
      BY <3>1 DEF SignalControl
    <3>2. CASE conn[s][g] = "resumed" /\ SignalControl(<<s, g - 1>>) /\ SetConn(s, g, "open")
      BY <3>2 DEF SignalControl
    <3>3. QED BY <1>11, <3>1, <3>2 DEF Signal
  <2>3. where \in ConnStates /\ where # "resumed" BY <2>2 DEF ConnStates
  <2>4. \A t \in Sessions, h \in 1..MaxGen :
          conn'[t][h] = IF t = s /\ h = g THEN where ELSE conn[t][h]
    BY <1>0, <2>2, <2>3, ConnSet
  <2>5. conn[s][g] # "none" BY <2>2
  <2>6. FreshConns'
    <3>1. ASSUME NEW t \in Sessions, NEW h \in 1..MaxGen, h > gen[t] PROVE conn'[t][h] = "none"
      <4>1. conn[t][h] = "none" BY <1>1, <3>1
      <4>2. QED BY <2>4, <2>5, <4>1
    <3>2. QED BY <1>1, <2>1, <3>1 DEF FreshConns
  <2>7. ASSUME NEW key \in Keys, HeldBy(key)' PROVE Covered(key)'
    <3>1. PICK t \in Sessions, h \in 1..MaxGen : t = key[1] /\ h = key[2] /\ key = <<t, h>>
      BY DEF Keys
    <3>2. Covered(key) BY <1>3, <2>7
    <3>3. CASE Attached(t, h) BY <2>1, <3>1, <3>3 DEF Attached, Covered
    <3>4. CASE key \in controlKeys \cup taken BY <2>1, <2>2, <3>4 DEF Covered, SignalOnItsWay
    <3>5. CASE conn[t][h] = "lost"
      <4>1. CASE t = s /\ h = g
        <5>1. key = k BY <2>2, <3>1, <3>5, <4>1
        <5>2. QED BY <2>2, <5>1 DEF Covered, SignalOnItsWay
      <4>2. CASE ~(t = s /\ h = g)
        <5>1. conn'[t][h] = "lost" BY <2>4, <3>5, <4>2
        <5>2. QED BY <3>1, <5>1 DEF Covered, SignalOnItsWay
      <4>3. QED BY <4>1, <4>2
    <3>6. CASE h < MaxGen /\ conn[t][h + 1] = "resumed"
      <4>0. h + 1 \in 1..MaxGen BY <1>0, <3>6
      <4>1. CASE t = s /\ h + 1 = g
        <5>1. k = <<s, g - 1>> /\ g - 1 = h BY <2>2, <3>6, <4>1
        <5>2. key = k BY <3>1, <4>1, <5>1
        <5>3. QED BY <2>2, <5>2 DEF Covered, SignalOnItsWay
      <4>2. CASE ~(t = s /\ h + 1 = g)
        <5>1. conn'[t][h + 1] = "resumed" BY <2>4, <3>6, <4>0, <4>2
        <5>2. QED BY <3>1, <3>6, <5>1 DEF Covered, SignalOnItsWay
      <4>3. QED BY <4>1, <4>2
    <3>7. QED BY <3>1, <3>2, <3>3, <3>4, <3>5, <3>6 DEF Covered, SignalOnItsWay
  <2>8. QED BY <1>1, <2>1, <2>6, <2>7 DEF SignalInv
<1>12. ASSUME NEW s \in Sessions, NEW g \in 1..MaxGen,
              \/ LeaseExpired(s, g)
              \/ \E id \in IDs : \E m \in workload.sends[id] : Dispatch(s, g, id, m)
       PROVE  SignalInv'
  <2>1. UNCHANGED <<state, gen, conn, taken, rt>> /\ controlKeys \subseteq controlKeys'
    BY <1>12 DEF LeaseExpired, Dispatch, SignalControl, SubmitCommand, PortStep, sessionVars, serverVars
  <2>2. QED BY <1>1, <1>4, <2>1 DEF SignalInv
<1>13. CASE UNCHANGED vars
  <2>1. UNCHANGED <<state, gen, conn, taken, rt, controlKeys>>
    BY <1>13 DEF vars, sessionVars, portVars, queueVars, serverVars
  <2>2. QED BY <1>1, <1>4, <2>1 DEF SignalInv
<1>14. QED BY <1>5, <1>6, <1>7, <1>8, <1>9, <1>10, <1>11, <1>12, <1>13 DEF Next

(* fenceGeneration misses nothing: whatever a lost, replaced or removed    *)
(* generation left in the runtime, work or the ownership of time, is       *)
(* there only while a signal for that generation is still on its way.      *)
THEOREM LostWorkIsSignalled == Spec => []LostIsSignalled
<1>1. ASSUME Init PROVE WorkInv /\ SignalInv
  <2>1. WorkInv BY <1>1, WorkInit
  <2>2. ASSUME NEW c \in Live PROVE FALSE
    <3>1. c \in Commands BY <2>1, WorkType DEF WorkInv
    <3>2. c.id <= ledger[c.s].highWater BY <2>1 DEF WorkInv, Known
    <3>3. c.s \in Sessions /\ c.id \in IDs BY <3>1 DEF Commands
    <3>4. ledger[c.s].highWater = 0 BY <1>1, <3>3 DEF Init, SessionsInit, NewLedger
    <3>5. QED BY <3>2, <3>3, <3>4 DEF IDs
  <2>3. owner = NoOwner /\ taken = {} BY <1>1 DEF Init, PortInit
  <2>4. FreshConns BY <1>1 DEF Init, SessionsInit, FreshConns
  <2>5. \A key : ~HeldBy(key) BY <2>2, <2>3 DEF HeldBy
  <2>6. QED BY <2>1, <2>3, <2>4, <2>5 DEF SignalInv
<1>2. ASSUME WorkInv /\ SignalInv, [Next]_vars PROVE WorkInv' /\ SignalInv'
  BY <1>2, WorkNext, SignalNext
<1>3. ASSUME WorkInv, SignalInv PROVE LostIsSignalled
  <2>1. ASSUME NEW key \in {Key(c) : c \in TokenWork \cup CommandWork} \cup ({owner} \ {NoOwner})
        PROVE  Attached(key[1], key[2]) \/ SignalOnItsWay(key)
    <3>1. HeldBy(key) BY <2>1, LiveIsWork DEF HeldBy
    <3>2. key \in Keys
      <4>1. \A c \in Live : c \in Commands BY <1>3, WorkType DEF WorkInv
      <4>2. \A c \in Live : Key(c) \in Keys BY <4>1 DEF Commands, Key, Keys
      <4>3. owner # NoOwner => owner \in Keys BY <1>3 DEF WorkInv, Types, TimeTypes
      <4>4. QED BY <3>1, <4>2, <4>3 DEF HeldBy
    <3>3. QED BY <1>3, <3>1, <3>2 DEF SignalInv, Covered
  <2>2. QED BY <2>1 DEF LostIsSignalled
<1>4. QED BY <1>1, <1>2, <1>3, PTL DEF Spec

-----------------------------------------------------------------------------
(* Credits.  A render credit is with a frame that has reserved it and is   *)
(* not acknowledged, or free, or was dropped by an advance that failed;    *)
(* none is made.                                                           *)

Holding(f) == f.reserved /\ f.stage \in {"open", "sent"}
HeldOf(fs) == {k \in DOMAIN fs : Holding(fs[k])}

(* Only a frame with a reservation reaches the renderer.                   *)
CreditOK(fs, free, ready) ==
  /\ free \in Nat /\ free + Cardinality(HeldOf(fs)) <= FrameCredits
  /\ \A k \in DOMAIN fs : /\ fs[k].stage = "sent" => Holding(fs[k])
                          /\ fs[k].stage = "open" /\ ready => Holding(fs[k])

CreditInv == CreditOK(frames, credits, surface)

LEMMA HeldFinite ==
  ASSUME NEW fs \in Seq(FrameRecords)
  PROVE  IsFiniteSet(HeldOf(fs)) /\ Cardinality(HeldOf(fs)) \in Nat
<1>1. Len(fs) \in Nat /\ DOMAIN fs = 1..Len(fs) BY LenProperties
<1>2. IsFiniteSet(1..Len(fs)) BY <1>1, FS_Interval
<1>3. HeldOf(fs) \in SUBSET (1..Len(fs)) BY <1>1 DEF HeldOf
<1>4. IsFiniteSet(HeldOf(fs)) BY <1>2, <1>3, FS_Subset
<1>5. QED BY <1>4, FS_CardinalityType

LEMMA SameCredit ==
  ASSUME NEW fs, NEW gs, NEW free, NEW ready \in BOOLEAN, NEW ready2 \in BOOLEAN,
         CreditOK(fs, free, ready), DOMAIN gs = DOMAIN fs,
         \A k \in DOMAIN fs : gs[k].stage = fs[k].stage /\ gs[k].reserved = fs[k].reserved,
         ready2 => ready
  PROVE  CreditOK(gs, free, ready2)
<1>1. \A k \in DOMAIN fs : Holding(gs[k]) <=> Holding(fs[k]) BY DEF Holding
<1>2. HeldOf(gs) = HeldOf(fs) BY <1>1 DEF HeldOf
<1>3. QED BY <1>1, <1>2 DEF CreditOK

LEMMA LessCredit ==
  ASSUME NEW fs \in Seq(FrameRecords), NEW free, NEW ready \in BOOLEAN, CreditOK(fs, free, ready), free > 0
  PROVE  CreditOK(fs, free - 1, ready)
<1>1. Cardinality(HeldOf(fs)) \in Nat /\ FrameCredits \in Nat BY HeldFinite, PortAssumption
<1>2. QED BY <1>1 DEF CreditOK

LEMMA AppendCredit ==
  ASSUME NEW fs \in Seq(FrameRecords), NEW free, NEW ready \in BOOLEAN, CreditOK(fs, free, ready),
         NEW token \in SUBSET Commands, NEW reserved \in BOOLEAN, reserved => free > 0,
         ready => reserved
  PROVE  CreditOK(Append(fs, NewFrame(token, reserved)), IF reserved THEN free - 1 ELSE free, ready)
<1>1. PICK f : f = NewFrame(token, reserved) OBVIOUS
<1>2. f \in FrameRecords /\ f.stage = "open" /\ f.reserved = reserved
  BY <1>1 DEF NewFrame, FrameRecords
<1>3. PICK gs, n : gs = Append(fs, f) /\ n = Len(fs) OBVIOUS
<1>4. /\ n \in Nat /\ DOMAIN fs = 1..n /\ DOMAIN gs = 1..(n + 1)
      /\ gs[n + 1] = f /\ \A k \in 1..n : gs[k] = fs[k]
  BY <1>2, <1>3, AppendProperties
<1>5. Cardinality(HeldOf(fs)) \in Nat /\ IsFiniteSet(HeldOf(fs)) /\ FrameCredits \in Nat
  BY HeldFinite, PortAssumption
<1>6. n + 1 \notin HeldOf(fs) BY <1>4 DEF HeldOf
<1>7. CASE reserved
  <2>0. Holding(f) BY <1>2, <1>7 DEF Holding
  <2>1. ASSUME NEW k PROVE k \in HeldOf(gs) <=> k \in HeldOf(fs) \cup {n + 1}
    BY <1>4, <2>0 DEF HeldOf
  <2>2. HeldOf(gs) = HeldOf(fs) \cup {n + 1} BY <2>1
  <2>3. Cardinality(HeldOf(gs)) = Cardinality(HeldOf(fs)) + 1 BY <1>5, <1>6, <2>2, FS_AddElement
  <2>4. free - 1 \in Nat /\ (free - 1) + Cardinality(HeldOf(gs)) <= FrameCredits
    BY <1>5, <1>7, <2>3 DEF CreditOK
  <2>5. \A k \in DOMAIN gs : /\ gs[k].stage = "sent" => Holding(gs[k])
                             /\ gs[k].stage = "open" /\ ready => Holding(gs[k])
    BY <1>4, <2>0 DEF CreditOK
  <2>6. QED BY <1>1, <1>3, <1>7, <2>4, <2>5 DEF CreditOK
<1>8. CASE ~reserved
  <2>0. ~Holding(f) /\ ~ready BY <1>2, <1>8 DEF Holding
  <2>1. ASSUME NEW k PROVE k \in HeldOf(gs) <=> k \in HeldOf(fs)
    BY <1>4, <2>0 DEF HeldOf
  <2>2. HeldOf(gs) = HeldOf(fs) BY <2>1
  <2>3. \A k \in DOMAIN gs : /\ gs[k].stage = "sent" => Holding(gs[k])
                             /\ gs[k].stage = "open" /\ ready => Holding(gs[k])
    BY <1>2, <1>4, <2>0 DEF CreditOK
  <2>4. QED BY <1>1, <1>3, <1>8, <2>2, <2>3 DEF CreditOK
<1>9. QED BY <1>7, <1>8

(* A frame that goes, or changes its stage, gives back its credit at most. *)
LEMMA FreedCredit ==
  ASSUME NEW fs \in Seq(FrameRecords), NEW at \in DOMAIN fs, NEW free \in Nat, NEW more,
         free + Cardinality(HeldOf(fs)) <= FrameCredits,
         NEW held, IsFiniteSet(held), Cardinality(held) <= Cardinality(HeldOf(fs) \ {at}),
         more = free \/ (more = free + 1 /\ Holding(fs[at]))
  PROVE  more \in Nat /\ more + Cardinality(held) <= FrameCredits
<1>1. IsFiniteSet(HeldOf(fs)) /\ Cardinality(HeldOf(fs)) \in Nat /\ FrameCredits \in Nat
  BY HeldFinite, PortAssumption
<1>2. Cardinality(HeldOf(fs) \ {at})
        = IF at \in HeldOf(fs) THEN Cardinality(HeldOf(fs)) - 1 ELSE Cardinality(HeldOf(fs))
  BY <1>1, FS_RemoveElement
<1>3. Holding(fs[at]) => at \in HeldOf(fs) BY DEF HeldOf
<1>4. Cardinality(held) \in Nat BY FS_CardinalityType
<1>5. QED BY <1>1, <1>2, <1>3, <1>4

LEMMA RemoveCredit ==
  ASSUME NEW fs \in Seq(FrameRecords), NEW free, NEW ready \in BOOLEAN, CreditOK(fs, free, ready),
         NEW at \in DOMAIN fs, NEW more,
         more = free \/ (more = free + 1 /\ Holding(fs[at]))
  PROVE  CreditOK(RemoveAt(fs, at), more, ready)
<1>1. PICK gs, n : gs = RemoveAt(fs, at) /\ n = Len(fs) OBVIOUS
<1>2. n \in Nat /\ DOMAIN fs = 1..n /\ at \in 1..n BY <1>1, LenProperties
<1>3. /\ gs \in Seq(FrameRecords) /\ DOMAIN gs = 1..(n - 1)
      /\ \A k \in 1..(n - 1) : gs[k] = IF k < at THEN fs[k] ELSE fs[k + 1]
  BY <1>1, RemovedSeq
<1>4. PICK f : f = [k \in HeldOf(gs) |-> IF k < at THEN k ELSE k + 1] OBVIOUS
<1>5. ASSUME NEW k \in HeldOf(gs)
      PROVE  f[k] \in HeldOf(fs) \ {at} /\ k \in Nat /\ f[k] = IF k < at THEN k ELSE k + 1
  <2>1. k \in 1..(n - 1) /\ Holding(gs[k]) BY <1>3 DEF HeldOf
  <2>2. CASE k < at
    <3>1. f[k] = k /\ k \in 1..n /\ k # at /\ Holding(fs[k]) BY <1>2, <1>3, <1>4, <2>1, <2>2
    <3>2. QED BY <1>2, <2>2, <3>1 DEF HeldOf
  <2>3. CASE ~(k < at)
    <3>1. f[k] = k + 1 /\ k + 1 \in 1..n /\ k + 1 # at /\ Holding(fs[k + 1])
      BY <1>2, <1>3, <1>4, <2>1, <2>3
    <3>2. QED BY <1>2, <2>1, <2>3, <3>1 DEF HeldOf
  <2>4. QED BY <2>2, <2>3
<1>6. f \in [HeldOf(gs) -> HeldOf(fs) \ {at}] BY <1>4, <1>5
<1>7. \A j, k \in HeldOf(gs) : f[j] = f[k] => j = k BY <1>2, <1>5
<1>8. f \in Injection(HeldOf(gs), HeldOf(fs) \ {at}) BY <1>6, <1>7 DEF Injection, IsInjective
<1>9. IsFiniteSet(HeldOf(fs) \ {at}) BY HeldFinite, FS_RemoveElement
<1>10. IsFiniteSet(HeldOf(gs)) /\ Cardinality(HeldOf(gs)) <= Cardinality(HeldOf(fs) \ {at})
  BY <1>8, <1>9, FS_Injection
<1>11. free \in Nat /\ free + Cardinality(HeldOf(fs)) <= FrameCredits BY DEF CreditOK
<1>12. more \in Nat /\ more + Cardinality(HeldOf(gs)) <= FrameCredits
  BY <1>10, <1>11, FreedCredit
<1>13. ASSUME NEW k \in DOMAIN gs PROVE \E j \in DOMAIN fs : gs[k] = fs[j]
  <2>1. k \in 1..n /\ k + 1 \in 1..n BY <1>2, <1>3
  <2>2. QED BY <1>2, <1>3, <2>1
<1>14. QED BY <1>1, <1>12, <1>13 DEF CreditOK

LEMMA ReplaceCredit ==
  ASSUME NEW fs \in Seq(FrameRecords), NEW free, NEW ready \in BOOLEAN, CreditOK(fs, free, ready),
         NEW at \in DOMAIN fs, NEW h \in FrameRecords, h.stage # "open",
         h.stage = "sent" => Holding(h),
         NEW more,
         \/ more = free /\ (Holding(h) => Holding(fs[at]))
         \/ more = free + 1 /\ Holding(fs[at]) /\ ~Holding(h)
  PROVE  CreditOK(Replaced(fs, at, h), more, ready)
<1>1. PICK gs : gs = Replaced(fs, at, h) OBVIOUS
<1>2. DOMAIN gs = DOMAIN fs /\ \A k \in DOMAIN fs : gs[k] = IF k = at THEN h ELSE fs[k]
  BY <1>1 DEF Replaced
<1>3. IsFiniteSet(HeldOf(fs)) /\ Cardinality(HeldOf(fs)) \in Nat /\ FrameCredits \in Nat
  BY HeldFinite, PortAssumption
<1>4. free \in Nat /\ free + Cardinality(HeldOf(fs)) <= FrameCredits BY DEF CreditOK
<1>5. \A k \in DOMAIN gs : /\ gs[k].stage = "sent" => Holding(gs[k])
                           /\ gs[k].stage = "open" /\ ready => Holding(gs[k])
  BY <1>2 DEF CreditOK
<1>6. CASE ~Holding(h)
  <2>1. ASSUME NEW k PROVE k \in HeldOf(gs) <=> k \in HeldOf(fs) \ {at} BY <1>2, <1>6 DEF HeldOf
  <2>2. HeldOf(gs) = HeldOf(fs) \ {at} BY <2>1
  <2>3. IsFiniteSet(HeldOf(gs)) /\ Cardinality(HeldOf(gs)) <= Cardinality(HeldOf(fs) \ {at})
    <3>0. IsFiniteSet(HeldOf(fs) \ {at}) BY <1>3, FS_RemoveElement
    <3>1. IsFiniteSet(HeldOf(gs)) BY <2>2, <3>0
    <3>2. Cardinality(HeldOf(gs)) \in Nat BY <3>1, FS_CardinalityType
    <3>3. QED BY <2>2, <3>1, <3>2
  <2>4. more \in Nat /\ more + Cardinality(HeldOf(gs)) <= FrameCredits
    BY <1>4, <2>3, FreedCredit
  <2>5. QED BY <1>1, <1>5, <2>4 DEF CreditOK
<1>7. CASE Holding(h)
  <2>1. more = free /\ Holding(fs[at]) BY <1>7
  <2>2. ASSUME NEW k PROVE k \in HeldOf(gs) <=> k \in HeldOf(fs) BY <1>2, <1>7, <2>1 DEF HeldOf
  <2>3. HeldOf(gs) = HeldOf(fs) BY <2>2
  <2>4. QED BY <1>1, <1>4, <1>5, <2>1, <2>3 DEF CreditOK
<1>8. QED BY <1>6, <1>7

(* The frame that was built is submitted: its credit goes along, or back.  *)
LEMMA SubmitCredit ==
  ASSUME FramesOK(frames), Building(frames), CreditInv, surface \in BOOLEAN,
         NEW f \in FrameRecords, f.stage = frames[Len(frames)].stage,
         f.reserved = frames[Len(frames)].reserved,
         Submit(f), surface' = surface
  PROVE  CreditInv'
<1>1. PICK n : n = Len(frames) OBVIOUS
<1>2. frames \in Seq(FrameRecords) /\ frames # <<>> /\ frames[n].stage = "open"
  BY <1>1 DEF FramesOK, Building
<1>3. n \in DOMAIN frames BY <1>1, <1>2, FrontSeq
<1>4. CreditOK(frames, credits, surface) BY DEF CreditInv
<1>5. Holding(f) <=> Holding(frames[n]) BY <1>1 DEF Holding
<1>6. Holding(f) <=> f.reserved BY <1>1, <1>2 DEF Holding
<1>7. SUFFICES CreditOK(frames', credits', surface) BY DEF CreditInv
<1>8. CASE surface
  <2>1. PICK h : h = [f EXCEPT !.stage = "sent"] OBVIOUS
  <2>2. frames' = Front(frames) \o <<h>> /\ credits' = credits BY <1>8, <2>1 DEF Submit, Submitted
  <2>3. Holding(frames[n]) BY <1>2, <1>3, <1>4, <1>8 DEF CreditOK
  <2>4. h \in FrameRecords /\ h.stage = "sent" /\ h.reserved = f.reserved BY <2>1 DEF FrameRecords
  <2>5. Holding(h) /\ h.stage # "open"
    <3>1. f.reserved BY <1>5, <1>6, <2>3
    <3>2. QED BY <2>4, <3>1 DEF Holding
  <2>6. frames' = Replaced(frames, n, h) BY <1>1, <1>2, <2>2, <2>4, FrontSeq
  <2>7. QED BY <1>2, <1>3, <1>4, <2>2, <2>3, <2>4, <2>5, <2>6, ReplaceCredit
<1>9. CASE ~surface
  <2>1. credits' = IF f.reserved THEN credits + 1 ELSE credits BY <1>9 DEF Submit
  <2>2. CASE f.token \cup f.commands # {}
    <3>1. PICK h : h = [f EXCEPT !.stage = "skipped"] OBVIOUS
    <3>2. frames' = Front(frames) \o <<h>> BY <1>9, <2>2, <3>1 DEF Submit, Submitted
    <3>3. h \in FrameRecords /\ h.stage = "skipped" BY <3>1 DEF FrameRecords
    <3>4. ~Holding(h) /\ h.stage # "open" /\ h.stage # "sent" BY <3>3 DEF Holding
    <3>5. frames' = Replaced(frames, n, h) BY <1>1, <1>2, <3>2, <3>3, FrontSeq
    <3>6. credits' = credits \/ (credits' = credits + 1 /\ Holding(frames[n])) BY <1>5, <1>6, <2>1
    <3>7. QED BY <1>2, <1>3, <1>4, <3>3, <3>4, <3>5, <3>6, ReplaceCredit
  <2>3. CASE f.token \cup f.commands = {}
    <3>1. frames' = Front(frames) \o <<>> BY <1>9, <2>3 DEF Submit, Submitted
    <3>2. frames' = RemoveAt(frames, n) BY <1>1, <1>2, <3>1, FrontSeq
    <3>3. credits' = credits \/ (credits' = credits + 1 /\ Holding(frames[n])) BY <1>5, <1>6, <2>1
    <3>4. QED BY <1>2, <1>3, <1>4, <3>2, <3>3, RemoveCredit
  <2>4. QED BY <2>2, <2>3
<1>10. QED BY <1>8, <1>9

(* Frames that keep their stages and reservations keep their credits.      *)
SameStages ==
  /\ DOMAIN frames' = DOMAIN frames
  /\ \A k \in DOMAIN frames : /\ frames'[k].stage = frames[k].stage
                              /\ frames'[k].reserved = frames[k].reserved

LEMMA StagesCredit ==
  ASSUME CreditInv, SameStages, credits' = credits, surface \in BOOLEAN, surface' \in BOOLEAN,
         surface' => surface
  PROVE  CreditInv'
<1>1. PICK gs : gs = frames' OBVIOUS
<1>2. /\ DOMAIN gs = DOMAIN frames
      /\ \A k \in DOMAIN frames : /\ gs[k].stage = frames[k].stage
                                  /\ gs[k].reserved = frames[k].reserved
  BY <1>1 DEF SameStages
<1>3. CreditOK(frames, credits, surface) BY DEF CreditInv
<1>4. CreditOK(gs, credits, surface') BY <1>2, <1>3, SameCredit
<1>5. QED BY <1>1, <1>4 DEF CreditInv

LEMMA TakeOutStages == ASSUME FramesOK(frames), NEW cmds, TakeOut(cmds) PROVE SameStages
<1>1. frames' = FramesWithout(frames, cmds) BY DEF TakeOut, FramesWithout, FrameWithout
<1>2. QED BY <1>1, FramesTakenOut DEF SameStages

LEMMA JobDoneStages ==
  ASSUME FlowInv, NEW p, NEW ok, JobDone(p, ok)
  PROVE  SameStages
<1>1. PICK r : r = [p EXCEPT !.jobs = IF ok THEN @ - 1 ELSE 0, !.failed = @ \/ ~ok] OBVIOUS
<1>2. frames \in Seq(FrameRecords) BY DEF FlowInv, PlacesInv, LiveOK, FramesOK
<1>3. \A k \in DOMAIN frames : frames[k] \in FrameRecords BY <1>2
<1>4. CASE frames' = frames BY <1>4 DEF SameStages
<1>5. CASE frames' = [k \in DOMAIN frames |->
                 [frames[k] EXCEPT !.commands = IF p \in @ THEN (@ \ {p}) \cup {r} ELSE @]]
  BY <1>3, <1>5 DEF SameStages, FrameRecords
<1>6. ASSUME NEW more, frames' = [frames EXCEPT ![Current].commands = @ \cup more]
      PROVE  SameStages
  BY <1>3, <1>6 DEF SameStages, FrameRecords
<1>7. QED BY <1>1, <1>4, <1>5, <1>6 DEF JobDone

(* One step after the other.                                               *)
LEMMA RenderDoneCredit == ASSUME FlowInv, CreditInv, surface \in BOOLEAN, RenderDone PROVE CreditInv'
<1>1. PICK k : k = Min(Staged("sent")) OBVIOUS
<1>2. k \in DOMAIN frames /\ frames[k].stage = "sent" BY <1>1, StagedMin DEF FlowInv, RenderDone
<1>3. /\ frames' = IF frames[k].token \cup frames[k].commands = {} THEN RemoveAt(frames, k)
                   ELSE [frames EXCEPT ![k].stage = "acked"]
      /\ credits' = credits + 1 /\ surface' = surface
  BY <1>1 DEF RenderDone
<1>4. frames \in Seq(FrameRecords) /\ CreditOK(frames, credits, surface)
  BY DEF FlowInv, PlacesInv, LiveOK, FramesOK, CreditInv
<1>5. Holding(frames[k]) BY <1>2, <1>4 DEF CreditOK
<1>6. SUFFICES CreditOK(frames', credits', surface) BY <1>3 DEF CreditInv
<1>7. CASE frames[k].token \cup frames[k].commands = {}
  <2>1. frames' = RemoveAt(frames, k) BY <1>3, <1>7
  <2>2. QED BY <1>2, <1>3, <1>4, <1>5, <2>1, RemoveCredit
<1>8. CASE frames[k].token \cup frames[k].commands # {}
  <2>1. PICK h : h = [frames[k] EXCEPT !.stage = "acked"] OBVIOUS
  <2>2. frames' = Replaced(frames, k, h) BY <1>3, <1>8, <2>1 DEF Replaced
  <2>3. frames[k] \in FrameRecords BY <1>2, <1>4
  <2>4. h \in FrameRecords /\ h.stage = "acked" BY <2>1, <2>3 DEF FrameRecords
  <2>5. ~Holding(h) /\ h.stage # "open" /\ h.stage # "sent" BY <2>4 DEF Holding
  <2>6. QED BY <1>2, <1>3, <1>4, <1>5, <2>2, <2>4, <2>5, ReplaceCredit
<1>9. QED BY <1>7, <1>8

LEMMA CompletionCredit ==
  ASSUME FlowInv, CreditInv, surface \in BOOLEAN, NEW ready, RenderCompletion(ready)
  PROVE  CreditInv'
<1>1. PICK k : k = Min(Staged("acked")) OBVIOUS
<1>2. k \in DOMAIN frames BY <1>1, StagedMin DEF FlowInv, RenderCompletion
<1>3. frames' = RemoveAt(frames, k) /\ credits' = credits /\ surface' = surface
  BY <1>1 DEF RenderCompletion
<1>4. frames \in Seq(FrameRecords) /\ CreditOK(frames, credits, surface)
  BY DEF FlowInv, PlacesInv, LiveOK, FramesOK, CreditInv
<1>5. CreditOK(frames', credits', surface) BY <1>2, <1>3, <1>4, RemoveCredit
<1>6. QED BY <1>3, <1>5 DEF CreditInv

LEMMA TokenFrameCredit ==
  ASSUME FlowInv, CreditInv, surface \in BOOLEAN, StartTokenFrame
  PROVE  CreditInv'
<1>1. PICK c : c = Head(frameTokens) OBVIOUS
<1>2. /\ frames' = frames \/ frames' = Append(frames, NewFrame({c}, TRUE))
      /\ credits' = credits - 1 /\ surface' = surface /\ credits > 0 /\ frameTokens # <<>>
  BY <1>1 DEF StartTokenFrame
<1>3. c \in Commands BY <1>1, <1>2, TokenLeaves
<1>4. frames \in Seq(FrameRecords) /\ CreditOK(frames, credits, surface)
  BY DEF FlowInv, PlacesInv, LiveOK, FramesOK, CreditInv
<1>5. SUFFICES CreditOK(frames', credits - 1, surface) BY <1>2 DEF CreditInv
<1>6. CASE frames' = frames BY <1>2, <1>4, <1>6, LessCredit
<1>7. CASE frames' = Append(frames, NewFrame({c}, TRUE))
  <2>1. {c} \in SUBSET Commands BY <1>3
  <2>2. PICK reserved \in BOOLEAN : reserved = TRUE OBVIOUS
  <2>3. CreditOK(Append(frames, NewFrame({c}, reserved)),
                 IF reserved THEN credits - 1 ELSE credits, surface)
    BY <1>2, <1>4, <2>1, <2>2, AppendCredit
  <2>4. QED BY <1>7, <2>2, <2>3
<1>8. QED BY <1>2, <1>6, <1>7

LEMMA WallFrameCredit ==
  ASSUME FlowInv, CreditInv, surface \in BOOLEAN, StartWallFrame
  PROVE  CreditInv'
<1>1. PICK reserved \in BOOLEAN : reserved = surface OBVIOUS
<1>2. /\ frames' = Append(frames, NewFrame({}, surface)) /\ surface' = surface
      /\ credits' = (IF surface THEN credits - 1 ELSE credits) /\ (surface => credits > 0)
  BY DEF StartWallFrame
<1>3. frames \in Seq(FrameRecords) /\ CreditOK(frames, credits, surface)
  BY DEF FlowInv, PlacesInv, LiveOK, FramesOK, CreditInv
<1>4. reserved => credits > 0 BY <1>1, <1>2
<1>5. {} \in SUBSET Commands OBVIOUS
<1>6. CreditOK(Append(frames, NewFrame({}, reserved)),
               IF reserved THEN credits - 1 ELSE credits, surface)
  BY <1>1, <1>3, <1>4, <1>5, AppendCredit
<1>7. CreditOK(frames', credits', surface) BY <1>1, <1>2, <1>6
<1>8. QED BY <1>2, <1>7 DEF CreditInv

(* A new surface finds no frame under way.                                 *)
LEMMA SurfaceCredit == ASSUME FlowInv, CreditInv, SurfaceCreated PROVE CreditInv'
<1>1. rt = "park" /\ surface' = TRUE /\ frames' = frames /\ credits' = credits
  BY DEF SurfaceCreated, workVars
<1>2. FramesOK(frames) /\ ~Building(frames)
  BY <1>1 DEF FlowInv, PlacesInv, LiveOK, Control, Point, TurnPoints
<1>3. frames \in Seq(FrameRecords) /\ OpenLast(frames) BY <1>2 DEF FramesOK
<1>4. ASSUME NEW k \in DOMAIN frames, frames[k].stage = "open" PROVE FALSE
  <2>1. k = Len(frames) BY <1>3, <1>4 DEF OpenLast
  <2>2. frames # <<>> BY <1>3, <1>4, EmptySeq
  <2>3. QED BY <1>2, <1>4, <2>1, <2>2 DEF Building
<1>5. QED BY <1>1, <1>4 DEF CreditInv, CreditOK

LEMMA ActivationCredit ==
  ASSUME FlowInv, CreditInv, surface \in BOOLEAN,
         \/ FrameWithoutCommand \/ ActivateLost
         \/ \E jobs \in 0..MaxJobs, failed \in BOOLEAN : Activate(jobs, failed)
  PROVE  CreditInv'
<1>1. PICK n : n = Len(frames) OBVIOUS
<1>2. rt = "activate" /\ surface' = surface
  BY DEF FrameWithoutCommand, ActivateLost, Activate
<1>3. FramesOK(frames) /\ Building(frames)
  BY <1>2 DEF FlowInv, PlacesInv, LiveOK, Control, Point, FramePoints
<1>4. frames \in Seq(FrameRecords) /\ frames # <<>> BY <1>3 DEF FramesOK, Building
<1>5. n \in DOMAIN frames /\ frames[n] \in FrameRecords BY <1>1, <1>4, EmptySeq
<1>6. Last(frames) = frames[n] BY <1>1 DEF Last
<1>7. CASE FrameWithoutCommand \/ ActivateLost
  <2>1. Submit(frames[n]) BY <1>6, <1>7 DEF FrameWithoutCommand, ActivateLost
  <2>2. QED BY <1>1, <1>2, <1>3, <1>5, <2>1, SubmitCredit
<1>8. ASSUME NEW jobs \in 0..MaxJobs, NEW failed \in BOOLEAN, Activate(jobs, failed)
      PROVE  CreditInv'
  <2>1. PICK p, r : p = Head(activations) /\ r = [p EXCEPT !.jobs = jobs, !.failed = failed]
    OBVIOUS
  <2>2. PICK f : f = [frames[n] EXCEPT !.commands = {r}] OBVIOUS
  <2>3. Submit(f) /\ activations # <<>> BY <1>6, <1>8, <2>1, <2>2 DEF Activate, NothingToRun
  <2>4. p \in PendingCommands BY <2>1, <2>3, CommandLeaves
  <2>5. r \in PendingCommands BY <2>1, <2>4 DEF PendingCommands
  <2>6. f \in FrameRecords /\ f.stage = frames[n].stage /\ f.reserved = frames[n].reserved
    BY <1>5, <2>2, <2>5 DEF FrameRecords
  <2>7. QED BY <1>1, <1>2, <1>3, <2>3, <2>6, SubmitCredit
<1>9. QED BY <1>7, <1>8

LEMMA CreditNext == ASSUME WorkInv, CreditInv, [Next]_vars PROVE CreditInv'
<1>0. FlowInv /\ FramesOK(frames) /\ surface \in BOOLEAN /\ surface' \in BOOLEAN
  <2>1. FlowInv /\ Types /\ Types' BY WorkNext DEF WorkInv
  <2>2. QED BY <2>1 DEF FlowInv, PlacesInv, LiveOK, Types, QueueTypes
<1>1. CASE UNCHANGED <<frames, credits, surface>> BY <1>1 DEF CreditInv
<1>2. ASSUME SameStages, credits' = credits, surface' => surface PROVE CreditInv'
  BY <1>0, <1>2, StagesCredit
<1>3. CASE Fence
  <2>1. SameStages BY <1>0, <1>3, TakeOutStages DEF Fence
  <2>2. QED BY <1>2, <1>3, <2>1 DEF Fence
<1>4. ASSUME NEW c, Admit(c) PROVE CreditInv'
  <2>1. CASE AdmitCancel(c)
    <3>1. SameStages BY <1>0, <2>1, TakeOutStages DEF AdmitCancel
    <3>2. QED BY <1>2, <2>1, <3>1 DEF AdmitCancel
  <2>2. CASE AdmitRevoke(c)
    <3>1. SameStages \/ frames' = frames BY <1>0, <2>2, TakeOutStages DEF AdmitRevoke
    <3>2. QED BY <1>1, <1>2, <2>2, <3>1 DEF AdmitRevoke
  <2>3. CASE ~AdmitCancel(c) /\ ~AdmitRevoke(c)
    BY <1>1, <1>4, <2>3 DEF Admit, AdmitRefused, AdmitReplay, AdmitPending, AdmitRejected, AdmitExecute,
      AdmitRead, AdmitTimeAtOnce, AdmitTimeDeferred, workVars
  <2>4. QED BY <2>1, <2>2, <2>3
<1>5. ASSUME NEW p, NEW ok, JobDone(p, ok) PROVE CreditInv'
  <2>1. SameStages BY <1>0, <1>5, JobDoneStages
  <2>2. QED BY <1>2, <1>5, <2>1 DEF JobDone
<1>6. ASSUME NEW human, NEW lost, FrameEvents(human, lost) PROVE CreditInv'
  <2>1. SameStages
    <3>1. CASE human BY <1>0, <1>6, <3>1, TakeOutStages DEF FrameEvents, Preempt
    <3>2. CASE ~human BY <1>6, <3>2 DEF FrameEvents, SameStages
    <3>3. QED BY <3>1, <3>2
  <2>2. credits' = credits /\ (surface' => surface) BY <1>6 DEF FrameEvents
  <2>3. QED BY <1>2, <2>1, <2>2
<1>7. CASE HumanParked
  <2>1. SameStages \/ frames' = frames BY <1>0, <1>7, TakeOutStages DEF HumanParked, Preempt
  <2>2. QED BY <1>1, <1>2, <1>7, <2>1 DEF HumanParked
<1>8. CASE StartTokenFrame BY <1>0, <1>8, TokenFrameCredit
<1>9. CASE StartWallFrame BY <1>0, <1>9, WallFrameCredit
<1>10. ASSUME NEW ready \in BOOLEAN, RenderCompletion(ready) PROVE CreditInv'
  BY <1>0, <1>10, CompletionCredit
<1>11. CASE \/ FrameWithoutCommand \/ ActivateLost
            \/ \E jobs \in 0..MaxJobs, failed \in BOOLEAN : Activate(jobs, failed)
  BY <1>0, <1>11, ActivationCredit
<1>12. CASE SurfaceCreated BY <1>0, <1>12, SurfaceCredit
<1>13. CASE StartTurn \/ AfterPreempt \/ ClaimTake \/ ClaimClear \/ AdmitDone \/ NoFrame
  BY <1>1, <1>13 DEF StartTurn, AfterPreempt, ClaimTake, ClaimClear, AdmitDone, NoFrame, workVars
<1>14. ASSUME NEW x, CompleteOne(x) PROVE CreditInv' BY <1>1, <1>14 DEF CompleteOne
<1>15. CASE RuntimeStep
  BY <1>3, <1>4, <1>5, <1>6, <1>7, <1>8, <1>9, <1>10, <1>11, <1>12, <1>13, <1>14, <1>15
  DEF RuntimeStep
<1>16. CASE RenderDone BY <1>0, <1>16, RenderDoneCredit
<1>17. ASSUME UNCHANGED portVars \/ PortStep PROVE CreditInv'
  BY <1>1, <1>17 DEF PortStep, portVars, workVars
<1>18. ASSUME NEW s \in Sessions, Create(s) \/ Resume(s) \/ ResumeExpired(s) PROVE CreditInv'
  BY <1>17, <1>18 DEF Create, Resume, ResumeExpired
<1>19. ASSUME NEW s \in Sessions, NEW g \in 1..MaxGen,
              \/ Close(s, g) \/ Signal(s, g) \/ LeaseExpired(s, g)
              \/ \E id \in IDs : \E m \in workload.sends[id] : Dispatch(s, g, id, m)
       PROVE  CreditInv'
  BY <1>17, <1>19 DEF Close, Signal, LeaseExpired, Dispatch
<1>20. CASE UNCHANGED vars BY <1>17, <1>20 DEF vars
<1>21. QED BY <1>15, <1>16, <1>18, <1>19, <1>20 DEF Next

-----------------------------------------------------------------------------
(* Types.                                                                  *)

LEMMA LedgerIsOK ==
  ASSUME NEW l, Shape(l), Exact(l), LedgerTyped(l)
  PROVE  LedgerOK(l)
<1>1. l.highWater \in 0..MaxID BY PortAssumption DEF Shape, LedgerTyped
<1>2. DOMAIN l.entries \subseteq 1..l.highWater BY DEF Shape
<1>3. ASSUME NEW i \in DOMAIN l.entries
      PROVE  l.entries[i] \in [canonical : Methods, state : {"admitted", "terminal"},
                               admitted : BOOLEAN, outcome : Outcomes \cup {None},
                               payload : {0, Payload}]
  <2>1. PICK e : e = l.entries[i] OBVIOUS
  <2>2. /\ e = [canonical |-> e.canonical, state |-> e.state, admitted |-> e.admitted,
                outcome |-> e.outcome, payload |-> e.payload]
        /\ e.state \in {"admitted", "terminal"}
    BY <2>1 DEF Shape
  <2>3. /\ e.canonical \in Methods /\ e.admitted \in BOOLEAN
        /\ e.outcome \in Outcomes \cup {None} /\ e.payload \in {0, Payload}
    BY <2>1 DEF LedgerTyped, EntriesOK, EntryOK
  <2>4. QED BY <2>1, <2>2, <2>3
<1>4. l.bytes \in Int
  <2>1. \A i \in DOMAIN l.entries : l.entries[i].payload \in Nat BY DEF Exact, Balanced
  <2>2. BytesOf(l, DOMAIN l.entries) \in Nat BY <2>1, Weights
  <2>3. QED BY <2>2 DEF Exact, Balanced
<1>5. QED BY <1>1, <1>2, <1>3, <1>4 DEF LedgerOK

TypeInv == WorkInv /\ CountInv /\ CreditInv /\ LedgersTyped /\ AllExact

LEMMA TypesFollow == ASSUME TypeInv PROVE TypeOK
<1>1. IInv /\ Types /\ FlowInv BY DEF TypeInv, WorkInv
<1>2. \A s \in Sessions : LedgerOK(ledger[s])
  BY <1>1, LedgerIsOK DEF TypeInv, IInv, LedgersShaped, AllExact, LedgersTyped
<1>3. LiveOK(frameTokens, activations, frames, waiting) /\ EndOK(closing, Live)
  BY <1>1 DEF FlowInv, PlacesInv
<1>4. /\ frameTokens \in Seq(Commands) /\ frames \in Seq(FrameRecords)
      /\ closing \subseteq [cmd : Commands, outcome : Outcomes]
      /\ waiting \subseteq PendingCommands
  BY <1>3 DEF LiveOK, FramesOK, EndOK
<1>5. Range(activations) \cup FrameCommands \cup waiting \subseteq PendingCommands
  <2>1. Range(activations) \subseteq PendingCommands /\ CommandsOf(frames) \subseteq PendingCommands
    BY <1>3, LiveType
  <2>2. FrameCommands = CommandsOf(frames) BY DEF FrameCommands, CommandsOf
  <2>3. QED BY <1>4, <2>1, <2>2
<1>6. \A f \in Range(frames) : f.token \subseteq Commands
                              /\ f.stage \in {"open", "sent", "acked", "skipped"}
  <2>1. \A f \in Range(frames) : f \in FrameRecords BY <1>4 DEF Range
  <2>2. QED BY <2>1 DEF FrameRecords
<1>7. activeCount \in Nat BY FS_CardinalityType DEF TypeInv, CountInv
<1>8. credits \in 0..FrameCredits
  <2>1. Cardinality(HeldOf(frames)) \in Nat /\ FrameCredits \in Nat
    BY <1>4, HeldFinite, PortAssumption
  <2>2. credits \in Nat /\ credits + Cardinality(HeldOf(frames)) <= FrameCredits
    BY DEF TypeInv, CreditInv, CreditOK
  <2>3. QED BY <2>1, <2>2
<1>9. /\ state \in [Sessions -> {"none", "attached", "detached", "gone"}]
      /\ gen \in [Sessions -> 0..MaxGen]
      /\ conn \in [Sessions -> [1..MaxGen -> ConnStates]]
  BY <1>1 DEF Types, SessionTypes
<1>10. /\ inbox \in Seq(Commands) /\ batch \in Seq(Commands)
       /\ controlKeys \subseteq Keys /\ taken \subseteq Keys
       /\ nonEmpty \in BOOLEAN /\ controlWanted \in BOOLEAN /\ surface \in BOOLEAN
       /\ workload \in Workloads /\ sends \in 0..MaxSends
  BY <1>1 DEF Types, QueueTypes
<1>11. {nonEmpty, controlWanted, surface} \subseteq BOOLEAN BY <1>10
<1>12. clock \in {"wall", "virtual"} /\ owner \in Keys \cup {NoOwner} BY <1>1 DEF Types, TimeTypes
<1>13. QED
  BY <1>2, <1>4, <1>5, <1>6, <1>7, <1>8, <1>9, <1>10, <1>11, <1>12, Zenon DEF TypeOK

LEMMA CreditInit == ASSUME Init PROVE CreditInv
<1>1. frames = <<>> /\ credits = FrameCredits BY DEF Init, PortInit
<1>2. DOMAIN frames = {} BY <1>1, EmptySeq
<1>3. HeldOf(frames) = {} BY <1>2 DEF HeldOf
<1>4. Cardinality(HeldOf(frames)) = 0 BY <1>3, FS_EmptySet
<1>5. QED BY <1>1, <1>2, <1>4, PortAssumption DEF CreditInv, CreditOK

(* For every bound, set of sessions and mix of requests, all the variables *)
(* keep their types; in particular the runtime never has more render       *)
(* credits than there are, and every ledger keeps its entries below its    *)
(* high-water mark.                                                        *)
THEOREM DriveTypeCorrect == Spec => []TypeOK
<1>1. ASSUME Init PROVE TypeInv
  BY <1>1, WorkInit, CountInit, CreditInit, LedgersTypedInit, InitExact DEF TypeInv
<1>2. ASSUME TypeInv, [Next]_vars PROVE TypeInv'
  <2>1. IInv BY <1>2 DEF TypeInv, WorkInv
  <2>2. QED BY <1>2, <2>1, WorkNext, CountNext, CreditNext, LedgersTypedNext, NextExact DEF TypeInv
<1>3. TypeInv => TypeOK BY TypesFollow
<1>4. QED BY <1>1, <1>2, <1>3, PTL DEF Spec
=============================================================================
