---------------------------- MODULE DriveProofs ----------------------------
(***************************************************************************)
(* For every number of sessions, generations, IDs and methods and every    *)
(* retention bound, the ledgers under all the threads of the drive are     *)
(* write-once registers.                                                   *)
(*                                                                         *)
(* Every step of the drive changes a ledger by one method of ledger.go at  *)
(* most (LedgerStep), and each of those moves the registers of its IDs     *)
(* forward.  Eviction is where this could go wrong: it drops terminal      *)
(* entries only and changes none that it keeps.  The second part is about  *)
(* what it retains: the byte counter is exact, and after every method the  *)
(* ledger is within its bounds or holds open operations only.              *)
(***************************************************************************)
EXTENDS DriveServer, Sums

(* A ledger as a record: what the methods need to know of it.              *)
Shape(l) ==
  /\ l = [highWater |-> l.highWater, entries |-> l.entries, bytes |-> l.bytes]
  /\ l.highWater \in Nat
  /\ l.entries = [i \in DOMAIN l.entries |-> l.entries[i]]
  /\ DOMAIN l.entries \subseteq 1..l.highWater
  /\ \A i \in DOMAIN l.entries :
       /\ l.entries[i] = [canonical |-> l.entries[i].canonical, state |-> l.entries[i].state,
                          admitted |-> l.entries[i].admitted,
                          outcome |-> l.entries[i].outcome,
                          payload |-> l.entries[i].payload]
       /\ l.entries[i].state \in {"admitted", "terminal"}
       /\ l.entries[i].state = "terminal" => l.entries[i].outcome \in Outcomes

(* What m keeps of l: entries are dropped if they are terminal, and those  *)
(* that stay are the same.                                                 *)
Keeps(l, m) ==
  /\ m = [highWater |-> m.highWater, entries |-> m.entries, bytes |-> m.bytes]
  /\ m.highWater = l.highWater
  /\ m.entries = [i \in DOMAIN m.entries |-> m.entries[i]]
  /\ DOMAIN m.entries \subseteq DOMAIN l.entries
  /\ \A i \in DOMAIN m.entries : m.entries[i] = l.entries[i]
  /\ \A i \in DOMAIN l.entries : l.entries[i].state = "admitted" => i \in DOMAIN m.entries

(* evictLocked never drops an operation that is still open and never       *)
(* rewrites an entry.                                                      *)
LEMMA EvictKeeps == ASSUME NEW l, Shape(l) PROVE Keeps(l, Evict(l))
<1>1. ASSUME NEW drop PROVE Keeps(l, Without(l, drop))
  <2>1. \A i \in DOMAIN l.entries : l.entries[i].state = "admitted" => i \notin Terminals(l)
    BY DEF Terminals
  <2> QED BY <2>1 DEF Keeps, Without
<1> QED BY <1>1 DEF Evict

LEMMA KeepsShape == ASSUME NEW l, NEW m, Shape(l), Keeps(l, m) PROVE Shape(m)
BY DEF Shape, Keeps

-----------------------------------------------------------------------------
(* What one step of the drive does to one ledger.                          *)
LedgerStep(l, m) ==
  \/ m = l
  \/ \E canonical \in AllMethods : m = Claim(l, l.highWater + 1, canonical)
  \/ \E canonical \in AllMethods, outcome \in Outcomes :
       m = ClaimRejection(l, l.highWater + 1, canonical, outcome)
  \/ \E id : \E outcome \in Outcomes, payload \in Nat : m = Complete(l, id, outcome, payload)
  \/ \E hw \in {l.highWater, l.highWater + 1} : m = [NewLedger EXCEPT !.highWater = hw]

(* The register of every ID of a ledger.                                   *)
Reg(l) ==
  [i \in IDs |-> CASE i > l.highWater -> "unclaimed"
                   [] Open(l, i) -> "open"
                   [] i \in Terminals(l) -> l.entries[i].outcome
                   [] OTHER -> "forgotten"]

(* The inductive invariant: ledgers have their shape, and an operation     *)
(* that is being ended has a real outcome.                                 *)
LedgersShaped ==
  /\ ledger = [s \in Sessions |-> ledger[s]]
  /\ \A s \in Sessions : Shape(ledger[s])

EndsInOutcome == \A x \in closing : x.outcome \in Outcomes

IInv == LedgersShaped /\ EndsInOutcome

(* The four values that Reg takes, each under its condition.               *)
LEMMA RegValues ==
  ASSUME NEW l, Shape(l), NEW i \in IDs
  PROVE  /\ i > l.highWater => Reg(l)[i] = "unclaimed"
         /\ i \in DOMAIN l.entries /\ l.entries[i].state = "admitted" => Reg(l)[i] = "open"
         /\ i \in DOMAIN l.entries /\ l.entries[i].state = "terminal"
              => Reg(l)[i] = l.entries[i].outcome /\ Reg(l)[i] \in Outcomes
         /\ i <= l.highWater /\ i \notin DOMAIN l.entries => Reg(l)[i] = "forgotten"
<1>1. i \in Nat /\ l.highWater \in Nat BY DEF IDs, Shape
<1>2. Reg(l)[i] = CASE i > l.highWater -> "unclaimed"
                    [] Open(l, i) -> "open"
                    [] i \in Terminals(l) -> l.entries[i].outcome
                    [] OTHER -> "forgotten"
  BY DEF Reg
<1>3. DOMAIN l.entries \subseteq 1..l.highWater BY DEF Shape
<1>4. \A j \in DOMAIN l.entries : l.entries[j].state = "terminal" => l.entries[j].outcome \in Outcomes
  BY DEF Shape
<1>5. CASE i > l.highWater
  <2>1. i \notin DOMAIN l.entries BY <1>1, <1>3, <1>5
  <2>2. ~Open(l, i) /\ i \notin Terminals(l) BY <2>1 DEF Open, Terminals
  <2>3. Reg(l)[i] = "unclaimed" BY <1>2, <1>5, <2>2
  <2> QED BY <1>1, <1>5, <2>1, <2>3
<1>6. CASE ~(i > l.highWater)
  BY <1>1, <1>2, <1>4, <1>6 DEF Open, Terminals
<1> QED BY <1>5, <1>6

(* Append1 adds one entry after the last; eviction may then drop terminal  *)
(* entries, the new one included.                                          *)
LEMMA AppendShape ==
  ASSUME NEW l, Shape(l), NEW entry,
         entry = [canonical |-> entry.canonical, state |-> entry.state,
                  admitted |-> entry.admitted, outcome |-> entry.outcome,
                  payload |-> entry.payload],
         entry.state \in {"admitted", "terminal"},
         entry.state = "terminal" => entry.outcome \in Outcomes
  PROVE  LET m == Append1(l, l.highWater + 1, entry)
         IN /\ Shape(m)
            /\ m.highWater = l.highWater + 1
            /\ \A i \in DOMAIN m.entries : i # l.highWater + 1
                 => i \in DOMAIN l.entries /\ m.entries[i] = l.entries[i]
            /\ \A i \in DOMAIN l.entries :
                 l.entries[i].state = "admitted" => i \in DOMAIN m.entries
            /\ l.highWater + 1 \in DOMAIN m.entries => m.entries[l.highWater + 1] = entry
            /\ entry.state = "admitted" => l.highWater + 1 \in DOMAIN m.entries
<1> DEFINE id == l.highWater + 1
           a == [highWater |-> id,
                 entries   |-> [i \in DOMAIN l.entries \cup {id} |->
                                  IF i = id THEN entry ELSE l.entries[i]],
                 bytes     |-> l.bytes + EntryOverhead]
           m == Append1(l, id, entry)
<1>1. l.highWater \in Nat /\ DOMAIN l.entries \subseteq 1..l.highWater BY DEF Shape
<1>2. id \notin DOMAIN l.entries /\ id \in Nat BY <1>1
<1>3. Shape(a)
  <2>1. DOMAIN a.entries \subseteq 1..a.highWater BY <1>1
  <2>2. ASSUME NEW i \in DOMAIN a.entries
        PROVE  /\ a.entries[i] = [canonical |-> a.entries[i].canonical,
                                  state |-> a.entries[i].state,
                                  admitted |-> a.entries[i].admitted,
                                  outcome |-> a.entries[i].outcome,
                                  payload |-> a.entries[i].payload]
               /\ a.entries[i].state \in {"admitted", "terminal"}
               /\ a.entries[i].state = "terminal" => a.entries[i].outcome \in Outcomes
    <3>1. CASE i = id BY <3>1
    <3>2. CASE i # id BY <3>2 DEF Shape
    <3> QED BY <3>1, <3>2
  <2> QED BY <1>2, <2>1, <2>2 DEF Shape
<1>4. m = Evict(a) BY DEF Append1
<1>5. Keeps(a, m) BY <1>3, <1>4, EvictKeeps
<1>6. Shape(m) BY <1>3, <1>5, KeepsShape
<1>7. \A i \in DOMAIN l.entries : i # id /\ i \in DOMAIN a.entries /\ a.entries[i] = l.entries[i]
  BY <1>2
<1>8. DOMAIN a.entries = DOMAIN l.entries \cup {id} /\ a.entries[id] = entry /\ a.highWater = id
  OBVIOUS
<1> HIDE DEF a, m
<1> QED BY <1>5, <1>6, <1>7, <1>8 DEF Keeps, m

(* How far a ledger may move in one step: the high-water mark by one at    *)
(* most, an older entry from admitted to terminal or out of the ledger.    *)
Moves(l, m) ==
  /\ m.highWater \in {l.highWater, l.highWater + 1}
  /\ \A i \in DOMAIN m.entries : i <= l.highWater
       => /\ i \in DOMAIN l.entries
          /\ \/ m.entries[i] = l.entries[i]
             \/ l.entries[i].state = "admitted" /\ m.entries[i].state = "terminal"

(* A ledger that moves that far makes one step of the write-once register. *)
LEMMA MovesSessionStep ==
  ASSUME NEW l, NEW m, Shape(l), Shape(m), Moves(l, m)
  PROVE  Abstract!SessionStep(Reg(l), Reg(m))
<1>1. l.highWater \in Nat /\ m.highWater \in Nat BY DEF Shape
<1>2. IDs \subseteq Nat BY DEF IDs
<1>3. \A i \in IDs : Reg(l)[i] = "unclaimed" <=> i > l.highWater
  <2> SUFFICES ASSUME NEW i \in IDs PROVE Reg(l)[i] = "unclaimed" <=> i > l.highWater
    OBVIOUS
  <2>1. CASE i > l.highWater BY <2>1, RegValues
  <2>2. CASE i <= l.highWater
    <3>1. CASE i \in DOMAIN l.entries
      BY <1>1, <1>2, <2>2, <3>1, RegValues DEF Shape, Outcomes
    <3>2. CASE i \notin DOMAIN l.entries BY <1>1, <1>2, <2>2, <3>2, RegValues
    <3> QED BY <3>1, <3>2
  <2> QED BY <1>1, <1>2, <2>1, <2>2
<1>4. \A i \in IDs : Reg(m)[i] = "unclaimed" <=> i > m.highWater
  <2> SUFFICES ASSUME NEW i \in IDs PROVE Reg(m)[i] = "unclaimed" <=> i > m.highWater
    OBVIOUS
  <2>1. CASE i > m.highWater BY <2>1, RegValues
  <2>2. CASE i <= m.highWater
    <3>1. CASE i \in DOMAIN m.entries
      BY <1>1, <1>2, <2>2, <3>1, RegValues DEF Shape, Outcomes
    <3>2. CASE i \notin DOMAIN m.entries BY <1>1, <1>2, <2>2, <3>2, RegValues
    <3> QED BY <3>1, <3>2
  <2> QED BY <1>1, <1>2, <2>1, <2>2
<1>5. ASSUME NEW i \in IDs PROVE Abstract!Forward(Reg(l)[i], Reg(m)[i])
  <2>1. CASE i > l.highWater BY <1>3, <2>1 DEF Abstract!Forward
  <2>2. CASE i <= l.highWater /\ i \notin DOMAIN m.entries
    <3>1. i <= m.highWater BY <1>1, <1>2, <2>2 DEF Moves
    <3> QED BY <2>2, <3>1, RegValues DEF Abstract!Forward
  <2>3. CASE i <= l.highWater /\ i \in DOMAIN m.entries /\ m.entries[i] = l.entries[i]
    <3>1. i \in DOMAIN l.entries BY <2>3 DEF Moves
    <3>2. Reg(m)[i] = Reg(l)[i]
      <4>1. CASE l.entries[i].state = "admitted" BY <2>3, <3>1, <4>1, RegValues
      <4>2. CASE l.entries[i].state = "terminal" BY <2>3, <3>1, <4>2, RegValues
      <4> QED BY <3>1, <4>1, <4>2 DEF Shape
    <3> QED BY <3>2 DEF Abstract!Forward
  <2>4. CASE i <= l.highWater /\ i \in DOMAIN m.entries /\ m.entries[i] # l.entries[i]
    <3>1. /\ i \in DOMAIN l.entries
          /\ l.entries[i].state = "admitted" /\ m.entries[i].state = "terminal"
      BY <2>4 DEF Moves
    <3>2. Reg(l)[i] = "open" /\ Reg(m)[i] \in Outcomes BY <2>4, <3>1, RegValues
    <3> QED BY <3>2 DEF Abstract!Forward
  <2> QED BY <1>1, <1>2, <2>1, <2>2, <2>3, <2>4
<1>6. ASSUME NEW i \in IDs, NEW j \in IDs,
             Abstract!Claims(Reg(l)[i], Reg(m)[i]), Abstract!Claims(Reg(l)[j], Reg(m)[j])
      PROVE  i = j
  <2>1. i > l.highWater /\ j > l.highWater /\ ~(i > m.highWater) /\ ~(j > m.highWater)
    BY <1>3, <1>4, <1>6 DEF Abstract!Claims
  <2> QED BY <1>1, <1>2, <2>1 DEF Moves
<1>7. ASSUME NEW i \in IDs, NEW j \in IDs, i < j, Reg(m)[i] = "unclaimed"
      PROVE  Reg(m)[j] = "unclaimed"
  BY <1>1, <1>2, <1>4, <1>7
<1> QED BY <1>5, <1>6, <1>7 DEF Abstract!SessionStep, Abstract!IDs, IDs

(* Every method of the ledger keeps its shape and moves it that far.       *)
LEMMA LedgerStepMoves ==
  ASSUME NEW l, NEW m, Shape(l), LedgerStep(l, m)
  PROVE  Shape(m) /\ Moves(l, m)
<1>0. l.highWater \in Nat /\ DOMAIN l.entries \subseteq 1..l.highWater BY DEF Shape
<1>1. CASE m = l BY <1>0, <1>1 DEF Moves
<1>2. ASSUME NEW canonical \in AllMethods, m = Claim(l, l.highWater + 1, canonical)
      PROVE  Shape(m) /\ Moves(l, m)
  <2> DEFINE e == [canonical |-> canonical, state |-> "admitted", admitted |-> TRUE,
                   outcome |-> None, payload |-> 0]
  <2>1. m = Append1(l, l.highWater + 1, e) BY <1>2 DEF Claim
  <2>2. e.state = "admitted" OBVIOUS
  <2>3. e = [canonical |-> e.canonical, state |-> e.state, admitted |-> e.admitted,
             outcome |-> e.outcome, payload |-> e.payload] OBVIOUS
  <2> HIDE DEF e
  <2> QED BY <1>0, <2>1, <2>2, <2>3, AppendShape DEF Moves
<1>3. ASSUME NEW canonical \in AllMethods, NEW outcome \in Outcomes,
             m = ClaimRejection(l, l.highWater + 1, canonical, outcome)
      PROVE  Shape(m) /\ Moves(l, m)
  <2> DEFINE e == [canonical |-> canonical, state |-> "terminal", admitted |-> FALSE,
                   outcome |-> outcome, payload |-> 0]
  <2>1. m = Append1(l, l.highWater + 1, e) BY <1>3 DEF ClaimRejection
  <2>2. e.state = "terminal" /\ e.outcome \in Outcomes OBVIOUS
  <2>3. e = [canonical |-> e.canonical, state |-> e.state, admitted |-> e.admitted,
             outcome |-> e.outcome, payload |-> e.payload] OBVIOUS
  <2> HIDE DEF e
  <2> QED BY <1>0, <2>1, <2>2, <2>3, AppendShape DEF Moves
<1>4. ASSUME NEW id, NEW payload, NEW outcome \in Outcomes,
             m = Complete(l, id, outcome, payload)
      PROVE  Shape(m) /\ Moves(l, m)
  <2>1. CASE ~Open(l, id)
    <3>1. m = l BY <1>4, <2>1 DEF Complete
    <3> QED BY <1>1, <3>1
  <2>2. CASE Open(l, id)
    <3> DEFINE e == [canonical |-> l.entries[id].canonical, state |-> "terminal",
                     admitted |-> l.entries[id].admitted, outcome |-> outcome,
                     payload |-> payload]
               a == [highWater |-> l.highWater, entries |-> [l.entries EXCEPT ![id] = e],
                     bytes |-> l.bytes + payload]
    <3>1. id \in DOMAIN l.entries /\ l.entries[id].state = "admitted" BY <2>2 DEF Open
    <3>2. m = Evict(a) BY <1>4, <2>2 DEF Complete
    <3>3. /\ e = [canonical |-> e.canonical, state |-> e.state, admitted |-> e.admitted,
                  outcome |-> e.outcome, payload |-> e.payload]
          /\ e.state = "terminal" /\ e.outcome \in Outcomes
      OBVIOUS
    <3> HIDE DEF e
    <3>4. /\ DOMAIN a.entries = DOMAIN l.entries /\ a.entries[id] = e
          /\ \A i \in DOMAIN l.entries : i # id => a.entries[i] = l.entries[i]
          /\ a.highWater = l.highWater
          /\ a = [highWater |-> a.highWater, entries |-> a.entries, bytes |-> a.bytes]
          /\ a.entries = [i \in DOMAIN a.entries |-> a.entries[i]]
      BY <3>1 DEF Shape
    <3> HIDE DEF a
    <3>5. Shape(a) BY <3>3, <3>4 DEF Shape
    <3>6. Keeps(a, m) BY <3>2, <3>5, EvictKeeps
    <3>7. Shape(m) BY <3>5, <3>6, KeepsShape
    <3> QED BY <3>1, <3>3, <3>4, <3>6, <3>7 DEF Keeps, Moves
  <2> QED BY <2>1, <2>2
<1>5. ASSUME NEW hw \in {l.highWater, l.highWater + 1}, m = [NewLedger EXCEPT !.highWater = hw]
      PROVE  Shape(m) /\ Moves(l, m)
  <2>1. m = [highWater |-> hw, entries |-> [i \in {} |-> None], bytes |-> 0]
    BY <1>5 DEF NewLedger
  <2> QED BY <1>0, <2>1 DEF Shape, Moves
<1> QED BY <1>1, <1>2, <1>3, <1>4, <1>5 DEF LedgerStep

-----------------------------------------------------------------------------
(* Every step of every thread makes a LedgerStep of every ledger.          *)
LedgersStep ==
  /\ ledger' = [s \in Sessions |-> ledger'[s]]
  /\ \A s \in Sessions : LedgerStep(ledger[s], ledger'[s])

LEMMA UnchangedLedgers ==
  ASSUME LedgersShaped, UNCHANGED ledger PROVE LedgersStep
BY DEF LedgersShaped, LedgersStep, LedgerStep

(* A step that changes the ledger of one session.                          *)
LEMMA OneLedger ==
  ASSUME LedgersShaped, NEW s, NEW m, LedgerStep(ledger[s], m),
         ledger' = [ledger EXCEPT ![s] = m]
  PROVE  LedgersStep
<1>1. LedgerStep(ledger[s], ledger[s]) BY DEF LedgerStep
<1>2. DOMAIN ledger = Sessions BY DEF LedgersShaped
<1>3. ledger' = [x \in Sessions |-> IF x = s THEN m ELSE ledger[x]] BY <1>2
<1>4. ASSUME NEW x \in Sessions PROVE LedgerStep(ledger[x], ledger'[x])
  <2>1. CASE x = s BY <1>3, <2>1
  <2>2. CASE x # s BY <1>3, <2>2 DEF LedgerStep
  <2> QED BY <2>1, <2>2
<1> QED BY <1>3, <1>4 DEF LedgersStep

LEMMA ClaimedLedgers ==
  ASSUME LedgersShaped, NEW c, c.m \in AllMethods, NextID(ledger[c.s], c.id), Claimed(c)
  PROVE  LedgersStep
<1>1. LedgerStep(ledger[c.s], Claim(ledger[c.s], c.id, c.m)) BY DEF NextID, LedgerStep
<1>2. ledger' = [ledger EXCEPT ![c.s] = Claim(ledger[c.s], c.id, c.m)] BY DEF Claimed
<1> QED BY <1>1, <1>2, OneLedger

LEMMA RevokedLedgers ==
  ASSUME LedgersShaped, NEW c, AdmitRevoke(c)
  PROVE  LedgersStep
<1> DEFINE after == [ledger EXCEPT ![c.s] = Claim(@, c.id, c.m)]
           r == RevokeTarget
           m == [NewLedger EXCEPT !.highWater = after[r].highWater]
<1>1. c.m \in AllMethods /\ NextID(ledger[c.s], c.id)
  BY DEF AdmitRevoke, AllMethods, Admissible
<1>2. CASE ledger' = after
  BY <1>1, <1>2, ClaimedLedgers DEF Claimed
<1>3. CASE ledger' = [after EXCEPT ![r] = m]
  <2>1. DOMAIN ledger = Sessions BY DEF LedgersShaped
  <2>2. r \in Sessions BY PortAssumption
  <2>3. ledger' = [s \in Sessions |-> IF s = r THEN m ELSE after[s]] BY <1>3, <2>1
  <2>4. LedgerStep(ledger[c.s], Claim(ledger[c.s], c.id, c.m)) BY <1>1 DEF NextID, LedgerStep
  <2>5. after[r].highWater \in {ledger[r].highWater, ledger[r].highWater + 1}
    <3>1. CASE c.s = r
      <4>1. Shape(ledger[r]) BY <2>2 DEF LedgersShaped
      <4>2. after[r] = Claim(ledger[r], c.id, c.m) BY <2>1, <2>2, <3>1
      <4>3. Moves(ledger[r], after[r]) BY <2>4, <3>1, <4>1, <4>2, LedgerStepMoves
      <4> QED BY <4>3 DEF Moves
    <3>2. CASE c.s # r BY <2>1, <2>2, <3>2
    <3> QED BY <3>1, <3>2
  <2>6. ASSUME NEW s \in Sessions PROVE LedgerStep(ledger[s], ledger'[s])
    <3>1. CASE s = r
      <4>1. ledger'[r] = m BY <2>2, <2>3
      <4> HIDE DEF after
      <4> QED BY <2>5, <3>1, <4>1 DEF LedgerStep
    <3>2. CASE s # r /\ s = c.s
      <4>1. ledger'[s] = Claim(ledger[s], c.id, c.m) BY <2>1, <2>3, <3>2
      <4> QED BY <2>4, <3>2, <4>1
    <3>3. CASE s # r /\ s # c.s
      <4>1. ledger'[s] = ledger[s] BY <2>1, <2>3, <3>3
      <4> QED BY <4>1 DEF LedgerStep
    <3> QED BY <3>1, <3>2, <3>3
  <2> HIDE DEF after, m
  <2> QED BY <2>3, <2>6 DEF LedgersStep
<1> QED BY <1>2, <1>3 DEF AdmitRevoke

LEMMA AdmitLedgers ==
  ASSUME LedgersShaped, NEW c, Admit(c) PROVE LedgersStep
<1>1. CASE AdmitRefused(c) \/ AdmitReplay(c) \/ AdmitPending(c)
  BY <1>1, UnchangedLedgers DEF AdmitRefused, AdmitReplay, AdmitPending, sessionVars
<1>2. CASE AdmitRejected(c)
  <2>1. /\ c.m \in AllMethods /\ NextID(ledger[c.s], c.id)
        /\ ledger' = [ledger EXCEPT ![c.s] =
                        ClaimRejection(ledger[c.s], c.id, c.m, "rejected")]
    BY <1>2 DEF AdmitRejected, AllMethods, Admissible
  <2>2. LedgerStep(ledger[c.s], ClaimRejection(ledger[c.s], c.id, c.m, "rejected"))
    BY <2>1 DEF NextID, LedgerStep, Outcomes
  <2> QED BY <2>1, <2>2, OneLedger
<1>3. CASE AdmitExecute(c)
  BY <1>3, ClaimedLedgers DEF AdmitExecute, Admissible, AllMethods
<1>4. ASSUME NEW outcome, AdmitRead(c, outcome) PROVE LedgersStep
  BY <1>4, ClaimedLedgers DEF AdmitRead, Admissible, AllMethods
<1>5. CASE AdmitTimeAtOnce(c)
  BY <1>5, ClaimedLedgers DEF AdmitTimeAtOnce, Admissible, AllMethods, TimeMethods
<1>6. CASE AdmitTimeDeferred(c)
  BY <1>6, ClaimedLedgers DEF AdmitTimeDeferred, Admissible, AllMethods, TimeMethods
<1>7. CASE AdmitCancel(c)
  BY <1>7, ClaimedLedgers DEF AdmitCancel, Admissible, AllMethods
<1>8. CASE AdmitRevoke(c) BY <1>8, RevokedLedgers
<1> QED BY <1>1, <1>2, <1>3, <1>4, <1>5, <1>6, <1>7, <1>8 DEF Admit

LEMMA CompletedLedgers ==
  ASSUME IInv, NEW x \in closing, CompleteOne(x) PROVE LedgersStep
<1>1. CASE InTable(x.cmd.s)
  <2> DEFINE m == Complete(ledger[x.cmd.s], x.cmd.id, x.outcome, PayloadOf(x.cmd, x.outcome))
  <2>1. ledger' = [ledger EXCEPT ![x.cmd.s] = m] BY <1>1 DEF CompleteOne
  <2>2. x.outcome \in Outcomes BY DEF IInv, EndsInOutcome
  <2>3. PayloadOf(x.cmd, x.outcome) \in Nat BY PortAssumption DEF PayloadOf
  <2>4. LedgerStep(ledger[x.cmd.s], m) BY <2>2, <2>3 DEF LedgerStep
  <2> QED BY <2>1, <2>4, OneLedger DEF IInv
<1>2. CASE ~InTable(x.cmd.s)
  BY <1>2, UnchangedLedgers DEF CompleteOne, IInv
<1> QED BY <1>1, <1>2

LEMMA RemovedLedgers ==
  ASSUME LedgersShaped, NEW s, RemoveSession(s) PROVE LedgersStep
<1> DEFINE m == [NewLedger EXCEPT !.highWater = ledger[s].highWater]
<1>1. ledger' = [ledger EXCEPT ![s] = m] BY DEF RemoveSession
<1>2. LedgerStep(ledger[s], m) BY DEF LedgerStep
<1> QED BY <1>1, <1>2, OneLedger

LEMMA RuntimeLedgers ==
  ASSUME IInv, RuntimeStep PROVE LedgersStep
<1>1. CASE \E x \in closing : CompleteOne(x) BY <1>1, CompletedLedgers
<1>2. CASE \E c \in Range(batch) : Admit(c) BY <1>2, AdmitLedgers DEF IInv
<1>3. CASE StartTurn \/ Fence \/ ClaimTake \/ ClaimClear \/ AdmitDone
  BY <1>3, UnchangedLedgers
     DEF StartTurn, Fence, ClaimTake, ClaimClear, AdmitDone, sessionVars, IInv
<1>4. CASE \E ready \in BOOLEAN : RenderCompletion(ready)
  BY <1>4, UnchangedLedgers DEF RenderCompletion, sessionVars, IInv
<1>5. CASE StartTokenFrame \/ StartWallFrame \/ NoFrame
  BY <1>5, UnchangedLedgers DEF StartTokenFrame, StartWallFrame, NoFrame, sessionVars, IInv
<1>6. CASE \E p \in FrameCommands \cup waiting, ok \in BOOLEAN : JobDone(p, ok)
  BY <1>6, UnchangedLedgers DEF JobDone, sessionVars, IInv
<1>7. CASE (\E human, lost \in BOOLEAN : FrameEvents(human, lost)) \/ AfterPreempt
  BY <1>7, UnchangedLedgers DEF FrameEvents, AfterPreempt, sessionVars, IInv
<1>8. CASE FrameWithoutCommand \/ ActivateLost
  BY <1>8, UnchangedLedgers DEF FrameWithoutCommand, ActivateLost, sessionVars, IInv
<1>9. CASE \E jobs \in 0..MaxJobs, failed \in BOOLEAN : Activate(jobs, failed)
  BY <1>9, UnchangedLedgers DEF Activate, sessionVars, IInv
<1>10. CASE HumanParked \/ SurfaceCreated
  BY <1>10, UnchangedLedgers DEF HumanParked, SurfaceCreated, sessionVars, IInv
<1> QED BY <1>1, <1>2, <1>3, <1>4, <1>5, <1>6, <1>7, <1>8, <1>9, <1>10 DEF RuntimeStep

LEMMA NextLedgers ==
  ASSUME IInv, [Next]_vars PROVE LedgersStep
<1>1. CASE RuntimeStep BY <1>1, RuntimeLedgers
<1>2. CASE RenderDone BY <1>2, UnchangedLedgers DEF RenderDone, sessionVars, IInv
<1>3. ASSUME NEW s \in Sessions, Create(s) \/ Resume(s) PROVE LedgersStep
  BY <1>3, UnchangedLedgers DEF Create, Resume, CreateSession, AttachSession, IInv
<1>4. ASSUME NEW s \in Sessions, ResumeExpired(s) PROVE LedgersStep
  BY <1>4, RemovedLedgers DEF ResumeExpired, ExpireSession, IInv
<1>5. ASSUME NEW s \in Sessions, NEW g \in 1..MaxGen,
             \/ Close(s, g) \/ Signal(s, g) \/ LeaseExpired(s, g)
             \/ \E id \in IDs : \E m \in workload.sends[id] : Dispatch(s, g, id, m)
      PROVE  LedgersStep
  BY <1>5, UnchangedLedgers
     DEF Close, DetachGeneration, Signal, LeaseExpired, Dispatch, PortStep, sessionVars, IInv
<1>6. CASE UNCHANGED vars BY <1>6, UnchangedLedgers DEF vars, sessionVars, IInv
<1> QED BY <1>1, <1>2, <1>3, <1>4, <1>5, <1>6 DEF Next

-----------------------------------------------------------------------------
(* Whatever a handler takes out of its queue, it ends in a real outcome.   *)
LEMMA ClosingOutcome ==
  ASSUME NEW cmds, NEW outcome \in Outcomes, NEW x \in Closing(cmds, outcome)
  PROVE  x.outcome \in Outcomes
BY DEF Closing

LEMMA AdmitEnds ==
  ASSUME EndsInOutcome, NEW c, Admit(c) PROVE EndsInOutcome'
<1>0. {"done", "failed", "cancelled", "preempted"} \subseteq Outcomes BY DEF Outcomes
<1>1. ASSUME NEW outcome \in {"done", "failed"}, NEW cmds,
             closing' = Closing({c}, outcome) \cup Closing(cmds, "cancelled")
      PROVE  EndsInOutcome'
  BY <1>0, <1>1, ClosingOutcome DEF EndsInOutcome
<1>2. Closing({}, "cancelled") = {} BY DEF Closing
<1>3. CASE AdmitRefused(c) \/ AdmitReplay(c) \/ AdmitPending(c) \/ AdmitRejected(c)
           \/ AdmitExecute(c) \/ AdmitTimeDeferred(c)
  BY <1>3 DEF AdmitRefused, AdmitReplay, AdmitPending, AdmitRejected, AdmitExecute, AdmitTimeDeferred,
              EndsInOutcome
<1>4. ASSUME NEW outcome \in {"done", "failed"}, AdmitRead(c, outcome)
      PROVE  EndsInOutcome'
  <2>1. closing' = Closing({c}, outcome) \cup Closing({}, "cancelled")
    BY <1>2, <1>4 DEF AdmitRead, AnswerAtOnce, EndAll
  <2> QED BY <1>1, <2>1
<1>5. CASE AdmitTimeAtOnce(c)
  <2>1. \E outcome \in {"done", "failed"} :
          closing' = Closing({c}, outcome) \cup Closing({}, "cancelled")
    BY <1>2, <1>5 DEF AdmitTimeAtOnce, AnswerAtOnce, EndAll
  <2> QED BY <1>1, <2>1
<1>6. CASE AdmitCancel(c)
  <2>1. \E outcome \in {"done", "failed"} : \E cmds :
          closing' = Closing({c}, outcome) \cup Closing(cmds, "cancelled")
    BY <1>6 DEF AdmitCancel, AnswerAtOnce, EndAll
  <2> QED BY <1>1, <2>1
<1>7. CASE AdmitRevoke(c)
  <2>1. \E outcome \in {"done", "failed"} : \E cmds :
          closing' = Closing({c}, outcome) \cup Closing(cmds, "cancelled")
    BY <1>2, <1>7 DEF AdmitRevoke, AnswerAtOnce, EndAll
  <2> QED BY <1>1, <2>1
<1> QED BY <1>3, <1>4, <1>5, <1>6, <1>7 DEF Admit

LEMMA RenderEnds ==
  ASSUME NEW ready \in BOOLEAN, RenderCompletion(ready) PROVE EndsInOutcome'
<1>1. PICK cmds, ended :
        /\ \A p \in ended : CommandOutcome(p, ready) # None
        /\ closing' = {[cmd |-> p.cmd, outcome |-> CommandOutcome(p, ready)] : p \in ended}
                        \cup Closing(cmds, IF ready THEN "done" ELSE "failed")
  BY DEF RenderCompletion, EndAll
<1>2. \A p \in ended : CommandOutcome(p, ready) \in Outcomes
  BY <1>1 DEF CommandOutcome, Outcomes
<1>3. (IF ready THEN "done" ELSE "failed") \in Outcomes BY DEF Outcomes
<1> QED BY <1>1, <1>2, <1>3, ClosingOutcome DEF EndsInOutcome

LEMMA RuntimeEnds ==
  ASSUME EndsInOutcome, RuntimeStep PROVE EndsInOutcome'
<1>0. {"failed", "cancelled", "preempted"} \subseteq Outcomes BY DEF Outcomes
<1>1. ASSUME NEW cmds, NEW outcome \in {"failed", "cancelled", "preempted"},
             closing' = Closing(cmds, outcome)
      PROVE  EndsInOutcome'
  BY <1>0, <1>1, ClosingOutcome DEF EndsInOutcome
<1>2. CASE \E x \in closing : CompleteOne(x)
  BY <1>2 DEF CompleteOne, EndAll, EndsInOutcome
<1>3. CASE \E c \in Range(batch) : Admit(c) BY <1>3, AdmitEnds
<1>4. CASE StartTurn \/ ClaimTake \/ ClaimClear \/ AdmitDone \/ StartWallFrame \/ NoFrame
           \/ AfterPreempt \/ FrameWithoutCommand \/ SurfaceCreated
  BY <1>4 DEF StartTurn, ClaimTake, ClaimClear, AdmitDone, StartWallFrame, NoFrame,
              AfterPreempt, FrameWithoutCommand, SurfaceCreated, EndsInOutcome
<1>5. CASE Fence BY <1>1, <1>5 DEF Fence, EndAll
<1>6. CASE \E ready \in BOOLEAN : RenderCompletion(ready) BY <1>6, RenderEnds
<1>7. CASE StartTokenFrame BY <1>1, <1>7 DEF StartTokenFrame, EndAll, EndsInOutcome
<1>8. ASSUME NEW p, NEW ok, JobDone(p, ok) PROVE EndsInOutcome'
  BY <1>1, <1>8 DEF JobDone, EndAll, EndsInOutcome
<1>9. ASSUME NEW human, NEW lost, FrameEvents(human, lost) PROVE EndsInOutcome'
  BY <1>1, <1>9 DEF FrameEvents, Preempt, EndAll, EndsInOutcome
<1>10. CASE ActivateLost BY <1>1, <1>10 DEF ActivateLost, EndAll
<1>11. ASSUME NEW jobs, NEW failed, Activate(jobs, failed) PROVE EndsInOutcome'
  BY <1>11 DEF Activate, EndsInOutcome
<1>12. CASE HumanParked BY <1>1, <1>12 DEF HumanParked, Preempt, EndAll, EndsInOutcome
<1> QED BY <1>2, <1>3, <1>4, <1>5, <1>6, <1>7, <1>8, <1>9, <1>10, <1>11, <1>12 DEF RuntimeStep

LEMMA NextEnds ==
  ASSUME EndsInOutcome, [Next]_vars PROVE EndsInOutcome'
<1>1. CASE RuntimeStep BY <1>1, RuntimeEnds
<1>2. CASE UNCHANGED closing BY <1>2 DEF EndsInOutcome
<1>3. CASE RenderDone BY <1>2, <1>3 DEF RenderDone
<1>4. ASSUME NEW s \in Sessions, Create(s) \/ Resume(s) \/ ResumeExpired(s) PROVE EndsInOutcome'
  BY <1>2, <1>4 DEF Create, Resume, ResumeExpired, portVars
<1>5. ASSUME NEW s \in Sessions, NEW g \in 1..MaxGen,
             \/ Close(s, g) \/ Signal(s, g) \/ LeaseExpired(s, g)
             \/ \E id \in IDs : \E m \in workload.sends[id] : Dispatch(s, g, id, m)
      PROVE  EndsInOutcome'
  BY <1>2, <1>5 DEF Close, Signal, LeaseExpired, Dispatch, PortStep, portVars
<1>6. CASE UNCHANGED vars BY <1>2, <1>6 DEF vars, portVars
<1> QED BY <1>1, <1>3, <1>4, <1>5, <1>6 DEF Next

-----------------------------------------------------------------------------
(* The invariant is inductive.                                             *)
LEMMA InitIInv == ASSUME Init PROVE IInv
<1>1. Shape(NewLedger) BY DEF Shape, NewLedger
<1>2. ledger = [s \in Sessions |-> NewLedger] /\ closing = {}
  BY DEF Init, SessionsInit, PortInit
<1> QED BY <1>1, <1>2 DEF IInv, LedgersShaped, EndsInOutcome

LEMMA NextIInv == ASSUME IInv, [Next]_vars PROVE IInv'
<1>1. LedgersStep BY NextLedgers
<1>2. \A s \in Sessions : Shape(ledger'[s])
  BY <1>1, LedgerStepMoves DEF LedgersStep, IInv, LedgersShaped
<1>3. LedgersShaped'
  BY <1>1, <1>2 DEF LedgersStep, LedgersShaped
<1>4. EndsInOutcome' BY NextEnds DEF IInv
<1> QED BY <1>3, <1>4 DEF IInv

(* The type of a register.                                                 *)
LEMMA RegType ==
  ASSUME NEW l, Shape(l)
  PROVE  Reg(l) \in [IDs -> {"unclaimed", "open", "forgotten"} \cup Outcomes]
<1> SUFFICES ASSUME NEW i \in IDs
             PROVE  Reg(l)[i] \in {"unclaimed", "open", "forgotten"} \cup Outcomes
  BY DEF Reg
<1>1. i \in Nat /\ l.highWater \in Nat BY DEF IDs, Shape
<1>2. CASE i > l.highWater BY <1>2, RegValues
<1>3. CASE i <= l.highWater /\ i \notin DOMAIN l.entries BY <1>3, RegValues
<1>4. CASE i \in DOMAIN l.entries
  <2>1. l.entries[i].state \in {"admitted", "terminal"} BY <1>4 DEF Shape
  <2> QED BY <1>4, <2>1, RegValues
<1> QED BY <1>1, <1>2, <1>3, <1>4

(* A step of the drive is a step of the abstract register.                 *)
LEMMA StepRefines == ASSUME IInv, [Next]_vars PROVE [Abstract!Next]_Register
<1>1. Register = [s \in Sessions |-> Reg(ledger[s])] BY DEF Register, Reg
<1>2. Register' = [s \in Sessions |-> Reg(ledger'[s])] BY DEF Register, Reg
<1>3. IInv' BY NextIInv
<1>4. \A s \in Sessions : Shape(ledger[s]) /\ Shape(ledger'[s]) /\ Moves(ledger[s], ledger'[s])
  BY <1>3, NextLedgers, LedgerStepMoves DEF LedgersStep, IInv, LedgersShaped
<1>5. \A s \in Sessions : Abstract!SessionStep(Reg(ledger[s]), Reg(ledger'[s]))
  BY <1>4, MovesSessionStep
<1>6. Register' \in [Sessions -> [IDs -> {"unclaimed", "open", "forgotten"} \cup Outcomes]]
  BY <1>2, <1>4, RegType
<1>7. \A s \in Sessions : Abstract!SessionStep(Register[s], Register'[s])
  BY <1>1, <1>2, <1>5
<1> QED BY <1>6, <1>7 DEF Abstract!Next, Abstract!IDs, IDs

LEMMA InitRefines == ASSUME Init PROVE Abstract!Init
<1>1. ledger = [s \in Sessions |-> NewLedger] BY DEF Init, SessionsInit
<1>2. Shape(NewLedger) /\ NewLedger.highWater = 0 BY DEF Shape, NewLedger
<1>3. \A i \in IDs : Reg(NewLedger)[i] = "unclaimed" BY <1>2, RegValues DEF IDs
<1>4. Reg(NewLedger) = [i \in IDs |-> "unclaimed"] BY <1>3 DEF Reg
<1>5. Register = [s \in Sessions |-> Reg(ledger[s])] BY DEF Register, Reg
<1>6. Register = [s \in Sessions |-> [i \in IDs |-> "unclaimed"]] BY <1>1, <1>4, <1>5
<1> QED BY <1>6 DEF Abstract!Init, Abstract!IDs, IDs

(* Whatever clients retry, connections lose, humans preempt and the ledger *)
(* forgets, every request ID is a write-once register: the ledgers under   *)
(* the threads of the drive implement OutcomeRegister.                     *)
THEOREM DriveImplementsRegister == Spec => ImplementsRegister
<1>1. Init => IInv BY InitIInv
<1>2. IInv /\ [Next]_vars => IInv' BY NextIInv
<1>3. Init => Abstract!Init BY InitRefines
<1>4. IInv /\ [Next]_vars => [Abstract!Next]_Register BY StepRefines
<1> QED BY <1>1, <1>2, <1>3, <1>4, PTL DEF Spec, ImplementsRegister, Abstract!Spec

-----------------------------------------------------------------------------
(* Retention.                                                              *)

Weight(l) == [i \in DOMAIN l.entries |-> EntryBytes(l.entries[i])]

(* The byte counter is the size of the entries; an open one has no payload *)
(* yet, or Complete would add to it.                                       *)
Balanced(l) ==
  /\ \A i \in DOMAIN l.entries : l.entries[i].payload \in Nat
  /\ \A i \in DOMAIN l.entries : l.entries[i].state = "admitted" => l.entries[i].payload = 0
  /\ l.bytes = BytesOf(l, DOMAIN l.entries)

Exact(l) == Balanced(l) /\ (OverBounds(l) => Terminals(l) = {})

LEMMA Weights ==
  ASSUME NEW l, Shape(l), \A i \in DOMAIN l.entries : l.entries[i].payload \in Nat,
         NEW ids \in SUBSET DOMAIN l.entries
  PROVE  /\ IsFiniteSet(ids) /\ \A i \in ids : Weight(l)[i] \in Nat /\ Weight(l)[i] \in Int
         /\ BytesOf(l, ids) = SumFunctionOnSet(Weight(l), ids)
         /\ BytesOf(l, ids) \in Nat
<1>1. l.highWater \in Int /\ 1 \in Int /\ ids \in SUBSET (1..l.highWater) BY DEF Shape
<1>2. IsFiniteSet(1..l.highWater) BY <1>1, FS_Interval
<1>3. IsFiniteSet(ids) BY <1>1, <1>2, FS_Subset
<1>4. \A i \in ids : Weight(l)[i] = EntryBytes(l.entries[i]) /\ EntryBytes(l.entries[i]) \in Nat
  BY LedgerAssumption DEF Weight, EntryBytes
<1> DEFINE f == [i \in ids |-> EntryBytes(l.entries[i])]
<1>5. \A i \in ids : f[i] \in Int /\ f[i] = Weight(l)[i] BY <1>4
<1>6. BytesOf(l, ids) = SumFunctionOnSet(f, ids) BY DEF BytesOf
<1> HIDE DEF f
<1>7. BytesOf(l, ids) = SumFunctionOnSet(Weight(l), ids) BY <1>3, <1>5, <1>6, SumSame
<1>8. \A i \in ids : Weight(l)[i] \in Nat BY <1>4
<1>9. SumFunctionOnSet(Weight(l), ids) \in Nat BY <1>3, <1>8, SumNonNegative
<1>10. QED BY <1>3, <1>7, <1>8, <1>9

(* Without keeps the balance: it subtracts what it drops.                  *)
LEMMA WithoutBalanced ==
  ASSUME NEW l, Shape(l), Balanced(l), NEW drop
  PROVE  LET m == Without(l, drop)
         IN /\ Shape(m) /\ Balanced(m)
            /\ DOMAIN m.entries = DOMAIN l.entries \ (drop \cap Terminals(l))
            /\ m.bytes = SumFunctionOnSet(Weight(l), DOMAIN m.entries)
            /\ Terminals(m) = Terminals(l) \ drop
<1> DEFINE gone == drop \cap Terminals(l)
           kept == DOMAIN l.entries \ gone
           m == Without(l, drop)
           W == Weight(l)
<1>1. /\ m.highWater = l.highWater /\ DOMAIN m.entries = kept
      /\ \A i \in kept : m.entries[i] = l.entries[i]
      /\ m.bytes = IF kept = {} THEN 0 ELSE l.bytes - BytesOf(l, gone)
      /\ m = [highWater |-> m.highWater, entries |-> m.entries, bytes |-> m.bytes]
      /\ m.entries = [i \in kept |-> m.entries[i]]
  BY DEF Without
<1>2. kept \in SUBSET DOMAIN l.entries /\ gone \in SUBSET DOMAIN l.entries
      /\ DOMAIN l.entries \in SUBSET DOMAIN l.entries
      /\ kept \cap gone = {} /\ kept \cup gone = DOMAIN l.entries
  BY DEF Terminals
<1>3. Terminals(m) = Terminals(l) \ drop BY <1>1, <1>2 DEF Terminals
<1> HIDE DEF m
<1>4. Shape(m)
  <2> HIDE DEF kept
  <2>1. QED BY <1>1, <1>2 DEF Shape
<1>5. /\ \A i \in DOMAIN m.entries : m.entries[i].payload \in Nat
      /\ \A i \in DOMAIN m.entries : m.entries[i].state = "admitted" => m.entries[i].payload = 0
  BY <1>1 DEF Balanced
<1>6. m.bytes = SumFunctionOnSet(W, kept)
  <2> HIDE DEF kept, gone, W
  <2>0. \A i \in DOMAIN l.entries : l.entries[i].payload \in Nat BY DEF Balanced
  <2>1. /\ IsFiniteSet(kept) /\ IsFiniteSet(gone)
        /\ \A i \in DOMAIN l.entries : W[i] \in Int
        /\ BytesOf(l, gone) = SumFunctionOnSet(W, gone) /\ BytesOf(l, gone) \in Nat
        /\ BytesOf(l, kept) = SumFunctionOnSet(W, kept) /\ BytesOf(l, kept) \in Nat
        /\ BytesOf(l, DOMAIN l.entries) = SumFunctionOnSet(W, DOMAIN l.entries)
    BY <1>2, <2>0, Weights DEF W
  <2>2. \A i \in kept \cup gone : W[i] \in Int BY <1>2, <2>1
  <2>3. SumFunctionOnSet(W, kept \cup gone) = SumFunctionOnSet(W, kept) + SumFunctionOnSet(W, gone)
    BY <1>2, <2>1, <2>2, SumDisjoint
  <2>4. l.bytes = SumFunctionOnSet(W, kept) + SumFunctionOnSet(W, gone)
    BY <1>2, <2>1, <2>3 DEF Balanced
  <2>5. CASE kept = {} BY <1>1, <2>5, SumEmpty
  <2>6. CASE kept # {} BY <1>1, <2>1, <2>4, <2>6
  <2>7. QED BY <2>5, <2>6
<1>7. Balanced(m)
  <2>1. /\ BytesOf(m, DOMAIN m.entries) = SumFunctionOnSet(Weight(m), DOMAIN m.entries)
    BY <1>4, <1>5, Weights
  <2>2. \A i \in kept : W[i] \in Int /\ Weight(m)[i] = W[i]
    <3>1. \A i \in DOMAIN l.entries : l.entries[i].payload \in Nat BY DEF Balanced
    <3>2. \A i \in kept : W[i] \in Int BY <1>2, <3>1, Weights
    <3>3. QED BY <1>1, <1>2, <3>2 DEF Weight
  <2>3. IsFiniteSet(kept) BY <1>2, Weights DEF Balanced
  <2> HIDE DEF W, kept
  <2>4. SumFunctionOnSet(W, kept) = SumFunctionOnSet(Weight(m), kept) BY <2>2, <2>3, SumSame
  <2>5. QED BY <1>1, <1>5, <1>6, <2>1, <2>4 DEF Balanced
<1>8. QED BY <1>1, <1>3, <1>4, <1>6, <1>7 DEF m

(* The more is dropped, the less the ledger is over its bounds.            *)
LEMMA DroppingHelps ==
  ASSUME NEW l, Shape(l), Balanced(l), NEW few, NEW many, few \subseteq many,
         OverBounds(Without(l, many))
  PROVE  OverBounds(Without(l, few))
<1> DEFINE f == Without(l, few)
           m == Without(l, many)
           F == DOMAIN f.entries
           M == DOMAIN m.entries
<1>1. /\ F = DOMAIN l.entries \ (few \cap Terminals(l)) /\ f.bytes = SumFunctionOnSet(Weight(l), F)
  BY WithoutBalanced
<1>2. /\ M = DOMAIN l.entries \ (many \cap Terminals(l)) /\ m.bytes = SumFunctionOnSet(Weight(l), M)
  BY WithoutBalanced
<1>3. M \in SUBSET F /\ F \in SUBSET DOMAIN l.entries /\ M \in SUBSET DOMAIN l.entries BY <1>1, <1>2
<1> HIDE DEF F, M, f, m
<1>4. /\ IsFiniteSet(F) /\ IsFiniteSet(M) /\ \A i \in F : Weight(l)[i] \in Nat
      /\ SumFunctionOnSet(Weight(l), F) \in Nat /\ SumFunctionOnSet(Weight(l), M) \in Nat
  BY <1>3, Weights DEF Balanced
<1>5. Cardinality(M) <= Cardinality(F) /\ Cardinality(M) \in Nat /\ Cardinality(F) \in Nat
  BY <1>3, <1>4, FS_Subset, FS_CardinalityType
<1>6. SumFunctionOnSet(Weight(l), M) <= SumFunctionOnSet(Weight(l), F)
  BY <1>3, <1>4, SumSubset
<1>7. M # {} /\ (Cardinality(M) > LedgerMaxEntries \/ m.bytes > LedgerMaxBytes)
  BY DEF OverBounds, M, m
<1>8. F # {} /\ (Cardinality(F) > LedgerMaxEntries \/ f.bytes > LedgerMaxBytes)
  BY <1>1, <1>2, <1>3, <1>4, <1>5, <1>6, <1>7, LedgerAssumption
<1>9. QED BY <1>8 DEF OverBounds, F, f

(* evictLocked stops as soon as the ledger is within its bounds, or when   *)
(* nothing but open operations is left.                                    *)
LEMMA EvictExact ==
  ASSUME NEW l, Shape(l), Balanced(l)
  PROVE  Exact(Evict(l))
<1> DEFINE older(i) == {j \in Terminals(l) : j < i}
           D == {i \in Terminals(l) : OverBounds(Without(l, older(i)))}
           m == Without(l, D)
<1>1. Evict(l) = m BY DEF Evict
<1>2. Balanced(m) /\ Terminals(m) = Terminals(l) \ D
  <2> HIDE DEF D
  <2>1. QED BY WithoutBalanced
<1>3. ASSUME OverBounds(m), Terminals(m) # {} PROVE FALSE
  <2>0. Terminals(l) \in SUBSET Nat
    <3>1. l.highWater \in Nat /\ DOMAIN l.entries \subseteq 1..l.highWater BY DEF Shape
    <3>2. QED BY <3>1 DEF Terminals
  <2>1. Terminals(m) \in SUBSET Nat
    <3> HIDE DEF m, D
    <3>1. QED BY <1>2, <2>0
  <2> HIDE DEF m
  <2>2. PICK i \in Terminals(m) : \A k \in Terminals(m) : i <= k BY <1>3, <2>1, Least
  <2>3. i \in Terminals(l) /\ i \notin D BY <1>2, <2>2
  <2>4. older(i) \subseteq D
    <3>1. ASSUME NEW j \in Terminals(l), j < i PROVE j \in D
      <4>1. Terminals(l) \in SUBSET Nat BY DEF Terminals, Shape
      <4>2. j \notin Terminals(m) BY <2>2, <3>1, <4>1, <2>3
      <4>3. QED BY <1>2, <3>1, <4>2
    <3> HIDE DEF D
    <3>2. QED BY <3>1
  <2> DEFINE O == older(i)
  <2>5. O \subseteq D /\ ~OverBounds(Without(l, O)) BY <2>3, <2>4
  <2> HIDE DEF D, O
  <2>6. QED BY <1>3, <2>5, DroppingHelps DEF m
<1> HIDE DEF m
<1>4. QED BY <1>1, <1>2, <1>3 DEF Exact

LEMMA AppendBalanced ==
  ASSUME NEW l, Shape(l), Balanced(l), NEW entry,
         entry = [canonical |-> entry.canonical, state |-> entry.state,
                  admitted |-> entry.admitted, outcome |-> entry.outcome,
                  payload |-> entry.payload],
         entry.state \in {"admitted", "terminal"},
         entry.state = "terminal" => entry.outcome \in Outcomes,
         entry.payload = 0
  PROVE  Exact(Append1(l, l.highWater + 1, entry))
<1> DEFINE id == l.highWater + 1
           D == DOMAIN l.entries
           a == [highWater |-> id,
                 entries   |-> [i \in DOMAIN l.entries \cup {id} |->
                                  IF i = id THEN entry ELSE l.entries[i]],
                 bytes     |-> l.bytes + EntryOverhead]
<1>1. l.highWater \in Nat /\ D \subseteq 1..l.highWater BY DEF Shape
<1>2. id \notin D /\ id \in Nat BY <1>1
<1>3. /\ DOMAIN a.entries = D \cup {id} /\ a.entries[id] = entry /\ a.highWater = id
      /\ a.bytes = l.bytes + EntryOverhead
      /\ a = [highWater |-> a.highWater, entries |-> a.entries, bytes |-> a.bytes]
      /\ a.entries = [i \in DOMAIN a.entries |-> a.entries[i]]
  OBVIOUS
<1>4. \A i \in D : a.entries[i] = l.entries[i] BY <1>2
<1>5. Append1(l, id, entry) = Evict(a) BY DEF Append1
<1> HIDE DEF a
<1>6. Shape(a)
  <2>1. DOMAIN a.entries \subseteq 1..a.highWater BY <1>1, <1>3
  <2>2. ASSUME NEW i \in DOMAIN a.entries
        PROVE  /\ a.entries[i] = [canonical |-> a.entries[i].canonical,
                                  state |-> a.entries[i].state,
                                  admitted |-> a.entries[i].admitted,
                                  outcome |-> a.entries[i].outcome,
                                  payload |-> a.entries[i].payload]
               /\ a.entries[i].state \in {"admitted", "terminal"}
               /\ a.entries[i].state = "terminal" => a.entries[i].outcome \in Outcomes
    <3>1. CASE i = id BY <1>3, <3>1
    <3>2. CASE i # id BY <1>3, <1>4, <3>2 DEF Shape
    <3>3. QED BY <3>1, <3>2
  <2>3. QED BY <1>2, <1>3, <2>1, <2>2 DEF Shape
<1>7. \A i \in D : l.entries[i].payload \in Nat BY DEF Balanced
<1>8. /\ \A i \in DOMAIN a.entries : a.entries[i].payload \in Nat
      /\ \A i \in DOMAIN a.entries : a.entries[i].state = "admitted" => a.entries[i].payload = 0
  BY <1>3, <1>4, <1>7 DEF Balanced
<1>9. /\ IsFiniteSet(D) /\ l.bytes = SumFunctionOnSet(Weight(l), D)
      /\ \A i \in D : Weight(l)[i] \in Int
  BY <1>7, Weights DEF Balanced
<1>10. (\A i \in D : Weight(a)[i] = Weight(l)[i]) /\ Weight(a)[id] = EntryOverhead
  BY <1>2, <1>3, <1>4, LedgerAssumption DEF Weight, EntryBytes
<1> HIDE DEF D
<1>11. SumFunctionOnSet(Weight(l), D) = SumFunctionOnSet(Weight(a), D) BY <1>9, <1>10, SumSame
<1>12. \A i \in D \cup {id} : Weight(a)[i] \in Int BY <1>9, <1>10, LedgerAssumption
<1> HIDE DEF id
<1>13. SumFunctionOnSet(Weight(a), D \cup {id}) = SumFunctionOnSet(Weight(a), D) + Weight(a)[id]
  BY <1>2, <1>9, <1>12, SumAdd
<1>14. BytesOf(a, DOMAIN a.entries) = SumFunctionOnSet(Weight(a), DOMAIN a.entries)
  BY <1>6, <1>8, Weights
<1>15. Balanced(a) BY <1>3, <1>8, <1>9, <1>10, <1>11, <1>13, <1>14 DEF Balanced
<1>16. QED BY <1>5, <1>6, <1>15, EvictExact DEF id

LEMMA StepExact ==
  ASSUME NEW l, NEW m, Shape(l), Exact(l), LedgerStep(l, m)
  PROVE  Exact(m)
<1>0. Balanced(l) BY DEF Exact
<1>1. CASE m = l BY <1>1
<1>2. ASSUME NEW canonical \in AllMethods, m = Claim(l, l.highWater + 1, canonical)
      PROVE  Exact(m)
  <2> DEFINE e == [canonical |-> canonical, state |-> "admitted", admitted |-> TRUE,
                   outcome |-> None, payload |-> 0]
  <2>1. m = Append1(l, l.highWater + 1, e) BY <1>2 DEF Claim
  <2>2. e.state = "admitted" /\ e.payload = 0 OBVIOUS
  <2>3. e = [canonical |-> e.canonical, state |-> e.state, admitted |-> e.admitted,
             outcome |-> e.outcome, payload |-> e.payload] OBVIOUS
  <2> HIDE DEF e
  <2> QED BY <1>0, <2>1, <2>2, <2>3, AppendBalanced
<1>3. ASSUME NEW canonical \in AllMethods, NEW outcome \in Outcomes,
             m = ClaimRejection(l, l.highWater + 1, canonical, outcome)
      PROVE  Exact(m)
  <2> DEFINE e == [canonical |-> canonical, state |-> "terminal", admitted |-> FALSE,
                   outcome |-> outcome, payload |-> 0]
  <2>1. m = Append1(l, l.highWater + 1, e) BY <1>3 DEF ClaimRejection
  <2>2. e.state = "terminal" /\ e.outcome \in Outcomes /\ e.payload = 0 OBVIOUS
  <2>3. e = [canonical |-> e.canonical, state |-> e.state, admitted |-> e.admitted,
             outcome |-> e.outcome, payload |-> e.payload] OBVIOUS
  <2> HIDE DEF e
  <2> QED BY <1>0, <2>1, <2>2, <2>3, AppendBalanced
<1>4. ASSUME NEW id, NEW outcome \in Outcomes, NEW payload \in Nat,
             m = Complete(l, id, outcome, payload), Open(l, id)
      PROVE  Exact(m)
  <2> DEFINE e == [canonical |-> l.entries[id].canonical, state |-> "terminal",
                   admitted |-> l.entries[id].admitted, outcome |-> outcome,
                   payload |-> payload]
             a == [highWater |-> l.highWater, entries |-> [l.entries EXCEPT ![id] = e],
                   bytes |-> l.bytes + payload]
             D == DOMAIN l.entries
  <2>1. id \in D /\ l.entries[id].state = "admitted" BY <1>4 DEF Open
  <2>2. m = Evict(a) BY <1>4 DEF Complete
  <2>3. /\ e = [canonical |-> e.canonical, state |-> e.state, admitted |-> e.admitted,
                outcome |-> e.outcome, payload |-> e.payload]
        /\ e.state = "terminal" /\ e.outcome \in Outcomes /\ e.payload = payload
    OBVIOUS
  <2> HIDE DEF e
  <2>4. /\ DOMAIN a.entries = D /\ a.entries[id] = e
        /\ \A i \in D : i # id => a.entries[i] = l.entries[i]
        /\ a.highWater = l.highWater /\ a.bytes = l.bytes + payload
        /\ a = [highWater |-> a.highWater, entries |-> a.entries, bytes |-> a.bytes]
        /\ a.entries = [i \in DOMAIN a.entries |-> a.entries[i]]
    BY <2>1 DEF Shape
  <2> HIDE DEF a
  <2>5. Shape(a) BY <2>3, <2>4 DEF Shape
  <2>6. \A i \in D : l.entries[i].payload \in Nat BY <1>0 DEF Balanced
  <2>7. /\ \A i \in DOMAIN a.entries : a.entries[i].payload \in Nat
        /\ \A i \in DOMAIN a.entries : a.entries[i].state = "admitted" => a.entries[i].payload = 0
    BY <1>0, <2>3, <2>4, <2>6 DEF Balanced
  <2>8. /\ IsFiniteSet(D) /\ l.bytes = SumFunctionOnSet(Weight(l), D)
        /\ \A i \in D : Weight(l)[i] \in Int
    BY <1>0, <2>6, Weights DEF Balanced
  <2>9. l.entries[id].payload = 0 BY <1>0, <2>1 DEF Balanced
  <2>10. /\ \A i \in D \ {id} : Weight(a)[i] = Weight(l)[i]
         /\ Weight(a)[id] = Weight(l)[id] + payload
    BY <2>1, <2>3, <2>4, <2>9, LedgerAssumption DEF Weight, EntryBytes
  <2> HIDE DEF D
  <2>11. SumFunctionOnSet(Weight(a), D) = SumFunctionOnSet(Weight(l), D) + payload
    BY <2>1, <2>8, <2>10, SumChange
  <2>12. BytesOf(a, DOMAIN a.entries) = SumFunctionOnSet(Weight(a), DOMAIN a.entries)
    BY <2>5, <2>7, Weights
  <2>13. Balanced(a) BY <2>4, <2>7, <2>8, <2>11, <2>12 DEF Balanced
  <2>14. QED BY <2>2, <2>5, <2>13, EvictExact
<1>5. ASSUME NEW id, NEW outcome \in Outcomes, NEW payload \in Nat,
             m = Complete(l, id, outcome, payload), ~Open(l, id)
      PROVE  Exact(m)
  BY <1>1, <1>5 DEF Complete
<1>6. ASSUME NEW hw \in {l.highWater, l.highWater + 1}, m = [NewLedger EXCEPT !.highWater = hw]
      PROVE  Exact(m)
  <2>1. DOMAIN m.entries = {} /\ m.bytes = 0 BY <1>6 DEF NewLedger
  <2>2. BytesOf(m, {}) = 0 BY SumEmpty DEF BytesOf
  <2>3. QED BY <2>1, <2>2 DEF Exact, Balanced, OverBounds
<1> QED BY <1>1, <1>2, <1>3, <1>4, <1>5, <1>6 DEF LedgerStep

AllExact == \A s \in Sessions : Exact(ledger[s])

LEMMA InitExact == ASSUME Init PROVE AllExact
<1> SUFFICES ASSUME NEW s \in Sessions PROVE Exact(ledger[s])
  BY DEF AllExact
<1>1. ledger[s] = NewLedger BY DEF Init, SessionsInit
<1>2. DOMAIN NewLedger.entries = {} /\ NewLedger.bytes = 0 BY DEF NewLedger
<1>3. BytesOf(NewLedger, {}) = 0 BY SumEmpty DEF BytesOf
<1>4. QED BY <1>1, <1>2, <1>3 DEF Exact, Balanced, OverBounds

LEMMA NextExact == ASSUME IInv, AllExact, [Next]_vars PROVE AllExact'
BY NextLedgers, StepExact DEF AllExact, LedgersStep, IInv, LedgersShaped

(* The byte counter of every ledger is the size of what it retains, and    *)
(* only open operations, which evictLocked may not drop, take a ledger     *)
(* over ledgerMaxEntries or ledgerMaxBytes (ledger.go).                    *)
THEOREM LedgerRetention == Spec => []RetentionExact
<1>1. AllExact => RetentionExact BY DEF AllExact, Exact, Balanced, RetentionExact
<1>2. Init => IInv /\ AllExact BY InitIInv, InitExact
<1>3. IInv /\ AllExact /\ [Next]_vars => IInv' /\ AllExact' BY NextIInv, NextExact
<1>4. QED BY <1>1, <1>2, <1>3, PTL DEF Spec

=============================================================================
