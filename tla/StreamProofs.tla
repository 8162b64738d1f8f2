---------------------------- MODULE StreamProofs ----------------------------
(* Proofs about StreamHub and StreamDelivery, for any number of streams,   *)
(* records, kinds and connections and any retention bounds.  Of the hub:   *)
(* types, the order of the cursors, no silent gap, no live stream below    *)
(* the floor, the credit window of unfiltered streams, and a contiguous    *)
(* log within its bounds.  Of the server: it drives the hub only through   *)
(* the hub's own steps, so all of that holds of it too, and no unfiltered  *)
(* stream loses its wake-up.                                               *)
EXTENDS StreamDelivery, SequenceTheorems, Sums

USE StreamHubConstants

(* The retained records end at the head, without a hole.                   *)
Newest == \A n \in DOMAIN records : records[n] = head - Len(records) + n

(* A stream that was not watched yet has received nothing.                 *)
Fresh == \A s \in Streams : state[s] = "none" => delivered[s] = {}

HubInv ==
  /\ LogType /\ StreamType /\ Newest /\ Fresh
  /\ CursorsOrdered /\ NoSilentGap /\ LiveCanContinue /\ UnfilteredWindow

LEMMA Suffix ==
  ASSUME NEW S, NEW s \in Seq(S), NEW d \in 0..Len(s)
  PROVE  /\ SubSeq(s, d + 1, Len(s)) \in Seq(S)
         /\ Len(SubSeq(s, d + 1, Len(s))) = Len(s) - d
         /\ \A n \in 1..(Len(s) - d) : SubSeq(s, d + 1, Len(s))[n] = s[d + n]
<1>1. d \in Int /\ d + 1 \in Int /\ Len(s) \in Int /\ d <= Len(s) /\ 0 <= d OBVIOUS
<1>2. \A i \in (d + 1)..Len(s) : s[i] \in S BY <1>1
<1>3. /\ SubSeq(s, d + 1, Len(s)) \in Seq(S)
      /\ Len(SubSeq(s, d + 1, Len(s))) = IF d + 1 <= Len(s) THEN Len(s) - (d + 1) + 1 ELSE 0
      /\ \A i \in 1..(Len(s) - (d + 1) + 1) : SubSeq(s, d + 1, Len(s))[i] = s[d + 1 + i - 1]
  BY <1>1, <1>2, SubSeqProperties
<1>4. \A n \in Int : d + 1 + n - 1 = d + n BY <1>1
<1>5. QED BY <1>1, <1>3, <1>4

LEMMA RecordsInterval ==
  ASSUME LogType, Newest
  PROVE  /\ Len(records) \in 0..head
         /\ Range(records) = (head - Len(records) + 1)..head
         /\ records # <<>> => Floor = head - Len(records) + 1
<1>0. records \in Seq(1..MaxHead) /\ head \in Nat /\ Len(records) \in Nat
      /\ DOMAIN records = 1..Len(records)
  BY DEF LogType
<1>1. Len(records) <= head
  <2>1. CASE Len(records) = 0 BY <1>0, <2>1
  <2>2. CASE Len(records) > 0
    <3>1. 1 \in DOMAIN records /\ records[1] \in 1..MaxHead BY <1>0, <2>2
    <3>2. QED BY <1>0, <3>1 DEF Newest
  <2>3. QED BY <1>0, <2>1, <2>2
<1>2. Range(records) \subseteq (head - Len(records) + 1)..head
  BY <1>0, <1>1 DEF Newest, Range
<1>3. ASSUME NEW c \in (head - Len(records) + 1)..head PROVE c \in Range(records)
  <2> DEFINE n == c - head + Len(records)
  <2>1. n \in DOMAIN records /\ head - Len(records) + n = c BY <1>0, <1>1
  <2>2. records[n] = c BY <2>1 DEF Newest
  <2>3. QED BY <2>1, <2>2 DEF Range
<1>4. ASSUME records # <<>> PROVE Floor = head - Len(records) + 1
  <2>1. 1 \in DOMAIN records /\ Head(records) = records[1] BY ONLY <1>0, <1>4
  <2>2. records[1] = head - Len(records) + 1 BY <2>1 DEF Newest
  <2>3. QED BY ONLY <1>4, <2>1, <2>2 DEF Floor
<1>5. Range(records) = (head - Len(records) + 1)..head
  <2>1. (head - Len(records) + 1)..head \subseteq Range(records) BY ONLY <1>3
  <2>2. QED BY ONLY <1>2, <2>1
<1>6. Len(records) \in 0..head BY ONLY <1>0, <1>1
<1>7. QED BY ONLY <1>4, <1>5, <1>6

LEMMA HubInvInit == HubInit => HubInv
<1> SUFFICES ASSUME HubInit PROVE HubInv
  OBVIOUS
<1>1. LogType BY DEF HubInit, LogType
<1>2. StreamType BY DEF HubInit, StreamType, StreamStates
<1>3. Newest BY DEF HubInit, Newest
<1>4. Fresh BY DEF HubInit, Fresh
<1>5. CursorsOrdered BY DEF HubInit, CursorsOrdered
<1>6. NoSilentGap BY DEF HubInit, NoSilentGap
<1>7. LiveCanContinue BY DEF HubInit, LiveCanContinue
<1>8. UnfilteredWindow BY DEF HubInit, UnfilteredWindow
<1>9. QED BY <1>1, <1>2, <1>3, <1>4, <1>5, <1>6, <1>7, <1>8 DEF HubInv

(* A step that only ends streams keeps the invariant.                      *)
LEMMA EndingStep ==
  ASSUME HubInv, UNCHANGED <<logVars, sent, acked, delivered, specVars>>,
         state' \in [Streams -> StreamStates],
         \A s \in Streams : state'[s] \in {"live", "none"} => state'[s] = state[s]
  PROVE  HubInv'
<1> USE DEF HubInv, logVars, specVars
<1>1. LogType' /\ Newest' BY DEF LogType, Newest
<1>2. StreamType' BY DEF StreamType
<1>3. Fresh' BY DEF Fresh
<1>4. CursorsOrdered' /\ UnfilteredWindow' BY DEF CursorsOrdered, UnfilteredWindow
<1>5. NoSilentGap' BY DEF NoSilentGap, Matches
<1>6. LiveCanContinue' BY DEF LiveCanContinue, Floor
<1>7. QED BY <1>1, <1>2, <1>3, <1>4, <1>5, <1>6

LEMMA PublishStep ==
  ASSUME HubInv, NEW k \in Kinds, NEW aged \in 0..Len(records), Publish(k, aged)
  PROVE  HubInv'
<1> USE DEF HubInv
<1> DEFINE longer == Append(records, head + 1)
<1>0. /\ records \in Seq(1..MaxHead) /\ Len(records) \in Nat /\ head \in Nat
      /\ head' = head + 1 /\ head + 1 \in 1..MaxHead
      /\ event' = Append(event, k) /\ UNCHANGED <<sent, acked, delivered, specVars>>
  BY DEF LogType, Publish
<1>1. longer \in Seq(1..MaxHead) /\ Len(longer) = Len(records) + 1
      /\ \A n \in 1..Len(longer) : longer[n] = head + 1 - Len(longer) + n
  BY <1>0 DEF Newest
<1>2. PICK d \in aged..Len(longer) : records' = SubSeq(longer, d + 1, Len(longer))
  BY <1>0 DEF Publish, Evict
<1>3. records' \in Seq(1..MaxHead) /\ Len(records') = Len(longer) - d
      /\ \A n \in 1..Len(records') : records'[n] = longer[d + n]
  <2>1. d \in 0..Len(longer) BY <1>0, <1>1, <1>2
  <2> DEFINE rest == SubSeq(longer, d + 1, Len(longer))
  <2> HIDE DEF longer
  <2>2. rest \in Seq(1..MaxHead) /\ Len(rest) = Len(longer) - d
        /\ \A n \in 1..(Len(longer) - d) : rest[n] = longer[d + n]
    <3>1. longer \in Seq(1..MaxHead) BY <1>1
    <3>2. QED BY ONLY <2>1, <3>1, Suffix
  <2>3. QED BY ONLY <1>2, <2>2
<1>4. LogType'
  <2>1. event \in Seq(Kinds) /\ Len(event) = head BY DEF LogType
  <2>2. event' \in Seq(Kinds) /\ Len(event') = head'
    <3>1. head' = head + 1 /\ event' = Append(event, k) BY <1>0
    <3>2. QED BY ONLY <2>1, <3>1, k \in Kinds
  <2>3. head' \in 0..MaxHead BY ONLY <1>0
  <2>4. QED BY ONLY <1>3, <2>2, <2>3 DEF LogType
<1>5. Newest'
  <2>1. ASSUME NEW n \in 1..Len(records') PROVE records'[n] = head' - Len(records') + n
    <3> HIDE DEF longer
    <3>0. d \in Int /\ 0 <= d /\ d <= Len(longer) /\ Len(longer) \in Nat BY <1>0, <1>1, <1>2
    <3>1. d + n \in 1..Len(longer) /\ records'[n] = longer[d + n]
      <4>1. Len(records') = Len(longer) - d BY <1>3
      <4>2. n \in 1..(Len(longer) - d) BY ONLY <4>1, n \in 1..Len(records')
      <4>3. d + n \in 1..Len(longer) BY ONLY <3>0, <4>2
      <4>4. records'[n] = longer[d + n] BY <1>3
      <4>5. QED BY ONLY <4>3, <4>4
    <3>2. longer[d + n] = head + 1 - Len(longer) + (d + n) BY <1>1, <3>1
    <3>3. QED BY <1>0, <1>3, <3>0, <3>1, <3>2
  <2>2. DOMAIN records' = 1..Len(records') BY <1>3
  <2>3. QED BY <2>1, <2>2 DEF Newest
<1>6. state' = [s \in Streams |-> IF ExpiresAt(s, Floor') THEN "expired" ELSE state[s]]
  BY DEF Publish
<1>7. StreamType' /\ Fresh'
  BY <1>0, <1>6 DEF StreamType, StreamStates, Fresh, specVars
<1>8. CursorsOrdered' /\ UnfilteredWindow'
  BY <1>0 DEF CursorsOrdered, UnfilteredWindow, specVars, StreamType
<1>9. NoSilentGap'
  <2>1. \A c \in 1..head : event'[c] = event[c] BY <1>0 DEF LogType
  <2>2. ASSUME NEW s \in Streams
        PROVE  {c \in (after[s] + 1)..sent[s] : Matches(s, c)'}
               = {c \in (after[s] + 1)..sent[s] : Matches(s, c)}
    <3>1. \A c \in (after[s] + 1)..sent[s] : c \in 1..head
      BY <1>0 DEF CursorsOrdered, StreamType
    <3>2. QED BY <1>0, <2>1, <3>1 DEF Matches, specVars
  <2>3. QED BY <1>0, <2>2 DEF NoSilentGap, specVars
<1>10. LiveCanContinue'
  <2>1. ASSUME NEW s \in Streams, state'[s] = "live"
        PROVE  sent'[s] + 1 >= Floor'
    <3>1. ~ExpiresAt(s, Floor') /\ state[s] = "live" BY <1>6, <2>1
    <3>2. Floor' \in Nat BY <1>4 DEF LogType, Floor
    <3>3. QED BY <1>0, <3>1, <3>2 DEF ExpiresAt, StreamType
  <2>2. QED BY <2>1 DEF LiveCanContinue
<1>11. QED BY <1>4, <1>5, <1>7, <1>8, <1>9, <1>10

LEMMA WatchStep ==
  ASSUME HubInv, NEW s \in Streams, NEW p \in Positions, NEW f \in Filters, NEW k \in Credits,
         Watch(s, p, f, k)
  PROVE  HubInv'
<1> USE DEF HubInv
<1>0. /\ p \in 0..head /\ (p > 0 => p + 1 >= Floor) /\ UNCHANGED <<logVars, delivered>>
      /\ state[s] = "none" /\ state' = [state EXCEPT ![s] = "live"]
      /\ sent' = [sent EXCEPT ![s] = p] /\ acked' = [acked EXCEPT ![s] = p]
      /\ filter' = [filter EXCEPT ![s] = f] /\ credit' = [credit EXCEPT ![s] = k]
      /\ after' = [after EXCEPT ![s] = p]
  <2>1. p \in Nat /\ head \in Nat BY DEF Positions, LogType
  <2>2. Floor \in Nat BY DEF LogType, Floor
  <2>3. QED BY <2>1, <2>2 DEF Watch, Recoverable
<1>1. LogType' /\ Newest' BY <1>0 DEF LogType, Newest, logVars
<1>2. StreamType' BY <1>0, SMTT(30) DEF StreamType, StreamStates, LogType
<1>3. Fresh' BY <1>0 DEF Fresh, StreamType
<1>4. CursorsOrdered' BY <1>0 DEF CursorsOrdered, StreamType, LogType, logVars
<1>5. UnfilteredWindow' BY <1>0 DEF UnfilteredWindow, StreamType
<1>6. NoSilentGap'
  <2>1. delivered'[s] = {} BY <1>0 DEF Fresh
  <2>2. after'[s] = p /\ sent'[s] = p BY <1>0 DEF StreamType
  <2>3. (after'[s] + 1)..sent'[s] = {} BY <1>0, <2>2
  <2>4. ASSUME NEW r \in Streams, r # s
        PROVE  delivered'[r] = {c \in (after'[r] + 1)..sent'[r] : Matches(r, c)'}
    BY <1>0, <2>4 DEF NoSilentGap, Matches, StreamType, logVars
  <2>5. QED BY <2>1, <2>3, <2>4 DEF NoSilentGap
<1>7. LiveCanContinue' BY <1>0 DEF LiveCanContinue, Floor, StreamType, logVars
<1>8. QED BY <1>1, <1>2, <1>3, <1>4, <1>5, <1>6, <1>7

LEMMA AckStep ==
  ASSUME HubInv, NEW s \in Streams, NEW p \in Positions, Ack(s, p)
  PROVE  HubInv'
<1> USE DEF HubInv
<1>0. /\ p \in Nat /\ acked[s] <= p /\ p <= sent[s] /\ acked' = [acked EXCEPT ![s] = p]
      /\ UNCHANGED <<logVars, state, sent, delivered, specVars>>
  BY DEF Ack, AckInRange, Positions
<1>1. LogType' /\ Newest' BY <1>0 DEF LogType, Newest, logVars
<1>2. StreamType' /\ Fresh' BY <1>0 DEF StreamType, Fresh, specVars
<1>3. CursorsOrdered' BY <1>0 DEF CursorsOrdered, StreamType, LogType, logVars, specVars
<1>4. UnfilteredWindow' BY <1>0 DEF UnfilteredWindow, StreamType, specVars
<1>5. NoSilentGap' BY <1>0 DEF NoSilentGap, Matches, logVars, specVars
<1>6. LiveCanContinue' BY <1>0 DEF LiveCanContinue, Floor, logVars
<1>7. QED BY <1>1, <1>2, <1>3, <1>4, <1>5, <1>6

(* The records ahead of a live stream are all those after its position,    *)
(* and a stream without a filter matches each of them.                     *)
LEMMA AheadInterval ==
  ASSUME HubInv, NEW s \in Streams, ~ExpiresAt(s, Floor), state[s] = "live", records # <<>>
  PROVE  /\ Ahead(s) = (sent[s] + 1)..head
         /\ filter[s] = Kinds => \A c \in Ahead(s) : Matches(s, c)
<1> USE DEF HubInv
<1>0. head \in Nat /\ sent[s] \in Nat /\ sent[s] <= head
  BY DEF LogType, StreamType, CursorsOrdered
<1>1. /\ Len(records) \in 0..head /\ Range(records) = (head - Len(records) + 1)..head
      /\ Floor = head - Len(records) + 1
  BY RecordsInterval
<1>2. sent[s] + 1 >= head - Len(records) + 1
  BY <1>0, <1>1 DEF ExpiresAt
<1>3. Ahead(s) = (sent[s] + 1)..head
  BY <1>0, <1>1, <1>2 DEF Ahead
<1>4. filter[s] = Kinds => \A c \in Ahead(s) : Matches(s, c)
  BY <1>0, <1>3 DEF Matches, LogType
<1>5. QED BY <1>3, <1>4

(* What one Drain takes is a contiguous run of records from sent+1: a      *)
(* record before one that had credit had credit as well.                   *)
LEMMA TakenPrefix ==
  ASSUME HubInv, NEW s \in Streams, ~ExpiresAt(s, Floor), state[s] = "live",
         NEW e \in Taken(s)
  PROVE  /\ e \in Nat /\ sent[s] < e /\ e <= head
         /\ \A c \in (sent[s] + 1)..e : c \in Ahead(s) /\ c \in Taken(s)
         /\ filter[s] = Kinds => e - acked[s] <= credit[s]
<1> USE DEF HubInv
<1>0. /\ head \in Nat /\ sent[s] \in Nat /\ acked[s] \in Nat /\ credit[s] \in 1..8
      /\ sent[s] <= head /\ acked[s] <= sent[s] /\ head <= MaxHead
  BY DEF LogType, StreamType, CursorsOrdered
<1>1. e \in Ahead(s) /\ HasCredit(s, e) BY DEF Taken
<1>2. records # <<>> BY <1>1 DEF Ahead, Range
<1>3. Ahead(s) = (sent[s] + 1)..head BY <1>2, AheadInterval
<1>4. e \in Nat /\ sent[s] < e /\ e <= head BY <1>0, <1>1, <1>3
<1>5. IsFiniteSet(Ahead(s))
  <2>1. sent[s] + 1 \in Int /\ head \in Int BY <1>0
  <2>2. IsFiniteSet((sent[s] + 1)..head) BY ONLY <2>1, FS_Interval
  <2>3. QED BY <1>3, <2>2
<1>6. ASSUME NEW c \in (sent[s] + 1)..e PROVE c \in Ahead(s) /\ c \in Taken(s)
  <2>1. c \in Ahead(s) BY <1>0, <1>3, <1>4
  <2> DEFINE before(x) == {b \in Ahead(s) : b < x /\ Matches(s, b)}
  <2>2. before(e) \subseteq Ahead(s) OBVIOUS
  <2>3. IsFiniteSet(before(e)) BY <1>5, <2>2, FS_Subset
  <2>4. before(c) \subseteq before(e) BY <1>0, <1>3, <1>4
  <2>5. Cardinality(before(c)) <= Cardinality(before(e)) BY <2>3, <2>4, FS_Subset
  <2>6. IsFiniteSet(before(c)) BY <2>3, <2>4, FS_Subset
  <2>7. Cardinality(before(c)) \in Nat /\ Cardinality(before(e)) \in Nat
    BY <2>3, <2>6, FS_CardinalityType
  <2>8. Cardinality(before(e)) < CreditLeft(s) BY <1>1 DEF HasCredit
  <2>9. CreditLeft(s) \in Int BY <1>0 DEF CreditLeft, Word
  <2>10. Cardinality(before(c)) < CreditLeft(s) BY <2>5, <2>7, <2>8, <2>9
  <2>11. HasCredit(s, c) BY <2>10 DEF HasCredit
  <2>12. QED BY <2>1, <2>11 DEF Taken
<1>7. ASSUME filter[s] = Kinds PROVE e - acked[s] <= credit[s]
  <2>1. \A c \in Ahead(s) : Matches(s, c)
    BY <1>2, <1>7, AheadInterval
  <2>2. {b \in Ahead(s) : b < e /\ Matches(s, b)} = (sent[s] + 1)..(e - 1)
    BY <1>0, <1>3, <1>4, <2>1
  <2>3. Cardinality((sent[s] + 1)..(e - 1)) = e - 1 - sent[s]
    <3>1. sent[s] + 1 \in Int /\ e - 1 \in Int BY <1>0, <1>4
    <3>2. Cardinality((sent[s] + 1)..(e - 1))
          = IF sent[s] + 1 > e - 1 THEN 0 ELSE (e - 1) - (sent[s] + 1) + 1
      BY ONLY <3>1, FS_Interval
    <3>3. QED BY <1>0, <1>4, <3>2
  <2>4. e - 1 - sent[s] < CreditLeft(s) BY <1>1, <2>2, <2>3 DEF HasCredit
  <2>5. sent[s] - acked[s] <= credit[s] BY <1>7 DEF UnfilteredWindow
  <2>6. CreditLeft(s) = credit[s] - (sent[s] - acked[s]) BY <1>0, <2>5 DEF CreditLeft, Word
  <2>7. QED BY <1>0, <1>4, <2>4, <2>6
<1>8. QED BY <1>4, <1>6, <1>7

(* A Drain of a stream without a filter leaves nothing that has credit.    *)
LEMMA DrainedOut ==
  ASSUME HubInv, NEW s \in Streams, NEW e \in Positions, DrainTo(s, e), filter[s] = Kinds
  PROVE  ~Sendable(s)'
<1> USE DEF HubInv
<1>0. /\ state[s] = "live" /\ ~ExpiresAt(s, Floor)
      /\ e \in Taken(s) \cup {sent[s]} /\ \A c \in Taken(s) : c <= e
      /\ sent'[s] = e /\ UNCHANGED <<logVars, state, acked, specVars>>
  BY DEF DrainTo, StreamType
<1>1. /\ head \in Nat /\ sent[s] \in Nat /\ acked[s] \in Nat /\ credit[s] \in 1..8
      /\ sent[s] <= head /\ acked[s] <= sent[s] /\ Floor \in Nat
      /\ sent[s] - acked[s] <= credit[s]
  BY DEF LogType, StreamType, CursorsOrdered, Floor, UnfilteredWindow
<1>2. e \in Nat /\ sent[s] <= e
  BY <1>0, <1>1, TakenPrefix
<1>3. ~BelowFloor(s)'
  <2>1. sent[s] + 1 >= Floor BY <1>0, <1>1 DEF ExpiresAt
  <2>2. Floor' = Floor BY <1>0 DEF Floor, logVars
  <2>3. QED BY <1>0, <1>1, <1>2, <2>1, <2>2 DEF BelowFloor
<1>4. ASSUME Undelivered(s)' PROVE credit[s] <= e - acked[s]
  <2>1. PICK c \in Range(records) : c > e
    BY <1>0, <1>4 DEF Undelivered, Ahead, logVars
  <2>2. records # <<>> BY <2>1 DEF Range
  <2>3. Ahead(s) = (sent[s] + 1)..head /\ \A b \in Ahead(s) : Matches(s, b)
    BY <1>0, <2>2, AheadInterval
  <2>4. Len(records) \in 0..head /\ Range(records) = (head - Len(records) + 1)..head
    BY RecordsInterval
  <2>5. e + 1 \in Ahead(s) BY <1>1, <1>2, <2>1, <2>3, <2>4
  <2>6. ~HasCredit(s, e + 1) BY <1>0, <1>2, <2>5 DEF Taken
  <2>7. {b \in Ahead(s) : b < e + 1 /\ Matches(s, b)} = (sent[s] + 1)..e
    BY <1>1, <1>2, <2>3, <2>5
  <2>8. Cardinality((sent[s] + 1)..e) = e - sent[s]
    <3>1. sent[s] + 1 \in Int /\ e \in Int BY <1>1, <1>2
    <3>2. Cardinality((sent[s] + 1)..e) = IF sent[s] + 1 > e THEN 0 ELSE e - (sent[s] + 1) + 1
      BY ONLY <3>1, FS_Interval
    <3>3. QED BY <1>1, <1>2, <3>2
  <2>9. CreditLeft(s) = credit[s] - (sent[s] - acked[s]) BY <1>1 DEF CreditLeft, Word
  <2>10. ~(e - sent[s] < CreditLeft(s)) BY <2>6, <2>7, <2>8 DEF HasCredit
  <2>11. QED BY ONLY <1>1, <1>2, <2>9, <2>10
<1>5. QED BY <1>0, <1>1, <1>2, <1>3, <1>4 DEF Sendable, specVars

LEMMA DrainStep ==
  ASSUME HubInv, NEW s \in Streams, NEW e \in Positions, DrainTo(s, e)
  PROVE  HubInv'
<1> USE DEF HubInv
<1>0. /\ state[s] = "live" /\ ~ExpiresAt(s, Floor)
      /\ e \in Taken(s) \cup {sent[s]} /\ \A c \in Taken(s) : c <= e
      /\ sent' = [sent EXCEPT ![s] = e]
      /\ delivered' = [delivered EXCEPT ![s] = @ \cup {c \in Taken(s) : Matches(s, c)}]
      /\ UNCHANGED <<logVars, state, acked, specVars>>
  BY DEF DrainTo
<1>1. /\ head \in Nat /\ sent[s] \in Nat /\ acked[s] \in Nat /\ after[s] \in Nat
      /\ after[s] <= acked[s] /\ acked[s] <= sent[s] /\ sent[s] <= head /\ head <= MaxHead
  BY DEF LogType, StreamType, CursorsOrdered
<1>2. e \in Nat /\ sent[s] <= e /\ e <= head
  BY <1>0, <1>1, TakenPrefix
<1>3. Taken(s) = (sent[s] + 1)..e
  <2>1. ASSUME NEW c \in Taken(s) PROVE c \in (sent[s] + 1)..e
    BY <1>0, <1>1, <1>2, TakenPrefix
  <2>2. ASSUME NEW c \in (sent[s] + 1)..e PROVE c \in Taken(s)
    <3>1. e # sent[s] BY <1>1, <1>2
    <3>2. e \in Taken(s) BY <1>0, <3>1
    <3>3. QED BY <1>0, <3>2, TakenPrefix
  <2>3. QED BY <2>1, <2>2
<1>4. LogType' /\ Newest' BY <1>0 DEF LogType, Newest, logVars
<1>5. StreamType'
  <2>1. {c \in Taken(s) : Matches(s, c)} \in SUBSET (1..MaxHead) BY <1>1, <1>2, <1>3
  <2>2. delivered' \in [Streams -> SUBSET (1..MaxHead)]
    <3>1. delivered[s] \cup {c \in Taken(s) : Matches(s, c)} \in SUBSET (1..MaxHead)
      BY <2>1 DEF StreamType
    <3>2. QED BY <1>0, <3>1 DEF StreamType
  <2>3. sent' \in [Streams -> 0..MaxHead] BY <1>0, <1>1, <1>2 DEF StreamType
  <2>4. QED BY <1>0, <2>2, <2>3 DEF StreamType, specVars
<1>6. Fresh' BY <1>0 DEF Fresh, StreamType
<1>7. CursorsOrdered'
  BY <1>0, <1>1, <1>2 DEF CursorsOrdered, StreamType, logVars, specVars
<1>8. UnfilteredWindow'
  <2>1. filter[s] = Kinds => e - acked[s] <= credit[s]
    BY <1>0, TakenPrefix DEF UnfilteredWindow
  <2>2. QED BY <1>0, <2>1 DEF UnfilteredWindow, StreamType, specVars
<1>9. NoSilentGap'
  <2>1. delivered[s] = {c \in (after[s] + 1)..sent[s] : Matches(s, c)} BY DEF NoSilentGap
  <2>2. delivered'[s] = delivered[s] \cup {c \in (sent[s] + 1)..e : Matches(s, c)}
    BY <1>0, <1>3 DEF StreamType
  <2>3. (after[s] + 1)..e = ((after[s] + 1)..sent[s]) \cup ((sent[s] + 1)..e)
    BY <1>1, <1>2
  <2>4. delivered'[s] = {c \in (after[s] + 1)..e : Matches(s, c)}
    BY <2>1, <2>2, <2>3
  <2>5. \A r \in Streams, c \in Nat : Matches(r, c)' = Matches(r, c)
    BY <1>0 DEF Matches, logVars, specVars
  <2>6. sent'[s] = e /\ after'[s] = after[s] BY <1>0 DEF StreamType, specVars
  <2>7. delivered'[s] = {c \in (after'[s] + 1)..sent'[s] : Matches(s, c)'}
    BY <1>0, <2>4, <2>6 DEF Matches, logVars, specVars
  <2>8. ASSUME NEW r \in Streams, r # s
        PROVE  delivered'[r] = {c \in (after'[r] + 1)..sent'[r] : Matches(r, c)'}
    BY <1>0, <2>8 DEF NoSilentGap, Matches, StreamType, logVars, specVars
  <2>9. QED BY <2>7, <2>8 DEF NoSilentGap
<1>10. LiveCanContinue'
  <2>1. Floor \in Nat /\ Floor' = Floor BY <1>0 DEF LogType, Floor, logVars
  <2>2. sent[s] + 1 >= Floor BY <1>0, <1>1, <2>1 DEF ExpiresAt
  <2>3. QED BY <1>0, <1>1, <1>2, <2>1, <2>2 DEF LiveCanContinue, StreamType
<1>11. QED BY <1>4, <1>5, <1>6, <1>7, <1>8, <1>9, <1>10

LEMMA HubInvStep == HubInv /\ [HubNext]_hubVars => HubInv'
<1> SUFFICES ASSUME HubInv, [HubNext]_hubVars PROVE HubInv'
  OBVIOUS
<1>0. state \in [Streams -> StreamStates] BY DEF HubInv, StreamType
<1>1. ASSUME NEW s \in Streams, Cancel(s) PROVE HubInv'
  BY <1>0, <1>1, EndingStep DEF Cancel, CancelStreams, StreamStates
<1>2. ASSUME NEW c \in Conns, CloseConnection(c) PROVE HubInv'
  BY <1>0, <1>2, EndingStep DEF CloseConnection, CancelStreams, StreamStates
<1>3. ASSUME NEW x \in Sessions, CloseSession(x) PROVE HubInv'
  BY <1>0, <1>3, EndingStep DEF CloseSession, CancelStreams, StreamStates
<1>4. ASSUME NEW s \in Streams, DrainExpire(s) PROVE HubInv'
  BY <1>0, <1>4, EndingStep DEF DrainExpire, StreamStates
<1>5. ASSUME NEW s \in Streams, Sweep(s) PROVE HubInv'
  BY <1>0, <1>5, EndingStep DEF Sweep, StreamStates
<1>6. CASE UNCHANGED hubVars
  BY <1>0, <1>6, EndingStep DEF hubVars, streamVars
<1>7. QED
  BY <1>1, <1>2, <1>3, <1>4, <1>5, <1>6, PublishStep, WatchStep, AckStep, DrainStep DEF HubNext

(* The hub of drive/stream.go, whoever calls its methods and in whatever   *)
(* order, never lets a stream skip a record that its filter matches: what  *)
(* Drain has returned is exactly the matching part of the log between the  *)
(* position of its Watch and its own.                                      *)
THEOREM HubNoSilentGap == HubSpec => []NoSilentGap
<1>1. HubInv => NoSilentGap BY DEF HubInv
<1>2. QED BY <1>1, HubInvInit, HubInvStep, PTL DEF HubSpec

(* Append and Watch leave no live stream below the retention floor, save   *)
(* one that watched from position 0.                                       *)
THEOREM HubLiveCanContinue == HubSpec => []LiveCanContinue
<1>1. HubInv => LiveCanContinue BY DEF HubInv
<1>2. QED BY <1>1, HubInvInit, HubInvStep, PTL DEF HubSpec

(* The unsigned differences sent - acked of Drain, Ack and                 *)
(* collectSendableLocked never wrap: acked <= sent <= head.                *)
THEOREM HubCursorsOrdered == HubSpec => []CursorsOrdered
<1>1. HubInv => CursorsOrdered BY DEF HubInv
<1>2. QED BY <1>1, HubInvInit, HubInvStep, PTL DEF HubSpec

(* A stream without a filter stays within its credit window: the credit    *)
(* that Drain computes does not wrap for it.                               *)
THEOREM HubUnfilteredWindow == HubSpec => []UnfilteredWindow
<1>1. HubInv => UnfilteredWindow BY DEF HubInv
<1>2. QED BY <1>1, HubInvInit, HubInvStep, PTL DEF HubSpec

-----------------------------------------------------------------------------
(* The bounds of the log.                                                  *)

LEMMA OneRecordBytes ==
  ASSUME NEW c, NEW events, Size[events[c]] \in Int
  PROVE  Bytes(<<c>>, events) = Size[events[c]]
<1> DEFINE recs == <<c>>
           f == [n \in DOMAIN recs |-> Size[events[recs[n]]]]
<1>1. DOMAIN recs = {1} /\ recs[1] = c OBVIOUS
<1>2. DOMAIN f = {} \cup {1} /\ f[1] = Size[events[c]] BY <1>1
<1>3. Bytes(recs, events) = SumFunctionOnSet(f, {} \cup {1}) BY <1>1, <1>2 DEF Bytes, SumFunction
<1> HIDE DEF f
<1>4. IsFiniteSet({}) /\ 1 \notin {} /\ \A y \in {} \cup {1} : f[y] \in Int BY <1>2, FS_EmptySet
<1>5. SumFunctionOnSet(f, {} \cup {1}) = SumFunctionOnSet(f, {}) + f[1] BY <1>4, SumAdd
<1>6. SumFunctionOnSet(f, {}) = 0 BY SumEmpty
<1>7. QED BY <1>2, <1>3, <1>5, <1>6

(* evictLocked stops at the latest at the record just appended, which is   *)
(* within the bounds by itself: RetentionAge, too, spares it.              *)
LEMMA EvictKeepsNewest ==
  ASSUME HubInv, NEW k \in Kinds, NEW aged \in 0..Len(records), Publish(k, aged)
  PROVE  records' # <<>> /\ WithinBounds(records', event')
<1> USE DEF HubInv
<1> DEFINE longer == Append(records, head + 1)
           last == SubSeq(longer, Len(longer), Len(longer))
<1>0. /\ records \in Seq(1..MaxHead) /\ Len(records) \in Nat /\ head \in Nat /\ head + 1 \in 1..MaxHead
      /\ event \in Seq(Kinds) /\ Len(event) = head /\ event' = Append(event, k)
      /\ Size[k] <= MaxRecordBytes /\ records' \in Evict(longer, event', aged)
  BY DEF LogType, Publish
<1>1. longer \in Seq(1..MaxHead) /\ Len(longer) = Len(records) + 1 /\ longer[Len(longer)] = head + 1
  BY <1>0
<1>2. event'[head + 1] = k BY ONLY <1>0, k \in Kinds
<1> HIDE DEF longer
<1>3. PICK d \in aged..Len(longer) :
         /\ records' = SubSeq(longer, d + 1, Len(longer))
         /\ WithinBounds(SubSeq(longer, d + 1, Len(longer)), event')
         /\ \A m \in aged..(d - 1) : ~WithinBounds(SubSeq(longer, m + 1, Len(longer)), event')
  BY <1>0 DEF Evict
<1>4. last = <<head + 1>>
  <2>1. Len(records) \in 0..Len(longer) /\ Len(records) + 1 = Len(longer) /\ Len(longer) - Len(records) = 1
    BY <1>0, <1>1
  <2>2. /\ last \in Seq(1..MaxHead) /\ Len(last) = 1
        /\ \A n \in 1..1 : last[n] = longer[Len(records) + n]
    <3>1. /\ SubSeq(longer, Len(records) + 1, Len(longer)) \in Seq(1..MaxHead)
          /\ Len(SubSeq(longer, Len(records) + 1, Len(longer))) = Len(longer) - Len(records)
          /\ \A n \in 1..(Len(longer) - Len(records)) :
                SubSeq(longer, Len(records) + 1, Len(longer))[n] = longer[Len(records) + n]
      BY <1>1, <2>1, Suffix
    <3>2. QED BY <2>1, <3>1
  <2> HIDE DEF last
  <2>3. last[1] = head + 1 BY <1>1, <2>2
  <2>4. QED BY <2>2, <2>3
<1>5. WithinBounds(last, event')
  <2>1. Size[event'[head + 1]] \in Int BY <1>2
  <2>2. Bytes(<<head + 1>>, event') = Size[k] BY <1>2, <2>1, OneRecordBytes
  <2>3. Len(<<head + 1>>) = 1 OBVIOUS
  <2>4. QED BY <1>0, <1>4, <2>2, <2>3 DEF WithinBounds
<1>6. d <= Len(records)
  <2> SUFFICES ASSUME d = Len(longer) PROVE FALSE
    BY <1>0, <1>1, <1>3
  <2>1. Len(records) \in aged..(d - 1) /\ Len(records) + 1 = Len(longer) BY <1>0, <1>1
  <2>2. ~WithinBounds(SubSeq(longer, Len(records) + 1, Len(longer)), event') BY <1>3, <2>1
  <2>3. QED BY <1>5, <2>1, <2>2
<1>7. Len(records') = Len(longer) - d
  <2>1. d \in 0..Len(longer) BY <1>0, <1>1, <1>3
  <2>2. Len(SubSeq(longer, d + 1, Len(longer))) = Len(longer) - d BY <1>1, <2>1, Suffix
  <2>3. QED BY <1>3, <2>2
<1>8. Len(records') # 0 BY <1>0, <1>1, <1>3, <1>6, <1>7
<1>9. records' # <<>>
  <2>1. Len(<<>>) = 0 OBVIOUS
  <2>2. QED BY ONLY <1>8, <2>1
<1>10. QED BY <1>3, <1>9

LEMMA LogStep == HubInv /\ LogContiguous /\ [HubNext]_hubVars => LogContiguous'
<1> SUFFICES ASSUME HubInv, LogContiguous, [HubNext]_hubVars PROVE LogContiguous'
  OBVIOUS
<1>1. ASSUME NEW k \in Kinds, NEW aged \in 0..Len(records), Publish(k, aged) PROVE LogContiguous'
  <2>1. Newest' BY <1>1, PublishStep DEF HubInv
  <2>2. QED BY <1>1, <2>1, EvictKeepsNewest DEF Newest, LogContiguous, WithinBounds
<1>2. CASE UNCHANGED logVars BY <1>2 DEF logVars, LogContiguous
<1>3. QED
  BY <1>1, <1>2 DEF HubNext, Watch, Ack, DrainTo, Cancel, DrainExpire, Sweep, CloseConnection,
     CloseSession, CancelStreams, hubVars

(* The retained log is the newest records without a hole, never empty once *)
(* something was appended, and within the bounds on records and bytes,     *)
(* whichever of them and of RetentionAge made evictLocked drop the rest    *)
(* (stream.go:332-348).                                                    *)
THEOREM HubLogContiguous == HubSpec => []LogContiguous
<1>1. HubInit => LogContiguous
  <2> SUFFICES ASSUME HubInit PROVE LogContiguous
    OBVIOUS
  <2>1. records = <<>> /\ head = 0 BY DEF HubInit
  <2> DEFINE f == [n \in DOMAIN records |-> Size[event[records[n]]]]
  <2>2. DOMAIN f = {} BY <2>1
  <2>3. Bytes(records, event) = SumFunctionOnSet(f, DOMAIN f) BY DEF Bytes, SumFunction
  <2> HIDE DEF f
  <2>4. Bytes(records, event) = 0 BY <2>2, <2>3, SumEmpty
  <2>5. QED BY <2>1, <2>4 DEF LogContiguous
<1>2. QED BY <1>1, HubInvInit, HubInvStep, LogStep, PTL DEF HubSpec

-----------------------------------------------------------------------------
(* Every step of the delivery is a step of the hub or leaves it alone.     *)

LEMMA HubStepOf == [Next]_vars => [HubNext]_hubVars
<1> SUFFICES ASSUME [Next]_vars PROVE [HubNext]_hubVars
  OBVIOUS
<1>1. ASSUME NEW k \in Kinds, NEW aged \in 0..Len(records), Emit(k, aged) PROVE HubNext
  BY <1>1 DEF Emit, HubNext
<1>2. ASSUME NEW s \in Streams, SubCancel(s) PROVE HubNext
  BY <1>2 DEF SubCancel, HubNext
<1>3. ASSUME NEW s \in Streams, NEW p \in Positions, NEW f \in Filters, NEW k \in Credits,
             SubWatch(s, p, f, k)
      PROVE  HubNext
  BY <1>3 DEF SubWatch, HubNext
<1>4. ASSUME NEW s \in Streams, NEW p \in Positions, ClientAck(s, p) PROVE HubNext
  BY <1>4 DEF ClientAck, HubNext
<1>5. ASSUME NEW x \in Sessions, Revoke(x) PROVE HubNext
  BY <1>5 DEF Revoke, HubNext
<1>6. ASSUME NEW c \in Conns, CloseStreams(c) PROVE HubNext
  BY <1>6 DEF CloseStreams, HubNext
<1>7. ASSUME NEW c \in Conns, NEW s \in Streams, NEW e \in Positions, LoopDelivers(c, s, e)
      PROVE  HubNext
  BY <1>7 DEF LoopDelivers, HubNext
<1>8. ASSUME NEW c \in Conns, NEW s \in Streams, LoopExpires(c, s) PROVE [HubNext]_hubVars
  BY <1>8 DEF LoopExpires, HubNext
<1>9. ASSUME NEW s \in Streams, Notify(s) \/ AwaitNext(s) PROVE UNCHANGED hubVars
  BY <1>9 DEF Notify, AwaitNext, BindDelivery, BindRegister, BindSignal, BindReport, AwaitGivesUp
<1>10. ASSUME NEW c \in Conns, LoopWakes(c) \/ AckSignals(c) \/ CloseBegins(c) \/ CloseDetaches(c)
       PROVE  UNCHANGED hubVars
  BY <1>10 DEF LoopWakes, AckSignals, CloseBegins, CloseDetaches
<1>11. ASSUME NEW c \in Conns, NEW s \in Streams, LoopSkips(c, s) PROVE UNCHANGED hubVars
  BY <1>11 DEF LoopSkips
<1>12. CASE UNCHANGED vars BY <1>12 DEF vars
<1>13. CASE Next
  BY <1>1, <1>2, <1>3, <1>4, <1>5, <1>6, <1>7, <1>8, <1>9, <1>10, <1>11, <1>13
     DEF Next, LoopNext
<1>14. QED BY <1>12, <1>13

(* The composition implements the hub: server.go and drive_streams.go      *)
(* reach the log and the streams only through the hub's methods, so what   *)
(* the hub promises holds of every stream the server delivers.             *)
THEOREM DeliveryImplementsHub == Spec => HubSpec
<1>1. Init => HubInit BY DEF Init
<1>2. QED BY <1>1, HubStepOf, PTL DEF Spec, HubSpec

(* A subscriber never misses a record that its filter matches.             *)
THEOREM DeliveryNoSilentGap == Spec => []NoSilentGap
BY DeliveryImplementsHub, HubNoSilentGap, PTL

-----------------------------------------------------------------------------
(* No lost wake-up.                                                        *)

ConnType ==
  /\ conn \in [Conns -> {"open", "unlinked", "cancelled", "closed"}]
  /\ bound \in [Conns -> SUBSET Streams] /\ loop \in [Conns -> SUBSET Streams]
  /\ await \in [Streams -> {"none", "reply", "live", "terminal", "signal", "report", "done"}]
  /\ toNotify \subseteq Streams

FlagType == streamDrain \in [Conns -> BOOLEAN] /\ ackSignal \in [Conns -> BOOLEAN]

(* The bind of a stream: it starts with the watch, takes the stream for    *)
(* terminal only when it is, and leaves a live stream in the map of its    *)
(* connection.                                                             *)
Binding ==
  /\ \A c \in Conns : \A s \in bound[c] \cup loop[c] : Conn[s] = c
  /\ \A s \in Streams : state[s] = "none" <=> await[s] = "none"
  /\ \A s \in Streams : await[s] \in {"terminal", "report"} => state[s] # "live"
  /\ \A s \in Streams :
        await[s] \in {"signal", "done"} /\ state[s] = "live" /\ conn[Conn[s]] = "open"
           => s \in bound[Conn[s]]

DeliveryInv == HubInv /\ ConnType /\ FlagType /\ Binding /\ NoLostWakeup

LEMMA DeliveryInvInit == Init => DeliveryInv
<1> SUFFICES ASSUME Init PROVE DeliveryInv
  OBVIOUS
<1>1. HubInv BY HubInvInit DEF Init
<1>2. ConnType BY DEF Init, ConnType
<1>3. FlagType BY DEF Init, FlagType
<1>4. Binding BY DEF Init, HubInit, Binding
<1>5. NoLostWakeup BY DEF Init, HubInit, NoLostWakeup, Sendable
<1>6. QED BY <1>1, <1>2, <1>3, <1>4, <1>5 DEF DeliveryInv

LEMMA DeliveryTypeStep == ConnType /\ FlagType /\ [Next]_vars => ConnType' /\ FlagType'
<1> SUFFICES ASSUME ConnType, FlagType, [Next]_vars PROVE ConnType' /\ FlagType'
  OBVIOUS
<1>1. ASSUME NEW k \in Kinds, NEW aged \in 0..Len(records), Emit(k, aged)
      PROVE  ConnType' /\ FlagType'
  <2>1. ConnType' BY <1>1 DEF Emit, ConnType, Signalled
  <2>2. FlagType' BY <1>1 DEF Emit, FlagType, Signalled
  <2>3. QED BY <2>1, <2>2
<1>2. ASSUME NEW s \in Streams, Notify(s)
      PROVE  ConnType' /\ FlagType'
  <2>1. ConnType' BY <1>2 DEF Notify, ConnType, SignalDrain
  <2>2. FlagType' BY <1>2 DEF Notify, FlagType, SignalDrain
  <2>3. QED BY <2>1, <2>2
<1>3. ASSUME NEW s \in Streams, NEW p \in Positions, NEW f \in Filters, NEW k \in Credits, SubWatch(s, p, f, k)
      PROVE  ConnType' /\ FlagType'
  <2>1. ConnType' BY <1>3 DEF SubWatch, ConnType
  <2>2. FlagType' BY <1>3 DEF SubWatch, FlagType
  <2>3. QED BY <2>1, <2>2
<1>4. ASSUME NEW s \in Streams, SubCancel(s)
      PROVE  ConnType' /\ FlagType'
  <2>1. ConnType' BY <1>4 DEF SubCancel, ConnType, connVars
  <2>2. FlagType' BY <1>4 DEF SubCancel, FlagType, connVars
  <2>3. QED BY <2>1, <2>2
<1>5. ASSUME NEW x \in Sessions, Revoke(x)
      PROVE  ConnType' /\ FlagType'
  <2>1. ConnType' BY <1>5 DEF Revoke, ConnType, connVars
  <2>2. FlagType' BY <1>5 DEF Revoke, FlagType, connVars
  <2>3. QED BY <2>1, <2>2
<1>6. ASSUME NEW s \in Streams, BindDelivery(s)
      PROVE  ConnType' /\ FlagType'
  <2>1. ConnType' BY <1>6 DEF BindDelivery, ConnType
  <2>2. FlagType' BY <1>6 DEF BindDelivery, FlagType
  <2>3. QED BY <2>1, <2>2
<1>7. ASSUME NEW s \in Streams, BindRegister(s)
      PROVE  ConnType' /\ FlagType'
  <2>1. ConnType' BY <1>7 DEF BindRegister, ConnType
  <2>2. FlagType' BY <1>7 DEF BindRegister, FlagType
  <2>3. QED BY <2>1, <2>2
<1>8. ASSUME NEW s \in Streams, BindSignal(s)
      PROVE  ConnType' /\ FlagType'
  <2>1. ConnType' BY <1>8 DEF BindSignal, ConnType, SignalDrain
  <2>2. FlagType' BY <1>8 DEF BindSignal, FlagType, SignalDrain
  <2>3. QED BY <2>1, <2>2
<1>9. ASSUME NEW s \in Streams, BindReport(s)
      PROVE  ConnType' /\ FlagType'
  <2>1. ConnType' BY <1>9 DEF BindReport, ConnType
  <2>2. FlagType' BY <1>9 DEF BindReport, FlagType
  <2>3. QED BY <2>1, <2>2
<1>10. ASSUME NEW s \in Streams, AwaitGivesUp(s)
      PROVE  ConnType' /\ FlagType'
  <2>1. ConnType' BY <1>10 DEF AwaitGivesUp, ConnType
  <2>2. FlagType' BY <1>10 DEF AwaitGivesUp, FlagType
  <2>3. QED BY <2>1, <2>2
<1>11. ASSUME NEW c \in Conns, LoopWakes(c)
      PROVE  ConnType' /\ FlagType'
  <2>1. ConnType' BY <1>11 DEF LoopWakes, ConnType
  <2>2. FlagType' BY <1>11 DEF LoopWakes, FlagType
  <2>3. QED BY <2>1, <2>2
<1>12. ASSUME NEW c \in Conns, NEW s \in Streams, NEW e \in Positions, LoopDelivers(c, s, e)
      PROVE  ConnType' /\ FlagType'
  <2>1. ConnType' BY <1>12 DEF LoopDelivers, ConnType
  <2>2. FlagType' BY <1>12 DEF LoopDelivers, FlagType
  <2>3. QED BY <2>1, <2>2
<1>13. ASSUME NEW c \in Conns, NEW s \in Streams, LoopExpires(c, s)
      PROVE  ConnType' /\ FlagType'
  <2>1. ConnType' BY <1>13 DEF LoopExpires, ConnType
  <2>2. FlagType' BY <1>13 DEF LoopExpires, FlagType
  <2>3. QED BY <2>1, <2>2
<1>14. ASSUME NEW c \in Conns, NEW s \in Streams, LoopSkips(c, s)
      PROVE  ConnType' /\ FlagType'
  <2>1. ConnType' BY <1>14 DEF LoopSkips, ConnType
  <2>2. FlagType' BY <1>14 DEF LoopSkips, FlagType
  <2>3. QED BY <2>1, <2>2
<1>15. ASSUME NEW s \in Streams, NEW p \in Positions, ClientAck(s, p)
      PROVE  ConnType' /\ FlagType'
  <2>1. ConnType' BY <1>15 DEF ClientAck, ConnType, AckSendable, BelowFloor, Undelivered
  <2>2. FlagType' BY <1>15 DEF ClientAck, FlagType, AckSendable, BelowFloor, Undelivered
  <2>3. QED BY <2>1, <2>2
<1>16. ASSUME NEW c \in Conns, AckSignals(c)
      PROVE  ConnType' /\ FlagType'
  <2>1. ConnType' BY <1>16 DEF AckSignals, ConnType, SignalDrain
  <2>2. FlagType' BY <1>16 DEF AckSignals, FlagType, SignalDrain
  <2>3. QED BY <2>1, <2>2
<1>17. ASSUME NEW c \in Conns, CloseBegins(c)
      PROVE  ConnType' /\ FlagType'
  <2>1. ConnType' BY <1>17 DEF CloseBegins, ConnType
  <2>2. FlagType' BY <1>17 DEF CloseBegins, FlagType
  <2>3. QED BY <2>1, <2>2
<1>18. ASSUME NEW c \in Conns, CloseStreams(c)
      PROVE  ConnType' /\ FlagType'
  <2>1. ConnType' BY <1>18 DEF CloseStreams, ConnType
  <2>2. FlagType' BY <1>18 DEF CloseStreams, FlagType
  <2>3. QED BY <2>1, <2>2
<1>19. ASSUME NEW c \in Conns, CloseDetaches(c)
      PROVE  ConnType' /\ FlagType'
  <2>1. ConnType' BY <1>19 DEF CloseDetaches, ConnType
  <2>2. FlagType' BY <1>19 DEF CloseDetaches, FlagType
  <2>3. QED BY <2>1, <2>2
<1>20. CASE UNCHANGED vars BY <1>20 DEF vars, connVars, ConnType, FlagType
<1>21. QED
  BY <1>1, <1>2, <1>3, <1>4, <1>5, <1>6, <1>7, <1>8, <1>9, <1>10, <1>11, <1>12, <1>13, <1>14,
     <1>15, <1>16, <1>17, <1>18, <1>19, <1>20
     DEF Next, AwaitNext, LoopNext

(* The bind keeps its promises: a stream that ended never comes back to    *)
(* life, and only the report of an expired one takes it out of the map.    *)
LEMMA BindingStep == HubInv /\ ConnType /\ Binding /\ [Next]_vars => Binding'
<1> SUFFICES ASSUME HubInv, ConnType, Binding, [Next]_vars PROVE Binding'
  OBVIOUS
<1>0. state \in [Streams -> StreamStates] /\ Conn \in [Streams -> Conns]
  BY StreamHubConstants DEF HubInv, StreamType
<1>1. ASSUME NEW k \in Kinds, NEW aged \in 0..Len(records), Emit(k, aged) PROVE Binding'
  <2>1. \A s \in Streams : state'[s] = state[s] \/ (state[s] = "live" /\ state'[s] = "expired")
    BY <1>1 DEF Emit, Publish, ExpiresAt
  <2>2. UNCHANGED <<conn, bound, loop, await>> BY <1>1 DEF Emit
  <2>3. QED BY <1>0, <2>1, <2>2 DEF Binding, ConnType
<1>2. ASSUME NEW s \in Streams, Notify(s) PROVE Binding'
  BY <1>0, <1>2 DEF Notify, hubVars, streamVars, Binding, ConnType
<1>3. ASSUME NEW s \in Streams, NEW p \in Positions, NEW f \in Filters, NEW k \in Credits, SubWatch(s, p, f, k)
      PROVE Binding'
  BY <1>0, <1>3 DEF SubWatch, Watch, Binding, ConnType
<1>4. ASSUME NEW s \in Streams, SubCancel(s) PROVE Binding'
  BY <1>0, <1>4 DEF SubCancel, Cancel, CancelStreams, connVars, Binding, ConnType
<1>5. ASSUME NEW x \in Sessions, Revoke(x) PROVE Binding'
  BY <1>0, <1>5 DEF Revoke, CloseSession, CancelStreams, connVars, Binding, ConnType
<1>6. ASSUME NEW s \in Streams, BindDelivery(s) PROVE Binding'
  BY <1>0, <1>6 DEF BindDelivery, hubVars, streamVars, Binding, ConnType
<1>7. ASSUME NEW s \in Streams, BindRegister(s) PROVE Binding'
  BY <1>0, <1>7 DEF BindRegister, hubVars, streamVars, Binding, ConnType
<1>8. ASSUME NEW s \in Streams, BindSignal(s) PROVE Binding'
  BY <1>0, <1>8 DEF BindSignal, hubVars, streamVars, Binding, ConnType
<1>9. ASSUME NEW s \in Streams, BindReport(s) PROVE Binding'
  BY <1>0, <1>9 DEF BindReport, hubVars, streamVars, Binding, ConnType
<1>10. ASSUME NEW s \in Streams, AwaitGivesUp(s) PROVE Binding'
  BY <1>0, <1>10 DEF AwaitGivesUp, hubVars, streamVars, Binding, ConnType
<1>11. ASSUME NEW c \in Conns, LoopWakes(c) PROVE Binding'
  BY <1>0, <1>11 DEF LoopWakes, hubVars, streamVars, Binding, ConnType
<1>12. ASSUME NEW c \in Conns, NEW s \in Streams, NEW e \in Positions, LoopDelivers(c, s, e)
       PROVE Binding'
  BY <1>0, <1>12 DEF LoopDelivers, DrainTo, Binding, ConnType
<1>13. ASSUME NEW c \in Conns, NEW s \in Streams, LoopExpires(c, s) PROVE Binding'
  BY <1>0, <1>13 DEF LoopExpires, DrainExpire, hubVars, streamVars, Binding, ConnType
<1>14. ASSUME NEW c \in Conns, NEW s \in Streams, LoopSkips(c, s) PROVE Binding'
  BY <1>0, <1>14 DEF LoopSkips, hubVars, streamVars, Binding, ConnType
<1>15. ASSUME NEW s \in Streams, NEW p \in Positions, ClientAck(s, p) PROVE Binding'
  BY <1>0, <1>15 DEF ClientAck, Ack, Binding, ConnType
<1>16. ASSUME NEW c \in Conns, AckSignals(c) PROVE Binding'
  BY <1>0, <1>16 DEF AckSignals, hubVars, streamVars, Binding, ConnType
<1>17. ASSUME NEW c \in Conns, CloseBegins(c) PROVE Binding'
  BY <1>0, <1>17 DEF CloseBegins, hubVars, streamVars, Binding, ConnType
<1>18. ASSUME NEW c \in Conns, CloseStreams(c) PROVE Binding'
  BY <1>0, <1>18 DEF CloseStreams, CloseConnection, CancelStreams, Binding, ConnType
<1>19. ASSUME NEW c \in Conns, CloseDetaches(c) PROVE Binding'
  BY <1>0, <1>19 DEF CloseDetaches, hubVars, streamVars, Binding, ConnType
<1>20. CASE UNCHANGED vars
  BY <1>20 DEF vars, connVars, hubVars, streamVars, Binding
<1>21. QED
  BY <1>1, <1>2, <1>3, <1>4, <1>5, <1>6, <1>7, <1>8, <1>9, <1>10, <1>11, <1>12, <1>13, <1>14,
     <1>15, <1>16, <1>17, <1>18, <1>19, <1>20
     DEF Next, AwaitNext, LoopNext

LEMMA QuietHub ==
  ASSUME UNCHANGED hubVars, NEW s \in Streams
  PROVE  (Sendable(s)' <=> Sendable(s)) /\ filter'[s] = filter[s]
BY DEF hubVars, logVars, streamVars, specVars, Sendable, BelowFloor, Undelivered, Ahead, Floor,
   Matches

(* Ending a stream makes none sendable.                                    *)
LEMMA EndingHub ==
  ASSUME UNCHANGED <<logVars, sent, acked, delivered, specVars>>, NEW s \in Streams,
         state'[s] = "live" => state[s] = "live"
  PROVE  (Sendable(s)' => Sendable(s)) /\ filter'[s] = filter[s]
BY DEF logVars, specVars, Sendable, BelowFloor, Undelivered, Ahead, Floor, Matches

(* A step of the hub on one stream leaves the others as they were.         *)
LEMMA OtherHub ==
  ASSUME UNCHANGED logVars, NEW s \in Streams, state'[s] = state[s], sent'[s] = sent[s],
         acked'[s] = acked[s], filter'[s] = filter[s], credit'[s] = credit[s]
  PROVE  Sendable(s)' <=> Sendable(s)
BY DEF logVars, Sendable, BelowFloor, Undelivered, Ahead, Floor, Matches

(* Every step that takes a wake-up away, or makes a stream sendable, has   *)
(* put another one in its place.                                           *)
LEMMA WakeupStep == DeliveryInv /\ [Next]_vars => NoLostWakeup'
<1> SUFFICES ASSUME DeliveryInv, [Next]_vars,
                    NEW r \in Streams, filter'[r] = Kinds, Sendable(r)',
                    conn'[Conn[r]] = "open"
             PROVE  WillBeDrained(r)'
  BY DEF NoLostWakeup
<1> USE DEF DeliveryInv
<1>0. Conn[r] \in Conns BY StreamHubConstants
<1>a. filter[r] = Kinds /\ Sendable(r) /\ conn[Conn[r]] = "open" => WillBeDrained(r)
  BY DEF NoLostWakeup
<1>1. ASSUME NEW k \in Kinds, NEW aged \in 0..Len(records), Emit(k, aged)
      PROVE  WillBeDrained(r)'
  BY <1>1 DEF Emit, Signalled, WillBeDrained
<1>2. ASSUME NEW s \in Streams, Notify(s)
      PROVE  WillBeDrained(r)'
  <2>1. UNCHANGED hubVars BY <1>2 DEF Notify
  <2>2. filter[r] = Kinds /\ Sendable(r) BY <2>1, QuietHub
  <2>3. state[r] = "live" /\ conn[Conn[r]] = "open" /\ WillBeDrained(r)
    BY <1>0, <1>a, <1>2, <2>2 DEF Notify, Sendable, ConnType
  <2>4. QED
    BY <1>0, <1>2, <2>3 DEF Notify, WillBeDrained, ConnType, FlagType, Binding, SignalDrain
<1>3. ASSUME NEW s \in Streams, NEW p \in Positions, NEW f \in Filters, NEW k \in Credits, SubWatch(s, p, f, k)
      PROVE  WillBeDrained(r)'
  <2>1. CASE r = s BY <1>3, <2>1 DEF SubWatch, WillBeDrained, ConnType
  <2>2. CASE r # s
    <3>1. filter[r] = Kinds /\ Sendable(r)
      BY <1>3, <2>2, OtherHub DEF SubWatch, Watch, HubInv, StreamType
    <3>2. QED BY <1>a, <1>3, <2>2, <3>1 DEF SubWatch, WillBeDrained, ConnType
  <2>3. QED BY <2>1, <2>2
<1>4. ASSUME NEW s \in Streams, SubCancel(s)
      PROVE  WillBeDrained(r)'
  <2>1. filter[r] = Kinds /\ Sendable(r)
    BY <1>4, EndingHub DEF SubCancel, Cancel, CancelStreams
  <2>2. conn[Conn[r]] = "open" BY <1>0, <1>4 DEF SubCancel, connVars, ConnType
  <2>3. QED BY <1>a, <1>4, <2>1, <2>2 DEF SubCancel, connVars, WillBeDrained
<1>5. ASSUME NEW x \in Sessions, Revoke(x)
      PROVE  WillBeDrained(r)'
  <2>1. filter[r] = Kinds /\ Sendable(r)
    BY <1>5, EndingHub DEF Revoke, CloseSession, CancelStreams
  <2>2. conn[Conn[r]] = "open" BY <1>0, <1>5 DEF Revoke, connVars, ConnType
  <2>3. QED BY <1>a, <1>5, <2>1, <2>2 DEF Revoke, connVars, WillBeDrained
<1>6. ASSUME NEW s \in Streams, BindDelivery(s)
      PROVE  WillBeDrained(r)'
  <2>1. UNCHANGED hubVars BY <1>6 DEF BindDelivery
  <2>2. filter[r] = Kinds /\ Sendable(r) BY <2>1, QuietHub
  <2>3. state[r] = "live" /\ conn[Conn[r]] = "open" /\ WillBeDrained(r)
    BY <1>0, <1>a, <1>6, <2>2 DEF BindDelivery, Sendable, ConnType
  <2>4. QED
    BY <1>0, <1>6, <2>3 DEF BindDelivery, WillBeDrained, ConnType, FlagType, Binding
<1>7. ASSUME NEW s \in Streams, BindRegister(s)
      PROVE  WillBeDrained(r)'
  <2>1. UNCHANGED hubVars BY <1>7 DEF BindRegister
  <2>2. filter[r] = Kinds /\ Sendable(r) BY <2>1, QuietHub
  <2>3. state[r] = "live" /\ conn[Conn[r]] = "open" /\ WillBeDrained(r)
    BY <1>0, <1>a, <1>7, <2>2 DEF BindRegister, Sendable, ConnType
  <2>4. QED
    BY <1>0, <1>7, <2>3 DEF BindRegister, WillBeDrained, ConnType, FlagType, Binding
<1>8. ASSUME NEW s \in Streams, BindSignal(s)
      PROVE  WillBeDrained(r)'
  <2>1. UNCHANGED hubVars BY <1>8 DEF BindSignal
  <2>2. filter[r] = Kinds /\ Sendable(r) BY <2>1, QuietHub
  <2>3. state[r] = "live" /\ conn[Conn[r]] = "open" /\ WillBeDrained(r)
    BY <1>0, <1>a, <1>8, <2>2 DEF BindSignal, Sendable, ConnType
  <2>4. QED
    BY <1>0, <1>8, <2>3 DEF BindSignal, WillBeDrained, ConnType, FlagType, Binding, SignalDrain
<1>9. ASSUME NEW s \in Streams, BindReport(s)
      PROVE  WillBeDrained(r)'
  <2>1. UNCHANGED hubVars BY <1>9 DEF BindReport
  <2>2. filter[r] = Kinds /\ Sendable(r) BY <2>1, QuietHub
  <2>3. state[r] = "live" /\ conn[Conn[r]] = "open" /\ WillBeDrained(r)
    BY <1>0, <1>a, <1>9, <2>2 DEF BindReport, Sendable, ConnType
  <2>4. QED
    BY <1>0, <1>9, <2>3 DEF BindReport, WillBeDrained, ConnType, FlagType, Binding
<1>10. ASSUME NEW s \in Streams, AwaitGivesUp(s)
      PROVE  WillBeDrained(r)'
  <2>1. UNCHANGED hubVars BY <1>10 DEF AwaitGivesUp
  <2>2. filter[r] = Kinds /\ Sendable(r) BY <2>1, QuietHub
  <2>3. state[r] = "live" /\ conn[Conn[r]] = "open" /\ WillBeDrained(r)
    BY <1>0, <1>a, <1>10, <2>2 DEF AwaitGivesUp, Sendable, ConnType
  <2>4. QED
    BY <1>0, <1>10, <2>3 DEF AwaitGivesUp, WillBeDrained, ConnType, FlagType, Binding
<1>11. ASSUME NEW c \in Conns, LoopWakes(c)
      PROVE  WillBeDrained(r)'
  <2>1. UNCHANGED hubVars BY <1>11 DEF LoopWakes
  <2>2. filter[r] = Kinds /\ Sendable(r) BY <2>1, QuietHub
  <2>3. state[r] = "live" /\ conn[Conn[r]] = "open" /\ WillBeDrained(r)
    BY <1>0, <1>a, <1>11, <2>2 DEF LoopWakes, Sendable, ConnType
  <2>4. QED
    BY <1>0, <1>11, <2>3 DEF LoopWakes, WillBeDrained, ConnType, FlagType, Binding
<1>12. ASSUME NEW c \in Conns, NEW s \in Streams, NEW e \in Positions, LoopDelivers(c, s, e)
      PROVE  WillBeDrained(r)'
  <2>1. DrainTo(s, e) BY <1>12 DEF LoopDelivers
  <2>2. filter[r] = Kinds BY <2>1 DEF DrainTo, specVars
  <2>3. r # s BY <2>1, <2>2, DrainedOut
  <2>4. Sendable(r)
    BY <2>1, <2>3, OtherHub DEF DrainTo, HubInv, StreamType, specVars
  <2>5. QED BY <1>0, <1>a, <1>12, <2>2, <2>3, <2>4 DEF LoopDelivers, WillBeDrained, ConnType
<1>13. ASSUME NEW c \in Conns, NEW s \in Streams, LoopExpires(c, s)
      PROVE  WillBeDrained(r)'
  <2>1. filter[r] = Kinds /\ Sendable(r) /\ state'[s] # "live"
    <3>1. CASE DrainExpire(s) BY <3>1, EndingHub DEF DrainExpire, HubInv, StreamType
    <3>2. CASE state[s] = "expired" /\ UNCHANGED hubVars
      BY <3>2, QuietHub DEF hubVars, streamVars
    <3>3. QED BY <1>13, <3>1, <3>2 DEF LoopExpires
  <2>2. r # s BY <2>1 DEF Sendable
  <2>3. QED BY <1>0, <1>a, <1>13, <2>1, <2>2 DEF LoopExpires, WillBeDrained, ConnType
<1>14. ASSUME NEW c \in Conns, NEW s \in Streams, LoopSkips(c, s)
      PROVE  WillBeDrained(r)'
  <2>1. UNCHANGED hubVars BY <1>14 DEF LoopSkips
  <2>2. filter[r] = Kinds /\ Sendable(r) BY <2>1, QuietHub
  <2>3. state[r] = "live" /\ conn[Conn[r]] = "open" /\ WillBeDrained(r)
    BY <1>0, <1>a, <1>14, <2>2 DEF LoopSkips, Sendable, ConnType
  <2>4. QED
    BY <1>0, <1>14, <2>3 DEF LoopSkips, WillBeDrained, ConnType, FlagType, Binding
<1>15. ASSUME NEW s \in Streams, NEW p \in Positions, ClientAck(s, p)
      PROVE  WillBeDrained(r)'
  <2>1. Ack(s, p) /\ ackSignal' = [ackSignal EXCEPT ![Conn[s]] = AckSendable(s)']
        /\ ~ackSignal[Conn[s]] /\ UNCHANGED <<toNotify, conn, streamDrain, loop, await>>
    BY <1>15 DEF ClientAck
  <2>2. Conn[s] \in Conns BY StreamHubConstants
  <2>3. CASE r = s
    <3>1. CreditLeft(s)' = Word(credit'[s] - (sent'[s] - acked'[s])) BY DEF CreditLeft
    <3>2. credit'[s] \in Nat /\ sent'[s] \in Nat /\ acked'[s] \in Nat
      BY AckStep, <2>1, <1>15, SMTT(30) DEF HubInv, StreamType
    <3>3. CreditLeft(s)' > 0 BY <2>3, <3>1, <3>2 DEF Sendable, Word
    <3>4. AckSendable(s)' BY <2>3, <3>3 DEF AckSendable, Sendable
    <3>5. ackSignal'[Conn[s]] BY <2>1, <2>2, <3>4 DEF FlagType
    <3>6. QED BY <2>3, <3>5 DEF WillBeDrained
  <2>4. CASE r # s
    <3>1. filter[r] = Kinds /\ Sendable(r)
      BY <2>1, <2>4, OtherHub DEF Ack, HubInv, StreamType, specVars
    <3>2. WillBeDrained(r) BY <1>a, <2>1, <3>1
    <3>3. CASE ackSignal[Conn[r]]
      <4>1. Conn[r] # Conn[s] BY <2>1, <3>3
      <4>2. ackSignal'[Conn[r]] BY <1>0, <2>1, <2>2, <3>3, <4>1 DEF FlagType
      <4>3. QED BY <4>2 DEF WillBeDrained
    <3>4. CASE ~ackSignal[Conn[r]] BY <2>1, <3>2, <3>4 DEF WillBeDrained
    <3>5. QED BY <3>3, <3>4
  <2>5. QED BY <2>3, <2>4
<1>16. ASSUME NEW c \in Conns, AckSignals(c)
      PROVE  WillBeDrained(r)'
  <2>1. UNCHANGED hubVars BY <1>16 DEF AckSignals
  <2>2. filter[r] = Kinds /\ Sendable(r) BY <2>1, QuietHub
  <2>3. state[r] = "live" /\ conn[Conn[r]] = "open" /\ WillBeDrained(r)
    BY <1>0, <1>a, <1>16, <2>2 DEF AckSignals, Sendable, ConnType
  <2>4. QED
    BY <1>0, <1>16, <2>3 DEF AckSignals, WillBeDrained, ConnType, FlagType, Binding, SignalDrain
<1>17. ASSUME NEW c \in Conns, CloseBegins(c)
      PROVE  WillBeDrained(r)'
  <2>1. UNCHANGED hubVars BY <1>17 DEF CloseBegins
  <2>2. filter[r] = Kinds /\ Sendable(r) BY <2>1, QuietHub
  <2>3. state[r] = "live" /\ conn[Conn[r]] = "open" /\ WillBeDrained(r)
    BY <1>0, <1>a, <1>17, <2>2 DEF CloseBegins, Sendable, ConnType
  <2>4. QED
    BY <1>0, <1>17, <2>3 DEF CloseBegins, WillBeDrained, ConnType, FlagType, Binding
<1>18. ASSUME NEW c \in Conns, CloseStreams(c)
      PROVE  WillBeDrained(r)'
  <2>1. filter[r] = Kinds /\ Sendable(r)
    BY <1>18, EndingHub DEF CloseStreams, CloseConnection, CancelStreams
  <2>2. conn[Conn[r]] = "open" BY <1>0, <1>18 DEF CloseStreams, connVars, ConnType
  <2>3. QED BY <1>a, <1>18, <2>1, <2>2 DEF CloseStreams, connVars, WillBeDrained
<1>19. ASSUME NEW c \in Conns, CloseDetaches(c)
      PROVE  WillBeDrained(r)'
  <2>1. UNCHANGED hubVars BY <1>19 DEF CloseDetaches
  <2>2. filter[r] = Kinds /\ Sendable(r) BY <2>1, QuietHub
  <2>3. state[r] = "live" /\ conn[Conn[r]] = "open" /\ WillBeDrained(r)
    BY <1>0, <1>a, <1>19, <2>2 DEF CloseDetaches, Sendable, ConnType
  <2>4. QED
    BY <1>0, <1>19, <2>3 DEF CloseDetaches, WillBeDrained, ConnType, FlagType, Binding
<1>20. CASE UNCHANGED vars
  <2>1. filter[r] = Kinds /\ Sendable(r) BY <1>20, QuietHub DEF vars
  <2>2. QED BY <1>a, <1>20, <2>1 DEF vars, connVars, WillBeDrained
<1>21. QED
  BY <1>1, <1>2, <1>3, <1>4, <1>5, <1>6, <1>7, <1>8, <1>9, <1>10, <1>11, <1>12, <1>13, <1>14,
     <1>15, <1>16, <1>17, <1>18, <1>19, <1>20
     DEF Next, AwaitNext, LoopNext

LEMMA DeliveryInvStep == DeliveryInv /\ [Next]_vars => DeliveryInv'
<1> SUFFICES ASSUME DeliveryInv, [Next]_vars PROVE DeliveryInv'
  OBVIOUS
<1>1. HubInv' BY HubStepOf, HubInvStep DEF DeliveryInv
<1>2. ConnType' /\ FlagType' BY DeliveryTypeStep DEF DeliveryInv
<1>3. Binding' BY BindingStep DEF DeliveryInv
<1>4. NoLostWakeup' BY WakeupStep
<1>5. QED BY <1>1, <1>2, <1>3, <1>4 DEF DeliveryInv

(* No lost wake-up in the delivery of drive/server: an unfiltered live     *)
(* stream with credit and a record to deliver always has a wake-up under   *)
(* way or is about to be drained, for any number of streams and            *)
(* connections and every order of appends, signals, binds, acks and        *)
(* drains.                                                                 *)
THEOREM DeliveryNoLostWakeup == Spec => []NoLostWakeup
<1>1. DeliveryInv => NoLostWakeup BY DEF DeliveryInv
<1>2. QED BY <1>1, DeliveryInvInit, DeliveryInvStep, PTL DEF Spec

(* The composition keeps its types: also the reports of a stream's end are *)
(* counted, one for each bind or drain that found it ended.                *)
THEOREM DeliveryTypeCorrect == Spec => []TypeOK
<1> DEFINE Counted == terminals \in [Streams -> Nat]
<1>1. Init => Counted BY DEF Init
<1>2. Counted /\ [Next]_vars => Counted'
  <2> SUFFICES ASSUME Counted, [Next]_vars PROVE Counted'
    OBVIOUS
  <2>1. ASSUME NEW s \in Streams, BindReport(s) PROVE Counted' BY <2>1 DEF BindReport
  <2>2. ASSUME NEW c \in Conns, NEW s \in Streams, LoopExpires(c, s) PROVE Counted'
    BY <2>2 DEF LoopExpires
  <2>3. CASE UNCHANGED terminals BY <2>3
  <2>4. QED
    BY <2>1, <2>2, <2>3 DEF Next, AwaitNext, LoopNext, vars, connVars, Emit, Notify, SubWatch,
       SubCancel, Revoke, BindDelivery, BindRegister, BindSignal, AwaitGivesUp, LoopWakes,
       LoopDelivers, LoopSkips, ClientAck, AckSignals, CloseBegins, CloseStreams, CloseDetaches
<1>3. DeliveryInv /\ Counted => TypeOK
  BY DEF DeliveryInv, HubInv, HubTypeOK, ConnType, FlagType, TypeOK
<1>4. QED BY <1>1, <1>2, <1>3, DeliveryInvInit, DeliveryInvStep, PTL DEF Spec
=============================================================================
