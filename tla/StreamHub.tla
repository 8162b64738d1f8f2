----------------------------- MODULE StreamHub -----------------------------
(***************************************************************************)
(* The shared event log of drive/stream.go and the streams over it.        *)
(*                                                                         *)
(* The runtime appends one record per cut to a bounded log; a stream is a  *)
(* filter, a position and a credit window over that log.  Every method     *)
(* holds h.mu from start to end and is one action here; a call that        *)
(* returns an error or finds a terminal stream changes nothing and is no   *)
(* step.  Each member of Streams is one successful call of Watch, since    *)
(* stream IDs are never reused; the connection and the session that make   *)
(* the call are constants.  A record is its cursor: what it holds never    *)
(* changes, and event says which kind of events that is.                   *)
(***************************************************************************)
EXTENDS Integers, Sequences, FiniteSets, SequencesExt, FiniteSetsExt

CONSTANTS
  Streams,         \* calls of Watch
  Conns,           \* transport connections
  Sessions,
  Conn,            \* stream -> its connection
  Session,         \* stream -> its session
  Kinds,           \* kinds of records
  Filters,         \* filters, each as the set of kinds it matches
  Credits,         \* credit windows that subscribers ask for
  Size,            \* kind -> the size of such a record
  MaxStreams,      \* maxStreams
  MaxRecords, MaxBytes, MaxRecordBytes,  \* StreamRetention
  MaxUint,         \* math.MaxUint64
  MaxHead          \* bound: records appended in one behaviour

ASSUME StreamHubConstants ==
  /\ Conn \in [Streams -> Conns] /\ Session \in [Streams -> Sessions]
  /\ Filters \subseteq SUBSET Kinds /\ Credits \subseteq 1..8
  /\ Size \in [Kinds -> Nat \ {0}]
  /\ MaxStreams \in Nat /\ MaxRecords \in Nat \ {0}
  /\ MaxRecordBytes \in Nat \ {0} /\ MaxBytes \in Nat /\ MaxRecordBytes <= MaxBytes
  /\ MaxHead \in Nat /\ MaxUint \in Nat /\ MaxHead < MaxUint /\ 8 <= MaxUint

VARIABLES
  head,      \* the last cursor assigned
  records,   \* the cursors of the retained records
  event,     \* cursor -> kind of its record, also of the evicted ones
  state,     \* stream -> "none" before Watch, "live", "expired", "cancelled"; "swept"
  filter,    \* stream -> the kinds it wants
  credit,    \* stream -> its credit window
  sent,      \* stream -> last cursor handed to the subscriber
  acked,     \* stream -> last cursor it acknowledged
  \* history
  after,     \* stream -> the position its Watch asked for
  delivered  \* stream -> the cursors Drain returned

logVars == <<head, records, event>>
specVars == <<filter, credit, after>>
streamVars == <<state, sent, acked, delivered, specVars>>
hubVars == <<logVars, streamVars>>

HubInit ==
  /\ head = 0 /\ records = <<>> /\ event = <<>>
  /\ state = [s \in Streams |-> "none"]
  /\ sent = [s \in Streams |-> 0] /\ acked = [s \in Streams |-> 0]
  /\ filter = [s \in Streams |-> {}] /\ credit = [s \in Streams |-> 1]
  /\ after = [s \in Streams |-> 0]
  /\ delivered = [s \in Streams |-> {}]

-----------------------------------------------------------------------------

Word(n) == IF n < 0 THEN n + MaxUint + 1 ELSE n

Floor == IF records = <<>> THEN 0 ELSE Head(records)

Matches(s, c) == event[c] \in filter[s]

BelowFloor(s) == sent[s] + 1 < Floor

(* What is left of the window, in the unsigned arithmetic of Drain and Ack.*)
CreditLeft(s) == Word(credit[s] - (sent[s] - acked[s]))

(* The records the stream has not passed, and whether it wants one of them.*)
Ahead(s) == {c \in Range(records) : c > sent[s]}

Undelivered(s) == \E c \in Ahead(s) : Matches(s, c)

(* collectSendableLocked and the condition of Ack.                         *)
Sendable(s) ==
  state[s] = "live" /\ credit[s] > sent[s] - acked[s] /\ (BelowFloor(s) \/ Undelivered(s))

Mutant_AckSendable(s) == CreditLeft(s) > 1 /\ (BelowFloor(s) \/ Undelivered(s))

AckSendable(s) == CreditLeft(s) > 0 /\ (BelowFloor(s) \/ Undelivered(s))

(* evictLocked drops records from the front until the rest is within the   *)
(* bounds; aged of them are older than RetentionAge.                       *)
Bytes(recs, events) == SumFunction([n \in DOMAIN recs |-> Size[events[recs[n]]]])

Mutant_WithinBounds(recs, events) == Len(recs) <= MaxRecords + 1 /\ Bytes(recs, events) <= MaxBytes

WithinBounds(recs, events) == Len(recs) <= MaxRecords /\ Bytes(recs, events) <= MaxBytes

Evict(recs, events, aged) ==
  {SubSeq(recs, d + 1, Len(recs)) :
     d \in {n \in aged..Len(recs) :
              /\ WithinBounds(SubSeq(recs, n + 1, Len(recs)), events)
              /\ \A m \in aged..(n - 1) :
                    ~WithinBounds(SubSeq(recs, m + 1, Len(recs)), events)}}

(* Append, with the eager expiry of the streams it leaves below the floor. *)
Mutant_ExpiresAt(s, floor) == floor # 0 /\ state[s] = "live" /\ sent[s] + 2 < floor

ExpiresAt(s, floor) == floor # 0 /\ state[s] = "live" /\ sent[s] + 1 < floor

Publish(k, aged) ==
  /\ head < MaxHead
  /\ Size[k] <= MaxRecordBytes
  /\ head' = head + 1
  /\ event' = Append(event, k)
  /\ records' \in Evict(Append(records, head + 1), event', aged)
  /\ state' = [s \in Streams |-> IF ExpiresAt(s, Floor') THEN "expired" ELSE state[s]]
  /\ UNCHANGED <<sent, acked, delivered, specVars>>

(* The streams that Append signals: the sendable and the expired ones.     *)
Mutant_SignalledBefore == {s \in Streams : Sendable(s)}

Mutant_SignalledSendable == {s \in Streams : Sendable(s)'}

Signalled ==
  {s \in Streams : Sendable(s)'}
     \cup {s \in Streams : state[s] = "live" /\ state'[s] = "expired"}

(* Watch from a position the log can still continue from; position 0 is    *)
(* not held against the floor.                                             *)
Mutant_RecoverableAhead(p) == ~(p > 0 /\ p + 1 < Floor)

Mutant_RecoverableBelow(p) == p <= head

Recoverable(p) == p <= head /\ ~(p > 0 /\ p + 1 < Floor)

Watch(s, p, f, k) ==
  /\ state[s] = "none"
  /\ Cardinality({r \in Streams : state[r] \notin {"none", "swept"}}) < MaxStreams
  /\ Recoverable(p)
  /\ state' = [state EXCEPT ![s] = "live"]
  /\ sent' = [sent EXCEPT ![s] = p] /\ acked' = [acked EXCEPT ![s] = p]
  /\ filter' = [filter EXCEPT ![s] = f] /\ credit' = [credit EXCEPT ![s] = k]
  /\ after' = [after EXCEPT ![s] = p]
  /\ UNCHANGED <<logVars, delivered>>

Mutant_AckInRange(s, p) == p <= sent[s]

AckInRange(s, p) == acked[s] <= p /\ p <= sent[s]

Ack(s, p) ==
  /\ state[s] = "live"
  /\ AckInRange(s, p)
  /\ acked' = [acked EXCEPT ![s] = p]
  /\ UNCHANGED <<logVars, state, sent, delivered, specVars>>

(* Cancel, CloseConnection and CloseSession: live streams are cancelled.   *)
CancelStreams(set) ==
  /\ state' = [s \in Streams |-> IF s \in set /\ state[s] = "live" THEN "cancelled" ELSE state[s]]
  /\ UNCHANGED <<logVars, sent, acked, delivered, specVars>>

Cancel(s) == state[s] = "live" /\ CancelStreams({s})

CloseConnection(c) == CancelStreams({s \in Streams : Conn[s] = c})

CloseSession(x) == CancelStreams({s \in Streams : Session[s] = x})

(* Drain a stream that lost its next record: it expires.                   *)
DrainExpire(s) ==
  /\ state[s] = "live" /\ ExpiresAt(s, Floor)
  /\ state' = [state EXCEPT ![s] = "expired"]
  /\ UNCHANGED <<logVars, sent, acked, delivered, specVars>>

(* Drain the others.  It walks the records ahead until one finds no credit *)
(* left; a record that matches nothing moves the position and takes none.  *)
Mutant_HasCredit(s, c) ==
  Cardinality({b \in Ahead(s) : b < c /\ Matches(s, b)}) <= CreditLeft(s)

HasCredit(s, c) == Cardinality({b \in Ahead(s) : b < c /\ Matches(s, b)}) < CreditLeft(s)

Taken(s) == {c \in Ahead(s) : HasCredit(s, c)}

DrainTo(s, e) ==
  /\ state[s] = "live" /\ ~ExpiresAt(s, Floor)
  /\ e \in Taken(s) \cup {sent[s]}
  /\ \A c \in Taken(s) : c <= e
  /\ sent' = [sent EXCEPT ![s] = e]
  /\ delivered' = [delivered EXCEPT ![s] = @ \cup {c \in Taken(s) : Matches(s, c)}]
  /\ UNCHANGED <<logVars, state, acked, specVars>>

(* Sweep drops a stream that has been terminal for ten minutes.            *)
Sweep(s) ==
  /\ state[s] \in {"expired", "cancelled"}
  /\ state' = [state EXCEPT ![s] = "swept"]
  /\ UNCHANGED <<logVars, sent, acked, delivered, specVars>>

(* Positions that callers name, also beyond the head.                      *)
Positions == 0..(MaxHead + 1)

HubNext ==
  \/ \E k \in Kinds, aged \in 0..Len(records) : Publish(k, aged)
  \/ \E s \in Streams :
        \/ \E p \in Positions, f \in Filters, k \in Credits : Watch(s, p, f, k)
        \/ \E p \in Positions : Ack(s, p) \/ DrainTo(s, p)
        \/ Cancel(s) \/ DrainExpire(s) \/ Sweep(s)
  \/ \E c \in Conns : CloseConnection(c)
  \/ \E x \in Sessions : CloseSession(x)

HubSpec == HubInit /\ [][HubNext]_hubVars

-----------------------------------------------------------------------------
(* Properties.                                                             *)

StreamStates == {"none", "live", "expired", "cancelled", "swept"}

LogType ==
  /\ head \in 0..MaxHead /\ records \in Seq(1..MaxHead)
  /\ event \in Seq(Kinds) /\ Len(event) = head

StreamType ==
  /\ state \in [Streams -> StreamStates]
  /\ filter \in [Streams -> SUBSET Kinds] /\ credit \in [Streams -> 1..8]
  /\ sent \in [Streams -> 0..MaxHead] /\ acked \in [Streams -> 0..MaxHead]
  /\ after \in [Streams -> 0..MaxHead]
  /\ delivered \in [Streams -> SUBSET (1..MaxHead)]

HubTypeOK == LogType /\ StreamType

(* The retained records are the newest ones, without a hole, whichever of  *)
(* the three retention bounds evicted the others (stream.go:332-348), and  *)
(* the log is within its bounds.  Drain's scan from sent+1 rests on it.    *)
LogContiguous ==
  /\ \A n \in DOMAIN records : records[n] = head - Len(records) + n
  /\ head > 0 => records # <<>>
  /\ Len(records) <= MaxRecords /\ Bytes(records, event) <= MaxBytes

(* No silent gap (stream.go:4-5): a stream has received exactly the        *)
(* records that match its filter between the position it asked for and the *)
(* position it has reached, across evictions, acks and expiry.             *)
NoSilentGap ==
  \A s \in Streams : delivered[s] = {c \in (after[s] + 1)..sent[s] : Matches(s, c)}

(* A live stream that asked for a retained position can always go on: the  *)
(* eager expiry of Append (stream.go:298-301) and the check of Watch leave *)
(* no live stream below the floor.                                         *)
LiveCanContinue ==
  \A s \in Streams : state[s] = "live" /\ sent[s] > 0 => sent[s] + 1 >= Floor

(* acked <= sent <= head, in which the unsigned differences of Drain, Ack  *)
(* and collectSendableLocked are meant (stream.go:453-457, 600, 655).      *)
CursorsOrdered ==
  \A s \in Streams : after[s] <= acked[s] /\ acked[s] <= sent[s] /\ sent[s] <= head

(* A stream that matches every record never holds more than its credit     *)
(* window unacknowledged (stream.go:578-579, 600-621).                     *)
UnfilteredWindow ==
  \A s \in Streams : filter[s] = Kinds => sent[s] - acked[s] <= credit[s]

(* Delivery is "within credit" (stream.go:578-579) and "unmatched records  *)
(* don't consume credit" (stream.go:480): no stream holds more delivered   *)
(* records unacknowledged than its window allows.                          *)
WithinWindow ==
  \A s \in Streams : Cardinality({c \in delivered[s] : c > acked[s]}) <= credit[s]
=============================================================================
