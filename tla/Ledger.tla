------------------------------- MODULE Ledger -------------------------------
(***************************************************************************)
(* The outcome ledger of one drive session: drive/ledger.go.               *)
(*                                                                         *)
(* A ledger is a record of the admitted high-water mark, the retained      *)
(* entries (a function of their IDs: IDs are claimed contiguously, so the  *)
(* code's admission order is the order of the IDs) and the byte counter.   *)
(* Every method runs under the ledger's mutex and is one operator on the   *)
(* record.  The canonical digest of a request is its method; a payload is  *)
(* the number of bytes it takes.                                           *)
(***************************************************************************)
EXTENDS Integers, FiniteSets, FiniteSetsExt, Functions

CONSTANTS LedgerMaxEntries, \* ledgerMaxEntries
          LedgerMaxBytes,   \* ledgerMaxBytes
          EntryOverhead     \* ledgerEntryOverhead

ASSUME LedgerAssumption ==
    /\ LedgerMaxEntries \in Nat
    /\ LedgerMaxBytes \in Nat
    /\ EntryOverhead \in Nat \ {0}

None == "none"   \* the outcome of an entry that has none yet

NewLedger == [highWater |-> 0, entries |-> [i \in {} |-> None], bytes |-> 0]

Lookup(l, id) ==
  IF id > l.highWater THEN "unknown"
  ELSE IF id \in DOMAIN l.entries THEN "retained" ELSE "expired"

Terminals(l) == {i \in DOMAIN l.entries : l.entries[i].state = "terminal"}

EntryBytes(e) == EntryOverhead + e.payload

(* The bytes of the entries of a set of IDs.                               *)
BytesOf(l, ids) == SumFunctionOnSet([i \in ids |-> EntryBytes(l.entries[i])], ids)

Mutant_Without(l, drop) ==
  [l EXCEPT !.entries = [i \in DOMAIN l.entries \ (drop \cap Terminals(l)) |-> l.entries[i]]]

(* The ledger with the terminal entries of the IDs in drop removed.        *)
Without(l, drop) ==
  LET gone == drop \cap Terminals(l)
      kept == DOMAIN l.entries \ gone
  IN [highWater |-> l.highWater,
      entries   |-> [i \in kept |-> l.entries[i]],
      bytes     |-> IF kept = {} THEN 0 ELSE l.bytes - BytesOf(l, gone)]

OverBounds(l) ==
  /\ DOMAIN l.entries # {}
  /\ \/ Cardinality(DOMAIN l.entries) > LedgerMaxEntries
     \/ l.bytes > LedgerMaxBytes

(* evictLocked drops the oldest terminal entry while the ledger is over    *)
(* its bounds: an entry goes exactly when the ledger is still over them    *)
(* without all the older terminal entries.  Admitted entries are pinned.   *)
Evict(l) ==
  Without(l, {i \in Terminals(l) :
                OverBounds(Without(l, {j \in Terminals(l) : j < i}))})

Append1(l, id, entry) ==
  Evict([highWater |-> id,
         entries   |-> [i \in DOMAIN l.entries \cup {id} |->
                          IF i = id THEN entry ELSE l.entries[i]],
         bytes     |-> l.bytes + EntryOverhead])

Mutant_NextID(l, id) == id \notin DOMAIN l.entries /\ id <= l.highWater + 1

Mutant_NextIDGap(l, id) == id > l.highWater

NextID(l, id) == id = l.highWater + 1

(* Claim, for an ID that is the next one.                                  *)
Claim(l, id, canonical) ==
  Append1(l, id, [canonical |-> canonical, state |-> "admitted", admitted |-> TRUE,
                  outcome |-> None, payload |-> 0])

ClaimRejection(l, id, canonical, outcome) ==
  Append1(l, id, [canonical |-> canonical, state |-> "terminal", admitted |-> FALSE,
                  outcome |-> outcome, payload |-> 0])

(* CompleteResult and CompleteError: a late call, for an entry that is     *)
(* terminal or no longer retained, is ignored.  An error has no payload.   *)
Open(l, id) == id \in DOMAIN l.entries /\ l.entries[id].state = "admitted"

Complete(l, id, outcome, payload) ==
  IF Open(l, id)
  THEN Evict([highWater |-> l.highWater,
              entries   |-> [l.entries EXCEPT ![id] =
                               [canonical |-> @.canonical, state |-> "terminal",
                                admitted |-> @.admitted, outcome |-> outcome,
                                payload |-> payload]],
              bytes     |-> l.bytes + payload])
  ELSE l
=============================================================================
