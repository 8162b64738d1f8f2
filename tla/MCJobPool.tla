----------------------------- MODULE MCJobPool -----------------------------
(* Small instances of JobPool: three calls of Schedule of one JobID, that  *)
(* replace one another, and two calls of different JobIDs, of which one is *)
(* without a reservation.                                                  *)
EXTENDS JobPool

CONSTANTS j1, j2, j3, a, b

SameID == (j1 :> a) @@ (j2 :> a) @@ (j3 :> a)
SameIDBytes == (j1 :> 2) @@ (j2 :> 2) @@ (j3 :> 1)

TwoIDs == (j1 :> a) @@ (j2 :> b)
TwoIDsBytes == (j1 :> 2) @@ (j2 :> 0)

Symmetry == Permutations(Workers)

AnyTime == SUBSET Jobs

(* Bound: a paused pool and a stale snapshot are explored with one call.   *)
Early == paused \/ stale # {} => called \subseteq {j1}

-----------------------------------------------------------------------------
(* An endless stream of interactive jobs in finitely many states.  The     *)
(* last one admitted is forgotten once nothing refers to it any more, so   *)
(* that it can be scheduled again as a new call.                           *)
Gone(j) ==
  /\ seq[j] = nextSequence /\ nextSequence > 0
  /\ seq[j] \notin waitingSeq \cup readySeq \cup drainedSeq
  /\ j \notin Queued \cup Range(results) \cup Range(wjob) \cup Range(tjob) \cup todo
  /\ \A t \in Threads : j \notin Range(tout[t])
  /\ alloc[j] = "freed"

Forget(j) ==
  /\ j \in called \cap Interactive /\ Gone(j)
  /\ called' = called \ {j} /\ cancelled' = cancelled \ {j} /\ stale' = stale \ {j}
  /\ alloc' = [alloc EXCEPT ![j] = "none"] /\ outcome' = [outcome EXCEPT ![j] = "none"]
  /\ nextSequence' = nextSequence - 1 /\ seq' = [seq EXCEPT ![j] = 0]
  /\ committed' = SelectSeq(committed, LAMBDA k : k # j) /\ reported' = reported \ {j}
  /\ UNCHANGED <<poolVars, waitingSeq, readySeq, drainedSeq, ready, drainedEarly, queueVars,
                 threadVars, workerVars, pendingRecords, woken>>
=============================================================================
