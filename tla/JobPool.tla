------------------------------ MODULE JobPool ------------------------------
(***************************************************************************)
(* The job pool of job/job.go.                                             *)
(*                                                                         *)
(* Threads call the pool's public methods; in the framework there is one,  *)
(* the runtime thread, but every method locks and any goroutine may call   *)
(* it.  Workers are the pool's goroutines.  Each member of Jobs is one     *)
(* call of ScheduleGuarded; two of them with the same JobID replace one    *)
(* another.  A member of Jobs also names its cancel token, its memory      *)
(* reservation and its result, since each call makes one of each.          *)
(*                                                                         *)
(* A step is one critical section of p.mu, one channel operation or one    *)
(* call of the wallet.  Neighbouring steps are merged where the second     *)
(* touches nothing that another goroutine can tell apart.  The wallet is   *)
(* reduced to the state of each reservation; module Wallet shows that its  *)
(* counters are the sums of those states.                                  *)
(***************************************************************************)
EXTENDS Integers, Sequences, FiniteSets, SequencesExt, FiniteSetsExt

CONSTANTS
  Jobs,            \* calls of ScheduleGuarded
  IDs,             \* JobIDs
  JobID,           \* job -> its JobID
  Interactive,     \* the jobs of PriorityInteractive; the others are background
  Bytes,           \* job -> MemoryDecl.TotalBytes; 0: scheduled without a reservation
  Guarded,         \* jobs with a commit predicate or bound versions
  Workers,         \* the WorkerCount goroutines
  Threads,         \* callers of the public methods
  NoJob,           \* nil
  WalletCap,       \* capacity of jobsWallet
  MaxWaiting,      \* MaxWaitingInteractive, the capacity of either queue
  MaxTotalRecords, \* the capacity of results and the bound on pendingRecords
  CancelIDs,       \* bound: the JobIDs that are cancelled by CancelJob
  Disturbances     \* bound: the sets of calls at which the application is paused or
                   \* resumed, all jobs are cancelled, or versions change

ASSUME JobPoolConstants ==
  /\ IsFiniteSet(Jobs) /\ NoJob \notin Jobs
  /\ IsFiniteSet(Workers) /\ IsFiniteSet(Threads)
  /\ JobID \in [Jobs -> IDs]
  /\ Bytes \in [Jobs -> Nat]
  /\ Interactive \subseteq Jobs
  /\ Guarded \subseteq Jobs
  /\ CancelIDs \subseteq IDs
  /\ Disturbances \subseteq SUBSET Jobs
  /\ WalletCap \in Nat
  /\ MaxWaiting \in Nat \ {0}
  /\ MaxTotalRecords \in Nat \ {0}

VARIABLES
  \* the pool's fields
  active, jobReservations,          \* JobID -> the job whose token / reservation it holds
  closed, paused,                   \* closed also stands for the closed shutdown channel
  nextSequence,
  waitingSeq, readySeq,             \* pendingSequence: the keys that map to false / to true
  drainedSeq,                       \* drainedSequence
  ready, drainedEarly,              \* JobID -> count
  pendingRecords,
  interactive, background, results, \* the three channels
  frontierWake,                     \* the channel of capacity one holds a token
  \* what belongs to one job
  called, seq, cancelled, alloc, outcome, stale,
  \* goroutines
  tpc, tjob, tout,                  \* a thread's position, its job, its drained results
  todo,                             \* Shutdown's reservationsToRelease
  wpc, wjob,                        \* a worker's position and job
  \* history
  woken,                            \* the threads that took the token and have not drained since
  committed,                        \* the jobs whose onCommit ran, in order
  reported                          \* the jobs whose result was sent to results

poolVars == <<active, jobReservations, closed, paused>>
seqVars == <<nextSequence, waitingSeq, readySeq, drainedSeq, ready, drainedEarly, seq>>
queueVars == <<interactive, background, results, frontierWake>>
threadVars == <<tpc, tjob, tout, todo>>
workerVars == <<wpc, wjob>>
history == <<woken, committed, reported>>
vars == <<poolVars, seqVars, queueVars, threadVars, workerVars, pendingRecords,
          called, cancelled, alloc, outcome, stale, history>>

Held == {"reserved", "live", "retiring"}

(* The charge of the jobs wallet: what its Snapshot adds up to.            *)
WalletUsed == MapThenSumSet(LAMBDA j : Bytes[j], {j \in Jobs : alloc[j] \in Held})

(* Reservation.Cancel, Publish, Retire and Acknowledge: each moves its     *)
(* reservation on from one state and fails, without effect, in any other.  *)
Mutant_CancelLive(s) == IF s \in {"reserved", "live"} THEN "freed" ELSE s
Mutant_AcknowledgeLive(s) == IF s = "live" THEN "freed" ELSE s

Cancel(s) == IF s = "reserved" THEN "freed" ELSE s
Publish(s) == IF s = "reserved" THEN "live" ELSE s
Retire(s) == IF s = "live" THEN "retiring" ELSE s
Acknowledge(s) == IF s = "retiring" THEN "freed" ELSE s

Init ==
  /\ active = [i \in IDs |-> NoJob] /\ jobReservations = [i \in IDs |-> NoJob]
  /\ closed = FALSE /\ paused = FALSE
  /\ nextSequence = 0 /\ seq = [j \in Jobs |-> 0]
  /\ waitingSeq = {} /\ readySeq = {} /\ drainedSeq = {}
  /\ ready = [i \in IDs |-> 0] /\ drainedEarly = [i \in IDs |-> 0]
  /\ pendingRecords = 0
  /\ interactive = <<>> /\ background = <<>> /\ results = <<>>
  /\ frontierWake = FALSE
  /\ called = {} /\ cancelled = {} /\ stale = {}
  /\ alloc = [j \in Jobs |-> "none"] /\ outcome = [j \in Jobs |-> "none"]
  /\ tpc = [t \in Threads |-> "idle"] /\ tjob = [t \in Threads |-> NoJob]
  /\ tout = [t \in Threads |-> <<>>] /\ todo = {}
  /\ wpc = [w \in Workers |-> "top"] /\ wjob = [w \in Workers |-> NoJob]
  /\ woken = {} /\ committed = <<>> /\ reported = {}

-----------------------------------------------------------------------------
(* ScheduleGuarded.                                                        *)

Goto(t, label) == tpc' = [tpc EXCEPT ![t] = label]

(* Reserve the declared bytes; a refusal of the wallet ends the call.      *)
ReserveFits(j) == Bytes[j] = 0 \/ WalletUsed + Bytes[j] <= WalletCap

ScheduleReserve(t, j) ==
  /\ tpc[t] = "idle" /\ j \notin called /\ ReserveFits(j)
  /\ called' = called \cup {j}
  /\ alloc' = [alloc EXCEPT ![j] = IF Bytes[j] > 0 THEN "reserved" ELSE @]
  /\ Goto(t, "admit") /\ tjob' = [tjob EXCEPT ![t] = j]
  /\ UNCHANGED <<poolVars, seqVars, queueVars, workerVars, pendingRecords, tout, todo,
                 cancelled, outcome, stale, history>>

ScheduleNoMemory(t, j) ==
  /\ tpc[t] = "idle" /\ j \notin called /\ ~ReserveFits(j)
  /\ called' = called \cup {j}
  /\ UNCHANGED <<poolVars, seqVars, queueVars, workerVars, pendingRecords, threadVars,
                 cancelled, alloc, outcome, stale, history>>

(* A closed pool and a full one refuse the job: its reservation is not     *)
(* published yet and is cancelled.                                         *)
Mutant_AdmissionRefused == closed \/ pendingRecords > MaxTotalRecords

AdmissionRefused == closed \/ pendingRecords + 1 > MaxTotalRecords

ScheduleRefused(t) ==
  /\ tpc[t] = "admit" /\ AdmissionRefused
  /\ alloc' = [alloc EXCEPT ![tjob[t]] = Cancel(@)]
  /\ Goto(t, "idle") /\ tjob' = [tjob EXCEPT ![t] = NoJob]
  /\ UNCHANGED <<poolVars, seqVars, queueVars, workerVars, pendingRecords, tout, todo,
                 called, cancelled, outcome, stale, history>>

(* The admission section under p.mu.  The job with the same ID is replaced:*)
(* its token is cancelled and its reservation too, which has no effect on  *)
(* a reservation that is live.                                             *)
ScheduleAdmit(t) ==
  LET j == tjob[t]
      prev == active[JobID[j]]
      old == IF prev # NoJob THEN jobReservations[JobID[j]] ELSE NoJob
  IN
  /\ tpc[t] = "admit" /\ ~AdmissionRefused
  /\ pendingRecords' = pendingRecords + 1
  /\ alloc' = [k \in Jobs |-> IF k = j THEN Publish(alloc[k])
                              ELSE IF k = old THEN Cancel(alloc[k]) ELSE alloc[k]]
  /\ cancelled' = IF prev # NoJob THEN cancelled \cup {prev} ELSE cancelled
  /\ active' = [active EXCEPT ![JobID[j]] = j]
  /\ jobReservations' = [jobReservations EXCEPT ![JobID[j]] = IF Bytes[j] > 0 THEN j ELSE NoJob]
  /\ nextSequence' = nextSequence + 1
  /\ seq' = [seq EXCEPT ![j] = nextSequence + 1]
  /\ waitingSeq' = waitingSeq \cup {nextSequence + 1}
  /\ Goto(t, "send")
  /\ UNCHANGED <<closed, paused, readySeq, drainedSeq, ready, drainedEarly, queueVars,
                 workerVars, tjob, tout, todo, called, outcome, stale, history>>

(* The nonblocking send to the queue of the job's priority.                *)
QueueFull(j) == Len(IF j \in Interactive THEN interactive ELSE background) >= MaxWaiting

ScheduleSend(t) ==
  LET j == tjob[t] IN
  /\ tpc[t] = "send" /\ ~QueueFull(j)
  /\ interactive' = IF j \in Interactive THEN Append(interactive, j) ELSE interactive
  /\ background' = IF j \in Interactive THEN background ELSE Append(background, j)
  /\ Goto(t, "idle") /\ tjob' = [tjob EXCEPT ![t] = NoJob]
  /\ UNCHANGED <<poolVars, seqVars, results, frontierWake, workerVars, pendingRecords,
                 tout, todo, called, cancelled, alloc, outcome, stale, history>>

(* The queue is full.  The reservation is live by now, so its Cancel has   *)
(* no effect; the sequence number stays pending as well.                   *)
ScheduleFull(t) ==
  /\ tpc[t] = "send" /\ QueueFull(tjob[t])
  /\ pendingRecords' = pendingRecords - 1
  /\ alloc' = [alloc EXCEPT ![tjob[t]] = Cancel(@)]
  /\ Goto(t, "undo")
  /\ UNCHANGED <<poolVars, seqVars, queueVars, workerVars, tjob, tout, todo,
                 called, cancelled, outcome, stale, history>>

ScheduleUndo(t) ==
  LET i == JobID[tjob[t]] IN
  /\ tpc[t] = "undo"
  /\ active' = [active EXCEPT ![i] = NoJob]
  /\ jobReservations' = [jobReservations EXCEPT ![i] = NoJob]
  /\ Goto(t, "idle") /\ tjob' = [tjob EXCEPT ![t] = NoJob]
  /\ UNCHANGED <<closed, paused, seqVars, queueVars, workerVars, pendingRecords,
                 tout, todo, called, cancelled, alloc, outcome, stale, history>>

-----------------------------------------------------------------------------
(* CancelJob, CancelAll, Pause and Resume.                                 *)

CancelJob(t, i) ==
  /\ tpc[t] = "idle" /\ active[i] # NoJob
  /\ cancelled' = cancelled \cup {active[i]}
  /\ UNCHANGED <<poolVars, seqVars, queueVars, threadVars, workerVars, pendingRecords,
                 called, alloc, outcome, stale, history>>

ActiveJobs == {active[i] : i \in IDs} \ {NoJob}

CancelAll(t) ==
  /\ tpc[t] = "idle" /\ called \in Disturbances
  /\ cancelled' = cancelled \cup ActiveJobs
  /\ UNCHANGED <<poolVars, seqVars, queueVars, threadVars, workerVars, pendingRecords,
                 called, alloc, outcome, stale, history>>

SetPaused(t, p) ==
  /\ tpc[t] = "idle" /\ called \in Disturbances
  /\ paused' = p
  /\ UNCHANGED <<active, jobReservations, closed, seqVars, queueVars, threadVars,
                 workerVars, pendingRecords, called, cancelled, alloc, outcome, stale, history>>

-----------------------------------------------------------------------------
(* Drain and DrainOrdered.                                                 *)

(* A receive from the channel of FrontierWake takes the coalesced token.   *)
(* It drains nothing: that is left to the receiver.                        *)
ReceiveWake(t) ==
  /\ tpc[t] = "idle" /\ frontierWake
  /\ frontierWake' = FALSE
  /\ woken' = woken \cup {t}
  /\ UNCHANGED <<poolVars, seqVars, interactive, background, results, threadVars, workerVars,
                 pendingRecords, called, cancelled, alloc, outcome, stale, committed, reported>>

(* A frame's first phase drains, whatever made the frame begin.            *)
DrainBegin(t) ==
  /\ tpc[t] = "idle"
  /\ woken' = woken \ {t}
  /\ Goto(t, "collect")
  /\ UNCHANGED <<poolVars, seqVars, queueVars, tjob, tout, todo, workerVars, pendingRecords,
                 called, cancelled, alloc, outcome, stale, committed, reported>>

(* A result may be received before its worker has booked it.               *)
Mutant_ReceivedEarly(j) == FALSE

ReceivedEarly(j) == seq[j] \notin readySeq

(* One round of the collect loop: receive a result and pair it with the    *)
(* worker's bookkeeping, which may not have run yet.                       *)
DrainReceive(t) ==
  LET j == Head(results)
      i == JobID[j]
  IN
  /\ tpc[t] = "collect" /\ results # <<>>
  /\ results' = Tail(results)
  /\ tout' = [tout EXCEPT ![t] = Append(@, j)]
  /\ waitingSeq' = waitingSeq \ {seq[j]}
  /\ readySeq' = readySeq \ {seq[j]}
  /\ drainedSeq' = IF ReceivedEarly(j) THEN drainedSeq \cup {seq[j]} ELSE drainedSeq
  /\ IF ready[i] > 0
     THEN ready' = [ready EXCEPT ![i] = @ - 1] /\ UNCHANGED drainedEarly
     ELSE drainedEarly' = [drainedEarly EXCEPT ![i] = @ + 1] /\ UNCHANGED ready
  /\ UNCHANGED <<poolVars, nextSequence, seq, interactive, background, frontierWake,
                 workerVars, pendingRecords, tpc, tjob, todo, called, cancelled, alloc, outcome,
                 stale, history>>

(* The collect loop ends when the channel is empty.                        *)
Mutant_Collected(t) == tout[t] # <<>> \/ results = <<>>

Collected(t) == results = <<>>

(* No result left: sort by sequence if the drain is ordered.               *)
InSubmissionOrder(s) ==
  {r \in [DOMAIN s -> Range(s)] :
     Range(r) = Range(s) /\ \A m, n \in DOMAIN s : m < n => seq[r[m]] < seq[r[n]]}

DrainSort(t, ordered) ==
  /\ tpc[t] = "collect" /\ Collected(t)
  /\ \E r \in (IF ordered THEN InSubmissionOrder(tout[t]) ELSE {tout[t]}) :
        tout' = [tout EXCEPT ![t] = r]
  /\ Goto(t, IF tout[t] = <<>> THEN "idle" ELSE "commit")
  /\ UNCHANGED <<poolVars, seqVars, queueVars, workerVars, pendingRecords, tjob, todo,
                 called, cancelled, alloc, outcome, stale, history>>

(* The commit loop takes the drained results in turn.                      *)
Mutant_Committing(t) == tout[t][Len(tout[t])]

Committing(t) == Head(tout[t])

(* Commit one result, unless it was cancelled or failed or its snapshot or *)
(* scope went stale, and acknowledge its reservation.                      *)
DrainCommit(t) ==
  LET j == Committing(t) IN
  /\ tpc[t] = "commit" /\ tout[t] # <<>>
  /\ committed' = IF outcome[j] = "ok" /\ j \notin stale THEN Append(committed, j) ELSE committed
  /\ alloc' = [alloc EXCEPT ![j] = Acknowledge(@)]
  /\ tout' = [tout EXCEPT ![t] = Tail(@)]
  /\ Goto(t, IF Len(tout[t]) = 1 THEN "idle" ELSE "commit")
  /\ UNCHANGED <<poolVars, seqVars, queueVars, workerVars, pendingRecords, tjob, todo,
                 called, cancelled, outcome, stale, woken, reported>>

-----------------------------------------------------------------------------
(* Shutdown.                                                               *)

(* Close the pool, cancel every token, copy the tracked reservations, lift *)
(* the pause and close the shutdown channel.                               *)
ShutdownBegin(t) ==
  /\ tpc[t] = "idle" /\ ~closed
  /\ closed' = TRUE /\ paused' = FALSE
  /\ cancelled' = cancelled \cup ActiveJobs
  /\ todo' = {jobReservations[i] : i \in IDs} \ {NoJob}
  /\ Goto(t, "join")
  /\ UNCHANGED <<active, jobReservations, seqVars, queueVars, workerVars, pendingRecords,
                 tjob, tout, called, alloc, outcome, stale, history>>

(* After wg.Wait: acknowledge the results nobody drained.                  *)
Joined == \A w \in Workers : wpc[w] = "exited"

ShutdownReceive(t) ==
  LET j == Head(results) IN
  /\ tpc[t] = "join" /\ Joined /\ results # <<>>
  /\ results' = Tail(results)
  /\ alloc' = [alloc EXCEPT ![j] = Acknowledge(@)]
  /\ UNCHANGED <<poolVars, seqVars, interactive, background, frontierWake, workerVars,
                 pendingRecords, threadVars, called, cancelled, outcome, stale, history>>

(* Then retire and acknowledge each reservation copied at the start.       *)
ShutdownRelease(t, j) ==
  /\ tpc[t] = "join" /\ Joined /\ results = <<>>
  /\ j \in todo
  /\ alloc' = [alloc EXCEPT ![j] = Acknowledge(Retire(@))]
  /\ todo' = todo \ {j}
  /\ jobReservations' = [jobReservations EXCEPT ![JobID[j]] = NoJob]
  /\ UNCHANGED <<active, closed, paused, seqVars, queueVars, workerVars, pendingRecords,
                 tpc, tjob, tout, called, cancelled, outcome, stale, history>>

ShutdownReturn(t) ==
  /\ tpc[t] = "join" /\ Joined /\ results = <<>> /\ todo = {}
  /\ Goto(t, "idle")
  /\ UNCHANGED <<poolVars, seqVars, queueVars, workerVars, pendingRecords, tjob, tout, todo,
                 called, cancelled, alloc, outcome, stale, history>>

-----------------------------------------------------------------------------
(* The workers.                                                            *)

(* The top of the worker loop is behind the pause gate and the shutdown    *)
(* check; the blocking select that follows knows nothing of the gate.      *)
AtTop(w) == wpc[w] = "top" /\ ~paused /\ ~closed

Take(w, j) == wpc' = [wpc EXCEPT ![w] = "work"] /\ wjob' = [wjob EXCEPT ![w] = j]

(* Either select takes an interactive job.                                 *)
WorkerInteractive(w) ==
  /\ AtTop(w) \/ wpc[w] = "blocked"
  /\ interactive # <<>>
  /\ Take(w, Head(interactive)) /\ interactive' = Tail(interactive)
  /\ UNCHANGED <<poolVars, seqVars, background, results, frontierWake, threadVars,
                 pendingRecords, called, cancelled, alloc, outcome, stale, history>>

(* Without one, the worker falls through to the blocking select.           *)
WorkerBlocks(w) ==
  /\ AtTop(w) /\ interactive = <<>>
  /\ wpc' = [wpc EXCEPT ![w] = "blocked"]
  /\ UNCHANGED <<poolVars, seqVars, queueVars, threadVars, wjob, pendingRecords,
                 called, cancelled, alloc, outcome, stale, history>>

Mutant_BackgroundReady == Len(background) > 1

BackgroundReady == background # <<>>

WorkerBackground(w) ==
  /\ wpc[w] = "blocked" /\ BackgroundReady
  /\ Take(w, Head(background)) /\ background' = Tail(background)
  /\ UNCHANGED <<poolVars, seqVars, interactive, results, frontierWake, threadVars,
                 pendingRecords, called, cancelled, alloc, outcome, stale, history>>

(* Both selects watch the shutdown channel.                                *)
Mutant_SeesShutdown(w) == wpc[w] = "top" /\ ~paused

SeesShutdown(w) == wpc[w] = "blocked" \/ (wpc[w] = "top" /\ ~paused)

WorkerExit(w) ==
  /\ closed /\ SeesShutdown(w)
  /\ wpc' = [wpc EXCEPT ![w] = "exited"]
  /\ UNCHANGED <<poolVars, seqVars, queueVars, threadVars, wjob, pendingRecords,
                 called, cancelled, alloc, outcome, stale, history>>

(* Work returns; the cancel token is read once, after it.                  *)
Work(w, failed) ==
  LET j == wjob[w] IN
  /\ wpc[w] = "work"
  /\ outcome' = [outcome EXCEPT ![j] = IF j \in cancelled THEN "cancelled"
                                       ELSE IF failed THEN "error" ELSE "ok"]
  /\ wpc' = [wpc EXCEPT ![w] = "cleanup"]
  /\ UNCHANGED <<poolVars, seqVars, queueVars, threadVars, wjob, pendingRecords,
                 called, cancelled, alloc, stale, history>>

(* Work panics: the recovery retires and acknowledges the reservation.     *)
WorkPanics(w) ==
  LET j == wjob[w] IN
  /\ wpc[w] = "work"
  /\ outcome' = [outcome EXCEPT ![j] = IF j \in cancelled THEN "cancelled" ELSE "error"]
  /\ alloc' = [alloc EXCEPT ![j] = Acknowledge(Retire(@))]
  /\ wpc' = [wpc EXCEPT ![w] = "cleanup"]
  /\ UNCHANGED <<poolVars, seqVars, queueVars, threadVars, wjob, pendingRecords,
                 called, cancelled, stale, history>>

(* Drop the tracking entries if they are still this job's, give the record *)
(* back, and retire the reservation unless the recovery freed it.          *)
Mutant_OwnsEntry(j) == TRUE

OwnsEntry(j) == active[JobID[j]] = j

WorkerCleanup(w) ==
  LET j == wjob[w] IN
  /\ wpc[w] = "cleanup"
  /\ active' = IF OwnsEntry(j) THEN [active EXCEPT ![JobID[j]] = NoJob] ELSE active
  /\ jobReservations' = IF OwnsEntry(j) THEN [jobReservations EXCEPT ![JobID[j]] = NoJob]
                                        ELSE jobReservations
  /\ pendingRecords' = pendingRecords - 1
  /\ alloc' = [alloc EXCEPT ![j] = Retire(@)]
  /\ wpc' = [wpc EXCEPT ![w] = "send"]
  /\ UNCHANGED <<closed, paused, seqVars, queueVars, threadVars, wjob,
                 called, cancelled, outcome, stale, history>>

(* The nonblocking send of the result.                                     *)
WorkerSend(w) ==
  /\ wpc[w] = "send" /\ Len(results) < MaxTotalRecords
  /\ results' = Append(results, wjob[w])
  /\ reported' = reported \cup {wjob[w]}
  /\ wpc' = [wpc EXCEPT ![w] = "publish"]
  /\ UNCHANGED <<poolVars, seqVars, interactive, background, frontierWake, threadVars,
                 wjob, pendingRecords, called, cancelled, alloc, outcome, stale, woken, committed>>

(* The result channel is full: the result is dropped and its reservation   *)
(* acknowledged.                                                           *)
WorkerDrop(w) ==
  LET j == wjob[w] IN
  /\ wpc[w] = "send" /\ Len(results) >= MaxTotalRecords
  /\ alloc' = [alloc EXCEPT ![j] = Acknowledge(@)]
  /\ wpc' = [wpc EXCEPT ![w] = "top"] /\ wjob' = [wjob EXCEPT ![w] = NoJob]
  /\ UNCHANGED <<poolVars, seqVars, queueVars, threadVars, pendingRecords,
                 called, cancelled, outcome, stale, history>>

Mutant_AlreadyDrained(i) == TRUE

AlreadyDrained(i) == drainedEarly[i] > 0

(* The bookkeeping after a send, and the nonblocking send on frontierWake. *)
(* The result may have been drained already.                               *)
WorkerPublish(w) ==
  LET j == wjob[w]
      i == JobID[j]
  IN
  /\ wpc[w] = "publish"
  /\ IF seq[j] \in drainedSeq
     THEN drainedSeq' = drainedSeq \ {seq[j]} /\ UNCHANGED <<waitingSeq, readySeq>>
     ELSE /\ waitingSeq' = waitingSeq \ {seq[j]}
          /\ readySeq' = readySeq \cup {seq[j]}
          /\ UNCHANGED drainedSeq
  /\ IF AlreadyDrained(i)
     THEN drainedEarly' = [drainedEarly EXCEPT ![i] = @ - 1] /\ UNCHANGED ready
     ELSE ready' = [ready EXCEPT ![i] = @ + 1] /\ UNCHANGED drainedEarly
  /\ frontierWake' = TRUE
  /\ wpc' = [wpc EXCEPT ![w] = "top"] /\ wjob' = [wjob EXCEPT ![w] = NoJob]
  /\ UNCHANGED <<poolVars, nextSequence, seq, interactive, background, results, threadVars,
                 pendingRecords, called, cancelled, alloc, outcome, stale, history>>

(* A store version of the job's snapshot moves, or its scope is closed.    *)
Invalidate(j) ==
  /\ j \in Guarded \ stale /\ called \in Disturbances
  /\ stale' = stale \cup {j}
  /\ UNCHANGED <<poolVars, seqVars, queueVars, threadVars, workerVars, pendingRecords,
                 called, cancelled, alloc, outcome, history>>

-----------------------------------------------------------------------------

(* A step of a public method; Drain is called by DrainBegin.               *)
PoolCall(t) ==
  \/ \E j \in Jobs : ScheduleReserve(t, j) \/ ScheduleNoMemory(t, j)
  \/ ScheduleRefused(t) \/ ScheduleAdmit(t) \/ ScheduleSend(t)
  \/ ScheduleFull(t) \/ ScheduleUndo(t)
  \/ \E i \in CancelIDs : CancelJob(t, i)
  \/ CancelAll(t)
  \/ \E p \in BOOLEAN : SetPaused(t, p)
  \/ DrainReceive(t)
  \/ \E ordered \in BOOLEAN : DrainSort(t, ordered)
  \/ DrainCommit(t)
  \/ ShutdownBegin(t) \/ ShutdownReceive(t)
  \/ \E j \in Jobs : ShutdownRelease(t, j)
  \/ ShutdownReturn(t)

ThreadNext(t) == PoolCall(t) \/ DrainBegin(t) \/ ReceiveWake(t)

WorkerNext(w) ==
  \/ WorkerInteractive(w) \/ WorkerBlocks(w) \/ WorkerBackground(w) \/ WorkerExit(w)
  \/ \E failed \in BOOLEAN : Work(w, failed)
  \/ WorkPanics(w) \/ WorkerCleanup(w) \/ WorkerSend(w) \/ WorkerDrop(w)
  \/ WorkerPublish(w)

Next ==
  \/ \E t \in Threads : ThreadNext(t)
  \/ \E w \in Workers : WorkerNext(w)
  \/ \E j \in Jobs : Invalidate(j)

Spec == Init /\ [][Next]_vars

(* Steps that finish a call a thread is in the middle of.                  *)
Busy(t) == tpc[t] # "idle"

Fairness ==
  /\ \A t \in Threads : WF_vars(Busy(t) /\ ThreadNext(t))
  /\ \A w \in Workers : WF_vars(WorkerNext(w))

FairSpec == Spec /\ Fairness

-----------------------------------------------------------------------------
(* The read-only methods.                                                  *)

Frontier == nextSequence

Mutant_ReadyThrough(frontier) == \A s \in waitingSeq : s >= frontier

ReadyThrough(frontier) == \A s \in waitingSeq : s > frontier

Pending == Cardinality(ActiveJobs) + Len(interactive) + Len(background) + Len(results)

Ready(i) == ready[i] > 0

-----------------------------------------------------------------------------
(* Properties.                                                             *)

ThreadLabels == {"idle", "admit", "send", "undo", "collect", "commit", "join"}
WorkerLabels == {"top", "blocked", "work", "cleanup", "send", "publish", "exited"}

PoolType ==
  /\ active \in [IDs -> Jobs \cup {NoJob}] /\ jobReservations \in [IDs -> Jobs \cup {NoJob}]
  /\ pendingRecords \in Int

SeqType ==
  /\ nextSequence \in Nat /\ seq \in [Jobs -> Nat]
  /\ waitingSeq \subseteq Nat /\ readySeq \subseteq Nat /\ drainedSeq \subseteq Nat
  /\ ready \in [IDs -> Nat] /\ drainedEarly \in [IDs -> Nat]

FlagType == closed \in BOOLEAN /\ paused \in BOOLEAN /\ frontierWake \in BOOLEAN

QueueType ==
  /\ interactive \in Seq(Jobs) /\ background \in Seq(Jobs) /\ results \in Seq(Jobs)

JobType ==
  /\ called \subseteq Jobs /\ cancelled \subseteq Jobs /\ stale \subseteq Jobs
  /\ alloc \in [Jobs -> Held \cup {"none", "freed"}]
  /\ outcome \in [Jobs -> {"none", "ok", "cancelled", "error"}]
  /\ committed \in Seq(Jobs) /\ reported \subseteq Jobs

ThreadType ==
  /\ tpc \in [Threads -> ThreadLabels] /\ tjob \in [Threads -> Jobs \cup {NoJob}]
  /\ tout \in [Threads -> Seq(Jobs)] /\ todo \subseteq Jobs
  /\ woken \subseteq Threads

WorkerType ==
  /\ wpc \in [Workers -> WorkerLabels] /\ wjob \in [Workers -> Jobs \cup {NoJob}]

(* Every variable of the pool, the threads and the workers has its type.   *)
TypeOK == PoolType /\ SeqType /\ QueueType /\ FlagType /\ JobType /\ ThreadType /\ WorkerType

WorkersAt(labels) == {w \in Workers : wpc[w] \in labels}
JobsAt(labels) == {wjob[w] : w \in WorkersAt(labels)}
Queued == Range(interactive) \cup Range(background)
Sending == {t \in Threads : tpc[t] = "send"}
Running == WorkersAt({"work", "cleanup"})
OfID(s, i) == {n \in DOMAIN s : JobID[s[n]] = i}
Unbooked(i) == {w \in WorkersAt({"publish"}) : JobID[wjob[w]] = i}

(* The frontier a Virtual frame waits for is sound: when ReadyThrough says *)
(* yes, every job admitted up to the frontier has had its result sent to   *)
(* the results channel (job.go:335-349), whatever the interleaving of the  *)
(* worker's send and bookkeeping with the drain.                           *)
FrontierSound ==
  \A f \in 0..nextSequence :
     ReadyThrough(f) => \A j \in Jobs : seq[j] \in 1..f => j \in reported

(* The memory of a job stays charged for as long as it may be in use: a    *)
(* running job holds a live reservation, and a result that can commit      *)
(* holds a retiring one (job.go:485-488, 957-961, 718-728), also after the *)
(* job was replaced and its entry in jobReservations removed.  A Shutdown  *)
(* on another thread may release a result that a drain still holds.        *)
ChargeCoversWork ==
  /\ \A j \in JobsAt({"work"}) : Bytes[j] > 0 => alloc[j] = "live"
  /\ \A j \in Range(results) \cup UNION {Range(tout[t]) : t \in Threads} :
        Bytes[j] > 0 /\ outcome[j] = "ok" /\ ~Joined => alloc[j] = "retiring"

(* ready and drainedEarly pair every send with every receive: their        *)
(* difference is what is in the channel minus what is not yet booked, they *)
(* are never both positive, and drainedSequence holds exactly the results  *)
(* received before their worker's bookkeeping (job.go:236-241, 697-712,    *)
(* 985-996).  So Ready never reports a result that is not there, and the   *)
(* maps stay bounded by the results and the workers.  Shutdown empties the *)
(* channel without booking it.                                             *)
BookkeepingPaired ==
  Joined \/
  /\ \A i \in IDs :
        /\ ready[i] = 0 \/ drainedEarly[i] = 0
        /\ ready[i] - drainedEarly[i] = Cardinality(OfID(results, i)) - Cardinality(Unbooked(i))
  /\ drainedSeq = {seq[j] : j \in JobsAt({"publish"}) \ Range(results)}
  /\ waitingSeq \cap readySeq = {}

(* pendingRecords is exactly the number of jobs admitted and not finished, *)
(* although it is decremented in three places, two of them outside p.mu    *)
(* (job.go:512-514, 613, 951), and never exceeds its limit.                *)
RecordsExact ==
  /\ pendingRecords = Cardinality(Sending) + Len(interactive) + Len(background)
                      + Cardinality(Running)
  /\ pendingRecords <= MaxTotalRecords

(* The pool loses no wake-up: a result in the channel is covered by a      *)
(* token in frontierWake, by a worker that is about to put one there, by a *)
(* drain that is still collecting, or by a thread that took the token and  *)
(* owes its recheck (job.go:351-352, 690-717, 980-1000), until the pool is *)
(* closed.  Whether the receiver pays is the matter of module FrameLoop.   *)
WakeCoversResults ==
  results # <<>> =>
     \/ frontierWake \/ closed \/ woken # {}
     \/ WorkersAt({"publish"}) # {}
     \/ \E t \in Threads : tpc[t] = "collect"

(* A result is committed at most once, however many threads drain and      *)
(* whether or not they sort (job.go:690-745): no job is in the commit      *)
(* history twice.                                                          *)
CommittedOnce == IsInjective(committed)

(* When one thread makes all calls, at most one job of an ID is queued or  *)
(* running with a token that is not cancelled (job.go:541-554): a replaced *)
(* job, also one whose replacement was refused, has been told to stop.     *)
OneLivePerID ==
  \A j, k \in Queued \cup JobsAt({"work"}) :
     JobID[j] = JobID[k] /\ {j, k} \cap cancelled = {} => j = k

(* A pool at rest holds no charge, whatever was replaced, cancelled,       *)
(* dropped or failed on the way (job.go:718-745, 924-940, 1001-1012): only *)
(* a job that was refused by a full queue after its reservation had been   *)
(* published keeps its charge, and its sequence number, for ever.          *)
AtRest ==
  /\ \A t \in Threads : tpc[t] = "idle"
  /\ Queued = {} /\ results = <<>>
  /\ \A w \in Workers : wjob[w] = NoJob

ChargesReturned ==
  AtRest => \A j \in Jobs : alloc[j] \in Held => seq[j] \in waitingSeq /\ outcome[j] = "none"

ShutdownReturned == closed /\ \A t \in Threads : tpc[t] # "join"

(* Pool.Shutdown leaves the jobs wallet charge at zero (job.go:786, 823);  *)
(* a Schedule that is about to be refused may hold its own for a moment.   *)
ShutdownLeavesZero ==
  ShutdownReturned /\ (\A t \in Threads : tpc[t] # "admit") => WalletUsed = 0

(* Pause stops workers from pulling new jobs until Resume (job.go:360).    *)
PausedPullsNothing ==
  [][\A w \in Workers : wpc[w] \in {"top", "blocked"} /\ wpc'[w] = "work" => ~paused]_vars

(* A queued job is run: it leaves the queue unless workers are paused or   *)
(* the pool shuts down.  A worker tries the interactive queue first at     *)
(* every turn (job.go:866-892), so a background job is promised this only  *)
(* when interactive ones do not keep coming.                               *)
QueuedJobRuns ==
  \A j \in Jobs :
     \/ j \in Queued ~> (j \notin Queued \/ paused \/ closed)
     \/ j \notin Interactive /\ []<>(interactive # <<>>)

(* Shutdown terminates: no worker is left waiting behind the pause gate or *)
(* in the blocking select (job.go:792-804, 858-895).                       *)
ShutdownTerminates == closed ~> ShutdownReturned

=============================================================================
