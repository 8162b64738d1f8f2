--------------------------- MODULE JobPoolProofs ---------------------------
(***************************************************************************)
(* Proofs about JobPool, for any number of jobs, threads and workers: type *)
(* correctness, the soundness of the job frontier, no lost wake-up, the    *)
(* count of pending records and that a job is in one place at a time; then *)
(* that what is charged to the jobs wallet for a job follows the job's way *)
(* through the pool, that sends and receives stay paired, and that one     *)
(* live job of an ID is enough; and, about FrameLoop, that the runtime's   *)
(* loop remembers a wake-up it took.                                       *)
(***************************************************************************)
EXTENDS FrameLoop, FiniteSetTheorems, TLAPS

(* Facts about sequences that the steps on the channels rest on.           *)
LEMMA HeadTail ==
  ASSUME NEW S, NEW s \in Seq(S), s # <<>>
  PROVE  Head(s) \in S /\ Tail(s) \in Seq(S)
         /\ Head(s) \in Range(s) /\ Range(Tail(s)) \subseteq Range(s)
<1>1. Len(s) \in Nat /\ Len(s) > 0 OBVIOUS
<1>2. Head(s) = s[1] /\ Head(s) \in S /\ Tail(s) \in Seq(S) BY <1>1
<1>3. Head(s) \in Range(s) BY <1>1, <1>2 DEF Range
<1>4. Range(Tail(s)) \subseteq Range(s)
  <2>1. ASSUME NEW n \in DOMAIN Tail(s) PROVE Tail(s)[n] = s[n + 1] /\ n + 1 \in DOMAIN s
    BY <1>1
  <2>2. QED BY <2>1 DEF Range
<1>5. QED BY <1>2, <1>3, <1>4

LEMMA RangeAppend ==
  ASSUME NEW S, NEW s \in Seq(S), NEW e \in S
  PROVE  Append(s, e) \in Seq(S) /\ Range(Append(s, e)) = Range(s) \cup {e}
<1>1. Append(s, e) \in Seq(S) OBVIOUS
<1>2. \A n \in DOMAIN Append(s, e) : Append(s, e)[n] \in Range(s) \cup {e} BY DEF Range
<1>3. \A n \in DOMAIN s : n \in DOMAIN Append(s, e) /\ Append(s, e)[n] = s[n] OBVIOUS
<1>4. Len(s) + 1 \in DOMAIN Append(s, e) /\ Append(s, e)[Len(s) + 1] = e OBVIOUS
<1>5. QED BY <1>1, <1>2, <1>3, <1>4 DEF Range

LEMMA Reordering ==
  ASSUME NEW S, NEW s \in Seq(S), NEW r \in [DOMAIN s -> Range(s)]
  PROVE  r \in Seq(S)
<1>1. Len(s) \in Nat /\ DOMAIN s = 1..Len(s) OBVIOUS
<1>2. Range(s) \subseteq S BY DEF Range
<1>3. QED BY <1>1, <1>2

(* A thread inside ScheduleGuarded and a worker that has taken a job each  *)
(* hold a job.                                                             *)
Holding ==
  /\ \A t \in Threads : tpc[t] \in {"admit", "send", "undo"} => tjob[t] \in Jobs
  /\ \A w \in Workers : wpc[w] \in {"work", "cleanup", "send", "publish"} => wjob[w] \in Jobs

TypeInv == TypeOK /\ Holding

USE JobPoolConstants

(* TypeOK is an invariant of JobPool: every step of job.go's ScheduleGuarded,
   drain, Shutdown and worker keeps the pool's fields in their types.  Holding
   strengthens it: the steps dereference tjob and wjob. *)
LEMMA TypeInit == Init => TypeInv
<1> SUFFICES ASSUME Init PROVE TypeInv
  OBVIOUS
<1>1. PoolType BY DEF Init, PoolType
<1>2. SeqType BY DEF Init, SeqType
<1>3. QueueType BY DEF Init, QueueType
<1>4. FlagType BY DEF Init, FlagType
<1>5. JobType BY DEF Init, JobType
<1>6. ThreadType BY DEF Init, ThreadType, ThreadLabels
<1>7. WorkerType BY DEF Init, WorkerType, WorkerLabels
<1>8. Holding BY DEF Init, Holding
<1>9. QED BY <1>1, <1>2, <1>3, <1>4, <1>5, <1>6, <1>7, <1>8 DEF TypeInv, TypeOK

LEMMA TypeStep == TypeInv /\ [Next]_vars => TypeInv'
<1> USE DEF ThreadLabels, WorkerLabels
<1> SUFFICES ASSUME TypeInv, [Next]_vars PROVE TypeInv'
  OBVIOUS
<1>0. PoolType /\ SeqType /\ QueueType /\ FlagType /\ JobType /\ ThreadType /\ WorkerType /\ Holding
  BY DEF TypeInv, TypeOK
<1>1. ASSUME NEW t \in Threads, NEW j \in Jobs, ScheduleReserve(t, j) PROVE TypeInv'
  <2>1. (PoolType /\ SeqType /\ QueueType /\ FlagType /\ WorkerType)'
    BY <1>0, <1>1 DEF ScheduleReserve, PoolType, SeqType, QueueType, FlagType, WorkerType,
       poolVars, seqVars, queueVars, threadVars, workerVars, history
  <2>2. JobType'
    BY <1>0, <1>1 DEF ScheduleReserve, Goto, Held, JobType, history
  <2>3. ThreadType'
    BY <1>0, <1>1 DEF ScheduleReserve, Goto, Held, ThreadType, threadVars, history
  <2>4. Holding'
    BY <1>0, <1>1 DEF ScheduleReserve, Goto, Held, Holding, ThreadType, threadVars, workerVars,
       history
  <2>5. QED BY <2>1, <2>2, <2>3, <2>4 DEF TypeInv, TypeOK
<1>2. ASSUME NEW t \in Threads, NEW j \in Jobs, ScheduleNoMemory(t, j) PROVE TypeInv'
  <2>1. (PoolType /\ SeqType /\ QueueType /\ FlagType /\ ThreadType /\ WorkerType /\ Holding)'
    BY <1>0, <1>2 DEF ScheduleNoMemory, PoolType, SeqType, QueueType, FlagType, ThreadType,
       WorkerType, Holding, poolVars, seqVars, queueVars, threadVars, workerVars, history
  <2>2. JobType'
    BY <1>0, <1>2 DEF ScheduleNoMemory, JobType, history, Held
  <2>3. QED BY <2>1, <2>2 DEF TypeInv, TypeOK
<1>3. ASSUME NEW t \in Threads, ScheduleRefused(t) PROVE TypeInv'
  <2>1. (PoolType /\ SeqType /\ QueueType /\ FlagType /\ WorkerType)'
    BY <1>0, <1>3 DEF ScheduleRefused, PoolType, SeqType, QueueType, FlagType, WorkerType,
       poolVars, seqVars, queueVars, threadVars, workerVars, history
  <2>2. JobType'
    BY <1>0, <1>3 DEF ScheduleRefused, Goto, Cancel, Held, JobType, history
  <2>3. ThreadType'
    BY <1>0, <1>3 DEF ScheduleRefused, Goto, Cancel, Held, ThreadType, threadVars, history
  <2>4. Holding'
    BY <1>0, <1>3 DEF ScheduleRefused, Goto, Cancel, Held, Holding, ThreadType, threadVars,
       workerVars, history
  <2>5. QED BY <2>1, <2>2, <2>3, <2>4 DEF TypeInv, TypeOK
<1>4. ASSUME NEW t \in Threads, ScheduleAdmit(t) PROVE TypeInv'
  <2>1. (QueueType /\ FlagType /\ WorkerType)'
    BY <1>0, <1>4 DEF ScheduleAdmit, QueueType, FlagType, WorkerType, poolVars, seqVars,
       queueVars, threadVars, workerVars, history
  <2>2. PoolType'
    BY <1>0, <1>4 DEF ScheduleAdmit, Goto, Cancel, Publish, Held, PoolType, Holding, poolVars
  <2>3. SeqType'
    BY <1>0, <1>4 DEF ScheduleAdmit, Goto, Cancel, Publish, Held, SeqType, Holding, seqVars
  <2>4. JobType'
    BY <1>0, <1>4 DEF ScheduleAdmit, Goto, Cancel, Publish, Held, JobType, Holding, PoolType,
       history
  <2>5. ThreadType'
    BY <1>0, <1>4 DEF ScheduleAdmit, Goto, Cancel, Publish, Held, ThreadType, threadVars, history
  <2>6. Holding'
    BY <1>0, <1>4 DEF ScheduleAdmit, Goto, Cancel, Publish, Held, Holding, threadVars,
       workerVars
  <2>7. QED BY <2>1, <2>2, <2>3, <2>4, <2>5, <2>6 DEF TypeInv, TypeOK
<1>5. ASSUME NEW t \in Threads, ScheduleSend(t) PROVE TypeInv'
  <2>1. (PoolType /\ SeqType /\ FlagType /\ JobType /\ WorkerType)'
    BY <1>0, <1>5 DEF ScheduleSend, PoolType, SeqType, FlagType, JobType, WorkerType, poolVars,
       seqVars, queueVars, threadVars, workerVars, history
  <2>2. QueueType'
    BY <1>0, <1>5, RangeAppend DEF ScheduleSend, Goto, QueueType, Holding, queueVars
  <2>3. ThreadType'
    BY <1>0, <1>5 DEF ScheduleSend, Goto, ThreadType, threadVars, history
  <2>4. Holding'
    BY <1>0, <1>5 DEF ScheduleSend, Goto, Holding, ThreadType, threadVars, workerVars, history
  <2>5. QED BY <2>1, <2>2, <2>3, <2>4 DEF TypeInv, TypeOK
<1>6. ASSUME NEW t \in Threads, ScheduleFull(t) PROVE TypeInv'
  <2>1. (SeqType /\ QueueType /\ FlagType /\ WorkerType)'
    BY <1>0, <1>6 DEF ScheduleFull, SeqType, QueueType, FlagType, WorkerType, poolVars, seqVars,
       queueVars, threadVars, workerVars, history
  <2>2. PoolType'
    BY <1>0, <1>6 DEF ScheduleFull, Goto, Cancel, Held, PoolType, poolVars
  <2>3. JobType'
    BY <1>0, <1>6 DEF ScheduleFull, Goto, Cancel, Held, JobType, Holding, history
  <2>4. ThreadType'
    BY <1>0, <1>6 DEF ScheduleFull, Goto, Cancel, Held, ThreadType, threadVars, history
  <2>5. Holding'
    BY <1>0, <1>6 DEF ScheduleFull, Goto, Cancel, Held, Holding, threadVars, workerVars
  <2>6. QED BY <2>1, <2>2, <2>3, <2>4, <2>5 DEF TypeInv, TypeOK
<1>7. ASSUME NEW t \in Threads, ScheduleUndo(t) PROVE TypeInv'
  <2>1. (SeqType /\ QueueType /\ FlagType /\ JobType /\ WorkerType)'
    BY <1>0, <1>7 DEF ScheduleUndo, SeqType, QueueType, FlagType, JobType, WorkerType, poolVars,
       seqVars, queueVars, threadVars, workerVars, history
  <2>2. PoolType'
    BY <1>0, <1>7 DEF ScheduleUndo, Goto, PoolType, poolVars
  <2>3. ThreadType'
    BY <1>0, <1>7 DEF ScheduleUndo, Goto, ThreadType, threadVars, history
  <2>4. Holding'
    BY <1>0, <1>7 DEF ScheduleUndo, Goto, Holding, ThreadType, threadVars, workerVars, history
  <2>5. QED BY <2>1, <2>2, <2>3, <2>4 DEF TypeInv, TypeOK
<1>8. ASSUME NEW t \in Threads, NEW i \in CancelIDs, CancelJob(t, i) PROVE TypeInv'
  <2>1. (PoolType /\ SeqType /\ QueueType /\ FlagType /\ ThreadType /\ WorkerType /\ Holding)'
    BY <1>0, <1>8 DEF CancelJob, PoolType, SeqType, QueueType, FlagType, ThreadType, WorkerType,
       Holding, poolVars, seqVars, queueVars, threadVars, workerVars, history
  <2>2. JobType'
    BY <1>0, <1>8 DEF CancelJob, JobType, PoolType, history, Held
  <2>3. QED BY <2>1, <2>2 DEF TypeInv, TypeOK
<1>9. ASSUME NEW t \in Threads, CancelAll(t) PROVE TypeInv'
  <2>1. (PoolType /\ SeqType /\ QueueType /\ FlagType /\ ThreadType /\ WorkerType /\ Holding)'
    BY <1>0, <1>9 DEF CancelAll, PoolType, SeqType, QueueType, FlagType, ThreadType, WorkerType,
       Holding, poolVars, seqVars, queueVars, threadVars, workerVars, history
  <2>2. JobType'
    BY <1>0, <1>9 DEF CancelAll, ActiveJobs, JobType, PoolType, history, Held
  <2>3. QED BY <2>1, <2>2 DEF TypeInv, TypeOK
<1>10. ASSUME NEW t \in Threads, NEW p \in BOOLEAN, SetPaused(t, p) PROVE TypeInv'
  <2>1. (PoolType /\ SeqType /\ QueueType /\ JobType /\ ThreadType /\ WorkerType /\ Holding)'
    BY <1>0, <1>10 DEF SetPaused, PoolType, SeqType, QueueType, JobType, ThreadType, WorkerType,
       Holding, poolVars, seqVars, queueVars, threadVars, workerVars, history
  <2>2. FlagType'
    BY <1>0, <1>10 DEF SetPaused, FlagType, poolVars, queueVars
  <2>3. QED BY <2>1, <2>2 DEF TypeInv, TypeOK
<1>11. ASSUME NEW t \in Threads, DrainBegin(t) PROVE TypeInv'
  <2>1. (PoolType /\ SeqType /\ QueueType /\ JobType /\ WorkerType)'
    BY <1>0, <1>11 DEF DrainBegin, PoolType, SeqType, QueueType, JobType, WorkerType, poolVars,
       seqVars, queueVars, threadVars, workerVars, history
  <2>2. FlagType'
    BY <1>0, <1>11 DEF DrainBegin, Goto, FlagType, poolVars, queueVars
  <2>3. ThreadType'
    BY <1>0, <1>11 DEF DrainBegin, Goto, ThreadType, threadVars, history
  <2>4. Holding'
    BY <1>0, <1>11 DEF DrainBegin, Goto, Holding, threadVars, workerVars
  <2>5. QED BY <2>1, <2>2, <2>3, <2>4 DEF TypeInv, TypeOK
<1>12. ASSUME NEW t \in Threads, DrainReceive(t) PROVE TypeInv'
  <2>a. results # <<>> /\ results \in Seq(Jobs) BY <1>0, <1>12 DEF DrainReceive, QueueType
  <2>b. Head(results) \in Jobs /\ Tail(results) \in Seq(Jobs) BY <2>a, HeadTail
  <2>c. JobID[Head(results)] \in IDs /\ seq[Head(results)] \in Nat BY <1>0, <2>b DEF SeqType
  <2>1. (PoolType /\ FlagType /\ JobType /\ WorkerType /\ Holding)'
    BY <1>0, <1>12 DEF DrainReceive, PoolType, FlagType, JobType, WorkerType, Holding, poolVars,
       seqVars, queueVars, threadVars, workerVars, history
  <2>2. SeqType'
    <3>1. UNCHANGED <<nextSequence, seq>> BY <1>12 DEF DrainReceive
    <3>2. waitingSeq' \subseteq Nat /\ readySeq' \subseteq Nat /\ drainedSeq' \subseteq Nat
      BY <1>0, <1>12, <2>c DEF DrainReceive, SeqType
    <3>3. ready' \in [IDs -> Nat] /\ drainedEarly' \in [IDs -> Nat]
      <4>1. CASE ready[JobID[Head(results)]] > 0
        <5>1. ready' = [ready EXCEPT ![JobID[Head(results)]] = ready[JobID[Head(results)]] - 1] /\ drainedEarly' = drainedEarly
          BY <1>12, <4>1 DEF DrainReceive
        <5>2. QED BY <1>0, <2>c, <4>1, <5>1 DEF SeqType
      <4>2. CASE ~(ready[JobID[Head(results)]] > 0)
        <5>1. drainedEarly' = [drainedEarly EXCEPT ![JobID[Head(results)]] = drainedEarly[JobID[Head(results)]] + 1] /\ ready' = ready
          BY <1>12, <4>2 DEF DrainReceive
        <5>2. QED BY <1>0, <2>c, <5>1 DEF SeqType
      <4>3. QED BY <4>1, <4>2
    <3>4. QED BY <1>0, <3>1, <3>2, <3>3 DEF SeqType
  <2>3. QueueType'
    BY <1>0, <1>12, <2>a, <2>b DEF DrainReceive, ReceivedEarly, QueueType, queueVars
  <2>4. ThreadType'
    BY <1>0, <1>12, <2>b, RangeAppend DEF DrainReceive, ReceivedEarly, ThreadType, threadVars,
       history
  <2>5. QED BY <2>1, <2>2, <2>3, <2>4 DEF TypeInv, TypeOK
<1>13. ASSUME NEW t \in Threads, NEW ordered \in BOOLEAN, DrainSort(t, ordered) PROVE TypeInv'
  <2>1. (PoolType /\ SeqType /\ QueueType /\ FlagType /\ JobType /\ WorkerType)'
    BY <1>0, <1>13 DEF DrainSort, PoolType, SeqType, QueueType, FlagType, JobType, WorkerType,
       poolVars, seqVars, queueVars, threadVars, workerVars, history
  <2>2. ThreadType'
    BY <1>0, <1>13, Reordering DEF DrainSort, Goto, InSubmissionOrder, ThreadType, threadVars,
       history
  <2>3. Holding'
    BY <1>0, <1>13 DEF DrainSort, Goto, InSubmissionOrder, Holding, threadVars, workerVars
  <2>4. QED BY <2>1, <2>2, <2>3 DEF TypeInv, TypeOK
<1>14. ASSUME NEW t \in Threads, DrainCommit(t) PROVE TypeInv'
  <2>1. (PoolType /\ SeqType /\ QueueType /\ FlagType /\ WorkerType)'
    BY <1>0, <1>14 DEF DrainCommit, PoolType, SeqType, QueueType, FlagType, WorkerType,
       poolVars, seqVars, queueVars, threadVars, workerVars, history
  <2>2. JobType'
    BY <1>0, <1>14, HeadTail, RangeAppend DEF DrainCommit, Committing, Goto, Acknowledge, Held, JobType,
       ThreadType, history
  <2>3. ThreadType'
    BY <1>0, <1>14, HeadTail DEF DrainCommit, Goto, Acknowledge, Held, ThreadType, threadVars,
       history
  <2>4. Holding'
    BY <1>0, <1>14 DEF DrainCommit, Goto, Acknowledge, Held, Holding, threadVars, workerVars
  <2>5. QED BY <2>1, <2>2, <2>3, <2>4 DEF TypeInv, TypeOK
<1>15. ASSUME NEW t \in Threads, ShutdownBegin(t) PROVE TypeInv'
  <2>1. (PoolType /\ SeqType /\ QueueType /\ WorkerType)'
    BY <1>0, <1>15 DEF ShutdownBegin, PoolType, SeqType, QueueType, WorkerType, poolVars,
       seqVars, queueVars, threadVars, workerVars, history
  <2>2. FlagType'
    BY <1>0, <1>15 DEF ShutdownBegin, Goto, ActiveJobs, FlagType, poolVars, queueVars
  <2>3. JobType'
    BY <1>0, <1>15 DEF ShutdownBegin, Goto, ActiveJobs, JobType, PoolType, history, Held
  <2>4. ThreadType'
    BY <1>0, <1>15 DEF ShutdownBegin, Goto, ActiveJobs, ThreadType, PoolType, threadVars, history
  <2>5. Holding'
    BY <1>0, <1>15 DEF ShutdownBegin, Goto, ActiveJobs, Holding, threadVars, workerVars
  <2>6. QED BY <2>1, <2>2, <2>3, <2>4, <2>5 DEF TypeInv, TypeOK
<1>16. ASSUME NEW t \in Threads, ShutdownReceive(t) PROVE TypeInv'
  <2>1. (PoolType /\ SeqType /\ FlagType /\ ThreadType /\ WorkerType /\ Holding)'
    BY <1>0, <1>16 DEF ShutdownReceive, PoolType, SeqType, FlagType, ThreadType, WorkerType,
       Holding, poolVars, seqVars, queueVars, threadVars, workerVars, history
  <2>2. QueueType'
    BY <1>0, <1>16, HeadTail DEF ShutdownReceive, Acknowledge, Held, QueueType, queueVars
  <2>3. JobType'
    BY <1>0, <1>16, HeadTail DEF ShutdownReceive, Acknowledge, Held, JobType, QueueType, history
  <2>4. QED BY <2>1, <2>2, <2>3 DEF TypeInv, TypeOK
<1>17. ASSUME NEW t \in Threads, NEW j \in Jobs, ShutdownRelease(t, j) PROVE TypeInv'
  <2>1. (SeqType /\ QueueType /\ FlagType /\ WorkerType /\ Holding)'
    BY <1>0, <1>17 DEF ShutdownRelease, SeqType, QueueType, FlagType, WorkerType, Holding,
       poolVars, seqVars, queueVars, threadVars, workerVars, history
  <2>2. PoolType'
    BY <1>0, <1>17 DEF ShutdownRelease, Acknowledge, Retire, Held, PoolType, poolVars
  <2>3. JobType'
    BY <1>0, <1>17 DEF ShutdownRelease, Acknowledge, Retire, Held, JobType, history
  <2>4. ThreadType'
    BY <1>0, <1>17 DEF ShutdownRelease, Acknowledge, Retire, Held, ThreadType, threadVars, history
  <2>5. QED BY <2>1, <2>2, <2>3, <2>4 DEF TypeInv, TypeOK
<1>18. ASSUME NEW t \in Threads, ShutdownReturn(t) PROVE TypeInv'
  <2>1. (PoolType /\ SeqType /\ QueueType /\ FlagType /\ JobType /\ WorkerType)'
    BY <1>0, <1>18 DEF ShutdownReturn, PoolType, SeqType, QueueType, FlagType, JobType,
       WorkerType, poolVars, seqVars, queueVars, threadVars, workerVars, history
  <2>2. ThreadType'
    BY <1>0, <1>18 DEF ShutdownReturn, Goto, ThreadType, threadVars, history
  <2>3. Holding'
    BY <1>0, <1>18 DEF ShutdownReturn, Goto, Holding, threadVars, workerVars
  <2>4. QED BY <2>1, <2>2, <2>3 DEF TypeInv, TypeOK
<1>19. ASSUME NEW w \in Workers, WorkerInteractive(w) PROVE TypeInv'
  <2>a. Head(interactive) \in Jobs /\ Tail(interactive) \in Seq(Jobs)
    BY <1>0, <1>19, HeadTail DEF QueueType, WorkerInteractive
  <2>1. (PoolType /\ SeqType /\ FlagType /\ JobType /\ ThreadType)'
    BY <1>0, <1>19 DEF WorkerInteractive, PoolType, SeqType, FlagType, JobType, ThreadType,
       poolVars, seqVars, queueVars, threadVars, workerVars, history
  <2>2. QueueType'
    BY <1>0, <1>19, <2>a DEF WorkerInteractive, Take, QueueType, queueVars
  <2>3. WorkerType'
    BY <1>0, <1>19, <2>a DEF WorkerInteractive, Take, WorkerType, workerVars
  <2>4. Holding'
    BY <1>0, <1>19, <2>a DEF WorkerInteractive, Take, Holding, WorkerType, threadVars,
       workerVars
  <2>5. QED BY <2>1, <2>2, <2>3, <2>4 DEF TypeInv, TypeOK
<1>20. ASSUME NEW w \in Workers, WorkerBlocks(w) PROVE TypeInv'
  <2>1. (PoolType /\ SeqType /\ QueueType /\ FlagType /\ JobType /\ ThreadType)'
    BY <1>0, <1>20 DEF WorkerBlocks, PoolType, SeqType, QueueType, FlagType, JobType,
       ThreadType, poolVars, seqVars, queueVars, threadVars, workerVars, history
  <2>2. WorkerType'
    BY <1>0, <1>20 DEF WorkerBlocks, WorkerType, workerVars
  <2>3. Holding'
    BY <1>0, <1>20 DEF WorkerBlocks, Holding, threadVars, workerVars
  <2>4. QED BY <2>1, <2>2, <2>3 DEF TypeInv, TypeOK
<1>21. ASSUME NEW w \in Workers, WorkerBackground(w) PROVE TypeInv'
  <2>a. Head(background) \in Jobs /\ Tail(background) \in Seq(Jobs)
    BY <1>0, <1>21, HeadTail DEF QueueType, WorkerBackground, BackgroundReady
  <2>1. (PoolType /\ SeqType /\ FlagType /\ JobType /\ ThreadType)'
    BY <1>0, <1>21 DEF WorkerBackground, PoolType, SeqType, FlagType, JobType, ThreadType,
       poolVars, seqVars, queueVars, threadVars, workerVars, history
  <2>2. QueueType'
    BY <1>0, <1>21, <2>a DEF WorkerBackground, Take, BackgroundReady, QueueType, queueVars
  <2>3. WorkerType'
    BY <1>0, <1>21, <2>a DEF WorkerBackground, Take, BackgroundReady, WorkerType, workerVars
  <2>4. Holding'
    BY <1>0, <1>21, <2>a DEF WorkerBackground, Take, BackgroundReady, Holding, WorkerType,
       threadVars, workerVars
  <2>5. QED BY <2>1, <2>2, <2>3, <2>4 DEF TypeInv, TypeOK
<1>22. ASSUME NEW w \in Workers, WorkerExit(w) PROVE TypeInv'
  <2>1. (PoolType /\ SeqType /\ QueueType /\ FlagType /\ JobType /\ ThreadType)'
    BY <1>0, <1>22 DEF WorkerExit, PoolType, SeqType, QueueType, FlagType, JobType, ThreadType,
       poolVars, seqVars, queueVars, threadVars, workerVars, history
  <2>2. WorkerType'
    BY <1>0, <1>22 DEF WorkerExit, WorkerType, workerVars
  <2>3. Holding'
    BY <1>0, <1>22 DEF WorkerExit, Holding, threadVars, workerVars
  <2>4. QED BY <2>1, <2>2, <2>3 DEF TypeInv, TypeOK
<1>23. ASSUME NEW w \in Workers, NEW failed \in BOOLEAN, Work(w, failed) PROVE TypeInv'
  <2>1. (PoolType /\ SeqType /\ QueueType /\ FlagType /\ ThreadType)'
    BY <1>0, <1>23 DEF Work, PoolType, SeqType, QueueType, FlagType, ThreadType, poolVars,
       seqVars, queueVars, threadVars, workerVars, history
  <2>2. JobType'
    BY <1>0, <1>23 DEF Work, JobType, history, Held
  <2>3. WorkerType'
    BY <1>0, <1>23 DEF Work, WorkerType, workerVars
  <2>4. Holding'
    BY <1>0, <1>23 DEF Work, Holding, threadVars, workerVars
  <2>5. QED BY <2>1, <2>2, <2>3, <2>4 DEF TypeInv, TypeOK
<1>24. ASSUME NEW w \in Workers, WorkPanics(w) PROVE TypeInv'
  <2>1. (PoolType /\ SeqType /\ QueueType /\ FlagType /\ ThreadType)'
    BY <1>0, <1>24 DEF WorkPanics, PoolType, SeqType, QueueType, FlagType, ThreadType, poolVars,
       seqVars, queueVars, threadVars, workerVars, history
  <2>2. JobType'
    BY <1>0, <1>24 DEF WorkPanics, Acknowledge, Retire, Held, JobType, history
  <2>3. WorkerType'
    BY <1>0, <1>24 DEF WorkPanics, Acknowledge, Retire, Held, WorkerType, workerVars
  <2>4. Holding'
    BY <1>0, <1>24 DEF WorkPanics, Acknowledge, Retire, Held, Holding, threadVars, workerVars
  <2>5. QED BY <2>1, <2>2, <2>3, <2>4 DEF TypeInv, TypeOK
<1>25. ASSUME NEW w \in Workers, WorkerCleanup(w) PROVE TypeInv'
  <2>1. (SeqType /\ QueueType /\ FlagType /\ ThreadType)'
    BY <1>0, <1>25 DEF WorkerCleanup, SeqType, QueueType, FlagType, ThreadType, poolVars,
       seqVars, queueVars, threadVars, workerVars, history
  <2>2. PoolType'
    BY <1>0, <1>25 DEF WorkerCleanup, Retire, Held, OwnsEntry, PoolType, Holding, poolVars
  <2>3. JobType'
    BY <1>0, <1>25 DEF WorkerCleanup, Retire, Held, OwnsEntry, JobType, Holding, history
  <2>4. WorkerType'
    BY <1>0, <1>25 DEF WorkerCleanup, Retire, Held, OwnsEntry, WorkerType, workerVars
  <2>5. Holding'
    BY <1>0, <1>25 DEF WorkerCleanup, Retire, Held, OwnsEntry, Holding, threadVars, workerVars
  <2>6. QED BY <2>1, <2>2, <2>3, <2>4, <2>5 DEF TypeInv, TypeOK
<1>26. ASSUME NEW w \in Workers, WorkerSend(w) PROVE TypeInv'
  <2>1. (PoolType /\ SeqType /\ FlagType /\ ThreadType)'
    BY <1>0, <1>26 DEF WorkerSend, PoolType, SeqType, FlagType, ThreadType, poolVars, seqVars,
       queueVars, threadVars, workerVars, history
  <2>2. QueueType'
    BY <1>0, <1>26, RangeAppend DEF WorkerSend, QueueType, Holding, queueVars
  <2>3. JobType'
    BY <1>0, <1>26 DEF WorkerSend, JobType, Holding, history, Held
  <2>4. WorkerType'
    BY <1>0, <1>26 DEF WorkerSend, WorkerType, workerVars
  <2>5. Holding'
    BY <1>0, <1>26 DEF WorkerSend, Holding, threadVars, workerVars
  <2>6. QED BY <2>1, <2>2, <2>3, <2>4, <2>5 DEF TypeInv, TypeOK
<1>27. ASSUME NEW w \in Workers, WorkerDrop(w) PROVE TypeInv'
  <2>1. (PoolType /\ SeqType /\ QueueType /\ FlagType /\ ThreadType)'
    BY <1>0, <1>27 DEF WorkerDrop, PoolType, SeqType, QueueType, FlagType, ThreadType, poolVars,
       seqVars, queueVars, threadVars, workerVars, history
  <2>2. JobType'
    BY <1>0, <1>27 DEF WorkerDrop, Acknowledge, Held, JobType, history
  <2>3. WorkerType'
    BY <1>0, <1>27 DEF WorkerDrop, Acknowledge, Held, WorkerType, workerVars
  <2>4. Holding'
    BY <1>0, <1>27 DEF WorkerDrop, Acknowledge, Held, Holding, WorkerType, threadVars,
       workerVars
  <2>5. QED BY <2>1, <2>2, <2>3, <2>4 DEF TypeInv, TypeOK
<1>28. ASSUME NEW w \in Workers, WorkerPublish(w) PROVE TypeInv'
  <2>a. wjob[w] \in Jobs /\ JobID[wjob[w]] \in IDs /\ seq[wjob[w]] \in Nat
    BY <1>0, <1>28 DEF WorkerPublish, Holding, SeqType
  <2>1. (PoolType /\ QueueType /\ JobType /\ ThreadType)'
    BY <1>0, <1>28 DEF WorkerPublish, PoolType, QueueType, JobType, ThreadType, poolVars,
       seqVars, queueVars, threadVars, workerVars, history
  <2>2. SeqType'
    <3>1. UNCHANGED <<nextSequence, seq>> BY <1>28 DEF WorkerPublish
    <3>2. waitingSeq' \subseteq Nat /\ readySeq' \subseteq Nat /\ drainedSeq' \subseteq Nat
      BY <1>0, <1>28, <2>a DEF WorkerPublish, SeqType
    <3>3. ready' \in [IDs -> Nat] /\ drainedEarly' \in [IDs -> Nat]
      <4>1. CASE AlreadyDrained(JobID[wjob[w]])
        BY <1>0, <1>28, <2>a, <4>1 DEF WorkerPublish, SeqType, AlreadyDrained
      <4>2. CASE ~AlreadyDrained(JobID[wjob[w]])
        BY <1>0, <1>28, <2>a, <4>2 DEF WorkerPublish, SeqType
      <4>3. QED BY <4>1, <4>2
    <3>4. QED BY <1>0, <3>1, <3>2, <3>3 DEF SeqType
  <2>3. FlagType'
    BY <1>0, <1>28 DEF WorkerPublish, AlreadyDrained, FlagType, poolVars, queueVars
  <2>4. WorkerType'
    BY <1>0, <1>28 DEF WorkerPublish, AlreadyDrained, WorkerType, workerVars
  <2>5. Holding'
    BY <1>0, <1>28 DEF WorkerPublish, AlreadyDrained, Holding, WorkerType, threadVars,
       workerVars
  <2>6. QED BY <2>1, <2>2, <2>3, <2>4, <2>5 DEF TypeInv, TypeOK
<1>29. ASSUME NEW j \in Jobs, Invalidate(j) PROVE TypeInv'
  <2>1. (PoolType /\ SeqType /\ QueueType /\ FlagType /\ ThreadType /\ WorkerType /\ Holding)'
    BY <1>0, <1>29 DEF Invalidate, PoolType, SeqType, QueueType, FlagType, ThreadType,
       WorkerType, Holding, poolVars, seqVars, queueVars, threadVars, workerVars, history
  <2>2. JobType'
    BY <1>0, <1>29 DEF Invalidate, JobType, history, Held
  <2>3. QED BY <2>1, <2>2 DEF TypeInv, TypeOK
<1>30. CASE UNCHANGED vars
  BY <1>0, <1>30 DEF TypeInv, TypeOK, PoolType, SeqType, QueueType, FlagType, JobType,
     ThreadType, WorkerType, Holding, vars, poolVars, seqVars, queueVars, threadVars,
     workerVars, history
<1>31. ASSUME NEW t \in Threads, ReceiveWake(t) PROVE TypeInv'
  <2>1. (PoolType /\ SeqType /\ QueueType /\ JobType /\ WorkerType /\ Holding)'
    BY <1>0, <1>31 DEF ReceiveWake, PoolType, SeqType, QueueType, JobType, WorkerType, Holding,
       poolVars, seqVars, threadVars, workerVars
  <2>2. (FlagType /\ ThreadType)'
    BY <1>0, <1>31 DEF ReceiveWake, FlagType, ThreadType, poolVars, threadVars
  <2>3. QED BY <2>1, <2>2 DEF TypeInv, TypeOK
<1>32. QED
  BY <1>1, <1>2, <1>3, <1>4, <1>5, <1>6, <1>7, <1>8, <1>9, <1>10, <1>11, <1>12, <1>13, <1>14,
     <1>15, <1>16, <1>17, <1>18, <1>19, <1>20, <1>21, <1>22, <1>23, <1>24, <1>25, <1>26, <1>27,
     <1>28, <1>29, <1>30, <1>31 DEF Next, ThreadNext, PoolCall, WorkerNext

(* TypeOK for every instance of the pool. *)
THEOREM TypeCorrect == Spec => []TypeOK
<1>1. TypeInv => TypeOK BY DEF TypeInv
<1>2. QED BY <1>1, TypeInit, TypeStep, PTL DEF Spec

-----------------------------------------------------------------------------
(* The frontier.                                                           *)

(* Sequence numbers identify jobs.                                         *)
SeqUnique ==
  /\ \A j \in Jobs : seq[j] <= nextSequence
  /\ \A j, k \in Jobs : seq[j] = seq[k] /\ seq[j] > 0 => j = k

(* What is in the results channel, and what a worker is about to book, was *)
(* sent.                                                                   *)
SentReported ==
  /\ Range(results) \subseteq reported
  /\ \A w \in Workers : wpc[w] = "publish" => wjob[w] \in reported

(* pendingSequence has a false entry for every admitted job whose result   *)
(* was not sent.                                                           *)
WaitingCovers == \A j \in Jobs : seq[j] > 0 /\ j \notin reported => seq[j] \in waitingSeq

FrontierInv == SeqUnique /\ SentReported /\ WaitingCovers

LEMMA FrontierInit == Init => FrontierInv
  BY DEF Init, FrontierInv, SeqUnique, SentReported, WaitingCovers, Range

(* Most steps leave sequence numbers, results and bookkeeping alone.       *)
FrontierQuiet ==
  /\ UNCHANGED <<nextSequence, seq, waitingSeq, results, reported>>
  /\ \A w \in Workers : wpc'[w] = "publish" => wpc[w] = "publish" /\ wjob'[w] = wjob[w]

LEMMA QuietStep == FrontierInv /\ FrontierQuiet => FrontierInv'
  BY DEF FrontierInv, FrontierQuiet, SeqUnique, SentReported, WaitingCovers

LEMMA FrontierStep == TypeInv /\ FrontierInv /\ [Next]_vars => FrontierInv'
<1> SUFFICES ASSUME TypeInv, FrontierInv, [Next]_vars PROVE FrontierInv'
  OBVIOUS
<1>0. PoolType /\ SeqType /\ QueueType /\ JobType /\ ThreadType /\ WorkerType /\ Holding
  BY DEF TypeInv, TypeOK
<1>a. SeqUnique /\ SentReported /\ WaitingCovers BY DEF FrontierInv
<1>1. ASSUME NEW t \in Threads, NEW j \in Jobs, ScheduleReserve(t, j) PROVE FrontierInv'
  BY <1>0, <1>1, QuietStep DEF ScheduleReserve, FrontierQuiet, WorkerType, seqVars, queueVars,
     workerVars, history
<1>2. ASSUME NEW t \in Threads, NEW j \in Jobs, ScheduleNoMemory(t, j) PROVE FrontierInv'
  BY <1>0, <1>2, QuietStep DEF ScheduleNoMemory, FrontierQuiet, WorkerType, seqVars, queueVars,
     workerVars, history
<1>3. ASSUME NEW t \in Threads, ScheduleRefused(t) PROVE FrontierInv'
  BY <1>0, <1>3, QuietStep DEF ScheduleRefused, FrontierQuiet, WorkerType, seqVars, queueVars,
     workerVars, history
<1>4. ASSUME NEW t \in Threads, ScheduleAdmit(t) PROVE FrontierInv'
  <2>1. tjob[t] \in Jobs BY <1>0, <1>4 DEF ScheduleAdmit, Holding
  <2>2. nextSequence' = nextSequence + 1 /\ seq' = [seq EXCEPT ![tjob[t]] = nextSequence + 1]
        /\ waitingSeq' = waitingSeq \cup {nextSequence + 1}
        /\ UNCHANGED <<results, reported, wpc, wjob>>
    BY <1>4 DEF ScheduleAdmit, queueVars, workerVars, history
  <2>3. SeqUnique' BY <1>0, <1>a, <2>1, <2>2 DEF SeqUnique, SeqType
  <2>4. SentReported' BY <1>a, <2>2 DEF SentReported
  <2>5. WaitingCovers' BY <1>0, <1>a, <2>1, <2>2 DEF WaitingCovers, SeqType
  <2>6. QED BY <2>3, <2>4, <2>5 DEF FrontierInv
<1>5. ASSUME NEW t \in Threads, ScheduleSend(t) PROVE FrontierInv'
  BY <1>0, <1>5, QuietStep DEF ScheduleSend, FrontierQuiet, WorkerType, seqVars, queueVars,
     workerVars, history
<1>6. ASSUME NEW t \in Threads, ScheduleFull(t) PROVE FrontierInv'
  BY <1>0, <1>6, QuietStep DEF ScheduleFull, FrontierQuiet, WorkerType, seqVars, queueVars,
     workerVars, history
<1>7. ASSUME NEW t \in Threads, ScheduleUndo(t) PROVE FrontierInv'
  BY <1>0, <1>7, QuietStep DEF ScheduleUndo, FrontierQuiet, WorkerType, seqVars, queueVars,
     workerVars, history
<1>8. ASSUME NEW t \in Threads, NEW i \in CancelIDs, CancelJob(t, i) PROVE FrontierInv'
  BY <1>0, <1>8, QuietStep DEF CancelJob, FrontierQuiet, WorkerType, seqVars, queueVars,
     workerVars, history
<1>9. ASSUME NEW t \in Threads, CancelAll(t) PROVE FrontierInv'
  BY <1>0, <1>9, QuietStep DEF CancelAll, FrontierQuiet, WorkerType, seqVars, queueVars,
     workerVars, history
<1>10. ASSUME NEW t \in Threads, NEW p \in BOOLEAN, SetPaused(t, p) PROVE FrontierInv'
  BY <1>0, <1>10, QuietStep DEF SetPaused, FrontierQuiet, WorkerType, seqVars, queueVars,
     workerVars, history
<1>11. ASSUME NEW t \in Threads, DrainBegin(t) PROVE FrontierInv'
  BY <1>0, <1>11, QuietStep DEF DrainBegin, FrontierQuiet, WorkerType, seqVars, queueVars,
     workerVars, history
<1>12. ASSUME NEW t \in Threads, DrainReceive(t) PROVE FrontierInv'
  <2>1. results # <<>> /\ results \in Seq(Jobs) BY <1>0, <1>12 DEF DrainReceive, QueueType
  <2>2. Head(results) \in Jobs /\ Head(results) \in Range(results)
        /\ Range(Tail(results)) \subseteq Range(results)
    BY <2>1, HeadTail
  <2>3. results' = Tail(results) /\ waitingSeq' = waitingSeq \ {seq[Head(results)]}
        /\ UNCHANGED <<nextSequence, seq, reported, wpc, wjob>>
    BY <1>12 DEF DrainReceive, workerVars, history
  <2>4. SeqUnique' BY <1>a, <2>3 DEF SeqUnique
  <2>5. SentReported' BY <1>a, <2>2, <2>3 DEF SentReported
  <2>6. WaitingCovers'
    BY <1>0, <1>a, <2>2, <2>3 DEF WaitingCovers, SeqUnique, SentReported, SeqType
  <2>7. QED BY <2>4, <2>5, <2>6 DEF FrontierInv
<1>13. ASSUME NEW t \in Threads, NEW ordered \in BOOLEAN, DrainSort(t, ordered) PROVE FrontierInv'
  BY <1>0, <1>13, QuietStep DEF DrainSort, FrontierQuiet, WorkerType, seqVars, queueVars,
     workerVars, history
<1>14. ASSUME NEW t \in Threads, DrainCommit(t) PROVE FrontierInv'
  BY <1>0, <1>14, QuietStep DEF DrainCommit, FrontierQuiet, WorkerType, seqVars, queueVars,
     workerVars, history
<1>15. ASSUME NEW t \in Threads, ShutdownBegin(t) PROVE FrontierInv'
  BY <1>0, <1>15, QuietStep DEF ShutdownBegin, FrontierQuiet, WorkerType, seqVars, queueVars,
     workerVars, history
<1>16. ASSUME NEW t \in Threads, ShutdownReceive(t) PROVE FrontierInv'
  <2>1. results # <<>> /\ results \in Seq(Jobs) BY <1>0, <1>16 DEF ShutdownReceive, QueueType
  <2>2. Range(Tail(results)) \subseteq Range(results) BY <2>1, HeadTail
  <2>3. results' = Tail(results) /\ UNCHANGED <<nextSequence, seq, waitingSeq, reported, wpc, wjob>>
    BY <1>16 DEF ShutdownReceive, seqVars, workerVars, history
  <2>4. SentReported' BY <1>a, <2>2, <2>3 DEF SentReported
  <2>5. SeqUnique' /\ WaitingCovers' BY <1>a, <2>3 DEF SeqUnique, WaitingCovers
  <2>6. QED BY <2>4, <2>5 DEF FrontierInv
<1>17. ASSUME NEW t \in Threads, NEW j \in Jobs, ShutdownRelease(t, j) PROVE FrontierInv'
  BY <1>0, <1>17, QuietStep DEF ShutdownRelease, FrontierQuiet, WorkerType, seqVars, queueVars,
     workerVars, history
<1>18. ASSUME NEW t \in Threads, ShutdownReturn(t) PROVE FrontierInv'
  BY <1>0, <1>18, QuietStep DEF ShutdownReturn, FrontierQuiet, WorkerType, seqVars, queueVars,
     workerVars, history
<1>19. ASSUME NEW w \in Workers, WorkerInteractive(w) PROVE FrontierInv'
  BY <1>0, <1>19, QuietStep DEF WorkerInteractive, Take, FrontierQuiet, WorkerType, seqVars,
     queueVars, workerVars, history
<1>20. ASSUME NEW w \in Workers, WorkerBlocks(w) PROVE FrontierInv'
  BY <1>0, <1>20, QuietStep DEF WorkerBlocks, FrontierQuiet, WorkerType, seqVars, queueVars,
     workerVars, history
<1>21. ASSUME NEW w \in Workers, WorkerBackground(w) PROVE FrontierInv'
  BY <1>0, <1>21, QuietStep DEF WorkerBackground, Take, FrontierQuiet, WorkerType, seqVars,
     queueVars, workerVars, history
<1>22. ASSUME NEW w \in Workers, WorkerExit(w) PROVE FrontierInv'
  BY <1>0, <1>22, QuietStep DEF WorkerExit, FrontierQuiet, WorkerType, seqVars, queueVars,
     workerVars, history
<1>23. ASSUME NEW w \in Workers, NEW failed \in BOOLEAN, Work(w, failed) PROVE FrontierInv'
  BY <1>0, <1>23, QuietStep DEF Work, FrontierQuiet, WorkerType, seqVars, queueVars, workerVars,
     history
<1>24. ASSUME NEW w \in Workers, WorkPanics(w) PROVE FrontierInv'
  BY <1>0, <1>24, QuietStep DEF WorkPanics, FrontierQuiet, WorkerType, seqVars, queueVars,
     workerVars, history
<1>25. ASSUME NEW w \in Workers, WorkerCleanup(w) PROVE FrontierInv'
  BY <1>0, <1>25, QuietStep DEF WorkerCleanup, FrontierQuiet, WorkerType, seqVars, queueVars,
     workerVars, history
<1>26. ASSUME NEW w \in Workers, WorkerSend(w) PROVE FrontierInv'
  <2>1. wjob[w] \in Jobs BY <1>0, <1>26 DEF WorkerSend, Holding
  <2>2. results' = Append(results, wjob[w]) /\ reported' = reported \cup {wjob[w]}
        /\ wpc' = [wpc EXCEPT ![w] = "publish"]
        /\ UNCHANGED <<nextSequence, seq, waitingSeq, wjob>>
    BY <1>26 DEF WorkerSend, seqVars
  <2>3. Range(results') = Range(results) \cup {wjob[w]}
    BY <1>0, <2>1, <2>2, RangeAppend DEF QueueType
  <2>4. SentReported' BY <1>0, <1>a, <2>2, <2>3 DEF SentReported, WorkerType
  <2>5. SeqUnique' /\ WaitingCovers' BY <1>a, <2>2 DEF SeqUnique, WaitingCovers
  <2>6. QED BY <2>4, <2>5 DEF FrontierInv
<1>27. ASSUME NEW w \in Workers, WorkerDrop(w) PROVE FrontierInv'
  BY <1>0, <1>27, QuietStep DEF WorkerDrop, FrontierQuiet, WorkerType, seqVars, queueVars,
     workerVars, history
<1>28. ASSUME NEW w \in Workers, WorkerPublish(w) PROVE FrontierInv'
  <2>1. wjob[w] \in Jobs /\ wjob[w] \in reported
    BY <1>0, <1>a, <1>28 DEF WorkerPublish, Holding, SentReported
  <2>2. waitingSeq \ {seq[wjob[w]]} \subseteq waitingSeq' BY <1>28 DEF WorkerPublish
  <2>3. wpc' = [wpc EXCEPT ![w] = "top"] /\ wjob' = [wjob EXCEPT ![w] = NoJob]
        /\ UNCHANGED <<nextSequence, seq, results, reported>>
    BY <1>28 DEF WorkerPublish, history
  <2>4. SeqUnique' BY <1>a, <2>3 DEF SeqUnique
  <2>5. SentReported' BY <1>0, <1>a, <2>3 DEF SentReported, WorkerType
  <2>6. WaitingCovers' BY <1>0, <1>a, <2>1, <2>2, <2>3 DEF WaitingCovers, SeqUnique, SeqType
  <2>7. QED BY <2>4, <2>5, <2>6 DEF FrontierInv
<1>29. ASSUME NEW j \in Jobs, Invalidate(j) PROVE FrontierInv'
  BY <1>0, <1>29, QuietStep DEF Invalidate, FrontierQuiet, WorkerType, seqVars, queueVars,
     workerVars, history
<1>30. CASE UNCHANGED vars
  BY <1>30, QuietStep DEF FrontierQuiet, vars, seqVars, queueVars, workerVars, history
<1>31. ASSUME NEW t \in Threads, ReceiveWake(t) PROVE FrontierInv'
  BY <1>0, <1>31, QuietStep DEF ReceiveWake, FrontierQuiet, WorkerType, seqVars, queueVars,
     workerVars, history
<1>32. QED
  BY <1>1, <1>2, <1>3, <1>4, <1>5, <1>6, <1>7, <1>8, <1>9, <1>10, <1>11, <1>12, <1>13, <1>14,
     <1>15, <1>16, <1>17, <1>18, <1>19, <1>20, <1>21, <1>22, <1>23, <1>24, <1>25, <1>26, <1>27,
     <1>28, <1>29, <1>30, <1>31 DEF Next, ThreadNext, PoolCall, WorkerNext

(* Whenever ReadyThrough(f) holds (job.go:337-349), every job admitted with
   a sequence number up to f has had its result sent, for any number of
   jobs, workers and calling threads. *)
THEOREM FrontierIsSound == Spec => []FrontierSound
<1>1. TypeInv /\ FrontierInv => FrontierSound
  <2> SUFFICES ASSUME TypeInv, FrontierInv, NEW f \in 0..nextSequence, ReadyThrough(f),
                      NEW j \in Jobs, seq[j] \in 1..f
               PROVE  j \in reported
    BY DEF FrontierSound
  <2>1. seq[j] > 0 /\ ~(seq[j] > f) /\ nextSequence \in Nat BY DEF TypeInv, TypeOK, SeqType
  <2>2. seq[j] \notin waitingSeq BY <2>1 DEF ReadyThrough
  <2>3. QED BY <2>1, <2>2 DEF FrontierInv, WaitingCovers
<1>2. QED BY <1>1, TypeInit, TypeStep, FrontierInit, FrontierStep, PTL DEF Spec

-----------------------------------------------------------------------------
(* The wake-up.                                                            *)

(* Most steps put nothing into the results channel, take no token and stop *)
(* no one who covers a result.                                             *)
WakeQuiet ==
  /\ results' # <<>> => results # <<>>
  /\ frontierWake => frontierWake'
  /\ woken # {} => woken' # {}
  /\ closed => closed'
  /\ \A w \in Workers : wpc[w] = "publish" => wpc'[w] = "publish"
  /\ \A t \in Threads : tpc[t] = "collect" => tpc'[t] = "collect"

LEMMA WakeQuietStep == WakeCoversResults /\ WakeQuiet => WakeCoversResults'
  BY DEF WakeCoversResults, WakeQuiet, WorkersAt

LEMMA WakeStep == TypeInv /\ WakeCoversResults /\ [Next]_vars => WakeCoversResults'
<1> SUFFICES ASSUME TypeInv, WakeCoversResults, [Next]_vars PROVE WakeCoversResults'
  OBVIOUS
<1>0. QueueType /\ FlagType /\ ThreadType /\ WorkerType BY DEF TypeInv, TypeOK
<1>1. ASSUME NEW t \in Threads, NEW j \in Jobs, ScheduleReserve(t, j) PROVE WakeCoversResults'
  BY <1>0, <1>1, WakeQuietStep DEF ScheduleReserve, Goto, WakeQuiet, ThreadType, WorkerType,
     poolVars, queueVars, threadVars, workerVars, history
<1>2. ASSUME NEW t \in Threads, NEW j \in Jobs, ScheduleNoMemory(t, j) PROVE WakeCoversResults'
  BY <1>0, <1>2, WakeQuietStep DEF ScheduleNoMemory, WakeQuiet, ThreadType, WorkerType, poolVars,
     queueVars, threadVars, workerVars, history
<1>3. ASSUME NEW t \in Threads, ScheduleRefused(t) PROVE WakeCoversResults'
  BY <1>0, <1>3, WakeQuietStep DEF ScheduleRefused, Goto, WakeQuiet, ThreadType, WorkerType,
     poolVars, queueVars, threadVars, workerVars, history
<1>4. ASSUME NEW t \in Threads, ScheduleAdmit(t) PROVE WakeCoversResults'
  BY <1>0, <1>4, WakeQuietStep DEF ScheduleAdmit, Goto, WakeQuiet, ThreadType, WorkerType,
     poolVars, queueVars, threadVars, workerVars, history
<1>5. ASSUME NEW t \in Threads, ScheduleSend(t) PROVE WakeCoversResults'
  BY <1>0, <1>5, WakeQuietStep DEF ScheduleSend, Goto, WakeQuiet, ThreadType, WorkerType,
     poolVars, queueVars, threadVars, workerVars, history
<1>6. ASSUME NEW t \in Threads, ScheduleFull(t) PROVE WakeCoversResults'
  BY <1>0, <1>6, WakeQuietStep DEF ScheduleFull, Goto, WakeQuiet, ThreadType, WorkerType,
     poolVars, queueVars, threadVars, workerVars, history
<1>7. ASSUME NEW t \in Threads, ScheduleUndo(t) PROVE WakeCoversResults'
  BY <1>0, <1>7, WakeQuietStep DEF ScheduleUndo, Goto, WakeQuiet, ThreadType, WorkerType,
     poolVars, queueVars, threadVars, workerVars, history
<1>8. ASSUME NEW t \in Threads, NEW i \in CancelIDs, CancelJob(t, i) PROVE WakeCoversResults'
  BY <1>0, <1>8, WakeQuietStep DEF CancelJob, WakeQuiet, ThreadType, WorkerType, poolVars,
     queueVars, threadVars, workerVars, history
<1>9. ASSUME NEW t \in Threads, CancelAll(t) PROVE WakeCoversResults'
  BY <1>0, <1>9, WakeQuietStep DEF CancelAll, WakeQuiet, ThreadType, WorkerType, poolVars,
     queueVars, threadVars, workerVars, history
<1>10. ASSUME NEW t \in Threads, NEW p \in BOOLEAN, SetPaused(t, p) PROVE WakeCoversResults'
  BY <1>0, <1>10, WakeQuietStep DEF SetPaused, WakeQuiet, ThreadType, WorkerType, poolVars,
     queueVars, threadVars, workerVars, history
<1>11. ASSUME NEW t \in Threads, DrainBegin(t) PROVE WakeCoversResults'
  <2>1. tpc'[t] = "collect" BY <1>0, <1>11 DEF DrainBegin, Goto, ThreadType
  <2>2. QED BY <2>1 DEF WakeCoversResults
<1>12. ASSUME NEW t \in Threads, DrainReceive(t) PROVE WakeCoversResults'
  <2>1. tpc'[t] = "collect" BY <1>0, <1>12 DEF DrainReceive
  <2>2. QED BY <2>1 DEF WakeCoversResults
<1>13. ASSUME NEW t \in Threads, NEW ordered \in BOOLEAN, DrainSort(t, ordered) PROVE WakeCoversResults'
  <2>1. results' = <<>> BY <1>13 DEF DrainSort, Collected, queueVars
  <2>2. QED BY <2>1 DEF WakeCoversResults
<1>14. ASSUME NEW t \in Threads, DrainCommit(t) PROVE WakeCoversResults'
  BY <1>0, <1>14, WakeQuietStep DEF DrainCommit, Goto, WakeQuiet, ThreadType, WorkerType,
     poolVars, queueVars, threadVars, workerVars, history
<1>15. ASSUME NEW t \in Threads, ShutdownBegin(t) PROVE WakeCoversResults'
  BY <1>15 DEF ShutdownBegin, WakeCoversResults
<1>16. ASSUME NEW t \in Threads, ShutdownReceive(t) PROVE WakeCoversResults'
  BY <1>0, <1>16, WakeQuietStep DEF ShutdownReceive, WakeQuiet, ThreadType, WorkerType, poolVars,
     queueVars, threadVars, workerVars, history
<1>17. ASSUME NEW t \in Threads, NEW j \in Jobs, ShutdownRelease(t, j) PROVE WakeCoversResults'
  BY <1>0, <1>17, WakeQuietStep DEF ShutdownRelease, WakeQuiet, ThreadType, WorkerType, poolVars,
     queueVars, threadVars, workerVars, history
<1>18. ASSUME NEW t \in Threads, ShutdownReturn(t) PROVE WakeCoversResults'
  BY <1>0, <1>18, WakeQuietStep DEF ShutdownReturn, Goto, WakeQuiet, ThreadType, WorkerType,
     poolVars, queueVars, threadVars, workerVars, history
<1>19. ASSUME NEW w \in Workers, WorkerInteractive(w) PROVE WakeCoversResults'
  BY <1>0, <1>19, WakeQuietStep DEF WorkerInteractive, Take, AtTop, WakeQuiet, ThreadType,
     WorkerType, poolVars, queueVars, threadVars, workerVars, history
<1>20. ASSUME NEW w \in Workers, WorkerBlocks(w) PROVE WakeCoversResults'
  BY <1>0, <1>20, WakeQuietStep DEF WorkerBlocks, AtTop, WakeQuiet, ThreadType, WorkerType,
     poolVars, queueVars, threadVars, workerVars, history
<1>21. ASSUME NEW w \in Workers, WorkerBackground(w) PROVE WakeCoversResults'
  BY <1>0, <1>21, WakeQuietStep DEF WorkerBackground, Take, WakeQuiet, ThreadType, WorkerType,
     poolVars, queueVars, threadVars, workerVars, history
<1>22. ASSUME NEW w \in Workers, WorkerExit(w) PROVE WakeCoversResults'
  BY <1>0, <1>22, WakeQuietStep DEF WorkerExit, SeesShutdown, WakeQuiet, ThreadType, WorkerType,
     poolVars, queueVars, threadVars, workerVars, history
<1>23. ASSUME NEW w \in Workers, NEW failed \in BOOLEAN, Work(w, failed) PROVE WakeCoversResults'
  BY <1>0, <1>23, WakeQuietStep DEF Work, WakeQuiet, ThreadType, WorkerType, poolVars, queueVars,
     threadVars, workerVars, history
<1>24. ASSUME NEW w \in Workers, WorkPanics(w) PROVE WakeCoversResults'
  BY <1>0, <1>24, WakeQuietStep DEF WorkPanics, WakeQuiet, ThreadType, WorkerType, poolVars,
     queueVars, threadVars, workerVars, history
<1>25. ASSUME NEW w \in Workers, WorkerCleanup(w) PROVE WakeCoversResults'
  BY <1>0, <1>25, WakeQuietStep DEF WorkerCleanup, WakeQuiet, ThreadType, WorkerType, poolVars,
     queueVars, threadVars, workerVars, history
<1>26. ASSUME NEW w \in Workers, WorkerSend(w) PROVE WakeCoversResults'
  <2>1. wpc'[w] = "publish" BY <1>0, <1>26 DEF WorkerSend, WorkerType
  <2>2. QED BY <2>1 DEF WakeCoversResults, WorkersAt
<1>27. ASSUME NEW w \in Workers, WorkerDrop(w) PROVE WakeCoversResults'
  BY <1>0, <1>27, WakeQuietStep DEF WorkerDrop, WakeQuiet, ThreadType, WorkerType, poolVars,
     queueVars, threadVars, workerVars, history
<1>28. ASSUME NEW w \in Workers, WorkerPublish(w) PROVE WakeCoversResults'
  BY <1>28 DEF WorkerPublish, WakeCoversResults
<1>29. ASSUME NEW j \in Jobs, Invalidate(j) PROVE WakeCoversResults'
  BY <1>0, <1>29, WakeQuietStep DEF Invalidate, WakeQuiet, ThreadType, WorkerType, poolVars,
     queueVars, threadVars, workerVars, history
<1>30. CASE UNCHANGED vars
  BY <1>0, <1>30, WakeQuietStep DEF vars, WakeQuiet, ThreadType, WorkerType, poolVars, queueVars,
     threadVars, workerVars, history
<1>31. ASSUME NEW t \in Threads, ReceiveWake(t) PROVE WakeCoversResults'
  BY <1>31 DEF ReceiveWake, WakeCoversResults
<1>32. QED
  BY <1>1, <1>2, <1>3, <1>4, <1>5, <1>6, <1>7, <1>8, <1>9, <1>10, <1>11, <1>12, <1>13, <1>14,
     <1>15, <1>16, <1>17, <1>18, <1>19, <1>20, <1>21, <1>22, <1>23, <1>24, <1>25, <1>26, <1>27,
     <1>28, <1>29, <1>30, <1>31 DEF Next, ThreadNext, PoolCall, WorkerNext

(* The pool itself loses no wake-up: a result in the channel is covered by a
   token in frontierWake, a worker about to send one, a collecting drain, the
   closed pool, or a thread that took the token and has not drained since
   (job.go:351-352, 690-717, 980-1000), for any number of workers and
   threads. *)
THEOREM NoLostWakeup == Spec => []WakeCoversResults
<1>1. Init => WakeCoversResults BY DEF Init, WakeCoversResults
<1>2. QED BY <1>1, TypeInit, TypeStep, WakeStep, PTL DEF Spec

-----------------------------------------------------------------------------
(* The records.                                                            *)

LEMMA CountsFinite ==
  /\ IsFiniteSet(Sending) /\ Cardinality(Sending) \in Nat
  /\ IsFiniteSet(Running) /\ Cardinality(Running) \in Nat
<1>1. Sending \in SUBSET Threads /\ Running \in SUBSET Workers
  BY DEF Sending, Running, WorkersAt
<1>2. IsFiniteSet(Sending) /\ IsFiniteSet(Running) BY <1>1, FS_Subset
<1>3. QED BY <1>2, FS_CardinalityType

LEMMA CountAdd ==
  ASSUME NEW S, NEW x, IsFiniteSet(S), x \notin S
  PROVE  Cardinality(S \cup {x}) = Cardinality(S) + 1
BY FS_AddElement

LEMMA CountRemove ==
  ASSUME NEW S, NEW x, IsFiniteSet(S), x \in S
  PROVE  Cardinality(S \ {x}) = Cardinality(S) - 1
BY FS_RemoveElement

(* Most steps move nothing that is counted.                                *)
RecordsQuiet ==
  /\ UNCHANGED <<pendingRecords, interactive, background>>
  /\ \A t \in Threads : tpc'[t] = "send" <=> tpc[t] = "send"
  /\ \A w \in Workers : wpc'[w] \in {"work", "cleanup"} <=> wpc[w] \in {"work", "cleanup"}

LEMMA RecordsQuietStep == RecordsExact /\ RecordsQuiet => RecordsExact'
<1> SUFFICES ASSUME RecordsExact, RecordsQuiet PROVE RecordsExact'
  OBVIOUS
<1>1. Sending' = Sending BY DEF RecordsQuiet, Sending
<1>2. Running' = Running BY DEF RecordsQuiet, Running, WorkersAt
<1>3. QED BY <1>1, <1>2 DEF RecordsQuiet, RecordsExact

LEMMA RecordsStep == TypeInv /\ RecordsExact /\ [Next]_vars => RecordsExact'
<1> SUFFICES ASSUME TypeInv, RecordsExact, [Next]_vars PROVE RecordsExact'
  OBVIOUS
<1>0. PoolType /\ QueueType /\ ThreadType /\ WorkerType /\ Holding BY DEF TypeInv, TypeOK
<1>a. Len(interactive) \in Nat /\ Len(background) \in Nat BY <1>0 DEF QueueType
<1>b. pendingRecords \in Int /\ pendingRecords <= MaxTotalRecords
  BY <1>0 DEF PoolType, RecordsExact
<1>1. ASSUME NEW t \in Threads, NEW j \in Jobs, ScheduleReserve(t, j) PROVE RecordsExact'
  BY <1>0, <1>1, RecordsQuietStep DEF ScheduleReserve, Goto, RecordsQuiet, ThreadType, WorkerType,
     queueVars, threadVars, workerVars
<1>2. ASSUME NEW t \in Threads, NEW j \in Jobs, ScheduleNoMemory(t, j) PROVE RecordsExact'
  BY <1>0, <1>2, RecordsQuietStep DEF ScheduleNoMemory, RecordsQuiet, ThreadType, WorkerType,
     queueVars, threadVars, workerVars
<1>3. ASSUME NEW t \in Threads, ScheduleRefused(t) PROVE RecordsExact'
  BY <1>0, <1>3, RecordsQuietStep DEF ScheduleRefused, Goto, RecordsQuiet, ThreadType, WorkerType,
     queueVars, threadVars, workerVars
<1>4. ASSUME NEW t \in Threads, ScheduleAdmit(t) PROVE RecordsExact'
  <2>1. pendingRecords' = pendingRecords + 1 /\ pendingRecords + 1 <= MaxTotalRecords
        /\ tpc[t] = "admit" /\ tpc' = [tpc EXCEPT ![t] = "send"]
        /\ UNCHANGED <<interactive, background, wpc>>
    BY <1>b, <1>4 DEF ScheduleAdmit, AdmissionRefused, Goto, queueVars, workerVars
  <2>2. Sending' = Sending \cup {t} /\ t \notin Sending
    BY <1>0, <2>1 DEF Sending, ThreadType
  <2>3. Cardinality(Sending') = Cardinality(Sending) + 1 BY <2>2, CountsFinite, CountAdd
  <2>4. Cardinality(Running') = Cardinality(Running)
    BY <2>1, CountsFinite DEF Running, WorkersAt
  <2>5. QED BY <1>a, <1>b, <2>1, <2>3, <2>4, CountsFinite DEF RecordsExact
<1>5. ASSUME NEW t \in Threads, ScheduleSend(t) PROVE RecordsExact'
  <2>1. tjob[t] \in Jobs /\ tpc[t] = "send" /\ tpc' = [tpc EXCEPT ![t] = "idle"]
        /\ UNCHANGED <<pendingRecords, wpc>>
    BY <1>0, <1>5 DEF ScheduleSend, Goto, Holding, workerVars
  <2>2. Sending' = Sending \ {t} /\ t \in Sending
    BY <1>0, <2>1 DEF Sending, ThreadType
  <2>3. Cardinality(Sending') = Cardinality(Sending) - 1
    BY <2>2, CountsFinite, CountRemove
  <2>4. Cardinality(Running') = Cardinality(Running)
    BY <2>1, CountsFinite DEF Running, WorkersAt
  <2>5. CASE tjob[t] \in Interactive
    <3>1. interactive' = Append(interactive, tjob[t]) /\ background' = background
      BY <1>5, <2>5 DEF ScheduleSend
    <3>2. Len(interactive') = Len(interactive) + 1 BY <1>0, <2>1, <3>1 DEF QueueType
    <3>3. QED BY <1>a, <1>b, <2>1, <2>3, <2>4, <3>1, <3>2, CountsFinite DEF RecordsExact
  <2>6. CASE tjob[t] \notin Interactive
    <3>1. background' = Append(background, tjob[t]) /\ interactive' = interactive
      BY <1>5, <2>6 DEF ScheduleSend
    <3>2. Len(background') = Len(background) + 1 BY <1>0, <2>1, <3>1 DEF QueueType
    <3>3. QED BY <1>a, <1>b, <2>1, <2>3, <2>4, <3>1, <3>2, CountsFinite DEF RecordsExact
  <2>7. QED BY <2>5, <2>6
<1>6. ASSUME NEW t \in Threads, ScheduleFull(t) PROVE RecordsExact'
  <2>1. pendingRecords' = pendingRecords - 1 /\ tpc[t] = "send"
        /\ tpc' = [tpc EXCEPT ![t] = "undo"] /\ UNCHANGED <<interactive, background, wpc>>
    BY <1>6 DEF ScheduleFull, Goto, queueVars, workerVars
  <2>2. Sending' = Sending \ {t} /\ t \in Sending
    BY <1>0, <2>1 DEF Sending, ThreadType
  <2>3. Cardinality(Sending') = Cardinality(Sending) - 1
    BY <2>2, CountsFinite, CountRemove
  <2>4. Cardinality(Running') = Cardinality(Running)
    BY <2>1, CountsFinite DEF Running, WorkersAt
  <2>5. QED BY <1>a, <1>b, <2>1, <2>3, <2>4, CountsFinite DEF RecordsExact
<1>7. ASSUME NEW t \in Threads, ScheduleUndo(t) PROVE RecordsExact'
  BY <1>0, <1>7, RecordsQuietStep DEF ScheduleUndo, Goto, RecordsQuiet, ThreadType, WorkerType,
     queueVars, threadVars, workerVars
<1>8. ASSUME NEW t \in Threads, NEW i \in CancelIDs, CancelJob(t, i) PROVE RecordsExact'
  BY <1>0, <1>8, RecordsQuietStep DEF CancelJob, RecordsQuiet, ThreadType, WorkerType, queueVars,
     threadVars, workerVars
<1>9. ASSUME NEW t \in Threads, CancelAll(t) PROVE RecordsExact'
  BY <1>0, <1>9, RecordsQuietStep DEF CancelAll, RecordsQuiet, ThreadType, WorkerType, queueVars,
     threadVars, workerVars
<1>10. ASSUME NEW t \in Threads, NEW p \in BOOLEAN, SetPaused(t, p) PROVE RecordsExact'
  BY <1>0, <1>10, RecordsQuietStep DEF SetPaused, RecordsQuiet, ThreadType, WorkerType, queueVars,
     threadVars, workerVars
<1>11. ASSUME NEW t \in Threads, DrainBegin(t) PROVE RecordsExact'
  BY <1>0, <1>11, RecordsQuietStep DEF DrainBegin, Goto, RecordsQuiet, ThreadType, WorkerType,
     queueVars, threadVars, workerVars
<1>12. ASSUME NEW t \in Threads, DrainReceive(t) PROVE RecordsExact'
  BY <1>0, <1>12, RecordsQuietStep DEF DrainReceive, RecordsQuiet, ThreadType, WorkerType,
     queueVars, threadVars, workerVars
<1>13. ASSUME NEW t \in Threads, NEW ordered \in BOOLEAN, DrainSort(t, ordered) PROVE RecordsExact'
  BY <1>0, <1>13, RecordsQuietStep DEF DrainSort, Goto, RecordsQuiet, ThreadType, WorkerType,
     queueVars, threadVars, workerVars
<1>14. ASSUME NEW t \in Threads, DrainCommit(t) PROVE RecordsExact'
  BY <1>0, <1>14, RecordsQuietStep DEF DrainCommit, Goto, RecordsQuiet, ThreadType, WorkerType,
     queueVars, threadVars, workerVars
<1>15. ASSUME NEW t \in Threads, ShutdownBegin(t) PROVE RecordsExact'
  BY <1>0, <1>15, RecordsQuietStep DEF ShutdownBegin, Goto, RecordsQuiet, ThreadType, WorkerType,
     queueVars, threadVars, workerVars
<1>16. ASSUME NEW t \in Threads, ShutdownReceive(t) PROVE RecordsExact'
  BY <1>0, <1>16, RecordsQuietStep DEF ShutdownReceive, RecordsQuiet, ThreadType, WorkerType,
     queueVars, threadVars, workerVars
<1>17. ASSUME NEW t \in Threads, NEW j \in Jobs, ShutdownRelease(t, j) PROVE RecordsExact'
  BY <1>0, <1>17, RecordsQuietStep DEF ShutdownRelease, RecordsQuiet, ThreadType, WorkerType,
     queueVars, threadVars, workerVars
<1>18. ASSUME NEW t \in Threads, ShutdownReturn(t) PROVE RecordsExact'
  BY <1>0, <1>18, RecordsQuietStep DEF ShutdownReturn, Goto, RecordsQuiet, ThreadType, WorkerType,
     queueVars, threadVars, workerVars
<1>19. ASSUME NEW w \in Workers, WorkerInteractive(w) PROVE RecordsExact'
  <2>1. interactive # <<>> /\ interactive \in Seq(Jobs) /\ wpc[w] \in {"top", "blocked"}
    BY <1>0, <1>19 DEF WorkerInteractive, AtTop, QueueType
  <2>2. interactive' = Tail(interactive) /\ UNCHANGED <<pendingRecords, background, tpc>>
        /\ wpc' = [wpc EXCEPT ![w] = "work"]
    BY <1>19 DEF WorkerInteractive, Take, threadVars
  <2>3. Len(interactive') = Len(interactive) - 1 BY <2>1, <2>2
  <2>4. Running' = Running \cup {w} /\ w \notin Running
    BY <1>0, <2>1, <2>2 DEF Running, WorkersAt, WorkerType
  <2>5. Cardinality(Running') = Cardinality(Running) + 1 BY <2>4, CountsFinite, CountAdd
  <2>6. Cardinality(Sending') = Cardinality(Sending)
    BY <2>2, CountsFinite DEF Sending
  <2>7. UNCHANGED <<pendingRecords, background>> BY <2>2
  <2>8. QED BY <1>a, <1>b, <2>3, <2>5, <2>6, <2>7, CountsFinite DEF RecordsExact
<1>20. ASSUME NEW w \in Workers, WorkerBlocks(w) PROVE RecordsExact'
  BY <1>0, <1>20, RecordsQuietStep DEF WorkerBlocks, AtTop, RecordsQuiet, ThreadType, WorkerType,
     queueVars, threadVars, workerVars
<1>21. ASSUME NEW w \in Workers, WorkerBackground(w) PROVE RecordsExact'
  <2>1. background # <<>> /\ background \in Seq(Jobs) /\ wpc[w] \in {"top", "blocked"}
    BY <1>0, <1>21 DEF WorkerBackground, BackgroundReady, QueueType
  <2>2. background' = Tail(background) /\ UNCHANGED <<pendingRecords, interactive, tpc>>
        /\ wpc' = [wpc EXCEPT ![w] = "work"]
    BY <1>21 DEF WorkerBackground, Take, threadVars
  <2>3. Len(background') = Len(background) - 1 BY <2>1, <2>2
  <2>4. Running' = Running \cup {w} /\ w \notin Running
    BY <1>0, <2>1, <2>2 DEF Running, WorkersAt, WorkerType
  <2>5. Cardinality(Running') = Cardinality(Running) + 1 BY <2>4, CountsFinite, CountAdd
  <2>6. Cardinality(Sending') = Cardinality(Sending)
    BY <2>2, CountsFinite DEF Sending
  <2>7. UNCHANGED <<pendingRecords, interactive>> BY <2>2
  <2>8. QED BY <1>a, <1>b, <2>3, <2>5, <2>6, <2>7, CountsFinite DEF RecordsExact
<1>22. ASSUME NEW w \in Workers, WorkerExit(w) PROVE RecordsExact'
  BY <1>0, <1>22, RecordsQuietStep DEF WorkerExit, SeesShutdown, RecordsQuiet, ThreadType,
     WorkerType, queueVars, threadVars, workerVars
<1>23. ASSUME NEW w \in Workers, NEW failed \in BOOLEAN, Work(w, failed) PROVE RecordsExact'
  BY <1>0, <1>23, RecordsQuietStep DEF Work, RecordsQuiet, ThreadType, WorkerType, queueVars,
     threadVars, workerVars
<1>24. ASSUME NEW w \in Workers, WorkPanics(w) PROVE RecordsExact'
  BY <1>0, <1>24, RecordsQuietStep DEF WorkPanics, RecordsQuiet, ThreadType, WorkerType,
     queueVars, threadVars, workerVars
<1>25. ASSUME NEW w \in Workers, WorkerCleanup(w) PROVE RecordsExact'
  <2>1. pendingRecords' = pendingRecords - 1 /\ wpc[w] = "cleanup"
        /\ wpc' = [wpc EXCEPT ![w] = "send"] /\ UNCHANGED <<interactive, background, tpc>>
    BY <1>25 DEF WorkerCleanup, queueVars, threadVars
  <2>2. Running' = Running \ {w} /\ w \in Running
    BY <1>0, <2>1 DEF Running, WorkersAt, WorkerType
  <2>3. Cardinality(Running') = Cardinality(Running) - 1
    BY <2>2, CountsFinite, CountRemove
  <2>4. Cardinality(Sending') = Cardinality(Sending)
    BY <2>1, CountsFinite DEF Sending
  <2>5. QED BY <1>a, <1>b, <2>1, <2>3, <2>4, CountsFinite DEF RecordsExact
<1>26. ASSUME NEW w \in Workers, WorkerSend(w) PROVE RecordsExact'
  BY <1>0, <1>26, RecordsQuietStep DEF WorkerSend, RecordsQuiet, ThreadType, WorkerType,
     queueVars, threadVars, workerVars
<1>27. ASSUME NEW w \in Workers, WorkerDrop(w) PROVE RecordsExact'
  BY <1>0, <1>27, RecordsQuietStep DEF WorkerDrop, RecordsQuiet, ThreadType, WorkerType,
     queueVars, threadVars, workerVars
<1>28. ASSUME NEW w \in Workers, WorkerPublish(w) PROVE RecordsExact'
  BY <1>0, <1>28, RecordsQuietStep DEF WorkerPublish, RecordsQuiet, ThreadType, WorkerType,
     queueVars, threadVars, workerVars
<1>29. ASSUME NEW j \in Jobs, Invalidate(j) PROVE RecordsExact'
  BY <1>0, <1>29, RecordsQuietStep DEF Invalidate, RecordsQuiet, ThreadType, WorkerType,
     queueVars, threadVars, workerVars
<1>30. CASE UNCHANGED vars
  BY <1>0, <1>30, RecordsQuietStep DEF vars, RecordsQuiet, ThreadType, WorkerType, queueVars,
     threadVars, workerVars
<1>31. ASSUME NEW t \in Threads, ReceiveWake(t) PROVE RecordsExact'
  BY <1>0, <1>31, RecordsQuietStep DEF ReceiveWake, RecordsQuiet, ThreadType, WorkerType,
     queueVars, threadVars, workerVars
<1>32. QED
  BY <1>1, <1>2, <1>3, <1>4, <1>5, <1>6, <1>7, <1>8, <1>9, <1>10, <1>11, <1>12, <1>13, <1>14,
     <1>15, <1>16, <1>17, <1>18, <1>19, <1>20, <1>21, <1>22, <1>23, <1>24, <1>25, <1>26, <1>27,
     <1>28, <1>29, <1>30, <1>31 DEF Next, ThreadNext, PoolCall, WorkerNext

(* pendingRecords equals the number of jobs between admission and cleanup
   and never exceeds MaxTotalRecords (job.go:512-514, 541, 613, 951), for
   any number of jobs, threads and workers. *)
THEOREM RecordsAreExact == Spec => []RecordsExact
<1>1. ASSUME Init PROVE RecordsExact
  <2>1. Sending = {} /\ Running = {} BY <1>1 DEF Init, Sending, Running, WorkersAt
  <2>2. Cardinality(Sending) = 0 /\ Cardinality(Running) = 0 BY <2>1, FS_EmptySet
  <2>3. pendingRecords = 0 /\ Len(interactive) = 0 /\ Len(background) = 0 BY <1>1 DEF Init
  <2>4. QED BY <2>2, <2>3 DEF RecordsExact
<1>2. QED BY <1>1, TypeInit, TypeStep, RecordsStep, PTL DEF Spec

-----------------------------------------------------------------------------
(* Ownership: from its call on, a job is in at most one place.             *)

LEMMA InjectiveTail ==
  ASSUME NEW S, NEW s \in Seq(S), s # <<>>, IsInjective(s)
  PROVE  IsInjective(Tail(s)) /\ Head(s) \notin Range(Tail(s))
<1>1. Len(s) \in Nat /\ Len(s) > 0 /\ DOMAIN s = 1..Len(s) OBVIOUS
<1>2. \A n \in DOMAIN Tail(s) : n \in Nat /\ n >= 1 /\ n + 1 \in DOMAIN s /\ Tail(s)[n] = s[n + 1]
  BY <1>1
<1>3. Head(s) = s[1] /\ 1 \in DOMAIN s BY <1>1
<1>4. IsInjective(Tail(s)) BY <1>2 DEF IsInjective
<1>5. ASSUME NEW n \in DOMAIN Tail(s), Tail(s)[n] = Head(s) PROVE FALSE
  <2>1. s[n + 1] = s[1] BY <1>2, <1>3, <1>5
  <2>2. n + 1 = 1 BY <1>2, <1>3, <2>1 DEF IsInjective
  <2>3. QED BY <1>2, <2>2
<1>6. QED BY <1>4, <1>5 DEF Range

LEMMA InjectiveAppend ==
  ASSUME NEW S, NEW s \in Seq(S), NEW e \in S, e \notin Range(s), IsInjective(s)
  PROVE  IsInjective(Append(s, e))
<1>1. Len(s) \in Nat /\ DOMAIN s = 1..Len(s) OBVIOUS
<1>2. DOMAIN Append(s, e) = 1..(Len(s) + 1) BY <1>1
<1>3. \A n \in DOMAIN s : Append(s, e)[n] = s[n] /\ s[n] # e BY <1>1 DEF Range
<1>4. Append(s, e)[Len(s) + 1] = e BY <1>1
<1>5. ASSUME NEW m \in DOMAIN Append(s, e), NEW n \in DOMAIN Append(s, e),
             Append(s, e)[m] = Append(s, e)[n]
      PROVE  m = n
  <2>1. CASE m \in DOMAIN s /\ n \in DOMAIN s
    <3>1. s[m] = s[n] BY <1>3, <1>5, <2>1
    <3>2. QED BY <2>1, <3>1 DEF IsInjective
  <2>2. CASE m \in DOMAIN s /\ n \notin DOMAIN s
    <3>1. n = Len(s) + 1 BY <1>1, <1>2, <2>2
    <3>2. QED BY <1>3, <1>4, <1>5, <2>2, <3>1
  <2>3. CASE m \notin DOMAIN s /\ n \in DOMAIN s
    <3>1. m = Len(s) + 1 BY <1>1, <1>2, <2>3
    <3>2. QED BY <1>3, <1>4, <1>5, <2>3, <3>1
  <2>4. CASE m \notin DOMAIN s /\ n \notin DOMAIN s BY <1>1, <1>2, <2>4
  <2>5. QED BY <2>1, <2>2, <2>3, <2>4
<1>6. QED BY <1>5 DEF IsInjective

(* A thread has a job from its Reserve to the end of ScheduleGuarded; a    *)
(* worker has one until its result is sent or dropped.                     *)
ThreadHas(t, j) == tpc[t] \in {"admit", "send", "undo"} /\ tjob[t] = j
WorkerHas(w, j) == wpc[w] \in {"work", "cleanup", "send"} /\ wjob[w] = j

HandsCalled ==
  /\ \A t \in Threads, j \in Jobs : ThreadHas(t, j) => j \in called
  /\ \A w \in Workers, j \in Jobs : WorkerHas(w, j) => j \in called
  /\ Queued \subseteq called /\ reported \subseteq called

HandsApart ==
  /\ \A t, u \in Threads, j \in Jobs : ThreadHas(t, j) /\ ThreadHas(u, j) => t = u
  /\ \A v, w \in Workers, j \in Jobs : WorkerHas(v, j) /\ WorkerHas(w, j) => v = w
  /\ \A t \in Threads, w \in Workers, j \in Jobs : ~(ThreadHas(t, j) /\ WorkerHas(w, j))

QueuedApart ==
  /\ \A t \in Threads, j \in Jobs : ThreadHas(t, j) => j \notin Queued
  /\ \A w \in Workers, j \in Jobs : WorkerHas(w, j) => j \notin Queued

QueuesApart ==
  /\ IsInjective(interactive) /\ IsInjective(background)
  /\ Range(interactive) \subseteq Interactive /\ Range(background) \cap Interactive = {}

ReportedApart ==
  /\ \A t \in Threads, j \in Jobs : ThreadHas(t, j) => j \notin reported
  /\ \A w \in Workers, j \in Jobs : WorkerHas(w, j) => j \notin reported
  /\ reported \cap Queued = {}

HandsInv == HandsCalled /\ HandsApart /\ QueuedApart /\ QueuesApart /\ ReportedApart

LEMMA HandsInit == Init => HandsInv
  BY DEF Init, HandsInv, HandsCalled, HandsApart, QueuedApart, QueuesApart, ReportedApart,
     ThreadHas, WorkerHas, Queued, Range, IsInjective

(* Most steps only let go of jobs.                                         *)
HandsQuiet ==
  /\ called \subseteq called' /\ UNCHANGED <<reported, interactive, background>>
  /\ \A t \in Threads, j \in Jobs : ThreadHas(t, j)' => ThreadHas(t, j)
  /\ \A w \in Workers, j \in Jobs : WorkerHas(w, j)' => WorkerHas(w, j)

LEMMA HandsQuietStep == HandsInv /\ HandsQuiet => HandsInv'
<1> SUFFICES ASSUME HandsInv, HandsQuiet PROVE HandsInv'
  OBVIOUS
<1>1. Queued' = Queued BY DEF HandsQuiet, Queued
<1>2. HandsCalled' BY <1>1 DEF HandsInv, HandsQuiet, HandsCalled
<1>3. HandsApart' BY DEF HandsInv, HandsQuiet, HandsApart
<1>4. QueuedApart' /\ QueuesApart' BY <1>1 DEF HandsInv, HandsQuiet, QueuedApart, QueuesApart
<1>5. ReportedApart' BY <1>1 DEF HandsInv, HandsQuiet, ReportedApart
<1>6. QED BY <1>2, <1>3, <1>4, <1>5 DEF HandsInv

LEMMA HandsStep == TypeInv /\ HandsInv /\ [Next]_vars => HandsInv'
<1> SUFFICES ASSUME TypeInv, HandsInv, [Next]_vars PROVE HandsInv'
  OBVIOUS
<1>0. QueueType /\ JobType /\ ThreadType /\ WorkerType /\ Holding BY DEF TypeInv, TypeOK
<1>a. HandsCalled /\ HandsApart /\ QueuedApart /\ QueuesApart /\ ReportedApart BY DEF HandsInv
<1>b. Queued \subseteq Jobs BY <1>0 DEF QueueType, Queued, Range
<1>1. ASSUME NEW t \in Threads, NEW j \in Jobs, ScheduleReserve(t, j) PROVE HandsInv'
  <2>1. j \notin called /\ called' = called \cup {j} /\ tpc' = [tpc EXCEPT ![t] = "admit"]
        /\ tjob' = [tjob EXCEPT ![t] = j]
        /\ UNCHANGED <<reported, interactive, background, wpc, wjob>>
    BY <1>1 DEF ScheduleReserve, Goto, queueVars, workerVars, history
  <2>2. \A u \in Threads, k \in Jobs :
           ThreadHas(u, k)' => ThreadHas(u, k) \/ (u = t /\ k = j)
    BY <1>0, <2>1 DEF ThreadHas, ThreadType
  <2>3. \A v \in Workers, k \in Jobs : WorkerHas(v, k)' <=> WorkerHas(v, k)
    BY <2>1 DEF WorkerHas
  <2>4. Queued' = Queued BY <2>1 DEF Queued
  <2>5. HandsCalled' BY <1>a, <2>1, <2>2, <2>3, <2>4 DEF HandsCalled
  <2>6. HandsApart' BY <1>a, <2>1, <2>2, <2>3 DEF HandsApart, HandsCalled
  <2>7. QueuedApart' BY <1>a, <2>1, <2>2, <2>3, <2>4 DEF QueuedApart, HandsCalled
  <2>8. QueuesApart' BY <1>a, <2>1 DEF QueuesApart
  <2>9. ReportedApart' BY <1>a, <2>1, <2>2, <2>3, <2>4 DEF ReportedApart, HandsCalled
  <2>10. QED BY <2>5, <2>6, <2>7, <2>8, <2>9 DEF HandsInv
<1>2. ASSUME NEW t \in Threads, NEW j \in Jobs, ScheduleNoMemory(t, j) PROVE HandsInv'
  BY <1>0, <1>2, HandsQuietStep DEF ScheduleNoMemory, HandsQuiet, ThreadHas, WorkerHas,
     ThreadType, WorkerType, queueVars, threadVars, workerVars, history
<1>3. ASSUME NEW t \in Threads, ScheduleRefused(t) PROVE HandsInv'
  BY <1>0, <1>3, HandsQuietStep DEF ScheduleRefused, Goto, HandsQuiet, ThreadHas, WorkerHas,
     ThreadType, WorkerType, queueVars, threadVars, workerVars, history
<1>4. ASSUME NEW t \in Threads, ScheduleAdmit(t) PROVE HandsInv'
  BY <1>0, <1>4, HandsQuietStep DEF ScheduleAdmit, Goto, HandsQuiet, ThreadHas, WorkerHas,
     ThreadType, WorkerType, queueVars, threadVars, workerVars, history
<1>5. ASSUME NEW t \in Threads, ScheduleSend(t) PROVE HandsInv'
  <2> DEFINE j == tjob[t]
  <2>1. j \in Jobs /\ ThreadHas(t, j) BY <1>0, <1>5 DEF ScheduleSend, Holding, ThreadHas
  <2>2. tpc' = [tpc EXCEPT ![t] = "idle"] /\ tjob' = [tjob EXCEPT ![t] = NoJob]
        /\ UNCHANGED <<called, reported, wpc, wjob>>
    BY <1>5 DEF ScheduleSend, Goto, workerVars, history
  <2>3. \A u \in Threads, k \in Jobs : ThreadHas(u, k)' => ThreadHas(u, k) /\ k # j
    <3>1. \A u \in Threads, k \in Jobs : ThreadHas(u, k)' => ThreadHas(u, k) /\ u # t
      BY <1>0, <2>2 DEF ThreadHas, ThreadType
    <3>2. QED BY <1>a, <2>1, <3>1 DEF HandsApart
  <2>4. \A v \in Workers, k \in Jobs : WorkerHas(v, k)' => WorkerHas(v, k) /\ k # j
    BY <1>a, <2>1, <2>2 DEF WorkerHas, HandsApart
  <2>5. Queued' = Queued \cup {j} /\ QueuesApart'
    <3>1. CASE j \in Interactive
      <4>1. interactive' = Append(interactive, j) /\ background' = background
        BY <1>5, <3>1 DEF ScheduleSend
      <4>2. Range(interactive') = Range(interactive) \cup {j}
        BY <1>0, <2>1, <4>1, RangeAppend DEF QueueType
      <4>3. j \notin Range(interactive) BY <1>a, <2>1 DEF QueuedApart, Queued
      <4>4. IsInjective(interactive')
        BY <1>0, <1>a, <2>1, <4>1, <4>3, InjectiveAppend DEF QueueType, QueuesApart
      <4>5. QED BY <1>a, <3>1, <4>1, <4>2, <4>4 DEF QueuesApart, Queued
    <3>2. CASE j \notin Interactive
      <4>1. background' = Append(background, j) /\ interactive' = interactive
        BY <1>5, <3>2 DEF ScheduleSend
      <4>2. Range(background') = Range(background) \cup {j}
        BY <1>0, <2>1, <4>1, RangeAppend DEF QueueType
      <4>3. j \notin Range(background) BY <1>a, <2>1 DEF QueuedApart, Queued
      <4>4. IsInjective(background')
        BY <1>0, <1>a, <2>1, <4>1, <4>3, InjectiveAppend DEF QueueType, QueuesApart
      <4>5. QED BY <1>a, <3>2, <4>1, <4>2, <4>4 DEF QueuesApart, Queued
    <3>3. QED BY <3>1, <3>2
  <2> HIDE DEF j
  <2>6. HandsCalled' BY <1>a, <2>1, <2>2, <2>3, <2>4, <2>5 DEF HandsCalled
  <2>7. HandsApart' BY <1>a, <2>3, <2>4 DEF HandsApart
  <2>8. QueuedApart' BY <1>a, <2>3, <2>4, <2>5 DEF QueuedApart
  <2>9. ReportedApart' BY <1>a, <2>1, <2>2, <2>3, <2>4, <2>5 DEF ReportedApart
  <2>10. QED BY <2>5, <2>6, <2>7, <2>8, <2>9 DEF HandsInv
<1>6. ASSUME NEW t \in Threads, ScheduleFull(t) PROVE HandsInv'
  BY <1>0, <1>6, HandsQuietStep DEF ScheduleFull, Goto, HandsQuiet, ThreadHas, WorkerHas,
     ThreadType, WorkerType, queueVars, threadVars, workerVars, history
<1>7. ASSUME NEW t \in Threads, ScheduleUndo(t) PROVE HandsInv'
  BY <1>0, <1>7, HandsQuietStep DEF ScheduleUndo, Goto, HandsQuiet, ThreadHas, WorkerHas,
     ThreadType, WorkerType, queueVars, threadVars, workerVars, history
<1>8. ASSUME NEW t \in Threads, NEW i \in CancelIDs, CancelJob(t, i) PROVE HandsInv'
  BY <1>0, <1>8, HandsQuietStep DEF CancelJob, HandsQuiet, ThreadHas, WorkerHas, ThreadType,
     WorkerType, queueVars, threadVars, workerVars, history
<1>9. ASSUME NEW t \in Threads, CancelAll(t) PROVE HandsInv'
  BY <1>0, <1>9, HandsQuietStep DEF CancelAll, HandsQuiet, ThreadHas, WorkerHas, ThreadType,
     WorkerType, queueVars, threadVars, workerVars, history
<1>10. ASSUME NEW t \in Threads, NEW p \in BOOLEAN, SetPaused(t, p) PROVE HandsInv'
  BY <1>0, <1>10, HandsQuietStep DEF SetPaused, HandsQuiet, ThreadHas, WorkerHas, ThreadType,
     WorkerType, queueVars, threadVars, workerVars, history
<1>11. ASSUME NEW t \in Threads, DrainBegin(t) PROVE HandsInv'
  BY <1>0, <1>11, HandsQuietStep DEF DrainBegin, Goto, HandsQuiet, ThreadHas, WorkerHas,
     ThreadType, WorkerType, queueVars, threadVars, workerVars, history
<1>12. ASSUME NEW t \in Threads, DrainReceive(t) PROVE HandsInv'
  BY <1>0, <1>12, HandsQuietStep DEF DrainReceive, HandsQuiet, ThreadHas, WorkerHas, ThreadType,
     WorkerType, queueVars, threadVars, workerVars, history
<1>13. ASSUME NEW t \in Threads, NEW ordered \in BOOLEAN, DrainSort(t, ordered) PROVE HandsInv'
  BY <1>0, <1>13, HandsQuietStep DEF DrainSort, Goto, HandsQuiet, ThreadHas, WorkerHas,
     ThreadType, WorkerType, queueVars, threadVars, workerVars, history
<1>14. ASSUME NEW t \in Threads, DrainCommit(t) PROVE HandsInv'
  BY <1>0, <1>14, HandsQuietStep DEF DrainCommit, Goto, HandsQuiet, ThreadHas, WorkerHas,
     ThreadType, WorkerType, queueVars, threadVars, workerVars, history
<1>15. ASSUME NEW t \in Threads, ShutdownBegin(t) PROVE HandsInv'
  BY <1>0, <1>15, HandsQuietStep DEF ShutdownBegin, Goto, HandsQuiet, ThreadHas, WorkerHas,
     ThreadType, WorkerType, queueVars, threadVars, workerVars, history
<1>16. ASSUME NEW t \in Threads, ShutdownReceive(t) PROVE HandsInv'
  BY <1>0, <1>16, HandsQuietStep DEF ShutdownReceive, HandsQuiet, ThreadHas, WorkerHas,
     ThreadType, WorkerType, queueVars, threadVars, workerVars, history
<1>17. ASSUME NEW t \in Threads, NEW j \in Jobs, ShutdownRelease(t, j) PROVE HandsInv'
  BY <1>0, <1>17, HandsQuietStep DEF ShutdownRelease, HandsQuiet, ThreadHas, WorkerHas,
     ThreadType, WorkerType, queueVars, threadVars, workerVars, history
<1>18. ASSUME NEW t \in Threads, ShutdownReturn(t) PROVE HandsInv'
  BY <1>0, <1>18, HandsQuietStep DEF ShutdownReturn, Goto, HandsQuiet, ThreadHas, WorkerHas,
     ThreadType, WorkerType, queueVars, threadVars, workerVars, history
<1>19. ASSUME NEW w \in Workers, WorkerInteractive(w) PROVE HandsInv'
  <2>1. interactive # <<>> /\ interactive \in Seq(Jobs) BY <1>0, <1>19 DEF WorkerInteractive, QueueType
  <2>2. wpc' = [wpc EXCEPT ![w] = "work"] /\ wjob' = [wjob EXCEPT ![w] = Head(interactive)]
        /\ interactive' = Tail(interactive) /\ UNCHANGED <<background, called, reported, tpc, tjob>>
    BY <1>19 DEF WorkerInteractive, Take, threadVars, history
  <2>3. Head(interactive) \in Jobs /\ Head(interactive) \in Range(interactive)
        /\ Range(interactive') \subseteq Range(interactive)
    BY <2>1, <2>2, HeadTail
  <2>4. IsInjective(interactive') /\ Head(interactive) \notin Range(interactive')
    BY <1>a, <2>1, <2>2, InjectiveTail DEF QueuesApart
  <2>5. Queued' \subseteq Queued /\ Head(interactive) \in Queued /\ Head(interactive) \notin Queued'
    BY <1>a, <2>2, <2>3, <2>4 DEF QueuesApart, Queued
  <2>6. \A u \in Threads, k \in Jobs : ThreadHas(u, k)' <=> ThreadHas(u, k)
    BY <2>2 DEF ThreadHas
  <2>7. \A v \in Workers, k \in Jobs :
           WorkerHas(v, k)' => (WorkerHas(v, k) /\ v # w) \/ (v = w /\ k = Head(interactive))
    BY <1>0, <2>2 DEF WorkerHas, WorkerType
  <2>8. HandsCalled' BY <1>a, <2>2, <2>5, <2>6, <2>7 DEF HandsCalled
  <2>9. HandsApart' BY <1>a, <2>3, <2>5, <2>6, <2>7 DEF HandsApart, QueuedApart
  <2>10. QueuedApart' BY <1>a, <2>5, <2>6, <2>7 DEF QueuedApart
  <2>11. QueuesApart' BY <1>a, <2>2, <2>3, <2>4 DEF QueuesApart
  <2>12. ReportedApart' BY <1>a, <2>2, <2>5, <2>6, <2>7 DEF ReportedApart
  <2>13. QED BY <2>8, <2>9, <2>10, <2>11, <2>12 DEF HandsInv
<1>20. ASSUME NEW w \in Workers, WorkerBlocks(w) PROVE HandsInv'
  BY <1>0, <1>20, HandsQuietStep DEF WorkerBlocks, AtTop, HandsQuiet, ThreadHas, WorkerHas,
     ThreadType, WorkerType, queueVars, threadVars, workerVars, history
<1>21. ASSUME NEW w \in Workers, WorkerBackground(w) PROVE HandsInv'
  <2>1. background # <<>> /\ background \in Seq(Jobs) BY <1>0, <1>21 DEF WorkerBackground, BackgroundReady, QueueType
  <2>2. wpc' = [wpc EXCEPT ![w] = "work"] /\ wjob' = [wjob EXCEPT ![w] = Head(background)]
        /\ background' = Tail(background) /\ UNCHANGED <<interactive, called, reported, tpc, tjob>>
    BY <1>21 DEF WorkerBackground, Take, threadVars, history
  <2>3. Head(background) \in Jobs /\ Head(background) \in Range(background)
        /\ Range(background') \subseteq Range(background)
    BY <2>1, <2>2, HeadTail
  <2>4. IsInjective(background') /\ Head(background) \notin Range(background')
    BY <1>a, <2>1, <2>2, InjectiveTail DEF QueuesApart
  <2>5. Queued' \subseteq Queued /\ Head(background) \in Queued /\ Head(background) \notin Queued'
    BY <1>a, <2>2, <2>3, <2>4 DEF QueuesApart, Queued
  <2>6. \A u \in Threads, k \in Jobs : ThreadHas(u, k)' <=> ThreadHas(u, k)
    BY <2>2 DEF ThreadHas
  <2>7. \A v \in Workers, k \in Jobs :
           WorkerHas(v, k)' => (WorkerHas(v, k) /\ v # w) \/ (v = w /\ k = Head(background))
    BY <1>0, <2>2 DEF WorkerHas, WorkerType
  <2>8. HandsCalled' BY <1>a, <2>2, <2>5, <2>6, <2>7 DEF HandsCalled
  <2>9. HandsApart' BY <1>a, <2>3, <2>5, <2>6, <2>7 DEF HandsApart, QueuedApart
  <2>10. QueuedApart' BY <1>a, <2>5, <2>6, <2>7 DEF QueuedApart
  <2>11. QueuesApart' BY <1>a, <2>2, <2>3, <2>4 DEF QueuesApart
  <2>12. ReportedApart' BY <1>a, <2>2, <2>5, <2>6, <2>7 DEF ReportedApart
  <2>13. QED BY <2>8, <2>9, <2>10, <2>11, <2>12 DEF HandsInv
<1>22. ASSUME NEW w \in Workers, WorkerExit(w) PROVE HandsInv'
  BY <1>0, <1>22, HandsQuietStep DEF WorkerExit, SeesShutdown, HandsQuiet, ThreadHas, WorkerHas,
     ThreadType, WorkerType, queueVars, threadVars, workerVars, history
<1>23. ASSUME NEW w \in Workers, NEW failed \in BOOLEAN, Work(w, failed) PROVE HandsInv'
  BY <1>0, <1>23, HandsQuietStep DEF Work, HandsQuiet, ThreadHas, WorkerHas, ThreadType,
     WorkerType, queueVars, threadVars, workerVars, history
<1>24. ASSUME NEW w \in Workers, WorkPanics(w) PROVE HandsInv'
  BY <1>0, <1>24, HandsQuietStep DEF WorkPanics, HandsQuiet, ThreadHas, WorkerHas, ThreadType,
     WorkerType, queueVars, threadVars, workerVars, history
<1>25. ASSUME NEW w \in Workers, WorkerCleanup(w) PROVE HandsInv'
  BY <1>0, <1>25, HandsQuietStep DEF WorkerCleanup, HandsQuiet, ThreadHas, WorkerHas, ThreadType,
     WorkerType, queueVars, threadVars, workerVars, history
<1>26. ASSUME NEW w \in Workers, WorkerSend(w) PROVE HandsInv'
  <2> DEFINE j == wjob[w]
  <2>1. j \in Jobs /\ WorkerHas(w, j) BY <1>0, <1>26 DEF WorkerSend, Holding, WorkerHas
  <2>2. wpc' = [wpc EXCEPT ![w] = "publish"] /\ reported' = reported \cup {j}
        /\ UNCHANGED <<called, interactive, background, tpc, tjob, wjob>>
    BY <1>26 DEF WorkerSend, threadVars
  <2>3. \A u \in Threads, k \in Jobs : ThreadHas(u, k)' => ThreadHas(u, k) /\ k # j
    BY <1>a, <2>1, <2>2 DEF ThreadHas, HandsApart
  <2>4. \A v \in Workers, k \in Jobs : WorkerHas(v, k)' => WorkerHas(v, k) /\ k # j
    <3>1. \A v \in Workers, k \in Jobs : WorkerHas(v, k)' => WorkerHas(v, k) /\ v # w
      BY <1>0, <2>2 DEF WorkerHas, WorkerType
    <3>2. QED BY <1>a, <2>1, <3>1 DEF HandsApart
  <2>5. Queued' = Queued /\ j \notin Queued /\ QueuesApart'
    BY <1>a, <2>1, <2>2 DEF QueuedApart, QueuesApart, Queued
  <2> HIDE DEF j
  <2>6. HandsCalled' BY <1>a, <2>1, <2>2, <2>3, <2>4, <2>5 DEF HandsCalled
  <2>7. HandsApart' BY <1>a, <2>3, <2>4 DEF HandsApart
  <2>8. QueuedApart' BY <1>a, <2>3, <2>4, <2>5 DEF QueuedApart
  <2>9. ReportedApart' BY <1>a, <2>1, <2>2, <2>3, <2>4, <2>5 DEF ReportedApart
  <2>10. QED BY <2>5, <2>6, <2>7, <2>8, <2>9 DEF HandsInv
<1>27. ASSUME NEW w \in Workers, WorkerDrop(w) PROVE HandsInv'
  BY <1>0, <1>27, HandsQuietStep DEF WorkerDrop, HandsQuiet, ThreadHas, WorkerHas, ThreadType,
     WorkerType, queueVars, threadVars, workerVars, history
<1>28. ASSUME NEW w \in Workers, WorkerPublish(w) PROVE HandsInv'
  BY <1>0, <1>28, HandsQuietStep DEF WorkerPublish, HandsQuiet, ThreadHas, WorkerHas, ThreadType,
     WorkerType, queueVars, threadVars, workerVars, history
<1>29. ASSUME NEW j \in Jobs, Invalidate(j) PROVE HandsInv'
  BY <1>0, <1>29, HandsQuietStep DEF Invalidate, HandsQuiet, ThreadHas, WorkerHas, ThreadType,
     WorkerType, queueVars, threadVars, workerVars, history
<1>30. CASE UNCHANGED vars
  BY <1>0, <1>30, HandsQuietStep DEF vars, HandsQuiet, ThreadHas, WorkerHas, ThreadType,
     WorkerType, queueVars, threadVars, workerVars, history
<1>31. ASSUME NEW t \in Threads, ReceiveWake(t) PROVE HandsInv'
  BY <1>0, <1>31, HandsQuietStep DEF ReceiveWake, HandsQuiet, ThreadHas, WorkerHas,
     ThreadType, WorkerType, queueVars, threadVars, workerVars, history
<1>32. QED
  BY <1>1, <1>2, <1>3, <1>4, <1>5, <1>6, <1>7, <1>8, <1>9, <1>10, <1>11, <1>12, <1>13, <1>14,
     <1>15, <1>16, <1>17, <1>18, <1>19, <1>20, <1>21, <1>22, <1>23, <1>24, <1>25, <1>26, <1>27,
     <1>28, <1>29, <1>30, <1>31 DEF Next, ThreadNext, PoolCall, WorkerNext


(* A result is in the channel once, or in the hands of one drain, and is   *)
(* booked by one worker.                                                   *)
ResultsApart ==
  /\ IsInjective(results)
  /\ \A t \in Threads : IsInjective(tout[t])
  /\ \A t \in Threads : Range(tout[t]) \subseteq reported
  /\ \A t \in Threads : Range(tout[t]) \cap Range(results) = {}
  /\ \A t, u \in Threads : t # u => Range(tout[t]) \cap Range(tout[u]) = {}

PublishApart ==
  \A v, w \in Workers : wpc[v] = "publish" /\ wpc[w] = "publish" /\ wjob[v] = wjob[w] => v = w

(* What was committed is in no one's hands any more.                       *)
CommittedApart ==
  /\ IsInjective(committed) /\ Range(committed) \subseteq reported
  /\ Range(committed) \cap Range(results) = {}
  /\ \A t \in Threads : Range(committed) \cap Range(tout[t]) = {}

ResultsInv == ResultsApart /\ PublishApart /\ CommittedApart

LEMMA ResultsInit == Init => ResultsInv
  BY DEF Init, ResultsInv, ResultsApart, PublishApart, CommittedApart, IsInjective, Range

ResultsQuiet ==
  /\ UNCHANGED <<results, tout, committed>> /\ reported \subseteq reported'
  /\ \A w \in Workers : wpc'[w] = "publish" => wpc[w] = "publish" /\ wjob'[w] = wjob[w]

LEMMA ResultsQuietStep == ResultsInv /\ ResultsQuiet => ResultsInv'
<1> SUFFICES ASSUME ResultsInv, ResultsQuiet PROVE ResultsInv'
  OBVIOUS
<1>1. ResultsApart' BY DEF ResultsInv, ResultsQuiet, ResultsApart
<1>2. PublishApart' BY DEF ResultsInv, ResultsQuiet, PublishApart
<1>3. CommittedApart' BY DEF ResultsInv, ResultsQuiet, CommittedApart
<1>4. QED BY <1>1, <1>2, <1>3 DEF ResultsInv

(* The sort keeps what it sorts: no result is lost or doubled.             *)
LEMMA SortedOnce ==
  ASSUME TypeInv, NEW t \in Threads, NEW r \in InSubmissionOrder(tout[t])
  PROVE  Range(r) = Range(tout[t]) /\ IsInjective(r)
<1>1. tout[t] \in Seq(Jobs) /\ seq \in [Jobs -> Nat]
  BY DEF TypeInv, TypeOK, ThreadType, SeqType
<1>2. DOMAIN r = DOMAIN tout[t] /\ DOMAIN r \subseteq Nat /\ r \in Seq(Jobs)
      /\ Range(r) = Range(tout[t])
  BY <1>1, Reordering DEF InSubmissionOrder
<1>3. \A m, n \in DOMAIN r : m < n => seq[r[m]] < seq[r[n]]
  BY <1>2 DEF InSubmissionOrder
<1>4. \A m \in DOMAIN r : m \in Nat /\ seq[r[m]] \in Nat BY <1>1, <1>2
<1>5. ASSUME NEW m \in DOMAIN r, NEW n \in DOMAIN r, r[m] = r[n] PROVE m = n
  BY <1>3, <1>4, <1>5
<1>6. QED BY <1>2, <1>5 DEF IsInjective

LEMMA ResultsStep ==
  TypeInv /\ FrontierInv /\ HandsInv /\ ResultsInv /\ [Next]_vars => ResultsInv'
<1> SUFFICES ASSUME TypeInv, FrontierInv, HandsInv, ResultsInv, [Next]_vars PROVE ResultsInv'
  OBVIOUS
<1>0. QueueType /\ JobType /\ ThreadType /\ WorkerType /\ Holding BY DEF TypeInv, TypeOK
<1>a. ResultsApart /\ PublishApart /\ CommittedApart BY DEF ResultsInv
<1>b. Range(results) \subseteq reported BY DEF FrontierInv, SentReported
<1>c. \A t \in Threads : tout[t] \in Seq(Jobs) BY <1>0 DEF ThreadType
<1>1. ASSUME NEW t \in Threads, NEW j \in Jobs, ScheduleReserve(t, j) PROVE ResultsInv'
  BY <1>0, <1>1, ResultsQuietStep DEF ScheduleReserve, Goto, ResultsQuiet, WorkerType, queueVars,
     threadVars, workerVars, history
<1>2. ASSUME NEW t \in Threads, NEW j \in Jobs, ScheduleNoMemory(t, j) PROVE ResultsInv'
  BY <1>0, <1>2, ResultsQuietStep DEF ScheduleNoMemory, ResultsQuiet, WorkerType, queueVars,
     threadVars, workerVars, history
<1>3. ASSUME NEW t \in Threads, ScheduleRefused(t) PROVE ResultsInv'
  BY <1>0, <1>3, ResultsQuietStep DEF ScheduleRefused, Goto, ResultsQuiet, WorkerType, queueVars,
     threadVars, workerVars, history
<1>4. ASSUME NEW t \in Threads, ScheduleAdmit(t) PROVE ResultsInv'
  BY <1>0, <1>4, ResultsQuietStep DEF ScheduleAdmit, Goto, ResultsQuiet, WorkerType, queueVars,
     threadVars, workerVars, history
<1>5. ASSUME NEW t \in Threads, ScheduleSend(t) PROVE ResultsInv'
  BY <1>0, <1>5, ResultsQuietStep DEF ScheduleSend, Goto, ResultsQuiet, WorkerType, queueVars,
     threadVars, workerVars, history
<1>6. ASSUME NEW t \in Threads, ScheduleFull(t) PROVE ResultsInv'
  BY <1>0, <1>6, ResultsQuietStep DEF ScheduleFull, Goto, ResultsQuiet, WorkerType, queueVars,
     threadVars, workerVars, history
<1>7. ASSUME NEW t \in Threads, ScheduleUndo(t) PROVE ResultsInv'
  BY <1>0, <1>7, ResultsQuietStep DEF ScheduleUndo, Goto, ResultsQuiet, WorkerType, queueVars,
     threadVars, workerVars, history
<1>8. ASSUME NEW t \in Threads, NEW i \in CancelIDs, CancelJob(t, i) PROVE ResultsInv'
  BY <1>0, <1>8, ResultsQuietStep DEF CancelJob, ResultsQuiet, WorkerType, queueVars, threadVars,
     workerVars, history
<1>9. ASSUME NEW t \in Threads, CancelAll(t) PROVE ResultsInv'
  BY <1>0, <1>9, ResultsQuietStep DEF CancelAll, ResultsQuiet, WorkerType, queueVars, threadVars,
     workerVars, history
<1>10. ASSUME NEW t \in Threads, NEW p \in BOOLEAN, SetPaused(t, p) PROVE ResultsInv'
  BY <1>0, <1>10, ResultsQuietStep DEF SetPaused, ResultsQuiet, WorkerType, queueVars, threadVars,
     workerVars, history
<1>11. ASSUME NEW t \in Threads, DrainBegin(t) PROVE ResultsInv'
  BY <1>0, <1>11, ResultsQuietStep DEF DrainBegin, Goto, ResultsQuiet, WorkerType, queueVars,
     threadVars, workerVars, history
<1>12. ASSUME NEW t \in Threads, DrainReceive(t) PROVE ResultsInv'
  <2>1. results # <<>> /\ results \in Seq(Jobs) BY <1>0, <1>12 DEF DrainReceive, QueueType
  <2>2. results' = Tail(results) /\ tout' = [tout EXCEPT ![t] = Append(tout[t], Head(results))]
        /\ UNCHANGED <<reported, wpc, wjob, committed>>
    BY <1>12 DEF DrainReceive, workerVars, history
  <2>3. Head(results) \in Jobs /\ Head(results) \in Range(results)
        /\ Range(results') \subseteq Range(results)
    BY <2>1, <2>2, HeadTail
  <2>4. IsInjective(results') /\ Head(results) \notin Range(results')
    BY <1>a, <2>1, <2>2, InjectiveTail DEF ResultsApart
  <2>5. tout'[t] = Append(tout[t], Head(results)) /\ \A u \in Threads : u # t => tout'[u] = tout[u]
    BY <1>0, <2>2 DEF ThreadType
  <2>6. Range(tout'[t]) = Range(tout[t]) \cup {Head(results)}
    BY <1>c, <2>3, <2>5, RangeAppend
  <2>7. IsInjective(tout'[t])
    <3>1. Head(results) \notin Range(tout[t]) BY <1>a, <2>3 DEF ResultsApart
    <3>2. QED BY <1>a, <1>c, <2>3, <2>5, <3>1, InjectiveAppend DEF ResultsApart
  <2>8. \A u \in Threads : /\ IsInjective(tout'[u])
                           /\ Range(tout'[u]) \subseteq reported'
                           /\ Range(tout'[u]) \cap Range(results') = {}
    BY <1>a, <1>b, <2>2, <2>3, <2>4, <2>5, <2>6, <2>7 DEF ResultsApart
  <2>9. \A u, v \in Threads : u # v => Range(tout'[u]) \cap Range(tout'[v]) = {}
    <3>1. \A u \in Threads : u # t => /\ Range(tout'[u]) = Range(tout[u])
                                     /\ Head(results) \notin Range(tout[u])
                                     /\ Range(tout[u]) \cap Range(tout[t]) = {}
      BY <1>a, <2>3, <2>5 DEF ResultsApart
    <3>2. \A u, v \in Threads : u # v => Range(tout[u]) \cap Range(tout[v]) = {}
      BY <1>a DEF ResultsApart
    <3>3. QED BY <2>6, <3>1, <3>2
  <2>10. ResultsApart' BY <2>4, <2>8, <2>9 DEF ResultsApart
  <2>11. PublishApart' BY <1>a, <2>2 DEF PublishApart
  <2>12. CommittedApart' BY <1>a, <2>2, <2>3, <2>5, <2>6 DEF CommittedApart
  <2>13. QED BY <2>10, <2>11, <2>12 DEF ResultsInv
<1>13. ASSUME NEW t \in Threads, NEW ordered \in BOOLEAN, DrainSort(t, ordered) PROVE ResultsInv'
  <2>1. PICK r \in (IF ordered THEN InSubmissionOrder(tout[t]) ELSE {tout[t]}) :
               tout' = [tout EXCEPT ![t] = r]
    BY <1>13 DEF DrainSort
  <2>2. UNCHANGED <<results, reported, wpc, wjob, committed>>
    BY <1>13 DEF DrainSort, queueVars, workerVars, history
  <2>3. Range(r) = Range(tout[t]) /\ IsInjective(r)
    BY <1>a, <2>1, SortedOnce DEF ResultsApart
  <2>4. tout'[t] = r /\ \A u \in Threads : u # t => tout'[u] = tout[u]
    BY <1>0, <2>1 DEF ThreadType
  <2>5. \A u \in Threads : Range(tout'[u]) = Range(tout[u]) /\ IsInjective(tout'[u])
    BY <1>a, <2>3, <2>4 DEF ResultsApart
  <2>6. ResultsApart' BY <1>a, <2>2, <2>5 DEF ResultsApart
  <2>7. PublishApart' BY <1>a, <2>2 DEF PublishApart
  <2>8. CommittedApart' BY <1>a, <2>2, <2>5 DEF CommittedApart
  <2>9. QED BY <2>6, <2>7, <2>8 DEF ResultsInv
<1>14. ASSUME NEW t \in Threads, DrainCommit(t) PROVE ResultsInv'
  <2>1. tout[t] # <<>> /\ tout' = [tout EXCEPT ![t] = Tail(tout[t])]
        /\ UNCHANGED <<results, reported, wpc, wjob>>
    BY <1>14 DEF DrainCommit, queueVars, workerVars
  <2>2. tout'[t] = Tail(tout[t]) /\ \A u \in Threads : u # t => tout'[u] = tout[u]
    BY <1>0, <2>1 DEF ThreadType
  <2>3. IsInjective(Tail(tout[t])) /\ Range(Tail(tout[t])) \subseteq Range(tout[t])
    BY <1>a, <1>c, <2>1, HeadTail, InjectiveTail DEF ResultsApart
  <2>4. \A u \in Threads : Range(tout'[u]) \subseteq Range(tout[u]) /\ IsInjective(tout'[u])
    BY <1>a, <2>2, <2>3 DEF ResultsApart
  <2>5. ResultsApart' BY <1>a, <2>1, <2>4 DEF ResultsApart
  <2>6. PublishApart' BY <1>a, <2>1 DEF PublishApart
  <2>7. tout[t] \in Seq(Jobs) /\ Head(tout[t]) \in Jobs /\ Head(tout[t]) \in Range(tout[t])
    BY <1>c, <2>1, HeadTail
  <2>8. Head(tout[t]) \notin Range(Tail(tout[t]))
    BY <1>a, <2>1, <2>7, InjectiveTail DEF ResultsApart
  <2>a. UNCHANGED <<results, reported>>
        /\ (committed' = committed \/ committed' = Append(committed, Head(tout[t])))
    BY <1>14 DEF DrainCommit, Committing, queueVars
  <2>b. \A u \in Threads : Range(tout'[u]) \subseteq Range(tout[u]) BY <2>4
  <2>9. ASSUME committed' = committed PROVE CommittedApart'
    BY <1>a, <2>a, <2>b, <2>9 DEF CommittedApart
  <2>10. ASSUME committed' = Append(committed, Head(tout[t])) PROVE CommittedApart'
    <3>1. committed \in Seq(Jobs) /\ Head(tout[t]) \notin Range(committed)
      BY <1>0, <1>a, <2>7 DEF JobType, CommittedApart
    <3>2. IsInjective(committed') BY <1>a, <2>7, <2>10, <3>1, InjectiveAppend DEF CommittedApart
    <3>3. Range(committed') = Range(committed) \cup {Head(tout[t])}
      BY <2>7, <2>10, <3>1, RangeAppend
    <3>4. Head(tout[t]) \in reported /\ Head(tout[t]) \notin Range(results)
          /\ \A u \in Threads : Head(tout[t]) \notin Range(tout'[u])
      BY <1>a, <2>2, <2>7, <2>8 DEF ResultsApart
    <3>5. Range(committed') \subseteq reported' /\ Range(committed') \cap Range(results') = {}
      BY <1>a, <2>a, <3>3, <3>4 DEF CommittedApart
    <3>6. ASSUME NEW u \in Threads PROVE Range(committed') \cap Range(tout'[u]) = {}
      <4>1. Range(committed) \cap Range(tout[u]) = {} BY <1>a DEF CommittedApart
      <4>2. QED BY <2>b, <3>3, <3>4, <4>1
    <3>7. QED BY <3>2, <3>5, <3>6 DEF CommittedApart
  <2>11. CommittedApart' BY <2>a, <2>9, <2>10
  <2>12. QED BY <2>5, <2>6, <2>11 DEF ResultsInv
<1>15. ASSUME NEW t \in Threads, ShutdownBegin(t) PROVE ResultsInv'
  BY <1>0, <1>15, ResultsQuietStep DEF ShutdownBegin, Goto, ResultsQuiet, WorkerType, queueVars,
     threadVars, workerVars, history
<1>16. ASSUME NEW t \in Threads, ShutdownReceive(t) PROVE ResultsInv'
  <2>1. results # <<>> /\ results \in Seq(Jobs) BY <1>0, <1>16 DEF ShutdownReceive, QueueType
  <2>2. results' = Tail(results) /\ UNCHANGED <<tout, reported, wpc, wjob, committed>>
    BY <1>16 DEF ShutdownReceive, threadVars, workerVars, history
  <2>3. IsInjective(results') /\ Range(results') \subseteq Range(results)
    BY <1>a, <2>1, <2>2, HeadTail, InjectiveTail DEF ResultsApart
  <2>4. ResultsApart' BY <1>a, <2>2, <2>3 DEF ResultsApart
  <2>5. PublishApart' BY <1>a, <2>2 DEF PublishApart
  <2>6. CommittedApart' BY <1>a, <2>2, <2>3 DEF CommittedApart
  <2>7. QED BY <2>4, <2>5, <2>6 DEF ResultsInv
<1>17. ASSUME NEW t \in Threads, NEW j \in Jobs, ShutdownRelease(t, j) PROVE ResultsInv'
  BY <1>0, <1>17, ResultsQuietStep DEF ShutdownRelease, ResultsQuiet, WorkerType, queueVars,
     threadVars, workerVars, history
<1>18. ASSUME NEW t \in Threads, ShutdownReturn(t) PROVE ResultsInv'
  BY <1>0, <1>18, ResultsQuietStep DEF ShutdownReturn, Goto, ResultsQuiet, WorkerType, queueVars,
     threadVars, workerVars, history
<1>19. ASSUME NEW w \in Workers, WorkerInteractive(w) PROVE ResultsInv'
  BY <1>0, <1>19, ResultsQuietStep DEF WorkerInteractive, Take, AtTop, ResultsQuiet, WorkerType,
     queueVars, threadVars, workerVars, history
<1>20. ASSUME NEW w \in Workers, WorkerBlocks(w) PROVE ResultsInv'
  BY <1>0, <1>20, ResultsQuietStep DEF WorkerBlocks, AtTop, ResultsQuiet, WorkerType, queueVars,
     threadVars, workerVars, history
<1>21. ASSUME NEW w \in Workers, WorkerBackground(w) PROVE ResultsInv'
  BY <1>0, <1>21, ResultsQuietStep DEF WorkerBackground, Take, ResultsQuiet, WorkerType,
     queueVars, threadVars, workerVars, history
<1>22. ASSUME NEW w \in Workers, WorkerExit(w) PROVE ResultsInv'
  BY <1>0, <1>22, ResultsQuietStep DEF WorkerExit, SeesShutdown, ResultsQuiet, WorkerType,
     queueVars, threadVars, workerVars, history
<1>23. ASSUME NEW w \in Workers, NEW failed \in BOOLEAN, Work(w, failed) PROVE ResultsInv'
  BY <1>0, <1>23, ResultsQuietStep DEF Work, ResultsQuiet, WorkerType, queueVars, threadVars,
     workerVars, history
<1>24. ASSUME NEW w \in Workers, WorkPanics(w) PROVE ResultsInv'
  BY <1>0, <1>24, ResultsQuietStep DEF WorkPanics, ResultsQuiet, WorkerType, queueVars,
     threadVars, workerVars, history
<1>25. ASSUME NEW w \in Workers, WorkerCleanup(w) PROVE ResultsInv'
  BY <1>0, <1>25, ResultsQuietStep DEF WorkerCleanup, ResultsQuiet, WorkerType, queueVars,
     threadVars, workerVars, history
<1>26. ASSUME NEW w \in Workers, WorkerSend(w) PROVE ResultsInv'
  <2>1. wjob[w] \in Jobs /\ wjob[w] \notin reported
    BY <1>0, <1>26 DEF WorkerSend, Holding, HandsInv, ReportedApart, WorkerHas
  <2>2. results' = Append(results, wjob[w]) /\ reported' = reported \cup {wjob[w]}
        /\ wpc' = [wpc EXCEPT ![w] = "publish"] /\ UNCHANGED <<wjob, tout, committed>>
    BY <1>26 DEF WorkerSend, threadVars
  <2>3. Range(results') = Range(results) \cup {wjob[w]}
    BY <1>0, <2>1, <2>2, RangeAppend DEF QueueType
  <2>4. IsInjective(results')
    BY <1>0, <1>a, <1>b, <2>1, <2>2, InjectiveAppend DEF QueueType, ResultsApart
  <2>5. ResultsApart'
    <3>1. tout' = tout /\ reported \subseteq reported' BY <2>2
    <3>2. ASSUME NEW u \in Threads
          PROVE  Range(tout[u]) \subseteq reported' /\ Range(tout[u]) \cap Range(results') = {}
      <4>1. Range(tout[u]) \subseteq reported /\ Range(tout[u]) \cap Range(results) = {}
        BY <1>a DEF ResultsApart
      <4>2. QED BY <2>1, <2>3, <3>1, <4>1
    <3>3. QED BY <1>a, <2>4, <3>1, <3>2 DEF ResultsApart
  <2>6. \A v \in Workers : wpc'[v] = "publish" => v = w \/ (wpc[v] = "publish" /\ wjob[v] \in reported)
    BY <1>0, <2>2 DEF WorkerType, FrontierInv, SentReported
  <2>7. PublishApart' BY <1>a, <2>1, <2>2, <2>6 DEF PublishApart
  <2>8. Range(committed) \cap Range(results') = {} /\ Range(committed) \subseteq reported'
    BY <1>a, <2>1, <2>2, <2>3 DEF CommittedApart
  <2>9. CommittedApart' BY <1>a, <2>2, <2>8 DEF CommittedApart
  <2>10. QED BY <2>5, <2>7, <2>9 DEF ResultsInv
<1>27. ASSUME NEW w \in Workers, WorkerDrop(w) PROVE ResultsInv'
  BY <1>0, <1>27, ResultsQuietStep DEF WorkerDrop, ResultsQuiet, WorkerType, queueVars,
     threadVars, workerVars, history
<1>28. ASSUME NEW w \in Workers, WorkerPublish(w) PROVE ResultsInv'
  BY <1>0, <1>28, ResultsQuietStep DEF WorkerPublish, ResultsQuiet, WorkerType, queueVars,
     threadVars, workerVars, history
<1>29. ASSUME NEW j \in Jobs, Invalidate(j) PROVE ResultsInv'
  BY <1>0, <1>29, ResultsQuietStep DEF Invalidate, ResultsQuiet, WorkerType, queueVars,
     threadVars, workerVars, history
<1>30. CASE UNCHANGED vars
  BY <1>0, <1>30, ResultsQuietStep DEF vars, ResultsQuiet, WorkerType, queueVars, threadVars,
     workerVars, history
<1>31. ASSUME NEW t \in Threads, ReceiveWake(t) PROVE ResultsInv'
  BY <1>0, <1>31, ResultsQuietStep DEF ReceiveWake, ResultsQuiet, WorkerType, queueVars,
     threadVars, workerVars, history
<1>32. QED
  BY <1>1, <1>2, <1>3, <1>4, <1>5, <1>6, <1>7, <1>8, <1>9, <1>10, <1>11, <1>12, <1>13, <1>14,
     <1>15, <1>16, <1>17, <1>18, <1>19, <1>20, <1>21, <1>22, <1>23, <1>24, <1>25, <1>26, <1>27,
     <1>28, <1>29, <1>30, <1>31 DEF Next, ThreadNext, PoolCall, WorkerNext

(* Every job is in at most one place from its call to its commit: in the
   hands of one caller or one worker, in one queue, in the results channel or
   in one drain (job.go:447-640, 690-745, 850-1012). *)
THEOREM OneOwner == Spec => [](HandsInv /\ ResultsInv)
<1>1. QED BY TypeInit, TypeStep, FrontierInit, FrontierStep, HandsInit, HandsStep, ResultsInit,
             ResultsStep, PTL DEF Spec

(* No result is committed twice (job.go:690-745), for any number of
   draining threads, ordered or not. *)
THEOREM CommitsOnce == Spec => []CommittedOnce
<1>1. ResultsInv => CommittedOnce BY DEF ResultsInv, CommittedApart, CommittedOnce
<1>2. QED BY <1>1, OneOwner, PTL

-----------------------------------------------------------------------------
(* The way of a job through the pool.                                      *)

LEMMA RangeTail ==
  ASSUME NEW S, NEW s \in Seq(S), s # <<>>
  PROVE  Range(s) = {Head(s)} \cup Range(Tail(s))
<1>1. Len(s) \in Nat /\ Len(s) > 0 /\ DOMAIN s = 1..Len(s) OBVIOUS
<1>2. ASSUME NEW n \in DOMAIN s PROVE s[n] \in {Head(s)} \cup Range(Tail(s))
  <2>1. CASE n = 1 BY <1>1, <2>1
  <2>2. CASE n # 1
    <3>1. n - 1 \in DOMAIN Tail(s) /\ Tail(s)[n - 1] = s[n] BY <1>1, <2>2
    <3>2. QED BY <3>1 DEF Range
  <2>3. QED BY <2>1, <2>2
<1>3. Range(s) \subseteq {Head(s)} \cup Range(Tail(s)) BY <1>2 DEF Range
<1>4. QED BY <1>3, HeadTail

-----------------------------------------------------------------------------
(* Where a job is.                                                         *)

Entering(t, j) == tpc[t] = "admit" /\ tjob[t] = j
Admitted(t, j) == tpc[t] \in {"send", "undo"} /\ tjob[t] = j
At(w, label, j) == wpc[w] = label /\ wjob[w] = j
Drained(t, j) == j \in Range(tout[t])

NoThread(j) == \A t \in Threads : ~Entering(t, j) /\ ~Admitted(t, j)
NoWorker(j) == \A w \in Workers : ~At(w, "work", j) /\ ~At(w, "cleanup", j) /\ ~At(w, "send", j)
NoResult(j) == j \notin Range(results) /\ \A t \in Threads : ~Drained(t, j)

PlaceInv == TypeInv /\ FrontierInv /\ HandsInv /\ ResultsInv

LEMMA UncalledAlone ==
  ASSUME PlaceInv, NEW j \in Jobs, j \notin called
  PROVE  NoThread(j) /\ NoWorker(j) /\ NoResult(j) /\ j \notin Queued /\ j \notin reported
BY DEF PlaceInv, FrontierInv, SentReported, HandsInv, HandsCalled, ResultsInv, ResultsApart,
   ThreadHas, WorkerHas, NoThread, NoWorker, NoResult, Entering, Admitted, At, Drained

LEMMA ThreadAlone ==
  ASSUME PlaceInv, NEW j \in Jobs, NEW t \in Threads, Entering(t, j) \/ Admitted(t, j)
  PROVE  /\ \A u \in Threads : u # t => ~Entering(u, j) /\ ~Admitted(u, j)
         /\ NoWorker(j) /\ NoResult(j) /\ j \notin Queued /\ j \notin reported /\ j \in called
<1>1. ThreadHas(t, j) BY DEF ThreadHas, Entering, Admitted
<1>2. j \notin reported /\ j \notin Queued /\ j \in called
  BY <1>1 DEF PlaceInv, HandsInv, HandsCalled, QueuedApart, ReportedApart
<1>3. NoResult(j)
  BY <1>2 DEF PlaceInv, FrontierInv, SentReported, ResultsInv, ResultsApart, NoResult, Drained
<1>4. NoWorker(j) BY <1>1 DEF PlaceInv, HandsInv, HandsApart, WorkerHas, NoWorker, At
<1>5. \A u \in Threads : u # t => ~Entering(u, j) /\ ~Admitted(u, j)
  BY <1>1 DEF PlaceInv, HandsInv, HandsApart, ThreadHas, Entering, Admitted
<1>6. QED BY <1>2, <1>3, <1>4, <1>5

LEMMA QueuedAlone ==
  ASSUME PlaceInv, NEW j \in Jobs, j \in Queued
  PROVE  NoThread(j) /\ NoWorker(j) /\ NoResult(j) /\ j \notin reported /\ j \in called
<1>1. j \notin reported /\ j \in called
  BY DEF PlaceInv, HandsInv, HandsCalled, ReportedApart
<1>2. NoResult(j)
  BY <1>1 DEF PlaceInv, FrontierInv, SentReported, ResultsInv, ResultsApart, NoResult, Drained
<1>3. NoWorker(j) BY DEF PlaceInv, HandsInv, QueuedApart, WorkerHas, NoWorker, At
<1>4. NoThread(j) BY DEF PlaceInv, HandsInv, QueuedApart, ThreadHas, NoThread, Entering, Admitted
<1>5. QED BY <1>1, <1>2, <1>3, <1>4

LEMMA WorkerAlone ==
  ASSUME PlaceInv, NEW j \in Jobs, NEW w \in Workers, WorkerHas(w, j)
  PROVE  /\ \A v \in Workers : v # w => \A l \in {"work", "cleanup", "send"} : ~At(v, l, j)
         /\ NoThread(j) /\ NoResult(j) /\ j \notin Queued /\ j \notin reported /\ j \in called
<1>1. j \notin reported /\ j \notin Queued /\ j \in called
  BY DEF PlaceInv, HandsInv, HandsCalled, QueuedApart, ReportedApart
<1>2. NoResult(j)
  BY <1>1 DEF PlaceInv, FrontierInv, SentReported, ResultsInv, ResultsApart, NoResult, Drained
<1>3. NoThread(j) BY DEF PlaceInv, HandsInv, HandsApart, ThreadHas, NoThread, Entering, Admitted
<1>4. \A v \in Workers : v # w => \A l \in {"work", "cleanup", "send"} : ~At(v, l, j)
  BY DEF PlaceInv, HandsInv, HandsApart, WorkerHas, At
<1>5. QED BY <1>1, <1>2, <1>3, <1>4

LEMMA ReportedAlone ==
  ASSUME PlaceInv, NEW j \in Jobs, j \in reported
  PROVE  NoThread(j) /\ NoWorker(j) /\ j \notin Queued /\ j \in called
BY DEF PlaceInv, HandsInv, HandsCalled, ReportedApart, ThreadHas, WorkerHas, NoThread, NoWorker,
   Entering, Admitted, At

-----------------------------------------------------------------------------
(* What holds of each job, by the place it is in.                          *)

(* A job has a sequence number from its admission on.                      *)
SeqOK(j) ==
  /\ j \notin called => seq[j] = 0
  /\ \A t \in Threads : (Entering(t, j) => seq[j] = 0) /\ (Admitted(t, j) => seq[j] > 0)
  /\ j \in Queued \/ j \in reported => seq[j] > 0
  /\ \A w \in Workers : At(w, "work", j) \/ At(w, "cleanup", j) \/ At(w, "send", j) => seq[j] > 0
  /\ \A i \in IDs : jobReservations[i] = j => seq[j] > 0
  /\ j \in todo => seq[j] > 0

(* It has an outcome only after its Work returned.                         *)
FreshOK(j) ==
  outcome[j] # "none" => /\ j \in called /\ j \notin Queued /\ NoThread(j)
                         /\ \A w \in Workers : ~At(w, "work", j)

(* Its reservation is reserved until admission, live until the cleanup and *)
(* then, if the result can commit, retiring.  Shutdown breaks the rule     *)
(* when all workers have left.                                             *)
ChargeOK(j) ==
  /\ j \notin called \/ Bytes[j] = 0 => alloc[j] = "none"
  /\ seq[j] > 0 => alloc[j] # "reserved"
  /\ Bytes[j] > 0 =>
       /\ \A t \in Threads : Entering(t, j) => alloc[j] = "reserved"
       /\ ~Joined => /\ j \in Queued => alloc[j] = "live"
                     /\ \A t \in Threads : Admitted(t, j) => alloc[j] = "live"
       /\ \A w \in Workers : At(w, "work", j) => alloc[j] = "live"
       /\ outcome[j] = "ok" =>
            /\ \A w \in Workers : /\ At(w, "cleanup", j) => alloc[j] = "live"
                                  /\ At(w, "send", j) => alloc[j] = "retiring"
            /\ ~Joined => /\ j \in Range(results) => alloc[j] = "retiring"
                          /\ \A t \in Threads : Drained(t, j) => alloc[j] = "retiring"

(* A held charge belongs to a job that is somewhere, or to one that a full *)
(* queue refused; one whose result is out can be given back.               *)
Placed(j) ==
  ~NoThread(j) \/ ~NoWorker(j) \/ ~NoResult(j) \/ j \in Queued

ReturnOK(j) ==
  /\ \A w \in Workers : At(w, "send", j) => alloc[j] \notin {"reserved", "live"}
  /\ j \in reported => alloc[j] \notin {"reserved", "live"}
  /\ alloc[j] \in Held => Placed(j) \/ (seq[j] > 0 /\ outcome[j] = "none" /\ j \notin reported)

JobOK(j) == SeqOK(j) /\ FreshOK(j) /\ ChargeOK(j) /\ ReturnOK(j)

JobsInv == \A j \in Jobs : JobOK(j)

LEMMA JobsInit == Init => JobsInv
<1> SUFFICES ASSUME Init, NEW j \in Jobs PROVE JobOK(j)
  BY DEF JobsInv
<1>1. NoThread(j) /\ NoWorker(j) /\ NoResult(j) /\ j \notin Queued
  BY DEF Init, NoThread, NoWorker, NoResult, Entering, Admitted, At, Drained, Queued, Range
<1>2. seq[j] = 0 /\ alloc[j] = "none" /\ outcome[j] = "none" /\ j \notin reported
      /\ j \notin todo /\ \A i \in IDs : jobReservations[i] # j
  BY DEF Init
<1>3. SeqOK(j) BY <1>1, <1>2 DEF SeqOK, NoThread, NoWorker
<1>4. FreshOK(j) BY <1>2 DEF FreshOK
<1>5. ChargeOK(j) BY <1>1, <1>2 DEF ChargeOK, NoThread, NoWorker, NoResult
<1>6. ReturnOK(j) BY <1>1, <1>2 DEF ReturnOK, NoWorker, Held
<1>7. QED BY <1>3, <1>4, <1>5, <1>6 DEF JobOK

(* A step concerns at most one job; it leaves every other one as it was.   *)
JobSame(j) ==
  /\ seq'[j] = seq[j] /\ alloc'[j] = alloc[j] /\ outcome'[j] = outcome[j]
  /\ (j \in called' <=> j \in called) /\ (j \in reported' <=> j \in reported)
  /\ \A t \in Threads : (Entering(t, j)' <=> Entering(t, j)) /\ (Admitted(t, j)' <=> Admitted(t, j))
  /\ \A t \in Threads : Drained(t, j)' <=> Drained(t, j)
  /\ \A w \in Workers : /\ At(w, "work", j)' <=> At(w, "work", j)
                        /\ At(w, "cleanup", j)' <=> At(w, "cleanup", j)
                        /\ At(w, "send", j)' <=> At(w, "send", j)
  /\ (j \in Queued)' <=> j \in Queued
  /\ (j \in Range(results))' <=> j \in Range(results)
  /\ \A i \in IDs : jobReservations'[i] = j => jobReservations[i] = j
  /\ j \in todo' => j \in todo \/ \E i \in IDs : jobReservations[i] = j
  /\ Joined => Joined'

LEMMA SameStep ==
  ASSUME NEW j \in Jobs, JobOK(j), JobSame(j)
  PROVE  JobOK(j)'
<1>1. (NoThread(j)' <=> NoThread(j)) /\ (NoWorker(j)' <=> NoWorker(j))
      /\ (NoResult(j)' <=> NoResult(j))
  BY DEF JobSame, NoThread, NoWorker, NoResult
<1>2. SeqOK(j)' BY DEF JobOK, JobSame, SeqOK
<1>3. FreshOK(j)' BY <1>1 DEF JobOK, JobSame, FreshOK
<1>4. ChargeOK(j)' BY DEF JobOK, JobSame, ChargeOK
<1>5. ReturnOK(j)' BY <1>1 DEF JobOK, JobSame, ReturnOK, Placed
<1>6. QED BY <1>2, <1>3, <1>4, <1>5 DEF JobOK

LEMMA QuietJobs ==
  ASSUME JobsInv, \A j \in Jobs : JobSame(j)
  PROVE  JobsInv'
BY SameStep DEF JobsInv

(* The step lemma: JobOK of the one job that moves, JobSame of the others. *)
LEMMA JobsStep == PlaceInv /\ JobsInv /\ [Next]_vars => JobsInv'
<1> SUFFICES ASSUME PlaceInv, JobsInv, [Next]_vars PROVE JobsInv'
  OBVIOUS
<1>0. PoolType /\ SeqType /\ QueueType /\ JobType /\ ThreadType /\ WorkerType /\ Holding
  BY DEF PlaceInv, TypeInv, TypeOK
<1>a. ASSUME NEW j \in Jobs PROVE SeqOK(j) /\ FreshOK(j) /\ ChargeOK(j) /\ ReturnOK(j)
  BY DEF JobsInv, JobOK
<1>b. \A t \in Threads : tout[t] \in Seq(Jobs) BY <1>0 DEF ThreadType
<1>c. ASSUME NEW j \in Jobs, \A k \in Jobs : k # j => JobSame(k),
             SeqOK(j)', FreshOK(j)', ChargeOK(j)', ReturnOK(j)'
      PROVE  JobsInv'
  BY <1>c, SameStep DEF JobsInv, JobOK
<1>1. ASSUME NEW t \in Threads, NEW j \in Jobs, ScheduleReserve(t, j) PROVE JobsInv'
  <2>1. j \in Jobs /\ j \notin called BY <1>1 DEF ScheduleReserve
  <2>2. NoThread(j) /\ NoWorker(j) /\ NoResult(j) /\ j \notin Queued /\ j \notin reported
    BY <2>1, UncalledAlone
  <2>3. called' = called \cup {j} /\ tpc' = [tpc EXCEPT ![t] = "admit"] /\ tpc[t] = "idle"
        /\ tjob' = [tjob EXCEPT ![t] = j]
        /\ alloc' = [alloc EXCEPT ![j] = IF Bytes[j] > 0 THEN "reserved" ELSE alloc[j]]
        /\ UNCHANGED <<seq, outcome, wpc, wjob, results, tout, interactive, background, reported, jobReservations, todo>>
    BY <1>1, <2>1 DEF ScheduleReserve, Goto, poolVars, seqVars, queueVars, workerVars, history
  <2>4. \A k \in Jobs : k # j => JobSame(k)
    BY <1>0, <2>3 DEF JobSame, Entering, Admitted, At, Drained, Queued, Joined, ThreadType, JobType
  <2>5. (\A u \in Threads : ~Admitted(u, j)') /\ NoWorker(j)' /\ NoResult(j)' /\ (j \notin Queued)'
        /\ Entering(t, j)'
    BY <1>0, <2>2, <2>3 DEF NoThread, NoWorker, NoResult, Entering, Admitted, At, Drained, Queued,
       ThreadType
  <2>6. seq'[j] = 0 /\ outcome'[j] = "none" /\ j \notin reported' /\ j \in called'
        /\ j \notin todo' /\ (\A i \in IDs : jobReservations'[i] # j)
        /\ (Bytes[j] > 0 => alloc'[j] = "reserved") /\ (Bytes[j] = 0 => alloc'[j] = "none")
    BY <1>0, <1>a, <2>1, <2>2, <2>3 DEF SeqOK, FreshOK, ChargeOK, JobType
  <2>7. SeqOK(j)' BY <2>5, <2>6 DEF SeqOK, NoThread, NoWorker
  <2>8. FreshOK(j)' BY <2>6 DEF FreshOK, NoThread, NoWorker
  <2>9. ChargeOK(j)' BY <2>5, <2>6 DEF ChargeOK, NoThread, NoWorker, NoResult
  <2>10. ReturnOK(j)' BY <2>5, <2>6 DEF ReturnOK, Placed, NoThread, NoWorker, NoResult, Held
  <2>11. QED BY <1>c, <2>1, <2>4, <2>7, <2>8, <2>9, <2>10
<1>2. ASSUME NEW t \in Threads, NEW j \in Jobs, ScheduleNoMemory(t, j) PROVE JobsInv'
  <2>1. j \in Jobs /\ j \notin called BY <1>2 DEF ScheduleNoMemory
  <2>2. NoThread(j) /\ NoWorker(j) /\ NoResult(j) /\ j \notin Queued /\ j \notin reported
    BY <2>1, UncalledAlone
  <2>3. called' = called \cup {j} /\ UNCHANGED <<seq, alloc, outcome, tpc, tjob, wpc, wjob, results, tout, interactive, background, reported, jobReservations, todo>>
    BY <1>2, <2>1 DEF ScheduleNoMemory, poolVars, seqVars, queueVars, workerVars, threadVars, history
  <2>4. \A k \in Jobs : k # j => JobSame(k) BY <2>3 DEF JobSame, Entering, Admitted, At, Drained, Queued, Joined
  <2>5. NoThread(j)' /\ NoWorker(j)' /\ NoResult(j)' /\ (j \notin Queued)'
    BY <2>2, <2>3 DEF NoThread, NoWorker, NoResult, Entering, Admitted, At, Drained, Queued
  <2>6. seq'[j] = 0 /\ outcome'[j] = "none" /\ alloc'[j] = "none" /\ j \notin reported'
        /\ j \notin todo' /\ \A i \in IDs : jobReservations'[i] # j
    BY <1>a, <2>1, <2>2, <2>3 DEF SeqOK, FreshOK, ChargeOK
  <2>7. SeqOK(j)' BY <2>5, <2>6 DEF SeqOK, NoThread, NoWorker
  <2>8. FreshOK(j)' BY <2>6 DEF FreshOK, NoThread, NoWorker
  <2>9. ChargeOK(j)' BY <2>5, <2>6 DEF ChargeOK, NoThread, NoWorker, NoResult
  <2>10. ReturnOK(j)' BY <2>5, <2>6 DEF ReturnOK, Placed, NoThread, NoWorker, NoResult, Held
  <2>11. QED BY <1>c, <2>1, <2>4, <2>7, <2>8, <2>9, <2>10
<1>3. ASSUME NEW t \in Threads, ScheduleRefused(t) PROVE JobsInv'
  <2>1. PICK j \in Jobs : j = tjob[t] BY <1>0, <1>3 DEF ScheduleRefused, Holding
  <2>a. Entering(t, j) BY <1>3, <2>1 DEF ScheduleRefused, Entering
  <2>2. (\A u \in Threads : u # t => ~Entering(u, j) /\ ~Admitted(u, j)) /\ NoWorker(j)
        /\ NoResult(j) /\ j \notin Queued /\ j \notin reported /\ j \in called
    BY <2>1, <2>a, ThreadAlone
  <2>3. alloc' = [alloc EXCEPT ![j] = Cancel(alloc[j])] /\ tpc' = [tpc EXCEPT ![t] = "idle"]
        /\ tjob' = [tjob EXCEPT ![t] = NoJob] /\ UNCHANGED <<called, seq, outcome, wpc, wjob, results, tout, interactive, background, reported, jobReservations, todo>>
    BY <1>3, <2>1 DEF ScheduleRefused, Goto, poolVars, seqVars, queueVars, workerVars, history
  <2>4. \A k \in Jobs : k # j => JobSame(k)
    BY <1>0, <2>a, <2>3 DEF JobSame, Entering, Admitted, At, Drained, Queued, Joined, ThreadType, JobType
  <2>5. NoThread(j)' /\ NoWorker(j)' /\ NoResult(j)' /\ (j \notin Queued)'
    BY <1>0, <2>2, <2>3 DEF NoThread, NoWorker, NoResult, Entering, Admitted, At, Drained, Queued, ThreadType
  <2>6. seq'[j] = 0 /\ outcome'[j] = "none" /\ j \notin reported' /\ j \in called'
        /\ j \notin todo' /\ \A i \in IDs : jobReservations'[i] # j
    BY <1>a, <2>1, <2>a, <2>2, <2>3 DEF SeqOK, FreshOK, NoThread
  <2>7. alloc'[j] \in {"none", "freed"} /\ (Bytes[j] = 0 => alloc'[j] = "none")
    <3>1. (Bytes[j] > 0 => alloc[j] = "reserved") /\ (Bytes[j] = 0 => alloc[j] = "none")
          /\ Bytes[j] \in Nat
      BY <1>a, <2>1, <2>a DEF ChargeOK
    <3>2. QED BY <1>0, <2>1, <2>3, <3>1 DEF Cancel, JobType
  <2>8. SeqOK(j)' BY <2>5, <2>6 DEF SeqOK, NoThread, NoWorker
  <2>9. FreshOK(j)' BY <2>6 DEF FreshOK, NoThread, NoWorker
  <2>10. ChargeOK(j)' BY <2>5, <2>6, <2>7 DEF ChargeOK, NoThread, NoWorker, NoResult
  <2>11. ReturnOK(j)' BY <2>5, <2>6, <2>7 DEF ReturnOK, Placed, NoThread, NoWorker, NoResult, Held
  <2>12. QED BY <1>c, <2>1, <2>4, <2>8, <2>9, <2>10, <2>11
<1>4. ASSUME NEW t \in Threads, ScheduleAdmit(t) PROVE JobsInv'
  <2>1. PICK j \in Jobs : j = tjob[t] BY <1>0, <1>4 DEF ScheduleAdmit, Holding
  <2>a. Entering(t, j) BY <1>4, <2>1 DEF ScheduleAdmit, Entering
  <2>2. (\A u \in Threads : u # t => ~Entering(u, j) /\ ~Admitted(u, j)) /\ NoWorker(j)
        /\ NoResult(j) /\ j \notin Queued /\ j \notin reported /\ j \in called
    BY <2>1, <2>a, ThreadAlone
  <2> DEFINE prev == active[JobID[j]]
             old == IF prev # NoJob THEN jobReservations[JobID[j]] ELSE NoJob
  <2>3. alloc' = [k \in Jobs |-> IF k = j THEN Publish(alloc[k])
                                 ELSE IF k = old THEN Cancel(alloc[k]) ELSE alloc[k]]
        /\ jobReservations' = [jobReservations EXCEPT ![JobID[j]] = IF Bytes[j] > 0 THEN j ELSE NoJob]
        /\ seq' = [seq EXCEPT ![j] = nextSequence + 1] /\ tpc' = [tpc EXCEPT ![t] = "send"]
        /\ UNCHANGED <<called, outcome, tjob, wpc, wjob, results, tout, interactive, background,
                      reported, todo>>
    BY <1>4, <2>1 DEF ScheduleAdmit, Goto, queueVars, workerVars, history
  <2>b. ASSUME NEW k \in Jobs, k # j PROVE alloc'[k] = alloc[k]
    <3>1. CASE k = old
      <4>1. jobReservations[JobID[j]] = k /\ JobID[j] \in IDs BY <2>1, <3>1
      <4>2. alloc[k] # "reserved" BY <1>a, <4>1 DEF SeqOK, ChargeOK
      <4>3. QED BY <2>3, <2>b, <3>1, <4>2 DEF Cancel
    <3>2. CASE k # old BY <2>3, <2>b, <3>2
    <3>3. QED BY <3>1, <3>2
  <2> HIDE DEF prev, old
  <2>4. \A k \in Jobs : k # j => JobSame(k)
    <3> SUFFICES ASSUME NEW k \in Jobs, k # j PROVE JobSame(k)
      OBVIOUS
    <3>1. seq'[k] = seq[k] /\ alloc'[k] = alloc[k] BY <1>0, <2>1, <2>b, <2>3 DEF SeqType
    <3>2. \A i \in IDs : jobReservations'[i] = k => jobReservations[i] = k
      BY <1>0, <2>1, <2>3 DEF PoolType
    <3>3. \A u \in Threads : /\ Entering(u, k)' <=> Entering(u, k)
                             /\ Admitted(u, k)' <=> Admitted(u, k)
      BY <1>0, <2>1, <2>3 DEF Entering, Admitted, ThreadType
    <3>4. QED BY <2>3, <3>1, <3>2, <3>3 DEF JobSame, At, Drained, Queued, Joined
  <2>5. (\A u \in Threads : ~Entering(u, j)') /\ Admitted(t, j)' /\ NoWorker(j)' /\ NoResult(j)'
        /\ (j \notin Queued)'
    BY <1>0, <2>1, <2>2, <2>3 DEF NoThread, NoWorker, NoResult, Entering, Admitted, At, Drained, Queued, ThreadType
  <2>6. seq'[j] > 0 /\ outcome'[j] = "none" /\ j \notin reported' /\ j \in called'
    BY <1>0, <1>a, <2>1, <2>a, <2>2, <2>3 DEF FreshOK, NoThread, SeqType
  <2>7. (Bytes[j] > 0 => alloc'[j] = "live") /\ (Bytes[j] = 0 => alloc'[j] = "none")
    <3>1. (Bytes[j] > 0 => alloc[j] = "reserved") /\ (Bytes[j] = 0 => alloc[j] = "none")
      BY <1>a, <2>1, <2>a DEF ChargeOK
    <3>2. QED BY <2>1, <2>3, <3>1 DEF Publish
  <2>d. Bytes[j] \in Nat BY <2>1
  <2>8. SeqOK(j)' BY <2>5, <2>6 DEF SeqOK, NoThread, NoWorker
  <2>9. FreshOK(j)' BY <2>6 DEF FreshOK, NoThread, NoWorker
  <2>10. ChargeOK(j)' BY <2>5, <2>6, <2>7, <2>d DEF ChargeOK, NoThread, NoWorker, NoResult
  <2>11. ReturnOK(j)' BY <2>5, <2>6 DEF ReturnOK, Placed, NoThread, NoWorker, NoResult, Held
  <2>12. QED BY <1>c, <2>1, <2>4, <2>8, <2>9, <2>10, <2>11
<1>5. ASSUME NEW t \in Threads, ScheduleSend(t) PROVE JobsInv'
  <2>1. PICK j \in Jobs : j = tjob[t] BY <1>0, <1>5 DEF ScheduleSend, Holding
  <2>a. Admitted(t, j) BY <1>5, <2>1 DEF ScheduleSend, Admitted
  <2>2. (\A u \in Threads : u # t => ~Entering(u, j) /\ ~Admitted(u, j)) /\ NoWorker(j)
        /\ NoResult(j) /\ j \notin Queued /\ j \notin reported /\ j \in called
    BY <2>1, <2>a, ThreadAlone
  <2>3. tpc' = [tpc EXCEPT ![t] = "idle"] /\ tjob' = [tjob EXCEPT ![t] = NoJob]
        /\ UNCHANGED <<called, seq, alloc, outcome, wpc, wjob, results, tout, reported,
                      jobReservations, todo>>
    BY <1>5, <2>1 DEF ScheduleSend, Goto, poolVars, seqVars, workerVars, history
  <2>b. Queued' = Queued \cup {j}
    <3>1. CASE j \in Interactive
      BY <1>0, <1>5, <2>1, <3>1, RangeAppend DEF ScheduleSend, QueueType, Queued
    <3>2. CASE j \notin Interactive
      BY <1>0, <1>5, <2>1, <3>2, RangeAppend DEF ScheduleSend, QueueType, Queued
    <3>3. QED BY <3>1, <3>2
  <2>4. \A k \in Jobs : k # j => JobSame(k)
    BY <1>0, <2>a, <2>b, <2>3 DEF JobSame, Entering, Admitted, At, Drained, Joined, ThreadType
  <2>5. NoThread(j)' /\ NoWorker(j)' /\ NoResult(j)' /\ (j \in Queued)'
    BY <1>0, <2>2, <2>b, <2>3 DEF NoThread, NoWorker, NoResult, Entering, Admitted, At, Drained,
       ThreadType
  <2>6. seq'[j] > 0 /\ outcome'[j] = "none" /\ j \notin reported' /\ j \in called'
    BY <1>a, <2>1, <2>a, <2>2, <2>3 DEF SeqOK, FreshOK, NoThread
  <2>7. (Joined' <=> Joined) /\ (~Joined /\ Bytes[j] > 0 => alloc'[j] = "live")
        /\ (Bytes[j] = 0 => alloc'[j] = "none") /\ alloc'[j] # "reserved"
    BY <1>a, <2>1, <2>a, <2>3, <2>6 DEF ChargeOK, Joined
  <2>8. SeqOK(j)' BY <2>5, <2>6 DEF SeqOK, NoThread, NoWorker
  <2>9. FreshOK(j)' BY <2>6 DEF FreshOK, NoThread, NoWorker
  <2>10. ChargeOK(j)' BY <2>5, <2>6, <2>7 DEF ChargeOK, NoThread, NoWorker, NoResult
  <2>11. ReturnOK(j)' BY <2>5, <2>6 DEF ReturnOK, Placed, NoThread, NoWorker, NoResult, Held
  <2>12. QED BY <1>c, <2>1, <2>4, <2>8, <2>9, <2>10, <2>11
<1>6. ASSUME NEW t \in Threads, ScheduleFull(t) PROVE JobsInv'
  <2>1. PICK j \in Jobs : j = tjob[t] BY <1>0, <1>6 DEF ScheduleFull, Holding
  <2>a. Admitted(t, j) BY <1>6, <2>1 DEF ScheduleFull, Admitted
  <2>2. alloc[j] # "reserved" BY <1>a, <2>1, <2>a DEF SeqOK, ChargeOK
  <2>3. alloc' = [alloc EXCEPT ![j] = Cancel(alloc[j])] /\ tpc' = [tpc EXCEPT ![t] = "undo"]
        /\ tpc[t] = "send" /\ UNCHANGED <<called, seq, outcome, tjob, wpc, wjob, results, tout, interactive, background, reported, jobReservations, todo>>
    BY <1>6, <2>1 DEF ScheduleFull, Goto, poolVars, seqVars, queueVars, workerVars, history
  <2>4. alloc' = alloc BY <1>0, <2>1, <2>2, <2>3 DEF Cancel, JobType
  <2>5. \A k \in Jobs : JobSame(k) BY <1>0, <2>3, <2>4 DEF JobSame, Entering, Admitted, At, Drained, Queued, Joined, ThreadType
  <2>6. QED BY <2>5, QuietJobs
<1>7. ASSUME NEW t \in Threads, ScheduleUndo(t) PROVE JobsInv'
  <2>1. PICK j \in Jobs : j = tjob[t] BY <1>0, <1>7 DEF ScheduleUndo, Holding
  <2>a. Admitted(t, j) BY <1>7, <2>1 DEF ScheduleUndo, Admitted
  <2>2. (\A u \in Threads : u # t => ~Entering(u, j) /\ ~Admitted(u, j)) /\ NoWorker(j)
        /\ NoResult(j) /\ j \notin Queued /\ j \notin reported /\ j \in called
    BY <2>1, <2>a, ThreadAlone
  <2>3. jobReservations' = [jobReservations EXCEPT ![JobID[j]] = NoJob]
        /\ tpc' = [tpc EXCEPT ![t] = "idle"] /\ tjob' = [tjob EXCEPT ![t] = NoJob]
        /\ UNCHANGED <<called, seq, alloc, outcome, wpc, wjob, results, tout, interactive,
                      background, reported, todo>>
    BY <1>7, <2>1 DEF ScheduleUndo, Goto, seqVars, queueVars, workerVars, history
  <2>4. \A k \in Jobs : k # j => JobSame(k)
    BY <1>0, <2>a, <2>1, <2>3 DEF JobSame, Entering, Admitted, At, Drained, Queued, Joined, ThreadType, PoolType
  <2>5. NoThread(j)' /\ NoWorker(j)' /\ NoResult(j)' /\ (j \notin Queued)'
    BY <1>0, <2>2, <2>3 DEF NoThread, NoWorker, NoResult, Entering, Admitted, At, Drained, Queued, ThreadType
  <2>6. seq'[j] > 0 /\ outcome'[j] = "none" /\ j \notin reported' /\ j \in called'
    BY <1>a, <2>1, <2>a, <2>2, <2>3 DEF SeqOK, FreshOK, NoThread
  <2>7. (Bytes[j] = 0 => alloc'[j] = "none") /\ alloc'[j] # "reserved"
    BY <1>a, <2>1, <2>3, <2>6 DEF ChargeOK
  <2>8. SeqOK(j)' BY <2>5, <2>6 DEF SeqOK, NoThread, NoWorker
  <2>9. FreshOK(j)' BY <2>6 DEF FreshOK, NoThread, NoWorker
  <2>10. ChargeOK(j)' BY <2>5, <2>6, <2>7 DEF ChargeOK, NoThread, NoWorker, NoResult
  <2>11. ReturnOK(j)' BY <2>5, <2>6 DEF ReturnOK, Placed, NoThread, NoWorker, NoResult, Held
  <2>12. QED BY <1>c, <2>1, <2>4, <2>8, <2>9, <2>10, <2>11
<1>8. ASSUME NEW t \in Threads, NEW i \in CancelIDs, CancelJob(t, i) PROVE JobsInv'
  BY <1>0, <1>8, QuietJobs DEF CancelJob, JobSame, Entering, Admitted, At, Drained, Queued,
     Joined, ThreadType, WorkerType, poolVars, seqVars, queueVars, threadVars, workerVars, history
<1>9. ASSUME NEW t \in Threads, CancelAll(t) PROVE JobsInv'
  BY <1>0, <1>9, QuietJobs DEF CancelAll, JobSame, Entering, Admitted, At, Drained, Queued,
     Joined, ThreadType, WorkerType, poolVars, seqVars, queueVars, threadVars, workerVars, history
<1>10. ASSUME NEW t \in Threads, NEW p \in BOOLEAN, SetPaused(t, p) PROVE JobsInv'
  BY <1>0, <1>10, QuietJobs DEF SetPaused, JobSame, Entering, Admitted, At, Drained, Queued,
     Joined, ThreadType, WorkerType, poolVars, seqVars, queueVars, threadVars, workerVars, history
<1>11. ASSUME NEW t \in Threads, DrainBegin(t) PROVE JobsInv'
  BY <1>0, <1>11, QuietJobs DEF DrainBegin, Goto, JobSame, Entering, Admitted, At, Drained,
     Queued, Joined, ThreadType, WorkerType, poolVars, seqVars, queueVars, threadVars, workerVars,
     history
<1>12. ASSUME NEW t \in Threads, DrainReceive(t) PROVE JobsInv'
  <2>a. results # <<>> /\ results \in Seq(Jobs) BY <1>0, <1>12 DEF DrainReceive, QueueType
  <2>1. PICK j \in Jobs : j = Head(results) BY <2>a, HeadTail
  <2>b. j \in Range(results) /\ j \in reported BY <2>a, <2>1, HeadTail DEF PlaceInv, FrontierInv, SentReported
  <2>2. NoThread(j) /\ NoWorker(j) /\ j \notin Queued /\ j \in called
    BY <2>1, <2>b, ReportedAlone
  <2>3. results' = Tail(results) /\ tout' = [tout EXCEPT ![t] = Append(tout[t], j)]
        /\ UNCHANGED <<called, seq, alloc, outcome, tpc, tjob, wpc, wjob, interactive, background,
                      reported, jobReservations, todo>>
    BY <1>12, <2>1 DEF DrainReceive, poolVars, workerVars, history
  <2>c. Range(results) = {j} \cup Range(results') BY <2>a, <2>1, <2>3, RangeTail
  <2>d. Range(tout'[t]) = Range(tout[t]) \cup {j} /\ \A u \in Threads : u # t => tout'[u] = tout[u]
    <3>1. tout'[t] = Append(tout[t], j) /\ \A u \in Threads : u # t => tout'[u] = tout[u]
      BY <1>0, <2>3 DEF ThreadType
    <3>2. QED BY <1>b, <2>1, <3>1, RangeAppend
  <2>e. UNCHANGED <<called, seq, alloc, outcome, tpc, tjob, wpc, wjob, interactive, background,
                    reported, jobReservations, todo>>
    BY <2>3
  <2>4. \A k \in Jobs : k # j => JobSame(k) BY <2>c, <2>d, <2>e DEF JobSame, Entering, Admitted, At, Drained, Queued, Joined
  <2>5. NoThread(j)' /\ NoWorker(j)' /\ (j \notin Queued)' /\ Drained(t, j)'
    BY <2>2, <2>d, <2>e DEF NoThread, NoWorker, Entering, Admitted, At, Drained, Queued
  <2>6. seq'[j] > 0 /\ j \in reported' /\ j \in called' /\ alloc'[j] \notin {"reserved", "live"}
    BY <1>a, <2>1, <2>b, <2>2, <2>e DEF SeqOK, ReturnOK
  <2>7. (Joined' <=> Joined) /\ (Bytes[j] = 0 => alloc'[j] = "none")
        /\ (~Joined /\ Bytes[j] > 0 /\ outcome'[j] = "ok" => alloc'[j] = "retiring")
    BY <1>a, <2>1, <2>b, <2>e DEF ChargeOK, Joined
  <2>8. SeqOK(j)' BY <2>5, <2>6 DEF SeqOK, NoThread, NoWorker
  <2>9. FreshOK(j)' BY <2>5, <2>6 DEF FreshOK, NoThread, NoWorker
  <2>10. ChargeOK(j)' BY <2>5, <2>6, <2>7 DEF ChargeOK, NoThread, NoWorker, NoResult
  <2>11. ReturnOK(j)' BY <2>5, <2>6 DEF ReturnOK, Placed, NoThread, NoWorker, NoResult, Held
  <2>12. QED BY <1>c, <2>1, <2>4, <2>8, <2>9, <2>10, <2>11
<1>13. ASSUME NEW t \in Threads, NEW ordered \in BOOLEAN, DrainSort(t, ordered) PROVE JobsInv'
  <2>1. PICK r \in (IF ordered THEN InSubmissionOrder(tout[t]) ELSE {tout[t]}) :
               tout' = [tout EXCEPT ![t] = r]
    BY <1>13 DEF DrainSort
  <2>2. Range(r) = Range(tout[t]) BY <2>1, SortedOnce DEF PlaceInv
  <2>3. \A u \in Threads, k \in Jobs : Drained(u, k)' <=> Drained(u, k)
    BY <1>0, <2>1, <2>2 DEF Drained, ThreadType
  <2>4. \A u \in Threads : \/ tpc[u] \notin {"admit", "send", "undo"} /\ u = t
                           \/ tpc'[u] = tpc[u]
    BY <1>0, <1>13 DEF DrainSort, Goto, ThreadType
  <2>5. tpc'[t] \notin {"admit", "send", "undo"} /\ UNCHANGED <<called, seq, alloc, outcome, tjob,
                  wpc, wjob, results, interactive, background, reported, jobReservations, todo>>
    BY <1>0, <1>13 DEF DrainSort, Goto, poolVars, seqVars, queueVars, workerVars, history, ThreadType
  <2>6. \A k \in Jobs : JobSame(k) BY <2>3, <2>4, <2>5 DEF JobSame, Entering, Admitted, At, Queued, Joined
  <2>7. QED BY <2>6, QuietJobs
<1>14. ASSUME NEW t \in Threads, DrainCommit(t) PROVE JobsInv'
  <2>a. tout[t] # <<>> /\ tout[t] \in Seq(Jobs) BY <1>b, <1>14 DEF DrainCommit
  <2>1. PICK j \in Jobs : j = Head(tout[t]) BY <2>a, HeadTail
  <2>b. j \in Range(tout[t]) /\ j \in reported
    BY <2>a, <2>1, HeadTail DEF PlaceInv, ResultsInv, ResultsApart
  <2>2. NoThread(j) /\ NoWorker(j) /\ j \notin Queued /\ j \in called
    BY <2>1, <2>b, ReportedAlone
  <2>3. alloc' = [alloc EXCEPT ![j] = Acknowledge(alloc[j])]
        /\ tout' = [tout EXCEPT ![t] = Tail(tout[t])]
        /\ tpc[t] = "commit" /\ tpc' = [tpc EXCEPT ![t] = IF Len(tout[t]) = 1 THEN "idle" ELSE "commit"]
        /\ UNCHANGED <<called, seq, outcome, tjob, wpc, wjob, results, interactive, background,
                      reported, jobReservations, todo>>
    BY <1>14, <2>1 DEF DrainCommit, Committing, Goto, poolVars, seqVars, queueVars, workerVars
  <2>c. tout'[t] = Tail(tout[t]) /\ \A u \in Threads : u # t => tout'[u] = tout[u]
    BY <1>0, <2>3 DEF ThreadType
  <2>d. Range(tout[t]) = {j} \cup Range(tout'[t]) /\ j \notin Range(tout'[t])
    BY <2>a, <2>1, <2>c, RangeTail, InjectiveTail DEF PlaceInv, ResultsInv, ResultsApart
  <2>e. /\ UNCHANGED <<called, seq, outcome, tjob, wpc, wjob, results, interactive, background,
                       reported, jobReservations, todo>>
        /\ alloc'[j] = Acknowledge(alloc[j]) /\ \A k \in Jobs : k # j => alloc'[k] = alloc[k]
        /\ \A u \in Threads : tpc'[u] = tpc[u] \/ {tpc[u], tpc'[u]} \cap {"admit", "send", "undo"} = {}
    BY <1>0, <2>1, <2>3 DEF JobType, ThreadType
  <2>f. \A u \in Threads : u # t => Range(tout'[u]) = Range(tout[u]) BY <2>c
  <2>4. \A k \in Jobs : k # j => JobSame(k) BY <2>d, <2>e, <2>f DEF JobSame, Entering, Admitted, At, Drained, Queued, Joined
  <2>5. NoThread(j)' /\ NoWorker(j)' /\ (j \notin Queued)' /\ NoResult(j)'
    <3>1. j \notin Range(results) /\ \A u \in Threads : u # t => j \notin Range(tout[u])
      BY <2>b DEF PlaceInv, ResultsInv, ResultsApart
    <3>2. QED BY <2>2, <2>d, <2>e, <2>f, <3>1 DEF NoThread, NoWorker, NoResult, Entering, Admitted, At, Drained, Queued
  <2>6. seq'[j] > 0 /\ j \in reported' /\ j \in called' /\ alloc'[j] \in {"none", "freed"}
        /\ (Bytes[j] = 0 => alloc'[j] = "none")
    BY <1>0, <1>a, <2>1, <2>b, <2>2, <2>e DEF SeqOK, ReturnOK, ChargeOK, Acknowledge, JobType, Held
  <2>7. SeqOK(j)' BY <2>5, <2>6 DEF SeqOK, NoThread, NoWorker
  <2>8. FreshOK(j)' BY <2>5, <2>6 DEF FreshOK, NoThread, NoWorker
  <2>9. ChargeOK(j)' BY <2>5, <2>6 DEF ChargeOK, NoThread, NoWorker, NoResult
  <2>10. ReturnOK(j)' BY <2>5, <2>6 DEF ReturnOK, Placed, NoThread, NoWorker, NoResult, Held
  <2>11. QED BY <1>c, <2>1, <2>4, <2>7, <2>8, <2>9, <2>10
<1>15. ASSUME NEW t \in Threads, ShutdownBegin(t) PROVE JobsInv'
  <2>1. tpc[t] = "idle" /\ tpc' = [tpc EXCEPT ![t] = "join"]
        /\ todo' = {jobReservations[i] : i \in IDs} \ {NoJob}
        /\ UNCHANGED <<called, seq, alloc, outcome, tjob, tout, wpc, wjob, results, interactive,
                      background, reported, jobReservations>>
    BY <1>15 DEF ShutdownBegin, Goto, seqVars, queueVars, workerVars, history
  <2>2. \A k \in Jobs : JobSame(k) BY <1>0, <2>1 DEF JobSame, Entering, Admitted, At, Drained, Queued, Joined, ThreadType
  <2>3. QED BY <2>2, QuietJobs
<1>16. ASSUME NEW t \in Threads, ShutdownReceive(t) PROVE JobsInv'
  <2>a. results # <<>> /\ results \in Seq(Jobs) BY <1>0, <1>16 DEF ShutdownReceive, QueueType
  <2>1. PICK j \in Jobs : j = Head(results) BY <2>a, HeadTail
  <2>b. j \in Range(results) /\ j \in reported BY <2>a, <2>1, HeadTail DEF PlaceInv, FrontierInv, SentReported
  <2>2. NoThread(j) /\ NoWorker(j) /\ j \notin Queued /\ j \in called
    BY <2>1, <2>b, ReportedAlone
  <2>3. results' = Tail(results) /\ alloc' = [alloc EXCEPT ![j] = Acknowledge(alloc[j])]
    BY <1>16, <2>1 DEF ShutdownReceive
  <2>c. Range(results) = {j} \cup Range(results') /\ j \notin Range(results')
    BY <2>a, <2>1, <2>3, RangeTail, InjectiveTail DEF PlaceInv, ResultsInv, ResultsApart
  <2>d. /\ UNCHANGED <<called, seq, outcome, tpc, tjob, tout, wpc, wjob, interactive, background,
                       reported, jobReservations, todo>>
        /\ alloc'[j] = Acknowledge(alloc[j]) /\ \A k \in Jobs : k # j => alloc'[k] = alloc[k]
    BY <1>0, <1>16, <2>1, <2>3 DEF ShutdownReceive, JobType, poolVars, seqVars, threadVars,
       workerVars, history
  <2>4. \A k \in Jobs : k # j => JobSame(k) BY <2>c, <2>d DEF JobSame, Entering, Admitted, At, Drained, Queued, Joined
  <2>5. NoThread(j)' /\ NoWorker(j)' /\ (j \notin Queued)' /\ NoResult(j)'
    <3>1. \A u \in Threads : j \notin Range(tout[u])
      BY <2>b DEF PlaceInv, ResultsInv, ResultsApart
    <3>2. QED BY <2>2, <2>c, <2>d, <3>1 DEF NoThread, NoWorker, NoResult, Entering, Admitted, At, Drained, Queued
  <2>6. seq'[j] > 0 /\ j \in reported' /\ j \in called' /\ alloc'[j] \in {"none", "freed"}
        /\ (Bytes[j] = 0 => alloc'[j] = "none")
    BY <1>0, <1>a, <2>1, <2>b, <2>2, <2>d DEF SeqOK, ReturnOK, ChargeOK, Acknowledge, JobType, Held
  <2>7. SeqOK(j)' BY <2>5, <2>6 DEF SeqOK, NoThread, NoWorker
  <2>8. FreshOK(j)' BY <2>5, <2>6 DEF FreshOK, NoThread, NoWorker
  <2>9. ChargeOK(j)' BY <2>5, <2>6 DEF ChargeOK, NoThread, NoWorker, NoResult
  <2>10. ReturnOK(j)' BY <2>5, <2>6 DEF ReturnOK, Placed, NoThread, NoWorker, NoResult, Held
  <2>11. QED BY <1>c, <2>1, <2>4, <2>7, <2>8, <2>9, <2>10
<1>17. ASSUME NEW t \in Threads, NEW j \in Jobs, ShutdownRelease(t, j) PROVE JobsInv'
  <2>1. j \in Jobs /\ j \in todo /\ Joined BY <1>17 DEF ShutdownRelease
  <2>2. seq[j] > 0 /\ (\A u \in Threads : ~Entering(u, j)) /\ alloc[j] # "reserved" /\ j \in called
    BY <1>0, <1>a, <2>1 DEF SeqOK, ChargeOK, SeqType
  <2>3. alloc' = [alloc EXCEPT ![j] = Acknowledge(Retire(alloc[j]))] /\ todo' = todo \ {j}
        /\ jobReservations' = [jobReservations EXCEPT ![JobID[j]] = NoJob]
        /\ UNCHANGED <<called, seq, outcome, tpc, tjob, tout, wpc, wjob, results, interactive,
                      background, reported>>
    BY <1>17, <2>1 DEF ShutdownRelease, seqVars, queueVars, workerVars, history
  <2>4. \A k \in Jobs : k # j => JobSame(k)
    BY <1>0, <2>3 DEF JobSame, Entering, Admitted, At, Drained, Queued, Joined, JobType, PoolType
  <2>5. NoWorker(j)' /\ Joined' BY <2>1, <2>3 DEF Joined, NoWorker, At
  <2>6. alloc'[j] \in {"none", "freed"} /\ (Bytes[j] = 0 => alloc'[j] = "none")
    BY <1>0, <1>a, <2>2, <2>3 DEF ChargeOK, Acknowledge, Retire, JobType, Held
  <2>7. seq'[j] > 0 /\ (\A u \in Threads : ~Entering(u, j)') /\ j \in called'
    BY <2>2, <2>3 DEF Entering
  <2>8. SeqOK(j)' BY <2>7 DEF SeqOK
  <2>9. FreshOK(j)' BY <1>a, <2>1, <2>3 DEF FreshOK, NoThread, Entering, Admitted, At, Queued
  <2>10. ChargeOK(j)' BY <2>5, <2>6, <2>7 DEF ChargeOK, NoWorker
  <2>11. ReturnOK(j)' BY <2>6 DEF ReturnOK, Held
  <2>12. QED BY <1>c, <2>1, <2>4, <2>8, <2>9, <2>10, <2>11
<1>18. ASSUME NEW t \in Threads, ShutdownReturn(t) PROVE JobsInv'
  BY <1>0, <1>18, QuietJobs DEF ShutdownReturn, Goto, JobSame, Entering, Admitted, At, Drained,
     Queued, Joined, ThreadType, WorkerType, poolVars, seqVars, queueVars, threadVars, workerVars,
     history
<1>19. ASSUME NEW w \in Workers, WorkerInteractive(w) PROVE JobsInv'
  <2>a. interactive # <<>> /\ interactive \in Seq(Jobs) /\ wpc[w] \in {"top", "blocked"}
    BY <1>0, <1>19 DEF WorkerInteractive, AtTop, QueueType
  <2>1. PICK j \in Jobs : j = Head(interactive) BY <2>a, HeadTail
  <2>b. j \in Queued BY <2>a, <2>1, HeadTail DEF Queued
  <2>2. NoThread(j) /\ NoWorker(j) /\ NoResult(j) /\ j \notin reported /\ j \in called
    BY <2>1, <2>b, QueuedAlone
  <2>3. interactive' = Tail(interactive) /\ wpc' = [wpc EXCEPT ![w] = "work"] /\ wjob' = [wjob EXCEPT ![w] = j]
    BY <1>19, <2>1 DEF WorkerInteractive, Take
  <2>c. UNCHANGED <<background, called, seq, alloc, outcome, tpc, tjob, tout, results, reported,
                    jobReservations, todo>>
    BY <1>19, <2>1 DEF WorkerInteractive, poolVars, seqVars, threadVars, history
  <2>d. Queued = {j} \cup Queued' /\ j \notin Queued'
    <3>1. Range(interactive) = {j} \cup Range(interactive') /\ j \notin Range(interactive')
      BY <2>a, <2>1, <2>3, RangeTail, InjectiveTail DEF PlaceInv, HandsInv, QueuesApart
    <3>2. j \notin Range(background) BY <3>1 DEF PlaceInv, HandsInv, QueuesApart
    <3>3. QED BY <2>c, <3>1, <3>2 DEF Queued
  <2>e. wpc'[w] = "work" /\ wjob'[w] = j
        /\ \A v \in Workers : v # w => wpc'[v] = wpc[v] /\ wjob'[v] = wjob[v]
    BY <1>0, <2>3 DEF WorkerType
  <2>f. ~Joined /\ ~Joined' BY <2>a, <2>e DEF Joined
  <2>4. \A k \in Jobs : k # j => JobSame(k)
    BY <2>a, <2>c, <2>d, <2>e, <2>f DEF JobSame, Entering, Admitted, At, Drained
  <2>5. NoThread(j)' /\ NoResult(j)' /\ At(w, "work", j)'
        /\ \A v \in Workers : ~At(v, "cleanup", j)' /\ ~At(v, "send", j)'
    BY <2>2, <2>c, <2>e DEF NoThread, NoWorker, NoResult, Entering, Admitted, At, Drained
  <2>6. seq'[j] > 0 /\ outcome'[j] = "none" /\ j \notin reported' /\ j \in called'
    BY <1>a, <2>1, <2>b, <2>2, <2>c DEF SeqOK, FreshOK
  <2>7. (Bytes[j] > 0 => alloc'[j] = "live") /\ (Bytes[j] = 0 => alloc'[j] = "none")
        /\ alloc'[j] # "reserved"
    BY <1>a, <2>1, <2>b, <2>c, <2>f, <2>6 DEF ChargeOK
  <2>8. SeqOK(j)' BY <2>5, <2>6 DEF SeqOK, NoThread, NoWorker
  <2>9. FreshOK(j)' BY <2>6 DEF FreshOK, NoThread, NoWorker
  <2>10. ChargeOK(j)' BY <2>d, <2>5, <2>6, <2>7 DEF ChargeOK, NoThread, NoWorker, NoResult
  <2>11. ReturnOK(j)' BY <2>5, <2>6 DEF ReturnOK, Placed, NoThread, NoWorker, NoResult, Held
  <2>12. QED BY <1>c, <2>1, <2>4, <2>8, <2>9, <2>10, <2>11
<1>20. ASSUME NEW w \in Workers, WorkerBlocks(w) PROVE JobsInv'
  BY <1>0, <1>20, QuietJobs DEF WorkerBlocks, AtTop, JobSame, Entering, Admitted, At, Drained,
     Queued, Joined, ThreadType, WorkerType, poolVars, seqVars, queueVars, threadVars, workerVars,
     history
<1>21. ASSUME NEW w \in Workers, WorkerBackground(w) PROVE JobsInv'
  <2>a. background # <<>> /\ background \in Seq(Jobs) /\ wpc[w] \in {"top", "blocked"}
    BY <1>0, <1>21 DEF WorkerBackground, BackgroundReady, QueueType
  <2>1. PICK j \in Jobs : j = Head(background) BY <2>a, HeadTail
  <2>b. j \in Queued BY <2>a, <2>1, HeadTail DEF Queued
  <2>2. NoThread(j) /\ NoWorker(j) /\ NoResult(j) /\ j \notin reported /\ j \in called
    BY <2>1, <2>b, QueuedAlone
  <2>3. background' = Tail(background) /\ wpc' = [wpc EXCEPT ![w] = "work"] /\ wjob' = [wjob EXCEPT ![w] = j]
    BY <1>21, <2>1 DEF WorkerBackground, Take
  <2>c. UNCHANGED <<interactive, called, seq, alloc, outcome, tpc, tjob, tout, results, reported,
                    jobReservations, todo>>
    BY <1>21, <2>1 DEF WorkerBackground, poolVars, seqVars, threadVars, history
  <2>d. Queued = {j} \cup Queued' /\ j \notin Queued'
    <3>1. Range(background) = {j} \cup Range(background') /\ j \notin Range(background')
      BY <2>a, <2>1, <2>3, RangeTail, InjectiveTail DEF PlaceInv, HandsInv, QueuesApart
    <3>2. j \notin Range(interactive) BY <3>1 DEF PlaceInv, HandsInv, QueuesApart
    <3>3. QED BY <2>c, <3>1, <3>2 DEF Queued
  <2>e. wpc'[w] = "work" /\ wjob'[w] = j
        /\ \A v \in Workers : v # w => wpc'[v] = wpc[v] /\ wjob'[v] = wjob[v]
    BY <1>0, <2>3 DEF WorkerType
  <2>f. ~Joined /\ ~Joined' BY <2>a, <2>e DEF Joined
  <2>4. \A k \in Jobs : k # j => JobSame(k)
    BY <2>a, <2>c, <2>d, <2>e, <2>f DEF JobSame, Entering, Admitted, At, Drained
  <2>5. NoThread(j)' /\ NoResult(j)' /\ At(w, "work", j)'
        /\ \A v \in Workers : ~At(v, "cleanup", j)' /\ ~At(v, "send", j)'
    BY <2>2, <2>c, <2>e DEF NoThread, NoWorker, NoResult, Entering, Admitted, At, Drained
  <2>6. seq'[j] > 0 /\ outcome'[j] = "none" /\ j \notin reported' /\ j \in called'
    BY <1>a, <2>1, <2>b, <2>2, <2>c DEF SeqOK, FreshOK
  <2>7. (Bytes[j] > 0 => alloc'[j] = "live") /\ (Bytes[j] = 0 => alloc'[j] = "none")
        /\ alloc'[j] # "reserved"
    BY <1>a, <2>1, <2>b, <2>c, <2>f, <2>6 DEF ChargeOK
  <2>8. SeqOK(j)' BY <2>5, <2>6 DEF SeqOK, NoThread, NoWorker
  <2>9. FreshOK(j)' BY <2>6 DEF FreshOK, NoThread, NoWorker
  <2>10. ChargeOK(j)' BY <2>d, <2>5, <2>6, <2>7 DEF ChargeOK, NoThread, NoWorker, NoResult
  <2>11. ReturnOK(j)' BY <2>5, <2>6 DEF ReturnOK, Placed, NoThread, NoWorker, NoResult, Held
  <2>12. QED BY <1>c, <2>1, <2>4, <2>8, <2>9, <2>10, <2>11
<1>22. ASSUME NEW w \in Workers, WorkerExit(w) PROVE JobsInv'
  BY <1>0, <1>22, QuietJobs DEF WorkerExit, SeesShutdown, JobSame, Entering, Admitted, At,
     Drained, Queued, Joined, ThreadType, WorkerType, poolVars, seqVars, queueVars, threadVars,
     workerVars, history
<1>23. ASSUME NEW w \in Workers, NEW failed \in BOOLEAN, Work(w, failed) PROVE JobsInv'
  <2>1. PICK j \in Jobs : j = wjob[w] BY <1>0, <1>23 DEF Work, Holding
  <2>a. At(w, "work", j) /\ WorkerHas(w, j) BY <1>23, <2>1 DEF Work, At, WorkerHas
  <2>2. (\A v \in Workers : v # w => \A l \in {"work", "cleanup", "send"} : ~At(v, l, j))
        /\ NoThread(j) /\ NoResult(j) /\ j \notin Queued /\ j \notin reported /\ j \in called
    BY <2>1, <2>a, WorkerAlone
  <2>3. UNCHANGED <<called, seq, tpc, tjob, tout, interactive, background, todo,
                       alloc, results, reported, jobReservations>>
    BY <1>23, <2>1 DEF Work, poolVars, seqVars, queueVars, threadVars, history
  <2>b. wpc' = [wpc EXCEPT ![w] = "cleanup"] /\ UNCHANGED wjob
    BY <1>23, <2>1 DEF Work
  <2>c. wpc'[w] = "cleanup" /\ wpc[w] = "work" /\ wjob[w] = j
        /\ \A v \in Workers : v # w => wpc'[v] = wpc[v] /\ wjob'[v] = wjob[v]
    BY <1>0, <2>a, <2>b DEF WorkerType, At
  <2>d. ~Joined /\ ~Joined' BY <2>c DEF Joined
  <2>e. outcome'[j] \in {"ok", "cancelled", "error"} /\ wjob' = wjob
        /\ \A k \in Jobs : k # j => outcome'[k] = outcome[k]
    BY <1>0, <1>23, <2>1 DEF Work, JobType
  <2>4. \A k \in Jobs : k # j => JobSame(k) BY <2>c, <2>d, <2>e, <2>3 DEF JobSame, Entering, Admitted, At, Drained, Queued
  <2>5. NoThread(j)' /\ NoResult(j)' /\ (j \notin Queued)' /\ At(w, "cleanup", j)'
        /\ \A v \in Workers : ~At(v, "work", j)' /\ ~At(v, "send", j)'
    BY <2>2, <2>c, <2>e, <2>3 DEF NoThread, NoResult, Entering, Admitted, At, Drained, Queued
  <2>6. seq'[j] > 0 /\ j \notin reported' /\ j \in called'
    BY <1>a, <2>1, <2>a, <2>2, <2>3 DEF SeqOK
  <2>7. (Bytes[j] > 0 => alloc'[j] = "live") /\ (Bytes[j] = 0 => alloc'[j] = "none")
        /\ alloc'[j] # "reserved"
    BY <1>a, <2>1, <2>a, <2>3, <2>6 DEF ChargeOK
  <2>8. SeqOK(j)' BY <2>5, <2>6 DEF SeqOK, NoThread, NoWorker
  <2>9. FreshOK(j)' BY <2>5, <2>6 DEF FreshOK, NoThread, NoWorker
  <2>10. ChargeOK(j)' BY <2>5, <2>6, <2>7 DEF ChargeOK, NoThread, NoWorker, NoResult
  <2>11. ReturnOK(j)' BY <2>5, <2>6 DEF ReturnOK, Placed, NoThread, NoWorker, NoResult, Held
  <2>12. QED BY <1>c, <2>1, <2>4, <2>8, <2>9, <2>10, <2>11
<1>24. ASSUME NEW w \in Workers, WorkPanics(w) PROVE JobsInv'
  <2>1. PICK j \in Jobs : j = wjob[w] BY <1>0, <1>24 DEF WorkPanics, Holding
  <2>a. At(w, "work", j) /\ WorkerHas(w, j) BY <1>24, <2>1 DEF WorkPanics, At, WorkerHas
  <2>2. (\A v \in Workers : v # w => \A l \in {"work", "cleanup", "send"} : ~At(v, l, j))
        /\ NoThread(j) /\ NoResult(j) /\ j \notin Queued /\ j \notin reported /\ j \in called
    BY <2>1, <2>a, WorkerAlone
  <2>3. UNCHANGED <<called, seq, tpc, tjob, tout, interactive, background, todo,
                       results, reported, jobReservations>>
    BY <1>24, <2>1 DEF WorkPanics, poolVars, seqVars, queueVars, threadVars, history
  <2>b. wpc' = [wpc EXCEPT ![w] = "cleanup"] /\ UNCHANGED wjob
    BY <1>24, <2>1 DEF WorkPanics
  <2>c. wpc'[w] = "cleanup" /\ wpc[w] = "work" /\ wjob[w] = j
        /\ \A v \in Workers : v # w => wpc'[v] = wpc[v] /\ wjob'[v] = wjob[v]
    BY <1>0, <2>a, <2>b DEF WorkerType, At
  <2>d. ~Joined /\ ~Joined' BY <2>c DEF Joined
  <2>e. outcome'[j] \in {"cancelled", "error"} /\ wjob' = wjob
        /\ alloc'[j] = Acknowledge(Retire(alloc[j]))
        /\ \A k \in Jobs : k # j => outcome'[k] = outcome[k] /\ alloc'[k] = alloc[k]
    BY <1>0, <1>24, <2>1 DEF WorkPanics, JobType
  <2>4. \A k \in Jobs : k # j => JobSame(k) BY <2>c, <2>d, <2>e, <2>3 DEF JobSame, Entering, Admitted, At, Drained, Queued
  <2>5. NoThread(j)' /\ NoResult(j)' /\ (j \notin Queued)' /\ At(w, "cleanup", j)'
        /\ \A v \in Workers : ~At(v, "work", j)' /\ ~At(v, "send", j)'
    BY <2>2, <2>c, <2>e, <2>3 DEF NoThread, NoResult, Entering, Admitted, At, Drained, Queued
  <2>6. seq'[j] > 0 /\ j \notin reported' /\ j \in called'
    BY <1>a, <2>1, <2>a, <2>2, <2>3 DEF SeqOK
  <2>7. (Bytes[j] = 0 => alloc'[j] = "none") /\ alloc'[j] # "reserved" /\ outcome'[j] # "ok"
    BY <1>a, <2>1, <2>a, <2>e, <2>3, <2>6 DEF ChargeOK, Acknowledge, Retire
  <2>8. SeqOK(j)' BY <2>5, <2>6 DEF SeqOK, NoThread, NoWorker
  <2>9. FreshOK(j)' BY <2>5, <2>6 DEF FreshOK, NoThread, NoWorker
  <2>10. ChargeOK(j)' BY <2>5, <2>6, <2>7 DEF ChargeOK, NoThread, NoWorker, NoResult
  <2>11. ReturnOK(j)' BY <2>5, <2>6 DEF ReturnOK, Placed, NoThread, NoWorker, NoResult, Held
  <2>12. QED BY <1>c, <2>1, <2>4, <2>8, <2>9, <2>10, <2>11
<1>25. ASSUME NEW w \in Workers, WorkerCleanup(w) PROVE JobsInv'
  <2>1. PICK j \in Jobs : j = wjob[w] BY <1>0, <1>25 DEF WorkerCleanup, Holding
  <2>a. At(w, "cleanup", j) /\ WorkerHas(w, j) BY <1>25, <2>1 DEF WorkerCleanup, At, WorkerHas
  <2>2. (\A v \in Workers : v # w => \A l \in {"work", "cleanup", "send"} : ~At(v, l, j))
        /\ NoThread(j) /\ NoResult(j) /\ j \notin Queued /\ j \notin reported /\ j \in called
    BY <2>1, <2>a, WorkerAlone
  <2>3. UNCHANGED <<called, seq, tpc, tjob, tout, interactive, background, todo,
                       outcome, results, reported>>
    BY <1>25, <2>1 DEF WorkerCleanup, poolVars, seqVars, queueVars, threadVars, history
  <2>b. wpc' = [wpc EXCEPT ![w] = "send"] /\ UNCHANGED wjob
    BY <1>25, <2>1 DEF WorkerCleanup
  <2>c. wpc'[w] = "send" /\ wpc[w] = "cleanup" /\ wjob[w] = j
        /\ \A v \in Workers : v # w => wpc'[v] = wpc[v] /\ wjob'[v] = wjob[v]
    BY <1>0, <2>a, <2>b DEF WorkerType, At
  <2>d. ~Joined /\ ~Joined' BY <2>c DEF Joined
  <2>e. alloc'[j] = Retire(alloc[j]) /\ wjob' = wjob
        /\ (\A k \in Jobs : k # j => alloc'[k] = alloc[k])
    BY <1>0, <1>25, <2>1 DEF WorkerCleanup, JobType
  <2>f. \A k \in Jobs, i \in IDs : jobReservations'[i] = k => jobReservations[i] = k
    BY <1>0, <1>25, <2>1 DEF WorkerCleanup, PoolType
  <2>4. \A k \in Jobs : k # j => JobSame(k) BY <2>c, <2>d, <2>e, <2>f, <2>3 DEF JobSame, Entering, Admitted, At, Drained, Queued
  <2>5. NoThread(j)' /\ NoResult(j)' /\ (j \notin Queued)' /\ At(w, "send", j)'
        /\ \A v \in Workers : ~At(v, "work", j)' /\ ~At(v, "cleanup", j)'
    BY <2>2, <2>c, <2>e, <2>3 DEF NoThread, NoResult, Entering, Admitted, At, Drained, Queued
  <2>6. seq'[j] > 0 /\ j \notin reported' /\ j \in called'
    BY <1>a, <2>1, <2>a, <2>2, <2>3 DEF SeqOK
  <2>7. alloc'[j] \notin {"reserved", "live"} /\ (Bytes[j] = 0 => alloc'[j] = "none")
        /\ (Bytes[j] > 0 /\ outcome'[j] = "ok" => alloc'[j] = "retiring")
    BY <1>a, <2>1, <2>a, <2>e, <2>3, <2>6 DEF ChargeOK, Retire
  <2>8. SeqOK(j)' BY <2>5, <2>6 DEF SeqOK, NoThread, NoWorker
  <2>9. FreshOK(j)' BY <2>5, <2>6 DEF FreshOK, NoThread, NoWorker
  <2>10. ChargeOK(j)' BY <2>5, <2>6, <2>7 DEF ChargeOK, NoThread, NoWorker, NoResult
  <2>11. ReturnOK(j)' BY <2>5, <2>6, <2>7 DEF ReturnOK, Placed, NoThread, NoWorker, NoResult, Held
  <2>12. QED BY <1>c, <2>1, <2>4, <2>8, <2>9, <2>10, <2>11
<1>26. ASSUME NEW w \in Workers, WorkerSend(w) PROVE JobsInv'
  <2>1. PICK j \in Jobs : j = wjob[w] BY <1>0, <1>26 DEF WorkerSend, Holding
  <2>a. At(w, "send", j) /\ WorkerHas(w, j) BY <1>26, <2>1 DEF WorkerSend, At, WorkerHas
  <2>2. (\A v \in Workers : v # w => \A l \in {"work", "cleanup", "send"} : ~At(v, l, j))
        /\ NoThread(j) /\ NoResult(j) /\ j \notin Queued /\ j \notin reported /\ j \in called
    BY <2>1, <2>a, WorkerAlone
  <2>3. UNCHANGED <<called, seq, tpc, tjob, tout, interactive, background, todo,
                       alloc, outcome, jobReservations>>
    BY <1>26, <2>1 DEF WorkerSend, poolVars, seqVars, queueVars, threadVars, history
  <2>b. wpc' = [wpc EXCEPT ![w] = "publish"] /\ UNCHANGED wjob
    BY <1>26, <2>1 DEF WorkerSend
  <2>c. wpc'[w] = "publish" /\ wpc[w] = "send" /\ wjob[w] = j
        /\ \A v \in Workers : v # w => wpc'[v] = wpc[v] /\ wjob'[v] = wjob[v]
    BY <1>0, <2>a, <2>b DEF WorkerType, At
  <2>d. ~Joined /\ ~Joined' BY <2>c DEF Joined
  <2>e. reported' = reported \cup {j} /\ wjob' = wjob /\ Range(results') = Range(results) \cup {j}
    BY <1>0, <1>26, <2>1, RangeAppend DEF WorkerSend, QueueType
  <2>4. \A k \in Jobs : k # j => JobSame(k) BY <2>c, <2>d, <2>e, <2>3 DEF JobSame, Entering, Admitted, At, Drained, Queued
  <2>5. NoThread(j)' /\ NoWorker(j)' /\ (j \notin Queued)' /\ (j \in Range(results))'
    BY <2>2, <2>c, <2>e, <2>3 DEF NoThread, NoWorker, Entering, Admitted, At, Queued
  <2>6. seq'[j] > 0 /\ j \in reported' /\ j \in called' /\ alloc'[j] \notin {"reserved", "live"}
    BY <1>a, <2>1, <2>a, <2>2, <2>e, <2>3 DEF SeqOK, ReturnOK
  <2>7. (Bytes[j] = 0 => alloc'[j] = "none")
        /\ (Bytes[j] > 0 /\ outcome'[j] = "ok" => alloc'[j] = "retiring")
    BY <1>a, <2>1, <2>a, <2>3 DEF ChargeOK
  <2>8. SeqOK(j)' BY <2>5, <2>6 DEF SeqOK, NoThread, NoWorker
  <2>9. FreshOK(j)' BY <2>5, <2>6 DEF FreshOK, NoThread, NoWorker
  <2>10. ChargeOK(j)' BY <2>5, <2>6, <2>7 DEF ChargeOK, NoThread, NoWorker, NoResult
  <2>11. ReturnOK(j)' BY <2>5, <2>6 DEF ReturnOK, Placed, NoThread, NoWorker, NoResult, Held
  <2>12. QED BY <1>c, <2>1, <2>4, <2>8, <2>9, <2>10, <2>11
<1>27. ASSUME NEW w \in Workers, WorkerDrop(w) PROVE JobsInv'
  <2>1. PICK j \in Jobs : j = wjob[w] BY <1>0, <1>27 DEF WorkerDrop, Holding
  <2>a. At(w, "send", j) /\ WorkerHas(w, j) BY <1>27, <2>1 DEF WorkerDrop, At, WorkerHas
  <2>2. (\A v \in Workers : v # w => \A l \in {"work", "cleanup", "send"} : ~At(v, l, j))
        /\ NoThread(j) /\ NoResult(j) /\ j \notin Queued /\ j \notin reported /\ j \in called
    BY <2>1, <2>a, WorkerAlone
  <2>3. UNCHANGED <<called, seq, tpc, tjob, tout, interactive, background, todo,
                       outcome, results, reported, jobReservations>>
    BY <1>27, <2>1 DEF WorkerDrop, poolVars, seqVars, queueVars, threadVars, history
  <2>b. wpc' = [wpc EXCEPT ![w] = "top"] /\ wjob' = [wjob EXCEPT ![w] = NoJob]
    BY <1>27, <2>1 DEF WorkerDrop
  <2>c. wpc'[w] = "top" /\ wpc[w] = "send" /\ wjob[w] = j
        /\ \A v \in Workers : v # w => wpc'[v] = wpc[v] /\ wjob'[v] = wjob[v]
    BY <1>0, <2>a, <2>b DEF WorkerType, At
  <2>d. ~Joined /\ ~Joined' BY <2>c DEF Joined
  <2>e. alloc'[j] = Acknowledge(alloc[j]) /\ \A k \in Jobs : k # j => alloc'[k] = alloc[k]
    BY <1>0, <1>27, <2>1 DEF WorkerDrop, JobType
  <2>4. \A k \in Jobs : k # j => JobSame(k) BY <2>c, <2>d, <2>e, <2>3 DEF JobSame, Entering, Admitted, At, Drained, Queued
  <2>5. NoThread(j)' /\ NoWorker(j)' /\ NoResult(j)' /\ (j \notin Queued)'
    BY <2>2, <2>c, <2>3 DEF NoThread, NoWorker, NoResult, Entering, Admitted, At, Drained, Queued
  <2>6. seq'[j] > 0 /\ j \notin reported' /\ j \in called'
    BY <1>a, <2>1, <2>a, <2>2, <2>3 DEF SeqOK
  <2>7. alloc'[j] \in {"none", "freed"} /\ (Bytes[j] = 0 => alloc'[j] = "none")
    BY <1>0, <1>a, <2>1, <2>a, <2>e DEF ChargeOK, ReturnOK, Acknowledge, JobType, Held
  <2>8. SeqOK(j)' BY <2>5, <2>6 DEF SeqOK, NoThread, NoWorker
  <2>9. FreshOK(j)' BY <2>5, <2>6 DEF FreshOK, NoThread, NoWorker
  <2>10. ChargeOK(j)' BY <2>5, <2>6, <2>7 DEF ChargeOK, NoThread, NoWorker, NoResult
  <2>11. ReturnOK(j)' BY <2>5, <2>6, <2>7 DEF ReturnOK, Placed, NoThread, NoWorker, NoResult, Held
  <2>12. QED BY <1>c, <2>1, <2>4, <2>8, <2>9, <2>10, <2>11
<1>28. ASSUME NEW w \in Workers, WorkerPublish(w) PROVE JobsInv'
  BY <1>0, <1>28, QuietJobs DEF WorkerPublish, JobSame, Entering, Admitted, At, Drained, Queued,
     Joined, ThreadType, WorkerType, poolVars, seqVars, queueVars, threadVars, workerVars, history
<1>29. ASSUME NEW j \in Jobs, Invalidate(j) PROVE JobsInv'
  BY <1>0, <1>29, QuietJobs DEF Invalidate, JobSame, Entering, Admitted, At, Drained, Queued,
     Joined, ThreadType, WorkerType, poolVars, seqVars, queueVars, threadVars, workerVars, history
<1>30. CASE UNCHANGED vars
  BY <1>0, <1>30, QuietJobs DEF vars, JobSame, Entering, Admitted, At, Drained, Queued, Joined,
     ThreadType, WorkerType, poolVars, seqVars, queueVars, threadVars, workerVars, history
<1>31. ASSUME NEW t \in Threads, ReceiveWake(t) PROVE JobsInv'
  BY <1>0, <1>31, QuietJobs DEF ReceiveWake, JobSame, Entering, Admitted, At, Drained,
     Queued, Joined, ThreadType, WorkerType, poolVars, seqVars, queueVars, threadVars, workerVars,
     history
<1>32. QED
  BY <1>1, <1>2, <1>3, <1>4, <1>5, <1>6, <1>7, <1>8, <1>9, <1>10, <1>11, <1>12, <1>13, <1>14,
     <1>15, <1>16, <1>17, <1>18, <1>19, <1>20, <1>21, <1>22, <1>23, <1>24, <1>25, <1>26, <1>27,
     <1>28, <1>29, <1>30, <1>31 DEF Next, ThreadNext, PoolCall, WorkerNext

LEMMA NoneLeft ==
  ASSUME NEW S, NEW s \in Seq(S), Len(s) = 0
  PROVE  s = <<>>
OBVIOUS

(* A thread holds drained results only inside drain.                       *)
CollectInv == \A t \in Threads : tout[t] # <<>> => tpc[t] \in {"collect", "commit"}

CollectQuiet ==
  \A t \in Threads : /\ tout'[t] = tout[t]
                     /\ tpc[t] \in {"collect", "commit"} => tpc'[t] = tpc[t]

LEMMA CollectQuietStep == CollectInv /\ CollectQuiet => CollectInv'
  BY DEF CollectInv, CollectQuiet

LEMMA CollectStep == TypeInv /\ CollectInv /\ [Next]_vars => CollectInv'
<1> SUFFICES ASSUME TypeInv, CollectInv, [Next]_vars PROVE CollectInv'
  OBVIOUS
<1>0. ThreadType BY DEF TypeInv, TypeOK
<1>1. ASSUME NEW t \in Threads, NEW j \in Jobs, ScheduleReserve(t, j) PROVE CollectInv'
  BY <1>0, <1>1, CollectQuietStep DEF ScheduleReserve, Goto, CollectQuiet, ThreadType, threadVars
<1>2. ASSUME NEW t \in Threads, NEW j \in Jobs, ScheduleNoMemory(t, j) PROVE CollectInv'
  BY <1>0, <1>2, CollectQuietStep DEF ScheduleNoMemory, CollectQuiet, ThreadType, threadVars
<1>3. ASSUME NEW t \in Threads, ScheduleRefused(t) PROVE CollectInv'
  BY <1>0, <1>3, CollectQuietStep DEF ScheduleRefused, Goto, CollectQuiet, ThreadType, threadVars
<1>4. ASSUME NEW t \in Threads, ScheduleAdmit(t) PROVE CollectInv'
  BY <1>0, <1>4, CollectQuietStep DEF ScheduleAdmit, Goto, CollectQuiet, ThreadType, threadVars
<1>5. ASSUME NEW t \in Threads, ScheduleSend(t) PROVE CollectInv'
  BY <1>0, <1>5, CollectQuietStep DEF ScheduleSend, Goto, CollectQuiet, ThreadType, threadVars
<1>6. ASSUME NEW t \in Threads, ScheduleFull(t) PROVE CollectInv'
  BY <1>0, <1>6, CollectQuietStep DEF ScheduleFull, Goto, CollectQuiet, ThreadType, threadVars
<1>7. ASSUME NEW t \in Threads, ScheduleUndo(t) PROVE CollectInv'
  BY <1>0, <1>7, CollectQuietStep DEF ScheduleUndo, Goto, CollectQuiet, ThreadType, threadVars
<1>8. ASSUME NEW t \in Threads, NEW i \in CancelIDs, CancelJob(t, i) PROVE CollectInv'
  BY <1>0, <1>8, CollectQuietStep DEF CancelJob, CollectQuiet, ThreadType, threadVars
<1>9. ASSUME NEW t \in Threads, CancelAll(t) PROVE CollectInv'
  BY <1>0, <1>9, CollectQuietStep DEF CancelAll, CollectQuiet, ThreadType, threadVars
<1>10. ASSUME NEW t \in Threads, NEW p \in BOOLEAN, SetPaused(t, p) PROVE CollectInv'
  BY <1>0, <1>10, CollectQuietStep DEF SetPaused, CollectQuiet, ThreadType, threadVars
<1>11. ASSUME NEW t \in Threads, DrainBegin(t) PROVE CollectInv'
  BY <1>0, <1>11, CollectQuietStep DEF DrainBegin, Goto, CollectQuiet, ThreadType, threadVars
<1>12. ASSUME NEW t \in Threads, DrainReceive(t) PROVE CollectInv'
  <2>1. tpc[t] = "collect" /\ tpc' = tpc /\ \A u \in Threads : u # t => tout'[u] = tout[u]
    BY <1>0, <1>12 DEF DrainReceive, ThreadType
  <2>2. QED BY <2>1 DEF CollectInv
<1>13. ASSUME NEW t \in Threads, NEW ordered \in BOOLEAN, DrainSort(t, ordered) PROVE CollectInv'
  <2>1. PICK r \in (IF ordered THEN InSubmissionOrder(tout[t]) ELSE {tout[t]}) :
               tout' = [tout EXCEPT ![t] = r]
    BY <1>13 DEF DrainSort
  <2>2. tout'[t] = r /\ \A u \in Threads : u # t => tout'[u] = tout[u] /\ tpc'[u] = tpc[u]
    BY <1>0, <1>13, <2>1 DEF DrainSort, Goto, ThreadType
  <2>3. tpc'[t] = IF tout[t] = <<>> THEN "idle" ELSE "commit"
    BY <1>0, <1>13 DEF DrainSort, Goto, ThreadType
  <2>4. ASSUME tout[t] = <<>> PROVE r = <<>>
    <3>1. CASE ordered
      <4>1. r \in [DOMAIN tout[t] -> Range(tout[t])] /\ tout[t] \in Seq(Jobs)
        BY <1>0, <2>1, <3>1 DEF InSubmissionOrder, ThreadType
      <4>2. r \in Seq(Jobs) /\ DOMAIN r = DOMAIN tout[t] BY <4>1, Reordering
      <4>3. QED BY <2>4, <4>2
    <3>2. CASE ~ordered BY <2>1, <2>4, <3>2
    <3>3. QED BY <3>1, <3>2
  <2>5. QED BY <2>2, <2>3, <2>4 DEF CollectInv
<1>14. ASSUME NEW t \in Threads, DrainCommit(t) PROVE CollectInv'
  <2>1. tout[t] # <<>> /\ tout[t] \in Seq(Jobs) /\ tout'[t] = Tail(tout[t])
        /\ \A u \in Threads : u # t => tout'[u] = tout[u] /\ tpc'[u] = tpc[u]
    BY <1>0, <1>14 DEF DrainCommit, Goto, ThreadType
  <2>2. tpc'[t] = IF Len(tout[t]) = 1 THEN "idle" ELSE "commit"
    BY <1>0, <1>14 DEF DrainCommit, Goto, ThreadType
  <2>3. ASSUME Len(tout[t]) = 1 PROVE Tail(tout[t]) = <<>>
    <3>1. Tail(tout[t]) \in Seq(Jobs) /\ Len(Tail(tout[t])) = 0 BY <2>1, <2>3
    <3>2. QED BY <3>1, NoneLeft
  <2>4. QED BY <2>1, <2>2, <2>3 DEF CollectInv
<1>15. ASSUME NEW t \in Threads, ShutdownBegin(t) PROVE CollectInv'
  BY <1>0, <1>15, CollectQuietStep DEF ShutdownBegin, Goto, CollectQuiet, ThreadType, threadVars
<1>16. ASSUME NEW t \in Threads, ShutdownReceive(t) PROVE CollectInv'
  BY <1>0, <1>16, CollectQuietStep DEF ShutdownReceive, CollectQuiet, ThreadType, threadVars
<1>17. ASSUME NEW t \in Threads, NEW j \in Jobs, ShutdownRelease(t, j) PROVE CollectInv'
  BY <1>0, <1>17, CollectQuietStep DEF ShutdownRelease, CollectQuiet, ThreadType, threadVars
<1>18. ASSUME NEW t \in Threads, ShutdownReturn(t) PROVE CollectInv'
  BY <1>0, <1>18, CollectQuietStep DEF ShutdownReturn, Goto, CollectQuiet, ThreadType, threadVars
<1>19. ASSUME NEW w \in Workers, WorkerInteractive(w) PROVE CollectInv'
  BY <1>0, <1>19, CollectQuietStep DEF WorkerInteractive, CollectQuiet, ThreadType, threadVars
<1>20. ASSUME NEW w \in Workers, WorkerBlocks(w) PROVE CollectInv'
  BY <1>0, <1>20, CollectQuietStep DEF WorkerBlocks, CollectQuiet, ThreadType, threadVars
<1>21. ASSUME NEW w \in Workers, WorkerBackground(w) PROVE CollectInv'
  BY <1>0, <1>21, CollectQuietStep DEF WorkerBackground, CollectQuiet, ThreadType, threadVars
<1>22. ASSUME NEW w \in Workers, WorkerExit(w) PROVE CollectInv'
  BY <1>0, <1>22, CollectQuietStep DEF WorkerExit, CollectQuiet, ThreadType, threadVars
<1>23. ASSUME NEW w \in Workers, NEW failed \in BOOLEAN, Work(w, failed) PROVE CollectInv'
  BY <1>0, <1>23, CollectQuietStep DEF Work, CollectQuiet, ThreadType, threadVars
<1>24. ASSUME NEW w \in Workers, WorkPanics(w) PROVE CollectInv'
  BY <1>0, <1>24, CollectQuietStep DEF WorkPanics, CollectQuiet, ThreadType, threadVars
<1>25. ASSUME NEW w \in Workers, WorkerCleanup(w) PROVE CollectInv'
  BY <1>0, <1>25, CollectQuietStep DEF WorkerCleanup, CollectQuiet, ThreadType, threadVars
<1>26. ASSUME NEW w \in Workers, WorkerSend(w) PROVE CollectInv'
  BY <1>0, <1>26, CollectQuietStep DEF WorkerSend, CollectQuiet, ThreadType, threadVars
<1>27. ASSUME NEW w \in Workers, WorkerDrop(w) PROVE CollectInv'
  BY <1>0, <1>27, CollectQuietStep DEF WorkerDrop, CollectQuiet, ThreadType, threadVars
<1>28. ASSUME NEW w \in Workers, WorkerPublish(w) PROVE CollectInv'
  BY <1>0, <1>28, CollectQuietStep DEF WorkerPublish, CollectQuiet, ThreadType, threadVars
<1>29. ASSUME NEW j \in Jobs, Invalidate(j) PROVE CollectInv'
  BY <1>0, <1>29, CollectQuietStep DEF Invalidate, CollectQuiet, ThreadType, threadVars
<1>30. CASE UNCHANGED vars
  BY <1>0, <1>30, CollectQuietStep DEF vars, CollectQuiet, ThreadType, threadVars
<1>31. ASSUME NEW t \in Threads, ReceiveWake(t) PROVE CollectInv'
  BY <1>0, <1>31, CollectQuietStep DEF ReceiveWake, CollectQuiet, ThreadType, threadVars
<1>32. QED
  BY <1>1, <1>2, <1>3, <1>4, <1>5, <1>6, <1>7, <1>8, <1>9, <1>10, <1>11, <1>12, <1>13, <1>14,
     <1>15, <1>16, <1>17, <1>18, <1>19, <1>20, <1>21, <1>22, <1>23, <1>24, <1>25, <1>26, <1>27,
     <1>28, <1>29, <1>30, <1>31 DEF Next, ThreadNext, PoolCall, WorkerNext

ChargeInv == PlaceInv /\ JobsInv /\ CollectInv

LEMMA ChargeInit == Init => ChargeInv
<1>1. Init => CollectInv BY DEF Init, CollectInv
<1>2. QED BY <1>1, TypeInit, FrontierInit, HandsInit, ResultsInit, JobsInit DEF ChargeInv, PlaceInv

LEMMA ChargeStep == ChargeInv /\ [Next]_vars => ChargeInv'
  BY TypeStep, FrontierStep, HandsStep, ResultsStep, JobsStep, CollectStep DEF ChargeInv, PlaceInv

(* A job at work holds a live reservation and a result that can commit a
   retiring one (job.go:485-488, 718-728, 957-961), also when the job was
   replaced or cancelled meanwhile. *)
THEOREM ChargesCoverWork == Spec => []ChargeCoversWork
<1>1. ASSUME ChargeInv PROVE ChargeCoversWork
  <2>0. WorkerType /\ ThreadType /\ QueueType /\ Holding
    BY <1>1 DEF ChargeInv, PlaceInv, TypeInv, TypeOK
  <2>1. ASSUME NEW j \in JobsAt({"work"}), Bytes[j] > 0 PROVE alloc[j] = "live"
    <3>1. PICK w \in Workers : wpc[w] = "work" /\ wjob[w] = j BY DEF JobsAt, WorkersAt
    <3>2. j \in Jobs /\ At(w, "work", j) BY <2>0, <3>1 DEF Holding, At
    <3>3. QED BY <1>1, <2>1, <3>2 DEF ChargeInv, JobsInv, JobOK, ChargeOK
  <2>2. ASSUME NEW j \in Range(results) \cup UNION {Range(tout[t]) : t \in Threads},
               Bytes[j] > 0, outcome[j] = "ok", ~Joined
        PROVE  alloc[j] = "retiring"
    <3>1. CASE j \in Range(results)
      <4>1. j \in Jobs BY <2>0, <3>1 DEF QueueType, Range
      <4>2. QED BY <1>1, <2>2, <3>1, <4>1 DEF ChargeInv, JobsInv, JobOK, ChargeOK
    <3>2. ASSUME NEW t \in Threads, j \in Range(tout[t]) PROVE alloc[j] = "retiring"
      <4>1. tout[t] \in Seq(Jobs) BY <2>0 DEF ThreadType
      <4>2. j \in Jobs /\ Drained(t, j) BY <3>2, <4>1 DEF Drained, Range
      <4>3. QED BY <1>1, <2>2, <4>2 DEF ChargeInv, JobsInv, JobOK, ChargeOK
    <3>3. QED BY <3>1, <3>2
  <2>3. QED BY <2>1, <2>2 DEF ChargeCoversWork
<1>2. QED BY <1>1, ChargeInit, ChargeStep, PTL DEF Spec

(* When the pool is at rest every charge was given back, except that of a
   job a full queue refused after its reservation was published, whose
   sequence number stays pending (job.go:609-623, 718-745, 924-940,
   1001-1012). *)
THEOREM ChargesAreReturned == Spec => []ChargesReturned
<1>1. ASSUME ChargeInv PROVE ChargesReturned
  <2> SUFFICES ASSUME AtRest, NEW j \in Jobs, alloc[j] \in Held
               PROVE  seq[j] \in waitingSeq /\ outcome[j] = "none"
    BY DEF ChargesReturned
  <2>1. NoThread(j) BY DEF AtRest, NoThread, Entering, Admitted
  <2>2. NoWorker(j) BY DEF AtRest, NoWorker, At
  <2>3. NoResult(j)
    <3>1. \A t \in Threads : tout[t] = <<>> BY <1>1 DEF AtRest, ChargeInv, CollectInv
    <3>2. Range(<<>>) = {} BY DEF Range
    <3>3. QED BY <3>1, <3>2 DEF AtRest, NoResult, Drained
  <2>4. j \notin Queued BY DEF AtRest
  <2>5. seq[j] > 0 /\ outcome[j] = "none" /\ j \notin reported
    BY <1>1, <2>1, <2>2, <2>3, <2>4 DEF ChargeInv, JobsInv, JobOK, ReturnOK, Placed
  <2>6. QED BY <1>1, <2>5 DEF ChargeInv, PlaceInv, FrontierInv, WaitingCovers
<1>2. QED BY <1>1, ChargeInit, ChargeStep, PTL DEF Spec

-----------------------------------------------------------------------------
(* Replacement.                                                            *)

(* In the framework the runtime thread makes all calls.                    *)
OneCaller == \A t, u \in Threads : t = u

Going(j) == j \in Queued \/ \E w \in Workers : At(w, "work", j)

(* A job that is going and was not told to stop owns the entry of its ID,  *)
(* and so does the job that a caller is about to queue or to give up.      *)
LiveInv ==
  /\ \A j \in Jobs : Going(j) => j \in cancelled \/ active[JobID[j]] = j
  /\ \A t \in Threads, j \in Jobs : Admitted(t, j) => active[JobID[j]] = j

LiveQuiet ==
  /\ UNCHANGED active /\ cancelled \subseteq cancelled'
  /\ \A j \in Jobs : Going(j)' => Going(j)
  /\ \A t \in Threads, j \in Jobs : Admitted(t, j)' => Admitted(t, j)

LEMMA LiveQuietStep == LiveInv /\ LiveQuiet => LiveInv'
  BY DEF LiveInv, LiveQuiet

LEMMA LiveStep ==
  ASSUME OneCaller
  PROVE  PlaceInv /\ LiveInv /\ [Next]_vars => LiveInv'
<1> SUFFICES ASSUME PlaceInv, LiveInv, [Next]_vars PROVE LiveInv'
  OBVIOUS
<1>0. PoolType /\ QueueType /\ ThreadType /\ WorkerType /\ Holding
  BY DEF PlaceInv, TypeInv, TypeOK
<1>a. \A j \in Jobs : JobID[j] \in IDs /\ j # NoJob OBVIOUS
<1>1. ASSUME NEW t \in Threads, NEW j \in Jobs, ScheduleReserve(t, j) PROVE LiveInv'
  BY <1>0, <1>1, LiveQuietStep DEF ScheduleReserve, Goto, LiveQuiet, Going, Queued, At, Admitted,
     ThreadType, WorkerType, poolVars, queueVars, threadVars, workerVars
<1>2. ASSUME NEW t \in Threads, NEW j \in Jobs, ScheduleNoMemory(t, j) PROVE LiveInv'
  BY <1>0, <1>2, LiveQuietStep DEF ScheduleNoMemory, LiveQuiet, Going, Queued, At, Admitted,
     ThreadType, WorkerType, poolVars, queueVars, threadVars, workerVars
<1>3. ASSUME NEW t \in Threads, ScheduleRefused(t) PROVE LiveInv'
  BY <1>0, <1>3, LiveQuietStep DEF ScheduleRefused, Goto, LiveQuiet, Going, Queued, At, Admitted,
     ThreadType, WorkerType, poolVars, queueVars, threadVars, workerVars
<1>4. ASSUME NEW t \in Threads, ScheduleAdmit(t) PROVE LiveInv'
  <2>1. PICK j \in Jobs : j = tjob[t] BY <1>0, <1>4 DEF ScheduleAdmit, Holding
  <2>2. active' = [active EXCEPT ![JobID[j]] = j] /\ cancelled \subseteq cancelled'
        /\ (active[JobID[j]] # NoJob => active[JobID[j]] \in cancelled')
        /\ UNCHANGED <<tjob, wpc, wjob, interactive, background>>
    BY <1>4, <2>1 DEF ScheduleAdmit, workerVars, queueVars
  <2>3. \A k \in Jobs : Going(k)' => Going(k) BY <2>2 DEF Going, Queued, At
  <2>4. ASSUME NEW k \in Jobs, Going(k)' PROVE k \in cancelled' \/ active'[JobID[k]] = k
    <3>1. k \in cancelled \/ active[JobID[k]] = k BY <2>3, <2>4 DEF LiveInv
    <3>2. CASE JobID[k] = JobID[j] BY <1>a, <2>2, <3>1, <3>2
    <3>3. CASE JobID[k] # JobID[j] BY <1>0, <1>a, <2>1, <2>2, <3>1, <3>3 DEF PoolType
    <3>4. QED BY <3>2, <3>3
  <2>5. ASSUME NEW u \in Threads, NEW k \in Jobs, Admitted(u, k)' PROVE active'[JobID[k]] = k
    <3>1. u = t BY DEF OneCaller
    <3>2. k = j BY <2>1, <2>2, <2>5, <3>1 DEF Admitted
    <3>3. QED BY <1>0, <1>a, <2>1, <2>2, <3>2 DEF PoolType
  <2>6. QED BY <2>4, <2>5 DEF LiveInv
<1>5. ASSUME NEW t \in Threads, ScheduleSend(t) PROVE LiveInv'
  <2>1. PICK j \in Jobs : j = tjob[t] BY <1>0, <1>5 DEF ScheduleSend, Holding
  <2>2. active[JobID[j]] = j BY <1>5, <2>1 DEF ScheduleSend, LiveInv, Admitted
  <2>3. tpc' = [tpc EXCEPT ![t] = "idle"] /\ tjob' = [tjob EXCEPT ![t] = NoJob]
        /\ UNCHANGED <<active, cancelled, wpc, wjob>>
    BY <1>5 DEF ScheduleSend, Goto, poolVars, workerVars
  <2>4. Queued' = Queued \cup {j}
    <3>1. CASE j \in Interactive
      BY <1>0, <1>5, <2>1, <3>1, RangeAppend DEF ScheduleSend, QueueType, Queued
    <3>2. CASE j \notin Interactive
      BY <1>0, <1>5, <2>1, <3>2, RangeAppend DEF ScheduleSend, QueueType, Queued
    <3>3. QED BY <3>1, <3>2
  <2>5. \A k \in Jobs : Going(k)' => Going(k) \/ k = j BY <2>3, <2>4 DEF Going, At
  <2>6. \A u \in Threads, k \in Jobs : Admitted(u, k)' => Admitted(u, k)
    BY <1>0, <2>3 DEF Admitted, ThreadType
  <2>7. UNCHANGED <<active, cancelled>> BY <2>3
  <2>8. QED BY <2>2, <2>5, <2>6, <2>7 DEF LiveInv
<1>6. ASSUME NEW t \in Threads, ScheduleFull(t) PROVE LiveInv'
  BY <1>0, <1>6, LiveQuietStep DEF ScheduleFull, Goto, LiveQuiet, Going, Queued, At, Admitted,
     ThreadType, WorkerType, poolVars, queueVars, threadVars, workerVars
<1>7. ASSUME NEW t \in Threads, ScheduleUndo(t) PROVE LiveInv'
  <2>1. PICK j \in Jobs : j = tjob[t] BY <1>0, <1>7 DEF ScheduleUndo, Holding
  <2>2. Admitted(t, j) BY <1>7, <2>1 DEF ScheduleUndo, Admitted
  <2>3. active[JobID[j]] = j BY <2>2 DEF LiveInv
  <2>4. ~Going(j) BY <2>2, ThreadAlone DEF Going, NoWorker
  <2>5. active' = [active EXCEPT ![JobID[j]] = NoJob] /\ tpc' = [tpc EXCEPT ![t] = "idle"]
        /\ tjob' = [tjob EXCEPT ![t] = NoJob]
        /\ UNCHANGED <<cancelled, wpc, wjob, interactive, background>>
    BY <1>7, <2>1 DEF ScheduleUndo, Goto, queueVars, workerVars
  <2>6. \A k \in Jobs : Going(k)' => Going(k) /\ k # j BY <2>4, <2>5 DEF Going, Queued, At
  <2>7. \A k \in Jobs : k # j /\ active[JobID[k]] = k => active'[JobID[k]] = k
    BY <1>0, <1>a, <2>3, <2>5 DEF PoolType
  <2>8. \A u \in Threads, k \in Jobs : ~Admitted(u, k)'
    BY <1>0, <2>5 DEF OneCaller, Admitted, ThreadType
  <2>9. cancelled' = cancelled BY <2>5
  <2>10. QED BY <2>6, <2>7, <2>8, <2>9 DEF LiveInv
<1>8. ASSUME NEW t \in Threads, NEW i \in CancelIDs, CancelJob(t, i) PROVE LiveInv'
  BY <1>0, <1>8, LiveQuietStep DEF CancelJob, LiveQuiet, Going, Queued, At, Admitted, ThreadType,
     WorkerType, poolVars, queueVars, threadVars, workerVars
<1>9. ASSUME NEW t \in Threads, CancelAll(t) PROVE LiveInv'
  BY <1>0, <1>9, LiveQuietStep DEF CancelAll, LiveQuiet, Going, Queued, At, Admitted, ThreadType,
     WorkerType, poolVars, queueVars, threadVars, workerVars
<1>10. ASSUME NEW t \in Threads, NEW p \in BOOLEAN, SetPaused(t, p) PROVE LiveInv'
  BY <1>0, <1>10, LiveQuietStep DEF SetPaused, LiveQuiet, Going, Queued, At, Admitted, ThreadType,
     WorkerType, poolVars, queueVars, threadVars, workerVars
<1>11. ASSUME NEW t \in Threads, DrainBegin(t) PROVE LiveInv'
  BY <1>0, <1>11, LiveQuietStep DEF DrainBegin, Goto, LiveQuiet, Going, Queued, At, Admitted,
     ThreadType, WorkerType, poolVars, queueVars, threadVars, workerVars
<1>12. ASSUME NEW t \in Threads, DrainReceive(t) PROVE LiveInv'
  BY <1>0, <1>12, LiveQuietStep DEF DrainReceive, LiveQuiet, Going, Queued, At, Admitted,
     ThreadType, WorkerType, poolVars, queueVars, threadVars, workerVars
<1>13. ASSUME NEW t \in Threads, NEW ordered \in BOOLEAN, DrainSort(t, ordered) PROVE LiveInv'
  BY <1>0, <1>13, LiveQuietStep DEF DrainSort, Goto, LiveQuiet, Going, Queued, At, Admitted,
     ThreadType, WorkerType, poolVars, queueVars, threadVars, workerVars
<1>14. ASSUME NEW t \in Threads, DrainCommit(t) PROVE LiveInv'
  BY <1>0, <1>14, LiveQuietStep DEF DrainCommit, Goto, LiveQuiet, Going, Queued, At, Admitted,
     ThreadType, WorkerType, poolVars, queueVars, threadVars, workerVars
<1>15. ASSUME NEW t \in Threads, ShutdownBegin(t) PROVE LiveInv'
  BY <1>0, <1>15, LiveQuietStep DEF ShutdownBegin, Goto, LiveQuiet, Going, Queued, At, Admitted,
     ThreadType, WorkerType, poolVars, queueVars, threadVars, workerVars
<1>16. ASSUME NEW t \in Threads, ShutdownReceive(t) PROVE LiveInv'
  BY <1>0, <1>16, LiveQuietStep DEF ShutdownReceive, LiveQuiet, Going, Queued, At, Admitted,
     ThreadType, WorkerType, poolVars, queueVars, threadVars, workerVars
<1>17. ASSUME NEW t \in Threads, NEW j \in Jobs, ShutdownRelease(t, j) PROVE LiveInv'
  BY <1>0, <1>17, LiveQuietStep DEF ShutdownRelease, LiveQuiet, Going, Queued, At, Admitted,
     ThreadType, WorkerType, poolVars, queueVars, threadVars, workerVars
<1>18. ASSUME NEW t \in Threads, ShutdownReturn(t) PROVE LiveInv'
  BY <1>0, <1>18, LiveQuietStep DEF ShutdownReturn, Goto, LiveQuiet, Going, Queued, At, Admitted,
     ThreadType, WorkerType, poolVars, queueVars, threadVars, workerVars
<1>19. ASSUME NEW w \in Workers, WorkerInteractive(w) PROVE LiveInv'
  <2>1. interactive # <<>> /\ interactive \in Seq(Jobs) BY <1>0, <1>19 DEF WorkerInteractive, QueueType
  <2>2. interactive' = Tail(interactive) /\ UNCHANGED <<background, active, cancelled, tpc, tjob>>
    BY <1>19 DEF WorkerInteractive, poolVars, threadVars
  <2>3. wpc' = [wpc EXCEPT ![w] = "work"] /\ wjob' = [wjob EXCEPT ![w] = Head(interactive)]
    BY <1>19 DEF WorkerInteractive, Take
  <2>4. Queued' \subseteq Queued /\ Head(interactive) \in Queued BY <2>1, <2>2, HeadTail DEF Queued
  <2>5. \A k \in Jobs : Going(k)' => Going(k)
    BY <1>0, <2>3, <2>4 DEF Going, At, WorkerType
  <2>6. QED BY <2>2, <2>5, LiveQuietStep DEF LiveQuiet, Admitted
<1>20. ASSUME NEW w \in Workers, WorkerBlocks(w) PROVE LiveInv'
  BY <1>0, <1>20, LiveQuietStep DEF WorkerBlocks, AtTop, LiveQuiet, Going, Queued, At, Admitted,
     ThreadType, WorkerType, poolVars, queueVars, threadVars, workerVars
<1>21. ASSUME NEW w \in Workers, WorkerBackground(w) PROVE LiveInv'
  <2>1. background # <<>> /\ background \in Seq(Jobs) BY <1>0, <1>21 DEF WorkerBackground, BackgroundReady, QueueType
  <2>2. background' = Tail(background) /\ UNCHANGED <<interactive, active, cancelled, tpc, tjob>>
    BY <1>21 DEF WorkerBackground, poolVars, threadVars
  <2>3. wpc' = [wpc EXCEPT ![w] = "work"] /\ wjob' = [wjob EXCEPT ![w] = Head(background)]
    BY <1>21 DEF WorkerBackground, Take
  <2>4. Queued' \subseteq Queued /\ Head(background) \in Queued BY <2>1, <2>2, HeadTail DEF Queued
  <2>5. \A k \in Jobs : Going(k)' => Going(k)
    BY <1>0, <2>3, <2>4 DEF Going, At, WorkerType
  <2>6. QED BY <2>2, <2>5, LiveQuietStep DEF LiveQuiet, Admitted
<1>22. ASSUME NEW w \in Workers, WorkerExit(w) PROVE LiveInv'
  BY <1>0, <1>22, LiveQuietStep DEF WorkerExit, SeesShutdown, LiveQuiet, Going, Queued, At,
     Admitted, ThreadType, WorkerType, poolVars, queueVars, threadVars, workerVars
<1>23. ASSUME NEW w \in Workers, NEW failed \in BOOLEAN, Work(w, failed) PROVE LiveInv'
  BY <1>0, <1>23, LiveQuietStep DEF Work, LiveQuiet, Going, Queued, At, Admitted, ThreadType,
     WorkerType, poolVars, queueVars, threadVars, workerVars
<1>24. ASSUME NEW w \in Workers, WorkPanics(w) PROVE LiveInv'
  BY <1>0, <1>24, LiveQuietStep DEF WorkPanics, LiveQuiet, Going, Queued, At, Admitted,
     ThreadType, WorkerType, poolVars, queueVars, threadVars, workerVars
<1>25. ASSUME NEW w \in Workers, WorkerCleanup(w) PROVE LiveInv'
  <2>1. PICK j \in Jobs : j = wjob[w] BY <1>0, <1>25 DEF WorkerCleanup, Holding
  <2>2. WorkerHas(w, j) BY <1>25, <2>1 DEF WorkerCleanup, WorkerHas
  <2>3. (\A v \in Workers : v # w => ~At(v, "work", j)) /\ NoThread(j) /\ j \notin Queued
    BY <2>2, WorkerAlone
  <2>4. wpc' = [wpc EXCEPT ![w] = "send"] /\ UNCHANGED <<wjob, cancelled, interactive, background, tpc, tjob>>
    BY <1>25 DEF WorkerCleanup, queueVars, threadVars
  <2>5. \A k \in Jobs : Going(k)' => Going(k) /\ k # j
    BY <1>0, <2>1, <2>3, <2>4 DEF Going, Queued, At, WorkerType
  <2>6. \A u \in Threads, k \in Jobs : Admitted(u, k)' => Admitted(u, k) /\ k # j
    BY <2>3, <2>4 DEF Admitted, NoThread
  <2>7. ASSUME NEW k \in Jobs, k # j, active[JobID[k]] = k PROVE active'[JobID[k]] = k
    <3>1. active' = active \/ (active[JobID[j]] = j /\ active' = [active EXCEPT ![JobID[j]] = NoJob])
      BY <1>25, <2>1 DEF WorkerCleanup, OwnsEntry
    <3>2. QED BY <1>0, <1>a, <2>7, <3>1 DEF PoolType
  <2>8. cancelled' = cancelled BY <2>4
  <2>9. QED BY <2>5, <2>6, <2>7, <2>8 DEF LiveInv
<1>26. ASSUME NEW w \in Workers, WorkerSend(w) PROVE LiveInv'
  BY <1>0, <1>26, LiveQuietStep DEF WorkerSend, LiveQuiet, Going, Queued, At, Admitted,
     ThreadType, WorkerType, poolVars, queueVars, threadVars, workerVars
<1>27. ASSUME NEW w \in Workers, WorkerDrop(w) PROVE LiveInv'
  BY <1>0, <1>27, LiveQuietStep DEF WorkerDrop, LiveQuiet, Going, Queued, At, Admitted,
     ThreadType, WorkerType, poolVars, queueVars, threadVars, workerVars
<1>28. ASSUME NEW w \in Workers, WorkerPublish(w) PROVE LiveInv'
  BY <1>0, <1>28, LiveQuietStep DEF WorkerPublish, LiveQuiet, Going, Queued, At, Admitted,
     ThreadType, WorkerType, poolVars, queueVars, threadVars, workerVars
<1>29. ASSUME NEW j \in Jobs, Invalidate(j) PROVE LiveInv'
  BY <1>0, <1>29, LiveQuietStep DEF Invalidate, LiveQuiet, Going, Queued, At, Admitted,
     ThreadType, WorkerType, poolVars, queueVars, threadVars, workerVars
<1>30. CASE UNCHANGED vars
  BY <1>0, <1>30, LiveQuietStep DEF vars, LiveQuiet, Going, Queued, At, Admitted, ThreadType,
     WorkerType, poolVars, queueVars, threadVars, workerVars
<1>31. ASSUME NEW t \in Threads, ReceiveWake(t) PROVE LiveInv'
  BY <1>0, <1>31, LiveQuietStep DEF ReceiveWake, LiveQuiet, Going, Queued, At, Admitted,
     ThreadType, WorkerType, poolVars, queueVars, threadVars, workerVars
<1>32. QED
  BY <1>1, <1>2, <1>3, <1>4, <1>5, <1>6, <1>7, <1>8, <1>9, <1>10, <1>11, <1>12, <1>13, <1>14,
     <1>15, <1>16, <1>17, <1>18, <1>19, <1>20, <1>21, <1>22, <1>23, <1>24, <1>25, <1>26, <1>27,
     <1>28, <1>29, <1>30, <1>31 DEF Next, ThreadNext, PoolCall, WorkerNext

(* At most one job of an ID is queued or running with a token that is not
   cancelled when one thread makes all calls (job.go:541-554): a replaced
   job, also one whose replacement was refused, has been told to stop. *)
THEOREM OneLive ==
  ASSUME OneCaller
  PROVE  Spec => []OneLivePerID
<1>1. Init => LiveInv
  BY DEF Init, LiveInv, Going, Admitted, At, Queued, Range
<1>2. PlaceInv /\ LiveInv => OneLivePerID
  <2> SUFFICES ASSUME PlaceInv, LiveInv,
                      NEW j \in Queued \cup JobsAt({"work"}), NEW k \in Queued \cup JobsAt({"work"}),
                      JobID[j] = JobID[k], {j, k} \cap cancelled = {}
               PROVE  j = k
    BY DEF OneLivePerID
  <2>1. QueueType /\ Holding BY DEF PlaceInv, TypeInv, TypeOK
  <2>2. \A x \in Queued : x \in Jobs /\ Going(x) BY <2>1 DEF QueueType, Queued, Range, Going
  <2>3. \A x \in JobsAt({"work"}) : x \in Jobs /\ Going(x)
    BY <2>1 DEF JobsAt, WorkersAt, Holding, Going, At
  <2>4. j \in Jobs /\ k \in Jobs /\ Going(j) /\ Going(k) BY <2>2, <2>3
  <2>5. QED BY <2>4 DEF LiveInv
<1>3. LiveInv /\ PlaceInv /\ [Next]_vars => LiveInv' BY LiveStep
<1>4. Spec => []PlaceInv
  BY TypeInit, TypeStep, FrontierInit, FrontierStep, HandsInit, HandsStep, ResultsInit,
     ResultsStep, PTL DEF Spec, PlaceInv
<1>5. QED BY <1>1, <1>2, <1>3, <1>4, PTL DEF Spec

-----------------------------------------------------------------------------
(* The bookkeeping of sends and receives.                                  *)

LEMMA OfIDFinite ==
  ASSUME NEW s \in Seq(Jobs), NEW i
  PROVE  IsFiniteSet(OfID(s, i)) /\ Cardinality(OfID(s, i)) \in Nat
<1>1. OfID(s, i) \in SUBSET (1..Len(s)) /\ Len(s) \in Nat BY DEF OfID
<1>2. IsFiniteSet(1..Len(s)) BY <1>1, FS_Interval
<1>3. IsFiniteSet(OfID(s, i)) BY <1>1, <1>2, FS_Subset
<1>4. QED BY <1>3, FS_CardinalityType

LEMMA UnbookedFinite ==
  ASSUME NEW i
  PROVE  IsFiniteSet(Unbooked(i)) /\ Cardinality(Unbooked(i)) \in Nat
<1>1. Unbooked(i) \in SUBSET Workers BY DEF Unbooked, WorkersAt
<1>2. IsFiniteSet(Unbooked(i)) BY <1>1, FS_Subset
<1>3. QED BY <1>2, FS_CardinalityType

LEMMA OfIDAppend ==
  ASSUME NEW s \in Seq(Jobs), NEW j \in Jobs, NEW i
  PROVE  Cardinality(OfID(Append(s, j), i)) =
           IF JobID[j] = i THEN Cardinality(OfID(s, i)) + 1 ELSE Cardinality(OfID(s, i))
<1>1. Len(s) \in Nat /\ DOMAIN s = 1..Len(s) /\ DOMAIN Append(s, j) = 1..(Len(s) + 1) OBVIOUS
<1>2. Append(s, j)[Len(s) + 1] = j /\ \A n \in DOMAIN s : Append(s, j)[n] = s[n] BY <1>1
<1>3. CASE JobID[j] = i
  <2>1. OfID(Append(s, j), i) = OfID(s, i) \cup {Len(s) + 1} BY <1>1, <1>2, <1>3 DEF OfID
  <2>2. Len(s) + 1 \notin OfID(s, i) BY <1>1 DEF OfID
  <2>3. QED BY <1>3, <2>1, <2>2, OfIDFinite, CountAdd
<1>4. CASE JobID[j] # i
  <2>1. OfID(Append(s, j), i) = OfID(s, i) BY <1>1, <1>2, <1>4 DEF OfID
  <2>2. QED BY <1>4, <2>1
<1>5. QED BY <1>3, <1>4

LEMMA OfIDTail ==
  ASSUME NEW s \in Seq(Jobs), s # <<>>, NEW i
  PROVE  Cardinality(OfID(Tail(s), i)) =
           IF JobID[Head(s)] = i THEN Cardinality(OfID(s, i)) - 1 ELSE Cardinality(OfID(s, i))
<1> DEFINE T == OfID(Tail(s), i)
           R == OfID(s, i) \ {1}
           f == [n \in T |-> n + 1]
<1>1. Len(s) \in Nat /\ Len(s) > 0 /\ DOMAIN s = 1..Len(s) OBVIOUS
<1>2. Tail(s) \in Seq(Jobs) /\ DOMAIN Tail(s) = 1..(Len(s) - 1) /\ Head(s) = s[1] BY <1>1
<1>3. \A n \in DOMAIN Tail(s) : Tail(s)[n] = s[n + 1] BY <1>1
<1>4. \A n \in T : n \in Int /\ n + 1 \in R BY <1>1, <1>2, <1>3 DEF OfID
<1>5. \A m \in R : m - 1 \in T /\ m \in Int BY <1>1, <1>2, <1>3 DEF OfID
<1>6. ExistsBijection(T, R)
  <2>1. f \in [T -> R] BY <1>4
  <2>2. \A m, n \in T : f[m] = f[n] => m = n BY <1>4
  <2>3. \A m \in R : \E n \in T : f[n] = m
    <3> SUFFICES ASSUME NEW m \in R PROVE \E n \in T : f[n] = m
      OBVIOUS
    <3>1. m - 1 \in T /\ f[m - 1] = m BY <1>5
    <3>2. QED BY <3>1
  <2> HIDE DEF f, T, R
  <2>4. f \in Bijection(T, R)
    BY <2>1, <2>2, <2>3 DEF Bijection, Injection, Surjection, IsInjective
  <2>5. QED BY <2>4 DEF ExistsBijection
<1>7. IsFiniteSet(T) BY <1>2, OfIDFinite
<1>8. Cardinality(R) = Cardinality(T) BY <1>6, <1>7, FS_Bijection
<1>9. (1 \in OfID(s, i)) <=> JobID[Head(s)] = i BY <1>1, <1>2 DEF OfID
<1>10. Cardinality(R) = IF 1 \in OfID(s, i) THEN Cardinality(OfID(s, i)) - 1
                        ELSE Cardinality(OfID(s, i))
  BY OfIDFinite, FS_RemoveElement
<1>11. QED BY <1>8, <1>9, <1>10

(* The jobs whose worker has sent the result and not booked it yet.        *)
Publishing == JobsAt({"publish"})

(* Until the workers have left: the counters of an ID are never both       *)
(* positive, and their difference is what the channel holds minus what is  *)
(* not booked; pendingSequence is true for exactly the booked results in   *)
(* the channel, and drainedSequence holds the unbooked ones that left it.  *)
CountsPaired ==
  \A i \in IDs :
     /\ ready[i] = 0 \/ drainedEarly[i] = 0
     /\ ready[i] - drainedEarly[i] = Cardinality(OfID(results, i)) - Cardinality(Unbooked(i))

SequencesPaired ==
  /\ drainedSeq = {seq[j] : j \in Publishing \ Range(results)}
  /\ readySeq = {seq[j] : j \in Range(results) \ Publishing}
  /\ waitingSeq \cap readySeq = {}

BookInv == Joined \/ (CountsPaired /\ SequencesPaired)

BookQuiet ==
  /\ UNCHANGED <<seq, waitingSeq, readySeq, drainedSeq, ready, drainedEarly, results>>
  /\ \A w \in Workers : (wpc'[w] = "publish" <=> wpc[w] = "publish")
                        /\ (wpc[w] = "publish" => wjob'[w] = wjob[w])
  /\ Joined => Joined'

LEMMA BookQuietStep == BookInv /\ BookQuiet => BookInv'
<1> SUFFICES ASSUME BookInv, BookQuiet PROVE BookInv'
  OBVIOUS
<1>1. Publishing' = Publishing BY DEF BookQuiet, Publishing, JobsAt, WorkersAt
<1>2. ASSUME NEW i \in IDs PROVE Unbooked(i)' = Unbooked(i)
  BY DEF BookQuiet, Unbooked, WorkersAt
<1>3. ASSUME NEW i \in IDs PROVE OfID(results, i)' = OfID(results, i)
  BY DEF BookQuiet, OfID
<1>4. CountsPaired => CountsPaired' BY <1>2, <1>3 DEF BookQuiet, CountsPaired
<1>5. SequencesPaired => SequencesPaired' BY <1>1 DEF BookQuiet, SequencesPaired
<1>6. QED BY <1>4, <1>5 DEF BookInv, BookQuiet

(* The sequence number of a reported job names it among the reported ones. *)
LEMMA SeqNames ==
  ASSUME PlaceInv, JobsInv, NEW A \in SUBSET reported, NEW j \in reported
  PROVE  /\ seq[j] \in {seq[k] : k \in A} <=> j \in A
         /\ seq[j] > 0 /\ seq[j] <= nextSequence /\ j \in Jobs
<1>1. reported \subseteq Jobs BY DEF PlaceInv, TypeInv, TypeOK, JobType
<1>2. \A k \in reported : seq[k] > 0 BY <1>1 DEF JobsInv, JobOK, SeqOK
<1>3. \A k \in reported : seq[k] = seq[j] => k = j
  BY <1>1, <1>2 DEF PlaceInv, FrontierInv, SeqUnique
<1>4. QED BY <1>1, <1>2, <1>3 DEF PlaceInv, FrontierInv, SeqUnique

LEMMA BookStep == PlaceInv /\ JobsInv /\ BookInv /\ [Next]_vars => BookInv'
<1> SUFFICES ASSUME PlaceInv, JobsInv, BookInv, [Next]_vars PROVE BookInv'
  OBVIOUS
<1>0. SeqType /\ QueueType /\ ThreadType /\ WorkerType /\ Holding
  BY DEF PlaceInv, TypeInv, TypeOK
<1>a. Range(results) \subseteq reported /\ Publishing \subseteq reported
  BY DEF PlaceInv, FrontierInv, SentReported, Publishing, JobsAt, WorkersAt
<1>b. \A j \in Jobs : JobID[j] \in IDs OBVIOUS
<1>c. \A i \in IDs : ready[i] \in Nat /\ drainedEarly[i] \in Nat BY <1>0 DEF SeqType
<1>1. ASSUME NEW t \in Threads, NEW j \in Jobs, ScheduleReserve(t, j) PROVE BookInv'
  BY <1>0, <1>1, BookQuietStep DEF ScheduleReserve, BookQuiet, Joined, WorkerType, seqVars,
     queueVars, workerVars
<1>2. ASSUME NEW t \in Threads, NEW j \in Jobs, ScheduleNoMemory(t, j) PROVE BookInv'
  BY <1>0, <1>2, BookQuietStep DEF ScheduleNoMemory, BookQuiet, Joined, WorkerType, seqVars,
     queueVars, workerVars
<1>3. ASSUME NEW t \in Threads, ScheduleRefused(t) PROVE BookInv'
  BY <1>0, <1>3, BookQuietStep DEF ScheduleRefused, BookQuiet, Joined, WorkerType, seqVars,
     queueVars, workerVars
<1>4. ASSUME NEW t \in Threads, ScheduleAdmit(t) PROVE BookInv'
  <2>1. PICK j \in Jobs : j = tjob[t] BY <1>0, <1>4 DEF ScheduleAdmit, Holding
  <2>2. j \notin reported
    BY <1>4, <2>1 DEF ScheduleAdmit, PlaceInv, HandsInv, ReportedApart, ThreadHas
  <2>3. seq' = [seq EXCEPT ![j] = nextSequence + 1] /\ waitingSeq' = waitingSeq \cup {nextSequence + 1}
        /\ UNCHANGED <<readySeq, drainedSeq, ready, drainedEarly, results, wpc, wjob>>
    BY <1>4, <2>1 DEF ScheduleAdmit, queueVars, workerVars
  <2>4. Publishing' = Publishing /\ \A i \in IDs : Unbooked(i)' = Unbooked(i) /\ OfID(results, i)' = OfID(results, i)
    BY <2>3 DEF Publishing, JobsAt, WorkersAt, Unbooked, OfID
  <2>5. CountsPaired => CountsPaired' BY <2>3, <2>4 DEF CountsPaired
  <2>6. SequencesPaired => SequencesPaired'
    <3> SUFFICES ASSUME SequencesPaired PROVE SequencesPaired'
      OBVIOUS
    <3>1. \A k \in reported : k \in Jobs /\ seq'[k] = seq[k] /\ seq[k] <= nextSequence
      BY <1>0, <2>2, <2>3, SeqNames DEF SeqType
    <3>2. nextSequence + 1 \notin readySeq
      BY <1>0, <1>a, <3>1 DEF SequencesPaired, SeqType
    <3>3. \A A \in SUBSET reported : {seq'[k] : k \in A} = {seq[k] : k \in A} BY <3>1
    <3>4. drainedSeq' = {seq'[k] : k \in Publishing \ Range(results)}
          /\ readySeq' = {seq'[k] : k \in Range(results) \ Publishing}
      BY <1>a, <2>3, <3>3 DEF SequencesPaired
    <3>5. waitingSeq' \cap readySeq' = {} BY <2>3, <3>2 DEF SequencesPaired
    <3>6. QED BY <2>3, <2>4, <3>4, <3>5 DEF SequencesPaired
  <2>7. Joined => Joined' BY <2>3 DEF Joined
  <2>8. QED BY <2>5, <2>6, <2>7 DEF BookInv
<1>5. ASSUME NEW t \in Threads, ScheduleSend(t) PROVE BookInv'
  BY <1>0, <1>5, BookQuietStep DEF ScheduleSend, BookQuiet, Joined, WorkerType, seqVars,
     queueVars, workerVars
<1>6. ASSUME NEW t \in Threads, ScheduleFull(t) PROVE BookInv'
  BY <1>0, <1>6, BookQuietStep DEF ScheduleFull, BookQuiet, Joined, WorkerType, seqVars,
     queueVars, workerVars
<1>7. ASSUME NEW t \in Threads, ScheduleUndo(t) PROVE BookInv'
  BY <1>0, <1>7, BookQuietStep DEF ScheduleUndo, BookQuiet, Joined, WorkerType, seqVars,
     queueVars, workerVars
<1>8. ASSUME NEW t \in Threads, NEW i \in CancelIDs, CancelJob(t, i) PROVE BookInv'
  BY <1>0, <1>8, BookQuietStep DEF CancelJob, BookQuiet, Joined, WorkerType, seqVars, queueVars,
     workerVars
<1>9. ASSUME NEW t \in Threads, CancelAll(t) PROVE BookInv'
  BY <1>0, <1>9, BookQuietStep DEF CancelAll, BookQuiet, Joined, WorkerType, seqVars, queueVars,
     workerVars
<1>10. ASSUME NEW t \in Threads, NEW p \in BOOLEAN, SetPaused(t, p) PROVE BookInv'
  BY <1>0, <1>10, BookQuietStep DEF SetPaused, BookQuiet, Joined, WorkerType, seqVars, queueVars,
     workerVars
<1>11. ASSUME NEW t \in Threads, DrainBegin(t) PROVE BookInv'
  BY <1>0, <1>11, BookQuietStep DEF DrainBegin, BookQuiet, Joined, WorkerType, seqVars, queueVars,
     workerVars
<1>12. ASSUME NEW t \in Threads, DrainReceive(t) PROVE BookInv'
  <2>a. results # <<>> /\ results \in Seq(Jobs) BY <1>0, <1>12 DEF DrainReceive, QueueType
  <2>1. PICK j \in Jobs : j = Head(results) BY <2>a, HeadTail
  <2>2. results' = Tail(results) /\ waitingSeq' = waitingSeq \ {seq[j]}
        /\ readySeq' = readySeq \ {seq[j]}
        /\ drainedSeq' = (IF seq[j] \notin readySeq THEN drainedSeq \cup {seq[j]} ELSE drainedSeq)
        /\ UNCHANGED <<seq, wpc, wjob>>
    BY <1>12, <2>1 DEF DrainReceive, ReceivedEarly, workerVars
  <2>3. j \in Range(results) /\ Range(results') = Range(results) \ {j} /\ j \in reported
    BY <1>a, <2>a, <2>1, <2>2, HeadTail, RangeTail, InjectiveTail DEF PlaceInv, ResultsInv, ResultsApart
  <2>4. Publishing' = Publishing /\ \A i \in IDs : Unbooked(i)' = Unbooked(i)
    BY <2>2 DEF Publishing, JobsAt, WorkersAt, Unbooked
  <2>5. CountsPaired => CountsPaired'
    <3> SUFFICES ASSUME CountsPaired, NEW i \in IDs
                 PROVE  /\ ready'[i] = 0 \/ drainedEarly'[i] = 0
                        /\ ready'[i] - drainedEarly'[i] =
                             Cardinality(OfID(results, i)') - Cardinality(Unbooked(i)')
      BY DEF CountsPaired
    <3>1. OfID(results, i)' = OfID(Tail(results), i) BY <2>2 DEF OfID
    <3>2. Cardinality(OfID(results, i)') =
            IF JobID[j] = i THEN Cardinality(OfID(results, i)) - 1 ELSE Cardinality(OfID(results, i))
      BY <2>a, <2>1, <3>1, OfIDTail
    <3>3. Cardinality(OfID(results, i)) \in Nat /\ Cardinality(Unbooked(i)) \in Nat
          /\ Unbooked(i)' = Unbooked(i)
      BY <2>a, <2>4, OfIDFinite, UnbookedFinite
    <3>4. /\ ready[i] = 0 \/ drainedEarly[i] = 0
          /\ ready[i] - drainedEarly[i] = Cardinality(OfID(results, i)) - Cardinality(Unbooked(i))
          /\ ready[i] \in Nat /\ drainedEarly[i] \in Nat
      BY <1>c DEF CountsPaired
    <3>5. CASE JobID[j] # i
      <4>1. ready'[i] = ready[i] /\ drainedEarly'[i] = drainedEarly[i]
        BY <1>0, <1>12, <2>1, <3>5 DEF DrainReceive, SeqType
      <4>2. QED BY <3>2, <3>3, <3>4, <3>5, <4>1
    <3>6. CASE JobID[j] = i /\ ready[i] > 0
      <4>1. ready'[i] = ready[i] - 1 /\ drainedEarly'[i] = drainedEarly[i]
        BY <1>0, <1>12, <2>1, <3>6 DEF DrainReceive, SeqType
      <4>2. QED BY <3>2, <3>3, <3>4, <3>6, <4>1
    <3>7. CASE JobID[j] = i /\ ~(ready[i] > 0)
      <4>1. ready'[i] = ready[i] /\ drainedEarly'[i] = drainedEarly[i] + 1
        BY <1>0, <1>12, <2>1, <3>7 DEF DrainReceive, SeqType
      <4>2. QED BY <3>2, <3>3, <3>4, <3>7, <4>1
    <3>8. QED BY <3>5, <3>6, <3>7
  <2>6. SequencesPaired => SequencesPaired'
    <3> SUFFICES ASSUME SequencesPaired PROVE SequencesPaired'
      OBVIOUS
    <3>1. \A k \in reported : seq[k] = seq[j] => k = j
      <4>1. \A k \in reported : seq[j] \in {seq[x] : x \in {k}} <=> j \in {k} BY <2>3, SeqNames
      <4>2. QED BY <4>1
    <3>2. seq[j] \notin readySeq <=> j \in Publishing
      BY <1>a, <2>3, <3>1 DEF SequencesPaired
    <3>3. readySeq' = {seq[k] : k \in Range(results') \ Publishing}
      BY <1>a, <2>2, <2>3, <3>1 DEF SequencesPaired
    <3>4. drainedSeq' = {seq[k] : k \in Publishing \ Range(results')}
      <4>1. CASE j \in Publishing
        <5>1. drainedSeq' = drainedSeq \cup {seq[j]} BY <2>2, <3>2, <4>1
        <5>2. Publishing \ Range(results') = (Publishing \ Range(results)) \cup {j} BY <2>3, <4>1
        <5>3. QED BY <5>1, <5>2 DEF SequencesPaired
      <4>2. CASE j \notin Publishing
        <5>1. drainedSeq' = drainedSeq BY <2>2, <3>2, <4>2
        <5>2. Publishing \ Range(results') = Publishing \ Range(results) BY <2>3, <4>2
        <5>3. QED BY <5>1, <5>2 DEF SequencesPaired
      <4>3. QED BY <4>1, <4>2
    <3>5. waitingSeq' \cap readySeq' = {} BY <2>2 DEF SequencesPaired
    <3>6. seq' = seq BY <2>2
    <3>7. QED BY <2>4, <3>3, <3>4, <3>5, <3>6 DEF SequencesPaired
  <2>7. Joined => Joined' BY <2>2 DEF Joined
  <2>8. QED BY <2>5, <2>6, <2>7 DEF BookInv
<1>13. ASSUME NEW t \in Threads, NEW ordered \in BOOLEAN, DrainSort(t, ordered) PROVE BookInv'
  BY <1>0, <1>13, BookQuietStep DEF DrainSort, BookQuiet, Joined, WorkerType, seqVars, queueVars,
     workerVars
<1>14. ASSUME NEW t \in Threads, DrainCommit(t) PROVE BookInv'
  BY <1>0, <1>14, BookQuietStep DEF DrainCommit, BookQuiet, Joined, WorkerType, seqVars,
     queueVars, workerVars
<1>15. ASSUME NEW t \in Threads, ShutdownBegin(t) PROVE BookInv'
  BY <1>0, <1>15, BookQuietStep DEF ShutdownBegin, BookQuiet, Joined, WorkerType, seqVars,
     queueVars, workerVars
<1>16. ASSUME NEW t \in Threads, ShutdownReceive(t) PROVE BookInv'
  <2>1. Joined' BY <1>16 DEF ShutdownReceive, Joined, workerVars
  <2>2. QED BY <2>1 DEF BookInv
<1>17. ASSUME NEW t \in Threads, NEW j \in Jobs, ShutdownRelease(t, j) PROVE BookInv'
  BY <1>0, <1>17, BookQuietStep DEF ShutdownRelease, BookQuiet, Joined, WorkerType, seqVars,
     queueVars, workerVars
<1>18. ASSUME NEW t \in Threads, ShutdownReturn(t) PROVE BookInv'
  BY <1>0, <1>18, BookQuietStep DEF ShutdownReturn, BookQuiet, Joined, WorkerType, seqVars,
     queueVars, workerVars
<1>19. ASSUME NEW w \in Workers, WorkerInteractive(w) PROVE BookInv'
  BY <1>0, <1>19, BookQuietStep DEF WorkerInteractive, Take, AtTop, BookQuiet, Joined, WorkerType,
     seqVars, queueVars, workerVars
<1>20. ASSUME NEW w \in Workers, WorkerBlocks(w) PROVE BookInv'
  BY <1>0, <1>20, BookQuietStep DEF WorkerBlocks, AtTop, BookQuiet, Joined, WorkerType, seqVars,
     queueVars, workerVars
<1>21. ASSUME NEW w \in Workers, WorkerBackground(w) PROVE BookInv'
  BY <1>0, <1>21, BookQuietStep DEF WorkerBackground, Take, BookQuiet, Joined, WorkerType,
     seqVars, queueVars, workerVars
<1>22. ASSUME NEW w \in Workers, WorkerExit(w) PROVE BookInv'
  BY <1>0, <1>22, BookQuietStep DEF WorkerExit, SeesShutdown, BookQuiet, Joined, WorkerType,
     seqVars, queueVars, workerVars
<1>23. ASSUME NEW w \in Workers, NEW failed \in BOOLEAN, Work(w, failed) PROVE BookInv'
  BY <1>0, <1>23, BookQuietStep DEF Work, BookQuiet, Joined, WorkerType, seqVars, queueVars,
     workerVars
<1>24. ASSUME NEW w \in Workers, WorkPanics(w) PROVE BookInv'
  BY <1>0, <1>24, BookQuietStep DEF WorkPanics, BookQuiet, Joined, WorkerType, seqVars, queueVars,
     workerVars
<1>25. ASSUME NEW w \in Workers, WorkerCleanup(w) PROVE BookInv'
  BY <1>0, <1>25, BookQuietStep DEF WorkerCleanup, BookQuiet, Joined, WorkerType, seqVars,
     queueVars, workerVars
<1>26. ASSUME NEW w \in Workers, WorkerSend(w) PROVE BookInv'
  <2>1. PICK j \in Jobs : j = wjob[w] BY <1>0, <1>26 DEF WorkerSend, Holding
  <2>2. j \notin reported
    BY <1>26, <2>1 DEF WorkerSend, PlaceInv, HandsInv, ReportedApart, WorkerHas
  <2>3. results' = Append(results, j) /\ wpc' = [wpc EXCEPT ![w] = "publish"] /\ wpc[w] = "send"
        /\ UNCHANGED <<seq, waitingSeq, readySeq, drainedSeq, ready, drainedEarly, wjob>>
    BY <1>26, <2>1 DEF WorkerSend, seqVars
  <2>4. Range(results') = Range(results) \cup {j} BY <1>0, <2>3, RangeAppend DEF QueueType
  <2>5. Publishing' = Publishing \cup {j}
    <3>1. WorkersAt({"publish"})' = WorkersAt({"publish"}) \cup {w}
      BY <1>0, <2>3 DEF WorkersAt, WorkerType
    <3>2. wjob' = wjob BY <2>3
    <3>3. QED BY <2>1, <3>1, <3>2 DEF Publishing, JobsAt
  <2>6. CountsPaired => CountsPaired'
    <3> SUFFICES ASSUME CountsPaired, NEW i \in IDs
                 PROVE  /\ ready'[i] = 0 \/ drainedEarly'[i] = 0
                        /\ ready'[i] - drainedEarly'[i] =
                             Cardinality(OfID(results, i)') - Cardinality(Unbooked(i)')
      BY DEF CountsPaired
    <3>1. OfID(results, i)' = OfID(Append(results, j), i) BY <2>3 DEF OfID
    <3>2. Cardinality(OfID(results, i)') =
            IF JobID[j] = i THEN Cardinality(OfID(results, i)) + 1 ELSE Cardinality(OfID(results, i))
      BY <1>0, <3>1, OfIDAppend DEF QueueType
    <3>3. Unbooked(i)' = IF JobID[j] = i THEN Unbooked(i) \cup {w} ELSE Unbooked(i)
      BY <1>0, <2>1, <2>3 DEF Unbooked, WorkersAt, WorkerType
    <3>4. w \notin Unbooked(i) BY <2>3 DEF Unbooked, WorkersAt
    <3>5. Cardinality(Unbooked(i)') =
            IF JobID[j] = i THEN Cardinality(Unbooked(i)) + 1 ELSE Cardinality(Unbooked(i))
      BY <3>3, <3>4, UnbookedFinite, CountAdd
    <3>6. Cardinality(OfID(results, i)) \in Nat /\ Cardinality(Unbooked(i)) \in Nat
      BY <1>0, OfIDFinite, UnbookedFinite DEF QueueType
    <3>7. UNCHANGED <<ready, drainedEarly>> BY <2>3
    <3>8. QED BY <1>c, <3>2, <3>5, <3>6, <3>7 DEF CountsPaired
  <2>7. SequencesPaired => SequencesPaired'
    <3>1. Publishing' \ Range(results') = Publishing \ Range(results)
          /\ Range(results') \ Publishing' = Range(results) \ Publishing
      BY <1>a, <2>2, <2>4, <2>5
    <3>2. UNCHANGED <<seq, waitingSeq, readySeq, drainedSeq>> BY <2>3
    <3>3. QED BY <3>1, <3>2 DEF SequencesPaired
  <2>8. ~Joined BY <2>3 DEF Joined
  <2>9. QED BY <2>6, <2>7, <2>8 DEF BookInv
<1>27. ASSUME NEW w \in Workers, WorkerDrop(w) PROVE BookInv'
  BY <1>0, <1>27, BookQuietStep DEF WorkerDrop, BookQuiet, Joined, WorkerType, seqVars, queueVars,
     workerVars
<1>28. ASSUME NEW w \in Workers, WorkerPublish(w) PROVE BookInv'
  <2>1. PICK j \in Jobs : j = wjob[w] BY <1>0, <1>28 DEF WorkerPublish, Holding
  <2>2. wpc[w] = "publish" /\ wpc' = [wpc EXCEPT ![w] = "top"]
        /\ wjob' = [wjob EXCEPT ![w] = NoJob] /\ UNCHANGED <<seq, results>>
    BY <1>28 DEF WorkerPublish
  <2>3. j \in Publishing /\ j \in reported
    BY <1>a, <2>1, <2>2 DEF Publishing, JobsAt, WorkersAt
  <2>4. Publishing' = Publishing \ {j}
    <3>1. \A v \in Workers : wpc'[v] = "publish" <=> (wpc[v] = "publish" /\ v # w)
      BY <1>0, <2>2 DEF WorkerType
    <3>2. \A v \in Workers : v # w => wjob'[v] = wjob[v] BY <1>0, <2>2 DEF WorkerType
    <3>3. \A v \in Workers : wpc[v] = "publish" /\ wjob[v] = j => v = w
      BY <2>1, <2>2 DEF PlaceInv, ResultsInv, PublishApart
    <3>4. QED BY <2>1, <3>1, <3>2, <3>3 DEF Publishing, JobsAt, WorkersAt
  <2>5. CountsPaired => CountsPaired'
    <3> SUFFICES ASSUME CountsPaired, NEW i \in IDs
                 PROVE  /\ ready'[i] = 0 \/ drainedEarly'[i] = 0
                        /\ ready'[i] - drainedEarly'[i] =
                             Cardinality(OfID(results, i)') - Cardinality(Unbooked(i)')
      BY DEF CountsPaired
    <3>1. OfID(results, i)' = OfID(results, i) BY <2>2 DEF OfID
    <3>2. Unbooked(i)' = IF JobID[j] = i THEN Unbooked(i) \ {w} ELSE Unbooked(i)
      <4>1. \A v \in Workers : wpc'[v] = "publish" <=> (wpc[v] = "publish" /\ v # w)
        BY <1>0, <2>2 DEF WorkerType
      <4>2. \A v \in Workers : v # w => wjob'[v] = wjob[v] BY <1>0, <2>2 DEF WorkerType
      <4>3. QED BY <2>1, <4>1, <4>2 DEF Unbooked, WorkersAt
    <3>3. JobID[j] = i => w \in Unbooked(i) BY <2>1, <2>2 DEF Unbooked, WorkersAt
    <3>4. Cardinality(Unbooked(i)') =
            IF JobID[j] = i THEN Cardinality(Unbooked(i)) - 1 ELSE Cardinality(Unbooked(i))
      BY <3>2, <3>3, UnbookedFinite, CountRemove
    <3>5. Cardinality(OfID(results, i)) \in Nat /\ Cardinality(Unbooked(i)) \in Nat
      BY <1>0, OfIDFinite, UnbookedFinite DEF QueueType
    <3>6. /\ ready[i] = 0 \/ drainedEarly[i] = 0
          /\ ready[i] - drainedEarly[i] = Cardinality(OfID(results, i)) - Cardinality(Unbooked(i))
          /\ ready[i] \in Nat /\ drainedEarly[i] \in Nat
      BY <1>c DEF CountsPaired
    <3>7. CASE JobID[j] # i
      <4>1. ready'[i] = ready[i] /\ drainedEarly'[i] = drainedEarly[i]
        BY <1>0, <1>28, <2>1, <3>7 DEF WorkerPublish, SeqType
      <4>2. QED BY <3>1, <3>4, <3>5, <3>6, <3>7, <4>1
    <3>8. CASE JobID[j] = i /\ AlreadyDrained(i)
      <4>1. ready'[i] = ready[i] /\ drainedEarly'[i] = drainedEarly[i] - 1 /\ drainedEarly[i] > 0
        BY <1>0, <1>28, <2>1, <3>8 DEF WorkerPublish, SeqType, AlreadyDrained
      <4>2. QED BY <3>1, <3>4, <3>5, <3>6, <3>8, <4>1
    <3>9. CASE JobID[j] = i /\ ~AlreadyDrained(i)
      <4>1. ready'[i] = ready[i] + 1 /\ drainedEarly'[i] = drainedEarly[i] /\ ~(drainedEarly[i] > 0)
        BY <1>0, <1>28, <2>1, <3>9 DEF WorkerPublish, SeqType, AlreadyDrained
      <4>2. QED BY <3>1, <3>4, <3>5, <3>6, <3>9, <4>1
    <3>10. QED BY <3>7, <3>8, <3>9
  <2>6. SequencesPaired => SequencesPaired'
    <3> SUFFICES ASSUME SequencesPaired PROVE SequencesPaired'
      OBVIOUS
    <3>1. \A k \in reported : seq[k] = seq[j] => k = j
      <4>1. \A k \in reported : seq[j] \in {seq[x] : x \in {k}} <=> j \in {k} BY <2>3, SeqNames
      <4>2. QED BY <4>1
    <3>2. seq[j] \in drainedSeq <=> j \notin Range(results)
      BY <1>a, <2>3, <3>1 DEF SequencesPaired
    <3>3. UNCHANGED <<seq, results>> BY <2>2
    <3>4. CASE j \notin Range(results)
      <4>1. drainedSeq' = drainedSeq \ {seq[j]} /\ UNCHANGED <<waitingSeq, readySeq>>
        BY <1>28, <2>1, <3>2, <3>4 DEF WorkerPublish
      <4>2. drainedSeq' = {seq[k] : k \in (Publishing \ {j}) \ Range(results)}
        BY <1>a, <3>1, <4>1 DEF SequencesPaired
      <4>3. Range(results) \ (Publishing \ {j}) = Range(results) \ Publishing BY <3>4
      <4>4. QED BY <2>4, <3>3, <4>1, <4>2, <4>3 DEF SequencesPaired
    <3>5. CASE j \in Range(results)
      <4>1. waitingSeq' = waitingSeq \ {seq[j]} /\ readySeq' = readySeq \cup {seq[j]}
            /\ drainedSeq' = drainedSeq
        BY <1>28, <2>1, <3>2, <3>5 DEF WorkerPublish
      <4>2. Range(results) \ (Publishing \ {j}) = (Range(results) \ Publishing) \cup {j}
            /\ (Publishing \ {j}) \ Range(results) = Publishing \ Range(results)
        BY <2>3, <3>5
      <4>3. readySeq' = {seq[k] : k \in Range(results) \ (Publishing \ {j})}
        BY <4>1, <4>2 DEF SequencesPaired
      <4>4. waitingSeq' \cap readySeq' = {} BY <4>1 DEF SequencesPaired
      <4>5. QED BY <2>4, <3>3, <4>1, <4>2, <4>3, <4>4 DEF SequencesPaired
    <3>6. QED BY <3>4, <3>5
  <2>7. ~Joined BY <2>2 DEF Joined
  <2>8. QED BY <2>5, <2>6, <2>7 DEF BookInv
<1>29. ASSUME NEW j \in Jobs, Invalidate(j) PROVE BookInv'
  BY <1>0, <1>29, BookQuietStep DEF Invalidate, BookQuiet, Joined, WorkerType, seqVars, queueVars,
     workerVars
<1>30. CASE UNCHANGED vars
  BY <1>0, <1>30, BookQuietStep DEF vars, BookQuiet, Joined, WorkerType, seqVars, queueVars,
     workerVars
<1>31. ASSUME NEW t \in Threads, ReceiveWake(t) PROVE BookInv'
  BY <1>0, <1>31, BookQuietStep DEF ReceiveWake, BookQuiet, Joined, WorkerType, seqVars, queueVars,
     workerVars
<1>32. QED
  BY <1>1, <1>2, <1>3, <1>4, <1>5, <1>6, <1>7, <1>8, <1>9, <1>10, <1>11, <1>12, <1>13, <1>14,
     <1>15, <1>16, <1>17, <1>18, <1>19, <1>20, <1>21, <1>22, <1>23, <1>24, <1>25, <1>26, <1>27,
     <1>28, <1>29, <1>30, <1>31 DEF Next, ThreadNext, PoolCall, WorkerNext

(* Sends and receives are paired, however the worker's send and bookkeeping
   interleave with the drain (job.go:236-241, 697-712, 985-996): the counters
   of an ID, pendingSequence and drainedSequence agree with the channel. *)
THEOREM BookkeepingIsPaired == Spec => []BookkeepingPaired
<1>1. ASSUME Init PROVE BookInv
  <2>1. results = <<>> /\ Publishing = {} /\ \A i \in IDs : Unbooked(i) = {} /\ OfID(results, i) = {}
    BY <1>1 DEF Init, Publishing, JobsAt, WorkersAt, Unbooked, OfID
  <2>2. Range(<<>>) = {} /\ Cardinality({}) = 0 BY FS_EmptySet DEF Range
  <2>3. CountsPaired BY <1>1, <2>1, <2>2 DEF Init, CountsPaired
  <2>4. SequencesPaired BY <1>1, <2>1, <2>2 DEF Init, SequencesPaired
  <2>5. QED BY <2>3, <2>4 DEF BookInv
<1>2. ChargeInv /\ BookInv /\ [Next]_vars => BookInv' BY BookStep DEF ChargeInv
<1>3. BookInv => BookkeepingPaired
  BY DEF BookInv, CountsPaired, SequencesPaired, BookkeepingPaired, Publishing
<1>4. QED BY <1>1, <1>2, <1>3, ChargeInit, ChargeStep, PTL DEF Spec

-----------------------------------------------------------------------------
(* The runtime's loop.                                                     *)

(* Only a receive and the start of a drain change who has the token.       *)
LEMMA CallsKeepWoken == ASSUME NEW t \in Threads, PoolCall(t) PROVE woken' = woken
<1>1. CASE \/ \E j \in Jobs : ScheduleReserve(t, j) \/ ScheduleNoMemory(t, j)
           \/ ScheduleRefused(t) \/ ScheduleAdmit(t) \/ ScheduleSend(t)
           \/ ScheduleFull(t) \/ ScheduleUndo(t)
  BY <1>1 DEF ScheduleReserve, ScheduleNoMemory, ScheduleRefused, ScheduleAdmit, ScheduleSend,
              ScheduleFull, ScheduleUndo, history
<1>2. CASE \/ \E i \in CancelIDs : CancelJob(t, i)
           \/ CancelAll(t)
           \/ \E p \in BOOLEAN : SetPaused(t, p)
  BY <1>2 DEF CancelJob, CancelAll, SetPaused, history
<1>3. CASE DrainReceive(t) \/ (\E ordered \in BOOLEAN : DrainSort(t, ordered)) \/ DrainCommit(t)
  BY <1>3 DEF DrainReceive, DrainSort, DrainCommit, history
<1>4. CASE \/ ShutdownBegin(t) \/ ShutdownReceive(t)
           \/ \E j \in Jobs : ShutdownRelease(t, j)
           \/ ShutdownReturn(t)
  BY <1>4 DEF ShutdownBegin, ShutdownReceive, ShutdownRelease, ShutdownReturn, history
<1>5. QED BY <1>1, <1>2, <1>3, <1>4 DEF PoolCall

LEMMA OthersKeepWoken ==
  ASSUME (\E w \in Workers : WorkerNext(w)) \/ (\E j \in Jobs : Invalidate(j))
  PROVE  woken' = woken
<1>1. CASE \E j \in Jobs : Invalidate(j) BY <1>1 DEF Invalidate, history
<1>2. ASSUME NEW w \in Workers, WorkerNext(w) PROVE woken' = woken
  <2>1. CASE WorkerInteractive(w) \/ WorkerBlocks(w) \/ WorkerBackground(w) \/ WorkerExit(w)
    BY <2>1 DEF WorkerInteractive, WorkerBlocks, WorkerBackground, Take, WorkerExit, history
  <2>2. CASE (\E failed \in BOOLEAN : Work(w, failed)) \/ WorkPanics(w) \/ WorkerCleanup(w)
    BY <2>2 DEF Work, WorkPanics, WorkerCleanup, history
  <2>3. CASE WorkerSend(w) \/ WorkerDrop(w) \/ WorkerPublish(w)
    BY <2>3 DEF WorkerSend, WorkerDrop, WorkerPublish, history
  <2>4. QED BY <1>2, <2>1, <2>2, <2>3 DEF WorkerNext
<1>3. QED BY <1>1, <1>2

(* The loop in its frame has paid for the token, and elsewhere remembers it*)
(* unless it let a frame be refused or left wall mode.                     *)
LoopInv ==
  /\ woken \subseteq {Runtime}
  /\ at = "frame" => woken = {}
  /\ woken # {} => HasWallFrameWork \/ virtual \/ refused

LEMMA LoopStep == ASSUME LoopInv, [LoopNext]_allVars PROVE LoopInv'
<1> USE DEF LoopInv, HasWallFrameWork
<1>0. Runtime \in Threads BY FrameLoopConstants
<1>1. CASE Top BY <1>1 DEF Top, vars, history, flagVars
<1>2. CASE WallJobWake BY <1>2 DEF WallJobWake, ReceiveWake, Parked
<1>3. CASE VirtualJobWake BY <1>3 DEF VirtualJobWake, ReceiveWake, Parked, loopVars, flagVars
<1>4. CASE WallRequest BY <1>4 DEF WallRequest, vars, history
<1>5. CASE WallEvent BY <1>5 DEF WallEvent, vars, history
<1>6. CASE WallFrame \/ VirtualFrame
  <2>1. woken' = {} BY <1>6 DEF WallFrame, VirtualFrame, BeginFrame, DrainBegin
  <2>2. QED BY <2>1
<1>7. CASE RefuseFrame BY <1>7 DEF RefuseFrame, vars, history
<1>8. CASE ToVirtual BY <1>8 DEF ToVirtual, vars, history
<1>9. CASE ToWall BY <1>9 DEF ToWall, vars, history
<1>10. CASE LoopCall BY <1>0, <1>10, CallsKeepWoken DEF LoopCall
<1>11. CASE EndFrame BY <1>11 DEF EndFrame, vars, history
<1>12. CASE RenderDone \/ RequestFrame BY <1>12 DEF RenderDone, RequestFrame, vars, history, flagVars
<1>13. CASE PoolStep BY <1>13, OthersKeepWoken DEF PoolStep, loopVars, flagVars
<1>14. CASE UNCHANGED allVars BY <1>14 DEF allVars, vars, history, loopVars, flagVars
<1>15. QED
  BY <1>1, <1>2, <1>3, <1>4, <1>5, <1>6, <1>7, <1>8, <1>9, <1>10, <1>11, <1>12, <1>13, <1>14
  DEF LoopNext, RuntimeNext

(* For any number of credits, jobs and workers: a wall-clock loop that took
   the token of a result still finds frame work at its next turn
   (lifecycle.go:208, 246-265, 334-335), unless the frame it owed was refused
   (lifecycle.go:229-238). *)
THEOREM WakesAreRemembered == LoopSpec => []WakeIsRemembered
<1>1. LoopInit => LoopInv BY DEF LoopInit, Init, LoopInv
<1>2. LoopInv => WakeIsRemembered BY DEF LoopInv, WakeIsRemembered
<1>3. QED BY <1>1, <1>2, LoopStep, PTL DEF LoopSpec

(* The loop uses the pool as any caller may, so that what is proved of the
   pool holds in the loop: no result is without a wake-up. *)
THEOREM LoopUsesPool == LoopSpec => Spec
<1>1. LoopInit => Init BY DEF LoopInit
<1>2. ASSUME [LoopNext]_allVars PROVE [Next]_vars
  <2>0. Runtime \in Threads BY FrameLoopConstants
  <2>1. CASE \/ Top \/ WallRequest \/ WallEvent \/ RefuseFrame \/ ToVirtual \/ ToWall
             \/ EndFrame \/ RenderDone \/ RequestFrame
    BY <2>1 DEF Top, WallRequest, WallEvent, RefuseFrame, ToVirtual, ToWall, EndFrame, RenderDone,
                RequestFrame
  <2>2. CASE WallJobWake \/ VirtualJobWake
    BY <2>0, <2>2 DEF WallJobWake, VirtualJobWake, Next, ThreadNext
  <2>3. CASE WallFrame \/ VirtualFrame
    BY <2>0, <2>3 DEF WallFrame, VirtualFrame, BeginFrame, Next, ThreadNext
  <2>4. CASE LoopCall BY <2>0, <2>4 DEF LoopCall, Next, ThreadNext
  <2>5. CASE PoolStep BY <2>5 DEF PoolStep, Next
  <2>6. CASE UNCHANGED allVars BY <2>6 DEF allVars
  <2>7. QED BY <1>2, <2>1, <2>2, <2>3, <2>4, <2>5, <2>6 DEF LoopNext, RuntimeNext
<1>3. QED BY <1>1, <1>2, PTL DEF LoopSpec, Spec

=============================================================================
