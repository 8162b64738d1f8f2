---------------------------- MODULE MCFrameLoop ----------------------------
(* Two instances in one graph.  When alone, the pool has a caller that may *)
(* call any method at any time, and two jobs; else its caller is the loop, *)
(* and there is one job and no pause, which stops the loop as well.        *)
EXTENDS FrameLoop, MCJobPool

VARIABLE alone

Alone == alone /\ UNCHANGED <<loopVars, alone>>

AloneNext ==
  \/ (\E t \in Threads : ThreadNext(t)) /\ Alone
  \/ (\E w \in Workers : WorkerNext(w)) /\ Alone
  \/ (\E j \in Jobs : Invalidate(j)) /\ Alone
  \/ (\E j \in Jobs : Forget(j)) /\ Alone

Together == ~alone /\ called' \subseteq {j1} /\ ~paused' /\ UNCHANGED alone

TogetherNext ==
  \/ Top /\ Together
  \/ WallJobWake /\ Together
  \/ VirtualJobWake /\ Together
  \/ WallRequest /\ Together
  \/ WallEvent /\ Together
  \/ WallFrame /\ Together
  \/ RefuseFrame /\ Together
  \/ VirtualFrame /\ Together
  \/ ToVirtual /\ Together
  \/ ToWall /\ Together
  \/ LoopCall /\ Together
  \/ EndFrame /\ Together
  \/ RenderDone /\ Together
  \/ RequestFrame /\ Together
  \/ PoolStep /\ Together

\* A pool alone leaves the loop in its virtual park.
AloneInit ==
  /\ Init /\ alone = TRUE
  /\ at = "park" /\ virtual = TRUE
  /\ wallWakePending = FALSE /\ requested = TRUE /\ dirty = TRUE
  /\ rendering = 0 /\ refused = FALSE

MCInit == AloneInit \/ (LoopInit /\ alone = FALSE)
MCNext == AloneNext \/ TogetherNext

EndlessLoopSpec ==
  MCInit /\ [][MCNext]_<<allVars, alone>> /\ Fairness /\ LoopFairness

\* The loop by itself, whose caller calls each job once.
TogetherSpec ==
  /\ LoopInit /\ alone = FALSE
  /\ [][TogetherNext]_<<allVars, alone>>
  /\ LoopFairness
=============================================================================
