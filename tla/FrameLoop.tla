----------------------------- MODULE FrameLoop -----------------------------
(***************************************************************************)
(* The runtime's loop (runtime/lifecycle.go) around the job pool: the      *)
(* receiver of frontierWake.  One thread, Runtime, makes all calls of the  *)
(* pool; it takes the token where it parks, and drains only in a frame,    *)
(* which it may begin only with a render credit.                           *)
(*                                                                         *)
(* dirty stands for the work that hasWallFrameWork finds again after a     *)
(* refused admission: dirty and ticking facets, pending events, frame      *)
(* tokens.  The surface is ready throughout (without one a frame needs no  *)
(* credit), and the cleanup credit that pending human input may use is not *)
(* modelled: such a frame is admitted, or its events are still pending.    *)
(***************************************************************************)
EXTENDS JobPool

CONSTANTS
  Runtime,         \* the runtime thread
  Credits          \* the frames the pipeline lets be in flight; the code has two

ASSUME FrameLoopConstants ==
  /\ Threads = {Runtime}
  /\ Credits \in Nat \ {0}

VARIABLES
  at,              \* where the loop stands: top, park (both modes), pace or frame
  virtual,         \* the clock's mode
  wallWakePending,
  requested,       \* requestCh holds its token
  dirty,
  rendering,       \* frames submitted and not yet finished by the renderer
  refused          \* history: a frame was refused and none has begun since

flagVars == <<virtual, wallWakePending, requested, dirty>>
loopVars == <<at, flagVars, rendering, refused>>
allVars == <<vars, loopVars>>

LoopInit ==
  /\ Init
  /\ at = "top" /\ virtual = FALSE
  /\ wallWakePending = FALSE /\ requested \in BOOLEAN /\ dirty = TRUE
  /\ rendering = 0 /\ refused = FALSE

Parked == at = "park" /\ ~Busy(Runtime)

HasWallFrameWork == wallWakePending \/ requested \/ dirty

-----------------------------------------------------------------------------
(* The turn of the loop and its two parks.                                 *)

Top ==
  /\ at = "top"
  /\ at' = IF HasWallFrameWork /\ ~virtual THEN "pace" ELSE "park"
  /\ UNCHANGED <<vars, flagVars, rendering, refused>>

(* waitForWallWork receives the job wake: it notes it and goes back to top.*)
Mutant_WallJobWake ==
  /\ Parked /\ ~virtual
  /\ ReceiveWake(Runtime)
  /\ at' = "top"
  /\ UNCHANGED <<flagVars, rendering, refused>>

WallJobWake ==
  /\ Parked /\ ~virtual
  /\ ReceiveWake(Runtime)
  /\ wallWakePending' = TRUE /\ at' = "top"
  /\ UNCHANGED <<virtual, requested, dirty, rendering, refused>>

(* virtualParkStep receives it: it rechecks its frame tokens and parks.    *)
VirtualJobWake ==
  /\ Parked /\ virtual
  /\ ReceiveWake(Runtime)
  /\ UNCHANGED loopVars

(* A request, and an event or a hover deadline.                            *)
WallRequest ==
  /\ Parked /\ ~virtual /\ requested
  /\ requested' = FALSE /\ wallWakePending' = TRUE /\ at' = "top"
  /\ UNCHANGED <<vars, virtual, dirty, rendering, refused>>

WallEvent ==
  /\ Parked /\ ~virtual
  /\ dirty' = TRUE /\ wallWakePending' = TRUE /\ at' = "top"
  /\ UNCHANGED <<vars, virtual, requested, rendering, refused>>

-----------------------------------------------------------------------------
(* Pacing and admission.  WaitWithWake returns on a timer, on vsync or on  *)
(* a request, whose token it takes; it does not listen to the job wake.    *)

FrameTick ==
  /\ at = "pace"
  /\ wallWakePending' = FALSE
  /\ requested' \in {FALSE, requested}

Mutant_HasCredit == rendering <= Credits

HasCredit == rendering < Credits

(* A frame begins by draining the pool.                                    *)
BeginFrame ==
  /\ HasCredit
  /\ DrainBegin(Runtime)
  /\ at' = "frame" /\ refused' = FALSE
  /\ UNCHANGED <<virtual, dirty, rendering>>

WallFrame == ~virtual /\ FrameTick /\ BeginFrame

(* No credit: the loop continues.  The token and the flag are gone.        *)
RefuseFrame ==
  /\ ~virtual /\ FrameTick
  /\ ~HasCredit
  /\ at' = "top" /\ refused' = TRUE
  /\ UNCHANGED <<vars, virtual, dirty, rendering>>

(* time.advance: the frame of a token, begun out of the virtual park.      *)
VirtualFrame ==
  /\ Parked /\ virtual
  /\ BeginFrame
  /\ UNCHANGED <<wallWakePending, requested>>

(* The clock changes hands where the drive inbox is drained.  Leaving      *)
(* virtual time requests a frame, or queues a frame token (time.mode).     *)
ToVirtual ==
  /\ (Parked \/ at = "pace") /\ ~virtual
  /\ virtual' = TRUE /\ at' = "top"
  /\ wallWakePending' = IF at = "pace" THEN FALSE ELSE wallWakePending
  /\ UNCHANGED <<vars, requested, dirty, rendering, refused>>

ToWall ==
  /\ Parked /\ virtual
  /\ virtual' = FALSE /\ at' = "top"
  /\ \/ requested' = TRUE /\ UNCHANGED dirty
     \/ dirty' = TRUE /\ UNCHANGED requested
  /\ UNCHANGED <<vars, wallWakePending, rendering, refused>>

-----------------------------------------------------------------------------
(* A frame, the renderer and everyone else.                                *)

(* The pool's methods are called in frames and from control work; a result *)
(* that commits requests another frame.                                    *)
LoopCall ==
  /\ at \in {"frame", "park"}
  /\ PoolCall(Runtime)
  /\ requested' = (requested \/ committed' # committed)
  /\ UNCHANGED <<at, virtual, wallWakePending, dirty, rendering, refused>>

(* The frame is submitted; it may leave facets dirty and ask for another.  *)
EndFrame ==
  /\ at = "frame" /\ tpc[Runtime] = "idle"
  /\ at' = "top" /\ rendering' = rendering + 1
  /\ dirty' \in BOOLEAN /\ requested' \in {requested, TRUE}
  /\ UNCHANGED <<vars, virtual, wallWakePending, refused>>

(* The completion is published and the credit released; the loop's receipt *)
(* of the completion leaves nothing behind.                                *)
RenderDone ==
  /\ rendering > 0
  /\ rendering' = rendering - 1
  /\ UNCHANGED <<vars, at, flagVars, refused>>

RequestFrame ==
  /\ ~requested
  /\ requested' = TRUE
  /\ UNCHANGED <<vars, at, virtual, wallWakePending, dirty, rendering, refused>>

PoolStep ==
  /\ \/ \E w \in Workers : WorkerNext(w)
     \/ \E j \in Jobs : Invalidate(j)
  /\ UNCHANGED loopVars

RuntimeNext ==
  \/ Top \/ WallJobWake \/ VirtualJobWake \/ WallRequest
  \/ WallFrame \/ RefuseFrame \/ LoopCall \/ EndFrame

LoopNext ==
  \/ RuntimeNext \/ WallEvent \/ VirtualFrame \/ ToVirtual \/ ToWall
  \/ RenderDone \/ RequestFrame \/ PoolStep

LoopSpec == LoopInit /\ [][LoopNext]_allVars

(* The loop's own steps, the end of a call or frame in progress, the       *)
(* renderer and the workers.                                               *)
LoopFairness ==
  /\ WF_allVars(Top \/ WallJobWake \/ WallRequest \/ WallFrame \/ RefuseFrame)
  /\ WF_allVars(Busy(Runtime) /\ LoopCall) /\ WF_allVars(EndFrame)
  /\ WF_allVars(RenderDone)
  /\ \A w \in Workers : WF_allVars(WorkerNext(w) /\ UNCHANGED loopVars)

FairLoopSpec == LoopSpec /\ LoopFairness

-----------------------------------------------------------------------------
(* Properties.                                                             *)

(* Every variable of the loop has its type; the frames in flight never     *)
(* exceed the pipeline's credits (pipeline.go:181-197).                    *)
LoopType ==
  /\ at \in {"top", "park", "pace", "frame"} /\ rendering \in 0..Credits
  /\ virtual \in BOOLEAN /\ wallWakePending \in BOOLEAN /\ requested \in BOOLEAN
  /\ dirty \in BOOLEAN /\ refused \in BOOLEAN

(* A wall-clock loop that took the token of a result remembers it until a  *)
(* frame drains, also across the pacing that takes the request's token and *)
(* a change of the clock (lifecycle.go:208, 334-335, 418-427), except when *)
(* that frame was refused.                                                 *)
WakeIsRemembered ==
  woken # {} /\ results # <<>> => HasWallFrameWork \/ virtual \/ refused

(* A ready result is committed in wall mode: the loop drains it, although  *)
(* a frame may have been refused, since "the next frame tick or control    *)
(* wake retries admission" (lifecycle.go:235-236; idle_test.go:257-259).   *)
ReadyResultCommits == results # <<>> ~> (results = <<>> \/ virtual \/ closed)
=============================================================================
