----------------------------- MODULE DrivePort -----------------------------
(***************************************************************************)
(* The runtime side of the drive protocol: runtime/drive_port.go with the  *)
(* parts of drive_methods.go, drive_methods_time.go, drive_streams.go,     *)
(* frame.go, lifecycle.go, clock.go and input_ownership.go that move an    *)
(* operation from the inbox to its outcome.                                *)
(*                                                                         *)
(* Requests come in through the inbox, lost generations through the        *)
(* control keys; each has a mutex and an atomic flag that is stored        *)
(* outside it.  All the rest is done by the runtime thread, whose program  *)
(* counter is rt.  A handler that ends several operations moves them into  *)
(* closing and records their outcomes one by one before it goes on, so a   *)
(* step changes the ledger as often as one call of the code does.          *)
(*                                                                         *)
(* The loop may be woken at any time (vsync, platform events, timers), so  *)
(* the wake token is not modelled: the runtime starts turns at will.       *)
(* input.* and frame.run are not modelled.  Waiters are not either: a      *)
(* retry of an operation in flight is told its outcome when it has one.    *)
(***************************************************************************)
EXTENDS DriveSessions, Sequences, SequencesExt

CONSTANTS MaxID,          \* bound: request IDs of a session
          Methods,        \* the methods that clients call, of AllMethods
          MaxInbox,       \* maxInboxLen
          MaxPending,     \* maxPendingDriveCommands
          FrameCredits,   \* the render pipeline's in-flight frames
          Payload,        \* bytes of the result of a read
          MaxJobs,        \* bound: jobs that a command's callback schedules
          CancelTarget,   \* the operation that op.cancel names
          RevokeTarget,   \* the session that session.revoke names
          NoOwner         \* nobody owns virtual time

AllMethods == {"read", "execute", "advance", "virtual", "wall", "cancel", "revoke", "unknown"}

ASSUME PortAssumption ==
    /\ Methods \subseteq AllMethods
    /\ {MaxID, MaxInbox, MaxPending, FrameCredits, Payload, MaxJobs} \subseteq Nat
    /\ CancelTarget \in Nat
    /\ RevokeTarget \in Sessions
    /\ NoOwner \notin Sessions \X (1..MaxGen)

IDs == 1..MaxID
Keys == Sessions \X (1..MaxGen)   \* controlKey: a session and a generation
Commands == [s : Sessions, g : 1..MaxGen, id : IDs, m : Methods]
Outcomes == {"done", "failed", "cancelled", "preempted", "rejected"}

VARIABLES
  inbox, nonEmpty,            \* the queued commands and their flag
  controlKeys, controlWanted, \* the coalesced control signals and their flag
  rt,           \* where the runtime thread is
  ret,          \* where it goes on after closing
  taken,        \* the control keys serviceControl took
  batch,        \* the claimed commands that are not yet admitted
  closing,      \* operations taken out of their queue, to be completed
  frameTokens,  \* admitted time operations that wait for their frame
  activations,  \* pendingCommandActivations
  frames,       \* pendingFrameTokens and pendingCommandFrames: started frames
  waiting,      \* waitingCommandJobs
  activeCount,  \* activeCommandCount
  clock,        \* "wall" or "virtual"
  owner,        \* timeOwnerSession and timeOwnerGeneration, or NoOwner
  credits,      \* frameCredit: frames that may still be reserved
  surface,      \* isSurfaceReady
  ran,          \* history: how often an operation took effect
  answers       \* history: what was told of an operation that had ended

queueVars == <<inbox, nonEmpty, controlKeys, controlWanted>>
workVars == <<frameTokens, activations, frames, waiting, activeCount, credits>>
timeVars == <<clock, owner>>
portVars == <<queueVars, rt, ret, taken, batch, closing, workVars, timeVars,
              surface, ran, answers>>

PortInit ==
  /\ inbox = <<>> /\ nonEmpty = FALSE
  /\ controlKeys = {} /\ controlWanted = FALSE
  /\ rt = "park" /\ ret = "park"
  /\ taken = {} /\ batch = <<>> /\ closing = {}
  /\ frameTokens = <<>> /\ activations = <<>> /\ frames = <<>> /\ waiting = {}
  /\ activeCount = 0 /\ credits = FrameCredits
  /\ clock = "wall" /\ owner = NoOwner
  /\ surface = TRUE
  /\ ran = [s \in Sessions |-> [i \in IDs |-> 0]]
  /\ answers = [s \in Sessions |-> [i \in IDs |-> {}]]

Key(c) == <<c.s, c.g>>

-----------------------------------------------------------------------------
(* What the runtime has in hand.  An execute operation is a pending        *)
(* command with the number of its unfinished jobs and whether it failed.   *)

FrameTokens == UNION {f.token : f \in Range(frames)}
FrameCommands == UNION {f.commands : f \in Range(frames)}

TokenWork == Range(frameTokens) \cup FrameTokens
CommandWork == {p.cmd : p \in Range(activations) \cup FrameCommands \cup waiting}
Work == TokenWork \cup CommandWork \cup {x.cmd : x \in closing}

(* What a queue q holds at the positions in at, in the order of q.         *)
Kept(q, at) ==
  [n \in 1..Cardinality(at) |->
     q[CHOOSE k \in at : Cardinality({j \in at : j <= k}) = n]]

(* Takes the operations of the set cmds out of every queue.                *)
TakeOut(cmds) ==
  /\ frameTokens' = Kept(frameTokens, {k \in DOMAIN frameTokens : frameTokens[k] \notin cmds})
  /\ activations' = Kept(activations, {k \in DOMAIN activations : activations[k].cmd \notin cmds})
  /\ frames' = [k \in DOMAIN frames |->
                  [frames[k] EXCEPT
                    !.token = @ \ cmds,
                    !.commands = {p \in @ : p.cmd \notin cmds}]]
  /\ waiting' = {p \in waiting : p.cmd \notin cmds}

Closing(cmds, outcome) == {[cmd |-> c, outcome |-> outcome] : c \in cmds}

(* Ends the operations of a set, each with its outcome, and goes on.       *)
EndAll(ending, next) ==
  /\ closing' = ending
  /\ rt' = IF ending = {} THEN next ELSE "closing"
  /\ ret' = IF ending = {} THEN "park" ELSE next

(* The payload that a completed operation retains.                         *)
PayloadOf(c, outcome) == IF c.m = "read" /\ outcome = "done" THEN Payload ELSE 0

Told(c, outcome) == [answers EXCEPT ![c.s][c.id] = @ \cup {outcome}]
Took(c) == [ran EXCEPT ![c.s][c.id] = @ + 1]

(* releaseTimeOwner(TRUE): time goes back to the wall clock.               *)
ForceWall == owner' = NoOwner /\ clock' = "wall"

-----------------------------------------------------------------------------
(* Submit and SignalControl, on the threads of the server: the queue is    *)
(* changed under its mutex and the flag is raised after it.  Both are one  *)
(* step here, since a runtime that looks in between finds the flag down    *)
(* and comes back.  The runtime's own two steps, which take the queue and  *)
(* then clear the flag, are apart: a call that falls between them has its  *)
(* flag erased.                                                            *)

SubmitCommand(c) ==
  /\ Len(inbox) < MaxInbox
  /\ inbox' = Append(inbox, c)
  /\ nonEmpty' = TRUE
  /\ UNCHANGED <<controlKeys, controlWanted>>

SignalControl(key) ==
  /\ controlKeys' = controlKeys \cup {key}
  /\ controlWanted' = TRUE
  /\ UNCHANGED <<inbox, nonEmpty>>

-----------------------------------------------------------------------------
(* driveDrain: serviceControl, render completions, claim, admissions.      *)

(* serviceControl runs at the start of a drain and again inside a frame,   *)
(* before a command is activated.  It takes the keys under the mutex ...   *)
InFrame == \E f \in Range(frames) : f.stage = "open"
AfterControl == IF InFrame THEN "activate" ELSE "collect"

ServiceControl ==
  IF controlWanted
  THEN taken' = controlKeys /\ controlKeys' = {} /\ rt' = "fence"
  ELSE rt' = AfterControl /\ UNCHANGED <<taken, controlKeys>>

StartTurn ==
  /\ rt = "park"
  /\ ServiceControl
  /\ UNCHANGED <<sessionVars, inbox, nonEmpty, controlWanted, ret, batch, closing,
                 workVars, timeVars, surface, ran, answers>>

Mutant_Fence ==
  LET lost == {c \in TokenWork \cup CommandWork : Key(c) \in taken}
  IN /\ rt = "fence"
     /\ controlWanted' = FALSE
     /\ taken' = {}
     /\ TakeOut(lost)
     /\ EndAll(Closing({c \in lost : c.m # "execute"}, "cancelled"), AfterControl)
     /\ IF owner \in taken THEN ForceWall ELSE UNCHANGED timeVars
     /\ UNCHANGED <<sessionVars, inbox, nonEmpty, controlKeys, batch, activeCount,
                    credits, surface, ran, answers>>

(* ... stores false in the flag, and fences the generations it took:       *)
(* fenceGeneration.                                                        *)
Fence ==
  LET lost == {c \in TokenWork \cup CommandWork : Key(c) \in taken}
  IN /\ rt = "fence"
     /\ controlWanted' = FALSE
     /\ taken' = {}
     /\ TakeOut(lost)
     /\ EndAll(Closing(lost, "cancelled"), AfterControl)
     /\ IF owner \in taken THEN ForceWall ELSE UNCHANGED timeVars
     /\ UNCHANGED <<sessionVars, inbox, nonEmpty, controlKeys, batch, activeCount,
                    credits, surface, ran, answers>>

(* completeClaimed and, for a command, finishCommand: the outcome is       *)
(* recorded in the ledger if the session is still in the table, and told.  *)
CompleteOne(x) ==
  /\ rt = "closing" /\ x \in closing
  /\ EndAll(closing \ {x}, ret)
  /\ ledger' = IF InTable(x.cmd.s)
               THEN [ledger EXCEPT ![x.cmd.s] =
                       Complete(@, x.cmd.id, x.outcome, PayloadOf(x.cmd, x.outcome))]
               ELSE ledger
  /\ activeCount' = IF x.cmd.m = "execute" /\ activeCount > 0
                    THEN activeCount - 1 ELSE activeCount
  /\ answers' = Told(x.cmd, x.outcome)
  /\ UNCHANGED <<state, gen, queueVars, taken, batch, frameTokens, activations, frames,
                 waiting, credits, timeVars, surface, ran>>

(* The render thread acknowledges its oldest frame and gives its credit    *)
(* back.  An acknowledgment that nothing waits for is not kept.            *)
Staged(stage) == {k \in DOMAIN frames : frames[k].stage = stage}

RenderDone ==
  /\ Staged("sent") # {}
  /\ LET k == Min(Staged("sent"))
     IN frames' = IF frames[k].token \cup frames[k].commands = {}
                  THEN RemoveAt(frames, k)
                  ELSE [frames EXCEPT ![k].stage = "acked"]
  /\ credits' = credits + 1
  /\ UNCHANGED <<sessionVars, queueVars, rt, ret, taken, batch, closing, frameTokens,
                 activations, waiting, activeCount, timeVars, surface, ran, answers>>

(* driveCompleteCommandFrame: what becomes of a command when its frame is  *)
(* acknowledged: it fails, waits for its jobs, or is done.                 *)
CommandOutcome(p, ready) ==
  IF p.failed \/ ~ready THEN "failed" ELSE IF p.jobs > 0 THEN None ELSE "done"

(* driveHandleRenderCompletion, in a drain or while the runtime is parked. *)
RenderCompletion(ready) ==
  /\ rt \in {"park", "collect"}
  /\ Staged("acked") # {}
  /\ LET k == Min(Staged("acked"))
         f == frames[k]
         ended == {p \in f.commands : CommandOutcome(p, ready) # None}
         outcome == IF ready THEN "done" ELSE "failed"
     IN /\ frames' = RemoveAt(frames, k)
        /\ waiting' = waiting \cup (f.commands \ ended)
        /\ EndAll({[cmd |-> p.cmd, outcome |-> CommandOutcome(p, ready)] : p \in ended}
                    \cup Closing(f.token, outcome), rt)
        /\ IF \E c \in f.token : c.m = "wall" /\ owner = Key(c)
           THEN owner' = NoOwner
           ELSE UNCHANGED owner
  /\ UNCHANGED <<sessionVars, queueVars, taken, batch, frameTokens, activations,
                 activeCount, credits, clock, surface, ran, answers>>

(* claim, once every acknowledgment is collected, takes the inbox under    *)
(* its mutex ...                                                           *)
ClaimTake ==
  /\ rt = "collect" /\ Staged("acked") = {}
  /\ IF nonEmpty
     THEN batch' = inbox /\ inbox' = <<>> /\ rt' = "clear"
     ELSE rt' = "ready" /\ UNCHANGED <<batch, inbox>>
  /\ UNCHANGED <<sessionVars, nonEmpty, controlKeys, controlWanted, ret, taken,
                 closing, workVars, timeVars, surface, ran, answers>>

(* ... and stores false in the flag.                                       *)
ClaimClear ==
  /\ rt = "clear"
  /\ nonEmpty' = FALSE
  /\ rt' = "admit"
  /\ UNCHANGED <<sessionVars, inbox, controlKeys, controlWanted, ret, taken, batch,
                 closing, workVars, timeVars, surface, ran, answers>>

-----------------------------------------------------------------------------
(* driveAdmit, for the first command of the claimed batch.                 *)

AtHead(c) == rt = "admit" /\ batch # <<>> /\ c = Head(batch)

Entry(c) == ledger[c.s].entries[c.id]
Retained(c) == Attached(c.s, c.g) /\ Lookup(ledger[c.s], c.id) = "retained"

TimeMethods == {"advance", "virtual", "wall"}

Busy(c) ==
  \/ c.m \in TimeMethods /\ Len(frameTokens) + Cardinality(FrameTokens) >= MaxPending
  \/ c.m = "execute" /\ activeCount >= MaxPending

Admissible(c) == Attached(c.s, c.g) /\ NextID(ledger[c.s], c.id) /\ ~Busy(c)

(* The retry of a request whose outcome the ledger retains.                *)
Retried(c) ==
  Retained(c) /\ Entry(c).canonical = c.m /\ Entry(c).state = "terminal"

(* Whatever is answered without a change: a fenced generation, an expired  *)
(* ID, a gap, a full queue, a conflict, and an operation in flight.        *)
AdmitRefused(c) ==
  /\ AtHead(c)
  /\ ~Admissible(c) /\ ~Retried(c)
  /\ batch' = Tail(batch)
  /\ UNCHANGED <<sessionVars, queueVars, rt, ret, taken, closing, workVars, timeVars,
                 surface, ran, answers>>

(* replayRetained: the retained outcome is told again.                     *)
AdmitReplay(c) ==
  /\ AtHead(c)
  /\ Retried(c) /\ Entry(c).admitted
  /\ answers' = Told(c, Entry(c).outcome)
  /\ batch' = Tail(batch)
  /\ UNCHANGED <<sessionVars, queueVars, rt, ret, taken, closing, workVars, timeVars,
                 surface, ran>>

(* It asks for Admitted, which a rejection is not: the retry of a retained *)
(* rejection is told that its ID is admitted and its outcome is pending.   *)
AdmitPending(c) ==
  /\ AtHead(c)
  /\ Retried(c) /\ ~Entry(c).admitted
  /\ answers' = Told(c, "pending")
  /\ batch' = Tail(batch)
  /\ UNCHANGED <<sessionVars, queueVars, rt, ret, taken, closing, workVars, timeVars,
                 surface, ran>>

(* A permanent rejection consumes the ID.  A command without a surface,    *)
(* or that fails its validation, is rejected as well.  A denied grant      *)
(* takes the path of an unknown method.                                    *)
AdmitRejected(c) ==
  /\ AtHead(c) /\ Admissible(c)
  /\ c.m \in {"unknown", "execute"}
  /\ ledger' = [ledger EXCEPT ![c.s] = ClaimRejection(@, c.id, c.m, "rejected")]
  /\ answers' = Told(c, "rejected")
  /\ batch' = Tail(batch)
  /\ UNCHANGED <<state, gen, queueVars, rt, ret, taken, closing, workVars, timeVars,
                 surface, ran>>

Claimed(c) == ledger' = [ledger EXCEPT ![c.s] = Claim(@, c.id, c.m)]

AdmitExecute(c) ==
  /\ AtHead(c) /\ Admissible(c)
  /\ c.m = "execute" /\ surface
  /\ Claimed(c)
  /\ activations' = Append(activations, [cmd |-> c, jobs |-> 0, failed |-> FALSE])
  /\ activeCount' = activeCount + 1
  /\ batch' = Tail(batch)
  /\ UNCHANGED <<state, gen, queueVars, rt, ret, taken, closing, frameTokens, frames,
                 waiting, credits, timeVars, surface, ran, answers>>

(* A claimed request whose handler answers at once goes through closing.   *)
AnswerAtOnce(c, outcome, others) ==
  /\ EndAll(Closing({c}, outcome) \cup others, "admit")
  /\ ran' = Took(c)
  /\ batch' = Tail(batch)

AdmitRead(c, outcome) ==
  /\ AtHead(c) /\ Admissible(c)
  /\ c.m = "read"
  /\ Claimed(c)
  /\ AnswerAtOnce(c, outcome, {})
  /\ UNCHANGED <<state, gen, queueVars, taken, workVars, timeVars, surface, answers>>

MayOwnTime(c) == owner \in {NoOwner, Key(c)}

(* driveTimeMode and driveTimeAdvance: refused requests end in an error.   *)
TimeRefused(c) ==
  \/ c.m = "advance" /\ (clock = "wall" \/ ~surface \/ ~MayOwnTime(c))
  \/ c.m = "virtual" /\ ((clock = "wall" /\ ~surface) \/ ~MayOwnTime(c))
  \/ c.m = "wall" /\ clock = "virtual" /\ (owner # Key(c) \/ ~surface)

(* Repeating the current mode needs no frame.                              *)
TimeRepeated(c) == c.m \in {"virtual", "wall"} /\ c.m = clock

AdmitTimeAtOnce(c) ==
  /\ AtHead(c) /\ Admissible(c)
  /\ c.m \in TimeMethods
  /\ TimeRefused(c) \/ TimeRepeated(c)
  /\ Claimed(c)
  /\ AnswerAtOnce(c, IF TimeRefused(c) THEN "failed" ELSE "done", {})
  /\ owner' = IF TimeRefused(c) THEN owner
              ELSE IF c.m = "virtual" THEN Key(c)
              ELSE IF owner = Key(c) THEN NoOwner ELSE owner
  /\ UNCHANGED <<state, gen, queueVars, taken, workVars, clock, surface, answers>>

(* The others change the mode now and end when their frame is rendered.    *)
AdmitTimeDeferred(c) ==
  /\ AtHead(c) /\ Admissible(c)
  /\ c.m \in TimeMethods
  /\ ~TimeRefused(c) /\ ~TimeRepeated(c)
  /\ Claimed(c)
  /\ frameTokens' = Append(frameTokens, c)
  /\ clock' = IF c.m = "advance" THEN clock ELSE c.m
  /\ owner' = IF c.m = "wall" THEN owner ELSE Key(c)
  /\ ran' = IF c.m = "advance" THEN ran ELSE Took(c)
  /\ batch' = Tail(batch)
  /\ UNCHANGED <<state, gen, queueVars, rt, ret, taken, closing, activations, frames,
                 waiting, activeCount, credits, surface, answers>>

Mutant_AdmitCancel(c) ==
  LET l == Claim(ledger[c.s], c.id, c.m)
      named == {w \in TokenWork \cup CommandWork : w.s = c.s /\ w.id = CancelTarget}
      live == IF Open(l, CancelTarget) THEN named ELSE {}
  IN /\ AtHead(c) /\ Admissible(c)
     /\ c.m = "cancel"
     /\ Claimed(c)
     /\ UNCHANGED <<frameTokens, activations, frames, waiting>>
     /\ AnswerAtOnce(c, IF CancelTarget \in DOMAIN l.entries THEN "done" ELSE "failed",
                     Closing(live, "cancelled"))
     /\ UNCHANGED <<state, gen, queueVars, taken, activeCount, credits, timeVars, surface,
                    answers>>

(* op.cancel and cancelOperationBySeq: the live work of the operation is   *)
(* cancelled, whatever generation it belongs to.                           *)
AdmitCancel(c) ==
  LET l == Claim(ledger[c.s], c.id, c.m)
      named == {w \in TokenWork \cup CommandWork : w.s = c.s /\ w.id = CancelTarget}
      live == IF Open(l, CancelTarget) THEN named ELSE {}
  IN /\ AtHead(c) /\ Admissible(c)
     /\ c.m = "cancel"
     /\ Claimed(c)
     /\ TakeOut(live)
     /\ AnswerAtOnce(c, IF CancelTarget \in DOMAIN l.entries THEN "done" ELSE "failed",
                     Closing(live, "cancelled"))
     /\ UNCHANGED <<state, gen, queueVars, taken, activeCount, credits, timeVars, surface,
                    answers>>

(* session.revoke and cancelSessionWork: the session leaves the table and  *)
(* all its work is cancelled.                                              *)
AdmitRevoke(c) ==
  LET live == {w \in TokenWork \cup CommandWork : w.s = RevokeTarget}
      after == [ledger EXCEPT ![c.s] = Claim(@, c.id, c.m)]
  IN /\ AtHead(c) /\ Admissible(c)
     /\ c.m = "revoke"
     /\ IF InTable(RevokeTarget)
        THEN /\ state' = [state EXCEPT ![RevokeTarget] = "gone"]
             /\ ledger' = [after EXCEPT ![RevokeTarget] =
                              [NewLedger EXCEPT !.highWater = after[RevokeTarget].highWater]]
             /\ TakeOut(live)
             /\ AnswerAtOnce(c, "done", Closing(live, "cancelled"))
             /\ IF owner # NoOwner /\ owner[1] = RevokeTarget
                THEN ForceWall ELSE UNCHANGED timeVars
        ELSE /\ ledger' = after
             /\ AnswerAtOnce(c, "failed", {})
             /\ UNCHANGED <<state, frameTokens, activations, frames, waiting, timeVars>>
     /\ UNCHANGED <<gen, queueVars, taken, activeCount, credits, surface, answers>>

AdmitDone ==
  /\ rt = "admit" /\ batch = <<>>
  /\ rt' = "ready"
  /\ UNCHANGED <<sessionVars, queueVars, ret, taken, batch, closing, workVars, timeVars,
                 surface, ran, answers>>

Admit(c) ==
  \/ AdmitRefused(c) \/ AdmitReplay(c) \/ AdmitPending(c)
  \/ AdmitRejected(c) \/ AdmitExecute(c)
  \/ \E outcome \in {"done", "failed"} : AdmitRead(c, outcome)
  \/ AdmitTimeAtOnce(c) \/ AdmitTimeDeferred(c) \/ AdmitCancel(c) \/ AdmitRevoke(c)

-----------------------------------------------------------------------------
(* Frames.                                                                 *)

NewFrame(token, reserved) ==
  [token |-> token, commands |-> {}, stage |-> "open", reserved |-> reserved]

(* runScheduledVirtualFrame: a credit is reserved before the token is      *)
(* taken.  An advance that finds the clock in wall mode fails on the spot, *)
(* and keeps the credit it reserved.                                       *)
StartTokenFrame ==
  /\ rt \in {"park", "ready"}
  /\ frameTokens # <<>> /\ surface /\ credits > 0
  /\ LET c == Head(frameTokens)
     IN IF c.m = "advance" /\ clock = "wall"
        THEN /\ EndAll(Closing({c}, "failed"), "park")
             /\ UNCHANGED <<frames, ran>>
        ELSE /\ frames' = Append(frames, NewFrame({c}, TRUE))
             /\ ran' = IF c.m = "advance" THEN Took(c) ELSE ran
             /\ rt' = "jobs"
             /\ UNCHANGED <<closing, ret>>
  /\ frameTokens' = Tail(frameTokens)
  /\ credits' = credits - 1
  /\ UNCHANGED <<sessionVars, queueVars, taken, batch, activations, waiting, activeCount,
                 timeVars, surface, answers>>

(* An ordinary frame, without a reservation while there is no surface.     *)
(* Frames that find no command to run or to wait for are left out.         *)
StartWallFrame ==
  /\ rt = "ready"
  /\ activations # <<>> \/ waiting # {} \/ \E p \in FrameCommands : p.jobs > 0
  /\ frameTokens = <<>> /\ clock = "wall"
  /\ surface => credits > 0
  /\ frames' = Append(frames, NewFrame({}, surface))
  /\ credits' = IF surface THEN credits - 1 ELSE credits
  /\ rt' = "jobs"
  /\ UNCHANGED <<sessionVars, queueVars, ret, taken, batch, closing, frameTokens,
                 activations, waiting, activeCount, timeVars, surface, ran, answers>>

NoFrame ==
  /\ rt = "ready"
  /\ rt' = "park"
  /\ UNCHANGED <<sessionVars, queueVars, ret, taken, batch, closing, workVars, timeVars,
                 surface, ran, answers>>

Current == Len(frames)   \* the frame that is being built

(* commandJobFinished, from drainJobResults at the start of a frame: a     *)
(* command that waited for its last job is done in this frame; a failed    *)
(* job fails it, at once if nothing else was left to wait for.             *)
JobDone(p, ok) ==
  LET q == [p EXCEPT !.jobs = IF ok THEN @ - 1 ELSE 0, !.failed = @ \/ ~ok]
  IN /\ rt = "jobs" /\ p.jobs > 0
     /\ \/ /\ p \in FrameCommands
           /\ frames' = [k \in DOMAIN frames |->
                 [frames[k] EXCEPT !.commands = IF p \in @ THEN (@ \ {p}) \cup {q} ELSE @]]
           /\ UNCHANGED <<waiting, closing, rt, ret>>
        \/ /\ p \in waiting /\ ok
           /\ waiting' = (waiting \ {p}) \cup (IF q.jobs > 0 THEN {q} ELSE {})
           /\ frames' = [frames EXCEPT ![Current].commands =
                           @ \cup (IF q.jobs = 0 THEN {q} ELSE {})]
           /\ UNCHANGED <<closing, rt, ret>>
        \/ /\ p \in waiting /\ ~ok
           /\ waiting' = waiting \ {p}
           /\ EndAll(Closing({p.cmd}, "failed"), "jobs")
           /\ UNCHANGED frames
     /\ UNCHANGED <<sessionVars, queueVars, taken, batch, frameTokens, activations,
                    activeCount, credits, timeVars, surface, ran, answers>>

(* preemptDriveForHuman ends everything but the commands whose frame is    *)
(* under way, and takes time back.                                         *)
Preemptible == TokenWork \cup {p.cmd : p \in Range(activations) \cup waiting}

Preempt(next) ==
  /\ TakeOut(Preemptible)
  /\ EndAll(Closing(Preemptible, "preempted"), next)
  /\ ForceWall

(* The platform events of a frame: human input, then the loss of the       *)
(* surface.  serviceControl comes next.                                    *)
FrameEvents(human, lost) ==
  /\ rt = "jobs"
  /\ IF human
     THEN Preempt("events") /\ UNCHANGED <<taken, controlKeys>>
     ELSE /\ ServiceControl
          /\ UNCHANGED <<closing, ret, timeVars, frameTokens, activations, frames, waiting>>
  /\ surface' = (surface /\ ~lost)
  /\ UNCHANGED <<sessionVars, inbox, nonEmpty, controlWanted, batch, activeCount,
                 credits, ran, answers>>

AfterPreempt ==
  /\ rt = "events"
  /\ ServiceControl
  /\ UNCHANGED <<sessionVars, inbox, nonEmpty, controlWanted, ret, batch, closing,
                 workVars, timeVars, surface, ran, answers>>

(* The frame is handed to the renderer.  Without a surface it is not, its  *)
(* credit goes back, and whatever was to end with it is left waiting.      *)
Submitted(f) ==
  IF surface THEN <<[f EXCEPT !.stage = "sent"]>>
  ELSE IF f.token \cup f.commands = {} THEN <<>>
  ELSE <<[f EXCEPT !.stage = "skipped"]>>

Mutant_Submit(f) ==
  /\ frames' = Front(frames) \o Submitted(f)
  /\ credits' = IF f.reserved THEN credits + 1 ELSE credits

Submit(f) ==
  /\ frames' = Front(frames) \o Submitted(f)
  /\ credits' = IF f.reserved /\ ~surface THEN credits + 1 ELSE credits

(* driveActivatePendingCommands: commands run one at a time, and not for a *)
(* generation that is no longer attached.  The callback may schedule jobs, *)
(* panic, or find that its command is gone.                                *)
Mutant_NothingToRun == activations = <<>> \/ FrameCommands # {}

NothingToRun == activations = <<>> \/ FrameCommands # {} \/ waiting # {}

FrameWithoutCommand ==
  /\ rt = "activate"
  /\ NothingToRun
  /\ Submit(Last(frames)) /\ rt' = "park"
  /\ UNCHANGED <<sessionVars, queueVars, ret, taken, batch, closing, frameTokens,
                 activations, waiting, activeCount, timeVars, surface, ran, answers>>

Activate(jobs, failed) ==
  /\ rt = "activate"
  /\ ~NothingToRun
  /\ LET p == Head(activations)
     IN /\ Attached(p.cmd.s, p.cmd.g)
        /\ Submit([Last(frames) EXCEPT
                    !.commands = {[p EXCEPT !.jobs = jobs, !.failed = failed]}])
        /\ ran' = Took(p.cmd)
  /\ rt' = "park"
  /\ activations' = Tail(activations)
  /\ UNCHANGED <<sessionVars, queueVars, ret, taken, batch, closing, frameTokens, waiting,
                 activeCount, timeVars, surface, answers>>

ActivateLost ==
  /\ rt = "activate"
  /\ ~NothingToRun
  /\ LET p == Head(activations)
     IN /\ ~Attached(p.cmd.s, p.cmd.g)
        /\ EndAll(Closing({p.cmd}, "cancelled"), "park")
  /\ activations' = Tail(activations)
  /\ Submit(Last(frames))
  /\ UNCHANGED <<sessionVars, queueVars, taken, batch, frameTokens, waiting,
                 activeCount, timeVars, surface, ran, answers>>

(* virtualParkStep: a human takes over while virtual time is parked.  Seen *)
(* by the poll at its top, it ends the queued work; seen by the poll of    *)
(* its timer, it only takes time back.                                     *)
HumanParked ==
  /\ rt = "park" /\ clock = "virtual"
  /\ \/ Preempt("park")
     \/ /\ ForceWall
        /\ UNCHANGED <<rt, ret, closing, frameTokens, activations, frames, waiting>>
  /\ UNCHANGED <<sessionVars, queueVars, taken, batch, activeCount, credits, surface, ran,
                 answers>>

(* The platform gives the application a new surface.                       *)
SurfaceCreated ==
  /\ rt = "park" /\ ~surface
  /\ surface' = TRUE
  /\ UNCHANGED <<sessionVars, queueVars, rt, ret, taken, batch, closing, workVars, timeVars,
                 ran, answers>>

RuntimeStep ==
  \/ StartTurn \/ Fence
  \/ \E x \in closing : CompleteOne(x)
  \/ \E ready \in BOOLEAN : RenderCompletion(ready)
  \/ ClaimTake \/ ClaimClear \/ AdmitDone
  \/ \E c \in Range(batch) : Admit(c)
  \/ StartTokenFrame \/ StartWallFrame \/ NoFrame
  \/ \E p \in FrameCommands \cup waiting, ok \in BOOLEAN : JobDone(p, ok)
  \/ \E human, lost \in BOOLEAN : FrameEvents(human, lost)
  \/ AfterPreempt
  \/ FrameWithoutCommand \/ ActivateLost
  \/ \E jobs \in 0..MaxJobs, failed \in BOOLEAN : Activate(jobs, failed)
  \/ HumanParked \/ SurfaceCreated
=============================================================================
