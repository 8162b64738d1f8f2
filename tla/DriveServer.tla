---------------------------- MODULE DriveServer ----------------------------
(***************************************************************************)
(* The connections of drive/server/server.go composed with the sessions    *)
(* and the runtime port.  A connection is a session and a generation; its  *)
(* reader submits requests, in any order and as often as the client likes  *)
(* to retry; its end detaches the session and signals the generation as    *)
(* lost.  A resume signals the generation it replaces.                     *)
(***************************************************************************)
EXTENDS DrivePort

CONSTANTS MaxSends,  \* bound: requests that are sent in one behaviour
          Workloads  \* what the clients may send, sets of methods by ID, and
                     \* the disturbances that may happen meanwhile

Disturbances == {"surface lost", "silence", "expiry"}

ASSUME ServerAssumption ==
    /\ MaxSends \in Nat
    /\ Workloads \subseteq [sends : [IDs -> SUBSET Methods], events : SUBSET Disturbances]

VARIABLES
  conn,       \* session -> generation -> where the connection is
  workload,   \* what happens in this behaviour
  sends       \* requests sent so far

serverVars == <<conn, workload, sends>>
vars == <<sessionVars, portVars, serverVars>>

ConnStates == {"none", "open", "lost", "resumed", "closed"}

Init ==
  /\ SessionsInit
  /\ PortInit
  /\ conn = [s \in Sessions |-> [g \in 1..MaxGen |-> "none"]]
  /\ workload \in Workloads
  /\ sends = 0

SetConn(s, g, where) == conn' = [conn EXCEPT ![s][g] = where]

Create(s) ==
  /\ CreateSession(s)
  /\ SetConn(s, 1, "open")
  /\ UNCHANGED <<portVars, workload, sends>>

Mutant_Resume(s) ==
  /\ AttachSession(s)
  /\ SetConn(s, gen[s] + 1, "open")
  /\ UNCHANGED <<portVars, workload, sends>>

(* resume: the session is attached to the next generation first, and the   *)
(* old one is signalled afterwards.                                        *)
Resume(s) ==
  /\ AttachSession(s)
  /\ SetConn(s, gen[s] + 1, "resumed")
  /\ UNCHANGED <<portVars, workload, sends>>

ResumeExpired(s) == ExpireSession(s) /\ UNCHANGED <<portVars, serverVars>>

PortStep == UNCHANGED <<sessionVars, rt, ret, taken, batch, closing, workVars, timeVars,
                        surface, ran, answers>>

(* dispatch.                                                               *)
Dispatch(s, g, id, m) ==
  /\ conn[s][g] = "open"
  /\ sends < MaxSends
  /\ SubmitCommand([s |-> s, g |-> g, id |-> id, m |-> m])
  /\ sends' = sends + 1
  /\ PortStep /\ UNCHANGED <<conn, workload>>

(* close: only the generation that is attached is detached and signalled.  *)
Close(s, g) ==
  /\ conn[s][g] = "open"
  /\ DetachGeneration(s, g)
  /\ SetConn(s, g, IF Attached(s, g) THEN "lost" ELSE "closed")
  /\ UNCHANGED <<portVars, workload, sends>>

(* close signals its own generation, resume the one it replaced.           *)
Signal(s, g) ==
  /\ \/ conn[s][g] = "lost" /\ SignalControl(<<s, g>>) /\ SetConn(s, g, "closed")
     \/ conn[s][g] = "resumed" /\ SignalControl(<<s, g - 1>>) /\ SetConn(s, g, "open")
  /\ PortStep /\ UNCHANGED <<workload, sends>>

(* leaseLoop: a connection of the time owner's session that has been       *)
(* silent for too long is signalled, although it is still attached.        *)
LeaseExpired(s, g) ==
  /\ conn[s][g] = "open"
  /\ owner # NoOwner /\ owner[1] = s
  /\ SignalControl(<<s, g>>)
  /\ PortStep /\ UNCHANGED serverVars

Happens(event) == event \in workload.events

Next ==
  \/ /\ RuntimeStep /\ UNCHANGED serverVars
     /\ surface /\ ~surface' => Happens("surface lost")
  \/ RenderDone /\ UNCHANGED serverVars
  \/ \E s \in Sessions :
       Create(s) \/ Resume(s) \/ (Happens("expiry") /\ ResumeExpired(s))
  \/ \E s \in Sessions, g \in 1..MaxGen :
       \/ Close(s, g) \/ Signal(s, g) \/ (Happens("silence") /\ LeaseExpired(s, g))
       \/ \E id \in IDs : \E m \in workload.sends[id] : Dispatch(s, g, id, m)

Spec == Init /\ [][Next]_vars

-----------------------------------------------------------------------------
(* Properties.                                                             *)

LedgerOK(l) ==
  /\ l.highWater \in 0..MaxID
  /\ DOMAIN l.entries \subseteq 1..l.highWater
  /\ \A i \in DOMAIN l.entries :
       l.entries[i] \in [canonical : Methods, state : {"admitted", "terminal"},
                         admitted : BOOLEAN, outcome : Outcomes \cup {None},
                         payload : {0, Payload}]
  /\ l.bytes \in Int

PendingCommands == [cmd : Commands, jobs : 0..MaxJobs, failed : BOOLEAN]

(* Every variable of the sessions, the port and the server has its type.   *)
TypeOK ==
  /\ state \in [Sessions -> {"none", "attached", "detached", "gone"}]
  /\ gen \in [Sessions -> 0..MaxGen]
  /\ \A s \in Sessions : LedgerOK(ledger[s])
  /\ inbox \in Seq(Commands) /\ batch \in Seq(Commands)
  /\ controlKeys \subseteq Keys /\ taken \subseteq Keys
  /\ {nonEmpty, controlWanted, surface} \subseteq BOOLEAN
  /\ closing \subseteq [cmd : Commands, outcome : Outcomes]
  /\ frameTokens \in Seq(Commands)
  /\ Range(activations) \cup FrameCommands \cup waiting \subseteq PendingCommands
  /\ \A f \in Range(frames) : f.token \subseteq Commands
                             /\ f.stage \in {"open", "sent", "acked", "skipped"}
  /\ activeCount \in Nat /\ credits \in 0..FrameCredits
  /\ clock \in {"wall", "virtual"} /\ owner \in Keys \cup {NoOwner}
  /\ conn \in [Sessions -> [1..MaxGen -> ConnStates]]
  /\ workload \in Workloads /\ sends \in 0..MaxSends

(* An operation takes effect at most once, whatever the client retries on  *)
(* whichever connection and whatever the ledger has forgotten, and never   *)
(* unless its ID was claimed: the ledger's first sentence, "at-most-once   *)
(* protection that outlives individual results".                           *)
AtMostOnce ==
  \A s \in Sessions, i \in IDs :
    /\ ran[s][i] <= 1
    /\ ran[s][i] = 1 => i <= ledger[s].highWater

(* Everyone who is told the outcome of an operation that has ended is told *)
(* the same, by the operation itself and by replays of the ledger, and it  *)
(* is what the ledger retains.  Only of a rejected operation may a retry   *)
(* be told something else, that it is pending (drive_port.go:1108-1122).   *)
Heard(s, i) == answers[s][i] \ {"pending"}

OneAnswer ==
  \A s \in Sessions, i \in IDs :
    /\ Cardinality(Heard(s, i)) <= 1
    /\ i \in Terminals(ledger[s]) => Heard(s, i) = {ledger[s].entries[i].outcome}
    /\ "pending" \in answers[s][i] => Heard(s, i) = {"rejected"}

(* "Retried retained ID: replay the original outcome; never schedule"      *)
(* (drive_port.go:468; drive.md:32-33): nothing but its outcome is ever    *)
(* told of an operation that has ended.                                    *)
RetriesReplayed ==
  \A s \in Sessions, i \in IDs : Cardinality(answers[s][i]) <= 1

(* An operation that the ledger holds open is in exactly one place of the  *)
(* runtime, where its end, a cancel, a fence or a preemption finds it (a   *)
(* frame that was skipped for want of a surface is such a place, although  *)
(* no acknowledgment comes for it); and the runtime works on nothing of a  *)
(* live session that the ledger has closed.                                *)
Places(s, i) ==
  LET Is(c) == c.s = s /\ c.id = i
  IN Cardinality({k \in DOMAIN frameTokens : Is(frameTokens[k])})
     + Cardinality({k \in DOMAIN activations : Is(activations[k].cmd)})
     + Cardinality({k \in DOMAIN frames : \E c \in frames[k].token : Is(c)})
     + Cardinality({p \in FrameCommands \cup waiting : Is(p.cmd)})
     + Cardinality({x \in closing : Is(x.cmd)})

OpenIsCarried ==
  \A s \in Sessions, i \in IDs :
    InTable(s) => Places(s, i) = IF Open(ledger[s], i) THEN 1 ELSE 0

(* Work, and the ownership of time, of a generation that is no longer      *)
(* attached is only there while a signal for that generation is on its     *)
(* way: fenceGeneration will not miss what a lost connection left behind.  *)
SignalOnItsWay(key) ==
  \/ key \in controlKeys \cup taken
  \/ conn[key[1]][key[2]] = "lost"
  \/ key[2] < MaxGen /\ conn[key[1]][key[2] + 1] = "resumed"

LostIsSignalled ==
  \A key \in {Key(c) : c \in TokenWork \cup CommandWork} \cup ({owner} \ {NoOwner}) :
    Attached(key[1], key[2]) \/ SignalOnItsWay(key)

(* Commands run one at a time, and the counter that admission compares     *)
(* with maxPendingDriveCommands is the number of commands in flight.       *)
CommandsCounted ==
  /\ Cardinality(FrameCommands) + Cardinality(waiting) <= 1
  /\ activeCount = Len(activations) + Cardinality(FrameCommands) + Cardinality(waiting)
                   + Cardinality({x \in closing : x.cmd.m = "execute"})

(* The byte counter of a ledger is the size of what it retains, and it is  *)
(* over its bounds only by operations that are still open.                 *)
RetentionExact ==
  \A s \in Sessions :
    LET l == ledger[s]
    IN /\ l.bytes = BytesOf(l, DOMAIN l.entries)
       /\ OverBounds(l) => Terminals(l) = {}

(* The render credits that are neither free nor with a frame on its way:   *)
(* none, whenever the runtime is parked.  "ReleaseFrameReservation returns *)
(* a frame group when a reserved frame exits before renderer submission"   *)
(* (runtime/pipeline.go).                                                  *)
CreditsReturned ==
  rt = "park" => credits + Cardinality(Staged("sent")) = FrameCredits

(* The ledgers, whatever happens around them, are write-once registers.    *)
Register ==
  [s \in Sessions |-> [i \in IDs |->
     CASE i > ledger[s].highWater -> "unclaimed"
       [] Open(ledger[s], i) -> "open"
       [] i \in Terminals(ledger[s]) -> ledger[s].entries[i].outcome
       [] OTHER -> "forgotten"]]

Abstract == INSTANCE OutcomeRegister WITH register <- Register

(* What clients see of an ID is a write-once register: claimed in order,   *)
(* settled once, and never different afterwards except forgotten.          *)
ImplementsRegister == Abstract!Spec
=============================================================================
