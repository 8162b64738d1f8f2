-------------------------- MODULE StreamDelivery --------------------------
(***************************************************************************)
(* Delivery of the hub's streams to the connections of                     *)
(* drive/server/server.go: the hub of module StreamHub, the runtime thread *)
(* that appends to it, and for each connection its reader, its stream      *)
(* loop, the goroutine that awaits a sub.watch reply, and its close.       *)
(*                                                                         *)
(* The runtime thread appends and executes sub.watch, sub.cancel and       *)
(* session.revoke.  Append signals the ready streams after it has given up *)
(* h.mu, one by one, through the callback Listen installs.                 *)
(***************************************************************************)
EXTENDS StreamHub

VARIABLES
  toNotify,     \* streams that fireNotify has still to signal
  conn,         \* connection -> "open", or how far close has come
  streamDrain,  \* connection -> its wake-up channel of capacity one holds a token
  bound,        \* connection -> its streams map
  loop,         \* connection -> the streams drainStreams has still to drain
  ackSignal,    \* connection -> the reader is about to signal after an Ack
  await,        \* stream -> the awaitCommand goroutine of its sub.watch
  terminals     \* history: stream -> sub.expired notifications sent

connVars == <<toNotify, conn, streamDrain, bound, loop, ackSignal, await, terminals>>
vars == <<hubVars, connVars>>

Init ==
  /\ HubInit
  /\ toNotify = {}
  /\ conn = [c \in Conns |-> "open"]
  /\ streamDrain = [c \in Conns |-> FALSE]
  /\ bound = [c \in Conns |-> {}] /\ loop = [c \in Conns |-> {}]
  /\ ackSignal = [c \in Conns |-> FALSE]
  /\ await = [s \in Streams |-> "none"]
  /\ terminals = [s \in Streams |-> 0]

SignalDrain(c) == streamDrain' = [streamDrain EXCEPT ![c] = TRUE]

-----------------------------------------------------------------------------
(* The runtime thread.                                                     *)

(* Append a record and collect the streams to signal.                      *)
Emit(k, aged) ==
  /\ toNotify = {}
  /\ Publish(k, aged)
  /\ toNotify' = Signalled
  /\ UNCHANGED <<conn, streamDrain, bound, loop, ackSignal, await, terminals>>

(* One call of notify: it finds the connection through connByID, from      *)
(* which close removes it.                                                 *)
Notify(s) ==
  /\ s \in toNotify
  /\ toNotify' = toNotify \ {s}
  /\ IF conn[Conn[s]] = "open" THEN SignalDrain(Conn[s]) ELSE UNCHANGED streamDrain
  /\ UNCHANGED <<hubVars, conn, bound, loop, ackSignal, await, terminals>>

(* sub.watch is executed while the session is still attached.              *)
SubWatch(s, p, f, k) ==
  /\ toNotify = {} /\ conn[Conn[s]] # "closed"
  /\ Watch(s, p, f, k)
  /\ await' = [await EXCEPT ![s] = "reply"]
  /\ UNCHANGED <<toNotify, conn, streamDrain, bound, loop, ackSignal, terminals>>

SubCancel(s) ==
  /\ toNotify = {} /\ conn[Conn[s]] # "closed"
  /\ Cancel(s)
  /\ UNCHANGED connVars

Revoke(x) ==
  /\ toNotify = {} /\ \E s \in Streams : Session[s] = x /\ state[s] = "live"
  /\ CloseSession(x)
  /\ UNCHANGED connVars

-----------------------------------------------------------------------------
(* bindStream, in the goroutine that awaits the reply: it reads the state, *)
(* adds the stream to the connection's map and signals a live stream or    *)
(* reports a terminal one.  After close it may give up instead.            *)

BindDelivery(s) ==
  /\ await[s] = "reply"
  /\ await' = [await EXCEPT ![s] = IF state[s] = "live" THEN "live" ELSE "terminal"]
  /\ UNCHANGED <<hubVars, toNotify, conn, streamDrain, bound, loop, ackSignal, terminals>>

BindRegister(s) ==
  /\ await[s] \in {"live", "terminal"} /\ s \notin bound[Conn[s]]
  /\ bound' = [bound EXCEPT ![Conn[s]] = @ \cup {s}]
  /\ await' = [await EXCEPT ![s] = IF @ = "live" THEN "signal" ELSE "report"]
  /\ UNCHANGED <<hubVars, toNotify, conn, streamDrain, loop, ackSignal, terminals>>

BindSignal(s) ==
  /\ await[s] = "signal"
  /\ await' = [await EXCEPT ![s] = "done"]
  /\ SignalDrain(Conn[s])
  /\ UNCHANGED <<hubVars, toNotify, conn, bound, loop, ackSignal, terminals>>

BindReport(s) ==
  /\ await[s] = "report"
  /\ await' = [await EXCEPT ![s] = "done"]
  /\ terminals' = [terminals EXCEPT ![s] = @ + 1]
  /\ UNCHANGED <<hubVars, toNotify, conn, streamDrain, bound, loop, ackSignal>>

AwaitGivesUp(s) ==
  /\ await[s] = "reply" /\ conn[Conn[s]] # "open"
  /\ await' = [await EXCEPT ![s] = "done"]
  /\ UNCHANGED <<hubVars, toNotify, conn, streamDrain, bound, loop, ackSignal, terminals>>

-----------------------------------------------------------------------------
(* streamLoop and drainStreams.                                            *)

LoopWakes(c) ==
  /\ loop[c] = {} /\ streamDrain[c]
  /\ streamDrain' = [streamDrain EXCEPT ![c] = FALSE]
  /\ loop' = [loop EXCEPT ![c] = bound[c]]
  /\ UNCHANGED <<hubVars, toNotify, conn, bound, ackSignal, await, terminals>>

LoopDelivers(c, s, e) ==
  /\ s \in loop[c]
  /\ DrainTo(s, e)
  /\ loop' = [loop EXCEPT ![c] = @ \ {s}]
  /\ UNCHANGED <<toNotify, conn, streamDrain, bound, ackSignal, await, terminals>>

(* An expired stream, or one that Drain expires, is reported and unbound.  *)
LoopExpires(c, s) ==
  /\ s \in loop[c]
  /\ DrainExpire(s) \/ (state[s] = "expired" /\ UNCHANGED hubVars)
  /\ loop' = [loop EXCEPT ![c] = @ \ {s}]
  /\ bound' = [bound EXCEPT ![c] = @ \ {s}]
  /\ terminals' = [terminals EXCEPT ![s] = @ + 1]
  /\ UNCHANGED <<toNotify, conn, streamDrain, ackSignal, await>>

LoopSkips(c, s) ==
  /\ s \in loop[c] /\ state[s] = "cancelled"
  /\ loop' = [loop EXCEPT ![c] = @ \ {s}]
  /\ UNCHANGED <<hubVars, toNotify, conn, streamDrain, bound, ackSignal, await, terminals>>

-----------------------------------------------------------------------------
(* The reader handles sub.ack; the client acknowledges what it received.   *)
ClientAck(s, p) ==
  LET c == Conn[s] IN
  /\ conn[c] = "open" /\ ~ackSignal[c]
  /\ p \in delivered[s]
  /\ Ack(s, p)
  /\ ackSignal' = [ackSignal EXCEPT ![c] = AckSendable(s)']
  /\ UNCHANGED <<toNotify, conn, streamDrain, bound, loop, await, terminals>>

AckSignals(c) ==
  /\ ackSignal[c]
  /\ ackSignal' = [ackSignal EXCEPT ![c] = FALSE]
  /\ SignalDrain(c)
  /\ UNCHANGED <<hubVars, toNotify, conn, bound, loop, await, terminals>>

(* close, by any goroutine: the peer is gone, the outbox is full or the    *)
(* server stops.  It leaves connByID, then cancels the streams, then       *)
(* detaches the session.                                                   *)
CloseBegins(c) ==
  /\ conn[c] = "open"
  /\ conn' = [conn EXCEPT ![c] = "unlinked"]
  /\ UNCHANGED <<hubVars, toNotify, streamDrain, bound, loop, ackSignal, await, terminals>>

CloseStreams(c) ==
  /\ conn[c] = "unlinked"
  /\ CloseConnection(c)
  /\ conn' = [conn EXCEPT ![c] = "cancelled"]
  /\ UNCHANGED <<toNotify, streamDrain, bound, loop, ackSignal, await, terminals>>

CloseDetaches(c) ==
  /\ conn[c] = "cancelled"
  /\ conn' = [conn EXCEPT ![c] = "closed"]
  /\ UNCHANGED <<hubVars, toNotify, streamDrain, bound, loop, ackSignal, await, terminals>>

-----------------------------------------------------------------------------

AwaitNext(s) ==
  BindDelivery(s) \/ BindRegister(s) \/ BindSignal(s) \/ BindReport(s) \/ AwaitGivesUp(s)

LoopNext(c) ==
  \/ LoopWakes(c)
  \/ \E s \in Streams : LoopExpires(c, s) \/ LoopSkips(c, s)
  \/ \E s \in Streams, e \in Positions : LoopDelivers(c, s, e)

Next ==
  \/ \E k \in Kinds, aged \in 0..Len(records) : Emit(k, aged)
  \/ \E s \in Streams : Notify(s) \/ SubCancel(s) \/ AwaitNext(s)
  \/ \E s \in Streams, p \in Positions, f \in Filters, k \in Credits : SubWatch(s, p, f, k)
  \/ \E s \in Streams, p \in Positions : ClientAck(s, p)
  \/ \E x \in Sessions : Revoke(x)
  \/ \E c \in Conns : LoopNext(c) \/ AckSignals(c)
  \/ \E c \in Conns : CloseBegins(c) \/ CloseStreams(c) \/ CloseDetaches(c)

Spec == Init /\ [][Next]_vars

(* The goroutines run; the peer, the operator and the producer of records  *)
(* need not.                                                               *)
Fairness ==
  /\ \A s \in Streams : WF_vars(Notify(s)) /\ WF_vars(AwaitNext(s))
  /\ \A c \in Conns : WF_vars(LoopNext(c)) /\ WF_vars(AckSignals(c))

FairSpec == Spec /\ Fairness

-----------------------------------------------------------------------------
(* Properties.                                                             *)

(* Every variable of the hub, of the connections and of their goroutines   *)
(* has its type.                                                           *)
TypeOK ==
  /\ HubTypeOK
  /\ toNotify \subseteq Streams
  /\ conn \in [Conns -> {"open", "unlinked", "cancelled", "closed"}]
  /\ streamDrain \in [Conns -> BOOLEAN] /\ ackSignal \in [Conns -> BOOLEAN]
  /\ bound \in [Conns -> SUBSET Streams] /\ loop \in [Conns -> SUBSET Streams]
  /\ await \in [Streams -> {"none", "reply", "live", "terminal", "signal", "report", "done"}]
  /\ terminals \in [Streams -> Nat]

(* No lost wake-up: when an unfiltered live stream has a record to deliver *)
(* and credit for it, someone will signal or drain it (server.go:157-171,  *)
(* 971-974, 987-992, 1011-1016): whatever the order of Append's signals,   *)
(* the bind that follows the watch reply, acks and the loop.               *)
WillBeDrained(s) ==
  LET c == Conn[s] IN
  \/ streamDrain[c] \/ ackSignal[c] \/ s \in loop[c] \/ s \in toNotify
  \/ await[s] \in {"reply", "live", "signal"}

NoLostWakeup ==
  \A s \in Streams :
     filter[s] = Kinds /\ Sendable(s) /\ conn[Conn[s]] = "open" => WillBeDrained(s)

(* Every record an unfiltered stream has credit for is delivered, unless   *)
(* the stream ends or its connection closes.                               *)
Delivers ==
  \A s \in Streams :
     (Sendable(s) /\ filter[s] = Kinds) ~> (~Sendable(s) \/ conn[Conn[s]] # "open")

(* The subscriber of an expired stream is told so.                         *)
ExpiryReported ==
  \A s \in Streams :
     (state[s] = "expired") ~> (terminals[s] > 0 \/ conn[Conn[s]] # "open")
=============================================================================
