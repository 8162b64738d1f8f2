------------------------------- MODULE Stores -------------------------------
(***************************************************************************)
(* The reactive stores: store/scope.go, value.go, map.go, collection.go,   *)
(* derived.go, invalidation.go and transaction.go over signal/signal.go,   *)
(* driven by the phases of runtime/frame.go and observed by the collection *)
(* binder of marks/data/join.go.                                           *)
(*                                                                         *)
(* Everything here runs on the runtime thread.  A mutation changes a store *)
(* and its version at once and queues a notification in the store's scope; *)
(* the signal phase delivers the queues of the scope tree, again and again *)
(* until all are empty; the flush recomputes the deriveds that were marked *)
(* dirty, in the order of their rank; projection only reads.  The          *)
(* application acts before the signals, inside signal handlers and during  *)
(* layout.                                                                 *)
(*                                                                         *)
(* A call that takes several steps (a computation with the computations it *)
(* needs, the callbacks of a notification, a commit) keeps what it has     *)
(* still to do in stack, marking and committing; until it is through       *)
(* nothing else happens.                                                   *)
(*                                                                         *)
(* The value of a store is the number of its mutations, and a computation  *)
(* adds up what it reads: a sum with a part that is out of date is too     *)
(* small.                                                                  *)
(***************************************************************************)
EXTENDS Collection

CONSTANTS
  ScopeOrder,    \* the scopes in preorder, the application's scope first
  Parent,        \* the parent of every other scope
  Value, Map, Coll,  \* a value store, a map store and the collection
  Deriveds,      \* the derived values
  Sources,       \* derived -> the sequence of its declared sources
  Gated,         \* deriveds that read all sources only if the first is even
  Owner,         \* node -> the scope that owns it
  MapKeys,       \* keys of the map store
  Scenarios      \* what an application uses: mutations, and how many of them at
                 \* most (a bound), deriveds and a binder

StoreNodes == {Value, Map, Coll}
Nodes == StoreNodes \cup Deriveds
Scopes == Range(ScopeOrder)
Root == ScopeOrder[1]

(* A scope is created under one that exists (Child), so it comes after it  *)
(* in preorder.                                                            *)
ASSUME ScopeAssumption ==
    /\ ScopeOrder \in Seq(Scopes) /\ ScopeOrder # <<>> /\ IsInjective(ScopeOrder)
    /\ Parent \in [Scopes \ {Root} -> Scopes]
    /\ \A k \in 2..Len(ScopeOrder) : \E j \in 1..(k - 1) : Parent[ScopeOrder[k]] = ScopeOrder[j]

(* The sources of a derived are arguments of its constructor, so they      *)
(* exist before it: there is a height that no source reaches.              *)
ASSUME NodeAssumption ==
    /\ Value # Map /\ Value # Coll /\ Map # Coll
    /\ StoreNodes \cap Deriveds = {}
    /\ IsFiniteSet(Deriveds)
    /\ Owner \in [Nodes -> Scopes]
    /\ Sources \in [Deriveds -> Seq(Nodes)]
    /\ \E height \in [Deriveds -> 0..Cardinality(Deriveds)] :
         \A d \in Deriveds : \A k \in DOMAIN Sources[d] :
           Sources[d][k] \in Deriveds => height[Sources[d][k]] < height[d]

MapMutations ==
  [kind : {"put", "delete"}, arg : MapKeys] \cup [kind : {"clear"}, arg : {NoID}]

Mutations ==
  [store : {Value}, op : [kind : {"set"}, arg : {NoID}]]
  \cup [store : {Map}, op : MapMutations]
  \cup [store : {Coll}, op : ItemMutations]

ASSUME ScenariosAssumption ==
    \A a \in Scenarios :
      /\ a.mutations \subseteq Mutations
      /\ a.deriveds \subseteq Deriveds
      /\ a.binder \in BOOLEAN
      /\ a.bound \in Nat

VARIABLES
  phase,     \* of the frame: "work", "signals", "layout", "flush" or "project"
  open,      \* the scopes that are not closed
  entries,   \* the keys of the map store
  made,      \* the deriveds that exist, in the order of their registration
  rank,      \* derived -> its rank
  value,     \* node -> its value
  version,   \* node -> its version
  init,      \* the deriveds that have been computed
  dirty,     \* the deriveds that are dirty
  seen,      \* derived -> the source versions of its last computation
  list,      \* scope -> its dirty list
  queue,     \* scope -> the notifications it has queued
  batch,     \* the notifications that are being delivered
  visit,     \* how many scopes of ScopeOrder this pass or flush has visited
  worked,    \* this pass has delivered something
  marking,   \* the deriveds whose callback is still to run
  stack,     \* the computations under way, the innermost last
  work,      \* what is left of the list that is being flushed
  staged,    \* the mutations of the open transaction
  committing, \* it is being applied
  binder,    \* the collection's mirror
  ahead,     \* it was reconciled while events of the collection were queued
  late,      \* a store changed after the signal phase of this frame
  mutations, \* mutations so far
  scenario   \* what the application of this behaviour uses

contents == <<coll, entries>>
caches == <<value, version, init, dirty, seen>>
lists == <<list, queue>>
passes == <<phase, batch, visit, worked, work>>
tx == <<staged, committing>>
mirror == <<binder, ahead>>
registry == <<open, made, rank>>
app == <<mutations, scenario>>
vars == <<contents, caches, lists, passes, marking, stack, tx, mirror, registry, late, app>>

Init ==
  /\ coll = EmptyCollection /\ entries = {}
  /\ value = [n \in Nodes |-> 0] /\ version = [n \in Nodes |-> 0]
  /\ init = {} /\ dirty = {} /\ seen = [d \in Deriveds |-> <<>>]
  /\ list = [s \in Scopes |-> {}] /\ queue = [s \in Scopes |-> <<>>]
  /\ phase = "work" /\ batch = <<>> /\ visit = 0 /\ worked = FALSE /\ work = {}
  /\ marking = {} /\ stack = <<>>
  /\ staged = <<>> /\ committing = FALSE
  /\ binder = DetachedBinder /\ ahead = FALSE
  /\ open = Scopes /\ made = <<>> /\ rank = [d \in Deriveds |-> 0]
  /\ late = FALSE
  /\ mutations = 0 /\ scenario \in Scenarios

Made == Range(made)
Live(d) == d \in Made /\ Owner[d] \in open

(* The deriveds that a node notifies: they subscribe when they are made    *)
(* and their scope releases them when it closes.                           *)
Targets(n) == {d \in Made : Owner[d] \in open /\ n \in Range(Sources[d])}

(* A notification: the callbacks that were registered when it was made,    *)
(* and the event that is emitted after them.                               *)
Note(n, targets, event) == [node |-> n, targets |-> targets, event |-> event]

(* enqueueSignal.                                                          *)
Enqueued(note) ==
  IF Owner[note.node] \in open
  THEN [queue EXCEPT ![Owner[note.node]] = Append(@, note)] ELSE queue

-----------------------------------------------------------------------------
(* Deriveds.                                                               *)

Versions(d) == [k \in DOMAIN Sources[d] |-> version[Sources[d][k]]]

Clean(d) == d \in init /\ d \notin dirty

(* The test of Get and flushIfDirty: the cached value will do.             *)
Current(d) == Clean(d) /\ seen[d] = Versions(d)

Mutant_MarkDirty(d) ==
  /\ dirty' = dirty \cup {d}
  /\ list' = [list EXCEPT ![Owner[d]] = @ \cup {d}]
  /\ UNCHANGED queue

(* markDirty: a derived that was clean passes the news on, by a signal.    *)
MarkDirty(d) ==
  /\ dirty' = dirty \cup {d}
  /\ list' = [list EXCEPT ![Owner[d]] = @ \cup {d}]
  /\ queue' = IF Clean(d) THEN Enqueued(Note(d, Targets(d), Skipped)) ELSE queue

(* One of the callbacks that a notification or a new value runs.  Slots    *)
(* are used again, so the order is not that of registration.               *)
Mark(d) ==
  /\ d \in marking
  /\ MarkDirty(d)
  /\ marking' = marking \ {d}
  /\ UNCHANGED <<contents, value, version, init, seen, passes, stack, tx, mirror, registry,
                 late, app>>

(* How many of its sources a computation reads, given those read first.    *)
Count(d, read) ==
  IF d \in Gated /\ read # <<>> /\ read[1] % 2 = 1 THEN 1 ELSE Len(Sources[d])

Computed(read) == SumFunction(read)

(* Get starts to compute.                                                  *)
Compute(d) == stack' = Append(stack, [node |-> d, read |-> <<>>])

(* A computation reads its next source; a derived that is not up to date   *)
(* computes first.                                                         *)
ReadSource ==
  /\ stack # <<>> /\ marking = {}
  /\ LET top == Last(stack)
         source == Sources[top.node][Len(top.read) + 1]
     IN /\ Len(top.read) < Count(top.node, top.read)
        /\ IF source \in StoreNodes \/ Current(source)
           THEN stack' = [stack EXCEPT ![Len(stack)].read = Append(@, value[source])]
           ELSE Compute(source)
  /\ UNCHANGED <<contents, caches, lists, passes, marking, tx, mirror, registry, late, app>>

(* A computation is done: a new value bumps the version, marks the         *)
(* dependents dirty on the spot and queues OnChange, which no callback     *)
(* hears (behind what they queue; here before, which no one can tell).     *)
(* The versions of the sources are taken now, not when they were read.     *)
Finish ==
  /\ stack # <<>> /\ marking = {}
  /\ LET top == Last(stack)
         d == top.node
     IN /\ Len(top.read) = Count(d, top.read)
        /\ value' = [value EXCEPT ![d] = Computed(top.read)]
        /\ version' = [version EXCEPT ![d] = @ + 1]
        /\ init' = init \cup {d}
        /\ dirty' = dirty \ {d}
        /\ seen' = [seen EXCEPT ![d] = Versions(d)]
        /\ marking' = Targets(d)
        /\ queue' = Enqueued(Note(d, {}, Skipped))
  /\ stack' = Front(stack)
  /\ UNCHANGED <<contents, list, passes, tx, mirror, registry, late, app>>

-----------------------------------------------------------------------------
(* What the application does: before the signals, in a signal handler and  *)
(* during layout.  Stores are fenced while projection runs, and cannot be  *)
(* used once their scope is closed.                                        *)

Idle == stack = <<>> /\ marking = {} /\ ~committing

AppActs == Idle /\ (phase \in {"work", "layout"} \/ (phase = "signals" /\ worked))

MapEntries(keys, op) ==
  CASE op.kind = "put" -> keys \cup {op.arg}
    [] op.kind = "delete" -> keys \ {op.arg}
    [] OTHER -> {}

(* What a mutation will report.  Removing what is not there is skipped.    *)
Event(m) ==
  CASE m.store = Coll -> MutationEvent(coll, m.op)
    [] m.store = Map /\ m.op.kind # "put" /\ MapEntries(entries, m.op) = entries -> Skipped
    [] OTHER -> Noted(m.op.kind, NoID, 0)

Mutant_Apply(m) ==
  /\ coll' = IF m.store = Coll THEN Mutated(coll, m.op) ELSE coll
  /\ entries' = IF m.store = Map THEN MapEntries(entries, m.op) ELSE entries
  /\ value' = [value EXCEPT ![m.store] = @ + 1]
  /\ queue' = Enqueued(Note(m.store, Targets(m.store), Event(m)))
  /\ late' = (late \/ phase = "layout")
  /\ UNCHANGED version

(* One mutation: the change, the version and the notification.             *)
Apply(m) ==
  /\ coll' = IF m.store = Coll THEN Mutated(coll, m.op) ELSE coll
  /\ entries' = IF m.store = Map THEN MapEntries(entries, m.op) ELSE entries
  /\ value' = [value EXCEPT ![m.store] = @ + 1]
  /\ version' = [version EXCEPT ![m.store] = @ + 1]
  /\ queue' = Enqueued(Note(m.store, Targets(m.store), Event(m)))
  /\ late' = (late \/ phase = "layout")

(* A call outside a transaction that has nothing to do queues nothing.     *)
Mutate(m) ==
  /\ AppActs
  /\ Owner[m.store] \in open
  /\ mutations < scenario.bound
  /\ mutations' = mutations + 1
  /\ IF Event(m) = Skipped THEN UNCHANGED <<contents, value, version, queue, late>>
     ELSE Apply(m)
  /\ UNCHANGED <<init, dirty, seen, list, passes, marking, stack, tx, mirror, registry,
                 scenario>>

(* The Tx calls stage, for stores of the transaction's scope only.         *)
Stage(m) ==
  /\ AppActs
  /\ Owner[m.store] \in open
  /\ \A k \in DOMAIN staged : Owner[staged[k].store] = Owner[m.store]
  /\ mutations < scenario.bound
  /\ mutations' = mutations + 1
  /\ staged' = Append(staged, m)
  /\ UNCHANGED <<contents, caches, lists, passes, marking, stack, committing, mirror,
                 registry, late, scenario>>

(* Commit applies what is staged, one mutation a step.  The notifications, *)
(* which keep the order of the mutations and are queued in the same scope, *)
(* are queued as it goes: nothing else queues in between.                  *)
Commit ==
  /\ AppActs \/ committing
  /\ staged # <<>>
  /\ LET m == Head(staged)
     IN /\ Owner[m.store] \in open
        /\ IF Event(m) = Skipped
           THEN /\ queue' = Enqueued(Note(m.store, {}, Skipped))
                /\ UNCHANGED <<contents, value, version, late>>
           ELSE Apply(m)
  /\ staged' = Tail(staged)
  /\ committing' = (Tail(staged) # <<>>)
  /\ UNCHANGED <<init, dirty, seen, list, passes, marking, stack, mirror, registry, app>>

Rollback ==
  /\ AppActs
  /\ staged # <<>>
  /\ staged' = <<>>
  /\ UNCHANGED <<contents, caches, lists, passes, marking, stack, committing, mirror,
                 registry, late, app>>

(* The chain of parents, from the scope itself on.                         *)
Ancestors(s) ==
  {t \in Scopes : \A up \in SUBSET Scopes :
                    s \in up /\ (\A x \in up \ {Root} : Parent[x] \in up) => t \in up}

(* NewDerived: it starts dirty, in the list of its scope, ranked above its *)
(* derived sources, which are of its scope or of an ancestor.              *)
NewDerived(d) ==
  /\ AppActs
  /\ d \notin Made /\ Owner[d] \in open
  /\ \A x \in Range(Sources[d]) :
       (x \in Deriveds => x \in Made) /\ Owner[x] \in Ancestors(Owner[d])
  /\ made' = Append(made, d)
  /\ rank' = [rank EXCEPT ![d] = Max({0} \cup {rank[x] + 1 : x \in Range(Sources[d]) \cap Deriveds})]
  /\ dirty' = dirty \cup {d}
  /\ list' = [list EXCEPT ![Owner[d]] = @ \cup {d}]
  /\ UNCHANGED <<contents, value, version, init, seen, queue, passes, marking, stack, tx,
                 mirror, open, late, app>>

(* A read of a derived, in projection too.  What is up to date is returned *)
(* as it is.                                                               *)
Read(d) ==
  /\ AppActs \/ (Idle /\ phase = "project")
  /\ Live(d) /\ ~Current(d)
  /\ Compute(d)
  /\ UNCHANGED <<contents, caches, lists, passes, marking, tx, mirror, registry, late, app>>

(* Close: the scope and those below it drop their queues and their lists   *)
(* and empty and release what they own.  The application's scope stays.    *)
Below(s) == {x \in open : s \in Ancestors(x)}

Close(s) ==
  /\ AppActs
  /\ s \in open \ {Root}
  /\ LET gone == {n \in StoreNodes \cup Made : Owner[n] \in Below(s)}
     IN /\ coll' = IF Coll \in gone THEN EmptyCollection ELSE coll
        /\ entries' = IF Map \in gone THEN {} ELSE entries
        /\ value' = [n \in Nodes |-> IF n \in gone THEN 0 ELSE value[n]]
        /\ init' = init \ gone
        /\ dirty' = dirty \cup (gone \cap Made)
        /\ seen' = [d \in Deriveds |-> IF d \in gone THEN <<>> ELSE seen[d]]
  /\ open' = open \ Below(s)
  /\ list' = [x \in Scopes |-> IF x \in Below(s) THEN {} ELSE list[x]]
  /\ queue' = [x \in Scopes |-> IF x \in Below(s) THEN <<>> ELSE queue[x]]
  /\ UNCHANGED <<version, passes, marking, stack, tx, mirror, made, rank, late, app>>

(* The events of the collection that are still to be delivered.            *)
Undelivered(notes) ==
  \E k \in DOMAIN notes : notes[k].node = Coll /\ notes[k].event # Skipped

(* CollectionBinder.OnAttach and OnDetach.                                 *)
Attach ==
  /\ AppActs
  /\ ~binder.on
  /\ Owner[Coll] \in open
  /\ binder' = Reconcile(coll.items)
  /\ ahead' = Undelivered(batch \o queue[Owner[Coll]])
  /\ UNCHANGED <<contents, caches, lists, passes, marking, stack, tx, registry, late, app>>

Detach ==
  /\ AppActs
  /\ binder.on
  /\ binder' = DetachedBinder
  /\ ahead' = FALSE
  /\ UNCHANGED <<contents, caches, lists, passes, marking, stack, tx, registry, late, app>>

-----------------------------------------------------------------------------
(* The frame.                                                              *)

StartSignals ==
  /\ phase = "work" /\ Idle
  /\ phase' = "signals"
  /\ visit' = 0 /\ worked' = FALSE
  /\ late' = FALSE
  /\ UNCHANGED <<contents, caches, lists, batch, work, marking, stack, tx, mirror, registry,
                 app>>

(* FlushSignals visits the tree and takes one queue after the other, in    *)
(* passes, until a pass finds nothing.                                     *)
TakeBatch ==
  /\ phase = "signals" /\ Idle
  /\ batch = <<>>
  /\ visit < Len(ScopeOrder)
  /\ LET s == ScopeOrder[visit + 1]
     IN /\ batch' = queue[s]
        /\ worked' = (worked \/ queue[s] # <<>>)
        /\ queue' = [queue EXCEPT ![s] = <<>>]
  /\ visit' = visit + 1
  /\ UNCHANGED <<contents, caches, list, phase, work, marking, stack, tx, mirror, registry,
                 late, app>>

EndPass ==
  /\ phase = "signals" /\ Idle
  /\ batch = <<>>
  /\ visit = Len(ScopeOrder)
  /\ phase' = IF worked THEN "signals" ELSE "layout"
  /\ visit' = 0 /\ worked' = FALSE
  /\ UNCHANGED <<contents, caches, lists, batch, work, marking, stack, tx, mirror, registry,
                 late, app>>

(* deliverSignalBatch: a notification of a scope that has been closed is   *)
(* dropped; the others run the callbacks that are still registered, and    *)
(* emit their event.                                                       *)
Deliver ==
  /\ phase = "signals" /\ Idle
  /\ batch # <<>>
  /\ LET note == Head(batch)
         valid == Owner[note.node] \in open
         event == IF valid /\ note.node = Coll THEN note.event ELSE Skipped
     IN /\ marking' = IF valid THEN note.targets \cap Targets(note.node) ELSE {}
        /\ binder' = BinderApply(binder, event, coll.items)
        /\ ahead' = IF binder.on /\ event.kind = "replace"
                    THEN Undelivered(Tail(batch) \o queue[Owner[Coll]])
                    ELSE ahead
  /\ batch' = Tail(batch)
  /\ UNCHANGED <<contents, caches, lists, phase, visit, worked, work, stack, tx, registry,
                 late, app>>

(* FlushDerived.                                                           *)
Flush ==
  /\ phase = "layout" /\ Idle
  /\ phase' = "flush"
  /\ visit' = 0
  /\ UNCHANGED <<contents, caches, lists, batch, worked, work, marking, stack, tx, mirror,
                 registry, late, app>>

(* flushDerivedLocal takes the list as it is now ...                       *)
FlushScope ==
  /\ phase = "flush" /\ Idle
  /\ work = {}
  /\ visit < Len(ScopeOrder)
  /\ LET s == ScopeOrder[visit + 1]
     IN work' = list[s] /\ list' = [list EXCEPT ![s] = {}]
  /\ visit' = visit + 1
  /\ UNCHANGED <<contents, caches, queue, phase, batch, worked, marking, stack, tx, mirror,
                 registry, late, app>>

Registration(d) == CHOOSE k \in DOMAIN made : made[k] = d

Mutant_Precedes(a, b) == Registration(a) > Registration(b)

(* ... and goes through it by rank and registration, with flushIfDirty.    *)
Precedes(a, b) ==
  rank[a] < rank[b] \/ (rank[a] = rank[b] /\ Registration(a) < Registration(b))

FlushNext(d) ==
  /\ phase = "flush" /\ Idle
  /\ d \in work /\ \A e \in work \ {d} : Precedes(d, e)
  /\ IF Current(d) THEN work' = work \ {d} /\ UNCHANGED stack
     ELSE Compute(d) /\ UNCHANGED work
  /\ UNCHANGED <<contents, caches, lists, phase, batch, visit, worked, marking, tx, mirror,
                 registry, late, app>>

(* The projection follows.                                                 *)
EndFlush ==
  /\ phase = "flush" /\ Idle
  /\ work = {}
  /\ visit = Len(ScopeOrder)
  /\ phase' = "project"
  /\ visit' = 0
  /\ UNCHANGED <<contents, caches, lists, batch, worked, work, marking, stack, tx, mirror,
                 registry, late, app>>

EndFrame ==
  /\ phase = "project" /\ Idle
  /\ phase' = "work"
  /\ UNCHANGED <<contents, caches, lists, batch, visit, worked, work, marking, stack, tx,
                 mirror, registry, late, app>>

Next ==
  \/ \E m \in scenario.mutations : Mutate(m) \/ Stage(m)
  \/ Commit \/ Rollback
  \/ \E d \in scenario.deriveds : NewDerived(d) \/ Read(d)
  \/ ReadSource \/ Finish
  \/ \E d \in Deriveds : Mark(d) \/ FlushNext(d)
  \/ \E s \in Scopes : Close(s)
  \/ scenario.binder /\ (Attach \/ Detach)
  \/ StartSignals \/ TakeBatch \/ Deliver \/ EndPass
  \/ Flush \/ FlushScope \/ EndFlush \/ EndFrame

Spec == Init /\ [][Next]_vars

-----------------------------------------------------------------------------
(* Properties.                                                             *)

(* What the nodes would be worth if everything were computed anew from     *)
(* what the stores hold.                                                   *)
Anew(held) ==
  LET worth[n \in Nodes] ==
        IF n \in StoreNodes THEN held[n]
        ELSE LET all == [k \in DOMAIN Sources[n] |-> worth[Sources[n][k]]]
             IN Computed([k \in 1..Count(n, all) |-> all[k]])
  IN worth

Held == [n \in StoreNodes |-> value[n]]
Right(d) == value[d] = Anew(Held)[d]

(* Every variable has its type: the lists hold deriveds of their scope,    *)
(* the queues notifications to deriveds that declared the sender, and the  *)
(* computations under way have read no more than they declared.            *)
TypeOK ==
  /\ phase \in {"work", "signals", "layout", "flush", "project"}
  /\ coll.items \in Seq(ItemIDs) /\ IsInjective(coll.items)
  /\ open \subseteq Scopes /\ entries \subseteq MapKeys
  /\ made \in Seq(Deriveds) /\ IsInjective(made) /\ rank \in [Deriveds -> Nat]
  /\ value \in [Nodes -> Nat] /\ version \in [Nodes -> Nat]
  /\ init \subseteq Made /\ dirty \subseteq Made
  /\ \A s \in Scopes : list[s] \subseteq {d \in Made : Owner[d] = s}
  /\ \A s \in Scopes : \A k \in DOMAIN queue[s] :
       /\ Owner[queue[s][k].node] = s
       /\ \A d \in queue[s][k].targets : d \in Made /\ queue[s][k].node \in Range(Sources[d])
  /\ marking \subseteq Made /\ work \subseteq Made
  /\ \A k \in DOMAIN stack : Live(stack[k].node) /\ Len(stack[k].read) <= Len(Sources[stack[k].node])
  /\ visit \in 0..Len(ScopeOrder) /\ mutations \in 0..scenario.bound

(* The deriveds that a derived has told, or is telling, that it changed.   *)
Notes == Range(batch) \cup UNION {Range(queue[s]) : s \in Scopes}
Told == marking \cup UNION {note.targets : note \in {x \in Notes : x.node \in Deriveds}}

(* A derived value that the caches on its way call up to date is up to     *)
(* date, unless one of them has a notification from another still to come: *)
(* versions and dirty flags never vouch for a stale value, whatever the    *)
(* stores have not delivered yet.                                          *)
CacheSound ==
  \A cone \in SUBSET {d \in Made : Live(d)} :
    (\A d \in cone : /\ Current(d) /\ d \notin Told
                     /\ Range(Sources[d]) \cap Deriveds \subseteq cone)
      => \A d \in cone : Right(d)

(* In projection every derived is up to date and no read computes, unless  *)
(* a store changed after the signals: "the projection walk reads stable    *)
(* stores and never trips a mid-walk lazy recompute" (runtime/frame.go).   *)
ProjectionStable ==
  phase = "project" /\ ~late => \A d \in Made : Live(d) => Current(d) /\ Right(d)

(* After the signal phase the news of every change has reached everyone    *)
(* below: a derived that is not up to date knows it is dirty and is in the *)
(* list of the next flush, at any depth and across scopes.                 *)
DirtyIsListed ==
  phase = "layout" /\ ~late =>
    \A d \in Made : Live(d) /\ ~Right(d) => d \in dirty /\ d \in list[Owner[d]]

(* After the signal phase the binder has one child for every item, and no  *)
(* other; and it has them "in store order" if no events were queued when   *)
(* it last took over the whole collection.                                 *)
BinderMirrors ==
  phase \in {"layout", "flush", "project"} /\ ~late /\ binder.on /\ Owner[Coll] \in open =>
    /\ binder.children = Range(coll.items)
    /\ Range(binder.order) = binder.children /\ IsInjective(binder.order)
    /\ ~ahead => binder.order = coll.items
=============================================================================
