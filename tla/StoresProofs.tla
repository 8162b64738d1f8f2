---------------------------- MODULE StoresProofs ----------------------------
(***************************************************************************)
(* Proofs about the reactive stores: for every scope tree, every graph of  *)
(* deriveds over it and any number of mutations, what the run of MCStores  *)
(* checks on six small applications.                                     *)
(*                                                                         *)
(* The invariants build on each other.  Base types the variables and says  *)
(* where things are: sources come before their deriveds and live as long,  *)
(* notifications are queued where they belong, what is being computed is   *)
(* alive.  Coherent is the reason that a cache can be trusted: a derived   *)
(* that its flag and versions call up to date, and that no one has still   *)
(* to tell, has the value that its sources give it, and the deriveds it    *)
(* read are clean themselves; the same goes for what the computations      *)
(* under way have read.  Heard follows the news: who is clean in spite of  *)
(* a change will be told, who was told is listed, and what the flush has   *)
(* passed is up to date.  Followed lines up the notifications that the     *)
(* binder has still to get as a chain of collections, from the one it      *)
(* mirrors to the one there is.                                            *)
(***************************************************************************)
EXTENDS Stores, CollectionProofs, Sums

-----------------------------------------------------------------------------
(* Sequences.                                                              *)

LEMMA SeqFacts ==
  ASSUME NEW S, NEW s \in Seq(S)
  PROVE  /\ Len(s) \in Nat /\ DOMAIN s = 1..Len(s)
         /\ \A i \in DOMAIN s : s[i] \in S
         /\ s # <<>> <=> Len(s) > 0
OBVIOUS

LEMMA AppendSeq ==
  ASSUME NEW S, NEW s \in Seq(S), NEW e \in S
  PROVE  /\ Append(s, e) \in Seq(S) /\ Append(s, e) # <<>>
         /\ Len(Append(s, e)) = Len(s) + 1
         /\ DOMAIN Append(s, e) = 1..(Len(s) + 1) /\ DOMAIN s = 1..Len(s) /\ Len(s) \in Nat
         /\ \A i \in 1..Len(s) : Append(s, e)[i] = s[i]
         /\ Append(s, e)[Len(s) + 1] = e
         /\ \A i \in 1..(Len(s) + 1) :
              \/ i \in DOMAIN s /\ i <= Len(s) /\ Append(s, e)[i] = s[i]
              \/ i = Len(s) + 1 /\ Append(s, e)[i] = e
         /\ Range(Append(s, e)) = Range(s) \cup {e}
<1> DEFINE t == Append(s, e)
<1>1. /\ t \in Seq(S) /\ t # <<>> /\ Len(t) = Len(s) + 1
      /\ \A i \in 1..Len(s) : t[i] = s[i]
      /\ t[Len(s) + 1] = e
  BY AppendProperties
<1>2. DOMAIN s = 1..Len(s) /\ Len(s) \in Nat OBVIOUS
<1> HIDE DEF t
<1>3. DOMAIN t = 1..(Len(s) + 1) BY <1>1
<1>4. \A i \in 1..(Len(s) + 1) : i \in 1..Len(s) \/ i = Len(s) + 1 BY <1>2
<1>5. \A i \in 1..Len(s) : i \in 1..(Len(s) + 1) BY <1>2
<1>6. Len(s) + 1 \in 1..(Len(s) + 1) BY <1>2
<1>7. Range(t) = Range(s) \cup {e} BY <1>1, <1>2, <1>3, <1>4, <1>5, <1>6 DEF Range
<1>8. \A i \in 1..(Len(s) + 1) :
        \/ i \in DOMAIN s /\ i <= Len(s) /\ t[i] = s[i]
        \/ i = Len(s) + 1 /\ t[i] = e
  <2> SUFFICES ASSUME NEW i \in 1..(Len(s) + 1)
               PROVE  \/ i \in DOMAIN s /\ i <= Len(s) /\ t[i] = s[i]
                      \/ i = Len(s) + 1 /\ t[i] = e
    OBVIOUS
  <2>1. CASE i \in 1..Len(s) BY <1>1, <1>2, <2>1
  <2>2. CASE i = Len(s) + 1 BY <1>1, <2>2
  <2> QED BY <1>4, <2>1, <2>2
<1> QED BY <1>1, <1>2, <1>3, <1>7, <1>8 DEF t

LEMMA TailSeq ==
  ASSUME NEW S, NEW s \in Seq(S), s # <<>>
  PROVE  /\ Tail(s) \in Seq(S) /\ Head(s) \in S /\ Head(s) = s[1]
         /\ Len(s) \in Nat \ {0} /\ DOMAIN s = 1..Len(s)
         /\ Len(Tail(s)) = Len(s) - 1 /\ DOMAIN Tail(s) = 1..(Len(s) - 1)
         /\ \A i \in 1..(Len(s) - 1) : i + 1 \in DOMAIN s /\ Tail(s)[i] = s[i + 1]
         /\ Range(s) = {Head(s)} \cup Range(Tail(s))
<1> DEFINE t == Tail(s)
<1>1. /\ t \in Seq(S) /\ Head(s) \in S /\ Len(t) = Len(s) - 1
      /\ \A i \in 1..Len(t) : t[i] = s[i + 1]
  BY HeadTailProperties
<1>2. Head(s) = s[1] OBVIOUS
<1>3. Len(s) \in Nat \ {0} /\ DOMAIN s = 1..Len(s) OBVIOUS
<1> HIDE DEF t
<1>4. DOMAIN t = 1..(Len(s) - 1) BY <1>1
<1>5. \A i \in 1..(Len(s) - 1) : i + 1 \in DOMAIN s BY <1>3
<1>6. Range(s) = {Head(s)} \cup Range(t)
  <2>1. \A i \in DOMAIN s : i = 1 \/ (i - 1 \in 1..(Len(s) - 1) /\ (i - 1) + 1 = i) BY <1>3
  <2>2. 1 \in DOMAIN s BY <1>3
  <2>3. ASSUME NEW i \in DOMAIN s PROVE s[i] \in {Head(s)} \cup Range(t)
    <3>1. CASE i = 1 BY <1>2, <3>1
    <3>2. CASE i - 1 \in 1..(Len(s) - 1) /\ (i - 1) + 1 = i
      <4>1. t[i - 1] = s[i] BY <1>1, <3>2
      <4> QED BY <1>4, <3>2, <4>1 DEF Range
    <3> QED BY <2>1, <3>1, <3>2
  <2>4. ASSUME NEW i \in DOMAIN t PROVE t[i] \in Range(s) BY <1>1, <1>4, <1>5, <2>4 DEF Range
  <2> QED BY <1>2, <2>2, <2>3, <2>4 DEF Range
<1> QED BY <1>1, <1>2, <1>3, <1>4, <1>5, <1>6 DEF t

LEMMA FrontSeq ==
  ASSUME NEW S, NEW s \in Seq(S), s # <<>>
  PROVE  /\ Front(s) \in Seq(S) /\ Last(s) \in S /\ Last(s) = s[Len(s)]
         /\ Len(s) \in Nat \ {0} /\ DOMAIN s = 1..Len(s) /\ Len(s) \in DOMAIN s
         /\ Len(Front(s)) = Len(s) - 1 /\ DOMAIN Front(s) = 1..(Len(s) - 1)
         /\ \A i \in 1..(Len(s) - 1) : i \in DOMAIN s /\ Front(s)[i] = s[i]
<1>1. Len(s) \in Nat \ {0} /\ DOMAIN s = 1..Len(s) /\ Len(s) \in DOMAIN s OBVIOUS
<1>2. Last(s) = s[Len(s)] BY DEF Last
<1>3. Last(s) \in S BY <1>1, <1>2
<1>4. \A i \in 1..(Len(s) - 1) : i \in DOMAIN s /\ s[i] \in S BY <1>1
<1>5. /\ Front(s) \in Seq(S) /\ Len(Front(s)) = Len(s) - 1
      /\ \A i \in 1..(Len(s) - 1) : Front(s)[i] = s[i]
  <2>1. Front(s) = SubSeq(s, 1, Len(s) - 1) BY DEF Front
  <2> QED BY <1>1, <1>4, <2>1, SubSeqProperties
<1> HIDE DEF Front
<1>6. DOMAIN Front(s) = 1..(Len(s) - 1) BY <1>5
<1> QED BY <1>1, <1>2, <1>3, <1>4, <1>5, <1>6

-----------------------------------------------------------------------------
(* The scope tree.                                                         *)

(* A set of scopes that has the parents of its members.                    *)
Closed(up) == \A x \in up \ {Root} : Parent[x] \in up

LEMMA RootIn == Root \in Scopes
<1>1. 1 \in DOMAIN ScopeOrder BY ScopeAssumption
<1> QED BY <1>1 DEF Root, Scopes, Range

LEMMA AncestorsLeast ==
  ASSUME NEW s, NEW up \in SUBSET Scopes, s \in up, Closed(up)
  PROVE  Ancestors(s) \subseteq up
BY DEF Ancestors, Closed

LEMMA AncestorsSelf ==
  ASSUME NEW s \in Scopes PROVE s \in Ancestors(s)
BY DEF Ancestors

LEMMA AncestorsUp ==
  ASSUME NEW s \in Scopes, NEW t \in Ancestors(s), NEW u \in Ancestors(t)
  PROVE  u \in Ancestors(s)
BY DEF Ancestors

LEMMA AncestorsScope ==
  ASSUME NEW s, NEW t \in Ancestors(s) PROVE t \in Scopes
BY DEF Ancestors

(* Ancestors come first in preorder.                                       *)
LEMMA AncestorsFirst ==
  ASSUME NEW i \in DOMAIN ScopeOrder, NEW j \in DOMAIN ScopeOrder,
         ScopeOrder[i] \in Ancestors(ScopeOrder[j])
  PROVE  i <= j
<1> DEFINE up == {ScopeOrder[k] : k \in 1..j}
<1>1. ScopeOrder \in Seq(Scopes) /\ DOMAIN ScopeOrder = 1..Len(ScopeOrder) /\ Len(ScopeOrder) \in Nat
  BY ScopeAssumption
<1>2. up \in SUBSET Scopes BY <1>1
<1>3. ScopeOrder[j] \in up BY <1>1
<1>4. Closed(up)
  <2> SUFFICES ASSUME NEW k \in 1..j, ScopeOrder[k] # Root PROVE Parent[ScopeOrder[k]] \in up
    BY DEF Closed
  <2>1. k \in 2..Len(ScopeOrder) BY <1>1 DEF Root
  <2>2. PICK l \in 1..(k - 1) : Parent[ScopeOrder[k]] = ScopeOrder[l] BY <2>1, ScopeAssumption
  <2>3. l \in 1..j BY <1>1, <2>1
  <2> QED BY <2>2, <2>3
<1> HIDE DEF up
<1>5. ScopeOrder[i] \in up BY <1>2, <1>3, <1>4, AncestorsLeast
<1>6. PICK k \in 1..j : ScopeOrder[i] = ScopeOrder[k] BY <1>5 DEF up
<1>7. i = k BY <1>1, <1>6, ScopeAssumption DEF IsInjective
<1> QED BY <1>1, <1>6, <1>7

-----------------------------------------------------------------------------
(* Types.                                                                  *)

Phases == {"work", "signals", "layout", "flush", "project"}
Kinds == {"skipped", "set", "put", "delete", "clear", "insert", "remove", "update", "replace"}
EventSet ==
  {e \in [kind : Kinds, id : ItemIDs \cup {NoID}, at : Nat] :
     e.kind \in {"insert", "remove"} => e.id \in ItemIDs /\ e.at > 0}
NoteSet == [node : Nodes, targets : SUBSET Deriveds, event : EventSet]
FrameSet == [node : Deriveds, read : Seq(Nat)]
BinderSet == [on : BOOLEAN, children : SUBSET ItemIDs, order : Seq(ItemIDs)]

(* A binder has its children in order, each of them once.                  *)
Upright(b) ==
  b \in BinderSet /\ Range(b.order) = b.children /\ IsInjective(b.order)

TreeType ==
  /\ open \in SUBSET Scopes /\ Root \in open /\ Closed(open)
  /\ made \in Seq(Deriveds) /\ IsInjective(made)
  /\ rank \in [Deriveds -> Nat]

CacheType ==
  /\ value \in [Nodes -> Nat] /\ version \in [Nodes -> Nat]
  /\ init \in SUBSET Made /\ dirty \in SUBSET Made /\ Made \subseteq init \cup dirty
  /\ seen \in [Deriveds -> Seq(Nat)]

ListType ==
  /\ list \in [Scopes -> SUBSET Deriveds]
  /\ queue \in [Scopes -> Seq(NoteSet)]
  /\ batch \in Seq(NoteSet)
  /\ marking \in SUBSET Deriveds
  /\ work \in SUBSET Deriveds
  /\ stack \in Seq(FrameSet)

(* The application has its turn.                                           *)
Turn ==
  /\ stack = <<>> /\ marking = {}
  /\ phase \in {"work", "layout"} \/ (phase = "signals" /\ worked)

ControlType ==
  /\ phase \in Phases
  /\ visit \in 0..Len(ScopeOrder)
  /\ worked \in BOOLEAN /\ committing \in BOOLEAN /\ late \in BOOLEAN
  /\ committing => Turn
  /\ staged \in Seq(Mutations)
  /\ scenario \in Scenarios /\ mutations \in 0..scenario.bound

DataType ==
  /\ Formed(coll)
  /\ entries \in SUBSET MapKeys
  /\ Upright(binder) /\ ahead \in BOOLEAN

Types == TreeType /\ CacheType /\ ListType /\ ControlType /\ DataType

LEMMA SourcesType ==
  ASSUME NEW d \in Deriveds
  PROVE  /\ Sources[d] \in Seq(Nodes) /\ Len(Sources[d]) \in Nat
         /\ DOMAIN Sources[d] = 1..Len(Sources[d])
         /\ \A k \in DOMAIN Sources[d] : Sources[d][k] \in Nodes
BY NodeAssumption

LEMMA MutationType ==
  ASSUME NEW m \in Mutations
  PROVE  /\ m.store \in StoreNodes
         /\ m.store = Coll => m.op \in ItemMutations
         /\ m.store = Map => m.op \in MapMutations
         /\ m.store = Value => m.op.kind = "set"
BY NodeAssumption DEF Mutations, StoreNodes

LEMMA MutatedFormed ==
  ASSUME NEW c, Formed(c), NEW op \in ItemMutations PROVE Formed(Mutated(c, op))
<1>1. CASE op.kind = "insert"
  <2>1. op.arg \in ItemIDs BY <1>1 DEF ItemMutations
  <2> QED BY <1>1, <2>1, InsertFormed DEF Mutated
<1>2. CASE op.kind = "remove"
  <2>1. op.arg \in ItemIDs BY <1>2 DEF ItemMutations
  <2> QED BY <1>2, <2>1, RemoveFormed DEF Mutated
<1>3. CASE op.kind = "replace"
  <2>1. op.arg \in ItemLists BY <1>3 DEF ItemMutations
  <2> QED BY <1>3, <2>1, ReplaceFormed DEF Mutated
<1>4. CASE op.kind \notin {"insert", "remove", "replace"} BY <1>4 DEF Mutated
<1> QED BY <1>1, <1>2, <1>3, <1>4

LEMMA NotedType ==
  ASSUME NEW kind \in Kinds, NEW id \in ItemIDs \cup {NoID}, NEW at \in Nat,
         kind \in {"insert", "remove"} => id \in ItemIDs /\ at > 0
  PROVE  Noted(kind, id, at) \in EventSet
BY DEF Noted, EventSet

LEMMA SkippedType == Skipped \in EventSet
BY NotedType DEF Skipped, Kinds

LEMMA ItemEventType ==
  ASSUME NEW c, Formed(c), NEW op \in ItemMutations PROVE MutationEvent(c, op) \in EventSet
<1>1. ASSUME NEW id \in ItemIDs, Has(c, id) PROVE c.index[id] \in Nat /\ c.index[id] > 0
  <2>1. c.index[id] \in DOMAIN c.items /\ c.items \in Seq(ItemIDs) BY <1>1 DEF Formed, Has
  <2> QED BY <2>1
<1>2. Len(c.items) + 1 \in Nat /\ Len(c.items) + 1 > 0 BY DEF Formed
<1>3. CASE op.kind = "insert"
  <2>1. op.arg \in ItemIDs BY <1>3 DEF ItemMutations
  <2>2. InsertEvent(c, op.arg) \in EventSet
    BY <1>1, <1>2, <2>1, NotedType DEF InsertEvent, Kinds
  <2> QED BY <1>3, <2>2 DEF MutationEvent
<1>4. CASE op.kind = "remove"
  <2>1. op.arg \in ItemIDs BY <1>4 DEF ItemMutations
  <2>2. RemoveEvent(c, op.arg) \in EventSet
    BY <1>1, <2>1, NotedType, SkippedType DEF RemoveEvent, Kinds
  <2> QED BY <1>4, <2>2 DEF MutationEvent
<1>5. CASE op.kind = "update"
  <2>1. op.arg \in ItemIDs BY <1>5 DEF ItemMutations
  <2>2. UpdateEvent(c, op.arg) \in EventSet
    BY <1>1, <2>1, NotedType, SkippedType DEF UpdateEvent, Kinds
  <2> QED BY <1>5, <2>2 DEF MutationEvent
<1>6. CASE op.kind = "replace"
  <2>1. Noted("replace", NoID, 0) \in EventSet BY NotedType DEF Kinds
  <2> QED BY <1>6, <2>1 DEF MutationEvent
<1> QED BY <1>3, <1>4, <1>5, <1>6 DEF ItemMutations

LEMMA EventType ==
  ASSUME Formed(coll), NEW m \in Mutations PROVE Event(m) \in EventSet
<1>1. CASE m.store = Coll
  <2>1. m.op \in ItemMutations BY <1>1, MutationType
  <2>2. Event(m) = MutationEvent(coll, m.op) BY <1>1, NodeAssumption DEF Event
  <2> QED BY <2>1, <2>2, ItemEventType
<1>2. CASE m.store # Coll
  <2>1. m.op.kind \in Kinds \ {"insert", "remove"}
    <3>1. m.store = Map \/ m.store = Value BY <1>2, MutationType DEF StoreNodes
    <3>2. CASE m.store = Map
      <4>1. m.op \in MapMutations BY <3>2, MutationType
      <4> QED BY <4>1 DEF MapMutations, Kinds
    <3>3. CASE m.store = Value
      <4>1. m.op.kind = "set" BY <3>3, MutationType
      <4> QED BY <4>1 DEF Kinds
    <3> QED BY <3>1, <3>2, <3>3
  <2>2. Noted(m.op.kind, NoID, 0) \in EventSet BY <2>1, NotedType
  <2>3. Event(m) = Skipped \/ Event(m) = Noted(m.op.kind, NoID, 0) BY <1>2 DEF Event
  <2> QED BY <2>2, <2>3, SkippedType
<1> QED BY <1>1, <1>2

LEMMA NoteType ==
  ASSUME NEW n \in Nodes, NEW targets \in SUBSET Deriveds, NEW event \in EventSet
  PROVE  Note(n, targets, event) \in NoteSet
BY DEF Note, NoteSet

LEMMA MadeType == TreeType => Made \subseteq Deriveds /\ \A n : Targets(n) \subseteq Made
BY DEF TreeType, Made, Range, Targets

LEMMA EnqueuedType ==
  ASSUME ListType, NEW note \in NoteSet
  PROVE  Enqueued(note) \in [Scopes -> Seq(NoteSet)]
<1>1. note.node \in Nodes BY DEF NoteSet
<1>2. Owner[note.node] \in Scopes BY <1>1, NodeAssumption
<1>3. queue[Owner[note.node]] \in Seq(NoteSet) BY <1>2 DEF ListType
<1>4. Append(queue[Owner[note.node]], note) \in Seq(NoteSet) BY <1>3
<1> QED BY <1>2, <1>4 DEF Enqueued, ListType

LEMMA VersionsType ==
  ASSUME CacheType, NEW d \in Deriveds
  PROVE  /\ Versions(d) \in Seq(Nat) /\ DOMAIN Versions(d) = DOMAIN Sources[d]
         /\ \A k \in DOMAIN Sources[d] : Versions(d)[k] = version[Sources[d][k]]
<1>1. \A k \in 1..Len(Sources[d]) : version[Sources[d][k]] \in Nat BY SourcesType DEF CacheType
<1>2. Versions(d) = [k \in 1..Len(Sources[d]) |-> version[Sources[d][k]]]
  BY SourcesType DEF Versions
<1>3. Versions(d) \in [1..Len(Sources[d]) -> Nat] BY <1>1, <1>2
<1>4. Len(Sources[d]) \in Nat BY SourcesType
<1> QED BY <1>2, <1>3, <1>4, SourcesType, SeqDef

LEMMA ComputedType ==
  ASSUME NEW read \in Seq(Nat) PROVE Computed(read) \in Nat
<1>1. IsFiniteSet(DOMAIN read) BY FS_Interval
<1>2. \A k \in DOMAIN read : read[k] \in Nat OBVIOUS
<1>3. SumFunctionOnSet(read, DOMAIN read) \in Nat BY <1>1, <1>2, SumNonNegative
<1> QED BY <1>3 DEF Computed, SumFunction

(* The number that NewDerived gives a derived is above those of its        *)
(* derived sources.                                                        *)
LEMMA RankAbove ==
  ASSUME TreeType, NEW d \in Deriveds,
         NEW r, r = Max({0} \cup {rank[x] + 1 : x \in Range(Sources[d]) \cap Deriveds})
  PROVE  /\ r \in Nat
         /\ \A k \in DOMAIN Sources[d] : Sources[d][k] \in Deriveds => rank[Sources[d][k]] < r
<1> DEFINE n == Len(Sources[d])
           upto(k) == {0} \cup {rank[Sources[d][j]] + 1 : j \in {i \in 1..k : Sources[d][i] \in Deriveds}}
           P == {k \in Nat : k <= n => \E m \in upto(k) : \A y \in upto(k) : m >= y}
           all == {0} \cup {rank[x] + 1 : x \in Range(Sources[d]) \cap Deriveds}
<1>1. n \in Nat /\ DOMAIN Sources[d] = 1..n BY SourcesType
<1>2. all = upto(n) BY <1>1 DEF Range
<1>3. \A x \in Deriveds : rank[x] \in Nat BY DEF TreeType
<1>4. \A k \in Nat : upto(k) \subseteq Nat BY <1>3
<1>5. 0 \in P
  <2>1. upto(0) = {0} OBVIOUS
  <2> HIDE DEF upto
  <2> QED BY <2>1
<1> HIDE DEF upto
<1>6. ASSUME NEW k \in Nat, k \in P PROVE k + 1 \in P
  <2> SUFFICES ASSUME k + 1 <= n PROVE \E m \in upto(k + 1) : \A y \in upto(k + 1) : m >= y
    OBVIOUS
  <2>1. PICK m \in upto(k) : \A y \in upto(k) : m >= y BY <1>1, <1>6
  <2>2. CASE Sources[d][k + 1] \notin Deriveds
    <3>1. upto(k + 1) = upto(k)
      <4>1. \A i \in 1..(k + 1) : Sources[d][i] \in Deriveds => i \in 1..k BY <2>2
      <4>2. \A i \in 1..k : i \in 1..(k + 1) OBVIOUS
      <4> QED BY <4>1, <4>2 DEF upto
    <3> QED BY <2>1, <3>1
  <2>3. CASE Sources[d][k + 1] \in Deriveds
    <3> DEFINE new == rank[Sources[d][k + 1]] + 1
    <3>1. upto(k + 1) = upto(k) \cup {new}
      <4>1. {i \in 1..(k + 1) : Sources[d][i] \in Deriveds}
              = {i \in 1..k : Sources[d][i] \in Deriveds} \cup {k + 1}
        BY <2>3
      <4> QED BY <4>1 DEF upto
    <3>2. new \in Nat BY <1>3, <2>3
    <3>3. \A y \in upto(k) : y \in Nat BY <1>4
    <3> HIDE DEF new
    <3>4. CASE new >= m
      <4>1. \A y \in upto(k + 1) : new >= y BY <2>1, <3>1, <3>2, <3>3, <3>4
      <4> QED BY <3>1, <4>1
    <3>5. CASE m >= new
      <4>1. \A y \in upto(k + 1) : m >= y BY <2>1, <3>1, <3>5
      <4> QED BY <2>1, <3>1, <4>1
    <3> QED BY <2>1, <3>2, <3>3, <3>4, <3>5
  <2> QED BY <2>2, <2>3
<1>7. n \in P
  <2> HIDE DEF P
  <2> QED BY <1>1, <1>5, <1>6, Induction
<1>8. \E m \in all : \A y \in all : m >= y
  <2> HIDE DEF all
  <2> QED BY <1>1, <1>2, <1>7
<1>9. r \in all /\ \A y \in all : r >= y BY <1>8 DEF Max
<1>10. all \subseteq Nat BY <1>3
<1>11. ASSUME NEW k \in DOMAIN Sources[d], Sources[d][k] \in Deriveds PROVE rank[Sources[d][k]] < r
  <2>1. rank[Sources[d][k]] + 1 \in all BY <1>11 DEF Range
  <2>2. r >= rank[Sources[d][k]] + 1 BY <1>9, <2>1
  <2>3. rank[Sources[d][k]] \in Nat /\ r \in Nat BY <1>3, <1>9, <1>10, <1>11
  <2> QED BY <2>2, <2>3
<1> QED BY <1>9, <1>10, <1>11

LEMMA InsertAtSeq ==
  ASSUME NEW S, NEW s \in Seq(S), NEW e \in S, NEW at \in 1..Len(s)
  PROVE  /\ InsertAt(s, at, e) \in Seq(S) /\ Len(InsertAt(s, at, e)) = Len(s) + 1
         /\ \A k \in 1..(Len(s) + 1) :
              InsertAt(s, at, e)[k] = IF k < at THEN s[k] ELSE IF k = at THEN e ELSE s[k - 1]
<1> DEFINE a == SubSeq(s, 1, at - 1)
           b == SubSeq(s, at, Len(s))
           c == a \o <<e>>
<1>1. a \in Seq(S) /\ Len(a) = at - 1 /\ \A k \in 1..(at - 1) : a[k] = s[k] OBVIOUS
<1>2. b \in Seq(S) /\ Len(b) = Len(s) - at + 1 /\ \A k \in 1..(Len(s) - at + 1) : b[k] = s[at + k - 1]
  <2>1. \A i \in at..Len(s) : s[i] \in S OBVIOUS
  <2>2. at \in Int /\ Len(s) \in Int /\ at <= Len(s) OBVIOUS
  <2> QED BY <2>1, <2>2, SubSeqProperties
<1>3. InsertAt(s, at, e) = c \o b BY DEF InsertAt
<1>4. <<e>> \in Seq(S) /\ Len(<<e>>) = 1 /\ <<e>>[1] = e OBVIOUS
<1>5. at \in Nat \ {0} /\ Len(s) \in Nat /\ at <= Len(s) OBVIOUS
<1> HIDE DEF a, b
<1>6. c \in Seq(S) /\ Len(c) = at /\ \A k \in 1..at : c[k] = IF k < at THEN s[k] ELSE e
  <2>1. c \in Seq(S) /\ Len(c) = at BY <1>1, <1>4, <1>5, ConcatProperties
  <2>2. ASSUME NEW k \in 1..at PROVE c[k] = IF k < at THEN s[k] ELSE e
    <3>1. c[k] = IF k <= Len(a) THEN a[k] ELSE <<e>>[k - Len(a)] BY <1>1, <1>4, <1>5, ConcatProperties
    <3> QED BY <1>1, <1>4, <1>5, <3>1
  <2> QED BY <2>1, <2>2
<1> HIDE DEF c
<1>7. c \o b \in Seq(S) /\ Len(c \o b) = Len(s) + 1
  <2>1. c \in Seq(S) /\ b \in Seq(S) BY <1>2, <1>6
  <2>2. c \o b \in Seq(S) /\ Len(c \o b) = Len(c) + Len(b) BY <2>1, ConcatProperties
  <2> QED BY <1>2, <1>5, <1>6, <2>2
<1>8. ASSUME NEW k \in 1..(Len(s) + 1)
      PROVE  (c \o b)[k] = IF k < at THEN s[k] ELSE IF k = at THEN e ELSE s[k - 1]
  <2>1. (c \o b)[k] = IF k <= Len(c) THEN c[k] ELSE b[k - Len(c)] BY <1>2, <1>5, <1>6, ConcatProperties
  <2>2. CASE k <= at BY <1>5, <1>6, <2>1, <2>2
  <2>3. CASE k > at
    <3>1. k - at \in 1..(Len(s) - at + 1) /\ at + (k - at) - 1 = k - 1 BY <1>5, <2>3
    <3>2. (c \o b)[k] = s[k - 1] BY <1>2, <1>5, <1>6, <2>1, <2>3, <3>1
    <3> QED BY <1>5, <2>3, <3>2
  <2>4. k <= at \/ k > at BY <1>5
  <2> QED BY <2>2, <2>3, <2>4
<1> QED BY <1>3, <1>7, <1>8

LEMMA InsertChildUpright ==
  ASSUME NEW b, Upright(b), NEW id \in ItemIDs, NEW at \in Nat, at > 0
  PROVE  Upright(InsertChild(b, id, at))
<1>1. CASE id \in b.children BY <1>1 DEF InsertChild
<1>2. CASE id \notin b.children
  <2> DEFINE o == b.order
             n == Len(o)
             i == IF at > n THEN n + 1 ELSE at
             r == IF at > n THEN Append(o, id) ELSE InsertAt(o, at, id)
  <2>1. /\ o \in Seq(ItemIDs) /\ n \in Nat /\ DOMAIN o = 1..n /\ IsInjective(o)
        /\ Range(o) = b.children /\ b.children \in SUBSET ItemIDs /\ b.on \in BOOLEAN
    BY DEF Upright, BinderSet
  <2>2. InsertChild(b, id, at) = [on |-> b.on, children |-> b.children \cup {id}, order |-> r]
    BY <1>2 DEF InsertChild
  <2>3. i \in 1..(n + 1) BY <2>1
  <2>4. /\ r \in Seq(ItemIDs) /\ Len(r) = n + 1
        /\ \A k \in 1..(n + 1) : r[k] = IF k < i THEN o[k] ELSE IF k = i THEN id ELSE o[k - 1]
    <3>1. CASE at > n
      <4>1. r = Append(o, id) BY <3>1
      <4> HIDE DEF r
      <4>2. /\ r \in Seq(ItemIDs) /\ Len(r) = n + 1
            /\ \A k \in 1..(n + 1) : (k \in DOMAIN o /\ k <= n /\ r[k] = o[k]) \/ (k = n + 1 /\ r[k] = id)
        BY <2>1, <4>1, AppendSeq
      <4>3. i = n + 1 BY <3>1
      <4> HIDE DEF i
      <4> QED BY <2>1, <4>2, <4>3
    <3>2. CASE ~(at > n)
      <4>1. r = InsertAt(o, at, id) /\ i = at /\ at \in 1..n BY <2>1, <3>2
      <4>0. o \in Seq(ItemIDs) /\ at \in 1..Len(o) BY <2>1, <4>1
      <4> HIDE DEF r, i, n, o
      <4>2. /\ InsertAt(o, at, id) \in Seq(ItemIDs) /\ Len(InsertAt(o, at, id)) = n + 1
            /\ \A k \in 1..(n + 1) : InsertAt(o, at, id)[k] =
                                      IF k < at THEN o[k] ELSE IF k = at THEN id ELSE o[k - 1]
        BY <4>0, InsertAtSeq DEF n
      <4> QED BY <4>1, <4>2
    <3> QED BY <3>1, <3>2
  <2> HIDE DEF r, i
  <2>5. DOMAIN r = 1..(n + 1) BY <2>4
  <2>6. \A k \in 1..n : o[k] # id BY <1>2, <2>1 DEF Range
  <2>7. IsInjective(r)
    <3> SUFFICES ASSUME NEW j \in 1..(n + 1), NEW k \in 1..(n + 1), r[j] = r[k] PROVE j = k
      BY <2>5 DEF IsInjective
    <3> DEFINE p(x) == IF x < i THEN x ELSE x - 1
    <3>1. ASSUME NEW x \in 1..(n + 1), x # i PROVE p(x) \in 1..n /\ r[x] = o[p(x)]
      BY <2>1, <2>3, <2>4, <3>1
    <3>2. r[i] = id BY <2>1, <2>3, <2>4
    <3>3. CASE j = i BY <2>6, <3>1, <3>2, <3>3
    <3>4. CASE k = i BY <2>6, <3>1, <3>2, <3>4
    <3>5. CASE j # i /\ k # i
      <4>1. o[p(j)] = o[p(k)] /\ p(j) \in 1..n /\ p(k) \in 1..n BY <3>1, <3>5
      <4>2. p(j) = p(k) BY <2>1, <4>1 DEF IsInjective
      <4> QED BY <2>1, <2>3, <3>5, <4>2
    <3> QED BY <3>3, <3>4, <3>5
  <2>8. Range(r) = b.children \cup {id}
    <3>1. ASSUME NEW k \in 1..(n + 1) PROVE r[k] \in b.children \cup {id}
      <4>1. CASE k < i
        <5>1. k \in 1..n /\ r[k] = o[k] BY <2>1, <2>3, <2>4, <4>1
        <5> QED BY <2>1, <5>1 DEF Range
      <4>2. CASE k = i BY <2>1, <2>3, <2>4, <4>2
      <4>3. CASE k > i
        <5>1. k - 1 \in 1..n /\ r[k] = o[k - 1] BY <2>1, <2>3, <2>4, <4>3
        <5> QED BY <2>1, <5>1 DEF Range
      <4> QED BY <2>1, <2>3, <4>1, <4>2, <4>3
    <3>2. ASSUME NEW k \in 1..n PROVE \E x \in 1..(n + 1) : r[x] = o[k]
      <4>1. CASE k < i
        <5>1. k \in 1..(n + 1) /\ r[k] = o[k] BY <2>1, <2>3, <2>4, <4>1
        <5> QED BY <5>1
      <4>2. CASE ~(k < i)
        <5>1. k + 1 \in 1..(n + 1) /\ (k + 1) - 1 = k /\ k + 1 > i BY <2>1, <2>3, <4>2
        <5>2. r[k + 1] = o[k] BY <2>1, <2>3, <2>4, <5>1
        <5> QED BY <5>1, <5>2
      <4> QED BY <4>1, <4>2
    <3>3. r[i] = id BY <2>1, <2>3, <2>4
    <3> QED BY <2>1, <2>3, <2>5, <3>1, <3>2, <3>3 DEF Range
  <2> QED BY <2>1, <2>2, <2>4, <2>7, <2>8 DEF Upright, BinderSet
<1> QED BY <1>1, <1>2

-----------------------------------------------------------------------------
(* The steps.                                                              *)

(* A mutation of its own or of a transaction that changes a store ...      *)
Applying(m) ==
  /\ Turn
  /\ Owner[m.store] \in open /\ Event(m) # Skipped
  /\ Apply(m)
  /\ UNCHANGED <<init, dirty, seen, list, passes, marking, stack, mirror, registry>>

(* ... and one of a transaction that finds nothing to do.                  *)
Posting(m) ==
  /\ Turn
  /\ Owner[m.store] \in open
  /\ queue' = Enqueued(Note(m.store, {}, Skipped))
  /\ UNCHANGED <<contents, caches, list, passes, marking, stack, mirror, registry, late>>

(* What concerns the transaction only.                                     *)
Quiet == UNCHANGED <<contents, caches, lists, passes, marking, stack, mirror, registry, late>>

USE DEF contents, caches, lists, passes, tx, mirror, registry, app, vars

LEMMA ControlInit == ASSUME Init PROVE ControlType
<1>1. 0 \in 0..Len(ScopeOrder) BY ScopeAssumption
<1>2. 0 \in 0..scenario.bound BY ScenariosAssumption DEF Init
<1>3. <<>> \in Seq(Mutations) OBVIOUS
<1> QED BY <1>1, <1>2, <1>3 DEF Init, ControlType, Phases, Turn

LEMMA ControlStep == ASSUME ControlType, [Next]_vars PROVE ControlType'
<1> USE DEF ControlType, Phases, Turn, AppActs, Idle
<1>0. Len(ScopeOrder) \in Nat BY ScopeAssumption
<1>1. scenario.bound \in Nat /\ scenario.mutations \subseteq Mutations BY ScenariosAssumption
<1>2. ASSUME NEW m \in scenario.mutations, Mutate(m) PROVE ControlType'
  <2>1. late' \in BOOLEAN BY <1>2 DEF Mutate, Apply
  <2>2. mutations' \in 0..scenario.bound BY <1>1, <1>2 DEF Mutate
  <2> QED BY <1>2, <2>1, <2>2 DEF Mutate
<1>3. ASSUME NEW m \in scenario.mutations, Stage(m) PROVE ControlType'
  <2>1. Append(staged, m) \in Seq(Mutations) BY <1>1
  <2> QED BY <1>1, <1>3, <2>1 DEF Stage
<1>4. CASE Commit
  <2>1. Tail(staged) \in Seq(Mutations) BY <1>4 DEF Commit
  <2> QED BY <1>4, <2>1 DEF Commit, Apply
<1>5. CASE Rollback
  <2>1. <<>> \in Seq(Mutations) OBVIOUS
  <2> QED BY <1>5, <2>1 DEF Rollback
<1>6. ASSUME NEW d \in scenario.deriveds, NewDerived(d) \/ Read(d) PROVE ControlType' BY <1>6 DEF NewDerived, Read
<1>7. CASE ReadSource \/ Finish BY <1>7 DEF ReadSource, Finish
<1>8. ASSUME NEW d \in Deriveds, Mark(d) \/ FlushNext(d) PROVE ControlType' BY <1>8 DEF Mark, FlushNext
<1>9. ASSUME NEW s \in Scopes, Close(s) PROVE ControlType' BY <1>9 DEF Close
<1>10. CASE Attach \/ Detach BY <1>10 DEF Attach, Detach
<1>11. CASE StartSignals \/ EndPass \/ Flush \/ EndFlush \/ EndFrame
  <2>1. CASE StartSignals
    <3>1. worked' \in BOOLEAN /\ late' \in BOOLEAN BY <2>1 DEF StartSignals
    <3>2. ~committing' BY <2>1 DEF StartSignals
    <3> QED BY <1>0, <2>1, <3>1, <3>2 DEF StartSignals
  <2>2. CASE EndPass
    <3>1. worked' \in BOOLEAN /\ late' \in BOOLEAN BY <2>2 DEF EndPass
    <3>2. ~committing' BY <2>2 DEF EndPass
    <3> QED BY <1>0, <2>2, <3>1, <3>2 DEF EndPass
  <2>3. CASE Flush BY <1>0, <2>3 DEF Flush
  <2>4. CASE EndFlush BY <1>0, <2>4 DEF EndFlush
  <2>5. CASE EndFrame BY <1>0, <2>5 DEF EndFrame
  <2> QED BY <1>11, <2>1, <2>2, <2>3, <2>4, <2>5
<1>12. CASE TakeBatch BY <1>0, <1>12 DEF TakeBatch
<1>13. CASE FlushScope BY <1>0, <1>13 DEF FlushScope
<1>14. CASE Deliver BY <1>14 DEF Deliver
<1>15. CASE UNCHANGED vars BY <1>15
<1> HIDE DEF ControlType, Phases, Turn, AppActs, Idle
<1> QED BY <1>2, <1>3, <1>4, <1>5, <1>6, <1>7, <1>8, <1>9, <1>10, <1>11, <1>12, <1>13, <1>14, <1>15 DEF Next

(* What a step can be.                                                     *)
LEMMA Steps ==
  ASSUME ControlType, [Next]_vars
  PROVE  \/ \E m \in Mutations : Applying(m) \/ Posting(m)
         \/ Quiet
         \/ \E d \in Deriveds : NewDerived(d) \/ Read(d) \/ Mark(d) \/ FlushNext(d)
         \/ ReadSource \/ Finish
         \/ \E s \in Scopes : Close(s)
         \/ Attach \/ Detach
         \/ StartSignals \/ TakeBatch \/ Deliver \/ EndPass
         \/ Flush \/ FlushScope \/ EndFlush \/ EndFrame
<1>1. scenario.mutations \subseteq Mutations /\ scenario.deriveds \subseteq Deriveds
  BY ScenariosAssumption DEF ControlType
<1>2. ASSUME NEW m \in scenario.mutations, Mutate(m) PROVE Quiet \/ Applying(m)
  BY <1>2 DEF Mutate, Quiet, Applying, AppActs, Idle, Turn
<1>3. ASSUME NEW m \in scenario.mutations, Stage(m) PROVE Quiet BY <1>3 DEF Stage, Quiet
<1>4. CASE Rollback BY <1>4 DEF Rollback, Quiet
<1>5. CASE UNCHANGED vars BY <1>5 DEF Quiet
<1> QED
  <2>1. CASE Commit
    <3> DEFINE m == Head(staged)
    <3>1. m \in Mutations BY <2>1 DEF Commit, ControlType
    <3>2. Turn BY <2>1 DEF Commit, ControlType, AppActs, Idle, Turn
    <3>3. Applying(m) \/ Posting(m) BY <2>1, <3>2 DEF Commit, Applying, Posting
    <3> QED BY <3>1, <3>3
  <2>2. CASE ~Commit BY <1>1, <1>2, <1>3, <1>4, <1>5, <2>2 DEF Next
  <2> QED BY <2>1, <2>2

Mutating == \E m \in Mutations : Applying(m)
Posted == \E m \in Mutations : Posting(m)
Creating == \E d \in Deriveds : NewDerived(d)
Getting == \E d \in Deriveds : Read(d)
Marking == \E d \in Deriveds : Mark(d)
Flushing == \E d \in Deriveds : FlushNext(d)
Closing == \E s \in Scopes : Close(s)

(* Which steps touch what.                                                 *)
LEMMA Touches ==
  ASSUME ControlType, [Next]_vars
  PROVE  /\ UNCHANGED registry \/ Creating \/ Closing
         /\ UNCHANGED contents \/ Mutating \/ Closing
         /\ UNCHANGED <<value, version>> \/ Mutating \/ Finish \/ Closing
         /\ UNCHANGED <<init, dirty, seen>> \/ Creating \/ Finish \/ Marking \/ Closing
         /\ UNCHANGED list \/ Creating \/ Marking \/ Closing \/ FlushScope
         /\ UNCHANGED queue \/ Mutating \/ Posted \/ Finish \/ Marking \/ Closing \/ TakeBatch
         /\ UNCHANGED batch \/ TakeBatch \/ Deliver
         /\ UNCHANGED <<phase, visit, worked>> \/ StartSignals \/ TakeBatch \/ EndPass \/ Flush \/ FlushScope \/ EndFlush \/ EndFrame
         /\ UNCHANGED work \/ FlushScope \/ Flushing
         /\ UNCHANGED marking \/ Finish \/ Marking \/ Deliver
         /\ UNCHANGED stack \/ Getting \/ ReadSource \/ Finish \/ Flushing
         /\ UNCHANGED mirror \/ Attach \/ Detach \/ Deliver
         /\ UNCHANGED late \/ Mutating \/ StartSignals
<1> DEFINE touches ==
             /\ UNCHANGED registry \/ Creating \/ Closing
             /\ UNCHANGED contents \/ Mutating \/ Closing
             /\ UNCHANGED <<value, version>> \/ Mutating \/ Finish \/ Closing
             /\ UNCHANGED <<init, dirty, seen>> \/ Creating \/ Finish \/ Marking \/ Closing
             /\ UNCHANGED list \/ Creating \/ Marking \/ Closing \/ FlushScope
             /\ UNCHANGED queue \/ Mutating \/ Posted \/ Finish \/ Marking \/ Closing \/ TakeBatch
             /\ UNCHANGED batch \/ TakeBatch \/ Deliver
             /\ UNCHANGED <<phase, visit, worked>> \/ StartSignals \/ TakeBatch \/ EndPass \/ Flush \/ FlushScope \/ EndFlush \/ EndFrame
             /\ UNCHANGED work \/ FlushScope \/ Flushing
             /\ UNCHANGED marking \/ Finish \/ Marking \/ Deliver
             /\ UNCHANGED stack \/ Getting \/ ReadSource \/ Finish \/ Flushing
             /\ UNCHANGED mirror \/ Attach \/ Detach \/ Deliver
             /\ UNCHANGED late \/ Mutating \/ StartSignals
<1>1. ASSUME Mutating PROVE touches BY <1>1 DEF Mutating, Applying, Apply
<1>2. ASSUME Posted PROVE touches BY <1>2 DEF Posted, Posting
<1>3. ASSUME Quiet PROVE touches BY <1>3 DEF Quiet
<1>4. ASSUME Creating PROVE touches BY <1>4 DEF Creating, NewDerived
<1>5. ASSUME Getting PROVE touches BY <1>5 DEF Getting, Read, Compute
<1>6. ASSUME Marking PROVE touches BY <1>6 DEF Marking, Mark, MarkDirty
<1>7. ASSUME Flushing PROVE touches BY <1>7 DEF Flushing, FlushNext
<1>8. ASSUME ReadSource PROVE touches BY <1>8 DEF ReadSource
<1>9. ASSUME Finish PROVE touches BY <1>9 DEF Finish
<1>10. ASSUME Closing PROVE touches BY <1>10 DEF Closing, Close
<1>11. ASSUME Attach PROVE touches BY <1>11 DEF Attach
<1>12. ASSUME Detach PROVE touches BY <1>12 DEF Detach
<1>13. ASSUME StartSignals PROVE touches BY <1>13 DEF StartSignals
<1>14. ASSUME TakeBatch PROVE touches BY <1>14 DEF TakeBatch
<1>15. ASSUME Deliver PROVE touches BY <1>15 DEF Deliver
<1>16. ASSUME EndPass PROVE touches BY <1>16 DEF EndPass
<1>17. ASSUME Flush PROVE touches BY <1>17 DEF Flush
<1>18. ASSUME FlushScope PROVE touches BY <1>18 DEF FlushScope
<1>19. ASSUME EndFlush PROVE touches BY <1>19 DEF EndFlush
<1>20. ASSUME EndFrame PROVE touches BY <1>20 DEF EndFrame
<1> HIDE DEF touches
<1>21. touches
  BY <1>1, <1>2, <1>3, <1>4, <1>5, <1>6, <1>7, <1>8, <1>9, <1>10, <1>11, <1>12, <1>13, <1>14, <1>15, <1>16, <1>17, <1>18, <1>19, <1>20, Steps
  DEF Mutating, Posted, Creating, Getting, Marking, Flushing, Closing
<1> QED BY <1>21 DEF touches

-----------------------------------------------------------------------------
(* Where things are.                                                       *)

LiveSet == {d \in Made : Owner[d] \in open}

(* A derived comes after its derived sources, which are of its scope or of *)
(* an ancestor and so live as long as it does.                             *)
Placed(d) ==
  \A k \in DOMAIN Sources[d] :
    /\ Sources[d][k] \in Deriveds => Sources[d][k] \in Made /\ rank[Sources[d][k]] < rank[d]
    /\ Owner[Sources[d][k]] \in Ancestors(Owner[d])

GraphOK == \A d \in Made : Placed(d)

ListsOK ==
  /\ \A s \in Scopes : \A d \in list[s] : d \in Made /\ Owner[d] = s
  /\ \A s \in Scopes \ open : list[s] = {} /\ queue[s] = <<>>

(* A notification is queued with the scope of its sender, for deriveds     *)
(* that declared the sender.                                               *)
Addressed(note, s, deriveds) ==
  /\ Owner[note.node] = s
  /\ \A d \in note.targets : d \in deriveds /\ note.node \in Range(Sources[d])

NotesOK ==
  /\ \A s \in Scopes : \A k \in DOMAIN queue[s] : Addressed(queue[s][k], s, Made)
  /\ \A k \in DOMAIN batch : visit > 0 /\ Addressed(batch[k], ScopeOrder[visit], Made)

RunsOK ==
  /\ marking \subseteq LiveSet /\ work \subseteq LiveSet
  /\ \A i \in DOMAIN stack :
       /\ stack[i].node \in LiveSet
       /\ Len(stack[i].read) <= Len(Sources[stack[i].node])
       /\ Len(stack[i].read) <= Count(stack[i].node, stack[i].read)
  /\ batch # <<>> => phase = "signals" /\ worked
  /\ work # {} => phase = "flush"

Places == GraphOK /\ ListsOK /\ NotesOK /\ RunsOK
Base == Types /\ Places

LEMMA ParentUp ==
  ASSUME NEW x \in Scopes \ {Root} PROVE Parent[x] \in Ancestors(x)
BY ScopeAssumption DEF Ancestors

LEMMA RootAlone ==
  ASSUME NEW s \in Ancestors(Root) PROVE s = Root
<1>1. {Root} \in SUBSET Scopes /\ Closed({Root}) BY RootIn DEF Closed
<1> QED BY <1>1, AncestorsLeast

(* The ancestors of an open scope are open.                                *)
LEMMA AncestorsOpen ==
  ASSUME TreeType, NEW s \in open, NEW t \in Ancestors(s) PROVE t \in open
BY AncestorsLeast DEF TreeType

LEMMA TreeStep ==
  ASSUME TreeType, ControlType, [Next]_vars PROVE TreeType'
<1>1. ASSUME NEW d \in Deriveds, NewDerived(d) PROVE TreeType'
  <2>1. made' = Append(made, d) /\ d \notin Made /\ UNCHANGED open BY <1>1 DEF NewDerived
  <2>2. made' \in Seq(Deriveds) BY <2>1 DEF TreeType
  <2>3. IsInjective(made')
    <3>0. made \in Seq(Deriveds) BY DEF TreeType
    <3>1. DOMAIN made' = 1..(Len(made) + 1) /\ DOMAIN made = 1..Len(made) /\ Len(made) \in Nat
      BY <2>1, <3>0, AppendSeq
    <3>2. \A i \in 1..(Len(made) + 1) :
            \/ i \in DOMAIN made /\ i <= Len(made) /\ made'[i] = made[i]
            \/ i = Len(made) + 1 /\ made'[i] = d
      BY <2>1, <3>0, AppendSeq
    <3>3. \A i \in DOMAIN made : made[i] # d BY <2>1 DEF Made, Range
    <3> QED BY <3>1, <3>2, <3>3 DEF TreeType, IsInjective
  <2>4. rank' \in [Deriveds -> Nat]
    <3> DEFINE r == Max({0} \cup {rank[x] + 1 : x \in Range(Sources[d]) \cap Deriveds})
    <3>1. rank' = [rank EXCEPT ![d] = r] BY <1>1 DEF NewDerived
    <3>2. r \in Nat BY RankAbove
    <3> HIDE DEF r
    <3> QED BY <3>1, <3>2 DEF TreeType
  <2> QED BY <2>1, <2>2, <2>3, <2>4 DEF TreeType, Closed
<1>2. ASSUME NEW s \in Scopes, Close(s) PROVE TreeType'
  <2>1. open' = open \ Below(s) /\ s # Root /\ UNCHANGED <<made, rank>> BY <1>2 DEF Close
  <2>2. Root \in open' BY <2>1, RootAlone DEF TreeType, Below
  <2>3. ASSUME NEW x \in open' \ {Root} PROVE Parent[x] \in open'
    <3>1. x \in open /\ x \in Scopes /\ Parent[x] \in open BY <2>1, <2>3 DEF TreeType, Closed
    <3>2. s \notin Ancestors(x) BY <2>1, <2>3, <3>1 DEF Below
    <3>3. Parent[x] \in Ancestors(x) BY <2>3, <3>1, ParentUp
    <3>4. s \notin Ancestors(Parent[x]) BY <3>1, <3>2, <3>3, AncestorsUp
    <3> QED BY <2>1, <3>1, <3>4 DEF Below
  <2> QED BY <2>1, <2>2, <2>3 DEF TreeType, Closed
<1>3. CASE UNCHANGED registry BY <1>3 DEF TreeType, Closed
<1> QED BY <1>1, <1>2, <1>3, Touches DEF Creating, Closing

-----------------------------------------------------------------------------
(* The binder stays upright, whatever events it applies.                   *)

LEMMA RemoveFirstSeq ==
  ASSUME NEW S, NEW s \in Seq(S), IsInjective(s), NEW at \in 1..Len(s)
  PROVE  RemoveFirst(s, s[at]) = RemoveAt(s, at)
<1> DEFINE I == {k \in 1..Len(s) : s[k] = s[at]}
<1>1. I = {at} BY DEF IsInjective
<1>2. at \in Nat OBVIOUS
<1> HIDE DEF I
<1>3. I # {} /\ Min(I) = at BY <1>1, <1>2 DEF Min
<1>4. SelectInSeq(s, LAMBDA v : v = s[at]) = IF I # {} THEN Min(I) ELSE 0 BY DEF SelectInSeq, I
<1>5. \E k \in 1..Len(s) : s[k] = s[at] OBVIOUS
<1> QED BY <1>3, <1>4, <1>5 DEF RemoveFirst

LEMMA RemoveChildUpright ==
  ASSUME NEW b, Upright(b), NEW id \in ItemIDs PROVE Upright(RemoveChild(b, id))
<1>1. CASE id \notin b.children BY <1>1 DEF RemoveChild
<1>2. CASE id \in b.children
  <2> DEFINE o == b.order
             n == Len(o)
             r == RemoveFirst(o, id)
  <2>1. /\ o \in Seq(ItemIDs) /\ n \in Nat /\ DOMAIN o = 1..n /\ IsInjective(o)
        /\ Range(o) = b.children /\ b.children \in SUBSET ItemIDs /\ b.on \in BOOLEAN
    BY DEF Upright, BinderSet
  <2>2. RemoveChild(b, id) = [on |-> b.on, children |-> b.children \ {id}, order |-> r]
    BY <1>2 DEF RemoveChild
  <2>3. PICK at \in 1..n : o[at] = id BY <1>2, <2>1 DEF Range
  <2> HIDE DEF o, r
  <2>4. r = RemoveAt(o, at) BY <2>1, <2>3, RemoveFirstSeq DEF r
  <2>5. /\ r \in Seq(ItemIDs) /\ Len(r) = n - 1
        /\ \A k \in 1..(n - 1) : r[k] = IF k < at THEN o[k] ELSE o[k + 1]
    BY <2>1, <2>3, <2>4, RemoveAtSeq
  <2>6. DOMAIN r = 1..(n - 1) BY <2>5
  <2> DEFINE p(x) == IF x < at THEN x ELSE x + 1
  <2>7. \A x \in 1..(n - 1) : p(x) \in 1..n /\ p(x) # at /\ r[x] = o[p(x)] BY <2>1, <2>3, <2>5
  <2>8. \A x, y \in 1..(n - 1) : p(x) = p(y) => x = y BY <2>1, <2>3
  <2>9. \A y \in 1..n : y # at => \E x \in 1..(n - 1) : p(x) = y
    <3> SUFFICES ASSUME NEW y \in 1..n, y # at PROVE \E x \in 1..(n - 1) : p(x) = y OBVIOUS
    <3>1. CASE y < at
      <4>1. y \in 1..(n - 1) /\ p(y) = y BY <2>1, <2>3, <3>1
      <4> QED BY <4>1
    <3>2. CASE y > at
      <4>1. y - 1 \in 1..(n - 1) /\ p(y - 1) = y BY <2>1, <2>3, <3>2
      <4> QED BY <4>1
    <3> QED BY <2>1, <2>3, <3>1, <3>2
  <2> HIDE DEF p
  <2>10. IsInjective(r)
    <3> SUFFICES ASSUME NEW j \in 1..(n - 1), NEW k \in 1..(n - 1), r[j] = r[k] PROVE j = k
      BY <2>6 DEF IsInjective
    <3>1. p(j) = p(k) BY <2>1, <2>7 DEF IsInjective
    <3> QED BY <2>8, <3>1
  <2>11. Range(r) = b.children \ {id}
    <3>1. \A x \in 1..(n - 1) : r[x] \in b.children /\ r[x] # id
      <4> SUFFICES ASSUME NEW x \in 1..(n - 1) PROVE r[x] \in b.children /\ r[x] # id OBVIOUS
      <4>1. p(x) \in DOMAIN o /\ r[x] = o[p(x)] /\ p(x) # at /\ at \in DOMAIN o BY <2>1, <2>7
      <4> QED BY <2>1, <2>3, <4>1 DEF IsInjective, Range
    <3>2. ASSUME NEW c \in b.children, c # id PROVE \E x \in 1..(n - 1) : r[x] = c
      <4>1. PICK y \in 1..n : o[y] = c BY <2>1 DEF Range
      <4>2. y # at BY <2>3, <3>2, <4>1
      <4>3. PICK x \in 1..(n - 1) : p(x) = y BY <2>9, <4>2
      <4> QED BY <2>7, <4>1, <4>3
    <3> QED BY <2>6, <3>1, <3>2 DEF Range
  <2> QED BY <2>1, <2>2, <2>5, <2>10, <2>11 DEF Upright, BinderSet
<1> QED BY <1>1, <1>2

LEMMA ReconcileUpright ==
  ASSUME NEW c, Formed(c) PROVE Upright(Reconcile(c.items))
<1>1. c.items \in Seq(ItemIDs) /\ IsInjective(c.items) BY DEF Formed, IsInjective
<1>2. {c.items[k] : k \in DOMAIN c.items} \in SUBSET ItemIDs BY <1>1
<1> QED BY <1>1, <1>2 DEF Reconcile, Upright, BinderSet, Range

LEMMA BinderUpright ==
  ASSUME NEW b, Upright(b), NEW event \in EventSet, NEW c, Formed(c)
  PROVE  Upright(BinderApply(b, event, c.items))
<1>1. CASE ~b.on BY <1>1 DEF BinderApply
<1>2. CASE b.on /\ event.kind = "replace" BY <1>2, ReconcileUpright DEF BinderApply
<1>3. CASE b.on /\ event.kind = "insert"
  <2>1. event.id \in ItemIDs /\ event.at \in Nat /\ event.at > 0 BY <1>3 DEF EventSet
  <2>2. BinderApply(b, event, c.items) = InsertChild(b, event.id, event.at) BY <1>3 DEF BinderApply
  <2> QED BY <2>1, <2>2, InsertChildUpright
<1>4. CASE b.on /\ event.kind = "remove"
  <2>1. event.id \in ItemIDs BY <1>4 DEF EventSet
  <2>2. BinderApply(b, event, c.items) = RemoveChild(b, event.id) BY <1>4 DEF BinderApply
  <2> QED BY <2>1, <2>2, RemoveChildUpright
<1>5. CASE b.on /\ event.kind \notin {"replace", "insert", "remove"} BY <1>5 DEF BinderApply
<1> QED BY <1>1, <1>2, <1>3, <1>4, <1>5

LEMMA DetachedUpright == Upright(DetachedBinder)
<1>1. <<>> \in Seq(ItemIDs) /\ Range(<<>>) = {} /\ IsInjective(<<>>) BY DEF Range, IsInjective
<1> QED BY <1>1 DEF DetachedBinder, Upright, BinderSet

LEMMA EmptyFormed == Formed(EmptyCollection)
BY DEF EmptyCollection, Formed

LEMMA DataStep ==
  ASSUME ControlType, ListType, DataType, [Next]_vars PROVE DataType'
<1> USE DEF DataType
<1>1. ASSUME NEW m \in Mutations, Applying(m) PROVE Formed(coll') /\ entries' \in SUBSET MapKeys
  <2>1. coll' = IF m.store = Coll THEN Mutated(coll, m.op) ELSE coll BY <1>1 DEF Applying, Apply
  <2>2. m.store = Coll => m.op \in ItemMutations BY MutationType
  <2>3. Formed(coll') BY <2>1, <2>2, MutatedFormed
  <2>4. entries' = IF m.store = Map THEN MapEntries(entries, m.op) ELSE entries
    BY <1>1 DEF Applying, Apply
  <2>5. ASSUME m.store = Map PROVE MapEntries(entries, m.op) \in SUBSET MapKeys
    <3>1. m.op \in MapMutations BY <2>5, MutationType
    <3>2. m.op.kind \in {"put", "delete"} => m.op.arg \in MapKeys BY <3>1 DEF MapMutations
    <3>3. CASE m.op.kind = "put" BY <3>2, <3>3 DEF MapEntries
    <3>4. CASE m.op.kind = "delete" BY <3>4 DEF MapEntries
    <3>5. CASE m.op.kind \notin {"put", "delete"} BY <3>5 DEF MapEntries
    <3> QED BY <3>3, <3>4, <3>5
  <2>6. entries' \in SUBSET MapKeys BY <2>4, <2>5
  <2> QED BY <2>3, <2>6
<1>2. ASSUME NEW s \in Scopes, Close(s) PROVE Formed(coll') /\ entries' \in SUBSET MapKeys
  <2>1. (coll' = EmptyCollection \/ coll' = coll) /\ (entries' = {} \/ entries' = entries)
    BY <1>2 DEF Close
  <2> QED BY <2>1, EmptyFormed
<1>3. Formed(coll') /\ entries' \in SUBSET MapKeys
  <2>1. CASE UNCHANGED contents BY <2>1
  <2> QED BY <1>1, <1>2, <2>1, Touches DEF Mutating, Closing
<1>4. ahead' \in BOOLEAN
  <2>1. CASE Attach BY <2>1 DEF Attach, Undelivered
  <2>2. CASE Detach BY <2>2 DEF Detach
  <2>3. CASE Deliver BY <2>3 DEF Deliver, Undelivered
  <2>4. CASE UNCHANGED mirror BY <2>4
  <2> QED BY <2>1, <2>2, <2>3, <2>4, Touches
<1>5. Upright(binder')
  <2>1. CASE Attach
    <3>1. binder' = Reconcile(coll.items) BY <2>1 DEF Attach
    <3> QED BY <3>1, ReconcileUpright
  <2>2. CASE Detach
    <3>1. binder' = DetachedBinder BY <2>2 DEF Detach
    <3> QED BY <3>1, DetachedUpright
  <2>3. CASE Deliver
    <3> DEFINE note == Head(batch)
               event == IF Owner[note.node] \in open /\ note.node = Coll THEN note.event ELSE Skipped
    <3>1. binder' = BinderApply(binder, event, coll.items) BY <2>3 DEF Deliver
    <3>2. note \in NoteSet BY <2>3 DEF Deliver, ListType
    <3>3. note.event \in EventSet BY <3>2 DEF NoteSet
    <3>4. event \in EventSet BY <3>3, SkippedType
    <3> HIDE DEF event
    <3> QED BY <3>1, <3>4, BinderUpright
  <2>4. CASE UNCHANGED mirror BY <2>4
  <2> QED BY <2>1, <2>2, <2>3, <2>4, Touches
<1> QED BY <1>3, <1>4, <1>5

-----------------------------------------------------------------------------
(* The steps that compute.                                                 *)

(* The source that the innermost computation reads next.                   *)
Due(d) ==
  LET top == Last(stack)
  IN /\ Len(top.read) < Count(top.node, top.read)
     /\ Len(top.read) + 1 \in DOMAIN Sources[top.node]
     /\ Sources[top.node][Len(top.read) + 1] = d

(* A computation starts: of what the application or the flush asks for, or *)
(* of what the innermost computation has to read.                          *)
Pushing(d) ==
  /\ marking = {}
  /\ d \in LiveSet /\ ~Current(d)
  /\ stack # <<>> => Due(d)
  /\ Compute(d)
  /\ UNCHANGED <<contents, caches, lists, passes, marking, mirror, registry, late>>

Taking(source) ==
  /\ stack # <<>> /\ marking = {}
  /\ Due(source)
  /\ source \in StoreNodes \/ Current(source)
  /\ stack' = [stack EXCEPT ![Len(stack)] =
                 [node |-> Last(stack).node, read |-> Append(Last(stack).read, value[source])]]
  /\ UNCHANGED <<contents, caches, lists, passes, marking, mirror, registry, late>>

(* The flush finds a derived up to date.                                   *)
Dropping(d) ==
  /\ phase = "flush" /\ Idle
  /\ d \in work /\ \A e \in work \ {d} : Precedes(d, e)
  /\ Current(d)
  /\ work' = work \ {d}
  /\ UNCHANGED <<contents, caches, lists, phase, batch, visit, worked, marking, stack, mirror,
                 registry, late>>

LEMMA CountNext ==
  ASSUME NEW d \in Deriveds, NEW read \in Seq(Nat), Len(read) < Count(d, read), NEW v \in Nat
  PROVE  /\ Len(read) + 1 \in DOMAIN Sources[d]
         /\ Len(Append(read, v)) <= Count(d, Append(read, v))
         /\ Len(Append(read, v)) <= Len(Sources[d])
<1> DEFINE next == Append(read, v)
<1>1. Len(Sources[d]) \in Nat /\ DOMAIN Sources[d] = 1..Len(Sources[d]) BY SourcesType
<1>2. Len(read) \in Nat /\ (read # <<>> <=> Len(read) > 0) OBVIOUS
<1>3. /\ Len(next) = Len(read) + 1 /\ next # <<>>
      /\ \A i \in 1..Len(read) : next[i] = read[i]
  BY AppendSeq
<1> HIDE DEF next
<1>4. Count(d, read) = Len(Sources[d])
  <2>1. CASE Count(d, read) = 1 /\ read # <<>> BY <1>2, <2>1
  <2>2. CASE ~(Count(d, read) = 1 /\ read # <<>>) BY <2>2 DEF Count
  <2> QED BY <2>1, <2>2
<1>5. Len(read) + 1 \in DOMAIN Sources[d] BY <1>1, <1>2, <1>4
<1>6. CASE Len(read) = 0 BY <1>1, <1>2, <1>3, <1>4, <1>5, <1>6 DEF Count, next
<1>7. CASE Len(read) > 0
  <2>1. next[1] = read[1] BY <1>2, <1>3, <1>7
  <2>2. Count(d, next) = Count(d, read) BY <1>2, <1>3, <1>7, <2>1 DEF Count
  <2> QED BY <1>1, <1>2, <1>3, <1>4, <1>5, <2>2 DEF next
<1> QED BY <1>2, <1>6, <1>7

LEMMA TopFacts ==
  ASSUME ListType, RunsOK, stack # <<>>
  PROVE  /\ Last(stack) = stack[Len(stack)] /\ Len(stack) \in DOMAIN stack
         /\ Last(stack).node \in LiveSet /\ Last(stack).node \in Deriveds /\ Last(stack).node \in Made
         /\ Last(stack).read \in Seq(Nat)
         /\ Len(Last(stack).read) <= Len(Sources[Last(stack).node])
         /\ Len(Last(stack).read) <= Count(Last(stack).node, Last(stack).read)
         /\ Last(stack) = [node |-> Last(stack).node, read |-> Last(stack).read]
<1>1. Last(stack) = stack[Len(stack)] /\ Len(stack) \in DOMAIN stack /\ Last(stack) \in FrameSet
  BY FrontSeq DEF ListType
<1> QED BY <1>1 DEF RunsOK, LiveSet, FrameSet

(* The sources of a live derived are live.                                 *)
LEMMA SourceLive ==
  ASSUME Types, GraphOK, NEW d \in LiveSet, NEW k \in DOMAIN Sources[d]
  PROVE  /\ Sources[d][k] \in Nodes /\ Owner[Sources[d][k]] \in open
         /\ Owner[Sources[d][k]] \in Ancestors(Owner[d])
         /\ Sources[d][k] \notin StoreNodes =>
              Sources[d][k] \in LiveSet /\ rank[Sources[d][k]] < rank[d]
<1>1. d \in Deriveds BY MadeType DEF LiveSet, Types
<1>2. Sources[d][k] \in Nodes BY <1>1, SourcesType
<1>3. Placed(d) /\ Owner[d] \in open BY DEF GraphOK, LiveSet
<1>4. Owner[Sources[d][k]] \in Ancestors(Owner[d]) BY <1>3 DEF Placed
<1>5. Owner[Sources[d][k]] \in open BY <1>3, <1>4, AncestorsOpen DEF Types
<1>6. ASSUME Sources[d][k] \notin StoreNodes PROVE Sources[d][k] \in LiveSet /\ rank[Sources[d][k]] < rank[d]
  <2>1. Sources[d][k] \in Deriveds BY <1>2, <1>6 DEF Nodes
  <2> QED BY <1>3, <1>5, <2>1 DEF Placed, LiveSet
<1> QED BY <1>2, <1>4, <1>5, <1>6

LEMMA FrameExcept ==
  ASSUME NEW f, f = [node |-> f.node, read |-> f.read], NEW x
  PROVE  [f EXCEPT !.read = x] = [node |-> f.node, read |-> x]
<1>1. \A a, b : [[node |-> a, read |-> b] EXCEPT !.read = x] = [node |-> a, read |-> x] OBVIOUS
<1> QED BY <1>1

LEMMA ReadSourceMoves ==
  ASSUME Types, GraphOK, RunsOK, ReadSource
  PROVE  \/ \E d \in Deriveds : Pushing(d)
         \/ \E source \in Nodes : Taking(source)
<1> DEFINE top == Last(stack)
           source == Sources[top.node][Len(top.read) + 1]
<1>1. /\ stack # <<>> /\ marking = {} /\ Len(top.read) < Count(top.node, top.read)
      /\ IF source \in StoreNodes \/ Current(source)
         THEN stack' = [stack EXCEPT ![Len(stack)].read = Append(@, value[source])]
         ELSE Compute(source)
      /\ UNCHANGED <<contents, caches, lists, passes, marking, mirror, registry, late>>
  BY DEF ReadSource
<1>2. /\ Last(stack) = stack[Len(stack)] /\ Len(stack) \in DOMAIN stack
      /\ top.node \in LiveSet /\ top.node \in Deriveds /\ top.read \in Seq(Nat)
      /\ top = [node |-> top.node, read |-> top.read]
  BY <1>1, TopFacts DEF Types
<1>3. Len(top.read) + 1 \in DOMAIN Sources[top.node] BY <1>1, <1>2, CountNext
<1>4. Due(source) BY <1>1, <1>3 DEF Due
<1>5. source \in Nodes /\ (source \notin StoreNodes => source \in LiveSet /\ source \in Deriveds)
  BY <1>2, <1>3, SourceLive DEF Nodes
<1>6. CASE source \in StoreNodes \/ Current(source)
  <2>1. stack' = [stack EXCEPT ![Len(stack)].read = Append(@, value[source])] BY <1>1, <1>6
  <2>2. stack' = [stack EXCEPT ![Len(stack)] = [top EXCEPT !.read = Append(top.read, value[source])]]
    BY <1>2, <2>1
  <2>3. [top EXCEPT !.read = Append(top.read, value[source])]
           = [node |-> top.node, read |-> Append(top.read, value[source])]
    BY <1>2, FrameExcept
  <2>4. stack' = [stack EXCEPT ![Len(stack)] = [node |-> top.node, read |-> Append(top.read, value[source])]]
    BY <2>2, <2>3
  <2>5. Taking(source) BY <1>1, <1>4, <1>6, <2>4 DEF Taking
  <2> QED BY <1>5, <2>5
<1>7. CASE ~(source \in StoreNodes \/ Current(source))
  <2>1. Pushing(source) BY <1>1, <1>4, <1>5, <1>7 DEF Pushing
  <2> QED BY <1>5, <1>7, <2>1
<1> QED BY <1>6, <1>7

LEMMA ReadMoves == ASSUME TreeType, NEW d \in Deriveds, Read(d) PROVE Pushing(d)
BY DEF Read, Pushing, AppActs, Idle, Live, LiveSet

LEMMA FlushMoves ==
  ASSUME RunsOK, NEW d \in Deriveds, FlushNext(d) PROVE Pushing(d) \/ Dropping(d)
<1>1. CASE Current(d) BY <1>1 DEF FlushNext, Dropping
<1>2. CASE ~Current(d) BY <1>2 DEF FlushNext, Pushing, Idle, RunsOK
<1> QED BY <1>1, <1>2

Pushes == \E d \in Deriveds : Pushing(d)
Takes == \E source \in Nodes : Taking(source)
Drops == \E d \in Deriveds : Dropping(d)

(* Which steps touch what the computations use.                            *)
LEMMA Moves ==
  ASSUME Base, [Next]_vars
  PROVE  /\ UNCHANGED stack \/ Pushes \/ Takes \/ Finish
         /\ UNCHANGED work \/ FlushScope \/ Drops
<1> USE DEF Base, Types, Places
<1>1. ASSUME Getting PROVE Pushes BY <1>1, ReadMoves DEF Getting, Pushes
<1>2. ASSUME ReadSource PROVE Pushes \/ Takes BY <1>2, ReadSourceMoves DEF Pushes, Takes
<1>3. ASSUME Flushing PROVE (Pushes /\ UNCHANGED work) \/ Drops
  BY <1>3, FlushMoves DEF Flushing, Pushes, Drops, Pushing
<1>4. ASSUME Drops PROVE UNCHANGED stack BY <1>4 DEF Drops, Dropping
<1> QED BY <1>1, <1>2, <1>3, <1>4, Touches

-----------------------------------------------------------------------------
(* Types and places are kept.                                              *)

(* Deriveds are never unmade, and keep their rank.                         *)
LEMMA MadeStep ==
  ASSUME TreeType, ControlType, [Next]_vars
  PROVE  /\ Made \subseteq Made'
         /\ \A d \in Made : rank'[d] = rank[d]
         /\ ~Closing => open' = open
         /\ ~Creating => Made' = Made /\ rank' = rank
<1>1. ASSUME NEW d \in Deriveds, NewDerived(d)
      PROVE  Made \subseteq Made' /\ (\A e \in Made : rank'[e] = rank[e]) /\ open' = open
  <2>1. made' = Append(made, d) /\ d \notin Made /\ open' = open BY <1>1 DEF NewDerived
  <2>2. Made' = Made \cup {d} BY <2>1, AppendSeq DEF TreeType, Made
  <2>3. \A e \in Made : rank'[e] = rank[e] BY <1>1, <2>1, MadeType DEF NewDerived, TreeType
  <2> QED BY <2>1, <2>2, <2>3
<1>2. ASSUME Closing PROVE UNCHANGED <<made, rank>> BY <1>2 DEF Closing, Close
<1>3. CASE Creating BY <1>1, <1>3 DEF Creating
<1>4. CASE Closing BY <1>2, <1>4 DEF Made
<1>5. CASE UNCHANGED registry BY <1>5 DEF Made
<1> QED BY <1>3, <1>4, <1>5, Touches

LEMMA NewMade ==
  ASSUME TreeType, NEW d \in Deriveds, NewDerived(d)
  PROVE  Made' = Made \cup {d} /\ d \notin Made /\ open' = open
<1>1. made' = Append(made, d) /\ d \notin Made /\ open' = open BY DEF NewDerived
<1> QED BY <1>1, AppendSeq DEF TreeType, Made

LEMMA GraphStep ==
  ASSUME Base, [Next]_vars PROVE GraphOK'
<1> USE DEF Base, Types, Places
<1>1. ASSUME NEW d \in Made PROVE Placed(d)'
  <2>1. Placed(d) BY DEF GraphOK
  <2>2. \A e \in Made : e \in Made' /\ rank'[e] = rank[e] BY MadeStep
  <2> QED BY <2>1, <2>2 DEF Placed
<1>2. ASSUME NEW d \in Deriveds, NewDerived(d) PROVE Placed(d)'
  <2>1. \A x \in Range(Sources[d]) : (x \in Deriveds => x \in Made) /\ Owner[x] \in Ancestors(Owner[d])
    BY <1>2 DEF NewDerived
  <2>2. d \notin Made /\ Made \subseteq Made' BY <1>2, NewMade
  <2> DEFINE r == Max({0} \cup {rank[x] + 1 : x \in Range(Sources[d]) \cap Deriveds})
  <2>3. rank' = [rank EXCEPT ![d] = r] BY <1>2 DEF NewDerived
  <2>4. \A k \in DOMAIN Sources[d] : Sources[d][k] \in Deriveds => rank[Sources[d][k]] < r
    BY RankAbove
  <2> HIDE DEF r
  <2> SUFFICES ASSUME NEW k \in DOMAIN Sources[d]
               PROVE  /\ Sources[d][k] \in Deriveds =>
                           Sources[d][k] \in Made' /\ rank'[Sources[d][k]] < rank'[d]
                      /\ Owner[Sources[d][k]] \in Ancestors(Owner[d])
    BY DEF Placed
  <2>5. Sources[d][k] \in Range(Sources[d]) BY DEF Range
  <2>6. Owner[Sources[d][k]] \in Ancestors(Owner[d]) BY <2>1, <2>5
  <2>7. ASSUME Sources[d][k] \in Deriveds PROVE Sources[d][k] \in Made' /\ rank'[Sources[d][k]] < rank'[d]
    <3>1. Sources[d][k] \in Made /\ Sources[d][k] # d BY <2>1, <2>2, <2>5, <2>7
    <3>2. rank'[d] = r /\ rank'[Sources[d][k]] = rank[Sources[d][k]] BY <2>3, <2>7, <3>1 DEF TreeType
    <3> QED BY <2>2, <2>4, <2>7, <3>1, <3>2
  <2> QED BY <2>6, <2>7
<1>3. CASE Creating
  <2>1. PICK d \in Deriveds : NewDerived(d) BY <1>3 DEF Creating
  <2>2. Made' = Made \cup {d} BY <2>1, NewMade
  <2> QED BY <1>1, <1>2, <2>1, <2>2 DEF GraphOK
<1>4. CASE ~Creating
  <2>1. Made' = Made BY <1>4, MadeStep
  <2> QED BY <1>1, <2>1 DEF GraphOK
<1> QED BY <1>3, <1>4

LEMMA CacheStep ==
  ASSUME Base, [Next]_vars PROVE CacheType'
<1> USE DEF Base, Types, Places
<1>0. Made \subseteq Deriveds /\ Made' \subseteq Deriveds /\ Made \subseteq Made'
  <2>1. TreeType' BY TreeStep
  <2>2. Made' \subseteq Deriveds BY <2>1 DEF TreeType, Made, Range
  <2> QED BY <2>2, MadeType, MadeStep
<1>1. CASE Mutating
  <2>1. PICK m \in Mutations : Applying(m) BY <1>1 DEF Mutating
  <2>2. m.store \in Nodes BY MutationType DEF Nodes
  <2>3. /\ value' = [value EXCEPT ![m.store] = @ + 1] /\ version' = [version EXCEPT ![m.store] = @ + 1]
        /\ UNCHANGED <<init, dirty, seen, made>>
    BY <2>1 DEF Applying, Apply
  <2> QED BY <2>2, <2>3 DEF CacheType, Made
<1>2. CASE Finish
  <2> DEFINE top == Last(stack)
             d == top.node
  <2>1. stack # <<>> BY <1>2 DEF Finish
  <2>2. d \in Deriveds /\ d \in Made /\ top.read \in Seq(Nat) BY <2>1, TopFacts
  <2>3. /\ value' = [value EXCEPT ![d] = Computed(top.read)] /\ version' = [version EXCEPT ![d] = @ + 1]
        /\ init' = init \cup {d} /\ dirty' = dirty \ {d}
        /\ seen' = [seen EXCEPT ![d] = Versions(d)] /\ UNCHANGED made
    BY <1>2 DEF Finish
  <2>4. Computed(top.read) \in Nat BY <2>2, ComputedType
  <2>5. Versions(d) \in Seq(Nat) BY <2>2, VersionsType
  <2>6. d \in Nodes BY <2>2 DEF Nodes
  <2> HIDE DEF d
  <2>7. value' \in [Nodes -> Nat] /\ version' \in [Nodes -> Nat] BY <2>3, <2>4, <2>6 DEF CacheType
  <2>8. seen' \in [Deriveds -> Seq(Nat)] BY <2>2, <2>3, <2>5 DEF CacheType
  <2>9. init' \in SUBSET Made' /\ dirty' \in SUBSET Made' /\ Made' \subseteq init' \cup dirty'
    BY <2>2, <2>3 DEF CacheType, Made
  <2> QED BY <2>7, <2>8, <2>9 DEF CacheType
<1>3. CASE Marking
  <2>1. PICK d \in Deriveds : Mark(d) BY <1>3 DEF Marking
  <2>2. d \in Made BY <2>1 DEF Mark, RunsOK, LiveSet
  <2>3. dirty' = dirty \cup {d} /\ UNCHANGED <<value, version, init, seen, made>>
    BY <2>1 DEF Mark, MarkDirty
  <2> QED BY <2>2, <2>3 DEF CacheType, Made
<1>4. CASE Creating
  <2>1. PICK d \in Deriveds : NewDerived(d) BY <1>4 DEF Creating
  <2>2. dirty' = dirty \cup {d} /\ UNCHANGED <<value, version, init, seen>> BY <2>1 DEF NewDerived
  <2>3. Made' = Made \cup {d} BY <2>1, NewMade
  <2> QED BY <2>2, <2>3 DEF CacheType
<1>5. CASE Closing
  <2>1. PICK s \in Scopes : Close(s) BY <1>5 DEF Closing
  <2> DEFINE gone == {n \in StoreNodes \cup Made : Owner[n] \in Below(s)}
  <2>2. /\ value' = [n \in Nodes |-> IF n \in gone THEN 0 ELSE value[n]]
        /\ init' = init \ gone /\ dirty' = dirty \cup (gone \cap Made)
        /\ seen' = [d \in Deriveds |-> IF d \in gone THEN <<>> ELSE seen[d]]
        /\ UNCHANGED <<version, made>>
    BY <2>1 DEF Close
  <2> HIDE DEF gone
  <2>3. value' \in [Nodes -> Nat] /\ version' \in [Nodes -> Nat] BY <2>2 DEF CacheType
  <2>4. seen' \in [Deriveds -> Seq(Nat)] BY <2>2 DEF CacheType
  <2>5. init' \in SUBSET Made' /\ dirty' \in SUBSET Made' /\ Made' \subseteq init' \cup dirty'
    BY <2>2 DEF CacheType, Made
  <2> QED BY <2>3, <2>4, <2>5 DEF CacheType
<1>6. CASE UNCHANGED <<value, version>> /\ UNCHANGED <<init, dirty, seen>> /\ Made' = Made
  BY <1>6 DEF CacheType
<1> QED BY <1>1, <1>2, <1>3, <1>4, <1>5, <1>6, Touches, MadeStep

(* A notification goes into the queue of its scope.                        *)
Sends(note) ==
  /\ note \in NoteSet
  /\ Owner[note.node] \in open
  /\ Addressed(note, Owner[note.node], Made)
  /\ queue' = [queue EXCEPT ![Owner[note.node]] = Append(@, note)]

LEMMA EnqueuedSends ==
  ASSUME Types, NEW n \in Nodes, Owner[n] \in open, NEW event \in EventSet,
         NEW targets \in SUBSET Targets(n), queue' = Enqueued(Note(n, targets, event))
  PROVE  Sends(Note(n, targets, event))
<1>1. Targets(n) \subseteq Deriveds BY MadeType DEF Types
<1>2. Note(n, targets, event) \in NoteSet BY <1>1, NoteType
<1>3. Note(n, targets, event).node = n /\ Note(n, targets, event).targets = targets BY DEF Note
<1>4. Addressed(Note(n, targets, event), Owner[n], Made) BY <1>3 DEF Addressed, Targets
<1> QED BY <1>2, <1>3, <1>4 DEF Sends, Enqueued

LEMMA ApplySends ==
  ASSUME Types, NEW m \in Mutations, Applying(m)
  PROVE  Sends(Note(m.store, Targets(m.store), Event(m)))
<1>1. m.store \in Nodes /\ Owner[m.store] \in open BY MutationType DEF Applying, Nodes
<1>2. Event(m) \in EventSet BY EventType DEF Types, DataType
<1>3. queue' = Enqueued(Note(m.store, Targets(m.store), Event(m))) BY DEF Applying, Apply
<1> QED BY <1>1, <1>2, <1>3, EnqueuedSends

LEMMA PostSends ==
  ASSUME Types, NEW m \in Mutations, Posting(m) PROVE Sends(Note(m.store, {}, Skipped))
<1>1. m.store \in Nodes /\ Owner[m.store] \in open BY MutationType DEF Posting, Nodes
<1>2. queue' = Enqueued(Note(m.store, {}, Skipped)) BY DEF Posting
<1> QED BY <1>1, <1>2, SkippedType, EnqueuedSends

LEMMA MarkSends ==
  ASSUME Types, RunsOK, NEW d \in Deriveds, Mark(d)
  PROVE  /\ d \in LiveSet /\ d \in Made /\ Owner[d] \in open
         /\ Clean(d) => Sends(Note(d, Targets(d), Skipped))
         /\ ~Clean(d) => queue' = queue
<1>1. d \in LiveSet /\ d \in Nodes BY DEF Mark, RunsOK, Nodes
<1>2. Owner[d] \in open /\ d \in Made BY <1>1 DEF LiveSet
<1>3. queue' = IF Clean(d) THEN Enqueued(Note(d, Targets(d), Skipped)) ELSE queue
  BY DEF Mark, MarkDirty
<1>4. ASSUME Clean(d) PROVE Sends(Note(d, Targets(d), Skipped))
  <2>1. queue' = Enqueued(Note(d, Targets(d), Skipped)) BY <1>3, <1>4
  <2> QED BY <1>1, <1>2, <2>1, SkippedType, EnqueuedSends
<1> QED BY <1>1, <1>2, <1>3, <1>4

LEMMA FinishSends ==
  ASSUME Types, RunsOK, Finish
  PROVE  /\ Last(stack).node \in LiveSet
         /\ Sends(Note(Last(stack).node, {}, Skipped))
<1> DEFINE d == Last(stack).node
<1>1. stack # <<>> /\ queue' = Enqueued(Note(d, {}, Skipped)) BY DEF Finish
<1>2. d \in LiveSet /\ d \in Deriveds BY <1>1, TopFacts DEF Types
<1>3. d \in Nodes /\ Owner[d] \in open BY <1>2 DEF LiveSet, Nodes
<1> HIDE DEF d
<1>4. Sends(Note(d, {}, Skipped)) BY <1>1, <1>3, SkippedType, EnqueuedSends
<1> QED BY <1>2, <1>4 DEF d

Sending == \E note : Sends(note)

LEMMA QueueMoves ==
  ASSUME Types, RunsOK, [Next]_vars
  PROVE  UNCHANGED queue \/ (Sending /\ (Mutating \/ Posted \/ Finish \/ Marking)) \/ Closing \/ TakeBatch
<1> USE DEF Types
<1>1. ASSUME Mutating PROVE Sending BY <1>1, ApplySends DEF Mutating, Sending
<1>2. ASSUME Posted PROVE Sending BY <1>2, PostSends DEF Posted, Sending
<1>3. ASSUME Marking PROVE Sending \/ UNCHANGED queue BY <1>3, MarkSends DEF Marking, Sending
<1>4. ASSUME Finish PROVE Sending BY <1>4, FinishSends DEF Sending
<1> QED BY <1>1, <1>2, <1>3, <1>4, Touches

(* What a queue holds after a notification was sent.                       *)
LEMMA SendQueue ==
  ASSUME ListType, NEW note, Sends(note)
  PROVE  /\ Owner[note.node] \in Scopes
         /\ queue' \in [Scopes -> Seq(NoteSet)]
         /\ queue'[Owner[note.node]] = Append(queue[Owner[note.node]], note)
         /\ \A s \in Scopes : s # Owner[note.node] => queue'[s] = queue[s]
<1>1. note.node \in Nodes BY DEF Sends, NoteSet
<1>2. Owner[note.node] \in Scopes BY <1>1, NodeAssumption
<1>3. queue[Owner[note.node]] \in Seq(NoteSet) BY <1>2 DEF ListType
<1>4. Append(queue[Owner[note.node]], note) \in Seq(NoteSet) BY <1>3, AppendSeq DEF Sends
<1> QED BY <1>2, <1>4 DEF Sends, ListType

LEMMA TargetsLive == \A n : Targets(n) \subseteq LiveSet
BY DEF Targets, LiveSet

LEMMA ScopeAt ==
  ASSUME NEW k \in 1..Len(ScopeOrder) PROVE ScopeOrder[k] \in Scopes /\ k \in DOMAIN ScopeOrder
BY ScopeAssumption

LEMMA NextScope ==
  ASSUME ControlType, visit < Len(ScopeOrder)
  PROVE  /\ visit \in Nat /\ Len(ScopeOrder) \in Nat /\ visit + 1 \in 1..Len(ScopeOrder)
         /\ ScopeOrder[visit + 1] \in Scopes
<1>1. visit \in Nat /\ Len(ScopeOrder) \in Nat /\ visit + 1 \in 1..Len(ScopeOrder)
  BY ScopeAssumption DEF ControlType
<1> QED BY <1>1, ScopeAt

LEMMA ListStep ==
  ASSUME Base, [Next]_vars PROVE ListType'
<1> USE DEF Base, Types, Places
<1>0. \A n : Targets(n) \subseteq Deriveds BY MadeType
<1>1. list' \in [Scopes -> SUBSET Deriveds]
  <2>1. CASE Creating
    <3>1. PICK d \in Deriveds : NewDerived(d) BY <2>1 DEF Creating
    <3>2. list' = [list EXCEPT ![Owner[d]] = @ \cup {d}] BY <3>1 DEF NewDerived
    <3> QED BY <3>2 DEF ListType
  <2>2. CASE Marking
    <3>1. PICK d \in Deriveds : Mark(d) BY <2>2 DEF Marking
    <3>2. list' = [list EXCEPT ![Owner[d]] = @ \cup {d}] BY <3>1 DEF Mark, MarkDirty
    <3> QED BY <3>2 DEF ListType
  <2>3. CASE Closing BY <2>3 DEF Closing, Close, ListType
  <2>4. CASE FlushScope BY <2>4 DEF FlushScope, ListType
  <2>5. CASE UNCHANGED list BY <2>5 DEF ListType
  <2> QED BY <2>1, <2>2, <2>3, <2>4, <2>5, Touches
<1>2. queue' \in [Scopes -> Seq(NoteSet)]
  <2>1. CASE Sending BY <2>1, SendQueue DEF Sending
  <2>2. CASE Closing BY <2>2 DEF Closing, Close, ListType
  <2>3. CASE TakeBatch BY <2>3 DEF TakeBatch, ListType
  <2>4. CASE UNCHANGED queue BY <2>4 DEF ListType
  <2> QED BY <2>1, <2>2, <2>3, <2>4, QueueMoves
<1>3. batch' \in Seq(NoteSet)
  <2>1. CASE TakeBatch
    <3>1. batch' = queue[ScopeOrder[visit + 1]] /\ visit < Len(ScopeOrder) BY <2>1 DEF TakeBatch
    <3> QED BY <3>1, NextScope DEF ListType
  <2>2. CASE Deliver BY <2>2, TailSeq DEF Deliver, ListType
  <2>3. CASE UNCHANGED batch BY <2>3 DEF ListType
  <2> QED BY <2>1, <2>2, <2>3, Touches
<1>4. marking' \in SUBSET Deriveds
  <2>1. CASE Finish BY <1>0, <2>1 DEF Finish
  <2>2. CASE Marking BY <2>2 DEF Marking, Mark, ListType
  <2>3. CASE Deliver
    <3>1. marking' \subseteq Targets(Head(batch).node) BY <2>3 DEF Deliver
    <3> QED BY <1>0, <3>1
  <2>4. CASE UNCHANGED marking BY <2>4 DEF ListType
  <2> QED BY <2>1, <2>2, <2>3, <2>4, Touches
<1>5. work' \in SUBSET Deriveds
  <2>1. CASE FlushScope
    <3>1. work' = list[ScopeOrder[visit + 1]] /\ visit < Len(ScopeOrder) BY <2>1 DEF FlushScope
    <3> QED BY <3>1, NextScope DEF ListType
  <2>2. CASE Drops BY <2>2 DEF Drops, Dropping, ListType
  <2>3. CASE UNCHANGED work BY <2>3 DEF ListType
  <2> QED BY <2>1, <2>2, <2>3, Moves
<1>6. stack' \in Seq(FrameSet)
  <2>1. CASE Pushes
    <3>1. PICK d \in Deriveds : stack' = Append(stack, [node |-> d, read |-> <<>>])
      BY <2>1 DEF Pushes, Pushing, Compute
    <3>2. [node |-> d, read |-> <<>>] \in FrameSet BY DEF FrameSet
    <3> QED BY <3>1, <3>2, AppendSeq DEF ListType
  <2>2. CASE Takes
    <3>1. PICK x \in Nodes : Taking(x) BY <2>2 DEF Takes
    <3> DEFINE new == [node |-> Last(stack).node, read |-> Append(Last(stack).read, value[x])]
    <3>2. stack # <<>> /\ stack' = [stack EXCEPT ![Len(stack)] = new] BY <3>1 DEF Taking
    <3>3. Last(stack).node \in Deriveds /\ Last(stack).read \in Seq(Nat) BY <3>2, TopFacts
    <3>4. value[x] \in Nat BY DEF CacheType
    <3>5. Append(Last(stack).read, value[x]) \in Seq(Nat) BY <3>3, <3>4, AppendSeq
    <3>6. new \in FrameSet BY <3>3, <3>5 DEF FrameSet
    <3> HIDE DEF new
    <3> QED BY <3>2, <3>6 DEF ListType
  <2>3. CASE Finish
    <3>1. stack # <<>> /\ stack' = Front(stack) BY <2>3 DEF Finish
    <3> QED BY <3>1, FrontSeq DEF ListType
  <2>4. CASE UNCHANGED stack BY <2>4 DEF ListType
  <2> QED BY <2>1, <2>2, <2>3, <2>4, Moves
<1> QED BY <1>1, <1>2, <1>3, <1>4, <1>5, <1>6 DEF ListType

LEMMA ListsStep ==
  ASSUME Base, [Next]_vars PROVE ListsOK'
<1> USE DEF Base, Types, Places
<1>0. Made \subseteq Made' /\ open' \subseteq open
  <2>1. ASSUME Closing PROVE open' \subseteq open BY <2>1 DEF Closing, Close
  <2> QED BY <2>1, MadeStep
<1>1. ASSUME NEW s \in Scopes, NEW d \in list'[s] PROVE d \in Made' /\ Owner[d] = s
  <2>1. CASE d \in list[s] BY <1>0, <2>1 DEF ListsOK
  <2>2. CASE Creating /\ d \notin list[s]
    <3>1. PICK e \in Deriveds : NewDerived(e) BY <2>2 DEF Creating
    <3>2. list' = [list EXCEPT ![Owner[e]] = @ \cup {e}] BY <3>1 DEF NewDerived
    <3>3. d = e /\ s = Owner[e] BY <1>1, <2>2, <3>2 DEF ListType
    <3> QED BY <3>1, <3>3, NewMade
  <2>3. CASE Marking /\ d \notin list[s]
    <3>1. PICK e \in Deriveds : Mark(e) BY <2>3 DEF Marking
    <3>2. list' = [list EXCEPT ![Owner[e]] = @ \cup {e}] BY <3>1 DEF Mark, MarkDirty
    <3>3. d = e /\ s = Owner[e] BY <1>1, <2>3, <3>2 DEF ListType
    <3> QED BY <1>0, <3>1, <3>3, MarkSends
  <2>4. CASE Closing BY <1>1, <2>1, <2>4 DEF Closing, Close
  <2>5. CASE FlushScope
    <3>1. list' = [list EXCEPT ![ScopeOrder[visit + 1]] = {}] BY <2>5 DEF FlushScope
    <3> QED BY <1>1, <2>1, <3>1 DEF ListType
  <2>6. CASE UNCHANGED list BY <1>1, <2>1, <2>6
  <2> QED BY <2>1, <2>2, <2>3, <2>4, <2>5, <2>6, Touches
<1>2. ASSUME NEW s \in Scopes \ open' PROVE list'[s] = {}
  <2>1. CASE Creating
    <3>1. PICK e \in Deriveds : NewDerived(e) BY <2>1 DEF Creating
    <3>2. list' = [list EXCEPT ![Owner[e]] = @ \cup {e}] /\ Owner[e] \in open /\ open' = open
      BY <3>1 DEF NewDerived
    <3> QED BY <1>2, <3>2 DEF ListType, ListsOK
  <2>2. CASE Marking
    <3>1. PICK e \in Deriveds : Mark(e) BY <2>2 DEF Marking
    <3>2. list' = [list EXCEPT ![Owner[e]] = @ \cup {e}] /\ Owner[e] \in open /\ open' = open
      BY <3>1, MarkSends DEF Mark, MarkDirty
    <3> QED BY <1>2, <3>2 DEF ListType, ListsOK
  <2>3. CASE Closing
    <3>1. PICK x \in Scopes : Close(x) BY <2>3 DEF Closing
    <3>2. /\ list' = [y \in Scopes |-> IF y \in Below(x) THEN {} ELSE list[y]]
          /\ open' = open \ Below(x)
      BY <3>1 DEF Close
    <3> QED BY <1>2, <3>2 DEF ListsOK
  <2>4. CASE FlushScope
    <3>1. list' = [list EXCEPT ![ScopeOrder[visit + 1]] = {}] /\ open' = open BY <2>4 DEF FlushScope
    <3> QED BY <1>2, <3>1 DEF ListType, ListsOK
  <2>5. CASE UNCHANGED list /\ ~Closing
    <3>1. open' = open BY <2>5, MadeStep
    <3> QED BY <1>2, <2>5, <3>1 DEF ListsOK
  <2> QED BY <2>1, <2>2, <2>3, <2>4, <2>5, Touches
<1>3. ASSUME NEW s \in Scopes \ open' PROVE queue'[s] = <<>>
  <2>1. CASE Sending /\ ~Closing
    <3>1. PICK note : Sends(note) BY <2>1 DEF Sending
    <3>2. Owner[note.node] \in open /\ open' = open BY <2>1, <3>1, MadeStep DEF Sends
    <3> QED BY <1>3, <3>1, <3>2, SendQueue DEF ListsOK
  <2>2. CASE Closing
    <3>1. PICK x \in Scopes : Close(x) BY <2>2 DEF Closing
    <3>2. /\ queue' = [y \in Scopes |-> IF y \in Below(x) THEN <<>> ELSE queue[y]]
          /\ open' = open \ Below(x)
      BY <3>1 DEF Close
    <3> QED BY <1>3, <3>2 DEF ListsOK
  <2>3. CASE TakeBatch
    <3>1. queue' = [queue EXCEPT ![ScopeOrder[visit + 1]] = <<>>] /\ open' = open BY <2>3 DEF TakeBatch
    <3> QED BY <1>3, <3>1 DEF ListType, ListsOK
  <2>4. CASE UNCHANGED queue /\ ~Closing
    <3>1. open' = open BY <2>4, MadeStep
    <3> QED BY <1>3, <2>4, <3>1 DEF ListsOK
  <2> QED BY <2>1, <2>2, <2>3, <2>4, QueueMoves
<1> QED BY <1>1, <1>2, <1>3 DEF ListsOK

LEMMA AddressedStep ==
  ASSUME TreeType, ControlType, [Next]_vars, NEW note, NEW s, Addressed(note, s, Made)
  PROVE  Addressed(note, s, Made')
BY MadeStep DEF Addressed

LEMMA NotesStep ==
  ASSUME Base, [Next]_vars PROVE NotesOK'
<1> USE DEF Base, Types, Places
<1>1. ASSUME NEW s \in Scopes, NEW k \in DOMAIN queue'[s] PROVE Addressed(queue'[s][k], s, Made')
  <2>1. \A j \in DOMAIN queue[s] : Addressed(queue[s][j], s, Made') BY AddressedStep DEF NotesOK
  <2>2. CASE Sending
    <3>1. PICK note : Sends(note) BY <2>2 DEF Sending
    <3>2. CASE s # Owner[note.node]
      <4>1. queue'[s] = queue[s] BY <3>1, <3>2, SendQueue
      <4> QED BY <1>1, <2>1, <4>1
    <3>3. CASE s = Owner[note.node]
      <4>1. queue'[s] = Append(queue[s], note) BY <3>1, <3>3, SendQueue
      <4>2. queue[s] \in Seq(NoteSet) /\ note \in NoteSet BY <3>1 DEF ListType, Sends
      <4>3. k \in 1..(Len(queue[s]) + 1) BY <1>1, <4>1, <4>2, AppendSeq
      <4>4. (k \in DOMAIN queue[s] /\ queue'[s][k] = queue[s][k]) \/ queue'[s][k] = note
        BY <4>1, <4>2, <4>3, AppendSeq
      <4>5. Addressed(note, s, Made') BY <3>1, <3>3, AddressedStep DEF Sends
      <4> QED BY <2>1, <4>4, <4>5
    <3> QED BY <3>2, <3>3
  <2>3. CASE Closing
    <3>1. PICK x \in Scopes : Close(x) BY <2>3 DEF Closing
    <3>2. queue' = [y \in Scopes |-> IF y \in Below(x) THEN <<>> ELSE queue[y]] BY <3>1 DEF Close
    <3>3. queue'[s] = <<>> \/ queue'[s] = queue[s] BY <3>2
    <3> QED BY <1>1, <2>1, <3>3
  <2>4. CASE TakeBatch
    <3>1. queue' = [queue EXCEPT ![ScopeOrder[visit + 1]] = <<>>] BY <2>4 DEF TakeBatch
    <3>2. queue'[s] = <<>> \/ queue'[s] = queue[s] BY <3>1 DEF ListType
    <3> QED BY <1>1, <2>1, <3>2
  <2>5. CASE UNCHANGED queue BY <1>1, <2>1, <2>5
  <2> QED BY <2>2, <2>3, <2>4, <2>5, QueueMoves
<1>2. ASSUME NEW k \in DOMAIN batch' PROVE visit' > 0 /\ Addressed(batch'[k], ScopeOrder[visit'], Made')
  <2>1. CASE TakeBatch
    <3> DEFINE s == ScopeOrder[visit + 1]
    <3>1. batch' = queue[s] /\ visit < Len(ScopeOrder) /\ visit' = visit + 1 BY <2>1 DEF TakeBatch
    <3>2. s \in Scopes /\ visit' > 0 BY <3>1, NextScope
    <3>3. Addressed(queue[s][k], s, Made) BY <1>2, <3>1, <3>2 DEF NotesOK
    <3>4. Addressed(queue[s][k], s, Made') BY <3>3, AddressedStep
    <3> QED BY <3>1, <3>2, <3>4
  <2>2. CASE Deliver
    <3>1. batch # <<>> /\ batch' = Tail(batch) /\ visit' = visit BY <2>2 DEF Deliver
    <3>2. k + 1 \in DOMAIN batch /\ batch'[k] = batch[k + 1] BY <1>2, <3>1, TailSeq DEF ListType
    <3>3. visit > 0 /\ Addressed(batch[k + 1], ScopeOrder[visit], Made) BY <3>2 DEF NotesOK
    <3>4. Addressed(batch[k + 1], ScopeOrder[visit], Made') BY <3>3, AddressedStep
    <3> QED BY <3>1, <3>2, <3>3, <3>4
  <2>3. CASE UNCHANGED batch /\ ~TakeBatch /\ ~Deliver
    <3>1. batch # <<>> BY <1>2, <2>3
    <3>2. phase = "signals" /\ worked BY <3>1 DEF RunsOK
    <3>3. visit' = visit
      BY <2>3, <3>1, <3>2, Touches DEF StartSignals, EndPass, Flush, FlushScope, EndFlush, EndFrame
    <3>4. visit > 0 /\ Addressed(batch[k], ScopeOrder[visit], Made) BY <1>2, <2>3 DEF NotesOK
    <3>5. Addressed(batch[k], ScopeOrder[visit], Made') BY <3>4, AddressedStep
    <3> QED BY <2>3, <3>3, <3>4, <3>5
  <2> QED BY <2>1, <2>2, <2>3, Touches
<1> QED BY <1>1, <1>2 DEF NotesOK

LEMMA RunsStep ==
  ASSUME Base, [Next]_vars PROVE RunsOK'
<1> USE DEF Base, Types, Places
<1>1. CASE Closing
  <2>1. PICK s \in Scopes : Close(s) BY <1>1 DEF Closing
  <2>2. Turn /\ UNCHANGED <<stack, marking, work, batch, phase, worked>> BY <2>1 DEF Close, AppActs, Idle, Turn
  <2>3. stack' = <<>> /\ marking' = {} /\ work' = {} BY <2>2 DEF Turn, RunsOK
  <2> QED BY <2>2, <2>3 DEF RunsOK
<1>2. CASE ~Closing
  <2>0. LiveSet \subseteq LiveSet' BY <1>2, MadeStep DEF LiveSet
  <2>1. marking' \subseteq LiveSet'
    <3>1. CASE Finish BY <2>0, <3>1, TargetsLive DEF Finish
    <3>2. CASE Marking BY <2>0, <3>2 DEF Marking, Mark, RunsOK
    <3>3. CASE Deliver
      <4>1. marking' \subseteq Targets(Head(batch).node) BY <3>3 DEF Deliver
      <4> QED BY <2>0, <4>1, TargetsLive
    <3>4. CASE UNCHANGED marking BY <2>0, <3>4 DEF RunsOK
    <3> QED BY <3>1, <3>2, <3>3, <3>4, Touches
  <2>2. work' \subseteq LiveSet'
    <3>1. CASE FlushScope
      <4> DEFINE s == ScopeOrder[visit + 1]
      <4>1. work' = list[s] /\ visit < Len(ScopeOrder) BY <3>1 DEF FlushScope
      <4>2. s \in Scopes BY <4>1, NextScope
      <4>3. s \notin open => list[s] = {} BY <4>2 DEF ListsOK
      <4>4. list[s] \subseteq LiveSet BY <4>2, <4>3 DEF ListsOK, LiveSet
      <4> QED BY <2>0, <4>1, <4>4
    <3>2. CASE Drops BY <2>0, <3>2 DEF Drops, Dropping, RunsOK
    <3>3. CASE UNCHANGED work BY <2>0, <3>3 DEF RunsOK
    <3> QED BY <3>1, <3>2, <3>3, Moves
  <2>3. ASSUME NEW i \in DOMAIN stack'
        PROVE  /\ stack'[i].node \in LiveSet'
               /\ Len(stack'[i].read) <= Len(Sources[stack'[i].node])
               /\ Len(stack'[i].read) <= Count(stack'[i].node, stack'[i].read)
    <3>1. CASE i \in DOMAIN stack /\ stack'[i] = stack[i] BY <2>0, <3>1 DEF RunsOK
    <3>2. CASE Pushes
      <4>1. PICK d \in Deriveds : Pushing(d) BY <3>2 DEF Pushes
      <4> DEFINE new == [node |-> d, read |-> <<>>]
      <4>2. stack' = Append(stack, new) /\ d \in LiveSet BY <4>1 DEF Pushing, Compute
      <4>3. new \in FrameSet BY DEF FrameSet
      <4>4. i \in 1..(Len(stack) + 1) BY <2>3, <4>2, <4>3, AppendSeq DEF ListType
      <4>5. (i \in DOMAIN stack /\ stack'[i] = stack[i]) \/ stack'[i] = new
        BY <4>2, <4>3, <4>4, AppendSeq DEF ListType
      <4>6. CASE stack'[i] = new
        <5>1. stack'[i].node = d /\ stack'[i].read = <<>> BY <4>6
        <5>2. Count(d, <<>>) = Len(Sources[d]) /\ Len(Sources[d]) \in Nat BY SourcesType DEF Count
        <5>3. Len(<<>>) = 0 OBVIOUS
        <5> QED BY <2>0, <4>2, <5>1, <5>2, <5>3
      <4> QED BY <3>1, <4>5, <4>6
    <3>3. CASE Takes
      <4>1. PICK x \in Nodes : Taking(x) BY <3>3 DEF Takes
      <4> DEFINE top == Last(stack)
                 new == [node |-> top.node, read |-> Append(top.read, value[x])]
      <4>2. stack # <<>> /\ stack' = [stack EXCEPT ![Len(stack)] = new] BY <4>1 DEF Taking
      <4>3. Len(top.read) < Count(top.node, top.read) BY <4>1 DEF Taking, Due
      <4>4. /\ top.node \in Deriveds /\ top.node \in LiveSet /\ top.read \in Seq(Nat)
            /\ Len(stack) \in DOMAIN stack
        BY <4>2, TopFacts
      <4>5. value[x] \in Nat BY DEF CacheType
      <4>6. /\ Len(Append(top.read, value[x])) <= Count(top.node, Append(top.read, value[x]))
            /\ Len(Append(top.read, value[x])) <= Len(Sources[top.node])
        BY <4>3, <4>4, <4>5, CountNext
      <4>7. new.node = top.node /\ new.read = Append(top.read, value[x]) OBVIOUS
      <4> HIDE DEF new
      <4>8. i \in DOMAIN stack /\ stack'[i] = IF i = Len(stack) THEN new ELSE stack[i]
        BY <2>3, <4>2 DEF ListType
      <4>9. CASE i = Len(stack) BY <2>0, <4>4, <4>6, <4>7, <4>8, <4>9
      <4> QED BY <3>1, <4>8, <4>9
    <3>4. CASE Finish
      <4>1. stack # <<>> /\ stack' = Front(stack) BY <3>4 DEF Finish
      <4>2. i \in DOMAIN stack /\ stack'[i] = stack[i] BY <2>3, <4>1, FrontSeq DEF ListType
      <4> QED BY <3>1, <4>2
    <3>5. CASE UNCHANGED stack BY <2>3, <3>1, <3>5
    <3> QED BY <3>2, <3>3, <3>4, <3>5, Moves
  <2>4. batch' # <<>> => phase' = "signals" /\ worked'
    <3>1. CASE TakeBatch BY <3>1 DEF TakeBatch
    <3>2. CASE ~TakeBatch
      <4>1. batch' # <<>> => batch # <<>> BY <3>2, Touches DEF Deliver
      <4>2. ASSUME batch # <<>> PROVE UNCHANGED <<phase, visit, worked>>
        <5>1. phase = "signals" BY <4>2 DEF RunsOK
        <5> QED BY <3>2, <4>2, <5>1, Touches DEF StartSignals, EndPass, Flush, FlushScope, EndFlush, EndFrame
      <4> QED BY <4>1, <4>2 DEF RunsOK
    <3> QED BY <3>1, <3>2
  <2>5. work' # {} => phase' = "flush"
    <3>1. CASE FlushScope BY <3>1 DEF FlushScope
    <3>2. CASE ~FlushScope
      <4>1. work' # {} => work # {} BY <3>2, Moves DEF Drops, Dropping
      <4>2. ASSUME work # {} PROVE UNCHANGED <<phase, visit, worked>>
        <5>1. phase = "flush" BY <4>2 DEF RunsOK
        <5> QED BY <3>2, <4>2, <5>1, Touches DEF StartSignals, TakeBatch, EndPass, Flush, EndFlush, EndFrame
      <4> QED BY <4>1, <4>2 DEF RunsOK
    <3> QED BY <3>1, <3>2
  <2> QED BY <2>1, <2>2, <2>3, <2>4, <2>5 DEF RunsOK
<1> QED BY <1>1, <1>2

LEMMA BaseStep == ASSUME Base, [Next]_vars PROVE Base'
<1>1. Types /\ Places BY DEF Base
<1>2. Types'
  <2>1. TreeType' /\ ControlType' BY <1>1, TreeStep, ControlStep DEF Types
  <2>2. CacheType' /\ ListType' BY CacheStep, ListStep
  <2>3. DataType' BY <1>1, DataStep DEF Types
  <2> QED BY <2>1, <2>2, <2>3 DEF Types
<1>3. Places' BY GraphStep, ListsStep, NotesStep, RunsStep DEF Places
<1> QED BY <1>2, <1>3 DEF Base

LEMMA BaseInit == ASSUME Init PROVE Base
<1> USE DEF Init
<1>1. TreeType
  <2>1. Closed(Scopes) BY ScopeAssumption DEF Closed
  <2>2. made \in Seq(Deriveds) /\ IsInjective(made) BY DEF IsInjective
  <2> QED BY <2>1, <2>2, RootIn DEF TreeType
<1>2. Made = {} /\ LiveSet = {} BY DEF Made, Range, LiveSet
<1>3. CacheType BY <1>2 DEF CacheType
<1>4. ListType BY DEF ListType
<1>5. ControlType BY ControlInit
<1>6. DataType BY EmptyFormed, DetachedUpright DEF DataType
<1>7. Places BY <1>2 DEF Places, GraphOK, ListsOK, NotesOK, RunsOK
<1> QED BY <1>1, <1>3, <1>4, <1>5, <1>6, <1>7 DEF Base, Types

LEMMA BaseAlways == Spec => []Base
BY BaseInit, BaseStep, PTL DEF Spec

LEMMA BaseTypeOK == ASSUME Base PROVE TypeOK
<1> USE DEF Base, Types, Places
<1>1. coll.items \in Seq(ItemIDs) /\ IsInjective(coll.items) BY DEF DataType, Formed, IsInjective
<1>2. open \subseteq Scopes /\ entries \subseteq MapKeys BY DEF DataType, TreeType
<1>3. made \in Seq(Deriveds) /\ IsInjective(made) /\ rank \in [Deriveds -> Nat] BY DEF TreeType
<1>4. value \in [Nodes -> Nat] /\ version \in [Nodes -> Nat] /\ init \subseteq Made /\ dirty \subseteq Made
  BY DEF CacheType
<1>5. \A s \in Scopes : list[s] \subseteq {d \in Made : Owner[d] = s} BY DEF ListsOK
<1>6. \A s \in Scopes : \A k \in DOMAIN queue[s] :
        /\ Owner[queue[s][k].node] = s
        /\ \A d \in queue[s][k].targets : d \in Made /\ queue[s][k].node \in Range(Sources[d])
  BY DEF NotesOK, Addressed
<1>7. marking \subseteq Made /\ work \subseteq Made BY DEF RunsOK, LiveSet
<1>8. \A k \in DOMAIN stack : Live(stack[k].node) /\ Len(stack[k].read) <= Len(Sources[stack[k].node])
  BY DEF RunsOK, LiveSet, Live
<1>9. phase \in Phases /\ visit \in 0..Len(ScopeOrder) /\ mutations \in 0..scenario.bound
  BY DEF ControlType
<1> QED BY <1>1, <1>2, <1>3, <1>4, <1>5, <1>6, <1>7, <1>8, <1>9 DEF TypeOK, Phases

(* Every variable of the stores keeps its type: lists, queues and          *)
(* computations under way never refer to a derived of another scope, to    *)
(* one that does not exist or, while it computes, to one that is closed.   *)
THEOREM StoresTypeCorrect == Spec => []TypeOK
BY BaseAlways, BaseTypeOK, PTL

(* Whatever the application does with the stores, transactions and closing *)
(* of scopes included, the collection's index is the inverse of its items. *)
THEOREM StoresIndexExact == Spec => []IndexExact
<1>1. Base => IndexExact BY DEF Base, Types, DataType, Formed, IndexExact
<1> QED BY <1>1, BaseAlways, PTL

-----------------------------------------------------------------------------
(* What everything would be worth, computed anew.                          *)

(* What a derived computes from all its sources, and one step of Anew.     *)
Worth(d, all) == Computed([k \in 1..Count(d, all) |-> all[k]])

Once(f, held) ==
  [n \in Nodes |->
     IF n \in StoreNodes THEN held[n]
     ELSE Worth(n, [k \in DOMAIN Sources[n] |-> f[Sources[n][k]]])]

LEMMA AnewChosen == \A held : Anew(held) = CHOOSE f : f = Once(f, held)
BY DEF Anew, Once, Worth

(* The recursion ends, since no source reaches the height of its derived.  *)
LEMMA AnewExists ==
  ASSUME NEW held PROVE \E f : f = Once(f, held)
<1>1. PICK height \in [Deriveds -> 0..Cardinality(Deriveds)] :
        \A d \in Deriveds : \A k \in DOMAIN Sources[d] :
          Sources[d][k] \in Deriveds => height[Sources[d][k]] < height[d]
  BY NodeAssumption
<1>2. Cardinality(Deriveds) \in Nat BY NodeAssumption, FS_CardinalityType
<1> DEFINE level(n) == IF n \in StoreNodes THEN 0 ELSE height[n] + 1
           good(f, k) == \A n \in Nodes : level(n) < k => f[n] = Once(f, held)[n]
           K == {k \in Nat : \E f : good(f, k)}
<1>3. \A n \in Nodes : level(n) \in Nat /\ level(n) < Cardinality(Deriveds) + 2
  <2>1. \A d \in Deriveds : height[d] \in Nat /\ height[d] <= Cardinality(Deriveds) BY <1>1, <1>2
  <2> QED BY <1>2, <2>1 DEF Nodes
<1>4. ASSUME NEW n \in Nodes \ StoreNodes, NEW k \in DOMAIN Sources[n]
      PROVE  Sources[n][k] \in Nodes /\ level(Sources[n][k]) < level(n)
  <2>1. n \in Deriveds BY DEF Nodes
  <2>2. Sources[n][k] \in Nodes BY <2>1, SourcesType
  <2>3. height[n] \in Nat BY <1>1, <1>2, <2>1
  <2>4. CASE Sources[n][k] \in StoreNodes BY <1>4, <2>2, <2>3, <2>4
  <2>5. CASE Sources[n][k] \notin StoreNodes
    <3>1. Sources[n][k] \in Deriveds BY <2>2, <2>5 DEF Nodes
    <3>2. height[Sources[n][k]] < height[n] /\ height[Sources[n][k]] \in Nat BY <1>1, <1>2, <2>1, <3>1
    <3> QED BY <1>4, <2>2, <2>3, <2>5, <3>2
  <2> QED BY <2>4, <2>5
<1> HIDE DEF level
<1>5. 0 \in K
  <2>1. \A n \in Nodes : ~(level(n) < 0) BY <1>3
  <2> QED BY <2>1
<1>6. ASSUME NEW k \in Nat, k \in K PROVE k + 1 \in K
  <2>1. PICK f : good(f, k) BY <1>6
  <2> DEFINE g == [n \in Nodes |-> IF level(n) < k + 1 THEN Once(f, held)[n] ELSE 0]
  <2>2. ASSUME NEW n \in Nodes, level(n) < k + 1 PROVE g[n] = Once(g, held)[n]
    <3>1. g[n] = Once(f, held)[n] BY <2>2
    <3>2. CASE n \in StoreNodes BY <3>1, <3>2 DEF Once
    <3>3. CASE n \notin StoreNodes
      <4>1. ASSUME NEW j \in DOMAIN Sources[n] PROVE f[Sources[n][j]] = g[Sources[n][j]]
        <5>1. Sources[n][j] \in Nodes /\ level(Sources[n][j]) < level(n) BY <1>4, <3>3
        <5>2. level(Sources[n][j]) < k /\ level(Sources[n][j]) < k + 1 BY <1>3, <2>2, <5>1
        <5> QED BY <2>1, <5>1, <5>2
      <4>2. [j \in DOMAIN Sources[n] |-> f[Sources[n][j]]] = [j \in DOMAIN Sources[n] |-> g[Sources[n][j]]]
        BY <4>1
      <4> HIDE DEF g
      <4> QED BY <3>1, <3>3, <4>2 DEF Once
    <3> QED BY <3>2, <3>3
  <2> HIDE DEF g
  <2>3. good(g, k + 1) BY <2>2
  <2> QED BY <2>3
<1>7. Cardinality(Deriveds) + 2 \in K
  <2> HIDE DEF K
  <2> QED BY <1>2, <1>5, <1>6, Induction
<1>8. PICK f : good(f, Cardinality(Deriveds) + 2) BY <1>7
<1>9. \A n \in Nodes : f[n] = Once(f, held)[n] BY <1>3, <1>8
<1> DEFINE h == [n \in Nodes |-> f[n]]
<1>10. Once(h, held) = Once(f, held)
  <2>1. ASSUME NEW n \in Nodes \ StoreNodes
        PROVE  [j \in DOMAIN Sources[n] |-> f[Sources[n][j]]] = [j \in DOMAIN Sources[n] |-> h[Sources[n][j]]]
    BY <1>4
  <2> HIDE DEF h
  <2> QED BY <2>1 DEF Once
<1>11. Once(f, held) = h BY <1>9 DEF Once
<1> QED BY <1>10, <1>11

LEMMA AnewIs ==
  ASSUME NEW held
  PROVE  /\ \A n \in StoreNodes : Anew(held)[n] = held[n]
         /\ \A d \in Deriveds :
              Anew(held)[d] = Worth(d, [k \in DOMAIN Sources[d] |-> Anew(held)[Sources[d][k]]])
<1>1. Anew(held) = Once(Anew(held), held) BY AnewChosen, AnewExists
<1>2. StoreNodes \subseteq Nodes /\ Deriveds \subseteq Nodes /\ \A d \in Deriveds : d \notin StoreNodes
  BY NodeAssumption DEF Nodes
<1> QED BY <1>1, <1>2 DEF Once

-----------------------------------------------------------------------------
(* Notifications on their way.                                             *)

(* The deriveds a notification is on its way to, from any node and from    *)
(* another derived.                                                        *)
Queued == UNION {note.targets : note \in Notes}
Warned == UNION {note.targets : note \in {x \in Notes : x.node \in Deriveds}}

LEMMA ToldIs == Told = marking \cup Warned
BY DEF Told, Warned

LEMMA NoteIn ==
  ASSUME Base, NEW note \in Notes
  PROVE  /\ note \in NoteSet
         /\ Addressed(note, Owner[note.node], Made)
         /\ \/ \E k \in DOMAIN batch : note = batch[k]
            \/ \E s \in Scopes : \E k \in DOMAIN queue[s] : note = queue[s][k]
<1> USE DEF Base, Types, Places
<1>1. CASE note \in Range(batch)
  <2>1. PICK k \in DOMAIN batch : note = batch[k] BY <1>1 DEF Range
  <2>2. note \in NoteSet BY <2>1 DEF ListType
  <2>3. Addressed(note, ScopeOrder[visit], Made) BY <2>1 DEF NotesOK
  <2> QED BY <2>1, <2>2, <2>3 DEF Addressed
<1>2. CASE note \notin Range(batch)
  <2>1. PICK s \in Scopes : note \in Range(queue[s]) BY <1>2 DEF Notes
  <2>2. PICK k \in DOMAIN queue[s] : note = queue[s][k] BY <2>1 DEF Range
  <2>3. queue[s] \in Seq(NoteSet) BY DEF ListType
  <2>4. note \in NoteSet BY <2>2, <2>3
  <2>5. Addressed(note, s, Made) BY <2>2 DEF NotesOK
  <2> QED BY <2>2, <2>4, <2>5 DEF Addressed
<1> QED BY <1>1, <1>2

LEMMA SendNotes ==
  ASSUME Base, NEW note, Sends(note), UNCHANGED batch PROVE Notes' = Notes \cup {note}
<1> USE DEF Base, Types
<1>1. /\ Owner[note.node] \in Scopes
      /\ queue'[Owner[note.node]] = Append(queue[Owner[note.node]], note)
      /\ \A s \in Scopes : s # Owner[note.node] => queue'[s] = queue[s]
  BY SendQueue
<1>2. queue[Owner[note.node]] \in Seq(NoteSet) /\ note \in NoteSet BY <1>1 DEF ListType, Sends
<1>3. Range(queue'[Owner[note.node]]) = Range(queue[Owner[note.node]]) \cup {note}
  BY <1>1, <1>2, AppendSeq
<1>4. \A s \in Scopes : Range(queue'[s]) = Range(queue[s]) \/
                        (s = Owner[note.node] /\ Range(queue'[s]) = Range(queue[s]) \cup {note})
  BY <1>1, <1>3
<1> QED BY <1>1, <1>3, <1>4 DEF Notes

LEMMA TakeNotes == ASSUME Base, TakeBatch PROVE Notes' = Notes
<1> USE DEF Base, Types
<1> DEFINE s == ScopeOrder[visit + 1]
<1>1. /\ batch = <<>> /\ batch' = queue[s] /\ queue' = [queue EXCEPT ![s] = <<>>]
      /\ visit < Len(ScopeOrder)
  BY DEF TakeBatch
<1>2. s \in Scopes BY <1>1, NextScope
<1> HIDE DEF s
<1>3. Range(<<>>) = {} BY DEF Range
<1>4. \A x \in Scopes : queue'[x] = IF x = s THEN <<>> ELSE queue[x] BY <1>1 DEF ListType
<1>5. Range(batch') = Range(queue[s]) /\ Range(batch) = {} BY <1>1, <1>3
<1>6. Notes' \subseteq Notes
  <2> SUFFICES ASSUME NEW n \in Notes' PROVE n \in Notes OBVIOUS
  <2>1. CASE n \in Range(batch') BY <1>2, <1>5, <2>1 DEF Notes
  <2>2. CASE n \notin Range(batch')
    <3>1. PICK x \in Scopes : n \in Range(queue'[x]) BY <2>2 DEF Notes
    <3>2. n \in Range(queue[x]) BY <1>3, <1>4, <3>1
    <3> QED BY <3>2 DEF Notes
  <2> QED BY <2>1, <2>2
<1>7. Notes \subseteq Notes'
  <2> SUFFICES ASSUME NEW n \in Notes PROVE n \in Notes' OBVIOUS
  <2>1. PICK x \in Scopes : n \in Range(queue[x]) BY <1>5 DEF Notes
  <2>2. CASE x = s BY <1>5, <2>1, <2>2 DEF Notes
  <2>3. CASE x # s
    <3>1. n \in Range(queue'[x]) BY <1>4, <2>1, <2>3
    <3> QED BY <3>1 DEF Notes
  <2> QED BY <2>2, <2>3
<1> QED BY <1>6, <1>7

LEMMA DeliverNotes ==
  ASSUME Base, Deliver PROVE Notes = Notes' \cup {Head(batch)}
<1> USE DEF Base, Types
<1>1. batch # <<>> /\ batch' = Tail(batch) /\ queue' = queue BY DEF Deliver
<1>2. Range(batch) = {Head(batch)} \cup Range(batch') BY <1>1, TailSeq DEF ListType
<1> QED BY <1>1, <1>2 DEF Notes

LEMMA CloseNotes ==
  ASSUME Base, NEW s \in Scopes, Close(s)
  PROVE  /\ Notes' \subseteq Notes
         /\ \A note \in Notes : note \in Notes' \/ Owner[note.node] \notin open'
<1> USE DEF Base, Types, Places
<1>1. /\ queue' = [x \in Scopes |-> IF x \in Below(s) THEN <<>> ELSE queue[x]] /\ batch' = batch
      /\ open' = open \ Below(s)
  BY DEF Close
<1>2. Range(<<>>) = {} BY DEF Range
<1>3. \A x \in Scopes : queue'[x] = IF x \in Below(s) THEN <<>> ELSE queue[x] BY <1>1
<1>4. Notes' \subseteq Notes
  <2> SUFFICES ASSUME NEW n \in Notes' PROVE n \in Notes OBVIOUS
  <2>1. CASE n \in Range(batch') BY <1>1, <2>1 DEF Notes
  <2>2. CASE n \notin Range(batch')
    <3>1. PICK x \in Scopes : n \in Range(queue'[x]) BY <2>2 DEF Notes
    <3>2. n \in Range(queue[x]) BY <1>2, <1>3, <3>1
    <3> QED BY <3>2 DEF Notes
  <2> QED BY <2>1, <2>2
<1>5. ASSUME NEW n \in Notes PROVE n \in Notes' \/ Owner[n.node] \notin open'
  <2>1. CASE n \in Range(batch) BY <1>1, <2>1 DEF Notes
  <2>2. CASE n \notin Range(batch)
    <3>1. PICK x \in Scopes : n \in Range(queue[x]) BY <2>2 DEF Notes
    <3>2. Owner[n.node] = x BY <3>1 DEF NotesOK, Addressed, Range
    <3>3. CASE x \in Below(s) BY <1>1, <3>2, <3>3
    <3>4. CASE x \notin Below(s)
      <4>1. n \in Range(queue'[x]) BY <1>3, <3>1, <3>4
      <4> QED BY <4>1 DEF Notes
    <3> QED BY <3>3, <3>4
  <2> QED BY <2>1, <2>2
<1> QED BY <1>4, <1>5

(* A notification to a derived that lives on stays until it is delivered,  *)
(* and then the derived's callback runs.                                   *)
LEMMA NoteKept ==
  ASSUME Base, [Next]_vars, NEW note \in Notes, NEW d \in note.targets, Owner[d] \in open'
  PROVE  note \in Notes' \/ (Deliver /\ d \in marking')
<1> USE DEF Base, Types, Places
<1>1. d \in Made /\ note.node \in Range(Sources[d]) BY NoteIn DEF Addressed
<1>2. Owner[note.node] \in Ancestors(Owner[d]) BY <1>1 DEF GraphOK, Placed, Range
<1>3. TreeType' BY TreeStep
<1>4. Owner[note.node] \in open'
  <2>1. Ancestors(Owner[d]) \subseteq open' BY <1>3, AncestorsLeast DEF TreeType
  <2> QED BY <1>2, <2>1
<1>5. CASE Closing BY <1>4, <1>5, CloseNotes DEF Closing
<1>6. CASE TakeBatch BY <1>6, TakeNotes
<1>7. CASE Deliver
  <2>1. CASE note # Head(batch) BY <1>7, <2>1, DeliverNotes
  <2>2. CASE note = Head(batch)
    <3>1. open' = open BY <1>7 DEF Deliver
    <3>2. d \in Targets(note.node) BY <1>1, <3>1 DEF Targets
    <3>3. Owner[note.node] \in open BY <1>4, <3>1
    <3>4. marking' = note.targets \cap Targets(note.node) BY <1>7, <2>2, <3>3 DEF Deliver
    <3> QED BY <1>7, <3>2, <3>4
  <2> QED BY <2>1, <2>2
<1>8. CASE UNCHANGED batch /\ UNCHANGED queue BY <1>8 DEF Notes
<1>9. CASE UNCHANGED batch /\ Sending BY <1>9, SendNotes DEF Sending
<1> QED BY <1>5, <1>6, <1>7, <1>8, <1>9, Touches, QueueMoves

LEMMA WarnedKept ==
  ASSUME Base, [Next]_vars, NEW d \in Warned, Owner[d] \in open'
  PROVE  d \in Warned' \/ (Deliver /\ d \in marking')
<1>1. PICK note \in Notes : note.node \in Deriveds /\ d \in note.targets BY DEF Warned
<1>2. note \in Notes' \/ (Deliver /\ d \in marking') BY <1>1, NoteKept
<1> QED BY <1>1, <1>2 DEF Warned

LEMMA QueuedKept ==
  ASSUME Base, [Next]_vars, NEW d \in Queued, Owner[d] \in open'
  PROVE  d \in Queued' \/ (Deliver /\ d \in marking')
<1>1. PICK note \in Notes : d \in note.targets BY DEF Queued
<1>2. note \in Notes' \/ (Deliver /\ d \in marking') BY <1>1, NoteKept
<1> QED BY <1>1, <1>2 DEF Queued

(* A derived that is marked while it was clean warns its dependents.       *)
LEMMA MarkWarns ==
  ASSUME Base, NEW d \in Deriveds, Mark(d), Clean(d)
  PROVE  Targets(d) \subseteq Warned' /\ Warned \subseteq Warned'
<1> USE DEF Base, Types, Places
<1> DEFINE note == Note(d, Targets(d), Skipped)
<1>1. Sends(note) BY MarkSends
<1>2. note.node = d /\ note.targets = Targets(d) BY DEF Note
<1>3. UNCHANGED batch BY DEF Mark
<1> HIDE DEF note
<1>4. Notes' = Notes \cup {note} BY <1>1, <1>3, SendNotes
<1> QED BY <1>2, <1>4 DEF Warned

-----------------------------------------------------------------------------
(* Caches and computations.                                                *)

Fresh(d) == seen[d] = Versions(d)
Values(d) == [k \in DOMAIN Sources[d] |-> value[Sources[d][k]]]
OnStack == {stack[i].node : i \in DOMAIN stack}

(* No derived has seen a version that is still to come.                    *)
Mono ==
  \A d \in init :
    /\ DOMAIN seen[d] = DOMAIN Sources[d]
    /\ \A k \in DOMAIN Sources[d] : seen[d][k] <= version[Sources[d][k]]

(* A derived is worth what its sources are worth now, and those that its   *)
(* computation reads are clean.                                            *)
Settled(d) ==
  /\ value[d] = Worth(d, Values(d))
  /\ \A k \in DOMAIN Sources[d] :
       k <= Count(d, Values(d)) /\ Sources[d][k] \in Deriveds => Clean(Sources[d][k])

AllSettled == \A d \in LiveSet : Current(d) /\ d \notin Told => Settled(d)

(* What a computation has read is still so, or a warning is on its way to  *)
(* the derived that computes.                                              *)
FrameOK(i) ==
  \/ stack[i].node \in Warned
  \/ \A k \in DOMAIN stack[i].read :
       /\ stack[i].read[k] = value[Sources[stack[i].node][k]]
       /\ Sources[stack[i].node][k] \in Deriveds =>
            /\ Clean(Sources[stack[i].node][k])
            /\ Sources[stack[i].node][k] \notin OnStack
            /\ Fresh(Sources[stack[i].node][k]) \/ Sources[stack[i].node][k] \in marking

StackOK ==
  /\ \A i, j \in DOMAIN stack : i < j => rank[stack[j].node] < rank[stack[i].node]
  /\ \A i \in DOMAIN stack : ~Current(stack[i].node) /\ FrameOK(i)

Coherent == Mono /\ AllSettled /\ StackOK

(* What a step leaves of a computation under way.                          *)
LEMMA Busy ==
  ASSUME Base, [Next]_vars
  PROVE  /\ stack = <<>> => Pushes \/ stack' = <<>>
         /\ stack # <<>> => Pushes \/ Takes \/ Finish \/ Marking \/ Quiet
<1> USE DEF Base, Types, Places
<1>1. ASSUME stack = <<>> PROVE Pushes \/ stack' = <<>> BY <1>1, Moves DEF Takes, Taking, Finish
<1>2. ASSUME stack # <<>> PROVE ReadSource \/ Finish \/ Marking \/ Quiet
  <2>1. ~Idle /\ ~Turn BY <1>2 DEF Idle, Turn
  <2>2. ~AppActs BY <2>1 DEF AppActs
  <2>3. ASSUME NEW m \in Mutations PROVE ~Applying(m) /\ ~Posting(m) BY <2>1 DEF Applying, Posting
  <2>4. ASSUME NEW d \in Deriveds PROVE ~NewDerived(d) /\ ~Read(d) /\ ~FlushNext(d)
    BY <2>1, <2>2 DEF NewDerived, Read, FlushNext
  <2>5. \A s \in Scopes : ~Close(s) BY <2>2 DEF Close
  <2>6. ~Attach /\ ~Detach BY <2>2 DEF Attach, Detach
  <2>7. ~StartSignals /\ ~TakeBatch /\ ~Deliver /\ ~EndPass BY <2>1 DEF StartSignals, TakeBatch, Deliver, EndPass
  <2>8. ~Flush /\ ~FlushScope /\ ~EndFlush /\ ~EndFrame BY <2>1 DEF Flush, FlushScope, EndFlush, EndFrame
  <2> QED BY <2>3, <2>4, <2>5, <2>6, <2>7, <2>8, Steps DEF Marking
<1>3. ASSUME ReadSource PROVE Pushes \/ Takes BY <1>3, ReadSourceMoves DEF Pushes, Takes
<1> QED BY <1>1, <1>2, <1>3

(* Versions only grow, and a value changes only together with its version  *)
(* unless its scope is closed.                                             *)
LEMMA VersionUp ==
  ASSUME Base, [Next]_vars, NEW n \in Nodes
  PROVE  /\ version[n] \in Nat /\ version'[n] \in Nat
         /\ version[n] <= version'[n]
         /\ version[n] # version'[n] \/ value'[n] = value[n] \/ Closing
<1> USE DEF Base, Types, Places
<1>0. version \in [Nodes -> Nat] BY DEF CacheType
<1>1. CASE Mutating
  <2>1. PICK m \in Mutations : Applying(m) BY <1>1 DEF Mutating
  <2>2. /\ value' = [value EXCEPT ![m.store] = @ + 1]
        /\ version' = [version EXCEPT ![m.store] = @ + 1]
    BY <2>1 DEF Applying, Apply
  <2>3. /\ version'[n] = IF n = m.store THEN version[n] + 1 ELSE version[n]
        /\ n # m.store => value'[n] = value[n]
    BY <2>2 DEF CacheType
  <2> QED BY <1>0, <2>3
<1>2. CASE Finish
  <2> DEFINE d == Last(stack).node
  <2>2. /\ value' = [value EXCEPT ![d] = Computed(Last(stack).read)]
        /\ version' = [version EXCEPT ![d] = @ + 1]
    BY <1>2 DEF Finish
  <2> HIDE DEF d
  <2>3. /\ version'[n] = IF n = d THEN version[n] + 1 ELSE version[n]
        /\ n # d => value'[n] = value[n]
    BY <2>2 DEF CacheType
  <2> QED BY <1>0, <2>3
<1>3. CASE Closing
  <2>1. version' = version BY <1>3 DEF Closing, Close
  <2> QED BY <1>0, <1>3, <2>1
<1>4. CASE UNCHANGED <<value, version>> BY <1>0, <1>4
<1> QED BY <1>1, <1>2, <1>3, <1>4, Touches

LEMMA MonoStep == ASSUME Base, Mono, [Next]_vars PROVE Mono'
<1> USE DEF Base, Types, Places
<1>1. ASSUME NEW d \in init, seen'[d] = seen[d]
      PROVE  /\ DOMAIN seen'[d] = DOMAIN Sources[d]
             /\ \A k \in DOMAIN Sources[d] : seen'[d][k] <= version'[Sources[d][k]]
  <2>1. d \in Deriveds BY MadeType DEF CacheType
  <2>2. DOMAIN seen'[d] = DOMAIN Sources[d] BY <1>1 DEF Mono
  <2>3. ASSUME NEW k \in DOMAIN Sources[d] PROVE seen'[d][k] <= version'[Sources[d][k]]
    <3>1. Sources[d][k] \in Nodes BY <2>1, SourcesType
    <3>2. seen[d][k] <= version[Sources[d][k]] BY DEF Mono
    <3>3. seen[d] \in Seq(Nat) /\ k \in DOMAIN seen[d] BY <2>1 DEF CacheType, Mono
    <3>4. seen[d][k] \in Nat BY <3>3
    <3> QED BY <1>1, <3>1, <3>2, <3>4, VersionUp
  <2> QED BY <2>2, <2>3
<1>2. CASE Finish
  <2> DEFINE d == Last(stack).node
  <2>1. stack # <<>> /\ init' = init \cup {d} /\ seen' = [seen EXCEPT ![d] = Versions(d)] BY <1>2 DEF Finish
  <2>2. d \in Deriveds BY <2>1, TopFacts
  <2> HIDE DEF d
  <2>3. seen'[d] = Versions(d) BY <2>1, <2>2 DEF CacheType
  <2>4. ASSUME NEW k \in DOMAIN Sources[d] PROVE seen'[d][k] <= version'[Sources[d][k]]
    <3>1. Sources[d][k] \in Nodes BY <2>2, SourcesType
    <3>2. seen'[d][k] = version[Sources[d][k]] BY <2>2, <2>3, VersionsType
    <3> QED BY <3>1, <3>2, VersionUp
  <2>5. DOMAIN seen'[d] = DOMAIN Sources[d] BY <2>2, <2>3, VersionsType
  <2>6. \A e \in init \ {d} : seen'[e] = seen[e] BY <2>1, MadeType DEF CacheType
  <2> QED BY <1>1, <2>1, <2>4, <2>5, <2>6 DEF Mono
<1>3. CASE Closing
  <2>1. PICK s \in Scopes : Close(s) BY <1>3 DEF Closing
  <2> DEFINE gone == {n \in StoreNodes \cup Made : Owner[n] \in Below(s)}
  <2>2. /\ init' = init \ gone
        /\ seen' = [d \in Deriveds |-> IF d \in gone THEN <<>> ELSE seen[d]]
    BY <2>1 DEF Close
  <2> HIDE DEF gone
  <2>3. \A d \in init' : d \in init /\ seen'[d] = seen[d] BY <2>2, MadeType DEF CacheType
  <2> QED BY <1>1, <2>3 DEF Mono
<1>4. CASE ~Finish /\ ~Closing
  <2>1. init' = init /\ seen' = seen BY <1>4, Touches DEF Creating, NewDerived, Marking, Mark
  <2> QED BY <1>1, <2>1 DEF Mono
<1> QED BY <1>2, <1>3, <1>4

(* Closing leaves what lives on alone, and what it reads.                  *)
LEMMA CloseKeeps ==
  ASSUME Base, NEW s \in Scopes, Close(s), NEW n \in Nodes, n \in StoreNodes \cup Made, Owner[n] \in open'
  PROVE  /\ value'[n] = value[n]
         /\ n \in init' <=> n \in init
         /\ n \in dirty' <=> n \in dirty
         /\ n \in Deriveds => seen'[n] = seen[n]
<1> DEFINE gone == {x \in StoreNodes \cup Made : Owner[x] \in Below(s)}
<1>1. /\ value' = [x \in Nodes |-> IF x \in gone THEN 0 ELSE value[x]]
      /\ init' = init \ gone /\ dirty' = dirty \cup (gone \cap Made)
      /\ seen' = [d \in Deriveds |-> IF d \in gone THEN <<>> ELSE seen[d]]
      /\ open' = open \ Below(s)
  BY DEF Close
<1>2. n \notin gone BY <1>1
<1> HIDE DEF gone
<1> QED BY <1>1, <1>2

(* What closing leaves open has its ancestors left.                        *)
LEMMA SourceStays ==
  ASSUME Base, [Next]_vars, NEW d \in LiveSet, Owner[d] \in open', NEW k \in DOMAIN Sources[d]
  PROVE  Owner[Sources[d][k]] \in open'
<1> USE DEF Base, Types, Places
<1>1. Owner[Sources[d][k]] \in Ancestors(Owner[d]) BY SourceLive
<1>2. TreeType' BY TreeStep
<1>3. Ancestors(Owner[d]) \subseteq open' BY <1>2, AncestorsLeast DEF TreeType
<1> QED BY <1>1, <1>3

(* A derived does not become clean, unless its computation ends, and does  *)
(* not cease to be clean, unless it is marked.                             *)
LEMMA CleanStep ==
  ASSUME Base, [Next]_vars, NEW d \in LiveSet, Owner[d] \in open'
  PROVE  /\ Clean(d)' => Clean(d) \/ (Finish /\ d = Last(stack).node)
         /\ Clean(d) => Clean(d)' \/ Mark(d)
         /\ seen'[d] = seen[d] \/ (Finish /\ d = Last(stack).node)
<1> USE DEF Base, Types, Places
<1>0. d \in Made /\ d \in Deriveds /\ d \in Nodes BY MadeType DEF LiveSet, Nodes
<1>1. CASE Creating
  <2>1. PICK e \in Deriveds : NewDerived(e) BY <1>1 DEF Creating
  <2>2. e # d /\ dirty' = dirty \cup {e} /\ UNCHANGED <<init, seen>> BY <1>0, <2>1 DEF NewDerived
  <2> QED BY <2>2 DEF Clean
<1>2. CASE Finish
  <2> DEFINE e == Last(stack).node
  <2>1. init' = init \cup {e} /\ dirty' = dirty \ {e} /\ seen' = [seen EXCEPT ![e] = Versions(e)]
    BY <1>2 DEF Finish
  <2> HIDE DEF e
  <2> QED BY <1>0, <1>2, <2>1 DEF Clean, CacheType, e
<1>3. CASE Marking
  <2>1. PICK e \in Deriveds : Mark(e) BY <1>3 DEF Marking
  <2>2. dirty' = dirty \cup {e} /\ UNCHANGED <<init, seen>> BY <2>1 DEF Mark, MarkDirty
  <2> QED BY <2>1, <2>2 DEF Clean
<1>4. CASE Closing
  <2>1. PICK s \in Scopes : Close(s) BY <1>4 DEF Closing
  <2> QED BY <1>0, <2>1, CloseKeeps DEF Clean
<1>5. CASE UNCHANGED <<init, dirty, seen>> BY <1>5 DEF Clean
<1> QED BY <1>1, <1>2, <1>3, <1>4, <1>5, Touches

(* A derived that is up to date after a step, unless the step computed it, *)
(* was so before, and what it reads has not changed.                       *)
LEMMA Steady ==
  ASSUME Base, Mono, [Next]_vars, NEW d \in LiveSet, Owner[d] \in open', Clean(d), seen'[d] = Versions(d)',
         ~(Finish /\ d = Last(stack).node)
  PROVE  /\ Fresh(d) /\ Values(d)' = Values(d) /\ value'[d] = value[d]
         /\ \A k \in DOMAIN Sources[d] : version'[Sources[d][k]] = version[Sources[d][k]]
<1> USE DEF Base, Types, Places
<1>0. d \in Made /\ d \in Deriveds /\ d \in Nodes BY MadeType DEF LiveSet, Nodes
<1>1. seen'[d] = seen[d] BY CleanStep
<1>2. d \in init BY DEF Clean
<1>3. ASSUME NEW k \in DOMAIN Sources[d]
      PROVE  version'[Sources[d][k]] = version[Sources[d][k]] /\ seen[d][k] = version[Sources[d][k]]
  <2>1. Sources[d][k] \in Nodes BY <1>0, SourcesType
  <2>2. seen[d][k] <= version[Sources[d][k]] BY <1>2 DEF Mono
  <2>3. seen[d][k] = version'[Sources[d][k]] BY <1>1 DEF Versions
  <2>4. version[Sources[d][k]] <= version'[Sources[d][k]] /\ version[Sources[d][k]] \in Nat
        /\ version'[Sources[d][k]] \in Nat
    BY <2>1, VersionUp
  <2> QED BY <2>2, <2>3, <2>4
<1>4. Fresh(d)
  <2>1. seen[d] \in Seq(Nat) /\ DOMAIN seen[d] = DOMAIN Sources[d] BY <1>0, <1>2 DEF CacheType, Mono
  <2>2. Versions(d) = [k \in DOMAIN Sources[d] |-> version[Sources[d][k]]] BY DEF Versions
  <2>3. seen[d] = [k \in DOMAIN Sources[d] |-> seen[d][k]] BY <2>1
  <2> QED BY <1>3, <2>2, <2>3 DEF Fresh
<1>5. ASSUME NEW k \in DOMAIN Sources[d] PROVE value'[Sources[d][k]] = value[Sources[d][k]]
  <2>1. Sources[d][k] \in Nodes BY <1>0, SourcesType
  <2>2. CASE ~Closing BY <1>3, <2>1, <2>2, VersionUp
  <2>3. CASE Closing
    <3>1. PICK s \in Scopes : Close(s) BY <2>3 DEF Closing
    <3>2. Owner[Sources[d][k]] \in open' BY SourceStays
    <3>3. Sources[d][k] \in StoreNodes \cup Made BY SourceLive DEF LiveSet
    <3> QED BY <2>1, <3>1, <3>2, <3>3, CloseKeeps
  <2> QED BY <2>2, <2>3
<1>6. value'[d] = value[d]
  <2>1. CASE Mutating
    <3>1. PICK m \in Mutations : Applying(m) BY <2>1 DEF Mutating
    <3>2. value' = [value EXCEPT ![m.store] = @ + 1] BY <3>1 DEF Applying, Apply
    <3>3. m.store # d BY <1>0, MutationType, NodeAssumption
    <3> QED BY <1>0, <3>2, <3>3 DEF CacheType
  <2>2. CASE Finish
    <3>1. value' = [value EXCEPT ![Last(stack).node] = Computed(Last(stack).read)] BY <2>2 DEF Finish
    <3> QED BY <1>0, <2>2, <3>1 DEF CacheType
  <2>3. CASE Closing
    <3>1. PICK s \in Scopes : Close(s) BY <2>3 DEF Closing
    <3> QED BY <1>0, <3>1, CloseKeeps
  <2>4. CASE UNCHANGED <<value, version>> BY <2>4
  <2> QED BY <2>1, <2>2, <2>3, <2>4, Touches
<1>7. Values(d)' = Values(d) BY <1>5 DEF Values
<1> QED BY <1>3, <1>4, <1>6, <1>7

(* What a computation has read is what its sources are worth, so it is     *)
(* settled when it is done.                                                *)
LEMMA ReadAll ==
  ASSUME NEW d \in Deriveds, NEW read \in Seq(Nat), Len(read) = Count(d, read), Len(read) <= Len(Sources[d]),
         NEW all, DOMAIN all = DOMAIN Sources[d], \A k \in DOMAIN read : read[k] = all[k],
         all = <<>> <=> DOMAIN Sources[d] = {}
  PROVE  Count(d, all) = Len(read) /\ Worth(d, all) = Computed(read)
<1>1. /\ Len(Sources[d]) \in Nat /\ DOMAIN Sources[d] = 1..Len(Sources[d])
      /\ Len(read) \in Nat /\ DOMAIN read = 1..Len(read) /\ (read # <<>> <=> Len(read) > 0)
  BY SourcesType
<1>2. Count(d, all) = Len(read)
  <2>1. CASE read = <<>>
    <3>1. Len(Sources[d]) = 0 BY <1>1, <2>1 DEF Count
    <3>2. all = <<>> BY <1>1, <3>1
    <3> QED BY <2>1, <3>2
  <2>2. CASE read # <<>>
    <3>1. 1 \in DOMAIN read /\ 1 \in DOMAIN Sources[d] BY <1>1, <2>2
    <3>2. all # <<>> /\ all[1] = read[1] BY <3>1
    <3> QED BY <2>2, <3>2 DEF Count
  <2> QED BY <2>1, <2>2
<1>3. read = [k \in 1..Len(read) |-> read[k]] BY <1>1
<1>4. [k \in 1..Count(d, all) |-> all[k]] = read BY <1>1, <1>2, <1>3
<1> QED BY <1>2, <1>4 DEF Worth

(* No derived is its own source.                                           *)
LEMMA NotOwnSource ==
  ASSUME Types, GraphOK, NEW d \in LiveSet, NEW k \in DOMAIN Sources[d] PROVE Sources[d][k] # d
<1>1. d \in Deriveds /\ d \notin StoreNodes BY MadeType, NodeAssumption DEF LiveSet, Types
<1>2. rank[d] \in Nat BY <1>1 DEF Types, TreeType
<1> QED BY <1>1, <1>2, SourceLive

LEMMA FinishSettled ==
  ASSUME Base, StackOK, Finish, NEW d, d = Last(stack).node, d \notin Warned PROVE Settled(d)'
<1> USE DEF Base, Types, Places
<1> DEFINE top == Last(stack)
           n == Len(stack)
<1>1. /\ stack # <<>> /\ Len(top.read) = Count(d, top.read)
      /\ value' = [value EXCEPT ![d] = Computed(top.read)]
      /\ init' = init \cup {d} /\ dirty' = dirty \ {d}
  BY DEF Finish
<1>2. /\ top = stack[n] /\ n \in DOMAIN stack /\ d \in LiveSet /\ d \in Deriveds /\ top.read \in Seq(Nat)
      /\ Len(top.read) <= Len(Sources[d])
  BY <1>1, TopFacts
<1>3. FrameOK(n) BY <1>2 DEF StackOK
<1>4. \A k \in DOMAIN top.read :
        /\ top.read[k] = value[Sources[d][k]]
        /\ Sources[d][k] \in Deriveds => Clean(Sources[d][k])
  BY <1>2, <1>3 DEF FrameOK
<1>5. \A k \in DOMAIN Sources[d] : value'[Sources[d][k]] = value[Sources[d][k]]
  BY <1>1, <1>2, NotOwnSource, SourceLive DEF CacheType
<1>6. DOMAIN top.read = 1..Len(top.read) /\ Len(top.read) \in Nat /\ \A k \in DOMAIN top.read : k \in DOMAIN Sources[d]
  BY <1>2, SourcesType
<1> DEFINE all == Values(d)'
<1>7. all = [k \in DOMAIN Sources[d] |-> value'[Sources[d][k]]] BY DEF Values
<1>8. \A k \in DOMAIN top.read : top.read[k] = all[k] BY <1>4, <1>5, <1>6, <1>7
<1>9. DOMAIN all = DOMAIN Sources[d] /\ (all = <<>> <=> DOMAIN Sources[d] = {})
  <2>1. all \in [1..Len(Sources[d]) -> Nat]
    <3>1. CacheType' BY CacheStep DEF Next
    <3>2. DOMAIN Sources[d] = 1..Len(Sources[d]) /\ \A k \in DOMAIN Sources[d] : Sources[d][k] \in Nodes
      BY <1>2, SourcesType
    <3>3. \A k \in DOMAIN Sources[d] : value'[Sources[d][k]] \in Nat BY <3>1, <3>2 DEF CacheType
    <3> HIDE DEF all
    <3> QED BY <1>7, <3>2, <3>3
  <2> HIDE DEF all
  <2>2. Len(Sources[d]) \in Nat /\ DOMAIN Sources[d] = 1..Len(Sources[d]) BY <1>2, SourcesType
  <2>3. all \in Seq(Nat) /\ Len(all) = Len(Sources[d]) BY <2>1, <2>2
  <2> QED BY <2>1, <2>2, <2>3
<1> HIDE DEF all
<1>10. Count(d, all) = Len(top.read) /\ Worth(d, all) = Computed(top.read)
  BY <1>1, <1>2, <1>8, <1>9, ReadAll
<1>11. value'[d] = Computed(top.read) BY <1>1, <1>2 DEF CacheType, Nodes
<1>12. ASSUME NEW k \in DOMAIN Sources[d], k <= Count(d, all), Sources[d][k] \in Deriveds PROVE Clean(Sources[d][k])'
  <2>1. k \in DOMAIN top.read BY <1>2, <1>6, <1>10, <1>12, SourcesType
  <2>2. Clean(Sources[d][k]) BY <1>4, <1>12, <2>1
  <2>3. Sources[d][k] # d BY <1>2, NotOwnSource
  <2> QED BY <1>1, <2>2, <2>3 DEF Clean
<1>13. (Worth(d, Values(d)))' = Worth(d, all) /\ (Count(d, Values(d)))' = Count(d, all) BY DEF all, Worth, Count
<1> QED BY <1>10, <1>11, <1>12, <1>13 DEF Settled

(* The live deriveds after a step were live before, but for a new one.     *)
LEMMA LiveBack ==
  ASSUME Base, [Next]_vars, NEW d \in LiveSet'
  PROVE  /\ Owner[d] \in open' /\ d \in Made'
         /\ d \in LiveSet \/ (NewDerived(d) /\ d \in dirty')
<1> USE DEF Base, Types, Places
<1>1. d \in Made' /\ Owner[d] \in open' BY DEF LiveSet
<1>2. open' \subseteq open
  <2>1. ASSUME Closing PROVE open' \subseteq open BY <2>1 DEF Closing, Close
  <2> QED BY <2>1, MadeStep
<1>3. CASE ~Creating BY <1>1, <1>2, <1>3, MadeStep DEF LiveSet
<1>4. CASE Creating
  <2>1. PICK e \in Deriveds : NewDerived(e) BY <1>4 DEF Creating
  <2>2. Made' = Made \cup {e} BY <2>1, NewMade
  <2>3. dirty' = dirty \cup {e} BY <2>1 DEF NewDerived
  <2> QED BY <1>1, <1>2, <2>1, <2>2, <2>3 DEF LiveSet
<1> QED BY <1>1, <1>3, <1>4

(* What a step takes from the deriveds whose callback is to run.           *)
LEMMA MarkingKept ==
  ASSUME Base, [Next]_vars, NEW d \in marking PROVE d \in marking' \/ Mark(d)
<1> USE DEF Base, Types, Places
<1>1. ~Finish /\ ~Deliver BY DEF Finish, Deliver, Idle
<1>2. ASSUME NEW e \in Deriveds, Mark(e), e # d PROVE d \in marking' BY <1>2 DEF Mark
<1> QED BY <1>1, <1>2, Touches DEF Marking

LEMMA SettledStep ==
  ASSUME Base, Coherent, [Next]_vars PROVE AllSettled'
<1> USE DEF Base, Types, Places, Coherent
<1> SUFFICES ASSUME NEW d \in LiveSet', Current(d)', d \notin Told' PROVE Settled(d)'
  BY DEF AllSettled
<1>1. Owner[d] \in open' /\ Clean(d)' /\ seen'[d] = Versions(d)' BY LiveBack DEF Current
<1>2. d \in LiveSet BY <1>1, LiveBack DEF Clean
<1>3. d \notin marking' /\ d \notin Warned' BY DEF Told, Warned
<1>4. d \notin Warned BY <1>1, <1>3, WarnedKept
<1>5. CASE Finish /\ d = Last(stack).node BY <1>4, <1>5, FinishSettled
<1>6. CASE ~(Finish /\ d = Last(stack).node)
  <2>1. Clean(d) BY <1>1, <1>2, <1>6, CleanStep
  <2>2. /\ Fresh(d) /\ Values(d)' = Values(d) /\ value'[d] = value[d]
    BY <1>1, <1>2, <1>6, <2>1, Steady
  <2>3. d \notin marking
    <3>1. ASSUME Mark(d) PROVE FALSE
      <4>1. d \in dirty' BY <3>1 DEF Mark, MarkDirty
      <4> QED BY <1>1, <4>1 DEF Clean
    <3> QED BY <1>3, <3>1, MarkingKept
  <2>4. Settled(d) BY <1>2, <1>4, <2>1, <2>2, <2>3, ToldIs DEF AllSettled, Current, Fresh
  <2>5. ASSUME NEW k \in DOMAIN Sources[d], Sources[d][k] \in Deriveds, Clean(Sources[d][k])
        PROVE  Clean(Sources[d][k])'
    <3> DEFINE x == Sources[d][k]
    <3>1. x \in LiveSet BY <1>2, <2>5, SourceLive, NodeAssumption
    <3>2. Owner[x] \in open' BY <1>1, <1>2, SourceStays
    <3>3. ASSUME Mark(x) PROVE FALSE
      <4>1. d \in Targets(x) BY <1>2 DEF Targets, LiveSet, Range
      <4> QED BY <1>3, <2>5, <3>3, <4>1, MarkWarns
    <3> HIDE DEF x
    <3>4. Clean(x)' BY <2>5, <3>1, <3>2, <3>3, CleanStep DEF x
    <3> QED BY <3>4 DEF x
  <2>6. (Worth(d, Values(d)))' = Worth(d, Values(d)) /\ (Count(d, Values(d)))' = Count(d, Values(d))
    BY <2>2 DEF Worth, Count
  <2> QED BY <2>2, <2>4, <2>5, <2>6 DEF Settled
<1> QED BY <1>5, <1>6

LEMMA FrameType ==
  ASSUME ListType, NEW i \in DOMAIN stack
  PROVE  stack[i].node \in Deriveds /\ stack[i].read \in Seq(Nat)
<1>1. stack[i] \in FrameSet BY DEF ListType
<1> QED BY <1>1 DEF FrameSet

LEMMA StackPush ==
  ASSUME Base, StackOK, NEW d \in Deriveds, Pushing(d) PROVE StackOK'
<1> USE DEF Base, Types, Places
<1> DEFINE new == [node |-> d, read |-> <<>>]
           n == Len(stack)
<1>1. /\ marking = {} /\ d \in LiveSet /\ ~Current(d) /\ (stack # <<>> => Due(d))
      /\ stack' = Append(stack, new)
      /\ UNCHANGED <<caches, lists, batch, marking, registry>>
  BY DEF Pushing, Compute
<1>2. new \in FrameSet BY DEF FrameSet
<1>3. /\ DOMAIN stack' = 1..(n + 1) /\ DOMAIN stack = 1..n /\ n \in Nat
      /\ \A i \in 1..n : stack'[i] = stack[i]
      /\ stack'[n + 1] = new
  BY <1>1, <1>2, AppendSeq DEF ListType
<1>4. new.node = d /\ new.read = <<>> OBVIOUS
<1> HIDE DEF new
<1>5. Warned' = Warned BY <1>1 DEF Warned, Notes
<1>6. \A i \in 1..(n + 1) : i \in 1..n \/ i = n + 1 BY <1>3
<1>7. OnStack' \subseteq OnStack \cup {d}
  <2>1. \A i \in DOMAIN stack' : stack'[i].node \in OnStack \cup {d} BY <1>3, <1>4, <1>6 DEF OnStack
  <2> QED BY <2>1 DEF OnStack
<1>8. ASSUME NEW i \in DOMAIN stack', NEW j \in DOMAIN stack', i < j
      PROVE  rank'[stack'[j].node] < rank'[stack'[i].node]
  <2>1. CASE j \in 1..n
    <3>1. i \in 1..n BY <1>3, <1>8, <2>1
    <3> QED BY <1>1, <1>3, <1>8, <2>1, <3>1 DEF StackOK
  <2>2. CASE j = n + 1
    <3>1. i \in 1..n /\ n \in 1..n /\ stack # <<>> BY <1>3, <1>8, <2>2
    <3> DEFINE top == Last(stack)
    <3>2. top = stack[n] /\ top.node \in LiveSet BY <3>1, TopFacts
    <3>3. Due(d) BY <1>1, <3>1
    <3>4. PICK k \in DOMAIN Sources[top.node] : Sources[top.node][k] = d BY <3>3 DEF Due
    <3>5. rank[d] < rank[top.node] BY <3>2, <3>4, SourceLive, NodeAssumption
    <3>6. i = n \/ rank[top.node] < rank[stack[i].node] BY <1>3, <3>1, <3>2 DEF StackOK
    <3>7. rank[d] \in Nat /\ rank[top.node] \in Nat /\ rank[stack[i].node] \in Nat
      BY <1>3, <3>1, <3>2, MadeType DEF TreeType, LiveSet, RunsOK
    <3>8. rank[d] < rank[stack[i].node] BY <3>2, <3>5, <3>6, <3>7
    <3> QED BY <1>1, <1>3, <1>4, <2>2, <3>1, <3>8
  <2> QED BY <1>3, <1>6, <2>1, <2>2
<1>9. ASSUME NEW x \in Deriveds PROVE Clean(x)' = Clean(x) /\ Fresh(x)' = Fresh(x) /\ Current(x)' = Current(x)
  BY <1>1 DEF Clean, Fresh, Current, Versions
<1>10. ASSUME NEW i \in 1..n PROVE (~Current(stack[i].node) /\ FrameOK(i))'
  <2>1. stack'[i] = stack[i] /\ i \in DOMAIN stack BY <1>3
  <2>0. stack[i].node \in Deriveds BY <2>1, FrameType
  <2>2. ~Current(stack[i].node)'
    <3>1. ~Current(stack[i].node) BY <2>1 DEF StackOK
    <3> QED BY <1>1, <2>1, <3>1 DEF Current, Clean, Versions
  <2>3. CASE stack[i].node \in Warned BY <1>5, <2>1, <2>2, <2>3 DEF FrameOK
  <2>4. CASE stack[i].node \notin Warned
    <3>1. ASSUME NEW k \in DOMAIN stack[i].read
          PROVE  /\ stack[i].read[k] = value[Sources[stack[i].node][k]]
                 /\ Sources[stack[i].node][k] \in Deriveds =>
                      /\ Clean(Sources[stack[i].node][k])
                      /\ Sources[stack[i].node][k] \notin OnStack \cup {d}
                      /\ Fresh(Sources[stack[i].node][k])
      <4>1. FrameOK(i) BY <2>1 DEF StackOK
      <4> DEFINE x == Sources[stack[i].node][k]
      <4>2. /\ stack[i].read[k] = value[x]
            /\ x \in Deriveds => Clean(x) /\ x \notin OnStack /\ Fresh(x)
        BY <1>1, <2>4, <4>1 DEF FrameOK
      <4>3. x \in Deriveds => Current(x) BY <4>2 DEF Current, Fresh
      <4> HIDE DEF x
      <4>4. x \in Deriveds => x # d BY <1>1, <4>3
      <4> QED BY <4>2, <4>4 DEF x
    <3>2. FrameOK(i)' BY <1>1, <1>7, <1>9, <2>1, <3>1 DEF FrameOK
    <3> QED BY <2>2, <3>2
  <2> QED BY <2>2, <2>3, <2>4
<1>11. ASSUME NEW i, i = n + 1 PROVE (~Current(stack[i].node) /\ FrameOK(i))'
  <2>1. ~Current(d)' BY <1>1 DEF Current, Clean, Versions
  <2>2. stack'[i].node = d /\ stack'[i].read = <<>> BY <1>3, <1>4, <1>11
  <2> QED BY <2>1, <2>2 DEF FrameOK, Current, Clean, Versions
<1> QED BY <1>3, <1>6, <1>8, <1>10, <1>11 DEF StackOK

LEMMA StackTake ==
  ASSUME Base, StackOK, NEW x \in Nodes, Taking(x) PROVE StackOK'
<1> USE DEF Base, Types, Places
<1> DEFINE top == Last(stack)
           new == [node |-> top.node, read |-> Append(top.read, value[x])]
           n == Len(stack)
<1>1. /\ stack # <<>> /\ marking = {} /\ Due(x) /\ (x \in StoreNodes \/ Current(x))
      /\ stack' = [stack EXCEPT ![n] = new]
      /\ UNCHANGED <<caches, lists, batch, marking, registry>>
  BY DEF Taking
<1>2. /\ top = stack[n] /\ n \in DOMAIN stack /\ top.node \in Deriveds /\ top.read \in Seq(Nat)
      /\ top.node \in LiveSet
  BY <1>1, TopFacts
<1>3. new.node = top.node /\ new.read = Append(top.read, value[x]) OBVIOUS
<1>4. value[x] \in Nat BY DEF CacheType
<1>5. Sources[top.node][Len(top.read) + 1] = x BY <1>1 DEF Due
<1> HIDE DEF new
<1>6. DOMAIN stack' = DOMAIN stack /\ \A i \in DOMAIN stack : stack'[i] = IF i = n THEN new ELSE stack[i]
  BY <1>1, <1>2 DEF ListType
<1>7. \A i \in DOMAIN stack : stack'[i].node = stack[i].node BY <1>2, <1>3, <1>6
<1>8. OnStack' = OnStack BY <1>6, <1>7 DEF OnStack
<1>9. Warned' = Warned BY <1>1 DEF Warned, Notes
<1>10. ASSUME NEW y \in Deriveds PROVE Clean(y)' = Clean(y) /\ Fresh(y)' = Fresh(y) /\ Current(y)' = Current(y)
  BY <1>1 DEF Clean, Fresh, Current, Versions
<1>11. ASSUME NEW i \in DOMAIN stack PROVE (~Current(stack[i].node))'
  <2>1. ~Current(stack[i].node) BY DEF StackOK
  <2> QED BY <1>1, <1>7, <2>1 DEF Current, Clean, Versions
<1>12. ASSUME NEW i \in DOMAIN stack, stack[i].node \notin Warned, NEW k \in DOMAIN stack'[i].read
       PROVE  /\ stack'[i].read[k] = value[Sources[stack[i].node][k]]
              /\ Sources[stack[i].node][k] \in Deriveds =>
                   /\ Clean(Sources[stack[i].node][k])
                   /\ Sources[stack[i].node][k] \notin OnStack
                   /\ Fresh(Sources[stack[i].node][k])
  <2>1. FrameOK(i) BY DEF StackOK
  <2>2. CASE k \in DOMAIN stack[i].read /\ stack'[i].read[k] = stack[i].read[k]
    BY <1>1, <1>12, <2>1, <2>2 DEF FrameOK
  <2>3. CASE i # n BY <1>6, <1>12, <2>2, <2>3
  <2>4. CASE i = n
    <3>1. stack'[i].read = Append(top.read, value[x]) /\ stack[i].read = top.read
      BY <1>2, <1>3, <1>6, <2>4
    <3>2. k \in 1..(Len(top.read) + 1) BY <1>2, <1>4, <1>12, <3>1, AppendSeq
    <3>3. \/ k \in DOMAIN top.read /\ stack'[i].read[k] = top.read[k]
          \/ k = Len(top.read) + 1 /\ stack'[i].read[k] = value[x]
      BY <1>2, <1>4, <3>1, <3>2, AppendSeq
    <3>4. CASE k = Len(top.read) + 1 /\ stack'[i].read[k] = value[x]
      <4>1. Sources[stack[i].node][k] = x BY <1>2, <1>5, <2>4, <3>4
      <4>2. ASSUME x \in Deriveds PROVE Current(x) /\ x \notin OnStack
        <5>1. Current(x) BY <1>1, <4>2, NodeAssumption
        <5> QED BY <5>1 DEF StackOK, OnStack
      <4> QED BY <3>4, <4>1, <4>2 DEF Current, Fresh
    <3> QED BY <2>2, <3>1, <3>3, <3>4
  <2> QED BY <2>3, <2>4
<1>13. ASSUME NEW i \in DOMAIN stack PROVE FrameOK(i)'
  <2>1. CASE stack[i].node \in Warned BY <1>7, <1>9, <2>1 DEF FrameOK
  <2>2. CASE stack[i].node \notin Warned
    <3>1. stack'[i].node = stack[i].node BY <1>7
    <3> QED BY <1>1, <1>8, <1>10, <1>12, <2>2, <3>1 DEF FrameOK
  <2> QED BY <2>1, <2>2
<1>14. ASSUME NEW i \in DOMAIN stack, NEW j \in DOMAIN stack, i < j
       PROVE  rank'[stack'[j].node] < rank'[stack'[i].node]
  BY <1>1, <1>7, <1>14 DEF StackOK
<1> QED BY <1>6, <1>11, <1>13, <1>14 DEF StackOK

(* A derived that was out of date, and is not the one computed, is so      *)
(* still.                                                                  *)
LEMMA StaleStays ==
  ASSUME Base, Mono, [Next]_vars, NEW d \in LiveSet, Owner[d] \in open', ~Current(d),
         ~(Finish /\ d = Last(stack).node)
  PROVE  ~Current(d)'
<1> SUFFICES ASSUME Current(d)' PROVE FALSE OBVIOUS
<1>1. Clean(d)' /\ seen'[d] = Versions(d)' BY DEF Current
<1>2. Clean(d) BY <1>1, CleanStep
<1>3. Fresh(d) BY <1>1, <1>2, Steady
<1> QED BY <1>2, <1>3 DEF Current, Fresh

LEMMA StackFinish ==
  ASSUME Base, Mono, StackOK, Finish PROVE StackOK'
<1> USE DEF Base, Types, Places
<1> DEFINE n == Len(stack)
<1>0. PICK d : d = Last(stack).node OBVIOUS
<1>n. [Next]_vars BY DEF Next
<1>1. /\ stack # <<>> /\ marking = {} /\ stack' = Front(stack)
      /\ value' = [value EXCEPT ![d] = Computed(Last(stack).read)]
      /\ version' = [version EXCEPT ![d] = @ + 1]
      /\ init' = init \cup {d} /\ dirty' = dirty \ {d}
      /\ seen' = [seen EXCEPT ![d] = Versions(d)]
      /\ marking' = Targets(d)
      /\ UNCHANGED <<batch, registry>>
  BY <1>0 DEF Finish
<1>2. d = stack[n].node /\ n \in DOMAIN stack /\ d \in Deriveds /\ d \in LiveSet /\ n \in Nat
  BY <1>0, <1>1, TopFacts, FrontSeq DEF ListType
<1>3. /\ DOMAIN stack' = 1..(n - 1) /\ DOMAIN stack = 1..n
      /\ \A i \in 1..(n - 1) : i \in DOMAIN stack /\ i < n /\ stack'[i] = stack[i]
  <2>1. DOMAIN stack' = 1..(n - 1) /\ \A i \in 1..(n - 1) : stack'[i] = stack[i]
    BY <1>1, FrontSeq DEF ListType
  <2>2. DOMAIN stack = 1..n BY DEF ListType
  <2>3. \A i \in 1..(n - 1) : i \in 1..n /\ i < n BY <1>2
  <2> QED BY <2>1, <2>2, <2>3
<1>4. Warned \subseteq Warned'
  <2>1. PICK note : Sends(note) BY FinishSends
  <2>2. Notes' = Notes \cup {note} BY <1>1, <2>1, SendNotes
  <2> QED BY <2>2 DEF Warned
<1>5. d \in OnStack /\ OnStack' \subseteq OnStack BY <1>2, <1>3 DEF OnStack
<1>6. ASSUME NEW i \in 1..(n - 1) PROVE (~Current(stack[i].node))'
  <2>1. PICK e : e = stack[i].node OBVIOUS
  <2>2. e \in LiveSet /\ Owner[e] \in open' /\ ~Current(e) BY <1>1, <1>3, <2>1 DEF StackOK, RunsOK, LiveSet
  <2>3. e # d
    <3>1. rank[d] < rank[e] BY <1>2, <1>3, <2>1 DEF StackOK
    <3>2. rank[d] \in Nat BY <1>2 DEF TreeType
    <3> QED BY <3>1, <3>2
  <2>4. ~Current(e)' BY <1>n, <1>0, <2>2, <2>3, StaleStays
  <2>5. stack'[i].node = e BY <1>3, <2>1
  <2> QED BY <2>4, <2>5 DEF Current, Clean, Versions
<1>7. ASSUME NEW i \in 1..(n - 1), stack[i].node \notin Warned, NEW k \in DOMAIN stack[i].read,
             NEW x, x = Sources[stack[i].node][k]
      PROVE  /\ stack[i].read[k] = value'[x]
             /\ x \in Deriveds => Clean(x)' /\ x \notin OnStack' /\ (Fresh(x)' \/ x \in marking')
  <2>1. FrameOK(i) BY <1>3 DEF StackOK
  <2>2. /\ stack[i].read[k] = value[x]
        /\ x \in Deriveds => Clean(x) /\ x \notin OnStack /\ Fresh(x)
    BY <1>1, <1>7, <2>1 DEF FrameOK
  <2>3. x # d BY <1>2, <1>5, <2>2
  <2>4. k \in DOMAIN Sources[stack[i].node] /\ stack[i].node \in LiveSet
    <3>1. i \in DOMAIN stack BY <1>3
    <3>2. stack[i].read \in Seq(Nat) /\ Len(stack[i].read) <= Len(Sources[stack[i].node]) /\ stack[i].node \in Deriveds
          /\ stack[i].node \in LiveSet
      BY <3>1, FrameType DEF RunsOK
    <3> QED BY <3>2, SourcesType
  <2>5. x \in Nodes BY <1>7, <2>4, SourceLive
  <2>6. value'[x] = value[x] BY <1>1, <2>3, <2>5 DEF CacheType
  <2>7. ASSUME x \in Deriveds PROVE Clean(x)' /\ x \notin OnStack' /\ (Fresh(x)' \/ x \in marking')
    <3>1. x \in LiveSet BY <1>7, <2>4, <2>7, SourceLive, NodeAssumption
    <3>2. Clean(x)' BY <1>1, <2>2, <2>3, <2>7 DEF Clean
    <3>3. CASE d \in Range(Sources[x])
      <4>1. x \in marking' BY <1>1, <3>1, <3>3 DEF Targets, LiveSet
      <4> QED BY <1>5, <2>2, <2>7, <3>2, <4>1
    <3>4. CASE d \notin Range(Sources[x])
      <4>1. \A j \in DOMAIN Sources[x] : Sources[x][j] # d /\ Sources[x][j] \in Nodes
        BY <2>7, <3>4, SourcesType DEF Range
      <4>2. \A j \in DOMAIN Sources[x] : version'[Sources[x][j]] = version[Sources[x][j]]
        BY <1>1, <4>1 DEF CacheType
      <4>3. Versions(x)' = Versions(x) BY <4>2 DEF Versions
      <4>4. seen'[x] = seen[x] BY <1>1, <2>3, <2>7 DEF CacheType
      <4> QED BY <1>5, <2>2, <2>7, <3>2, <4>3, <4>4 DEF Fresh
    <3> QED BY <1>5, <2>2, <2>7, <3>2, <3>3, <3>4
  <2> QED BY <2>2, <2>6, <2>7
<1>8. ASSUME NEW i \in 1..(n - 1) PROVE FrameOK(i)'
  <2>1. stack'[i] = stack[i] BY <1>3
  <2>2. CASE stack[i].node \in Warned BY <1>4, <2>1, <2>2 DEF FrameOK
  <2>3. CASE stack[i].node \notin Warned BY <1>7, <2>1, <2>3 DEF FrameOK
  <2> QED BY <2>2, <2>3
<1>9. ASSUME NEW i \in 1..(n - 1), NEW j \in 1..(n - 1), i < j
      PROVE  rank'[stack'[j].node] < rank'[stack'[i].node]
  BY <1>1, <1>3, <1>9 DEF StackOK
<1> QED BY <1>3, <1>6, <1>8, <1>9 DEF StackOK

LEMMA StackMark ==
  ASSUME Base, StackOK, NEW e \in Deriveds, Mark(e) PROVE StackOK'
<1> USE DEF Base, Types, Places
<1>1. /\ UNCHANGED <<stack, value, version, init, seen, batch, registry>>
      /\ dirty' = dirty \cup {e} /\ marking' = marking \ {e}
      /\ ~Clean(e) => queue' = queue
  BY DEF Mark, MarkDirty
<1>2. Warned \subseteq Warned'
  <2>1. CASE Clean(e) BY <2>1, MarkWarns
  <2>2. CASE ~Clean(e) BY <1>1, <2>2 DEF Warned, Notes
  <2> QED BY <2>1, <2>2
<1>3. OnStack' = OnStack BY <1>1 DEF OnStack
<1>4. ASSUME NEW i \in DOMAIN stack PROVE (~Current(stack[i].node))'
  <2>1. ~Current(stack[i].node) BY DEF StackOK
  <2> QED BY <1>1, <2>1 DEF Current, Clean, Versions
<1>5. ASSUME NEW i \in DOMAIN stack PROVE FrameOK(i)'
  <2>1. CASE stack[i].node \in Warned BY <1>1, <1>2, <2>1 DEF FrameOK
  <2>2. CASE stack[i].node \notin Warned
    <3>1. ASSUME NEW k \in DOMAIN stack[i].read
          PROVE  /\ k \in DOMAIN Sources[stack[i].node]
                 /\ stack[i].read[k] = value[Sources[stack[i].node][k]]
                 /\ Sources[stack[i].node][k] \in Deriveds =>
                      /\ Clean(Sources[stack[i].node][k])
                      /\ Sources[stack[i].node][k] \notin OnStack
                      /\ Fresh(Sources[stack[i].node][k]) \/ Sources[stack[i].node][k] \in marking
      <4>1. FrameOK(i) BY DEF StackOK
      <4>2. stack[i].read \in Seq(Nat) /\ Len(stack[i].read) <= Len(Sources[stack[i].node]) /\ stack[i].node \in Deriveds
        BY FrameType DEF RunsOK
      <4>3. k \in DOMAIN Sources[stack[i].node] BY <4>2, SourcesType
      <4> QED BY <2>2, <4>1, <4>3 DEF FrameOK
    <3>2. CASE \E k \in DOMAIN stack[i].read : Sources[stack[i].node][k] = e
      <4>1. PICK k \in DOMAIN stack[i].read : Sources[stack[i].node][k] = e BY <3>2
      <4>2. Clean(e) /\ e \in Range(Sources[stack[i].node]) BY <3>1, <4>1 DEF Range
      <4>3. stack[i].node \in Targets(e) BY <4>2 DEF Targets, RunsOK, LiveSet
      <4>4. stack[i].node \in Warned' BY <4>2, <4>3, MarkWarns
      <4> QED BY <1>1, <4>4 DEF FrameOK
    <3>3. CASE \A k \in DOMAIN stack[i].read : Sources[stack[i].node][k] # e
      <4>1. ASSUME NEW k \in DOMAIN stack[i].read, NEW x, x = Sources[stack[i].node][k]
            PROVE  /\ stack[i].read[k] = value'[x]
                   /\ x \in Deriveds => Clean(x)' /\ x \notin OnStack' /\ (Fresh(x)' \/ x \in marking')
        <5>1. x # e BY <3>3, <4>1
        <5> QED BY <1>1, <1>3, <3>1, <4>1, <5>1 DEF Clean, Fresh, Versions
      <4> QED BY <1>1, <4>1 DEF FrameOK
    <3> QED BY <3>2, <3>3
  <2> QED BY <2>1, <2>2
<1> QED BY <1>1, <1>4, <1>5 DEF StackOK

LEMMA StackStep ==
  ASSUME Base, Coherent, [Next]_vars PROVE StackOK'
<1> USE DEF Coherent
<1>1. CASE stack' = <<>>
  <2>1. DOMAIN stack' = {} BY <1>1
  <2> QED BY <2>1 DEF StackOK
<1>2. CASE Pushes BY <1>2, StackPush DEF Pushes
<1>3. CASE Takes BY <1>3, StackTake DEF Takes
<1>4. CASE Finish BY <1>4, StackFinish
<1>5. CASE Marking BY <1>5, StackMark DEF Marking
<1>6. CASE Quiet
  BY <1>6 DEF Quiet, StackOK, FrameOK, OnStack, Warned, Notes, Current, Clean, Fresh, Versions
<1> QED BY <1>1, <1>2, <1>3, <1>4, <1>5, <1>6, Busy

LEMMA CoherentInit == ASSUME Init PROVE Coherent
<1>1. init = {} /\ DOMAIN stack = {} BY DEF Init
<1> QED BY <1>1 DEF Coherent, Mono, AllSettled, Current, Clean, StackOK

LEMMA CoherentAlways == Spec => [](Base /\ Coherent)
<1>1. Init => Coherent BY CoherentInit
<1>2. Base /\ Base' /\ Coherent /\ [Next]_vars => Coherent'
  BY MonoStep, SettledStep, StackStep DEF Coherent
<1> QED BY <1>1, <1>2, BaseAlways, PTL DEF Spec

(* In a set of deriveds that has its own derived sources, are up to date   *)
(* and have been told nothing, each is worth what it would be worth anew:  *)
(* the least that is not reads sources that are.                           *)
LEMMA ConeRight ==
  ASSUME Base, AllSettled, NEW cone \in SUBSET LiveSet,
         \A d \in cone : Current(d) /\ d \notin Told /\ Range(Sources[d]) \cap Deriveds \subseteq cone,
         NEW d \in cone
  PROVE  Right(d)
<1> USE DEF Base, Types, Places
<1> DEFINE wrong == {e \in cone : ~Right(e)}
           ranks == {rank[e] : e \in wrong}
<1> SUFFICES ASSUME wrong # {} PROVE FALSE OBVIOUS
<1>1. \A e \in cone : e \in Deriveds /\ rank[e] \in Nat BY MadeType DEF LiveSet, TreeType
<1>2. ranks \in SUBSET Nat /\ ranks # {} BY <1>1
<1>3. PICK r \in ranks : \A q \in ranks : r <= q BY <1>2, Least
<1>4. PICK e \in wrong : rank[e] = r BY <1>3
<1>5. e \in cone /\ ~Right(e) /\ e \in Deriveds /\ rank[e] \in Nat /\ e \in LiveSet BY <1>1, <1>4
<1>6. ASSUME NEW k \in DOMAIN Sources[e] PROVE value[Sources[e][k]] = Anew(Held)[Sources[e][k]]
  <2>1. CASE Sources[e][k] \in StoreNodes BY <2>1, AnewIs DEF Held
  <2>2. CASE Sources[e][k] \notin StoreNodes
    <3>1. Sources[e][k] \in Nodes /\ rank[Sources[e][k]] < rank[e] BY <1>5, <2>2, SourceLive
    <3>2. Sources[e][k] \in cone BY <1>5, <2>2, <3>1 DEF Nodes, Range
    <3>3. rank[Sources[e][k]] \in Nat BY <1>1, <3>2
    <3>4. Sources[e][k] \notin wrong BY <1>3, <1>4, <1>5, <3>1, <3>3
    <3> QED BY <3>2, <3>4 DEF Right
  <2> QED BY <2>1, <2>2
<1>7. Values(e) = [k \in DOMAIN Sources[e] |-> Anew(Held)[Sources[e][k]]] BY <1>6 DEF Values
<1>8. value[e] = Worth(e, Values(e)) BY <1>5 DEF AllSettled, Settled
<1>9. Anew(Held)[e] = Worth(e, Values(e)) BY <1>5, <1>7, AnewIs
<1> QED BY <1>5, <1>8, <1>9 DEF Right

LEMMA CoherentSound == ASSUME Base, Coherent PROVE CacheSound
<1> SUFFICES ASSUME NEW cone \in SUBSET {d \in Made : Live(d)},
                    \A d \in cone : /\ Current(d) /\ d \notin Told
                                    /\ Range(Sources[d]) \cap Deriveds \subseteq cone,
                    NEW d \in cone
             PROVE  Right(d)
  BY DEF CacheSound
<1>1. cone \in SUBSET LiveSet BY DEF Live, LiveSet
<1> QED BY <1>1, ConeRight DEF Coherent

(* For every graph of deriveds, every scope tree and every application: a  *)
(* value that the versions and dirty flags vouch for, on all the ways that *)
(* lead to it, is what computing everything anew would give.               *)
THEOREM StoresCacheSound == Spec => []CacheSound
<1>1. Base /\ Coherent => CacheSound BY CoherentSound
<1> QED BY <1>1, CoherentAlways, PTL

-----------------------------------------------------------------------------
(* News and where it gets.                                                 *)

(* A clean derived whose sources have changed is about to hear of it.      *)
Aware == \A d \in LiveSet : Clean(d) => Fresh(d) \/ d \in marking \/ d \in Queued

(* A pass that has delivered nothing has left only empty queues behind.    *)
Pass ==
  phase = "signals" /\ ~worked =>
    /\ batch = <<>> /\ stack = <<>> /\ marking = {}
    /\ \A k \in 1..visit : queue[ScopeOrder[k]] = <<>>

(* What is being flushed is of the scope that is visited.                  *)
WorkHere == \A d \in work : visit > 0 /\ Owner[d] = ScopeOrder[visit]

(* What is up to date stays so, unless a source changes and the derived is *)
(* told.                                                                   *)
LEMMA FreshStep ==
  ASSUME Base, [Next]_vars, NEW d \in LiveSet, Owner[d] \in open', Fresh(d)
  PROVE  Fresh(d)' \/ (Finish /\ d \in marking') \/ (Mutating /\ d \in Queued')
<1> USE DEF Base, Types, Places
<1>0. d \in Made /\ d \in Deriveds BY MadeType DEF LiveSet
<1>1. CASE \A k \in DOMAIN Sources[d] : version'[Sources[d][k]] = version[Sources[d][k]]
  <2>1. Versions(d)' = Versions(d) BY <1>1 DEF Versions
  <2>2. CASE ~(Finish /\ d = Last(stack).node) BY <2>1, <2>2, CleanStep DEF Fresh
  <2>3. CASE Finish /\ d = Last(stack).node
    <3>1. seen' = [seen EXCEPT ![d] = Versions(d)] BY <2>3 DEF Finish
    <3> QED BY <1>0, <2>1, <3>1 DEF Fresh, CacheType
  <2> QED BY <2>2, <2>3
<1>2. CASE \E k \in DOMAIN Sources[d] : version'[Sources[d][k]] # version[Sources[d][k]]
  <2>1. PICK k \in DOMAIN Sources[d] : version'[Sources[d][k]] # version[Sources[d][k]] BY <1>2
  <2>2. PICK x \in Nodes : x = Sources[d][k] BY <1>0, SourcesType
  <2>3. d \in Targets(x) BY <1>0, <2>2 DEF Targets, LiveSet, Range
  <2>4. CASE Mutating
    <3>1. PICK m \in Mutations : Applying(m) BY <2>4 DEF Mutating
    <3>2. version' = [version EXCEPT ![m.store] = @ + 1] /\ UNCHANGED batch BY <3>1 DEF Applying, Apply
    <3>3. x = m.store BY <2>1, <2>2, <3>2 DEF CacheType
    <3> DEFINE note == Note(m.store, Targets(m.store), Event(m))
    <3>4. Sends(note) BY <3>1, ApplySends
    <3>5. note.targets = Targets(m.store) BY DEF Note
    <3> HIDE DEF note
    <3>6. note \in Notes' BY <3>2, <3>4, SendNotes
    <3> QED BY <2>3, <2>4, <3>3, <3>5, <3>6 DEF Queued
  <2>5. CASE Finish
    <3>1. PICK e : e = Last(stack).node OBVIOUS
    <3>2. version' = [version EXCEPT ![e] = @ + 1] /\ marking' = Targets(e) BY <2>5, <3>1 DEF Finish
    <3>3. x = e BY <2>1, <2>2, <3>2 DEF CacheType
    <3> QED BY <2>3, <2>5, <3>2, <3>3
  <2>6. CASE ~Mutating /\ ~Finish BY <2>1, <2>6, Touches DEF Closing, Close
  <2> QED BY <2>4, <2>5, <2>6
<1> QED BY <1>1, <1>2

LEMMA FinishFresh ==
  ASSUME Base, Finish, NEW d, d = Last(stack).node PROVE Fresh(d)'
<1> USE DEF Base, Types, Places
<1>1. /\ stack # <<>> /\ seen' = [seen EXCEPT ![d] = Versions(d)] /\ version' = [version EXCEPT ![d] = @ + 1]
  BY DEF Finish
<1>2. d \in LiveSet /\ d \in Deriveds BY <1>1, TopFacts
<1>3. \A k \in DOMAIN Sources[d] : version'[Sources[d][k]] = version[Sources[d][k]]
  BY <1>1, <1>2, NotOwnSource, SourceLive DEF CacheType
<1>4. Versions(d)' = Versions(d) BY <1>3 DEF Versions
<1> QED BY <1>1, <1>2, <1>4 DEF Fresh, CacheType

LEMMA AwareStep == ASSUME Base, Aware, [Next]_vars PROVE Aware'
<1> USE DEF Base, Types, Places
<1> SUFFICES ASSUME NEW d \in LiveSet', Clean(d)' PROVE Fresh(d)' \/ d \in marking' \/ d \in Queued'
  BY DEF Aware
<1>1. Owner[d] \in open' /\ d \in LiveSet BY LiveBack DEF Clean
<1>2. CASE Finish /\ d = Last(stack).node BY <1>2, FinishFresh
<1>3. CASE ~(Finish /\ d = Last(stack).node)
  <2>1. Clean(d) BY <1>1, <1>3, CleanStep
  <2>2. CASE Fresh(d) BY <1>1, <2>2, FreshStep
  <2>3. CASE d \in marking
    <3>1. ASSUME Mark(d) PROVE FALSE BY <3>1 DEF Mark, MarkDirty, Clean
    <3> QED BY <2>3, <3>1, MarkingKept
  <2>4. CASE d \in Queued BY <1>1, <2>4, QueuedKept
  <2> QED BY <1>1, <2>1, <2>2, <2>3, <2>4 DEF Aware
<1> QED BY <1>2, <1>3

LEMMA PassStep == ASSUME Base, Pass, [Next]_vars PROVE Pass'
<1> USE DEF Base, Types, Places
<1> SUFFICES ASSUME phase' = "signals", ~worked'
             PROVE  /\ batch' = <<>> /\ stack' = <<>> /\ marking' = {}
                    /\ \A k \in 1..(visit') : queue'[ScopeOrder[k]] = <<>>
  BY DEF Pass
<1>1. CASE StartSignals
  <2>1. batch = <<>> BY <1>1 DEF StartSignals, RunsOK
  <2> QED BY <1>1, <2>1 DEF StartSignals, Idle
<1>2. CASE EndPass BY <1>2 DEF EndPass, Idle
<1>3. CASE TakeBatch
  <2> DEFINE s == ScopeOrder[visit + 1]
  <2>1. /\ phase = "signals" /\ Idle /\ batch = <<>> /\ visit < Len(ScopeOrder)
        /\ batch' = queue[s] /\ worked' = (worked \/ queue[s] # <<>>)
        /\ queue' = [queue EXCEPT ![s] = <<>>] /\ visit' = visit + 1 /\ UNCHANGED <<stack, marking>>
    BY <1>3 DEF TakeBatch
  <2>2. ~worked /\ queue[s] = <<>> BY <2>1
  <2>3. visit \in Nat /\ s \in Scopes BY <2>1, NextScope
  <2>4. \A k \in 1..(visit + 1) : k \in 1..visit \/ k = visit + 1 BY <2>3
  <2>5. \A k \in 1..visit : queue[ScopeOrder[k]] = <<>> BY <2>1, <2>2 DEF Pass
  <2>6. \A k \in 1..(visit + 1) : queue[ScopeOrder[k]] = <<>> BY <2>2, <2>4, <2>5
  <2>7. \A k \in 1..(visit + 1) : queue'[ScopeOrder[k]] = <<>>
    <3>1. queue \in [Scopes -> Seq(NoteSet)] /\ Len(ScopeOrder) \in Nat BY ScopeAssumption DEF ListType
    <3>2. \A k \in 1..(visit + 1) : k \in 1..Len(ScopeOrder) BY <2>1, <2>3, <3>1
    <3>3. \A k \in 1..(visit + 1) : ScopeOrder[k] \in Scopes BY <3>2, ScopeAt
    <3> HIDE DEF s
    <3> QED BY <2>1, <2>6, <3>1, <3>3
  <2> QED BY <2>1, <2>2, <2>7 DEF Idle
<1>4. CASE ~StartSignals /\ ~EndPass /\ ~TakeBatch
  <2>1. UNCHANGED <<phase, visit, worked>>
    BY <1>4, Touches DEF Flush, FlushScope, EndFlush, EndFrame
  <2>2. /\ batch = <<>> /\ stack = <<>> /\ marking = {} /\ ~Turn
        /\ \A k \in 1..visit : queue[ScopeOrder[k]] = <<>>
    BY <2>1 DEF Pass, Turn
  <2>3. ~AppActs BY <2>1 DEF AppActs
  <2>4. ~Mutating /\ ~Posted BY <2>2 DEF Mutating, Applying, Posted, Posting
  <2>5. ~Marking /\ ~Finish /\ ~Deliver /\ ~ReadSource BY <2>2 DEF Marking, Mark, Finish, Deliver, ReadSource
  <2>6. ~Closing /\ ~Getting BY <2>1, <2>3 DEF Closing, Close, Getting, Read
  <2>7. ~Flushing BY <2>1 DEF Flushing, FlushNext
  <2> QED BY <1>4, <2>1, <2>2, <2>4, <2>5, <2>6, <2>7, Touches
<1> QED BY <1>1, <1>2, <1>3, <1>4

LEMMA WorkStep == ASSUME Base, WorkHere, [Next]_vars PROVE WorkHere'
<1> USE DEF Base, Types, Places
<1>1. CASE FlushScope
  <2> DEFINE s == ScopeOrder[visit + 1]
  <2>1. work' = list[s] /\ visit' = visit + 1 /\ visit < Len(ScopeOrder) BY <1>1 DEF FlushScope
  <2>2. visit \in Nat /\ s \in Scopes BY <2>1, NextScope
  <2>3. \A d \in list[s] : Owner[d] = s BY <2>2 DEF ListsOK
  <2> QED BY <2>1, <2>2, <2>3 DEF WorkHere
<1>2. CASE ~FlushScope
  <2>1. work' \subseteq work BY <1>2, Moves DEF Drops, Dropping
  <2>2. ASSUME work # {} PROVE UNCHANGED <<phase, visit, worked>>
    <3>1. phase = "flush" BY <2>2 DEF RunsOK
    <3> QED BY <1>2, <2>2, <3>1, Touches DEF StartSignals, TakeBatch, EndPass, Flush, EndFlush, EndFrame
  <2> QED BY <2>1, <2>2 DEF WorkHere
<1> QED BY <1>1, <1>2

-----------------------------------------------------------------------------
(* What is still to be flushed.                                            *)

Calm == phase \in {"layout", "flush", "project"} /\ ~late
Flushed == phase \in {"flush", "project"}

(* The flush, the one under way or the next, will come to a derived.       *)
Pending(d) ==
  IF phase = "flush"
  THEN \/ d \in work
       \/ /\ d \in list[Owner[d]]
          /\ \E k \in (visit + 1)..Len(ScopeOrder) : ScopeOrder[k] = Owner[d]
  ELSE phase # "project" /\ d \in list[Owner[d]]

(* Those who need not be pending yet since they will be told.              *)
Slack == IF Calm THEN {} ELSE IF Flushed THEN Queued ELSE Queued \cup marking

(* A derived that was marked too late for this flush.                      *)
Left(d) ==
  /\ Flushed /\ ~Calm
  /\ d \in list[Owner[d]]
  /\ Targets(d) \subseteq Slack

(* What is dirty is pending, and so is everything downstream of it.        *)
Works(S) ==
  /\ S \subseteq LiveSet
  /\ \A e \in S : Pending(e) /\ Targets(e) \subseteq S \cup Slack
  /\ \A e \in LiveSet : Clean(e) \/ e \in S \/ Left(e)
  /\ Calm => marking \subseteq S

Listed == \E S : Works(S)

(* What is clean then is up to date, or will be marked at once.            *)
CalmFresh == Calm => \A d \in LiveSet : Clean(d) => Fresh(d) \/ d \in marking

LEMMA CalmSteps ==
  ASSUME Base, [Next]_vars, Calm'
  PROVE  /\ Calm \/ (EndPass /\ ~worked)
         /\ ~Mutating /\ ~Deliver /\ ~StartSignals /\ ~TakeBatch /\ ~EndFrame
<1> USE DEF Base, Types, Calm
<1>1. ~StartSignals /\ ~TakeBatch /\ ~EndFrame /\ ~Deliver BY DEF StartSignals, TakeBatch, EndFrame, Deliver
<1>2. ~Mutating
  <2> SUFFICES ASSUME NEW m \in Mutations, Applying(m) PROVE FALSE BY DEF Mutating
  <2>1. phase \in {"work", "layout", "signals"} /\ phase' = phase /\ late' = (late \/ phase = "layout")
    BY DEF Applying, Turn, Apply
  <2> QED BY <2>1
<1>3. late' = late BY <1>1, <1>2, Touches
<1>4. CASE UNCHANGED <<phase, visit, worked>> BY <1>1, <1>2, <1>3, <1>4
<1>5. CASE EndPass BY <1>1, <1>2, <1>5 DEF EndPass
<1>6. CASE Flush \/ FlushScope \/ EndFlush BY <1>1, <1>2, <1>3, <1>6 DEF Flush, FlushScope, EndFlush
<1> QED BY <1>1, <1>4, <1>5, <1>6, Touches

LEMMA ListedKept ==
  ASSUME Base, [Next]_vars, NEW d \in LiveSet, Owner[d] \in open', d \in list[Owner[d]]
  PROVE  d \in list'[Owner[d]] \/ (FlushScope /\ d \in work')
<1> USE DEF Base, Types
<1>0. Owner[d] \in Scopes BY DEF TreeType, LiveSet
<1>1. CASE Creating
  <2>1. PICK e \in Deriveds : NewDerived(e) BY <1>1 DEF Creating
  <2>2. list' = [list EXCEPT ![Owner[e]] = @ \cup {e}] BY <2>1 DEF NewDerived
  <2> QED BY <1>0, <2>2 DEF ListType
<1>2. CASE Marking
  <2>1. PICK e \in Deriveds : Mark(e) BY <1>2 DEF Marking
  <2>2. list' = [list EXCEPT ![Owner[e]] = @ \cup {e}] BY <2>1 DEF Mark, MarkDirty
  <2> QED BY <1>0, <2>2 DEF ListType
<1>3. CASE Closing BY <1>0, <1>3 DEF Closing, Close
<1>4. CASE FlushScope BY <1>0, <1>4 DEF FlushScope, ListType
<1>5. CASE UNCHANGED list BY <1>5
<1> QED BY <1>1, <1>2, <1>3, <1>4, <1>5, Touches

LEMMA PendingKept ==
  ASSUME Base, [Next]_vars, NEW d \in LiveSet, Owner[d] \in open', Pending(d)
  PROVE  Pending(d)' \/ Dropping(d)
<1> USE DEF Base, Types, Places
<1>0. Owner[d] \in Scopes /\ visit \in Nat /\ Len(ScopeOrder) \in Nat
  BY ScopeAssumption DEF TreeType, LiveSet, ControlType
<1>1. CASE FlushScope
  <2> DEFINE s == ScopeOrder[visit + 1]
  <2>1. /\ phase = "flush" /\ phase' = "flush" /\ work = {} /\ work' = list[s] /\ visit' = visit + 1
        /\ list' = [list EXCEPT ![s] = {}]
    BY <1>1 DEF FlushScope
  <2>2. d \in list[Owner[d]] /\ \E k \in (visit + 1)..Len(ScopeOrder) : ScopeOrder[k] = Owner[d]
    BY <2>1 DEF Pending
  <2>3. CASE Owner[d] = s BY <2>1, <2>2, <2>3 DEF Pending
  <2>4. CASE Owner[d] # s
    <3>1. d \in list'[Owner[d]] BY <1>0, <2>1, <2>2, <2>4 DEF ListType
    <3>2. PICK k \in (visit + 1)..Len(ScopeOrder) : ScopeOrder[k] = Owner[d] BY <2>2
    <3>3. k \in (visit' + 1)..Len(ScopeOrder) BY <1>0, <2>1, <2>4, <3>2
    <3> QED BY <2>1, <3>1, <3>2, <3>3 DEF Pending
  <2> QED BY <2>3, <2>4
<1>2. CASE Flush
  <2>1. phase = "layout" /\ phase' = "flush" /\ visit' = 0 /\ list' = list BY <1>2 DEF Flush
  <2>2. d \in list'[Owner[d]] BY <2>1 DEF Pending
  <2>3. PICK k \in DOMAIN ScopeOrder : ScopeOrder[k] = Owner[d] BY <1>0 DEF Scopes, Range
  <2>4. k \in (visit' + 1)..Len(ScopeOrder) BY <2>1, <2>3, ScopeAssumption
  <2> QED BY <2>1, <2>2, <2>3, <2>4 DEF Pending
<1>3. CASE EndFlush
  <2>1. phase = "flush" /\ work = {} /\ visit = Len(ScopeOrder) BY <1>3 DEF EndFlush
  <2>2. ~Pending(d) BY <1>0, <2>1 DEF Pending
  <2> QED BY <2>2
<1>4. CASE EndFrame BY <1>4 DEF EndFrame, Pending
<1>5. CASE Drops
  <2>1. PICK e \in Deriveds : Dropping(e) BY <1>5 DEF Drops
  <2>2. CASE e = d BY <2>1, <2>2
  <2>3. CASE e # d BY <2>1, <2>3 DEF Dropping, Pending
  <2> QED BY <2>2, <2>3
<1>6. CASE ~FlushScope /\ ~Flush /\ ~EndFlush /\ ~EndFrame /\ ~Drops
  <2>1. work' = work BY <1>6, Moves
  <2>2. d \in list[Owner[d]] => d \in list'[Owner[d]] BY <1>6, ListedKept
  <2>3. CASE UNCHANGED <<phase, visit, worked>> BY <2>1, <2>2, <2>3 DEF Pending
  <2>4. CASE StartSignals \/ TakeBatch \/ EndPass
    <3>1. phase \in {"work", "signals"} /\ phase' \in {"signals", "layout"}
      BY <2>4 DEF StartSignals, TakeBatch, EndPass
    <3> QED BY <2>2, <3>1 DEF Pending
  <2> QED BY <1>6, <2>3, <2>4, Touches
<1> QED BY <1>1, <1>2, <1>3, <1>4, <1>5, <1>6

(* What is flushed first has no source that is still to be flushed: those  *)
(* have a smaller rank and their scopes come first.                        *)
LEMMA DropOrder ==
  ASSUME Base, WorkHere, NEW d \in LiveSet, Dropping(d), NEW e \in LiveSet, Pending(e), d \in Targets(e)
  PROVE  FALSE
<1> USE DEF Base, Types, Places
<1>1. PICK k \in DOMAIN Sources[d] : Sources[d][k] = e BY DEF Targets, Range
<1>2. e \in Deriveds /\ d \in Deriveds BY MadeType DEF LiveSet
<1>3. rank[e] < rank[d] /\ Owner[e] \in Ancestors(Owner[d]) BY <1>1, <1>2, SourceLive, NodeAssumption
<1>4. rank[e] \in Nat /\ rank[d] \in Nat BY <1>2 DEF TreeType
<1>5. phase = "flush" /\ d \in work /\ \A x \in work \ {d} : Precedes(d, x) BY DEF Dropping
<1>6. CASE e \in work
  <2>1. e # d BY <1>3, <1>4
  <2>2. Precedes(d, e) BY <1>5, <1>6, <2>1
  <2> QED BY <1>3, <1>4, <2>2 DEF Precedes
<1>7. CASE e \notin work
  <2>1. PICK j \in (visit + 1)..Len(ScopeOrder) : ScopeOrder[j] = Owner[e] BY <1>5, <1>7 DEF Pending
  <2>2. visit \in 1..Len(ScopeOrder) /\ Owner[d] = ScopeOrder[visit] BY <1>5 DEF WorkHere, ControlType
  <2>3. j \in DOMAIN ScopeOrder /\ visit \in DOMAIN ScopeOrder BY <2>1, <2>2, ScopeAssumption
  <2>4. j <= visit BY <1>3, <2>1, <2>2, <2>3, AncestorsFirst
  <2> QED BY <2>1, <2>2, <2>4, ScopeAssumption
<1> QED BY <1>6, <1>7

(* A pass that ends without having delivered anything leaves nothing.      *)
LEMMA NothingQueued ==
  ASSUME Base, Pass, EndPass, ~worked
  PROVE  Notes = {} /\ Queued = {} /\ Warned = {} /\ marking = {} /\ stack = <<>>
<1> USE DEF Base, Types
<1>1. phase = "signals" /\ visit = Len(ScopeOrder) BY DEF EndPass
<1>2. batch = <<>> /\ stack = <<>> /\ marking = {} /\ \A k \in 1..Len(ScopeOrder) : queue[ScopeOrder[k]] = <<>>
  BY <1>1 DEF Pass
<1>3. \A s \in Scopes : queue[s] = <<>> BY <1>2, ScopeAssumption DEF Scopes, Range
<1>4. Range(<<>>) = {} BY DEF Range
<1>5. Notes = {} BY <1>2, <1>3, <1>4 DEF Notes
<1> QED BY <1>2, <1>5 DEF Queued, Warned

LEMMA TargetsBack ==
  ASSUME Base, [Next]_vars, NEW n, NEW d \in Targets(n)'
  PROVE  /\ d \in LiveSet' /\ Owner[d] \in open' /\ n \in Range(Sources[d])
         /\ (d \in Targets(n) /\ d \in LiveSet) \/ (NewDerived(d) /\ d \in dirty')
<1>1. d \in LiveSet' /\ Owner[d] \in open' /\ n \in Range(Sources[d]) BY DEF Targets, LiveSet
<1>2. d \in LiveSet \/ (NewDerived(d) /\ d \in dirty') BY <1>1, LiveBack
<1> QED BY <1>1, <1>2 DEF Targets, LiveSet

LEMMA SlackKept ==
  ASSUME Base, Pass, [Next]_vars, NEW d \in Slack, Owner[d] \in open'
  PROVE  d \in Slack' \/ (Mark(d) /\ ~Flushed)
<1> USE DEF Base, Types
<1>1. ~Calm /\ (d \in Queued \/ (d \in marking /\ ~Flushed)) BY DEF Slack
<1>2. ~Calm'
  <2> SUFFICES ASSUME Calm' PROVE FALSE OBVIOUS
  <2>1. EndPass /\ ~worked BY <1>1, CalmSteps
  <2> QED BY <1>1, <2>1, NothingQueued
<1>3. CASE d \in Queued
  <2>1. d \in Queued' \/ (Deliver /\ d \in marking') BY <1>3, QueuedKept
  <2>2. Deliver => ~Flushed' BY DEF Deliver, Flushed
  <2> QED BY <1>2, <2>1, <2>2 DEF Slack
<1>4. CASE d \in marking /\ ~Flushed
  <2>1. d \in marking' \/ Mark(d) BY <1>4, MarkingKept
  <2>2. ~Flushed'
    <3>1. ~Flush /\ ~FlushScope /\ ~EndFlush BY <1>4 DEF Flush, FlushScope, EndFlush, Idle
    <3> QED BY <1>4, <3>1, Touches DEF Flushed, StartSignals, TakeBatch, EndPass, EndFrame
  <2> QED BY <1>2, <1>4, <2>1, <2>2 DEF Slack
<1> QED BY <1>1, <1>3, <1>4

LEMMA LeftKept ==
  ASSUME Base, Pass, [Next]_vars, NEW d \in LiveSet, Owner[d] \in open', Left(d)
  PROVE  Left(d)' \/ Pending(d)'
<1> USE DEF Base, Types
<1>1. Flushed /\ ~Calm /\ d \in list[Owner[d]] /\ Targets(d) \subseteq Slack BY DEF Left
<1>2. d \in list'[Owner[d]] \/ (FlushScope /\ d \in work') BY <1>1, ListedKept
<1>3. CASE FlushScope /\ d \in work' BY <1>3 DEF FlushScope, Pending
<1>4. CASE d \in list'[Owner[d]]
  <2>1. CASE phase' = "work" BY <1>4, <2>1 DEF Pending
  <2>2. CASE phase' # "work"
    <3>1. Flushed'
      BY <1>1, <2>2, Touches DEF Flushed, StartSignals, TakeBatch, EndPass, Flush, FlushScope, EndFlush, EndFrame
    <3>2. ~Calm' BY <1>1, CalmSteps DEF EndPass, Flushed
    <3>3. ASSUME NEW t \in Targets(d)' PROVE t \in Slack'
      <4>1. ~NewDerived(t) BY <1>1 DEF NewDerived, AppActs, Flushed
      <4>2. t \in Targets(d) /\ Owner[t] \in open' BY <3>3, <4>1, TargetsBack
      <4> QED BY <1>1, <4>2, SlackKept
    <3> QED BY <1>4, <3>1, <3>2, <3>3 DEF Left
  <2> QED BY <2>1, <2>2
<1> QED BY <1>2, <1>3, <1>4

LEMMA NewPending ==
  ASSUME Base, NEW d \in Deriveds, NewDerived(d) \/ (Mark(d) /\ ~Flushed) PROVE Pending(d)'
<1> USE DEF Base, Types
<1>1. phase' = phase /\ phase \notin {"flush", "project"} BY DEF NewDerived, Mark, AppActs, Flushed
<1>2. list' = [list EXCEPT ![Owner[d]] = @ \cup {d}] BY DEF NewDerived, Mark, MarkDirty
<1>3. Owner[d] \in Scopes BY NodeAssumption DEF Nodes
<1>4. d \in list'[Owner[d]] BY <1>2, <1>3 DEF ListType
<1> QED BY <1>1, <1>4 DEF Pending

(* A new derived is no one's source.                                       *)
LEMMA NewAlone ==
  ASSUME Base, [Next]_vars, NEW d \in Deriveds, NewDerived(d), NEW t \in Targets(d)' PROVE FALSE
<1> USE DEF Base, Types, Places
<1>1. GraphOK' /\ TreeType' BY GraphStep, TreeStep
<1>2. PICK k \in DOMAIN Sources[t] : Sources[t][k] = d BY DEF Targets, Range
<1>3. t \in Made' BY DEF Targets
<1>4. Made' = Made \cup {d} /\ d \notin Made BY NewMade DEF NewDerived
<1>5. CASE t \in Made BY <1>2, <1>4, <1>5 DEF GraphOK, Placed
<1>6. CASE t = d
  <2>1. rank'[d] < rank'[d] BY <1>1, <1>2, <1>3, <1>6 DEF GraphOK, Placed
  <2>2. rank'[d] \in Nat BY <1>1 DEF TreeType
  <2> QED BY <2>1, <2>2
<1> QED BY <1>3, <1>4, <1>5, <1>6

LEMMA ListedStep ==
  ASSUME Base, Base', Coherent, Pass, WorkHere, CalmFresh, Listed, [Next]_vars PROVE Listed'
<1> USE DEF Base, Types, Places
<1>1. PICK S : Works(S) BY DEF Listed
<1> DEFINE new(e) == e \in S \/ NewDerived(e) \/ (~Flushed /\ Mark(e)) \/ Left(e)
           T == {e \in LiveSet' : Pending(e)' /\ new(e)}
<1>0. LiveSet' \subseteq Deriveds
  <2>1. made' \in Seq(Deriveds) BY DEF TreeType
  <2>2. Range(made') \subseteq Deriveds BY <2>1 DEF Range
  <2> QED BY <2>2 DEF LiveSet, Made
<1>2. ASSUME NEW e \in LiveSet', e \in S PROVE e \in T \/ Dropping(e)
  <2>1. e \in LiveSet /\ Owner[e] \in open' /\ Pending(e) BY <1>1, <1>2 DEF Works, LiveSet
  <2> QED BY <1>2, <2>1, PendingKept
<1>3. ASSUME NEW e \in LiveSet', NewDerived(e) \/ (~Flushed /\ Mark(e)) PROVE e \in T
  <2>1. e \in Deriveds BY <1>0
  <2> QED BY <1>3, <2>1, NewPending
<1>4. ASSUME NEW e \in T, NEW t \in Targets(e)' PROVE t \in T \/ t \in Slack'
  <2>1. /\ t \in LiveSet' /\ Owner[t] \in open' /\ e \in Range(Sources[t])
        /\ (t \in Targets(e) /\ t \in LiveSet) \/ NewDerived(t)
    BY <1>4, TargetsBack
  <2>2. CASE NewDerived(t) BY <1>3, <2>1, <2>2
  <2>3. CASE t \in Targets(e) /\ t \in LiveSet
    <3>1. CASE t \in Slack
      <4>1. t \in Slack' \/ (Mark(t) /\ ~Flushed) BY <2>1, <3>1, SlackKept
      <4> QED BY <1>3, <2>1, <4>1
    <3>2. CASE e \in S
      <4>1. t \in S \/ t \in Slack BY <1>1, <2>3, <3>2 DEF Works
      <4>2. ASSUME t \in S PROVE ~Dropping(t)
        <5>1. e \in LiveSet /\ Pending(e) BY <1>1, <3>2 DEF Works
        <5> QED BY <2>3, <5>1, DropOrder
      <4> QED BY <1>2, <2>1, <3>1, <4>1, <4>2
    <3>3. CASE NewDerived(e)
      <4>1. e \in Deriveds BY <1>0, <1>4
      <4> QED BY <1>4, <3>3, <4>1, NewAlone
    <3>4. CASE ~Flushed /\ Mark(e) /\ e \notin S
      <4>1. e \in Deriveds /\ e \in LiveSet /\ e \in marking BY <1>4, <3>4, MadeType DEF Mark, RunsOK, LiveSet
      <4>2. Clean(e) BY <1>1, <3>4, <4>1 DEF Works, Left
      <4>3. t \in Warned' BY <2>3, <3>4, <4>1, <4>2, MarkWarns
      <4>4. t \in Queued' BY <4>3 DEF Warned, Queued
      <4>5. ~Calm BY <1>1, <3>4, <4>1 DEF Works
      <4>6. ~Calm' BY <3>4, <4>5 DEF Mark, Calm
      <4> QED BY <4>4, <4>6 DEF Slack
    <3>5. CASE Left(e) BY <2>3, <3>1, <3>5 DEF Left
    <3> QED BY <1>4, <3>2, <3>3, <3>4, <3>5
  <2> QED BY <2>1, <2>2, <2>3
<1>5. ASSUME NEW e \in LiveSet', ~Clean(e)', e \notin T PROVE Left(e)'
  <2>1. ~NewDerived(e) BY <1>3, <1>5
  <2>2. e \in LiveSet /\ Owner[e] \in open' /\ e \in Deriveds BY <2>1, LiveBack, MadeType DEF LiveSet
  <2>3. CASE Clean(e)
    <3>1. Mark(e) BY <1>5, <2>2, <2>3, CleanStep
    <3>2. Flushed /\ phase' = phase /\ late' = late BY <1>3, <1>5, <3>1 DEF Mark
    <3>3. e \notin S
      <4>1. ~Dropping(e) BY <3>1 DEF Mark, Dropping, Idle
      <4> QED BY <1>2, <1>5, <4>1
    <3>4. ~Calm BY <1>1, <3>1, <3>3 DEF Works, Mark
    <3>5. Flushed' /\ ~Calm' BY <3>2, <3>4 DEF Flushed, Calm
    <3>6. e \in list'[Owner[e]]
      <4>1. list' = [list EXCEPT ![Owner[e]] = @ \cup {e}] BY <3>1 DEF Mark, MarkDirty
      <4>2. Owner[e] \in Scopes BY <2>2 DEF TreeType, LiveSet
      <4> QED BY <4>1, <4>2 DEF ListType
    <3>7. Targets(e)' = Targets(e) BY <3>1 DEF Mark, Targets, Made
    <3>8. Targets(e) \subseteq Queued'
      <4>1. Targets(e) \subseteq Warned' BY <2>2, <2>3, <3>1, MarkWarns
      <4> QED BY <4>1 DEF Warned, Queued
    <3> QED BY <3>5, <3>6, <3>7, <3>8 DEF Left, Slack
  <2>4. CASE e \in S /\ ~Clean(e)
    <3>1. ~Dropping(e) BY <2>4 DEF Dropping, Current
    <3> QED BY <1>2, <1>5, <2>4, <3>1
  <2>5. CASE Left(e) BY <1>5, <2>2, <2>5, LeftKept
  <2> QED BY <1>1, <2>2, <2>3, <2>4, <2>5 DEF Works
<1>6. ASSUME Calm', NEW t \in marking' PROVE t \in T
  <2>1. t \in LiveSet' BY <1>6 DEF RunsOK
  <2>2. Calm \/ (EndPass /\ ~worked) BY <1>6, CalmSteps
  <2>3. CASE EndPass /\ ~worked
    <3>1. marking' = {} BY <2>3 DEF EndPass, Idle
    <3> QED BY <1>6, <3>1
  <2>4. CASE Calm /\ t \in marking
    <3>1. t \in S BY <1>1, <2>4 DEF Works
    <3>2. ~Dropping(t) BY <2>4 DEF Dropping, Idle
    <3> QED BY <1>2, <2>1, <3>1, <3>2
  <2>5. CASE Calm /\ t \notin marking
    <3>1. Finish BY <1>6, <2>5, CalmSteps, Touches DEF Marking, Mark
    <3>2. PICK d : d = Last(stack).node OBVIOUS
    <3>3. stack # <<>> /\ marking = {} /\ marking' = Targets(d) BY <3>1, <3>2 DEF Finish
    <3>4. d \in LiveSet /\ d = stack[Len(stack)].node /\ Len(stack) \in DOMAIN stack BY <3>2, <3>3, TopFacts
    <3>5. ~Current(d) BY <3>4 DEF Coherent, StackOK
    <3>6. ~Clean(d) BY <2>5, <3>3, <3>4, <3>5 DEF CalmFresh, Current, Fresh
    <3>7. d \in S BY <1>1, <2>5, <3>4, <3>6 DEF Works, Left
    <3>8. t \in S BY <1>1, <1>6, <2>5, <3>3, <3>7 DEF Works, Slack
    <3>9. ~Dropping(t) BY <3>3 DEF Dropping, Idle
    <3> QED BY <1>2, <2>1, <3>8, <3>9
  <2> QED BY <2>2, <2>3, <2>4, <2>5
<1>7. T \subseteq LiveSet' /\ \A e \in T : Pending(e)' OBVIOUS
<1> HIDE DEF T
<1>8. PICK U : U = T OBVIOUS
<1>9. Works(U)' BY <1>4, <1>5, <1>6, <1>7, <1>8 DEF Works
<1> QED BY <1>9 DEF Listed

-----------------------------------------------------------------------------
(* Between the signals and the next frame.                                 *)

(* What is clean is right, and so is all that computations have read.      *)
CalmRight ==
  Calm =>
    /\ \A d \in LiveSet : Clean(d) => Right(d)
    /\ \A i \in DOMAIN stack : \A k \in DOMAIN stack[i].read :
         stack[i].read[k] = Anew(Held)[Sources[stack[i].node][k]]

LEMMA AnewPrime == ASSUME NEW h, h = Held' PROVE Anew(Held)' = Anew(h)
BY DEF Anew, Held

LEMMA ValueStays ==
  ASSUME Base, [Next]_vars, ~Mutating, NEW n \in StoreNodes \cup LiveSet, Owner[n] \in open',
         ~(Finish /\ n = Last(stack).node)
  PROVE  value'[n] = value[n]
<1> USE DEF Base, Types, Places
<1>0. n \in Nodes /\ n \in StoreNodes \cup Made BY MadeType DEF LiveSet, Nodes
<1>1. CASE Finish
  <2>1. PICK e : e = Last(stack).node OBVIOUS
  <2>2. value' = [value EXCEPT ![e] = Computed(Last(stack).read)] /\ n # e BY <1>1, <2>1 DEF Finish
  <2> QED BY <1>0, <2>2 DEF CacheType
<1>2. CASE Closing
  <2>1. PICK s \in Scopes : Close(s) BY <1>2 DEF Closing
  <2> QED BY <1>0, <2>1, CloseKeeps
<1>3. CASE UNCHANGED <<value, version>> BY <1>3
<1> QED BY <1>1, <1>2, <1>3, Touches

(* What lives on would be worth the same, unless a store is changed.       *)
LEMMA AnewStays ==
  ASSUME Base, [Next]_vars, ~Mutating, NEW h, h = Held', NEW n \in StoreNodes \cup LiveSet, Owner[n] \in open'
  PROVE  Anew(h)[n] = Anew(Held)[n]
<1> USE DEF Base, Types, Places
<1>1. ASSUME NEW x \in StoreNodes, Owner[x] \in open' PROVE Anew(h)[x] = Anew(Held)[x]
  <2>1. ~(Finish /\ x = Last(stack).node)
    <3>1. ASSUME Finish PROVE Last(stack).node \in Deriveds BY <3>1, TopFacts DEF Finish
    <3> QED BY <1>1, <3>1, NodeAssumption
  <2>2. value'[x] = value[x] BY <1>1, <2>1, ValueStays
  <2>3. h[x] = value'[x] /\ Held[x] = value[x] BY DEF Held
  <2> QED BY <2>2, <2>3, AnewIs
<1> DEFINE differ == {e \in LiveSet : Owner[e] \in open' /\ Anew(h)[e] # Anew(Held)[e]}
           ranks == {rank[e] : e \in differ}
<1>2. differ = {}
  <2> SUFFICES ASSUME differ # {} PROVE FALSE OBVIOUS
  <2>1. \A e \in LiveSet : e \in Deriveds /\ rank[e] \in Nat BY MadeType DEF LiveSet, TreeType
  <2>2. ranks \in SUBSET Nat /\ ranks # {} BY <2>1
  <2>3. PICK r \in ranks : \A q \in ranks : r <= q BY <2>2, Least
  <2>4. PICK e \in differ : rank[e] = r BY <2>3
  <2>5. e \in LiveSet /\ Owner[e] \in open' /\ e \in Deriveds /\ rank[e] \in Nat BY <2>1
  <2>6. ASSUME NEW k \in DOMAIN Sources[e] PROVE Anew(h)[Sources[e][k]] = Anew(Held)[Sources[e][k]]
    <3>1. Owner[Sources[e][k]] \in open' BY <2>5, SourceStays
    <3>2. CASE Sources[e][k] \in StoreNodes BY <1>1, <3>1, <3>2
    <3>3. CASE Sources[e][k] \notin StoreNodes
      <4>1. Sources[e][k] \in LiveSet /\ rank[Sources[e][k]] < rank[e] BY <2>5, <3>3, SourceLive
      <4>2. rank[Sources[e][k]] \in Nat BY <2>1, <4>1
      <4>3. Sources[e][k] \notin differ BY <2>3, <2>4, <2>5, <4>1, <4>2
      <4> QED BY <3>1, <4>1, <4>3
    <3> QED BY <3>2, <3>3
  <2>7. [k \in DOMAIN Sources[e] |-> Anew(h)[Sources[e][k]]] = [k \in DOMAIN Sources[e] |-> Anew(Held)[Sources[e][k]]]
    BY <2>6
  <2>8. Anew(h)[e] = Worth(e, [k \in DOMAIN Sources[e] |-> Anew(h)[Sources[e][k]]]) BY <2>5, AnewIs
  <2>9. Anew(Held)[e] = Worth(e, [k \in DOMAIN Sources[e] |-> Anew(Held)[Sources[e][k]]]) BY <2>5, AnewIs
  <2>10. Anew(h)[e] = Anew(Held)[e] BY <2>7, <2>8, <2>9
  <2> QED BY <2>4, <2>10
<1> QED BY <1>1, <1>2

LEMMA UpTo ==
  ASSUME NEW n \in Nat, NEW c \in 1..n PROVE 1 <= c /\ \A k \in 1..c : k \in 1..n /\ k <= c
OBVIOUS

(* A computation does not see the sources it does not read.                *)
LEMMA WorthAlike ==
  ASSUME NEW d \in Deriveds, NEW f, NEW g,
         f = [k \in DOMAIN Sources[d] |-> f[k]], g = [k \in DOMAIN Sources[d] |-> g[k]],
         \A k \in DOMAIN Sources[d] : k <= Count(d, f) => f[k] = g[k]
  PROVE  Worth(d, f) = Worth(d, g)
<1>1. Len(Sources[d]) \in Nat /\ DOMAIN Sources[d] = 1..Len(Sources[d]) BY SourcesType
<1>2. CASE Len(Sources[d]) = 0
  <2>1. \A k \in DOMAIN Sources[d] : f[k] = g[k] BY <1>1, <1>2
  <2>2. f = g BY <2>1
  <2> QED BY <2>2
<1>3. CASE Len(Sources[d]) # 0
  <2>1. 1 \in DOMAIN Sources[d] BY <1>1, <1>3
  <2>2. DOMAIN f = DOMAIN Sources[d] /\ DOMAIN g = DOMAIN Sources[d] OBVIOUS
  <2>3. f # <<>> /\ g # <<>> BY <2>1, <2>2
  <2>4. Count(d, f) \in 1..Len(Sources[d]) BY <1>1, <1>3 DEF Count
  <2>0. 1 <= Count(d, f) /\ \A k \in 1..Count(d, f) : k \in DOMAIN Sources[d] /\ k <= Count(d, f)
    BY <1>1, <2>4, UpTo, Zenon
  <2>5. f[1] = g[1] BY <2>0, <2>1, Zenon
  <2>6. Count(d, f) = Count(d, g) BY <2>3, <2>5 DEF Count
  <2>7. \A k \in 1..Count(d, f) : f[k] = g[k] BY <2>0, Zenon
  <2>8. [k \in 1..Count(d, f) |-> f[k]] = [k \in 1..Count(d, g) |-> g[k]] BY <2>6, <2>7
  <2> QED BY <2>8 DEF Worth
<1> QED BY <1>2, <1>3

(* When no news is on its way, what is clean is right.                     *)
LEMMA SettledRight ==
  ASSUME Base, AllSettled, Told = {}, \A e \in LiveSet : Clean(e) => Fresh(e), NEW d \in LiveSet, Clean(d)
  PROVE  Right(d)
<1> USE DEF Base, Types, Places
<1> DEFINE wrong == {e \in LiveSet : Clean(e) /\ ~Right(e)}
           ranks == {rank[e] : e \in wrong}
<1> SUFFICES ASSUME wrong # {} PROVE FALSE OBVIOUS
<1>1. \A e \in LiveSet : e \in Deriveds /\ rank[e] \in Nat BY MadeType DEF LiveSet, TreeType
<1>2. ranks \in SUBSET Nat /\ ranks # {} BY <1>1
<1>3. PICK r \in ranks : \A q \in ranks : r <= q BY <1>2, Least
<1>4. PICK e \in wrong : rank[e] = r BY <1>3
<1>5. e \in LiveSet /\ Clean(e) /\ ~Right(e) /\ e \in Deriveds /\ rank[e] \in Nat BY <1>1, <1>4
<1>6. Settled(e) BY <1>5 DEF AllSettled, Current, Fresh
<1> DEFINE all == [k \in DOMAIN Sources[e] |-> Anew(Held)[Sources[e][k]]]
<1>7. ASSUME NEW k \in DOMAIN Sources[e], k <= Count(e, Values(e)) PROVE Values(e)[k] = all[k]
  <2>1. Values(e)[k] = value[Sources[e][k]] BY DEF Values
  <2>2. CASE Sources[e][k] \in StoreNodes BY <2>1, <2>2, AnewIs DEF Held
  <2>3. CASE Sources[e][k] \notin StoreNodes
    <3>1. Sources[e][k] \in LiveSet /\ rank[Sources[e][k]] < rank[e] BY <1>5, <2>3, SourceLive
    <3>2. Clean(Sources[e][k]) BY <1>1, <1>6, <1>7, <3>1 DEF Settled
    <3>3. rank[Sources[e][k]] \in Nat BY <1>1, <3>1
    <3>4. Sources[e][k] \notin wrong BY <1>3, <1>4, <1>5, <3>1, <3>3
    <3> QED BY <2>1, <3>1, <3>2, <3>4 DEF Right
  <2> QED BY <2>2, <2>3
<1>8. Values(e) = [k \in DOMAIN Sources[e] |-> Values(e)[k]] /\ all = [k \in DOMAIN Sources[e] |-> all[k]]
  BY DEF Values
<1>9. Worth(e, Values(e)) = Worth(e, all)
  <2> HIDE DEF all
  <2> QED BY <1>5, <1>7, <1>8, WorthAlike
<1>10. value[e] = Worth(e, Values(e)) BY <1>6 DEF Settled
<1>11. Anew(Held)[e] = Worth(e, all) BY <1>5, AnewIs
<1> QED BY <1>5, <1>9, <1>10, <1>11 DEF Right

LEMMA CalmFreshStep ==
  ASSUME Base, Aware, Pass, CalmFresh, [Next]_vars PROVE CalmFresh'
<1> USE DEF Base, Types, Places
<1> SUFFICES ASSUME Calm', NEW d \in LiveSet', Clean(d)' PROVE Fresh(d)' \/ d \in marking'
  BY DEF CalmFresh
<1>1. Owner[d] \in open' /\ d \in LiveSet BY LiveBack DEF Clean
<1>2. CASE EndPass /\ ~worked
  <2>1. UNCHANGED <<caches, marking>> BY <1>2 DEF EndPass
  <2>2. Clean(d) BY <2>1 DEF Clean
  <2>3. Fresh(d) BY <1>1, <1>2, <2>2, NothingQueued DEF Aware
  <2> QED BY <2>1, <2>3 DEF Fresh, Versions
<1>3. CASE Calm
  <2>1. CASE Finish /\ d = Last(stack).node BY <2>1, FinishFresh
  <2>2. CASE ~(Finish /\ d = Last(stack).node)
    <3>1. Clean(d) BY <1>1, <2>2, CleanStep
    <3>2. CASE Fresh(d) BY <1>1, <3>2, FreshStep, CalmSteps
    <3>3. CASE d \in marking
      <4>1. ASSUME Mark(d) PROVE FALSE BY <4>1 DEF Mark, MarkDirty, Clean
      <4> QED BY <3>3, <4>1, MarkingKept
    <3> QED BY <1>1, <1>3, <3>1, <3>2, <3>3 DEF CalmFresh
  <2> QED BY <2>1, <2>2
<1> QED BY <1>2, <1>3, CalmSteps

(* A computation that ends has read what is right, and so is right.        *)
LEMMA FinishRight ==
  ASSUME Base, CalmRight, Calm, Finish, NEW d, d = Last(stack).node
  PROVE  value'[d] = Anew(Held)[d]
<1> USE DEF Base, Types, Places
<1> DEFINE top == Last(stack)
           all == [k \in DOMAIN Sources[d] |-> Anew(Held)[Sources[d][k]]]
<1>1. /\ stack # <<>> /\ Len(top.read) = Count(d, top.read)
      /\ value' = [value EXCEPT ![d] = Computed(top.read)]
  BY DEF Finish
<1>2. /\ top = stack[Len(stack)] /\ Len(stack) \in DOMAIN stack /\ d \in Deriveds /\ top.read \in Seq(Nat)
      /\ Len(top.read) <= Len(Sources[d])
  BY <1>1, TopFacts
<1>3. \A k \in DOMAIN top.read : k \in DOMAIN Sources[d] BY <1>2, SourcesType
<1>4. \A k \in DOMAIN top.read : top.read[k] = all[k] BY <1>2, <1>3 DEF CalmRight
<1>5. DOMAIN all = DOMAIN Sources[d] /\ (all = <<>> <=> DOMAIN Sources[d] = {}) OBVIOUS
<1>6. Anew(Held)[d] = Worth(d, all) BY <1>2, AnewIs
<1> HIDE DEF all
<1>7. Worth(d, all) = Computed(top.read) BY <1>1, <1>2, <1>4, <1>5, ReadAll
<1>8. value'[d] = Computed(top.read) BY <1>1, <1>2 DEF CacheType, Nodes
<1> QED BY <1>6, <1>7, <1>8

LEMMA ReadRight ==
  ASSUME Base, CalmRight, Calm, [Next]_vars, NEW i \in DOMAIN stack', NEW k \in DOMAIN stack'[i].read
  PROVE  stack'[i].read[k] = Anew(Held)[Sources[stack'[i].node][k]]
<1> USE DEF Base, Types, Places
<1>1. CASE i \in DOMAIN stack /\ stack'[i] = stack[i] BY <1>1 DEF CalmRight
<1>2. CASE Pushes
  <2>1. PICK d \in Deriveds : stack' = Append(stack, [node |-> d, read |-> <<>>])
    BY <1>2 DEF Pushes, Pushing, Compute
  <2> DEFINE new == [node |-> d, read |-> <<>>]
  <2>2. new \in FrameSet BY DEF FrameSet
  <2>3. i \in 1..(Len(stack) + 1) BY <2>1, <2>2, AppendSeq DEF ListType
  <2>4. (i \in DOMAIN stack /\ stack'[i] = stack[i]) \/ stack'[i] = new
    BY <2>1, <2>2, <2>3, AppendSeq DEF ListType
  <2>5. stack'[i] # new
    <3>1. ASSUME stack'[i] = new PROVE stack'[i].read = <<>> BY <3>1
    <3> QED BY <3>1
  <2> QED BY <1>1, <2>4, <2>5
<1>3. CASE Takes
  <2>1. PICK x \in Nodes : Taking(x) BY <1>3 DEF Takes
  <2> DEFINE top == Last(stack)
             new == [node |-> top.node, read |-> Append(top.read, value[x])]
  <2>2. /\ stack # <<>> /\ marking = {} /\ stack' = [stack EXCEPT ![Len(stack)] = new]
        /\ Due(x) /\ (x \in StoreNodes \/ Current(x))
    BY <2>1 DEF Taking
  <2>3. /\ top.node \in LiveSet /\ top.node \in Deriveds /\ top.read \in Seq(Nat) /\ top = stack[Len(stack)]
        /\ Len(stack) \in DOMAIN stack
    BY <2>2, TopFacts
  <2>4. value[x] \in Nat BY DEF CacheType
  <2>5. new.node = top.node /\ new.read = Append(top.read, value[x]) OBVIOUS
  <2> HIDE DEF new
  <2>6. i \in DOMAIN stack /\ stack'[i] = IF i = Len(stack) THEN new ELSE stack[i]
    BY <2>2 DEF ListType
  <2>7. CASE i = Len(stack)
    <3>1. stack'[i].node = top.node /\ stack'[i].read = Append(top.read, value[x]) BY <2>5, <2>6, <2>7
    <3>2. k \in 1..(Len(top.read) + 1) BY <2>3, <2>4, <3>1, AppendSeq
    <3>3. \/ k \in DOMAIN top.read /\ stack'[i].read[k] = top.read[k]
          \/ k = Len(top.read) + 1 /\ stack'[i].read[k] = value[x]
      BY <2>3, <2>4, <3>1, <3>2, AppendSeq
    <3>4. CASE k \in DOMAIN top.read /\ stack'[i].read[k] = top.read[k]
      BY <2>3, <3>1, <3>4 DEF CalmRight
    <3>5. CASE k = Len(top.read) + 1 /\ stack'[i].read[k] = value[x]
      <4>1. k \in DOMAIN Sources[top.node] /\ Sources[top.node][k] = x BY <2>2, <3>5 DEF Due
      <4>2. value[x] = Anew(Held)[x]
        <5>1. CASE x \in StoreNodes BY <5>1, AnewIs DEF Held
        <5>2. CASE x \notin StoreNodes
          <6>1. x \in LiveSet /\ Clean(x) BY <2>2, <2>3, <4>1, <5>2, SourceLive DEF Current
          <6> QED BY <6>1 DEF CalmRight, Right
        <5> QED BY <5>1, <5>2
      <4> QED BY <3>1, <3>5, <4>1, <4>2
    <3> QED BY <3>3, <3>4, <3>5
  <2> QED BY <1>1, <2>6, <2>7
<1>4. CASE Finish
  <2>1. stack # <<>> /\ stack' = Front(stack) BY <1>4 DEF Finish
  <2>2. i \in DOMAIN stack /\ stack'[i] = stack[i] BY <2>1, FrontSeq DEF ListType
  <2> QED BY <1>1, <2>2
<1>5. CASE UNCHANGED stack BY <1>1, <1>5
<1> QED BY <1>2, <1>3, <1>4, <1>5, Moves

LEMMA CalmRightStep ==
  ASSUME Base, Base', Coherent, Aware, Pass, CalmRight, [Next]_vars PROVE CalmRight'
<1> USE DEF Base, Types, Places
<1> SUFFICES ASSUME Calm' PROVE /\ \A d \in LiveSet' : Clean(d)' => Right(d)'
                                /\ \A i \in DOMAIN stack' : \A k \in DOMAIN stack'[i].read :
                                     stack'[i].read[k] = Anew(Held)'[Sources[stack'[i].node][k]]
  BY DEF CalmRight
<1>1. PICK h : h = Held' OBVIOUS
<1>2. Anew(Held)' = Anew(h) BY <1>1, AnewPrime
<1>3. ~Mutating BY CalmSteps
<1>4. CASE EndPass /\ ~worked
  <2>1. UNCHANGED <<caches, stack, registry>> BY <1>4 DEF EndPass
  <2>2. h = Held BY <1>1, <2>1 DEF Held
  <2>3. Told = {} /\ stack' = <<>> /\ \A e \in LiveSet : Clean(e) => Fresh(e)
    BY <1>4, <2>1, NothingQueued, ToldIs DEF Aware
  <2>4. \A d \in LiveSet : Clean(d) => Right(d) BY <2>3, SettledRight DEF Coherent
  <2>5. ASSUME NEW d \in LiveSet', Clean(d)' PROVE value'[d] = Anew(h)[d]
    <3>1. d \in LiveSet /\ Clean(d) BY <2>1, <2>5 DEF LiveSet, Made, Clean
    <3> QED BY <2>1, <2>2, <2>4, <3>1 DEF Right
  <2>6. DOMAIN stack' = {} BY <2>3
  <2> QED BY <1>2, <2>5, <2>6 DEF Right
<1>5. CASE Calm
  <2>1. ASSUME NEW d \in LiveSet', Clean(d)' PROVE value'[d] = Anew(h)[d]
    <3>1. Owner[d] \in open' /\ d \in LiveSet BY <2>1, LiveBack DEF Clean
    <3>2. Anew(h)[d] = Anew(Held)[d] BY <1>1, <1>3, <3>1, AnewStays
    <3>3. CASE Finish /\ d = Last(stack).node BY <1>5, <3>2, <3>3, FinishRight
    <3>4. CASE ~(Finish /\ d = Last(stack).node)
      <4>1. Clean(d) BY <2>1, <3>1, <3>4, CleanStep
      <4>2. value'[d] = value[d] BY <1>3, <3>1, <3>4, ValueStays
      <4> QED BY <1>5, <3>1, <3>2, <4>1, <4>2 DEF CalmRight, Right
    <3> QED BY <3>3, <3>4
  <2>2. ASSUME NEW i \in DOMAIN stack', NEW k \in DOMAIN stack'[i].read
        PROVE  stack'[i].read[k] = Anew(h)[Sources[stack'[i].node][k]]
    <3>1. PICK d : d = stack'[i].node OBVIOUS
    <3>2. d \in LiveSet' /\ Len(stack'[i].read) <= Len(Sources[d]) BY <2>2, <3>1 DEF RunsOK
    <3>3. stack'[i] \in FrameSet BY <2>2 DEF ListType
    <3>4. d \in Deriveds /\ stack'[i].read \in Seq(Nat) BY <3>1, <3>3 DEF FrameSet
    <3>5. k \in DOMAIN Sources[d] BY <2>2, <3>2, <3>4, SourcesType
    <3>6. ~Creating
      <4>1. ASSUME Creating PROVE stack' = <<>> BY <4>1 DEF Creating, NewDerived, AppActs, Idle
      <4> QED BY <2>2, <4>1
    <3>7. d \in LiveSet /\ Owner[d] \in open' BY <3>2, <3>4, <3>6, LiveBack DEF Creating
    <3>8. Sources[d][k] \in StoreNodes \cup LiveSet /\ Owner[Sources[d][k]] \in open'
      BY <3>5, <3>7, SourceLive, SourceStays
    <3>9. Anew(h)[Sources[d][k]] = Anew(Held)[Sources[d][k]] BY <1>1, <1>3, <3>8, AnewStays
    <3>10. stack'[i].read[k] = Anew(Held)[Sources[d][k]] BY <1>5, <2>2, <3>1, ReadRight
    <3> QED BY <3>1, <3>9, <3>10
  <2> QED BY <1>2, <2>1, <2>2 DEF Right
<1> QED BY <1>4, <1>5, CalmSteps

(* What is known of the news: where it is, and what it has reached.        *)
Heard == Aware /\ Pass /\ WorkHere /\ CalmFresh /\ CalmRight /\ Listed

LEMMA HeardInit == ASSUME Init PROVE Heard
<1> USE DEF Init
<1>1. LiveSet = {} /\ Made = {} BY DEF LiveSet, Made, Range
<1>2. Aware /\ Pass /\ WorkHere /\ ~Calm BY <1>1 DEF Aware, Pass, WorkHere, Calm
<1>3. CalmFresh /\ CalmRight BY <1>2 DEF CalmFresh, CalmRight
<1>4. Works({}) BY <1>1, <1>2 DEF Works
<1> QED BY <1>2, <1>3, <1>4 DEF Heard, Listed

LEMMA HeardAlways == Spec => [](Base /\ Coherent /\ Heard)
<1>1. Init => Heard BY HeardInit
<1>2. Base /\ Base' /\ Coherent /\ Heard /\ [Next]_vars => Heard'
  BY AwareStep, PassStep, WorkStep, CalmFreshStep, CalmRightStep, ListedStep DEF Heard
<1> QED BY <1>1, <1>2, CoherentAlways, PTL DEF Spec

LEMMA HeardStable == ASSUME Base, Heard PROVE ProjectionStable
<1> SUFFICES ASSUME phase = "project", ~late, NEW d \in Made, Live(d) PROVE Current(d) /\ Right(d)
  BY DEF ProjectionStable
<1>1. Calm /\ d \in LiveSet BY DEF Calm, Live, LiveSet
<1>2. PICK S : Works(S) BY DEF Heard, Listed
<1>3. S = {} BY <1>2 DEF Works, Pending
<1>4. marking = {} /\ Clean(d) BY <1>1, <1>2, <1>3 DEF Works, Left
<1>5. Fresh(d) /\ Right(d) BY <1>1, <1>4 DEF Heard, CalmFresh, CalmRight
<1> QED BY <1>4, <1>5 DEF Current, Fresh

LEMMA HeardListed == ASSUME Base, Heard PROVE DirtyIsListed
<1> SUFFICES ASSUME phase = "layout", ~late, NEW d \in Made, Live(d), ~Right(d)
             PROVE  d \in dirty /\ d \in list[Owner[d]]
  BY DEF DirtyIsListed
<1>1. Calm /\ d \in LiveSet BY DEF Calm, Live, LiveSet
<1>2. ~Clean(d) BY <1>1 DEF Heard, CalmRight
<1>3. PICK S : Works(S) BY DEF Heard, Listed
<1>4. d \in S BY <1>1, <1>2, <1>3 DEF Works, Left
<1>5. d \in list[Owner[d]] BY <1>3, <1>4 DEF Works, Pending
<1>6. d \in dirty BY <1>2 DEF Base, Types, CacheType, Clean
<1> QED BY <1>5, <1>6

(* For every graph, scope tree and application: in projection every        *)
(* derived is up to date, so no read computes, unless a store changed      *)
(* after the signal phase.                                                 *)
THEOREM StoresProjectionStable == Spec => []ProjectionStable
<1>1. Base /\ Heard => ProjectionStable BY HeardStable
<1> QED BY <1>1, HeardAlways, PTL

(* For every graph, scope tree and application: when the signal phase is   *)
(* over, every derived that is out of date is dirty and in the list of the *)
(* next flush.                                                             *)
THEOREM StoresDirtyIsListed == Spec => []DirtyIsListed
<1>1. Base /\ Heard => DirtyIsListed BY HeardListed
<1> QED BY <1>1, HeardAlways, PTL

-----------------------------------------------------------------------------
(* The binder.  The notifications that are still to be delivered lead from *)
(* one state of the collection to the next, and the last is what it holds  *)
(* now; the binder mirrors the first, but for what a later event of the    *)
(* collection is going to change.                                          *)

CollNote(note) == note.node = Coll /\ note.event # Skipped

Link(note, a, b) ==
  IF CollNote(note)
  THEN \E op \in ItemMutations : b = Mutated(a, op) /\ note.event = MutationEvent(a, op)
  ELSE b = a

Chain(c, f, n) ==
  /\ \A k \in 1..(n + 1) : Formed(c[k])
  /\ \A k \in 1..n : Link(f[k], c[k], c[k + 1])

(* A notification that concerns an item.                                   *)
Stirs(note, id) ==
  /\ note.node = Coll
  /\ \/ note.event.kind = "replace"
     \/ note.event.kind \in {"insert", "remove"} /\ note.event.id = id

Mirrors(b, skew, c, f, n) ==
  b.on =>
    /\ ~skew => Abreast(b, c[1])
    /\ \A id \in ItemIDs :
         \/ id \in b.children <=> Has(c[1], id)
         \/ \E k \in 1..n : Stirs(f[k], id)

LEMMA Steadfast ==
  ASSUME NEW n \in Nat, NEW f, \A k \in 1..n : f[k] = f[k + 1] PROVE f[1] = f[n + 1]
<1> DEFINE K == {i \in Nat : i <= n => f[i + 1] = f[1]}
<1>1. 0 \in K OBVIOUS
<1>2. ASSUME NEW i \in Nat, i \in K PROVE i + 1 \in K
  <2>1. CASE ~(i + 1 <= n) BY <2>1
  <2>2. CASE i + 1 <= n
    <3>1. i + 1 \in 1..n /\ i <= n BY <2>2
    <3>2. f[i + 1] = f[(i + 1) + 1] BY <3>1
    <3> QED BY <1>2, <3>1, <3>2
  <2> QED BY <2>1, <2>2
<1>3. n \in K
  <2> HIDE DEF K
  <2> QED BY <1>1, <1>2, Induction
<1> QED BY <1>3

(* An event that does not concern an item does not move it in or out.      *)
LEMMA LinkMember ==
  ASSUME NEW a, NEW b, Formed(a), NEW note, Link(note, a, b), NEW id \in ItemIDs, ~Stirs(note, id)
  PROVE  Has(a, id) <=> Has(b, id)
<1>1. CASE ~CollNote(note) BY <1>1 DEF Link
<1>2. CASE CollNote(note)
  <2>1. PICK op \in ItemMutations : b = Mutated(a, op) /\ note.event = MutationEvent(a, op)
    BY <1>2 DEF Link
  <2>2. note.node = Coll BY <1>2 DEF CollNote
  <2>3. CASE op.kind = "insert"
    <3>1. op.arg \in ItemIDs /\ b = InsertItem(a, op.arg) /\ note.event = InsertEvent(a, op.arg)
      BY <2>1, <2>3 DEF ItemMutations, Mutated, MutationEvent
    <3>2. CASE Has(a, op.arg) BY <3>1, <3>2 DEF InsertItem
    <3>3. CASE ~Has(a, op.arg)
      <4>1. note.event.kind = "insert" /\ note.event.id = op.arg BY <3>1, <3>3 DEF InsertEvent, Noted
      <4>2. op.arg # id BY <2>2, <4>1 DEF Stirs
      <4>3. DOMAIN b.index = DOMAIN a.index \cup {op.arg} BY <3>1, <3>3 DEF InsertItem
      <4> QED BY <4>2, <4>3 DEF Has
    <3> QED BY <3>2, <3>3
  <2>4. CASE op.kind = "remove"
    <3>1. op.arg \in ItemIDs /\ b = RemoveItem(a, op.arg) /\ note.event = RemoveEvent(a, op.arg)
      BY <2>1, <2>4 DEF ItemMutations, Mutated, MutationEvent
    <3>2. CASE ~Has(a, op.arg) BY <3>1, <3>2 DEF RemoveItem
    <3>3. CASE Has(a, op.arg)
      <4>1. note.event.kind = "remove" /\ note.event.id = op.arg BY <3>1, <3>3 DEF RemoveEvent, Noted
      <4>2. op.arg # id BY <2>2, <4>1 DEF Stirs
      <4>3. DOMAIN b.index = DOMAIN a.index \ {op.arg} BY <3>1, <3>3, RemoveDomain
      <4> QED BY <4>2, <4>3 DEF Has
    <3> QED BY <3>2, <3>3
  <2>5. CASE op.kind = "replace"
    <3>1. note.event.kind = "replace" BY <2>1, <2>5 DEF MutationEvent, Noted
    <3> QED BY <2>2, <3>1 DEF Stirs
  <2>6. CASE op.kind \notin {"insert", "remove", "replace"} BY <2>1, <2>6 DEF Mutated
  <2> QED BY <2>3, <2>4, <2>5, <2>6
<1> QED BY <1>1, <1>2

LEMMA ReconcileAbreast ==
  ASSUME NEW x, Formed(x) PROVE Abreast(Reconcile(x.items), x)
<1>1. DOMAIN x.index = {x.items[k] : k \in DOMAIN x.items} BY DEF Formed
<1>2. Reconcile(x.items) = [on |-> TRUE, children |-> {x.items[k] : k \in DOMAIN x.items}, order |-> x.items]
  BY DEF Reconcile
<1> QED BY <1>1, <1>2, AbreastRecord

(* A binder that takes over the collection as it is now mirrors the start  *)
(* of the chain, but for what is on its way.                               *)
LEMMA Reconciled ==
  ASSUME NEW n \in Nat, NEW c, NEW f, Chain(c, f, n), NEW x, x = c[n + 1],
         NEW skew, skew = (\E k \in 1..n : CollNote(f[k]))
  PROVE  Mirrors(Reconcile(x.items), skew, c, f, n)
<1>1. Formed(x) BY DEF Chain
<1>2. Abreast(Reconcile(x.items), x) BY <1>1, ReconcileAbreast
<1>3. ASSUME ~skew PROVE c[1] = x
  <2>1. \A k \in 1..n : c[k] = c[k + 1] BY <1>3 DEF Chain, Link
  <2> QED BY <2>1, Steadfast
<1>4. ASSUME NEW id \in ItemIDs, \A k \in 1..n : ~Stirs(f[k], id) PROVE Has(x, id) <=> Has(c[1], id)
  <2> DEFINE h == [k \in 1..(n + 1) |-> Has(c[k], id)]
  <2>1. ASSUME NEW k \in 1..n PROVE h[k] = h[k + 1]
    <3>1. k \in 1..(n + 1) /\ k + 1 \in 1..(n + 1) OBVIOUS
    <3>2. Formed(c[k]) /\ Link(f[k], c[k], c[k + 1]) BY <3>1 DEF Chain
    <3>3. Has(c[k], id) <=> Has(c[k + 1], id) BY <1>4, <3>2, LinkMember
    <3> QED BY <3>1, <3>3 DEF Has
  <2>2. 1 \in 1..(n + 1) /\ n + 1 \in 1..(n + 1) OBVIOUS
  <2>3. h[1] = Has(c[1], id) /\ h[n + 1] = Has(c[n + 1], id) BY <2>2
  <2> HIDE DEF h
  <2>4. h[1] = h[n + 1] BY <2>1, Steadfast
  <2> QED BY <2>3, <2>4
<1>5. \A id \in ItemIDs : id \in Reconcile(x.items).children <=> Has(x, id) BY <1>2 DEF Abreast, Has
<1> QED BY <1>2, <1>3, <1>4, <1>5 DEF Mirrors

(* One more notification at the end.                                       *)
LEMMA ChainAppend ==
  ASSUME NEW n \in Nat, NEW c, NEW f, Chain(c, f, n), NEW g, \A k \in 1..n : g[k] = f[k],
         NEW y, Formed(y), Link(g[n + 1], c[n + 1], y), NEW b, NEW skew, Mirrors(b, skew, c, f, n)
  PROVE  \E d : Chain(d, g, n + 1) /\ d[n + 2] = y /\ Mirrors(b, skew, d, g, n + 1)
<1> DEFINE d == [k \in 1..(n + 2) |-> IF k = n + 2 THEN y ELSE c[k]]
<1>1. d[n + 2] = y /\ \A k \in 1..(n + 1) : d[k] = c[k] OBVIOUS
<1>2. \A k \in 1..(n + 2) : k \in 1..(n + 1) \/ k = n + 2 OBVIOUS
<1> HIDE DEF d
<1>3. \A k \in 1..((n + 1) + 1) : Formed(d[k]) BY <1>1, <1>2 DEF Chain
<1>4. ASSUME NEW k \in 1..(n + 1) PROVE Link(g[k], d[k], d[k + 1])
  <2>1. CASE k \in 1..n
    <3>1. d[k] = c[k] /\ d[k + 1] = c[k + 1] BY <1>1, <2>1
    <3> QED BY <2>1, <3>1 DEF Chain
  <2>2. CASE k = n + 1
    <3>1. d[k] = c[n + 1] /\ d[k + 1] = y BY <1>1, <2>2
    <3> QED BY <2>2, <3>1
  <2> QED BY <2>1, <2>2
<1>5. Chain(d, g, n + 1) BY <1>3, <1>4 DEF Chain
<1>6. Mirrors(b, skew, d, g, n + 1)
  <2>1. d[1] = c[1] BY <1>1
  <2>2. \A k \in 1..n : k \in 1..(n + 1) /\ g[k] = f[k] OBVIOUS
  <2>3. \A id \in ItemIDs : (\E k \in 1..n : Stirs(f[k], id)) => \E k \in 1..(n + 1) : Stirs(g[k], id)
    BY <2>2
  <2> QED BY <2>1, <2>3 DEF Mirrors
<1> QED BY <1>1, <1>5, <1>6

(* Notifications of another scope in front.                                *)
LEMMA ChainPrefix ==
  ASSUME NEW n \in Nat, NEW p \in Nat, NEW c, NEW f, Chain(c, f, n), NEW g,
         \A k \in 1..p : g[k].node # Coll, \A k \in 1..n : g[k + p] = f[k],
         NEW b, NEW skew, Mirrors(b, skew, c, f, n)
  PROVE  \E d : Chain(d, g, p + n) /\ d[p + n + 1] = c[n + 1] /\ Mirrors(b, skew, d, g, p + n)
<1> DEFINE d == [k \in 1..(p + n + 1) |-> IF k <= p THEN c[1] ELSE c[k - p]]
<1>1. \A k \in 1..(p + n + 1) : d[k] = IF k <= p THEN c[1] ELSE c[k - p] OBVIOUS
<1>2. p + n + 1 \in 1..(p + n + 1) /\ 1 \in 1..(p + n + 1) /\ 1 \in 1..(n + 1) /\ ~(p + n + 1 <= p)
      /\ (p + n + 1) - p = n + 1
  OBVIOUS
<1> HIDE DEF d
<1>3. d[p + n + 1] = c[n + 1] /\ d[1] = c[1]
  <2>1. d[p + n + 1] = c[n + 1] BY <1>1, <1>2
  <2>2. CASE 1 <= p BY <1>1, <1>2, <2>2
  <2>3. CASE ~(1 <= p)
    <3>1. 1 - p = 1 BY <2>3
    <3> QED BY <1>1, <1>2, <2>1, <2>3, <3>1
  <2> QED BY <2>1, <2>2, <2>3
<1>4. ASSUME NEW k \in 1..((p + n) + 1) PROVE Formed(d[k])
  <2>1. k \in 1..(p + n + 1) OBVIOUS
  <2>2. CASE k <= p BY <1>1, <1>2, <2>1, <2>2 DEF Chain
  <2>3. CASE ~(k <= p)
    <3>1. k - p \in 1..(n + 1) BY <2>1, <2>3
    <3> QED BY <1>1, <2>1, <2>3, <3>1 DEF Chain
  <2> QED BY <2>2, <2>3
<1>5. ASSUME NEW k \in 1..(p + n) PROVE Link(g[k], d[k], d[k + 1])
  <2>1. k \in 1..(p + n + 1) /\ k + 1 \in 1..(p + n + 1) OBVIOUS
  <2>2. CASE k <= p
    <3>1. d[k] = c[1] BY <1>1, <2>1, <2>2
    <3>2. d[k + 1] = c[1]
      <4>1. CASE k + 1 <= p BY <1>1, <2>1, <4>1
      <4>2. CASE ~(k + 1 <= p)
        <5>1. (k + 1) - p = 1 BY <2>2, <4>2
        <5> QED BY <1>1, <2>1, <4>2, <5>1
      <4> QED BY <4>1, <4>2
    <3>3. ~CollNote(g[k]) BY <2>2 DEF CollNote
    <3> QED BY <3>1, <3>2, <3>3 DEF Link
  <2>3. CASE ~(k <= p)
    <3>1. k - p \in 1..n /\ (k - p) + p = k /\ ~(k + 1 <= p) /\ (k + 1) - p = (k - p) + 1 BY <2>3
    <3>2. d[k] = c[k - p] /\ d[k + 1] = c[(k - p) + 1] BY <1>1, <2>1, <2>3, <3>1
    <3>3. g[k] = f[k - p] BY <3>1
    <3> QED BY <3>1, <3>2, <3>3 DEF Chain
  <2> QED BY <2>2, <2>3
<1>6. Chain(d, g, p + n) BY <1>4, <1>5 DEF Chain
<1>7. Mirrors(b, skew, d, g, p + n)
  <2>1. ASSUME NEW id \in ItemIDs, NEW k \in 1..n, Stirs(f[k], id) PROVE \E j \in 1..(p + n) : Stirs(g[j], id)
    <3>1. k + p \in 1..(p + n) /\ g[k + p] = f[k] OBVIOUS
    <3> QED BY <2>1, <3>1
  <2> QED BY <1>3, <2>1 DEF Mirrors
<1> QED BY <1>3, <1>6, <1>7

(* The first notification is taken away.                                   *)
Rest(c, n) == [k \in 1..n |-> c[k + 1]]
IsRest(g, f, n) == \A k \in 1..(n - 1) : g[k] = f[k + 1]

LEMMA ChainTail ==
  ASSUME NEW n \in Nat \ {0}, NEW c, NEW f, Chain(c, f, n), NEW g, IsRest(g, f, n)
  PROVE  Chain(Rest(c, n), g, n - 1) /\ Rest(c, n)[n] = c[n + 1] /\ Rest(c, n)[1] = c[2]
<1> DEFINE d == Rest(c, n)
<1>1. \A k \in 1..n : d[k] = c[k + 1] BY DEF Rest
<1>2. d[n] = c[n + 1] /\ d[1] = c[2]
  <2>1. n \in 1..n /\ 1 \in 1..n /\ 1 + 1 = 2 OBVIOUS
  <2> HIDE DEF d
  <2> QED BY <1>1, <2>1
<1> HIDE DEF d
<1>3. \A k \in 1..((n - 1) + 1) : Formed(d[k])
  <2>1. \A k \in 1..((n - 1) + 1) : k \in 1..n /\ k + 1 \in 1..(n + 1) OBVIOUS
  <2> QED BY <1>1, <2>1 DEF Chain
<1>4. ASSUME NEW k \in 1..(n - 1) PROVE Link(g[k], d[k], d[k + 1])
  <2>1. k \in 1..n /\ k + 1 \in 1..n OBVIOUS
  <2>2. d[k] = c[k + 1] /\ d[k + 1] = c[(k + 1) + 1] /\ g[k] = f[k + 1] BY <1>1, <2>1 DEF IsRest
  <2> QED BY <2>1, <2>2 DEF Chain
<1> QED BY <1>2, <1>3, <1>4 DEF Chain, d

(* What stirs an item does so still when the first is gone, unless it was  *)
(* the first.                                                              *)
LEMMA StirsLater ==
  ASSUME NEW n \in Nat \ {0}, NEW f, NEW g, \A k \in 1..(n - 1) : g[k] = f[k + 1], NEW id,
         \E k \in 1..n : Stirs(f[k], id), ~Stirs(f[1], id)
  PROVE  \E k \in 1..(n - 1) : Stirs(g[k], id)
<1>1. PICK k \in 1..n : Stirs(f[k], id) OBVIOUS
<1>2. k # 1 BY <1>1
<1>3. k - 1 \in 1..(n - 1) /\ (k - 1) + 1 = k BY <1>2
<1>4. g[k - 1] = f[k] BY <1>3
<1> QED BY <1>1, <1>3, <1>4

(* A binder that is not abreast has, after an event that is not a replace, *)
(* the event's item if and only if the collection had it then.             *)
LEMMA ApplyMember ==
  ASSUME NEW a, Formed(a), NEW op \in ItemMutations, NEW event, event = MutationEvent(a, op),
         event.kind # "replace", NEW b, Upright(b), b.on, NEW items, NEW id \in ItemIDs,
         \/ id \in b.children <=> Has(a, id)
         \/ event.kind \in {"insert", "remove"} /\ event.id = id
  PROVE  id \in BinderApply(b, event, items).children <=> Has(Mutated(a, op), id)
<1>1. CASE op.kind = "insert"
  <2>1. op.arg \in ItemIDs /\ Mutated(a, op) = InsertItem(a, op.arg) /\ event = InsertEvent(a, op.arg)
    BY <1>1 DEF ItemMutations, Mutated, MutationEvent
  <2>2. CASE Has(a, op.arg)
    <3>1. event.kind = "update" BY <2>1, <2>2 DEF InsertEvent, Noted
    <3>2. BinderApply(b, event, items) = b BY <3>1 DEF BinderApply
    <3> QED BY <2>1, <2>2, <3>1, <3>2 DEF InsertItem
  <2>3. CASE ~Has(a, op.arg)
    <3>1. event.kind = "insert" /\ event.id = op.arg BY <2>1, <2>3 DEF InsertEvent, Noted
    <3>2. BinderApply(b, event, items) = InsertChild(b, op.arg, event.at) BY <3>1 DEF BinderApply
    <3>3. InsertChild(b, op.arg, event.at).children = b.children \cup {op.arg} BY DEF InsertChild
    <3>4. DOMAIN InsertItem(a, op.arg).index = DOMAIN a.index \cup {op.arg} BY <2>3 DEF InsertItem
    <3> QED BY <2>1, <3>1, <3>2, <3>3, <3>4 DEF Has
  <2> QED BY <2>2, <2>3
<1>2. CASE op.kind = "remove"
  <2>1. op.arg \in ItemIDs /\ Mutated(a, op) = RemoveItem(a, op.arg) /\ event = RemoveEvent(a, op.arg)
    BY <1>2 DEF ItemMutations, Mutated, MutationEvent
  <2>2. CASE ~Has(a, op.arg)
    <3>1. event.kind = "skipped" BY <2>1, <2>2 DEF RemoveEvent, Noted, Skipped
    <3>2. BinderApply(b, event, items) = b BY <3>1 DEF BinderApply
    <3> QED BY <2>1, <2>2, <3>1, <3>2 DEF RemoveItem
  <2>3. CASE Has(a, op.arg)
    <3>1. event.kind = "remove" /\ event.id = op.arg BY <2>1, <2>3 DEF RemoveEvent, Noted
    <3>2. BinderApply(b, event, items) = RemoveChild(b, op.arg) BY <3>1 DEF BinderApply
    <3>3. RemoveChild(b, op.arg).children = b.children \ {op.arg} BY DEF RemoveChild
    <3>4. DOMAIN RemoveItem(a, op.arg).index = DOMAIN a.index \ {op.arg} BY <2>1, <2>3, RemoveDomain
    <3> QED BY <2>1, <3>1, <3>2, <3>3, <3>4 DEF Has
  <2> QED BY <2>2, <2>3
<1>3. CASE op.kind = "update"
  <2>1. Mutated(a, op) = a /\ event = UpdateEvent(a, op.arg) BY <1>3 DEF Mutated, MutationEvent
  <2>2. event.kind \in {"update", "skipped"} BY <2>1 DEF UpdateEvent, Noted, Skipped
  <2>3. BinderApply(b, event, items) = b BY <2>2 DEF BinderApply
  <2> QED BY <2>1, <2>2, <2>3
<1>4. CASE op.kind = "replace" BY <1>4 DEF MutationEvent, Noted
<1> QED BY <1>1, <1>2, <1>3, <1>4 DEF ItemMutations

(* What the collection's scope has still to deliver, and what it leads to. *)
Home == Owner[Coll]
Feed == batch \o queue[Home]

(* The notifications f lead from what the binder b mirrors to x.           *)
Leads(f, x, b, skew) ==
  \E c : Chain(c, f, Len(f)) /\ c[Len(f) + 1] = x /\ Mirrors(b, skew, c, f, Len(f))

Linked == Home \in open => Leads(Feed, coll, binder, ahead)

(* After the signals no event of the collection is left.                   *)
Drained == Calm /\ Home \in open => ~Undelivered(Feed)

LEMMA HomeScope == Home \in Scopes
BY NodeAssumption DEF Home, Nodes, StoreNodes

LEMMA ConcatSeq ==
  ASSUME NEW a \in Seq(NoteSet), NEW q \in Seq(NoteSet)
  PROVE  /\ a \o q \in Seq(NoteSet) /\ Len(a \o q) = Len(a) + Len(q)
         /\ Len(a) \in Nat /\ Len(q) \in Nat /\ Len(a \o q) \in Nat
         /\ DOMAIN (a \o q) = 1..Len(a \o q)
         /\ \A k \in 1..Len(a) : (a \o q)[k] = a[k]
         /\ \A k \in 1..Len(q) : (a \o q)[k + Len(a)] = q[k]
<1> DEFINE t == a \o q
<1>1. t \in Seq(NoteSet) /\ Len(t) = Len(a) + Len(q) BY ConcatProperties
<1>2. \A i \in 1..(Len(a) + Len(q)) : t[i] = IF i <= Len(a) THEN a[i] ELSE q[i - Len(a)] BY ConcatProperties
<1> HIDE DEF t
<1>3. Len(a) \in Nat /\ Len(q) \in Nat OBVIOUS
<1>4. DOMAIN t = 1..Len(t) BY <1>1
<1>5. \A k \in 1..Len(a) : t[k] = a[k]
  <2>1. \A k \in 1..Len(a) : k \in 1..(Len(a) + Len(q)) /\ k <= Len(a) BY <1>3
  <2> QED BY <1>2, <2>1
<1>6. \A k \in 1..Len(q) : t[k + Len(a)] = q[k]
  <2>1. \A k \in 1..Len(q) : k + Len(a) \in 1..(Len(a) + Len(q)) /\ ~(k + Len(a) <= Len(a))
                             /\ (k + Len(a)) - Len(a) = k
    BY <1>3
  <2> QED BY <1>2, <2>1
<1> QED BY <1>1, <1>3, <1>4, <1>5, <1>6 DEF t

LEMMA FeedType ==
  ASSUME ListType
  PROVE  /\ batch \in Seq(NoteSet) /\ queue[Home] \in Seq(NoteSet)
         /\ Feed \in Seq(NoteSet) /\ Len(Feed) \in Nat /\ DOMAIN Feed = 1..Len(Feed)
<1>1. batch \in Seq(NoteSet) /\ queue[Home] \in Seq(NoteSet) BY HomeScope DEF ListType
<1> QED BY <1>1, ConcatSeq DEF Feed

LEMMA FeedUndelivered ==
  ASSUME ListType PROVE Undelivered(Feed) <=> \E k \in 1..Len(Feed) : CollNote(Feed[k])
BY FeedType DEF Undelivered, CollNote

(* A position of the feed is one of the batch or one of the queue.         *)
LEMMA FeedAt ==
  ASSUME NEW a \in Seq(NoteSet), NEW q \in Seq(NoteSet), NEW k \in 1..Len(a \o q)
  PROVE  \/ k \in 1..Len(a)
         \/ k - Len(a) \in 1..Len(q) /\ (k - Len(a)) + Len(a) = k
BY ConcatSeq

LEMMA SendFeed ==
  ASSUME ListType, NEW note, Sends(note), UNCHANGED batch
  PROVE  /\ Owner[note.node] # Home => Feed' = Feed
         /\ Owner[note.node] = Home =>
              /\ Len(Feed') = Len(Feed) + 1 /\ Feed'[Len(Feed) + 1] = note
              /\ \A k \in 1..Len(Feed) : Feed'[k] = Feed[k]
<1> DEFINE a == batch
           q == queue[Home]
           p == Append(q, note)
<1>1. a \in Seq(NoteSet) /\ q \in Seq(NoteSet) /\ note \in NoteSet BY FeedType DEF Sends
<1>2. ASSUME Owner[note.node] # Home PROVE Feed' = Feed
  <2>1. queue'[Home] = queue[Home] BY <1>2, SendQueue, HomeScope
  <2> QED BY <2>1 DEF Feed
<1>3. ASSUME Owner[note.node] = Home
      PROVE  /\ Len(Feed') = Len(Feed) + 1 /\ Feed'[Len(Feed) + 1] = note
             /\ \A k \in 1..Len(Feed) : Feed'[k] = Feed[k]
  <2>1. Feed' = a \o p BY <1>3, SendQueue DEF Feed
  <2>2. Feed = a \o q BY DEF Feed
  <2>3. /\ p \in Seq(NoteSet) /\ Len(p) = Len(q) + 1 /\ p[Len(q) + 1] = note
        /\ \A k \in 1..Len(q) : p[k] = q[k]
    BY <1>1, AppendSeq
  <2> HIDE DEF a, q, p
  <2>4. /\ Len(a \o p) = Len(a) + Len(p) /\ Len(a \o q) = Len(a) + Len(q) /\ Len(a) \in Nat /\ Len(q) \in Nat
        /\ \A k \in 1..Len(a) : (a \o p)[k] = a[k] /\ (a \o q)[k] = a[k]
    BY <1>1, <2>3, ConcatSeq
  <2>5. (\A k \in 1..Len(p) : (a \o p)[k + Len(a)] = p[k]) /\ (\A k \in 1..Len(q) : (a \o q)[k + Len(a)] = q[k])
    BY <1>1, <2>3, ConcatSeq
  <2>6. Len(Feed') = Len(Feed) + 1 BY <2>1, <2>2, <2>3, <2>4
  <2>7. Feed'[Len(Feed) + 1] = note
    <3>1. Len(q) + 1 \in 1..Len(p) /\ (Len(q) + 1) + Len(a) = Len(Feed) + 1 BY <2>2, <2>3, <2>4
    <3>2. (a \o p)[(Len(q) + 1) + Len(a)] = p[Len(q) + 1] BY <2>5, <3>1
    <3> QED BY <2>1, <2>3, <3>1, <3>2
  <2>8. ASSUME NEW k \in 1..Len(Feed) PROVE Feed'[k] = Feed[k]
    <3>1. CASE k \in 1..Len(a) BY <2>1, <2>2, <2>4, <3>1
    <3>2. CASE k - Len(a) \in 1..Len(q) /\ (k - Len(a)) + Len(a) = k
      <4>1. k - Len(a) \in 1..Len(p) BY <2>3, <2>4, <3>2
      <4>2. (a \o p)[k] = p[k - Len(a)] /\ (a \o q)[k] = q[k - Len(a)] BY <2>5, <3>2, <4>1
      <4> QED BY <2>1, <2>2, <2>3, <3>2, <4>2
    <3> QED BY <1>1, <2>2, <2>8, <3>1, <3>2, FeedAt
  <2> QED BY <2>6, <2>7, <2>8
<1> QED BY <1>2, <1>3

LEMMA DeliverFeed ==
  ASSUME ListType, Deliver
  PROVE  /\ Len(Feed) \in Nat \ {0} /\ Feed[1] = Head(batch)
         /\ Len(Feed') = Len(Feed) - 1 /\ \A k \in 1..(Len(Feed) - 1) : Feed'[k] = Feed[k + 1]
<1> DEFINE a == batch
           q == queue[Home]
           t == Tail(batch)
<1>1. a \in Seq(NoteSet) /\ q \in Seq(NoteSet) /\ a # <<>> BY FeedType DEF Deliver
<1>2. Feed = a \o q /\ Feed' = t \o q BY DEF Feed, Deliver
<1>3. /\ t \in Seq(NoteSet) /\ Head(a) = a[1] /\ Len(a) \in Nat \ {0} /\ Len(t) = Len(a) - 1
      /\ \A i \in 1..(Len(a) - 1) : t[i] = a[i + 1]
  BY <1>1, TailSeq
<1>4. Head(batch) = a[1] BY <1>3
<1> HIDE DEF a, q, t
<1>5. /\ Len(t \o q) = Len(t) + Len(q) /\ Len(a \o q) = Len(a) + Len(q) /\ Len(q) \in Nat
      /\ (\A k \in 1..Len(a) : (a \o q)[k] = a[k]) /\ (\A k \in 1..Len(t) : (t \o q)[k] = t[k])
  BY <1>1, <1>3, ConcatSeq
<1>6. (\A k \in 1..Len(q) : (t \o q)[k + Len(t)] = q[k]) /\ (\A k \in 1..Len(q) : (a \o q)[k + Len(a)] = q[k])
  BY <1>1, <1>3, ConcatSeq
<1>7. Len(Feed) \in Nat \ {0} /\ Len(Feed') = Len(Feed) - 1 BY <1>2, <1>3, <1>5
<1>8. Feed[1] = Head(batch)
  <2>1. 1 \in 1..Len(a) BY <1>3
  <2> QED BY <1>2, <1>4, <1>5, <2>1
<1>9. ASSUME NEW k \in 1..(Len(Feed) - 1) PROVE Feed'[k] = Feed[k + 1]
  <2>1. k \in 1..Len(t \o q) BY <1>2, <1>7
  <2>2. CASE k \in 1..Len(t)
    <3>1. k + 1 \in 1..Len(a) /\ k \in 1..(Len(a) - 1) BY <1>3, <2>2
    <3> QED BY <1>2, <1>3, <1>5, <2>2, <3>1
  <2>3. CASE k - Len(t) \in 1..Len(q) /\ (k - Len(t)) + Len(t) = k
    <3>1. (k - Len(t)) + Len(a) = k + 1 BY <1>3, <2>3
    <3>2. (t \o q)[k] = q[k - Len(t)] BY <1>6, <2>3
    <3>3. (a \o q)[k + 1] = q[k - Len(t)] BY <1>6, <2>3, <3>1
    <3> QED BY <1>2, <3>2, <3>3
  <2> QED BY <1>1, <1>3, <2>1, <2>2, <2>3, FeedAt
<1> QED BY <1>7, <1>8, <1>9

(* A queue that is taken is that of the collection's scope, or it has      *)
(* nothing of the collection.                                              *)
LEMMA TakeFeed ==
  ASSUME Base, TakeBatch
  PROVE  \E p \in Nat :
           /\ Len(Feed') = p + Len(Feed)
           /\ \A k \in 1..p : Feed'[k].node # Coll
           /\ \A k \in 1..Len(Feed) : Feed'[k + p] = Feed[k]
<1> USE DEF Base, Types, Places
<1> DEFINE s == ScopeOrder[visit + 1]
           q == queue[Home]
           r == queue[s]
<1>1. /\ batch = <<>> /\ batch' = r /\ queue' = [queue EXCEPT ![s] = <<>>] /\ visit < Len(ScopeOrder)
  BY DEF TakeBatch
<1>2. s \in Scopes BY <1>1, NextScope
<1>3. q \in Seq(NoteSet) /\ r \in Seq(NoteSet) BY <1>2, FeedType DEF ListType
<1>4. Feed = q BY <1>1, <1>3, ConcatEmptySeq DEF Feed
<1>5. CASE s = Home
  <2>1. Feed' = r \o <<>> BY <1>1, <1>5, HomeScope DEF Feed, ListType
  <2>2. Feed' = q BY <1>3, <1>5, <2>1, ConcatEmptySeq
  <2>3. Feed' = Feed /\ Len(Feed) \in Nat BY <1>4, <2>2, FeedType
  <2>4. /\ Len(Feed') = 0 + Len(Feed) /\ (\A k \in 1..0 : Feed'[k].node # Coll)
        /\ \A k \in 1..Len(Feed) : Feed'[k + 0] = Feed[k]
    BY <2>3
  <2> QED BY <2>4
<1>6. CASE s # Home
  <2>1. Feed' = r \o q BY <1>1, <1>2, <1>6, HomeScope DEF Feed, ListType
  <2>2. \A k \in 1..Len(r) : r[k].node # Coll
    <3>1. \A k \in DOMAIN r : Owner[r[k].node] = s BY <1>2 DEF NotesOK, Addressed
    <3>2. DOMAIN r = 1..Len(r) BY <1>3
    <3> QED BY <1>6, <3>1, <3>2 DEF Home
  <2> HIDE DEF s, q, r
  <2>3. /\ Len(r) \in Nat /\ Len(r \o q) = Len(r) + Len(q) /\ \A k \in 1..Len(r) : (r \o q)[k] = r[k]
        /\ \A k \in 1..Len(q) : (r \o q)[k + Len(r)] = q[k]
    BY <1>3, ConcatSeq
  <2> QED BY <1>4, <2>1, <2>2, <2>3
<1> QED BY <1>5, <1>6

LEMMA LeadsAppend ==
  ASSUME NEW f, Len(f) \in Nat, NEW x, NEW b, NEW skew, Leads(f, x, b, skew),
         NEW g, Len(g) = Len(f) + 1, \A k \in 1..Len(f) : g[k] = f[k],
         NEW y, Formed(y), Link(g[Len(f) + 1], x, y)
  PROVE  Leads(g, y, b, skew)
<1> DEFINE n == Len(f)
<1>1. PICK c : Chain(c, f, n) /\ c[n + 1] = x /\ Mirrors(b, skew, c, f, n) BY DEF Leads
<1>2. /\ n \in Nat /\ Link(g[n + 1], c[n + 1], y) /\ (\A k \in 1..n : g[k] = f[k]) /\ Len(g) = n + 1
      /\ (n + 1) + 1 = n + 2
  BY <1>1
<1> HIDE DEF n
<1>3. PICK d : Chain(d, g, n + 1) /\ d[n + 2] = y /\ Mirrors(b, skew, d, g, n + 1) BY <1>1, <1>2, ChainAppend
<1> QED BY <1>2, <1>3 DEF Leads

LEMMA LeadsPrefix ==
  ASSUME NEW f, Len(f) \in Nat, NEW x, NEW b, NEW skew, Leads(f, x, b, skew), NEW p \in Nat,
         NEW g, Len(g) = p + Len(f), \A k \in 1..p : g[k].node # Coll,
         \A k \in 1..Len(f) : g[k + p] = f[k]
  PROVE  Leads(g, x, b, skew)
<1> DEFINE n == Len(f)
<1>1. PICK c : Chain(c, f, n) /\ c[n + 1] = x /\ Mirrors(b, skew, c, f, n) BY DEF Leads
<1>2. n \in Nat /\ (\A k \in 1..n : g[k + p] = f[k]) /\ Len(g) = p + n OBVIOUS
<1> HIDE DEF n
<1>3. PICK d : Chain(d, g, p + n) /\ d[p + n + 1] = c[n + 1] /\ Mirrors(b, skew, d, g, p + n)
  BY <1>1, <1>2, ChainPrefix
<1> QED BY <1>1, <1>2, <1>3 DEF Leads

LEMMA LeadsReconcile ==
  ASSUME NEW f, Len(f) \in Nat, NEW x, NEW b, NEW skew, Leads(f, x, b, skew),
         NEW now, now = (\E k \in 1..Len(f) : CollNote(f[k]))
  PROVE  Leads(f, x, Reconcile(x.items), now)
<1> DEFINE n == Len(f)
<1>1. PICK c : Chain(c, f, n) /\ c[n + 1] = x /\ Mirrors(b, skew, c, f, n) BY DEF Leads
<1>2. n \in Nat /\ now = (\E k \in 1..n : CollNote(f[k])) OBVIOUS
<1> HIDE DEF n
<1>3. Mirrors(Reconcile(x.items), now, c, f, n) BY <1>1, <1>2, Reconciled
<1> QED BY <1>1, <1>3 DEF Leads, n

(* The binder applies an event that is not a replace without a look at     *)
(* what the collection holds.                                              *)
LEMMA ApplyBlind ==
  ASSUME NEW b, NEW event, event.kind # "replace", NEW i, NEW j
  PROVE  BinderApply(b, event, i) = BinderApply(b, event, j)
BY DEF BinderApply

(* An event of the collection reaches the binder.                          *)
LEMMA MirrorsEvent ==
  ASSUME NEW n \in Nat \ {0}, NEW c, NEW f, Chain(c, f, n), NEW b, Upright(b), b.on, NEW skew,
         Mirrors(b, skew, c, f, n), NEW g, \A k \in 1..(n - 1) : g[k] = f[k + 1],
         NEW d, d[1] = c[2], CollNote(f[1]), f[1].event.kind # "replace", NEW items
  PROVE  Mirrors(BinderApply(b, f[1].event, items), skew, d, g, n - 1)
<1> DEFINE event == f[1].event
           r == BinderApply(b, event, items)
<1>1. 1 \in 1..n /\ 1 \in 1..(n + 1) /\ 1 + 1 = 2 OBVIOUS
<1>2. Formed(c[1]) /\ Link(f[1], c[1], c[2]) BY <1>1 DEF Chain
<1>3. PICK op \in ItemMutations : c[2] = Mutated(c[1], op) /\ event = MutationEvent(c[1], op)
  BY <1>2 DEF Link
<1>4. event.kind # "replace" /\ f[1].node = Coll BY DEF CollNote
<1> HIDE DEF event
<1>5. ASSUME ~skew PROVE Abreast(r, d[1])
  <2>1. Abreast(b, c[1]) BY <1>5 DEF Mirrors
  <2>2. Abreast(BinderApply(b, event, Mutated(c[1], op).items), Mutated(c[1], op))
    BY <1>2, <1>3, <2>1, BinderFollows
  <2>3. r = BinderApply(b, event, Mutated(c[1], op).items) BY <1>4, ApplyBlind
  <2> QED BY <1>3, <2>2, <2>3
<1>6. ASSUME NEW id \in ItemIDs
      PROVE  (id \in r.children <=> Has(d[1], id)) \/ \E k \in 1..(n - 1) : Stirs(g[k], id)
  <2>1. Stirs(f[1], id) => event.kind \in {"insert", "remove"} /\ event.id = id
    BY <1>4 DEF Stirs, event
  <2>2. CASE (id \in b.children <=> Has(c[1], id)) \/ Stirs(f[1], id)
    <3>1. \/ id \in b.children <=> Has(c[1], id)
          \/ event.kind \in {"insert", "remove"} /\ event.id = id
      BY <2>1, <2>2
    <3>2. id \in r.children <=> Has(Mutated(c[1], op), id) BY <1>2, <1>3, <1>4, <3>1, ApplyMember
    <3> QED BY <1>3, <3>2
  <2>3. CASE ~(id \in b.children <=> Has(c[1], id)) /\ ~Stirs(f[1], id)
    <3>1. \E k \in 1..n : Stirs(f[k], id) BY <2>3 DEF Mirrors
    <3>2. \E k \in 1..(n - 1) : Stirs(g[k], id) BY <2>3, <3>1, StirsLater
    <3> QED BY <3>2
  <2> QED BY <2>2, <2>3
<1> QED BY <1>5, <1>6 DEF Mirrors, event

(* Anything else leaves the binder alone.                                  *)
LEMMA MirrorsOther ==
  ASSUME NEW n \in Nat \ {0}, NEW c, NEW f, Chain(c, f, n), NEW b, NEW skew,
         Mirrors(b, skew, c, f, n), NEW g, \A k \in 1..(n - 1) : g[k] = f[k + 1],
         NEW d, d[1] = c[2], ~CollNote(f[1])
  PROVE  Mirrors(b, skew, d, g, n - 1)
<1>1. 1 \in 1..n /\ 1 + 1 = 2 OBVIOUS
<1>2. Link(f[1], c[1], c[2]) BY <1>1 DEF Chain
<1>3. d[1] = c[1] BY <1>2 DEF Link
<1>4. ASSUME NEW id PROVE ~Stirs(f[1], id)
  <2>1. f[1].node = Coll => f[1].event.kind = "skipped" BY DEF CollNote, Skipped, Noted
  <2> QED BY <2>1 DEF Stirs
<1>5. ASSUME b.on, NEW id \in ItemIDs
      PROVE  (id \in b.children <=> Has(d[1], id)) \/ \E k \in 1..(n - 1) : Stirs(g[k], id)
  <2>1. CASE id \in b.children <=> Has(c[1], id) BY <1>3, <2>1
  <2>2. CASE \E k \in 1..n : Stirs(f[k], id)
    <3>1. \E k \in 1..(n - 1) : Stirs(g[k], id) BY <1>4, <2>2, StirsLater
    <3> QED BY <3>1
  <2> QED BY <1>5, <2>1, <2>2 DEF Mirrors
<1> QED BY <1>3, <1>5 DEF Mirrors

(* The first notification is delivered.                                    *)
LEMMA LeadsTail ==
  ASSUME NEW f, Len(f) \in Nat \ {0}, NEW x, NEW b, Upright(b), NEW skew, Leads(f, x, b, skew),
         NEW g, Len(g) = Len(f) - 1, \A k \in 1..(Len(f) - 1) : g[k] = f[k + 1],
         NEW event, event = IF f[1].node = Coll THEN f[1].event ELSE Skipped,
         NEW now, now = IF b.on /\ event.kind = "replace"
                        THEN (\E k \in 1..Len(g) : CollNote(g[k])) ELSE skew
  PROVE  Leads(g, x, BinderApply(b, event, x.items), now)
<1> DEFINE n == Len(f)
<1>1. PICK c : Chain(c, f, n) /\ c[n + 1] = x /\ Mirrors(b, skew, c, f, n) BY DEF Leads
<1>2. /\ n \in Nat \ {0} /\ (\A k \in 1..(n - 1) : g[k] = f[k + 1]) /\ Len(g) = n - 1
      /\ n - 1 \in Nat /\ (n - 1) + 1 = n
  OBVIOUS
<1> HIDE DEF n
<1>3. PICK d : Chain(d, g, n - 1) /\ d[n] = c[n + 1] /\ d[1] = c[2]
  <2>1. Chain(Rest(c, n), g, n - 1) /\ Rest(c, n)[n] = c[n + 1] /\ Rest(c, n)[1] = c[2]
    <3>1. IsRest(g, f, n) BY <1>2 DEF IsRest
    <3> QED BY <1>1, <1>2, <3>1, ChainTail
  <2> QED BY <2>1
<1>4. Skipped.kind = "skipped" BY DEF Skipped, Noted
<1>5. ASSUME Mirrors(BinderApply(b, event, x.items), now, d, g, n - 1)
      PROVE  Leads(g, x, BinderApply(b, event, x.items), now)
  BY <1>1, <1>2, <1>3, <1>5 DEF Leads
<1>6. CASE ~b.on
  <2>1. BinderApply(b, event, x.items) = b BY <1>6 DEF BinderApply
  <2>2. Mirrors(b, now, d, g, n - 1) BY <1>6 DEF Mirrors
  <2> QED BY <1>5, <2>1, <2>2
<1>7. CASE b.on /\ event.kind = "replace"
  <2>1. BinderApply(b, event, x.items) = Reconcile(x.items) BY <1>7 DEF BinderApply
  <2>2. now = (\E k \in 1..(n - 1) : CollNote(g[k])) BY <1>2, <1>7
  <2>3. x = d[(n - 1) + 1] BY <1>1, <1>2, <1>3
  <2>4. Mirrors(Reconcile(x.items), now, d, g, n - 1) BY <1>2, <1>3, <2>2, <2>3, Reconciled
  <2> QED BY <1>5, <2>1, <2>4
<1>8. CASE b.on /\ event.kind # "replace" /\ CollNote(f[1])
  <2>1. event = f[1].event /\ now = skew BY <1>8 DEF CollNote
  <2>2. f[1].event.kind # "replace" BY <1>8, <2>1
  <2>3. Mirrors(BinderApply(b, f[1].event, x.items), skew, d, g, n - 1)
    BY <1>1, <1>2, <1>3, <1>8, <2>2, MirrorsEvent
  <2> QED BY <1>5, <2>1, <2>3
<1>9. CASE b.on /\ event.kind # "replace" /\ ~CollNote(f[1])
  <2>1. event = Skipped /\ now = skew BY <1>9 DEF CollNote
  <2>2. BinderApply(b, event, x.items) = b BY <1>4, <2>1 DEF BinderApply
  <2>3. Mirrors(b, skew, d, g, n - 1) BY <1>1, <1>2, <1>3, <1>9, MirrorsOther
  <2> QED BY <1>5, <2>1, <2>2, <2>3
<1> QED BY <1>6, <1>7, <1>8, <1>9

(* A notification that leads from what the collection held to what it      *)
(* holds, or is not of its scope and leaves it alone.                      *)
LEMMA SendLeads ==
  ASSUME Base, Base', Leads(Feed, coll, binder, ahead), UNCHANGED <<batch, mirror>>,
         NEW note, Sends(note), Link(note, coll, coll'), note.node # Coll => coll' = coll
  PROVE  Leads(Feed, coll, binder, ahead)'
<1> USE DEF Base, Types
<1>1. Len(Feed) \in Nat BY FeedType
<1>2. Formed(coll') BY DEF DataType
<1>3. PICK f : f = Feed OBVIOUS
<1>4. PICK g : g = Feed' OBVIOUS
<1>5. CASE Owner[note.node] # Home
  <2>1. g = f /\ coll' = coll BY <1>3, <1>4, <1>5, SendFeed DEF Home
  <2> QED BY <1>3, <1>4, <2>1
<1>6. CASE Owner[note.node] = Home
  <2>1. Len(g) = Len(f) + 1 /\ g[Len(f) + 1] = note /\ \A k \in 1..Len(f) : g[k] = f[k]
    BY <1>3, <1>4, <1>6, SendFeed
  <2>2. Leads(f, coll, binder, ahead) /\ Len(f) \in Nat BY <1>1, <1>3
  <2>3. Link(g[Len(f) + 1], coll, coll') BY <2>1
  <2>4. Leads(g, coll', binder, ahead) BY <1>2, <2>1, <2>2, <2>3, LeadsAppend
  <2> QED BY <1>4, <2>4
<1> QED BY <1>5, <1>6

LEMMA ApplyLeads ==
  ASSUME Base, Base', Leads(Feed, coll, binder, ahead), Mutating
  PROVE  Leads(Feed, coll, binder, ahead)'
<1> USE DEF Base, Types
<1>1. PICK m \in Mutations : Applying(m) BY DEF Mutating
<1>2. /\ coll' = (IF m.store = Coll THEN Mutated(coll, m.op) ELSE coll) /\ Event(m) # Skipped
      /\ UNCHANGED <<batch, mirror>>
  BY <1>1 DEF Applying, Apply
<1>3. PICK note : note = Note(m.store, Targets(m.store), Event(m)) OBVIOUS
<1>4. Sends(note) /\ note.node = m.store /\ note.event = Event(m) BY <1>1, <1>3, ApplySends DEF Note
<1>5. Link(note, coll, coll')
  <2>1. CASE m.store = Coll
    <3>1. m.op \in ItemMutations /\ Event(m) = MutationEvent(coll, m.op)
      BY <2>1, MutationType, NodeAssumption DEF Event
    <3> QED BY <1>2, <1>4, <2>1, <3>1 DEF Link, CollNote
  <2>2. CASE m.store # Coll BY <1>2, <1>4, <2>2 DEF Link, CollNote
  <2> QED BY <2>1, <2>2
<1> QED BY <1>2, <1>4, <1>5, SendLeads

(* What is sent without an event.                                          *)
LEMMA PlainLeads ==
  ASSUME Base, Base', Leads(Feed, coll, binder, ahead), UNCHANGED <<batch, mirror, coll>>,
         NEW note, Sends(note), note.event = Skipped
  PROVE  Leads(Feed, coll, binder, ahead)'
<1>1. Link(note, coll, coll') BY DEF Link, CollNote
<1> QED BY <1>1, SendLeads

LEMMA NoteEvent == \A n, targets, event : Note(n, targets, event).event = event
BY DEF Note

LEMMA PostLeads ==
  ASSUME Base, Base', Leads(Feed, coll, binder, ahead), Posted
  PROVE  Leads(Feed, coll, binder, ahead)'
<1>1. PICK m \in Mutations : Posting(m) BY DEF Posted
<1>2. Sends(Note(m.store, {}, Skipped)) BY <1>1, PostSends DEF Base
<1>3. UNCHANGED <<batch, mirror, coll>> BY <1>1 DEF Posting
<1> QED BY <1>2, <1>3, NoteEvent, PlainLeads

LEMMA MarkLeads ==
  ASSUME Base, Base', Leads(Feed, coll, binder, ahead), Marking
  PROVE  Leads(Feed, coll, binder, ahead)'
<1>1. PICK d \in Deriveds : Mark(d) BY DEF Marking
<1>2. UNCHANGED <<batch, mirror, coll>> BY <1>1 DEF Mark
<1>3. CASE Clean(d)
  <2>1. Sends(Note(d, Targets(d), Skipped)) BY <1>1, <1>3, MarkSends DEF Base, Places
  <2> QED BY <1>2, <2>1, NoteEvent, PlainLeads
<1>4. CASE ~Clean(d)
  <2>1. queue' = queue BY <1>1, <1>4, MarkSends DEF Base, Places
  <2> QED BY <1>2, <2>1 DEF Feed
<1> QED BY <1>3, <1>4

LEMMA FinishLeads ==
  ASSUME Base, Base', Leads(Feed, coll, binder, ahead), Finish
  PROVE  Leads(Feed, coll, binder, ahead)'
<1>1. Sends(Note(Last(stack).node, {}, Skipped)) BY FinishSends DEF Base, Places
<1>2. UNCHANGED <<batch, mirror, coll>> BY DEF Finish
<1> QED BY <1>1, <1>2, NoteEvent, PlainLeads

LEMMA DeliverLeads ==
  ASSUME Base, Leads(Feed, coll, binder, ahead), Deliver, Home \in open
  PROVE  Leads(Feed, coll, binder, ahead)'
<1> USE DEF Base, Types
<1>1. PICK f : f = Feed OBVIOUS
<1>2. PICK g : g = Feed' OBVIOUS
<1>3. PICK event : event = IF Head(batch).node = Coll THEN Head(batch).event ELSE Skipped OBVIOUS
<1>4. /\ Len(f) \in Nat \ {0} /\ f[1] = Head(batch) /\ Len(g) = Len(f) - 1
      /\ \A k \in 1..(Len(f) - 1) : g[k] = f[k + 1]
  BY <1>1, <1>2, DeliverFeed
<1>5. Undelivered(g) <=> \E k \in 1..Len(g) : CollNote(g[k])
  <2>1. Len(g) \in Nat BY <1>4
  <2>2. g = Tail(batch) \o queue[Home] BY <1>2 DEF Deliver, Feed
  <2>3. batch \in Seq(NoteSet) /\ batch # <<>> /\ queue[Home] \in Seq(NoteSet) BY FeedType DEF Deliver
  <2>4. Tail(batch) \in Seq(NoteSet) BY <2>3, TailSeq
  <2>5. DOMAIN g = 1..Len(g) BY <2>2, <2>3, <2>4, ConcatSeq
  <2> QED BY <2>5 DEF Undelivered, CollNote
<1>6. /\ binder' = BinderApply(binder, event, coll.items)
      /\ ahead' = (IF binder.on /\ event.kind = "replace" THEN Undelivered(g) ELSE ahead)
      /\ coll' = coll
  <2>1. g = Tail(batch) \o queue[Owner[Coll]] BY <1>2 DEF Deliver, Feed, Home
  <2>2. event = IF Owner[Head(batch).node] \in open /\ Head(batch).node = Coll THEN Head(batch).event ELSE Skipped
    BY <1>3 DEF Home
  <2> QED BY <2>1, <2>2 DEF Deliver
<1>7. PICK now : now = IF binder.on /\ event.kind = "replace"
                       THEN (\E k \in 1..Len(g) : CollNote(g[k])) ELSE ahead
  OBVIOUS
<1>8. ahead' = now BY <1>5, <1>6, <1>7 DEF Undelivered
<1>9. Leads(f, coll, binder, ahead) /\ Upright(binder) BY <1>1 DEF DataType
<1>10. event = IF f[1].node = Coll THEN f[1].event ELSE Skipped BY <1>3, <1>4
<1>11. Leads(g, coll, BinderApply(binder, event, coll.items), now)
  BY <1>4, <1>7, <1>9, <1>10, LeadsTail
<1> QED BY <1>2, <1>6, <1>8, <1>11

LEMMA AttachLeads ==
  ASSUME Base, Leads(Feed, coll, binder, ahead), Attach
  PROVE  Leads(Feed, coll, binder, ahead)'
<1> USE DEF Base, Types
<1>1. PICK f : f = Feed OBVIOUS
<1>2. Feed' = f /\ coll' = coll /\ binder' = Reconcile(coll.items) /\ ahead' = Undelivered(f)
  BY <1>1 DEF Attach, Feed, Home
<1>3. PICK now : now = (\E k \in 1..Len(f) : CollNote(f[k])) OBVIOUS
<1>4. ahead' = now BY <1>1, <1>2, <1>3, FeedUndelivered DEF Undelivered
<1>5. Len(f) \in Nat BY <1>1, FeedType
<1>6. Leads(f, coll, Reconcile(coll.items), now) BY <1>1, <1>3, <1>5, LeadsReconcile
<1> QED BY <1>2, <1>4, <1>6

LEMMA DetachLeads ==
  ASSUME Base, Leads(Feed, coll, binder, ahead), Detach
  PROVE  Leads(Feed, coll, binder, ahead)'
<1>1. PICK f : f = Feed OBVIOUS
<1>2. Feed' = f /\ coll' = coll /\ ~binder'.on BY <1>1 DEF Detach, Feed, Home, DetachedBinder
<1>3. PICK c : Chain(c, f, Len(f)) /\ c[Len(f) + 1] = coll BY <1>1 DEF Leads
<1>4. Mirrors(binder', ahead', c, f, Len(f)) BY <1>2 DEF Mirrors
<1>5. Leads(f, coll, binder', ahead') BY <1>3, <1>4 DEF Leads
<1> QED BY <1>2, <1>5

LEMMA LinkedStep ==
  ASSUME Base, Base', [Next]_vars, Linked PROVE Linked'
<1> USE DEF Base, Types
<1> SUFFICES ASSUME Home \in open' PROVE Leads(Feed, coll, binder, ahead)' BY DEF Linked, Home
<1>1. Home \in open
  <2>1. CASE Closing BY <2>1 DEF Closing, Close
  <2> QED BY <2>1, MadeStep
<1>2. Leads(Feed, coll, binder, ahead) BY <1>1 DEF Linked
<1>3. CASE TakeBatch
  <2>1. PICK f : f = Feed OBVIOUS
  <2>2. PICK g : g = Feed' OBVIOUS
  <2>3. PICK p \in Nat : /\ Len(g) = p + Len(f) /\ (\A k \in 1..p : g[k].node # Coll)
                         /\ \A k \in 1..Len(f) : g[k + p] = f[k]
    BY <1>3, <2>1, <2>2, TakeFeed
  <2>4. Len(f) \in Nat BY <2>1, FeedType
  <2>5. Leads(g, coll, binder, ahead) BY <1>2, <2>1, <2>3, <2>4, LeadsPrefix
  <2>6. UNCHANGED <<coll, binder, ahead>> BY <1>3 DEF TakeBatch
  <2> QED BY <2>2, <2>5, <2>6
<1>4. CASE Closing
  <2>1. PICK s \in Scopes : Close(s) BY <1>4 DEF Closing
  <2>2. Home \notin Below(s) BY <2>1 DEF Close
  <2>3. coll' = coll BY <2>1, <2>2 DEF Close, Home
  <2>4. queue'[Home] = queue[Home] /\ UNCHANGED <<batch, binder, ahead>> BY <2>1, <2>2, HomeScope DEF Close
  <2> QED BY <1>2, <2>3, <2>4 DEF Feed
<1>5. CASE UNCHANGED <<queue, batch, mirror, coll>> BY <1>2, <1>5 DEF Feed
<1> QED
  BY <1>1, <1>2, <1>3, <1>4, <1>5, Touches, ApplyLeads, PostLeads, MarkLeads, FinishLeads,
     DeliverLeads, AttachLeads, DetachLeads

(* Before the binder is attached the chain has one member.                 *)
LEMMA LinkedInit == ASSUME Init PROVE Linked
<1> DEFINE c == [k \in 1..1 |-> EmptyCollection]
<1>1. /\ batch = <<>> /\ queue[Home] = <<>> /\ coll = EmptyCollection /\ ~binder.on
  BY HomeScope DEF Init, DetachedBinder
<1>2. Feed = <<>> BY <1>1, ConcatEmptySeq DEF Feed
<1>3. Len(Feed) = 0 BY <1>2
<1>4. c[1] = EmptyCollection /\ 0 + 1 = 1 OBVIOUS
<1> HIDE DEF c
<1>5. Chain(c, Feed, 0) BY <1>4, EmptyFormed DEF Chain
<1>6. Mirrors(binder, ahead, c, Feed, 0) BY <1>1 DEF Mirrors
<1> QED BY <1>1, <1>3, <1>4, <1>5, <1>6 DEF Linked, Leads

(* A notification without an event adds nothing to deliver.                *)
LEMMA SendDrained ==
  ASSUME Base, Base', ~Undelivered(Feed), UNCHANGED batch, NEW note, Sends(note), note.event = Skipped
  PROVE  ~Undelivered(Feed)'
<1> USE DEF Base, Types
<1>1. PICK f : f = Feed OBVIOUS
<1>2. PICK g : g = Feed' OBVIOUS
<1>3. Len(f) \in Nat /\ \A k \in 1..Len(f) : ~CollNote(f[k]) BY <1>1, FeedType, FeedUndelivered
<1>4. DOMAIN g = 1..Len(g)
  <2>1. (Feed \in Seq(NoteSet))'
    <3>1. batch' \in Seq(NoteSet) /\ queue'[Home] \in Seq(NoteSet) BY HomeScope DEF ListType
    <3> QED BY <3>1, ConcatSeq DEF Feed
  <2>2. g \in Seq(NoteSet) BY <1>2, <2>1
  <2> QED BY <2>2
<1>5. \A k \in 1..Len(g) : ~CollNote(g[k])
  <2>1. CASE Owner[note.node] # Home
    <3>1. g = f BY <1>1, <1>2, <2>1, SendFeed
    <3> QED BY <1>3, <3>1
  <2>2. CASE Owner[note.node] = Home
    <3>1. Len(g) = Len(f) + 1 /\ g[Len(f) + 1] = note /\ \A k \in 1..Len(f) : g[k] = f[k]
      BY <1>1, <1>2, <2>2, SendFeed
    <3>2. ~CollNote(note) BY DEF CollNote
    <3>3. \A k \in 1..Len(g) : k \in 1..Len(f) \/ k = Len(f) + 1 BY <1>3, <3>1
    <3> QED BY <1>3, <3>1, <3>2, <3>3
  <2> QED BY <2>1, <2>2
<1>6. ~Undelivered(g) BY <1>4, <1>5 DEF Undelivered, CollNote
<1> QED BY <1>2, <1>6

LEMMA DrainedStep ==
  ASSUME Base, Base', Pass, [Next]_vars, Drained PROVE Drained'
<1> USE DEF Base, Types
<1> SUFFICES ASSUME Calm', Home \in open' PROVE ~Undelivered(Feed)' BY DEF Drained, Home
<1>1. Home \in open
  <2>1. CASE Closing BY <2>1 DEF Closing, Close
  <2> QED BY <2>1, MadeStep
<1>2. CASE EndPass /\ ~worked
  <2>1. Notes = {} /\ UNCHANGED <<batch, queue>> BY <1>2, NothingQueued DEF EndPass
  <2>2. ASSUME NEW s \in Seq(NoteSet), Range(s) = {} PROVE s = <<>>
    <3>1. DOMAIN s = {} BY <2>2 DEF Range
    <3> QED BY <2>2, <3>1
  <2>3. Range(batch) = {} /\ Range(queue[Home]) = {} BY <2>1, HomeScope DEF Notes
  <2>4. batch = <<>> /\ queue[Home] = <<>> BY <2>2, <2>3, FeedType
  <2>5. Feed' = <<>> BY <2>1, <2>4, ConcatEmptySeq DEF Feed
  <2> QED BY <2>5 DEF Undelivered
<1>3. CASE Calm
  <2>1. ~Undelivered(Feed) BY <1>1, <1>3 DEF Drained
  <2>2. ~Mutating /\ ~Deliver /\ ~TakeBatch BY CalmSteps
  <2>3. UNCHANGED batch BY <2>2, Touches
  <2>4. CASE Posted
    <3>1. PICK m \in Mutations : Posting(m) BY <2>4 DEF Posted
    <3>2. Sends(Note(m.store, {}, Skipped)) BY <3>1, PostSends
    <3> QED BY <2>1, <2>3, <3>2, NoteEvent, SendDrained
  <2>5. CASE Marking
    <3>1. PICK d \in Deriveds : Mark(d) BY <2>5 DEF Marking
    <3>2. CASE Clean(d)
      <4>1. Sends(Note(d, Targets(d), Skipped)) BY <3>1, <3>2, MarkSends DEF Places
      <4> QED BY <2>1, <2>3, <4>1, NoteEvent, SendDrained
    <3>3. CASE ~Clean(d)
      <4>1. queue' = queue BY <3>1, <3>3, MarkSends DEF Places
      <4> QED BY <2>1, <2>3, <4>1 DEF Feed, Undelivered
    <3> QED BY <3>2, <3>3
  <2>6. CASE Closing
    <3>1. PICK s \in Scopes : Close(s) BY <2>6 DEF Closing
    <3>2. Home \notin Below(s) BY <3>1 DEF Close
    <3>3. queue'[Home] = queue[Home] BY <3>1, <3>2, HomeScope DEF Close
    <3> QED BY <2>1, <2>3, <3>3 DEF Feed, Undelivered
  <2>7. CASE Finish
    <3>1. Sends(Note(Last(stack).node, {}, Skipped)) BY <2>7, FinishSends DEF Places
    <3> QED BY <2>1, <2>3, <3>1, NoteEvent, SendDrained
  <2>8. CASE UNCHANGED queue BY <2>1, <2>3, <2>8 DEF Feed, Undelivered
  <2> QED BY <2>2, <2>4, <2>5, <2>6, <2>7, <2>8, Touches
<1> QED BY <1>2, <1>3, CalmSteps

Followed == Linked /\ Drained

LEMMA FollowedAlways == Spec => [](Base /\ Followed)
<1>1. Init => Followed
  <2>1. Init => ~Calm BY DEF Init, Calm
  <2> QED BY <2>1, LinkedInit DEF Followed, Drained
<1>2. Base /\ Base' /\ Heard /\ Followed /\ [Next]_vars => Followed'
  BY LinkedStep, DrainedStep DEF Followed, Heard
<1> QED BY <1>1, <1>2, HeardAlways, PTL DEF Spec

LEMMA FollowedMirrors == ASSUME Base, Followed PROVE BinderMirrors
<1> USE DEF Base, Types
<1> SUFFICES ASSUME Calm, binder.on, Home \in open
             PROVE  /\ binder.children = Range(coll.items)
                    /\ Range(binder.order) = binder.children /\ IsInjective(binder.order)
                    /\ ~ahead => binder.order = coll.items
  BY DEF BinderMirrors, Calm, Home
<1>1. PICK f : f = Feed OBVIOUS
<1>2. Len(f) \in Nat /\ \A k \in 1..Len(f) : ~CollNote(f[k])
  BY <1>1, FeedType, FeedUndelivered DEF Followed, Drained
<1>3. PICK c : /\ Chain(c, f, Len(f)) /\ c[Len(f) + 1] = coll
               /\ Mirrors(binder, ahead, c, f, Len(f))
  BY <1>1 DEF Followed, Linked, Leads
<1>4. \A k \in 1..Len(f) : c[k] = c[k + 1] BY <1>2, <1>3 DEF Chain, Link
<1>5. c[1] = coll BY <1>2, <1>3, <1>4, Steadfast
<1>6. \A k \in 1..Len(f) : \A id : ~Stirs(f[k], id) BY <1>2 DEF Stirs, CollNote, Skipped, Noted
<1>7. \A id \in ItemIDs : id \in binder.children <=> Has(coll, id) BY <1>3, <1>5, <1>6 DEF Mirrors
<1>8. ~ahead => Abreast(binder, coll) BY <1>3, <1>5 DEF Mirrors
<1>9. Upright(binder) /\ Formed(coll) BY DEF DataType
<1>10. DOMAIN coll.index = Range(coll.items) /\ DOMAIN coll.index \subseteq ItemIDs
  BY <1>9 DEF Formed, Range
<1>11. /\ binder.children \subseteq ItemIDs /\ Range(binder.order) = binder.children
       /\ IsInjective(binder.order)
  BY <1>9 DEF Upright, BinderSet
<1>12. binder.children = Range(coll.items) BY <1>7, <1>10, <1>11 DEF Has
<1> QED BY <1>8, <1>11, <1>12 DEF Abreast

(* The binder has, after the signals, one child for every item of the      *)
(* collection and no other, and in the collection's order unless it was    *)
(* reconciled ahead of events that were queued: insert, remove and replace *)
(* in any order, in transactions, before, between and during deliveries,   *)
(* with binders that come and go (marks/data/join.go).                     *)
THEOREM StoresBinderMirrors == Spec => []BinderMirrors
<1>1. Base /\ Followed => BinderMirrors BY FollowedMirrors
<1> QED BY <1>1, FollowedAlways, PTL
=============================================================================
