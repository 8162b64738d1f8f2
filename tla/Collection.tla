----------------------------- MODULE Collection -----------------------------
(***************************************************************************)
(* The ordered collection of store/collection.go and its mirror, the       *)
(* binder of marks/data/join.go, as operators.                             *)
(*                                                                         *)
(* A collection is its items and the index from an ID to a position.  An   *)
(* item is its ID: what else it carries is not looked at.  A binder keeps  *)
(* one child facet for every ID it has seen inserted and an order of its   *)
(* own, which it maintains from the events of the collection alone.        *)
(* Positions count from 1.                                                 *)
(***************************************************************************)
EXTENDS Integers, Sequences, SequencesExt, FiniteSets

CONSTANT ItemIDs   \* the IDs of items

ASSUME ItemAssumption == ItemIDs \subseteq Nat \ {0}

VARIABLE coll      \* the collection

EmptyCollection == [items |-> <<>>, index |-> [i \in {} |-> 0]]

Has(c, id) == id \in DOMAIN c.index

Noted(kind, id, at) == [kind |-> kind, id |-> id, at |-> at]
NoID == 0
Skipped == Noted("skipped", NoID, 0)

Mutant_InsertItem(c, id) ==
  [items |-> Append(c.items, id),
   index |-> [i \in DOMAIN c.index \cup {id} |->
                IF i = id THEN Len(c.items) + 1 ELSE c.index[i]]]

(* insert: an item whose ID is there already is an update in its place.    *)
InsertItem(c, id) ==
  IF Has(c, id) THEN c
  ELSE [items |-> Append(c.items, id),
        index |-> [i \in DOMAIN c.index \cup {id} |->
                     IF i = id THEN Len(c.items) + 1 ELSE c.index[i]]]

InsertEvent(c, id) ==
  IF Has(c, id) THEN Noted("update", id, c.index[id])
  ELSE Noted("insert", id, Len(c.items) + 1)

Mutant_RemoveItem(c, id) ==
  IF ~Has(c, id) THEN c
  ELSE [items |-> RemoveAt(c.items, c.index[id]),
        index |-> [i \in DOMAIN c.index \ {id} |-> c.index[i]]]

(* remove: the items behind the removed one move up and are indexed anew.  *)
RemoveItem(c, id) ==
  IF ~Has(c, id) THEN c
  ELSE LET at == c.index[id]
           rest == RemoveAt(c.items, at)
           moved == {rest[k] : k \in at..Len(rest)}
       IN [items |-> rest,
           index |-> [i \in (DOMAIN c.index \ {id}) \cup moved |->
                        IF i \in moved
                        THEN CHOOSE k \in at..Len(rest) : rest[k] = i
                        ELSE c.index[i]]]

RemoveEvent(c, id) ==
  IF Has(c, id) THEN Noted("remove", id, c.index[id]) ELSE Skipped

(* update changes the payload of an item only.                             *)
UpdateEvent(c, id) ==
  IF Has(c, id) THEN Noted("update", id, c.index[id]) ELSE Skipped

(* replace, by items with distinct IDs.                                    *)
ReplaceItems(items) ==
  [items |-> items,
   index |-> [i \in {items[k] : k \in DOMAIN items} |->
                CHOOSE k \in DOMAIN items : items[k] = i]]

(* The sequences of distinct IDs.                                          *)
ItemLists == {s \in SeqOf(ItemIDs, Cardinality(ItemIDs)) : IsInjective(s)}

(* A mutation of the collection, by its kind and argument.                 *)
ItemMutations ==
  [kind : {"insert", "remove", "update"}, arg : ItemIDs]
  \cup [kind : {"replace"}, arg : ItemLists]

Mutated(c, op) ==
  CASE op.kind = "insert" -> InsertItem(c, op.arg)
    [] op.kind = "remove" -> RemoveItem(c, op.arg)
    [] op.kind = "replace" -> ReplaceItems(op.arg)
    [] OTHER -> c

MutationEvent(c, op) ==
  CASE op.kind = "insert" -> InsertEvent(c, op.arg)
    [] op.kind = "remove" -> RemoveEvent(c, op.arg)
    [] op.kind = "update" -> UpdateEvent(c, op.arg)
    [] OTHER -> Noted("replace", NoID, 0)

(* The collection by itself, under any sequence of calls.                  *)
CollectionInit == coll = EmptyCollection
CollectionNext == \E op \in ItemMutations : coll' = Mutated(coll, op)
CollectionSpec == CollectionInit /\ [][CollectionNext]_coll

(* The index of the collection is the inverse of its items, so an ID is    *)
(* there once and found where it is, whatever insert, remove and replace   *)
(* have moved.                                                             *)
IndexExact ==
  /\ \A k \in DOMAIN coll.items :
       coll.items[k] \in DOMAIN coll.index /\ coll.index[coll.items[k]] = k
  /\ \A i \in DOMAIN coll.index :
       coll.index[i] \in DOMAIN coll.items /\ coll.items[coll.index[i]] = i

-----------------------------------------------------------------------------
(* CollectionBinder.                                                       *)

DetachedBinder == [on |-> FALSE, children |-> {}, order |-> <<>>]

(* reconcile takes over what the collection holds now.                     *)
Reconcile(items) ==
  [on |-> TRUE, children |-> {items[k] : k \in DOMAIN items}, order |-> items]

Mutant_InsertChild(b, id, at) ==
  IF id \in b.children THEN b
  ELSE [on |-> b.on, children |-> b.children \cup {id}, order |-> <<id>> \o b.order]

(* insertChild: an index past the end appends.                             *)
InsertChild(b, id, at) ==
  IF id \in b.children THEN b
  ELSE [on |-> b.on, children |-> b.children \cup {id},
        order |-> IF at > Len(b.order) THEN Append(b.order, id) ELSE InsertAt(b.order, at, id)]

(* removeChild removes the first occurrence.                               *)
RemoveChild(b, id) ==
  IF id \notin b.children THEN b
  ELSE [on |-> b.on, children |-> b.children \ {id}, order |-> RemoveFirst(b.order, id)]

(* What the binder does with an event; the collection holds items by then. *)
BinderApply(b, event, items) ==
  IF ~b.on THEN b
  ELSE CASE event.kind = "replace" -> Reconcile(items)
         [] event.kind = "insert" -> InsertChild(b, event.id, event.at)
         [] event.kind = "remove" -> RemoveChild(b, event.id)
         [] OTHER -> b
=============================================================================
