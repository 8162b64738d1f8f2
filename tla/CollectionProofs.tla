-------------------------- MODULE CollectionProofs --------------------------
(***************************************************************************)
(* For every set of IDs and every sequence of calls, the index of an       *)
(* ordered collection is the inverse of its items; and the binder that     *)
(* applies the events of a collection one by one has its children in the   *)
(* collection's order.                                                     *)
(***************************************************************************)
EXTENDS Collection, SequenceTheorems, TLAPS

(* A collection as a record.                                               *)
Formed(c) ==
  /\ c = [items |-> c.items, index |-> c.index]
  /\ c.items \in Seq(ItemIDs)
  /\ c.index = [i \in DOMAIN c.index |-> c.index[i]]
  /\ \A k \in DOMAIN c.items : c.items[k] \in DOMAIN c.index /\ c.index[c.items[k]] = k
  /\ \A i \in DOMAIN c.index : c.index[i] \in DOMAIN c.items /\ c.items[c.index[i]] = i

LEMMA InsertFormed ==
  ASSUME NEW c, Formed(c), NEW id \in ItemIDs PROVE Formed(InsertItem(c, id))
<1> DEFINE n == Len(c.items)
           m == InsertItem(c, id)
<1>1. CASE Has(c, id) BY <1>1 DEF InsertItem
<1>2. CASE ~Has(c, id)
  <2>1. /\ m.items = Append(c.items, id)
        /\ m.index = [i \in DOMAIN c.index \cup {id} |-> IF i = id THEN n + 1 ELSE c.index[i]]
        /\ m = [items |-> m.items, index |-> m.index]
    BY <1>2 DEF InsertItem
  <2>2. c.items \in Seq(ItemIDs) /\ n \in Nat /\ DOMAIN c.items = 1..n BY DEF Formed
  <2>3. /\ m.items \in Seq(ItemIDs) /\ DOMAIN m.items = 1..(n + 1)
        /\ m.items[n + 1] = id /\ \A k \in 1..n : m.items[k] = c.items[k]
    BY <2>1, <2>2
  <2>4. id \notin DOMAIN c.index BY <1>2 DEF Has
  <2>5. ASSUME NEW k \in DOMAIN m.items
        PROVE  m.items[k] \in DOMAIN m.index /\ m.index[m.items[k]] = k
    <3>1. CASE k = n + 1 BY <2>1, <2>3, <3>1
    <3>2. CASE k \in 1..n
      <4>1. c.items[k] \in DOMAIN c.index /\ c.index[c.items[k]] = k BY <2>2, <3>2 DEF Formed
      <4> QED BY <2>1, <2>3, <2>4, <3>2, <4>1
    <3> QED BY <2>2, <2>3, <3>1, <3>2
  <2>6. ASSUME NEW i \in DOMAIN m.index
        PROVE  m.index[i] \in DOMAIN m.items /\ m.items[m.index[i]] = i
    <3>1. CASE i = id BY <2>1, <2>2, <2>3, <3>1
    <3>2. CASE i # id
      <4>1. i \in DOMAIN c.index /\ m.index[i] = c.index[i] BY <2>1, <3>2
      <4>2. c.index[i] \in 1..n /\ c.items[c.index[i]] = i BY <2>2, <4>1 DEF Formed
      <4> QED BY <2>2, <2>3, <4>1, <4>2
    <3> QED BY <3>1, <3>2
  <2>7. m.index = [i \in DOMAIN m.index |-> m.index[i]] BY <2>1
  <2> HIDE DEF m
  <2>8. Formed(m) BY <2>1, <2>3, <2>5, <2>6, <2>7 DEF Formed
  <2> QED BY <2>8 DEF m
<1> QED BY <1>1, <1>2

(* A sequence without the element at one of its positions.                 *)
LEMMA RemoveAtSeq ==
  ASSUME NEW S, NEW s \in Seq(S), NEW at \in 1..Len(s)
  PROVE  /\ RemoveAt(s, at) \in Seq(S)
         /\ Len(RemoveAt(s, at)) = Len(s) - 1
         /\ \A k \in 1..(Len(s) - 1) :
              RemoveAt(s, at)[k] = IF k < at THEN s[k] ELSE s[k + 1]
<1> DEFINE a == SubSeq(s, 1, at - 1)
           b == SubSeq(s, at + 1, Len(s))
<1>1. a \in Seq(S) /\ Len(a) = at - 1 /\ \A k \in 1..(at - 1) : a[k] = s[k] OBVIOUS
<1>2. b \in Seq(S) /\ Len(b) = Len(s) - at /\ \A k \in 1..(Len(s) - at) : b[k] = s[at + k]
  OBVIOUS
<1>3. RemoveAt(s, at) = a \o b BY DEF RemoveAt
<1> HIDE DEF a, b
<1>4. a \o b \in Seq(S) /\ Len(a \o b) = Len(a) + Len(b)
  BY <1>1, <1>2, ConcatProperties
<1>5. \A k \in 1..(Len(s) - 1) : (a \o b)[k] = IF k < at THEN s[k] ELSE s[k + 1]
  <2> SUFFICES ASSUME NEW k \in 1..(Len(s) - 1)
               PROVE (a \o b)[k] = IF k < at THEN s[k] ELSE s[k + 1]
    OBVIOUS
  <2>0. (a \o b)[k] = IF k <= Len(a) THEN a[k] ELSE b[k - Len(a)]
    BY <1>1, <1>2, ConcatProperties
  <2>1. CASE k < at BY <1>1, <1>2, <2>0, <2>1
  <2>2. CASE ~(k < at)
    <3>1. k - (at - 1) \in 1..(Len(s) - at) /\ at + (k - (at - 1)) = k + 1 BY <2>2
    <3>2. (a \o b)[k] = b[k - (at - 1)] BY <1>1, <1>2, <2>0, <2>2
    <3> QED BY <1>2, <2>2, <3>1, <3>2
  <2> QED BY <2>1, <2>2
<1> QED BY <1>1, <1>2, <1>3, <1>4, <1>5

LEMMA RemoveDomain ==
  ASSUME NEW c, Formed(c), NEW id \in ItemIDs, Has(c, id)
  PROVE  DOMAIN RemoveItem(c, id).index = DOMAIN c.index \ {id}
<1> DEFINE n == Len(c.items)
           at == c.index[id]
           rest == RemoveAt(c.items, at)
           moved == {rest[k] : k \in at..Len(rest)}
<1>1. DOMAIN RemoveItem(c, id).index = (DOMAIN c.index \ {id}) \cup moved
  BY DEF RemoveItem
<1>2. c.items \in Seq(ItemIDs) /\ n \in Nat /\ DOMAIN c.items = 1..n BY DEF Formed
<1>3. at \in 1..n /\ c.items[at] = id BY <1>2 DEF Formed, Has
<1>4. /\ Len(rest) = n - 1
      /\ \A k \in 1..(n - 1) : rest[k] = IF k < at THEN c.items[k] ELSE c.items[k + 1]
  BY <1>2, <1>3, RemoveAtSeq
<1>5. \A k \in 1..n : c.items[k] \in DOMAIN c.index /\ c.index[c.items[k]] = k
  BY <1>2 DEF Formed
<1> HIDE DEF rest
<1>6. \A k \in at..(n - 1) : rest[k] \in DOMAIN c.index \ {id}
  BY <1>2, <1>3, <1>4, <1>5
<1> QED BY <1>1, <1>4, <1>6

LEMMA RemoveFormed ==
  ASSUME NEW c, Formed(c), NEW id \in ItemIDs PROVE Formed(RemoveItem(c, id))
<1>1. CASE ~Has(c, id) BY <1>1 DEF RemoveItem
<1>2. CASE Has(c, id)
  <2> DEFINE n == Len(c.items)
             at == c.index[id]
             rest == RemoveAt(c.items, at)
             moved == {rest[k] : k \in at..Len(rest)}
             m == RemoveItem(c, id)
  <2>1. /\ m.items = rest
        /\ m.index = [i \in (DOMAIN c.index \ {id}) \cup moved |->
                        IF i \in moved THEN CHOOSE k \in at..Len(rest) : rest[k] = i
                        ELSE c.index[i]]
        /\ m = [items |-> m.items, index |-> m.index]
    BY <1>2 DEF RemoveItem
  <2>2. c.items \in Seq(ItemIDs) /\ n \in Nat /\ DOMAIN c.items = 1..n BY DEF Formed
  <2>3. at \in 1..n /\ c.items[at] = id BY <1>2, <2>2 DEF Formed, Has
  <2>4. /\ rest \in Seq(ItemIDs) /\ Len(rest) = n - 1
        /\ \A k \in 1..(n - 1) : rest[k] = IF k < at THEN c.items[k] ELSE c.items[k + 1]
    BY <2>2, <2>3, RemoveAtSeq
  <2>5. DOMAIN rest = 1..(n - 1) BY <2>2, <2>4
  <2>6. \A k \in 1..n : c.items[k] \in DOMAIN c.index /\ c.index[c.items[k]] = k
    BY <2>2 DEF Formed
  <2> HIDE DEF rest
  <2>7. \A j, k \in 1..(n - 1) : rest[j] = rest[k] => j = k
    <3>1. ASSUME NEW k \in 1..(n - 1)
          PROVE  c.index[rest[k]] = IF k < at THEN k ELSE k + 1
      <4>1. k \in 1..n /\ k + 1 \in 1..n BY <2>2
      <4>2. CASE k < at
        <5>1. rest[k] = c.items[k] BY <2>4, <4>2
        <5> QED BY <2>6, <4>1, <4>2, <5>1
      <4>3. CASE ~(k < at)
        <5>1. rest[k] = c.items[k + 1] BY <2>4, <4>3
        <5> QED BY <2>6, <4>1, <4>3, <5>1
      <4> QED BY <4>2, <4>3
    <3> QED BY <2>3, <3>1
  <2>8. \A k \in 1..(n - 1) : rest[k] \in DOMAIN c.index \ {id}
    BY <2>2, <2>3, <2>4, <2>6
  <2>9. moved \subseteq DOMAIN c.index \ {id} BY <2>3, <2>4, <2>8
  <2>10. DOMAIN m.index = DOMAIN c.index \ {id} BY <2>1, <2>9
  <2>11. ASSUME NEW k \in 1..(n - 1) PROVE rest[k] \in DOMAIN m.index /\ m.index[rest[k]] = k
    <3>1. rest[k] \in DOMAIN m.index BY <2>8, <2>10
    <3>2. CASE k >= at
      <4>1. k \in at..Len(rest) /\ rest[k] \in moved BY <2>3, <2>4, <3>2
      <4>2. m.index[rest[k]] = CHOOSE j \in at..Len(rest) : rest[j] = rest[k]
        BY <2>1, <3>1, <4>1
      <4>3. (CHOOSE j \in at..Len(rest) : rest[j] = rest[k]) = k
        BY <2>3, <2>4, <2>7, <4>1
      <4> QED BY <3>1, <4>2, <4>3
    <3>3. CASE k < at
      <4>1. rest[k] \notin moved BY <2>3, <2>4, <2>7, <3>3
      <4>2. m.index[rest[k]] = c.index[rest[k]] BY <2>1, <3>1, <4>1
      <4>3. rest[k] = c.items[k] BY <2>4, <3>3
      <4> QED BY <2>2, <2>3, <2>6, <3>1, <3>3, <4>2, <4>3
    <3> QED BY <2>3, <3>2, <3>3
  <2>12. ASSUME NEW i \in DOMAIN m.index PROVE m.index[i] \in 1..(n - 1) /\ rest[m.index[i]] = i
    <3>1. i \in DOMAIN c.index /\ i # id BY <2>10
    <3>2. c.index[i] \in 1..n /\ c.items[c.index[i]] = i /\ c.index[i] # at
      BY <2>2, <2>3, <3>1 DEF Formed
    <3>3. PICK k \in 1..(n - 1) : rest[k] = i
      <4>1. CASE c.index[i] < at
        <5>1. c.index[i] \in 1..(n - 1) /\ rest[c.index[i]] = i BY <2>2, <2>3, <2>4, <3>2, <4>1
        <5> QED BY <5>1
      <4>2. CASE c.index[i] > at
        <5>0. \A x, y, z \in Nat : x \in 1..y /\ z \in 1..y /\ x > z
                => x - 1 \in 1..(y - 1) /\ ~(x - 1 < z) /\ (x - 1) + 1 = x
          OBVIOUS
        <5>1. c.index[i] - 1 \in 1..(n - 1) /\ ~(c.index[i] - 1 < at)
              /\ (c.index[i] - 1) + 1 = c.index[i]
          <6> HIDE DEF at, n
          <6>1. c.index[i] \in Nat /\ n \in Nat /\ at \in Nat BY <2>2, <2>3, <3>2
          <6> QED BY <2>3, <3>2, <4>2, <5>0, <6>1
        <5>2. rest[c.index[i] - 1] = c.items[(c.index[i] - 1) + 1] BY <2>4, <5>1
        <5> QED BY <3>2, <5>1, <5>2
      <4> QED BY <2>2, <2>3, <3>2, <4>1, <4>2
    <3> QED BY <2>11, <3>3
  <2>13. m.index = [i \in DOMAIN m.index |-> m.index[i]] BY <2>1
  <2> HIDE DEF m
  <2>14. Formed(m) BY <2>1, <2>4, <2>5, <2>11, <2>12, <2>13 DEF Formed
  <2> QED BY <2>14 DEF m
<1> QED BY <1>1, <1>2

LEMMA ReplaceFormed ==
  ASSUME NEW items \in ItemLists PROVE Formed(ReplaceItems(items))
<1> DEFINE m == ReplaceItems(items)
<1>1. items \in Seq(ItemIDs) /\ \A j, k \in DOMAIN items : items[j] = items[k] => j = k
  BY DEF ItemLists, SeqOf, IsInjective
<1>2. /\ m.items = items /\ m = [items |-> m.items, index |-> m.index]
      /\ m.index = [i \in {items[k] : k \in DOMAIN items} |->
                      CHOOSE k \in DOMAIN items : items[k] = i]
  BY DEF ReplaceItems
<1>3. ASSUME NEW k \in DOMAIN items
      PROVE  items[k] \in DOMAIN m.index /\ m.index[items[k]] = k
  <2>1. items[k] \in DOMAIN m.index BY <1>2
  <2>2. m.index[items[k]] = CHOOSE j \in DOMAIN items : items[j] = items[k] BY <1>2, <2>1
  <2>3. (CHOOSE j \in DOMAIN items : items[j] = items[k]) = k BY <1>1
  <2> QED BY <2>1, <2>2, <2>3
<1>4. \A i \in DOMAIN m.index : \E k \in DOMAIN items : items[k] = i BY <1>2
<1>5. m.index = [i \in DOMAIN m.index |-> m.index[i]] BY <1>2
<1> HIDE DEF m
<1>6. Formed(m) BY <1>1, <1>2, <1>3, <1>4, <1>5 DEF Formed
<1> QED BY <1>6 DEF m

(* Whatever is inserted, removed and replaced, every item of an ordered    *)
(* collection is found at its position and nothing else is found.          *)
THEOREM CollectionIndexExact == CollectionSpec => []IndexExact
<1> DEFINE CollFormed == Formed(coll)
<1>1. CollectionInit => CollFormed
  BY DEF CollectionInit, EmptyCollection, Formed
<1>2. CollFormed /\ [CollectionNext]_coll => CollFormed'
  <2> SUFFICES ASSUME Formed(coll), CollectionNext PROVE Formed(coll')
    OBVIOUS
  <2>1. PICK op \in ItemMutations : coll' = Mutated(coll, op) BY DEF CollectionNext
  <2>2. CASE op.kind = "insert"
    <3>1. op.arg \in ItemIDs BY <2>2 DEF ItemMutations
    <3> QED BY <2>1, <2>2, <3>1, InsertFormed DEF Mutated
  <2>3. CASE op.kind = "remove"
    <3>1. op.arg \in ItemIDs BY <2>3 DEF ItemMutations
    <3> QED BY <2>1, <2>3, <3>1, RemoveFormed DEF Mutated
  <2>4. CASE op.kind = "replace"
    <3>1. op.arg \in ItemLists BY <2>4 DEF ItemMutations
    <3> QED BY <2>1, <2>4, <3>1, ReplaceFormed DEF Mutated
  <2>5. CASE op.kind \notin {"insert", "remove", "replace"} BY <2>1, <2>5 DEF Mutated
  <2> QED BY <2>2, <2>3, <2>4, <2>5
<1>3. CollFormed => IndexExact BY DEF Formed, IndexExact
<1> HIDE DEF CollFormed
<1> QED BY <1>1, <1>2, <1>3, PTL DEF CollectionSpec

-----------------------------------------------------------------------------
(* A binder that is abreast of the collection c.                           *)
Abreast(b, c) ==
  /\ b = [on |-> TRUE, children |-> b.children, order |-> b.order]
  /\ b.children = DOMAIN c.index
  /\ b.order = c.items

LEMMA AbreastRecord ==
  ASSUME NEW c, NEW children, NEW order, children = DOMAIN c.index, order = c.items
  PROVE  Abreast([on |-> TRUE, children |-> children, order |-> order], c)
BY DEF Abreast

(* RemoveFirst finds an item where the index has it.                       *)
LEMMA RemoveFirstIndexed ==
  ASSUME NEW c, Formed(c), NEW id \in DOMAIN c.index
  PROVE  RemoveFirst(c.items, id) = RemoveAt(c.items, c.index[id])
<1> DEFINE I == {k \in 1..Len(c.items) : c.items[k] = id}
<1>1. I = {c.index[id]} BY DEF Formed
<1>2. c.index[id] \in Nat BY DEF Formed
<1> HIDE DEF I
<1>3. I # {} /\ Min(I) = c.index[id] BY <1>1, <1>2 DEF Min
<1>4. SelectInSeq(c.items, LAMBDA v : v = id) = IF I # {} THEN Min(I) ELSE 0
  BY DEF SelectInSeq, I
<1>5. \E k \in 1..Len(c.items) : c.items[k] = id BY <1>3 DEF I
<1> QED BY <1>3, <1>4, <1>5 DEF RemoveFirst

(* A binder that is abreast and applies the event of a mutation is abreast *)
(* of the collection after it: events that are delivered in their order    *)
(* carry all that the binder needs.                                        *)
THEOREM BinderFollows ==
  ASSUME NEW c, Formed(c), NEW b, Abreast(b, c), NEW op \in ItemMutations
  PROVE  Abreast(BinderApply(b, MutationEvent(c, op), Mutated(c, op).items), Mutated(c, op))
<1>0. b.on = TRUE BY DEF Abreast
<1>1. CASE op.kind = "insert"
  <2>1. op.arg \in ItemIDs /\ Mutated(c, op) = InsertItem(c, op.arg)
        /\ MutationEvent(c, op) = InsertEvent(c, op.arg)
    BY <1>1 DEF ItemMutations, Mutated, MutationEvent
  <2>2. CASE Has(c, op.arg)
    BY <1>0, <2>1, <2>2 DEF InsertItem, InsertEvent, Noted, BinderApply, Abreast
  <2>3. CASE ~Has(c, op.arg)
    <3>1. /\ InsertEvent(c, op.arg).kind = "insert" /\ InsertEvent(c, op.arg).id = op.arg
          /\ InsertEvent(c, op.arg).at = Len(c.items) + 1
      BY <2>3 DEF InsertEvent, Noted
    <3>2. BinderApply(b, InsertEvent(c, op.arg), InsertItem(c, op.arg).items)
            = InsertChild(b, op.arg, Len(c.items) + 1)
      BY <1>0, <3>1 DEF BinderApply
    <3>3. op.arg \notin b.children /\ b.order = c.items /\ Len(c.items) \in Nat
      BY <2>3 DEF Abreast, Has, Formed
    <3>4. InsertChild(b, op.arg, Len(c.items) + 1)
            = [on |-> TRUE, children |-> b.children \cup {op.arg},
               order |-> Append(c.items, op.arg)]
      <4>1. Len(c.items) + 1 > Len(b.order) BY <3>3
      <4>2. (IF Len(c.items) + 1 > Len(b.order) THEN Append(b.order, op.arg)
             ELSE InsertAt(b.order, Len(c.items) + 1, op.arg)) = Append(c.items, op.arg)
        BY <3>3, <4>1
      <4> QED BY <1>0, <3>3, <4>2 DEF InsertChild
    <3>5. b.children = DOMAIN c.index BY DEF Abreast
    <3>6. /\ DOMAIN InsertItem(c, op.arg).index = b.children \cup {op.arg}
          /\ InsertItem(c, op.arg).items = Append(c.items, op.arg)
      BY <2>3, <3>5 DEF InsertItem
    <3> QED BY <2>1, <3>2, <3>4, <3>6, AbreastRecord
  <2> QED BY <2>2, <2>3
<1>2. CASE op.kind = "remove"
  <2>1. op.arg \in ItemIDs /\ Mutated(c, op) = RemoveItem(c, op.arg)
        /\ MutationEvent(c, op) = RemoveEvent(c, op.arg)
    BY <1>2 DEF ItemMutations, Mutated, MutationEvent
  <2>2. CASE ~Has(c, op.arg)
    BY <1>0, <2>1, <2>2 DEF RemoveItem, RemoveEvent, Skipped, Noted, BinderApply, Abreast
  <2>3. CASE Has(c, op.arg)
    <3>1. RemoveEvent(c, op.arg).kind = "remove" /\ RemoveEvent(c, op.arg).id = op.arg
      BY <2>3 DEF RemoveEvent, Noted
    <3>2. BinderApply(b, RemoveEvent(c, op.arg), RemoveItem(c, op.arg).items)
            = RemoveChild(b, op.arg)
      BY <1>0, <3>1 DEF BinderApply
    <3>3. RemoveChild(b, op.arg) = [on |-> TRUE, children |-> b.children \ {op.arg},
                                    order |-> RemoveFirst(c.items, op.arg)]
      BY <1>0, <2>3 DEF RemoveChild, Abreast, Has
    <3>4. RemoveFirst(c.items, op.arg) = RemoveItem(c, op.arg).items
      BY <2>3, RemoveFirstIndexed DEF RemoveItem, Has
    <3>5. DOMAIN RemoveItem(c, op.arg).index = DOMAIN c.index \ {op.arg}
      BY <2>1, <2>3, RemoveDomain
    <3>6. b.children = DOMAIN c.index BY DEF Abreast
    <3> QED BY <2>1, <3>2, <3>3, <3>4, <3>5, <3>6, AbreastRecord
  <2> QED BY <2>2, <2>3
<1>3. CASE op.kind = "update"
  <2>1. Mutated(c, op) = c /\ MutationEvent(c, op) = UpdateEvent(c, op.arg)
    BY <1>3 DEF Mutated, MutationEvent
  <2> QED BY <1>0, <2>1 DEF UpdateEvent, Skipped, Noted, BinderApply
<1>4. CASE op.kind = "replace"
  <2>1. Mutated(c, op) = ReplaceItems(op.arg) /\ MutationEvent(c, op).kind = "replace"
    BY <1>4 DEF Mutated, MutationEvent, Noted
  <2>2. BinderApply(b, MutationEvent(c, op), op.arg) = Reconcile(op.arg)
    BY <1>0, <2>1 DEF BinderApply
  <2>3. /\ ReplaceItems(op.arg).items = op.arg
        /\ DOMAIN ReplaceItems(op.arg).index = {op.arg[k] : k \in DOMAIN op.arg}
    BY DEF ReplaceItems
  <2>4. Reconcile(op.arg) = [on |-> TRUE, children |-> {op.arg[k] : k \in DOMAIN op.arg},
                             order |-> op.arg]
    BY DEF Reconcile
  <2>5. Abreast(Reconcile(op.arg), ReplaceItems(op.arg)) BY <2>3, <2>4, AbreastRecord
  <2> QED BY <2>1, <2>2, <2>3, <2>5
<1> QED BY <1>1, <1>2, <1>3, <1>4 DEF ItemMutations
=============================================================================
