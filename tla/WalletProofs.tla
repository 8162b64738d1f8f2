---------------------------- MODULE WalletProofs ----------------------------
(* Proofs about Wallet, for any tree of wallets, any capacities and word   *)
(* size and any batches: types, conservation of the charges, and that no   *)
(* wallet, partitioned or not, ever holds more than its capacity.          *)
EXTENDS Wallet, Sums

USE WalletConstants

-----------------------------------------------------------------------------
(* Words and trees.                                                        *)

LEMMA WordType == ASSUME NEW n \in Int PROVE Word(n) \in 0..MaxUint
BY DEF Word

LEMMA WordSmall == ASSUME NEW n \in 0..MaxUint PROVE Word(n) = n
BY DEF Word

LEMMA WordWrap == ASSUME NEW n \in 0..MaxUint PROVE Word(n + MaxUint + 1) = n
BY DEF Word

ParentType == parent \in [Wallets -> Wallets \cup {NoWallet}]

LEMMA OwnersLeast ==
  ASSUME NEW w \in Wallets
  PROVE  /\ w \in Owners(w) /\ Owners(w) \subseteq Wallets
         /\ \A S \in SUBSET Wallets : w \in S /\ UpwardClosed(S) => Owners(w) \subseteq S
BY DEF Owners

LEMMA OwnersClosed ==
  ASSUME ParentType, NEW w \in Wallets
  PROVE  UpwardClosed(Owners(w))
<1> SUFFICES ASSUME NEW u \in Owners(w), parent[u] # NoWallet PROVE parent[u] \in Owners(w)
  BY DEF UpwardClosed
<1>1. u \in Wallets /\ parent[u] \in Wallets BY DEF ParentType, Owners
<1>2. ASSUME NEW S \in SUBSET Wallets, w \in S, UpwardClosed(S) PROVE parent[u] \in S
  <2>1. u \in S BY <1>2 DEF Owners
  <2>2. QED BY <1>2, <2>1 DEF UpwardClosed
<1>3. QED BY <1>1, <1>2 DEF Owners

LEMMA OwnersUp ==
  ASSUME ParentType, NEW w \in Wallets, NEW u \in Owners(w)
  PROVE  Owners(u) \subseteq Owners(w)
<1>1. u \in Wallets /\ Owners(w) \in SUBSET Wallets BY OwnersLeast
<1>2. QED BY <1>1, OwnersClosed, OwnersLeast

(* An owner other than w itself is the parent of another owner.            *)
LEMMA OwnersDown ==
  ASSUME ParentType, NEW w \in Wallets, NEW u \in Owners(w), u # w
  PROVE  \E y \in Owners(w) : parent[y] = u
<1> SUFFICES ASSUME \A y \in Owners(w) : parent[y] # u PROVE FALSE
  OBVIOUS
<1> DEFINE S == Owners(w) \ {u}
<1>1. S \in SUBSET Wallets /\ w \in S BY OwnersLeast
<1>2. UpwardClosed(S) BY OwnersClosed DEF UpwardClosed
<1>3. QED BY <1>1, <1>2, OwnersLeast

LEMMA OwnersOfKid ==
  ASSUME ParentType, NEW c \in Wallets, parent[c] # NoWallet
  PROVE  Owners(c) = {c} \cup Owners(parent[c])
<1>0. parent[c] \in Wallets BY DEF ParentType
<1> DEFINE S == {c} \cup Owners(parent[c])
<1>1. S \in SUBSET Wallets /\ parent[c] \in S BY <1>0, OwnersLeast
<1>2. UpwardClosed(S) BY <1>0, <1>1, OwnersClosed DEF UpwardClosed
<1>3. Owners(c) \subseteq S BY <1>1, <1>2, OwnersLeast
<1>4. c \in Owners(c) /\ parent[c] \in Owners(c)
  BY <1>0, OwnersLeast, OwnersClosed DEF UpwardClosed
<1>5. Owners(parent[c]) \subseteq Owners(c) BY <1>4, OwnersUp
<1>6. QED BY <1>3, <1>4, <1>5

(* The owners of a wallet form a chain.                                    *)
LEMMA OwnersChain ==
  ASSUME ParentType, NEW w \in Wallets, NEW x \in Owners(w), NEW y \in Owners(w)
  PROVE  y \in Owners(x) \/ x \in Owners(y)
<1> DEFINE S == {u \in Owners(w) : \A v \in Owners(w) : v \in Owners(u) \/ u \in Owners(v)}
<1>1. S \in SUBSET Wallets /\ w \in S BY OwnersLeast
<1>2. ASSUME NEW u \in S, parent[u] # NoWallet PROVE parent[u] \in S
  <2>0. u \in Wallets /\ parent[u] \in Owners(w) /\ Owners(u) = {u} \cup Owners(parent[u])
        /\ parent[u] \in Wallets
    BY <1>1, <1>2, OwnersClosed, OwnersOfKid DEF UpwardClosed, ParentType
  <2>1. ASSUME NEW v \in Owners(w) PROVE v \in Owners(parent[u]) \/ parent[u] \in Owners(v)
    <3>0. v \in Wallets BY OwnersLeast
    <3>1. CASE u \in Owners(v) BY <1>2, <3>0, <3>1, OwnersClosed DEF UpwardClosed
    <3>2. CASE v \in Owners(u) BY <2>0, <3>1, <3>2, <3>0, OwnersLeast, OwnersClosed DEF UpwardClosed
    <3>3. QED BY <3>1, <3>2
  <2>2. QED BY <2>0, <2>1
<1>3. UpwardClosed(S)
  <2> HIDE DEF S
  <2>1. QED BY <1>2 DEF UpwardClosed
<1>4. Owners(w) \subseteq S
  <2> HIDE DEF S
  <2>1. QED BY <1>1, <1>3, OwnersLeast
<1>5. QED BY <1>4

(* No wallet is among its own ancestors: every set of wallets has one      *)
(* with no child in the set.                                               *)
Grounded == \A S \in SUBSET Wallets : S # {} => \E x \in S : \A y \in S : parent[y] # x

LEMMA KidAbove ==
  ASSUME ParentType, Grounded, NEW c \in Wallets, parent[c] # NoWallet
  PROVE  c \notin Owners(parent[c])
<1> SUFFICES ASSUME c \in Owners(parent[c]) PROVE FALSE
  OBVIOUS
<1> DEFINE w == parent[c]
           S == {x \in Owners(w) : w \in Owners(x)}
<1>0. w \in Wallets BY DEF ParentType
<1>1. S \in SUBSET Wallets /\ w \in S BY <1>0, OwnersLeast
<1>2. ASSUME NEW x \in S PROVE \E y \in S : parent[y] = x
  <2>1. CASE x = w
    <3>1. w \in Owners(c) BY <1>0, OwnersLeast, OwnersOfKid
    <3>2. QED BY <2>1, <3>1
  <2>2. CASE x # w
    <3>1. PICK y \in Owners(w) : parent[y] = x BY <1>0, <1>2, <2>2, OwnersDown
    <3>2. y \in Wallets /\ x \in Wallets BY <1>0, <1>1, <1>2, <3>1, OwnersLeast
    <3>3. Owners(y) = {y} \cup Owners(x) BY <3>1, <3>2, OwnersOfKid
    <3>4. QED BY <1>2, <3>1, <3>3
  <2>3. QED BY <2>1, <2>2
<1> HIDE DEF S
<1>3. PICK x \in S : \A y \in S : parent[y] # x BY <1>1 DEF Grounded
<1>4. QED BY <1>2, <1>3

Kids(w) == {c \in Wallets : parent[c] = w}

(* Below a wallet w that owns o, o itself excepted, is exactly one child   *)
(* of w that owns o.                                                       *)
LEMMA OneKid ==
  ASSUME ParentType, Grounded, NEW o \in Wallets, NEW w \in Owners(o), w # o
  PROVE  \E c \in Kids(w) : /\ c \in Owners(o)
                            /\ \A d \in Kids(w) : d \in Owners(o) => d = c
<1>0. w \in Wallets BY OwnersLeast
<1>1. PICK c \in Owners(o) : parent[c] = w BY OwnersDown
<1>2. c \in Kids(w) BY <1>1, OwnersLeast DEF Kids
<1>3. ASSUME NEW d \in Kids(w), d \in Owners(o) PROVE d = c
  <2>1. d \in Wallets /\ c \in Wallets /\ parent[d] = w /\ parent[c] = w /\ w # NoWallet
    BY <1>0, <1>2 DEF Kids
  <2>2. Owners(d) = {d} \cup Owners(w) /\ Owners(c) = {c} \cup Owners(w) BY <2>1, OwnersOfKid
  <2>3. d \notin Owners(w) /\ c \notin Owners(w) BY <2>1, KidAbove
  <2>4. c \in Owners(d) \/ d \in Owners(c) BY <1>3, OwnersChain
  <2>5. QED BY <2>2, <2>3, <2>4
<1>4. QED BY <1>1, <1>2, <1>3

-----------------------------------------------------------------------------
(* What a wallet holds.                                                    *)

Size == [id \in DOMAIN allocations |-> allocations[id].bytes]

OfWallet(w) == {id \in DOMAIN allocations : w \in Owners(allocations[id].owner)}

InState(w, s) ==
  {id \in DOMAIN allocations : w \in Owners(allocations[id].owner) /\ allocations[id].state = s}

HeldBy(w) == SumFunctionOnSet(Size, OfWallet(w))

AllocType ==
  /\ nextID \in 0..MaxAllocs
  /\ DOMAIN allocations \subseteq 1..nextID
  /\ \A id \in DOMAIN allocations :
        allocations[id] \in [owner : Wallets, bytes : 1..MaxUint, state : Charges]

LEMMA AllocsFinite ==
  ASSUME AllocType
  PROVE  /\ \A D \in SUBSET DOMAIN allocations : IsFiniteSet(D)
         /\ \A id \in DOMAIN allocations : Size[id] \in 1..MaxUint /\ Size[id] \in Nat /\ Size[id] \in Int
<1>1. nextID \in Int /\ 1 \in Int BY DEF AllocType
<1>2. IsFiniteSet(1..nextID) BY <1>1, FS_Interval
<1>3. \A D \in SUBSET DOMAIN allocations : D \in SUBSET (1..nextID) BY DEF AllocType
<1>4. \A D \in SUBSET DOMAIN allocations : IsFiniteSet(D) BY <1>2, <1>3, FS_Subset
<1>5. \A id \in DOMAIN allocations : Size[id] \in 1..MaxUint BY DEF AllocType, Size
<1>6. QED BY <1>4, <1>5

LEMMA HeldIsBooked ==
  ASSUME AllocType, NEW w \in Wallets
  PROVE  /\ \A s \in Charges : Booked(w, s) = SumFunctionOnSet(Size, InState(w, s))
                               /\ Booked(w, s) \in Nat /\ Booked(w, s) <= HeldBy(w)
         /\ HeldBy(w) \in Nat
         /\ HeldBy(w) = Booked(w, "reserved") + Booked(w, "live") + Booked(w, "retiring")
<1>1. \A s \in Charges : Booked(w, s) = SumFunctionOnSet(Size, InState(w, s))
  BY DEF Booked, Size, InState
<1> DEFINE R == InState(w, "reserved")
           L == InState(w, "live")
           T == InState(w, "retiring")
<1>2. /\ R \in SUBSET DOMAIN allocations /\ L \in SUBSET DOMAIN allocations
      /\ T \in SUBSET DOMAIN allocations /\ R \cup L \in SUBSET DOMAIN allocations
      /\ OfWallet(w) \in SUBSET DOMAIN allocations
      /\ \A s \in Charges : InState(w, s) \in SUBSET OfWallet(w)
  BY DEF InState, OfWallet
<1>3. R \cap L = {} /\ (R \cup L) \cap T = {} BY DEF InState
<1>4. (R \cup L) \cup T = OfWallet(w)
  BY DEF InState, OfWallet, AllocType, Charges
<1>5. /\ IsFiniteSet(R) /\ IsFiniteSet(L) /\ IsFiniteSet(T) /\ IsFiniteSet(R \cup L)
      /\ IsFiniteSet(OfWallet(w))
  BY <1>2, AllocsFinite
<1>6. \A id \in DOMAIN allocations : Size[id] \in Nat /\ Size[id] \in Int BY AllocsFinite
<1>7. \A id \in OfWallet(w) : Size[id] \in Nat /\ Size[id] \in Int BY <1>2, <1>6
<1>8. HeldBy(w) \in Nat BY <1>5, <1>7, SumNonNegative DEF HeldBy
<1>9. ASSUME NEW s \in Charges
      PROVE  SumFunctionOnSet(Size, InState(w, s)) \in Nat
             /\ SumFunctionOnSet(Size, InState(w, s)) <= HeldBy(w)
  <2>1. InState(w, s) \in SUBSET OfWallet(w) BY <1>2
  <2>2. IsFiniteSet(InState(w, s)) BY <1>5, <2>1, FS_Subset
  <2>3. \A id \in InState(w, s) : Size[id] \in Nat BY <1>7, <2>1
  <2>4. SumFunctionOnSet(Size, InState(w, s)) \in Nat BY <2>2, <2>3, SumNonNegative
  <2>5. SumFunctionOnSet(Size, InState(w, s)) <= HeldBy(w)
    BY <1>5, <1>7, <2>1, SumSubset DEF HeldBy
  <2>6. QED BY <2>4, <2>5
<1>10. SumFunctionOnSet(Size, R \cup L) = SumFunctionOnSet(Size, R) + SumFunctionOnSet(Size, L)
  <2> HIDE DEF R, L
  <2>1. \A id \in R \cup L : Size[id] \in Int BY <1>2, <1>6
  <2>2. QED BY <1>3, <1>5, <2>1, SumDisjoint
<1>11. HeldBy(w) = SumFunctionOnSet(Size, R \cup L) + SumFunctionOnSet(Size, T)
  <2> DEFINE Q == R \cup L
  <2>0. IsFiniteSet(Q) /\ IsFiniteSet(T) /\ Q \cap T = {} /\ Q \cup T = OfWallet(w) BY <1>3, <1>4, <1>5
  <2> HIDE DEF Q, T
  <2>1. \A id \in Q \cup T : Size[id] \in Int BY <1>7, <2>0
  <2>2. SumFunctionOnSet(Size, Q \cup T) = SumFunctionOnSet(Size, Q) + SumFunctionOnSet(Size, T)
    BY ONLY <2>0, <2>1, SumDisjoint
  <2>3. QED BY <2>0, <2>2 DEF HeldBy, Q
<1>12. \A s \in {"reserved", "live", "retiring"} : s \in Charges BY DEF Charges
<1>13. HeldBy(w) = Booked(w, "reserved") + Booked(w, "live") + Booked(w, "retiring")
  BY <1>1, <1>9, <1>10, <1>11, <1>12
<1>14. QED BY <1>1, <1>8, <1>9, <1>13

-----------------------------------------------------------------------------
(* The tree: a partition hands out all of its capacity, and only leaves    *)
(* own allocations, within their capacity.                                 *)

CapType == cap \in [Wallets -> 0..MaxUint] /\ partitioned \subseteq Wallets

TreeInv ==
  /\ Grounded
  /\ \A c \in Wallets : parent[c] # NoWallet => parent[c] \in partitioned /\ cap[c] > 0
  /\ \A w \in partitioned : cap[w] > 0
  /\ \A w \in partitioned : SumFunctionOnSet(cap, Kids(w)) = cap[w]

LeafOwners == \A id \in DOMAIN allocations : allocations[id].owner \notin partitioned

LeafWithin == \A w \in Wallets \ partitioned : HeldBy(w) <= cap[w]

LEMMA KidsFinite == IsFiniteSet(Wallets) /\ \A w : IsFiniteSet(Kids(w))
<1>1. IsFiniteSet({Root}) BY FS_Singleton
<1>2. IsFiniteSet(Wallets) BY <1>1, FS_Union DEF Wallets
<1>3. \A w : Kids(w) \in SUBSET Wallets BY DEF Kids
<1>4. QED BY <1>2, <1>3, FS_Subset

(* A partitioned wallet holds what its children hold together.             *)
LEMMA HeldByKids ==
  ASSUME ParentType, AllocType, TreeInv, LeafOwners, NEW w \in partitioned, w \in Wallets
  PROVE  HeldBy(w) = SumFunctionOnSet([c \in Kids(w) |-> HeldBy(c)], Kids(w))
<1>0. Grounded BY DEF TreeInv
<1> DEFINE Below(id, c) == c \in Kids(w) /\ c \in Owners(allocations[id].owner)
           p == [id \in OfWallet(w) |-> CHOOSE c : Below(id, c)]
<1>1. ASSUME NEW id \in OfWallet(w)
      PROVE  /\ p[id] \in Kids(w) /\ p[id] \in Owners(allocations[id].owner)
             /\ \A d \in Kids(w) : d \in Owners(allocations[id].owner) => d = p[id]
  <2> DEFINE o == allocations[id].owner
  <2>1. id \in DOMAIN allocations /\ o \in Wallets /\ w \in Owners(o) BY DEF OfWallet, AllocType
  <2>2. w # o BY <2>1 DEF LeafOwners
  <2> HIDE DEF o
  <2>3. PICK c \in Kids(w) : /\ c \in Owners(o) /\ \A d \in Kids(w) : d \in Owners(o) => d = c
    BY <1>0, <2>1, <2>2, OneKid
  <2>4. Below(id, c) BY <2>3 DEF o
  <2>5. Below(id, CHOOSE d : Below(id, d)) BY <2>4
  <2>6. p[id] = CHOOSE d : Below(id, d) OBVIOUS
  <2>7. QED BY <2>3, <2>5, <2>6 DEF o
<1>2. p \in [OfWallet(w) -> Kids(w)]
  <2>1. \A id \in OfWallet(w) : (CHOOSE c : Below(id, c)) \in Kids(w) BY <1>1
  <2>2. QED BY <2>1
<1> HIDE DEF p
<1>3. ASSUME NEW c \in Kids(w) PROVE {id \in OfWallet(w) : p[id] = c} = OfWallet(c)
  <2>1. c \in Wallets /\ parent[c] = w /\ w # NoWallet BY DEF Kids
  <2>2. ASSUME NEW id \in OfWallet(w), p[id] = c PROVE id \in OfWallet(c)
    BY <1>1, <2>2 DEF OfWallet
  <2>3. ASSUME NEW id \in OfWallet(c) PROVE id \in OfWallet(w) /\ p[id] = c
    <3>1. id \in DOMAIN allocations /\ allocations[id].owner \in Wallets
          /\ c \in Owners(allocations[id].owner)
      BY DEF OfWallet, AllocType
    <3>2. w \in Owners(allocations[id].owner) BY <2>1, <3>1, OwnersClosed DEF UpwardClosed
    <3>3. id \in OfWallet(w) BY <3>1, <3>2 DEF OfWallet
    <3>4. QED BY <1>1, <3>1, <3>3
  <2>4. QED BY <2>2, <2>3
<1>4. OfWallet(w) \in SUBSET DOMAIN allocations BY DEF OfWallet
<1>5. IsFiniteSet(OfWallet(w)) /\ \A id \in OfWallet(w) : Size[id] \in Int BY <1>4, AllocsFinite
<1>6. HeldBy(w) = SumFunctionOnSet(
                    [c \in Kids(w) |-> SumFunctionOnSet(Size, {id \in OfWallet(w) : p[id] = c})],
                    Kids(w))
  BY <1>2, <1>5, KidsFinite, SumByClass DEF HeldBy
<1>7. [c \in Kids(w) |-> SumFunctionOnSet(Size, {id \in OfWallet(w) : p[id] = c})]
      = [c \in Kids(w) |-> HeldBy(c)]
  BY <1>3 DEF HeldBy
<1>8. QED BY <1>6, <1>7

(* What the leaves keep, every wallet keeps: of the wallets over their     *)
(* capacity one would have no child among them.                            *)
LEMMA AllWithin ==
  ASSUME ParentType, CapType, AllocType, TreeInv, LeafOwners, LeafWithin
  PROVE  \A w \in Wallets : HeldBy(w) <= cap[w]
<1> DEFINE B == {w \in Wallets : ~(HeldBy(w) <= cap[w])}
<1> SUFFICES ASSUME B # {} PROVE FALSE
  OBVIOUS
<1>1. PICK w \in B : \A y \in B : parent[y] # w BY DEF TreeInv, Grounded
<1>2. w \in Wallets /\ w \in partitioned BY DEF LeafWithin
<1> DEFINE H == [c \in Kids(w) |-> HeldBy(c)]
<1>3. \A c \in Kids(w) : c \in Wallets /\ HeldBy(c) <= cap[c] BY <1>1 DEF Kids
<1>4. \A c \in Kids(w) : H[c] \in Int /\ cap[c] \in Int /\ H[c] <= cap[c]
  BY <1>3, HeldIsBooked DEF CapType
<1>5. HeldBy(w) = SumFunctionOnSet(H, Kids(w)) BY <1>2, HeldByKids
<1> HIDE DEF H
<1>6. SumFunctionOnSet(H, Kids(w)) <= SumFunctionOnSet(cap, Kids(w)) BY <1>4, KidsFinite, SumMonotone
<1>7. SumFunctionOnSet(cap, Kids(w)) = cap[w] BY <1>2 DEF TreeInv
<1>8. QED BY <1>2, <1>5, <1>6, <1>7

(* The same facts in a form that also speaks of the next state.            *)
AllHeld == \A w \in Wallets : HeldBy(w) <= cap[w]

AllBooked ==
  \A w \in Wallets :
     /\ \A s \in Charges : /\ Booked(w, s) = SumFunctionOnSet(Size, InState(w, s))
                           /\ Booked(w, s) \in Nat /\ Booked(w, s) <= HeldBy(w)
     /\ HeldBy(w) \in Nat
     /\ HeldBy(w) = Booked(w, "reserved") + Booked(w, "live") + Booked(w, "retiring")

LEMMA Holds ==
  ParentType /\ CapType /\ AllocType /\ TreeInv /\ LeafOwners /\ LeafWithin => AllHeld
BY AllWithin DEF AllHeld

LEMMA Books == AllocType => AllBooked
BY HeldIsBooked DEF AllBooked

ChargeType == charge \in [Wallets -> [Charges -> 0..MaxUint]]

(* Everything but the counters, and then the counters.                     *)
PlacesInv == ParentType /\ CapType /\ AllocType /\ TreeInv /\ LeafOwners /\ LeafWithin

WalletInv == PlacesInv /\ ChargeType /\ Conservation

LEMMA InvInit == Init => WalletInv
<1> SUFFICES ASSUME Init PROVE WalletInv
  OBVIOUS
<1> USE DEF Init, NewWallet
<1>1. ParentType BY DEF ParentType
<1>2. CapType BY DEF CapType
<1>3. AllocType BY DEF AllocType
<1>4. ChargeType BY DEF ChargeType
<1>5. TreeInv
  <2>1. Grounded BY DEF Grounded, Wallets
  <2>2. QED BY <2>1 DEF TreeInv
<1>6. DOMAIN allocations = {} OBVIOUS
<1>7. LeafOwners BY <1>6 DEF LeafOwners
<1>8. \A w : OfWallet(w) = {} BY <1>6 DEF OfWallet
<1>9. \A w : HeldBy(w) = 0 BY <1>8, SumEmpty DEF HeldBy
<1>10. LeafWithin BY <1>2, <1>9 DEF LeafWithin, CapType
<1>11. Conservation
  <2>1. \A w \in Wallets, s \in Charges : Booked(w, s) \in Nat /\ Booked(w, s) <= 0
    BY <1>3, <1>9, Books DEF AllBooked
  <2>2. QED BY <2>1 DEF Conservation
<1>12. QED BY <1>1, <1>2, <1>3, <1>4, <1>5, <1>7, <1>10, <1>11 DEF WalletInv, PlacesInv

(* Partition happens before the first reservation: it shapes the tree.     *)
LEMMA PartitionStep ==
  ASSUME WalletInv, NEW w \in Wallets, NEW C \in SUBSET Children,
         NEW share \in [C -> 1..Capacity], Partition(w, share)
  PROVE  WalletInv'
<1> USE DEF WalletInv, PlacesInv
<1>0. /\ DOMAIN share = C /\ cap[w] > 0 /\ w \notin partitioned
      /\ \A c \in C : cap[c] = 0 /\ c \in Wallets /\ share[c] > 0
      /\ nextID = 0 /\ SumFunctionOnSet(share, C) = cap[w]
      /\ cap' = [c \in Wallets |-> IF c \in C THEN share[c] ELSE cap[c]]
      /\ parent' = [c \in Wallets |-> IF c \in C THEN w ELSE parent[c]]
      /\ partitioned' = partitioned \cup {w}
      /\ UNCHANGED <<charge, nextID, allocations>>
  BY DEF Partition, SumFunction, Wallets
<1>1. ParentType' BY <1>0 DEF ParentType
<1>2. CapType' BY <1>0 DEF CapType
<1>3. AllocType' /\ ChargeType' BY <1>0 DEF AllocType, ChargeType
<1>4. w \notin C /\ \A c \in C : parent[c] = NoWallet /\ (\A z \in Wallets : parent[z] # c)
  BY <1>0 DEF TreeInv
<1>5. Kids(w) = {} BY <1>0 DEF TreeInv, Kids
<1>6. Grounded'
  <2> SUFFICES ASSUME NEW S \in SUBSET Wallets, S # {}
               PROVE  \E x \in S : \A y \in S : parent'[y] # x
    BY DEF Grounded
  <2>1. PICK x \in S : \A y \in S : parent[y] # x BY DEF TreeInv, Grounded
  <2>2. CASE x # w \/ S \cap C = {} BY <1>0, <2>1, <2>2
  <2>3. CASE x = w /\ S \cap C # {}
    <3>1. PICK y \in S : y \in C BY <2>3
    <3>2. \A z \in S : parent'[z] # y BY <1>0, <1>4, <3>1
    <3>3. QED BY <3>2
  <2>4. QED BY <2>2, <2>3
<1>7. TreeInv'
  <2>1. \A c \in Wallets : parent'[c] # NoWallet => parent'[c] \in partitioned' /\ cap'[c] > 0
    BY <1>0 DEF TreeInv
  <2>2. \A v \in partitioned' : cap'[v] > 0 /\ cap'[v] = cap[v]
    BY <1>0, <1>4 DEF TreeInv, CapType
  <2>3. ASSUME NEW v \in partitioned PROVE SumFunctionOnSet(cap', Kids(v)') = cap'[v]
    <3>1. v # w /\ v # NoWallet /\ v \in partitioned' BY <1>0 DEF CapType
    <3>2. Kids(v)' = Kids(v) BY <1>0, <1>4, <3>1 DEF Kids
    <3>3. \A c \in Kids(v) : cap[c] \in Int /\ cap[c] = cap'[c]
      BY <1>0, <1>4, <3>1 DEF Kids, CapType
    <3>4. SumFunctionOnSet(cap, Kids(v)) = SumFunctionOnSet(cap', Kids(v))
      BY <3>3, KidsFinite, SumSame
    <3>5. SumFunctionOnSet(cap, Kids(v)) = cap[v] BY DEF TreeInv
    <3>6. QED BY <2>2, <3>1, <3>2, <3>4, <3>5
  <2>4. SumFunctionOnSet(cap', Kids(w)') = cap'[w]
    <3>1. Kids(w)' = C BY <1>0, <1>5 DEF Kids
    <3>2. IsFiniteSet(C) BY FS_Subset
    <3>3. \A c \in C : share[c] \in Int /\ share[c] = cap'[c] BY <1>0
    <3>4. SumFunctionOnSet(share, C) = SumFunctionOnSet(cap', C) BY <3>2, <3>3, SumSame
    <3>5. QED BY <1>0, <1>4, <3>1, <3>4
  <2>5. QED BY <1>0, <1>6, <2>1, <2>2, <2>3, <2>4 DEF TreeInv
<1>8. DOMAIN allocations' = {}
  <2>1. DOMAIN allocations \subseteq 1..nextID BY DEF AllocType
  <2>2. 1..nextID = {} BY <1>0
  <2>3. allocations' = allocations BY <1>0
  <2>4. QED BY ONLY <2>1, <2>2, <2>3
<1>9. LeafOwners' BY <1>8 DEF LeafOwners
<1>10. \A v : OfWallet(v)' = {} BY <1>8 DEF OfWallet
<1>11. \A v : HeldBy(v)' = 0 BY <1>10, SumEmpty DEF HeldBy
<1>12. LeafWithin' BY <1>2, <1>11 DEF LeafWithin, CapType
<1>13. Conservation'
  <2>1. AllBooked' BY <1>3, Books, PTL
  <2>2. AllBooked BY Books
  <2>3. ASSUME NEW v \in Wallets, NEW s \in Charges PROVE Booked(v, s) = 0
    <3>1. InState(v, s) = {}
      <4>1. DOMAIN allocations = {} BY <1>0, <1>8
      <4>2. QED BY ONLY <4>1 DEF InState
    <3>2. Booked(v, s) = SumFunctionOnSet(Size, InState(v, s)) BY <2>2 DEF AllBooked
    <3>3. QED BY <3>1, <3>2, SumEmpty
  <2>5. \A v \in Wallets, s \in Charges : Booked(v, s)' \in Nat /\ Booked(v, s)' <= 0
    BY <1>11, <2>1 DEF AllBooked
  <2>6. QED BY <1>0, <2>3, <2>5 DEF Conservation
<1>14. QED BY <1>1, <1>2, <1>3, <1>7, <1>9, <1>12, <1>13

(* The other operations leave the tree alone.                              *)
LEMMA TreeKept ==
  ASSUME ParentType, CapType, TreeInv, UNCHANGED <<cap, parent, partitioned>>
  PROVE  ParentType' /\ CapType' /\ TreeInv' /\ \A w : Owners(w)' = Owners(w)
<1>1. \A w : Owners(w)' = Owners(w) BY DEF Owners, UpwardClosed
<1>2. \A w : Kids(w)' = Kids(w) BY DEF Kids
<1>3. Grounded' BY DEF TreeInv, Grounded
<1>4. ParentType' /\ CapType' BY DEF ParentType, CapType
<1>5. TreeInv' BY <1>2, <1>3 DEF TreeInv
<1>6. QED BY <1>1, <1>4, <1>5

(* A wallet that is no aggregate is charged only for its own allocations.  *)
LEMMA LeafOwnsItself ==
  ASSUME ParentType, TreeInv, NEW w \in Wallets, NEW u \in Owners(w), u \notin partitioned
  PROVE  u = w
<1> SUFFICES ASSUME u # w PROVE FALSE
  OBVIOUS
<1>1. PICK y \in Owners(w) : parent[y] = u BY OwnersDown
<1>2. y \in Wallets /\ u \in Wallets BY OwnersLeast
<1>3. QED BY <1>1, <1>2 DEF TreeInv

(* Places that fit, and counters that count, in the next state.            *)
AllSettled ==
  \A w \in Wallets, s \in Charges :
     Booked(w, s) \in 0..MaxUint /\ Booked(w, s) = SumFunctionOnSet(Size, InState(w, s))

LEMMA Settled == PlacesInv => AllSettled
<1> SUFFICES ASSUME PlacesInv, NEW w \in Wallets, NEW s \in Charges
             PROVE  Booked(w, s) \in 0..MaxUint
                    /\ Booked(w, s) = SumFunctionOnSet(Size, InState(w, s))
  BY DEF AllSettled
<1>1. AllHeld /\ AllBooked BY Holds, Books DEF PlacesInv
<1>2. cap[w] \in 0..MaxUint BY DEF PlacesInv, CapType
<1>3. QED BY <1>1, <1>2 DEF AllHeld, AllBooked

LEMMA ReserveStep ==
  ASSUME WalletInv, NEW w \in Wallets, NEW sizes \in Seq(1..MaxUint), ReserveBatch(w, sizes)
  PROVE  WalletInv'
<1> USE DEF WalletInv, PlacesInv
<1> DEFINE k == Len(sizes)
           N == (nextID + 1)..(nextID + k)
           total == SumFunctionOnSet(sizes, 1..k)
<1>1. /\ k \in Nat /\ DOMAIN sizes = 1..k /\ \A i \in 1..k : sizes[i] \in 1..MaxUint
      /\ nextID \in Nat
  BY DEF AllocType
<1>2. total \in Nat
  <2>1. IsFiniteSet(1..k) BY <1>1, FS_Interval
  <2>2. \A i \in 1..k : sizes[i] \in Nat BY <1>1
  <2>3. QED BY <2>1, <2>2, SumNonNegative
<1>3. SumFunction(sizes) = total BY <1>1 DEF SumFunction
<1> HIDE DEF total
<1>4. total <= MaxUint /\ Word(SumFunction(sizes)) = total
  <2>1. total <= MaxUint BY <1>3 DEF ReserveBatch, BatchTotalValid
  <2>2. QED BY <1>2, <1>3, <2>1, WordSmall
<1>5. /\ nextID + k <= MaxAllocs /\ nextID' = nextID + k
      /\ CheckCapacity(w, total, k)
      /\ allocations' = [id \in DOMAIN allocations \cup N |->
                           IF id \in DOMAIN allocations THEN allocations[id]
                           ELSE [owner |-> w, bytes |-> sizes[id - nextID], state |-> "reserved"]]
      /\ charge' = AddCharge(charge, w, "reserved", total)
      /\ UNCHANGED <<cap, parent, partitioned>>
  BY <1>4 DEF ReserveBatch
<1>6. ParentType' /\ CapType' /\ TreeInv' /\ \A u : Owners(u)' = Owners(u) BY <1>5, TreeKept
<1>7. N \cap DOMAIN allocations = {} /\ N \subseteq 1..nextID' BY <1>1, <1>5 DEF AllocType
<1>8. /\ DOMAIN allocations' = DOMAIN allocations \cup N
      /\ \A id \in DOMAIN allocations : allocations'[id] = allocations[id]
      /\ \A id \in N : allocations'[id]
                       = [owner |-> w, bytes |-> sizes[id - nextID], state |-> "reserved"]
  <2> HIDE DEF N
  <2>1. QED BY <1>5, <1>7
<1>9. \A id \in N : sizes[id - nextID] \in 1..MaxUint BY <1>1
<1>10. AllocType'
  <2>1. nextID' \in 0..MaxAllocs BY <1>1, <1>5
  <2>2. DOMAIN allocations \subseteq 1..nextID' BY <1>1, <1>5 DEF AllocType
  <2> HIDE DEF N
  <2>3. \A id \in N : allocations'[id] \in [owner : Wallets, bytes : 1..MaxUint, state : Charges]
    BY <1>8, <1>9 DEF Charges
  <2>4. QED BY <1>7, <1>8, <2>1, <2>2, <2>3 DEF AllocType
<1>11. /\ \A id \in DOMAIN allocations : Size'[id] = Size[id]
       /\ \A i \in 1..k : Size'[nextID + i] = sizes[i]
  <2>1. Size' = [id \in DOMAIN allocations' |-> allocations'[id].bytes] BY DEF Size
  <2>2. ASSUME NEW i \in 1..k PROVE Size'[nextID + i] = sizes[i]
    <3>1. nextID + i \in N /\ (nextID + i) - nextID = i BY <1>1
    <3> HIDE DEF N
    <3>2. nextID + i \in DOMAIN allocations' /\ allocations'[nextID + i].bytes = sizes[i] BY <1>8, <3>1
    <3>3. QED BY <2>1, <3>2
  <2> HIDE DEF N
  <2>3. QED BY <1>8, <2>1, <2>2 DEF Size
<1>12. IsFiniteSet(N) /\ SumFunctionOnSet(Size', N) = total /\ \A id \in N : Size'[id] \in Int
  <2>1. \A i \in 1..k : sizes[i] \in Int /\ Size'[nextID + i] = sizes[i] BY <1>1, <1>11
  <2>2. SumFunctionOnSet(Size', N) = SumFunctionOnSet(sizes, 1..k)
    <3>1. PICK n, c, g : n = nextID /\ c = k /\ g = Size' OBVIOUS
    <3>2. /\ n \in Nat /\ c \in Nat
          /\ \A i \in 1..c : sizes[i] \in Int /\ g[n + i] = sizes[i]
      BY <1>1, <2>1, <3>1
    <3>3. SumFunctionOnSet(g, (n + 1)..(n + c)) = SumFunctionOnSet(sizes, 1..c)
      BY <3>2, SumShift, ZenonT(60)
    <3>4. QED BY <3>1, <3>3
  <2>3. IsFiniteSet(N) BY <1>1, FS_Interval
  <2>4. ASSUME NEW id \in N PROVE Size'[id] \in Int
    <3>1. id - nextID \in 1..k /\ nextID + (id - nextID) = id BY <1>1
    <3>2. QED BY <2>1, <3>1
  <2>5. QED BY <2>2, <2>3, <2>4 DEF total
<1> HIDE DEF N
<1>13. ASSUME NEW Q \in SUBSET DOMAIN allocations
       PROVE  /\ SumFunctionOnSet(Size', Q) = SumFunctionOnSet(Size, Q)
              /\ SumFunctionOnSet(Size', Q \cup N) = SumFunctionOnSet(Size, Q) + total
  <2>1. IsFiniteSet(Q) /\ \A id \in Q : Size[id] \in Int /\ Size[id] = Size'[id]
    BY <1>11, AllocsFinite
  <2>2. SumFunctionOnSet(Size, Q) = SumFunctionOnSet(Size', Q) BY <2>1, SumSame
  <2>3. Q \cap N = {} /\ \A id \in Q \cup N : Size'[id] \in Int BY <1>7, <1>12, <2>1
  <2>4. SumFunctionOnSet(Size', Q \cup N) = SumFunctionOnSet(Size', Q) + SumFunctionOnSet(Size', N)
    BY <1>12, <2>1, <2>3, SumDisjoint
  <2>5. QED BY <1>12, <2>2, <2>4
<1>14. ASSUME NEW u \in Wallets
       PROVE  /\ u \in Owners(w) => /\ OfWallet(u)' = OfWallet(u) \cup N
                                    /\ InState(u, "reserved")' = InState(u, "reserved") \cup N
              /\ u \notin Owners(w) => /\ OfWallet(u)' = OfWallet(u)
                                       /\ InState(u, "reserved")' = InState(u, "reserved")
              /\ \A s \in Charges : s # "reserved" => InState(u, s)' = InState(u, s)
  <2>1. OfWallet(u)' = {id \in DOMAIN allocations' : u \in Owners(allocations'[id].owner)}
    BY <1>5 DEF OfWallet, Owners, UpwardClosed
  <2>2. \A s : InState(u, s)' = {id \in DOMAIN allocations' : /\ u \in Owners(allocations'[id].owner)
                                                          /\ allocations'[id].state = s}
    BY <1>5 DEF InState, Owners, UpwardClosed
  <2>3. \A id \in N : allocations'[id].owner = w /\ allocations'[id].state = "reserved" BY <1>8
  <2>4. QED BY <1>8, <2>1, <2>2, <2>3 DEF OfWallet, InState
<1>15. \A u \in Wallets : OfWallet(u) \in SUBSET DOMAIN allocations
         /\ \A s \in Charges : InState(u, s) \in SUBSET DOMAIN allocations
  BY DEF OfWallet, InState
<1>16. \A u \in Wallets : HeldBy(u)' = IF u \in Owners(w) THEN HeldBy(u) + total ELSE HeldBy(u)
  BY <1>13, <1>14, <1>15 DEF HeldBy
<1>17. w \notin partitioned /\ total <= cap[w] - HeldBy(w)
  <2>1. AllBooked /\ AllHeld BY Books, Holds
  <2>2. cap[w] \in 0..MaxUint BY DEF CapType
  <2>3. charge[w]["reserved"] + charge[w]["live"] + charge[w]["retiring"] = HeldBy(w)
    BY <2>1 DEF Conservation, AllBooked, Charges
  <2>4. HeldBy(w) \in 0..MaxUint BY <2>1, <2>2 DEF AllBooked, AllHeld
  <2>5. Used(w) = HeldBy(w) BY <2>3, <2>4, WordSmall DEF Used
  <2>6. QED BY <1>5, <2>2, <2>4, <2>5, <1>2 DEF CheckCapacity
<1>18. LeafWithin'
  <2> SUFFICES ASSUME NEW u \in Wallets, u \notin partitioned PROVE HeldBy(u)' <= cap[u]
    BY <1>5 DEF LeafWithin
  <2>1. CASE u \in Owners(w)
    <3>1. u = w BY <2>1, LeafOwnsItself
    <3>2. HeldBy(w) \in Nat /\ cap[w] \in Nat BY HeldIsBooked DEF CapType
    <3>3. HeldBy(u)' = HeldBy(w) + total BY <1>16, <2>1, <3>1
    <3>4. QED BY <1>2, <1>17, <3>1, <3>2, <3>3
  <2>2. CASE u \notin Owners(w) BY <1>16, <2>2 DEF LeafWithin
  <2>3. QED BY <2>1, <2>2
<1>19. LeafOwners' BY <1>5, <1>8, <1>17 DEF LeafOwners
<1>20. PlacesInv' BY <1>6, <1>10, <1>18, <1>19
<1>21. ChargeType'
  <2>1. \A u \in Wallets : Word(charge[u]["reserved"] + total) \in 0..MaxUint
    <3>1. \A u \in Wallets : charge[u]["reserved"] + total \in Int BY <1>2 DEF ChargeType, Charges
    <3>2. QED BY <3>1, WordType
  <2>2. QED BY <1>5, <2>1 DEF AddCharge, ChargeType, Charges
<1>22. Conservation'
  <2> SUFFICES ASSUME NEW u \in Wallets, NEW s \in Charges PROVE charge'[u][s] = Booked(u, s)'
    BY DEF Conservation
  <2>1. /\ Booked(u, s)' \in 0..MaxUint /\ Booked(u, s)' = SumFunctionOnSet(Size, InState(u, s))'
    <3>1. AllSettled' BY <1>20, Settled, PTL
    <3>2. QED BY <3>1 DEF AllSettled
  <2>2. Booked(u, s) = SumFunctionOnSet(Size, InState(u, s)) BY Settled DEF AllSettled
  <2>3. charge[u][s] = Booked(u, s) BY DEF Conservation
  <2>4. CASE u \in Owners(w) /\ s = "reserved"
    <3>1. charge'[u][s] = Word(charge[u][s] + total) BY <1>5, <2>4 DEF AddCharge, ChargeType, Charges
    <3>2. Booked(u, s)' = Booked(u, s) + total BY <1>13, <1>14, <1>15, <2>1, <2>2, <2>4
    <3>3. QED BY <2>1, <2>3, <3>1, <3>2, WordSmall
  <2>5. CASE ~(u \in Owners(w) /\ s = "reserved")
    <3>1. charge'[u][s] = charge[u][s] BY <1>5, <2>5 DEF AddCharge, ChargeType, Charges
    <3>2. InState(u, s)' = InState(u, s) BY <1>14, <2>5
    <3>3. Booked(u, s)' = Booked(u, s) BY <1>13, <1>15, <2>1, <2>2, <3>2
    <3>4. QED BY <2>3, <3>1, <3>3
  <2>6. QED BY <2>4, <2>5
<1>23. QED BY <1>20, <1>21, <1>22

(* Publish and Retire move the bytes of one allocation between counters;   *)
(* subtraction wraps nothing because the counter covers the allocation.    *)
LEMMA TransitionStep ==
  ASSUME WalletInv, NEW id \in 1..nextID, NEW from \in Charges, NEW to \in Charges, from # to,
         Transition(id, from, to)
  PROVE  WalletInv'
<1> USE DEF WalletInv, PlacesInv
<1> DEFINE w == allocations[id].owner
           bytes == allocations[id].bytes
<1>1. /\ id \in DOMAIN allocations /\ allocations[id].state = from
      /\ charge' = AddCharge(RemoveCharge(charge, w, from, bytes), w, to, bytes)
      /\ allocations' = [allocations EXCEPT ![id].state = to]
      /\ UNCHANGED <<cap, parent, partitioned, nextID>>
  BY DEF Transition
<1>2. w \in Wallets /\ bytes \in 1..MaxUint /\ Size[id] = bytes /\ Size[id] \in Nat
  BY <1>1 DEF AllocType, Size
<1>3. ParentType' /\ CapType' /\ TreeInv' BY <1>1, TreeKept
<1>4. /\ DOMAIN allocations' = DOMAIN allocations
      /\ \A i \in DOMAIN allocations : /\ allocations'[i].owner = allocations[i].owner
                                       /\ allocations'[i].bytes = allocations[i].bytes
                                       /\ i # id => allocations'[i] = allocations[i]
      /\ allocations'[id] \in [owner : Wallets, bytes : 1..MaxUint, state : Charges]
      /\ allocations'[id].state = to
  BY <1>1 DEF AllocType
<1>5. AllocType' BY <1>1, <1>4 DEF AllocType
<1>6. Size' = Size BY <1>4 DEF Size
<1>7. \A u : OfWallet(u)' = OfWallet(u)
  <2>1. \A u : OfWallet(u)' = {i \in DOMAIN allocations' : u \in Owners(allocations'[i].owner)}
    BY <1>1 DEF OfWallet, Owners, UpwardClosed
  <2>2. QED BY <1>4, <2>1 DEF OfWallet
<1>8. \A u : HeldBy(u)' = HeldBy(u) BY <1>6, <1>7 DEF HeldBy
<1>9. LeafWithin' BY <1>1, <1>8 DEF LeafWithin
<1>10. LeafOwners' BY <1>1, <1>4 DEF LeafOwners
<1>11. PlacesInv' BY <1>3, <1>5, <1>9, <1>10
<1>12. ASSUME NEW u \in Wallets, NEW s \in Charges
       PROVE  InState(u, s)' = IF u \in Owners(w)
                               THEN IF s = from THEN InState(u, s) \ {id}
                                    ELSE IF s = to THEN InState(u, s) \cup {id} ELSE InState(u, s)
                               ELSE InState(u, s)
  <2>1. InState(u, s)' = {i \in DOMAIN allocations' : /\ u \in Owners(allocations'[i].owner)
                                                      /\ allocations'[i].state = s}
    BY <1>1 DEF InState, Owners, UpwardClosed
  <2>2. QED BY <1>1, <1>4, <2>1 DEF InState
<1>13. ASSUME NEW u \in Wallets, NEW s \in Charges
       PROVE  charge'[u][s] = IF u \in Owners(w)
                              THEN IF s = from THEN Word(charge[u][s] - bytes + MaxUint + 1)
                                   ELSE IF s = to THEN Word(charge[u][s] + bytes) ELSE charge[u][s]
                              ELSE charge[u][s]
  BY <1>1, <1>2 DEF AddCharge, RemoveCharge, ChargeType
<1>14. DOMAIN charge' = Wallets /\ \A u \in Wallets : charge'[u] \in [Charges -> 0..MaxUint]
  <2>1. \A u \in Wallets, s \in Charges : charge[u][s] \in 0..MaxUint BY DEF ChargeType
  <2>2. \A u \in Wallets, s \in Charges : /\ Word(charge[u][s] - bytes + MaxUint + 1) \in 0..MaxUint
                                          /\ Word(charge[u][s] + bytes) \in 0..MaxUint
    <3>1. \A u \in Wallets, s \in Charges : /\ charge[u][s] - bytes + MaxUint + 1 \in Int
                                            /\ charge[u][s] + bytes \in Int
      BY <1>2, <2>1
    <3>2. QED BY <3>1, WordType
  <2>3. QED BY <1>1, <2>1, <2>2 DEF AddCharge, RemoveCharge, ChargeType
<1>15. ChargeType' BY <1>1, <1>14 DEF ChargeType, AddCharge
<1>16. ASSUME NEW u \in Wallets, NEW s \in Charges PROVE charge'[u][s] = Booked(u, s)'
  <2>1. Booked(u, s)' \in 0..MaxUint /\ Booked(u, s)' = SumFunctionOnSet(Size, InState(u, s)')
    <3>1. AllSettled' BY <1>11, Settled, PTL
    <3>2. QED BY <1>6, <3>1 DEF AllSettled
  <2>2. Booked(u, s) \in 0..MaxUint /\ Booked(u, s) = SumFunctionOnSet(Size, InState(u, s))
    BY Settled DEF AllSettled
  <2>3. charge[u][s] = Booked(u, s) BY DEF Conservation
  <2>4. /\ InState(u, s) \in SUBSET DOMAIN allocations
        /\ u \in Owners(w) /\ s = from => id \in InState(u, s)
        /\ s = to => id \notin InState(u, s)
    BY <1>1 DEF InState
  <2>5. IsFiniteSet(InState(u, s)) /\ \A i \in InState(u, s) \cup {id} : Size[i] \in Int
    BY <1>2, <2>4, AllocsFinite
  <2>6. CASE u \in Owners(w) /\ s = from
    <3>1. SumFunctionOnSet(Size, InState(u, s) \ {id}) = SumFunctionOnSet(Size, InState(u, s)) - Size[id]
      BY <2>4, <2>5, <2>6, SumRemove
    <3>2. Booked(u, s)' = Booked(u, s) - bytes BY <1>2, <1>12, <2>1, <2>2, <2>6, <3>1
    <3>3. charge'[u][s] = Word(Booked(u, s)' + MaxUint + 1) BY <1>13, <2>3, <2>6, <3>2
    <3>4. QED BY <2>1, <3>3, WordWrap
  <2>7. CASE u \in Owners(w) /\ s = to
    <3>1. SumFunctionOnSet(Size, InState(u, s) \cup {id}) = SumFunctionOnSet(Size, InState(u, s)) + Size[id]
      BY <2>4, <2>5, <2>7, SumAdd
    <3>2. Booked(u, s)' = Booked(u, s) + bytes BY <1>2, <1>12, <2>1, <2>2, <2>7, <3>1
    <3>3. charge'[u][s] = Word(Booked(u, s)') BY <1>13, <2>3, <2>7, <3>2
    <3>4. QED BY <2>1, <3>3, WordSmall
  <2>8. CASE ~(u \in Owners(w) /\ s \in {from, to})
    <3>1. InState(u, s)' = InState(u, s) /\ charge'[u][s] = charge[u][s] BY <1>12, <1>13, <2>8
    <3>2. QED BY <2>1, <2>2, <2>3, <3>1
  <2>9. QED BY <2>6, <2>7, <2>8
<1>17. Conservation' BY <1>16 DEF Conservation
<1>18. QED BY <1>11, <1>15, <1>17

(* Cancel, Release and Acknowledge take the allocation out of the ledger.  *)
LEMMA FreeStep ==
  ASSUME WalletInv, NEW id \in 1..nextID, NEW from \in Charges, Free(id, from)
  PROVE  WalletInv'
<1> USE DEF WalletInv, PlacesInv
<1> DEFINE w == allocations[id].owner
           bytes == allocations[id].bytes
<1>1. /\ id \in DOMAIN allocations /\ allocations[id].state = from
      /\ charge' = RemoveCharge(charge, w, from, bytes)
      /\ allocations' = [i \in DOMAIN allocations \ {id} |-> allocations[i]]
      /\ UNCHANGED <<cap, parent, partitioned, nextID>>
  BY DEF Free
<1>2. w \in Wallets /\ bytes \in 1..MaxUint /\ Size[id] = bytes /\ Size[id] \in Nat
  BY <1>1 DEF AllocType, Size
<1>3. ParentType' /\ CapType' /\ TreeInv' BY <1>1, TreeKept
<1>4. /\ DOMAIN allocations' = DOMAIN allocations \ {id}
      /\ \A i \in DOMAIN allocations' : allocations'[i] = allocations[i]
  BY <1>1
<1>5. AllocType' BY <1>1, <1>4 DEF AllocType
<1>6. \A i \in DOMAIN allocations \ {id} : Size'[i] = Size[i]
  BY <1>4 DEF Size
<1>7. ASSUME NEW u
      PROVE  /\ OfWallet(u)' = OfWallet(u) \ {id}
             /\ \A s : InState(u, s)' = InState(u, s) \ {id}
  <2>1. OfWallet(u)' = {i \in DOMAIN allocations' : u \in Owners(allocations'[i].owner)}
    BY <1>1 DEF OfWallet, Owners, UpwardClosed
  <2>2. \A s : InState(u, s)' = {i \in DOMAIN allocations' : /\ u \in Owners(allocations'[i].owner)
                                                             /\ allocations'[i].state = s}
    BY <1>1 DEF InState, Owners, UpwardClosed
  <2>3. QED BY <1>4, <2>1, <2>2 DEF OfWallet, InState
<1>8. ASSUME NEW Q \in SUBSET (DOMAIN allocations \ {id})
      PROVE  SumFunctionOnSet(Size', Q) = SumFunctionOnSet(Size, Q)
  <2>1. IsFiniteSet(Q) /\ \A i \in Q : Size[i] \in Int /\ Size[i] = Size'[i] BY <1>6, AllocsFinite
  <2>2. QED BY <2>1, SumSame
<1>9. ASSUME NEW Q \in SUBSET DOMAIN allocations
      PROVE  SumFunctionOnSet(Size', Q \ {id})
             = IF id \in Q THEN SumFunctionOnSet(Size, Q) - bytes ELSE SumFunctionOnSet(Size, Q)
  <2>1. Q \ {id} \in SUBSET (DOMAIN allocations \ {id}) OBVIOUS
  <2>2. SumFunctionOnSet(Size', Q \ {id}) = SumFunctionOnSet(Size, Q \ {id}) BY <1>8, <2>1
  <2>3. IsFiniteSet(Q) /\ \A i \in Q : Size[i] \in Int BY AllocsFinite
  <2>4. CASE id \in Q
    <3>1. SumFunctionOnSet(Size, Q \ {id}) = SumFunctionOnSet(Size, Q) - Size[id]
      BY <2>3, <2>4, SumRemove
    <3>2. QED BY <1>2, <2>2, <2>4, <3>1
  <2>5. CASE id \notin Q
    <3>1. Q \ {id} = Q BY <2>5
    <3>2. QED BY <2>2, <2>5, <3>1
  <2>6. QED BY <2>4, <2>5
<1>10. LeafWithin'
  <2> SUFFICES ASSUME NEW u \in Wallets, u \notin partitioned PROVE HeldBy(u)' <= cap[u]
    BY <1>1 DEF LeafWithin
  <2>1. OfWallet(u) \in SUBSET DOMAIN allocations BY DEF OfWallet
  <2>2. HeldBy(u)' = SumFunctionOnSet(Size', OfWallet(u) \ {id}) BY <1>7 DEF HeldBy
  <2>3. HeldBy(u)' = HeldBy(u) - bytes \/ HeldBy(u)' = HeldBy(u) BY <1>9, <2>1, <2>2 DEF HeldBy
  <2>4. HeldBy(u) \in Nat /\ HeldBy(u) <= cap[u] /\ cap[u] \in Nat
    BY HeldIsBooked DEF LeafWithin, CapType
  <2>5. QED BY <1>2, <2>3, <2>4
<1>11. LeafOwners' BY <1>1, <1>4 DEF LeafOwners
<1>12. PlacesInv' BY <1>3, <1>5, <1>10, <1>11
<1>13. ASSUME NEW u \in Wallets, NEW s \in Charges
       PROVE  charge'[u][s] = IF u \in Owners(w) /\ s = from
                              THEN Word(charge[u][s] - bytes + MaxUint + 1) ELSE charge[u][s]
  BY <1>1, <1>2 DEF RemoveCharge, ChargeType
<1>14. ChargeType'
  <2>1. \A u \in Wallets, s \in Charges : charge[u][s] \in 0..MaxUint BY DEF ChargeType
  <2>2. \A u \in Wallets, s \in Charges : charge[u][s] - bytes + MaxUint + 1 \in Int BY <1>2, <2>1
  <2>3. \A u \in Wallets, s \in Charges : Word(charge[u][s] - bytes + MaxUint + 1) \in 0..MaxUint
    BY <2>2, WordType
  <2>4. QED BY <1>1, <2>1, <2>3 DEF RemoveCharge, ChargeType
<1>15. ASSUME NEW u \in Wallets, NEW s \in Charges PROVE charge'[u][s] = Booked(u, s)'
  <2>1. Booked(u, s)' \in 0..MaxUint /\ Booked(u, s)' = SumFunctionOnSet(Size', InState(u, s)')
    <3>1. AllSettled' BY <1>12, Settled, PTL
    <3>2. QED BY <3>1 DEF AllSettled
  <2>2. Booked(u, s) \in 0..MaxUint /\ Booked(u, s) = SumFunctionOnSet(Size, InState(u, s))
    BY Settled DEF AllSettled
  <2>3. charge[u][s] = Booked(u, s) BY DEF Conservation
  <2>4. /\ InState(u, s) \in SUBSET DOMAIN allocations
        /\ id \in InState(u, s) <=> (u \in Owners(w) /\ s = from)
    BY <1>1 DEF InState
  <2>5. Booked(u, s)' = IF id \in InState(u, s) THEN Booked(u, s) - bytes ELSE Booked(u, s)
    BY <1>7, <1>9, <2>1, <2>2, <2>4
  <2>6. CASE id \in InState(u, s)
    <3>1. charge'[u][s] = Word(Booked(u, s)' + MaxUint + 1) BY <1>13, <2>3, <2>4, <2>5, <2>6
    <3>2. QED BY <2>1, <3>1, WordWrap
  <2>7. CASE id \notin InState(u, s) BY <1>13, <2>3, <2>4, <2>5, <2>7
  <2>8. QED BY <2>6, <2>7
<1>16. Conservation' BY <1>15 DEF Conservation
<1>17. QED BY <1>12, <1>14, <1>16

-----------------------------------------------------------------------------

LEMMA InvStep == WalletInv /\ [Next]_vars => WalletInv'
<1> SUFFICES ASSUME WalletInv, [Next]_vars PROVE WalletInv'
  OBVIOUS
<1>1. ASSUME NEW w \in Wallets, NEW C \in SUBSET Children, NEW share \in [C -> 1..Capacity],
             Partition(w, share)
      PROVE  WalletInv'
  BY <1>1, PartitionStep
<1>2. ASSUME NEW w \in Wallets, NEW bytes \in Sizes, Reserve(w, bytes) PROVE WalletInv'
  <2>1. <<bytes>> \in Seq(1..MaxUint) OBVIOUS
  <2>2. QED BY <1>2, <2>1, ReserveStep DEF Reserve
<1>3. ASSUME NEW w \in Wallets, NEW sizes \in Batches, ReserveBatch(w, sizes) PROVE WalletInv'
  BY <1>3, ReserveStep
<1>4. \A s \in {"reserved", "live", "retiring"} : s \in Charges BY DEF Charges
<1>5. ASSUME NEW id \in 1..nextID,
             Publish(id) \/ Retire(id) \/ Cancel(id) \/ Release(id) \/ Acknowledge(id)
      PROVE  WalletInv'
  <2>1. CASE Publish(id) BY <1>4, <2>1, TransitionStep DEF Publish
  <2>2. CASE Retire(id) BY <1>4, <2>2, TransitionStep DEF Retire
  <2>3. CASE Cancel(id) BY <1>4, <2>3, FreeStep DEF Cancel
  <2>4. CASE Release(id) BY <1>4, <2>4, FreeStep DEF Release
  <2>5. CASE Acknowledge(id) BY <1>4, <2>5, FreeStep DEF Acknowledge
  <2>6. QED BY <1>5, <2>1, <2>2, <2>3, <2>4, <2>5
<1>6. CASE UNCHANGED vars
  <2>1. /\ ParentType' = ParentType /\ CapType' = CapType /\ AllocType' = AllocType
        /\ ChargeType' = ChargeType
    BY <1>6 DEF vars, ParentType, CapType, AllocType, ChargeType
  <2>2. TreeInv' = TreeInv BY <1>6 DEF vars, TreeInv, Grounded, Kids
  <2>3. LeafOwners' = LeafOwners BY <1>6 DEF vars, LeafOwners
  <2>4. LeafWithin' = LeafWithin
    BY <1>6 DEF vars, LeafWithin, HeldBy, Size, OfWallet, Owners, UpwardClosed
  <2>5. Conservation' = Conservation
    BY <1>6 DEF vars, Conservation, Booked, Owners, UpwardClosed
  <2>6. QED BY <2>1, <2>2, <2>3, <2>4, <2>5 DEF WalletInv, PlacesInv
<1>7. QED BY <1>1, <1>2, <1>3, <1>5, <1>6 DEF Next

LEMMA InvImplies == WalletInv => TypeOK /\ Conservation /\ WithinCapacity
<1> SUFFICES ASSUME WalletInv PROVE TypeOK /\ Conservation /\ WithinCapacity
  OBVIOUS
<1>1. TypeOK
  BY DEF WalletInv, PlacesInv, ParentType, CapType, AllocType, ChargeType, TypeOK
<1>2. AllHeld /\ AllBooked BY Holds, Books DEF WalletInv, PlacesInv
<1>3. WithinCapacity BY <1>2 DEF AllHeld, AllBooked, WithinCapacity
<1>4. QED BY <1>1, <1>3 DEF WalletInv

LEMMA InvHolds == Spec => []WalletInv
BY InvInit, InvStep, PTL DEF Spec

(* The counters stay machine words and the ledger keeps its shape.         *)
THEOREM WalletTypeCorrect == Spec => []TypeOK
BY InvHolds, InvImplies, PTL

(* Every counter of every wallet is the bytes of the allocations in that   *)
(* state, through addChargeLocked and removeChargeLocked (plan.go:218-242) *)
(* on every path up the tree; no addition or subtraction of words wraps.   *)
THEOREM ChargesConserved == Spec => []Conservation
BY InvHolds, InvImplies, PTL

(* No wallet ever holds more than its capacity: checkCapacityLocked        *)
(* (plan.go:198-210) sees to the leaves, and the exact shares of Partition *)
(* carry that to every aggregate above them, whatever the tree.            *)
THEOREM NeverOverCapacity == Spec => []WithinCapacity
BY InvHolds, InvImplies, PTL

=============================================================================
