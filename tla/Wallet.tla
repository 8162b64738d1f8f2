------------------------------- MODULE Wallet -------------------------------
(***************************************************************************)
(* The memory-budget wallets of internal/membudget/plan.go.                *)
(*                                                                         *)
(* A wallet is a fixed capacity with three charge counters (reserved, live *)
(* and retiring).  Wallets that come from one Partition share a ledger of  *)
(* allocations, and a charge on a child is also a charge on its ancestors. *)
(* Every public method runs under the ledger's mutex and is one action     *)
(* here; a call that returns an error changes nothing and is no step.      *)
(* Counters are machine words: every addition and subtraction is taken     *)
(* modulo MaxUint + 1, as uint64 is in Go.                                 *)
(***************************************************************************)
EXTENDS Integers, Sequences, FiniteSets, SequencesExt, FiniteSetsExt

CONSTANTS Root,      \* the wallet that NewWallet returned
          Children,  \* wallets that Partition may create
          NoWallet,  \* the nil *Wallet
          Capacity,  \* the capacity of Root
          Sizes,     \* byte sizes that callers ask for
          Batches,   \* sequences of byte sizes that they ask for at once
          MaxUint,   \* math.MaxUint64
          MaxAllocs  \* bound: allocations made in one behaviour

Wallets == {Root} \cup Children

ASSUME WalletConstants ==
    /\ Root \notin Children
    /\ NoWallet \notin Wallets
    /\ IsFiniteSet(Children)
    /\ MaxUint \in Nat
    /\ Capacity \in 1..MaxUint
    /\ Sizes \subseteq 1..MaxUint
    /\ Batches \subseteq Seq(1..MaxUint) \ {<<>>}
    /\ MaxAllocs \in 0..MaxUint

Charges == {"reserved", "live", "retiring"}

VARIABLES
  cap,          \* wallet -> its capacity; 0 for a wallet not created yet
  parent,       \* wallet -> the wallet it was partitioned from
  partitioned,  \* the wallets that only aggregate
  charge,       \* wallet -> its reserved, live and retiring counters
  nextID,       \* ledger.nextID
  allocations   \* ledger.allocations: ID -> owner, bytes and state

vars == <<cap, parent, partitioned, charge, nextID, allocations>>

Word(n) == n % (MaxUint + 1)

-----------------------------------------------------------------------------

NewWallet ==
  /\ cap = [w \in Wallets |-> IF w = Root THEN Capacity ELSE 0]
  /\ parent = [w \in Wallets |-> NoWallet]
  /\ partitioned = {}
  /\ charge = [w \in Wallets |-> [s \in Charges |-> 0]]
  /\ nextID = 0
  /\ allocations = <<>>

Init == NewWallet

(* The wallets a charge on w is booked to: w, its parent, and so on, that  *)
(* is, the least set with w and with the parents of its members.           *)
UpwardClosed(S) == \A u \in S : parent[u] \in S \cup {NoWallet}

Owners(w) == {u \in Wallets : \A S \in SUBSET Wallets : w \in S /\ UpwardClosed(S) => u \in S}

(* Partition fixes the children before the first reservation of the        *)
(* ledger; the capacities must add up to the wallet's, without overflow.   *)
Partition(w, share) ==
  /\ cap[w] > 0 /\ DOMAIN share # {}
  /\ \A c \in DOMAIN share : cap[c] = 0 /\ c # Root
  /\ w \notin partitioned
  /\ \A s \in Charges : charge[w][s] = 0
  /\ nextID = 0
  /\ \A c \in DOMAIN share : share[c] > 0
  /\ SumFunction(share) = cap[w]
  /\ cap' = [c \in Wallets |-> IF c \in DOMAIN share THEN share[c] ELSE cap[c]]
  /\ parent' = [c \in Wallets |-> IF c \in DOMAIN share THEN w ELSE parent[c]]
  /\ partitioned' = partitioned \cup {w}
  /\ UNCHANGED <<charge, nextID, allocations>>

Used(w) == Word(charge[w]["reserved"] + charge[w]["live"] + charge[w]["retiring"])

CheckCapacity(w, bytes, count) ==
  /\ w \notin partitioned
  /\ ~(Used(w) < charge[w]["reserved"] \/ Used(w) > cap[w] \/ bytes > cap[w] - Used(w))
  /\ count <= MaxUint - nextID

AddCharge(ch, w, s, bytes) ==
  [u \in Wallets |-> IF u \in Owners(w) THEN [ch[u] EXCEPT ![s] = Word(@ + bytes)] ELSE ch[u]]

RemoveCharge(ch, w, s, bytes) ==
  [u \in Wallets |-> IF u \in Owners(w) THEN [ch[u] EXCEPT ![s] = Word(@ - bytes + MaxUint + 1)]
                                        ELSE ch[u]]

(* Wallet.ReserveBatch: every allocation of the batch or none; Reserve is  *)
(* the batch of one.  Each allocation is charged for itself; addition of   *)
(* words being associative, that charges their sum.                        *)
Mutant_BatchTotalValid(sizes) == TRUE

BatchTotalValid(sizes) == SumFunction(sizes) <= MaxUint

ReserveBatch(w, sizes) ==
  LET total == Word(SumFunction(sizes)) IN
  /\ cap[w] > 0
  /\ nextID + Len(sizes) <= MaxAllocs
  /\ BatchTotalValid(sizes)
  /\ CheckCapacity(w, total, Len(sizes))
  /\ nextID' = nextID + Len(sizes)
  /\ allocations' = [id \in DOMAIN allocations \cup (nextID + 1)..(nextID + Len(sizes)) |->
                       IF id \in DOMAIN allocations THEN allocations[id]
                       ELSE [owner |-> w, bytes |-> sizes[id - nextID], state |-> "reserved"]]
  /\ charge' = AddCharge(charge, w, "reserved", total)
  /\ UNCHANGED <<cap, parent, partitioned>>

Reserve(w, bytes) == ReserveBatch(w, <<bytes>>)

(* Reservation.transition: validated against the ledger by identity.       *)
Transition(id, from, to) ==
  LET entry == allocations[id] IN
  /\ id \in DOMAIN allocations
  /\ entry.state = from
  /\ charge' = AddCharge(RemoveCharge(charge, entry.owner, from, entry.bytes),
                         entry.owner, to, entry.bytes)
  /\ allocations' = [allocations EXCEPT ![id].state = to]
  /\ UNCHANGED <<cap, parent, partitioned, nextID>>

Mutant_Publish(id) ==
  LET entry == allocations[id] IN
  /\ id \in DOMAIN allocations /\ entry.state \in {"reserved", "live"}
  /\ charge' = AddCharge(RemoveCharge(charge, entry.owner, "reserved", entry.bytes),
                         entry.owner, "live", entry.bytes)
  /\ allocations' = [allocations EXCEPT ![id].state = "live"]
  /\ UNCHANGED <<cap, parent, partitioned, nextID>>

Publish(id) == Transition(id, "reserved", "live")

Retire(id) == Transition(id, "live", "retiring")

(* Cancel, Release and Acknowledge free the allocation from one state.     *)
Free(id, from) ==
  LET entry == allocations[id] IN
  /\ id \in DOMAIN allocations
  /\ entry.state = from
  /\ charge' = RemoveCharge(charge, entry.owner, from, entry.bytes)
  /\ allocations' = [i \in DOMAIN allocations \ {id} |-> allocations[i]]
  /\ UNCHANGED <<cap, parent, partitioned, nextID>>

Cancel(id) == Free(id, "reserved")

Mutant_Release(id) ==
  LET entry == allocations[id] IN
  /\ id \in DOMAIN allocations /\ entry.state = "live"
  /\ charge' = RemoveCharge(charge, entry.owner, "live", entry.bytes)
  /\ allocations' = [allocations EXCEPT ![id].state = "freed"]
  /\ UNCHANGED <<cap, parent, partitioned, nextID>>

Release(id) == Free(id, "live")

Acknowledge(id) == Free(id, "retiring")

(* A caller holds its Reservation for ever, so every identity ever handed  *)
(* out may be used again, also after it was freed.                         *)
Next ==
  \/ \E w \in Wallets, C \in SUBSET Children :
        \E share \in [C -> 1..Capacity] : Partition(w, share)
  \/ \E w \in Wallets, bytes \in Sizes : Reserve(w, bytes)
  \/ \E w \in Wallets, sizes \in Batches : ReserveBatch(w, sizes)
  \/ \E id \in 1..nextID : Publish(id)
  \/ \E id \in 1..nextID : Retire(id)
  \/ \E id \in 1..nextID : Cancel(id)
  \/ \E id \in 1..nextID : Release(id)
  \/ \E id \in 1..nextID : Acknowledge(id)

Spec == Init /\ [][Next]_vars

-----------------------------------------------------------------------------

(* Every variable has its type: counters are words, and an allocation that *)
(* is in the ledger has an ID that was given out.                          *)
TypeOK ==
  /\ cap \in [Wallets -> 0..MaxUint]
  /\ parent \in [Wallets -> Wallets \cup {NoWallet}]
  /\ partitioned \subseteq Wallets
  /\ charge \in [Wallets -> [Charges -> 0..MaxUint]]
  /\ nextID \in 0..MaxAllocs
  /\ DOMAIN allocations \subseteq 1..nextID
  /\ \A id \in DOMAIN allocations :
        allocations[id] \in [owner : Wallets, bytes : 1..MaxUint, state : Charges]

(* The bytes of the allocations in state s that are booked to wallet w.    *)
Booked(w, s) ==
  SumFunctionOnSet([id \in DOMAIN allocations |-> allocations[id].bytes],
     {id \in DOMAIN allocations : w \in Owners(allocations[id].owner) /\ allocations[id].state = s})

(* Every counter of every wallet, ancestors included, is exactly the bytes *)
(* of the allocations in that state: no path of addChargeLocked and        *)
(* removeChargeLocked (plan.go:218-242) loses or double-counts a charge.   *)
Conservation == \A w \in Wallets, s \in Charges : charge[w][s] = Booked(w, s)

(* The real bytes held against a wallet never exceed its capacity, for the *)
(* parent of a partition as well, whose capacity nobody checks on a        *)
(* reservation (plan.go:198-210): the children's fixed shares imply it.    *)
WithinCapacity ==
  \A w \in Wallets :
     Booked(w, "reserved") + Booked(w, "live") + Booked(w, "retiring") <= cap[w]

=============================================================================
