------------------------------ MODULE MCWallet ------------------------------
(* Small instance of Wallet: one root, two possible children, and words of *)
(* four bits, so that the sum of a batch and of the counters can overflow. *)
EXTENDS Wallet

CONSTANTS c1, c2

MCChildren == {c1, c2}

MCBatches == {<<a, b>> : a, b \in Sizes}

Symmetry == Permutations(MCChildren)
=============================================================================
