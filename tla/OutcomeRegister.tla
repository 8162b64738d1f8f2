-------------------------- MODULE OutcomeRegister --------------------------
(***************************************************************************)
(* What the outcome ledger of the drive protocol promises a client, with   *)
(* no queues, threads or retention bounds in sight: every request ID of a  *)
(* session is a write-once register.  IDs are claimed in order; a claimed  *)
(* ID is open until its one outcome is settled; a settled outcome never    *)
(* changes, but may be forgotten; a forgotten ID stays forgotten.          *)
(***************************************************************************)
EXTENDS Integers

CONSTANTS Sessions,  \* session identities
          MaxID,     \* bound: request IDs of a session
          Outcomes   \* what an operation may end in

IDs == 1..MaxID

VARIABLE register    \* session -> ID -> "unclaimed", "open", an outcome or "forgotten"

Init == register = [s \in Sessions |-> [i \in IDs |-> "unclaimed"]]

(* One ID moves forward along its life or stays where it is.               *)
Forward(old, new) ==
  \/ new = old
  \/ old = "unclaimed"
  \/ old = "open" /\ new \in Outcomes
  \/ new = "forgotten"

Claims(old, new) == old = "unclaimed" /\ new # "unclaimed"

(* One step of a session.  It may settle or forget many IDs (its removal   *)
(* forgets them all), but claims one at most, and none past one that is    *)
(* not claimed.                                                            *)
SessionStep(old, new) ==
  /\ \A i \in IDs : Forward(old[i], new[i])
  /\ \A i, j \in IDs : Claims(old[i], new[i]) /\ Claims(old[j], new[j]) => i = j
  /\ \A i, j \in IDs : i < j /\ new[i] = "unclaimed" => new[j] = "unclaimed"

Next ==
  /\ register' \in
       [Sessions -> [IDs -> {"unclaimed", "open", "forgotten"} \cup Outcomes]]
  /\ \A s \in Sessions : SessionStep(register[s], register'[s])

Spec == Init /\ [][Next]_register
=============================================================================
