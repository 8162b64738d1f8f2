------------------------------ MODULE MCDrive ------------------------------
(* Sessions, the runtime port and the connections on small instances.      *)
EXTENDS DriveServer

CONSTANTS s1

Load(requests, events) == [sends |-> requests, events |-> events]

(* Pairs of requests that meet in the runtime, and one with conflicting    *)
(* uses of an ID.  Every disturbance meets the requests it can hurt.       *)
MCWorkloads ==
  { Load(<<{"execute"}, {"execute"}>>, {}),
    Load(<<{"execute"}, {"cancel"}>>, {"surface lost"}),
    Load(<<{"execute"}, {"revoke"}>>, {"expiry"}),
    Load(<<{"virtual"}, {"advance"}>>, {"silence"}),
    Load(<<{"virtual"}, {"wall"}>>, {"surface lost"}),
    Load(<<{"virtual"}, {"cancel"}>>, {"expiry"}),
    Load(<<{"read", "unknown"}, {"read", "revoke"}>>, {"expiry"}) }

(* A request that is rejected for good, and its retry.                     *)
MCRetryWorkloads == { Load(<<{"unknown"}, {"read"}>>, {}) }

(* Virtual time only: an advance, a return to the wall clock.              *)
MCTimeWorkloads == { Load(<<{"virtual"}, {"advance"}, {"wall"}>>, {}) }
=============================================================================
