------------------------- MODULE MCStreamDelivery -------------------------
(* Streams on one connection of one session; records of kind b are twice   *)
(* as large as those of kind a.                                            *)
EXTENDS StreamDelivery

CONSTANTS a, b, c1, x1

MCConn == [s \in Streams |-> c1]
MCSession == [s \in Streams |-> x1]
MCSize == [k \in Kinds |-> IF k = a THEN 1 ELSE 2]
=============================================================================
