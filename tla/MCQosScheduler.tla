--------------------------- MODULE MCQosScheduler ---------------------------
(***************************************************************************)
(* A small node: the capacities differ between the classes so that one     *)
(* blocks while another may still send.                                    *)
(***************************************************************************)
EXTENDS QosScheduler

CONSTANTS f1, f2

MCFaces == {f1, f2}
\* A burst of one packet, of two packets, and none.
MCCapacity == [b \in Classes |-> CASE b = 0 -> 2 [] b = 1 -> 3 [] b = 2 -> 1]
=============================================================================
