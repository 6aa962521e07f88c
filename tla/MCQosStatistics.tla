-------------------------- MODULE MCQosStatistics --------------------------
(***************************************************************************)
(* Two faces with queues of one packet, so that losses are frequent.       *)
(***************************************************************************)
EXTENDS QosStatistics, TLC

CONSTANTS f1, f2

MCFaces == {f1, f2}
MCCapacity == [b \in Classes |-> 2]
FaceSymmetry == Permutations(MCFaces)
=============================================================================
