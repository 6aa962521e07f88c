--------------------------- MODULE MCQosInstances ---------------------------
(* QosInstances with two prefixes, and one or two faces and classes. *)
EXTENDS QosInstances, TLC

CONSTANTS root, typeI, f1, f2, high, low

BothPrefixes == {root, typeI}
OneFace == {f1}
TwoFaces == {f1, f2}
OneClass == {high}
TwoClasses == {high, low}
Burst2 == high :> 2
Bursts == high :> 3 @@ low :> 2
=============================================================================
