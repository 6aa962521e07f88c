-------------------------- MODULE MCQosApplications --------------------------
(* QosApplications with model values for the consumers. *)
EXTENDS QosApplications, TLC

CONSTANTS c1, c2

\* A subscriber and a sender of payloads.
Two == {c1, c2}
Mixed == c1 :> 1 @@ c2 :> 0
=============================================================================
