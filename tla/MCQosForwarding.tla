---------------------------- MODULE MCQosForwarding ----------------------------
(* QosForwarding with model values for the faces. *)
EXTENDS QosForwarding, TLC

CONSTANTS d1, d2, u1, u2

\* Two next hops; consumers' faces, and a next hop that also asks.
OneDown == {d1}
AlsoUp == {d1, d2, u1}
TwoUps == {u1, u2}

\* A /localhop name, d1 and d2 the faces of local applications: what comes
\* from u1 goes to no other node.
Localhop == {<<u1, u2>>}

Consumers == Permutations({d1, d2})
=============================================================================
