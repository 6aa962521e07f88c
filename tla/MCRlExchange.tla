---------------------------- MODULE MCRlExchange ----------------------------
(***************************************************************************)
(* Two nodes with an instance each; one node with two instances, as the    *)
(* example networks with several QoS prefixes per node have.               *)
(***************************************************************************)
EXTENDS RlExchange

CONSTANTS n1, n2, i1, i2

MCNodes == {n1, n2}
MCInstances == {i1, i2}
OneEach == [i \in Instances |-> IF i = i1 THEN n1 ELSE n2]
AllOnOne == [i \in Instances |-> n1]
MCRates == <<20, 15>>
=============================================================================
