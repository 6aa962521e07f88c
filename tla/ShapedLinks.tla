---------------------------- MODULE ShapedLinks ----------------------------
(***************************************************************************)
(* What the outgoing side of one node running the QoS strategy promises,   *)
(* with none of the machinery that delivers it.  Every (face, class) pair  *)
(* is a bounded FIFO of packets behind a token bucket:                     *)
(*   - a packet that arrives at a full FIFO is dropped, any other is kept; *)
(*   - only the head of a FIFO leaves, it costs one token, and the last    *)
(*     token of a bucket is never spent;                                   *)
(*   - a refill gives every face of one class one token, up to capacity.   *)
(* Scheduling between the classes, virtual time, the order in which the    *)
(* faces are visited and the early end of a pass are all left open.        *)
(* QosScheduler implements this module.                                    *)
(***************************************************************************)
EXTENDS Integers, Sequences

CONSTANTS
  Faces,       \* faces of the node
  Classes,     \* traffic classes
  Capacity,    \* [Classes -> Nat], burst size of each class
  QueueSize    \* packets one FIFO can hold

VARIABLES
  waiting,     \* waiting[f][b]: the packets of class b held for face f
  level        \* level[f][b]: the tokens left for class b on face f

vars == <<waiting, level>>

\* w2 is w with one packet, whichever it is, joined at its end.
Joins(w, w2) == Len(w2) = Len(w) + 1 /\ SubSeq(w2, 1, Len(w)) = w

Init ==
  /\ waiting = [f \in Faces |-> [b \in Classes |-> <<>>]]
  /\ level = [f \in Faces |-> [b \in Classes |-> Capacity[b]]]

\* A packet of class b is handed to the faces in F.
Accept(F, b) ==
  /\ waiting' = [f \in Faces |-> [c \in Classes |-> waiting'[f][c]]]
  /\ \A f \in Faces, c \in Classes :
        IF f \in F /\ c = b /\ Len(waiting[f][c]) < QueueSize
        THEN Joins(waiting[f][c], waiting'[f][c])
        ELSE waiting'[f][c] = waiting[f][c]
  /\ UNCHANGED level

\* The packet at the head of the FIFO of class b leaves on face f.
Send(f, b) ==
  /\ waiting[f][b] # <<>>
  /\ level[f][b] > 1
  /\ waiting' = [waiting EXCEPT ![f][b] = Tail(@)]
  /\ level' = [level EXCEPT ![f][b] = @ - 1]

\* One token for every face of class b, never above the capacity.
Refill(b) ==
  /\ level' = [f \in Faces |-> [level[f] EXCEPT ![b] =
                  IF @ < Capacity[b] THEN @ + 1 ELSE @]]
  /\ UNCHANGED waiting

Next ==
  \/ \E F \in SUBSET Faces, b \in Classes : Accept(F, b)
  \/ \E f \in Faces, b \in Classes : Send(f, b)
  \/ \E b \in Classes : Refill(b)

Spec == Init /\ [][Next]_vars
============================================================================
