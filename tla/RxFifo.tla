------------------------------- MODULE RxFifo -------------------------------
(***************************************************************************)
(* What the receive path of the MAC promises: the frames that arrive       *)
(* without an error are read by the tests once each, whole and in the      *)
(* order of their arrival.                                                 *)
(***************************************************************************)
EXTENDS Naturals, Sequences

CONSTANT Frames    \* the frames that may arrive

VARIABLE q         \* frames that have arrived and have not been read

Init == q = <<>>

Receive == \E f \in Frames : q' = Append(q, f)

Read == q # <<>> /\ q' = Tail(q)

Next == Receive \/ Read

Spec == Init /\ [][Next]_q
=============================================================================
