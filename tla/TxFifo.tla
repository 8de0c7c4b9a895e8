------------------------------- MODULE TxFifo -------------------------------
(***************************************************************************)
(* What the transmit path of the MAC promises: the fragments handed to the *)
(* device form a first-in first-out queue, and the queue is framed: the    *)
(* fragments of a packet follow one another, numbered from 1, and the last *)
(* one is marked.                                                          *)
(***************************************************************************)
EXTENDS Naturals, Sequences

CONSTANT MaxFrag   \* fragments of the longest packet

VARIABLES q,       \* fragments handed over and not yet transmitted
          nxt      \* number of the next fragment to hand over

Init == q = <<>> /\ nxt = 1

Put ==
    \E last \in BOOLEAN :
        /\ nxt < MaxFrag \/ last
        /\ q' = Append(q, [frag |-> nxt, last |-> last])
        /\ nxt' = IF last THEN 1 ELSE nxt + 1

Get == q # <<>> /\ q' = Tail(q) /\ UNCHANGED nxt

Next == Put \/ Get

Spec == Init /\ [][Next]_<<q, nxt>>
=============================================================================
