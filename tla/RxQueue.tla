------------------------------ MODULE RxQueue ------------------------------
(***************************************************************************)
(* What a receive ring and its driver promise: each frame the NIC accepts  *)
(* is handed to the network once, in order, and at last.                   *)
(***************************************************************************)
EXTENDS Naturals, Sequences

CONSTANT Frames

VARIABLES queue, delivered

Init == queue = <<>> /\ delivered = <<>>

Accept ==
  /\ \E f \in Frames : queue' = Append(queue, f)
  /\ UNCHANGED delivered

Deliver ==
  /\ queue # <<>>
  /\ delivered' = Append(delivered, Head(queue))
  /\ queue' = Tail(queue)

Next == Accept \/ Deliver

Spec == Init /\ [][Next]_<<queue, delivered>> /\ WF_<<queue, delivered>>(Deliver)
=============================================================================
