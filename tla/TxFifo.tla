------------------------------- MODULE TxFifo -------------------------------
(***************************************************************************)
(* What the transmit queue of MessageCenter.cpp promises: a frame that was *)
(* queued leaves as it was queued, and frames leave in the order in which  *)
(* they were queued.                                                       *)
(***************************************************************************)
EXTENDS Naturals, Sequences

CONSTANTS
  Frames,   (* what a frame can say                                         *)
  Capacity  (* frames that can be queued                                    *)

VARIABLE queue  (* frames queued, the first one may be leaving              *)

Init == queue = <<>>

Put(f) ==
  /\ Len(queue) < Capacity
  /\ queue' = Append(queue, f)

Leave ==
  /\ queue # <<>>
  /\ queue' = Tail(queue)

Next == Leave \/ \E f \in Frames : Put(f)

Spec == Init /\ [][Next]_queue
=============================================================================
