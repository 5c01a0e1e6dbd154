--------------------------- MODULE ControlHandoff ---------------------------
(***************************************************************************)
(* What MotorControlCoordinator promises, without sequence numbers, masks  *)
(* or counters: a visit files a request for its slot and forgets the old   *)
(* one; the single worker takes a wanted request; its answer becomes ready *)
(* only if the request was not replaced while the worker computed; a       *)
(* visit consumes a ready answer.  `valid` says the worker's request still *)
(* stands.                                                                 *)
(***************************************************************************)
CONSTANTS
  Slots,   (* the motors                     *)
  Nobody   (* the worker's slot when it idles *)

VARIABLES
  want,    (* [Slots -> {"none", "wanted", "ready"}] *)
  worker,  (* the slot being computed, or Nobody      *)
  valid    (* BOOLEAN                                 *)

hvars == <<want, worker, valid>>

Init ==
  /\ want = [s \in Slots |-> "none"]
  /\ worker = Nobody
  /\ valid = FALSE

(* The interrupt visits s: a running motor wants a compute, a disabled one *)
(* wants nothing; either way the worker's request on s is void.            *)
Visit(s) ==
  /\ \E w \in {"none", "wanted"} : want' = [want EXCEPT ![s] = w]
  /\ valid' = (valid /\ worker # s)
  /\ UNCHANGED worker

Take(s) ==
  /\ worker = Nobody /\ want[s] = "wanted"
  /\ worker' = s
  /\ valid' = TRUE
  /\ UNCHANGED want

Deliver ==
  /\ worker # Nobody
  /\ want' = IF valid THEN [want EXCEPT ![worker] = "ready"] ELSE want
  /\ worker' = Nobody
  /\ valid' = FALSE

(* Nothing is driven: every request is dropped, and nobody is working.     *)
Clear ==
  /\ worker = Nobody
  /\ want' = [s \in Slots |-> "none"]
  /\ UNCHANGED <<worker, valid>>

Next == Deliver \/ Clear \/ \E s \in Slots : Visit(s) \/ Take(s)

Spec == Init /\ [][Next]_hvars
=============================================================================
