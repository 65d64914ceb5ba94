----------------------------- MODULE MCTimeline ------------------------------
(* A small instance of AeonTimeline: requests of one session that are denied *)
(* or run after a negotiated denial.                                         *)
EXTENDS AeonTimeline

EventKinds == {<<"capability_denied">>, <<"capability_denied", "proof_capsule_emitted">>}
=============================================================================
