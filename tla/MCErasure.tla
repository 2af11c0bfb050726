----------------------------- MODULE MCErasure -----------------------------
(* Instances of Erasure for TLC.                                            *)
EXTENDS Erasure

TwoUnits == {1, 2}
=============================================================================
