------------------------------ MODULE MCIngest ------------------------------
(* Instances of Ingest for TLC.                                             *)
EXTENDS Ingest

ThreeItems == {1, 2, 3}
AllKinds == {"issues", "docs", "board"}
OnePull == {2}
=============================================================================
