---------------------------- MODULE MCAdmission ----------------------------
(* Three attempts against a row seeded at 2 with a hard cap of 4: the row   *)
(* fills, halves below the slots already taken, and grows back.             *)
EXTENDS Admission

CONSTANTS a1, a2, a3

MCClaimants == {a1, a2, a3}

MCRetryAfters == 0..2
=============================================================================
