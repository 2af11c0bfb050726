----------------------------- MODULE MCSession -----------------------------
(* The three requests that meet: the session query, one query of the shell, *)
(* and the completion of onboarding.                                        *)
EXTENDS Session

MCRequests == {"session", "page", "complete"}
MCUseCases == {"other"}
OneRegion == {"eu"}
TwoRegions == {"eu", "us"}

\* A tenant that is onboarded meets the larger share of what can go wrong; one
\* that is not, whose answers multiply the states, meets one of each.
MCInit ==
    /\ SessionInit
    /\ IF tenant.onboarded THEN tenant.region = "eu" /\ mishaps = 0 /\ visits = 0
       ELSE mishaps = MaxMishaps - 1 /\ visits = MaxVisits - 1

MCFairSpec == MCInit /\ [][Next]_vars /\ Fairness
=============================================================================
