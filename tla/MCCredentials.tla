--------------------------- MODULE MCCredentials ---------------------------
(* Two attempts on one or two workers, three tokens, two faults: a waiter    *)
(* behind a refresh, a refresh on the other worker, and a token lost between *)
(* the provider and the row all happen.                                      *)
EXTENDS Credentials

CONSTANTS a1, a2, w1, w2

MCAttempts == {a1, a2}
MCWorkers == {w1, w2}

\* Up to names, the only ways to place two attempts on two workers.
MCPlacements == {[a \in MCAttempts |-> w1], [a \in MCAttempts |-> IF a = a1 THEN w1 ELSE w2]}
=============================================================================
