------------------------------ MODULE MCLifecycle ------------------------------
(* Lifecycle on small instances. *)
EXTENDS Lifecycle

\* Two tiles and a look at the metrics of the health server.
MCRequests == {"r1", "r2", "r3"}
MCKind == [r \in MCRequests |-> IF r = "r3" THEN "health" ELSE "tile"]
=============================================================================
