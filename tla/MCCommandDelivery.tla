------------------------- MODULE MCCommandDelivery -------------------------
(* Small instances of CommandDelivery: one or two deployments of an        *)
(* account, and as many requests as it takes for a start, an OFF and a     *)
(* cancel to overlap.                                                      *)
EXTENDS CommandDelivery

CONSTANTS d1, d2

OneDeployment == {d1}
TwoDeployments == {d1, d2}
TwoRequests == 1..2
============================================================================
