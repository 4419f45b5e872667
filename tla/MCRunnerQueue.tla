--------------------------- MODULE MCRunnerQueue ---------------------------
(* Three commands for one runner: the smallest number with which two of    *)
(* them can change places while a third is between the lists.              *)
EXTENDS RunnerQueue

CONSTANTS c1, c2, c3

MCCommands == {c1, c2, c3}
Perms == Permutations(MCCommands)

============================================================================
