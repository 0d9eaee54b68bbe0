--------------------------- MODULE MCRunLifecycle ---------------------------
(* One run or two; the first browser follows the first run. *)
EXTENDS RunLifecycle, TLC

CONSTANTS r1, r2, c1, c2

MCFollows == [c \in Clients |-> IF c = c2 /\ r2 \in Runs THEN r2 ELSE r1]

=============================================================================
