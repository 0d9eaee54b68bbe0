-------------------------- MODULE MCCabinetSession --------------------------
(* One login whose callback is sent twice; the requests use the session of   *)
(* the first callback.                                                       *)
EXTENDS CabinetSession, TLC

CONSTANTS st, c1, c2, q1, q2

MCStateOf == [c \in Callbacks |-> st]
MCSidOf   == [q \in Requests |-> c1]

Symmetry == Permutations({q1, q2})

=============================================================================
