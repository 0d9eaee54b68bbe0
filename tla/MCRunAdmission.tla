--------------------------- MODULE MCRunAdmission ---------------------------
(* Three requests to one agent: two of one user, one of another. *)
EXTENDS RunAdmission, TLC

CONSTANTS r1, r2, r3, ann, bob, qa

MCUserOf  == (r1 :> ann) @@ (r2 :> ann) @@ (r3 :> bob)
MCAgentOf == (r1 :> qa) @@ (r2 :> qa) @@ (r3 :> qa)

=============================================================================
