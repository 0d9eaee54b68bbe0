---------------------------- MODULE AgentContract ----------------------------
(***************************************************************************)
(* What an agent runner promises RunService (AgentRunner and AgentError in *)
(* apps/api/alexsoft_api/agents/base.py): events while it works, then one  *)
(* end.  It ends without an error only after the agent answered, and once  *)
(* it has ended it yields nothing.                                         *)
(***************************************************************************)
CONSTANTS Runs

VARIABLES
    life,      \* "idle", "active", "ended", "failed"
    answered   \* the runner has yielded a Message

Init ==
    /\ life = [r \in Runs |-> "idle"]
    /\ answered = [r \in Runs |-> FALSE]

Start(r) ==
    /\ life[r] = "idle"
    /\ life' = [life EXCEPT ![r] = "active"]
    /\ UNCHANGED answered

\* Meta and Step change nothing here; a Message is the answer so far.
YieldMessage(r) ==
    /\ life[r] = "active"
    /\ answered' = [answered EXCEPT ![r] = TRUE]
    /\ UNCHANGED life

End(r) ==
    /\ life[r] = "active" /\ answered[r]
    /\ life' = [life EXCEPT ![r] = "ended"]
    /\ UNCHANGED answered

\* Errors, timeouts and a dying process, which ends all its runs at once.
Fail(S) ==
    /\ \A r \in S : life[r] \in {"idle", "active"}
    /\ life' = [r \in Runs |-> IF r \in S THEN "failed" ELSE life[r]]
    /\ UNCHANGED answered

Next ==
    \/ \E r \in Runs : Start(r) \/ YieldMessage(r) \/ End(r)
    \/ \E S \in SUBSET Runs : Fail(S)

vars == <<life, answered>>
Spec == Init /\ [][Next]_vars

=============================================================================
