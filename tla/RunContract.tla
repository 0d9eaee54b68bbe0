----------------------------- MODULE RunContract -----------------------------
(***************************************************************************)
(* What the BL API promises of a run (artifacts/api/bl.openapi.yaml, Run   *)
(* and RunEvent), without tasks, processes or streams: the status in       *)
(* bl.runs and the verdict its event stream announces.                     *)
(***************************************************************************)
CONSTANTS Runs

VARIABLES
    status,    \* what GET /v1/runs/{id} answers
    verdict    \* the first of `done` / `error` in the run's events

Active == {"queued", "running"}

Init ==
    /\ status = [r \in Runs |-> "absent"]
    /\ verdict = [r \in Runs |-> "none"]

Submit(r) ==
    /\ status[r] = "absent"
    /\ status' = [status EXCEPT ![r] = "queued"]
    /\ UNCHANGED verdict

Begin(r) ==
    /\ status[r] = "queued"
    /\ status' = [status EXCEPT ![r] = "running"]
    /\ UNCHANGED verdict

Succeed(r) ==
    /\ status[r] = "running"
    /\ status' = [status EXCEPT ![r] = "succeeded"]
    /\ UNCHANGED verdict

\* Any runs but the failed ones may fail, several at once at a restart; a
\* success may still be taken back, a failure is final.
Fail(S) ==
    /\ S # {}
    /\ \A r \in S : status[r] \in Active \cup {"succeeded"}
    /\ status' = [r \in Runs |-> IF r \in S THEN "failed" ELSE status[r]]
    /\ UNCHANGED verdict

\* The verdict is announced once, and never against the status.
Announce(r) ==
    /\ verdict[r] = "none"
    /\ \/ status[r] = "succeeded" /\ verdict' = [verdict EXCEPT ![r] = "done"]
       \/ status[r] = "failed" /\ verdict' = [verdict EXCEPT ![r] = "error"]
    /\ UNCHANGED status

Next ==
    \/ \E r \in Runs : Submit(r) \/ Begin(r) \/ Succeed(r) \/ Announce(r)
    \/ \E S \in SUBSET Runs : Fail(S)

vars == <<status, verdict>>
Spec == Init /\ [][Next]_vars

=============================================================================
