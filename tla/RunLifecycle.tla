---------------------------- MODULE RunLifecycle ----------------------------
(***************************************************************************)
(* A run after its row was written: RunService._execute, _fail, stream and *)
(* shutdown (apps/api/alexsoft_api/runs.py), the lifespan that calls       *)
(* fail_stale_runs (main.py), the tables bl.runs and bl.run_events, and    *)
(* the browser's EventSource that follows a run (AgentChat.tsx).           *)
(*                                                                         *)
(* The store answers one call at a time, so a task is described by the     *)
(* store call it waits for; between two calls anything else may run.       *)
(***************************************************************************)
EXTENDS Naturals, Sequences

CONSTANTS
    Runs,            \* run ids
    Clients,         \* browsers
    Follows,         \* the run a browser follows
    MaxAgentEvents,  \* bound: the length a log reaches by the agent's events
    MaxStops,        \* bound: how often the process ends, orderly or not
    MaxFaults,       \* bound: how many store calls raise
    MaxDrops         \* bound: how many connections break

ASSUME FollowsAssumption == Follows \in [Clients -> Runs]
ASSUME BoundsAssumption  == /\ MaxAgentEvents \in Nat /\ MaxStops \in Nat
                            /\ MaxFaults \in Nat /\ MaxDrops \in Nat

VARIABLES
    phase,      \* the BL process: "up", "stopping" (lifespan shutdown), "down"
    status,     \* bl.runs.status
    log,        \* bl.run_events of a run: its types, in the order of seq
    task,       \* the store call a run's asyncio task waits for
    cancelled,  \* tasks on which cancel() was called and not yet delivered
    output,     \* the run's `output` is not empty
    conn,       \* a browser's stream: the call its generator waits for
    after,      \* stream(): after_seq
    upto,       \* stream(): the last seq of the list being yielded
    got,        \* the ids a browser has received, in order
    hit,        \* history: runs whose task was cancelled or saw a store call raise
    stops, faults, drops    \* how often each bounded mishap has happened

server   == <<phase, status, log, task, cancelled, output, hit>>
streams  == <<conn, after, upto, got>>
mishaps  == <<stops, faults, drops>>
vars     == <<server, streams, mishaps>>

Active   == {"queued", "running"}
Final    == {"succeeded", "failed"}
Terminal == {"done", "error"}
EventTypes == Active \cup Final \cup {"step", "message"} \cup Terminal

\* The store calls of _execute and _fail: the status update_run writes, the
\* event append_event writes, and what the task does next.
NewStatus == [start |-> "running", settle |-> "succeeded", fail |-> "failed"]
NewEvent  == [tell_running |-> "running", tell_succeeded |-> "succeeded",
              tell_done |-> "done", tell_failed |-> "failed", tell_error |-> "error"]
\* Mutant of Then: `done` is forgotten.
ThenWithoutDone ==
    [start |-> "tell_running", tell_running |-> "agent",
     settle |-> "tell_succeeded", tell_succeeded |-> "ended", tell_done |-> "ended",
     fail |-> "tell_failed", tell_failed |-> "tell_error", tell_error |-> "ended"]

Then == [start |-> "tell_running", tell_running |-> "agent",
         settle |-> "tell_succeeded", tell_succeeded |-> "tell_done",
         tell_done |-> "ended",
         fail |-> "tell_failed", tell_failed |-> "tell_error", tell_error |-> "ended"]

Calls     == DOMAIN Then
FailCalls == {"fail", "tell_failed", "tell_error"}
Gone      == {"none", "ended"}
Streaming == {"list", "send", "check", "recheck"}

TypeOK ==
    /\ phase \in {"up", "stopping", "down"}
    /\ status \in [Runs -> {"absent"} \cup Active \cup Final]
    /\ log \in [Runs -> Seq(EventTypes)]
    /\ task \in [Runs -> Calls \cup Gone \cup {"scheduled", "agent"}]
    /\ cancelled \subseteq Runs
    /\ output \in [Runs -> BOOLEAN]
    /\ conn \in [Clients -> Streaming \cup {"idle", "returned", "dropped", "lost", "told"}]
    /\ after \in [Clients -> Nat]
    /\ upto \in [Clients -> Nat]
    /\ got \in [Clients -> Seq(Nat)]
    /\ hit \subseteq Runs
    /\ stops \in 0..MaxStops
    /\ faults \in 0..MaxFaults
    /\ drops \in 0..MaxDrops

Init ==
    /\ phase = "up"
    /\ status = [r \in Runs |-> "absent"]
    /\ log = [r \in Runs |-> <<>>]
    /\ task = [r \in Runs |-> "none"]
    /\ cancelled = {}
    /\ output = [r \in Runs |-> FALSE]
    /\ conn = [c \in Clients |-> "idle"]
    /\ after = [c \in Clients |-> 0]
    /\ upto = [c \in Clients |-> 0]
    /\ got = [c \in Clients |-> <<>>]
    /\ hit = {}
    /\ stops = 0 /\ faults = 0 /\ drops = 0

Goto(r, l) == task' = [task EXCEPT ![r] = l]

-----------------------------------------------------------------------------
(* The background task of a run. *)

\* create() has inserted the row and created the task.
Create(r) ==
    /\ phase = "up"
    /\ status[r] = "absent"
    /\ status' = [status EXCEPT ![r] = "queued"]
    /\ Goto(r, "scheduled")
    /\ UNCHANGED <<phase, log, cancelled, output, hit, streams, mishaps>>

\* The insert was committed and its answer lost: a row without a task.
CreateOrphan(r) ==
    /\ phase = "up"
    /\ status[r] = "absent"
    /\ faults < MaxFaults
    /\ faults' = faults + 1
    /\ status' = [status EXCEPT ![r] = "queued"]
    /\ hit' = hit \cup {r}
    /\ UNCHANGED <<phase, log, task, cancelled, output, streams, stops, drops>>

\* The event loop starts the task.
Begin(r) ==
    /\ task[r] = "scheduled"
    /\ r \notin cancelled
    /\ Goto(r, "start")
    /\ UNCHANGED <<phase, status, log, cancelled, output, hit, streams, mishaps>>

\* The store carries out the call the task waits for.
Commit(r) ==
    LET call == task[r] IN
    /\ status' = IF call \in DOMAIN NewStatus
                 THEN [status EXCEPT ![r] = NewStatus[call]] ELSE status
    /\ log' = IF call \in DOMAIN NewEvent
              THEN [log EXCEPT ![r] = Append(@, NewEvent[call])] ELSE log

Call(r) ==
    /\ task[r] \in Calls
    /\ r \notin cancelled
    /\ Commit(r)
    /\ Goto(r, Then[task[r]])
    /\ UNCHANGED <<phase, cancelled, output, hit, streams, mishaps>>

\* The runner yields a Step or a Message: the last Message is the output, and
\* its content may be empty.
AgentEvent(r, e, nonempty) ==
    /\ task[r] = "agent"
    /\ r \notin cancelled
    /\ Len(log[r]) < MaxAgentEvents
    /\ log' = [log EXCEPT ![r] = Append(@, e)]
    /\ output' = [output EXCEPT ![r] = IF e = "message" THEN nonempty ELSE @]
    /\ UNCHANGED <<phase, status, task, cancelled, hit, streams, mishaps>>

\* Mutant of AgentEnds: an empty output is accepted.
AgentEndsUnchecked(r) ==
    /\ task[r] = "agent"
    /\ r \notin cancelled
    /\ Goto(r, "settle")
    /\ UNCHANGED <<phase, status, log, cancelled, output, hit, streams, mishaps>>

\* The runner is exhausted: without an output that is an AgentError.
AgentEnds(r) ==
    /\ task[r] = "agent"
    /\ r \notin cancelled
    /\ Goto(r, IF output[r] THEN "settle" ELSE "fail")
    /\ UNCHANGED <<phase, status, log, cancelled, output, hit, streams, mishaps>>

\* Mutant of AgentFails: the timeout only covers the first answer.
AgentFailsBeforeAnswer(r) ==
    /\ task[r] = "agent"
    /\ r \notin cancelled
    /\ ~output[r]
    /\ Goto(r, "fail")
    /\ UNCHANGED <<phase, status, log, cancelled, output, hit, streams, mishaps>>

\* asyncio.timeout fires, the runner raises, or the store call of one of its
\* events raises.
AgentFails(r) ==
    /\ task[r] = "agent"
    /\ r \notin cancelled
    /\ Goto(r, "fail")
    /\ UNCHANGED <<phase, status, log, cancelled, output, hit, streams, mishaps>>

\* Mutant of StoreFault: the error is swallowed and the run goes on.
StoreFaultSwallowed(r) ==
    /\ task[r] \in Calls
    /\ r \notin cancelled
    /\ faults < MaxFaults
    /\ faults' = faults + 1
    /\ Commit(r) \/ UNCHANGED <<status, log>>
    /\ Goto(r, Then[task[r]])
    /\ hit' = hit \cup {r}
    /\ UNCHANGED <<phase, cancelled, output, streams, stops, drops>>

\* A store call raises, before or after the database committed it.  _execute
\* turns that into _fail; _fail logs it and gives up.
StoreFault(r) ==
    /\ task[r] \in Calls
    /\ r \notin cancelled
    /\ faults < MaxFaults
    /\ faults' = faults + 1
    /\ Commit(r) \/ UNCHANGED <<status, log>>
    /\ Goto(r, IF task[r] \in FailCalls THEN "ended" ELSE "fail")
    /\ hit' = hit \cup {r}
    /\ UNCHANGED <<phase, cancelled, output, streams, stops, drops>>

\* CancelledError reaches the task at its await, before or after the call was
\* committed.  A task that never started just ends; _fail does not catch it.
DeliverCancel(r) ==
    /\ r \in cancelled
    /\ task[r] \in Calls \cup {"scheduled", "agent"}
    /\ \/ task[r] \in Calls /\ Commit(r)
       \/ UNCHANGED <<status, log>>
    /\ Goto(r, IF task[r] \in FailCalls \cup {"scheduled"} THEN "ended" ELSE "fail")
    /\ cancelled' = cancelled \ {r}
    /\ UNCHANGED <<phase, output, hit, streams, mishaps>>

-----------------------------------------------------------------------------
(* The process. *)

\* lifespan's finally: RunService.shutdown cancels every task ...
BeginShutdown ==
    /\ phase = "up"
    /\ stops < MaxStops
    /\ stops' = stops + 1
    /\ phase' = "stopping"
    /\ cancelled' = {r \in Runs : task[r] \notin Gone}
    /\ hit' = hit \cup cancelled'
    /\ UNCHANGED <<status, log, task, output, streams, faults, drops>>

\* The streams of a process that ends break off.
CutStreams == conn' = [c \in Clients |-> IF conn[c] \in Streaming THEN "dropped" ELSE conn[c]]

\* ... and gathers them; then the store is closed.
EndShutdown ==
    /\ phase = "stopping"
    /\ \A r \in Runs : task[r] \in Gone
    /\ phase' = "down"
    /\ CutStreams
    /\ UNCHANGED <<status, log, task, cancelled, output, hit, after, upto, got, mishaps>>

\* The process is killed: its tasks are gone, with or without the store call
\* they were waiting for.
Crash ==
    /\ phase \in {"up", "stopping"}
    /\ stops < MaxStops
    /\ stops' = stops + 1
    /\ phase' = "down"
    /\ task' = [r \in Runs |-> IF task[r] = "none" THEN "none" ELSE "ended"]
    /\ cancelled' = {}
    /\ CutStreams
    /\ UNCHANGED <<status, log, output, hit, after, upto, got, faults, drops>>

\* Mutants of FailStaleRuns: runs that never started are forgotten; the runs
\* that are over are failed as well.
FailRunningRuns ==
    status' = [r \in Runs |-> IF status[r] = "running" THEN "failed" ELSE status[r]]
FailAllRuns ==
    status' = [r \in Runs |-> IF status[r] # "absent" THEN "failed" ELSE status[r]]

\* fail_stale_runs: a status, not an event.
FailStaleRuns ==
    status' = [r \in Runs |-> IF status[r] \in Active THEN "failed" ELSE status[r]]

Restart ==
    /\ phase = "down"
    /\ phase' = "up"
    /\ FailStaleRuns
    /\ UNCHANGED <<log, task, cancelled, output, hit, streams, mishaps>>

-----------------------------------------------------------------------------
(* The event stream and its browser. *)

\* The id of the last frame the browser received.
LastId(c) == IF got[c] = <<>> THEN 0 ELSE got[c][Len(got[c])]

Connect(c) ==
    /\ phase = "up"
    /\ conn[c] = "idle"
    /\ status[Follows[c]] # "absent"
    /\ conn' = [conn EXCEPT ![c] = "list"]
    /\ UNCHANGED <<server, after, upto, got, mishaps>>

\* list_events(run_id, after_seq)
ListEvents(c) ==
    /\ conn[c] = "list"
    /\ upto' = [upto EXCEPT ![c] = Len(log[Follows[c]])]
    /\ conn' = [conn EXCEPT ![c] = IF Len(log[Follows[c]]) > after[c] THEN "send" ELSE "check"]
    /\ UNCHANGED <<server, after, got, mishaps>>

\* One frame is yielded and received.  A terminal one ends the generator, and
\* the browser closes its EventSource; after the last one comes the next poll.
SendFrame(c) ==
    /\ conn[c] = "send"
    /\ after' = [after EXCEPT ![c] = @ + 1]
    /\ got' = [got EXCEPT ![c] = Append(@, after[c] + 1)]
    /\ conn' = [conn EXCEPT ![c] =
                   IF log[Follows[c]][after[c] + 1] \in Terminal THEN "told"
                   ELSE IF after[c] + 1 = upto[c] THEN "list" ELSE "send"]
    /\ UNCHANGED <<server, upto, mishaps>>

\* Nothing new: get_run; a run that is not over is polled again.
CheckRun(c) ==
    /\ conn[c] = "check"
    /\ conn' = [conn EXCEPT ![c] = IF status[Follows[c]] \in Final THEN "recheck" ELSE "list"]
    /\ UNCHANGED <<server, after, upto, got, mishaps>>

\* The run is over and there is still nothing new: the generator returns.
Recheck(c) ==
    /\ conn[c] = "recheck"
    /\ conn' = [conn EXCEPT ![c] = IF Len(log[Follows[c]]) > after[c] THEN "list" ELSE "returned"]
    /\ UNCHANGED <<server, after, upto, got, mishaps>>

DropConnection(c) ==
    /\ conn[c] \in Streaming
    /\ drops < MaxDrops
    /\ drops' = drops + 1
    /\ conn' = [conn EXCEPT ![c] = "dropped"]
    /\ UNCHANGED <<server, after, upto, got, stops, faults>>

\* Mutant of Reconnect: Last-Event-ID is ignored.
ReconnectFromStart(c) ==
    /\ phase = "up"
    /\ conn[c] \in {"returned", "dropped"}
    /\ conn' = [conn EXCEPT ![c] = "list"]
    /\ after' = [after EXCEPT ![c] = 0]
    /\ UNCHANGED <<server, upto, got, mishaps>>

\* EventSource reconnects with Last-Event-ID, the last id it received.
Reconnect(c) ==
    /\ phase = "up"
    /\ conn[c] \in {"returned", "dropped"}
    /\ conn' = [conn EXCEPT ![c] = "list"]
    /\ after' = [after EXCEPT ![c] = LastId(c)]
    /\ UNCHANGED <<server, upto, got, mishaps>>

\* The cabinet answers 503 while the BL is down: EventSource closes for good.
GiveUp(c) ==
    /\ phase # "up"
    /\ conn[c] \in {"returned", "dropped"}
    /\ conn' = [conn EXCEPT ![c] = "lost"]
    /\ UNCHANGED <<server, after, upto, got, mishaps>>

-----------------------------------------------------------------------------

Progress(r) == Begin(r) \/ Call(r) \/ AgentFails(r) \/ DeliverCancel(r)
Poll(c) == ListEvents(c) \/ SendFrame(c) \/ CheckRun(c) \/ Recheck(c) \/ Reconnect(c)

Next ==
    \/ \E r \in Runs : Create(r)
    \/ \E r \in Runs : CreateOrphan(r)
    \/ \E r \in Runs : Progress(r)
    \/ \E r \in Runs : \E e \in {"step", "message"}, nonempty \in BOOLEAN :
          AgentEvent(r, e, nonempty)
    \/ \E r \in Runs : AgentEnds(r)
    \/ \E r \in Runs : StoreFault(r)
    \/ BeginShutdown
    \/ EndShutdown
    \/ Crash
    \/ Restart
    \/ \E c \in Clients : Connect(c)
    \/ \E c \in Clients : Poll(c)
    \/ \E c \in Clients : DropConnection(c)
    \/ \E c \in Clients : GiveUp(c)

Spec == Init /\ [][Next]_vars

\* The event loop and the database serve tasks and streams, asyncio.timeout
\* fires although the agent owes nothing, EventSource retries, and the
\* supervisor brings the process back.
Fairness ==
    /\ \A r \in Runs : WF_vars(Progress(r))
    /\ \A c \in Clients : WF_vars(Poll(c))
    /\ WF_vars(EndShutdown)
    /\ WF_vars(Restart)

FairSpec == Spec /\ Fairness

-----------------------------------------------------------------------------
(* What the code must guarantee. *)

Has(r, e)    == \E i \in DOMAIN log[r] : log[r][i] = e
Announced(r) == IF Has(r, "done") THEN "done" ELSE IF Has(r, "error") THEN "error" ELSE "none"

\* Across broken connections, restarts and premature ends of the stream a
\* browser receives every event once and in order: the ids 1..n of a prefix of
\* the log (stream, after_seq, Last-Event-ID).
ExactlyOnceInOrder ==
    \A c \in Clients :
        /\ got[c] = [i \in 1..Len(got[c]) |-> i]
        /\ Len(got[c]) <= Len(log[Follows[c]])

\* The grammar of a log: `done` comes once, after a message and right after the
\* status `succeeded`; `error` comes right after the status `failed` and is the
\* last event, so it comes once (_execute, _fail, and a kill or a store error at
\* any await).
EventProtocol ==
    \A r \in Runs : \A i \in DOMAIN log[r] :
        /\ log[r][i] = "done" =>
              /\ i > 1 /\ log[r][i - 1] = "succeeded"
              /\ \E k \in 1..(i - 1) : log[r][k] = "message"
              /\ \A k \in DOMAIN log[r] : log[r][k] = "done" => k = i
        /\ log[r][i] = "error" => i > 1 /\ log[r][i - 1] = "failed" /\ i = Len(log[r])

\* A running process has a task for every run that is not over: fail_stale_runs
\* leaves none behind.  Only a run whose own store call failed may be stuck
\* (_fail gives up, create() lost the answer).
NoAbandonedRun ==
    \A r \in Runs :
        phase = "up" /\ task[r] \in Gone /\ status[r] \in Active => r \in hit

\* What the stream announced is what GET /v1/runs/{id} answers, a kill and a
\* restart later too; a `done` may be taken back only where a store call
\* raised or the shutdown cancelled the task after it.
VerdictAgrees ==
    \A r \in Runs :
        /\ Has(r, "error") => status[r] = "failed"
        /\ Has(r, "done") /\ r \notin hit => status[r] = "succeeded"

\* A failed run stays failed: no task of an ended process, and no late store
\* call of its own, revives it.
FailedIsFinal ==
    [][\A r \in Runs : status[r] = "failed" => status'[r] = "failed"]_vars

\* The lifecycle implements the promise of the API.
Contract == INSTANCE RunContract WITH verdict <- [r \in Runs |-> Announced(r)]

\* Status and verdict of all runs behave as RunContract says, through kills,
\* restarts, cancelled tasks and lost store answers (the statuses and events
\* of bl.openapi.yaml against _execute, _fail and fail_stale_runs).
RefinesContract == Contract!Spec

\* Every run ends, whether the agent answers or not (asyncio.timeout in
\* _execute), unless a store call failed on it.
RunEnds ==
    \A r \in Runs : status[r] \in Active ~> status[r] \in Final \/ r \in hit

\* A browser that follows a run receives `done` or `error`, or knows that the
\* connection is lost (bl.openapi.yaml:28-29 on the stream and its replay).
FollowerTold ==
    \A c \in Clients : conn[c] # "idle" ~> conn[c] \in {"told", "lost"}

-----------------------------------------------------------------------------
(* The inductive invariants RunLifecycleProofs establishes. *)

\* The status a run has while its task waits for a call.
StatusOfTask(r) ==
    /\ task[r] \in {"scheduled", "start"} => status[r] = "queued"
    /\ task[r] \in {"tell_running", "agent", "settle"} => status[r] = "running"
    /\ task[r] \in {"tell_succeeded", "tell_done"} => status[r] = "succeeded"
    /\ task[r] = "fail" => status[r] \in Active \cup {"succeeded"}
    /\ task[r] \in {"tell_failed", "tell_error"} => status[r] = "failed"
    /\ status[r] = "absent" => task[r] = "none"

\* What a log cannot hold yet while the task waits for a call.
LogOfTask(r) ==
    /\ task[r] # "ended" => ~Has(r, "error")
    /\ Has(r, "done") => task[r] \in FailCalls \cup {"ended"}

\* What is known of a run that met no mishap.
Unharmed(r) ==
    /\ Has(r, "error") => status[r] = "failed"
    /\ Has(r, "done") /\ r \notin hit => status[r] = "succeeded" /\ task[r] = "ended"
    /\ phase = "up" /\ task[r] \in Gone /\ status[r] \in Active => r \in hit

LifecycleInv ==
    /\ \A r \in Runs : StatusOfTask(r) /\ LogOfTask(r) /\ Unharmed(r)
    /\ cancelled \subseteq hit
    /\ phase = "down" => \A r \in Runs : task[r] \in Gone

\* Where a stream stands in the log and its browser behind it.
Stands(c) ==
    /\ conn[c] \in {"idle"} \cup Streaming => after[c] = Len(got[c])
    /\ conn[c] = "send" => after[c] < upto[c]
    /\ upto[c] <= Len(log[Follows[c]])

StreamInv == \A c \in Clients : Stands(c)

=============================================================================
