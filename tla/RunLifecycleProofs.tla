------------------------- MODULE RunLifecycleProofs -------------------------
(***************************************************************************)
(* Theorems about RunLifecycle for any runs, browsers and bounds: type     *)
(* correctness, what a failed run, a log and a restart may do, and that    *)
(* the lifecycle implements RunContract.                                   *)
(***************************************************************************)
EXTENDS RunLifecycle, SequenceTheorems, TLAPS

USE FollowsAssumption, BoundsAssumption

-----------------------------------------------------------------------------
(* What a store call does to the two tables. *)

CallNames == {"start", "tell_running", "settle", "tell_succeeded", "tell_done",
              "fail", "tell_failed", "tell_error"}

\* The store calls are the domain of Then (the awaits of _execute and _fail).
LEMMA CallsAre == Calls = CallNames
  BY DEF Calls, Then, CallNames

\* An event is in an extended log when it was there or is the new one.
LEMMA HasAppend ==
    ASSUME NEW s \in Seq(EventTypes), NEW x \in EventTypes, NEW e
    PROVE  (\E i \in DOMAIN Append(s, x) : Append(s, x)[i] = e)
             <=> (\E i \in DOMAIN s : s[i] = e) \/ x = e
<1>1. /\ Append(s, x) \in Seq(EventTypes)
      /\ DOMAIN Append(s, x) = 1..Len(s) + 1
      /\ DOMAIN s = 1..Len(s)
      /\ Len(s) \in Nat
      /\ \A i \in 1..Len(s) : Append(s, x)[i] = s[i]
      /\ Append(s, x)[Len(s) + 1] = x
  BY AppendProperties
<1>2. \A i \in 1..Len(s) + 1 : i \in 1..Len(s) \/ i = Len(s) + 1
  BY <1>1
<1>3. Len(s) + 1 \in 1..Len(s) + 1 /\ \A i \in 1..Len(s) : i \in 1..Len(s) + 1
  BY <1>1
<1> QED BY <1>1, <1>2, <1>3, Zenon

\* Appending an event to the log of r touches no other log.
LEMMA AppendEffect ==
    ASSUME TypeOK, NEW r \in Runs, NEW e \in EventTypes,
           log' = [log EXCEPT ![r] = Append(@, e)]
    PROVE  /\ log' \in [Runs -> Seq(EventTypes)]
           /\ \A s \in Runs \ {r} : log'[s] = log[s]
           /\ Len(log'[r]) = Len(log[r]) + 1
           /\ \A x : Has(r, x)' <=> Has(r, x) \/ x = e
<1>1. log[r] \in Seq(EventTypes) /\ log'[r] = Append(log[r], e)
  BY DEF TypeOK
<1>2. \A x : Has(r, x)' <=> Has(r, x) \/ x = e
  BY <1>1, HasAppend DEF Has
<1>3. Append(log[r], e) \in Seq(EventTypes) /\ Len(Append(log[r], e)) = Len(log[r]) + 1
  BY <1>1, AppendProperties
<1> QED BY <1>1, <1>2, <1>3 DEF TypeOK

\* The outcome of the call a task waits for: update_run or append_event.
CommitOutcome(r) ==
    /\ status' \in [Runs -> {"absent"} \cup Active \cup Final]
    /\ log' \in [Runs -> Seq(EventTypes)]
    /\ \A s \in Runs \ {r} : status'[s] = status[s] /\ log'[s] = log[s]
    /\ task[r] = "start" => status'[r] = "running"
    /\ task[r] = "settle" => status'[r] = "succeeded"
    /\ task[r] = "fail" => status'[r] = "failed"
    /\ task[r] \notin {"start", "settle", "fail"} => status'[r] = status[r]
    /\ Has(r, "done")' <=> Has(r, "done") \/ task[r] = "tell_done"
    /\ Has(r, "error")' <=> Has(r, "error") \/ task[r] = "tell_error"
    /\ Len(log[r]) <= Len(log'[r])

\* A committed call has that outcome.
LEMMA CommitEffect ==
    ASSUME TypeOK, NEW r \in Runs, task[r] \in Calls, Commit(r)
    PROVE  CommitOutcome(r)
<1>1. CASE task[r] \in {"start", "settle", "fail"}
  <2>1. /\ status' = [status EXCEPT ![r] = NewStatus[task[r]]]
        /\ log' = log
    BY <1>1 DEF Commit, NewStatus, NewEvent
  <2>2. /\ task[r] = "start" => NewStatus[task[r]] = "running"
        /\ task[r] = "settle" => NewStatus[task[r]] = "succeeded"
        /\ task[r] = "fail" => NewStatus[task[r]] = "failed"
    BY DEF NewStatus
  <2>3. \A x : Has(r, x)' <=> Has(r, x)
    BY <2>1 DEF Has
  <2>4. Len(log[r]) <= Len(log'[r])
    BY <2>1, LenProperties DEF TypeOK
  <2> QED BY <1>1, <2>1, <2>2, <2>3, <2>4 DEF CommitOutcome, TypeOK, Active, Final
<1>2. CASE task[r] \notin {"start", "settle", "fail"}
  <2>1. task[r] \in {"tell_running", "tell_succeeded", "tell_done", "tell_failed", "tell_error"}
    BY <1>2, CallsAre DEF CallNames
  <2>2. /\ status' = status
        /\ log' = [log EXCEPT ![r] = Append(@, NewEvent[task[r]])]
    BY <2>1 DEF Commit, NewStatus, NewEvent
  <2>3. /\ NewEvent[task[r]] \in EventTypes
        /\ NewEvent[task[r]] = "done" <=> task[r] = "tell_done"
        /\ NewEvent[task[r]] = "error" <=> task[r] = "tell_error"
    BY <2>1 DEF NewEvent, EventTypes, Active, Final, Terminal
  <2>4. /\ log' \in [Runs -> Seq(EventTypes)]
        /\ \A s \in Runs \ {r} : log'[s] = log[s]
        /\ Len(log'[r]) = Len(log[r]) + 1
        /\ \A x : Has(r, x)' <=> Has(r, x) \/ x = NewEvent[task[r]]
    BY <2>2, <2>3, AppendEffect
  <2>5. Len(log[r]) <= Len(log'[r])
    BY <2>4, LenProperties DEF TypeOK
  <2> QED BY <1>2, <2>2, <2>3, <2>4, <2>5 DEF CommitOutcome, TypeOK
<1> QED BY <1>1, <1>2

-----------------------------------------------------------------------------
(* Type correctness. *)

\* What Next does to one task; the handlers of the process and of a stream.
TaskStep(r) ==
    \/ Create(r) \/ CreateOrphan(r) \/ Progress(r) \/ AgentEnds(r) \/ StoreFault(r)
    \/ \E e \in {"step", "message"}, nonempty \in BOOLEAN : AgentEvent(r, e, nonempty)
ProcessStep == BeginShutdown \/ EndShutdown \/ Crash \/ Restart
StreamStep(c) == Connect(c) \/ Poll(c) \/ DropConnection(c) \/ GiveUp(c)

\* Next sorted by who acts.
LEMMA NextSorted ==
    ASSUME Next
    PROVE  \/ \E r \in Runs : TaskStep(r)
           \/ ProcessStep
           \/ \E c \in Clients : StreamStep(c)
  BY Zenon DEF Next, TaskStep, ProcessStep, StreamStep

\* The parts of TypeOK that steps of tasks leave alone.
LEMMA TaskType ==
    ASSUME TypeOK, NEW r \in Runs, TaskStep(r)
    PROVE  TypeOK'
<1>1. CASE Create(r)
  BY <1>1 DEF Create, Goto, TypeOK, streams, mishaps, Active
<1>2. CASE CreateOrphan(r)
  BY <1>2 DEF CreateOrphan, TypeOK, streams, Active
<1>3. CASE Begin(r)
  BY <1>3, CallsAre DEF Begin, Goto, TypeOK, streams, mishaps, CallNames
<1>4. CASE Call(r)
  <2>1. Then[task[r]] \in Calls \cup Gone \cup {"agent"}
    BY <1>4, CallsAre DEF Call, Then, CallNames, Gone
  <2>2. CommitOutcome(r)
    BY <1>4, CommitEffect DEF Call
  <2> QED BY <1>4, <2>1, <2>2 DEF Call, CommitOutcome, Goto, TypeOK, streams, mishaps
<1>5. CASE \E e \in {"step", "message"}, nonempty \in BOOLEAN : AgentEvent(r, e, nonempty)
  <2>1. PICK e \in {"step", "message"}, nonempty \in BOOLEAN : AgentEvent(r, e, nonempty)
    BY <1>5
  <2>2. e \in EventTypes
    BY DEF EventTypes
  <2>3. log' \in [Runs -> Seq(EventTypes)]
    BY <2>1, <2>2, AppendEffect DEF AgentEvent
  <2>4. output' \in [Runs -> BOOLEAN]
    BY <2>1 DEF AgentEvent, TypeOK
  <2> QED BY <2>1, <2>3, <2>4 DEF AgentEvent, TypeOK, streams, mishaps
<1>6. CASE AgentEnds(r)
  BY <1>6, CallsAre DEF AgentEnds, Goto, TypeOK, streams, mishaps, CallNames
<1>7. CASE AgentFails(r)
  BY <1>7, CallsAre DEF AgentFails, Goto, TypeOK, streams, mishaps, CallNames
<1>8. CASE StoreFault(r)
  <2>1. /\ status' \in [Runs -> {"absent"} \cup Active \cup Final]
        /\ log' \in [Runs -> Seq(EventTypes)]
    BY <1>8, CommitEffect DEF StoreFault, CommitOutcome, TypeOK
  <2>2. task' \in [Runs -> Calls \cup Gone \cup {"scheduled", "agent"}]
    BY <1>8, CallsAre DEF StoreFault, Goto, TypeOK, CallNames, Gone
  <2> QED BY <1>8, <2>1, <2>2 DEF StoreFault, TypeOK, streams
<1>9. CASE DeliverCancel(r)
  <2>1. /\ status' \in [Runs -> {"absent"} \cup Active \cup Final]
        /\ log' \in [Runs -> Seq(EventTypes)]
    BY <1>9, CommitEffect DEF DeliverCancel, CommitOutcome, TypeOK
  <2>2. task' \in [Runs -> Calls \cup Gone \cup {"scheduled", "agent"}]
    BY <1>9, CallsAre DEF DeliverCancel, Goto, TypeOK, CallNames, Gone
  <2> QED BY <1>9, <2>1, <2>2 DEF DeliverCancel, TypeOK, streams, mishaps
<1> QED BY <1>1, <1>2, <1>3, <1>4, <1>5, <1>6, <1>7, <1>8, <1>9 DEF TaskStep, Progress

\* Starting and stopping the process keeps the types.
LEMMA ProcessType ==
    ASSUME TypeOK, ProcessStep
    PROVE  TypeOK'
<1>1. CASE BeginShutdown
  BY <1>1 DEF BeginShutdown, TypeOK, streams
<1>2. CASE EndShutdown
  BY <1>2 DEF EndShutdown, CutStreams, TypeOK, mishaps
<1>3. CASE Crash
  BY <1>3 DEF Crash, CutStreams, TypeOK, Gone
<1>4. CASE Restart
  BY <1>4 DEF Restart, FailStaleRuns, TypeOK, streams, mishaps, Active, Final
<1> QED BY <1>1, <1>2, <1>3, <1>4 DEF ProcessStep

\* Serving a stream keeps the types.
LEMMA StreamType ==
    ASSUME TypeOK, NEW c \in Clients, StreamStep(c)
    PROVE  TypeOK'
<1> Follows[c] \in Runs
  OBVIOUS
<1>1. CASE Connect(c)
  BY <1>1 DEF Connect, TypeOK, server, mishaps, Streaming
<1>2. CASE ListEvents(c)
  <2>1. Len(log[Follows[c]]) \in Nat
    BY LenProperties DEF TypeOK
  <2> QED BY <1>2, <2>1 DEF ListEvents, TypeOK, server, mishaps, Streaming
<1>3. CASE SendFrame(c)
  <2>1. got' \in [Clients -> Seq(Nat)]
    BY <1>3 DEF SendFrame, TypeOK
  <2>2. after' \in [Clients -> Nat]
    BY <1>3 DEF SendFrame, TypeOK
  <2>3. conn' \in [Clients -> Streaming \cup {"idle", "returned", "dropped", "lost", "told"}]
    BY <1>3 DEF SendFrame, TypeOK, Streaming
  <2> QED BY <1>3, <2>1, <2>2, <2>3 DEF SendFrame, TypeOK, server, mishaps
<1>4. CASE CheckRun(c)
  BY <1>4 DEF CheckRun, TypeOK, server, mishaps, Streaming
<1>5. CASE Recheck(c)
  BY <1>5 DEF Recheck, TypeOK, server, mishaps, Streaming
<1>6. CASE Reconnect(c)
  <2>1. LastId(c) \in Nat
    BY LenProperties, ElementOfSeq DEF LastId, TypeOK
  <2> QED BY <1>6, <2>1 DEF Reconnect, TypeOK, server, mishaps, Streaming
<1>7. CASE DropConnection(c)
  BY <1>7 DEF DropConnection, TypeOK, server, Streaming
<1>8. CASE GiveUp(c)
  BY <1>8 DEF GiveUp, TypeOK, server, mishaps, Streaming
<1> QED BY <1>1, <1>2, <1>3, <1>4, <1>5, <1>6, <1>7, <1>8 DEF StreamStep, Poll

\* Every step keeps the types.
LEMMA TypeStep ==
    ASSUME TypeOK, [Next]_vars
    PROVE  TypeOK'
<1>1. CASE Next
  BY <1>1, NextSorted, TaskType, ProcessType, StreamType
<1>2. CASE UNCHANGED vars
  BY <1>2 DEF vars, server, streams, mishaps, TypeOK
<1> QED BY <1>1, <1>2

\* The tables, tasks and streams keep their types in every behaviour.
THEOREM TypeCorrect == Spec => []TypeOK
<1>1. Init => TypeOK
  BY DEF Init, TypeOK, Gone, EventTypes, Active, Final
<1>2. TypeOK /\ [Next]_vars => TypeOK'
  BY TypeStep
<1> QED BY <1>1, <1>2, PTL DEF Spec

-----------------------------------------------------------------------------
(* The inductive invariant of tasks, statuses and logs. *)

RunInv(r) == StatusOfTask(r) /\ LogOfTask(r) /\ Unharmed(r)

\* A step of the task of r leaves every other run as it was.
OthersKept(r) ==
    /\ \A s \in Runs \ {r} :
          status'[s] = status[s] /\ log'[s] = log[s] /\ task'[s] = task[s]
    /\ hit \subseteq hit'
    /\ phase' = phase

\* A run that a step did not touch keeps its invariant.
LEMMA RunKept ==
    ASSUME NEW r, RunInv(r), status'[r] = status[r], log'[r] = log[r],
           task'[r] = task[r], hit \subseteq hit', phase' = phase
    PROVE  RunInv(r)'
  BY DEF RunInv, StatusOfTask, LogOfTask, Unharmed, Has

\* Only the run of the task has to be looked at.
LEMMA OneRun ==
    ASSUME NEW r \in Runs, OthersKept(r), LifecycleInv, RunInv(r)',
           cancelled' \subseteq hit', phase # "down"
    PROVE  LifecycleInv'
<1>1. \A s \in Runs \ {r} : RunInv(s)'
  BY RunKept DEF OthersKept, LifecycleInv, RunInv
<1>2. \A s \in Runs : RunInv(s)'
  BY <1>1
<1>3. phase' # "down"
  BY DEF OthersKept
<1> QED BY <1>2, <1>3 DEF LifecycleInv, RunInv

\* The task of r is at work, so the process is not down.
LEMMA NotDown ==
    ASSUME NEW r \in Runs, LifecycleInv, task[r] \notin Gone
    PROVE  phase # "down"
  BY DEF LifecycleInv

LEMMA TaskInv ==
    ASSUME TypeOK, LifecycleInv, NEW r \in Runs, TaskStep(r)
    PROVE  LifecycleInv' /\ (status[r] = "failed" => status'[r] = "failed") /\ OthersKept(r)
<1> RunInv(r) /\ cancelled \subseteq hit
  BY DEF LifecycleInv, RunInv
<1>1. CASE Create(r)
  <2>1. /\ OthersKept(r) /\ status[r] = "absent" /\ status'[r] = "queued"
        /\ task'[r] = "scheduled" /\ log'[r] = log[r] /\ hit' = hit /\ cancelled' = cancelled
    BY <1>1 DEF Create, Goto, TypeOK, OthersKept
  <2>2. RunInv(r)'
    BY <2>1 DEF RunInv, StatusOfTask, LogOfTask, Unharmed, Has, FailCalls, Gone
  <2> QED BY <1>1, <2>1, <2>2, OneRun DEF Create
<1>2. CASE CreateOrphan(r)
  <2>1. /\ OthersKept(r) /\ status[r] = "absent" /\ status'[r] = "queued"
        /\ task'[r] = task[r] /\ log'[r] = log[r] /\ hit' = hit \cup {r}
        /\ cancelled' = cancelled
    BY <1>2 DEF CreateOrphan, TypeOK, OthersKept
  <2>2. RunInv(r)'
    BY <2>1 DEF RunInv, StatusOfTask, LogOfTask, Unharmed, Has, FailCalls, Gone
  <2> QED BY <1>2, <2>1, <2>2, OneRun DEF CreateOrphan
<1>3. CASE Begin(r)
  <2>1. /\ OthersKept(r) /\ status'[r] = status[r] /\ task[r] = "scheduled"
        /\ task'[r] = "start" /\ log'[r] = log[r] /\ hit' = hit /\ cancelled' = cancelled
    BY <1>3 DEF Begin, Goto, TypeOK, OthersKept
  <2>2. RunInv(r)'
    BY <2>1 DEF RunInv, StatusOfTask, LogOfTask, Unharmed, Has, FailCalls, Gone
  <2> QED BY <2>1, <2>2, OneRun, NotDown DEF Gone
<1>4. CASE Call(r)
  <2>1. /\ CommitOutcome(r) /\ OthersKept(r) /\ task[r] \in CallNames
        /\ task'[r] = Then[task[r]] /\ hit' = hit /\ cancelled' = cancelled
    BY <1>4, CommitEffect, CallsAre DEF Call, Goto, TypeOK, OthersKept, CommitOutcome
  <2>2. RunInv(r)'
    BY <2>1 DEF RunInv, StatusOfTask, LogOfTask, Unharmed, CommitOutcome, CallNames,
                Then, FailCalls, Gone, Active
  <2>3. status[r] = "failed" => status'[r] = "failed"
    BY <2>1 DEF RunInv, StatusOfTask, CommitOutcome, CallNames, Active
  <2> QED BY <2>1, <2>2, <2>3, OneRun, NotDown DEF Gone, CallNames
<1>5. CASE \E e \in {"step", "message"}, nonempty \in BOOLEAN : AgentEvent(r, e, nonempty)
  <2>1. PICK e \in {"step", "message"}, nonempty \in BOOLEAN : AgentEvent(r, e, nonempty)
    BY <1>5
  <2>2. e \in EventTypes
    BY DEF EventTypes
  <2>3. /\ \A s \in Runs \ {r} : log'[s] = log[s]
        /\ Has(r, "done")' <=> Has(r, "done")
        /\ Has(r, "error")' <=> Has(r, "error")
    BY <2>1, <2>2, AppendEffect DEF AgentEvent
  <2>4. /\ OthersKept(r) /\ status'[r] = status[r] /\ task[r] = "agent"
        /\ task'[r] = task[r] /\ hit' = hit /\ cancelled' = cancelled
    BY <2>1, <2>3 DEF AgentEvent, OthersKept
  <2>5. RunInv(r)'
    BY <2>3, <2>4 DEF RunInv, StatusOfTask, LogOfTask, Unharmed, FailCalls, Gone
  <2> QED BY <2>4, <2>5, OneRun, NotDown DEF Gone
<1>6. CASE AgentEnds(r) \/ AgentFails(r)
  <2>1. /\ OthersKept(r) /\ status'[r] = status[r] /\ task[r] = "agent"
        /\ task'[r] \in {"settle", "fail"} /\ log'[r] = log[r] /\ hit' = hit
        /\ cancelled' = cancelled
    BY <1>6 DEF AgentEnds, AgentFails, Goto, TypeOK, OthersKept
  <2>2. RunInv(r)'
    BY <2>1 DEF RunInv, StatusOfTask, LogOfTask, Unharmed, Has, FailCalls, Gone, Active
  <2> QED BY <2>1, <2>2, OneRun, NotDown DEF Gone
<1>7. CASE StoreFault(r)
  <2>1. CommitOutcome(r) \/ UNCHANGED <<status, log>>
    BY <1>7, CommitEffect DEF StoreFault
  <2>2. /\ OthersKept(r) /\ task[r] \in CallNames /\ hit' = hit \cup {r}
        /\ task'[r] = IF task[r] \in FailCalls THEN "ended" ELSE "fail"
        /\ cancelled' = cancelled
    BY <1>7, <2>1, CallsAre DEF StoreFault, Goto, TypeOK, OthersKept, CommitOutcome
  <2>3. RunInv(r)' /\ (status[r] = "failed" => status'[r] = "failed")
    <3>1. CASE CommitOutcome(r)
      BY <2>2, <3>1 DEF RunInv, StatusOfTask, LogOfTask, Unharmed, CommitOutcome,
                        CallNames, FailCalls, Gone, Active
    <3>2. CASE UNCHANGED <<status, log>>
      BY <2>2, <3>2 DEF RunInv, StatusOfTask, LogOfTask, Unharmed, Has,
                        CallNames, FailCalls, Gone, Active
    <3> QED BY <2>1, <3>1, <3>2
  <2> QED BY <2>2, <2>3, OneRun, NotDown DEF Gone, CallNames
<1>8. CASE DeliverCancel(r)
  <2>1. \/ CommitOutcome(r) /\ task[r] \in CallNames
        \/ UNCHANGED <<status, log>>
    BY <1>8, CommitEffect, CallsAre DEF DeliverCancel
  <2>2. /\ OthersKept(r) /\ task[r] \in CallNames \cup {"scheduled", "agent"}
        /\ r \in hit /\ hit' = hit
        /\ task'[r] = IF task[r] \in FailCalls \cup {"scheduled"} THEN "ended" ELSE "fail"
        /\ cancelled' \subseteq cancelled
    BY <1>8, <2>1, CallsAre DEF DeliverCancel, Goto, TypeOK, OthersKept, CommitOutcome
  <2>3. RunInv(r)' /\ (status[r] = "failed" => status'[r] = "failed")
    <3>1. CASE CommitOutcome(r) /\ task[r] \in CallNames
      BY <2>2, <3>1 DEF RunInv, StatusOfTask, LogOfTask, Unharmed, CommitOutcome,
                        CallNames, FailCalls, Gone, Active
    <3>2. CASE UNCHANGED <<status, log>>
      BY <2>2, <3>2 DEF RunInv, StatusOfTask, LogOfTask, Unharmed, Has,
                        CallNames, FailCalls, Gone, Active
    <3> QED BY <2>1, <3>1, <3>2
  <2> QED BY <2>2, <2>3, OneRun, NotDown DEF Gone, CallNames
<1> QED BY <1>1, <1>2, <1>3, <1>4, <1>5, <1>6, <1>7, <1>8 DEF TaskStep, Progress

\* Shutdown, kill and restart keep the invariant, and no failed run changes.
LEMMA ProcessInv ==
    ASSUME TypeOK, LifecycleInv, ProcessStep
    PROVE  LifecycleInv' /\ \A r \in Runs : status[r] = "failed" => status'[r] = "failed"
<1>1. CASE BeginShutdown
  <2>1. /\ UNCHANGED <<status, log, task>>
        /\ phase' = "stopping"
        /\ hit \subseteq hit'
        /\ cancelled' \subseteq hit'
    BY <1>1 DEF BeginShutdown
  <2>2. \A r \in Runs : RunInv(r)'
    BY <2>1 DEF LifecycleInv, RunInv, StatusOfTask, LogOfTask, Unharmed, Has
  <2> QED BY <2>1, <2>2 DEF LifecycleInv, RunInv
<1>2. CASE EndShutdown
  <2>1. /\ UNCHANGED <<status, log, task, hit, cancelled>>
        /\ phase' = "down"
        /\ \A r \in Runs : task[r] \in Gone
    BY <1>2 DEF EndShutdown
  <2>2. \A r \in Runs : RunInv(r)'
    BY <2>1 DEF LifecycleInv, RunInv, StatusOfTask, LogOfTask, Unharmed, Has
  <2> QED BY <2>1, <2>2 DEF LifecycleInv, RunInv
<1>3. CASE Crash
  <2>1. /\ UNCHANGED <<status, log, hit>>
        /\ phase' = "down" /\ cancelled' = {}
        /\ \A r \in Runs : task'[r] = IF task[r] = "none" THEN "none" ELSE "ended"
    BY <1>3 DEF Crash
  <2>2. \A r \in Runs : RunInv(r)'
    BY <2>1 DEF LifecycleInv, RunInv, StatusOfTask, LogOfTask, Unharmed, Has, FailCalls
  <2> QED BY <2>1, <2>2 DEF LifecycleInv, RunInv, Gone
<1>4. CASE Restart
  <2>1. /\ UNCHANGED <<log, task, hit, cancelled>>
        /\ phase' = "up" /\ phase = "down"
        /\ \A r \in Runs : task[r] \in Gone
        /\ \A r \in Runs :
              status'[r] = IF status[r] \in Active THEN "failed" ELSE status[r]
    BY <1>4 DEF Restart, FailStaleRuns, LifecycleInv
  <2>2. \A r \in Runs : RunInv(r)'
    BY <2>1 DEF LifecycleInv, RunInv, StatusOfTask, LogOfTask, Unharmed, Has, Active, Gone
  <2> QED BY <2>1, <2>2 DEF LifecycleInv, RunInv, Active
<1> QED BY <1>1, <1>2, <1>3, <1>4 DEF ProcessStep

\* Streams only read what tasks write.
LEMMA StreamReads ==
    ASSUME NEW c, StreamStep(c)
    PROVE  UNCHANGED server
  BY DEF StreamStep, Poll, Connect, ListEvents, SendFrame, CheckRun, Recheck, Reconnect,
         DropConnection, GiveUp

\* Nothing changes when the server does not.
LEMMA ServerKept ==
    ASSUME LifecycleInv, UNCHANGED server
    PROVE  LifecycleInv' /\ \A r \in Runs : status[r] = "failed" => status'[r] = "failed"
<1>1. \A r \in Runs : RunInv(r)'
  BY RunKept DEF LifecycleInv, RunInv, server
<1> QED BY <1>1 DEF LifecycleInv, RunInv, server

\* Every step keeps the invariant, and no failed run changes its status.
LEMMA InvStep ==
    ASSUME TypeOK, LifecycleInv, [Next]_vars
    PROVE  LifecycleInv' /\ \A r \in Runs : status[r] = "failed" => status'[r] = "failed"
<1>1. ASSUME NEW r \in Runs, TaskStep(r)
      PROVE  LifecycleInv' /\ \A s \in Runs : status[s] = "failed" => status'[s] = "failed"
  BY <1>1, TaskInv DEF OthersKept
<1>2. ASSUME NEW c \in Clients, StreamStep(c)
      PROVE  LifecycleInv' /\ \A s \in Runs : status[s] = "failed" => status'[s] = "failed"
  BY <1>2, StreamReads, ServerKept
<1>3. CASE Next
  BY <1>1, <1>2, <1>3, NextSorted, ProcessInv
<1>4. CASE UNCHANGED vars
  BY <1>4, ServerKept DEF vars
<1> QED BY <1>3, <1>4

LEMMA InvInit == Init => LifecycleInv
  BY DEF Init, LifecycleInv, StatusOfTask, LogOfTask, Unharmed, Has, Active, Gone

\* Every reachable state satisfies the invariant.
LEMMA InvAlways == Spec => [](TypeOK /\ LifecycleInv)
<1>1. TypeOK /\ LifecycleInv /\ [Next]_vars => LifecycleInv'
  BY InvStep
<1> QED BY <1>1, InvInit, TypeCorrect, PTL DEF Spec

\* For any number of runs, crashes and store errors: what the stream announced
\* is what the status says (VerdictAgrees).
THEOREM VerdictTheorem == Spec => []VerdictAgrees
<1>1. LifecycleInv => VerdictAgrees
  BY DEF LifecycleInv, Unharmed, VerdictAgrees
<1> QED BY <1>1, InvAlways, PTL

\* A running process has a task for every run that is not over, but for the
\* ones whose own store call failed (NoAbandonedRun).
THEOREM AbandonedTheorem == Spec => []NoAbandonedRun
<1>1. LifecycleInv => NoAbandonedRun
  BY DEF LifecycleInv, Unharmed, NoAbandonedRun
<1> QED BY <1>1, InvAlways, PTL

\* No step revives a failed run (FailedIsFinal).
THEOREM FailedTheorem == Spec => FailedIsFinal
<1>1. TypeOK /\ LifecycleInv /\ [Next]_vars =>
          [\A r \in Runs : status[r] = "failed" => status'[r] = "failed"]_vars
  BY InvStep
<1> QED BY <1>1, InvAlways, PTL DEF Spec, FailedIsFinal

-----------------------------------------------------------------------------
(* The lifecycle implements RunContract. *)

Verdicts == [r \in Runs |-> Announced(r)]

\* What a step of one task may do to its row and to its verdict.
Moved(r) ==
    \/ status'[r] = status[r]
    \/ status[r] = "absent" /\ status'[r] = "queued"
    \/ status[r] = "queued" /\ status'[r] = "running"
    \/ status[r] = "running" /\ status'[r] = "succeeded"
    \/ status[r] \in Active \cup {"succeeded"} /\ status'[r] = "failed"
Spoke(r) ==
    /\ status'[r] = status[r]
    /\ Announced(r) = "none"
    /\ \/ status[r] = "succeeded" /\ Announced(r)' = "done"
       \/ status[r] = "failed" /\ Announced(r)' = "error"

\* A task that does no more than that takes a step of the contract or none.
LEMMA ContractOfTask ==
    ASSUME TypeOK, TypeOK', NEW r \in Runs, OthersKept(r),
           \/ Moved(r) /\ Announced(r)' = Announced(r)
           \/ Spoke(r)
    PROVE  Contract!Next \/ UNCHANGED Contract!vars
<1>1. \A s \in Runs \ {r} : Announced(s)' = Announced(s)
  BY DEF OthersKept, Announced, Has
<1>2. status' = [status EXCEPT ![r] = status'[r]]
  BY DEF TypeOK, OthersKept
<1>3. Verdicts' = [Verdicts EXCEPT ![r] = Announced(r)']
  BY <1>1 DEF Verdicts
<1>4. CASE Moved(r) /\ Announced(r)' = Announced(r)
  <2>1. Verdicts' = Verdicts
    BY <1>3, <1>4 DEF Verdicts
  <2>2. CASE status'[r] = status[r]
    <3>1. status' = status
      BY <1>2, <2>2 DEF TypeOK
    <3> QED BY <2>1, <3>1 DEF Contract!vars, Verdicts
  <2>3. CASE status[r] = "absent" /\ status'[r] = "queued"
    <3>1. Contract!Submit(r)
      BY <1>2, <2>1, <2>3 DEF Contract!Submit, Verdicts
    <3> QED BY <3>1 DEF Contract!Next
  <2>4. CASE status[r] = "queued" /\ status'[r] = "running"
    <3>1. Contract!Begin(r)
      BY <1>2, <2>1, <2>4 DEF Contract!Begin, Verdicts
    <3> QED BY <3>1 DEF Contract!Next
  <2>5. CASE status[r] = "running" /\ status'[r] = "succeeded"
    <3>1. Contract!Succeed(r)
      BY <1>2, <2>1, <2>5 DEF Contract!Succeed, Verdicts
    <3> QED BY <3>1 DEF Contract!Next
  <2>6. CASE status[r] \in Active \cup {"succeeded"} /\ status'[r] = "failed"
    <3>1. status' = [s \in Runs |-> IF s \in {r} THEN "failed" ELSE status[s]]
      BY <2>6 DEF OthersKept, TypeOK
    <3>2. Contract!Fail({r})
      BY <2>1, <2>6, <3>1 DEF Contract!Fail, Contract!Active, Active, Verdicts
    <3> QED BY <3>2 DEF Contract!Next
  <2> QED BY <1>4, <2>2, <2>3, <2>4, <2>5, <2>6 DEF Moved
<1>5. CASE Spoke(r)
  <2>1. status' = status
    BY <1>2, <1>5 DEF Spoke, TypeOK
  <2>2. Contract!Announce(r)
    BY <1>3, <1>5, <2>1 DEF Spoke, Contract!Announce, Verdicts
  <2> QED BY <2>2 DEF Contract!Next
<1> QED BY <1>4, <1>5

\* Every step of a task is such a step.
LEMMA TaskImplements ==
    ASSUME TypeOK, TypeOK', LifecycleInv, NEW r \in Runs, TaskStep(r)
    PROVE  Contract!Next \/ UNCHANGED Contract!vars
<1>1. OthersKept(r) /\ RunInv(r)
  BY TaskInv DEF LifecycleInv, RunInv
<1>2. ASSUME CommitOutcome(r), task[r] \in CallNames
      PROVE  (Moved(r) /\ Announced(r)' = Announced(r)) \/ Spoke(r)
  BY <1>1, <1>2 DEF CommitOutcome, CallNames, RunInv, StatusOfTask, LogOfTask, Unharmed,
                    Moved, Spoke, Announced, Active, FailCalls
<1>3. ASSUME UNCHANGED <<status, log>>
      PROVE  Moved(r) /\ Announced(r)' = Announced(r)
  BY <1>3 DEF Moved, Announced, Has
<1>4. CASE Create(r) \/ CreateOrphan(r)
  <2>1. Moved(r) /\ Announced(r)' = Announced(r)
    BY <1>4 DEF Create, CreateOrphan, Moved, Announced, Has, TypeOK
  <2> QED BY <1>1, <2>1, ContractOfTask
<1>5. CASE Begin(r) \/ AgentEnds(r) \/ AgentFails(r)
  <2>1. UNCHANGED <<status, log>>
    BY <1>5 DEF Begin, AgentEnds, AgentFails
  <2> QED BY <1>1, <1>3, <2>1, ContractOfTask
<1>6. CASE Call(r) \/ StoreFault(r) \/ DeliverCancel(r)
  <2>1. \/ CommitOutcome(r) /\ task[r] \in CallNames
        \/ UNCHANGED <<status, log>>
    BY <1>6, CommitEffect, CallsAre DEF Call, StoreFault, DeliverCancel
  <2> QED BY <1>1, <1>2, <1>3, <2>1, ContractOfTask
<1>7. CASE \E e \in {"step", "message"}, nonempty \in BOOLEAN : AgentEvent(r, e, nonempty)
  <2>1. PICK e \in {"step", "message"}, nonempty \in BOOLEAN : AgentEvent(r, e, nonempty)
    BY <1>7
  <2>2. e \in EventTypes
    BY DEF EventTypes
  <2>3. /\ Has(r, "done")' <=> Has(r, "done")
        /\ Has(r, "error")' <=> Has(r, "error")
    BY <2>1, <2>2, AppendEffect DEF AgentEvent
  <2>4. Moved(r) /\ Announced(r)' = Announced(r)
    BY <2>1, <2>3 DEF AgentEvent, Moved, Announced
  <2> QED BY <1>1, <2>4, ContractOfTask
<1> QED BY <1>4, <1>5, <1>6, <1>7 DEF TaskStep, Progress

\* A restart fails several runs at once; nothing else the process does shows.
LEMMA ProcessImplements ==
    ASSUME TypeOK, ProcessStep
    PROVE  Contract!Next \/ UNCHANGED Contract!vars
<1>1. log' = log
  BY DEF ProcessStep, BeginShutdown, EndShutdown, Crash, Restart
<1>2. Verdicts' = Verdicts
  BY <1>1 DEF Verdicts, Announced, Has
<1>3. CASE BeginShutdown \/ EndShutdown \/ Crash
  BY <1>2, <1>3 DEF BeginShutdown, EndShutdown, Crash, Contract!vars, Verdicts
<1>4. CASE Restart
  <2> DEFINE S == {r \in Runs : status[r] \in Active}
  <2>1. status' = [r \in Runs |-> IF r \in S THEN "failed" ELSE status[r]]
    BY <1>4 DEF Restart, FailStaleRuns
  <2>2. CASE S = {}
    <3>1. status' = status
      BY <2>1, <2>2 DEF TypeOK
    <3> QED BY <1>2, <3>1 DEF Contract!vars, Verdicts
  <2>3. CASE S # {}
    <3>1. Contract!Fail(S)
      BY <1>2, <2>1, <2>3 DEF Contract!Fail, Contract!Active, Active, Verdicts
    <3> QED BY <3>1 DEF Contract!Next
  <2> QED BY <2>2, <2>3
<1> QED BY <1>3, <1>4 DEF ProcessStep

\* What nobody wrote does not change the contract's state.
LEMMA ServerImplements ==
    ASSUME UNCHANGED server
    PROVE  UNCHANGED Contract!vars
<1>1. Verdicts' = Verdicts
  BY DEF server, Verdicts, Announced, Has
<1> QED BY <1>1 DEF server, Contract!vars, Verdicts

\* Tasks, kills, restarts, cancellation and lost answers together implement the
\* contract: every behaviour of the code's statuses and verdicts is one of
\* RunContract (RefinesContract).
THEOREM RefinementTheorem == Spec => RefinesContract
<1>1. Init => Contract!Init
  BY DEF Init, Contract!Init, Announced, Has
<1>2. TypeOK /\ TypeOK' /\ LifecycleInv /\ [Next]_vars => [Contract!Next]_(Contract!vars)
  <2> SUFFICES ASSUME TypeOK, TypeOK', LifecycleInv, [Next]_vars
               PROVE  Contract!Next \/ UNCHANGED Contract!vars
    OBVIOUS
  <2>1. CASE Next
    BY <2>1, NextSorted, TaskImplements, ProcessImplements, StreamReads, ServerImplements
  <2>2. CASE UNCHANGED vars
    BY <2>2, ServerImplements DEF vars
  <2> QED BY <2>1, <2>2
<1> QED BY <1>1, <1>2, InvAlways, TypeCorrect, PTL DEF Spec, RefinesContract, Contract!Spec

-----------------------------------------------------------------------------
(* What a browser receives. *)

Received(c) ==
    /\ got[c] = [i \in 1..Len(got[c]) |-> i]
    /\ Len(got[c]) <= Len(log[Follows[c]])

\* A log only grows.
LEMMA LogsGrow ==
    ASSUME TypeOK, Next
    PROVE  \A r \in Runs : Len(log[r]) <= Len(log'[r])
<1>1. ASSUME UNCHANGED log
      PROVE  \A r \in Runs : Len(log[r]) <= Len(log'[r])
  BY <1>1, LenProperties DEF TypeOK
<1>2. ASSUME NEW r \in Runs, NEW k \in Runs, TaskStep(r)
      PROVE  Len(log[k]) <= Len(log'[k])
  <2>1. CASE Create(r) \/ CreateOrphan(r) \/ Begin(r) \/ AgentEnds(r) \/ AgentFails(r)
    BY <1>1, <2>1 DEF Create, CreateOrphan, Begin, AgentEnds, AgentFails
  <2>2. CASE Call(r) \/ StoreFault(r) \/ DeliverCancel(r)
    <3>1. CommitOutcome(r) \/ UNCHANGED log
      BY <2>2, CommitEffect DEF Call, StoreFault, DeliverCancel
    <3>2. CASE CommitOutcome(r) /\ k # r
      <4>1. log'[k] = log[k]
        BY <3>2 DEF CommitOutcome
      <4> QED BY <4>1, LenProperties DEF TypeOK
    <3>3. CASE CommitOutcome(r) /\ k = r
      BY <3>3 DEF CommitOutcome
    <3> QED BY <1>1, <3>1, <3>2, <3>3
  <2>3. CASE \E e \in {"step", "message"}, nonempty \in BOOLEAN : AgentEvent(r, e, nonempty)
    <3>1. PICK e \in {"step", "message"}, nonempty \in BOOLEAN : AgentEvent(r, e, nonempty)
      BY <2>3
    <3>2. e \in EventTypes
      BY DEF EventTypes
    <3>3. /\ \A s \in Runs \ {r} : log'[s] = log[s]
          /\ Len(log'[r]) = Len(log[r]) + 1
      BY <3>1, <3>2, AppendEffect DEF AgentEvent
    <3>4. Len(log[k]) \in Nat
      BY LenProperties DEF TypeOK
    <3>5. CASE k = r
      BY <3>3, <3>4, <3>5
    <3>6. CASE k # r
      BY <3>3, <3>4, <3>6
    <3> QED BY <3>5, <3>6
  <2> QED BY <1>2, <2>1, <2>2, <2>3 DEF TaskStep, Progress
<1>3. CASE ProcessStep
  BY <1>1, <1>3 DEF ProcessStep, BeginShutdown, EndShutdown, Crash, Restart
<1>4. CASE \E c \in Clients : StreamStep(c)
  BY <1>1, <1>4, StreamReads DEF server
<1> QED BY <1>2, <1>3, <1>4, NextSorted

\* A stream that the step did not touch, or only broke off, keeps its place.
LEMMA PlaceKept ==
    ASSUME TypeOK, TypeOK', NEW c \in Clients, Received(c), Stands(c),
           Len(log[Follows[c]]) <= Len(log'[Follows[c]]),
           got'[c] = got[c], after'[c] = after[c], upto'[c] = upto[c],
           conn'[c] \in {conn[c], "dropped", "lost"}
    PROVE  Received(c)' /\ Stands(c)'
<1>1. /\ Len(log[Follows[c]]) \in Nat /\ Len(log'[Follows[c]]) \in Nat
      /\ upto[c] \in Nat /\ Len(got[c]) \in Nat
  BY LenProperties DEF TypeOK
<1> QED BY <1>1 DEF Received, Stands, Streaming

\* The browser's own steps.
LEMMA StreamMoves ==
    ASSUME TypeOK, TypeOK', NEW c \in Clients, Received(c), Stands(c), StreamStep(c)
    PROVE  Received(c)' /\ Stands(c)'
<1> DEFINE L == Len(log[Follows[c]])
           n == Len(got[c])
<1>1. /\ L \in Nat /\ upto[c] \in Nat /\ after[c] \in Nat /\ n \in Nat
      /\ got[c] \in Seq(Nat)
  BY LenProperties DEF TypeOK
<1>2. log' = log
  BY StreamReads DEF server
<1>3. CASE Connect(c) \/ CheckRun(c) \/ Recheck(c)
  <2>1. /\ got' = got /\ after' = after /\ upto' = upto
        /\ conn[c] \in {"idle"} \cup Streaming
        /\ conn'[c] \in {"list", "recheck", "returned"}
    BY <1>3 DEF Connect, CheckRun, Recheck, TypeOK, Streaming
  <2> QED BY <1>1, <1>2, <2>1 DEF Received, Stands, Streaming
<1>4. CASE ListEvents(c)
  <2>1. /\ got' = got /\ after' = after /\ upto'[c] = L
        /\ conn[c] = "list"
        /\ conn'[c] = IF L > after[c] THEN "send" ELSE "check"
    BY <1>4 DEF ListEvents, TypeOK
  <2> QED BY <1>1, <1>2, <2>1 DEF Received, Stands, Streaming
<1>5. CASE SendFrame(c)
  <2>1. /\ upto' = upto /\ conn[c] = "send"
        /\ after'[c] = after[c] + 1
        /\ got'[c] = Append(got[c], after[c] + 1)
        /\ conn'[c] \in {"told", "list", "send"}
        /\ conn'[c] = "send" => after[c] + 1 # upto[c]
    <3>1. upto' = upto /\ conn[c] = "send" /\ after'[c] = after[c] + 1
      BY <1>5 DEF SendFrame, TypeOK
    <3>2. got'[c] = Append(got[c], after[c] + 1)
      BY <1>5 DEF SendFrame, TypeOK
    <3>3. conn'[c] = IF log[Follows[c]][after[c] + 1] \in Terminal THEN "told"
                     ELSE IF after[c] + 1 = upto[c] THEN "list" ELSE "send"
      BY <1>5 DEF SendFrame, TypeOK
    <3> QED BY <3>1, <3>2, <3>3
  <2>2. after[c] = n /\ n < upto[c] /\ upto[c] <= L
    BY <2>1 DEF Stands, Streaming
  <2>3. /\ Len(got'[c]) = n + 1
        /\ DOMAIN got'[c] = 1..n + 1
        /\ \A i \in 1..n : got'[c][i] = got[c][i]
        /\ got'[c][n + 1] = n + 1
        /\ got'[c] \in Seq(Nat)
    BY <1>1, <2>1, <2>2, AppendProperties
  <2>4. \A i \in 1..n : got[c][i] = i
    BY DEF Received
  <2>5. \A i \in 1..n + 1 : got'[c][i] = i
    <3>1. \A i \in 1..n + 1 : i \in 1..n \/ i = n + 1
      BY <1>1
    <3> QED BY <2>3, <2>4, <3>1
  <2>6. got'[c] = [i \in 1..n + 1 |-> i]
    <3>1. got'[c] \in [1..n + 1 -> Nat]
      BY <2>3, LenProperties
    <3> QED BY <2>5, <3>1
  <2>7. Received(c)'
    BY <1>1, <1>2, <2>2, <2>3, <2>6 DEF Received
  <2>8. Stands(c)'
    BY <1>1, <1>2, <2>1, <2>2, <2>3 DEF Stands, Streaming
  <2> QED BY <2>7, <2>8
<1>6. CASE Reconnect(c)
  <2>1. n # 0 => got[c][n] = n
    BY <1>1 DEF Received
  <2>2. got[c] = <<>> <=> n = 0
    BY <1>1, EmptySeq
  <2>3. LastId(c) = n
    BY <1>1, <2>1, <2>2 DEF LastId
  <2>4. got' = got /\ upto' = upto /\ after'[c] = n /\ conn'[c] = "list"
    BY <1>6, <2>3 DEF Reconnect, TypeOK
  <2> QED BY <1>1, <1>2, <2>4 DEF Received, Stands, Streaming
<1>7. CASE DropConnection(c) \/ GiveUp(c)
  <2>1. /\ got' = got /\ after' = after /\ upto' = upto
        /\ conn'[c] \in {"dropped", "lost"}
    BY <1>7 DEF DropConnection, GiveUp, TypeOK
  <2> QED BY <1>1, <1>2, <2>1, PlaceKept
<1> QED BY <1>3, <1>4, <1>5, <1>6, <1>7 DEF StreamStep, Poll

\* The other browsers do not move.
LEMMA OtherStreams ==
    ASSUME NEW c \in Clients, NEW d \in Clients \ {c}, TypeOK, StreamStep(c)
    PROVE  conn'[d] = conn[d] /\ got'[d] = got[d] /\ after'[d] = after[d] /\ upto'[d] = upto[d]
  BY DEF StreamStep, Poll, Connect, ListEvents, SendFrame, CheckRun, Recheck, Reconnect,
         DropConnection, GiveUp, TypeOK

LEMMA StreamsStep ==
    ASSUME TypeOK, TypeOK', [Next]_vars, NEW c \in Clients, Received(c), Stands(c)
    PROVE  Received(c)' /\ Stands(c)'
<1>0. Follows[c] \in Runs /\ Len(log[Follows[c]]) \in Nat
  BY LenProperties DEF TypeOK
<1>1. CASE Next /\ \E r \in Runs : TaskStep(r)
  <2>1. UNCHANGED <<conn, after, upto, got>>
    BY <1>1 DEF TaskStep, Progress, Create, CreateOrphan, Begin, Call, AgentEvent, AgentEnds,
               AgentFails, StoreFault, DeliverCancel, streams
  <2>2. Len(log[Follows[c]]) <= Len(log'[Follows[c]])
    BY <1>0, <1>1, LogsGrow
  <2> QED BY <2>1, <2>2, PlaceKept
<1>2. CASE ProcessStep
  <2>1. /\ UNCHANGED <<got, after, upto, log>>
        /\ conn'[c] \in {conn[c], "dropped"}
    BY <1>2 DEF ProcessStep, BeginShutdown, EndShutdown, Crash, Restart, CutStreams, streams
  <2>2. Len(log[Follows[c]]) <= Len(log'[Follows[c]])
    BY <1>0, <2>1
  <2> QED BY <2>1, <2>2, PlaceKept
<1>3. ASSUME NEW d \in Clients, StreamStep(d)
      PROVE  Received(c)' /\ Stands(c)'
  <2>1. CASE d = c
    BY <1>3, <2>1, StreamMoves
  <2>2. CASE d # c
    <3>1. /\ conn'[c] = conn[c] /\ got'[c] = got[c]
          /\ after'[c] = after[c] /\ upto'[c] = upto[c]
      BY <1>3, <2>2, OtherStreams
    <3>2. Len(log[Follows[c]]) <= Len(log'[Follows[c]])
      BY <1>0, <1>3, StreamReads DEF server
    <3> QED BY <3>1, <3>2, PlaceKept
  <2> QED BY <2>1, <2>2
<1>4. CASE UNCHANGED vars
  BY <1>0, <1>4, PlaceKept DEF vars, server, streams
<1> QED BY <1>1, <1>2, <1>3, <1>4, NextSorted

\* Whatever breaks off, restarts or returns early, and however often: no frame
\* is lost, repeated or out of order (ExactlyOnceInOrder).
THEOREM StreamTheorem == Spec => []ExactlyOnceInOrder
<1> DEFINE I == StreamInv /\ \A c \in Clients : Received(c)
<1>1. Init => I
  <2> SUFFICES ASSUME Init, NEW c \in Clients
               PROVE  Received(c) /\ Stands(c)
    BY DEF StreamInv
  <2>1. got[c] = <<>> /\ after[c] = 0 /\ upto[c] = 0 /\ conn[c] = "idle"
        /\ log[Follows[c]] = <<>>
    BY DEF Init
  <2>2. Len(<<>>) = 0 /\ <<>> = [i \in 1..0 |-> i]
    OBVIOUS
  <2> QED BY <2>1, <2>2 DEF Received, Stands
<1>2. TypeOK /\ TypeOK' /\ I /\ [Next]_vars => I'
  BY StreamsStep DEF StreamInv
<1>3. I => ExactlyOnceInOrder
  BY DEF Received, ExactlyOnceInOrder
<1> QED BY <1>1, <1>2, <1>3, TypeCorrect, PTL DEF Spec

-----------------------------------------------------------------------------
(* The grammar of a log. *)

\* EventProtocol for one log.
Obeys(s) ==
    \A i \in DOMAIN s :
        /\ s[i] = "done" => /\ i > 1 /\ s[i - 1] = "succeeded"
                            /\ \E k \in 1..(i - 1) : s[k] = "message"
                            /\ \A k \in DOMAIN s : s[k] = "done" => k = i
        /\ s[i] = "error" => i > 1 /\ s[i - 1] = "failed" /\ i = Len(s)

Holds(s, e) == \E i \in DOMAIN s : s[i] = e
EndsWith(s, e) == Len(s) > 0 /\ s[Len(s)] = e

\* A log may be continued while it has no `error`; by `done` only if it has a
\* message, no `done` yet, and ends with the status that is announced, by
\* `error` only if it ends with its status.
LEMMA ObeysAppend ==
    ASSUME NEW s \in Seq(EventTypes), NEW e \in EventTypes, Obeys(s), ~Holds(s, "error"),
           e = "done" => Holds(s, "message") /\ ~Holds(s, "done") /\ EndsWith(s, "succeeded"),
           e = "error" => EndsWith(s, "failed")
    PROVE  Obeys(Append(s, e))
<1> DEFINE t == Append(s, e)
<1>1. PICK n \in Nat : n = Len(s)
  BY LenProperties
<1>2. /\ DOMAIN s = 1..n /\ DOMAIN t = 1..(n + 1) /\ Len(t) = n + 1
      /\ \A i \in 1..n : t[i] = s[i]
      /\ t[n + 1] = e
  BY <1>1, AppendProperties
<1> HIDE DEF t
<1>3. ASSUME NEW i \in 1..n, t[i] = "done"
      PROVE  /\ i > 1 /\ t[i - 1] = "succeeded"
             /\ \E k \in 1..(i - 1) : t[k] = "message"
             /\ \A k \in 1..(n + 1) : t[k] = "done" => k = i
  <2>1. s[i] = "done" /\ e # "done"
    BY <1>2, <1>3 DEF Holds
  <2>2. PICK k \in 1..(i - 1) : s[k] = "message"
    BY <1>2, <2>1 DEF Obeys
  <2>3. t[k] = "message"
    BY <1>2, <2>2
  <2>4. ASSUME NEW j \in 1..(n + 1), t[j] = "done" PROVE j = i
    <3>1. j \in 1..n
      BY <1>2, <2>1, <2>4
    <3> QED BY <1>2, <2>1, <2>4, <3>1 DEF Obeys
  <2>5. i > 1 /\ s[i - 1] = "succeeded"
    BY <1>2, <2>1 DEF Obeys
  <2>6. t[i - 1] = "succeeded"
    BY <1>2, <2>5
  <2> QED BY <2>2, <2>3, <2>4, <2>5, <2>6
<1>4. ASSUME e = "done"
      PROVE  /\ n + 1 > 1 /\ t[n] = "succeeded"
             /\ \E k \in 1..n : t[k] = "message"
             /\ \A k \in 1..(n + 1) : t[k] = "done" => k = n + 1
  BY <1>1, <1>2, <1>4 DEF Holds, EndsWith
<1>5. \A i \in 1..n : t[i] # "error"
  BY <1>2 DEF Holds
<1>6. e = "error" => n + 1 > 1 /\ t[n] = "failed"
  BY <1>1, <1>2 DEF EndsWith
<1>7. n + 1 - 1 = n /\ \A i \in 1..(n + 1) : i \in 1..n \/ i = n + 1
  BY <1>1
<1>8. Obeys(t)
  <2> SUFFICES ASSUME NEW i \in 1..(n + 1)
               PROVE  /\ t[i] = "done" => /\ i > 1 /\ t[i - 1] = "succeeded"
                                          /\ \E k \in 1..(i - 1) : t[k] = "message"
                                          /\ \A k \in 1..(n + 1) : t[k] = "done" => k = i
                      /\ t[i] = "error" => i > 1 /\ t[i - 1] = "failed" /\ i = n + 1
    BY <1>2 DEF Obeys
  <2>1. CASE i \in 1..n
    BY <1>3, <1>5, <2>1
  <2>2. CASE i = n + 1
    BY <1>2, <1>4, <1>6, <1>7, <2>2
  <2> QED BY <1>7, <2>1, <2>2
<1> QED BY <1>8 DEF t

\* An agent that has an output sent a message, _execute ends no run well that
\* has none, and what a task is about to announce was said before it.
Spoken(r) ==
    /\ output[r] \/ task[r] \in {"settle", "tell_succeeded", "tell_done"} => Has(r, "message")
    /\ task[r] = "tell_done" => EndsWith(log[r], "succeeded")
    /\ task[r] = "tell_error" => EndsWith(log[r], "failed")

ProtocolInv == \A r \in Runs : Obeys(log[r]) /\ Spoken(r)

\* A store call that appends an event finds a log that may be continued by it.
LEMMA CommitObeys ==
    ASSUME TypeOK, LifecycleInv, NEW r \in Runs, Obeys(log[r]), Spoken(r),
           task[r] \in Calls, Commit(r)
    PROVE  /\ Obeys(log'[r]) /\ (Has(r, "message") => Has(r, "message")')
           /\ task[r] = "tell_succeeded" => EndsWith(log'[r], "succeeded")
           /\ task[r] = "tell_failed" => EndsWith(log'[r], "failed")
<1>1. CASE task[r] \in DOMAIN NewEvent
  <2>1. task[r] \in {"tell_running", "tell_succeeded", "tell_done", "tell_failed", "tell_error"}
    BY <1>1 DEF NewEvent
  <2>2. PICK e \in EventTypes : e = NewEvent[task[r]]
    BY <2>1 DEF NewEvent, EventTypes, Active, Final, Terminal
  <2>3. /\ e = "done" => task[r] = "tell_done"
        /\ e = "error" => task[r] = "tell_error"
        /\ task[r] = "tell_succeeded" => e = "succeeded"
        /\ task[r] = "tell_failed" => e = "failed"
    BY <2>1, <2>2 DEF NewEvent
  <2>4. log' = [log EXCEPT ![r] = Append(@, e)]
    BY <1>1, <2>2 DEF Commit
  <2>5. log[r] \in Seq(EventTypes) /\ log'[r] = Append(log[r], e)
    BY <2>4 DEF TypeOK
  <2>6. ~Holds(log[r], "error") /\ (e = "done" => Holds(log[r], "message") /\ ~Holds(log[r], "done"))
    BY <2>1, <2>3 DEF LifecycleInv, LogOfTask, Spoken, Has, Holds, FailCalls
  <2>7. (e = "done" => EndsWith(log[r], "succeeded")) /\ (e = "error" => EndsWith(log[r], "failed"))
    BY <2>3 DEF Spoken
  <2>8. Has(r, "message") => Has(r, "message")'
    BY <2>4, AppendEffect
  <2>9. EndsWith(log'[r], e)
    BY <2>5, LenProperties, AppendProperties DEF EndsWith
  <2> QED BY <2>3, <2>5, <2>6, <2>7, <2>8, <2>9, ObeysAppend
<1>2. CASE task[r] \notin DOMAIN NewEvent
  <2>1. task[r] \notin {"tell_succeeded", "tell_failed"}
    BY <1>2 DEF NewEvent
  <2> QED BY <1>2, <2>1 DEF Commit, Has
<1> QED BY <1>1, <1>2

LEMMA TaskObeys ==
    ASSUME TypeOK, LifecycleInv, NEW r \in Runs, Obeys(log[r]), Spoken(r), TaskStep(r)
    PROVE  Obeys(log'[r]) /\ Spoken(r)'
<1>1. CASE Create(r) \/ CreateOrphan(r) \/ Begin(r) \/ AgentEnds(r) \/ AgentFails(r)
  <2>1. log' = log /\ output' = output
    BY <1>1 DEF Create, CreateOrphan, Begin, AgentEnds, AgentFails
  <2>2. /\ task'[r] \in {"settle", "tell_succeeded", "tell_done"} => output[r] \/ task'[r] = task[r]
        /\ task'[r] \in {"tell_done", "tell_error"} => task'[r] = task[r]
    BY <1>1 DEF Create, CreateOrphan, Begin, AgentEnds, AgentFails, Goto, TypeOK
  <2> QED BY <2>1, <2>2 DEF Spoken, Has
<1>2. CASE Call(r) \/ StoreFault(r) \/ DeliverCancel(r)
  <2>1. \/ task[r] \in Calls /\ Commit(r)
        \/ log' = log /\ ~Call(r)
    BY <1>2 DEF Call, StoreFault, DeliverCancel
  <2>2. Obeys(log'[r]) /\ (Has(r, "message") => Has(r, "message")')
    BY <2>1, CommitObeys DEF Has
  <2>3. /\ task'[r] \in {"settle", "tell_succeeded", "tell_done"} =>
               task[r] \in {"settle", "tell_succeeded", "tell_done"}
        /\ task'[r] = "tell_done" => Call(r) /\ task[r] = "tell_succeeded"
        /\ task'[r] = "tell_error" => Call(r) /\ task[r] = "tell_failed"
    BY <1>2, CallsAre DEF Call, StoreFault, DeliverCancel, Goto, TypeOK, Then, CallNames, FailCalls
  <2>4. output' = output
    BY <1>2 DEF Call, StoreFault, DeliverCancel
  <2>5. /\ task'[r] = "tell_done" => EndsWith(log'[r], "succeeded")
        /\ task'[r] = "tell_error" => EndsWith(log'[r], "failed")
    BY <2>1, <2>3, CommitObeys
  <2> QED BY <2>2, <2>3, <2>4, <2>5 DEF Spoken
<1>3. ASSUME NEW e \in {"step", "message"}, NEW nonempty \in BOOLEAN, AgentEvent(r, e, nonempty)
      PROVE  Obeys(log'[r]) /\ Spoken(r)'
  <2>1. /\ e \in EventTypes /\ e # "done" /\ e # "error" /\ log' = [log EXCEPT ![r] = Append(@, e)]
        /\ task[r] = "agent" /\ task'[r] = "agent"
    BY <1>3 DEF AgentEvent, EventTypes
  <2>2. log[r] \in Seq(EventTypes) /\ log'[r] = Append(log[r], e)
    BY <2>1 DEF TypeOK
  <2>3. ~Holds(log[r], "error")
    BY <2>1 DEF LifecycleInv, LogOfTask, Has, Holds
  <2>4. Has(r, "message")' <=> Has(r, "message") \/ "message" = e
    BY <2>1, AppendEffect
  <2>5. output'[r] => output[r] \/ e = "message"
    BY <1>3 DEF AgentEvent, TypeOK
  <2> QED BY <2>1, <2>2, <2>3, <2>4, <2>5, ObeysAppend DEF Spoken
<1> QED BY <1>1, <1>2, <1>3 DEF TaskStep, Progress

LEMMA ProtocolStep ==
    ASSUME TypeOK, LifecycleInv, ProtocolInv, [Next]_vars
    PROVE  ProtocolInv'
<1>1. ASSUME NEW r \in Runs, TaskStep(r) PROVE ProtocolInv'
  <2>1. Obeys(log'[r]) /\ Spoken(r)'
    BY <1>1, TaskObeys DEF ProtocolInv
  <2>2. ASSUME NEW s \in Runs \ {r} PROVE Obeys(log'[s]) /\ Spoken(s)'
    <3>1. log'[s] = log[s] /\ task'[s] = task[s]
      BY <1>1, TaskInv DEF OthersKept
    <3>2. output'[s] = output[s]
      BY <1>1 DEF TaskStep, Progress, Create, CreateOrphan, Begin, Call, AgentFails, DeliverCancel,
                  AgentEnds, StoreFault, AgentEvent, TypeOK
    <3> QED BY <3>1, <3>2 DEF ProtocolInv, Spoken, Has
  <2> QED BY <2>1, <2>2 DEF ProtocolInv
<1>2. CASE ProcessStep
  <2>1. log' = log /\ output' = output
    BY <1>2 DEF ProcessStep, BeginShutdown, EndShutdown, Crash, Restart
  <2>2. \A r \in Runs : task'[r] \in {task[r], "none", "ended"}
    BY <1>2 DEF ProcessStep, BeginShutdown, EndShutdown, Crash, Restart
  <2> QED BY <2>1, <2>2 DEF ProtocolInv, Spoken, Has
<1>3. CASE (\E c \in Clients : StreamStep(c)) \/ UNCHANGED vars
  <2>1. UNCHANGED server
    BY <1>3, StreamReads DEF vars
  <2> QED BY <2>1 DEF server, ProtocolInv, Spoken, Has
<1> QED BY <1>1, <1>2, <1>3, NextSorted

\* Through kills, cancelled tasks and store calls that fail after they were
\* carried out: `done` once, after a message and right after its status, `error`
\* right after its own and last (EventProtocol).
THEOREM ProtocolTheorem == Spec => []EventProtocol
<1>1. Init => ProtocolInv
  <2>1. DOMAIN <<>> = {}
    OBVIOUS
  <2>2. Obeys(<<>>)
    BY <2>1 DEF Obeys
  <2>3. ASSUME Init, NEW r \in Runs PROVE log[r] = <<>> /\ task[r] = "none" /\ ~output[r]
    BY <2>3 DEF Init
  <2> QED BY <2>2, <2>3 DEF ProtocolInv, Spoken
<1>2. TypeOK /\ LifecycleInv /\ ProtocolInv /\ [Next]_vars => ProtocolInv'
  BY ProtocolStep
<1>3. ProtocolInv => EventProtocol
  BY DEF ProtocolInv, Obeys, EventProtocol
<1> QED BY <1>1, <1>2, <1>3, InvAlways, PTL DEF Spec

=============================================================================
