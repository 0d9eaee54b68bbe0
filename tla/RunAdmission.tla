---------------------------- MODULE RunAdmission ----------------------------
(***************************************************************************)
(* POST /v1/agents/{agent_id}/runs of the BL API: RunService.create and    *)
(* RunService.quota (apps/api/alexsoft_api/runs.py), the tables they read  *)
(* and write (bl.agents, bl.settings, bl.runs) and the administrator's     *)
(* writes that race with them.                                             *)
(*                                                                         *)
(* Every await of create() is a step of its own: between two of them the   *)
(* event loop may run another request, an administrator's handler, a task  *)
(* of an earlier run, or midnight may pass.  A request creates at most one *)
(* run, so a request also stands for the id of its run.                    *)
(***************************************************************************)
EXTENDS Integers, FiniteSets, Sequences

CONSTANTS
    Requests,    \* the POST requests
    Users,       \* the token subjects (principal.sub)
    Agents,      \* the rows of bl.agents
    Threads,     \* conversation ids an agent server hands out
    UserOf,      \* the user who sends a request
    AgentOf,     \* the agent a request names
    MaxLimit,    \* bound: the largest quota an administrator sets
    MaxDay,      \* bound: the last UTC day of the model
    NoOne,       \* the lock is free
    NoThread     \* the request names no thread, the run has none yet

ASSUME UserOfAssumption   == UserOf \in [Requests -> Users]
ASSUME AgentOfAssumption  == AgentOf \in [Requests -> Agents]
ASSUME BoundsAssumption   == MaxLimit \in Nat /\ MaxDay \in Nat
ASSUME NoOneAssumption    == NoOne \notin Requests
ASSUME NoThreadAssumption == NoThread \notin Threads

VARIABLES
    day,       \* the current UTC day, as day_start(utcnow()) sees it
    limit,     \* the daily quota in force (bl.settings, else the default)
    enabled,   \* bl.agents.enabled
    runs,      \* the requests whose run is a row of bl.runs
    created,   \* the day of bl.runs.created_at, as create() stamped it
    thread,    \* bl.runs.thread_id; before the insert, the request's own
    issued,    \* the threads the agent server has handed out
    tasks,     \* the requests whose run got a background task
    lock,      \* the holder of RunService._quota_lock
    waiters,   \* the requests asleep in _quota_lock.acquire(), first in first out
    pc,        \* where a request stands in create()
    qDay,      \* quota(): the day of its `now`
    qLimit,    \* quota(): the limit it read
    qUsed,     \* quota(): the runs it counted
    peak       \* history: the largest quota that was ever in force

store   == <<limit, enabled, runs, thread, issued>>
process == <<tasks, lock, waiters, pc, created, qDay, qLimit, qUsed>>
vars    == <<day, store, process, peak>>

\* Between `async with self._quota_lock` and its end.
Critical == {"limit", "count", "decide", "insert", "stored"}
InFlight == {"agent", "thread", "acquire"} \cup Critical
Refused  == {"404", "422", "429", "503"}
Answered == Refused \cup {"202", "500", "lost"}

TypeOK ==
    /\ day \in 0..MaxDay
    /\ limit \in 0..MaxLimit
    /\ peak \in 0..MaxLimit
    /\ enabled \in [Agents -> BOOLEAN]
    /\ runs \subseteq Requests
    /\ IsFiniteSet(runs)
    /\ created \in [Requests -> 0..MaxDay]
    /\ thread \in [Requests -> Threads \cup {NoThread}]
    /\ issued \subseteq Threads
    /\ tasks \subseteq Requests
    /\ lock \in Requests \cup {NoOne}
    /\ waiters \in Seq(Requests)
    /\ pc \in [Requests -> {"new"} \cup InFlight \cup Answered]
    /\ qDay \in [Requests -> 0..MaxDay]
    /\ qLimit \in [Requests -> 0..MaxLimit]
    /\ qUsed \in [Requests -> Nat]

\* count_runs_since: the user's rows created on day d or later.
RunsSince(u, d) == {r \in runs : UserOf[r] = u /\ created[r] >= d}

\* The user's rows created on day d.
RunsOn(u, d) == {r \in runs : UserOf[r] = u /\ created[r] = d}

Init ==
    /\ day = 0
    /\ limit \in 0..MaxLimit
    /\ peak = limit
    /\ enabled \in [Agents -> BOOLEAN]
    /\ runs = {}
    /\ created = [r \in Requests |-> 0]
    /\ thread = [r \in Requests |-> NoThread]
    /\ issued = {}
    /\ tasks = {}
    /\ lock = NoOne
    /\ waiters = <<>>
    /\ pc = [r \in Requests |-> "new"]
    /\ qDay = [r \in Requests |-> 0]
    /\ qLimit = [r \in Requests |-> 0]
    /\ qUsed = [r \in Requests |-> 0]

Goto(r, l) == pc' = [pc EXCEPT ![r] = l]

\* Mutant of Leave: a store error leaves the lock taken.
LeaveKeepsLockOnError(r, l) ==
    /\ Goto(r, l)
    /\ lock' = IF lock = r /\ l # "500" THEN NoOne ELSE lock
    /\ qDay' = [qDay EXCEPT ![r] = 0]
    /\ qLimit' = [qLimit EXCEPT ![r] = 0]
    /\ qUsed' = [qUsed EXCEPT ![r] = 0]

\* The request leaves create() with its locals; leaving the critical section
\* frees the lock.
Leave(r, l) ==
    /\ Goto(r, l)
    /\ lock' = IF lock = r THEN NoOne ELSE lock
    /\ qDay' = [qDay EXCEPT ![r] = 0]
    /\ qLimit' = [qLimit EXCEPT ![r] = 0]
    /\ qUsed' = [qUsed EXCEPT ![r] = 0]

-----------------------------------------------------------------------------
(* One request. *)

\* An empty or over-long input is refused before anything is awaited.
PostBadInput(r) ==
    /\ pc[r] = "new"
    /\ Goto(r, "422")
    /\ UNCHANGED <<day, store, tasks, lock, waiters, created, qDay, qLimit, qUsed, peak>>

\* A request arrives, naming no thread or any thread it has heard of.
Post(r, t) ==
    /\ pc[r] = "new"
    /\ t \in issued \cup {NoThread}
    /\ thread' = [thread EXCEPT ![r] = t]
    /\ Goto(r, "agent")
    /\ UNCHANGED <<day, limit, enabled, runs, issued, tasks, lock, waiters,
                   created, qDay, qLimit, qUsed, peak>>

\* get_agent answers: the agent must be enabled.
CheckAgent(r) ==
    /\ pc[r] = "agent"
    /\ Goto(r, IF ~enabled[AgentOf[r]] THEN "404"
               ELSE IF thread[r] = NoThread THEN "acquire" ELSE "thread")
    /\ waiters' = IF enabled[AgentOf[r]] /\ thread[r] = NoThread
                  THEN Append(waiters, r) ELSE waiters
    /\ UNCHANGED <<day, store, tasks, lock, created, qDay, qLimit, qUsed, peak>>

\* The agent's kind has no runner in this deployment.
NoRunner(r) ==
    /\ pc[r] = "agent"
    /\ enabled[AgentOf[r]]
    /\ Goto(r, "503")
    /\ UNCHANGED <<day, store, tasks, lock, waiters, created, qDay, qLimit, qUsed, peak>>

\* Mutant of OwnsThread: the query forgets the user.
OwnsThreadOfAnyone(r) ==
    \E s \in runs : AgentOf[s] = AgentOf[r] /\ thread[s] = thread[r]

\* thread_belongs_to: some run of this user with this agent has the thread.
OwnsThread(r) ==
    \E s \in runs : /\ UserOf[s] = UserOf[r]
                    /\ AgentOf[s] = AgentOf[r]
                    /\ thread[s] = thread[r]

CheckThread(r) ==
    /\ pc[r] = "thread"
    /\ Goto(r, IF OwnsThread(r) THEN "acquire" ELSE "422")
    /\ waiters' = IF OwnsThread(r) THEN Append(waiters, r) ELSE waiters
    /\ UNCHANGED <<day, store, tasks, lock, created, qDay, qLimit, qUsed, peak>>

\* Mutant of Acquire: create() without the quota lock.
AcquireWithoutLock(r) ==
    /\ pc[r] = "acquire"
    /\ lock' = r
    /\ waiters' = SelectSeq(waiters, LAMBDA w : w # r)
    /\ qDay' = [qDay EXCEPT ![r] = day]
    /\ Goto(r, "limit")
    /\ UNCHANGED <<day, store, tasks, created, qLimit, qUsed, peak>>

\* asyncio.Lock wakes its waiters in order; quota() then reads the clock
\* before its first await.
Acquire(r) ==
    /\ pc[r] = "acquire"
    /\ lock = NoOne
    /\ waiters # <<>> /\ Head(waiters) = r
    /\ lock' = r
    /\ waiters' = Tail(waiters)
    /\ qDay' = [qDay EXCEPT ![r] = day]
    /\ Goto(r, "limit")
    /\ UNCHANGED <<day, store, tasks, created, qLimit, qUsed, peak>>

\* daily_limit: the setting may be replaced at any time after this.
ReadLimit(r) ==
    /\ pc[r] = "limit"
    /\ qLimit' = [qLimit EXCEPT ![r] = limit]
    /\ Goto(r, "count")
    /\ UNCHANGED <<day, store, tasks, lock, waiters, created, qDay, qUsed, peak>>

CountRuns(r) ==
    /\ pc[r] = "count"
    /\ qUsed' = [qUsed EXCEPT ![r] = Cardinality(RunsSince(UserOf[r], qDay[r]))]
    /\ Goto(r, "decide")
    /\ UNCHANGED <<day, store, tasks, lock, waiters, created, qDay, qLimit, peak>>

\* remaining = max(0, limit - used), with the values quota() read.
QuotaLeft(r) == qLimit[r] > qUsed[r]

\* Mutant of RefuseQuota: the check also runs after the insert.
RefuseQuotaLate(r) ==
    /\ \/ pc[r] = "decide" /\ ~QuotaLeft(r)
       \/ pc[r] = "stored" /\ Cardinality(RunsSince(UserOf[r], qDay[r])) >= qLimit[r]
    /\ Leave(r, "429")
    /\ UNCHANGED <<day, store, tasks, waiters, created, peak>>

\* The quota is used up: 429.
RefuseQuota(r) ==
    /\ pc[r] = "decide"
    /\ ~QuotaLeft(r)
    /\ Leave(r, "429")
    /\ UNCHANGED <<day, store, tasks, waiters, created, peak>>

\* created_at is the clock of this moment, which may be past quota()'s day.
StampRun(r) ==
    /\ pc[r] = "decide"
    /\ QuotaLeft(r)
    /\ created' = [created EXCEPT ![r] = day]
    /\ Goto(r, "insert")
    /\ UNCHANGED <<day, store, tasks, lock, waiters, qDay, qLimit, qUsed, peak>>

InsertRun(r) ==
    /\ pc[r] = "insert"
    /\ runs' = runs \cup {r}
    /\ Goto(r, "stored")
    /\ UNCHANGED <<day, limit, enabled, thread, issued, tasks, lock, waiters, created,
                   qDay, qLimit, qUsed, peak>>

\* The lock is released, the background task created and 202 answered.
Accept(r) ==
    /\ pc[r] = "stored"
    /\ Leave(r, "202")
    /\ tasks' = tasks \cup {r}
    /\ UNCHANGED <<day, store, waiters, created, peak>>

\* A store call raises: 500.  In "stored" the insert was committed and its
\* answer lost, so the row stays and no task is created.
StoreError(r) ==
    /\ pc[r] \in {"agent", "thread", "limit", "count", "insert", "stored"}
    /\ Leave(r, "500")
    /\ UNCHANGED <<day, store, tasks, waiters, created, peak>>

-----------------------------------------------------------------------------
(* What else touches the same state. *)

\* The process dies and comes back: its lock and requests are gone, rows stay.
Restart ==
    /\ tasks # {} \/ \E r \in Requests : pc[r] \in InFlight
    /\ pc' = [r \in Requests |-> IF pc[r] \in InFlight THEN "lost" ELSE pc[r]]
    /\ lock' = NoOne
    /\ waiters' = <<>>
    /\ tasks' = {}
    /\ qDay' = [r \in Requests |-> 0]
    /\ qLimit' = [r \in Requests |-> 0]
    /\ qUsed' = [r \in Requests |-> 0]
    /\ UNCHANGED <<day, store, created, peak>>

\* PUT /v1/admin/settings: set_daily_limit does not take the quota lock.
SetDailyLimit(n) ==
    /\ n # limit
    /\ limit' = n
    /\ peak' = IF n > peak THEN n ELSE peak
    /\ UNCHANGED <<day, enabled, runs, thread, issued, process>>

\* PATCH /v1/admin/agents/{agent_id} with `enabled`.
UpdateAgent(a) ==
    /\ enabled' = [enabled EXCEPT ![a] = ~@]
    /\ UNCHANGED <<day, limit, runs, thread, issued, process, peak>>

\* The task of a run without a thread receives Meta: the agent server opened
\* a new thread for it.
AssignThread(r, t) ==
    /\ r \in tasks
    /\ thread[r] = NoThread
    /\ t \in Threads \ issued
    /\ thread' = [thread EXCEPT ![r] = t]
    /\ issued' = issued \cup {t}
    /\ UNCHANGED <<day, limit, enabled, runs, process, peak>>

Midnight ==
    /\ day < MaxDay
    /\ day' = day + 1
    /\ UNCHANGED <<store, process, peak>>

\* The steps the event loop and the database owe a request.
Proceed(r) ==
    \/ CheckAgent(r) \/ NoRunner(r) \/ CheckThread(r)
    \/ Acquire(r) \/ ReadLimit(r) \/ CountRuns(r)
    \/ RefuseQuota(r) \/ StampRun(r) \/ InsertRun(r) \/ Accept(r)

Next ==
    \/ \E r \in Requests : PostBadInput(r)
    \/ \E r \in Requests : \E t \in Threads \cup {NoThread} : Post(r, t)
    \/ \E r \in Requests : Proceed(r)
    \/ \E r \in Requests : StoreError(r)
    \/ \E r \in Requests : \E t \in Threads : AssignThread(r, t)
    \/ \E n \in 0..MaxLimit : SetDailyLimit(n)
    \/ \E a \in Agents : UpdateAgent(a)
    \/ Restart
    \/ Midnight

Spec == Init /\ [][Next]_vars

\* Posting, failing, administration and the calendar owe nothing; an accepted
\* connection is served as long as the event loop and the database answer.
Fairness == \A r \in Requests : WF_vars(Proceed(r))
FairSpec == Spec /\ Fairness

-----------------------------------------------------------------------------
(* Properties. *)

\* The quota holds per user and UTC day, however requests, midnight, restarts
\* and quota changes interleave: never more rows of one user on one day than
\* the largest quota that was in force (runs.py, the comment on _quota_lock).
QuotaRespected ==
    \A u \in Users : \A d \in 0..MaxDay : Cardinality(RunsOn(u, d)) <= peak

\* A conversation stays with one user and one agent: thread_belongs_to is
\* asked before the lock is awaited and the row is written after it, while
\* other runs are being given their threads.
ThreadPrivate ==
    \A r, s \in runs :
        (thread[r] # NoThread /\ thread[r] = thread[s])
            => UserOf[r] = UserOf[s] /\ AgentOf[r] = AgentOf[s]

\* The answer tells what happened: a refused request left no row to count
\* against the quota, an accepted one has its row; a row nobody was told of
\* needs a lost answer (500 or a restart).
AnswerMatchesStore ==
    \A r \in Requests :
        /\ pc[r] \in Refused => r \notin runs
        /\ pc[r] \in {"stored", "202"} => r \in runs
        /\ r \in runs => pc[r] \in {"stored", "202", "500", "lost"}

\* No request waits for ever for the quota lock: every way out of the critical
\* section, the failing ones included, hands it on.
EveryRequestAnswered ==
    \A r \in Requests : pc[r] \in InFlight ~> pc[r] \in Answered

-----------------------------------------------------------------------------
(* The inductive invariants RunAdmissionProofs establishes. *)

\* `async with self._quota_lock`: whoever is inside holds the lock.
LockHeld == \A r \in Requests : pc[r] \in Critical => lock = r

\* Clocks: nothing is stamped with a day that has not begun.
StampsPast == \A r \in Requests : created[r] <= day /\ qDay[r] <= day

\* What quota() read is still true of the store when it is used: the count is
\* exact until the insert, since only the holder of the lock inserts.
Snapshot ==
    \A r \in Requests :
        /\ pc[r] \in {"count", "decide", "insert"} => qLimit[r] <= peak
        /\ pc[r] \in {"decide", "insert"} =>
              qUsed[r] = Cardinality(RunsSince(UserOf[r], qDay[r]))
        /\ pc[r] = "insert" => QuotaLeft(r) /\ qDay[r] <= created[r]

QuotaInv ==
    /\ LockHeld
    /\ StampsPast
    /\ Snapshot
    /\ limit <= peak
    /\ AnswerMatchesStore
    /\ QuotaRespected

\* A thread is handed out once, and a request past thread_belongs_to names one
\* that a run of the same user and agent has.
ThreadInv ==
    /\ \A r \in tasks : pc[r] = "202"
    /\ \A r \in Requests : thread[r] \in issued \cup {NoThread}
    /\ \A r \in Requests :
          pc[r] \in {"acquire"} \cup Critical =>
              thread[r] = NoThread \/ OwnsThread(r)
    /\ ThreadPrivate

=============================================================================
