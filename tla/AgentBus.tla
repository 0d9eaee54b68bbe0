------------------------------- MODULE AgentBus -------------------------------
(***************************************************************************)
(* A run travels from the BL to the agent server and back: the BL's runner *)
(* (agents/rabbit_langgraph.py) publishes a job, a worker of agent1        *)
(* (rmq_worker.py) takes it, follows the agent server's stream             *)
(* (lg_client.py) and publishes one reply per event to the queue the job   *)
(* names.  RunDirect is the runner without the broker                      *)
(* (agents/langgraph_server.py).                                           *)
(*                                                                         *)
(* The broker is external: the job queue is durable and first in first     *)
(* out, a job that was delivered and not acknowledged goes back to the     *)
(* head when its worker dies, a reply queue is exclusive to the BL's       *)
(* connection, and a reply to a queue that is gone is dropped.  It         *)
(* auto-deletes a queue when its last consumer leaves; reply.get makes no  *)
(* consumer, so reply queues live as long as the connection.  A job's      *)
(* expiry, 1000 times the run's timeout (milliseconds where the client     *)
(* library takes seconds), does not occur within a run and is left out.    *)
(* A worker rejects a job without assistant, input or reply queue; the BL  *)
(* sends no such job.                                                      *)
(***************************************************************************)
EXTENDS Naturals, FiniteSets, Sequences, SequencesExt

CONSTANTS
    Runs,
    Workers,
    MaxStreamed,   \* bound: events the agent server streams per attempt
    MaxDeaths,     \* bound: how often a worker dies
    MaxRestarts,   \* bound: how often the BL is killed
    MaxFaults,     \* bound: calls to the broker that fail, replies that get lost
    None

Words == {"step", "message", "error", "done"}   \* the events of a stream

ASSUME NoneAssumption   == None \notin Runs \cup Words /\ None \notin Seq(Words) /\ Workers \cap Runs = {}
ASSUME BoundsAssumption ==
    {MaxStreamed, MaxDeaths, MaxRestarts, MaxFaults} \subseteq Nat

VARIABLES
    transport,  \* BL_AGENT_TRANSPORT: one runner for all runs of the BL
    at,         \* where the runner of a run stands
    got,        \* got_message (output, for a run over http)
    lock,       \* _lock: the run that opens the channel
    channel,    \* _channel is open
    declared,   \* the job queue exists
    jobs,       \* broker: the job queue
    reply,      \* broker: the reply queue of a run, None when there is none
    doing,      \* the run whose stream a worker (or a run over http) follows
    stage,      \* where that stream stands
    streamed,   \* events of the stream so far
    said,       \* history: the answers and last words published for a run
    concluded,  \* history: runs whose job was acknowledged
    hurt,       \* history: runs a broker call or a reply of which was lost
    deaths, restarts

runner  == <<transport, at, got, lock, channel>>
broker  == <<declared, jobs, reply>>
streams == <<doing, stage, streamed>>
history == <<said, concluded, hurt>>
bounds  == <<deaths, restarts>>
vars    == <<runner, broker, streams, history, bounds>>

Opening  == {"connect", "declareJobs"}
Active   == {"channel", "declareReply", "publish", "poll", "direct"} \cup Opening
Failed   == {"error", "refused", "empty", "raised", "lost"}
Streams  == Workers \cup Runs

TypeOK ==
    /\ transport \in {"http", "rabbitmq"}
    /\ at \in [Runs -> {"idle", "ended"} \cup Active \cup Failed]
    /\ got \in [Runs -> BOOLEAN]
    /\ lock \in Runs \cup {None} /\ channel \in BOOLEAN /\ declared \in BOOLEAN
    /\ jobs \in Seq(Runs)
    /\ \A r \in Runs : reply[r] = None \/ reply[r] \in Seq(Words)
    /\ doing \in [Streams -> Runs \cup {None}]
    /\ stage \in [Streams -> {"down", "idle", "threads", "open", "stream", "answered", "sorry", "bye", "ack"}]
    /\ streamed \in [Streams -> 0..MaxStreamed]

Init ==
    /\ transport \in {"http", "rabbitmq"}
    /\ at = [r \in Runs |-> "idle"] /\ got = [r \in Runs |-> FALSE]
    /\ lock = None /\ channel = FALSE /\ declared = FALSE
    /\ jobs = <<>> /\ reply = [r \in Runs |-> None]
    /\ doing = [s \in Streams |-> None]
    /\ stage = [s \in Streams |-> IF s \in Workers THEN "down" ELSE "idle"]
    /\ streamed = [s \in Streams |-> 0]
    /\ said = [r \in Runs |-> {}] /\ concluded = {} /\ hurt = {}
    /\ deaths = 0 /\ restarts = 0

-----------------------------------------------------------------------------
(* The stream of the agent server: the events a stage may yield next and    *)
(* the stage it goes to.  "over" ends the generator, "raise" is an error    *)
(* the generator does not handle itself; None stands for no event, "step"   *)
(* for Meta and Step alike.                                                 *)

Yields(event, to) == [event |-> event, to |-> to]

StreamRun(st, n) ==
    CASE st = "threads" -> {Yields("step", "open"), Yields("error", "over"), Yields(None, "raise")}
      [] st = "open"    -> {Yields(None, "stream"), Yields("error", "over")}
      [] st = "stream"  -> (IF n < MaxStreamed THEN {Yields("step", "stream")} ELSE {})
                           \cup {Yields("message", "answered"), Yields("error", "over"), Yields(None, "raise")}
      [] st = "answered" -> {Yields("done", "over")}
      [] OTHER -> {}


-----------------------------------------------------------------------------
(* The worker.                                                              *)

\* A queue nobody will read any more is kept as None: its content is left out.
Reply(r, e) ==
    /\ reply' = IF reply[r] = None THEN reply ELSE [reply EXCEPT ![r] = Append(@, e)]
    /\ said' = [said EXCEPT ![r] = @ \cup ({e} \cap {"message", "error", "done"})]

GoTo(s, st) == stage' = [stage EXCEPT ![s] = st]

StartWorker(w) ==
    /\ stage[w] = "down"
    /\ GoTo(w, "idle") /\ declared' = TRUE
    /\ UNCHANGED <<runner, jobs, reply, doing, streamed, history, bounds>>

Take(w) ==
    /\ stage[w] = "idle" /\ jobs # <<>>
    /\ doing' = [doing EXCEPT ![w] = Head(jobs)] /\ jobs' = Tail(jobs)
    /\ GoTo(w, "threads")
    /\ UNCHANGED <<runner, declared, reply, streamed, history, bounds>>

\* The effect of one event on the stream's own variables.
Advance(s, y) ==
    /\ streamed' = [streamed EXCEPT ![s] = IF stage[s] = y.to THEN @ + 1 ELSE @]
    /\ UNCHANGED <<doing, transport, lock, channel, declared, jobs, concluded, hurt, bounds>>

\* Mutant: an error the generator does not handle ends the handler silently.
FollowSilent(w) == \E y \in StreamRun(stage[w], streamed[w]) :
    /\ Advance(w, y)
    /\ GoTo(w, IF y.to \in {"raise", "over"} THEN "ack" ELSE y.to)
    /\ IF y.event = None THEN UNCHANGED <<reply, said>> ELSE Reply(doing[w], y.event)
    /\ UNCHANGED <<at, got>>

\* _handle forwards every event; `error` and `done` are the last ones.
Follow(w) == \E y \in StreamRun(stage[w], streamed[w]) :
    /\ Advance(w, y)
    /\ GoTo(w, CASE y.to = "raise" -> "sorry" [] y.to = "over" -> "ack" [] OTHER -> y.to)
    /\ IF y.event = None THEN UNCHANGED <<reply, said>> ELSE Reply(doing[w], y.event)
    /\ UNCHANGED <<at, got>>

\* Mutant: the error is left out, done alone ends the replies.
ApologiseDoneOnly(w) ==
    /\ stage[w] \in {"sorry", "bye"}
    /\ Reply(doing[w], "done") /\ GoTo(w, "ack")
    /\ UNCHANGED <<runner, declared, jobs, doing, streamed, concluded, hurt, bounds>>

\* except Exception: an error, then done.
Apologise(w) ==
    /\ stage[w] \in {"sorry", "bye"}
    /\ IF stage[w] = "sorry" THEN Reply(doing[w], "error") /\ GoTo(w, "bye")
                             ELSE Reply(doing[w], "done") /\ GoTo(w, "ack")
    /\ UNCHANGED <<runner, declared, jobs, doing, streamed, concluded, hurt, bounds>>

\* A reply the broker refuses: the handler apologises; when that fails too the
\* job is rejected without requeue.
ReplyFails(w) ==
    /\ stage[w] \in {"threads", "open", "stream", "answered", "sorry", "bye"} /\ Cardinality(hurt) < MaxFaults
    /\ GoTo(w, IF stage[w] \in {"sorry", "bye"} THEN "ack" ELSE "sorry")
    /\ hurt' = hurt \cup {doing[w]}
    /\ UNCHANGED <<runner, broker, doing, streamed, said, concluded, deaths, restarts>>

Forget(s) ==
    /\ doing' = [doing EXCEPT ![s] = None]
    /\ streamed' = [streamed EXCEPT ![s] = 0]

\* Mutant: process(requeue=True), with a failed attempt rejected.
AckRequeues(w) ==
    /\ stage[w] = "ack"
    /\ concluded' = concluded \cup {doing[w]}
    /\ jobs' = IF "error" \in said[doing[w]] THEN <<doing[w]>> \o jobs ELSE jobs
    /\ Forget(w) /\ GoTo(w, "idle")
    /\ UNCHANGED <<runner, declared, reply, said, hurt, bounds>>

\* message.process(requeue=False) ends: the job is acknowledged or rejected.
Ack(w) ==
    /\ stage[w] = "ack"
    /\ concluded' = concluded \cup {doing[w]}
    /\ Forget(w) /\ GoTo(w, "idle")
    /\ UNCHANGED <<runner, broker, said, hurt, bounds>>

\* Mutant: the worker consumes with no_ack, nothing is left to take back.
DieAcknowledged(w) ==
    /\ stage[w] # "down" /\ deaths < MaxDeaths
    /\ Forget(w) /\ GoTo(w, "down")
    /\ deaths' = deaths + 1
    /\ UNCHANGED <<runner, broker, history, restarts>>

\* The worker is killed or stopped: the broker takes its job back.
Die(w) ==
    /\ stage[w] # "down" /\ deaths < MaxDeaths
    /\ jobs' = IF doing[w] = None THEN jobs ELSE <<doing[w]>> \o jobs
    /\ Forget(w) /\ GoTo(w, "down")
    /\ deaths' = deaths + 1
    /\ UNCHANGED <<runner, declared, reply, history, restarts>>

-----------------------------------------------------------------------------
(* The runner in the BL.                                                    *)

Move(r, a) == at' = [at EXCEPT ![r] = a]

\* RunService asks for events; without an assistant_id the runner raises.
Start(r) ==
    /\ at[r] = "idle"
    /\ \/ Move(r, "error") /\ UNCHANGED <<doing, stage>>
       \/ transport = "rabbitmq" /\ Move(r, "channel") /\ UNCHANGED <<doing, stage>>
       \/ /\ transport = "http" /\ Move(r, "direct")
          /\ doing' = [doing EXCEPT ![r] = r] /\ GoTo(r, "threads")
    /\ UNCHANGED <<transport, got, lock, channel, broker, streamed, history, bounds>>

\* _channel_ready: under the lock, an open channel is used as it is.
ChannelReady(r) ==
    /\ at[r] = "channel" /\ lock = None
    /\ IF channel THEN Move(r, "declareReply") /\ UNCHANGED lock
                  ELSE Move(r, "connect") /\ lock' = r
    /\ UNCHANGED <<transport, got, channel, broker, streams, history, bounds>>

Connect(r) ==
    /\ at[r] = "connect"
    /\ channel' = TRUE /\ Move(r, "declareJobs")
    /\ UNCHANGED <<transport, got, lock, broker, streams, history, bounds>>

DeclareJobs(r) ==
    /\ at[r] = "declareJobs"
    /\ declared' = TRUE /\ lock' = None /\ Move(r, "declareReply")
    /\ UNCHANGED <<transport, got, channel, jobs, reply, streams, history, bounds>>

DeclareReply(r) ==
    /\ at[r] = "declareReply"
    /\ reply' = [reply EXCEPT ![r] = <<>>] /\ Move(r, "publish")
    /\ UNCHANGED <<transport, got, lock, channel, declared, jobs, streams, history, bounds>>

\* A job for a queue nobody declared yet is unroutable.
Queued(r) == IF declared THEN Append(jobs, r) ELSE jobs

Publish(r) ==
    /\ at[r] = "publish"
    /\ jobs' = Queued(r) /\ Move(r, "poll")
    /\ UNCHANGED <<transport, got, lock, channel, declared, reply, streams, history, bounds>>

Pending(r) == at[r] = "poll" /\ reply[r] # <<>>

\* Mutant: done ends the run whether or not an answer came.
GetUnchecked(r) ==
    /\ Pending(r)
    /\ LET e == Head(reply[r]) IN
       /\ reply' = [reply EXCEPT ![r] = IF e \in {"error", "done"} THEN None ELSE Tail(@)]
       /\ got' = [got EXCEPT ![r] = @ \/ e = "message"]
       /\ Move(r, CASE e = "error" -> "refused" [] e = "done" -> "ended" [] OTHER -> "poll")
    /\ UNCHANGED <<transport, lock, channel, declared, jobs, streams, history, bounds>>

\* One reply: steps are passed on, the others decide.
Get(r) ==
    /\ Pending(r)
    /\ LET e == Head(reply[r]) IN
       /\ reply' = [reply EXCEPT ![r] = IF e \in {"error", "done"} THEN None ELSE Tail(@)]
       /\ got' = [got EXCEPT ![r] = @ \/ e = "message"]
       /\ Move(r, CASE e = "error" -> "refused"
                    [] e = "done"  -> IF got[r] THEN "ended" ELSE "empty"
                    [] OTHER       -> "poll")
    /\ UNCHANGED <<transport, lock, channel, declared, jobs, streams, history, bounds>>

\* wait_for cancels reply.get although the broker's answer is on its way.
GetLoses(r) ==
    /\ Pending(r) /\ Cardinality(hurt) < MaxFaults
    /\ reply' = [reply EXCEPT ![r] = Tail(@)]
    /\ hurt' = hurt \cup {r}
    /\ UNCHANGED <<runner, declared, jobs, streams, said, concluded, deaths, restarts>>

\* LangGraphServerRunner.run follows the stream itself: errors are raised.
Call(r) == at[r] = "direct" /\ \E y \in StreamRun(stage[r], streamed[r]) :
    /\ Advance(r, y)
    /\ GoTo(r, IF y.to \in {"over", "raise"} THEN "idle" ELSE y.to)
    /\ got' = [got EXCEPT ![r] = @ \/ y.event = "message"]
    /\ Move(r, CASE y.event = "done" -> "ended" [] y.event = "error" -> "error"
                 [] y.to = "raise" -> "raised" [] OTHER -> "direct")
    /\ UNCHANGED <<reply, said>>

\* A runner that stops while a call is under way frees the lock; a job that is
\* being published may be on its way.  The channel stays, and so does the reply
\* queue, unread.
Stop(r) ==
    /\ lock' = IF lock = r THEN None ELSE lock
    /\ jobs' \in IF at[r] = "publish" THEN {jobs, Queued(r)} ELSE {jobs}
    /\ stage' = [s \in Streams |-> IF s = r THEN "idle" ELSE stage[s]]
    /\ reply' = [reply EXCEPT ![r] = None]
    /\ UNCHANGED <<transport, got, channel, declared, doing, streamed, said, concluded>>

\* The deadline of the poll loop, or that of _execute around the whole runner.
TimeOut(r) ==
    /\ at[r] \in Active
    /\ Move(r, "error") /\ Stop(r)
    /\ UNCHANGED <<hurt, bounds>>

\* A call to the broker raises: in the loop that is an AgentError, before it
\* the exception leaves the runner as it is.
BrokerFails(r) ==
    /\ at[r] \in Active \ {"channel", "direct"} /\ Cardinality(hurt) < MaxFaults
    /\ Move(r, IF at[r] = "poll" THEN "error" ELSE "raised") /\ Stop(r)
    /\ hurt' = hurt \cup {r}
    /\ UNCHANGED <<deaths, restarts>>

\* The BL is killed: its connection ends, and with it the reply queues.
Restart ==
    /\ restarts < MaxRestarts
    /\ at' = [r \in Runs |-> IF at[r] \in Active THEN "lost" ELSE at[r]]
    /\ lock' = None /\ channel' = FALSE /\ reply' = [r \in Runs |-> None]
    /\ stage' = [s \in Streams |-> IF s \in Runs THEN "idle" ELSE stage[s]]
    /\ restarts' = restarts + 1
    /\ UNCHANGED <<transport, got, declared, jobs, doing, streamed, history, deaths>>

-----------------------------------------------------------------------------
Work(w) == Take(w) \/ Follow(w) \/ Apologise(w) \/ Ack(w)

Run(r) ==
    \/ Start(r) \/ ChannelReady(r) \/ Connect(r) \/ DeclareJobs(r) \/ DeclareReply(r)
    \/ Publish(r) \/ Get(r) \/ Call(r)

Next ==
    \/ \E w \in Workers : StartWorker(w) \/ Work(w) \/ ReplyFails(w) \/ Die(w)
    \/ \E r \in Runs : Run(r) \/ GetLoses(r) \/ TimeOut(r) \/ BrokerFails(r)
    \/ Restart

Spec == Init /\ [][Next]_vars

\* Workers are restarted (restart: unless-stopped), and a worker goes on with
\* what it does: the agent server ends its streams, or stops sending, which
\* the client turns into an error.
FairSpec == Spec /\ \A w \in Workers : WF_vars(StartWorker(w)) /\ WF_vars(Work(w))

-----------------------------------------------------------------------------
(* The verdict the runner reaches is one the worker sent: an answered end    *)
(* took a Message and a done, a refusal an error, and a done without an      *)
(* answer shows that something was lost (rabbit_langgraph.py, the poll loop, *)
(* against rmq_worker.py and lg_client.py).                                  *)
EndMatchesAgent == \A r \in Runs : transport = "rabbitmq" =>
    /\ at[r] = "ended"   => {"message", "done"} \subseteq said[r]
    /\ at[r] = "refused" => "error" \in said[r]
    /\ at[r] = "empty"   => r \in hurt

(* A job leaves the broker for good only when a last word was published for  *)
(* it, whichever way _handle was left, unless the broker refused a reply.    *)
ConcludedIsTold == \A r \in concluded \ hurt : said[r] \cap {"error", "done"} # {}

(* A job is in one place: queued once, in the hands of one worker, or        *)
(* concluded for good.  Neither an attempt that failed nor a run that was     *)
(* given up puts it back (process(requeue=False)), and a dying worker leaves  *)
(* one copy.                                                                  *)
JobInOnePlace ==
    /\ IsInjective(jobs)
    /\ \A w \in Workers : doing[w] \notin ToSet(jobs) \cup concluded
    /\ ToSet(jobs) \cap concluded = {}

(* Every job is concluded some day, through deaths of its worker and behind  *)
(* the jobs of runs that were given up: none is left in the queue or in a    *)
(* handler.                                                                  *)
JobsConclude == \A r \in Runs : (r \in ToSet(jobs)) ~> (r \in concluded)

(* To RunService a runner behind the broker is the runner of agents/base.py: *)
(* at most one end, only after an answer, and nothing afterwards.            *)
Life(r) == CASE at[r] = "idle" -> "idle" [] at[r] \in Active -> "active"
             [] at[r] = "ended" -> "ended" [] OTHER -> "failed"
Contract == INSTANCE AgentContract WITH life <- [r \in Runs |-> Life(r)], answered <- got
RefinesContract == Contract!Spec

==============================================================================
