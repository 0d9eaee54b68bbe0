---------------------------- MODULE AgentBusProofs ----------------------------
(***************************************************************************)
(* Theorems about AgentBus for any runs, workers and bounds: either         *)
(* transport implements the contract of an agent runner, a concluded job    *)
(* was told its end, a job is in one place, and the verdict of a run is the *)
(* worker's.                                                                *)
(***************************************************************************)
EXTENDS AgentBus, SequenceTheorems, TLAPS

USE NoneAssumption

Places == {"idle", "ended"} \cup Active \cup Failed
Stages == {"down", "idle", "threads", "open", "stream", "answered", "sorry", "bye", "ack"}

-----------------------------------------------------------------------------
(* The agent server's stream. *)

\* What StreamRun may yield, without the case distinction: the last events
\* are `error` and `done`, an answer leads to "answered" and nothing else does.
LEMMA StreamYields ==
    ASSUME NEW st, NEW n, NEW y \in StreamRun(st, n)
    PROVE  /\ st \in {"threads", "open", "stream", "answered"}
           /\ y.to \in {"open", "stream", "answered", "over", "raise"}
           /\ y.event \in {"step", "message", "error", "done", None}
           /\ y.to = "answered" <=> y.event = "message"
           /\ y.to = "over" <=> y.event \in {"error", "done"}
           /\ y.event = "done" <=> st = "answered"
           /\ y.to = st => st = "stream"
           /\ y.to = "stream" /\ st = "stream" => n < MaxStreamed
<1>0. None \notin {"step", "message", "error", "done"}
  BY DEF Words
<1>1. CASE st = "threads"
  <2>1. y \in {Yields("step", "open"), Yields("error", "over"), Yields(None, "raise")}
    BY <1>1 DEF StreamRun
  <2> QED BY <2>1, <1>0, <1>1 DEF Yields
<1>2. CASE st = "open"
  <2>1. y \in {Yields(None, "stream"), Yields("error", "over")}
    BY <1>2 DEF StreamRun
  <2> QED BY <2>1, <1>0, <1>2 DEF Yields
<1>3. CASE st = "stream"
  <2>1. \/ y = Yields("step", "stream") /\ n < MaxStreamed
        \/ y \in {Yields("message", "answered"), Yields("error", "over"), Yields(None, "raise")}
    BY <1>3 DEF StreamRun
  <2> QED BY <2>1, <1>0, <1>3 DEF Yields
<1>4. CASE st = "answered"
  <2>1. y = Yields("done", "over")
    BY <1>4 DEF StreamRun
  <2> QED BY <2>1, <1>0, <1>4 DEF Yields
<1>5. st \in {"threads", "open", "stream", "answered"}
  BY DEF StreamRun
<1> QED BY <1>1, <1>2, <1>3, <1>4, <1>5

-----------------------------------------------------------------------------
(* Types, and what the steps of a worker and of a runner rest on. *)

Replies == Seq(Words) \cup {None}

\* A worker has a run exactly while it works, and a runner that waits for
\* replies has a queue.
Typed ==
    /\ at \in [Runs -> Places] /\ got \in [Runs -> BOOLEAN]
    /\ jobs \in Seq(Runs) /\ reply \in [Runs -> Replies]
    /\ doing \in [Streams -> Runs \cup {None}] /\ stage \in [Streams -> Stages]
    /\ streamed \in [Streams -> 0..MaxStreamed]
    /\ said \in [Runs -> SUBSET Words] /\ concluded \subseteq Runs /\ hurt \subseteq Runs
    /\ \A w \in Workers : doing[w] = None <=> stage[w] \in {"down", "idle"}
    /\ \A r \in Runs : at[r] \in {"publish", "poll"} => reply[r] # None

Unchanging == UNCHANGED <<at, got, lock, channel, transport, declared, jobs, concluded>>

LEMMA QueueFacts ==
    ASSUME NEW S, NEW q \in Seq(S)
    PROVE  /\ \A x \in S : Append(q, x) \in Seq(S) /\ <<x>> \o q \in Seq(S)
           /\ q # <<>> => Head(q) \in S /\ Tail(q) \in Seq(S)
<1>1. \A x \in S : Append(q, x) \in Seq(S)
  BY AppendProperties
<1>2. \A x \in S : <<x>> \o q \in Seq(S)
  BY ConcatProperties
<1>3. q # <<>> => Head(q) \in S /\ Tail(q) \in Seq(S)
  BY HeadTailProperties
<1> QED BY <1>1, <1>2, <1>3

LEMMA ReplyTyped ==
    ASSUME Typed, NEW r \in Runs, NEW e \in Words, Reply(r, e)
    PROVE  /\ reply' \in [Runs -> Replies] /\ said' \in [Runs -> SUBSET Words]
           /\ \A x \in Runs : reply'[x] = None <=> reply[x] = None
           /\ \A x \in Runs : said[x] \subseteq said'[x]
           /\ e \in {"message", "error", "done"} => e \in said'[r]
<1>1. CASE reply[r] = None
  BY <1>1 DEF Reply, Typed, Words
<1>2. CASE reply[r] # None
  <2>1. reply[r] \in Seq(Words)
    BY <1>2 DEF Typed, Replies
  <2>2. Append(reply[r], e) \in Seq(Words) /\ Append(reply[r], e) # None
    BY <2>1, QueueFacts
  <2> QED BY <1>2, <2>2 DEF Reply, Typed, Words, Replies
<1> QED BY <1>1, <1>2

LEMMA InitTyped == ASSUME Init PROVE Typed
<1>1. <<>> \in Seq(Runs) /\ MaxStreamed \in Nat
  BY BoundsAssumption
<1>2. 0 \in 0..MaxStreamed
  BY <1>1
<1>3. \A w \in Workers : w \notin Runs
  OBVIOUS
<1> QED BY <1>1, <1>2, <1>3 DEF Init, Typed, Places, Stages, Replies, Streams, Active, Opening

\* What one event of a stream does to the stream's own variables.
LEMMA AdvanceTyped ==
    ASSUME Typed, NEW s \in Streams, NEW y \in StreamRun(stage[s], streamed[s]), Advance(s, y)
    PROVE  streamed' \in [Streams -> 0..MaxStreamed]
<1>1. MaxStreamed \in Nat /\ streamed[s] \in 0..MaxStreamed
  BY BoundsAssumption DEF Typed
<1>2. stage[s] = y.to => streamed[s] < MaxStreamed
  BY StreamYields
<1>3. (IF stage[s] = y.to THEN streamed[s] + 1 ELSE streamed[s]) \in 0..MaxStreamed
  BY <1>1, <1>2
<1> QED BY <1>3 DEF Advance, Typed

LEMMA FollowTyped ==
    ASSUME Typed, NEW w \in Workers, Follow(w)
    PROVE  Typed'
<1>1. PICK y \in StreamRun(stage[w], streamed[w]) :
        /\ Advance(w, y)
        /\ GoTo(w, CASE y.to = "raise" -> "sorry" [] y.to = "over" -> "ack" [] OTHER -> y.to)
        /\ IF y.event = None THEN UNCHANGED <<reply, said>> ELSE Reply(doing[w], y.event)
        /\ UNCHANGED <<at, got>>
  BY DEF Follow
<1>2. w \in Streams /\ stage[w] \in {"threads", "open", "stream", "answered"}
  BY <1>1, StreamYields DEF Streams
<1>3. doing[w] \in Runs
  BY <1>2 DEF Typed, Streams
<1>4. streamed' \in [Streams -> 0..MaxStreamed] /\ doing' = doing
  BY <1>1, <1>2, AdvanceTyped DEF Advance
<1>5. /\ reply' \in [Runs -> Replies] /\ said' \in [Runs -> SUBSET Words]
      /\ \A x \in Runs : reply'[x] = None <=> reply[x] = None
  <2>1. CASE y.event = None
    BY <1>1, <2>1 DEF Typed
  <2>2. CASE y.event # None
    <3>1. y.event \in Words
      BY <1>1, <2>2, StreamYields DEF Words
    <3> QED BY <1>1, <1>3, <2>2, <3>1, ReplyTyped
  <2> QED BY <2>1, <2>2
<1>6. \E st \in Stages \ {"down", "idle"} : stage' = [stage EXCEPT ![w] = st]
  BY ZenonT(30), <1>1, StreamYields DEF GoTo, Stages
<1>7. stage' \in [Streams -> Stages] /\ \A v \in Workers : stage'[v] \in {"down", "idle"} <=> stage[v] \in {"down", "idle"}
  BY <1>2, <1>6 DEF Typed, Streams, Stages
<1> QED BY <1>1, <1>4, <1>5, <1>7 DEF Typed, Advance

LEMMA WorkerTyped ==
    ASSUME Typed, NEW w \in Workers, StartWorker(w) \/ Work(w) \/ ReplyFails(w) \/ Die(w)
    PROVE  Typed'
<1> USE DEF Typed, Streams, Stages, GoTo
<1>0. MaxStreamed \in Nat /\ w \in Streams /\ 0 \in 0..MaxStreamed
  BY BoundsAssumption
<1>1. CASE StartWorker(w)
  BY <1>1 DEF StartWorker, runner, history, bounds
<1>2. CASE Take(w)
  <2>1. Head(jobs) \in Runs /\ Tail(jobs) \in Seq(Runs)
    BY <1>2, QueueFacts DEF Take
  <2> QED BY <1>2, <2>1 DEF Take, runner, history, bounds
<1>3. CASE Follow(w)
  BY <1>3, FollowTyped
<1>4. CASE Apologise(w)
  <2>1. doing[w] \in Runs
    BY <1>4 DEF Apologise
  <2>2. /\ reply' \in [Runs -> Replies] /\ said' \in [Runs -> SUBSET Words]
        /\ \A x \in Runs : reply'[x] = None <=> reply[x] = None
    BY <1>4, <2>1, ReplyTyped DEF Apologise, Words
  <2> QED BY ZenonT(30), <1>4, <2>2 DEF Apologise, runner, bounds
<1>5. CASE Ack(w)
  BY <1>0, <1>5 DEF Ack, Forget, runner, broker, bounds
<1>6. CASE ReplyFails(w)
  <2>1. doing[w] \in Runs /\ hurt' \subseteq Runs
    BY <1>6 DEF ReplyFails
  <2>2. \E st \in {"ack", "sorry"} : stage' = [stage EXCEPT ![w] = st]
    BY <1>6 DEF ReplyFails
  <2>3. stage' \in [Streams -> Stages] /\ \A v \in Workers : v # w => stage'[v] = stage[v]
    BY <2>2
  <2>4. doing[w] # None /\ stage'[w] \notin {"down", "idle"}
    BY <2>1, <2>2
  <2> QED BY <1>6, <2>1, <2>3, <2>4 DEF ReplyFails, runner, broker
<1>7. CASE Die(w)
  <2>1. jobs' \in Seq(Runs)
    BY <1>7, QueueFacts DEF Die
  <2> QED BY <1>0, <1>7, <2>1 DEF Die, Forget, runner, history
<1> QED BY <1>1, <1>2, <1>3, <1>4, <1>5, <1>6, <1>7 DEF Work

\* One reply of the queue a runner polls.
LEMMA PolledReply ==
    ASSUME Typed, NEW r \in Runs, Pending(r)
    PROVE  /\ reply[r] \in Seq(Words) /\ Head(reply[r]) \in Words
           /\ Tail(reply[r]) \in Seq(Words) /\ Tail(reply[r]) # None
<1>1. reply[r] \in Seq(Words) /\ reply[r] # <<>>
  BY DEF Typed, Replies, Pending
<1> QED BY <1>1, QueueFacts

\* A runner that stops, in whatever state it leaves.
LEMMA StopTyped ==
    ASSUME Typed, NEW r \in Runs, NEW a \in Failed, Move(r, a), Stop(r), hurt' \subseteq Runs
    PROVE  Typed'
<1>1. jobs' \in Seq(Runs)
  <2>1. Queued(r) \in Seq(Runs)
    BY QueueFacts DEF Typed, Queued
  <2> QED BY <2>1 DEF Stop, Typed
<1>2. at' \in [Runs -> Places] /\ at'[r] = a /\ \A x \in Runs \ {r} : at'[x] = at[x]
  BY DEF Move, Typed, Places
<1>3. a \notin {"publish", "poll"}
  BY DEF Failed
<1>4. reply' \in [Runs -> Replies] /\ \A x \in Runs \ {r} : reply'[x] = reply[x]
  BY DEF Stop, Typed, Replies
<1>5. stage' \in [Streams -> Stages] /\ \A w \in Workers : stage'[w] = stage[w]
  BY DEF Stop, Typed, Streams, Stages
<1> QED BY <1>1, <1>2, <1>3, <1>4, <1>5 DEF Stop, Typed

LEMMA RunnerTyped ==
    ASSUME Typed, NEW r \in Runs, Run(r) \/ GetLoses(r) \/ TimeOut(r) \/ BrokerFails(r)
    PROVE  Typed'
<1> USE DEF Typed, Places, Active, Opening, Failed, Move
<1>0. r \in Streams /\ r \notin Workers
  BY DEF Streams
<1>1. CASE Start(r)
  <2>1. \/ UNCHANGED <<doing, stage>>
        \/ doing' = [doing EXCEPT ![r] = r] /\ stage' = [stage EXCEPT ![r] = "threads"]
    BY <1>1 DEF Start, GoTo
  <2>2. /\ doing' \in [Streams -> Runs \cup {None}] /\ stage' \in [Streams -> Stages]
        /\ \A w \in Workers : doing'[w] = doing[w] /\ stage'[w] = stage[w]
    <3>1. CASE UNCHANGED <<doing, stage>>
      BY <3>1
    <3>2. CASE doing' = [doing EXCEPT ![r] = r] /\ stage' = [stage EXCEPT ![r] = "threads"]
      <4>1. \A w \in Workers : w # r
        BY <1>0
      <4> QED BY <1>0, <3>2, <4>1 DEF Stages, Streams
    <3> QED BY <2>1, <3>1, <3>2
  <2> QED BY SMTT(30), <1>1, <2>2 DEF Start, broker, history, bounds
<1>2. CASE ChannelReady(r)
  BY <1>2 DEF ChannelReady, broker, streams, history, bounds
<1>3. CASE Connect(r)
  BY <1>3 DEF Connect, broker, streams, history, bounds
<1>4. CASE DeclareJobs(r)
  BY <1>4 DEF DeclareJobs, streams, history, bounds
<1>5. CASE DeclareReply(r)
  <2>0. <<>> \in Seq(Words)
    OBVIOUS
  <2>1. <<>> \in Replies /\ <<>> # None
    BY <2>0, NoneAssumption, Zenon DEF Replies
  <2> QED BY <1>5, <2>1 DEF DeclareReply, streams, history, bounds, Replies
<1>6. CASE Publish(r)
  <2>1. jobs' \in Seq(Runs)
    BY <1>6, QueueFacts DEF Publish, Queued
  <2> QED BY <1>6, <2>1 DEF Publish, streams, history, bounds
<1>7. CASE Get(r)
  <2>1. /\ reply' \in [Runs -> Replies] /\ \A x \in Runs \ {r} : reply'[x] = reply[x]
        /\ Head(reply[r]) \notin {"error", "done"} => reply'[r] # None
    BY <1>7, PolledReply DEF Get, Replies
  <2>2. got' \in [Runs -> BOOLEAN]
    BY <1>7 DEF Get
  <2>3. \/ Head(reply[r]) \in {"error", "done"} /\ \E a \in {"refused", "ended", "empty"} : at' = [at EXCEPT ![r] = a]
        \/ Head(reply[r]) \notin {"error", "done"} /\ at' = [at EXCEPT ![r] = "poll"]
    BY <1>7 DEF Get
  <2> QED BY <1>7, <2>1, <2>2, <2>3 DEF Get, streams, history, bounds
<1>8. CASE Call(r)
  <2>1. PICK y \in StreamRun(stage[r], streamed[r]) :
          /\ Advance(r, y)
          /\ GoTo(r, IF y.to \in {"over", "raise"} THEN "idle" ELSE y.to)
          /\ got' = [got EXCEPT ![r] = @ \/ y.event = "message"]
          /\ Move(r, CASE y.event = "done" -> "ended" [] y.event = "error" -> "error"
                       [] y.to = "raise" -> "raised" [] OTHER -> "direct")
          /\ UNCHANGED <<reply, said>>
    BY <1>8 DEF Call
  <2>2. streamed' \in [Streams -> 0..MaxStreamed] /\ doing' = doing
    BY <1>0, <2>1, AdvanceTyped DEF Advance
  <2>3. stage' \in [Streams -> Stages] /\ \A w \in Workers : stage'[w] = stage[w]
    <3>1. (IF y.to \in {"over", "raise"} THEN "idle" ELSE y.to) \in Stages
      BY <2>1, StreamYields DEF Stages
    <3> QED BY <1>0, <2>1, <3>1 DEF GoTo, Streams
  <2>4. \E a \in {"ended", "error", "raised", "direct"} : at' = [at EXCEPT ![r] = a]
    <3>1. CASE y.event = "done"
      BY <2>1, <3>1, StreamYields
    <3>2. CASE y.event = "error"
      BY <2>1, <3>2, StreamYields
    <3>3. CASE y.event \notin {"done", "error"} /\ y.to = "raise"
      BY <2>1, <3>3, StreamYields
    <3>4. CASE y.event \notin {"done", "error"} /\ y.to # "raise"
      BY <2>1, <3>4, StreamYields
    <3> QED BY <3>1, <3>2, <3>3, <3>4
  <2>5. got' \in [Runs -> BOOLEAN]
    BY <2>1
  <2> QED BY <2>1, <2>2, <2>3, <2>4, <2>5 DEF Advance
<1>9. CASE GetLoses(r)
  <2>1. reply' \in [Runs -> Replies] /\ \A x \in Runs : reply'[x] = None <=> reply[x] = None
    BY <1>9, PolledReply DEF GetLoses, Replies
  <2> QED BY <1>9, <2>1 DEF GetLoses, runner, streams
<1>10. CASE TimeOut(r)
  BY <1>10, StopTyped DEF TimeOut
<1>11. CASE BrokerFails(r)
  <2>1. \E a \in Failed : Move(r, a)
    BY <1>11 DEF BrokerFails
  <2> QED BY <1>11, <2>1, StopTyped DEF BrokerFails
<1> QED BY <1>1, <1>2, <1>3, <1>4, <1>5, <1>6, <1>7, <1>8, <1>9, <1>10, <1>11 DEF Run

LEMMA RestartTyped == ASSUME Typed, Restart PROVE Typed'
<1>1. at' \in [Runs -> Places] /\ \A r \in Runs : at'[r] \notin {"publish", "poll"}
  BY DEF Typed, Restart, Places, Active, Failed, Opening
<1>2. stage' \in [Streams -> Stages] /\ \A w \in Workers : stage'[w] = stage[w]
  BY DEF Typed, Restart, Stages, Streams
<1> QED BY <1>1, <1>2 DEF Typed, Restart, Replies, history

LEMMA TypedAlways == Spec => []Typed
<1>1. Typed /\ [Next]_vars => Typed'
  <2>1. ASSUME Typed, UNCHANGED vars PROVE Typed'
    BY <2>1 DEF Typed, vars, runner, broker, streams, history, Streams
  <2> QED BY <2>1, WorkerTyped, RunnerTyped, RestartTyped DEF Next
<1> QED BY <1>1, InitTyped, PTL DEF Spec

-----------------------------------------------------------------------------
(* The refinement of AgentContract. *)

\* A stream a run follows itself has an answer when it stands behind one.
AnsweredFirst == \A r \in Runs : at[r] = "direct" /\ stage[r] = "answered" => got[r]

LifeAt(a) == CASE a = "idle" -> "idle" [] a \in Active -> "active" [] a = "ended" -> "ended" [] OTHER -> "failed"

LEMMA LifeAtIs ==
    /\ LifeAt("idle") = "idle" /\ LifeAt("ended") = "ended"
    /\ \A a \in Active : LifeAt(a) = "active"
    /\ \A a \in Failed : LifeAt(a) = "failed"
  BY DEF LifeAt, Active, Failed, Opening

Lives == [r \in Runs |-> Life(r)]

LEMMA MoveLives ==
    ASSUME Typed, NEW r \in Runs, NEW a \in Places, Move(r, a)
    PROVE  Lives' = [Lives EXCEPT ![r] = LifeAt(a)] /\ Lives[r] = LifeAt(at[r])
<1>1. \A x \in Runs : Life(x) = LifeAt(at[x]) /\ Life(x)' = LifeAt(at'[x])
  BY DEF Life, LifeAt
<1>2. at'[r] = a /\ \A x \in Runs \ {r} : at'[x] = at[x]
  BY DEF Move, Typed
<1> QED BY <1>1, <1>2 DEF Lives

LEMMA ContractFails ==
    ASSUME Typed, NEW r \in Runs, NEW a \in Failed, Move(r, a), at[r] \in {"idle"} \cup Active, got' = got
    PROVE  Contract!Next
<1>0. Lives' = [Lives EXCEPT ![r] = LifeAt(a)] /\ Lives[r] = LifeAt(at[r])
  BY MoveLives DEF Places
<1>1. Lives' = [Lives EXCEPT ![r] = "failed"] /\ Lives[r] \in {"idle", "active"}
  BY <1>0, LifeAtIs
<1>2. Lives' = [x \in Runs |-> IF x \in {r} THEN "failed" ELSE Lives[x]]
  BY <1>1 DEF Lives
<1>3. Contract!Fail({r})
  BY <1>1, <1>2 DEF Contract!Fail, Lives
<1>4. {r} \in SUBSET Runs
  OBVIOUS
<1> QED BY <1>3, <1>4 DEF Contract!Next

LEMMA ContractStutters ==
    ASSUME Typed, NEW r \in Runs, NEW a \in Active, Move(r, a), at[r] \in Active, got' = got
    PROVE  UNCHANGED Contract!vars
<1>1. Lives' = [Lives EXCEPT ![r] = Lives[r]]
  BY MoveLives, LifeAtIs DEF Places
<1>2. Lives' = Lives
  BY <1>1 DEF Lives
<1> QED BY <1>2 DEF Contract!vars, Lives

LEMMA ContractRests == ASSUME UNCHANGED <<at, got>> PROVE UNCHANGED Contract!vars
  BY DEF Contract!vars, Life

\* The answer and the end of a run over either transport.
LEMMA ContractAnswers ==
    ASSUME Typed, NEW r \in Runs, NEW a \in Active, Move(r, a), at[r] \in Active,
           got' = [got EXCEPT ![r] = TRUE]
    PROVE  Contract!Next
<1>1. Lives' = [Lives EXCEPT ![r] = Lives[r]] /\ Lives[r] = "active"
  BY MoveLives, LifeAtIs DEF Places
<1>2. Lives' = Lives
  BY <1>1 DEF Lives
<1>3. Contract!YieldMessage(r)
  BY <1>1, <1>2 DEF Contract!YieldMessage, Lives
<1> QED BY <1>3 DEF Contract!Next

LEMMA ContractEnds ==
    ASSUME Typed, NEW r \in Runs, Move(r, "ended"), at[r] \in Active, got[r], got' = got
    PROVE  Contract!Next
<1>1. Lives' = [Lives EXCEPT ![r] = "ended"] /\ Lives[r] = "active"
  BY MoveLives, LifeAtIs DEF Places
<1>2. Contract!End(r)
  BY <1>1 DEF Contract!End, Lives
<1> QED BY <1>2 DEF Contract!Next

LEMMA GetImplements ==
    ASSUME Typed, NEW r \in Runs, Get(r)
    PROVE  Contract!Next \/ UNCHANGED Contract!vars
<1>1. at[r] \in Active /\ "poll" \in Active /\ Head(reply[r]) \in Words
  BY PolledReply DEF Get, Pending, Active
<1>2. CASE Head(reply[r]) = "message"
  BY <1>1, <1>2, ContractAnswers DEF Get, Typed
<1>3. CASE Head(reply[r]) = "error"
  <2>1. Move(r, "refused") /\ got' = got /\ "refused" \in Failed
    BY <1>3 DEF Get, Typed, Failed
  <2> QED BY <1>1, <2>1, ContractFails
<1>4. CASE Head(reply[r]) = "done"
  <2>1. got' = got /\ Move(r, IF got[r] THEN "ended" ELSE "empty") /\ "empty" \in Failed
    BY <1>4 DEF Get, Typed, Failed
  <2>2. CASE got[r]
    BY <1>1, <2>1, <2>2, ContractEnds
  <2>3. CASE ~got[r]
    BY <1>1, <2>1, <2>3, ContractFails
  <2> QED BY <2>2, <2>3
<1>5. CASE Head(reply[r]) = "step"
  <2>1. got' = got /\ Move(r, "poll")
    BY <1>5 DEF Get, Typed
  <2> QED BY <1>1, <2>1, ContractStutters
<1> QED BY <1>1, <1>2, <1>3, <1>4, <1>5 DEF Words

LEMMA CallImplements ==
    ASSUME Typed, AnsweredFirst, NEW r \in Runs, Call(r)
    PROVE  Contract!Next \/ UNCHANGED Contract!vars
<1>1. PICK y \in StreamRun(stage[r], streamed[r]) :
        /\ at[r] = "direct"
        /\ got' = [got EXCEPT ![r] = @ \/ y.event = "message"]
        /\ Move(r, CASE y.event = "done" -> "ended" [] y.event = "error" -> "error"
                     [] y.to = "raise" -> "raised" [] OTHER -> "direct")
  BY DEF Call
<1>2. "direct" \in Active /\ {"error", "raised"} \subseteq Failed /\ None # "message" /\ None # "done" /\ None # "error"
  BY DEF Active, Failed, Words
<1>3. y.event # "message" => got' = got
  BY <1>1 DEF Typed
<1>4. CASE y.event = "message"
  <2>1. Move(r, "direct") /\ got' = [got EXCEPT ![r] = TRUE]
    BY <1>1, <1>4, StreamYields DEF Typed
  <2> QED BY <1>1, <1>2, <2>1, ContractAnswers
<1>5. CASE y.event = "done"
  <2>1. Move(r, "ended") /\ got[r]
    BY <1>1, <1>5, StreamYields DEF AnsweredFirst
  <2> QED BY <1>1, <1>2, <1>3, <1>5, <2>1, ContractEnds
<1>6. CASE y.event = "error"
  <2>1. Move(r, "error")
    BY <1>1, <1>6, StreamYields
  <2> QED BY <1>1, <1>2, <1>3, <1>6, <2>1, ContractFails
<1>7. CASE y.event \notin {"message", "done", "error"} /\ y.to = "raise"
  <2>1. Move(r, "raised")
    BY <1>1, <1>7, StreamYields
  <2> QED BY <1>1, <1>2, <1>3, <1>7, <2>1, ContractFails
<1>8. CASE y.event \notin {"message", "done", "error"} /\ y.to # "raise"
  <2>1. Move(r, "direct")
    BY <1>1, <1>8, StreamYields
  <2> QED BY <1>1, <1>2, <1>3, <1>8, <2>1, ContractStutters
<1> QED BY <1>4, <1>5, <1>6, <1>7, <1>8

LEMMA RunnerImplements ==
    ASSUME Typed, AnsweredFirst, NEW r \in Runs, Run(r) \/ GetLoses(r) \/ TimeOut(r) \/ BrokerFails(r)
    PROVE  Contract!Next \/ UNCHANGED Contract!vars
<1> USE DEF Active, Opening
<1>1. CASE Start(r)
  <2>1. got' = got /\ at[r] = "idle" /\ \E a \in {"error", "channel", "direct"} : Move(r, a)
    BY <1>1 DEF Start
  <2>2. CASE Move(r, "error")
    BY <2>1, <2>2, ContractFails DEF Failed
  <2>3. ASSUME NEW a \in {"channel", "direct"}, Move(r, a) PROVE Contract!Next
    <3>1. Lives' = [Lives EXCEPT ![r] = LifeAt(a)] /\ Lives[r] = LifeAt(at[r])
      BY <2>3, MoveLives DEF Places
    <3>2. Lives' = [Lives EXCEPT ![r] = "active"] /\ Lives[r] = "idle"
      BY <2>1, <3>1, LifeAtIs
    <3>3. Contract!Start(r)
      BY <2>1, <3>2 DEF Contract!Start, Lives
    <3> QED BY <3>3 DEF Contract!Next
  <2> QED BY <2>1, <2>2, <2>3
<1>2. CASE ChannelReady(r)
  <2>1. got' = got /\ at[r] = "channel" /\ \E a \in {"declareReply", "connect"} : Move(r, a)
    BY <1>2 DEF ChannelReady
  <2> QED BY <2>1, ContractStutters
<1>3. CASE Connect(r)
  BY <1>3, ContractStutters DEF Connect
<1>4. CASE DeclareJobs(r)
  BY <1>4, ContractStutters DEF DeclareJobs
<1>5. CASE DeclareReply(r)
  BY <1>5, ContractStutters DEF DeclareReply
<1>6. CASE Publish(r)
  BY <1>6, ContractStutters DEF Publish
<1>7. CASE Get(r)
  BY <1>7, GetImplements
<1>8. CASE Call(r)
  BY <1>8, CallImplements
<1>9. CASE GetLoses(r)
  BY <1>9, ContractRests DEF GetLoses, runner
<1>10. CASE TimeOut(r)
  BY <1>10, ContractFails DEF TimeOut, Stop, Failed
<1>11. CASE BrokerFails(r)
  <2>1. got' = got /\ at[r] \in Active /\ \E a \in Failed : Move(r, a)
    BY <1>11 DEF BrokerFails, Stop, Failed
  <2> QED BY <2>1, ContractFails
<1> QED BY <1>1, <1>2, <1>3, <1>4, <1>5, <1>6, <1>7, <1>8, <1>9, <1>10, <1>11 DEF Run

LEMMA RestartImplements ==
    ASSUME Typed, Restart
    PROVE  Contract!Next
<1> DEFINE S == {r \in Runs : at[r] \in Active}
<1>1. \A r \in Runs : Life(r) = LifeAt(at[r]) /\ Life(r)' = LifeAt(at'[r])
  BY DEF Life, LifeAt
<1>2. \A r \in S : Lives[r] = "active" /\ Lives'[r] = "failed"
  <2>1. \A r \in S : at'[r] = "lost"
    BY DEF Restart, Typed
  <2> QED BY <1>1, <2>1, LifeAtIs DEF Lives, Failed
<1>3. \A r \in Runs \ S : Lives'[r] = Lives[r]
  <2>1. \A r \in Runs \ S : at'[r] = at[r]
    BY DEF Restart, Typed
  <2> QED BY <1>1, <2>1 DEF Lives
<1>4. Lives' = [r \in Runs |-> IF r \in S THEN "failed" ELSE Lives[r]]
  BY <1>2, <1>3 DEF Lives
<1>5. Contract!Fail(S)
  BY <1>2, <1>4 DEF Contract!Fail, Lives, Restart
<1> QED BY <1>5 DEF Contract!Next

LEMMA WorkerImplements ==
    ASSUME NEW w \in Workers, StartWorker(w) \/ Work(w) \/ ReplyFails(w) \/ Die(w)
    PROVE  UNCHANGED <<at, got>>
<1>1. Follow(w) => UNCHANGED <<at, got>>
  BY DEF Follow
<1> QED BY <1>1 DEF StartWorker, Work, Take, Apologise, Ack, ReplyFails, Die, runner

LEMMA AnsweredFirstStep ==
    ASSUME Typed, AnsweredFirst, [Next]_vars
    PROVE  AnsweredFirst'
<1>1. ASSUME NEW r \in Runs, NEW x \in Runs, Call(r), at'[x] = "direct", stage'[x] = "answered"
      PROVE  got'[x]
  <2>1. PICK y \in StreamRun(stage[r], streamed[r]) :
          /\ at[r] = "direct"
          /\ GoTo(r, IF y.to \in {"over", "raise"} THEN "idle" ELSE y.to)
          /\ got' = [got EXCEPT ![r] = @ \/ y.event = "message"]
          /\ at' = [at EXCEPT ![r] = at'[r]]
    BY <1>1 DEF Call, Move, Typed
  <2>2. CASE x = r
    <3>1. y.to = "answered"
      BY <1>1, <2>1, <2>2, StreamYields DEF GoTo, Typed, Streams
    <3>2. y.event = "message"
      BY <3>1, StreamYields
    <3>3. got'[r] = (got[r] \/ y.event = "message")
      BY <2>1 DEF Typed
    <3> QED BY <2>2, <3>2, <3>3
  <2>3. CASE x # r
    BY <1>1, <2>1, <2>3 DEF AnsweredFirst, GoTo, Typed, Streams
  <2> QED BY <2>2, <2>3
<1>2. ASSUME NEW r \in Runs, Start(r) PROVE AnsweredFirst'
  BY <1>2 DEF AnsweredFirst, Start, Move, GoTo, Typed, Streams
<1>3. ASSUME NEW r \in Runs, ChannelReady(r) \/ Connect(r) \/ DeclareJobs(r) \/ DeclareReply(r) \/ Publish(r)
      PROVE  AnsweredFirst'
  BY <1>3 DEF AnsweredFirst, ChannelReady, Connect, DeclareJobs, DeclareReply, Publish, Move, Typed, streams
<1>4. ASSUME NEW r \in Runs, Get(r) PROVE AnsweredFirst'
  <2>1. stage' = stage /\ \E a \in {"refused", "ended", "empty", "poll"} : at' = [at EXCEPT ![r] = a]
    BY <1>4 DEF Get, Move, streams
  <2>2. \A x \in Runs : got[x] => got'[x]
    BY <1>4 DEF Get, Typed
  <2> QED BY <2>1, <2>2 DEF AnsweredFirst, Typed
<1>5. ASSUME NEW r \in Runs, NEW a \in Failed, Move(r, a), Stop(r) PROVE AnsweredFirst'
  <2>1. a # "direct" /\ got' = got
    BY <1>5 DEF Failed, Stop
  <2>2. \A x \in Runs \ {r} : at'[x] = at[x] /\ stage'[x] = stage[x]
    BY <1>5 DEF Move, Stop, Typed, Streams
  <2> QED BY <1>5, <2>1, <2>2 DEF AnsweredFirst, Move, Typed
<1>6. ASSUME NEW r \in Runs, TimeOut(r) \/ BrokerFails(r) PROVE AnsweredFirst'
  <2>1. \E a \in Failed : Move(r, a) /\ Stop(r)
    BY <1>6 DEF TimeOut, BrokerFails, Failed
  <2> QED BY <1>5, <2>1
<1>7. ASSUME NEW w \in Workers, StartWorker(w) \/ Work(w) \/ ReplyFails(w) \/ Die(w) PROVE AnsweredFirst'
  <2>1. UNCHANGED <<at, got>>
    BY <1>7, WorkerImplements
  <2>2. \A r \in Runs : stage'[r] = stage[r]
    <3>1. \A r \in Runs : r # w
      OBVIOUS
    <3>2. Follow(w) => \A r \in Runs : stage'[r] = stage[r]
      BY <3>1 DEF Follow, GoTo, Typed, Streams
    <3> QED BY <1>7, <3>1, <3>2 DEF StartWorker, Work, Take, Apologise, Ack, ReplyFails, Die, GoTo, Typed, Streams
  <2> QED BY <2>1, <2>2 DEF AnsweredFirst
<1>8. CASE Restart
  BY <1>8 DEF AnsweredFirst, Restart, Typed, Streams, Active
<1>9. ASSUME NEW r \in Runs, GetLoses(r) PROVE AnsweredFirst'
  BY <1>9 DEF AnsweredFirst, GetLoses, runner, streams
<1>10. CASE UNCHANGED vars
  BY <1>10 DEF AnsweredFirst, vars, runner, streams
<1>11. ASSUME NEW r \in Runs, Call(r) PROVE AnsweredFirst'
  BY <1>1, <1>11 DEF AnsweredFirst
<1> QED BY <1>2, <1>3, <1>4, <1>6, <1>7, <1>8, <1>9, <1>10, <1>11 DEF Next, Run

LEMMA AnsweredFirstAlways == Spec => []AnsweredFirst
<1>1. Init => AnsweredFirst
  BY DEF Init, AnsweredFirst
<1>2. Typed /\ AnsweredFirst /\ [Next]_vars => AnsweredFirst'
  BY AnsweredFirstStep
<1> QED BY <1>1, <1>2, TypedAlways, PTL DEF Spec

\* To RunService a runner over RabbitMQ or over http is the runner of
\* agents/base.py (RefinesContract).
THEOREM ContractTheorem == Spec => RefinesContract
<1>1. Init => Contract!Init
  BY LifeAtIs DEF Init, Contract!Init, Life
<1>2. Typed /\ AnsweredFirst /\ [Next]_vars => [Contract!Next]_(Contract!vars)
  <2>1. UNCHANGED vars => UNCHANGED <<at, got>>
    BY DEF vars, runner
  <2> QED BY <2>1, RunnerImplements, RestartImplements, WorkerImplements, ContractRests DEF Next
<1> QED BY <1>1, <1>2, TypedAlways, AnsweredFirstAlways, PTL DEF Spec, RefinesContract, Contract!Spec

-----------------------------------------------------------------------------
(* Every concluded job was told its end. *)

ToldEnd(r) == r \in hurt \/ said[r] \cap {"error", "done"} # {}

\* A worker acknowledges only what it has told.
Told ==
    /\ \A w \in Workers : stage[w] = "ack" => ToldEnd(doing[w])
    /\ \A r \in concluded : ToldEnd(r)

\* No step of a runner touches what the workers do or have told.
LEMMA RunnerKeepsWorkers ==
    ASSUME Typed, Restart \/ \E r \in Runs : Run(r) \/ GetLoses(r) \/ TimeOut(r) \/ BrokerFails(r)
    PROVE  /\ \A w \in Workers : doing'[w] = doing[w] /\ stage'[w] = stage[w]
           /\ said' = said /\ concluded' = concluded /\ hurt \subseteq hurt'
<1>0. \A w \in Workers, r \in Runs : w # r
  OBVIOUS
<1>1. CASE Restart
  BY <1>1 DEF Restart, history, Typed, Streams
<1>2. ASSUME NEW r \in Runs, Stop(r)
      PROVE  /\ \A w \in Workers : doing'[w] = doing[w] /\ stage'[w] = stage[w]
             /\ said' = said /\ concluded' = concluded
  BY <1>2 DEF Stop, Typed, Streams
<1>3. ASSUME NEW r \in Runs, Start(r)
      PROVE  \A w \in Workers : doing'[w] = doing[w] /\ stage'[w] = stage[w]
  BY <1>0, <1>3 DEF Start, GoTo, Typed, Streams
<1>4. ASSUME NEW r \in Runs, Call(r)
      PROVE  /\ \A w \in Workers : doing'[w] = doing[w] /\ stage'[w] = stage[w]
             /\ said' = said /\ concluded' = concluded /\ hurt' = hurt
  BY <1>0, <1>4 DEF Call, Advance, GoTo, Typed, Streams
<1>5. ASSUME NEW r \in Runs, Get(r) \/ GetLoses(r) PROVE UNCHANGED <<streams, said, concluded>> /\ hurt \subseteq hurt'
  BY <1>5 DEF Get, GetLoses, history
<1>6. ASSUME NEW r \in Runs, TimeOut(r) \/ BrokerFails(r) PROVE Stop(r) /\ hurt \subseteq hurt'
  BY <1>6 DEF TimeOut, BrokerFails
<1>7. ASSUME NEW r \in Runs,
             ChannelReady(r) \/ Connect(r) \/ DeclareJobs(r) \/ DeclareReply(r) \/ Publish(r)
      PROVE  UNCHANGED <<streams, history>>
  BY <1>7 DEF ChannelReady, Connect, DeclareJobs, DeclareReply, Publish
<1>8. ASSUME NEW r \in Runs, Start(r) PROVE UNCHANGED history
  BY <1>8 DEF Start
<1> QED BY <1>1, <1>2, <1>3, <1>4, <1>5, <1>6, <1>7, <1>8 DEF Run, streams, history

\* A worker's step touches no other worker, and takes nothing back it has said.
LEMMA WorkerKeepsOthers ==
    ASSUME Typed, NEW w \in Workers, StartWorker(w) \/ Work(w) \/ ReplyFails(w) \/ Die(w)
    PROVE  /\ \A v \in Workers \ {w} : doing'[v] = doing[v] /\ stage'[v] = stage[v]
           /\ \A r \in Runs : ToldEnd(r) => ToldEnd(r)'
<1> USE DEF Typed, Streams, GoTo
<1>1. ASSUME NEW r \in Runs, UNCHANGED <<said, hurt>> PROVE ToldEnd(r) => ToldEnd(r)'
  BY <1>1 DEF ToldEnd
<1>2. CASE StartWorker(w)
  BY <1>1, <1>2 DEF StartWorker, history
<1>3. CASE Take(w)
  BY <1>1, <1>3 DEF Take, history
<1>4. CASE Follow(w)
  <2>1. PICK y \in StreamRun(stage[w], streamed[w]) :
          /\ Advance(w, y)
          /\ GoTo(w, CASE y.to = "raise" -> "sorry" [] y.to = "over" -> "ack" [] OTHER -> y.to)
          /\ IF y.event = None THEN UNCHANGED <<reply, said>> ELSE Reply(doing[w], y.event)
    BY <1>4 DEF Follow
  <2>2. \A r \in Runs : said[r] \subseteq said'[r]
    BY <2>1 DEF Reply
  <2> QED BY <2>1, <2>2 DEF Advance, ToldEnd
<1>5. CASE Apologise(w)
  <2>1. PICK e \in {"error", "done"} : Reply(doing[w], e)
    BY <1>5 DEF Apologise
  <2>2. \A r \in Runs : said[r] \subseteq said'[r]
    BY <2>1 DEF Reply
  <2>3. \A v \in Workers \ {w} : stage'[v] = stage[v]
    BY <1>5 DEF Apologise
  <2> QED BY <1>5, <2>2, <2>3 DEF Apologise, ToldEnd
<1>6. CASE Ack(w)
  BY <1>1, <1>6 DEF Ack, Forget
<1>7. CASE ReplyFails(w)
  BY <1>7 DEF ReplyFails, ToldEnd
<1>8. CASE Die(w)
  BY <1>1, <1>8 DEF Die, Forget, history
<1> QED BY <1>2, <1>3, <1>4, <1>5, <1>6, <1>7, <1>8 DEF Work

\* A worker that is about to acknowledge has told the end of its run.
LEMMA AckIsTold ==
    ASSUME Typed, Told, NEW w \in Workers, StartWorker(w) \/ Work(w) \/ ReplyFails(w) \/ Die(w),
           stage'[w] = "ack"
    PROVE  /\ doing'[w] = doing[w] /\ doing[w] \in Runs /\ concluded' = concluded
           /\ \A r \in Runs : r = doing[w] => ToldEnd(r)'
<1> USE DEF Typed, Streams, GoTo
<1>1. CASE StartWorker(w)
  BY <1>1 DEF StartWorker
<1>2. CASE Take(w)
  BY <1>2 DEF Take
<1>3. CASE Follow(w)
  <2>1. PICK y \in StreamRun(stage[w], streamed[w]) :
          /\ Advance(w, y)
          /\ GoTo(w, CASE y.to = "raise" -> "sorry" [] y.to = "over" -> "ack" [] OTHER -> y.to)
          /\ IF y.event = None THEN UNCHANGED <<reply, said>> ELSE Reply(doing[w], y.event)
    BY <1>3 DEF Follow
  <2>2. y.to = "over"
    BY <2>1, StreamYields
  <2>3. y.event \in {"error", "done"} /\ stage[w] \notin {"down", "idle"}
    BY <2>1, <2>2, StreamYields
  <2>4. Reply(doing[w], y.event) /\ doing[w] \in Runs
    BY <2>1, <2>3 DEF Words
  <2>5. y.event \in said'[doing[w]]
    BY <2>3, <2>4, ReplyTyped DEF Words
  <2>6. doing' = doing /\ concluded' = concluded
    BY <2>1 DEF Advance
  <2> QED BY <2>3, <2>4, <2>5, <2>6 DEF ToldEnd
<1>4. CASE Apologise(w)
  <2>1. stage[w] = "bye" /\ doing[w] \in Runs
    BY <1>4 DEF Apologise
  <2>2. Reply(doing[w], "done") /\ doing' = doing /\ concluded' = concluded
    BY <1>4, <2>1 DEF Apologise
  <2>3. "done" \in said'[doing[w]]
    BY <2>1, <2>2, ReplyTyped DEF Words
  <2> QED BY <2>1, <2>2, <2>3 DEF ToldEnd
<1>5. CASE Ack(w)
  BY <1>5 DEF Ack
<1>6. CASE ReplyFails(w)
  BY <1>6 DEF ReplyFails, ToldEnd
<1>7. CASE Die(w)
  BY <1>7 DEF Die
<1> QED BY <1>1, <1>2, <1>3, <1>4, <1>5, <1>6, <1>7 DEF Work

\* Only an acknowledgement concludes.
LEMMA OnlyAckConcludes ==
    ASSUME NEW w \in Workers, StartWorker(w) \/ Work(w) \/ ReplyFails(w) \/ Die(w)
    PROVE  concluded' = concluded \/ (stage[w] = "ack" /\ concluded' = concluded \cup {doing[w]})
<1>1. Follow(w) => concluded' = concluded
  BY DEF Follow, Advance
<1> QED BY <1>1 DEF StartWorker, Work, Take, Apologise, Ack, ReplyFails, Die, history

LEMMA ToldStep ==
    ASSUME Typed, Typed', Told, [Next]_vars
    PROVE  Told'
<1>1. CASE UNCHANGED vars
  BY <1>1 DEF Told, ToldEnd, vars, streams, history
<1>2. CASE Restart \/ \E r \in Runs : Run(r) \/ GetLoses(r) \/ TimeOut(r) \/ BrokerFails(r)
  BY <1>2, RunnerKeepsWorkers DEF Told, ToldEnd
<1>3. ASSUME NEW w \in Workers, StartWorker(w) \/ Work(w) \/ ReplyFails(w) \/ Die(w)
      PROVE  Told'
  <2>0. \A r \in Runs : ToldEnd(r) => ToldEnd(r)'
    BY <1>3, WorkerKeepsOthers
  <2>1. ASSUME NEW v \in Workers, stage'[v] = "ack"
      PROVE  doing'[v] = doing[v] /\ doing[v] \in Runs /\ \A r \in Runs : r = doing[v] => ToldEnd(r)'
    <3>1. CASE v = w
      BY <1>3, <2>1, <3>1, AckIsTold
    <3>2. CASE v # w
      <4>1. stage[v] = "ack" /\ doing'[v] = doing[v]
        BY <1>3, <2>1, <3>2, WorkerKeepsOthers
      <4>2. doing[v] \in Runs /\ ToldEnd(doing[v])
        BY <4>1 DEF Told, Typed, Streams
      <4> QED BY <2>0, <4>1, <4>2
    <3> QED BY <3>1, <3>2
  <2>2. \A r \in concluded' : r \in Runs /\ ToldEnd(r)
    <3>1. stage[w] = "ack" => ToldEnd(doing[w])
      BY DEF Told
    <3> QED BY <1>3, <3>1, OnlyAckConcludes DEF Told, Typed
  <2> QED BY <2>0, <2>1, <2>2 DEF Told
<1> QED BY <1>1, <1>2, <1>3 DEF Next

\* A job leaves the broker for good only when its end was published
\* (ConcludedIsTold), however its handler was left.
THEOREM ToldTheorem == Spec => []ConcludedIsTold
<1>1. Init => Told
  BY DEF Init, Told, Streams
<1>2. Typed /\ Typed' /\ Told /\ [Next]_vars => Told'
  BY ToldStep
<1>3. Told => ConcludedIsTold
  BY DEF Told, ToldEnd, ConcludedIsTold
<1> QED BY <1>1, <1>2, <1>3, TypedAlways, PTL DEF Spec

-----------------------------------------------------------------------------
(* A job is in one place. *)

Unsent == {"idle", "declareReply", "publish", "channel", "connect", "declareJobs"}

Queue == ToSet(jobs)

\* JobInOnePlace is not inductive by itself: two workers never have one job,
\* and a job that was not published yet is nowhere.
OnePlace ==
    /\ JobInOnePlace
    /\ \A v, w \in Workers : doing[v] = doing[w] /\ doing[v] # None => v = w
    /\ \A r \in Runs : at[r] \in Unsent => r \notin Queue \cup concluded /\ \A w \in Workers : doing[w] # r

LEMMA Appended ==
    ASSUME NEW S, NEW q \in Seq(S), NEW x \in S
    PROVE  /\ ToSet(Append(q, x)) = ToSet(q) \cup {x}
           /\ IsInjective(q) /\ x \notin ToSet(q) => IsInjective(Append(q, x))
<1> DEFINE a == Append(q, x)
<1>1. Len(q) \in Nat /\ DOMAIN q = 1..Len(q) /\ \A i \in DOMAIN q : q[i] \in ToSet(q)
  BY LenProperties DEF ToSet
<1>2. /\ DOMAIN a = 1..(Len(q) + 1)
      /\ \A i \in 1..Len(q) : a[i] = q[i]
      /\ a[Len(q) + 1] = x
  BY AppendProperties, LenProperties
<1>3. ToSet(a) = ToSet(q) \cup {x}
  BY <1>1, <1>2 DEF ToSet
<1>4. ASSUME IsInjective(q), x \notin ToSet(q), NEW i \in DOMAIN a, NEW j \in DOMAIN a, a[i] = a[j]
      PROVE  i = j
  <2>1. CASE i \in 1..Len(q) /\ j \in 1..Len(q)
    BY <1>1, <1>2, <1>4, <2>1 DEF IsInjective
  <2>2. CASE i = Len(q) + 1 \/ j = Len(q) + 1
    BY <1>1, <1>2, <1>4, <2>2
  <2> QED BY <1>1, <1>2, <2>1, <2>2
<1> QED BY <1>3, <1>4 DEF IsInjective

LEMMA PutBack ==
    ASSUME NEW S, NEW q \in Seq(S), NEW x \in S
    PROVE  /\ ToSet(<<x>> \o q) = ToSet(q) \cup {x}
           /\ IsInjective(q) /\ x \notin ToSet(q) => IsInjective(<<x>> \o q)
<1> DEFINE b == <<x>> \o q
<1>1. Len(q) \in Nat /\ DOMAIN q = 1..Len(q) /\ \A i \in DOMAIN q : q[i] \in ToSet(q)
  BY LenProperties DEF ToSet
<1>2. /\ DOMAIN b = 1..(Len(q) + 1)
      /\ b[1] = x
      /\ \A i \in 2..(Len(q) + 1) : b[i] = q[i - 1]
  <2>1. <<x>> \in Seq(S) /\ Len(<<x>>) = 1 /\ <<x>>[1] = x
    OBVIOUS
  <2>2. b \in Seq(S) /\ Len(b) = 1 + Len(q)
        /\ \A i \in 1..(1 + Len(q)) : b[i] = IF i <= 1 THEN <<x>>[i] ELSE q[i - 1]
    BY <2>1, ConcatProperties
  <2> QED BY <1>1, <2>1, <2>2, LenProperties
<1>3. ToSet(b) = ToSet(q) \cup {x}
  <2>1. \A i \in DOMAIN b : b[i] \in ToSet(q) \cup {x}
    BY <1>1, <1>2
  <2>2. \A i \in DOMAIN q : i + 1 \in DOMAIN b /\ b[i + 1] = q[i]
    BY <1>1, <1>2
  <2>3. 1 \in DOMAIN b
    BY <1>1, <1>2
  <2>4. ToSet(b) \subseteq ToSet(q) \cup {x}
    BY <2>1 DEF ToSet
  <2>5. x \in ToSet(b)
    BY <1>2, <2>3 DEF ToSet
  <2>6. ToSet(q) \subseteq ToSet(b)
    BY <2>2 DEF ToSet
  <2> QED BY <2>4, <2>5, <2>6
<1>4. ASSUME IsInjective(q), x \notin ToSet(q), NEW i \in DOMAIN b, NEW j \in DOMAIN b, b[i] = b[j]
      PROVE  i = j
  <2>1. CASE i # 1 /\ j # 1
    <3>1. i - 1 \in DOMAIN q /\ j - 1 \in DOMAIN q /\ q[i - 1] = q[j - 1]
      BY <1>1, <1>2, <1>4, <2>1
    <3>2. i - 1 = j - 1
      BY <1>4, <3>1 DEF IsInjective
    <3> QED BY <1>1, <1>2, <3>2
  <2>2. CASE i = 1 \/ j = 1
    BY <1>1, <1>2, <1>4, <2>2
  <2> QED BY <2>1, <2>2
<1> QED BY <1>3, <1>4 DEF IsInjective

LEMMA Taken ==
    ASSUME NEW S, NEW q \in Seq(S), q # <<>>, IsInjective(q)
    PROVE  /\ Head(q) \in ToSet(q) /\ ToSet(Tail(q)) = ToSet(q) \ {Head(q)}
           /\ IsInjective(Tail(q))
<1> DEFINE t == Tail(q)
<1>1. Len(q) \in Nat \ {0} /\ DOMAIN q = 1..Len(q) /\ Head(q) = q[1]
  BY LenProperties, EmptySeq
<1>2. DOMAIN t = 1..(Len(q) - 1) /\ \A i \in DOMAIN t : t[i] = q[i + 1] /\ i + 1 \in DOMAIN q
  BY <1>1, HeadTailProperties, LenProperties
<1>3. \A i, j \in DOMAIN q : q[i] = q[j] => i = j
  BY DEF IsInjective
<1>4. \A i \in DOMAIN q : i # 1 => i - 1 \in DOMAIN t /\ t[i - 1] = q[i]
  BY <1>1, <1>2
<1>5. ToSet(t) = ToSet(q) \ {Head(q)}
  <2>1. \A i \in DOMAIN t : t[i] \in ToSet(q) \ {Head(q)}
    BY <1>1, <1>2, <1>3 DEF ToSet
  <2>2. \A i \in DOMAIN q : q[i] # Head(q) => \E j \in DOMAIN t : t[j] = q[i]
    BY <1>1, <1>4
  <2> QED BY <2>1, <2>2 DEF ToSet
<1>6. IsInjective(t)
  BY <1>1, <1>2, <1>3 DEF IsInjective
<1>7. Head(q) \in ToSet(q)
  <2>1. 1 \in DOMAIN q
    BY <1>1
  <2> QED BY <1>1, <2>1 DEF ToSet
<1> QED BY <1>5, <1>6, <1>7

LEMMA QueueTyped == Typed => None \notin Queue /\ Queue \subseteq Runs
<1>1. ASSUME Typed, NEW i \in DOMAIN jobs PROVE jobs[i] \in Runs
  BY <1>1, ElementOfSeq, LenProperties DEF Typed
<1> QED BY <1>1 DEF Queue, ToSet

\* A worker's step moves the run it works on, or none.
LEMMA WorkerOnePlace ==
    ASSUME Typed, OnePlace, NEW w \in Workers, StartWorker(w) \/ Work(w) \/ ReplyFails(w) \/ Die(w)
    PROVE  OnePlace'
<1> USE DEF Typed, Streams
<1>1. at' = at
  BY WorkerImplements
<1>2. CASE UNCHANGED <<jobs, doing, concluded>>
  BY <1>1, <1>2 DEF OnePlace, JobInOnePlace, Queue
<1>3. CASE Take(w)
  <2>1. /\ jobs # <<>> /\ jobs' = Tail(jobs) /\ doing' = [doing EXCEPT ![w] = Head(jobs)]
        /\ concluded' = concluded
    BY <1>3 DEF Take, history
  <2>2. IsInjective(jobs) /\ jobs \in Seq(Runs)
    BY DEF OnePlace, JobInOnePlace
  <2>3. Head(jobs) \in Queue /\ Queue' = Queue \ {Head(jobs)} /\ IsInjective(jobs')
    BY <2>1, <2>2, Taken DEF Queue
  <2>4. doing'[w] = Head(jobs) /\ \A v \in Workers \ {w} : doing'[v] = doing[v] /\ doing[v] # Head(jobs)
    BY <2>1, <2>3 DEF OnePlace, JobInOnePlace, Queue
  <2>5. Head(jobs) \notin concluded /\ \A r \in Runs : at[r] \in Unsent => r # Head(jobs)
    BY <2>3 DEF OnePlace, JobInOnePlace, Queue
  <2> QED BY <1>1, <2>1, <2>3, <2>4, <2>5 DEF OnePlace, JobInOnePlace, Queue
<1>4. CASE Ack(w)
  <2>1. doing[w] \in Runs
    BY <1>4 DEF Ack
  <2>2. /\ jobs' = jobs /\ concluded' = concluded \cup {doing[w]} /\ doing' = [doing EXCEPT ![w] = None]
    BY <1>4 DEF Ack, Forget, broker
  <2>3. doing[w] \notin Queue /\ \A v \in Workers \ {w} : doing[v] # doing[w]
    BY <2>1 DEF OnePlace, JobInOnePlace, Queue
  <2>4. None \notin Queue \cup concluded'
    BY <2>1, <2>2, QueueTyped
  <2>5. doing'[w] = None /\ \A v \in Workers \ {w} : doing'[v] = doing[v]
    BY <2>2
  <2>6. \A r \in Runs : at[r] \in Unsent => r # doing[w]
    BY DEF OnePlace
  <2> QED BY <1>1, <2>2, <2>3, <2>4, <2>5, <2>6 DEF OnePlace, JobInOnePlace, Queue
<1>5. CASE Die(w)
  <2>1. concluded' = concluded /\ doing' = [doing EXCEPT ![w] = None]
    BY <1>5 DEF Die, Forget, history
  <2>2. doing'[w] = None /\ \A v \in Workers \ {w} : doing'[v] = doing[v]
    BY <2>1
  <2>3. None \notin Queue \cup concluded
    BY QueueTyped
  <2>4. CASE doing[w] = None
    <3>1. jobs' = jobs /\ doing' = doing
      BY <1>5, <2>1, <2>4 DEF Die
    <3> QED BY <1>1, <2>1, <3>1 DEF OnePlace, JobInOnePlace, Queue
  <2>5. CASE doing[w] # None
    <3>1. jobs' = <<doing[w]>> \o jobs /\ doing[w] \in Runs
      BY <1>5, <2>5 DEF Die
    <3>2. doing[w] \notin Queue \cup concluded /\ \A v \in Workers \ {w} : doing[v] # doing[w]
      BY <2>5 DEF OnePlace, JobInOnePlace, Queue
    <3>3. Queue' = Queue \cup {doing[w]} /\ IsInjective(jobs')
      BY <3>1, <3>2, PutBack DEF OnePlace, JobInOnePlace, Queue
    <3>4. \A r \in Runs : at[r] \in Unsent => r # doing[w]
      BY DEF OnePlace
    <3>5. JobInOnePlace'
      BY <2>1, <2>2, <2>3, <2>5, <3>2, <3>3 DEF OnePlace, JobInOnePlace, Queue
    <3> QED BY <1>1, <2>1, <2>2, <3>2, <3>3, <3>4, <3>5 DEF OnePlace, JobInOnePlace
  <2> QED BY <2>4, <2>5
<1>6. Follow(w) => UNCHANGED <<jobs, doing, concluded>>
  BY DEF Follow, Advance
<1>7. StartWorker(w) \/ Apologise(w) \/ ReplyFails(w) => UNCHANGED <<jobs, doing, concluded>>
  BY DEF StartWorker, Apologise, ReplyFails, broker, history
<1> QED BY <1>2, <1>3, <1>4, <1>5, <1>6, <1>7 DEF Work

\* A runner adds its own job to the queue, once, when it publishes.
LEMMA RunnerOnePlace ==
    ASSUME Typed, OnePlace, NEW r \in Runs,
           concluded' = concluded, \A w \in Workers : doing'[w] = doing[w],
           \A x \in Runs \ {r} : at'[x] \in Unsent => at[x] \in Unsent,
           \/ jobs' = jobs /\ (at'[r] \in Unsent => at[r] \in Unsent)
           \/ jobs' = Append(jobs, r) /\ at[r] \in Unsent /\ at'[r] \notin Unsent
    PROVE  OnePlace'
<1>1. CASE jobs' = jobs /\ (at'[r] \in Unsent => at[r] \in Unsent)
  BY <1>1 DEF OnePlace, JobInOnePlace, Queue
<1>2. CASE jobs' = Append(jobs, r) /\ at[r] \in Unsent /\ at'[r] \notin Unsent
  <2>1. r \notin Queue \cup concluded /\ \A w \in Workers : doing[w] # r
    BY <1>2 DEF OnePlace
  <2>2. Queue' = Queue \cup {r} /\ IsInjective(jobs')
    BY <1>2, <2>1, Appended DEF OnePlace, JobInOnePlace, Queue, Typed
  <2> QED BY <1>2, <2>1, <2>2 DEF OnePlace, JobInOnePlace, Queue
<1> QED BY <1>1, <1>2

\* What a runner's step does to the queue and to the places of the runs.
LEMMA RunnerQueues ==
    ASSUME Typed, NEW r \in Runs, Run(r) \/ GetLoses(r) \/ TimeOut(r) \/ BrokerFails(r)
    PROVE  /\ \A x \in Runs \ {r} : at'[x] = at[x]
           /\ \/ jobs' = jobs /\ (at'[r] \in Unsent => at[r] \in Unsent)
              \/ jobs' = Append(jobs, r) /\ at[r] \in Unsent /\ at'[r] \notin Unsent
<1> USE DEF Typed, Unsent, Active, Opening
<1>1. CASE Start(r)
  BY <1>1 DEF Start, Move, broker
<1>2. CASE ChannelReady(r)
  BY <1>2 DEF ChannelReady, Move, broker
<1>3. CASE Connect(r)
  BY <1>3 DEF Connect, Move, broker
<1>4. CASE DeclareJobs(r)
  BY <1>4 DEF DeclareJobs, Move
<1>5. CASE DeclareReply(r)
  BY <1>5 DEF DeclareReply, Move
<1>6. CASE Publish(r)
  BY <1>6 DEF Publish, Queued, Move
<1>7. CASE Get(r)
  <2>1. at[r] = "poll" /\ jobs' = jobs /\ \E a \in {"refused", "ended", "empty", "poll"} : Move(r, a)
    BY <1>7 DEF Get, Pending
  <2> QED BY <2>1 DEF Move
<1>8. CASE Call(r)
  <2>1. at[r] = "direct" /\ jobs' = jobs /\ \E a \in {"ended", "error", "raised", "direct"} : Move(r, a)
    BY <1>8 DEF Call, Advance
  <2> QED BY <2>1 DEF Move
<1>9. CASE GetLoses(r)
  BY <1>9 DEF GetLoses, runner
<1>10. ASSUME NEW a \in Failed, Move(r, a), Stop(r)
       PROVE  /\ \A x \in Runs \ {r} : at'[x] = at[x]
              /\ at'[r] \notin Unsent
              /\ jobs' = jobs \/ (jobs' = Append(jobs, r) /\ at[r] \in Unsent)
  BY <1>10 DEF Move, Stop, Failed, Queued
<1>11. CASE TimeOut(r)
  BY <1>10, <1>11 DEF TimeOut, Failed
<1>12. CASE BrokerFails(r)
  <2>1. \E a \in Failed : Move(r, a) /\ Stop(r)
    BY <1>12 DEF BrokerFails, Failed
  <2> QED BY <1>10, <2>1
<1> QED BY <1>1, <1>2, <1>3, <1>4, <1>5, <1>6, <1>7, <1>8, <1>9, <1>11, <1>12 DEF Run

LEMMA OnePlaceStep ==
    ASSUME Typed, OnePlace, [Next]_vars
    PROVE  OnePlace'
<1>1. CASE UNCHANGED vars
  BY <1>1 DEF OnePlace, JobInOnePlace, Queue, vars, runner, broker, streams, history
<1>2. ASSUME NEW r \in Runs, Run(r) \/ GetLoses(r) \/ TimeOut(r) \/ BrokerFails(r) PROVE OnePlace'
  BY <1>2, RunnerQueues, RunnerKeepsWorkers, RunnerOnePlace
<1>3. ASSUME NEW w \in Workers, StartWorker(w) \/ Work(w) \/ ReplyFails(w) \/ Die(w) PROVE OnePlace'
  BY <1>3, WorkerOnePlace
<1>4. CASE Restart
  <2>1. jobs' = jobs /\ concluded' = concluded /\ \A w \in Workers : doing'[w] = doing[w]
    BY <1>4 DEF Restart, history
  <2>2. \A r \in Runs : at'[r] \in Unsent => at[r] \in Unsent
    BY <1>4 DEF Restart, Typed, Unsent
  <2> QED BY <2>1, <2>2 DEF OnePlace, JobInOnePlace, Queue
<1> QED BY <1>1, <1>2, <1>3, <1>4 DEF Next

LEMMA OnePlaceInit == ASSUME Init PROVE OnePlace
<1>1. ToSet(<<>>) = {} /\ IsInjective(<<>>)
  BY DEF ToSet, IsInjective
<1> QED BY <1>1 DEF Init, OnePlace, JobInOnePlace, Queue, Streams

\* For any number of workers, deaths and restarts a job is queued once, in the
\* hands of one worker, or concluded (JobInOnePlace).
THEOREM OnePlaceTheorem == Spec => []JobInOnePlace
<1>1. Init => OnePlace
  BY OnePlaceInit
<1>2. Typed /\ OnePlace /\ [Next]_vars => OnePlace'
  BY OnePlaceStep
<1>3. OnePlace => JobInOnePlace
  BY DEF OnePlace
<1> QED BY <1>1, <1>2, <1>3, TypedAlways, PTL DEF Spec

-----------------------------------------------------------------------------
(* The verdict of the runner is the worker's. *)

Waiting(r, e) == \E i \in DOMAIN reply[r] : reply[r][i] = e

\* What waits in a reply queue was said, and unless something was lost a done
\* has an answer or an error before it.
Sound(r) == reply[r] # None =>
    /\ \A e \in {"message", "error", "done"} : Waiting(r, e) => e \in said[r]
    /\ \/ r \in hurt \/ got[r]
       \/ \A i \in DOMAIN reply[r] : reply[r][i] = "done" =>
            \E j \in DOMAIN reply[r] : j < i /\ reply[r][j] \in {"message", "error"}

\* A worker that may say done has said the answer or the error.
Backed(w, r) == doing[w] = r /\ reply[r] # None /\ r \notin hurt =>
    /\ stage[w] = "answered" => got[r] \/ Waiting(r, "message")
    /\ stage[w] = "bye" => Waiting(r, "error")

Verdict(r) ==
    /\ at[r] = "direct" => transport = "http"
    /\ transport = "rabbitmq" =>
         /\ got[r] => "message" \in said[r]
         /\ at[r] = "ended"   => {"message", "done"} \subseteq said[r]
         /\ at[r] = "refused" => "error" \in said[r]
         /\ at[r] = "empty"   => r \in hurt

Heard == \A r \in Runs : Sound(r) /\ Verdict(r) /\ \A w \in Workers : Backed(w, r)

Verdicts == {"direct", "ended", "refused", "empty"}

LEMMA HeardInit == ASSUME Init PROVE Heard
  BY DEF Init, Heard, Sound, Verdict, Backed, Streams

\* A reply that is put into a queue.
LEMMA ReplyWaits ==
    ASSUME Typed, NEW r \in Runs, NEW e \in Words, Reply(r, e), reply[r] # None
    PROVE  /\ Len(reply[r]) \in Nat /\ DOMAIN reply[r] = 1..Len(reply[r])
           /\ DOMAIN reply'[r] = 1..(Len(reply[r]) + 1)
           /\ \A i \in DOMAIN reply[r] : reply'[r][i] = reply[r][i]
           /\ reply'[r][Len(reply[r]) + 1] = e
<1>1. reply[r] \in Seq(Words)
  BY DEF Typed, Replies
<1>2. reply'[r] = Append(reply[r], e)
  BY DEF Reply, Typed
<1> QED BY <1>1, <1>2, AppendProperties, LenProperties

LEMMA ReplySound ==
    ASSUME Typed, NEW r \in Runs, NEW e \in Words, Reply(r, e), got' = got, hurt' = hurt, Sound(r),
           reply[r] # None,
           e = "done" => r \in hurt \/ got[r] \/ Waiting(r, "message") \/ Waiting(r, "error")
    PROVE  /\ Sound(r)' /\ Waiting(r, e)' /\ \A d \in Words : Waiting(r, d) => Waiting(r, d)'
<1> DEFINE n == Len(reply[r])
<1>1. /\ n \in Nat /\ DOMAIN reply[r] = 1..n /\ DOMAIN reply'[r] = 1..(n + 1)
      /\ \A i \in 1..n : reply'[r][i] = reply[r][i]
      /\ reply'[r][n + 1] = e
  BY ReplyWaits
<1> HIDE DEF n
<1>2. Waiting(r, e)' /\ \A d \in Words : Waiting(r, d) => Waiting(r, d)'
  BY <1>1 DEF Waiting
<1>3. \A d : Waiting(r, d)' => d = e \/ Waiting(r, d)
  BY <1>1 DEF Waiting
<1>4. /\ said[r] \subseteq said'[r]
      /\ e \in {"message", "error", "done"} => e \in said'[r]
  BY ReplyTyped
<1>5. \A d \in {"message", "error", "done"} : Waiting(r, d)' => d \in said'[r]
  BY <1>3, <1>4 DEF Sound
<1>6. ASSUME ~(r \in hurt \/ got[r]), NEW i \in DOMAIN reply'[r], reply'[r][i] = "done"
      PROVE  \E j \in DOMAIN reply'[r] : j < i /\ reply'[r][j] \in {"message", "error"}
  <2>1. CASE i \in 1..n
    <3>1. PICK j \in 1..n : j < i /\ reply[r][j] \in {"message", "error"}
      BY <1>1, <1>6, <2>1 DEF Sound
    <3> QED BY <1>1, <3>1
  <2>2. CASE i = n + 1
    <3>1. Waiting(r, "message") \/ Waiting(r, "error")
      BY <1>1, <1>6, <2>2
    <3>2. PICK j \in 1..n : reply[r][j] \in {"message", "error"}
      BY <1>1, <3>1 DEF Waiting
    <3>3. j \in DOMAIN reply'[r] /\ j < i /\ reply'[r][j] = reply[r][j]
      BY <1>1, <2>2, <3>2
    <3> QED BY <3>2, <3>3
  <2> QED BY <1>1, <1>6, <2>1, <2>2
<1> QED BY <1>2, <1>5, <1>6 DEF Sound

\* A worker says one event.
LEMMA SayHeard ==
    ASSUME Typed, Heard, NEW w \in Workers, NEW e \in Words, NEW st \in Stages,
           doing[w] \in Runs, Reply(doing[w], e), stage' = [stage EXCEPT ![w] = st],
           UNCHANGED <<at, got, transport, doing, hurt>>,
           e = "done" => stage[w] \in {"answered", "bye"},
           st = "answered" => e = "message", st = "bye" => e = "error"
    PROVE  Heard'
<1> DEFINE r == doing[w]
<1>0. r \in Runs /\ Reply(r, e) /\ \A v \in Workers : stage'[v] = IF v = w THEN st ELSE stage[v]
  BY DEF Typed, Streams
<1>1. \A x \in Runs : said[x] \subseteq said'[x] /\ (reply'[x] = None <=> reply[x] = None)
  BY <1>0, ReplyTyped
<1>2. \A x \in Runs : Verdict(x)'
  BY <1>1 DEF Heard, Verdict
<1>3. ASSUME NEW x \in Runs, x # r PROVE reply'[x] = reply[x] /\ said'[x] = said[x]
  BY <1>0, <1>3 DEF Reply, Typed
<1>4. ASSUME NEW x \in Runs, x # r PROVE Sound(x)' /\ \A v \in Workers : Backed(v, x)'
  <2>1. \A v \in Workers : doing'[v] = x => v # w
    BY <1>4
  <2> QED BY <1>0, <1>3, <1>4, <2>1 DEF Heard, Sound, Backed, Waiting
<1>5. CASE reply[r] = None
  BY <1>0, <1>1, <1>2, <1>4, <1>5 DEF Heard, Sound, Backed
<1>6. CASE reply[r] # None
  <2>1. e = "done" => r \in hurt \/ got[r] \/ Waiting(r, "message") \/ Waiting(r, "error")
    BY <1>0, <1>6 DEF Heard, Backed
  <2>2. Sound(r)
    BY <1>0 DEF Heard
  <2>3. ASSUME NEW x \in Runs, x = r
        PROVE  /\ Sound(x)' /\ Waiting(x, e)' /\ \A d \in Words : Waiting(x, d) => Waiting(x, d)'
    BY <1>0, <1>6, <2>1, <2>2, <2>3, ReplySound
  <2>4. ASSUME NEW x \in Runs, x = r, NEW v \in Workers PROVE Backed(v, x)'
    <3>1. "message" \in Words /\ "error" \in Words
      BY DEF Words
    <3>2. CASE v = w
      BY <1>0, <2>3, <2>4, <3>2 DEF Backed
    <3>3. CASE v # w
      BY <1>0, <1>6, <2>3, <2>4, <3>1, <3>3 DEF Heard, Backed
    <3> QED BY <3>2, <3>3
  <2> QED BY <1>2, <1>4, <2>3, <2>4 DEF Heard
<1> QED BY <1>5, <1>6

\* A worker's step that says nothing, and leaves it where it may not say done.
LEMMA SilentHeard ==
    ASSUME Typed, Heard, NEW w \in Workers, UNCHANGED <<at, got, transport, reply, said>>,
           hurt \subseteq hurt', stage'[w] \notin {"answered", "bye"},
           \A v \in Workers \ {w} : doing'[v] = doing[v] /\ stage'[v] = stage[v]
    PROVE  Heard'
<1>1. \A r \in Runs : Sound(r)' /\ Verdict(r)'
  BY DEF Heard, Sound, Verdict, Waiting
<1>2. ASSUME NEW r \in Runs, NEW v \in Workers PROVE Backed(v, r)'
  <2>1. CASE v = w
    BY <2>1 DEF Backed
  <2>2. CASE v # w
    BY <2>2 DEF Heard, Backed, Waiting
  <2> QED BY <2>1, <2>2
<1> QED BY <1>1, <1>2 DEF Heard

LEMMA WorkerHeard ==
    ASSUME Typed, Heard, NEW w \in Workers, StartWorker(w) \/ Work(w) \/ ReplyFails(w) \/ Die(w)
    PROVE  Heard'
<1>0. /\ at' = at /\ got' = got
      /\ \A v \in Workers \ {w} : doing'[v] = doing[v] /\ stage'[v] = stage[v]
  BY WorkerImplements, WorkerKeepsOthers
<1>1. CASE StartWorker(w) \/ Take(w) \/ Ack(w) \/ ReplyFails(w) \/ Die(w)
  <2>1. UNCHANGED <<transport, reply, said>> /\ hurt \subseteq hurt'
    BY <1>1 DEF StartWorker, Take, Ack, ReplyFails, Die, runner, broker, history
  <2>2. stage'[w] \notin {"answered", "bye"}
    BY <1>1 DEF StartWorker, Take, Ack, ReplyFails, Die, GoTo, Typed, Streams
  <2> QED BY <1>0, <2>1, <2>2, SilentHeard
<1>2. CASE Apologise(w)
  <2>1. /\ doing[w] \in Runs /\ UNCHANGED <<transport, doing, hurt>>
    BY <1>2 DEF Apologise, runner, Typed, Streams
  <2>2. \/ Reply(doing[w], "error") /\ stage' = [stage EXCEPT ![w] = "bye"]
        \/ stage[w] = "bye" /\ Reply(doing[w], "done") /\ stage' = [stage EXCEPT ![w] = "ack"]
    BY <1>2 DEF Apologise, GoTo
  <2>3. {"error", "done"} \subseteq Words /\ {"bye", "ack"} \subseteq Stages
    BY DEF Words, Stages
  <2> QED BY <1>0, <2>1, <2>2, <2>3, SayHeard
<1>3. CASE Follow(w)
  <2>1. PICK y \in StreamRun(stage[w], streamed[w]) :
          /\ Advance(w, y)
          /\ GoTo(w, CASE y.to = "raise" -> "sorry" [] y.to = "over" -> "ack" [] OTHER -> y.to)
          /\ IF y.event = None THEN UNCHANGED <<reply, said>> ELSE Reply(doing[w], y.event)
    BY <1>3 DEF Follow
  <2>2. PICK st \in {"sorry", "ack", "open", "stream", "answered"} :
          stage' = [stage EXCEPT ![w] = st] /\ (st = "answered" => y.to = "answered")
    BY <2>1, StreamYields DEF GoTo
  <2>3. UNCHANGED <<transport, doing, hurt>>
    BY <2>1 DEF Advance
  <2>4. CASE y.event = None
    <3>1. stage'[w] \notin {"answered", "bye"}
      BY <2>2, <2>4, StreamYields DEF Typed, Streams, Words
    <3> QED BY <1>0, <2>1, <2>3, <2>4, <3>1, SilentHeard
  <2>5. CASE y.event # None
    <3>1. y.event \in Words /\ (y.event = "done" => stage[w] = "answered") /\ stage[w] \notin {"down", "idle"}
      BY <2>5, StreamYields DEF Words
    <3>2. doing[w] \in Runs
      BY <3>1 DEF Typed, Streams
    <3>3. st \in Stages /\ st # "bye" /\ (st = "answered" => y.event = "message")
      BY <2>2, StreamYields DEF Stages
    <3> QED BY <1>0, <2>1, <2>2, <2>3, <2>5, <3>1, <3>2, <3>3, SayHeard
  <2> QED BY <2>4, <2>5
<1> QED BY <1>1, <1>2, <1>3 DEF Work

\* A runner's step that leaves the replies alone or drops its own, and reaches
\* no verdict.
LEMMA RunnerRests ==
    ASSUME Typed, Heard, NEW r \in Runs,
           said' = said, hurt \subseteq hurt', transport' = transport, got' = got,
           \A x \in Runs \ {r} : reply'[x] = reply[x] /\ at'[x] = at[x],
           reply'[r] \in {reply[r], None},
           at'[r] = at[r] \/ at'[r] \notin Verdicts \/ (at'[r] = "direct" /\ transport = "http"),
           \A w \in Workers : doing'[w] = doing[w] /\ stage'[w] = stage[w]
    PROVE  Heard'
<1>1. ASSUME NEW x \in Runs PROVE Sound(x)'
  <2>1. reply'[x] \in {reply[x], None}
    OBVIOUS
  <2> QED BY <2>1 DEF Heard, Sound, Waiting
<1>2. ASSUME NEW x \in Runs PROVE Verdict(x)'
  BY DEF Heard, Verdict, Verdicts
<1>3. ASSUME NEW x \in Runs, NEW w \in Workers PROVE Backed(w, x)'
  <2>1. reply'[x] \in {reply[x], None}
    OBVIOUS
  <2> QED BY <2>1 DEF Heard, Backed, Waiting
<1> QED BY <1>1, <1>2, <1>3 DEF Heard

LEMMA TailWaits ==
    ASSUME Typed, NEW r \in Runs, Pending(r), reply'[r] = Tail(reply[r])
    PROVE  /\ Head(reply[r]) = reply[r][1] /\ 1 \in DOMAIN reply[r]
           /\ \A i \in DOMAIN reply'[r] : i + 1 \in DOMAIN reply[r] /\ reply'[r][i] = reply[r][i + 1]
           /\ \A i \in DOMAIN reply[r] : i # 1 => i - 1 \in DOMAIN reply'[r] /\ reply'[r][i - 1] = reply[r][i]
           /\ DOMAIN reply[r] \subseteq Nat \ {0} /\ DOMAIN reply'[r] \subseteq Nat \ {0}
<1>1. reply[r] \in Seq(Words) /\ reply[r] # <<>>
  BY PolledReply DEF Pending
<1>2. Len(reply[r]) \in Nat \ {0} /\ DOMAIN reply[r] = 1..Len(reply[r])
  BY <1>1, LenProperties, EmptySeq
<1>3. /\ DOMAIN reply'[r] = 1..(Len(reply[r]) - 1)
      /\ \A i \in 1..(Len(reply[r]) - 1) : reply'[r][i] = reply[r][i + 1]
  BY <1>1, <1>2, HeadTailProperties, LenProperties
<1>4. Head(reply[r]) = reply[r][1] /\ 1 \in DOMAIN reply[r]
  BY <1>1, <1>2
<1>5. \A i \in DOMAIN reply'[r] : i + 1 \in DOMAIN reply[r] /\ reply'[r][i] = reply[r][i + 1]
  BY <1>2, <1>3
<1>6. ASSUME NEW i \in DOMAIN reply[r], i # 1
      PROVE  i - 1 \in DOMAIN reply'[r] /\ reply'[r][i - 1] = reply[r][i]
  <2>1. i - 1 \in 1..(Len(reply[r]) - 1) /\ (i - 1) + 1 = i
    BY <1>2, <1>6
  <2> QED BY <1>3, <2>1
<1>7. DOMAIN reply[r] \subseteq Nat \ {0} /\ DOMAIN reply'[r] \subseteq Nat \ {0}
  BY <1>2, <1>3
<1> QED BY <1>4, <1>5, <1>6, <1>7

LEMMA GetHeard ==
    ASSUME Typed, Heard, NEW r \in Runs, Get(r)
    PROVE  Heard'
<1> DEFINE e == Head(reply[r])
<1>0. /\ Pending(r) /\ UNCHANGED <<transport, doing, stage, said, hurt>> /\ e \in Words /\ reply[r] # None
      /\ e = reply[r][1] /\ 1 \in DOMAIN reply[r] /\ at[r] = "poll"
  <2>1. reply[r] \in Seq(Words) /\ reply[r] # <<>>
    BY PolledReply DEF Get, Pending
  <2>2. 1 \in DOMAIN reply[r] /\ reply[r] # None
    BY <2>1, LenProperties, EmptySeq
  <2> QED BY <2>1, <2>2, PolledReply DEF Get, Pending, streams, history
<1>1. /\ \A x \in Runs \ {r} : reply'[x] = reply[x] /\ at'[x] = at[x] /\ got'[x] = got[x]
      /\ got'[r] = (got[r] \/ e = "message")
      /\ reply'[r] = IF e \in {"error", "done"} THEN None ELSE Tail(reply[r])
  BY DEF Get, Move, Typed
<1>2. e # "step" => e \in said[r]
  BY <1>0 DEF Heard, Sound, Waiting, Words
<1>3. ASSUME NEW x \in Runs \ {r} PROVE Sound(x)' /\ Verdict(x)' /\ \A w \in Workers : Backed(w, x)'
  BY <1>0, <1>1 DEF Heard, Sound, Verdict, Backed, Waiting
<1>4. Verdict(r)'
  <2>1. \/ e = "error" /\ at'[r] = "refused"
        \/ e = "done" /\ got[r] /\ at'[r] = "ended"
        \/ e = "done" /\ ~got[r] /\ at'[r] = "empty"
        \/ at'[r] = "poll"
    BY <1>0 DEF Get, Move, Typed
  <2>2. e = "done" /\ ~got[r] => r \in hurt
    <3>1. ASSUME e = "done", ~got[r], r \notin hurt PROVE FALSE
      <4>1. \E j \in DOMAIN reply[r] : j < 1
        BY <1>0, <3>1 DEF Heard, Sound
      <4>2. DOMAIN reply[r] \subseteq Nat \ {0}
        BY <1>0, PolledReply, LenProperties
      <4> QED BY <4>1, <4>2
    <3> QED BY <3>1
  <2> QED BY <1>0, <1>1, <1>2, <2>1, <2>2 DEF Heard, Verdict, Words
<1>5. CASE e \in {"error", "done"}
  <2>1. Sound(r)' /\ \A w \in Workers : Backed(w, r)'
    BY <1>1, <1>5 DEF Sound, Backed
  <2> QED BY <1>3, <1>4, <2>1 DEF Heard
<1>6. CASE e \in {"message", "step"}
  <2>0. /\ reply'[r] = Tail(reply[r])
        /\ \A i \in DOMAIN reply'[r] : i + 1 \in DOMAIN reply[r] /\ reply'[r][i] = reply[r][i + 1]
        /\ \A i \in DOMAIN reply[r] : i # 1 => i - 1 \in DOMAIN reply'[r] /\ reply'[r][i - 1] = reply[r][i]
        /\ DOMAIN reply[r] \subseteq Nat \ {0} /\ DOMAIN reply'[r] \subseteq Nat \ {0}
    BY <1>0, <1>1, <1>6, TailWaits
  <2>1. /\ \A d : Waiting(r, d)' => Waiting(r, d)
        /\ \A d : Waiting(r, d) /\ d # e => Waiting(r, d)'
    BY ZenonT(30), <1>0, <2>0 DEF Waiting
  <2>2. ASSUME ~(r \in hurt \/ got'[r]), NEW i \in DOMAIN reply'[r], reply'[r][i] = "done"
        PROVE  \E j \in DOMAIN reply'[r] : j < i /\ reply'[r][j] \in {"message", "error"}
    <3>1. PICK j \in DOMAIN reply[r] : j < i + 1 /\ reply[r][j] \in {"message", "error"}
      BY <1>0, <1>1, <2>0, <2>2 DEF Heard, Sound
    <3>2. j # 1
      BY <1>0, <1>1, <1>6, <2>2, <3>1
    <3>3. j - 1 \in DOMAIN reply'[r] /\ j - 1 < i /\ reply'[r][j - 1] = reply[r][j]
      BY <2>0, <3>1, <3>2
    <3> QED BY <3>1, <3>3
  <2>3. Sound(r)'
    <3>1. \A d \in {"message", "error", "done"} : Waiting(r, d)' => d \in said'[r]
      BY <1>0, <2>1 DEF Heard, Sound
    <3> QED BY <1>0, <2>2, <3>1 DEF Sound
  <2>4. \A w \in Workers : Backed(w, r)'
    BY <1>0, <1>1, <1>6, <2>1 DEF Heard, Backed
  <2> QED BY <1>3, <1>4, <2>3, <2>4 DEF Heard
<1> QED BY <1>0, <1>5, <1>6 DEF Words

LEMMA RunnerHeard ==
    ASSUME Typed, OnePlace, Heard, NEW r \in Runs, Run(r) \/ GetLoses(r) \/ TimeOut(r) \/ BrokerFails(r)
    PROVE  Heard'
<1>0. \A w \in Workers : doing'[w] = doing[w] /\ stage'[w] = stage[w]
  BY RunnerKeepsWorkers
<1>1. ASSUME NEW a \in Places, Move(r, a), got' = got, said' = said, hurt \subseteq hurt', transport' = transport,
             reply' = reply \/ reply' = [reply EXCEPT ![r] = None],
             a \notin Verdicts \/ (a = "direct" /\ transport = "http")
      PROVE  Heard'
  <2>1. /\ \A x \in Runs \ {r} : reply'[x] = reply[x] /\ at'[x] = at[x]
        /\ reply'[r] \in {reply[r], None} /\ at'[r] = a
    BY <1>1 DEF Move, Typed
  <2> QED BY <1>0, <1>1, <2>1, RunnerRests
<1>2. CASE Start(r)
  <2>1. /\ UNCHANGED <<transport, got, reply, said, hurt>>
        /\ \E a \in {"error", "channel", "direct"} : Move(r, a) /\ (a = "direct" => transport = "http")
    BY <1>2 DEF Start, broker, history
  <2> QED BY <2>1, <1>1 DEF Places, Failed, Active, Verdicts
<1>3. CASE ChannelReady(r) \/ Connect(r) \/ DeclareJobs(r) \/ Publish(r)
  <2>1. /\ UNCHANGED <<transport, got, reply, said, hurt>>
        /\ \E a \in {"declareReply", "connect", "declareJobs", "poll"} : Move(r, a)
    BY <1>3 DEF ChannelReady, Connect, DeclareJobs, Publish, broker, history
  <2> QED BY <2>1, <1>1 DEF Places, Active, Opening, Verdicts
<1>4. CASE DeclareReply(r)
  <2>1. /\ UNCHANGED <<transport, got, said, hurt>> /\ at[r] = "declareReply" /\ Move(r, "publish")
        /\ reply' = [reply EXCEPT ![r] = <<>>]
    BY <1>4 DEF DeclareReply, history
  <2>2. \A w \in Workers : doing[w] # r
    BY <2>1 DEF OnePlace, Unsent
  <2>3. /\ at'[r] = "publish" /\ DOMAIN reply'[r] = {}
        /\ \A x \in Runs \ {r} : at'[x] = at[x] /\ reply'[x] = reply[x]
    BY <2>1 DEF Move, Typed
  <2>4. Sound(r)' /\ Verdict(r)' /\ \A w \in Workers : Backed(w, r)'
    BY <1>0, <2>1, <2>2, <2>3 DEF Heard, Sound, Verdict, Backed, Waiting
  <2>5. ASSUME NEW x \in Runs \ {r} PROVE Sound(x)' /\ Verdict(x)' /\ \A w \in Workers : Backed(w, x)'
    BY <1>0, <2>1, <2>3 DEF Heard, Sound, Verdict, Backed, Waiting
  <2> QED BY <2>4, <2>5 DEF Heard
<1>5. CASE Get(r)
  BY <1>5, GetHeard
<1>6. CASE Call(r)
  <2>1. PICK y \in StreamRun(stage[r], streamed[r]) :
          /\ at[r] = "direct" /\ Advance(r, y) /\ UNCHANGED <<reply, said>>
          /\ got' = [got EXCEPT ![r] = @ \/ y.event = "message"]
    BY <1>6 DEF Call
  <2>2. transport = "http" /\ transport' = transport /\ hurt' = hurt
    BY <2>1 DEF Heard, Verdict, Advance
  <2>3. \A x \in Runs : Verdict(x)'
    BY <2>2 DEF Verdict
  <2>4. \A x \in Runs : got[x] => got'[x]
    BY <2>1 DEF Typed
  <2>5. ASSUME NEW x \in Runs PROVE Sound(x)' /\ \A w \in Workers : Backed(w, x)'
    BY <1>0, <2>1, <2>2, <2>4 DEF Heard, Sound, Backed, Waiting
  <2> QED BY <2>3, <2>5 DEF Heard
<1>7. CASE GetLoses(r)
  <2>1. /\ Pending(r) /\ UNCHANGED <<at, got, transport, said>> /\ hurt' = hurt \cup {r}
        /\ reply' = [reply EXCEPT ![r] = Tail(@)]
    BY <1>7 DEF GetLoses, runner
  <2>2. reply'[r] = Tail(reply[r]) /\ \A x \in Runs \ {r} : reply'[x] = reply[x]
    BY <2>1 DEF Typed
  <2>3. \A d : Waiting(r, d)' => Waiting(r, d)
    BY <2>1, <2>2, TailWaits DEF Waiting
  <2>4. reply[r] # None
    BY <2>1 DEF Pending, Typed
  <2>5. Sound(r)' /\ Verdict(r)' /\ \A w \in Workers : Backed(w, r)'
    BY <2>1, <2>3, <2>4 DEF Heard, Sound, Verdict, Backed
  <2>6. ASSUME NEW x \in Runs \ {r} PROVE Sound(x)' /\ Verdict(x)' /\ \A w \in Workers : Backed(w, x)'
    BY <1>0, <2>1, <2>2 DEF Heard, Sound, Verdict, Backed, Waiting
  <2> QED BY <2>5, <2>6 DEF Heard
<1>8. CASE TimeOut(r)
  <2>1. Move(r, "error") /\ Stop(r) /\ hurt' = hurt
    BY <1>8 DEF TimeOut
  <2> QED BY <2>1, <1>1 DEF Stop, Places, Failed, Verdicts
<1>9. CASE BrokerFails(r)
  <2>1. (\E a \in {"error", "raised"} : Move(r, a)) /\ Stop(r) /\ hurt' = hurt \cup {r}
    BY <1>9 DEF BrokerFails
  <2> QED BY <2>1, <1>1 DEF Stop, Places, Failed, Verdicts
<1> QED BY <1>2, <1>3, <1>4, <1>5, <1>6, <1>7, <1>8, <1>9 DEF Run

LEMMA HeardStep ==
    ASSUME Typed, OnePlace, Heard, [Next]_vars
    PROVE  Heard'
<1>1. CASE UNCHANGED vars
  BY <1>1 DEF Heard, Sound, Verdict, Backed, Waiting, vars, runner, broker, streams, history
<1>2. CASE Restart
  <2>1. /\ \A r \in Runs : reply'[r] = None /\ (at'[r] = at[r] \/ at'[r] = "lost")
        /\ UNCHANGED <<transport, got, said, hurt>>
    BY <1>2 DEF Restart, Typed, history
  <2>2. \A r \in Runs : Sound(r)' /\ Verdict(r)' /\ \A w \in Workers : Backed(w, r)'
    BY <2>1 DEF Heard, Sound, Verdict, Backed
  <2> QED BY <2>2 DEF Heard
<1> QED BY <1>1, <1>2, RunnerHeard, WorkerHeard DEF Next

\* The verdict of a run over the broker is the worker's, whatever the order of
\* deaths, redeliveries, losses and restarts (EndMatchesAgent).
THEOREM VerdictTheorem == Spec => []EndMatchesAgent
<1>1. Typed /\ OnePlace /\ [Next]_vars => OnePlace'
  BY OnePlaceStep
<1>2. Typed /\ OnePlace /\ Heard /\ [Next]_vars => Heard'
  BY HeardStep
<1>3. Heard => EndMatchesAgent
  BY DEF Heard, Verdict, EndMatchesAgent
<1> QED BY <1>1, <1>2, <1>3, OnePlaceInit, HeardInit, TypedAlways, PTL DEF Spec

==============================================================================
