------------------------- MODULE RunAdmissionProofs -------------------------
(***************************************************************************)
(* The daily quota, proved for every number of requests, users, agents and *)
(* threads, every bound on the limit and the calendar.                     *)
(***************************************************************************)
EXTENDS RunAdmission, FiniteSetTheorems, SequenceTheorems, TLAPS

USE DEF Critical, InFlight, Refused, Answered

-----------------------------------------------------------------------------
(* Type correctness. *)

LEMMA InitTypeOK == Init => TypeOK
BY UserOfAssumption, BoundsAssumption, FS_EmptySet DEF Init, TypeOK

LEMMA RunsSinceFinite ==
    ASSUME TypeOK, NEW u, NEW d
    PROVE  /\ IsFiniteSet(RunsSince(u, d))
           /\ Cardinality(RunsSince(u, d)) \in Nat
<1>1. RunsSince(u, d) \in SUBSET runs /\ IsFiniteSet(runs)
  BY DEF RunsSince, TypeOK
<1>. QED
  BY <1>1, FS_Subset, FS_CardinalityType

LEMMA NextTypeOK == TypeOK /\ [Next]_vars => TypeOK'
<1> SUFFICES ASSUME TypeOK, [Next]_vars PROVE TypeOK'
  OBVIOUS
<1> USE NoThreadAssumption, NoOneAssumption, BoundsAssumption DEF TypeOK, Goto, Leave, store, process
<1>1. ASSUME NEW r \in Requests, PostBadInput(r) PROVE TypeOK'
  BY <1>1 DEF PostBadInput
<1>2. ASSUME NEW r \in Requests, NEW t \in Threads \cup {NoThread}, Post(r, t) PROVE TypeOK'
  BY <1>2 DEF Post
<1>3. ASSUME NEW r \in Requests, Proceed(r) PROVE TypeOK'
  <2>1. CASE CheckAgent(r)
    <3>1. /\ Append(waiters, r) \in Seq(Requests)
          /\ waiters' \in Seq(Requests)
      BY <2>1 DEF CheckAgent
    <3>2. \E l \in {"404", "acquire", "thread"} : pc' = [pc EXCEPT ![r] = l]
      BY <2>1 DEF CheckAgent
    <3>. QED
      BY <2>1, <3>1, <3>2 DEF CheckAgent
  <2>2. CASE NoRunner(r)
    BY <2>2 DEF NoRunner
  <2>3. CASE CheckThread(r)
    <3>1. /\ Append(waiters, r) \in Seq(Requests)
          /\ waiters' \in Seq(Requests)
      BY <2>3 DEF CheckThread
    <3>2. \E l \in {"acquire", "422"} : pc' = [pc EXCEPT ![r] = l]
      BY <2>3 DEF CheckThread
    <3>. QED
      BY <2>3, <3>1, <3>2 DEF CheckThread
  <2>4. CASE Acquire(r)
    <3>1. waiters' \in Seq(Requests)
      BY <2>4, HeadTailProperties DEF Acquire
    <3>. QED
      BY <2>4, <3>1 DEF Acquire
  <2>5. CASE ReadLimit(r)
    BY <2>5 DEF ReadLimit
  <2>6. CASE CountRuns(r)
    <3>1. PICK n \in Nat : qUsed' = [qUsed EXCEPT ![r] = n]
      BY <2>6, RunsSinceFinite DEF CountRuns
    <3>2. /\ pc' = [pc EXCEPT ![r] = "decide"]
          /\ UNCHANGED <<day, store, tasks, lock, waiters, created, qDay, qLimit, peak>>
      BY <2>6 DEF CountRuns
    <3>. QED
      BY <3>1, <3>2
  <2>7. CASE RefuseQuota(r)
    BY SMTT(30), <2>7 DEF RefuseQuota
  <2>8. CASE StampRun(r)
    BY <2>8 DEF StampRun
  <2>9. CASE InsertRun(r)
    <3>1. IsFiniteSet(runs')
      BY <2>9, FS_AddElement DEF InsertRun
    <3>. QED
      BY <2>9, <3>1 DEF InsertRun
  <2>10. CASE Accept(r)
    BY SMTT(30), <2>10 DEF Accept
  <2>. QED
    BY <1>3, <2>1, <2>2, <2>3, <2>4, <2>5, <2>6, <2>7, <2>8, <2>9, <2>10 DEF Proceed
<1>4. ASSUME NEW r \in Requests, StoreError(r) PROVE TypeOK'
  <2>1. Leave(r, "500") /\ UNCHANGED <<day, store, tasks, waiters, created, peak>>
    BY <1>4 DEF StoreError
  <2>. QED
    BY SMTT(30), <2>1
<1>5. ASSUME NEW r \in Requests, NEW t \in Threads, AssignThread(r, t) PROVE TypeOK'
  BY <1>5 DEF AssignThread
<1>6. ASSUME NEW n \in 0..MaxLimit, SetDailyLimit(n) PROVE TypeOK'
  BY <1>6 DEF SetDailyLimit
<1>7. ASSUME NEW a \in Agents, UpdateAgent(a) PROVE TypeOK'
  BY <1>7 DEF UpdateAgent
<1>8. CASE Restart
  BY <1>8 DEF Restart
<1>9. CASE Midnight
  BY <1>9 DEF Midnight
<1>10. CASE UNCHANGED vars
  BY <1>10 DEF vars
<1> HIDE DEF TypeOK, Goto, Leave, store, process
<1>. QED
  BY <1>1, <1>2, <1>3, <1>4, <1>5, <1>6, <1>7, <1>8, <1>9, <1>10 DEF Next

\* Every variable keeps its type, whatever the values of the constants.
THEOREM TypeCorrect == Spec => []TypeOK
BY InitTypeOK, NextTypeOK, PTL DEF Spec

-----------------------------------------------------------------------------
(* The quota. *)

\* A step that leaves the rows and their stamps alone leaves every count alone.
LEMMA SameRows ==
    ASSUME runs' = runs, \A s \in runs : created'[s] = created[s]
    PROVE  /\ \A u, d : {r \in runs' : UserOf[r] = u /\ created'[r] >= d}
                      = {r \in runs : UserOf[r] = u /\ created[r] >= d}
           /\ \A u, d : {r \in runs' : UserOf[r] = u /\ created'[r] = d}
                      = {r \in runs : UserOf[r] = u /\ created[r] = d}
OBVIOUS

LEMMA InitQuotaInv == Init => QuotaInv
<1> SUFFICES ASSUME Init PROVE QuotaInv
  OBVIOUS
<1>1. QuotaRespected
  <2> SUFFICES ASSUME NEW u \in Users, NEW d \in 0..MaxDay
               PROVE  Cardinality(RunsOn(u, d)) <= peak
    BY DEF QuotaRespected
  <2>1. RunsOn(u, d) = {}
    BY DEF Init, RunsOn
  <2>2. peak \in Nat
    BY BoundsAssumption DEF Init
  <2>. QED
    BY <2>1, <2>2, FS_EmptySet
<1>. QED
  BY <1>1, BoundsAssumption
  DEF Init, QuotaInv, LockHeld, StampsPast, Snapshot, AnswerMatchesStore

\* A step that leaves the rows and their stamps alone, respects the lock, lets
\* neither the clock nor the peak go back, and reads what it reads correctly.
Quiet ==
    /\ runs' = runs
    /\ \A s \in runs : created'[s] = created[s]
    /\ LockHeld' /\ StampsPast' /\ AnswerMatchesStore'
    /\ limit' <= peak' /\ peak <= peak'
    /\ \A r \in Requests : pc'[r] \in {"count", "decide", "insert"} =>
          /\ qDay'[r] = qDay[r]
          /\ \/ qLimit'[r] = qLimit[r] /\ pc[r] \in {"count", "decide", "insert"}
             \/ qLimit'[r] <= peak
    /\ \A r \in Requests : pc'[r] \in {"decide", "insert"} =>
          \/ qUsed'[r] = qUsed[r] /\ pc[r] \in {"decide", "insert"}
          \/ qUsed'[r] = Cardinality(RunsSince(UserOf[r], qDay[r]))
    /\ \A r \in Requests : pc'[r] = "insert" =>
          qLimit'[r] > qUsed'[r] /\ qDay'[r] <= created'[r]

LEMMA QuietStep ==
    ASSUME TypeOK, TypeOK', QuotaInv, Quiet
    PROVE  QuotaInv'
<1> USE DEF Quiet, QuotaLeft
<1>1. Snapshot'
  <2> SUFFICES ASSUME NEW r \in Requests
               PROVE  /\ pc'[r] \in {"count", "decide", "insert"} => qLimit'[r] <= peak'
                      /\ pc'[r] \in {"decide", "insert"} =>
                            qUsed'[r] = Cardinality(RunsSince(UserOf[r], qDay[r])')
                      /\ pc'[r] = "insert" => QuotaLeft(r)' /\ qDay'[r] <= created'[r]
    BY DEF Snapshot
  <2>1. ASSUME pc'[r] \in {"count", "decide", "insert"} PROVE qLimit'[r] <= peak'
    <3>1. qLimit'[r] <= peak
      BY <2>1 DEF QuotaInv, Snapshot
    <3>2. qLimit'[r] \in Nat /\ peak \in Nat /\ peak' \in Nat
      BY BoundsAssumption DEF TypeOK
    <3>. QED
      BY <3>1, <3>2
  <2>2. ASSUME pc'[r] \in {"decide", "insert"}
        PROVE  qUsed'[r] = Cardinality(RunsSince(UserOf[r], qDay[r])')
    <3>1. qUsed'[r] = Cardinality(RunsSince(UserOf[r], qDay[r]))
      BY <2>2 DEF QuotaInv, Snapshot
    <3>2. RunsSince(UserOf[r], qDay[r])' = RunsSince(UserOf[r], qDay[r])
      BY <2>2, SameRows DEF RunsSince
    <3>. QED
      BY <3>1, <3>2
  <2>. QED
    BY <2>1, <2>2
<1>2. QuotaRespected'
  <2> SUFFICES ASSUME NEW u \in Users, NEW d \in 0..MaxDay
               PROVE  Cardinality(RunsOn(u, d)') <= peak'
    BY DEF QuotaRespected
  <2>1. RunsOn(u, d)' = RunsOn(u, d)
    BY SameRows DEF RunsOn
  <2>2. RunsOn(u, d) \in SUBSET runs /\ IsFiniteSet(runs)
    BY DEF RunsOn, TypeOK
  <2>3. Cardinality(RunsOn(u, d)) \in Nat
    BY <2>2, FS_Subset, FS_CardinalityType
  <2>4. Cardinality(RunsOn(u, d)) <= peak
    BY DEF QuotaInv, QuotaRespected
  <2>. QED
    BY <2>1, <2>3, <2>4, BoundsAssumption DEF TypeOK
<1>. QED
  BY <1>1, <1>2 DEF QuotaInv

\* The insert: the lock makes the count exact, so there is room for one more.
LEMMA InsertQuotaInv ==
    ASSUME TypeOK, QuotaInv, NEW r \in Requests, InsertRun(r)
    PROVE  QuotaInv'
<1> USE DEF InsertRun, Goto
<1>1. /\ lock = r
      /\ r \notin runs
      /\ qUsed[r] = Cardinality(RunsSince(UserOf[r], qDay[r]))
      /\ qUsed[r] < qLimit[r]
      /\ qLimit[r] <= peak
      /\ qDay[r] <= created[r]
  BY DEF QuotaInv, LockHeld, Snapshot, AnswerMatchesStore, QuotaLeft, TypeOK
<1>2. \A s \in Requests : pc'[s] \in Critical => s = r
  BY <1>1, NoOneAssumption DEF TypeOK, QuotaInv, LockHeld
<1>3. LockHeld' /\ Snapshot'
  BY <1>1, <1>2 DEF TypeOK, LockHeld, Snapshot
<1>4. StampsPast' /\ limit' <= peak' /\ AnswerMatchesStore'
  BY DEF TypeOK, QuotaInv, StampsPast, AnswerMatchesStore, store
<1>5. QuotaRespected'
  <2> SUFFICES ASSUME NEW u \in Users, NEW d \in 0..MaxDay
               PROVE  Cardinality(RunsOn(u, d)') <= peak
    BY DEF QuotaRespected
  <2>1. Cardinality(RunsOn(u, d)) <= peak
    BY DEF QuotaInv, QuotaRespected
  <2>2. CASE UserOf[r] = u /\ created[r] = d
    <3>1. RunsOn(u, d)' = RunsOn(u, d) \cup {r}
      BY <2>2 DEF RunsOn
    <3>2. /\ RunsOn(u, d) \subseteq RunsSince(u, qDay[r])
          /\ RunsSince(u, qDay[r]) \subseteq runs
          /\ r \notin RunsOn(u, d)
      BY <1>1, <2>2 DEF RunsOn, RunsSince
    <3>3. /\ IsFiniteSet(RunsOn(u, d))
          /\ Cardinality(RunsOn(u, d)) \in Nat
          /\ Cardinality(RunsOn(u, d)) <= Cardinality(RunsSince(u, qDay[r]))
      BY <3>2, RunsSinceFinite, FS_Subset, FS_CardinalityType
    <3>4. Cardinality(RunsOn(u, d)') = Cardinality(RunsOn(u, d)) + 1
      BY <3>1, <3>2, <3>3, FS_AddElement
    <3>5. qUsed[r] \in Nat /\ qLimit[r] \in Nat /\ peak \in Nat
      BY BoundsAssumption DEF TypeOK
    <3>. QED
      BY <1>1, <2>2, <3>3, <3>4, <3>5
  <2>3. CASE ~(UserOf[r] = u /\ created[r] = d)
    <3>1. RunsOn(u, d)' = RunsOn(u, d)
      BY <2>3 DEF RunsOn
    <3>. QED
      BY <2>1, <3>1
  <2>. QED
    BY <2>2, <2>3
<1>. QED
  BY <1>3, <1>4, <1>5 DEF QuotaInv

\* Every step of a request that is not the insert.
LEMMA ProceedQuotaInv ==
    ASSUME TypeOK, TypeOK', QuotaInv, NEW r \in Requests, Proceed(r)
    PROVE  QuotaInv'
<1>1. CASE CheckAgent(r)
  <2>0. /\ \E l \in {"404", "acquire", "thread"} : pc' = [pc EXCEPT ![r] = l]
        /\ pc[r] = "agent"
        /\ UNCHANGED <<day, limit, runs, created, lock, qDay, qLimit, qUsed, peak>>
    BY <1>1 DEF CheckAgent, Goto, store
  <2>1. Quiet
    BY SMTT(30), <2>0, NoOneAssumption, BoundsAssumption
    DEF Quiet, Goto, TypeOK, QuotaInv, LockHeld, StampsPast, Snapshot,
        AnswerMatchesStore, QuotaLeft
  <2>. QED
    BY <2>1, QuietStep
<1>2. CASE NoRunner(r)
  <2>1. Quiet
    BY <1>2, NoOneAssumption, BoundsAssumption
    DEF NoRunner, Quiet, Goto, Leave, store, process, TypeOK, QuotaInv, LockHeld,
        StampsPast, Snapshot, AnswerMatchesStore, QuotaLeft
  <2>. QED
    BY <2>1, QuietStep
<1>3. CASE CheckThread(r)
  <2>0. /\ \E l \in {"acquire", "422"} : pc' = [pc EXCEPT ![r] = l]
        /\ pc[r] = "thread"
        /\ UNCHANGED <<day, limit, runs, created, lock, qDay, qLimit, qUsed, peak>>
    BY <1>3 DEF CheckThread, Goto, store
  <2>1. Quiet
    BY SMTT(30), <2>0, NoOneAssumption, BoundsAssumption
    DEF Quiet, Goto, TypeOK, QuotaInv, LockHeld, StampsPast, Snapshot,
        AnswerMatchesStore, QuotaLeft
  <2>. QED
    BY <2>1, QuietStep
<1>4. CASE Acquire(r)
  <2>0. /\ pc[r] = "acquire" /\ pc' = [pc EXCEPT ![r] = "limit"]
        /\ lock = NoOne /\ lock' = r
        /\ qDay' = [qDay EXCEPT ![r] = day]
        /\ UNCHANGED <<day, limit, runs, created, qLimit, qUsed, peak>>
    BY <1>4 DEF Acquire, Goto, store
  <2>1. Quiet
    BY <2>0, NoOneAssumption, BoundsAssumption
    DEF Quiet, Goto, TypeOK, QuotaInv, LockHeld, StampsPast, Snapshot,
        AnswerMatchesStore, QuotaLeft
  <2>. QED
    BY <2>1, QuietStep
<1>5. CASE ReadLimit(r)
  <2>1. Quiet
    BY <1>5, NoOneAssumption, BoundsAssumption
    DEF ReadLimit, Quiet, Goto, Leave, store, process, TypeOK, QuotaInv, LockHeld,
        StampsPast, Snapshot, AnswerMatchesStore, QuotaLeft
  <2>. QED
    BY <2>1, QuietStep
<1>6. CASE CountRuns(r)
  <2>1. Quiet
    BY <1>6, NoOneAssumption, BoundsAssumption
    DEF CountRuns, Quiet, Goto, Leave, store, process, TypeOK, QuotaInv, LockHeld,
        StampsPast, Snapshot, AnswerMatchesStore, QuotaLeft
  <2>. QED
    BY <2>1, QuietStep
<1>7. CASE RefuseQuota(r)
  <2>1. Quiet
    BY SMTT(30), <1>7, NoOneAssumption, BoundsAssumption
    DEF RefuseQuota, Quiet, Goto, Leave, store, process, TypeOK, QuotaInv, LockHeld,
        StampsPast, Snapshot, AnswerMatchesStore, QuotaLeft
  <2>. QED
    BY <2>1, QuietStep
<1>8. CASE StampRun(r)
  <2>1. Quiet
    BY SMTT(30), <1>8, NoOneAssumption, BoundsAssumption
    DEF StampRun, Quiet, Goto, Leave, store, process, TypeOK, QuotaInv, LockHeld,
        StampsPast, Snapshot, AnswerMatchesStore, QuotaLeft
  <2>. QED
    BY <2>1, QuietStep
<1>9. CASE InsertRun(r)
  BY <1>9, InsertQuotaInv
<1>10. CASE Accept(r)
  <2>1. Quiet
    BY <1>10, NoOneAssumption, BoundsAssumption
    DEF Accept, Quiet, Goto, Leave, store, process, TypeOK, QuotaInv, LockHeld,
        StampsPast, Snapshot, AnswerMatchesStore, QuotaLeft
  <2>. QED
    BY <2>1, QuietStep
<1>. QED
  BY <1>1, <1>2, <1>3, <1>4, <1>5, <1>6, <1>7, <1>8, <1>9, <1>10 DEF Proceed

LEMMA NextQuotaInv == TypeOK /\ TypeOK' /\ QuotaInv /\ [Next]_vars => QuotaInv'
<1> SUFFICES ASSUME TypeOK, TypeOK', QuotaInv, [Next]_vars PROVE QuotaInv'
  OBVIOUS
<1>1. ASSUME NEW r \in Requests, PostBadInput(r) PROVE QuotaInv'
  <2>1. Quiet
    BY <1>1, NoOneAssumption, BoundsAssumption
    DEF PostBadInput, Quiet, Goto, Leave, store, process, TypeOK, QuotaInv, LockHeld,
        StampsPast, Snapshot, AnswerMatchesStore, QuotaLeft
  <2>. QED
    BY <2>1, QuietStep
<1>2. ASSUME NEW r \in Requests, NEW t \in Threads \cup {NoThread}, Post(r, t) PROVE QuotaInv'
  <2>1. Quiet
    BY <1>2, NoOneAssumption, BoundsAssumption
    DEF Post, Quiet, Goto, Leave, store, process, TypeOK, QuotaInv, LockHeld,
        StampsPast, Snapshot, AnswerMatchesStore, QuotaLeft
  <2>. QED
    BY <2>1, QuietStep
<1>3. ASSUME NEW r \in Requests, Proceed(r) PROVE QuotaInv'
  BY <1>3, ProceedQuotaInv
<1>4. ASSUME NEW r \in Requests, StoreError(r) PROVE QuotaInv'
  <2>1. Quiet
    BY <1>4, NoOneAssumption, BoundsAssumption
    DEF StoreError, Quiet, Goto, Leave, store, process, TypeOK, QuotaInv, LockHeld,
        StampsPast, Snapshot, AnswerMatchesStore, QuotaLeft
  <2>. QED
    BY <2>1, QuietStep
<1>5. ASSUME NEW r \in Requests, NEW t \in Threads, AssignThread(r, t) PROVE QuotaInv'
  <2>1. Quiet
    BY <1>5, NoOneAssumption, BoundsAssumption
    DEF AssignThread, Quiet, Goto, Leave, store, process, TypeOK, QuotaInv, LockHeld,
        StampsPast, Snapshot, AnswerMatchesStore, QuotaLeft
  <2>. QED
    BY <2>1, QuietStep
<1>6. ASSUME NEW n \in 0..MaxLimit, SetDailyLimit(n) PROVE QuotaInv'
  <2>1. Quiet
    BY <1>6, NoOneAssumption, BoundsAssumption
    DEF SetDailyLimit, Quiet, Goto, Leave, store, process, TypeOK, QuotaInv, LockHeld,
        StampsPast, Snapshot, AnswerMatchesStore, QuotaLeft
  <2>. QED
    BY <2>1, QuietStep
<1>7. ASSUME NEW a \in Agents, UpdateAgent(a) PROVE QuotaInv'
  <2>1. Quiet
    BY <1>7, NoOneAssumption, BoundsAssumption
    DEF UpdateAgent, Quiet, Goto, Leave, store, process, TypeOK, QuotaInv, LockHeld,
        StampsPast, Snapshot, AnswerMatchesStore, QuotaLeft
  <2>. QED
    BY <2>1, QuietStep
<1>8. CASE Restart
  <2>0. /\ \A r \in Requests : pc'[r] \notin InFlight
        /\ \A r \in Requests : pc'[r] = pc[r] \/ (pc'[r] = "lost" /\ pc[r] \in InFlight)
        /\ qDay' = [r \in Requests |-> 0]
        /\ UNCHANGED <<day, limit, runs, created, peak>>
    BY <1>8 DEF Restart, store, TypeOK
  <2>a. LockHeld'
    BY <2>0 DEF LockHeld
  <2>b. StampsPast'
    BY <2>0, BoundsAssumption DEF StampsPast, TypeOK, QuotaInv
  <2>c. AnswerMatchesStore'
    BY <2>0 DEF AnswerMatchesStore, QuotaInv
  <2>d. \A r \in Requests : pc'[r] \notin {"count", "decide", "insert"}
    BY <2>0 DEF InFlight, Critical
  <2>e. limit <= peak /\ peak <= peak
    BY BoundsAssumption DEF TypeOK, QuotaInv
  <2>1. Quiet
    BY <2>0, <2>a, <2>b, <2>c, <2>d, <2>e DEF Quiet
  <2>. QED
    BY <2>1, QuietStep
<1>9. CASE Midnight
  <2>1. Quiet
    BY <1>9, NoOneAssumption, BoundsAssumption
    DEF Midnight, Quiet, Goto, Leave, store, process, TypeOK, QuotaInv, LockHeld,
        StampsPast, Snapshot, AnswerMatchesStore, QuotaLeft
  <2>. QED
    BY <2>1, QuietStep
<1>10. CASE UNCHANGED vars
  <2>1. Quiet
    BY <1>10, NoOneAssumption, BoundsAssumption
    DEF vars, Quiet, Goto, Leave, store, process, TypeOK, QuotaInv, LockHeld,
        StampsPast, Snapshot, AnswerMatchesStore, QuotaLeft
  <2>. QED
    BY <2>1, QuietStep
<1>. QED
  BY <1>1, <1>2, <1>3, <1>4, <1>5, <1>6, <1>7, <1>8, <1>9, <1>10 DEF Next

\* The daily quota holds whatever the interleaving: QuotaRespected is not
\* inductive, QuotaInv is.
THEOREM QuotaTheorem == Spec => []QuotaRespected
<1>1. TypeOK /\ QuotaInv /\ [Next]_vars => (TypeOK /\ QuotaInv)'
  BY NextTypeOK, NextQuotaInv
<1>2. QuotaInv => QuotaRespected
  BY DEF QuotaInv
<1>. QED
  BY InitTypeOK, InitQuotaInv, <1>1, <1>2, PTL DEF Spec

\* What the caller was answered agrees with bl.runs.
THEOREM AnswerTheorem == Spec => []AnswerMatchesStore
<1>1. TypeOK /\ QuotaInv /\ [Next]_vars => (TypeOK /\ QuotaInv)'
  BY NextTypeOK, NextQuotaInv
<1>2. QuotaInv => AnswerMatchesStore
  BY DEF QuotaInv
<1>. QED
  BY InitTypeOK, InitQuotaInv, <1>1, <1>2, PTL DEF Spec

-----------------------------------------------------------------------------
(* Conversations. *)

LEMMA InitThreadInv == Init => ThreadInv
BY DEF Init, ThreadInv, ThreadPrivate

\* A step that gives out no thread and writes no row.
LEMMA SameThreads ==
    ASSUME TypeOK, ThreadInv, UNCHANGED <<runs, thread, issued>>,
           \A r \in tasks' : pc'[r] = "202",
           \A r \in Requests : pc'[r] \in {"acquire"} \cup Critical =>
               \/ pc[r] \in {"acquire"} \cup Critical
               \/ thread[r] = NoThread \/ OwnsThread(r)
    PROVE  ThreadInv'
BY DEF ThreadInv, ThreadPrivate, OwnsThread

\* The insert: the row's thread is the caller's own, or none.
LEMMA InsertThreadInv ==
    ASSUME TypeOK, ThreadInv, NEW r \in Requests, InsertRun(r)
    PROVE  ThreadInv'
<1>1. /\ runs' = runs \cup {r}
      /\ pc' = [pc EXCEPT ![r] = "stored"] /\ pc[r] = "insert"
      /\ UNCHANGED <<thread, issued>>
  BY DEF InsertRun, Goto
<1>2. thread[r] = NoThread \/ OwnsThread(r)
  BY <1>1 DEF ThreadInv
<1>3. ASSUME NEW s \in runs, thread[r] # NoThread, thread[s] = thread[r]
      PROVE  UserOf[s] = UserOf[r] /\ AgentOf[s] = AgentOf[r]
  <2>1. PICK w \in runs : /\ UserOf[w] = UserOf[r] /\ AgentOf[w] = AgentOf[r]
                          /\ thread[w] = thread[r]
    BY <1>2, <1>3 DEF OwnsThread
  <2>. QED
    BY <1>3, <2>1 DEF ThreadInv, ThreadPrivate
<1>4. ThreadPrivate'
  BY <1>1, <1>3 DEF ThreadInv, ThreadPrivate
<1>5. \A q \in Requests : pc'[q] \in {"acquire"} \cup Critical =>
         thread'[q] = NoThread \/ OwnsThread(q)'
  BY <1>1 DEF ThreadInv, OwnsThread, TypeOK
<1>6. \A q \in tasks' : pc'[q] = "202"
  BY <1>1 DEF ThreadInv, InsertRun, TypeOK
<1>. QED
  BY <1>1, <1>4, <1>5, <1>6 DEF ThreadInv

\* A fresh thread belongs to nobody else.
LEMMA AssignThreadInv ==
    ASSUME TypeOK, ThreadInv, NEW r \in Requests, NEW t \in Threads, AssignThread(r, t)
    PROVE  ThreadInv'
<1>1. /\ thread[r] = NoThread /\ t \notin issued /\ t # NoThread
      /\ thread' = [thread EXCEPT ![r] = t]
      /\ issued' = issued \cup {t}
      /\ UNCHANGED <<runs, pc>>
  BY NoThreadAssumption DEF AssignThread, process
<1>2. \A q \in Requests : q # r => thread'[q] = thread[q] /\ thread[q] # t
  BY <1>1 DEF TypeOK, ThreadInv
<1>3. ThreadPrivate'
  BY SMTT(30), <1>1, <1>2 DEF ThreadInv, ThreadPrivate, TypeOK
<1>4. ASSUME NEW q \in Requests, pc'[q] \in {"acquire"} \cup Critical
      PROVE  thread'[q] = NoThread \/ OwnsThread(q)'
  <2>1. q # r
    BY <1>1, <1>4 DEF ThreadInv, AssignThread
  <2>2. thread[q] = NoThread \/ OwnsThread(q)
    BY <1>1, <1>4 DEF ThreadInv
  <2>. QED
    BY <1>1, <1>2, <2>1, <2>2 DEF OwnsThread, TypeOK
<1>. QED
  BY <1>1, <1>2, <1>3, <1>4 DEF ThreadInv, TypeOK, AssignThread, process

LEMMA PostThreadInv ==
    ASSUME TypeOK, AnswerMatchesStore, ThreadInv,
           NEW r \in Requests, NEW t \in Threads \cup {NoThread}, Post(r, t)
    PROVE  ThreadInv'
<1>1. /\ t \in issued \cup {NoThread}
      /\ thread' = [thread EXCEPT ![r] = t]
      /\ pc' = [pc EXCEPT ![r] = "agent"] /\ pc[r] = "new"
      /\ UNCHANGED <<runs, issued, tasks>>
  BY DEF Post, Goto
<1>2. r \notin runs
  BY <1>1 DEF AnswerMatchesStore
<1>3. \A q \in Requests : pc'[q] \in {"acquire"} \cup Critical =>
         thread'[q] = NoThread \/ OwnsThread(q)'
  BY <1>1, <1>2 DEF ThreadInv, OwnsThread, TypeOK
<1>4. \A s \in runs : thread'[s] = thread[s]
  BY <1>1, <1>2 DEF TypeOK
<1>5. ThreadPrivate'
  BY <1>1, <1>4 DEF ThreadInv, ThreadPrivate
<1>. QED
  BY <1>1, <1>3, <1>5 DEF ThreadInv, TypeOK

LEMMA ProceedThreadInv ==
    ASSUME TypeOK, ThreadInv, NEW r \in Requests, Proceed(r)
    PROVE  ThreadInv'
<1> USE DEF Goto, Leave, store, TypeOK
<1>1. CASE CheckAgent(r)
  <2>1. /\ pc[r] = "agent"
        /\ \E l \in {"404", "acquire", "thread"} :
              /\ pc' = [pc EXCEPT ![r] = l]
              /\ l = "acquire" => thread[r] = NoThread
        /\ UNCHANGED <<runs, thread, issued, tasks>>
    BY <1>1 DEF CheckAgent
  <2>. QED
    BY <2>1, SameThreads DEF ThreadInv
<1>2. CASE NoRunner(r)
  BY <1>2, SameThreads DEF NoRunner, ThreadInv
<1>3. CASE CheckThread(r)
  <2>1. /\ pc[r] = "thread"
        /\ \E l \in {"422", "acquire"} :
              /\ pc' = [pc EXCEPT ![r] = l]
              /\ l = "acquire" => OwnsThread(r)
        /\ UNCHANGED <<runs, thread, issued, tasks>>
    BY <1>3 DEF CheckThread
  <2>. QED
    BY <2>1, SameThreads DEF ThreadInv
<1>4. CASE Acquire(r)
  BY <1>4, SameThreads DEF Acquire, ThreadInv
<1>5. CASE ReadLimit(r)
  BY <1>5, SameThreads DEF ReadLimit, ThreadInv
<1>6. CASE CountRuns(r)
  BY <1>6, SameThreads DEF CountRuns, ThreadInv
<1>7. CASE RefuseQuota(r)
  BY <1>7, SameThreads DEF RefuseQuota, ThreadInv
<1>8. CASE StampRun(r)
  BY <1>8, SameThreads DEF StampRun, ThreadInv
<1>9. CASE InsertRun(r)
  BY <1>9, InsertThreadInv
<1>10. CASE Accept(r)
  BY <1>10, SameThreads DEF Accept, ThreadInv
<1>. QED
  BY <1>1, <1>2, <1>3, <1>4, <1>5, <1>6, <1>7, <1>8, <1>9, <1>10 DEF Proceed

LEMMA NextThreadInv ==
    TypeOK /\ AnswerMatchesStore /\ ThreadInv /\ [Next]_vars => ThreadInv'
<1> SUFFICES ASSUME TypeOK, AnswerMatchesStore, ThreadInv, [Next]_vars
             PROVE  ThreadInv'
  OBVIOUS
<1>1. ASSUME NEW r \in Requests, PostBadInput(r) PROVE ThreadInv'
  BY <1>1, SameThreads DEF PostBadInput, Goto, store, TypeOK, ThreadInv
<1>2. ASSUME NEW r \in Requests, NEW t \in Threads \cup {NoThread}, Post(r, t) PROVE ThreadInv'
  BY <1>2, PostThreadInv
<1>3. ASSUME NEW r \in Requests, Proceed(r) PROVE ThreadInv'
  BY <1>3, ProceedThreadInv
<1>4. ASSUME NEW r \in Requests, StoreError(r) PROVE ThreadInv'
  BY <1>4, SameThreads DEF StoreError, Goto, Leave, store, TypeOK, ThreadInv
<1>5. ASSUME NEW r \in Requests, NEW t \in Threads, AssignThread(r, t) PROVE ThreadInv'
  BY <1>5, AssignThreadInv
<1>6. ASSUME NEW n \in 0..MaxLimit, SetDailyLimit(n) PROVE ThreadInv'
  BY <1>6, SameThreads DEF SetDailyLimit, process, ThreadInv
<1>7. ASSUME NEW a \in Agents, UpdateAgent(a) PROVE ThreadInv'
  BY <1>7, SameThreads DEF UpdateAgent, process, ThreadInv
<1>8. CASE Restart
  BY <1>8, SameThreads DEF Restart, store, TypeOK
<1>9. CASE Midnight
  BY <1>9, SameThreads DEF Midnight, store, process, ThreadInv
<1>10. CASE UNCHANGED vars
  BY <1>10, SameThreads DEF vars, store, process, ThreadInv
<1>. QED
  BY <1>1, <1>2, <1>3, <1>4, <1>5, <1>6, <1>7, <1>8, <1>9, <1>10 DEF Next

\* A conversation never reaches a second user or agent.
THEOREM ThreadTheorem == Spec => []ThreadPrivate
<1> DEFINE Inv == TypeOK /\ QuotaInv /\ ThreadInv
<1>1. Init => Inv
  BY InitTypeOK, InitQuotaInv, InitThreadInv
<1>2. Inv /\ [Next]_vars => Inv'
  BY NextTypeOK, NextQuotaInv, NextThreadInv DEF QuotaInv
<1>3. Inv => ThreadPrivate
  BY DEF ThreadInv
<1>. QED
  BY <1>1, <1>2, <1>3, PTL DEF Spec

=============================================================================
