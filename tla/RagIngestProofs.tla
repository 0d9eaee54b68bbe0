---------------------------- MODULE RagIngestProofs ----------------------------
(***************************************************************************)
(* Theorems about RagIngest for any requests, names, keys, versions and    *)
(* bounds: what the document store promises about keys, jobs, documents    *)
(* and the points of the vector store.                                     *)
(***************************************************************************)
EXTENDS RagIngest, TLAPS

USE RequestsAssumption, LenAssumption, NilAssumption, BoundsAssumption
USE DEF store, handlers, workers, history

-----------------------------------------------------------------------------
(* The inductive invariants. *)

\* create_ingest has committed or given up; its name is no new document's id.
Made(q) == post[q] \notin {"new", "commit"}

\* A row has an id exactly while it is there, and a DELETE holds that id.
RowTyped(x) ==
    /\ rows[x].id = Nil <=> rows[x].status = "absent"
    /\ rows[x].id # Nil =>
           rows[x].version \in Versions /\ NameOf[rows[x].id] = x /\ Made(rows[x].id)
    /\ del[x].at # "idle" => del[x].id # Nil /\ del[x].id = rows[x].id

\* A job has a document from the moment it is created.
JobTyped(j) ==
    /\ docOf[j] = Nil <=> job[j] = "absent"
    /\ docOf[j] # Nil => Made(j) /\ Made(docOf[j])
    /\ post[j] = "submit" => docOf[j] # Nil /\ task[j] = "none"
    /\ task[j] # "none" => docOf[j] # Nil
    /\ task[j] \in {"mark", "prepare", "upsert", "tail"} => version[j] \in Versions
    /\ task[j] = "upsert" => pos[j] <= LenOf[version[j]]
    /\ saw[j].same => saw[j].id # Nil

Row == [id : Requests \cup {Nil}, version : Versions \cup {Nil},
        status : {"absent", "queued", "processing", "indexed", "failed"}]

Typed == TypeOK /\ (\A x \in Names : RowTyped(x)) /\ \A j \in Requests : JobTyped(j)

\* The key of a job leads to it, and so does the answer to its key.
Keyed ==
    \A q \in Requests : KeyOf[q] # Nil =>
        /\ job[q] # "absent" => key[KeyOf[q]] = q
        /\ post[q] = "202" => key[KeyOf[q]] # Nil /\ answer[q] = key[KeyOf[q]]

\* _fail turns to the document when the job is over.
Attended == NoAbandonedJob /\ \A j \in Requests : task[j] = "fail_doc" => job[j] \notin Pending

Busy(j) == AtWork(j) \/ post[j] = "submit"

\* A job that will still give the document a status that is an end.
Backs(j, d) == docOf[j] = d /\ Busy(j) /\ task[j] \notin {"purge", "abandon", "finish"}

\* A document is never created again under an id a job has.
Settling ==
    /\ \A x \in Names : rows[x].status \in {"queued", "processing"} =>
           (\E j \in Requests : Backs(j, rows[x].id)) \/ rows[x].id \in lostDocs
    /\ \A j \in Requests : task[j] \in {"purge", "abandon"} => ~Exists(docOf[j])

\* A document no two jobs and no DELETE raced for is there while its job works.
Alone ==
    \A d \in Requests \ raced : \A j \in Requests : docOf[j] = d /\ Busy(j) =>
        /\ Exists(d) /\ del[NameOf[d]].at = "idle"
        /\ \A i \in Requests : docOf[i] = d /\ Busy(i) => i = j

\* What the job of an intact document has written.
Written(j, d) ==
    LET x == NameOf[d] IN
    /\ rows[x].status = "indexed" => task[j] \in {"finish", "fail_job", "fail_doc"}
    /\ task[j] \in {"mark", "prepare", "upsert", "tail"} => version[j] = rows[x].version
    /\ task[j] = "upsert" => \A i \in Positions : i < pos[j] => points[d][i] = version[j]
    /\ task[j] = "tail" => \A i \in Positions : i <= LenOf[version[j]] => points[d][i] = version[j]
    /\ task[j] \in {"recheck", "publish", "finish"} => points[d] = Content(rows[x].version)

Kept(d) ==
    LET x == NameOf[d] IN
    /\ ~Exists(d) \/ del[x].at = "row" => points[d] = NoPoints
    /\ Exists(d) /\ rows[x].status = "indexed" /\ del[x].at # "row"
           => points[d] = Content(rows[x].version)

Stored ==
    \A d \in Requests : Intact(d) =>
        Kept(d) /\ \A j \in Requests : docOf[j] = d /\ Busy(j) => Written(j, d)

-----------------------------------------------------------------------------
(* What a step does to the rows and to the jobs it is not about. *)

LEMMA SetDocumentEffect ==
    ASSUME Typed, NEW d \in Requests, NEW s \in {"processing", "indexed", "failed"},
           SetDocument(d, s)
    PROVE  /\ rows' \in [Names -> Row]
           /\ \A x \in Names :
                  /\ rows'[x].id = rows[x].id /\ rows'[x].version = rows[x].version
                  /\ rows'[x].status = IF rows[x].id = d THEN s ELSE rows[x].status
<1>0. rows \in [Names -> Row] /\ \A x \in Names : rows[x].id # Nil => NameOf[rows[x].id] = x
  BY DEF Typed, TypeOK, RowTyped, Row
<1>1. PICK n \in Names : n = NameOf[d]
  OBVIOUS
<1>2. CASE ~Exists(d)
  BY <1>0, <1>1, <1>2 DEF SetDocument, Exists, Row
<1>3. CASE Exists(d)
  <2>1. rows' = [rows EXCEPT ![n].status = s] /\ rows[n].id = d
    BY <1>1, <1>3 DEF SetDocument, Exists
  <2>2. \A x \in Names : rows[x].id = d => x = n
    BY <1>0, <1>1
  <2> QED BY <1>0, <2>1, <2>2 DEF Row
<1> QED BY <1>2, <1>3

LEMMA WorkFrame ==
    ASSUME Typed, NEW j \in Requests, Work(j) \/ CallFails(j)
    PROVE  /\ UNCHANGED <<docOf, handlers, raced>>
           /\ docOf[j] \in Requests /\ AtWork(j) /\ post[j] # "submit"
           /\ lostDocs \subseteq lostDocs' /\ lostJobs \subseteq lostJobs'
           /\ \A i \in Requests \ {j} : task'[i] = task[i] /\ job'[i] = job[i]
           /\ \A x \in Names :
                  /\ rows'[x].id = rows[x].id
                  /\ rows[x].id # docOf[j] => rows'[x].status = rows[x].status
<1>1. UNCHANGED <<docOf, handlers, raced>> /\ docOf[j] \in Requests
  BY DEF Work, Acquire, ReadRow, Mark, Prepare, Upsert, DropTail, Recheck, Purge, Abandon,
      Publish, Finish, FailJob, FailDocument, CallFails, Typed, TypeOK, JobTyped, Pending, SetJob,
      Goto, Working, AtWork
<1>2. AtWork(j) /\ post[j] # "submit"
  BY DEF Work, Acquire, ReadRow, Mark, Prepare, Upsert, DropTail, Recheck, Purge, Abandon,
      Publish, Finish, FailJob, FailDocument, CallFails, Typed, TypeOK, JobTyped, Pending, SetJob,
      Goto, Working, AtWork
<1>3. lostDocs \subseteq lostDocs' /\ lostJobs \subseteq lostJobs'
  BY DEF Work, Acquire, ReadRow, Mark, Prepare, Upsert, DropTail, Recheck, Purge, Abandon,
      Publish, Finish, FailJob, FailDocument, CallFails, Typed, TypeOK, JobTyped, Pending, SetJob,
      Goto, Working, AtWork
<1>4. \A i \in Requests \ {j} : task'[i] = task[i] /\ job'[i] = job[i]
  BY DEF Work, Acquire, ReadRow, Mark, Prepare, Upsert, DropTail, Recheck, Purge, Abandon,
      Publish, Finish, FailJob, FailDocument, CallFails, Typed, TypeOK, JobTyped, Pending, SetJob,
      Goto, Working, AtWork
<1>5. rows' = rows \/ \E s \in {"processing", "indexed", "failed"} : SetDocument(docOf[j], s)
  BY DEF Work, Acquire, ReadRow, Mark, Prepare, Upsert, DropTail, Recheck, Purge, Abandon,
      Publish, Finish, FailJob, FailDocument, CallFails, Typed, TypeOK, JobTyped, Pending, SetJob,
      Goto, Working, AtWork
<1>6. \A x \in Names :
          /\ rows'[x].id = rows[x].id
          /\ rows[x].id # docOf[j] => rows'[x].status = rows[x].status
  BY <1>1, <1>5, SetDocumentEffect
<1> QED BY <1>1, <1>2, <1>3, <1>4, <1>6

-----------------------------------------------------------------------------
(* Types. *)

LEMMA InitTyped == ASSUME Init PROVE Typed
  BY DEF Init, Typed, TypeOK, RowTyped, JobTyped, Made, NoRow, NoPoints, Positions, SawNothing,
      NotDeleting

LEMMA LookupTyped == ASSUME Typed, NEW q \in Requests, Lookup(q) PROVE Typed'
<1>1. TypeOK'
  <2>1. KeyOf[q] # Nil => key[KeyOf[q]] \in Requests \cup {Nil}
    BY DEF Typed, TypeOK
  <2>2. rows[NameOf[q]].id \in Requests \cup {Nil}
    BY DEF Typed, TypeOK
  <2>3. answer' \in [Requests -> Requests \cup {Nil}]
    BY <2>1 DEF Lookup, Typed, TypeOK
  <2>4. saw' \in [Requests -> [id : Requests \cup {Nil}, same : BOOLEAN]]
    BY <2>2 DEF Lookup, Typed, TypeOK, SawNothing
  <2>5. post' \in [Requests -> {"new", "commit", "submit", "202", "500", "lost"}]
    BY DEF Lookup, Typed, TypeOK
  <2> QED BY <2>3, <2>4, <2>5 DEF Lookup, Typed, TypeOK
<1>2. \A x \in Names : RowTyped(x)'
  BY DEF Lookup, Typed, TypeOK, RowTyped, JobTyped, Made
<1>3. ASSUME NEW j \in Requests PROVE JobTyped(j)'
  <2>1. Made(j) => Made(j)'
    BY DEF Lookup, Typed, TypeOK, Made
  <2>2. saw'[j].same => saw'[j].id # Nil
    <3>1. PICK r \in Row : r = rows[NameOf[q]]
      BY DEF Typed, TypeOK, Row
    <3>2. r.status = "indexed" => r.id # Nil
      BY <3>1 DEF Typed, RowTyped
    <3>3. PICK b \in BOOLEAN :
              /\ b => r.status = "indexed"
              /\ \/ saw'[j] = saw[j] \/ saw'[j] = SawNothing
                 \/ saw'[j] = [id |-> r.id, same |-> b]
      BY <3>1 DEF Lookup, Typed, TypeOK
    <3>4. saw[j].same => saw[j].id # Nil
      BY DEF Typed, JobTyped
    <3> QED BY <3>2, <3>3, <3>4 DEF SawNothing
  <2>3. docOf[j] # Nil => Made(docOf[j])'
    BY DEF Lookup, Typed, TypeOK, JobTyped, Made
  <2>4. post'[j] = "submit" => post[j] = "submit"
    BY DEF Lookup, Typed, TypeOK
  <2> QED BY <2>1, <2>2, <2>3, <2>4 DEF Lookup, Typed, JobTyped
<1> QED BY <1>1, <1>2, <1>3 DEF Typed

LEMMA PostTyped ==
    ASSUME Typed, NEW q \in Requests, Lookup(q) \/ Commit(q) \/ Submit(q) \/ PostError(q)
    PROVE  Typed'
<1>1. CASE InsertFinishedJob(q)
  BY <1>1 DEF InsertFinishedJob, TakeKey, KeyFree, Exists, SawNothing, Typed, TypeOK, RowTyped,
      JobTyped, Made
<1>2. CASE CommitIngest(q)
  <2>1. TypeOK'
    BY <1>2 DEF CommitIngest, InsertJob, TakeKey, SawNothing, Typed, TypeOK, Pending
  <2>2. \A x \in Names : RowTyped(x)'
    BY <1>2 DEF CommitIngest, InsertJob, Typed, TypeOK, RowTyped, Made
  <2>3. \A j \in Requests : JobTyped(j)'
    BY <1>2 DEF CommitIngest, InsertJob, SawNothing, Typed, TypeOK, RowTyped, JobTyped, Made
  <2> QED BY <2>1, <2>2, <2>3 DEF Typed
<1>3. CASE Rollback(q)
  BY <1>3 DEF Rollback, SawNothing, Typed, TypeOK, RowTyped, JobTyped, Made
<1>4. CASE Submit(q)
  BY <1>4 DEF Submit, Typed, TypeOK, RowTyped, JobTyped, Made
<1>5. CASE PostError(q)
  <2>1. TypeOK'
    BY <1>5 DEF PostError, SawNothing, Typed, TypeOK, RowTyped, JobTyped, Made
  <2>2. \A x \in Names : RowTyped(x)'
    BY <1>5 DEF PostError, Typed, TypeOK, RowTyped, JobTyped, Made
  <2>3. \A j \in Requests : JobTyped(j)'
    BY <1>5 DEF PostError, SawNothing, Typed, TypeOK, RowTyped, JobTyped, Made
  <2> QED BY <2>1, <2>2, <2>3 DEF Typed
<1> QED BY <1>1, <1>2, <1>3, <1>4, <1>5, LookupTyped DEF Commit

LEMMA StatusTyped ==
    ASSUME Typed, NEW j \in Requests, Mark(j) \/ Publish(j) \/ FailDocument(j)
    PROVE  Typed'
<1>1. PICK s \in {"processing", "indexed", "failed"}, l \in {"prepare", "finish", "ended"} :
          /\ docOf[j] \in Requests /\ SetDocument(docOf[j], s) /\ task' = [task EXCEPT ![j] = l]
          /\ l = "prepare" => version[j] \in Versions
          /\ task[j] # "none"
          /\ UNCHANGED <<points, job, docOf, key, handlers, version, pos, history>>
  BY DEF Mark, Publish, FailDocument, Goto, Typed, TypeOK, JobTyped
<1>2. rows' \in [Names -> Row] /\ \A x \in Names : RowTyped(x)'
  <2>1. /\ rows' \in [Names -> Row]
        /\ \A x \in Names :
               /\ rows'[x].id = rows[x].id /\ rows'[x].version = rows[x].version
               /\ rows'[x].status = IF rows[x].id = docOf[j] THEN s ELSE rows[x].status
    BY <1>1, SetDocumentEffect
  <2>2. UNCHANGED <<post, del>>
    BY <1>1
  <2> QED BY <1>1, <2>1, <2>2 DEF Typed, RowTyped, Made
<1>3. TypeOK'
  BY <1>1, <1>2 DEF Typed, TypeOK, Row, Working
<1>4. ASSUME NEW i \in Requests PROVE JobTyped(i)'
  BY <1>1 DEF Typed, TypeOK, JobTyped, Made
<1> QED BY <1>2, <1>3, <1>4 DEF Typed

LEMMA WorkTyped ==
    ASSUME Typed, NEW j \in Requests, Work(j) \/ CallFails(j)
    PROVE  Typed'
<1>1. CASE Acquire(j)
  BY <1>1 DEF Acquire, Goto, Typed, TypeOK, RowTyped, JobTyped, Made, Working
<1>2. CASE ReadRow(j)
  BY <1>2 DEF ReadRow, Goto, Exists, Typed, TypeOK, RowTyped, JobTyped, Made, Working
<1>3. CASE Prepare(j)
  <2>1. TypeOK'
    BY <1>3 DEF Prepare, SetJob, Goto, Typed, TypeOK, Pending, Working
  <2>2. \A x \in Names : RowTyped(x)'
    BY <1>3 DEF Prepare, Typed, RowTyped, Made
  <2>3. \A i \in Requests : JobTyped(i)'
    BY <1>3 DEF Prepare, SetJob, Goto, Typed, TypeOK, JobTyped, Made
  <2> QED BY <2>1, <2>2, <2>3 DEF Typed
<1>4. CASE Upsert(j)
  BY <1>4 DEF Upsert, Goto, Positions, Typed, TypeOK, RowTyped, JobTyped, Made, Working
<1>5. CASE DropTail(j)
  BY <1>5 DEF DropTail, Goto, Forget, Positions, Typed, TypeOK, RowTyped, JobTyped, Made, Working
<1>6. CASE Recheck(j)
  BY <1>6 DEF Recheck, Goto, Exists, Typed, TypeOK, RowTyped, JobTyped, Made, Working
<1>7. CASE Purge(j)
  BY <1>7 DEF Purge, Goto, NoPoints, Positions, Typed, TypeOK, RowTyped, JobTyped, Made, Working
<1>8. CASE Abandon(j)
  BY <1>8 DEF Abandon, SetJob, Goto, Typed, TypeOK, RowTyped, JobTyped, Made, Working
<1>9. CASE Finish(j)
  BY <1>9 DEF Finish, SetJob, Goto, Typed, TypeOK, RowTyped, JobTyped, Made, Working
<1>10. CASE FailJob(j)
  BY <1>10 DEF FailJob, SetJob, Goto, Typed, TypeOK, RowTyped, JobTyped, Made, Working
<1>11. CASE CallFails(j)
  <2>1. TypeOK'
    <3>1. /\ docOf[j] \in Requests /\ (job' = job \/ SetJob(j, "succeeded"))
          /\ \E l \in {"ended", "fail_job"} : Goto(j, l)
          /\ lostJobs' \subseteq lostJobs \cup {j} /\ lostDocs' \subseteq lostDocs \cup {docOf[j]}
      BY <1>11 DEF CallFails, Typed, TypeOK, RowTyped, JobTyped, Made, Working
    <3>2. job' \in [Requests -> {"absent", "succeeded", "failed", "gone"} \cup Pending]
      BY <3>1 DEF SetJob, Typed, TypeOK
    <3>3. task' \in [Requests -> {"none", "waiting", "ended"} \cup Working]
      BY <3>1 DEF Goto, Typed, TypeOK, RowTyped, JobTyped, Made, Working
    <3>4. version' \in [Requests -> Versions \cup {Nil}] /\ pos' \in [Requests -> 1..MaxLen + 1]
      BY <1>11 DEF CallFails, Forget, Typed, TypeOK, RowTyped, JobTyped, Made
    <3>5. faults' \in 0..MaxFaults
      BY <1>11 DEF CallFails, Typed, TypeOK, RowTyped, JobTyped, Made
    <3> QED BY <1>11, <3>1, <3>2, <3>3, <3>4, <3>5 DEF CallFails, Typed, TypeOK
  <2>2. \A x \in Names : RowTyped(x)'
    BY <1>11 DEF CallFails, Typed, TypeOK, RowTyped, JobTyped, Made
  <2>3. \A i \in Requests : JobTyped(i)'
    BY <1>11 DEF CallFails, SetJob, Goto, Forget, Typed, TypeOK, RowTyped, JobTyped, Made, Working
  <2> QED BY <2>1, <2>2, <2>3 DEF Typed
<1> QED BY <1>1, <1>2, <1>3, <1>4, <1>5, <1>6, <1>7, <1>8, <1>9, <1>10, <1>11, StatusTyped DEF
    Work

LEMMA DeleteTyped ==
    ASSUME Typed, NEW x \in Names, DeleteStart(x) \/ Delete(x) \/ DeleteFails(x)
    PROVE  Typed'
<1>1. CASE DeleteStart(x)
  BY <1>1 DEF DeleteStart, Occupied, AtWork, Typed, TypeOK, RowTyped, JobTyped, Made
<1>2. CASE DeletePoints(x)
  <2>1. points' \in [Requests -> [Positions -> Versions \cup {Nil}]]
    BY <1>2 DEF DeletePoints, NoPoints, Typed, TypeOK
  <2>2. del' \in [Names -> [id : Requests \cup {Nil}, at : {"idle", "points", "row"}]]
    BY <1>2 DEF DeletePoints, Typed, TypeOK
  <2>3. ASSUME NEW y \in Names PROVE RowTyped(y)'
    <3>1. del'[y].id = del[y].id /\ (del'[y].at # "idle" => del[y].at # "idle")
      BY <1>2 DEF DeletePoints, Typed, TypeOK
    <3> QED BY <1>2, <3>1 DEF DeletePoints, Typed, RowTyped, Made
  <2> QED BY <1>2, <2>1, <2>2, <2>3 DEF DeletePoints, Typed, TypeOK, JobTyped, Made
<1>3. CASE DeleteRow(x)
  <2>1. /\ rows' \in [Names -> Row]
        /\ del' \in [Names -> [id : Requests \cup {Nil}, at : {"idle", "points", "row"}]]
    BY <1>3 DEF DeleteRow, NotDeleting, NoRow, Typed, TypeOK, Row
  <2>2. \A j \in Requests : /\ job'[j] \in {job[j], "gone"}
                            /\ job'[j] # job[j] => docOf[j] = del[x].id
    BY <1>3 DEF DeleteRow, Typed, TypeOK
  <2>3. del[x].id # Nil
    BY <1>3 DEF DeleteRow, Typed, RowTyped
  <2>4. \A j \in Requests : job'[j] = "absent" <=> job[j] = "absent"
    BY <2>2, <2>3 DEF Typed, JobTyped
  <2>5. \A y \in Names : RowTyped(y)'
    BY <1>3, <2>4 DEF DeleteRow, NotDeleting, NoRow, Typed, TypeOK, RowTyped, Made
  <2>6. \A j \in Requests : JobTyped(j)'
    BY <1>3, <2>4 DEF DeleteRow, Typed, JobTyped, Made
  <2>7. job' \in [Requests -> {"absent", "gone"} \cup {job[j] : j \in Requests}]
    BY <1>3, <2>2 DEF DeleteRow
  <2> QED BY <1>3, <2>1, <2>5, <2>6, <2>7 DEF DeleteRow, Typed, TypeOK, Row
<1>4. CASE DeleteFails(x)
  BY <1>4 DEF DeleteFails, NotDeleting, Halfway, Typed, TypeOK, RowTyped, JobTyped, Made
<1> QED BY <1>1, <1>2, <1>3, <1>4 DEF Delete

\* A restart keeps the rows but for the status of the unsettled ones.
LEMMA RestartRows ==
    ASSUME Typed, Restart, NEW x \in Names
    PROVE  /\ rows'[x] \in Row /\ rows'[x].id = rows[x].id /\ rows'[x].version = rows[x].version
           /\ rows'[x].status \notin {"queued", "processing"}
           /\ rows'[x].status \in {rows[x].status, "failed"}
           /\ rows'[x].status = "failed" => rows[x].status # "absent"
<1>1. PICK r \in Row : r = rows[x]
  BY DEF Typed, TypeOK, Row
<1>2. rows'[x] = IF r.status \in {"queued", "processing"} THEN [r EXCEPT !.status = "failed"] ELSE r
  BY <1>1 DEF Restart, FailStaleJobs
<1> QED BY <1>1, <1>2 DEF Row

LEMMA RestartTyped == ASSUME Typed, Restart PROVE Typed'
<1>1. rows' \in [Names -> Row]
  <2>1. rows' = [x \in Names |-> rows'[x]]
    BY DEF Restart, FailStaleJobs
  <2> QED BY <2>1, RestartRows
<1>2. /\ job' \in [Requests -> {"absent", "succeeded", "failed", "gone"} \cup Pending]
      /\ post' \in [Requests -> {"new", "commit", "submit", "202", "500", "lost"}]
      /\ task' \in [Requests -> {"none", "waiting", "ended"} \cup Working]
  BY DEF Restart, FailStaleJobs, Typed, TypeOK
<1>3. /\ saw' \in [Requests -> [id : Requests \cup {Nil}, same : BOOLEAN]]
      /\ version' \in [Requests -> Versions \cup {Nil}] /\ pos' \in [Requests -> 1..MaxLen + 1]
      /\ del' \in [Names -> [id : Requests \cup {Nil}, at : {"idle", "points", "row"}]]
  BY DEF Restart, SawNothing, NotDeleting
<1>4. lostDocs' \subseteq Requests /\ restarts' \in 0..MaxRestarts
  BY DEF Restart, Halfway, Typed, TypeOK, RowTyped
<1>5. TypeOK'
  BY <1>1, <1>2, <1>3, <1>4 DEF Restart, Typed, TypeOK, Row
<1>6. \A x \in Names : RowTyped(x)'
  BY RestartRows DEF Restart, NotDeleting, Typed, TypeOK, RowTyped, JobTyped, Made
<1>7. \A j \in Requests : JobTyped(j)'
  BY DEF Restart, FailStaleJobs, AtWork, SawNothing, Pending, Typed, TypeOK, RowTyped, JobTyped,
      Made
<1> QED BY <1>5, <1>6, <1>7 DEF Typed

LEMMA TypedStep == ASSUME Typed, [Next]_vars PROVE Typed'
<1>1. CASE UNCHANGED vars
  BY <1>1 DEF vars, Typed, TypeOK, RowTyped, JobTyped, Made
<1> QED BY <1>1, PostTyped, WorkTyped, DeleteTyped, RestartTyped DEF Next

LEMMA TypedAlways == Spec => []Typed
  BY InitTyped, TypedStep, PTL DEF Spec

\* Every variable keeps its type: no step of a handler, a job or a restart
\* uses a row, a document or a version that is not there.
THEOREM TypeTheorem == Spec => []TypeOK
<1>1. Typed => TypeOK
  BY DEF Typed
<1> QED BY <1>1, TypedAlways, PTL

-----------------------------------------------------------------------------
(* An Idempotency-Key makes one job. *)

LEMMA KeyedStep == ASSUME Typed, Keyed, [Next]_vars PROVE Keyed'
<1>1. ASSUME NEW q \in Requests, Lookup(q) PROVE Keyed'
  BY <1>1 DEF Lookup, Keyed, Typed, TypeOK
<1>2. ASSUME NEW q \in Requests, InsertFinishedJob(q) \/ CommitIngest(q) PROVE Keyed'
  <2>1. KeyFree(q) /\ TakeKey(q) /\ Made(q)' /\ docOf[q] = Nil
    BY <1>2 DEF InsertFinishedJob, CommitIngest, InsertJob, Typed, TypeOK, JobTyped, Made
  <2>2. KeyOf[q] # Nil => key'[KeyOf[q]] = q
    BY <2>1 DEF TakeKey
  <2>3. \A i \in Requests \ {q} : job'[i] = job[i] /\ post'[i] = post[i] /\ answer'[i] = answer[i]
    BY <1>2 DEF InsertFinishedJob, CommitIngest, InsertJob, Typed, TypeOK
  <2>4. \A k \in Keys : key[k] # Nil => key'[k] = key[k]
    BY <2>1 DEF TakeKey, KeyFree
  <2>5. \A i \in Requests \ {q} : KeyOf[i] # Nil => KeyOf[i] \in Keys
    OBVIOUS
  <2>6. post'[q] = "202" => answer'[q] = q
    BY <1>2 DEF InsertFinishedJob, CommitIngest, Typed, TypeOK
  <2> QED BY <2>2, <2>3, <2>4, <2>5, <2>6 DEF Keyed
<1>3. ASSUME NEW q \in Requests, Submit(q) PROVE Keyed'
  BY <1>3 DEF Submit, Keyed, Typed, TypeOK, JobTyped
<1>4. ASSUME UNCHANGED <<key, answer>>,
             \A i \in Requests : /\ job'[i] = "absent" <=> job[i] = "absent"
                                 /\ post'[i] = "202" => post[i] = "202"
      PROVE  Keyed'
  BY <1>4 DEF Keyed
<1>5. ASSUME NEW q \in Requests, Rollback(q) \/ PostError(q) PROVE Keyed'
  BY <1>4, <1>5 DEF Rollback, PostError, Typed, TypeOK
<1>6. ASSUME NEW j \in Requests, Work(j) \/ CallFails(j) PROVE Keyed'
  <2>1. /\ UNCHANGED <<key, answer, post>> /\ job[j] # "absent"
        /\ job' = job \/ \E s \in {"running", "failed", "succeeded"} : SetJob(j, s)
    BY <1>6 DEF Work, Acquire, ReadRow, Mark, Prepare, Upsert, DropTail, Recheck, Purge, Abandon,
        Publish, Finish, FailJob, FailDocument, CallFails, Typed, TypeOK, JobTyped, Working
  <2> QED BY <1>4, <2>1 DEF SetJob, Typed, TypeOK
<1>7. ASSUME NEW x \in Names, DeleteStart(x) \/ Delete(x) \/ DeleteFails(x) PROVE Keyed'
  <2>1. \A i \in Requests : job'[i] = "absent" <=> job[i] = "absent"
    BY <1>7 DEF DeleteStart, Delete, DeletePoints, DeleteRow, DeleteFails, Typed, TypeOK,
        JobTyped, RowTyped
  <2> QED BY <1>4, <1>7, <2>1 DEF DeleteStart, Delete, DeletePoints, DeleteRow, DeleteFails
<1>8. CASE Restart
  BY <1>4, <1>8 DEF Restart, FailStaleJobs, Pending, Typed, TypeOK
<1>9. CASE UNCHANGED vars
  BY <1>4, <1>9 DEF vars
<1> QED BY <1>1, <1>2, <1>3, <1>5, <1>6, <1>7, <1>8, <1>9 DEF Next, Commit

\* An Idempotency-Key makes one job, and every 202 with the key answers it:
\* the key leads to the only job that took it, and is never given away again.
THEOREM KeyTheorem == Spec => []KeyMakesOneJob
<1>1. Init => Keyed
  BY DEF Init, Keyed
<1>2. Typed /\ Keyed => KeyMakesOneJob
  BY DEF Typed, TypeOK, Keyed, KeyMakesOneJob
<1> QED BY <1>1, <1>2, KeyedStep, TypedAlways, PTL DEF Spec

-----------------------------------------------------------------------------
(* A job that is not over is attended to. *)

LEMMA WorkAttended ==
    ASSUME Typed, Attended, NEW j \in Requests, Work(j) \/ CallFails(j)
    PROVE  Attended'
<1>1. job'[j] \in Pending => AtWork(j)' \/ j \in lostJobs'
  BY DEF Work, Acquire, ReadRow, Mark, Prepare, Upsert, DropTail, Recheck, Purge, Abandon,
      Publish, Finish, FailJob, FailDocument, CallFails, Attended, NoAbandonedJob, Typed, TypeOK,
      JobTyped, Pending, SetJob, Goto, Working, AtWork
<1>2. task'[j] = "fail_doc" => job'[j] \notin Pending
  BY DEF Work, Acquire, ReadRow, Mark, Prepare, Upsert, DropTail, Recheck, Purge, Abandon,
      Publish, Finish, FailJob, FailDocument, CallFails, Attended, NoAbandonedJob, Typed, TypeOK,
      JobTyped, Pending, SetJob, Goto, Working, AtWork
<1> QED BY <1>1, <1>2, WorkFrame DEF Attended, NoAbandonedJob, AtWork

LEMMA PostAttended ==
    ASSUME Typed, Attended, NEW q \in Requests, Lookup(q) \/ Commit(q) \/ Submit(q) \/ PostError(q)
    PROVE  Attended'
<1>1. CASE Lookup(q) \/ Rollback(q)
  BY <1>1 DEF Lookup, Rollback, Attended, NoAbandonedJob, Typed, TypeOK, JobTyped, Pending,
      SetJob, Goto, Working, AtWork
<1>2. CASE InsertFinishedJob(q)
  BY <1>2 DEF InsertFinishedJob, Attended, NoAbandonedJob, Typed, TypeOK, JobTyped, Pending,
      SetJob, Goto, Working, AtWork
<1>3. CASE CommitIngest(q)
  <2>1. post'[q] = "submit" /\ task[q] = "none"
    BY <1>3 DEF CommitIngest, Typed, TypeOK, JobTyped, Pending, SetJob, Goto, Working, AtWork,
        Made
  <2>2. \A i \in Requests \ {q} : job'[i] = job[i] /\ post'[i] = post[i]
    BY <1>3 DEF CommitIngest, InsertJob, Typed, TypeOK, JobTyped, Pending, SetJob, Goto, Working,
        AtWork
  <2>3. task' = task /\ lostJobs' = lostJobs
    BY <1>3 DEF CommitIngest
  <2> QED BY <2>1, <2>2, <2>3 DEF Attended, NoAbandonedJob, AtWork
<1>4. CASE Submit(q)
  BY <1>4 DEF Submit, Attended, NoAbandonedJob, Typed, TypeOK, JobTyped, Pending, SetJob, Goto,
      Working, AtWork
<1>5. CASE PostError(q)
  BY <1>5 DEF PostError, Attended, NoAbandonedJob, Typed, TypeOK, JobTyped, Pending, SetJob, Goto,
      Working, AtWork
<1> QED BY <1>1, <1>2, <1>3, <1>4, <1>5 DEF Commit

LEMMA AttendedStep == ASSUME Typed, Attended, [Next]_vars PROVE Attended'
<1>1. ASSUME NEW x \in Names, DeleteStart(x) \/ Delete(x) \/ DeleteFails(x) PROVE Attended'
  BY <1>1 DEF DeleteStart, Delete, DeletePoints, DeleteRow, DeleteFails, Attended, NoAbandonedJob,
      AtWork, Pending, Typed, TypeOK, RowTyped, JobTyped, Made
<1>2. CASE Restart
  BY <1>2 DEF Restart, FailStaleJobs, Attended, NoAbandonedJob, AtWork, Pending, Typed, TypeOK,
      RowTyped, JobTyped, Made
<1>3. CASE UNCHANGED vars
  BY <1>3 DEF vars, Attended, NoAbandonedJob, AtWork
<1> QED BY <1>1, <1>2, <1>3, WorkAttended, PostAttended DEF Next

\* A job that is not over has a task, or a POST about to start one, in every
\* state, those a restart leaves included: unless recording its failure raised.
THEOREM AbandonTheorem == Spec => []NoAbandonedJob
<1>1. Init => Attended
  BY DEF Init, Attended, NoAbandonedJob, Pending
<1>2. Attended => NoAbandonedJob
  BY DEF Attended
<1> QED BY <1>1, <1>2, AttendedStep, TypedAlways, PTL DEF Spec

-----------------------------------------------------------------------------
(* A document that is not settled has a job on its way. *)

LEMMA WorkSettles ==
    ASSUME Typed, Settling, NEW j \in Requests, Work(j) \/ CallFails(j)
    PROVE  Settling'
<1>1. /\ UNCHANGED <<docOf, handlers>> /\ docOf[j] \in Requests /\ lostDocs \subseteq lostDocs'
      /\ \A i \in Requests \ {j} : task'[i] = task[i]
      /\ \A x \in Names :
             /\ rows'[x].id = rows[x].id
             /\ rows[x].id # docOf[j] => rows'[x].status = rows[x].status
      /\ \A d \in Requests : Exists(d)' <=> Exists(d)
  BY WorkFrame DEF Exists
<1>2. task'[j] \in {"purge", "abandon"} => task[j] = "purge" \/ ~Exists(docOf[j])
  BY DEF Work, Acquire, ReadRow, Mark, Prepare, Upsert, DropTail, Recheck, Purge, Abandon,
      Publish, Finish, FailJob, FailDocument, CallFails, Typed, TypeOK, JobTyped, Pending, SetJob,
      Goto, Working, AtWork
<1>3. \/ SetDocument(docOf[j], "processing") /\ task'[j] = "prepare"
      \/ \E s \in {"indexed", "failed"} : SetDocument(docOf[j], s)
      \/ /\ rows' = rows
         /\ Backs(j, docOf[j]) => Backs(j, docOf[j])' \/ ~Exists(docOf[j]) \/ docOf[j] \in lostDocs'
  BY <1>1 DEF Work, Acquire, ReadRow, Mark, Prepare, Upsert, DropTail, Recheck, Purge, Abandon,
      Publish, Finish, FailJob, FailDocument, CallFails, Backs, Busy, Typed, TypeOK, JobTyped,
      Pending, SetJob, Goto, Working, AtWork
<1>4. ASSUME NEW x \in Names, rows'[x].status \in {"queued", "processing"}
      PROVE  (\E i \in Requests : Backs(i, rows[x].id)') \/ rows[x].id \in lostDocs'
  <2>1. ASSUME NEW i \in Requests \ {j}, Backs(i, rows[x].id) PROVE Backs(i, rows[x].id)'
    BY <1>1, <2>1 DEF Backs, Busy, AtWork
  <2>2. CASE rows[x].id # docOf[j]
    BY <1>1, <1>4, <2>1, <2>2 DEF Settling, Backs
  <2>3. CASE rows[x].id = docOf[j]
    <3>1. Exists(docOf[j])
      BY <1>1, <2>3 DEF Exists, Typed, RowTyped
    <3>2. CASE SetDocument(docOf[j], "processing") /\ task'[j] = "prepare"
      BY <1>1, <2>3, <3>2 DEF Backs, Busy, AtWork
    <3>3. ASSUME NEW s \in {"indexed", "failed"}, SetDocument(docOf[j], s) PROVE FALSE
      BY <1>1, <1>4, <2>3, <3>3, SetDocumentEffect
    <3>4. CASE /\ rows' = rows
               /\ Backs(j, docOf[j]) => Backs(j, docOf[j])' \/ docOf[j] \in lostDocs'
      BY <1>1, <1>4, <2>1, <2>3, <3>4 DEF Settling
    <3> QED BY <1>3, <3>1, <3>2, <3>3, <3>4
  <2> QED BY <2>2, <2>3
<1>5. ASSUME NEW i \in Requests, task'[i] \in {"purge", "abandon"} PROVE ~Exists(docOf[i])'
  <2>1. task[i] \in {"purge", "abandon"} \/ ~Exists(docOf[i])
    BY <1>1, <1>2, <1>5
  <2>2. docOf[i] \in Requests
    <3>1. i # j => task[i] # "none"
      BY <1>1, <1>5
    <3> QED BY <1>1, <3>1 DEF Typed, TypeOK, JobTyped
  <2> QED BY <1>1, <2>1, <2>2 DEF Settling
<1> QED BY <1>1, <1>4, <1>5 DEF Settling

LEMMA CommitSettles == ASSUME Typed, Settling, NEW q \in Requests, CommitIngest(q) PROVE Settling'
<1>1. PICK d \in Requests :
          /\ d = (IF rows[NameOf[q]].id = Nil THEN q ELSE rows[NameOf[q]].id)
          /\ rows' = [rows EXCEPT ![NameOf[q]] =
                           [id |-> d, version |-> VersionOf[q], status |-> "queued"]]
          /\ docOf' = [docOf EXCEPT ![q] = d]
  BY DEF CommitIngest, InsertJob, Typed, TypeOK
<1>2. Backs(q, d)' /\ \A i \in Requests \ {q}, e \in Requests : Backs(i, e) => Backs(i, e)'
  <2>1. post' = [post EXCEPT ![q] = "submit"] /\ task' = task /\ task[q] = "none"
    BY DEF CommitIngest, Typed, TypeOK, JobTyped, Pending, SetJob, Goto, Working, AtWork, Made
  <2> QED BY <1>1, <2>1 DEF Backs, Busy, AtWork, Typed, TypeOK
<1>3. ASSUME NEW x \in Names, rows'[x].status \in {"queued", "processing"}
      PROVE  (\E i \in Requests : Backs(i, rows[x].id)') \/ rows'[x].id \in lostDocs'
  <2>1. CASE x = NameOf[q]
    <3>1. rows'[x].id = d
      BY <1>1, <2>1 DEF Typed, TypeOK
    <3> QED BY <1>1, <1>2, <3>1 DEF Backs
  <2>2. CASE x # NameOf[q]
    <3>1. rows'[x] = rows[x] /\ lostDocs' = lostDocs /\ rows[x].id \in Requests
      BY <1>1, <1>3, <2>2 DEF Typed, TypeOK, RowTyped, CommitIngest
    <3>2. \A i \in Requests : Backs(i, rows[x].id) => i # q
      BY DEF Backs, Busy, CommitIngest, Typed, JobTyped, Made, AtWork
    <3> QED BY <1>2, <1>3, <3>1, <3>2 DEF Settling
  <2> QED BY <2>1, <2>2
<1>4. ASSUME NEW i \in Requests, task'[i] \in {"purge", "abandon"} PROVE ~Exists(docOf[i])'
  <2>1. i # q /\ task[i] = task'[i] /\ docOf'[i] = docOf[i]
    BY <1>1, <1>4 DEF CommitIngest, Typed, TypeOK, JobTyped, Made
  <2>2. ~Exists(docOf[i]) /\ docOf[i] \in Requests /\ docOf[i] # q
    BY <1>4, <2>1 DEF Settling, CommitIngest, Typed, TypeOK, JobTyped, Made
  <2> QED BY <1>1, <2>1, <2>2 DEF Exists, Typed, TypeOK
<1> QED BY <1>3, <1>4 DEF Settling

LEMMA ErrorSettles == ASSUME Typed, Settling, NEW q \in Requests, PostError(q) PROVE Settling'
<1>1. /\ UNCHANGED <<rows, docOf, task>> /\ lostDocs \subseteq lostDocs'
      /\ \A i \in Requests \ {q} : post'[i] = post[i]
      /\ Busy(q) => docOf[q] \in lostDocs'
  BY DEF PostError, Busy, Typed, TypeOK, JobTyped, Pending, SetJob, Goto, Working, AtWork, Made
<1>2. \A i \in Requests : \A d : Backs(i, d) => Backs(i, d)' \/ d \in lostDocs'
  BY <1>1 DEF Backs, Busy, AtWork
<1> QED BY <1>1, <1>2 DEF Settling, Exists

LEMMA SettlingStep == ASSUME Typed, Settling, [Next]_vars PROVE Settling'
<1>1. ASSUME NEW q \in Requests, Lookup(q) PROVE Settling'
  BY <1>1 DEF Lookup, Settling, Backs, Busy, Exists, AtWork, Typed, TypeOK, RowTyped, JobTyped,
      Made
<1>2. ASSUME NEW q \in Requests, InsertFinishedJob(q) PROVE Settling'
  <2>1. UNCHANGED <<rows, task, lostDocs>>
    BY <1>2 DEF InsertFinishedJob
  <2>2. /\ docOf[q] = Nil /\ task[q] = "none"
        /\ \A i \in Requests \ {q} : docOf'[i] = docOf[i] /\ post'[i] = post[i]
    BY <1>2 DEF InsertFinishedJob, Typed, TypeOK, JobTyped, Made
  <2>3. \A x \in Names : rows[x].status \in {"queued", "processing"} => rows[x].id # Nil
    BY DEF Typed, RowTyped
  <2>4. \A i \in Requests, d \in Requests : Backs(i, d) => i # q /\ Backs(i, d)'
    BY <1>2, <2>1, <2>2 DEF Backs, Busy, AtWork
  <2>5. \A x \in Names : rows[x].id \in Requests \cup {Nil}
    BY DEF Typed, TypeOK
  <2>6. \A i \in Requests : task[i] \in {"purge", "abandon"} => docOf'[i] = docOf[i]
    BY <2>2
  <2> QED BY <2>1, <2>3, <2>4, <2>5, <2>6 DEF Settling, Exists
<1>3. ASSUME NEW q \in Requests, Rollback(q) PROVE Settling'
  BY <1>3 DEF Rollback, SawNothing, Settling, Backs, Busy, Exists, AtWork, Typed, TypeOK,
      RowTyped, JobTyped, Made
<1>4. ASSUME NEW q \in Requests, Submit(q) PROVE Settling'
  BY <1>4 DEF Submit, Settling, Backs, Busy, Exists, AtWork, Typed, TypeOK, RowTyped, JobTyped,
      Made
<1>5. ASSUME NEW x \in Names, DeleteStart(x) PROVE Settling'
  BY <1>5 DEF DeleteStart, Settling, Backs, Busy, Exists, AtWork, Typed, TypeOK, RowTyped,
      JobTyped, Made
<1>6. ASSUME NEW x \in Names, DeletePoints(x) PROVE Settling'
  BY <1>6 DEF DeletePoints, Settling, Backs, Busy, Exists, AtWork, Typed, TypeOK, RowTyped,
      JobTyped, Made
<1>7. ASSUME NEW x \in Names, DeleteRow(x) PROVE Settling'
  BY <1>7 DEF DeleteRow, NoRow, Settling, Backs, Busy, Exists, AtWork, Typed, TypeOK, RowTyped,
      JobTyped, Made
<1>8. ASSUME NEW x \in Names, DeleteFails(x) PROVE Settling'
  BY <1>8 DEF DeleteFails, Settling, Backs, Busy, Exists, AtWork, Typed, TypeOK, RowTyped,
      JobTyped, Made
<1>9. CASE Restart
  <2>1. \A j \in Requests : task'[j] \notin {"purge", "abandon"}
    BY <1>9 DEF Restart, AtWork, Typed, TypeOK
  <2> QED BY <1>9, <2>1, RestartRows DEF Settling
<1>10. CASE UNCHANGED vars
  BY <1>10 DEF vars, Settling, Backs, Busy, AtWork, Exists
<1> QED BY <1>1, <1>2, <1>3, <1>4, <1>5, <1>6, <1>7, <1>8, <1>9, <1>10, WorkSettles, CommitSettles,
           ErrorSettles DEF Next, Commit, Delete

\* A document that is queued or processing has a job that will settle it,
\* unless a last call about it raised.
THEOREM SettleTheorem == Spec => []DocumentsSettle
<1>1. Init => Settling
  BY DEF Init, Settling, NoRow
<1>2. Settling => DocumentsSettle
  BY DEF Settling, DocumentsSettle, Occupied, Backs, Busy
<1> QED BY <1>1, <1>2, SettlingStep, TypedAlways, PTL DEF Spec

-----------------------------------------------------------------------------
(* What the vector store holds. *)

LEMMA AloneStep == ASSUME Typed, Alone, [Next]_vars PROVE Alone'
<1>1. ASSUME NEW j \in Requests, Work(j) \/ CallFails(j) PROVE Alone'
  <2>1. \A i \in Requests : Busy(i)' => Busy(i)
    BY <1>1, WorkFrame DEF Busy, AtWork
  <2>2. \A d \in Requests : Exists(d)' <=> Exists(d)
    BY <1>1, WorkFrame DEF Exists
  <2> QED BY <1>1, <2>1, <2>2, WorkFrame DEF Alone
<1>2. ASSUME NEW q \in Requests, Lookup(q) PROVE Alone'
  BY <1>2 DEF Lookup, Alone, Busy, Exists, AtWork, Typed, TypeOK, RowTyped, JobTyped, Made
<1>3. ASSUME NEW q \in Requests, InsertFinishedJob(q) PROVE Alone'
  BY <1>3 DEF InsertFinishedJob, SawNothing, Alone, Busy, Exists, AtWork, Typed, TypeOK, RowTyped,
      JobTyped, Made
<1>4. ASSUME NEW q \in Requests, CommitIngest(q) PROVE Alone'
  BY <1>4 DEF CommitIngest, InsertJob, Occupied, Alone, Busy, Exists, AtWork, Typed, TypeOK,
      RowTyped, JobTyped, Made
<1>5. ASSUME NEW q \in Requests, Rollback(q) PROVE Alone'
  BY <1>5 DEF Rollback, SawNothing, Alone, Busy, Exists, AtWork, Typed, TypeOK, RowTyped,
      JobTyped, Made
<1>6. ASSUME NEW q \in Requests, Submit(q) PROVE Alone'
  BY <1>6 DEF Submit, Alone, Busy, Exists, AtWork, Typed, TypeOK, RowTyped, JobTyped, Made
<1>7. ASSUME NEW q \in Requests, PostError(q) PROVE Alone'
  BY <1>7 DEF PostError, SawNothing, Alone, Busy, Exists, AtWork, Typed, TypeOK, RowTyped,
      JobTyped, Made
<1>8. ASSUME NEW x \in Names, DeleteStart(x) PROVE Alone'
  BY <1>8 DEF DeleteStart, Occupied, Alone, Busy, Exists, AtWork, Typed, TypeOK, RowTyped,
      JobTyped, Made
<1>9. ASSUME NEW x \in Names, DeletePoints(x) PROVE Alone'
  BY <1>9 DEF DeletePoints, Alone, Busy, Exists, AtWork, Typed, TypeOK, RowTyped, JobTyped, Made
<1>10. ASSUME NEW x \in Names, DeleteRow(x) PROVE Alone'
  BY <1>10 DEF DeleteRow, NotDeleting, NoRow, Alone, Busy, Exists, AtWork, Typed, TypeOK,
      RowTyped, JobTyped, Made
<1>11. ASSUME NEW x \in Names, DeleteFails(x) PROVE Alone'
  BY <1>11 DEF DeleteFails, NotDeleting, Alone, Busy, Exists, AtWork, Typed, TypeOK, RowTyped,
      JobTyped, Made
<1>12. CASE Restart
  BY <1>12 DEF Restart, Alone, Busy, Exists, AtWork, Typed, TypeOK, RowTyped, JobTyped, Made
<1>13. CASE UNCHANGED vars
  BY <1>13 DEF vars, Alone, Busy, AtWork, Exists
<1> QED BY <1>1, <1>2, <1>3, <1>4, <1>5, <1>6, <1>7, <1>8, <1>9, <1>10, <1>11, <1>12, <1>13 DEF
    Next, Commit, Delete

\* Typing, and the exclusive access of the job of an intact document.
LEMMA AloneFacts ==
    ASSUME Typed, Alone, Stored, NEW j \in Requests, Busy(j), Intact(docOf[j])
    PROVE  /\ docOf[j] \in Requests /\ Exists(docOf[j]) /\ del[NameOf[docOf[j]]].at = "idle"
           /\ Written(j, docOf[j]) /\ Kept(docOf[j])
           /\ \A i \in Requests : docOf[i] = docOf[j] /\ Busy(i) => i = j
<1>1. docOf[j] \in Requests
  BY DEF Busy, AtWork, Typed, TypeOK, JobTyped
<1> QED BY <1>1 DEF Alone, Stored, Intact

LEMMA UpsertStored == ASSUME Typed, Alone, Stored, NEW j \in Requests, Upsert(j) PROVE Stored'
<1>1. /\ UNCHANGED <<rows, docOf, del, post, raced, lostDocs, version>>
      /\ task[j] = "upsert"
      /\ task' = [task EXCEPT ![j] = IF pos[j] = LenOf[version[j]] THEN "tail" ELSE "upsert"]
      /\ pos' = [pos EXCEPT ![j] = @ + 1] /\ pos[j] \in Positions
      /\ points' = [points EXCEPT ![docOf[j]][pos[j]] = version[j]]
      /\ version[j] \in Versions /\ docOf[j] \in Requests
  BY DEF Upsert, Goto, Typed, TypeOK, JobTyped, Positions
<1>2. \A i \in Requests : Busy(i)' <=> Busy(i)
  BY <1>1 DEF Busy, AtWork, Typed, TypeOK
<1>3. ASSUME NEW d \in Requests, Intact(d)
      PROVE  Kept(d)' /\ \A i \in Requests : docOf[i] = d /\ Busy(i) => Written(i, d)'
  <2>1. CASE d = docOf[j]
    <3>1. /\ Exists(d) /\ del[NameOf[d]].at = "idle" /\ Written(j, d)
          /\ \A i \in Requests : docOf[i] = d /\ Busy(i) => i = j
      BY <1>1, <1>3, <2>1, AloneFacts DEF Busy, AtWork
    <3>2. rows[NameOf[d]].status # "indexed"
      BY <1>1, <3>1 DEF Written
    <3>3. Kept(d)'
      BY <1>1, <3>1, <3>2 DEF Kept, Exists
    <3>4. \A i \in Positions : points'[d][i] = IF i = pos[j] THEN version[j] ELSE points[d][i]
      BY <1>1, <2>1 DEF Typed, TypeOK
    <3>5. \A i \in Positions : i <= pos[j] => points'[d][i] = version[j]
      BY <1>1, <3>1, <3>4 DEF Written, Positions
    <3>6. pos'[j] = pos[j] + 1 /\ pos[j] \in Nat
      BY <1>1 DEF Typed, TypeOK, Positions
    <3>7. Written(j, d)'
      BY <1>1, <3>1, <3>2, <3>5, <3>6 DEF Written, Positions, Typed, TypeOK
    <3> QED BY <3>1, <3>3, <3>7
  <2>2. CASE d # docOf[j]
    <3>1. points'[d] = points[d]
      BY <1>1, <2>2 DEF Typed, TypeOK
    <3>2. \A i \in Requests : docOf[i] = d => task'[i] = task[i] /\ pos'[i] = pos[i]
      BY <1>1, <2>2 DEF Typed, TypeOK
    <3> QED BY <1>1, <1>3, <3>1, <3>2 DEF Stored, Kept, Written, Exists
  <2> QED BY <2>1, <2>2
<1> QED BY <1>1, <1>2, <1>3 DEF Stored, Intact

LEMMA DropTailStored == ASSUME Typed, Alone, Stored, NEW j \in Requests, DropTail(j) PROVE Stored'
<1>1. /\ UNCHANGED <<rows, docOf, del, post, raced, lostDocs>>
      /\ task[j] = "tail" /\ task' = [task EXCEPT ![j] = "recheck"]
      /\ version' = [version EXCEPT ![j] = Nil] /\ pos' = [pos EXCEPT ![j] = 1]
      /\ points' = [points EXCEPT ![docOf[j]] =
                       [i \in Positions |-> IF i > LenOf[version[j]] THEN Nil ELSE @[i]]]
      /\ version[j] \in Versions /\ docOf[j] \in Requests
  BY DEF DropTail, Goto, Forget, Typed, TypeOK, JobTyped
<1>2. \A i \in Requests : Busy(i)' <=> Busy(i)
  BY <1>1 DEF Busy, AtWork, Typed, TypeOK
<1>3. ASSUME NEW d \in Requests, Intact(d)
      PROVE  Kept(d)' /\ \A i \in Requests : docOf[i] = d /\ Busy(i) => Written(i, d)'
  <2>1. CASE d = docOf[j]
    <3>1. /\ Exists(d) /\ del[NameOf[d]].at = "idle" /\ Written(j, d)
          /\ \A i \in Requests : docOf[i] = d /\ Busy(i) => i = j
      BY <1>1, <1>3, <2>1, AloneFacts DEF Busy, AtWork
    <3>2. rows[NameOf[d]].status # "indexed" /\ version[j] = rows[NameOf[d]].version
      BY <1>1, <3>1 DEF Written
    <3>3. Kept(d)'
      BY <1>1, <3>1, <3>2 DEF Kept, Exists
    <3>4. points'[d] = [i \in Positions |-> IF i > LenOf[version[j]] THEN Nil ELSE points[d][i]]
      BY <1>1, <2>1 DEF Typed, TypeOK
    <3>5. points'[d] = Content(version[j])
      <4>1. \A i \in Positions : i <= LenOf[version[j]] => points[d][i] = version[j]
        BY <1>1, <3>1 DEF Written
      <4>2. LenOf[version[j]] \in Nat /\ Positions \subseteq Nat
        BY <1>1 DEF Positions
      <4>3. \A i \in Positions : i > LenOf[version[j]] <=> ~(i <= LenOf[version[j]])
        BY <4>2
      <4>4. \A i \in Positions : (IF i > LenOf[version[j]] THEN Nil ELSE points[d][i])
                                 = (IF i <= LenOf[version[j]] THEN version[j] ELSE Nil)
        BY <4>1, <4>3, Zenon
      <4> QED BY <3>4, <4>4 DEF Content
    <3>6. Written(j, d)'
      BY <1>1, <3>2, <3>5 DEF Written, Typed, TypeOK, Content
    <3> QED BY <3>1, <3>3, <3>6
  <2>2. CASE d # docOf[j]
    <3>1. points'[d] = points[d]
      BY <1>1, <2>2 DEF Typed, TypeOK
    <3>2. \A i \in Requests : docOf[i] = d =>
              task'[i] = task[i] /\ pos'[i] = pos[i] /\ version'[i] = version[i]
      BY <1>1, <2>2 DEF Typed, TypeOK
    <3> QED BY <1>1, <1>3, <3>1, <3>2 DEF Stored, Kept, Written, Exists
  <2> QED BY <2>1, <2>2
<1> QED BY <1>1, <1>2, <1>3 DEF Stored, Intact

LEMMA PublishStored == ASSUME Typed, Alone, Stored, NEW j \in Requests, Publish(j) PROVE Stored'
<1>1. /\ UNCHANGED <<points, docOf, del, post, raced, lostDocs, version, pos>>
      /\ task[j] = "publish" /\ task' = [task EXCEPT ![j] = "finish"]
      /\ SetDocument(docOf[j], "indexed") /\ docOf[j] \in Requests
  BY DEF Publish, Goto, Typed, TypeOK, JobTyped
<1>2. /\ \A i \in Requests : Busy(i)' <=> Busy(i)
      /\ \A d \in Requests : Exists(d)' <=> Exists(d)
  BY <1>1, SetDocumentEffect DEF Busy, AtWork, Typed, TypeOK, Exists
<1>3. ASSUME NEW d \in Requests, Intact(d)
      PROVE  Kept(d)' /\ \A i \in Requests : docOf[i] = d /\ Busy(i) => Written(i, d)'
  <2>0. rows'[NameOf[d]].version = rows[NameOf[d]].version
    BY <1>1, SetDocumentEffect
  <2>1. CASE d = docOf[j]
    <3>1. /\ Exists(d) /\ del[NameOf[d]].at = "idle" /\ Written(j, d)
          /\ \A i \in Requests : docOf[i] = d /\ Busy(i) => i = j
      BY <1>1, <1>3, <2>1, AloneFacts DEF Busy, AtWork
    <3>2. points[d] = Content(rows[NameOf[d]].version)
      BY <1>1, <3>1 DEF Written
    <3>3. Kept(d)'
      BY <1>1, <1>2, <2>0, <3>1, <3>2 DEF Kept, Content
    <3>4. Written(j, d)'
      BY <1>1, <2>0, <3>2 DEF Written, Content, Typed, TypeOK
    <3> QED BY <3>1, <3>3, <3>4
  <2>2. CASE d # docOf[j]
    <3>1. \A i \in Requests : docOf[i] = d => task'[i] = task[i]
      BY <1>1, <2>2 DEF Typed, TypeOK
    <3>2. CASE ~Exists(d)
      <4>1. \A i \in Requests : ~(docOf[i] = d /\ Busy(i))
        BY <1>3, <3>2 DEF Alone, Intact
      <4>2. Kept(d)'
        BY <1>1, <1>2, <1>3, <3>2 DEF Stored, Kept, NoPoints
      <4> QED BY <4>1, <4>2
    <3>3. CASE Exists(d)
      <4>1. rows'[NameOf[d]].status = rows[NameOf[d]].status
        BY <1>1, <2>2, <3>3, SetDocumentEffect DEF Exists
      <4>2. Kept(d)'
        BY <1>1, <1>2, <1>3, <2>0, <4>1 DEF Stored, Kept, NoPoints, Content
      <4> QED BY <1>1, <1>3, <2>0, <3>1, <4>1, <4>2 DEF Stored, Written, Content
    <3> QED BY <3>2, <3>3
  <2> QED BY <2>1, <2>2
<1> QED BY <1>1, <1>2, <1>3 DEF Stored, Intact

LEMMA DeletePointsStored ==
    ASSUME Typed, Alone, Stored, NEW x \in Names, DeletePoints(x)
    PROVE  Stored'
<1>1. PICK e \in Requests : e = del[x].id /\ rows[x].id = e /\ NameOf[e] = x /\ Exists(e)
  BY DEF DeletePoints, Typed, TypeOK, RowTyped, Exists
<1>2. /\ UNCHANGED <<rows, docOf, post, raced, lostDocs, task, version, pos>>
      /\ points' = [points EXCEPT ![e] = NoPoints] /\ del' = [del EXCEPT ![x].at = "row"]
  BY <1>1 DEF DeletePoints
<1>3. ASSUME NEW d \in Requests, Intact(d)
      PROVE  Kept(d)' /\ \A i \in Requests : docOf[i] = d /\ Busy(i) => Written(i, d)'
  <2>1. CASE d = e
    <3>1. \A i \in Requests : ~(docOf[i] = d /\ Busy(i))
      BY <1>1, <1>3, <2>1 DEF Alone, Intact, DeletePoints
    <3>2. Kept(d)'
      BY <1>1, <1>2, <2>1 DEF Kept, Exists, Typed, TypeOK, NoPoints
    <3> QED BY <3>1, <3>2
  <2>2. CASE d # e
    <3>1. points'[d] = points[d] /\ (Exists(d) => NameOf[d] # x)
      BY <1>1, <1>2, <2>2 DEF Typed, TypeOK, Exists
    <3>2. \A y \in Names \ {x} : del'[y] = del[y]
      BY <1>2 DEF Typed, TypeOK
    <3>3. points[d] = NoPoints \/ NameOf[d] # x
      BY <1>1, <1>3, <3>1 DEF Stored, Kept
    <3>4. Kept(d)'
      BY <1>2, <1>3, <3>1, <3>2, <3>3 DEF Stored, Kept, Exists, NoPoints, Content
    <3> QED BY <1>2, <1>3, <3>1, <3>4 DEF Stored, Written, Content
  <2> QED BY <2>1, <2>2
<1> QED BY <1>2, <1>3 DEF Stored, Intact, Busy, AtWork

LEMMA RestartStored == ASSUME Typed, Stored, Restart PROVE Stored'
<1>1. /\ UNCHANGED <<points, docOf, raced>> /\ lostDocs \subseteq lostDocs'
      /\ \A x \in Names : del'[x].at = "idle" /\ (del[x].at = "row" => rows[x].id \in lostDocs')
      /\ \A j \in Requests : ~Busy(j)'
  <2>1. UNCHANGED <<points, docOf, raced>> /\ lostDocs \subseteq lostDocs'
    BY DEF Restart
  <2>2. ASSUME NEW x \in Names
        PROVE  del'[x].at = "idle" /\ (del[x].at = "row" => rows[x].id \in lostDocs')
    BY DEF Restart, NotDeleting, Halfway, Typed, RowTyped
  <2>3. ASSUME NEW j \in Requests PROVE ~Busy(j)'
    BY DEF Restart, Busy, AtWork, Typed, TypeOK
  <2> QED BY <2>1, <2>2, <2>3
<1>2. \A x \in Names :
          /\ rows'[x].id = rows[x].id /\ rows'[x].version = rows[x].version
          /\ rows'[x].status = "indexed" => rows[x].status = "indexed"
  BY RestartRows
<1>3. ASSUME NEW d \in Requests, Intact(d)' PROVE Kept(d)'
  <2>1. Intact(d)
    BY <1>1, <1>3 DEF Intact
  <2>2. Exists(d)' <=> Exists(d)
    BY <1>2 DEF Exists
  <2>3. Exists(d) => del[NameOf[d]].at # "row"
    BY <1>1, <1>3 DEF Intact, Exists
  <2>4. NameOf[d] \in Names /\ Kept(d)
    BY <2>1 DEF Stored
  <2> QED BY <1>1, <1>2, <2>2, <2>3, <2>4 DEF Kept, Content
<1> QED BY <1>1, <1>3 DEF Stored

LEMMA WorkStored ==
    ASSUME Typed, Settling, Alone, Stored, NEW j \in Requests, Work(j) \/ CallFails(j)
    PROVE  Stored'
<1>1. CASE Acquire(j)
  BY <1>1 DEF Acquire, Goto, Alone, Settling, Stored, Intact, Written, Kept, Busy, Exists, AtWork,
      Typed, TypeOK, RowTyped, JobTyped, Made
<1>2. CASE ReadRow(j)
  BY <1>2 DEF ReadRow, Goto, Alone, Settling, Stored, Intact, Written, Kept, Busy, Exists, AtWork,
      Typed, TypeOK, RowTyped, JobTyped, Made
<1>3. CASE Mark(j)
  BY <1>3 DEF Mark, Goto, SetDocument, Alone, Settling, Stored, Intact, Written, Kept, Busy,
      Exists, AtWork, Typed, TypeOK, RowTyped, JobTyped, Made
<1>4. CASE Prepare(j)
  <2>1. /\ UNCHANGED <<rows, points, docOf, key, handlers, version, history>>
        /\ task[j] = "prepare" /\ task' = [task EXCEPT ![j] = "upsert"]
        /\ pos' = [pos EXCEPT ![j] = 1]
    BY <1>4 DEF Prepare, Goto
  <2>2. \A i \in Positions : ~(i < 1)
    BY DEF Positions
  <2>3. \A d, i \in Requests : Written(i, d) => Written(i, d)'
    BY <2>1, <2>2 DEF Written, Content, Typed, TypeOK
  <2>4. \A i \in Requests : Busy(i)' <=> Busy(i)
    BY <2>1 DEF Busy, AtWork, Typed, TypeOK
  <2> QED BY <2>1, <2>3, <2>4 DEF Stored, Intact, Kept, Exists, Content
<1>5. CASE Recheck(j)
  BY <1>5 DEF Recheck, Goto, Alone, Settling, Stored, Intact, Written, Kept, Busy, Exists, AtWork,
      Typed, TypeOK, RowTyped, JobTyped, Made
<1>6. CASE Purge(j)
  BY <1>6 DEF Purge, Goto, NoPoints, Alone, Settling, Stored, Intact, Written, Kept, Busy, Exists,
      AtWork, Typed, TypeOK, RowTyped, JobTyped, Made
<1>7. CASE Abandon(j)
  BY <1>7 DEF Abandon, SetJob, Goto, Alone, Settling, Stored, Intact, Written, Kept, Busy, Exists,
      AtWork, Typed, TypeOK, RowTyped, JobTyped, Made
<1>8. CASE Finish(j)
  BY <1>8 DEF Finish, SetJob, Goto, Alone, Settling, Stored, Intact, Written, Kept, Busy, Exists,
      AtWork, Typed, TypeOK, RowTyped, JobTyped, Made
<1>9. CASE FailJob(j)
  BY <1>9 DEF FailJob, SetJob, Goto, Alone, Settling, Stored, Intact, Written, Kept, Busy, Exists,
      AtWork, Typed, TypeOK, RowTyped, JobTyped, Made
<1>10. CASE FailDocument(j)
  BY <1>10 DEF FailDocument, Goto, SetDocument, Alone, Settling, Stored, Intact, Written, Kept,
      Busy, Exists, AtWork, Typed, TypeOK, RowTyped, JobTyped, Made
<1>11. CASE CallFails(j)
  BY <1>11 DEF CallFails, SetJob, Goto, Forget, Working, Alone, Settling, Stored, Intact, Written,
      Kept, Busy, Exists, AtWork, Typed, TypeOK, RowTyped, JobTyped, Made
<1> QED BY <1>1, <1>2, <1>3, <1>4, <1>5, <1>6, <1>7, <1>8, <1>9, <1>10, <1>11,
           UpsertStored, DropTailStored,
           PublishStored DEF Work

LEMMA StoredStep == ASSUME Typed, Settling, Alone, Stored, [Next]_vars PROVE Stored'
<1>1. ASSUME NEW q \in Requests, Lookup(q) PROVE Stored'
  BY <1>1 DEF Lookup, Alone, Settling, Stored, Intact, Written, Kept, Busy, Exists, AtWork, Typed,
      TypeOK, RowTyped, JobTyped, Made
<1>2. ASSUME NEW q \in Requests, InsertFinishedJob(q) PROVE Stored'
  BY <1>2 DEF InsertFinishedJob, SawNothing, Alone, Settling, Stored, Intact, Written, Kept, Busy,
      Exists, AtWork, Typed, TypeOK, RowTyped, JobTyped, Made
<1>3. ASSUME NEW q \in Requests, CommitIngest(q) PROVE Stored'
  BY <1>3 DEF CommitIngest, InsertJob, Occupied, Alone, Settling, Stored, Intact, Written, Kept,
      Busy, Exists, AtWork, Typed, TypeOK, RowTyped, JobTyped, Made
<1>4. ASSUME NEW q \in Requests, Rollback(q) PROVE Stored'
  BY <1>4 DEF Rollback, SawNothing, Alone, Settling, Stored, Intact, Written, Kept, Busy, Exists,
      AtWork, Typed, TypeOK, RowTyped, JobTyped, Made
<1>5. ASSUME NEW q \in Requests, Submit(q) PROVE Stored'
  BY <1>5 DEF Submit, Alone, Settling, Stored, Intact, Written, Kept, Busy, Exists, AtWork, Typed,
      TypeOK, RowTyped, JobTyped, Made
<1>6. ASSUME NEW q \in Requests, PostError(q) PROVE Stored'
  BY <1>6 DEF PostError, SawNothing, Alone, Settling, Stored, Intact, Written, Kept, Busy, Exists,
      AtWork, Typed, TypeOK, RowTyped, JobTyped, Made
<1>7. ASSUME NEW x \in Names, DeleteStart(x) PROVE Stored'
  BY <1>7 DEF DeleteStart, Occupied, Alone, Settling, Stored, Intact, Written, Kept, Busy, Exists,
      AtWork, Typed, TypeOK, RowTyped, JobTyped, Made
<1>8. ASSUME NEW x \in Names, DeleteRow(x) PROVE Stored'
  BY <1>8 DEF DeleteRow, NotDeleting, NoRow, Alone, Settling, Stored, Intact, Written, Kept, Busy,
      Exists, AtWork, Typed, TypeOK, RowTyped, JobTyped, Made
<1>9. ASSUME NEW x \in Names, DeleteFails(x) PROVE Stored'
  BY <1>9 DEF DeleteFails, NotDeleting, Halfway, Alone, Settling, Stored, Intact, Written, Kept,
      Busy, Exists, AtWork, Typed, TypeOK, RowTyped, JobTyped, Made
<1>10. CASE UNCHANGED vars
  BY <1>10 DEF vars, Stored, Intact, Written, Kept, Busy, AtWork, Exists
<1> QED BY <1>1, <1>2, <1>3, <1>4, <1>5, <1>6, <1>7, <1>8, <1>9, <1>10,
           WorkStored, DeletePointsStored,
           RestartStored DEF Next, Commit, Delete

LEMMA StoredAlways == Spec => [](Typed /\ Settling /\ Alone /\ Stored)
<1>1. Init => Settling /\ Alone /\ Stored
  BY DEF Init, Settling, Alone, Stored, Kept, Busy, AtWork, Exists, NoRow, NotDeleting
<1> QED BY <1>1, SettlingStep, AloneStep, StoredStep, TypedAlways, PTL DEF Spec

\* An indexed document at rest is found as exactly the version of its row,
\* unless two jobs or a job and a DELETE raced for it, or a call that would
\* have settled it raised: the last call of a POST or of a failing job, or the
\* second call of a DELETE that has dropped the points already.
THEOREM IndexedTheorem == Spec => []IndexedIsContent
<1>1. Typed /\ Stored => IndexedIsContent
  <2> SUFFICES ASSUME Typed, Stored, NEW x \in Names, rows[x].status = "indexed",
                      AtRest(rows[x].id), Intact(rows[x].id)
               PROVE  points[rows[x].id] = Content(rows[x].version)
    BY DEF IndexedIsContent
  <2>1. rows[x].id \in Requests /\ NameOf[rows[x].id] = x
    BY DEF Typed, TypeOK, RowTyped
  <2>2. del[x].at # "row"
    BY DEF AtRest, Typed, RowTyped
  <2> QED BY <2>1, <2>2 DEF Stored, Kept, Exists
<1> QED BY <1>1, StoredAlways, PTL

\* Once no DELETE will drop the points of a document any more, one that has
\* points has a job that is still to recheck or to purge.
Swept ==
    \A d \in Requests : Unswept(d) /\ d \notin missed =>
        points[d] = NoPoints \/ \E j \in Requests : Sweeper(j, d)

\* What a step other than a restart does to the sweeping of a document.
LEMMA SweptByJob ==
    ASSUME Typed, Swept, NEW j \in Requests, Work(j) \/ CallFails(j)
    PROVE  Swept'
<1>0. /\ docOf[j] \in Requests /\ UNCHANGED <<docOf, del>> /\ missed \subseteq missed'
      /\ \A i \in Requests \ {j} : task'[i] = task[i]
      /\ \A x \in Names : rows'[x].id = rows[x].id
  <2>1. missed \subseteq missed'
    BY DEF Work, Acquire, ReadRow, Mark, Prepare, Upsert, DropTail, Recheck, Purge, Abandon,
        Publish, Finish, FailJob, FailDocument, CallFails
  <2> QED BY <2>1, WorkFrame DEF handlers
<1>1. \A d \in Requests : Unswept(d)' <=> Unswept(d)
  BY <1>0 DEF Unswept, Exists
<1>2. \A i, d \in Requests : i # j => (Sweeper(i, d)' <=> Sweeper(i, d))
  BY <1>0 DEF Sweeper
<1>3. \A d \in Requests : d # docOf[j] => ~Sweeper(j, d) /\ ~Sweeper(j, d)' /\ points'[d] = points[d]
  <2>1. points' = points \/ \E p : points' = [points EXCEPT ![docOf[j]] = p]
    BY DEF Work, Acquire, ReadRow, Mark, Prepare, Upsert, DropTail, Recheck, Purge, Abandon,
        Publish, Finish, FailJob, FailDocument, CallFails
  <2> QED BY <1>0, <2>1 DEF Sweeper, Typed, TypeOK
<1>4. ASSUME NEW d \in Requests, d = docOf[j], Unswept(d), d \notin missed'
      PROVE  points'[d] = NoPoints \/ \E i \in Requests : Sweeper(i, d)'
  <2>1. CASE Sweeper(j, d)'
    BY <2>1
  <2>2. CASE ~Sweeper(j, d)'
    <3>1. Sweeper(j, d) => points'[d] = NoPoints
      BY <1>0, <1>4, <2>2 DEF Sweeper, Unswept, Exists, Goto, Work, Acquire, ReadRow, Mark, Prepare,
          Upsert, DropTail, Recheck, Purge, Abandon, Publish, Finish, FailJob, FailDocument, CallFails,
          Typed, TypeOK
    <3>2. ~Sweeper(j, d) => points' = points
      BY <1>4 DEF Sweeper, Work, Acquire, ReadRow, Mark, Prepare, Upsert, DropTail, Recheck, Purge,
          Abandon, Publish, Finish, FailJob, FailDocument, CallFails
    <3>3. points[d] = NoPoints \/ \E i \in Requests : Sweeper(i, d)
      BY <1>0, <1>4 DEF Swept
    <3> QED BY <1>2, <3>1, <3>2, <3>3 DEF NoPoints
  <2> QED BY <2>1, <2>2
<1>5. ASSUME NEW d \in Requests, d # docOf[j], Unswept(d), d \notin missed'
      PROVE  points'[d] = NoPoints \/ \E i \in Requests : Sweeper(i, d)'
  BY <1>0, <1>2, <1>3, <1>5 DEF Swept
<1> QED BY <1>1, <1>4, <1>5 DEF Swept, NoPoints

LEMMA SweptStep == ASSUME Typed, Swept, [Next]_vars PROVE Swept'
<1>1. ASSUME NEW q \in Requests, Lookup(q) \/ InsertFinishedJob(q) \/ CommitIngest(q) \/ Rollback(q)
                                 \/ Submit(q) \/ PostError(q)
      PROVE  Swept'
  <2>1. UNCHANGED <<points, del, missed>>
    BY <1>1 DEF Lookup, InsertFinishedJob, CommitIngest, InsertJob, Rollback, Submit, PostError
  <2>2. ASSUME NEW i \in Requests, NEW d \in Requests, Sweeper(i, d) PROVE Sweeper(i, d)'
    BY <1>1, <2>2 DEF Lookup, InsertFinishedJob, CommitIngest, InsertJob, Rollback, Submit,
        PostError, Sweeper, Typed, TypeOK, JobTyped, Made
  <2>3. ASSUME NEW d \in Requests, Exists(d) PROVE Exists(d)'
    BY <1>1, <2>3 DEF Lookup, InsertFinishedJob, CommitIngest, InsertJob, Rollback, Submit,
        PostError, Exists, Typed, TypeOK
  <2> QED BY <2>1, <2>2, <2>3 DEF Swept, Unswept, NoPoints
<1>2. ASSUME NEW x \in Names, DeletePoints(x) PROVE Swept'
  <2>1. PICK e \in Requests : e = del[x].id /\ NameOf[e] = x
    BY <1>2 DEF DeletePoints, Typed, TypeOK, RowTyped
  <2>2. points' = [points EXCEPT ![e] = NoPoints] /\ UNCHANGED <<rows, docOf, task, missed>>
    BY <1>2, <2>1 DEF DeletePoints
  <2>3. del' = [del EXCEPT ![x].at = "row"]
    BY <1>2 DEF DeletePoints
  <2>4. \A d \in Requests : d # e /\ Exists(d) => NameOf[d] # x
    BY <1>2, <2>1 DEF DeletePoints, Exists, Typed, RowTyped
  <2>5. points'[e] = NoPoints
    BY <2>2 DEF Typed, TypeOK
  <2>6. ASSUME NEW d \in Requests, d # e PROVE points'[d] = points[d] /\ (Unswept(d)' => Unswept(d))
    BY <2>2, <2>3, <2>4, <2>6 DEF Unswept, Exists, Typed, TypeOK
  <2> QED BY <2>2, <2>5, <2>6 DEF Swept, Sweeper, NoPoints
<1>3. ASSUME NEW x \in Names, DeleteStart(x) \/ DeleteRow(x) \/ DeleteFails(x) PROVE Swept'
  <2>1. UNCHANGED <<points, docOf, task, missed>>
    BY <1>3 DEF DeleteStart, DeleteRow, DeleteFails
  <2>2. ASSUME NEW d \in Requests, Unswept(d)' PROVE Unswept(d)
    <3>1. CASE DeleteStart(x)
      BY <2>2, <3>1 DEF DeleteStart, Unswept, Exists, Typed, TypeOK
    <3>2. CASE DeleteFails(x)
      BY <2>2, <3>2 DEF DeleteFails, NotDeleting, Unswept, Exists, Typed, TypeOK
    <3>3. CASE DeleteRow(x)
      <4>1. del[x].at = "row" /\ rows[x].id = del[x].id /\ NameOf[rows[x].id] = x
        BY <3>3 DEF DeleteRow, Typed, RowTyped
      <4>2. /\ \A y \in Names \ {x} : rows'[y] = rows[y] /\ del'[y] = del[y]
            /\ del'[x].at = "idle"
        BY <3>3 DEF DeleteRow, NotDeleting, Typed, TypeOK
      <4>3. CASE NameOf[d] = x
        BY <4>1, <4>3 DEF Unswept
      <4>4. CASE NameOf[d] # x
        BY <2>2, <4>2, <4>4 DEF Unswept, Exists
      <4> QED BY <4>3, <4>4
    <3> QED BY <1>3, <3>1, <3>2, <3>3
  <2> QED BY <2>1, <2>2 DEF Swept, Sweeper, NoPoints
<1>4. CASE Restart
  <2>1. /\ UNCHANGED <<points, docOf>> /\ \A x \in Names : del'[x].at = "idle"
        /\ missed' = missed \cup {d \in Requests : ~Exists(d) /\ \E j \in Requests : Sweeper(j, d)}
    BY <1>4 DEF Restart, NotDeleting
  <2>2. \A d \in Requests : Exists(d)' <=> Exists(d)
    BY <1>4, RestartRows DEF Exists
  <2>3. \A d \in Requests : Unswept(d)' => ~Exists(d)
    BY <2>1, <2>2 DEF Unswept
  <2> QED BY <2>1, <2>3 DEF Swept, Unswept, NoPoints
<1>5. CASE UNCHANGED vars
  BY <1>5 DEF vars, Swept, Unswept, Sweeper, Exists, NoPoints
<1> QED BY <1>1, <1>2, <1>3, <1>4, <1>5, SweptByJob DEF Next, Commit, Delete

\* A deleted document leaves no point behind, whatever jobs and requests meet
\* its DELETE, but for a job that rechecks between the two calls of the DELETE
\* or fails or is killed before it has purged.
THEOREM DeletedTheorem == Spec => []DeletedIsGone
<1>1. Init => Swept
  BY DEF Init, Swept
<1>2. Typed /\ Swept /\ [Next]_vars => Swept'
  BY SweptStep
<1>3. Swept => DeletedIsGone
  BY DEF Swept, DeletedIsGone, Unswept, Sweeper, AtRest, Occupied, AtWork
<1> QED BY <1>1, <1>2, <1>3, TypedAlways, PTL DEF Spec

Gapless ==
    \A d \in Requests :
        points[d][1] # Nil /\ Exists(d) /\ (\A x \in Names : del[x].id # d)
            => points'[d][1] # Nil

\* A document that has a first chunk keeps one while it exists and nobody
\* deletes it, whatever jobs overwrite it.
THEOREM GapTheorem == Spec => NoGapInSearch
<1>1. ASSUME Typed, Settling, [Next]_vars PROVE Gapless
  <2>1. CASE UNCHANGED points
    BY <2>1 DEF Gapless
  <2>2. ASSUME NEW j \in Requests, Upsert(j) PROVE Gapless
    <3>1. version[j] # Nil /\ points' = [points EXCEPT ![docOf[j]][pos[j]] = version[j]]
      BY <1>1, <2>2 DEF Upsert, Typed, JobTyped
    <3>2. ASSUME NEW d \in Requests PROVE points'[d][1] \in {points[d][1], version[j]}
      BY <1>1, <3>1 DEF Typed, TypeOK, Positions
    <3> QED BY <3>1, <3>2 DEF Gapless
  <2>3. ASSUME NEW j \in Requests, DropTail(j) PROVE Gapless
    <3>1. /\ LenOf[version[j]] \in 1..MaxLen
          /\ points' = [points EXCEPT ![docOf[j]] =
                           [i \in Positions |-> IF i > LenOf[version[j]] THEN Nil ELSE @[i]]]
      BY <1>1, <2>3 DEF DropTail, Typed, JobTyped
    <3>2. 1 \in Positions /\ ~(1 > LenOf[version[j]])
      BY <3>1 DEF Positions
    <3>3. ASSUME NEW d \in Requests PROVE points'[d][1] = points[d][1]
      BY <1>1, <3>1, <3>2 DEF Typed, TypeOK
    <3> QED BY <3>3 DEF Gapless
  <2>4. ASSUME NEW j \in Requests, Purge(j) PROVE Gapless
    BY <1>1, <2>4 DEF Purge, Typed, TypeOK, JobTyped, Settling, Gapless
  <2>5. ASSUME NEW x \in Names, DeletePoints(x) PROVE Gapless
    BY <1>1, <2>5 DEF DeletePoints, Typed, TypeOK, Gapless
  <2>6. ASSUME NEW j \in Requests, Work(j) \/ CallFails(j)
        PROVE  UNCHANGED points \/ Upsert(j) \/ DropTail(j) \/ Purge(j)
    BY <2>6 DEF Work, Acquire, ReadRow, Mark, Prepare, Recheck, Abandon, Publish, Finish, FailJob,
        FailDocument, CallFails
  <2>7. ASSUME NEW q \in Requests, Lookup(q) \/ Commit(q) \/ Submit(q) \/ PostError(q)
        PROVE  UNCHANGED points
    BY <2>7 DEF Commit, Lookup, InsertFinishedJob, CommitIngest, InsertJob, Rollback, Submit,
        PostError
  <2>8. ASSUME NEW x \in Names, DeleteStart(x) \/ Delete(x) \/ DeleteFails(x)
        PROVE  UNCHANGED points \/ DeletePoints(x)
    BY <2>8 DEF DeleteStart, Delete, DeleteRow, DeleteFails
  <2>9. Restart \/ UNCHANGED vars => UNCHANGED points
    BY DEF Restart, vars
  <2> QED BY <1>1, <2>1, <2>2, <2>3, <2>4, <2>5, <2>6, <2>7, <2>8, <2>9 DEF Next
<1>2. Typed /\ Settling /\ [Next]_vars => [Gapless]_vars
  BY <1>1
<1> QED BY <1>2, StoredAlways, PTL DEF Spec, NoGapInSearch, Gapless

================================================================================
