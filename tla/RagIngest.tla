------------------------------ MODULE RagIngest ------------------------------
(***************************************************************************)
(* Documents of the RAG service: POST and DELETE of a document             *)
(* (api/documents.py), Database.create_ingest and the tables it writes     *)
(* (store/postgres.py), the background job (ingest/pipeline.py) and the    *)
(* points of the vector store (store/qdrant.py).                           *)
(*                                                                         *)
(* The steps are the calls to PostgreSQL and Qdrant; between two of them   *)
(* other handlers and jobs run.  A request creates at most one job and at  *)
(* most one row, so its name also stands for both ids.  A version stands   *)
(* for source, content_hash, metadata and chunking together.               *)
(***************************************************************************)
EXTENDS Naturals, FiniteSets

CONSTANTS
    Requests,     \* POST requests
    Names,        \* external_id values of one collection
    Keys,         \* Idempotency-Key values
    Versions,     \* contents of a document
    NameOf, KeyOf, VersionOf,   \* what a request asks for
    LenOf,        \* the chunks a version is cut into
    Concurrency,  \* IngestPipeline(concurrency=...)
    MaxLen,       \* bound: the longest document
    MaxFaults,    \* bound: how many calls raise
    MaxRestarts,  \* bound: how often the process is killed
    MaxDeletes,   \* bound: DELETE requests
    Nil

ASSUME RequestsAssumption ==
    /\ NameOf \in [Requests -> Names]
    /\ KeyOf \in [Requests -> Keys \cup {Nil}]
    /\ VersionOf \in [Requests -> Versions]
ASSUME LenAssumption == LenOf \in [Versions -> 1..MaxLen]
ASSUME NilAssumption == Nil \notin Requests \cup Keys \cup Versions
ASSUME BoundsAssumption ==
    /\ Concurrency \in Nat \ {0} /\ MaxLen \in Nat
    /\ MaxFaults \in Nat /\ MaxRestarts \in Nat /\ MaxDeletes \in Nat

VARIABLES
    rows,      \* rag.documents by external_id: id, version and status
    points,    \* Qdrant: by document id and position, the version stored there
    job,       \* rag.jobs.status; a cascaded delete leaves "gone"
    docOf,     \* rag.jobs.document_id
    key,       \* rag.idempotency_keys: the job of a key
    post,      \* where a POST stands
    saw,       \* create_ingest: the row its lookups saw, and if it was unchanged
    answer,    \* the job a POST was answered
    task,      \* the call a job's asyncio task waits for
    version,   \* run(): the version of the row it read
    pos,       \* run(): the next position to upsert
    del,       \* a DELETE handler: the document it deletes and where it stands
    raced,     \* history: documents changed or deleted while a job had them
    missed,    \* history: documents a job left points of that nobody will sweep
    lostDocs,  \* history: documents whose last call raised or was cut off
    lostJobs,  \* history: jobs whose last call raised
    faults, restarts, deletes

store    == <<rows, points, job, docOf, key>>
handlers == <<post, saw, answer, del>>
workers  == <<task, version, pos>>
history  == <<raced, missed, lostDocs, lostJobs, faults, restarts, deletes>>
vars     == <<store, handlers, workers, history>>

Positions == 1..MaxLen
NoRow     == [id |-> Nil, version |-> Nil, status |-> "absent"]
NoPoints  == [i \in Positions |-> Nil]
Content(v) == [i \in Positions |-> IF i <= LenOf[v] THEN v ELSE Nil]

Working == {"read", "mark", "prepare", "upsert", "tail", "recheck", "purge", "abandon",
            "publish", "finish", "fail_job", "fail_doc"}
Pending == {"queued", "running"}

TypeOK ==
    /\ rows \in [Names -> [id : Requests \cup {Nil}, version : Versions \cup {Nil},
                 status : {"absent", "queued", "processing", "indexed", "failed"}]]
    /\ points \in [Requests -> [Positions -> Versions \cup {Nil}]]
    /\ job \in [Requests -> {"absent", "succeeded", "failed", "gone"} \cup Pending]
    /\ docOf \in [Requests -> Requests \cup {Nil}]
    /\ key \in [Keys -> Requests \cup {Nil}]
    /\ post \in [Requests -> {"new", "commit", "submit", "202", "500", "lost"}]
    /\ saw \in [Requests -> [id : Requests \cup {Nil}, same : BOOLEAN]]
    /\ answer \in [Requests -> Requests \cup {Nil}]
    /\ task \in [Requests -> {"none", "waiting", "ended"} \cup Working]
    /\ version \in [Requests -> Versions \cup {Nil}]
    /\ pos \in [Requests -> 1..MaxLen + 1]
    /\ del \in [Names -> [id : Requests \cup {Nil}, at : {"idle", "points", "row"}]]
    /\ raced \subseteq Requests /\ missed \subseteq Requests
    /\ lostDocs \subseteq Requests /\ lostJobs \subseteq Requests
    /\ faults \in 0..MaxFaults /\ restarts \in 0..MaxRestarts /\ deletes \in 0..MaxDeletes

SawNothing  == [id |-> Nil, same |-> FALSE]
NotDeleting == [id |-> Nil, at |-> "idle"]

Init ==
    /\ rows = [x \in Names |-> NoRow]
    /\ points = [q \in Requests |-> NoPoints]
    /\ job = [q \in Requests |-> "absent"]
    /\ docOf = [q \in Requests |-> Nil]
    /\ key = [k \in Keys |-> Nil]
    /\ post = [q \in Requests |-> "new"]
    /\ saw = [q \in Requests |-> SawNothing]
    /\ answer = [q \in Requests |-> Nil]
    /\ task = [q \in Requests |-> "none"]
    /\ version = [q \in Requests |-> Nil]
    /\ pos = [q \in Requests |-> 1]
    /\ del = [x \in Names |-> NotDeleting]
    /\ raced = {} /\ missed = {} /\ lostDocs = {} /\ lostJobs = {}
    /\ faults = 0 /\ restarts = 0 /\ deletes = 0

Exists(d)   == rows[NameOf[d]].id = d
AtWork(j)   == task[j] \notin {"none", "ended"}
Occupied(d) == \E j \in Requests : docOf[j] = d /\ (AtWork(j) \/ post[j] = "submit")

-----------------------------------------------------------------------------
(* POST /v1/collections/{collection}/documents *)

\* create_ingest, the lookups: a known key answers its job; otherwise the row
\* of the name, and whether it is indexed with this very version.
Lookup(q) ==
    LET k == KeyOf[q]
        r == rows[NameOf[q]]
        known == k # Nil /\ key[k] # Nil /\ job[key[k]] # "gone"
    IN
    /\ post[q] = "new"
    /\ post' = [post EXCEPT ![q] = IF known THEN "202" ELSE "commit"]
    /\ answer' = [answer EXCEPT ![q] = IF known THEN key[k] ELSE Nil]
    /\ saw' = [saw EXCEPT ![q] = IF known THEN SawNothing ELSE
                  [id |-> r.id, same |-> r.status = "indexed" /\ r.version = VersionOf[q]]]
    /\ UNCHANGED <<store, del, workers, history>>

KeyFree(q) == \A k \in Keys : KeyOf[q] = k => key[k] = Nil
TakeKey(q) == key' = [k \in Keys |-> IF KeyOf[q] = k THEN q ELSE key[k]]

\* The unchanged document gets a job that has already succeeded.
InsertFinishedJob(q) ==
    /\ post[q] = "commit" /\ saw[q].same
    /\ KeyFree(q) /\ Exists(saw[q].id)
    /\ TakeKey(q)
    /\ job' = [job EXCEPT ![q] = "succeeded"]
    /\ docOf' = [docOf EXCEPT ![q] = saw[q].id]
    /\ post' = [post EXCEPT ![q] = "202"]
    /\ saw' = [saw EXCEPT ![q] = SawNothing]
    /\ answer' = [answer EXCEPT ![q] = q]
    /\ UNCHANGED <<rows, points, del, workers, history>>

\* The row of the name is reset, or a row inserted, with a queued job.
InsertJob(q) ==
    LET x == NameOf[q]
        d == IF rows[x].id = Nil THEN q ELSE rows[x].id
    IN
    /\ TakeKey(q)
    /\ rows' = [rows EXCEPT ![x] = [id |-> d, version |-> VersionOf[q], status |-> "queued"]]
    /\ job' = [job EXCEPT ![q] = "queued"]
    /\ docOf' = [docOf EXCEPT ![q] = d]
    /\ raced' = IF Occupied(d) \/ del[x].at # "idle" THEN raced \cup {d} ELSE raced
    /\ UNCHANGED points

\* Mutant of CommitIngest: the key is looked up but not inserted under its
\* primary key, so a concurrent twin commits as well.
CommitIngestTwice(q) ==
    /\ post[q] = "commit" /\ ~saw[q].same
    /\ InsertJob(q)
    /\ post' = [post EXCEPT ![q] = "submit"]
    /\ saw' = [saw EXCEPT ![q] = SawNothing]
    /\ UNCHANGED <<answer, del, workers, missed, lostDocs, lostJobs, faults, restarts, deletes>>

CommitIngest(q) ==
    /\ post[q] = "commit" /\ ~saw[q].same
    /\ KeyFree(q)
    /\ InsertJob(q)
    /\ post' = [post EXCEPT ![q] = "submit"]
    /\ saw' = [saw EXCEPT ![q] = SawNothing]
    /\ UNCHANGED <<answer, del, workers, missed, lostDocs, lostJobs, faults, restarts, deletes>>

\* The key is taken, the unchanged document is gone, or a concurrent insert of
\* the same external_id won: the transaction is rolled back, the answer is 500.
Rollback(q) ==
    /\ post[q] = "commit"
    /\ \/ ~KeyFree(q)
       \/ saw[q].same /\ ~Exists(saw[q].id)
       \/ saw[q].id = Nil /\ rows[NameOf[q]].id # Nil
    /\ post' = [post EXCEPT ![q] = "500"]
    /\ saw' = [saw EXCEPT ![q] = SawNothing]
    /\ UNCHANGED <<store, answer, del, workers, history>>

\* pipeline.submit, once create_ingest has returned.
Submit(q) ==
    /\ post[q] = "submit"
    /\ task' = [task EXCEPT ![q] = "waiting"]
    /\ post' = [post EXCEPT ![q] = "202"]
    /\ answer' = [answer EXCEPT ![q] = q]
    /\ UNCHANGED <<store, saw, del, version, pos, history>>

\* PostgreSQL raises; a transaction whose commit was not acknowledged stays.
PostError(q) ==
    /\ post[q] \in {"commit", "submit"}
    /\ faults < MaxFaults
    /\ faults' = faults + 1
    /\ post' = [post EXCEPT ![q] = "500"]
    /\ lostJobs' = IF post[q] = "submit" THEN lostJobs \cup {q} ELSE lostJobs
    /\ lostDocs' = IF post[q] = "submit" THEN lostDocs \cup {docOf[q]} ELSE lostDocs
    /\ saw' = [saw EXCEPT ![q] = SawNothing]
    /\ UNCHANGED <<store, answer, del, workers, raced, missed, restarts, deletes>>

-----------------------------------------------------------------------------
(* The job: IngestPipeline._guarded, run and _fail. *)

Goto(j, l) == task' = [task EXCEPT ![j] = l]
Forget(j)  == version' = [version EXCEPT ![j] = Nil] /\ pos' = [pos EXCEPT ![j] = 1]

\* No DELETE will drop the points of a document any more: it did, or it is over.
Unswept(d) == ~Exists(d) \/ del[NameOf[d]].at = "row"
\* A job that may have written points and is still to recheck or to purge.
Sweeper(j, d) == docOf[j] = d /\ task[j] \in {"upsert", "tail", "recheck", "purge"}

\* The semaphore lets Concurrency jobs in.
Acquire(j) ==
    /\ task[j] = "waiting"
    /\ Cardinality({i \in Requests : task[i] \in Working}) < Concurrency
    /\ Goto(j, "read")
    /\ UNCHANGED <<store, handlers, version, pos, history>>

\* get_document_row: the job works on the version it reads here.
ReadRow(j) ==
    LET d == docOf[j] IN
    /\ task[j] = "read"
    /\ Goto(j, IF Exists(d) THEN "mark" ELSE "fail_job")
    /\ version' = [version EXCEPT ![j] = IF Exists(d) THEN rows[NameOf[d]].version ELSE Nil]
    /\ UNCHANGED <<store, handlers, pos, history>>

\* UPDATE ... WHERE id: nothing happens to a row or a job that is gone.
SetDocument(d, s) ==
    rows' = IF Exists(d) THEN [rows EXCEPT ![NameOf[d]].status = s] ELSE rows
SetJob(j, s) ==
    job' = IF job[j] = "gone" THEN job ELSE [job EXCEPT ![j] = s]

Mark(j) ==
    /\ task[j] = "mark"
    /\ SetDocument(docOf[j], "processing")
    /\ Goto(j, "prepare")
    /\ UNCHANGED <<points, job, docOf, key, handlers, version, pos, history>>

\* Mutant of Prepare: the old points are dropped before the new are written.
PrepareDropFirst(j) ==
    /\ task[j] = "prepare"
    /\ SetJob(j, "running")
    /\ points' = [points EXCEPT ![docOf[j]] = NoPoints]
    /\ pos' = [pos EXCEPT ![j] = 1]
    /\ Goto(j, "upsert")
    /\ UNCHANGED <<rows, docOf, key, handlers, version, history>>

\* The stages load, parse, chunk and embed.
Prepare(j) ==
    /\ task[j] = "prepare"
    /\ SetJob(j, "running")
    /\ pos' = [pos EXCEPT ![j] = 1]
    /\ Goto(j, "upsert")
    /\ UNCHANGED <<rows, points, docOf, key, handlers, version, history>>

\* One batch: the points of this document and position are overwritten.
Upsert(j) ==
    /\ task[j] = "upsert"
    /\ points' = [points EXCEPT ![docOf[j]][pos[j]] = version[j]]
    /\ pos' = [pos EXCEPT ![j] = @ + 1]
    /\ Goto(j, IF pos[j] = LenOf[version[j]] THEN "tail" ELSE "upsert")
    /\ UNCHANGED <<rows, job, docOf, key, handlers, version, history>>

\* Mutant of DropTail: what a longer previous version left is kept.
DropTailNever(j) ==
    /\ task[j] = "tail"
    /\ Goto(j, "recheck")
    /\ Forget(j)
    /\ UNCHANGED <<store, handlers, history>>

DropTail(j) ==
    /\ task[j] = "tail"
    /\ points' = [points EXCEPT ![docOf[j]] =
                     [i \in Positions |-> IF i > LenOf[version[j]] THEN Nil ELSE @[i]]]
    /\ Goto(j, "recheck")
    /\ Forget(j)
    /\ UNCHANGED <<rows, job, docOf, key, handlers, history>>

\* Mutant of Recheck: nobody looks whether the document is still there.
RecheckNever(j) ==
    /\ task[j] = "recheck"
    /\ Goto(j, "publish")
    /\ missed' = IF Exists(docOf[j]) /\ Unswept(docOf[j]) THEN missed \cup {docOf[j]} ELSE missed
    /\ UNCHANGED <<store, handlers, version, pos, raced, lostDocs, lostJobs,
                   faults, restarts, deletes>>

\* Was the document deleted while it was indexed?
Recheck(j) ==
    /\ task[j] = "recheck"
    /\ Goto(j, IF Exists(docOf[j]) THEN "publish" ELSE "purge")
    /\ missed' = IF Exists(docOf[j]) /\ Unswept(docOf[j]) THEN missed \cup {docOf[j]} ELSE missed
    /\ UNCHANGED <<store, handlers, version, pos, raced, lostDocs, lostJobs,
                   faults, restarts, deletes>>

Purge(j) ==
    /\ task[j] = "purge"
    /\ points' = [points EXCEPT ![docOf[j]] = NoPoints]
    /\ Goto(j, "abandon")
    /\ UNCHANGED <<rows, job, docOf, key, handlers, version, pos, history>>

Abandon(j) ==
    /\ task[j] = "abandon"
    /\ SetJob(j, "failed")
    /\ Goto(j, "ended")
    /\ UNCHANGED <<rows, points, docOf, key, handlers, version, pos, history>>

Publish(j) ==
    /\ task[j] = "publish"
    /\ SetDocument(docOf[j], "indexed")
    /\ Goto(j, "finish")
    /\ UNCHANGED <<points, job, docOf, key, handlers, version, pos, history>>

Finish(j) ==
    /\ task[j] = "finish"
    /\ SetJob(j, "succeeded")
    /\ Goto(j, "ended")
    /\ UNCHANGED <<rows, points, docOf, key, handlers, version, pos, history>>

\* Mutant of FailJob: the document is left as it is.
FailJobOnly(j) ==
    /\ task[j] = "fail_job"
    /\ SetJob(j, "failed")
    /\ Goto(j, "ended")
    /\ UNCHANGED <<rows, points, docOf, key, handlers, version, pos, history>>

FailJob(j) ==
    /\ task[j] = "fail_job"
    /\ SetJob(j, "failed")
    /\ Goto(j, "fail_doc")
    /\ UNCHANGED <<rows, points, docOf, key, handlers, version, pos, history>>

FailDocument(j) ==
    /\ task[j] = "fail_doc"
    /\ SetDocument(docOf[j], "failed")
    /\ Goto(j, "ended")
    /\ UNCHANGED <<points, job, docOf, key, handlers, version, pos, history>>

\* Mutant of CallFails: the error ends the task without _fail.
CallFailsSilently(j) ==
    /\ task[j] \in Working
    /\ faults < MaxFaults
    /\ faults' = faults + 1
    /\ Goto(j, "ended")
    /\ lostDocs' = lostDocs \cup {docOf[j]}
    /\ Forget(j)
    /\ UNCHANGED <<store, handlers, raced, missed, lostJobs, restarts, deletes>>

\* A call raises; where it raises after it took effect, that is the same as
\* the next call raising, but for the last one.  An error in _fail is only
\* logged.
CallFails(j) ==
    LET failing == task[j] \in {"fail_job", "fail_doc"} IN
    /\ task[j] \in Working
    /\ faults < MaxFaults
    /\ faults' = faults + 1
    /\ \/ task[j] = "finish" /\ SetJob(j, "succeeded")
       \/ UNCHANGED job
    /\ Goto(j, IF failing THEN "ended" ELSE "fail_job")
    /\ lostJobs' = IF task[j] = "fail_job" THEN lostJobs \cup {j} ELSE lostJobs
    /\ lostDocs' = IF failing THEN lostDocs \cup {docOf[j]} ELSE lostDocs
    /\ missed' = missed \cup {d \in Requests : Sweeper(j, d) /\ Unswept(d)}
    /\ Forget(j)
    /\ UNCHANGED <<rows, points, docOf, key, handlers, raced, restarts, deletes>>

-----------------------------------------------------------------------------
(* DELETE of a document, and the process. *)

\* The row is there; exists(collection) is answered with yes.
DeleteStart(x) ==
    LET d == rows[x].id IN
    /\ del[x].at = "idle"
    /\ d # Nil
    /\ deletes < MaxDeletes
    /\ deletes' = deletes + 1
    /\ del' = [del EXCEPT ![x] = [id |-> d, at |-> "points"]]
    /\ raced' = IF Occupied(d) THEN raced \cup {d} ELSE raced
    /\ UNCHANGED <<store, post, saw, answer, workers, missed, lostDocs, lostJobs, faults, restarts>>

DeletePoints(x) ==
    /\ del[x].at = "points"
    /\ points' = [points EXCEPT ![del[x].id] = NoPoints]
    /\ del' = [del EXCEPT ![x].at = "row"]
    /\ UNCHANGED <<rows, job, docOf, key, post, saw, answer, workers, history>>

\* The row goes, and its jobs by cascade; the idempotency keys stay.
DeleteRow(x) ==
    LET d == del[x].id IN
    /\ del[x].at = "row"
    /\ rows' = IF Exists(d) THEN [rows EXCEPT ![x] = NoRow] ELSE rows
    /\ job' = [j \in Requests |-> IF docOf[j] = d THEN "gone" ELSE job[j]]
    /\ del' = [del EXCEPT ![x] = NotDeleting]
    /\ UNCHANGED <<points, docOf, key, post, saw, answer, workers, history>>

Halfway(x) == del[x].at = "row"

DeleteFails(x) ==
    /\ del[x].at # "idle"
    /\ faults < MaxFaults
    /\ faults' = faults + 1
    /\ del' = [del EXCEPT ![x] = NotDeleting]
    /\ lostDocs' = IF Halfway(x) THEN lostDocs \cup {del[x].id} ELSE lostDocs
    /\ UNCHANGED <<store, post, saw, answer, workers, raced, missed, lostJobs, restarts, deletes>>

\* Mutants of FailStaleJobs: queued jobs, or the documents, are forgotten.
FailRunningJobs ==
    /\ job' = [j \in Requests |-> IF job[j] = "running" THEN "failed" ELSE job[j]]
    /\ rows' = [x \in Names |-> IF rows[x].status \in {"queued", "processing"}
                                THEN [rows[x] EXCEPT !.status = "failed"] ELSE rows[x]]
FailJobsOnly ==
    /\ job' = [j \in Requests |-> IF job[j] \in Pending THEN "failed" ELSE job[j]]
    /\ rows' = rows

FailStaleJobs ==
    /\ job' = [j \in Requests |-> IF job[j] \in Pending THEN "failed" ELSE job[j]]
    /\ rows' = [x \in Names |-> IF rows[x].status \in {"queued", "processing"}
                                THEN [rows[x] EXCEPT !.status = "failed"] ELSE rows[x]]

\* The process is killed and comes back; nothing happens in between.
Restart ==
    /\ restarts < MaxRestarts
    /\ restarts' = restarts + 1
    /\ FailStaleJobs
    /\ task' = [j \in Requests |-> IF AtWork(j) THEN "ended" ELSE task[j]]
    /\ post' = [q \in Requests |-> IF post[q] \in {"commit", "submit"} THEN "lost" ELSE post[q]]
    /\ del' = [x \in Names |-> NotDeleting]
    /\ lostDocs' = lostDocs \cup {del[x].id : x \in {y \in Names : Halfway(y)}}
    /\ missed' = missed \cup {d \in Requests : ~Exists(d) /\ \E j \in Requests : Sweeper(j, d)}
    /\ version' = [j \in Requests |-> Nil]
    /\ pos' = [j \in Requests |-> 1]
    /\ saw' = [q \in Requests |-> SawNothing]
    /\ UNCHANGED <<points, docOf, key, answer, raced, lostJobs,
                   faults, deletes>>

-----------------------------------------------------------------------------

Commit(q) == InsertFinishedJob(q) \/ CommitIngest(q) \/ Rollback(q)
Work(j) == \/ Acquire(j) \/ ReadRow(j) \/ Mark(j) \/ Prepare(j) \/ Upsert(j) \/ DropTail(j)
           \/ Recheck(j) \/ Purge(j) \/ Abandon(j) \/ Publish(j) \/ Finish(j)
           \/ FailJob(j) \/ FailDocument(j)
Delete(x) == DeletePoints(x) \/ DeleteRow(x)

Next ==
    \/ \E q \in Requests : Lookup(q) \/ Commit(q) \/ Submit(q) \/ PostError(q)
    \/ \E j \in Requests : Work(j) \/ CallFails(j)
    \/ \E x \in Names : DeleteStart(x) \/ Delete(x) \/ DeleteFails(x)
    \/ Restart

Spec == Init /\ [][Next]_vars

\* The event loop runs every task, PostgreSQL and Qdrant answer or raise.
Fairness ==
    /\ \A q \in Requests : WF_vars(Commit(q) \/ Submit(q) \/ Work(q))
    /\ \A x \in Names : WF_vars(Delete(x))

FairSpec == Spec /\ Fairness

-----------------------------------------------------------------------------
(* Properties. *)

AtRest(d) == ~Occupied(d) /\ \A x \in Names : del[x].id # d
Intact(d) == d \notin raced \cup lostDocs

\* An indexed document at rest is found by search as exactly the version its
\* row records, so that an unchanged content_hash may be skipped: through
\* failed calls, kills and shorter versions, as long as no second job and no
\* DELETE met a job of it (run, create_ingest).
IndexedIsContent ==
    \A x \in Names : LET d == rows[x].id IN
        rows[x].status = "indexed" /\ AtRest(d) /\ Intact(d)
            => points[d] = Content(rows[x].version)

\* A deleted document leaves no point in the vector store, though jobs of it
\* write while the DELETE runs and after it, and though it is POSTed again
\* meanwhile: whoever wrote last finds the row gone and purges (the recheck at
\* the end of run).  Not so where the recheck falls between the two calls of
\* the DELETE, or the job fails or is killed before it has purged (missed).
DeletedIsGone ==
    \A d \in Requests : ~Exists(d) /\ AtRest(d) /\ d \notin missed => points[d] = NoPoints

\* An Idempotency-Key makes one job, even for twins sent at the same time, and
\* whoever is answered 202 with the key is answered that job.
KeyMakesOneJob ==
    \A p, q \in Requests :
        KeyOf[p] # Nil /\ KeyOf[p] = KeyOf[q] =>
            /\ job[p] # "absent" /\ job[q] # "absent" => p = q
            /\ post[p] = "202" /\ post[q] = "202" => answer[p] = answer[q]

\* A document that is not settled has a job on its way: fail_stale_jobs and
\* _fail forget none, unless one of their own calls raised.
DocumentsSettle ==
    \A x \in Names : rows[x].status \in {"queued", "processing"} =>
        Occupied(rows[x].id) \/ rows[x].id \in lostDocs

\* A job that is not over has a task, in every state a restart leaves.
NoAbandonedJob ==
    \A j \in Requests : job[j] \in Pending => AtWork(j) \/ post[j] = "submit" \/ j \in lostJobs

\* Re-ingesting leaves no gap in search: once a document has a first chunk it
\* keeps one while it exists, whatever jobs overwrite it at the same time
\* (point_id: "re-ingest overwrites points in place").
NoGapInSearch ==
    [][\A d \in Requests :
        points[d][1] # Nil /\ Exists(d) /\ (\A x \in Names : del[x].id # d)
            => points'[d][1] # Nil]_vars

\* Every job reaches a terminal state (_guarded: "job must always reach a
\* terminal state"), or is deleted, unless recording the failure itself raised.
EveryJobEnds ==
    \A j \in Requests :
        job[j] \in Pending ~> job[j] \in {"succeeded", "failed", "gone"} \/ j \in lostJobs

\* postgres.py:243-244: "If the document is already indexed with the same
\* `content_hash` [...]: nothing to re-index".
UnchangedIsIndexed ==
    \A x \in Names : rows[x].status = "indexed" /\ AtRest(rows[x].id)
        => points[rows[x].id] = Content(rows[x].version)

\* rag.openapi.yaml:307, of DELETE: "Удалить документ и его чанки из Qdrant"
\* (delete the document and its chunks from Qdrant).
DeleteTakesChunks ==
    \A d \in Requests : ~Exists(d) /\ AtRest(d) => points[d] = NoPoints

=============================================================================
