-------------------------------- MODULE KbSync --------------------------------
(***************************************************************************)
(* kb-sync makes the collections of the RAG service equal to the files of  *)
(* the repository (apps/rag/alexsoft_rag/kbsync): it plans what to index,  *)
(* lists what is indexed, adds summaries written by an LLM, uploads what   *)
(* changed (object to MinIO, then POST), deletes what is not planned and   *)
(* waits for the jobs.  The RAG service is its contract as RagIngest has   *)
(* it: a POST of an indexed document with the same hash and metadata makes *)
(* a finished job, any other a job that reads the object when it runs.     *)
(*                                                                         *)
(* A content hash is its text.  A key of MinIO names the file, not the     *)
(* collection.  kb-sync is the only client, and is started when no job of  *)
(* an earlier sync is left (RagIngest shows what overlapping jobs do).     *)
(***************************************************************************)
EXTENDS Naturals, FiniteSets

CONSTANTS
    Files, Texts,
    Binary,        \* files with an extension of BINARY_EXT
    Secret,        \* texts in which find_secret finds a secret
    Marked,        \* texts that carry IGNORE_MARKER
    Collections,   \* cfg.collections
    Summarised,    \* cfg.summaries.collection
    Included,      \* files cfg.summaries includes and does not exclude
    Long,          \* texts of at least cfg.summaries.min_lines
    MaxEdits, MaxSyncs, MaxFailures,   \* bounds
    None

VARIABLES
    repo,      \* per file: its text (None: absent), whether it can be read, its rule
    docs,      \* rag.documents by collection and external_id, None when absent
    index,     \* the text whose chunks are searchable
    objects,   \* MinIO
    cache,     \* the files and texts whose summary is cached on disk
    phase, opts,
    plan,      \* the items of the plan
    todo,      \* files without a summary yet, then items, then deletions to do
    remote,    \* docs as the sync listed them
    posted,    \* the documents whose job the sync waits for
    failed,    \* a job or a POST of this sync failed
    report,    \* what main printed: "OK", "FAILED"
    undeleted, \* history: deletions the service did not complete
    hollow,    \* history: documents such a deletion left without their points
    edits, syncs, failures

world    == <<docs, index, objects>>
sync     == <<phase, opts, plan, todo, remote, posted, failed, report>>
bounds   == <<edits, syncs, failures>>
syncVars == <<repo, world, cache, sync, undeleted, hollow, bounds>>

Kinds == {"file", "summary"}
DocKeys == Collections \X Kinds \X Files
Texted == [kind : Kinds, of : Texts]        \* a text, or the summary of a text

FileText(v)    == [kind |-> "file", of |-> v]
SummaryText(v) == [kind |-> "summary", of |-> v]

\* A row of rag.documents as GET /documents shows it.
Doc == [hash : Texted, src : Texts \cup {None}, status : {"queued", "indexed", "failed"}]

ASSUME KbAssumption ==
    /\ Secret \subseteq Texts /\ Marked \subseteq Texts /\ Long \subseteq Texts
    /\ Binary \subseteq Files /\ Included \subseteq Files
    /\ Summarised \in Collections /\ None \notin Texts \cup Doc

\* An item of the plan: data is None when the document is only to be kept;
\* src is the src_hash of a summary's metadata.
Item(k, data, src) == [key |-> k, data |-> data, src |-> src]

SyncTypeOK ==
    /\ repo \in [Files -> [text : Texts \cup {None}, readable : BOOLEAN, home : Collections]]
    /\ docs \in [DocKeys -> Doc \cup {None}]
    /\ index \in [DocKeys -> Texted \cup {None}]
    /\ objects \in [Kinds \X Files -> Texted \cup {None}]
    /\ cache \subseteq Files \X Texts
    /\ posted \subseteq DocKeys /\ undeleted \subseteq DocKeys /\ hollow \subseteq DocKeys
    /\ phase \in {"idle", "summaries", "items", "delete", "wait"}
    /\ report \in {"none", "OK", "FAILED"}

SyncInit ==
    /\ repo \in [Files -> [text : Texts \ Secret, readable : {TRUE}, home : Collections]]
    /\ docs = [k \in DocKeys |-> None] /\ index = [k \in DocKeys |-> None]
    /\ objects = [o \in Kinds \X Files |-> None]
    /\ cache = {} /\ phase = "idle" /\ opts = [force |-> FALSE, summaries |-> TRUE, delete |-> TRUE]
    /\ plan = {} /\ todo = {} /\ remote = docs /\ posted = {} /\ failed = FALSE
    /\ report = "none" /\ undeleted = {} /\ hollow = {}
    /\ edits = 0 /\ syncs = 0 /\ failures = 0

Quiet == \A k \in DocKeys : docs[k] # None => docs[k].status # "queued"

\* Somebody works on the repository, or on the rules, between two syncs.
Edit(f) ==
    /\ phase = "idle" /\ edits < MaxEdits
    /\ \E v \in Texts \cup {None}, ok \in BOOLEAN, c \in Collections :
           repo' = [repo EXCEPT ![f] = [text |-> v, readable |-> ok, home |-> c]]
    /\ edits' = edits + 1
    /\ UNCHANGED <<world, cache, sync, undeleted, hollow, syncs, failures>>

-----------------------------------------------------------------------------
\* Tokens and assignments of a random-looking value: one predicate on texts.
FindSecret(v) == v \in Secret

\* A file is planned unless it is absent, not routed, excluded, empty or too
\* large (None), unreadable, or suspected of a secret; binary files and those
\* that carry the marker are not searched for any.
Suspected(f, v) == f \notin Binary /\ v \notin Marked /\ FindSecret(v)
Selected(f) == repo[f].readable /\ repo[f].text \in Texts /\ ~Suspected(f, repo[f].text)

BuildPlan(only) == {Item(<<repo[f].home, "file", f>>, FileText(repo[f].text), None) :
                       f \in {g \in only : Selected(g)}}

\* The files the rule of the summaries speaks of.
Eligible(it) == it.key[1] = Summarised /\ it.key[3] \in Included /\ it.data.of \in Long

\* main: plan, collections, listing.  --only names some files and deletes none.
StartSync ==
    /\ phase = "idle" /\ Quiet /\ syncs < MaxSyncs
    /\ \E force \in BOOLEAN, on \in BOOLEAN, delete \in BOOLEAN, only \in SUBSET Files :
        /\ delete => only = Files
        /\ opts' = [force |-> force, summaries |-> on, delete |-> delete]
        /\ plan' = BuildPlan(only)
        /\ todo' = IF on THEN {it \in BuildPlan(only) : Eligible(it)} ELSE {}
    /\ phase' = "summaries" /\ remote' = docs /\ posted' = {} /\ failed' = FALSE
    /\ report' = "none" /\ undeleted' = {} /\ syncs' = syncs + 1
    /\ UNCHANGED <<repo, world, cache, hollow, edits, failures>>

\* The file of this name, content and prompt has been summarised before.
Cached(f, src) == <<f, src>> \in cache

\* Mutant: when the LLM fails the old text is kept under the new src_hash.
AddSummaryRelabelled(it) ==
    LET goal == <<Summarised, "summary", it.key[3]>>
        src  == it.data.of
        have == remote[goal]
        keep == IF have = None THEN {} ELSE {Item(goal, have.hash, src)} IN
    /\ phase = "summaries" /\ todo' = todo \ {it}
    /\ IF have # None /\ have.status = "indexed" /\ have.src = src
         THEN plan' = plan \cup keep /\ UNCHANGED <<cache, failures>>
         ELSE \/ /\ plan' = plan \cup {Item(goal, SummaryText(src), src)}
                 /\ cache' = cache \cup {<<it.key[3], src>>} /\ UNCHANGED failures
              \/ /\ ~Cached(it.key[3], src) /\ failures < MaxFailures
                 /\ plan' = plan \cup keep
                 /\ failures' = failures + 1 /\ UNCHANGED cache
    /\ UNCHANGED <<repo, world, phase, opts, remote, posted, failed, report, undeleted, hollow, edits, syncs>>

\* Mutant: when the LLM fails the summary there is, is forgotten.
AddSummaryForgets(it) ==
    LET goal == <<Summarised, "summary", it.key[3]>>
        src  == it.data.of
        have == remote[goal]
        keep == IF have = None THEN {} ELSE {Item(goal, None, src)} IN
    /\ phase = "summaries" /\ todo' = todo \ {it}
    /\ IF have # None /\ have.status = "indexed" /\ have.src = src
         THEN plan' = plan \cup keep /\ UNCHANGED <<cache, failures>>
         ELSE \/ /\ plan' = plan \cup {Item(goal, SummaryText(src), src)}
                 /\ cache' = cache \cup {<<it.key[3], src>>} /\ UNCHANGED failures
              \/ /\ ~Cached(it.key[3], src) /\ failures < MaxFailures
                 /\ plan' = plan
                 /\ failures' = failures + 1 /\ UNCHANGED cache
    /\ UNCHANGED <<repo, world, phase, opts, remote, posted, failed, report, undeleted, hollow, edits, syncs>>

\* A summary that is current is kept; otherwise it is written by the LLM or
\* taken from the cache, and when the LLM fails the one there is, is kept.
AddSummary(it) ==
    LET goal == <<Summarised, "summary", it.key[3]>>
        src  == it.data.of
        have == remote[goal]
        keep == IF have = None THEN {} ELSE {Item(goal, None, src)} IN
    /\ phase = "summaries" /\ todo' = todo \ {it}
    /\ IF have # None /\ have.status = "indexed" /\ have.src = src
         THEN plan' = plan \cup keep /\ UNCHANGED <<cache, failures>>
         ELSE \/ /\ plan' = plan \cup {Item(goal, SummaryText(src), src)}
                 /\ cache' = cache \cup {<<it.key[3], src>>} /\ UNCHANGED failures
              \/ /\ ~Cached(it.key[3], src) /\ failures < MaxFailures
                 /\ plan' = plan \cup keep
                 /\ failures' = failures + 1 /\ UNCHANGED cache
    /\ UNCHANGED <<repo, world, phase, opts, remote, posted, failed, report, undeleted, hollow, edits, syncs>>

-----------------------------------------------------------------------------
\* The service: create_ingest, the job, and DELETE.

Ingest(k, data, src) ==
    LET same == docs[k] # None /\ docs[k].status = "indexed" /\ docs[k].hash = data /\ docs[k].src = src IN
    docs' = IF same THEN docs
            ELSE [docs EXCEPT ![k] = [hash |-> data, src |-> src, status |-> "queued"]]

RunJob(k) ==
    /\ docs[k] # None /\ docs[k].status = "queued"
    /\ LET text == objects[<<k[2], k[3]>>] IN
       \/ /\ text # None
          /\ index' = [index EXCEPT ![k] = text] /\ docs' = [docs EXCEPT ![k].status = "indexed"]
          /\ hollow' = hollow \ {k} /\ UNCHANGED failures
       \/ /\ text = None \/ failures < MaxFailures
          /\ docs' = [docs EXCEPT ![k].status = "failed"]
          /\ failures' = IF text = None THEN failures ELSE failures + 1
          /\ UNCHANGED <<index, hollow>>
    /\ UNCHANGED <<repo, objects, cache, sync, undeleted, edits, syncs>>

-----------------------------------------------------------------------------
(* KbSync.sync.                                                             *)

Unchanged(it) == LET had == remote[it.key] IN
    /\ had # None /\ had.status = "indexed"
    /\ it.data = None \/ had.hash = it.data
    /\ had.src = it.src

\* The next phase begins when nothing is left to do in this one.
Obsolete == {k \in DocKeys : /\ opts.delete /\ remote[k] # None
                             /\ \E it \in plan : it.key[1] = k[1]
                             /\ \A it \in plan : it.key # k}

NextPhase ==
    /\ todo = {}
    /\ \/ phase = "summaries" /\ phase' = "items" /\ todo' = plan
       \/ phase = "items" /\ phase' = "delete" /\ todo' = Obsolete
       \/ phase = "delete" /\ phase' = "wait" /\ todo' = {}
    /\ UNCHANGED <<repo, world, cache, opts, plan, remote, posted, failed, report, undeleted, hollow, bounds>>

\* Mutant: a refused POST is not counted.
SyncItemUncounted(it) ==
    /\ phase = "items" /\ todo' = todo \ {it}
    /\ IF it.data = None \/ (Unchanged(it) /\ ~opts.force)
         THEN UNCHANGED <<docs, objects, posted, failed, failures>>
         ELSE /\ objects' = [objects EXCEPT ![<<it.key[2], it.key[3]>>] = it.data]
              /\ \/ /\ Ingest(it.key, it.data, it.src) /\ posted' = posted \cup {it.key}
                    /\ UNCHANGED <<failed, failures>>
                 \/ /\ failures < MaxFailures /\ failures' = failures + 1
                    /\ UNCHANGED <<docs, posted, failed>>
    /\ UNCHANGED <<repo, index, cache, phase, opts, plan, remote, report, undeleted, hollow, edits, syncs>>

\* One item: skipped, or put into MinIO and posted; the POST may be refused.
SyncItem(it) ==
    /\ phase = "items" /\ todo' = todo \ {it}
    /\ IF it.data = None \/ (Unchanged(it) /\ ~opts.force)
         THEN UNCHANGED <<docs, objects, posted, failed, failures>>
         ELSE /\ objects' = [objects EXCEPT ![<<it.key[2], it.key[3]>>] = it.data]
              /\ \/ /\ Ingest(it.key, it.data, it.src) /\ posted' = posted \cup {it.key}
                    /\ UNCHANGED <<failed, failures>>
                 \/ /\ failures < MaxFailures /\ failures' = failures + 1
                    /\ failed' = TRUE /\ UNCHANGED <<docs, posted>>
    /\ UNCHANGED <<repo, index, cache, phase, opts, plan, remote, report, undeleted, hollow, edits, syncs>>

\* The answer to a DELETE is not looked at; the object is removed all the same.
\* The service drops the points, then the row: either call may fail.
DeleteDocument(k) ==
    /\ phase = "delete" /\ todo' = todo \ {k}
    /\ objects' = [objects EXCEPT ![<<k[2], k[3]>>] = None]
    /\ \/ /\ docs' = [docs EXCEPT ![k] = None] /\ index' = [index EXCEPT ![k] = None]
          /\ hollow' = hollow \ {k} /\ UNCHANGED <<undeleted, failures>>
       \/ /\ failures < MaxFailures /\ failures' = failures + 1
          /\ undeleted' = undeleted \cup {k} /\ UNCHANGED docs
          /\ \/ UNCHANGED <<index, hollow>>
             \/ index' = [index EXCEPT ![k] = None] /\ hollow' = hollow \cup {k}
    /\ UNCHANGED <<repo, cache, phase, opts, plan, remote, posted, failed, report, edits, syncs>>

\* wait_jobs and the report of main.
FinishSync ==
    /\ phase = "wait" /\ \A k \in posted : docs[k].status # "queued"
    /\ report' = IF failed \/ \E k \in posted : docs[k].status = "failed" THEN "FAILED" ELSE "OK"
    /\ phase' = "idle"
    /\ UNCHANGED <<repo, world, cache, opts, plan, todo, remote, posted, failed, undeleted, hollow, bounds>>

\* The deadline of wait_jobs passes.
WaitTimesOut ==
    /\ phase = "wait" /\ \E k \in posted : docs[k].status = "queued"
    /\ report' = "FAILED" /\ phase' = "idle"
    /\ UNCHANGED <<repo, world, cache, opts, plan, todo, remote, posted, failed, undeleted, hollow, bounds>>

\* The sync dies at any point: killed, MinIO or the service out of reach.
Abort ==
    /\ phase # "idle" /\ failures < MaxFailures
    /\ phase' = "idle" /\ todo' = {} /\ failures' = failures + 1
    /\ UNCHANGED <<repo, world, cache, opts, plan, remote, posted, failed, report, undeleted, hollow, edits, syncs>>

\* The upload reaches MinIO, the POST is never made.
AbortAfterPut(it) ==
    /\ phase = "items" /\ it.data # None /\ failures < MaxFailures
    /\ objects' = [objects EXCEPT ![<<it.key[2], it.key[3]>>] = it.data]
    /\ phase' = "idle" /\ todo' = {} /\ failures' = failures + 1
    /\ UNCHANGED <<repo, docs, index, cache, opts, plan, remote, posted, failed, report, undeleted, hollow, edits, syncs>>

SyncNext ==
    \/ \E f \in Files : Edit(f)
    \/ StartSync \/ NextPhase \/ FinishSync \/ WaitTimesOut \/ Abort
    \/ \E x \in todo : AddSummary(x) \/ SyncItem(x) \/ DeleteDocument(x) \/ AbortAfterPut(x)
    \/ \E k \in DocKeys : RunJob(k)

SyncSpec == SyncInit /\ [][SyncNext]_syncVars

-----------------------------------------------------------------------------
(* A sync that reports OK has made the collections what it planned: every    *)
(* planned text is what is searchable, and of the collections it planned     *)
(* anything for, nothing else is left (README: "uploads only what changed,   *)
(* deletes the documents of vanished files"), through syncs that were        *)
(* killed, refused or forced before.  Two kinds of document are left out:    *)
(* those of this sync whose deletion failed, and those an earlier deletion   *)
(* left as rows without points: they pass for indexed (hollow).              *)
ReportIsTrue == report = "OK" =>
    /\ \A it \in plan : it.data # None =>
           /\ docs[it.key] # None /\ docs[it.key].status = "indexed"
           /\ it.key \in hollow \/ index[it.key] = it.data
    /\ opts.delete => \A k \in DocKeys :
           docs[k] # None /\ k \notin undeleted /\ (\E it \in plan : it.key[1] = k[1])
               => \E it \in plan : it.key = k

(* A summary that names the hash of a file as its source is the summary of   *)
(* that text, so one that outlived a failure of the LLM is seen to be old;   *)
(* and no text that the scan would refuse for its file is searchable or lies *)
(* in MinIO, whatever the file held when it was uploaded first.              *)
IndexIsHonest ==
    /\ \A k \in DocKeys \ hollow :
           docs[k] # None /\ docs[k].status = "indexed" /\ k[2] = "summary" =>
               index[k] = SummaryText(docs[k].src)
    /\ \A k \in DocKeys : index[k] # None =>
           k[3] \in Binary \/ index[k].of \notin Secret \ Marked
    /\ \A o \in Kinds \X Files : objects[o] # None =>
           o[2] \in Binary \/ objects[o].of \notin Secret \ Marked

(* What exists is not deleted: a document disappears only when its file is   *)
(* not planned, and a summary only when its file is not planned, its rule    *)
(* does not ask for one (other collection, excluded, too short) or summaries *)
(* are switched off, never because the LLM failed.                           *)
KeepsWhatExists == [][\A k \in DocKeys : docs[k] # None /\ docs'[k] = None =>
    /\ opts.delete /\ \A it \in plan : it.key # k
    /\ k[2] = "summary" /\ opts.summaries =>
           \A it \in plan : it.key = <<Summarised, "file", k[3]>> =>
               k[3] \notin Included \/ it.data.of \notin Long]_syncVars

(* kbsync/__main__.py:23, of --force: "re-ingest even if the content hash is *)
(* unchanged": what a forced sync posts is ingested again.                   *)
ForceReingests == [][opts.force => \A k \in posted' \ posted :
                         docs'[k].status = "queued"]_syncVars

==============================================================================
