# alexsoft in TLA+

A verification development for the platform in this repository: TLA+ modules
translated from the source, TLC runs that check them on small instances, and
TLAPS proofs of what matters most for every value of the constants.
Paths are relative to the repository's root; `PROJECT.json` maps every
definition to the lines it models, and lists components, hazards, runs, mutants,
findings and theorems.

## 1. Inventory

The platform has three long-running programs that keep state in common stores,
the agents they call, a batch program, and clients of them.

| Component | State it keeps | Operations | What is hard |
|---|---|---|---|
| **BL API, admission** `apps/api/alexsoft_api/runs.py` (`create`, `quota`), `routes.py`, `store/postgres.py` | `bl.runs`, `bl.agents`, `bl.settings`; `_quota_lock` and its queue | POST run, quota, administrator's settings and agents | four awaits between reading the quota and the insert, midnight, a changing limit, a store answer that is lost, the lock on every error path |
| **BL API, run lifecycle** `runs.py` (`_execute`, `_fail`, `stream`, `shutdown`), `main.py` | status in `bl.runs`, `bl.run_events`, asyncio tasks, SSE connections | execute, fail, stream, replay, shutdown, `fail_stale_runs` | status and events are separate calls; cancellation at any await; kill and restart; broken connections |
| **BL to agent** `agents/rabbit_langgraph.py`, `agents/langgraph_server.py`, `apps/agent1/rmq_worker.py`, `lg_client.py` | the channel and its lock, the job queue, one reply queue per run | publish, poll, follow a stream, acknowledge, redeliver | two deadlines, late and lost replies, a worker that dies before its acknowledgement |
| **BL API, signing keys** `auth.py` | cached key set and its age, a lock | find the key of a token, probe | cache age against rotation, outages, unknown keys |
| **RAG, ingest** `apps/rag/alexsoft_rag/api/documents.py`, `ingest/pipeline.py`, `store/*` | `rag.documents`, `rag.jobs`, `rag.idempotency_keys`, Qdrant points, a semaphore | POST and DELETE of a document, background job, `fail_stale_jobs` | two jobs of one document, DELETE against a job, two stores without a transaction, retries with a key, kill |
| **RAG, collections and retrieval** `api/collections.py`, `api/retrieval.py`, `retrieval/` | `rag.collections`, Qdrant collections | create, delete, search, query with citations | two stores written one after the other, an undo on failure |
| **RAG, parsing** `parsers/`, `ingest/chunker.py`, `ingest/code_chunker.py` | an OCR cache, a semaphore per parse | parse code, sheets, PDF, diagrams; chunk | ranges of lines and rows cut, joined and split in many places; concurrent pages |
| **kb-sync** `kbsync/` | the collections and MinIO objects it owns, a cache of summaries | plan, list, summarise, upload, post, delete, wait | deleting what a partial plan lacks, dying between upload and POST, an LLM that fails |
| **Cabinet, sessions** `apps/cabinet/src/lib/session.ts`, `lib/bl.ts`, `app/api/auth/*` | `cabinet.sessions`, the map `__refreshing` | login callback, session, refresh, proxied call, logout | concurrent requests with rotating refresh tokens, stale rows, logout during a refresh |
| **Cabinet, browser** `components/AgentChat.tsx`, `app/api/bl/[...path]/route.ts` | an `EventSource` | follow a run | reconnection with `Last-Event-ID` |
| **Agent1's calculator** `apps/agent1/calculator.py` | none | evaluate an expression of a model | sizes must be bounded before they are computed |
| sparse embeddings, loading, games, landing, agent2, agent3, infrastructure | none shared | | not part of the protocols |

How they interact: the browser talks to the cabinet only; the cabinet keeps the
tokens and forwards calls to the BL API, which checks them against the identity
provider's keys, stores a run, hands it to an agent (in process, over HTTP, or
over RabbitMQ) and records its events, which the browser follows through the
cabinet; agents ask the RAG service, whose collections kb-sync fills.

What makes each correct, in a sentence: *admission* - no user gets more runs a
day than a quota allows, threads stay private, no request hangs. *Lifecycle* -
every run ends, the announced verdict is the status, streams neither lose nor
repeat events. *Agent bus* - the verdict of a run is one its worker sent, a job
is worked on once unless a worker dies, and none is forgotten. *Keys* - a
withdrawn key is refused and a new one accepted within the age of the cache.
*Ingest* - an indexed document is found as exactly its recorded version, a
deleted one not at all, a key makes one job, nothing stays pending.
*Collections* - the registry and the vectors agree at rest. *Parsing* - no line,
row, page or box is lost or repeated on the way to the index. *kb-sync* - a sync
that reports OK has made the collections what the repository says. *Sessions* -
one refresh at a time, the stored refresh token is the one in force, nobody is
signed out by accident, a logout deletes the session.

## 2. Modules

| Module | Models | Needs |
|---|---|---|
| `RunAdmission` | `RunService.create` and `quota`, one action per await | |
| `RunContract` | abstract: what the API promises of status and verdict | |
| `RunLifecycle` | `_execute`, `_fail`, `stream`, `shutdown`, restart, the browser | instantiates `RunContract` |
| `AgentContract` | abstract: what an agent runner promises `RunService` | |
| `AgentBus` | the runners over RabbitMQ and over HTTP, the worker, the agent's stream | instantiates `AgentContract` |
| `RagIngest` | `create_ingest`, the pipeline's job, DELETE, restart | |
| `KbSync` | planning, summaries, upload and POST, deletion, waiting, report | the ingest as its contract |
| `CabinetSession` | callback, `getSession`, `refreshSession`, `blFetch`, logout | |
| `Retrieval` | create and delete a collection, search, query, citations | |
| `SigningKeys` | the cache of the provider's keys | |
| `PdfOcr` | pages, the vision model, the OCR cache | |
| `Chunking` | from parsed units of a file to chunks | |
| `Sheets` | from a workbook to row groups and formula groups | |
| `Diagrams` | draw.io pages | |
| `Calculator` | bounds of every result on the way | |
| `MCParts` | the last seven side by side: a behaviour belongs to one of them, so the state space is their sum | those seven |
| `MCRag`, `MCLive` | two systems side by side in the same way: ingest and kb-sync for safety, ingest and the life of a run for liveness | `KbSync` and `RagIngest`; `RagIngest` and `RunLifecycle` |
| `MC*` | constants of the instances TLC checks | the module they name |
| `RunAdmissionProofs`, `RunLifecycleProofs`, `AgentBusProofs`, `RagIngestProofs`, `CabinetSessionProofs`, `KbSyncProofs` | theorems | the module, `TLAPS` |
| `PartsProofs` | theorems | `PdfOcr`, `Calculator`, `SigningKeys`, `Chunking`, `CorpusProofs` |
| `CorpusProofs` | theorems, and the lemmas about folds they need | `Retrieval`, `Diagrams`, `Sheets`, `TLAPS` |

`RunContract` and `AgentContract` fit together: a runner's `Message`, end and
error in the second are the events and ends of an agent in `RunLifecycle`
(`AgentEvent`, `AgentEnds`, `AgentFails`), so the two refinements say that a run
over either transport keeps the promise of the API. Definitions whose comment
begins with "Mutant" are plausible bugs; the listed property is violated when
the definition is replaced by its mutant.

### RunAdmission

Every await of `create()` is a label of `pc`: `agent` (get_agent), `thread`
(thread_belongs_to), `acquire` (the asyncio lock, first in first out, with
`lock` and `waiters`), `limit`, `count`, `decide`, `insert`, `stored`.
`decide` and the stamp of `created_at` are one step because no await lies
between them. `UserOf` and `AgentOf` are the request's user and agent.
`StoreError` raises from any store call, `Restart` kills the process (rows
stay; requests in progress are lost), `Midnight` moves the UTC day,
`SetDailyLimit` and `UpdateAgent` are the administrator, and `AssignThread` is
an earlier run being given its thread. `peak` is a history variable: the largest
quota ever in force, against which `QuotaRespected` is stated, because a lower
limit set later cannot take runs back.

### RunLifecycle

The task of a run is described by the store call it waits for; `NewStatus`,
`NewEvent` and `Then` are tables of what a call writes and which follows it, so
that `Commit` is one action for all calls. A call can be committed and
acknowledged, raise before or after the commit (`StoreFault`), or be cancelled
(`DeliverCancel`) with or without the commit. Agents appear as the events they
may yield and the ways they may end (`AgentFails` covers the timeout). The
process is killed (`Crash`) or shut down (`BeginShutdown`, `EndShutdown`), and
comes back (`Restart`) with `fail_stale_runs`. A browser's stream is a generator
standing at one of its store calls (`list`, `send`, `check`, `recheck`);
`DropConnection` breaks it and `Reconnect` sends the last id received.

### AgentBus

`at` is where a run's runner stands: the awaits of `_channel_ready` under
`_lock`, the two declarations, the publish, the poll loop, or `direct`, the
runner that calls the agent server itself. `stage` is where a stream of the
agent server stands, for a worker or for such a run, and `StreamRun` tells which
event may come next; `Follow` (the worker) and `Call` (the direct runner) use
the same table and differ in what they do with an error. `Get` is one turn of
the poll loop that finds a reply; `GetLoses` a `wait_for` that cancels the get
while the answer is on its way. `Stop` is what a runner leaves behind when it
ends early, wherever it stood. `Die` gives the job back to the broker, `Ack`
takes it away for good. `Restart` kills the BL and with it the connection, which
ends all reply queues. The broker is external and stated in the header.

### RagIngest

The steps are the calls to PostgreSQL and Qdrant. A version stands for source,
`content_hash`, metadata and chunking; a document has up to `MaxLen` points, and
`points[d][i]` is the version stored under `point_id(d, i)`. `create_ingest` is
the lookup, then the commit of its transaction: primary key and unique
constraint decide there (`KeyFree`, `Rollback`). The job goes read, mark,
prepare, upsert (one batch at a time), tail, recheck, then publish and finish,
or purge and abandon; `CallFails` raises anywhere and leads to `fail_job` and
`fail_doc`, whose own errors are only logged. A call that raises after it took
effect is the same as the next call raising, so only the last call (`finish`)
has both outcomes. DELETE is two calls. Two history variables keep apart what the
code does not promise: `raced` are the documents of which two jobs, or a job and
a DELETE, met; `missed` those whose chunks nobody will sweep, because a job
looked for the row between the two calls of the DELETE (`Unswept`) or ended
before its purge (`Sweeper`). Only documents with an `external_id` and
a `content_hash` are modelled: the others are never matched with an existing
row, so nothing interferes with them.

ADR-0017 (line 19) says that old points are deleted before a re-ingest; the
code overwrites them in place and drops the tail, and the model follows the code
(`NoGapInSearch` is the reason).

### KbSync

A text stands for its hash; `repo` holds per file its text, whether it can be
read, and the collection its rule routes it to. `Binary` files and `Marked`
texts are not scanned for secrets (`Suspected`); the rule of the summaries
speaks of the files of one collection that its patterns include and that are
long enough (`Eligible`); a summary is cached by file and text (`Cached`). A sync goes through `phase`:
`StartSync` plans and lists, then `todo` holds what is left of the summaries,
the items, or the deletions, one action each, and `NextPhase` fills it again.
`Ingest` and `RunJob` are the RAG service as `RagIngest` has it for one job at a
time; the job reads the object in MinIO when it runs, not when it was posted,
which is why a sync that dies between upload and POST matters. `Abort` and
`AbortAfterPut` are such deaths. A DELETE may fail before or between its two
calls; `hollow` are the documents it left as rows without points. `opts` are the
command line's flags; `--only` is a set of files, `--collection`, which plans
and deletes as if the other collections did not exist, is left out. A sync
starts when no job of an earlier one is queued (`Quiet`): what overlapping jobs
of one document do is the subject of `RagIngest`.

### CabinetSession

The cabinet is one Node process, so code between two awaits is atomic. Access
and refresh tokens are numbered as granted; `current` is the refresh token the
provider accepts, `stale` and `dead` say up to which number access tokens look
expired to the cabinet and are refused by the BL. A request stands `at` the
select of its row, at the resumption after it (`got`: the map `__refreshing` is
consulted here, with a row that may be old), waiting for another's refresh, at
the token request (`ask`), the write (`put`), the deletion (`drop`) or the call
of the BL. `Settle` is the promise: it wakes all who wait. A session whose
refresh began with a row that was no longer stored may be refused by a rotating
provider and dropped; `excused` records this and the other reasons a session may
end, so `SignedInIsServed` says that there is no further one.

### The parts

`Retrieval` has slots for writers and readers of one collection. A create
inserts the row, drops vectors an earlier row has left, makes new ones, and takes
its row back on any error; a delete drops the vectors, then the row. `calm` records that no writer ran
beside a reader, `torn` that a failure in the middle of a writer left the row in
doubt. A search finds a sequence of distinct
chunks; what the model says is a sequence of numbers (`said`), and
`ExtractCitations` looks the chunks up. An answer of the two words for "not
enough" cites nothing.

`SigningKeys` measures time in ages: how long ago a key was published or hidden,
how old the cached set is, how long a fetch is out. A fetch takes `FetchTime` at
most: httpx applies its timeout of 5 seconds to each phase of the exchange, so
a provider that trickles its answer could take longer, which is left out. The lock is held across the
fetch, as in the code. `Judge` records with each verdict whether the key was
published lately, which is what the property is about.

`PdfOcr`: each parse has its own semaphore (`TakeSlot`), all share the cache.
`PageFails` fails the parse at once while its other pages are read on.

`Chunking` knows a file as a sequence of token counts with the statements of its
grammar, a chunk as the range of lines whose text it holds. (Of Markdown pieces
that are glued the locator keeps the first section's name; the range is that of
the text.) `Units`, `Contiguous`,
`Merge`, `CodeSegments` and the strategies are operators in the order of the
code, and the three actions are the three stages. `Glue` is the loop that both
`_merge` and `_markdown` have, with their two conditions as parameters. `Laid` is
what the grammars give: statements in order, and only Python's `a; b` ends one
statement on the line where the next begins. `Sheets` packs rows and
formulas with one operator, `GroupRows`; a segment is the range of rows it names
and the header row above them, repeated over every group unless it is heavy. `Diagrams` reads one element per step.
`Calculator` knows a number by kind, sign and exponent; every operator offers
all exponents the digits behind it allow. It is about results: the power of ten
that `round` computes for a second argument far below zero is work no result
shows.

## 3. What the runs check

Times are with two workers on a small machine.

| Run | Instance | Shows | States, time |
|---|---|---|---|
| `admission` | 3 requests (2 of one user), 1 agent, 1 thread, limit 0..1, 2 days | `QuotaRespected`, `ThreadPrivate`, `AnswerMatchesStore`, and under fairness `EveryRequestAnswered` | 168k, 55 s |
| `lifecycle` | 2 runs, 1 browser, a stop, a store error, a broken connection | `ExactlyOnceInOrder`, `EventProtocol`, `NoAbandonedRun`, `VerdictAgrees`, `RefinesContract` | 1.2M, 2 min |
| `live` | 2 POSTs, 1 slot, 2 errors, kill, DELETE; beside it 1 run, 2 browsers, 1 broken connection | under fairness `EveryJobEnds`; `RunEnds`, `FollowerTold` | 167k, 2 min |
| `lifecycle_restart` | 1 run, 1 browser, 1 stop | violation of `FollowerTold` | |
| `agent_bus` | 2 runs, 1 worker, either transport; a death, a restart, a fault | `EndMatchesAgent`, `ConcludedIsTold`, `JobInOnePlace`, `RefinesContract`, and under fairness `JobsConclude` | 647k, 2 min |
| `rag` | 3 POSTs of one document (long, short under one key; long without), 2 slots, DELETE, error, kill | `IndexedIsContent`, `DeletedIsGone`, `KeyMakesOneJob`, `DocumentsSettle`, `NoAbandonedJob`, `NoGapInSearch` | 1.5M with the syncs, 100 s |
| | beside it a text file with summaries and a binary one, 3 texts (one with a secret, one with a secret and the marker), 2 collections, 3 syncs, an edit, a fault | `ReportIsTrue`, `IndexIsHonest`, `KeepsWhatExists` | |
| `ingest_unchanged` | as `rag`, no mishap | violation of `UnchangedIsIndexed` | |
| `ingest_deleted` | as `rag`, a DELETE and no mishap | violation of `DeleteTakesChunks` | |
| `kb_force` | 2 files, 2 syncs, no edit, no mishap | violation of `ForceReingests` | |
| `cabinet_session` | 2 callbacks of one login, 2 requests, error, kill, symmetric requests | `OneRefreshAtATime`, `StoredTokenCurrent`, `SignedInIsServed`, `LogoutIsFinal`, `NoWaiterForgotten` | 1.5M, 70 s |
| `cabinet_logout` | as above, no mishap | violation of `LogoutDeletesSession` | |
| `parts` | the seven modules below `MCParts`, one at a time | `CollectionServes`, `CitationsResolve`, `KeysFollowProvider`, `PagesReadOnce`, `EveryLineOnce`, `EveryRowOnce`, `DiagramIsWhole`, `CalculationsBounded` | 1.8M, 2 min |

Why the bounds are enough to meet the interesting cases. *Admission*: two
requests of one user and a quota of one is the smallest race for the last free
run, the third request of another user holds the lock meanwhile and may name the
other's thread; the second day lets midnight fall anywhere. *Lifecycle*: one
stop, one store error and one broken connection can fall on every step and on
each other; a second run shows that runs do not disturb each other and that a
restart fails several at once. *Agent bus*: two runs contend for the channel and
share a worker, so one's job waits behind the other's; one death gives a
redelivered job, whose second attempt speaks into a queue that holds the first's
replies. Several workers are left to the proofs. *Ingest*: two chunks against
one is the smallest shrinking document, three requests give a repeat under a
key, a repeat of an indexed version, and two jobs at once; one slot with two
errors shows that the failure path of the failure path frees it. *kb-sync*: the
first sync makes what the second finds; the edit between them changes, removes,
hides or moves a file; one fault is an LLM failure, a refused POST, a DELETE that
fails before or between its calls, a failed job or a death; the third sync finds
what that left. *Sessions*: two requests are a leader and one that joins,
and each makes up to two refreshes. *Parts*: two writers and a reader with a
fault; two keys, two tokens and an age limit of two against one; two parses of
three pages on two images; every file of four lines with up to three statements,
a class with up to three members among them (the classes nested in a class are
left whole, and only simple statements share a line), under limits that force
merging and splitting; every sheet of four rows and two columns, ones with a
row past `MAX_ROWS` and short ones, so that a block is open when the sheet ends
or the limit cuts it;
two chunks found and two numbers said; every order
of the five elements of 16 drawings, then a cell
without an id or with the object's; three operators over operands at each
boundary. The proofs remove the bounds for the properties they cover.

`CHECK_DEADLOCK FALSE` is in every configuration whose system may really rest:
all requests answered, all runs over, the files parsed. That nobody is stuck is
what the liveness properties and `NoWaiterForgotten` say.

Fairness. `RunAdmission` and `RunLifecycle` assume that the event loop runs every
ready task and that each store call is answered or raises (weak fairness of the
step of each request, run and stream). The agent may stay silent for ever: the
fair action is then the timeout of `_execute`. `Restart` is fair because the
containers have `restart: unless-stopped`
(`infra/compose/vds/docker-compose.apps.yml:21`). Nothing is assumed of
administrators, kills, errors or broken connections. `RagIngest` is fair in the
steps of handlers and jobs, the semaphore included; weak fairness is enough
because a free slot stays free until somebody takes it and every job that takes
one ends. `AgentBus` is fair in the workers only: they are restarted, and one
that follows a stream goes on, because the HTTP client turns a server that stops
sending into an error. Nothing is assumed of the runners: `JobsConclude` holds
for the jobs of runs that were given up as well. In `MCLive` the part that rests
stays in its initial state, in which none of its fair actions is enabled, so its
fairness asks nothing.

## 4. Findings

Each is a counterexample of a `violation` run against a sentence of the
repository (quoted in `PROJECT.json`).

1. `lifecycle_restart`: a run that a restart fails gets no event, so a browser
   that follows it reconnects for ever.
2. `ingest_unchanged`: two jobs of one document can end with a mixture of two
   versions, recorded as `indexed` with one hash; a later POST of that content
   is then skipped as unchanged.
3. `ingest_deleted`: a job that looks for its document between the two calls of
   a DELETE does not purge what it wrote, so chunks of a document that no longer
   exists stay searchable.
4. `kb_force`: `kb-sync --force` re-ingests nothing the service regards as
   unchanged, because the POST carries the same hash.
5. `cabinet_logout`: a refresh that began before a logout writes the session
   back after it.

Met while modelling, in the models as the code has it, and not the subject of a
run (nothing in the repository promises otherwise, or one reading of the line
decides it):

- `stream()` may end two store calls before the terminal event is stored
  (`runs.py:165`); the browser reconnects and is told then.
- A DELETE whose second call fails leaves a document that is `indexed` and has no
  points (`api/documents.py:97`); a later POST, or sync, of the same content is
  skipped as unchanged, and a sync that skips it reports OK.
- An idempotency key outlives its job, so a POST that repeats it after the
  DELETE fails for good (`store/postgres.py:55`).
- An agent disabled while a request waits for the quota lock still runs it.
- The expiry of a job is 1000 times what is meant (`rabbit_langgraph.py:95`), so
  the job of a run that was given up is worked on; a redelivered job runs again
  from the start.
- Reply queues are auto-delete but never consumed, so they stay until the BL's
  connection ends (`rabbit_langgraph.py:78`); an empty `get` returns at once, so
  the poll loop does not wait between polls (`:109`); a channel whose queue
  declaration failed is used as it is by the next run (`:57-62`), whose job may
  be unroutable.
- `kb-sync --no-summaries` deletes the summaries (`kbsync/__main__.py:31`); a refused
  DELETE goes unnoticed (`kbsync/runner.py:292`); a MinIO key does not name the
  collection (`:268`); a collection nothing is planned for keeps its documents
  (`:288`); a file that cannot be read loses its document (`:99`).
- A create whose row a concurrent delete has removed goes on: as "orphans" it
  drops the vectors, or on an error the row, of a create that came after the
  delete and was answered 201 (`api/collections.py:45`).
- A Python file with comments only is refused as empty; statements that share a
  line put it into two chunks; with the largest `chunk_size` the embedding limit
  is never reached (`ingest/chunker.py:118`).
- The other pages of a PDF are read on after one has failed (`parsers/pdf.py:72`);
  the OCR cache does not know the prompt (`clients/vision.py`).
- An integer of 4301 to 10000 digits passes the calculator's limit and then
  raises a `ValueError` in `str()` (`calculator.py:103`), which
  `FormatNumber` has as the outcome "raised"; `calculate` says "or raise
  CalculatorError" (`:110`), and `CalculationsBounded` does not speak of it.
- `round(1, -999999999)` passes every check of the calculator and computes a
  power of ten with a thousand million digits (`calculator.py:62`): results are
  bounded, work is not.
- Rows past `MAX_ROWS_PER_SHEET` are left out of the index, with a log line only
  (`parsers/xlsx.py:205`).
- Two boxes of a drawing with one label are one container; a box in an unlabelled
  group is listed outside the group's container.

## 5. What is proved

All constants are arbitrary but for the named assumptions (functions have the
domains the code gives them, bounds are naturals, null values are not members).

`RunAdmissionProofs`
- `TypeCorrect`.
- `QuotaTheorem`. `QuotaRespected` is not inductive. `QuotaInv` adds that
  whoever is in the critical section holds the lock (`LockHeld`), that the count
  read is still the number of rows (`Snapshot`: only the holder inserts), that
  the stamp is not earlier than the day counted, and that a limit read is at most
  `peak`. The insert is the only hard step (`InsertQuotaInv`, by cardinality);
  all others leave the rows alone (`QuietStep`).
- `AnswerTheorem`, a part of `QuotaInv`.
- `ThreadTheorem`, from `ThreadInv`: a request past `thread_belongs_to` names a
  thread that a run of the same user and agent has, and this stays true because
  rows are never deleted and a thread is handed out once.

`RunLifecycleProofs`
- `TypeCorrect`, one lemma per actor (tasks, process, streams).
- `VerdictTheorem`, `AbandonedTheorem`, `FailedTheorem` from `LifecycleInv`: the
  status of a run is a function of the call its task waits for, and the log holds
  no terminal event before the call that writes it. `FailedTheorem` (a failed
  run is never revived) has no run of its own.
- `RefinementTheorem`: `RunLifecycle` implements `RunContract` with the verdict
  read from the log. A step of a task is a step of the contract or none
  (`TaskImplements`), a restart fails a set of runs at once
  (`ProcessImplements`), everything else stutters.
- `StreamTheorem`, from `StreamInv`: where a stream stands is the number of
  events its browser has, and a log only grows.
- `ProtocolTheorem`. `EventProtocol` says that `done` stands right after
  `succeeded` and `error` right after `failed`. `ProtocolInv` adds that a run with
  an output, or one about to end well, has said its message, and that one about to
  write `done` or `error` has just written the step before it (`Spoken`); what
  appending one event does to a log that obeys is `ObeysAppend`, the other steps
  leave the logs alone.

`AgentBusProofs`
- `ContractTheorem`: both runners implement `AgentContract`. The direct runner
  needs `AnsweredFirst` (a stream that is about to say `done` has answered); the
  one over the broker decides by `got`, so no assumption about the replies is
  needed.
- `ToldTheorem`, from `Told`: a worker that is about to acknowledge has said the
  end of its run, and nobody takes back what was said.
- `OnePlaceTheorem`. `JobInOnePlace` is not inductive: `OnePlace` adds that two
  workers never have one job and that a job not yet published is nowhere. The
  three lemmas about the queue (`Appended`, `PutBack`, `Taken`) say what the
  broker's operations do to its elements.
- `VerdictTheorem`, from `Heard`: what waits in a reply queue was said, a worker
  that may say `done` has the answer or the error already in the queue
  (`Backed`), so unless something was lost every `done` in a queue has one before
  it (`Sound`), and the runner that reads in order reaches no other verdict.

`RagIngestProofs`: every property of `RagIngest` the run `rag` checks, for any documents, lengths,
keys and numbers of requests.
- `TypeTheorem`, with `Typed`: a row has an id exactly while it is there, a
  DELETE holds that id, a job has a document and, past `mark`, a version.
- `KeyTheorem`. `KeyMakesOneJob` is not inductive; `Keyed` adds that a job made
  with a key is the one the key names.
- `AbandonTheorem`, from `Attended`: `_fail` turns to the document only when the
  job is over.
- `SettleTheorem`, from `Settling`: the job that backs a document (`Backs`) is
  before the steps `purge`, `abandon` and `finish`, the first two of which need
  the document to be gone, and a document that is gone never comes back under
  its id.
- `IndexedTheorem`. `Alone` says that a document nothing
  raced for has one job and no DELETE; with it `Stored` follows the one job
  through its steps: which positions are written (`Written`) and what the rows
  say of the points (`Kept`). It leaves out documents two jobs or a job and a
  DELETE met for (`raced`), and those of which the last call of a failing job or
  of a DELETE failed (`lostDocs`).
- `DeletedTheorem`, from `Swept`: once no DELETE will drop the points of a
  document any more (`Unswept`), and it is not `missed`, it has no points or some
  job of it is still to look for the row or to purge (`Sweeper`).
- `GapTheorem`: only `Upsert` and `DropTail` write the points of a document that
  is not being deleted, and neither takes away the first.

`CabinetSessionProofs`: every property of `MCCabinetSession`, for any logins and
requests.
- `OneRefreshTheorem` and `WaiterTheorem`, from `Turns`: the map of refreshes in
  flight holds exactly the refreshes at work, so two refreshes of one session
  would be one entry.
- `LogoutTheorem`, from `Closed`: after a logout that found nobody with the
  session in hand, no request has one to store. Of the other logouts it says
  nothing: they are finding 5.
- `TokenTheorem`. `StoredTokenCurrent` holds between refreshes only; `InForce`
  adds that what a refresh is about to store is in force as well.
- `ServedTheorem`, from `Excusable`: whoever is about to be refused has a session
  with an excuse, and a request without one asks with the token in force and
  comes back with an access token that is not yet expired.

`KbSyncProofs`: every property of `KbSync` the run `rag` checks, for any files,
texts and collections. `KbAssumption` says that the null value is no text and no document.
- `ReportTheorem`, from `Listed` and `Reported`: what a sync listed is what there
  is until it comes to the item, and an item that was dealt with without an error
  has become what was planned (`Landed`).
- `HonestTheorem`, from `Planned`, `Covered` and `Truthful`. A job reads the
  object when it runs, not when it was posted; since a plan has one item per file
  and kind, the object is the one the job was made for, or gone.
- `KeepTheorem`, from `Ahead` and `Covered`: what is left to delete is obsolete,
  and a file planned for summaries has its summary in the plan if there was one,
  although the LLM may have failed; a file the rule no longer speaks of
  (`Eligible`) loses its summary.

`PartsProofs`
- `PagesTheorem`. `PagesReadOnce` speaks of parses that succeeded; `OcrCached`
  adds that the cache has under an image what was read on it and forgets nothing,
  `OcrOnItsWay` that every page that has no text layer is on its way until it is
  read, with its own text, or its parse has failed. `OcrAssumption`: "no text" is
  not among the answers of the model that are taken for a text
  (`parsers/pdf.py:80`).
- `CalculatorTheorem`. `CalcInv` adds `Sound`: an integer has a digit before its
  point, and a zero no exponent to grow. Every operator has its lemma; the step
  is `Room`, that one operator has `MaxResultDigits + 1` digits more to fill,
  which for a power is what `_check_pow` lets through, and for a quotient, a
  remainder or a rounded number at most a carry. `CalcAssumption`: a
  literal is no longer than the limit, and the range of a float and 1000! (2567
  digits) are below it, as in `calculator.py`.
- `KeysTheorem`. `KeysFollowProvider` speaks of answers given; `Fresh` adds that
  the cached keys were published as they are at most as long ago as the last
  fetch and the fetch itself (`AsOf`). `KeysAssumption`: times are naturals, the
  keys a finite set, and the marks for "no key" and "not yet fetched" no keys.

- `LinesTheorem`. A list of ranges is in order (`Ordered`) when each starts no
  later than it ends and begins after the one before it, on the line a statement
  shares with the next, or is a window of the same text; it is `Whole` when it
  also holds every line that has text and no range without any. `LinesInv` says
  that segments and chunks are whole, stage by stage, segments without windows,
  and chunks within the embedding limit at the end. The work is again in the
  operators. The units of either grammar are in order (`PythonOrdered`, `Cut`
  by `CutIs`), `Contiguous` makes them tile the file (`Tiles`), joining
  neighbours keeps both whatever the limits (`Glue`, through `Glued`), `Trim`,
  `Windows`, `Pack` and the embedding limit put in place of a range pieces that
  hold its lines (`Splits`; while packing, the open piece is still owed,
  `Packed`), and lists of such pieces one after the other are whole again.
  `ChunkingAssumption`: counts are naturals, `chunk_size` is positive
  (`ChunkingConfig`), and statements are laid as their grammar lays them
  (`Laid`). No relation between the limits is assumed: whether anything fits a
  limit loses no line. The exception, a Python file of comments only, is in the
  property.

`CorpusProofs`
- `DiagramTheorem`. `DiagramIsWhole` is about the page that was read to its end;
  `DiagRead` says of every prefix of it that the dicts hold the first mention of
  each id (`First`), the lists the boxes and edges among these, whatever is
  still to come. `Render` looks the labels up when everything was read, so the
  order does not matter (`CellsAre`, `ContainersAre`, `NamedIs`, `OnceIs`).
  `DrawingsAssumption`: draw.io gives every cell of a page an id of its own, only
  the cell in an object may repeat the object's; without it a second element of
  one id would replace the label the first was listed under.
- `SheetTheorem`. A workbook is read sheet by sheet, so the invariant `SheetInv`
  adds only that what is left is sheets; the work is in the operators. Rows past
  `MaxRows` are part of the sheet the property looks at, and in no segment. `Spans`
  says of a list of ranges that they go up, do not meet, and hold exactly the
  rows of a set: `Blocks` gives spans of the full rows (`BlocksSpan`; while
  reading, the rows of the open block are still owed, `ReadTo`), `GroupRows`
  spans of what it packs (`GroupsSpan`), whatever weighs what. A table, records
  or a lone header name the rows of their block once, but for the header the
  first segment stands under; what later groups repeat is that header
  (`Carries`, `TableCovers`), and blocks one after the other do not
  disturb each other (`CoverBlocks`). `SheetsAssumption`: the limits are naturals
  and a workbook is a sequence of sheets. `SheetLimit` and `WideFrom` need none:
  which layout is taken, and where a group ends, loses no row.
- `CitationsTheorem`. `Citing` follows a query from its chunks to its answer:
  past the search it has some, no two the same, past the model it has marks that
  are integers. What `extract_citations` keeps of the marks is `MentionedOnce`,
  in the order of the text (`InTheirOrder`); that the lookup turns this into
  chunks is `Extracted`.
- `ServesTheorem`, from `Mended` and `Undisturbed`: a registered collection
  without vectors, not in doubt, has a writer that is still to make them, to
  delete the row, or to leave it in doubt; and a reader nobody disturbed found the row
  and has no writer beside it. `SlotsAssumption`: no slot is both.

The loops of `Diagrams`, `Sheets`, `Retrieval` and `Chunking` are folds. The induction
theorems of the library take an operator, which the provers cannot instantiate,
so the induction is made on sets: the numbers for which a statement fails have a
least element (`Induction`). A fold is defined through a choice of a recursive
function; `FoldExists` builds one, so the chosen one obeys the recursion,
`Prefix` and `Gather` turn it into the sequence of what the loop had after each
element, and `CitationSteps`, `NamedSteps`, `OnceSteps`, `GroupSteps`,
`BlockSteps`, `SumSteps`, `GlueSteps`, `ContiguousSteps` and `PackSteps` instantiate
that for the loops. `FlattenSteps` does the same for the joining of lists, which
recurses too.

Only model-checked: everything of liveness, which is out of the prover's reach.
Every invariant the passing runs check has its theorem.

## 6. Not modelled

The in-memory store of the BL API (a test double), verification of signatures
and claims and the calls to Authentik, agents' prompts and graphs, sparse
embeddings, loading of objects, `.csv`, BPMN and the splitting inside a line,
rendering, games, landing page, infrastructure. In what is modelled: request
validation beyond the answers 404, 422 and 503; texts, scores, traces and
metrics; the 30-day expiry of sessions; documents without an `external_id`;
pagination; the login page's cookies (that a login state taken by two callbacks
is told apart is the identity provider's doing, `session.ts:67`). A worker's
job without assistant or reply queue, which the BL never sends, is left out.

Hazards that no property covers say so in `PROJECT.json`.

## 7. Plan

Done: the runs' admission, lifecycle and transport, ingest and sessions with
their proofs; kb-sync, collections and signing keys with theirs; OCR, chunking,
diagrams, sheets, citations and the calculator with theirs. Next, in this order:

1. Two workers in the instance of `AgentBus`, without the direct runner.
2. `KbSync` with the jobs of an earlier sync still running.
