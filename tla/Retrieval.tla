------------------------------- MODULE Retrieval -------------------------------
(***************************************************************************)
(* The requests about one collection of the RAG service: create and delete *)
(* (api/collections.py), search and query (api/retrieval.py with           *)
(* retrieval/search.py and retrieval/query.py).  A collection is a row in  *)
(* PostgreSQL and a collection of vectors in Qdrant, written by separate   *)
(* calls; every call is a step, may fail with or without effect, and the   *)
(* process may be killed between any two.  The guard and the models are    *)
(* external: verdicts, hits and texts are chosen.  A model is shown the    *)
(* chunks of a search numbered from 1, and an answer's text is the numbers *)
(* it cites, in order.  Scores, timings and the filter are left out.       *)
(***************************************************************************)
EXTENDS Integers, Sequences, SequencesExt

CONSTANTS
    Writers, Readers,   \* request slots: create or delete, search or query
    Chunks,             \* the chunks a collection may hold
    MaxFound,           \* bound: how many of them a search finds
    MaxMarks,           \* bound: citations in an answer
    MaxCallFaults       \* bound: failing calls and kills

ASSUME SlotsAssumption == Writers \cap Readers = {}

VARIABLES
    row,       \* rag.collections holds the collection
    vectors,   \* Qdrant holds it
    torn,      \* history: a failed call or a kill left a row in doubt
    request,   \* per slot: the request that is, or was last, served
    callFaults

retrievalVars == <<row, vectors, torn, request, callFaults>>

Slots == Writers \cup Readers
Marks == 0 .. MaxFound + 1
\* What the model says: blank, or with INSUFFICIENT_CONTEXT in it, or citing.
Said  == [sufficient : {TRUE}, marks : BoundedSeq(Marks, MaxMarks)]
         \cup {[sufficient |-> FALSE, marks |-> <<>>]}

\* calm: no create or delete was served meanwhile.
Fresh(op, at) == [op |-> op, at |-> at, calm |-> TRUE, found |-> <<>>,
                  said |-> [sufficient |-> FALSE, marks |-> <<>>], answer |-> "none", cites |-> <<>>]

FirstStep == [create |-> "insert", delete |-> "get", search |-> "get", query |-> "guard"]

InFlight(r) == request[r].at # "end"
Writing     == \E w \in Writers : InFlight(w)

RetrievalInit ==
    /\ row = FALSE /\ vectors \in BOOLEAN /\ torn = FALSE
    /\ request = [r \in Slots |-> Fresh("none", "end")] /\ callFaults = 0

Begin(r) ==
    /\ ~InFlight(r)
    /\ \E op \in IF r \in Readers THEN {"search", "query"} ELSE {"create", "delete"} :
        request' = [x \in Slots |->
            IF x = r THEN [Fresh(op, FirstStep[op]) EXCEPT !.calm = ~Writing]
            ELSE [request[x] EXCEPT !.calm = @ /\ (~InFlight(x) \/ r \in Readers)]]
    /\ UNCHANGED <<row, vectors, torn, callFaults>>

At(r, step)      == request[r].at = step
GoOn(r, step)    == request' = [request EXCEPT ![r].at = step]
AnswerWith(r, a) == request' = [request EXCEPT ![r].at = "end", ![r].answer = a]
Calm             == UNCHANGED <<torn, callFaults>>

-----------------------------------------------------------------------------
(* create_collection and delete_collection.                                 *)

Insert(r) ==
    /\ At(r, "insert") /\ row' = TRUE
    /\ IF row THEN AnswerWith(r, "conflict") ELSE GoOn(r, "look")
    /\ UNCHANGED vectors /\ Calm

\* Both handlers look for vectors before they drop them.
CollectionExists(r) ==
    /\ At(r, "look")
    /\ GoOn(r, IF vectors THEN "drop" ELSE IF request[r].op = "create" THEN "make" ELSE "row")
    /\ UNCHANGED <<row, vectors>> /\ Calm

DropVectors(r) ==
    /\ At(r, "drop") /\ vectors' = FALSE
    /\ GoOn(r, IF request[r].op = "create" THEN "make" ELSE "row")
    /\ UNCHANGED row /\ Calm

\* Qdrant refuses a name it has.
MakeVectors(r) ==
    /\ At(r, "make") /\ vectors' = TRUE
    /\ IF vectors THEN GoOn(r, "undo") ELSE AnswerWith(r, "created")
    /\ UNCHANGED row /\ Calm

DeleteRow(r) ==
    /\ At(r, "undo") \/ At(r, "row")
    /\ row' = FALSE /\ torn' = FALSE
    /\ AnswerWith(r, IF At(r, "undo") THEN "failed" ELSE "deleted")
    /\ UNCHANGED <<vectors, callFaults>>

\* Mutant: any failure after the insert ends the request.
AfterFailureEnds(r) == "end"

\* Where a failing call leads: between insert and answer, create_collection
\* deletes the row.
AfterFailure(r) ==
    IF request[r].op = "create" /\ request[r].at \in {"look", "drop", "make"} THEN "undo" ELSE "end"

\* The row a failing writer leaves without knowing whether vectors go with it.
Damage(r) == row' /\
    \/ At(r, "insert") /\ ~row
    \/ request[r].op = "delete" /\ At(r, "drop") /\ ~vectors'
    \/ At(r, "undo") \/ At(r, "row")

\* A call fails; it may have had its effect.
CallFails(r) ==
    /\ InFlight(r) /\ callFaults < MaxCallFaults /\ callFaults' = callFaults + 1
    /\ row' \in {row} \cup (IF At(r, "insert") THEN {TRUE} ELSE IF At(r, "undo") \/ At(r, "row") THEN {FALSE} ELSE {})
    /\ vectors' \in {vectors} \cup (IF At(r, "make") THEN {TRUE} ELSE IF At(r, "drop") THEN {FALSE} ELSE {})
    /\ torn' = (row' /\ (torn \/ Damage(r)))
    /\ IF AfterFailure(r) = "end" THEN AnswerWith(r, "failed") ELSE GoOn(r, AfterFailure(r))

Kill ==
    /\ callFaults < MaxCallFaults /\ callFaults' = callFaults + 1
    /\ request' = [r \in Slots |-> IF InFlight(r) THEN [request[r] EXCEPT !.at = "end", !.answer = "failed"]
                                   ELSE request[r]]
    /\ torn' = (row /\ (torn \/ Writing))
    /\ UNCHANGED <<row, vectors>>

-----------------------------------------------------------------------------
(* search and query; delete_collection begins with the same look-up.        *)

CheckInput(r) ==
    /\ At(r, "guard") /\ (GoOn(r, "get") \/ AnswerWith(r, "blocked"))
    /\ UNCHANGED <<row, vectors>> /\ Calm

GetCollection(r) ==
    /\ At(r, "get")
    /\ IF ~row THEN AnswerWith(r, "missing") ELSE GoOn(r, IF r \in Readers THEN "embed" ELSE "look")
    /\ UNCHANGED <<row, vectors>> /\ Calm

Embed(r) ==
    /\ At(r, "embed") /\ GoOn(r, "hits")
    /\ UNCHANGED <<row, vectors>> /\ Calm

\* The chunks with a score from score_threshold up, best first: none may be left.
Found == {s \in BoundedSeq(Chunks, MaxFound) : \A i, j \in DOMAIN s : s[i] = s[j] => i = j}

HybridSearch(r) ==
    /\ At(r, "hits")
    /\ IF ~vectors
         THEN request' = [request EXCEPT ![r].at = "end", ![r].answer = "lost", ![r].calm = @ /\ ~torn]
         ELSE \E s \in Found :
              request' = [request EXCEPT ![r].found = s,
                  ![r].at = IF request[r].op = "query" /\ s # <<>> THEN "generate" ELSE "end",
                  ![r].answer = IF request[r].op = "search" THEN "chunks" ELSE IF s = <<>> THEN "insufficient" ELSE "none"]
    /\ UNCHANGED <<row, vectors>> /\ Calm

Generate(r) ==
    /\ At(r, "generate")
    /\ \E s \in Said : request' = [request EXCEPT ![r].at = "judge", ![r].said = s]
    /\ UNCHANGED <<row, vectors>> /\ Calm

\* extract_citations: the numbers of n chunks, each once, in the order of their
\* first mention;
Mentioned(marks, n) ==
    FoldLeft(LAMBDA seen, k : IF k \in 1 .. n /\ ~Contains(seen, k) THEN Append(seen, k) ELSE seen, <<>>, marks)

\* Mutant: the numbers count from 0.
ExtractCitationsFromZero(marks, chunks) ==
    LET seen == Mentioned([i \in DOMAIN marks |-> marks[i] + 1], Len(chunks)) IN
    [i \in DOMAIN seen |-> chunks[seen[i]]]

\* and the chunk behind each, as build_context numbers them.
ExtractCitations(marks, chunks) ==
    LET seen == Mentioned(marks, Len(chunks)) IN [i \in DOMAIN seen |-> chunks[seen[i]]]

CheckOutput(r) ==
    /\ At(r, "judge")
    /\ \/ AnswerWith(r, "blocked")
       \/ ~request[r].said.sufficient /\ AnswerWith(r, "insufficient")
       \/ /\ request[r].said.sufficient
          /\ request' = [request EXCEPT ![r].at = "end", ![r].answer = "answered",
                                        ![r].cites = ExtractCitations(request[r].said.marks, request[r].found)]
    /\ UNCHANGED <<row, vectors>> /\ Calm

RetrievalNext ==
    \/ Kill
    \/ \E r \in Slots :
        \/ Begin(r) \/ CallFails(r)
        \/ Insert(r) \/ CollectionExists(r) \/ DropVectors(r) \/ MakeVectors(r) \/ DeleteRow(r)
        \/ CheckInput(r) \/ GetCollection(r) \/ Embed(r) \/ HybridSearch(r) \/ Generate(r) \/ CheckOutput(r)

RetrievalSpec == RetrievalInit /\ [][RetrievalNext]_retrievalVars

-----------------------------------------------------------------------------
(* Registry and Qdrant agree at rest: once no create or delete is in         *)
(* progress, a registered collection has its vectors, however the handlers   *)
(* interleaved, unless a failure in the middle of a writer left that row in  *)
(* doubt (deleting it ends the doubt).  So a search or query of a registered *)
(* collection is told "not found in Qdrant" only when a create or delete ran *)
(* beside it, or the row is in doubt.                                        *)
CollectionServes ==
    /\ ~Writing /\ row /\ ~torn => vectors
    /\ \A r \in Readers : request[r].answer = "lost" => ~request[r].calm

\* The k-th number in the text of q is that of chunk c.
Refers(q, k, c) == q.said.marks[k] \in DOMAIN q.found /\ q.found[q.said.marks[k]] = c

(* An answer has chunks under it, and its citations are exactly the chunks   *)
(* whose numbers it mentions, once each, in the order it mentions them.      *)
CitationsResolve == \A r \in Readers : LET q == request[r] IN q.answer = "answered" =>
    /\ q.found # <<>> /\ q.said.sufficient
    /\ ToSet(q.cites) = {q.found[n] : n \in ToSet(q.said.marks) \cap DOMAIN q.found}
    /\ \A i, j \in DOMAIN q.cites : i < j =>
           \E k \in DOMAIN q.said.marks :
               Refers(q, k, q.cites[i]) /\ \A l \in 1 .. k : ~Refers(q, l, q.cites[j])

==============================================================================
