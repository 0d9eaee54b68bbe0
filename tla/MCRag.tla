-------------------------------- MODULE MCRag --------------------------------
(****************************************************************************)
(* Is what the RAG service and kb-sync leave behind right?  The ingest of   *)
(* a document and the syncs are models of their own that share no state: a  *)
(* behaviour belongs to one of them and the other rests, so the state space *)
(* is the sum of the two.                                                   *)
(*                                                                          *)
(* The document: a long version and a short one under one Idempotency-Key,  *)
(* and the long version again from a client that sends no key.  The syncs:  *)
(* a text file with summaries and a binary one without, that change, vanish *)
(* and move; two texts hold a secret, one of them on purpose.               *)
(****************************************************************************)
EXTENDS RagIngest, KbSync

CONSTANTS f, g, v1, v2, leak, code, q1, q2, q3, long, short, doc, idem

VARIABLE part

MCNameOf    == [q \in Requests |-> doc]
MCKeyOf     == [q \in Requests |-> IF q = q3 THEN Nil ELSE idem]
MCVersionOf == [q \in Requests |-> IF q = q2 THEN short ELSE long]
MCLenOf     == [v \in Versions |-> IF v = long THEN 2 ELSE 1]

\* The binary file begins in the collection with summaries, the text file in
\* any; where the ingest works the repository does not matter.
RagInit ==
    /\ part \in {"ingest", "sync"} /\ Init /\ SyncInit
    /\ repo[g].home = code
    /\ part = "ingest" => repo[f].home = code

RagNext ==
    \/ part = "ingest" /\ Next /\ UNCHANGED <<part, syncVars>>
    \/ part = "sync" /\ SyncNext /\ UNCHANGED <<part, vars>>

RagSpec == RagInit /\ [][RagNext]_<<part, vars, syncVars>>

===============================================================================
