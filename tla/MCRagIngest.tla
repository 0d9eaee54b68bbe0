----------------------------- MODULE MCRagIngest -----------------------------
(* One document: a long version and a short one under one Idempotency-Key,    *)
(* and the long version again from a client that sends no key.                *)
EXTENDS RagIngest, TLC

CONSTANTS q1, q2, q3, doc, idem, long, short

MCNameOf    == [q \in Requests |-> doc]
MCKeyOf     == [q \in Requests |-> IF q = q3 THEN Nil ELSE idem]
MCVersionOf == [q \in Requests |-> IF q = q2 THEN short ELSE long]
MCLenOf     == [v \in Versions |-> IF v = long THEN 2 ELSE 1]

=============================================================================
