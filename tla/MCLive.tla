-------------------------------- MODULE MCLive --------------------------------
(*****************************************************************************)
(* Does everything that was begun come to an end?  The ingest of a document  *)
(* and the life of a run are models of their own that share no state: a      *)
(* behaviour belongs to one of them and the other rests, so the state space  *)
(* is the sum of the two.  The part that rests stays in its initial state,   *)
(* in which no fair action is enabled, so fairness asks nothing of it.  One  *)
(* document and two requests for it; one run, followed by two browsers.      *)
(*****************************************************************************)
EXTENDS RagIngest, TLC

CONSTANTS
    q1, q2, long, short, doc, idem,
    Runs, Clients, MaxAgentEvents, MaxStops, MaxRunFaults, MaxDrops

VARIABLES
    part,
    phase, status, log, run, cancelled, output, conn, after, upto, got, hit,
    stops, failures, drops

runVars == <<phase, status, log, run, cancelled, output, conn, after, upto, got, hit,
             stops, failures, drops>>

MCNameOf    == [q \in Requests |-> doc]
MCKeyOf     == [q \in Requests |-> IF q = q1 THEN Nil ELSE idem]
MCVersionOf == [q \in Requests |-> IF q = q2 THEN short ELSE long]
MCLenOf     == [v \in Versions |-> IF v = long THEN 2 ELSE 1]

L == INSTANCE RunLifecycle WITH
         Follows <- [c \in Clients |-> CHOOSE r \in Runs : TRUE],
         task <- run, faults <- failures, MaxFaults <- MaxRunFaults

LiveInit == part \in {"ingest", "run"} /\ Init /\ L!Init

LiveNext ==
    \/ part = "ingest" /\ Next /\ UNCHANGED <<part, runVars>>
    \/ part = "run" /\ L!Next /\ UNCHANGED <<part, vars>>

LiveSpec ==
    /\ LiveInit /\ [][LiveNext]_<<part, vars, runVars>>
    /\ Fairness /\ L!Fairness

\* What RunLifecycle promises; the properties are stated there.
RunEnds == L!RunEnds
FollowerTold == L!FollowerTold

===============================================================================
