-------------------------------- MODULE PdfOcr --------------------------------
(***************************************************************************)
(* A PDF becomes segments, a page each (parsers/pdf.py of                  *)
(* apps/rag/alexsoft_rag): pages without a usable text layer are rendered  *)
(* and read by a vision model, a few at a time, and what was read is       *)
(* cached by the image (clients/vision.py).  The parses are of one         *)
(* document: a job, and the jobs that try again or run beside it.  When a  *)
(* page fails its parse fails at once; the other pages are read on.        *)
(***************************************************************************)
EXTENDS Naturals, FiniteSets

CONSTANTS
    Parses, Pages, Images,
    MaxOcrPages, OcrConcurrency,
    Answers,     \* what the model may find on an image, Blank (nothing) among it
    Blank,
    NoText,      \* not read, or not cached
    MaxOcrFaults

ASSUME OcrAssumption == NoText \notin Answers /\ NoText # "layer"

VARIABLES
    image,     \* per page of the document, its image
    layered,   \* the pages with a usable text layer
    parse,     \* per parse: "new", "reading", "done", "failed"
    at,        \* per parse and page: where ocr_page is
    texts,     \* per parse and page: what was read, and on which image
    cached,    \* rag.page_ocr_cache
    known,     \* history: per parse, the images cached when it began
    ocrFaults

ocrVars == <<image, layered, parse, at, texts, cached, known, ocrFaults>>

Text(i, a) == [of |-> image[i], text |-> a]
NotRead    == [of |-> NoText, text |-> NoText]

\* The pages that are read: the first of those without a text layer.
Scanned == Pages \ layered
ToRead  == {i \in Scanned : Cardinality({j \in Scanned : j <= i}) <= MaxOcrPages}

OcrInit ==
    /\ image \in [Pages -> Images] /\ layered \in SUBSET Pages
    /\ parse = [p \in Parses |-> "new"] /\ at = [p \in Parses |-> [i \in Pages |-> "no"]]
    /\ texts = [p \in Parses |-> [i \in Pages |-> NotRead]]
    /\ cached = [m \in Images |-> NotRead] /\ known = [p \in Parses |-> {}] /\ ocrFaults = 0

\* parse_pdf up to the gather.  (A page without a usable layer keeps the few
\* letters of it until it is read; they are left out.)
BeginParse(p) ==
    /\ parse[p] = "new" /\ parse' = [parse EXCEPT ![p] = "reading"]
    /\ texts' = [texts EXCEPT ![p] = [i \in Pages |-> IF i \in layered THEN Text(i, "layer") ELSE NotRead]]
    /\ at' = [at EXCEPT ![p] = [i \in Pages |-> IF i \in ToRead THEN "wait" ELSE "no"]]
    /\ known' = [known EXCEPT ![p] = {m \in Images : cached[m] # NotRead}]
    /\ UNCHANGED <<image, layered, cached, ocrFaults>>

\* A slot of the parse's semaphore; the page is rendered in a thread.
TakeSlot(p, i) ==
    /\ at[p][i] = "wait"
    /\ Cardinality({j \in Pages : at[p][j] \in {"look", "ask"}}) < OcrConcurrency
    /\ at' = [at EXCEPT ![p][i] = "look"]
    /\ UNCHANGED <<image, layered, parse, texts, cached, known, ocrFaults>>

ReadAs(p, i, answer) ==
    /\ texts' = [texts EXCEPT ![p][i] = answer] /\ at' = [at EXCEPT ![p][i] = "read"]

\* Mutant: a page that was found blank counts as not cached.
LookFalsy(p, i) ==
    /\ at[p][i] = "look"
    /\ IF cached[image[i]].text \notin {NoText, Blank} THEN ReadAs(p, i, cached[image[i]])
       ELSE at' = [at EXCEPT ![p][i] = "ask"] /\ UNCHANGED texts
    /\ UNCHANGED <<image, layered, parse, cached, known, ocrFaults>>

\* read_page: what is cached need not be asked for.
Look(p, i) ==
    /\ at[p][i] = "look"
    /\ IF cached[image[i]] # NotRead THEN ReadAs(p, i, cached[image[i]])
       ELSE at' = [at EXCEPT ![p][i] = "ask"] /\ UNCHANGED texts
    /\ UNCHANGED <<image, layered, parse, cached, known, ocrFaults>>

\* The model answers; put_ocr replaces what another has stored meanwhile.
Ask(p, i) ==
    /\ at[p][i] = "ask"
    /\ \E a \in Answers : ReadAs(p, i, Text(i, a)) /\ cached' = [cached EXCEPT ![image[i]] = Text(i, a)]
    /\ UNCHANGED <<image, layered, parse, known, ocrFaults>>

\* Rendering, the model or the database fails: gather raises, the siblings go on.
PageFails(p, i) ==
    /\ at[p][i] \in {"look", "ask"} /\ ocrFaults < MaxOcrFaults
    /\ at' = [at EXCEPT ![p][i] = "no"] /\ ocrFaults' = ocrFaults + 1
    /\ parse' = [parse EXCEPT ![p] = IF @ = "reading" THEN "failed" ELSE @]
    /\ UNCHANGED <<image, layered, texts, cached, known>>

\* The segments of a parse: the pages with a text.
SegmentsOf(p) == {i \in Pages : texts[p][i].text \notin {NoText, Blank}}

EndParse(p) ==
    /\ parse[p] = "reading" /\ \A i \in Pages : at[p][i] \in {"no", "read"}
    /\ parse' = [parse EXCEPT ![p] = IF SegmentsOf(p) = {} THEN "failed" ELSE "done"]
    /\ UNCHANGED <<image, layered, at, texts, cached, known, ocrFaults>>

OcrNext == \E p \in Parses :
    \/ BeginParse(p) \/ EndParse(p)
    \/ \E i \in Pages : TakeSlot(p, i) \/ Look(p, i) \/ Ask(p, i) \/ PageFails(p, i)

OcrSpec == OcrInit /\ [][OcrNext]_ocrVars

(* A parse that succeeds has every page it had to read, each page with the   *)
(* text of its own image; and what an earlier parse has read, blank pages    *)
(* among it, is never paid for again, even when that parse failed.           *)
PagesReadOnce == \A p \in Parses :
    /\ parse[p] = "done" => \A i \in layered \cup ToRead :
           texts[p][i].of = image[i] /\ texts[p][i].text # NoText
    /\ \A i \in Pages : at[p][i] = "ask" => image[i] \notin known[p]

==============================================================================
