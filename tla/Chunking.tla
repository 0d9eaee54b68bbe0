------------------------------- MODULE Chunking -------------------------------
(***************************************************************************)
(* From the lines of a source file to the chunks that are embedded         *)
(* (apps/rag/alexsoft_rag: parsers/code.py, ingest/chunker.py and          *)
(* ingest/code_chunker.py).  A file is a sequence of token counts, 0 for a *)
(* blank line, with the statements its grammar finds in it; a chunk is the *)
(* range of lines its locator names and the tokens of its text.  For a     *)
(* Markdown file a "line" is a section, for a PDF or a sheet a page or a   *)
(* block of rows.  The text of a range is the sum of its lines; the        *)
(* splitters of llama_index, which cut a text into windows of at most      *)
(* Size tokens, are Windows.  A window keeps the range of what it was cut  *)
(* from.                                                                   *)
(***************************************************************************)
EXTENDS Integers, Sequences, SequencesExt

CONSTANTS
    Files,       \* the inputs
    Strategies,  \* the values of ChunkingConfig.strategy tried
    Size,        \* ChunkingConfig.chunk_size
    MinUnit,     \* the floor of the parser's limit (64)
    MinChunk,    \* MIN_CHUNK_TOKENS
    Header,      \* tokens of a header
    EmbedMax     \* EMBED_MAX_TOKENS

\* Statements, or the members of one, in order between two lines.  Two of them
\* may share a line in Python (a; b), elsewhere each begins a line of its own.
Laid(ss, from, to, lang) ==
    /\ \A i \in DOMAIN ss : from <= ss[i].first /\ ss[i].first <= ss[i].last /\ ss[i].last <= to
    /\ \A i, j \in DOMAIN ss : i < j =>
           ss[i].last < ss[j].first \/ (lang = "python" /\ ss[i].last = ss[j].first)

\* A file of code is not empty (parse_code returns before).
ASSUME ChunkingAssumption ==
    /\ Size \in Nat \ {0}
    /\ MinUnit \in Nat /\ MinChunk \in Nat /\ Header \in Nat /\ EmbedMax \in Nat
    /\ \A f \in Files :
        /\ f.toks \in Seq(Nat)
        /\ f.kind = "code" =>
            /\ f.toks # <<>>
            /\ f.stmts \in Seq([first : Nat, last : Nat, kids : Seq([first : Nat, last : Nat, kids : {<<>>}])])
            /\ Laid(f.stmts, 1, Len(f.toks), f.lang)
            /\ \A i \in DOMAIN f.stmts :
                   Laid(f.stmts[i].kids, f.stmts[i].first + 1, f.stmts[i].last, f.lang)

VARIABLES
    file,      \* [kind, lang, toks, stmts]
    strategy,  \* as requested
    stage,     \* "load", "parsed", "chunked", "done"
    pieces     \* the segments, then the chunks

chunkingVars == <<file, strategy, stage, pieces>>

\* The tokens of the lines a..b.
Total(s)  == FoldLeft(+, 0, s)
Tok(a, b) == Total(SubSeq(file.toks, a, b))
Lines     == DOMAIN file.toks
Limit     == IF Size < MinUnit THEN MinUnit ELSE Size
Unit(a, b) == [first |-> a, last |-> b, tokens |-> Tok(a, b)]
Last1(s)  == s[Len(s)]

\* A unit of less than `below` tokens joins the one before it when the two have
\* at most `most`.
Join(out, u) ==
    [out EXCEPT ![Len(out)] = [first |-> @.first, last |-> u.last, tokens |-> @.tokens + u.tokens]]
Glue(units, below, most) ==
    FoldLeft(LAMBDA out, u :
        IF out # <<>> /\ u.tokens < below /\ Last1(out).tokens + u.tokens <= most
          THEN Join(out, u) ELSE Append(out, u), <<>>, units)

-----------------------------------------------------------------------------
(* parsers/code.py: a file to units.                                        *)

\* A class that is too long is its head (up to the first method) and the
\* members from there on.
PythonUnits(s) ==
    IF s.kids = <<>> \/ Tok(s.first, s.last) <= Limit THEN <<Unit(s.first, s.last)>>
    ELSE <<Unit(s.first, s.kids[1].first - 1)>>
         \o [i \in DOMAIN s.kids |-> Unit(s.kids[i].first, s.kids[i].last)]

\* Units begin at the given lines and end before the next one.
Cut(starts, last) ==
    [i \in DOMAIN starts |->
        Unit(starts[i], IF i = Len(starts) THEN last ELSE starts[i + 1] - 1)]

JsUnits(s, u) ==
    IF s.kids = <<>> \/ u.tokens <= Limit THEN <<u>>
    ELSE Cut(<<u.first>> \o [i \in DOMAIN s.kids |-> s.kids[i].first], u.last)

FromBoundaries(starts) ==
    Cut(IF starts # <<>> /\ starts[1] = 1 THEN starts ELSE <<1>> \o starts, Len(file.toks))

Units ==
    LET starts == [i \in DOMAIN file.stmts |-> file.stmts[i].first]
        cut    == FromBoundaries(starts)
        lead   == Len(cut) - Len(starts) IN
    CASE file.lang = "python" -> FlattenSeq([i \in DOMAIN file.stmts |-> PythonUnits(file.stmts[i])])
      [] file.lang = "js" ->
            SubSeq(cut, 1, lead)
            \o FlattenSeq([i \in DOMAIN starts |-> JsUnits(file.stmts[i], cut[lead + i])])
      [] OTHER -> cut

\* Mutant: the lines after the last unit (a trailing comment) belong to nobody.
ContiguousNoTail(units) ==
    FoldLeft(LAMBDA out, u :
        LET cursor == IF out = <<>> THEN 1 ELSE Last1(out).last + 1 IN
        Append(out, Unit(IF cursor < u.first THEN cursor ELSE u.first, u.last)), <<>>, units)

\* Gaps between the units join the unit that follows, the rest the last one.
Contiguous(units) ==
    LET joined == FoldLeft(LAMBDA out, u :
            LET cursor == IF out = <<>> THEN 1 ELSE Last1(out).last + 1 IN
            Append(out, Unit(IF cursor < u.first THEN cursor ELSE u.first, u.last)), <<>>, units) IN
    IF joined = <<>> THEN joined
    ELSE [joined EXCEPT ![Len(joined)] = Unit(@.first, IF @.last < Len(file.toks) THEN Len(file.toks) ELSE @.last)]

\* Neighbours become one unit while they fit.
Merge(units) == Glue(units, Limit + 1, Limit)

\* Blank edges are dropped and the line numbers adjusted.
Trim(u) ==
    LET text == {l \in u.first .. u.last : file.toks[l] > 0} IN
    IF text = {} THEN <<>>
    ELSE <<Unit(CHOOSE l \in text : \A k \in text : l <= k, CHOOSE l \in text : \A k \in text : k <= l)>>

CodeSegments == LET merged == Merge(Contiguous(Units)) IN
                FlattenSeq([i \in DOMAIN merged |-> Trim(merged[i])])

\* The other parsers make a segment of every page or block.
Segments == IF file.kind = "code" THEN CodeSegments
            ELSE FlattenSeq([l \in Lines |-> Trim([first |-> l, last |-> l])])

-----------------------------------------------------------------------------
(* ingest/chunker.py: a segment to chunks.                                  *)

Default(kind) ==
    CASE kind = "markdown" -> "markdown" [] kind = "code" -> "code"
      [] kind = "page" -> "pages" [] kind = "table" -> "table" [] OTHER -> "sentence"

EffectiveStrategy(kind, asked) ==
    IF kind = "table" \/ asked \notin {"sentence", "token"} \cup
           (IF kind \in {"markdown", "text", "diagram"} THEN {"markdown"}
            ELSE IF kind = "code" THEN {"code"} ELSE IF kind = "page" THEN {"pages"} ELSE {})
    THEN Default(kind) ELSE asked

Windows(u) == [i \in 1 .. ((u.tokens + Size - 1) \div Size) |->
    [u EXCEPT !.tokens = IF i * Size <= u.tokens THEN Size ELSE u.tokens - (i - 1) * Size]]

WholeOrSplit(u) == IF u.tokens <= 2 * Size THEN <<u>> ELSE Windows(u)

\* An oversized unit of code is packed line by line; blank pieces are dropped.
PieceOf(a, b) == IF Tok(a, b) > 0 THEN <<Unit(a, b)>> ELSE <<>>

Pack(u) ==
    LET packed == FoldLeft(LAMBDA acc, l :
            IF acc.tokens + file.toks[l] + 1 > Size /\ l > acc.start
              THEN [out |-> acc.out \o PieceOf(acc.start, l - 1), start |-> l, tokens |-> file.toks[l] + 1]
              ELSE [acc EXCEPT !.tokens = @ + file.toks[l] + 1],
            [out |-> <<>>, start |-> u.first, tokens |-> 0], [i \in 1 .. u.last - u.first + 1 |-> u.first + i - 1]) IN
    packed.out \o PieceOf(packed.start, u.last)

ChunkCode(u) == IF u.tokens <= 2 * Size THEN <<u>> ELSE Pack(u)

\* The sections of a Markdown file, each cut to size: a tiny piece joins the
\* chunk before it when there is room.  The lines are those of its text; its
\* locator stays that of the first section.
Markdown(sections) == Glue(FlattenSeq([i \in DOMAIN sections |-> Windows(sections[i])]), MinChunk, Size)

ChunkSegment(s, u) ==
    CASE s = "code" -> ChunkCode(u)
      [] s \in {"pages", "table"} -> WholeOrSplit(u)
      [] OTHER -> Windows(u)

ChunkSegments(segs) ==
    LET s == EffectiveStrategy(file.kind, strategy) IN
    IF s = "markdown" THEN Markdown(segs)
    ELSE FlattenSeq([i \in DOMAIN segs |-> ChunkSegment(s, segs[i])])

\* What is too long for the embedding model is cut into windows.
FitEmbedLimit(chunks) ==
    FlattenSeq([i \in DOMAIN chunks |->
        IF chunks[i].tokens + Header <= EmbedMax THEN <<chunks[i]>> ELSE Windows(chunks[i])])

-----------------------------------------------------------------------------
ChunkingInit ==
    /\ file \in Files /\ strategy \in Strategies
    /\ stage = "load" /\ pieces = <<>>

Advance(from, to, result) ==
    /\ stage = from /\ stage' = to /\ pieces' = result /\ UNCHANGED <<file, strategy>>

ParseFile   == Advance("load", "parsed", Segments)
ChunkFile   == Advance("parsed", "chunked", ChunkSegments(pieces))
FitToEmbed  == Advance("chunked", "done", FitEmbedLimit(pieces))

ChunkingNext == ParseFile \/ ChunkFile \/ FitToEmbed

ChunkingSpec == ChunkingInit /\ [][ChunkingNext]_chunkingVars

-----------------------------------------------------------------------------
\* The lines on which a statement, or a member of one, ends and the next begins.
Meet(ss) == {ss[j].first : j \in {k \in DOMAIN ss : \E i \in 1 .. k - 1 : ss[i].last = ss[k].first}}
SharedLines == Meet(file.stmts) \cup UNION {Meet(file.stmts[i].kids) : i \in DOMAIN file.stmts}

(* No line of a file is lost on the way to the index, none is in two chunks  *)
(* (but one that two statements share, and the windows of one text), the     *)
(* chunks follow the order of the file, and when chunk_size leaves room for  *)
(* the header under EMBED_MAX_TOKENS, every chunk fits the embedding model.  *)
(* The exception: a Python file that holds comments only has no segment.     *)
EveryLineOnce == stage = "done" /\ (file.lang = "python" => file.stmts # <<>>) =>
    /\ \A l \in Lines : file.toks[l] > 0 =>
           \E i \in DOMAIN pieces : l \in pieces[i].first .. pieces[i].last
    /\ \A i, j \in DOMAIN pieces : i < j =>
           \/ pieces[i].last < pieces[j].first
           \/ pieces[i].last = pieces[j].first /\ (file.kind = "code" => pieces[j].first \in SharedLines)
           \/ pieces[i].first = pieces[j].first /\ pieces[i].last = pieces[j].last
    /\ Size + Header <= EmbedMax =>
           \A i \in DOMAIN pieces : pieces[i].tokens + Header <= EmbedMax

==============================================================================
