------------------------------- MODULE MCParts -------------------------------
(***************************************************************************)
(* Seven modules that share no state, checked side by side in one run: a     *)
(* behaviour belongs to one of them, the others rest in one initial state. *)
(* The state space is the sum of the seven.                                 *)
(***************************************************************************)
EXTENDS Retrieval, SigningKeys, PdfOcr, Chunking, Sheets, Diagrams, Calculator

VARIABLE part

\* Chunking: four lines of 0, 1 or 3 tokens and every way to lay up to three
\* statements over them, a class with up to three members among them.  Only
\* simple statements share a line in Python.
Toks == {t \in [1..4 -> {0, 1, 3}] : t[4] > 0}
Ranges(kids) == {r \in [first : 1..4, last : 1..4, kids : kids] : r.first <= r.last}
Plain   == Ranges({<<>>})
Members == {m \in {<<k>> : k \in Plain} \cup (Plain \X Plain) \cup (Plain \X Plain \X Plain) :
                Laid(m, 2, 4, "python") /\ (Len(m) > 1 => m[1].last < m[2].first)}
Class(lang) == {r \in Ranges(Members) : Last1(r.kids).last = r.last /\ Laid(r.kids, r.first + 1, r.last, lang)}
Programs(lang) ==
    LET some == Plain \cup IF lang = "sql" THEN {} ELSE Class(lang) IN
    {p \in {<<>>} \cup {<<s>> : s \in some} \cup (Plain \X some) \cup (Plain \X Plain \X Plain) :
        /\ Laid(p, 1, 4, lang)
        /\ \A i \in 1 .. Len(p) - 1 : p[i].last = p[i + 1].first => p[i + 1].kids = <<>>}
Code(lang) ==
    {f \in [kind : {"code"}, lang : {lang}, toks : Toks, stmts : Programs(lang)] :
        \A i \in DOMAIN f.stmts : f.toks[f.stmts[i].first] > 0 /\ f.toks[f.stmts[i].last] > 0}
MCFiles ==
    Code("python") \cup Code("js") \cup Code("sql")
    \cup [kind : {"markdown", "page", "table", "text"}, lang : {"text"}, toks : [1..3 -> {0, 1, 2, 3, 5}], stmts : {<<>>}]
NoFile == [kind |-> "text", lang |-> "text", toks |-> [l \in 1..3 |-> 0], stmts |-> <<>>]

\* Sheets: every sheet of four rows and two columns, and ones of five rows (the
\* last past MAX_ROWS) with one or three columns; a second sheet may follow.
MCSheets ==
    [visible  : BOOLEAN,
     rows     : [1..4 -> [1..2 -> {0, 1}]] \cup [1..5 -> {<<0>>, <<1>>, <<1, 1, 1>>}]
                \cup [1..2 -> {<<0>>, <<1>>}],
     formulas : {<<>>, <<1>>, <<1, 3, 2>>, <<3, 1, 1, 1>>}]
MCWorkbooks == {<<s>> : s \in MCSheets} \cup {<<s, [s EXCEPT !.formulas = <<1, 1>>]>> : s \in MCSheets}
NoSheets == <<[visible |-> FALSE, rows |-> [r \in 1..4 |-> [c \in 1..2 |-> 0]], formulas |-> <<>>]>>

\* Diagrams: two boxes and an object in or outside each other and two edges, in
\* every order, between the layer and the cell the object wraps.
El(tag, id, label, parent, draws, from, to) ==
    [tag |-> tag, id |-> id, label |-> label, parent |-> parent, draws |-> draws, from |-> from, to |-> to]
Orders == {o \in [1..5 -> 1..5] : \A i, j \in 1..5 : o[i] = o[j] => i = j}
Cells == {<<El("cell", "a", aLabel, "1", "vertex", Nothing, Nothing),
            El("cell", "b", "B", bParent, "vertex", Nothing, Nothing),
            El("object", "o", "B", "a", "vertex", Nothing, Nothing),
            El("cell", "e", "L", "1", "edge", ends[1], ends[2]),
            El("cell", "f", Nothing, "1", "edge", "a", "b")>> :
              aLabel \in {"A", Nothing}, bParent \in {"1", "a", "gone"}, ends \in {"a", "o"} \X {"b", "o"}}
NoDrawing == <<El("cell", "1", Nothing, "0", "none", Nothing, Nothing)>>
MCDrawings == {NoDrawing} \cup {NoDrawing \o [i \in 1..5 |-> c[o[i]]]
                   \o <<El("cell", id, Nothing, "a", "vertex", Nothing, Nothing)>> :
                       c \in Cells, o \in Orders, id \in {Nothing, "o"}}

MCKidOf == [t \in Tokens |-> IF t = "t1" THEN "k1" ELSE NoKid]
MCOperands == {Zero, IntOf(0, FALSE), IntOf(3, FALSE), IntOf(10000, TRUE), FloatOf(-300, FALSE),
               FloatOf(0, TRUE), FloatOf(300, FALSE), Infinite}
MCPowers == {-1001, -1, 0, 2, 3, 1000, 1001}

\* The inputs of the part that runs are enumerated last.
PartsInit ==
    /\ part \in {"retrieval", "keys", "ocr", "chunking", "sheets", "diagrams", "calculator"}
    /\ part # "retrieval" => vectors = FALSE
    /\ part # "keys" => published = {}
    /\ part # "ocr" => image = [i \in Pages |-> CHOOSE m \in Images : TRUE] /\ layered = {}
    /\ part # "sheets" => workbook = NoSheets
    /\ part # "chunking" => file = NoFile /\ strategy = "auto"
    /\ part # "diagrams" => page = NoDrawing
    /\ RetrievalInit /\ KeysInit /\ OcrInit /\ CalcInit
    /\ IF part = "chunking" THEN SheetInit /\ DiagramInit /\ ChunkingInit
       ELSE IF part = "sheets" THEN ChunkingInit /\ DiagramInit /\ SheetInit
            ELSE ChunkingInit /\ SheetInit /\ DiagramInit

PartsNext ==
    \/ /\ part = "retrieval" /\ RetrievalNext
       /\ UNCHANGED <<part, keyVars, ocrVars, chunkingVars, sheetVars, diagramVars, calcVars>>
    \/ /\ part = "keys" /\ KeysNext
       /\ UNCHANGED <<part, retrievalVars, ocrVars, chunkingVars, sheetVars, diagramVars, calcVars>>
    \/ /\ part = "ocr" /\ OcrNext
       /\ UNCHANGED <<part, retrievalVars, keyVars, chunkingVars, sheetVars, diagramVars, calcVars>>
    \/ /\ part = "chunking" /\ ChunkingNext
       /\ UNCHANGED <<part, retrievalVars, keyVars, ocrVars, sheetVars, diagramVars, calcVars>>
    \/ /\ part = "sheets" /\ ParseSheet
       /\ UNCHANGED <<part, retrievalVars, keyVars, ocrVars, chunkingVars, diagramVars, calcVars>>
    \/ /\ part = "diagrams" /\ DiagramNext
       /\ UNCHANGED <<part, retrievalVars, keyVars, ocrVars, chunkingVars, sheetVars, calcVars>>
    \/ /\ part = "calculator" /\ CalcNext
       /\ UNCHANGED <<part, retrievalVars, keyVars, ocrVars, chunkingVars, sheetVars, diagramVars>>

PartsSpec == PartsInit /\ [][PartsNext]_<<part, retrievalVars, keyVars, ocrVars, chunkingVars, sheetVars, diagramVars, calcVars>>

==============================================================================
