-------------------------------- MODULE Sheets --------------------------------
(***************************************************************************)
(* An Excel workbook becomes segments (parsers/xlsx.py of                  *)
(* apps/rag/alexsoft_rag): of every visible sheet the blocks between empty *)
(* rows, each a Markdown table in groups of rows under a repeated header   *)
(* or, when it is wide or mostly empty, records of `column: value`; and    *)
(* its formulas in groups of their own.  A cell is 0 (empty) or 1; a cell  *)
(* and a line weigh a token each.  A segment is the rows its range names,  *)
(* with the number of the header row repeated in full above them (0: none  *)
(* or a shortened one).                                                    *)
(***************************************************************************)
EXTENDS Integers, Sequences, FiniteSets, SequencesExt

CONSTANTS
    Workbooks,    \* the inputs: sequences of sheets
    SheetLimit,   \* max(chunk_size, 64)
    MaxRows, MaxCols, MaxFormulas,
    WideFrom,     \* a block with more columns becomes records (10)
    ShortHead     \* tokens of a shortened header

ASSUME SheetsAssumption ==
    /\ MaxRows \in Nat /\ MaxCols \in Nat /\ MaxFormulas \in Nat /\ ShortHead \in Nat
    /\ Workbooks \subseteq Seq([visible : BOOLEAN, rows : Seq(Seq({0, 1})), formulas : Seq(Nat)])

VARIABLES
    workbook,   \* the sheets left: [visible, rows, formulas], formulas as weights
    sheet,      \* the sheet parsed last, whole
    nFormulas,  \* n_formulas, over the whole workbook
    segments,   \* its segments
    groups      \* the groups of its formulas, as <<first, last>>

sheetVars == <<workbook, sheet, nFormulas, segments, groups>>

Count(row) == Cardinality({c \in DOMAIN row : c <= MaxCols /\ row[c] = 1})
Upto(a, b) == [i \in 1 .. b - a + 1 |-> a + i - 1]
Full(rows, r) == r \in DOMAIN rows /\ \E c \in DOMAIN rows[r] : c <= MaxCols /\ rows[r][c] = 1

\* _blocks: the rows between two empty ones, as <<first, last>>.
Blocks(rows) ==
    LET read == FoldLeft(LAMBDA acc, r :
            IF Full(rows, r) THEN [acc EXCEPT !.first = IF @ = 0 THEN r ELSE @]
            ELSE IF acc.first # 0 THEN [out |-> Append(acc.out, <<acc.first, r - 1>>), first |-> 0]
            ELSE acc,
            [out |-> <<>>, first |-> 0], Upto(1, Len(rows))) IN
    IF read.first = 0 THEN read.out ELSE Append(read.out, <<read.first, Len(rows)>>)

\* Mutant: the group that is open at the end is not flushed.
GroupRowsNoFlush(order, weight, lead, rep) ==
    LET packed == FoldLeft(LAMBDA acc, r :
            IF acc.out = <<>> THEN [out |-> <<<<r, r>>>>, tokens |-> lead + weight[r]]
            ELSE IF acc.tokens + weight[r] > SheetLimit
              THEN [out |-> Append(acc.out, <<r, r>>), tokens |-> rep + weight[r]]
            ELSE [out |-> [acc.out EXCEPT ![Len(acc.out)][2] = r], tokens |-> acc.tokens + weight[r]],
            [out |-> <<>>, tokens |-> 0], order) IN
    SubSeq(packed.out, 1, Len(packed.out) - 1)

\* What is packed goes in order into groups <<first, last>>: an item that does
\* not fit the open group opens one.  The first begins with lead tokens of
\* header, the others with rep.
GroupRows(order, weight, lead, rep) ==
    LET packed == FoldLeft(LAMBDA acc, r :
            IF acc.out = <<>> THEN [out |-> <<<<r, r>>>>, tokens |-> lead + weight[r]]
            ELSE IF acc.tokens + weight[r] > SheetLimit
              THEN [out |-> Append(acc.out, <<r, r>>), tokens |-> rep + weight[r]]
            ELSE [out |-> [acc.out EXCEPT ![Len(acc.out)][2] = r], tokens |-> acc.tokens + weight[r]],
            [out |-> <<>>, tokens |-> 0], order) IN
    packed.out

\* _table_segments: empty columns are dropped; the header is repeated over every
\* group, a heavy one in full over the first only.
TableSegments(rows, b) ==
    LET keep   == {c \in 1 .. MaxCols : \E r \in b[1] .. b[2] : c \in DOMAIN rows[r] /\ rows[r][c] = 1}
        width  == Cardinality(keep)
        cells  == width * (b[2] - b[1])
        filled == FoldLeft(LAMBDA n, r : n + Cardinality({c \in keep \cap DOMAIN rows[r] : rows[r][c] = 1}),
                           0, Upto(b[1] + 1, b[2]))
        head   == Count(rows[b[1]]) + width
        heavy(t) == 5 * t > 2 * SheetLimit
        rep    == IF ~heavy(head) THEN head ELSE IF heavy(ShortHead) THEN 0 ELSE ShortHead
        seg(carried, g) == [head |-> carried, first |-> g[1], last |-> g[2]] IN
    IF cells = 0 THEN <<seg(b[1], <<b[1], b[1]>>)>>
    ELSE IF width > WideFrom \/ 2 * (cells - filled) > cells
      THEN LET packed == GroupRows(Upto(b[1], b[2]), [r \in DOMAIN rows |-> Count(rows[r]) + 1], 0, 0) IN
           [i \in DOMAIN packed |-> seg(0, packed[i])]
    ELSE LET packed == GroupRows(Upto(b[1] + 1, b[2]), [r \in DOMAIN rows |-> width + 1], head, rep) IN
         [i \in DOMAIN packed |-> seg(IF i = 1 \/ ~heavy(head) THEN b[1] ELSE 0, packed[i])]

\* The first n of s, or all of it.
AtMost(n, s) == SubSeq(s, 1, IF Len(s) < n THEN Len(s) ELSE n)

\* _parse_sync, one sheet (the empty rows iter_rows pads it with make no block).
ParseSheet ==
    /\ workbook # <<>> /\ workbook' = Tail(workbook)
    /\ LET s     == Head(workbook)
           rows  == AtMost(MaxRows, s.rows)
           bs    == Blocks(rows)
           found == AtMost(MaxFormulas - nFormulas, s.formulas) IN
       IF s.visible
         THEN /\ sheet' = s
              /\ nFormulas' = nFormulas + Len(found)
              /\ segments' = FlattenSeq([i \in DOMAIN bs |-> TableSegments(rows, bs[i])])
              /\ groups' = GroupRows(Upto(1, Len(found)), [i \in DOMAIN found |-> found[i] + 1], 0, 0)
         ELSE UNCHANGED <<sheet, nFormulas, segments, groups>>

SheetInit ==
    /\ workbook \in Workbooks /\ sheet = [visible |-> TRUE, rows |-> <<>>, formulas |-> <<>>]
    /\ nFormulas = 0 /\ segments = <<>> /\ groups = <<>>

SheetSpec == SheetInit /\ [][ParseSheet]_sheetVars

\* Row r is named by one range or heads its table; or it is empty, or past
\* MAX_ROWS, and in no segment.
RowHeld(r) ==
    LET named   == {i \in DOMAIN segments : r \in segments[i].first .. segments[i].last}
        heading == {i \in DOMAIN segments : segments[i].head = r} IN
    IF Full(sheet.rows, r) /\ r <= MaxRows
      THEN \/ Cardinality(named) = 1
           \/ named = {} /\ \E i \in heading : segments[i].first = r + 1
      ELSE named \cup heading = {}

\* Segment i carries no header but one of its own table.
OwnHeader(i) ==
    segments[i].head # 0 => \A r \in segments[i].head .. segments[i].last : Full(sheet.rows, r)

FormulaHeld(f) ==
    LET holding == {i \in DOMAIN groups : f \in groups[i][1] .. groups[i][2]} IN
    Cardinality(holding) = 1 \/ (holding = {} /\ nFormulas = MaxFormulas)

(* A row of a visible sheet that is not empty and not past MAX_ROWS is named  *)
(* by the range of exactly one segment, or is the header above the first rows *)
(* of its table; a row that is empty or past MAX_ROWS is in none, so that no  *)
(* citation points at nothing; a header is repeated only over rows of its own *)
(* table; and a formula is in exactly one group, unless MAX_FORMULAS are read *)
(* and it is one of those left out.                                           *)
EveryRowOnce ==
    /\ \A r \in DOMAIN sheet.rows : RowHeld(r)
    /\ \A i \in DOMAIN segments : OwnHeader(i)
    /\ \A f \in DOMAIN sheet.formulas : FormulaHeld(f)

==============================================================================
