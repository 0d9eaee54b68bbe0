------------------------------- MODULE Diagrams -------------------------------
(***************************************************************************)
(* A draw.io page becomes text (parsers/diagrams.py of                     *)
(* apps/rag/alexsoft_rag): one pass over its elements, in whatever order   *)
(* the file has them, then the boxes of every container and the links      *)
(* between boxes by their labels.  An <object> wraps a cell and carries    *)
(* its id and label.  Pages are independent of each other; their titles    *)
(* and the wording are left out, and so is BPMN.                           *)
(***************************************************************************)
EXTENDS Naturals, Sequences, FiniteSets, SequencesExt

CONSTANTS
    Drawings,   \* the inputs: sequences of [tag, id, label, parent, draws, from, to]
    Layers,     \* the ids of the page and its layers ("0", "1")
    Nothing     \* an absent id, an empty label

\* draw.io gives every cell of a page an id of its own; only the cell in an
\* object may repeat one, the object's.
ASSUME DrawingsAssumption ==
    \A d \in Drawings :
        /\ d \in Seq(ToSet(d))
        /\ \A i, j \in DOMAIN d : i < j /\ d[i].id = d[j].id =>
               d[i].id \in Layers \cup {Nothing} \/ d[j].tag = "cell"

VARIABLES
    page, reading,     \* "packed", "scan", "done", "skipped"
    scanned,           \* how many elements have been read
    labels, parents,   \* of the cells read, by id
    vertices, edges,   \* ids of labelled boxes; <<source, target, label>>
    listed, links      \* the lines: <<container, label>>, <<label, label, label>>

diagramVars == <<page, reading, scanned, labels, parents, vertices, edges, listed, links>>

\* d[id] = value of a dict.
Put(d, id, value) == [x \in {id} \cup DOMAIN d |-> IF x = id THEN value ELSE d[x]]

LabelOf(id) == IF id \in DOMAIN labels THEN labels[id] ELSE Nothing

\* dict.fromkeys: every value once, in the order of the first.
Once(s) == FoldLeft(LAMBDA out, x : IF Contains(out, x) THEN out ELSE Append(out, x), <<>>, s)

DiagramInit ==
    /\ page \in Drawings /\ reading = "packed" /\ scanned = 0
    /\ labels = <<>> /\ parents = <<>> /\ vertices = <<>> /\ edges = <<>>
    /\ listed = <<>> /\ links = <<>>

\* A compressed page that cannot be unpacked is left out.
DecodeDiagram ==
    /\ reading = "packed" /\ reading' \in {"scan", "skipped"}
    /\ UNCHANGED <<page, scanned, labels, parents, vertices, edges, listed, links>>

\* Mutant: an edge counts only when its ends were read before it.
ScanInOrder ==
    /\ reading = "scan" /\ scanned < Len(page) /\ scanned' = scanned + 1
    /\ LET el == page[scanned + 1] IN
       IF el.id \in Layers \cup {Nothing} \/ (el.tag = "cell" /\ el.id \in DOMAIN labels)
         THEN UNCHANGED <<labels, parents, vertices, edges>>
         ELSE /\ labels' = Put(labels, el.id, el.label)
              /\ parents' = Put(parents, el.id, el.parent)
              /\ edges' = IF el.draws = "edge" /\ {el.from, el.to} \subseteq DOMAIN labels
                            THEN Append(edges, <<el.from, el.to, el.label>>) ELSE edges
              /\ vertices' = IF el.draws = "vertex" /\ el.label # Nothing THEN Append(vertices, el.id) ELSE vertices
    /\ UNCHANGED <<page, reading, listed, links>>

\* One element; a cell whose id is known was handled with its wrapper.
Scan ==
    /\ reading = "scan" /\ scanned < Len(page) /\ scanned' = scanned + 1
    /\ LET el == page[scanned + 1] IN
       IF el.id \in Layers \cup {Nothing} \/ (el.tag = "cell" /\ el.id \in DOMAIN labels)
         THEN UNCHANGED <<labels, parents, vertices, edges>>
         ELSE /\ labels' = Put(labels, el.id, el.label)
              /\ parents' = Put(parents, el.id, el.parent)
              /\ edges' = IF el.draws = "edge" THEN Append(edges, <<el.from, el.to, el.label>>) ELSE edges
              /\ vertices' = IF el.draws = "vertex" /\ el.label # Nothing THEN Append(vertices, el.id) ELSE vertices
    /\ UNCHANGED <<page, reading, listed, links>>

\* Boxes by the label of their parent, and the links between labelled ends.
Container(id) == IF parents[id] \in Layers THEN Nothing ELSE LabelOf(parents[id])

Named(es) ==
    FoldLeft(LAMBDA out, e : IF LabelOf(e[1]) # Nothing /\ LabelOf(e[2]) # Nothing
                               THEN Append(out, <<LabelOf(e[1]), LabelOf(e[2]), e[3]>>) ELSE out, <<>>, es)

Render ==
    /\ reading = "scan" /\ scanned = Len(page) /\ reading' = "done"
    /\ listed' = Once([i \in DOMAIN vertices |-> <<Container(vertices[i]), labels[vertices[i]]>>])
    /\ links' = Once(Named(edges))
    /\ UNCHANGED <<page, scanned, labels, parents, vertices, edges>>

DiagramNext == DecodeDiagram \/ Scan \/ Render

DiagramSpec == DiagramInit /\ [][DiagramNext]_diagramVars

-----------------------------------------------------------------------------
(* Whatever the order of the elements in the file (an edge before its ends, *)
(* a box before the container it is in), the text has every labelled box,   *)
(* under its container, and every link between two labelled cells, with its *)
(* label: each once, and nothing else; the cell in an object adds nothing.  *)
DiagramIsWhole == reading = "done" =>
    LET drawn     == {page[i] : i \in {k \in DOMAIN page : /\ page[k].id \notin Layers \cup {Nothing}
                                                           /\ \A j \in 1 .. k - 1 : page[j].id # page[k].id}}
        inside(v) == {c \in drawn : c.id = v.parent}
        boxes == {<<IF inside(v) = {} THEN Nothing ELSE (CHOOSE c \in inside(v) : TRUE).label, v.label>> :
                      v \in {el \in drawn : el.draws = "vertex" /\ el.label # Nothing}}
        lines == {<<x[1].label, x[2].label, x[3].label>> :
                      x \in {y \in drawn \X drawn \X drawn :
                          /\ y[3].draws = "edge" /\ y[3].from = y[1].id /\ y[3].to = y[2].id
                          /\ y[1].label # Nothing /\ y[2].label # Nothing}} IN
    /\ ToSet(listed) = boxes /\ Len(listed) = Cardinality(boxes)
    /\ ToSet(links) = lines  /\ Len(links) = Cardinality(lines)

==============================================================================
