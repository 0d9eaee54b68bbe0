----------------------------- MODULE KbSyncProofs -----------------------------
(***************************************************************************)
(* What a sync promises, for any files, texts and collections and however  *)
(* often it fails: a report of OK is true, summaries and clean texts stay  *)
(* honest, and nothing planned is deleted.                                 *)
(***************************************************************************)
EXTENDS KbSync, TLAPS

USE DEF world, sync, bounds

-----------------------------------------------------------------------------
(* The inductive invariants. *)

Items == [key : DocKeys, data : Texted \cup {None}, src : Texts \cup {None}]

Typed ==
    /\ SyncTypeOK
    /\ remote \in [DocKeys -> Doc \cup {None}]
    /\ plan \subseteq Items
    /\ opts \in [force : BOOLEAN, summaries : BOOLEAN, delete : BOOLEAN]

SummaryKey(it) == <<Summarised, "summary", it.key[3]>>

\* The phases after the plan is complete.
Acting == {"items", "delete", "wait"}

\* A text the scan lets pass for this file.
Clean(f, v) == f \in Binary \/ v \notin Secret \ Marked

\* What the plan holds: clean texts, true summaries, one item per file and kind.
Planned ==
    /\ \A it \in plan : it.data # None => Clean(it.key[3], it.data.of)
    /\ \A it \in plan : it.key[2] = "summary" =>
           it.key[1] = Summarised /\ (it.data # None => it.data = SummaryText(it.src))
    /\ \A a, b \in plan : a.key[2] = b.key[2] /\ a.key[3] = b.key[3] => a = b

\* What is left to do belongs to the phase.
Ahead ==
    /\ phase = "summaries" => \A it \in todo :
           /\ it \in plan /\ it.key[1] = Summarised /\ it.key[2] = "file"
           /\ it.data \in Texted /\ Clean(it.key[3], it.data.of)
           /\ \A x \in plan : x.key[2] = "summary" => x.key[3] # it.key[3]
    /\ phase = "items" => todo \subseteq plan
    /\ phase = "delete" => todo \subseteq Obsolete
    /\ phase = "wait" => todo = {}

\* A file planned for summaries has its summary in the plan, if there was one.
Covered ==
    phase # "idle" /\ opts.summaries =>
        \A it \in plan : it.key[2] = "file" /\ Eligible(it) =>
            \/ phase = "summaries" /\ it \in todo
            \/ remote[SummaryKey(it)] = None
            \/ \E x \in plan : x.key = SummaryKey(it)

\* What the service holds: its rows tell the truth about what is searchable,
\* and the object a job will read is the one it was made for, or gone.
Truthful ==
    /\ \A k \in DocKeys : docs[k] # None /\ k[2] = "summary" =>
           k[1] = Summarised /\ docs[k].hash = SummaryText(docs[k].src)
    /\ \A k \in DocKeys : docs[k] # None /\ docs[k].status = "indexed" =>
           k \in hollow \/ index[k] = docs[k].hash
    /\ \A k \in DocKeys : docs[k] # None /\ docs[k].status = "queued" =>
           objects[<<k[2], k[3]>>] \in {None, docs[k].hash}
    /\ \A k \in DocKeys : index[k] # None => Clean(k[3], index[k].of)
    /\ \A o \in Kinds \X Files : objects[o] # None => Clean(o[2], objects[o].of)

\* What the sync listed is what there is, until it comes to it.
Listed ==
    /\ \A k \in DocKeys : remote[k] # None =>
           remote[k].status # "queued" /\ (k[2] = "summary" => k[1] = Summarised)
    /\ phase = "summaries" => docs = remote
    /\ phase = "items" => \A it \in todo : docs[it.key] = remote[it.key]
    /\ phase \in Acting => \A k \in DocKeys : docs[k] # None =>
           /\ remote[k] # None \/ \E it \in plan : it.key = k
           /\ docs[k].status = "queued" => k \in posted /\ \E it \in plan : it.key = k

\* What an item that was dealt with has become.
Landed(it) ==
    /\ docs[it.key] # None /\ docs[it.key].hash = it.data
    /\ docs[it.key].status = "indexed" \/ it.key \in posted

Reported ==
    /\ phase \in Acting /\ ~failed => \A it \in plan :
           it.data # None /\ ~(phase = "items" /\ it \in todo) => Landed(it)
    /\ phase \in {"delete", "wait"} => \A k \in Obsolete :
           docs[k] = None \/ k \in undeleted \/ (phase = "delete" /\ k \in todo)
    /\ phase # "idle" => report = "none"
    /\ report = "OK" => Quiet /\ ReportIsTrue

Inv == Typed /\ Planned /\ Ahead /\ Covered /\ Truthful /\ Listed /\ Reported

-----------------------------------------------------------------------------
(* What the steps with a choice do. *)

LEMMA SyncItemEffect ==
    ASSUME Inv, NEW it, it \in todo, SyncItem(it)
    PROVE  /\ it \in plan /\ it \in Items /\ phase = "items" /\ todo' = todo \ {it}
           /\ docs' \in [DocKeys -> Doc \cup {None}]
           /\ \A k \in DocKeys : k # it.key => docs'[k] = docs[k]
           /\ \/ /\ it.data = None \/ Unchanged(it)
                 /\ UNCHANGED <<docs, objects, posted, failed>>
              \/ /\ it.data \in Texted /\ it.data # None
                 /\ objects' = [objects EXCEPT ![<<it.key[2], it.key[3]>>] = it.data]
                 /\ \/ docs' = docs /\ posted' = posted /\ failed' = TRUE
                    \/ /\ posted' = posted \cup {it.key} /\ failed' = failed
                       /\ \/ /\ docs' = docs /\ docs[it.key] # None
                             /\ docs[it.key].status = "indexed" /\ docs[it.key].hash = it.data
                          \/ /\ docs'[it.key] = [hash |-> it.data, src |-> it.src, status |-> "queued"]
                             /\ ~(/\ docs[it.key] # None /\ docs[it.key].status = "indexed"
                                  /\ docs[it.key].hash = it.data /\ docs[it.key].src = it.src)
<1>1. it \in plan /\ it \in Items /\ phase = "items"
  BY DEF Inv, Ahead, Typed, SyncItem
<1> DEFINE new == [hash |-> it.data, src |-> it.src, status |-> "queued"]
<1>2. it.data \in Texted => new \in Doc
  BY <1>1 DEF Items, Doc
<1>3. it.key \in DocKeys /\ docs \in [DocKeys -> Doc \cup {None}]
  BY <1>1 DEF Items, Inv, Typed, SyncTypeOK
<1>4. CASE it.data = None \/ (Unchanged(it) /\ ~opts.force)
  BY <1>1, <1>3, <1>4 DEF SyncItem
<1>5. CASE ~(it.data = None \/ (Unchanged(it) /\ ~opts.force))
  <2>1. it.data \in Texted /\ it.data # None
    BY <1>1, <1>5 DEF Items
  <2>2. CASE docs' = docs
    BY <1>1, <1>3, <1>5, <2>1, <2>2 DEF SyncItem, Ingest
  <2>3. CASE docs' = [docs EXCEPT ![it.key] = new]
    BY <1>1, <1>2, <1>3, <1>5, <2>1, <2>3 DEF SyncItem, Ingest
  <2>4. UNCHANGED docs \/ Ingest(it.key, it.data, it.src)
    BY <1>5 DEF SyncItem
  <2>5. docs' = docs \/ docs' = [docs EXCEPT ![it.key] = new]
    BY <2>4, Zenon DEF Ingest
  <2> QED BY <2>2, <2>3, <2>5
<1> QED BY <1>4, <1>5

LEMMA RunJobEffect ==
    ASSUME Inv, NEW k \in DocKeys, RunJob(k)
    PROVE  /\ docs[k] \in Doc /\ docs[k].status = "queued"
           /\ docs' \in [DocKeys -> Doc \cup {None}] /\ index' \in [DocKeys -> Texted \cup {None}]
           /\ \A x \in DocKeys : x # k => docs'[x] = docs[x] /\ index'[x] = index[x]
           /\ docs'[k] \in Doc /\ docs'[k].hash = docs[k].hash /\ docs'[k].src = docs[k].src
           /\ \/ /\ docs'[k].status = "indexed" /\ index'[k] = docs[k].hash
                 /\ index'[k] = objects[<<k[2], k[3]>>] /\ index'[k] # None
              \/ docs'[k].status = "failed" /\ index' = index
<1>1. docs \in [DocKeys -> Doc \cup {None}] /\ index \in [DocKeys -> Texted \cup {None}]
  BY DEF Inv, Typed, SyncTypeOK
<1>2. PICK d \in Doc : d = docs[k]
  BY <1>1 DEF RunJob
<1>3. d.status = "queued" /\ d.hash \in Texted /\ d.src \in Texts \cup {None}
  BY <1>2 DEF RunJob, Doc
<1>4. PICK t : t = objects[<<k[2], k[3]>>]
  OBVIOUS
<1>5. t \in {None, d.hash}
  BY <1>2, <1>3, <1>4 DEF Inv, Truthful, RunJob
<1>6. PICK s \in {"indexed", "failed"} :
         /\ docs' = [docs EXCEPT ![k].status = s]
         /\ s = "indexed" => t # None /\ index' = [index EXCEPT ![k] = t]
         /\ s = "failed" => index' = index
  BY <1>4 DEF RunJob
<1>7. docs'[k] = [d EXCEPT !.status = s] /\ docs'[k] \in Doc /\ docs' \in [DocKeys -> Doc \cup {None}]
  BY <1>1, <1>2, <1>3, <1>6 DEF Doc
<1>8. docs'[k].hash = d.hash /\ docs'[k].src = d.src /\ docs'[k].status = s
  BY <1>2, <1>3, <1>7 DEF Doc
<1> QED BY <1>1, <1>2, <1>3, <1>4, <1>5, <1>6, <1>7, <1>8

LEMMA AddSummaryEffect ==
    ASSUME Inv, NEW it, it \in todo, AddSummary(it)
    PROVE  /\ it \in plan /\ it \in Items /\ phase = "summaries" /\ todo' = todo \ {it}
           /\ it.key = <<Summarised, "file", it.key[3]>> /\ it.key[3] \in Files
           /\ SummaryKey(it) \in DocKeys
           /\ \/ plan' = plan /\ remote[SummaryKey(it)] = None
              \/ \E x \in Items :
                    /\ plan' = plan \cup {x} /\ x.key = SummaryKey(it)
                    /\ \/ x.data = None
                       \/ x.data = SummaryText(x.src) /\ Clean(x.key[3], x.data.of)
<1>1. /\ it \in plan /\ it \in Items /\ phase = "summaries" /\ it.key[1] = Summarised
      /\ it.key[2] = "file" /\ it.data \in Texted /\ Clean(it.key[3], it.data.of)
  BY DEF Inv, Ahead, Typed, AddSummary
<1>2. it.key = <<Summarised, "file", it.key[3]>> /\ it.key[3] \in Files
  BY <1>1 DEF Items, DocKeys
<1>3. SummaryKey(it) \in DocKeys
  BY <1>2, KbAssumption DEF SummaryKey, DocKeys, Kinds
<1>4. PICK v \in Texts : v = it.data.of /\ Clean(it.key[3], v)
  BY <1>1 DEF Texted
<1>5. SummaryText(v) \in Texted /\ SummaryText(v).of = v
  BY <1>4 DEF SummaryText, Texted, Kinds
<1>6. PICK kept \in Items : kept = Item(SummaryKey(it), None, v)
  BY <1>3, <1>4 DEF Items, Item
<1>7. PICK made \in Items : made = Item(SummaryKey(it), SummaryText(v), v)
  BY <1>3, <1>4, <1>5 DEF Items, Item
<1>8. /\ kept.key = SummaryKey(it) /\ kept.data = None /\ made.key = SummaryKey(it)
      /\ made.data = SummaryText(made.src) /\ Clean(made.key[3], made.data.of)
  BY <1>4, <1>5, <1>6, <1>7 DEF Item, SummaryKey
<1>9. \/ plan' = plan /\ remote[SummaryKey(it)] = None
      \/ plan' = plan \cup {kept} \/ plan' = plan \cup {made}
  BY <1>4, <1>6, <1>7 DEF AddSummary, SummaryKey
<1>10. ASSUME NEW x \in {kept, made}, plan' = plan \cup {x}
       PROVE  \E y \in Items :
                 /\ plan' = plan \cup {y} /\ y.key = SummaryKey(it)
                 /\ y.data = None \/ (y.data = SummaryText(y.src) /\ Clean(y.key[3], y.data.of))
  BY <1>8, <1>10
<1>11. todo' = todo \ {it}
  BY DEF AddSummary
<1> QED BY <1>1, <1>2, <1>3, <1>9, <1>10, <1>11

-----------------------------------------------------------------------------
(* SyncInit and the steps establish the invariants. *)

LEMMA InitInv == SyncInit => Inv
<1> SUFFICES ASSUME SyncInit PROVE Inv
  OBVIOUS
<1>1. Typed
  BY DEF SyncInit, Typed, SyncTypeOK, Items
<1>2. Planned /\ Ahead /\ Covered /\ Truthful /\ Listed
  BY DEF SyncInit, Planned, Ahead, Covered, Truthful, Listed, Acting
<1>3. Reported
  BY DEF SyncInit, Reported, Acting
<1> QED BY <1>1, <1>2, <1>3 DEF Inv

LEMMA StartEffect ==
    ASSUME Inv, StartSync
    PROVE  /\ plan' \subseteq Items /\ opts' \in [force : BOOLEAN, summaries : BOOLEAN, delete : BOOLEAN]
           /\ todo' = (IF opts'.summaries THEN {it \in plan' : Eligible(it)} ELSE {})
           /\ \A it \in plan' :
                 /\ it.key[2] = "file" /\ it.data \in Texted /\ Clean(it.key[3], it.data.of)
                 /\ it.key = <<repo[it.key[3]].home, "file", it.key[3]>>
                 /\ it.data = FileText(repo[it.key[3]].text) /\ it.src = None
<1>1. repo \in [Files -> [text : Texts \cup {None}, readable : BOOLEAN, home : Collections]]
  BY DEF Inv, Typed, SyncTypeOK
<1>2. PICK only \in SUBSET Files, on \in BOOLEAN, force \in BOOLEAN, delete \in BOOLEAN :
         /\ opts' = [force |-> force, summaries |-> on, delete |-> delete]
         /\ plan' = BuildPlan(only)
         /\ todo' = IF on THEN {it \in BuildPlan(only) : Eligible(it)} ELSE {}
  BY DEF StartSync
<1>3. ASSUME NEW it \in BuildPlan(only)
      PROVE  /\ it \in Items
             /\ it.key[2] = "file" /\ it.data \in Texted /\ Clean(it.key[3], it.data.of)
             /\ it.key = <<repo[it.key[3]].home, "file", it.key[3]>>
             /\ it.data = FileText(repo[it.key[3]].text) /\ it.src = None
  <2>1. PICK f \in only : /\ Selected(f)
                          /\ it = Item(<<repo[f].home, "file", f>>, FileText(repo[f].text), None)
    BY <1>3 DEF BuildPlan
  <2>2. f \in Files /\ repo[f].home \in Collections /\ repo[f].text \in Texts /\ Clean(f, repo[f].text)
    BY <1>1, <2>1 DEF Selected, Suspected, FindSecret, Clean
  <2>3. PICK k \in DocKeys : k = <<repo[f].home, "file", f>>
    BY <2>2 DEF DocKeys, Kinds
  <2>4. PICK v \in Texts : v = repo[f].text
    BY <2>2
  <2>5. FileText(v) \in Texted /\ FileText(v).of = v
    BY DEF FileText, Texted, Kinds
  <2>6. it = [key |-> k, data |-> FileText(v), src |-> None]
    BY <2>1, <2>3, <2>4 DEF Item
  <2>7. it.key = k /\ it.key[3] = f /\ it.data = FileText(v) /\ it.src = None /\ it \in Items
    BY <2>3, <2>5, <2>6 DEF Items
  <2> QED BY <2>2, <2>3, <2>4, <2>5, <2>7
<1> QED BY <1>2, <1>3

LEMMA TypedStep == ASSUME Inv, [SyncNext]_syncVars PROVE Typed'
<1> USE DEF Inv
<1>1. CASE UNCHANGED syncVars
  BY <1>1 DEF syncVars, Typed, SyncTypeOK
<1>2. ASSUME NEW f \in Files, Edit(f) PROVE Typed'
  BY <1>2 DEF Edit, Typed, SyncTypeOK
<1>3. CASE StartSync
  BY <1>3, StartEffect DEF StartSync, Typed, SyncTypeOK
<1>4. CASE NextPhase
  BY <1>4 DEF NextPhase, Typed, SyncTypeOK
<1>5. CASE FinishSync \/ WaitTimesOut \/ Abort
  BY <1>5 DEF FinishSync, WaitTimesOut, Abort, Typed, SyncTypeOK
<1>6. ASSUME NEW x \in todo, AddSummary(x) PROVE Typed'
  <2>1. cache' \subseteq Files \X Texts
    <3>1. x.key[3] \in Files /\ x.data \in Texted
      BY <1>6, AddSummaryEffect DEF AddSummary, Ahead
    <3>2. x.data.of \in Texts
      BY <3>1 DEF Texted
    <3>3. cache' = cache \/ cache' = cache \cup {<<x.key[3], x.data.of>>}
      BY <1>6 DEF AddSummary
    <3> QED BY <3>1, <3>2, <3>3 DEF Typed, SyncTypeOK
  <2> QED BY ZenonT(30), <1>6, <2>1, AddSummaryEffect DEF AddSummary, Typed, SyncTypeOK
<1>7. ASSUME NEW x \in todo, SyncItem(x) PROVE Typed'
  <2>0. x \in Items /\ x.key \in DocKeys
    BY <1>7, SyncItemEffect DEF Items
  <2>1. posted' \subseteq DocKeys
    <3>1. posted' = posted \/ posted' = posted \cup {x.key}
      BY <1>7 DEF SyncItem
    <3> QED BY <2>0, <3>1 DEF Typed, SyncTypeOK
  <2>2. PICK o \in Kinds \X Files : o = <<x.key[2], x.key[3]>>
    BY <2>0 DEF DocKeys
  <2>3. objects' = objects \/ (x.data \in Texted /\ objects' = [objects EXCEPT ![o] = x.data])
    BY <1>7, <2>2, SyncItemEffect
  <2>4. objects' \in [Kinds \X Files -> Texted \cup {None}]
    BY <2>3 DEF Typed, SyncTypeOK
  <2> QED BY <1>7, <2>1, <2>4, SyncItemEffect DEF SyncItem, Typed, SyncTypeOK
<1>8. ASSUME NEW x \in todo, DeleteDocument(x) PROVE Typed'
  <2>1. x \in DocKeys
    BY <1>8 DEF DeleteDocument, Ahead, Obsolete
  <2> QED BY <1>8, <2>1 DEF DeleteDocument, Typed, SyncTypeOK, DocKeys
<1>9. ASSUME NEW x \in todo, AbortAfterPut(x) PROVE Typed'
  <2>1. x \in Items
    BY <1>9 DEF AbortAfterPut, Ahead, Typed
  <2> QED BY <1>9, <2>1 DEF AbortAfterPut, Typed, SyncTypeOK, Items
<1>10. ASSUME NEW k \in DocKeys, RunJob(k) PROVE Typed'
  BY <1>10, RunJobEffect DEF RunJob, Typed, SyncTypeOK
<1> QED BY <1>1, <1>2, <1>3, <1>4, <1>5, <1>6, <1>7, <1>8, <1>9, <1>10 DEF SyncNext

LEMMA PlannedStep == ASSUME Inv, [SyncNext]_syncVars PROVE Planned'
<1> USE DEF Inv
<1>1. CASE UNCHANGED <<plan>>
  BY <1>1 DEF Planned
<1>2. CASE StartSync
  <2>1. ASSUME NEW it \in plan' PROVE it.key[2] = "file" /\ Clean(it.key[3], it.data.of)
    BY <1>2, StartEffect
  <2>2. ASSUME NEW a \in plan', NEW b \in plan', a.key[3] = b.key[3] PROVE a = b
    <3>1. a \in Items /\ b \in Items /\ a.key = b.key /\ a.data = b.data /\ a.src = b.src
      BY <1>2, <2>2, StartEffect
    <3> QED BY <3>1 DEF Items
  <2> QED BY <2>1, <2>2 DEF Planned
<1>3. ASSUME NEW it \in todo, AddSummary(it) PROVE Planned'
  <2>1. CASE plan' = plan
    BY <2>1 DEF Planned
  <2>2. ASSUME NEW x \in Items, plan' = plan \cup {x}, x.key = SummaryKey(it),
               x.data = None \/ (x.data = SummaryText(x.src) /\ Clean(x.key[3], x.data.of))
        PROVE  Planned'
    <3>1. x.key[1] = Summarised /\ x.key[2] = "summary" /\ x.key[3] = it.key[3]
      BY <2>2 DEF SummaryKey
    <3>2. ASSUME NEW y \in plan, y.key[2] = "summary" PROVE y.key[3] # x.key[3]
      BY <1>3, <3>1, <3>2 DEF AddSummary, Ahead
    <3> QED BY <2>2, <3>1, <3>2 DEF Planned
  <2> QED BY <1>3, <2>1, <2>2, AddSummaryEffect
<1>4. ASSUME NEW it \in todo, SyncItem(it) \/ DeleteDocument(it) \/ AbortAfterPut(it)
      PROVE  UNCHANGED <<plan>>
  BY <1>4 DEF SyncItem, DeleteDocument, AbortAfterPut
<1>5. (NextPhase \/ FinishSync \/ WaitTimesOut \/ Abort) => UNCHANGED <<plan>>
  BY DEF NextPhase, FinishSync, WaitTimesOut, Abort
<1>6. ASSUME NEW f \in Files, Edit(f) PROVE UNCHANGED <<plan>>
  BY <1>6 DEF Edit
<1>7. ASSUME NEW k \in DocKeys, RunJob(k) PROVE UNCHANGED <<plan>>
  BY <1>7 DEF RunJob
<1> QED BY <1>1, <1>2, <1>3, <1>4, <1>5, <1>6, <1>7 DEF SyncNext, syncVars

LEMMA AheadStep == ASSUME Inv, [SyncNext]_syncVars PROVE Ahead'
<1> USE DEF Inv
<1>1. CASE UNCHANGED <<phase, todo, plan, remote, opts>>
  BY <1>1 DEF Ahead, Obsolete
<1>2. CASE StartSync
  <2>1. phase' = "summaries" /\ todo' \subseteq {it \in plan' : it.key[1] = Summarised}
    BY <1>2, StartEffect DEF StartSync, Eligible
  <2> QED BY <1>2, <2>1, StartEffect DEF Ahead
<1>3. CASE NextPhase
  BY <1>3 DEF NextPhase, Ahead, Obsolete
<1>4. CASE FinishSync \/ WaitTimesOut \/ Abort
  BY <1>4 DEF FinishSync, WaitTimesOut, Abort, Ahead
<1>5. ASSUME NEW it \in todo, AddSummary(it) PROVE Ahead'
  <2>1. phase' = "summaries" /\ todo' = todo \ {it} /\ plan \subseteq plan'
    BY <1>5, AddSummaryEffect DEF AddSummary
  <2>2. ASSUME NEW y \in todo', NEW x \in plan', x.key[2] = "summary" PROVE x.key[3] # y.key[3]
    <3>1. y \in todo /\ y # it /\ y.key[2] = "file" /\ y \in plan
      BY <1>5, <2>1 DEF AddSummary, Ahead
    <3>2. it \in plan /\ it.key[2] = "file"
      BY <1>5 DEF AddSummary, Ahead
    <3>3. CASE x \in plan
      BY <1>5, <2>2, <3>1, <3>3 DEF AddSummary, Ahead
    <3>4. CASE x \notin plan
      <4>1. x.key = SummaryKey(it)
        BY <1>5, <3>4, AddSummaryEffect
      <4>2. x.key[3] = it.key[3]
        BY <4>1 DEF SummaryKey
      <4> QED BY <3>1, <3>2, <4>2 DEF Planned
    <3> QED BY <3>3, <3>4
  <2> QED BY <2>1, <2>2, <1>5 DEF Ahead, AddSummary
<1>6. ASSUME NEW it \in todo, SyncItem(it) PROVE Ahead'
  BY <1>6 DEF SyncItem, Ahead
<1>7. ASSUME NEW k \in todo, DeleteDocument(k) PROVE Ahead'
  <2>1. Obsolete' = Obsolete /\ phase = "delete" /\ phase' = "delete" /\ todo' = todo \ {k}
    BY <1>7 DEF DeleteDocument, Obsolete
  <2> QED BY <2>1 DEF Ahead
<1>8. ASSUME NEW it \in todo, AbortAfterPut(it) PROVE Ahead'
  BY <1>8 DEF AbortAfterPut, Ahead
<1>9. ASSUME NEW f \in Files, Edit(f) PROVE UNCHANGED <<phase, todo, plan, remote, opts>>
  BY <1>9 DEF Edit
<1>10. ASSUME NEW k \in DocKeys, RunJob(k) PROVE UNCHANGED <<phase, todo, plan, remote, opts>>
  BY <1>10 DEF RunJob
<1> QED BY <1>1, <1>2, <1>3, <1>4, <1>5, <1>6, <1>7, <1>8, <1>9, <1>10 DEF SyncNext, syncVars

LEMMA CoveredStep == ASSUME Inv, [SyncNext]_syncVars PROVE Covered'
<1> USE DEF Inv
<1>1. CASE UNCHANGED <<phase, todo, plan, remote, opts>>
  BY <1>1 DEF Covered, SummaryKey, Eligible
<1>2. CASE StartSync
  BY <1>2, StartEffect DEF StartSync, Covered
<1>3. CASE NextPhase
  BY <1>3 DEF NextPhase, Covered, SummaryKey, Eligible
<1>4. CASE phase' = "idle"
  BY <1>4 DEF Covered
<1>5. ASSUME NEW it \in todo, AddSummary(it) PROVE Covered'
  <2>1. phase' = "summaries" /\ phase = "summaries" /\ todo' = todo \ {it} /\ plan \subseteq plan'
        /\ remote' = remote /\ opts' = opts
    BY <1>5, AddSummaryEffect DEF AddSummary
  <2>2. remote[SummaryKey(it)] = None \/ \E x \in plan' : x.key = SummaryKey(it)
    BY <1>5, AddSummaryEffect
  <2>3. ASSUME NEW y \in plan', y.key[2] = "file" PROVE y \in plan
    <3>1. ASSUME y \notin plan PROVE FALSE
      <4>1. y.key = SummaryKey(it)
        BY <1>5, <3>1, AddSummaryEffect
      <4> QED BY <2>3, <4>1 DEF SummaryKey
    <3> QED BY <3>1
  <2> QED BY <2>1, <2>2, <2>3 DEF Covered, SummaryKey, Eligible
<1>6. ASSUME NEW it \in todo, SyncItem(it) \/ DeleteDocument(it) PROVE Covered'
  BY <1>6 DEF SyncItem, DeleteDocument, Covered, SummaryKey, Eligible
<1>7. ASSUME NEW it \in todo, AbortAfterPut(it) PROVE phase' = "idle"
  BY <1>7 DEF AbortAfterPut
<1>8. (FinishSync \/ WaitTimesOut \/ Abort) => phase' = "idle"
  BY DEF FinishSync, WaitTimesOut, Abort
<1>9. ASSUME NEW f \in Files, Edit(f) PROVE UNCHANGED <<phase, todo, plan, remote, opts>>
  BY <1>9 DEF Edit
<1>10. ASSUME NEW k \in DocKeys, RunJob(k) PROVE UNCHANGED <<phase, todo, plan, remote, opts>>
  BY <1>10 DEF RunJob
<1> QED BY <1>1, <1>2, <1>3, <1>4, <1>5, <1>6, <1>7, <1>8, <1>9, <1>10 DEF SyncNext, syncVars

LEMMA TruthfulStep == ASSUME Inv, [SyncNext]_syncVars PROVE Truthful'
<1> USE DEF Inv
<1>1. CASE UNCHANGED <<docs, index, objects, hollow>>
  BY <1>1 DEF Truthful
<1>2. ASSUME NEW it \in todo, SyncItem(it) PROVE Truthful'
  <2>0. /\ it \in plan /\ it \in Items /\ phase = "items" /\ it.key \in DocKeys
        /\ index' = index /\ hollow' = hollow
        /\ docs[it.key] = remote[it.key]
        /\ docs[it.key] # None => docs[it.key].status # "queued"
    <3>1. it \in plan /\ it \in Items /\ phase = "items" /\ index' = index /\ hollow' = hollow
      BY <1>2 DEF SyncItem, Ahead, Typed
    <3>2. it.key \in DocKeys
      BY <3>1 DEF Items
    <3> QED BY <1>2, <3>1, <3>2 DEF Listed
  <2>1. PICK o \in Kinds \X Files : o = <<it.key[2], it.key[3]>>
    BY <2>0 DEF DocKeys
  <2>2. ASSUME NEW k \in DocKeys, docs[k] # None, docs[k].status = "queued" PROVE <<k[2], k[3]>> # o
    <3>1. PICK x \in plan : x.key = k
      BY <2>0, <2>2 DEF Listed, Acting
    <3> QED BY <2>0, <2>1, <2>2, <3>1 DEF Planned
  <2>a. objects' = objects \/ (it.data \in Texted /\ objects' = [objects EXCEPT ![o] = it.data])
    BY <1>2, <2>1, SyncItemEffect
  <2>3. \A p \in Kinds \X Files : p # o => objects'[p] = objects[p]
    BY <2>a DEF Typed, SyncTypeOK
  <2>4. objects'[o] = objects[o] \/ (it.data \in Texted /\ objects'[o] = it.data)
    BY <2>a DEF Typed, SyncTypeOK
  <2>5. \A k \in DocKeys : <<k[2], k[3]>> \in Kinds \X Files
    BY DEF DocKeys
  <2>6. \A p \in Kinds \X Files : objects'[p] # None => Clean(p[2], objects'[p].of)
    <3>1. it.data # None => Clean(o[2], it.data.of)
      BY <2>0, <2>1 DEF Planned
    <3> QED BY <2>3, <2>4, <3>1 DEF Truthful
  <2>7. ASSUME NEW k \in DocKeys, docs'[k] # None, docs'[k] = docs[k]
        PROVE  /\ k[2] = "summary" => k[1] = Summarised /\ docs'[k].hash = SummaryText(docs'[k].src)
               /\ docs'[k].status = "indexed" => k \in hollow' \/ index'[k] = docs'[k].hash
               /\ docs'[k].status = "queued" => objects'[<<k[2], k[3]>>] \in {None, docs'[k].hash}
    BY <2>0, <2>2, <2>3, <2>5, <2>7 DEF Truthful
  <2>8. ASSUME it.data \in Texted, it.data # None, docs'[it.key] = [hash |-> it.data, src |-> it.src, status |-> "queued"],
               objects' = [objects EXCEPT ![<<it.key[2], it.key[3]>>] = it.data]
        PROVE  /\ it.key[2] = "summary" => /\ it.key[1] = Summarised
                                           /\ docs'[it.key].hash = SummaryText(docs'[it.key].src)
               /\ docs'[it.key].status = "queued"
               /\ objects'[<<it.key[2], it.key[3]>>] = docs'[it.key].hash
    <3>1. it.data # None
      BY <2>8
    <3>2. /\ docs'[it.key].hash = it.data /\ docs'[it.key].src = it.src
          /\ docs'[it.key].status = "queued"
      BY <2>8
    <3>3. objects'[o] = it.data
      BY <2>1, <2>8 DEF Typed, SyncTypeOK
    <3> QED BY <2>0, <2>1, <3>1, <3>2, <3>3 DEF Planned
  <2>9. \A k \in DocKeys : docs'[k] = docs[k] \/ (/\ k = it.key /\ it.data \in Texted /\ it.data # None
            /\ docs'[it.key] = [hash |-> it.data, src |-> it.src, status |-> "queued"]
            /\ objects' = [objects EXCEPT ![<<it.key[2], it.key[3]>>] = it.data])
    BY <1>2, SyncItemEffect
  <2> QED BY <2>0, <2>6, <2>7, <2>8, <2>9 DEF Truthful
<1>3. ASSUME NEW k \in todo, DeleteDocument(k) PROVE Truthful'
  <2>0. k \in DocKeys
    BY <1>3 DEF DeleteDocument, Ahead, Obsolete
  <2>1. PICK o \in Kinds \X Files : o = <<k[2], k[3]>>
    BY <2>0 DEF DocKeys
  <2>2. objects' = [objects EXCEPT ![o] = None]
    BY <1>3, <2>1 DEF DeleteDocument
  <2>3. \A p \in Kinds \X Files : objects'[p] \in {objects[p], None}
    BY <2>2 DEF Typed, SyncTypeOK
  <2>4. \A x \in DocKeys : \/ docs'[x] = docs[x] /\ index'[x] = index[x] /\ (x \in hollow => x \in hollow')
                           \/ docs'[x] = docs[x] /\ index'[x] = None /\ x \in hollow'
                           \/ docs'[x] = None /\ index'[x] = None
    <3>1. \/ /\ docs' = [docs EXCEPT ![k] = None] /\ index' = [index EXCEPT ![k] = None]
             /\ hollow' = hollow \ {k}
          \/ UNCHANGED <<docs, index, hollow>>
          \/ docs' = docs /\ index' = [index EXCEPT ![k] = None] /\ hollow' = hollow \cup {k}
      BY <1>3 DEF DeleteDocument
    <3> QED BY <2>0, <3>1 DEF Typed, SyncTypeOK
  <2>5. \A x \in DocKeys : <<x[2], x[3]>> \in Kinds \X Files
    BY DEF DocKeys
  <2> QED BY <2>3, <2>4, <2>5 DEF Truthful
<1>4. ASSUME NEW it \in todo, AbortAfterPut(it) PROVE Truthful'
  <2>0. /\ it \in plan /\ it \in Items /\ phase = "items" /\ it.key \in DocKeys
        /\ UNCHANGED <<docs, index, hollow>> /\ docs[it.key] = remote[it.key]
        /\ docs[it.key] # None => docs[it.key].status # "queued"
    BY <1>4 DEF AbortAfterPut, Ahead, Typed, Items, Listed
  <2>1. PICK o \in Kinds \X Files : o = <<it.key[2], it.key[3]>>
    BY <2>0 DEF DocKeys
  <2>2. ASSUME NEW k \in DocKeys, docs[k] # None, docs[k].status = "queued" PROVE <<k[2], k[3]>> # o
    <3>1. PICK x \in plan : x.key = k
      BY <2>0, <2>2 DEF Listed, Acting
    <3> QED BY <2>0, <2>1, <2>2, <3>1 DEF Planned
  <2>3. /\ \A p \in Kinds \X Files : p # o => objects'[p] = objects[p]
        /\ objects'[o] = it.data /\ it.data # None
    BY <1>4, <2>1 DEF AbortAfterPut, Typed, SyncTypeOK
  <2>4. Clean(o[2], it.data.of)
    BY <2>0, <2>1, <2>3 DEF Planned
  <2>5. \A k \in DocKeys : <<k[2], k[3]>> \in Kinds \X Files
    BY DEF DocKeys
  <2>6. \A p \in Kinds \X Files : objects'[p] # None => Clean(p[2], objects'[p].of)
    BY <2>3, <2>4 DEF Truthful
  <2>7. \A k \in DocKeys : docs[k] # None /\ docs[k].status = "queued" =>
           objects'[<<k[2], k[3]>>] = objects[<<k[2], k[3]>>]
    BY <2>2, <2>3, <2>5
  <2> QED BY <2>0, <2>6, <2>7 DEF Truthful
<1>5. ASSUME NEW k \in DocKeys, RunJob(k) PROVE Truthful'
  <2>1. objects' = objects /\ docs[k] # None /\ hollow' \in {hollow, hollow \ {k}}
    BY <1>5 DEF RunJob
  <2>2. /\ docs'[k].status # "queued"
        /\ k[2] = "summary" => k[1] = Summarised /\ docs'[k].hash = SummaryText(docs'[k].src)
        /\ docs'[k].status = "indexed" => index'[k] = docs'[k].hash
    BY <1>5, <2>1, RunJobEffect DEF Truthful
  <2>3. index'[k] # None => Clean(k[3], index'[k].of)
    <3>1. <<k[2], k[3]>> \in Kinds \X Files
      BY DEF DocKeys
    <3> QED BY <1>5, <3>1, RunJobEffect DEF Truthful
  <2>4. \A x \in DocKeys \ {k} : docs'[x] = docs[x] /\ index'[x] = index[x] /\ (x \in hollow => x \in hollow')
    BY <1>5, <2>1, RunJobEffect
  <2> QED BY <2>1, <2>2, <2>3, <2>4 DEF Truthful
<1>6. ASSUME NEW it \in todo, AddSummary(it) PROVE UNCHANGED <<docs, index, objects, hollow>>
  BY <1>6 DEF AddSummary
<1>7. (StartSync \/ NextPhase \/ FinishSync \/ WaitTimesOut \/ Abort) => UNCHANGED <<docs, index, objects, hollow>>
  BY DEF StartSync, NextPhase, FinishSync, WaitTimesOut, Abort
<1>8. ASSUME NEW f \in Files, Edit(f) PROVE UNCHANGED <<docs, index, objects, hollow>>
  BY <1>8 DEF Edit
<1> QED BY <1>1, <1>2, <1>3, <1>4, <1>5, <1>6, <1>7, <1>8 DEF SyncNext, syncVars

LEMMA ListedStep == ASSUME Inv, [SyncNext]_syncVars PROVE Listed'
<1> USE DEF Inv
<1>1. CASE UNCHANGED <<docs, phase, todo, plan, remote, posted>>
  BY <1>1 DEF Listed, Acting
<1>2. CASE StartSync
  BY <1>2 DEF StartSync, Listed, Acting, Quiet, Truthful
<1>3. CASE NextPhase
  <2>1. UNCHANGED <<docs, plan, remote, posted>> /\ plan \subseteq Items
    BY <1>3 DEF NextPhase, Typed
  <2> QED BY <1>3, <2>1 DEF NextPhase, Listed, Acting, Items
<1>4. CASE FinishSync \/ WaitTimesOut \/ Abort
  BY <1>4 DEF FinishSync, WaitTimesOut, Abort, Listed, Acting
<1>5. ASSUME NEW it \in todo, AddSummary(it) PROVE Listed'
  BY <1>5 DEF AddSummary, Listed, Acting
<1>6. ASSUME NEW it \in todo, SyncItem(it) PROVE Listed'
  <2>0. /\ it \in plan /\ phase = "items" /\ it.key \in DocKeys /\ phase' = "items" /\ todo' = todo \ {it}
        /\ UNCHANGED <<plan, remote>> /\ posted \subseteq posted'
    <3>1. it \in plan /\ it \in Items /\ phase = "items" /\ phase' = "items" /\ todo' = todo \ {it}
      BY <1>6 DEF SyncItem, Ahead, Typed
    <3>2. UNCHANGED <<plan, remote>> /\ posted \subseteq posted'
      BY <1>6 DEF SyncItem
    <3> QED BY <3>1, <3>2 DEF Items
  <2>1. ASSUME NEW x \in todo' PROVE docs'[x.key] = remote'[x.key]
    <3>1. x \in plan /\ x # it /\ x.key \in DocKeys
      BY <2>0 DEF Ahead, Typed, Items
    <3>2. x.key # it.key
      BY <2>0, <3>1 DEF Planned
    <3> QED BY ZenonT(30), <1>6, <2>0, <3>1, <3>2, SyncItemEffect DEF Listed
  <2>2. docs'[it.key] = docs[it.key] \/ it.key \in posted'
    BY <1>6, SyncItemEffect
  <2>3. ASSUME NEW k \in DocKeys, docs'[k] # None
        PROVE  /\ remote'[k] # None \/ \E x \in plan' : x.key = k
               /\ docs'[k].status = "queued" => k \in posted' /\ \E x \in plan' : x.key = k
    BY ZenonT(30), <1>6, <2>0, <2>2, <2>3, SyncItemEffect DEF Listed, Acting
  <2> QED BY <2>0, <2>1, <2>3 DEF Listed, Acting
<1>7. ASSUME NEW k \in todo, DeleteDocument(k) PROVE Listed'
  <2>1. /\ phase = "delete" /\ UNCHANGED <<phase, plan, remote, posted>>
        /\ \A x \in DocKeys : docs'[x] \in {docs[x], None}
    BY <1>7 DEF DeleteDocument, Typed, SyncTypeOK
  <2> QED BY <2>1 DEF Listed, Acting
<1>8. ASSUME NEW it \in todo, AbortAfterPut(it) PROVE Listed'
  BY <1>8 DEF AbortAfterPut, Listed, Acting
<1>9. ASSUME NEW f \in Files, Edit(f) PROVE UNCHANGED <<docs, phase, todo, plan, remote, posted>>
  BY <1>9 DEF Edit
<1>10. ASSUME NEW k \in DocKeys, RunJob(k) PROVE Listed'
  <2>1. /\ UNCHANGED <<phase, todo, plan, remote, posted>> /\ docs[k] # None /\ docs[k].status = "queued"
        /\ docs'[k].status # "queued" /\ \A x \in DocKeys : x # k => docs'[x] = docs[x]
    BY <1>10, RunJobEffect DEF RunJob
  <2>2. phase # "summaries"
    BY <2>1 DEF Listed
  <2>3. phase = "items" => \A it \in todo : it.key \in DocKeys /\ it.key # k
    BY <2>1 DEF Listed, Ahead, Typed, Items
  <2> QED BY <2>1, <2>2, <2>3 DEF Listed, Acting
<1> QED BY <1>1, <1>2, <1>3, <1>4, <1>5, <1>6, <1>7, <1>8, <1>9, <1>10 DEF SyncNext, syncVars

\* A report of OK is made when everything the plan asked for is done.
LEMMA FinishReports == ASSUME Inv, FinishSync PROVE report' = "OK" => Quiet' /\ ReportIsTrue'
<1> USE DEF Inv
<1> SUFFICES ASSUME report' = "OK" PROVE Quiet' /\ ReportIsTrue'
  OBVIOUS
<1>1. /\ phase = "wait" /\ ~failed /\ UNCHANGED <<docs, index, plan, opts, undeleted, hollow, remote>>
      /\ \A k \in posted : docs[k].status \notin {"queued", "failed"}
  BY DEF FinishSync
<1>2. Quiet'
  BY <1>1 DEF Quiet, Listed, Acting
<1>3. ASSUME NEW it \in plan, it.data # None
      PROVE  /\ docs[it.key] # None /\ docs[it.key].status = "indexed"
             /\ it.key \in hollow \/ index[it.key] = it.data
  <2>1. it.key \in DocKeys
    BY DEF Typed, Items
  <2>2. Landed(it)
    BY <1>1, <1>3 DEF Reported, Acting
  <2>3. docs[it.key] \in Doc
    BY <2>1, <2>2 DEF Typed, SyncTypeOK, Landed
  <2>4. docs[it.key].status = "indexed"
    BY <1>1, <2>2, <2>3 DEF Landed, Doc
  <2> QED BY <2>1, <2>2, <2>4 DEF Landed, Truthful
<1>4. ASSUME NEW k \in DocKeys, opts.delete, docs[k] # None, k \notin undeleted,
             \E it \in plan : it.key[1] = k[1]
      PROVE  \E it \in plan : it.key = k
  <2>1. k \notin Obsolete
    BY <1>1, <1>4 DEF Reported
  <2> QED BY <1>1, <1>4, <2>1 DEF Obsolete, Listed, Acting
<1> QED BY <1>1, <1>2, <1>3, <1>4 DEF ReportIsTrue

LEMMA ReportedStep == ASSUME Inv, [SyncNext]_syncVars PROVE Reported'
<1> USE DEF Inv
<1>1. CASE UNCHANGED <<phase, todo, plan, remote, opts, docs, index, posted, failed, report, undeleted, hollow>>
  BY <1>1 DEF Reported, Landed, Obsolete, Quiet, ReportIsTrue
<1>2. CASE StartSync
  BY <1>2 DEF StartSync, Reported, Acting
<1>3. CASE NextPhase
  <2>1. /\ UNCHANGED <<plan, remote, opts, docs, index, posted, failed, report, undeleted, hollow>>
        /\ todo = {} /\ phase # "idle" /\ phase' # "idle" /\ report = "none"
    BY <1>3 DEF NextPhase, Reported
  <2>2. Obsolete' = Obsolete
    BY <2>1 DEF Obsolete
  <2>3. phase' \in Acting /\ ~failed => \A it \in plan :
           it.data # None /\ ~(phase' = "items" /\ it \in todo') => Landed(it)'
    BY <1>3, <2>1 DEF NextPhase, Reported, Acting, Landed
  <2>4. phase' \in {"delete", "wait"} => \A k \in Obsolete :
           docs[k] = None \/ k \in undeleted \/ (phase' = "delete" /\ k \in todo')
    BY <1>3, <2>1 DEF NextPhase, Reported
  <2> QED BY <2>1, <2>2, <2>3, <2>4 DEF Reported
<1>4. CASE FinishSync
  <2>1. phase' = "idle"
    BY <1>4 DEF FinishSync
  <2> QED BY <1>4, <2>1, FinishReports DEF Reported, Acting
<1>5. CASE WaitTimesOut
  BY <1>5 DEF WaitTimesOut, Reported, Acting
<1>6. CASE Abort
  BY <1>6 DEF Abort, Reported, Acting
<1>7. ASSUME NEW it \in todo, AbortAfterPut(it) PROVE Reported'
  BY <1>7 DEF AbortAfterPut, Reported, Acting
<1>8. ASSUME NEW it \in todo, AddSummary(it) PROVE Reported'
  BY <1>8 DEF AddSummary, Reported, Acting
<1>9. ASSUME NEW it \in todo, SyncItem(it) PROVE Reported'
  <2>1. /\ it \in plan /\ it.key \in DocKeys /\ phase = "items" /\ phase' = "items" /\ todo' = todo \ {it}
        /\ UNCHANGED <<plan, remote, report>> /\ posted \subseteq posted' /\ (~failed' => ~failed)
        /\ docs[it.key] = remote[it.key]
    <3>1. /\ it \in plan /\ it \in Items /\ phase = "items" /\ phase' = "items" /\ todo' = todo \ {it}
          /\ UNCHANGED <<plan, remote, report>>
      BY <1>9 DEF SyncItem, Ahead, Typed
    <3>2. posted \subseteq posted' /\ (~failed' => ~failed)
      BY <1>9 DEF SyncItem
    <3> QED BY <1>9, <3>1, <3>2 DEF Items, Listed
  <2>2. ASSUME NEW x \in plan, x # it, Landed(x) PROVE Landed(x)'
    <3>1. x.key \in DocKeys /\ x.key # it.key
      BY <2>1, <2>2 DEF Planned, Typed, Items
    <3> QED BY <1>9, <2>1, <2>2, <3>1, SyncItemEffect DEF Landed
  <2>3. ASSUME it.data # None, ~failed' PROVE Landed(it)'
    <3>1. CASE Unchanged(it) /\ UNCHANGED docs
      BY <2>1, <2>3, <3>1 DEF Landed, Unchanged
    <3>2. CASE /\ docs' = docs /\ docs[it.key] # None
               /\ docs[it.key].status = "indexed" /\ docs[it.key].hash = it.data
      BY <3>2 DEF Landed
    <3>3. CASE it.key \in posted' /\ docs'[it.key] = [hash |-> it.data, src |-> it.src, status |-> "queued"]
      <4>1. it.data \in Texted /\ it.src \in Texts \cup {None}
        BY <2>1, <2>3 DEF Typed, Items
      <4>2. docs'[it.key] \in Doc
        BY <3>3, <4>1 DEF Doc
      <4>3. docs'[it.key] # None
        BY <4>2, KbAssumption
      <4> QED BY <3>3, <4>3 DEF Landed
    <3> QED BY ZenonT(30), <1>9, <2>3, <3>1, <3>2, <3>3, SyncItemEffect
  <2> QED BY <2>1, <2>2, <2>3 DEF Reported, Acting
<1>10. ASSUME NEW k \in todo, DeleteDocument(k) PROVE Reported'
  <2>1. /\ phase = "delete" /\ phase' = "delete" /\ k \in Obsolete /\ k \in DocKeys /\ todo' = todo \ {k}
        /\ UNCHANGED <<plan, remote, opts, posted, failed, report>> /\ report = "none"
    BY <1>10 DEF DeleteDocument, Ahead, Obsolete, Reported
  <2>2. Obsolete' = Obsolete
    BY <2>1 DEF Obsolete
  <2>3. (docs'[k] = None \/ k \in undeleted') /\ undeleted \subseteq undeleted'
    BY <1>10, <2>1 DEF DeleteDocument, Typed, SyncTypeOK
  <2>4. \A x \in DocKeys : x # k => docs'[x] = docs[x]
    BY <1>10, <2>1 DEF DeleteDocument, Typed, SyncTypeOK
  <2>5. ASSUME NEW it \in plan, Landed(it) PROVE Landed(it)'
    <3>1. it.key \in DocKeys /\ it.key # k
      BY <2>1 DEF Obsolete, Typed, Items
    <3> QED BY <2>1, <2>4, <2>5, <3>1 DEF Landed
  <2> QED BY <2>1, <2>2, <2>3, <2>4, <2>5 DEF Reported, Acting, Obsolete
<1>11. ASSUME NEW k \in DocKeys, RunJob(k) PROVE Reported'
  <2>1. /\ UNCHANGED <<phase, todo, plan, remote, opts, posted, failed, report, undeleted>>
        /\ docs[k] # None /\ docs[k].status = "queued" /\ docs'[k] \in Doc /\ docs'[k].hash = docs[k].hash
        /\ \A x \in DocKeys : x # k => docs'[x] = docs[x]
    BY <1>11, RunJobEffect DEF RunJob
  <2>2. Obsolete' = Obsolete
    BY <2>1 DEF Obsolete
  <2>3. report # "OK"
    BY <2>1 DEF Reported, Quiet
  <2>4. ASSUME NEW it \in plan, Landed(it) PROVE Landed(it)'
    <3>1. it.key \in DocKeys
      BY DEF Typed, Items
    <3>2. CASE it.key = k
      BY <2>1, <2>4, <3>2, KbAssumption DEF Landed
    <3>3. CASE it.key # k
      BY <2>1, <2>4, <3>1, <3>3 DEF Landed
    <3> QED BY <3>2, <3>3
  <2>5. \A x \in DocKeys : docs[x] = None => docs'[x] = None
    BY <2>1
  <2> QED BY <2>1, <2>2, <2>3, <2>4, <2>5 DEF Reported, Obsolete
<1>12. ASSUME NEW f \in Files, Edit(f)
       PROVE  UNCHANGED <<phase, todo, plan, remote, opts, docs, index, posted, failed, report, undeleted, hollow>>
  BY <1>12 DEF Edit
<1> QED BY <1>1, <1>2, <1>3, <1>4, <1>5, <1>6, <1>7, <1>8, <1>9, <1>10, <1>11, <1>12 DEF SyncNext, syncVars

LEMMA InvAlways == SyncSpec => []Inv
<1>1. Inv /\ [SyncNext]_syncVars => Inv'
  BY TypedStep, PlannedStep, AheadStep, CoveredStep, TruthfulStep, ListedStep, ReportedStep DEF Inv
<1> QED BY InitInv, <1>1, PTL DEF SyncSpec

-----------------------------------------------------------------------------
(* The theorems. *)

\* A sync that reports OK has made the collections what it planned, whatever
\* was killed, refused or left over by the syncs before it, but for deletions
\* of this sync that failed and rows that a deletion left without points.
THEOREM ReportTheorem == SyncSpec => []ReportIsTrue
<1>1. Inv => ReportIsTrue
  BY DEF Inv, Reported, ReportIsTrue
<1> QED BY <1>1, InvAlways, PTL

\* A summary names the text it summarises, unless its points are gone, and of
\* a file that is scanned no text with an unmarked secret is searchable or
\* lies in MinIO.
THEOREM HonestTheorem == SyncSpec => []IndexIsHonest
<1>1. Inv => IndexIsHonest
  BY DEF Inv, Truthful, Clean, IndexIsHonest
<1> QED BY <1>1, InvAlways, PTL

Sparing ==
    \A k \in DocKeys : docs[k] # None /\ docs'[k] = None =>
        /\ opts.delete /\ \A it \in plan : it.key # k
        /\ k[2] = "summary" /\ opts.summaries =>
               \A it \in plan : it.key = <<Summarised, "file", k[3]>> =>
                   k[3] \notin Included \/ it.data.of \notin Long

\* Nothing that is planned is deleted, nor the summary of a planned file that
\* is eligible for one while summaries are on, whatever the LLM answered.
THEOREM KeepTheorem == SyncSpec => KeepsWhatExists
<1>1. ASSUME Inv, [SyncNext]_syncVars PROVE Sparing
  <2>1. CASE UNCHANGED docs
    BY <2>1 DEF Sparing
  <2>2. ASSUME NEW it \in todo, SyncItem(it) PROVE Sparing
    <3>1. it.key \in DocKeys /\ it \in Items
      BY <1>1, <2>2, SyncItemEffect DEF Items
    <3>2. ASSUME it.data \in Texted,
                 docs'[it.key] = [hash |-> it.data, src |-> it.src, status |-> "queued"]
          PROVE  docs'[it.key] # None
      <4>1. docs'[it.key] \in Doc
        BY <3>1, <3>2 DEF Doc, Items
      <4> QED BY <4>1, KbAssumption
    <3>3. docs'[it.key] = docs[it.key] \/ docs'[it.key] # None
      BY <1>1, <2>2, <3>2, SyncItemEffect
    <3> QED BY <1>1, <2>2, <3>3, SyncItemEffect DEF Sparing
  <2>3. ASSUME NEW k \in todo, DeleteDocument(k) PROVE Sparing
    <3>1. k \in Obsolete /\ phase = "delete" /\ opts.delete
      BY <1>1, <2>3 DEF DeleteDocument, Inv, Ahead, Obsolete
    <3>2. ASSUME NEW it \in plan, k[2] = "summary", opts.summaries,
                 it.key = <<Summarised, "file", k[3]>>,
                 k[3] \in Included, it.data.of \in Long
          PROVE  FALSE
      <4>0. it.key[2] = "file" /\ Eligible(it)
        BY <3>2 DEF Eligible
      <4>1. k = <<Summarised, "summary", k[3]>>
        BY <1>1, <3>1, <3>2 DEF Obsolete, Inv, Listed, DocKeys
      <4>2. remote[SummaryKey(it)] # None /\ SummaryKey(it) = k
        BY <3>1, <3>2, <4>1 DEF SummaryKey, Obsolete
      <4> QED BY <1>1, <3>1, <3>2, <4>0, <4>2 DEF Inv, Covered, Obsolete
    <3>3. \A x \in DocKeys : x # k => docs'[x] = docs[x]
      BY <1>1, <2>3 DEF DeleteDocument, Inv, Typed, SyncTypeOK
    <3> QED BY <3>1, <3>2, <3>3 DEF Sparing, Obsolete
  <2>4. ASSUME NEW k \in DocKeys, RunJob(k) PROVE Sparing
    <3>1. docs'[k] # None
      BY <1>1, <2>4, RunJobEffect, KbAssumption
    <3> QED BY <1>1, <2>4, <3>1, RunJobEffect DEF Sparing
  <2>5. ASSUME NEW x \in todo, AddSummary(x) \/ AbortAfterPut(x) PROVE UNCHANGED docs
    BY <2>5 DEF AddSummary, AbortAfterPut
  <2>6. (StartSync \/ NextPhase \/ FinishSync \/ WaitTimesOut \/ Abort \/ \E f \in Files : Edit(f))
            => UNCHANGED docs
    BY DEF StartSync, NextPhase, FinishSync, WaitTimesOut, Abort, Edit
  <2> QED BY <1>1, <2>1, <2>2, <2>3, <2>4, <2>5, <2>6 DEF SyncNext, syncVars
<1> QED BY <1>1, InvAlways, PTL DEF SyncSpec, KeepsWhatExists, Sparing

==============================================================================
