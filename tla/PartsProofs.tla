------------------------------ MODULE PartsProofs ------------------------------
(***************************************************************************)
(* Four more parts: PagesReadOnce for any document, parses and failures,   *)
(* CalculationsBounded for any operands and bounds, KeysFollowProvider for *)
(* any tokens, keys and times, and EveryLineOnce for any file, strategy    *)
(* and limits.  The last needs the folds of CorpusProofs.                  *)
(***************************************************************************)
EXTENDS PdfOcr, Calculator, SigningKeys, Chunking, CorpusProofs

-----------------------------------------------------------------------------
(* PdfOcr.                                                                  *)

OcrTexts == [of : Images \cup {NoText}, text : Answers \cup {"layer", NoText}]

OcrTyped ==
    /\ image \in [Pages -> Images] /\ layered \in SUBSET Pages
    /\ parse \in [Parses -> {"new", "reading", "done", "failed"}]
    /\ at \in [Parses -> [Pages -> {"no", "wait", "look", "ask", "read"}]]
    /\ texts \in [Parses -> [Pages -> OcrTexts]]
    /\ cached \in [Images -> OcrTexts]
    /\ known \in [Parses -> SUBSET Images]

\* The text of a page's own image.
Own(i, t) == t.of = image[i] /\ t.text # NoText

\* The cache holds what was read on the image it is asked for, and forgets nothing.
OcrCached ==
    /\ \A m \in Images : cached[m] # NotRead => cached[m].of = m /\ cached[m].text # NoText
    /\ \A p \in Parses : \A m \in known[p] : cached[m] # NotRead

\* A page that has to be read is on its way until it is read or its parse fails.
OcrOnItsWay == \A p \in Parses :
    /\ parse[p] = "new" => \A i \in Pages : at[p][i] = "no"
    /\ parse[p] \in {"reading", "done"} =>
           /\ \A i \in layered : Own(i, texts[p][i])
           /\ \A i \in ToRead : at[p][i] # "no"
    /\ parse[p] = "done" => \A i \in Pages : at[p][i] \in {"no", "read"}
    /\ \A i \in Pages : at[p][i] # "no" => i \in ToRead
    /\ \A i \in Pages : at[p][i] = "read" => Own(i, texts[p][i])
    /\ \A i \in Pages : at[p][i] = "ask" => image[i] \notin known[p]

OcrInv == OcrTyped /\ OcrCached /\ OcrOnItsWay

LEMMA ToReadPages == OcrTyped => ToRead \subseteq Pages \ layered
  BY DEF OcrTyped, ToRead, Scanned

\* What is read is no empty entry.
LEMMA OcrText ==
    ASSUME OcrTyped, NEW i \in Pages, NEW a, a # NoText
    PROVE  Text(i, a) # NotRead /\ Text(i, a).of = image[i] /\ Text(i, a).text = a
  BY DEF Text, NotRead

LEMMA ToReadFixed ==
    ASSUME UNCHANGED <<image, layered>>
    PROVE  ToRead' = ToRead /\ \A i, t : Own(i, t)' <=> Own(i, t)
  BY DEF ToRead, Scanned, Own

LEMMA BeginParseStep == ASSUME OcrInv, NEW p \in Parses, BeginParse(p) PROVE OcrInv'
<1>1. OcrTyped'
  BY DEF OcrInv, OcrTyped, BeginParse, OcrTexts, NotRead, Text
<1>2. OcrCached'
  BY DEF OcrInv, OcrTyped, OcrCached, BeginParse
<1>3. OcrOnItsWay'
  BY OcrAssumption, OcrText, ToReadPages, ToReadFixed
     DEF OcrInv, OcrTyped, OcrOnItsWay, BeginParse, NotRead, Own
<1> QED BY <1>1, <1>2, <1>3 DEF OcrInv

LEMMA TakeSlotStep == ASSUME OcrInv, NEW p \in Parses, NEW i \in Pages, TakeSlot(p, i) PROVE OcrInv'
<1>1. OcrTyped' /\ OcrCached'
  BY DEF OcrInv, OcrTyped, OcrCached, TakeSlot
<1>2. OcrOnItsWay'
  BY ToReadFixed DEF OcrInv, OcrTyped, OcrOnItsWay, TakeSlot
<1> QED BY <1>1, <1>2 DEF OcrInv

LEMMA LookCacheStep == ASSUME OcrInv, NEW p \in Parses, NEW i \in Pages, Look(p, i) PROVE OcrInv'
<1>1. image[i] \in Images /\ at[p][i] = "look" /\ UNCHANGED <<image, layered, parse, cached, known>>
  BY DEF OcrInv, OcrTyped, Look
<1>2. CASE cached[image[i]] # NotRead
  <2>1. /\ texts' = [texts EXCEPT ![p][i] = cached[image[i]]]
        /\ at' = [at EXCEPT ![p][i] = "read"]
    BY <1>2 DEF Look, ReadAs
  <2>2. Own(i, cached[image[i]])
    BY <1>1, <1>2 DEF OcrInv, OcrCached, Own
  <2>3. OcrTyped' /\ OcrCached'
    BY <1>1, <2>1 DEF OcrInv, OcrTyped, OcrCached
  <2>4. OcrOnItsWay'
    BY <1>1, <2>1, <2>2, ToReadPages, ToReadFixed DEF OcrInv, OcrTyped, OcrOnItsWay
  <2> QED BY <2>3, <2>4 DEF OcrInv
<1>3. CASE cached[image[i]] = NotRead
  <2>1. at' = [at EXCEPT ![p][i] = "ask"] /\ texts' = texts
    BY <1>3 DEF Look
  <2>2. image[i] \notin known[p]
    BY <1>3 DEF OcrInv, OcrCached
  <2>3. OcrTyped' /\ OcrCached'
    BY <1>1, <2>1 DEF OcrInv, OcrTyped, OcrCached
  <2>4. OcrOnItsWay'
    BY <1>1, <2>1, <2>2, ToReadFixed DEF OcrInv, OcrTyped, OcrOnItsWay
  <2> QED BY <2>3, <2>4 DEF OcrInv
<1> QED BY <1>2, <1>3

LEMMA AskStep == ASSUME OcrInv, NEW p \in Parses, NEW i \in Pages, Ask(p, i) PROVE OcrInv'
<1>1. PICK a \in Answers : ReadAs(p, i, Text(i, a)) /\ cached' = [cached EXCEPT ![image[i]] = Text(i, a)]
  BY DEF Ask
<1>2. /\ texts' = [texts EXCEPT ![p][i] = Text(i, a)] /\ at' = [at EXCEPT ![p][i] = "read"]
      /\ at[p][i] = "ask" /\ UNCHANGED <<image, layered, parse, known>>
  BY <1>1 DEF Ask, ReadAs
<1>3. /\ image[i] \in Images /\ Text(i, a) \in OcrTexts /\ Text(i, a) # NotRead /\ Own(i, Text(i, a))
  BY OcrAssumption, OcrText DEF OcrInv, OcrTyped, OcrTexts, Text, Own
<1>4. OcrTyped'
  BY <1>1, <1>2, <1>3 DEF OcrInv, OcrTyped
<1>5. OcrCached'
  BY <1>1, <1>2, <1>3 DEF OcrInv, OcrTyped, OcrCached, Own
<1>6. OcrOnItsWay'
  BY <1>2, <1>3, ToReadPages, ToReadFixed DEF OcrInv, OcrTyped, OcrOnItsWay
<1> QED BY <1>4, <1>5, <1>6 DEF OcrInv

LEMMA PageFailsStep == ASSUME OcrInv, NEW p \in Parses, NEW i \in Pages, PageFails(p, i) PROVE OcrInv'
<1>1. OcrTyped' /\ OcrCached'
  BY DEF OcrInv, OcrTyped, OcrCached, PageFails
<1>2. OcrOnItsWay'
  BY ToReadFixed DEF OcrInv, OcrTyped, OcrOnItsWay, PageFails
<1> QED BY <1>1, <1>2 DEF OcrInv

LEMMA EndParseStep == ASSUME OcrInv, NEW p \in Parses, EndParse(p) PROVE OcrInv'
<1>1. OcrTyped' /\ OcrCached'
  BY DEF OcrInv, OcrTyped, OcrCached, EndParse
<1>2. OcrOnItsWay'
  BY ToReadFixed DEF OcrInv, OcrTyped, OcrOnItsWay, EndParse
<1> QED BY <1>1, <1>2 DEF OcrInv

\* A parse that succeeds has every page it had to read, with the text of its
\* own image, and what an earlier parse has read is never asked for again,
\* whatever fails in between.
THEOREM PagesTheorem == OcrSpec => []PagesReadOnce
<1>1. OcrInit => OcrInv
  BY DEF OcrInit, OcrInv, OcrTyped, OcrCached, OcrOnItsWay, OcrTexts, NotRead
<1>2. OcrInv /\ [OcrNext]_ocrVars => OcrInv'
  <2>1. ASSUME OcrInv, OcrNext PROVE OcrInv'
    BY <2>1, BeginParseStep, TakeSlotStep, LookCacheStep, AskStep, PageFailsStep, EndParseStep DEF OcrNext
  <2>2. ASSUME OcrInv, UNCHANGED ocrVars PROVE OcrInv'
    BY <2>2, ToReadFixed DEF ocrVars, OcrInv, OcrTyped, OcrCached, OcrOnItsWay
  <2> QED BY <2>1, <2>2
<1>3. OcrInv => PagesReadOnce
  BY ToReadPages DEF OcrInv, OcrTyped, OcrOnItsWay, PagesReadOnce, Own
<1> QED BY <1>1, <1>2, <1>3, PTL DEF OcrSpec

-----------------------------------------------------------------------------
(* Calculator.                                                              *)

Number == [is : {"int", "float", "zero", "zero_float", "inf"}, exp : Int, neg : BOOLEAN]

\* How long a result may be after so many steps.
Room(n) == (n + 1) * (MaxResultDigits + 1)

\* An integer has a digit before the point, a float is in range.
Sound(v) ==
    /\ v \in Number
    /\ v.is = "int" => v.exp >= 0
    /\ v.is = "float" => v.exp \in -FloatExponent .. FloatExponent
    /\ v.is \in {"zero", "zero_float", "inf"} => v.exp \in {-1, 0}

CalcInv ==
    /\ steps \in Nat /\ expr \in {"given", "evaluating", "done"}
    /\ expr = "given" => steps = 0
    /\ Sound(value) /\ value.exp <= Room(steps)
    /\ value.is = "inf" => steps = 0

LEMMA MoreRoom ==
    /\ MaxResultDigits \in Nat
    /\ \A n \in Nat : Room(n) \in Nat /\ Room(n) >= MaxResultDigits + 1
                      /\ Room(n + 1) = Room(n) + MaxResultDigits + 1
<1>1. MaxResultDigits \in Nat
  BY CalcAssumption
<1>2. ASSUME NEW n \in Nat
      PROVE  Room(n) \in Nat /\ Room(n) >= MaxResultDigits + 1
             /\ Room(n + 1) = Room(n) + MaxResultDigits + 1
  <2>1. PICK m \in Nat : m = MaxResultDigits + 1
    BY <1>1
  <2>2. n * m \in Nat /\ (n + 1) * m = n * m + m /\ (n + 1 + 1) * m = n * m + m + m
    OBVIOUS
  <2> QED BY <1>1, <2>1, <2>2 DEF Room
<1> QED BY <1>1, <1>2

\* What the constructors make.
LEMMA MadeZero ==
    /\ Sound(Zero) /\ Zero.exp = -1 /\ Zero.is = "zero"
    /\ Sound(FloatZero) /\ FloatZero.exp = -1 /\ FloatZero.is = "zero_float"
    /\ Sound(Infinite) /\ Infinite.exp = 0 /\ Infinite.is = "inf"
  BY DEF Sound, Number, Zero, FloatZero, ZeroOf, Infinite

LEMMA MadeInt ==
    ASSUME NEW e \in Nat, NEW neg \in BOOLEAN
    PROVE  Sound(IntOf(e, neg)) /\ IntOf(e, neg).exp = e /\ IntOf(e, neg).is = "int"
  BY DEF Sound, Number, IntOf

LEMMA MadeFloat ==
    ASSUME NEW e \in -FloatExponent .. FloatExponent, NEW neg \in BOOLEAN, FloatExponent \in Nat
    PROVE  Sound(FloatOf(e, neg)) /\ FloatOf(e, neg).exp = e /\ FloatOf(e, neg).is = "float"
  BY DEF Sound, Number, FloatOf

LEMMA Literals == \A l \in Operands :
    /\ Sound(l) /\ l.exp <= MaxResultDigits
    /\ l.is \in {"int", "float", "zero", "zero_float", "inf"}
<1> SUFFICES ASSUME NEW l \in Operands
             PROVE  Sound(l) /\ l.exp <= MaxResultDigits
  BY DEF Sound, Number
<1>0. /\ MaxResultDigits \in Nat /\ FloatExponent \in Nat /\ FloatExponent <= MaxResultDigits
      /\ 2567 <= MaxResultDigits
  BY CalcAssumption
<1>1. CASE l \in {Zero, FloatZero, Infinite}
  <2>1. l = Zero \/ l = FloatZero \/ l = Infinite
    BY <1>1
  <2>2. Sound(l) /\ l.exp \in {-1, 0}
    BY <2>1, MadeZero
  <2> QED BY <1>0, <2>2
<1>2. CASE \E e \in 0 .. MaxResultDigits, neg \in BOOLEAN : l = IntOf(e, neg)
  <2>1. PICK e \in 0 .. MaxResultDigits, neg \in BOOLEAN : l = IntOf(e, neg)
    BY <1>2
  <2>2. e \in Nat /\ e <= MaxResultDigits
    BY <1>0
  <2> QED BY <2>1, <2>2, MadeInt
<1>3. CASE \E e \in -FloatExponent .. FloatExponent, neg \in BOOLEAN : l = FloatOf(e, neg)
  <2>1. PICK e \in -FloatExponent .. FloatExponent, neg \in BOOLEAN : l = FloatOf(e, neg)
    BY <1>3
  <2>2. e \in Int /\ e <= MaxResultDigits
    BY <1>0
  <2> QED BY <1>0, <2>1, <2>2, MadeFloat
<1> QED BY <1>1, <1>2, <1>3, CalcAssumption

\* A step that explains, or takes a number with room for it.
LEMMA Explained == ASSUME CalcInv, Explain PROVE CalcInv'
  BY DEF CalcInv, Explain, Sound, Room

LEMMA Became ==
    ASSUME CalcInv, expr = "evaluating", NEW v, Sound(v), Become(v), v.is # "inf",
           v.exp <= Room(steps) + MaxResultDigits + 1
    PROVE  CalcInv'
<1>1. /\ value' = v /\ steps' = steps + 1 /\ expr' = expr /\ steps \in Nat
  BY DEF Become, CalcInv
<1>2. Room(steps') = Room(steps) + MaxResultDigits + 1
  BY <1>1, MoreRoom
<1>3. Sound(value') /\ value'.exp <= Room(steps') /\ value'.is # "inf"
  BY <1>1, <1>2
<1>4. steps' \in Nat /\ expr' = "evaluating"
  BY <1>1
<1> QED BY <1>3, <1>4 DEF CalcInv, Sound, Room

LEMMA BecameFloat ==
    ASSUME CalcInv, expr = "evaluating", NEW e \in Int, NEW neg \in BOOLEAN, BecomeFloat(e, neg)
    PROVE  CalcInv'
<1>0. /\ MaxResultDigits \in Nat /\ FloatExponent \in Nat /\ FloatExponent <= MaxResultDigits
      /\ steps \in Nat /\ Room(steps) \in Nat
  BY CalcAssumption, MoreRoom DEF CalcInv
<1>1. CASE e > FloatExponent
  BY <1>1, Explained DEF BecomeFloat
<1>2. CASE e < -FloatExponent
  <2>1. Become(FloatZero)
    BY <1>0, <1>2 DEF BecomeFloat
  <2>2. Sound(FloatZero) /\ FloatZero.is # "inf" /\ FloatZero.exp <= Room(steps) + MaxResultDigits + 1
    <3>1. Sound(FloatZero) /\ FloatZero.exp = -1 /\ FloatZero.is = "zero_float"
      BY MadeZero
    <3> QED BY <1>0, <3>1
  <2> QED BY <2>1, <2>2, Became
<1>3. CASE e \in -FloatExponent .. FloatExponent
  <2>1. Become(FloatOf(e, neg))
    BY <1>0, <1>3 DEF BecomeFloat
  <2>2. Sound(FloatOf(e, neg)) /\ FloatOf(e, neg).is # "inf" /\ FloatOf(e, neg).exp = e
    BY <1>0, <1>3, MadeFloat
  <2> QED BY <1>0, <1>3, <2>1, <2>2, Became
<1> QED BY <1>0, <1>1, <1>2, <1>3


\* The room there is for the next result.
LEMMA RoomNow ==
    ASSUME CalcInv
    PROVE  /\ MaxResultDigits \in Nat /\ FloatExponent \in Nat /\ FloatExponent <= MaxResultDigits
           /\ 2567 <= MaxResultDigits /\ Room(steps) \in Nat /\ Sound(value) /\ value.exp <= Room(steps)
           /\ value.exp \in Int /\ value.neg \in BOOLEAN
<1>1. steps \in Nat /\ Sound(value) /\ value.exp <= Room(steps)
  BY DEF CalcInv
<1>2. Room(steps) \in Nat
  BY <1>1, MoreRoom
<1>3. value.exp \in Int /\ value.neg \in BOOLEAN
  BY <1>1 DEF Sound, Number
<1>4. /\ MaxResultDigits \in Nat /\ FloatExponent \in Nat /\ FloatExponent <= MaxResultDigits
      /\ 2567 <= MaxResultDigits
  BY CalcAssumption
<1> QED BY <1>1, <1>2, <1>3, <1>4

LEMMA BecameInt ==
    ASSUME CalcInv, expr = "evaluating", NEW e \in Nat, NEW neg \in BOOLEAN, Become(IntOf(e, neg)),
           e <= Room(steps) + MaxResultDigits + 1
    PROVE  CalcInv'
<1>1. Sound(IntOf(e, neg)) /\ IntOf(e, neg).is # "inf" /\ IntOf(e, neg).exp = e
  BY MadeInt
<1> QED BY <1>1, Became

LEMMA BecameZero ==
    ASSUME CalcInv, expr = "evaluating", Become(Zero) \/ Become(FloatZero)
    PROVE  CalcInv'
<1>1. PICK z \in {Zero, FloatZero} : Become(z)
  OBVIOUS
<1>2. Sound(z) /\ z.is # "inf" /\ z.exp = -1
  BY MadeZero
<1>3. z.exp <= Room(steps) + MaxResultDigits + 1
  BY <1>2, RoomNow
<1> QED BY <1>1, <1>2, <1>3, Became

LEMMA LiteralIs ==
    ASSUME NEW l \in Operands
    PROVE  /\ l.exp \in Int /\ l.exp <= MaxResultDigits /\ l.neg \in BOOLEAN
           /\ l.is = "int" => l.exp >= 0
           /\ IsInt(l) => l.is \in {"int", "zero"}
  BY Literals DEF Sound, Number, IsInt

LEMMA AddStep == ASSUME CalcInv, Add PROVE CalcInv'
<1>1. PICK l \in Operands :
        LET e == IF IsZero(l) \/ (~IsZero(value) /\ value.exp > l.exp) THEN value.exp ELSE l.exp IN
        IF value.is = "inf" \/ l.is = "inf" THEN Explain
        ELSE IF IsInt(value) /\ IsInt(l)
          THEN Become(Zero) \/ \E x \in {0, e, e + 1}, neg \in BOOLEAN : x >= 0 /\ Become(IntOf(x, neg))
        ELSE IF TooLarge(value) \/ TooLarge(l) THEN Explain
        ELSE Become(FloatZero) \/ \E x \in {0, e, e + 1}, neg \in BOOLEAN : BecomeFloat(x, neg)
  BY DEF Add
<1>2. PICK e \in Int : /\ e = IF IsZero(l) \/ (~IsZero(value) /\ value.exp > l.exp) THEN value.exp ELSE l.exp
                       /\ e <= Room(steps) + MaxResultDigits
  BY RoomNow, LiteralIs
<1>3. \/ Explain \/ Become(Zero) \/ Become(FloatZero)
      \/ \E x \in {0, e, e + 1}, neg \in BOOLEAN : x >= 0 /\ Become(IntOf(x, neg))
      \/ \E x \in {0, e, e + 1}, neg \in BOOLEAN : BecomeFloat(x, neg)
  BY <1>1, <1>2
<1>4. ASSUME NEW x \in {0, e, e + 1}, NEW neg \in BOOLEAN, x >= 0, Become(IntOf(x, neg)) PROVE CalcInv'
  <2>1. x \in Nat /\ x <= Room(steps) + MaxResultDigits + 1
    BY <1>2, <1>4, RoomNow
  <2> QED BY <1>4, <2>1, BecameInt DEF Add
<1>5. ASSUME NEW x \in {0, e, e + 1}, NEW neg \in BOOLEAN, BecomeFloat(x, neg) PROVE CalcInv'
  <2>1. x \in Int
    BY <1>2
  <2> QED BY <1>5, <2>1, BecameFloat DEF Add
<1> QED BY <1>3, <1>4, <1>5, Explained, BecameZero DEF Add

LEMMA MultiplyStep == ASSUME CalcInv, Multiply PROVE CalcInv'
<1>1. PICK l \in Operands :
        IF value.is = "inf" \/ l.is = "inf" THEN Explain
        ELSE IF ~(IsInt(value) /\ IsInt(l)) /\ (TooLarge(value) \/ TooLarge(l)) THEN Explain
        ELSE IF IsZero(value) \/ IsZero(l)
          THEN Become(IF IsInt(value) /\ IsInt(l) THEN Zero ELSE FloatZero)
        ELSE \E carry \in 0 .. 1 : LET e == value.exp + l.exp + carry  neg == value.neg # l.neg IN
             IF IsInt(value) /\ IsInt(l) THEN Become(IntOf(e, neg)) ELSE BecomeFloat(e, neg)
  BY DEF Multiply
<1>2. PICK neg \in BOOLEAN : neg = (value.neg # l.neg)
  OBVIOUS
<1>3. \/ Explain \/ Become(Zero) \/ Become(FloatZero)
      \/ \E carry \in 0 .. 1 : \/ /\ IsInt(value) /\ IsInt(l) /\ ~IsZero(value) /\ ~IsZero(l)
                                  /\ Become(IntOf(value.exp + l.exp + carry, neg))
                               \/ BecomeFloat(value.exp + l.exp + carry, neg)
  BY <1>1, <1>2, SMTT(30)
<1>4. ASSUME NEW carry \in 0 .. 1, IsInt(value), IsInt(l), ~IsZero(value), ~IsZero(l),
             Become(IntOf(value.exp + l.exp + carry, neg)) PROVE CalcInv'
  <2>1. value.is = "int" /\ l.is = "int"
    BY <1>4 DEF IsInt, IsZero
  <2>2. PICK e \in Nat : e = value.exp + l.exp + carry /\ e <= Room(steps) + MaxResultDigits + 1
    BY <2>1, RoomNow, LiteralIs DEF Sound
  <2> QED BY <1>4, <2>2, BecameInt DEF Multiply
<1>5. ASSUME NEW carry \in 0 .. 1, BecomeFloat(value.exp + l.exp + carry, neg) PROVE CalcInv'
  <2>1. PICK e \in Int : e = value.exp + l.exp + carry
    BY RoomNow, LiteralIs
  <2> QED BY <1>5, <2>1, BecameFloat DEF Multiply
<1> QED BY <1>3, <1>4, <1>5, Explained, BecameZero DEF Multiply

LEMMA DivideStep == ASSUME CalcInv, Divide PROVE CalcInv'
<1>1. PICK l \in Operands :
        \/ Explain \/ Become(FloatZero)
        \/ \E carry \in 0 .. 1 : BecomeFloat(value.exp - l.exp - carry, value.neg # l.neg)
  BY DEF Divide
<1>2. ASSUME NEW carry \in 0 .. 1, BecomeFloat(value.exp - l.exp - carry, value.neg # l.neg) PROVE CalcInv'
  <2>1. PICK e \in Int : e = value.exp - l.exp - carry
    BY RoomNow, LiteralIs
  <2>2. PICK neg \in BOOLEAN : neg = (value.neg # l.neg)
    OBVIOUS
  <2> QED BY <1>2, <2>1, <2>2, BecameFloat DEF Divide
<1> QED BY <1>1, <1>2, Explained, BecameZero DEF Divide

\* A result of either kind.
LEMMA BecameOf ==
    ASSUME CalcInv, expr = "evaluating", NEW int \in BOOLEAN, NEW e \in Int, NEW neg \in BOOLEAN,
           BecomeOf(int, e, neg), int => e >= 0 /\ e <= Room(steps) + MaxResultDigits + 1
    PROVE  CalcInv'
<1>1. CASE int
  <2>1. Become(IntOf(e, neg)) /\ e \in Nat
    BY <1>1 DEF BecomeOf
  <2> QED BY <1>1, <2>1, BecameInt
<1>2. CASE ~int
  <2>1. BecomeFloat(e, neg)
    BY <1>2 DEF BecomeOf
  <2> QED BY <2>1, BecameFloat
<1> QED BY <1>1, <1>2

LEMMA Vanished ==
    ASSUME CalcInv, expr = "evaluating", NEW int \in BOOLEAN, Vanish(int)
    PROVE  CalcInv'
<1>1. Become(Zero) \/ Become(FloatZero)
  BY DEF Vanish
<1> QED BY <1>1, BecameZero

\* Nothing but an integer that is not zero has a length to bound.
LEMMA Lengths ==
    ASSUME CalcInv, NEW l \in Operands, IsInt(value), IsInt(l), ~Indivisible(l), ~IsZero(value)
    PROVE  value.exp >= 0 /\ l.exp >= 0
<1>1. value.is = "int"
  BY DEF IsInt, IsZero
<1>2. l.is = "int"
  BY LiteralIs DEF Indivisible, IsInt, IsZero
<1> QED BY <1>1, <1>2, RoomNow, LiteralIs DEF Sound

LEMMA FloorDivideStep == ASSUME CalcInv, FloorDivide PROVE CalcInv'
<1>1. PICK l \in Operands :
        LET int  == IsInt(value) /\ IsInt(l)
            neg  == value.neg # l.neg
            e    == value.exp - l.exp
            exps == IF l.is = "inf" THEN {-1} ELSE {e - 1, e} \cup (IF neg THEN {e + 1} ELSE {})
        IN
        IF Indivisible(l) THEN Explain
        ELSE IF IsZero(value) THEN Vanish(int)
        ELSE \E x \in exps : IF x >= 0 THEN BecomeOf(int, x, neg)
                             ELSE IF neg THEN BecomeOf(int, 0, TRUE) ELSE Vanish(int)
  BY DEF FloorDivide
<1>2. PICK int \in BOOLEAN : int = (IsInt(value) /\ IsInt(l))
  OBVIOUS
<1>3. PICK neg \in BOOLEAN : neg = (value.neg # l.neg)
  OBVIOUS
<1>4. expr = "evaluating"
  BY DEF FloorDivide
<1>5. CASE Indivisible(l)
  BY <1>1, <1>5, Explained
<1>6. CASE ~Indivisible(l) /\ IsZero(value)
  <2>1. Vanish(int)
    BY <1>1, <1>2, <1>6
  <2> QED BY <1>4, <2>1, Vanished
<1>7. CASE ~Indivisible(l) /\ ~IsZero(value)
  <2>1. PICK x \in {-1, value.exp - l.exp - 1, value.exp - l.exp, value.exp - l.exp + 1} :
          IF x >= 0 THEN BecomeOf(int, x, neg) ELSE IF neg THEN BecomeOf(int, 0, TRUE) ELSE Vanish(int)
    BY <1>1, <1>2, <1>3, <1>7
  <2>2. x \in Int /\ (int => x <= Room(steps) + MaxResultDigits + 1)
    <3>1. int => value.exp >= 0 /\ l.exp >= 0
      BY <1>2, <1>7, Lengths
    <3> QED BY ONLY <2>1, <3>1, RoomNow, LiteralIs, CalcInv, l \in Operands
  <2>3. x >= 0 /\ BecomeOf(int, x, neg) => CalcInv'
    BY <1>4, <2>2, BecameOf
  <2>4. BecomeOf(int, 0, TRUE) => CalcInv'
    <3>1. 0 \in Int /\ TRUE \in BOOLEAN /\ 0 >= 0 /\ 0 <= Room(steps) + MaxResultDigits + 1
      BY RoomNow
    <3> QED BY <1>4, <3>1, BecameOf
  <2> QED BY <1>4, <2>1, <2>3, <2>4, Vanished
<1> QED BY <1>5, <1>6, <1>7

LEMMA ModStep == ASSUME CalcInv, Mod PROVE CalcInv'
<1>1. PICK l \in Operands :
        LET int == IsInt(value) /\ IsInt(l) IN
        IF Indivisible(l) THEN Explain
        ELSE IF IsZero(value) THEN Vanish(int)
        ELSE IF l.is = "inf" THEN (IF value.neg THEN Explain ELSE BecomeFloat(value.exp, FALSE))
        ELSE IF value.exp < l.exp /\ value.neg = l.neg THEN BecomeOf(int, value.exp, value.neg)
        ELSE Vanish(int) \/ \E x \in {0, l.exp} : x <= l.exp /\ BecomeOf(int, x, l.neg)
  BY DEF Mod
<1>2. PICK int \in BOOLEAN : int = (IsInt(value) /\ IsInt(l))
  OBVIOUS
<1>3. expr = "evaluating"
  BY DEF Mod
<1>4. CASE Indivisible(l)
  BY <1>1, <1>4, Explained
<1>5. CASE ~Indivisible(l) /\ IsZero(value)
  <2>1. Vanish(int)
    BY <1>1, <1>2, <1>5
  <2> QED BY <1>3, <2>1, Vanished
<1>6. CASE ~Indivisible(l) /\ ~IsZero(value)
  <2>1. \/ Explain \/ Vanish(int) \/ BecomeFloat(value.exp, FALSE)
        \/ \E x \in {value.exp, 0, l.exp}, neg \in {value.neg, l.neg} : BecomeOf(int, x, neg)
    BY <1>1, <1>2, <1>6
  <2>2. BecomeFloat(value.exp, FALSE) => CalcInv'
    <3>1. value.exp \in Int /\ FALSE \in BOOLEAN
      BY RoomNow
    <3> QED BY <1>3, <3>1, BecameFloat
  <2>3. ASSUME NEW x \in {value.exp, 0, l.exp}, NEW neg \in {value.neg, l.neg}, BecomeOf(int, x, neg)
        PROVE  CalcInv'
    <3>1. x \in Int /\ neg \in BOOLEAN
      BY RoomNow, LiteralIs
    <3>2. int => x >= 0 /\ x <= Room(steps) + MaxResultDigits + 1
      <4>1. int => value.exp >= 0 /\ l.exp >= 0
        BY <1>2, <1>6, Lengths
      <4> QED BY ONLY <2>3, <4>1, RoomNow, LiteralIs, CalcInv, l \in Operands
    <3> QED BY <1>3, <2>3, <3>1, <3>2, BecameOf
  <2> QED BY <1>3, <2>1, <2>2, <2>3, Explained, Vanished
<1> QED BY <1>4, <1>5, <1>6

\* What a whole power of a number with a digit before the point has before it.
LEMMA PowerNat ==
    ASSUME NEW e \in Nat, NEW n \in Nat
    PROVE  e * n \in Nat /\ (n > 0 => (e + 1) * n - 1 \in Nat) /\ (n = 0 => (e + 1) * n = 0)
<1>1. e * n \in Nat /\ (e + 1) * n = e * n + n
  OBVIOUS
<1> QED BY <1>1

LEMMA PowerStep == ASSUME CalcInv, Power PROVE CalcInv'
<1>1. PICK n \in Powers :
        IF value.is = "inf" THEN (IF n = 0 THEN Become(FloatOf(0, FALSE)) ELSE Explain)
        ELSE IF IsZero(value)
          THEN IF n < 0 \/ n > MaxPowExponent THEN Explain ELSE Become(IF n = 0 THEN IntOf(0, FALSE) ELSE value)
        ELSE \E x \in {value.exp * n, IF n > 0 THEN (value.exp + 1) * n - 1 ELSE (value.exp + 1) * n} :
             LET neg == value.neg /\ n % 2 = 1 IN
             IF ~PowAllowed(n, x) THEN Explain
             ELSE IF IsInt(value) /\ n >= 0 THEN Become(IntOf(x, neg))
             ELSE IF TooLarge(value) THEN Explain ELSE BecomeFloat(x, neg)
  BY DEF Power
<1>2. n \in Int /\ expr = "evaluating"
  BY CalcAssumption DEF Power
<1>3. CASE value.is = "inf"
  <2>1. Explain \/ Become(FloatOf(0, FALSE))
    BY <1>1, <1>3
  <2>2. 0 \in -FloatExponent .. FloatExponent /\ FloatExponent \in Nat
    BY RoomNow
  <2>3. Sound(FloatOf(0, FALSE)) /\ FloatOf(0, FALSE).exp = 0 /\ FloatOf(0, FALSE).is = "float"
    BY <2>2, MadeFloat
  <2>4. FloatOf(0, FALSE).exp <= Room(steps) + MaxResultDigits + 1
    <3>1. 0 <= Room(steps) + MaxResultDigits + 1
      BY RoomNow
    <3> QED BY <2>3, <3>1
  <2> QED BY <1>2, <2>1, <2>3, <2>4, Explained, Became
<1>4. CASE value.is # "inf" /\ IsZero(value)
  <2>1. Explain \/ Become(IntOf(0, FALSE)) \/ Become(value)
    BY <1>1, <1>4
  <2>2. 0 \in Nat /\ 0 <= Room(steps) + MaxResultDigits + 1 /\ value.exp <= Room(steps) + MaxResultDigits + 1
    BY RoomNow
  <2>3. Become(IntOf(0, FALSE)) => CalcInv'
    BY <1>2, <2>2, BecameInt
  <2>4. Become(value) => CalcInv'
    BY <1>2, <1>4, <2>2, RoomNow, Became
  <2> QED BY <2>1, <2>3, <2>4, Explained
<1>5. CASE value.is # "inf" /\ ~IsZero(value)
  <2>1. PICK x \in {value.exp * n, IF n > 0 THEN (value.exp + 1) * n - 1 ELSE (value.exp + 1) * n} :
             LET neg == value.neg /\ n % 2 = 1 IN
             IF ~PowAllowed(n, x) THEN Explain
             ELSE IF IsInt(value) /\ n >= 0 THEN Become(IntOf(x, neg))
             ELSE IF TooLarge(value) THEN Explain ELSE BecomeFloat(x, neg)
    BY <1>1, <1>5
  <2>2. PICK neg \in BOOLEAN : neg = (value.neg /\ n % 2 = 1)
    OBVIOUS
  <2>3. x \in Int
    BY <1>2, <2>1, RoomNow
  <2>4. \/ Explain \/ BecomeFloat(x, neg)
        \/ PowAllowed(n, x) /\ IsInt(value) /\ n >= 0 /\ Become(IntOf(x, neg))
    BY <2>1, <2>2
  <2>5. ASSUME PowAllowed(n, x), IsInt(value), n >= 0, Become(IntOf(x, neg)) PROVE CalcInv'
    <3>1. value.is = "int" /\ value.exp \in Nat
      BY <1>5, <2>5, RoomNow DEF IsInt, IsZero, Sound
    <3>2. x \in Nat
      BY <1>2, <2>1, <2>5, <3>1, PowerNat
    <3>3. x <= Room(steps) + MaxResultDigits + 1
      BY <1>2, <2>3, <2>5, RoomNow DEF PowAllowed
    <3> QED BY <1>2, <2>5, <3>2, <3>3, BecameInt
  <2> QED BY <1>2, <2>3, <2>4, <2>5, Explained, BecameFloat
<1> QED BY <1>3, <1>4, <1>5

LEMMA RootStep == ASSUME CalcInv, Root PROVE CalcInv'
<1>1. \/ Explain \/ Become(FloatZero)
      \/ /\ value.is # "inf" /\ ~TooLarge(value) /\ ~IsZero(value)
         /\ Become(FloatOf(value.exp \div 2, FALSE))
  BY DEF Root
<1>2. ASSUME value.is # "inf", ~TooLarge(value), ~IsZero(value), Become(FloatOf(value.exp \div 2, FALSE))
      PROVE  CalcInv'
  <2>1. value.exp \in -FloatExponent .. FloatExponent
    BY <1>2, RoomNow DEF TooLarge, IsZero, Sound, Number
  <2>2. PICK e \in -FloatExponent .. FloatExponent : e = value.exp \div 2
    BY <2>1, RoomNow
  <2>3. Sound(FloatOf(e, FALSE)) /\ FloatOf(e, FALSE).exp = e /\ FloatOf(e, FALSE).is = "float"
    <3>1. FloatExponent \in Nat /\ FALSE \in BOOLEAN
      BY RoomNow
    <3> QED BY <3>1, MadeFloat
  <2>4. e <= Room(steps) + MaxResultDigits + 1
    BY RoomNow
  <2> QED BY <1>2, <2>2, <2>3, <2>4, Became DEF Root
<1> QED BY <1>1, <1>2, Explained, BecameZero DEF Root

LEMMA FactorialStep == ASSUME CalcInv, Factorial PROVE CalcInv'
<1>1. \/ Explain \/ Become(IntOf(0, FALSE))
      \/ /\ IsInt(value) /\ ~IsZero(value) /\ value.exp <= 3
         /\ \E e \in {0, Factorials[value.exp + 1]} : Become(IntOf(e, FALSE))
  BY DEF Factorial
<1>2. ASSUME IsInt(value), ~IsZero(value), value.exp <= 3, NEW e \in {0, Factorials[value.exp + 1]},
             Become(IntOf(e, FALSE))
      PROVE  CalcInv'
  <2>1. value.exp \in {0, 1, 2, 3}
    BY <1>2, RoomNow DEF IsInt, IsZero, Sound
  <2>2. e \in {0, 5, 155, 2564, 2567}
    BY <1>2, <2>1 DEF Factorials
  <2>3. e \in Nat /\ e <= Room(steps) + MaxResultDigits + 1
    BY <2>2, RoomNow
  <2> QED BY <1>2, <2>3, BecameInt DEF Factorial
<1>3. ASSUME Become(IntOf(0, FALSE)) PROVE CalcInv'
  <2>1. 0 \in Nat /\ 0 <= Room(steps) + MaxResultDigits + 1 /\ expr = "evaluating"
    BY RoomNow DEF Factorial
  <2> QED BY <1>3, <2>1, BecameInt
<1> QED BY <1>1, <1>2, <1>3, Explained

LEMMA MathStep == ASSUME CalcInv, MathFunction PROVE CalcInv'
<1>1. ASSUME NEW l \in Operands, l.is = "float", Become(l) PROVE CalcInv'
  <2>1. Sound(l) /\ l.exp \in Int /\ l.exp <= MaxResultDigits
    BY Literals, LiteralIs
  <2>2. l.exp <= Room(steps) + MaxResultDigits + 1
    BY <2>1, RoomNow
  <2> QED BY <1>1, <2>1, <2>2, Became DEF MathFunction
<1> QED BY <1>1, Explained, BecameZero DEF MathFunction

LEMMA ChoiceStep == ASSUME CalcInv, Choice PROVE CalcInv'
<1>1. ASSUME NEW v \in {value, [value EXCEPT !.neg = FALSE]} \cup Operands, v.is # "inf", Become(v)
      PROVE  CalcInv'
  <2>1. Sound(v) /\ v.exp <= Room(steps) + MaxResultDigits + 1
    <3>1. CASE v \in Operands
      BY <3>1, Literals, LiteralIs, RoomNow
    <3>2. CASE v = value
      BY <3>2, RoomNow
    <3>3. CASE v = [value EXCEPT !.neg = FALSE]
      <4>0. value \in Number
        BY RoomNow DEF Sound
      <4>1. v \in Number /\ v.is = value.is /\ v.exp = value.exp
        BY <3>3, <4>0 DEF Number
      <4> QED BY <4>1, RoomNow DEF Sound
    <3> QED BY <3>1, <3>2, <3>3
  <2> QED BY <1>1, <2>1, Became DEF Choice
<1> QED BY <1>1, Explained DEF Choice

LEMMA RoundStep == ASSUME CalcInv, Round PROVE CalcInv'
<1>1. PICK neg \in BOOLEAN : neg = value.neg
  BY RoomNow
<1>2. \/ Explain \/ Become(Zero) \/ Become(IntOf(0, neg))
      \/ value.is # "inf" /\ Become(value)
      \/ ~(value.exp < 0) /\ \E e \in {value.exp, value.exp + 1} : Become(IntOf(e, neg))
  BY <1>1 DEF Round
<1>3. /\ 0 \in Nat /\ 0 <= Room(steps) + MaxResultDigits + 1 /\ expr = "evaluating"
      /\ value.exp <= Room(steps) + MaxResultDigits + 1
  BY RoomNow DEF Round
<1>4. Become(IntOf(0, neg)) => CalcInv'
  BY <1>3, BecameInt
<1>5. value.is # "inf" /\ Become(value) => CalcInv'
  BY <1>3, RoomNow, Became
<1>6. ASSUME ~(value.exp < 0), NEW e \in {value.exp, value.exp + 1}, Become(IntOf(e, neg)) PROVE CalcInv'
  <2>1. e \in Nat /\ e <= Room(steps) + MaxResultDigits + 1
    BY <1>6, RoomNow
  <2> QED BY <1>3, <1>6, <2>1, BecameInt
<1> QED BY <1>2, <1>3, <1>4, <1>5, <1>6, Explained, BecameZero

LEMMA RoundToStep == ASSUME CalcInv, RoundTo PROVE CalcInv'
<1>1. PICK n \in Powers :
        IF value.is = "inf" THEN Explain
        ELSE IF IsZero(value) \/ (IsInt(value) /\ n >= 0) THEN Become(value)
        ELSE \/ -n > value.exp /\ Vanish(IsInt(value))
             \/ \E e \in {value.exp, value.exp + 1} : e >= -n /\ BecomeOf(IsInt(value), e, value.neg)
  BY DEF RoundTo
<1>2. PICK int \in BOOLEAN : int = (value.is = "int" \/ value.is = "zero")
  OBVIOUS
<1>3. \/ Explain \/ Vanish(int)
      \/ value.is # "inf" /\ Become(value)
      \/ ~IsZero(value) /\ \E e \in {value.exp, value.exp + 1} : BecomeOf(int, e, value.neg)
  BY <1>1, <1>2 DEF IsInt
<1>4. expr = "evaluating"
  BY DEF RoundTo
<1>5. value.is # "inf" /\ Become(value) => CalcInv'
  <2>1. value.exp <= Room(steps) + MaxResultDigits + 1
    BY RoomNow
  <2> QED BY <1>4, <2>1, RoomNow, Became
<1>6. ASSUME ~IsZero(value), NEW e \in {value.exp, value.exp + 1}, BecomeOf(int, e, value.neg) PROVE CalcInv'
  <2>1. e \in Int /\ value.neg \in BOOLEAN
    BY RoomNow
  <2>2. int => e >= 0 /\ e <= Room(steps) + MaxResultDigits + 1
    <3>1. int => value.is = "int"
      BY <1>2, <1>6 DEF IsZero
    <3>2. int => value.exp >= 0
      BY <3>1, RoomNow DEF Sound
    <3> QED BY ONLY <1>6, <3>2, RoomNow, CalcInv
  <2> QED BY <1>4, <1>6, <2>1, <2>2, BecameOf
<1> QED BY <1>3, <1>4, <1>5, <1>6, Explained, Vanished

LEMMA ReadStep == ASSUME CalcInv, Parse PROVE CalcInv'
<1>1. ASSUME NEW l \in Operands, value' = l, expr' = "evaluating", UNCHANGED <<steps, outcome>>, expr = "given"
      PROVE  CalcInv'
  <2>1. steps' = 0 /\ steps' \in Nat /\ steps = 0
    BY <1>1 DEF CalcInv
  <2>2. l.exp <= Room(steps')
    BY <2>1, Literals, LiteralIs, MoreRoom
  <2> QED BY <1>1, <2>1, <2>2, Literals DEF CalcInv, Sound, Room
<1> QED BY <1>1, Explained DEF Parse

\* However long the expression: no value between its steps has more digits than
\* one power per operator makes, every float is in range, and an infinite one
\* is a literal alone.  What a step does inside is not counted.
THEOREM CalculatorTheorem == CalcSpec => []CalculationsBounded
<1>1. CalcInit => CalcInv
  <2>1. ASSUME CalcInit PROVE CalcInv
    <3>1. Sound(value) /\ value.exp = -1 /\ value.is = "zero" /\ steps = 0
      BY <2>1, MadeZero DEF CalcInit
    <3>2. 0 \in Nat /\ Room(0) \in Nat
      BY MoreRoom
    <3>3. value.exp <= Room(steps)
      BY <3>1, <3>2
    <3> QED BY <2>1, <3>1, <3>3 DEF CalcInit, CalcInv
  <2> QED BY <2>1
<1>2. CalcInv /\ [CalcNext]_calcVars => CalcInv'
  <2>1. ASSUME CalcInv, CalcNext PROVE CalcInv'
    <3>1. ASSUME FormatNumber PROVE CalcInv'
      BY <2>1, <3>1 DEF FormatNumber, CalcInv, Sound, Room
    <3> QED BY <2>1, <3>1, ReadStep, AddStep, MultiplyStep, DivideStep, FloorDivideStep, PowerStep, RootStep,
               ModStep, FactorialStep, MathStep, ChoiceStep, RoundStep, RoundToStep, Explained
            DEF CalcNext, Disallowed
  <2>2. ASSUME CalcInv, UNCHANGED calcVars PROVE CalcInv'
    BY <2>2 DEF calcVars, CalcInv, Sound, Room
  <2> QED BY <2>1, <2>2
<1>3. CalcInv => CalculationsBounded
  BY DEF CalcInv, Sound, Room, CalculationsBounded
<1> QED BY <1>1, <1>2, <1>3, PTL DEF CalcSpec

USE KeysAssumption

-----------------------------------------------------------------------------
(* SigningKeys: the inductive invariant.                                    *)

Ages     == 0..Old
Verdicts == {"no", "waiting", "fetching", "accepted", "unknown", "unavailable"}

KeysTyped ==
    /\ published \in SUBSET Kids /\ keys \in SUBSET Kids
    /\ shown \in [Kids -> Ages] /\ hidden \in [Kids -> Ages] /\ fetchAge \in Ages
    /\ holder \in [who : Tokens \cup {Pinger, "nobody"}, held : 0..FetchTime, got : (SUBSET Kids) \cup {Pending}]
    /\ holder.who = "nobody" => holder = Free
    /\ answer \in [Tokens -> [is : Verdicts, current : BOOLEAN, new : BOOLEAN]]

\* A set of keys that was published as it is at most `age` ago.
AsOf(ks, age) == \A k \in Kids : IF k \in ks THEN shown[k] <= age ELSE hidden[k] <= age

\* What is cached is as old as the last fetch and the fetch itself; what was
\* answered is as old as the wait for it.
KeysFresh ==
    /\ \A k \in published : shown[k] = 0
    /\ \A k \in Kids \ published : hidden[k] = 0
    /\ AsOf(keys, fetchAge + FetchTime)
    /\ holder.got # Pending => AsOf(holder.got, holder.held)

KeysInv == KeysTyped /\ KeysFresh /\ KeysFollowProvider

-----------------------------------------------------------------------------

LEMMA OlderType == \A a \in Ages : Older(a) \in Ages /\ Older(a) <= a + 1 /\ a <= Older(a)
  BY DEF Older, Ages, Old

LEMMA FreeType == Free \in [who : Tokens \cup {Pinger, "nobody"}, held : 0..FetchTime, got : (SUBSET Kids) \cup {Pending}]
<1>1. 0 \in 0..FetchTime
  OBVIOUS
<1> QED BY <1>1 DEF Free

\* A token is judged by keys that were published at most `age` ago.
LEMMA JudgeEffect ==
    ASSUME KeysTyped, NEW t \in Tokens, NEW ks \in SUBSET Kids, NEW age \in Nat, AsOf(ks, age),
           age <= Ttl + FetchTime,
           KidOf[t] \notin ks => age <= MinRefetch + FetchTime,
           KeysFollowProvider, Judge(t, ks)
    PROVE  /\ answer' \in [Tokens -> [is : Verdicts, current : BOOLEAN, new : BOOLEAN]]
           /\ KeysFollowProvider'
<1> DEFINE found == IF KidOf[t] = NoKid THEN Cardinality(ks) = 1 ELSE KidOf[t] \in ks
           k == IF KidOf[t] = NoKid THEN CHOOSE x \in Kids : found => ks = {x} ELSE KidOf[t]
           cur == found => shown[k] <= Ttl + FetchTime
           new == KidOf[t] = NoKid \/ found \/ hidden[k] <= MinRefetch + FetchTime
           v == IF found THEN "accepted" ELSE "unknown"
<1>1. answer' = [answer EXCEPT ![t] = [is |-> v, current |-> cur, new |-> new]]
  BY Zenon DEF Judge
<1>2. ASSUME found PROVE k \in ks
  <2>1. CASE KidOf[t] = NoKid
    <3>1. Cardinality(ks) = 1
      BY <1>2, <2>1
    <3>2. PICK x : ks = {x}
      BY <3>1, FS_Subset, FS_Singleton
    <3>3. x \in Kids
      BY <3>2
    <3>4. ks = {CHOOSE y \in Kids : found => ks = {y}}
      BY <1>2, <3>2, <3>3, Zenon
    <3> QED BY <2>1, <3>4
  <2>2. CASE KidOf[t] # NoKid
    BY <1>2, <2>2
  <2> QED BY <2>1, <2>2
<1>3. cur
  <2>1. ASSUME found PROVE shown[k] <= age /\ shown[k] \in Nat
    <3>1. k \in ks /\ k \in Kids
      BY <1>2, <2>1
    <3> HIDE DEF k
    <3> QED BY <3>1 DEF AsOf, KeysTyped, Ages
  <2> HIDE DEF k
  <2>2. ASSUME found PROVE shown[k] <= Ttl + FetchTime
    BY <2>1, <2>2
  <2> QED BY <2>2
<1>4. new
  <2>1. ASSUME ~found, KidOf[t] # NoKid PROVE hidden[k] <= MinRefetch + FetchTime
    <3>1. k = KidOf[t] /\ k \in Kids /\ k \notin ks
      BY <2>1
    <3> HIDE DEF k
    <3>2. hidden[k] <= age /\ hidden[k] \in Nat /\ age <= MinRefetch + FetchTime
      BY <3>1 DEF AsOf, KeysTyped, Ages
    <3> QED BY <3>2
  <2> QED BY <2>1
<1>5. cur \in BOOLEAN /\ new \in BOOLEAN /\ v \in Verdicts
  BY <1>3, <1>4 DEF Verdicts
<1> HIDE DEF cur, new, v
<1>6. answer' \in [Tokens -> [is : Verdicts, current : BOOLEAN, new : BOOLEAN]]
  BY <1>1, <1>5 DEF KeysTyped
<1>7. answer'[t].current /\ answer'[t].new /\ \A x \in Tokens : x # t => answer'[x] = answer[x]
  BY <1>1, <1>3, <1>4 DEF KeysTyped
<1> QED BY <1>6, <1>7 DEF KeysFollowProvider

LEMMA KeysInitInv == KeysInit => KeysInv
<1> SUFFICES ASSUME KeysInit PROVE KeysInv
  OBVIOUS
<1>1. KeysTyped
  BY FreeType DEF KeysInit, KeysTyped, Asked, Verdicts, Ages, Old, Free
<1>2. KeysFresh
  BY <1>1 DEF KeysInit, KeysFresh, AsOf, Old, Free, KeysTyped, Ages
<1>3. KeysFollowProvider
  BY DEF KeysInit, KeysFollowProvider, Asked
<1> QED BY <1>1, <1>2, <1>3 DEF KeysInv

\* An answer that is no verdict on a key.
LEMMA AskedEffect ==
    ASSUME KeysInv, NEW t \in Tokens, NEW v \in Verdicts, answer' = [answer EXCEPT ![t] = Asked(v)]
    PROVE  /\ answer' \in [Tokens -> [is : Verdicts, current : BOOLEAN, new : BOOLEAN]]
           /\ KeysFollowProvider'
  BY DEF KeysInv, KeysTyped, Asked, KeysFollowProvider

LEMMA KeysInvStep == ASSUME KeysInv, [KeysNext]_keyVars PROVE KeysInv'
<1> USE DEF KeysInv
<1>1. CASE Tick
  <2>1. /\ shown' \in [Kids -> Ages] /\ hidden' \in [Kids -> Ages] /\ fetchAge' \in Ages
        /\ \A k \in Kids : shown'[k] <= shown[k] + 1 /\ hidden'[k] <= hidden[k] + 1
        /\ \A k \in published : shown'[k] = 0
        /\ \A k \in Kids \ published : hidden'[k] = 0
    BY <1>1, OlderType DEF Tick, KeysTyped, Ages, Old
  <2>2. KeysTyped'
    BY <1>1, <2>1, FreeType DEF Tick, KeysTyped, Free
  <2>3. AsOf(keys, fetchAge + FetchTime)'
    <3>1. keys' = keys /\ (fetchAge' = fetchAge + 1 \/ fetchAge' = Old)
      BY <1>1 DEF Tick, Older
    <3>2. CASE fetchAge' = fetchAge + 1
      <4>1. ASSUME NEW k \in Kids
            PROVE  IF k \in keys THEN shown'[k] <= fetchAge' + FetchTime ELSE hidden'[k] <= fetchAge' + FetchTime
        <5>1. /\ shown[k] \in Nat /\ hidden[k] \in Nat /\ shown'[k] \in Nat /\ hidden'[k] \in Nat
              /\ fetchAge \in Nat
          BY <2>1 DEF KeysTyped, Ages, Old
        <5>2. IF k \in keys THEN shown[k] <= fetchAge + FetchTime ELSE hidden[k] <= fetchAge + FetchTime
          BY DEF KeysFresh, AsOf
        <5> QED BY <2>1, <3>2, <5>1, <5>2
      <4> QED BY <3>1, <4>1 DEF AsOf
    <3>3. CASE fetchAge' = Old
      <4>1. \A k \in Kids : shown'[k] <= Old + FetchTime /\ hidden'[k] <= Old + FetchTime
        BY <2>1 DEF Ages, Old
      <4> QED BY <3>1, <3>3, <4>1 DEF AsOf
    <3> QED BY <3>1, <3>2, <3>3
  <2>4. ASSUME holder'.got # Pending PROVE AsOf(holder.got, holder.held)'
    <3>1. holder'.got = holder.got /\ holder'.held = holder.held + 1 /\ holder.held \in Nat
      BY <1>1, <2>4 DEF Tick, Free, KeysTyped
    <3>2. AsOf(holder.got, holder.held)
      BY <2>4, <3>1 DEF KeysFresh
    <3>3. ASSUME NEW k \in Kids
          PROVE  IF k \in holder.got THEN shown'[k] <= holder.held + 1 ELSE hidden'[k] <= holder.held + 1
      <4>1. shown[k] \in Nat /\ hidden[k] \in Nat /\ shown'[k] \in Nat /\ hidden'[k] \in Nat
        BY <2>1 DEF KeysTyped, Ages, Old
      <4> QED BY <2>1, <3>1, <3>2, <4>1 DEF AsOf
    <3> QED BY <3>1, <3>3 DEF AsOf
  <2>5. UNCHANGED <<published, answer>>
    BY <1>1 DEF Tick
  <2>6. KeysFresh'
    BY <2>1, <2>3, <2>4, <2>5 DEF KeysFresh
  <2> QED BY <2>2, <2>5, <2>6 DEF KeysFollowProvider
<1>2. CASE Rotate
  <2>1. /\ published' \in SUBSET Kids
        /\ \A k \in Kids : shown'[k] \in {0, shown[k]} /\ hidden'[k] \in {0, hidden[k]}
        /\ \A k \in published' : shown'[k] = 0
        /\ \A k \in Kids \ published' : hidden'[k] = 0
        /\ shown' \in [Kids -> Ages] /\ hidden' \in [Kids -> Ages]
        /\ UNCHANGED <<keys, fetchAge, holder, answer>>
    BY <1>2 DEF Rotate, KeysTyped, Ages, Old
  <2>2. KeysTyped'
    BY <2>1 DEF KeysTyped
  <2>3. ASSUME NEW ks \in SUBSET Kids, NEW age \in Nat, AsOf(ks, age) PROVE AsOf(ks, age)'
    BY <2>1, <2>3 DEF AsOf, KeysTyped, Ages
  <2>4. fetchAge + FetchTime \in Nat /\ holder.held \in Nat /\ keys \in SUBSET Kids
        /\ (holder.got # Pending => holder.got \in SUBSET Kids)
    <3>1. fetchAge \in Nat /\ holder.held \in 0..FetchTime
      BY DEF KeysTyped, Ages, Old
    <3>2. holder.got \in (SUBSET Kids) \cup {Pending}
      BY DEF KeysTyped
    <3> QED BY <3>1, <3>2 DEF KeysTyped
  <2>5. AsOf(keys, fetchAge + FetchTime)' /\ (holder'.got # Pending => AsOf(holder.got, holder.held)')
    BY <2>1, <2>3, <2>4 DEF KeysFresh, AsOf
  <2> QED BY <2>1, <2>2, <2>5 DEF KeysFresh, AsOf, KeysFollowProvider
<1>3. ASSUME NEW t \in Tokens, Present(t) PROVE KeysInv'
  <2>1. answer' = [answer EXCEPT ![t] = Asked("waiting")] /\ UNCHANGED <<published, shown, hidden, keys, fetchAge, holder>>
    BY <1>3 DEF Present
  <2> QED BY <2>1, AskedEffect DEF KeysTyped, KeysFresh, AsOf, Verdicts
<1>4. ASSUME NEW t \in Tokens, GetKey(t) PROVE KeysInv'
  <2>0. UNCHANGED <<published, shown, hidden, keys, fetchAge>>
    BY <1>4 DEF GetKey
  <2>1. CASE Refetch(t)
    <3>1. /\ holder' = [who |-> t, held |-> 0, got |-> Pending]
          /\ answer' = [answer EXCEPT ![t] = Asked("fetching")]
      BY <1>4, <2>1 DEF GetKey
    <3>2. holder' \in [who : Tokens \cup {Pinger, "nobody"}, held : 0..FetchTime, got : (SUBSET Kids) \cup {Pending}]
          /\ holder'.who # "nobody" /\ holder'.got = Pending
      <4>1. 0 \in 0..FetchTime
        OBVIOUS
      <4> QED BY <3>1, <4>1
    <3> QED BY <2>0, <3>1, <3>2, AskedEffect DEF KeysTyped, KeysFresh, AsOf, Verdicts
  <2>2. CASE ~Refetch(t)
    <3>1. Judge(t, keys) /\ holder' = holder
      BY <1>4, <2>2 DEF GetKey
    <3>2. /\ fetchAge + FetchTime \in Nat /\ fetchAge + FetchTime <= Ttl + FetchTime
          /\ KidOf[t] \notin keys => fetchAge + FetchTime <= MinRefetch + FetchTime
      BY <2>2 DEF Refetch, Stale, KeysTyped, Ages, Old
    <3>3. /\ answer' \in [Tokens -> [is : Verdicts, current : BOOLEAN, new : BOOLEAN]]
          /\ KeysFollowProvider'
      BY <3>1, <3>2, JudgeEffect DEF KeysTyped, KeysFresh
    <3> QED BY <2>0, <3>1, <3>3 DEF KeysTyped, KeysFresh, AsOf
  <2> QED BY <2>1, <2>2
<1>5. CASE Ping
  <2>1. /\ holder' = [who |-> Pinger, held |-> 0, got |-> Pending]
        /\ UNCHANGED <<published, shown, hidden, keys, fetchAge, answer>>
    BY <1>5 DEF Ping
  <2>2. holder' \in [who : Tokens \cup {Pinger, "nobody"}, held : 0..FetchTime, got : (SUBSET Kids) \cup {Pending}]
        /\ holder'.who # "nobody" /\ holder'.got = Pending
    <3>1. 0 \in 0..FetchTime
      OBVIOUS
    <3> QED BY <2>1, <3>1 DEF Pinger
  <2> QED BY <2>1, <2>2 DEF KeysTyped, KeysFresh, AsOf, KeysFollowProvider
<1>6. CASE Answer
  <2>1. /\ holder' = [holder EXCEPT !.got = published] /\ holder # Free
        /\ UNCHANGED <<published, shown, hidden, keys, fetchAge, answer>>
    BY <1>6 DEF Answer
  <2>2. holder'.got = published /\ holder'.held = holder.held /\ holder.held \in Nat
    BY <2>1 DEF KeysTyped
  <2>3. AsOf(published, holder.held)
    BY <2>2 DEF AsOf, KeysFresh
  <2>4. KeysTyped'
    BY <2>1 DEF KeysTyped, Free
  <2> QED BY <2>1, <2>2, <2>3, <2>4 DEF KeysFresh, AsOf, KeysFollowProvider
<1>7. CASE Fetched
  <2>1. /\ keys' = holder.got /\ keys' \in SUBSET Kids /\ fetchAge' = 0 /\ holder' = Free
        /\ UNCHANGED <<published, shown, hidden>>
        /\ holder.who \in Tokens \cup {Pinger} /\ holder.held \in 0..FetchTime
    <3>1. holder \in [who : Tokens \cup {Pinger, "nobody"}, held : 0..FetchTime, got : (SUBSET Kids) \cup {Pending}]
          /\ holder.who # "nobody" /\ holder.got # Pending
      BY <1>7 DEF Fetched, KeysTyped
    <3>2. holder.got \in SUBSET Kids /\ holder.who \in Tokens \cup {Pinger} /\ holder.held \in 0..FetchTime
      BY <3>1
    <3> QED BY <1>7, <3>2 DEF Fetched
  <2>2. AsOf(keys', holder.held)
    BY <1>7, <2>1 DEF Fetched, KeysFresh
  <2>3. AsOf(keys', FetchTime)
    BY <2>1, <2>2 DEF AsOf, KeysTyped, Ages, Old
  <2>4. /\ answer' \in [Tokens -> [is : Verdicts, current : BOOLEAN, new : BOOLEAN]]
        /\ KeysFollowProvider'
    <3>1. CASE holder.who = Pinger
      BY <1>7, <3>1 DEF Fetched, KeysTyped, KeysFollowProvider
    <3>2. CASE holder.who # Pinger
      <4>1. holder.who \in Tokens /\ Judge(holder.who, keys')
        BY <1>7, <2>1, <3>2 DEF Fetched
      <4>2. FetchTime <= Ttl + FetchTime /\ FetchTime <= MinRefetch + FetchTime /\ FetchTime \in Nat
        OBVIOUS
      <4> QED BY <2>1, <2>3, <4>1, <4>2, JudgeEffect
    <3> QED BY <3>1, <3>2
  <2>5. KeysTyped'
    BY <2>1, <2>4, FreeType DEF KeysTyped, Ages, Old
  <2>6. KeysFresh'
    BY <2>1, <2>3 DEF KeysFresh, AsOf, Free
  <2> QED BY <2>4, <2>5, <2>6
<1>8. CASE FetchFails
  <2>1. /\ holder' = Free /\ holder.who \in Tokens \cup {Pinger}
        /\ UNCHANGED <<published, shown, hidden, keys, fetchAge>>
    BY <1>8 DEF FetchFails, KeysTyped
  <2>2. /\ answer' \in [Tokens -> [is : Verdicts, current : BOOLEAN, new : BOOLEAN]]
        /\ KeysFollowProvider'
    <3>1. CASE holder.who = Pinger
      BY <1>8, <3>1 DEF FetchFails, KeysTyped, KeysFollowProvider
    <3>2. CASE holder.who # Pinger
      BY <1>8, <2>1, <3>2, AskedEffect DEF FetchFails, Verdicts
    <3> QED BY <3>1, <3>2
  <2> QED BY <2>1, <2>2, FreeType DEF KeysTyped, KeysFresh, AsOf, Free
<1>9. CASE UNCHANGED keyVars
  BY <1>9 DEF keyVars, KeysTyped, KeysFresh, AsOf, KeysFollowProvider
<1> QED BY <1>1, <1>2, <1>3, <1>4, <1>5, <1>6, <1>7, <1>8, <1>9 DEF KeysNext

\* A retired key is accepted for the time to live and a fetch at most, and a
\* key published for longer than min_refetch and a fetch is never unknown.
THEOREM KeysTheorem == KeysSpec => []KeysFollowProvider
<1>1. KeysInv /\ [KeysNext]_keyVars => KeysInv'
  BY KeysInvStep
<1>2. KeysInv => KeysFollowProvider
  BY DEF KeysInv
<1> QED BY KeysInitInv, <1>1, <1>2, PTL DEF KeysSpec

-----------------------------------------------------------------------------
(* Chunking: pieces of a file, in order.                                    *)

Part == [first : Nat \ {0}, last : 0 .. Len(file.toks), tokens : Nat]

On(p, l)   == p.first <= l /\ l <= p.last
Twin(p, q) == p.first = q.first /\ p.last = q.last
Before(p, q) ==
    p.last < q.first \/ (p.last = q.first /\ (file.kind = "code" => q.first \in SharedLines))

\* The pieces follow the file; windows of one text are twins.
Ordered(out, twins) ==
    /\ out \in Seq(Part)
    /\ \A i \in 1 .. Len(out) : out[i].first <= out[i].last
    /\ \A i, j \in 1 .. Len(out) : i < j => Before(out[i], out[j]) \/ (twins /\ Twin(out[i], out[j]))

LEMMA PartParts ==
    ASSUME file.toks \in Seq(Nat), NEW p \in Part
    PROVE  p.first \in Nat /\ 1 <= p.first /\ p.last \in Nat /\ p.last <= Len(file.toks) /\ p.tokens \in Nat
BY DEF Part

LEMMA EmptyOrdered == ASSUME NEW twins PROVE Ordered(<<>>, twins)
BY EmptyRange DEF Ordered

\* One list after another.
LEMMA OrderedJoin ==
    ASSUME NEW twins, NEW s, NEW t, Ordered(s, twins), Ordered(t, twins),
           \A i \in 1 .. Len(s), j \in 1 .. Len(t) : Before(s[i], t[j]) \/ (twins /\ Twin(s[i], t[j]))
    PROVE  Ordered(s \o t, twins)
<1>1. PICK u : u = s \o t
  OBVIOUS
<1>2. PICK m \in Nat, n \in Nat : m = Len(s) /\ n = Len(t)
  BY DEF Ordered
<1>3. /\ u \in Seq(Part) /\ Len(u) = m + n
      /\ \A i \in 1 .. m : u[i] = s[i]
      /\ \A i \in 1 .. n : u[m + i] = t[i]
  BY <1>1, <1>2 DEF Ordered
<1>4. \A i \in 1 .. m + n : i \in 1 .. m \/ (\E k \in 1 .. n : m + k = i)
  <2>1. ASSUME NEW i \in 1 .. m + n, i \notin 1 .. m PROVE \E k \in 1 .. n : m + k = i
    <3>1. i - m \in 1 .. n /\ m + (i - m) = i
      BY <2>1
    <3> QED BY <3>1
  <2> QED BY <2>1
<1>5. ASSUME NEW i \in 1 .. m + n PROVE u[i].first <= u[i].last
  <2>1. CASE i \in 1 .. m
    BY <1>2, <1>3, <2>1 DEF Ordered
  <2>2. CASE \E k \in 1 .. n : m + k = i
    <3>1. PICK k \in 1 .. n : m + k = i
      BY <2>2
    <3>2. u[i] = t[k]
      BY <1>3, <3>1
    <3> QED BY <1>2, <3>2 DEF Ordered
  <2> QED BY <1>4, <2>1, <2>2
<1>6. ASSUME NEW i \in 1 .. m + n, NEW j \in 1 .. m + n, i < j
      PROVE  Before(u[i], u[j]) \/ (twins /\ Twin(u[i], u[j]))
  <2>1. CASE i \in 1 .. m /\ j \in 1 .. m
    <3>1. u[i] = s[i] /\ u[j] = s[j]
      BY <1>3, <2>1
    <3> QED BY <1>2, <1>6, <2>1, <3>1 DEF Ordered
  <2>2. CASE i \in 1 .. m /\ j \notin 1 .. m
    <3>1. PICK k \in 1 .. n : m + k = j
      BY <1>4, <2>2
    <3>2. u[i] = s[i] /\ u[j] = t[k]
      BY <1>3, <2>2, <3>1
    <3> QED BY <1>2, <2>2, <3>2
  <2>3. CASE i \notin 1 .. m
    <3>1. PICK k \in 1 .. n : m + k = i
      BY <1>4, <2>3
    <3>2. j \notin 1 .. m
      BY <1>6, <3>1
    <3>3. PICK l \in 1 .. n : m + l = j
      BY <1>4, <3>2
    <3>4. u[i] = t[k] /\ u[j] = t[l] /\ k < l
      BY <1>3, <1>6, <3>1, <3>3
    <3> QED BY <1>2, <3>4 DEF Ordered
  <2> QED BY <2>1, <2>2, <2>3
<1>7. Len(u) = m + n
  BY <1>3
<1> QED BY <1>1, <1>3, <1>5, <1>6, <1>7 DEF Ordered

\* What is in one list or the other is in both joined.
LEMMA JoinSet ==
    ASSUME NEW X, NEW s \in Seq(X), NEW t \in Seq(X), NEW y
    PROVE  y \in ToSet(s \o t) <=> y \in ToSet(s) \/ y \in ToSet(t)
<1>1. PICK u : u = s \o t
  OBVIOUS
<1>2. PICK m \in Nat, n \in Nat : m = Len(s) /\ n = Len(t)
  OBVIOUS
<1>3. /\ u \in Seq(X) /\ Len(u) = m + n
      /\ \A i \in 1 .. m : u[i] = s[i]
      /\ \A i \in 1 .. n : u[m + i] = t[i]
  BY <1>1, <1>2
<1>4. y \in ToSet(s) <=> \E i \in 1 .. m : y = s[i]
  BY <1>2, Members
<1>5. y \in ToSet(t) <=> \E i \in 1 .. n : y = t[i]
  BY <1>2, Members
<1>6. y \in ToSet(u) <=> \E i \in 1 .. m + n : y = u[i]
  <2>1. u \in Seq(X) /\ Len(u) = m + n
    BY <1>3
  <2> QED BY ONLY <2>1, Members
<1>7. \A i \in 1 .. m : i \in 1 .. m + n
  OBVIOUS
<1>8. \A i \in 1 .. n : m + i \in 1 .. m + n
  OBVIOUS
<1>9. ASSUME NEW i \in 1 .. m + n PROVE i \in 1 .. m \/ \E k \in 1 .. n : i = m + k
  <2>1. i \notin 1 .. m => i - m \in 1 .. n /\ i = m + (i - m)
    OBVIOUS
  <2> QED BY <2>1
<1>10. (\E i \in 1 .. m : y = s[i]) => \E i \in 1 .. m + n : y = u[i]
  BY <1>3, <1>7
<1>11. (\E i \in 1 .. n : y = t[i]) => \E i \in 1 .. m + n : y = u[i]
  BY <1>3, <1>8
<1>12. ASSUME NEW i \in 1 .. m + n, y = u[i] PROVE (\E k \in 1 .. m : y = s[k]) \/ (\E k \in 1 .. n : y = t[k])
  BY <1>3, <1>9, <1>12
<1> QED BY <1>1, <1>4, <1>5, <1>6, <1>10, <1>11, <1>12

\* The pieces of seq lie in u, and are its twins if u may have twins.
Lies(seq, u, twins) ==
    \A k \in 1 .. Len(seq) : u.first <= seq[k].first /\ seq[k].last <= u.last /\ (twins => Twin(seq[k], u))

\* Pieces of what is in order are in order.
LEMMA BeforeParts ==
    ASSUME NEW u, NEW v, u.last \in Nat, v.first \in Nat, NEW p, NEW q, p.last \in Nat, q.first \in Nat,
           p.last <= u.last, v.first <= q.first, Before(u, v)
    PROVE  Before(p, q)
BY DEF Before

LEMMA FlattenOrdered ==
    ASSUME file.toks \in Seq(Nat), NEW within, NEW twins, within => twins,
           NEW us, NEW seqs \in Seq(Seq(Part)),
           \A i \in 1 .. Len(seqs) : us[i].first \in Nat /\ us[i].last \in Nat,
           \A i, j \in 1 .. Len(seqs) : i < j => Before(us[i], us[j]) \/ (within /\ Twin(us[i], us[j])),
           \A i \in 1 .. Len(seqs) : Ordered(seqs[i], twins) /\ Lies(seqs[i], us[i], within)
    PROVE  /\ Ordered(FlattenSeq(seqs), twins)
           /\ \A y : y \in ToSet(FlattenSeq(seqs)) <=> \E i \in 1 .. Len(seqs) : y \in ToSet(seqs[i])
<1>1. PICK N \in Nat : N = Len(seqs)
  OBVIOUS
<1>2. PICK acc : Joins(acc, seqs) /\ FlattenSeq(seqs) = acc[N]
  BY <1>1, FlattenSteps
<1> DEFINE So(n) == /\ Ordered(acc[n], twins)
                    /\ \A y : y \in ToSet(acc[n]) <=> \E i \in 1 .. n : y \in ToSet(seqs[i])
           T == {n \in Nat : n <= N => So(n)}
<1> HIDE DEF So
<1>3. 0 \in T
  <2>1. acc[0] = <<>>
    BY <1>2 DEF Joins
  <2>2. \A y : y \notin ToSet(acc[0])
    BY <2>1, EmptyRange DEF ToSet
  <2>3. So(0)
    BY <2>1, <2>2, EmptyOrdered, EmptyRange DEF So
  <2> QED BY <2>3
<1>4. ASSUME NEW n \in Nat, n \in T PROVE n + 1 \in T
  <2>1. SUFFICES ASSUME n + 1 <= N PROVE So(n + 1)
    OBVIOUS
  <2>2. n <= N /\ n + 1 \in 1 .. N /\ (n + 1) - 1 = n
    BY <2>1
  <2>3. So(n)
    BY <1>4, <2>2
  <2>4. PICK s : s = acc[n] /\ Ordered(s, twins) /\ \A y : y \in ToSet(s) <=> \E i \in 1 .. n : y \in ToSet(seqs[i])
    BY <2>3 DEF So
  <2>5. PICK t : t = seqs[n + 1] /\ Ordered(t, twins) /\ Lies(t, us[n + 1], within)
    BY <1>1, <2>2
  <2>6. acc[n + 1] = s \o t
    BY <1>1, <1>2, <2>2, <2>4, <2>5 DEF Joins
  <2>7. ASSUME NEW k \in 1 .. Len(s), NEW l \in 1 .. Len(t)
        PROVE  Before(s[k], t[l]) \/ (twins /\ Twin(s[k], t[l]))
    <3>1. s[k] \in ToSet(s) /\ s[k] \in Part /\ t[l] \in Part
      BY <2>4, <2>5 DEF Ordered, ToSet
    <3>2. PICK i \in 1 .. n : s[k] \in ToSet(seqs[i])
      BY <2>4, <3>1
    <3>3. i \in 1 .. N /\ i < n + 1
      BY <2>2
    <3>4. PICK x : x = seqs[i] /\ x \in Seq(Part) /\ Lies(x, us[i], within)
      BY <1>1, <3>3
    <3>5. PICK h \in 1 .. Len(x) : s[k] = x[h]
      <4>1. x \in Seq(Part) /\ s[k] \in ToSet(x)
        BY <3>2, <3>4
      <4> QED BY ONLY <4>1, Members
    <3>6. PICK p \in Part, q \in Part : p = s[k] /\ q = t[l]
      BY <3>1
    <3>7. PICK u, v : u = us[i] /\ v = us[n + 1]
      OBVIOUS
    <3>8. p.last <= u.last /\ (within => Twin(p, u))
      BY <3>4, <3>5, <3>6, <3>7 DEF Lies
    <3>9. v.first <= q.first /\ (within => Twin(q, v))
      BY <2>5, <3>6, <3>7 DEF Lies
    <3>10. u.last \in Nat /\ v.first \in Nat /\ p.last \in Nat /\ q.first \in Nat
      BY <1>1, <2>2, <3>3, <3>6, <3>7, PartParts
    <3>11. Before(u, v) \/ (within /\ Twin(u, v))
      BY <1>1, <2>2, <3>3, <3>7
    <3>12. CASE Before(u, v)
      BY <3>6, <3>8, <3>9, <3>10, <3>12, BeforeParts
    <3>13. CASE within /\ Twin(u, v)
      BY <3>6, <3>8, <3>9, <3>13 DEF Twin
    <3> QED BY <3>11, <3>12, <3>13
  <2>8. Ordered(s \o t, twins)
    BY <2>4, <2>5, <2>7, OrderedJoin
  <2>9. ASSUME NEW y PROVE y \in ToSet(s \o t) <=> \E i \in 1 .. n + 1 : y \in ToSet(seqs[i])
    <3>1. s \in Seq(Part) /\ t \in Seq(Part)
      BY <2>4, <2>5 DEF Ordered
    <3>2. y \in ToSet(s \o t) <=> y \in ToSet(s) \/ y \in ToSet(t)
      BY <3>1, JoinSet
    <3>3. \A i : i \in 1 .. n + 1 <=> i \in 1 .. n \/ i = n + 1
      OBVIOUS
    <3> QED BY <2>4, <2>5, <3>2, <3>3
  <2> QED BY <2>6, <2>8, <2>9 DEF So
<1> HIDE DEF T
<1>5. N \in T
  BY <1>3, <1>4, Induction
<1>6. N <= N
  OBVIOUS
<1>7. So(N)
  BY <1>5, <1>6 DEF T
<1> QED BY <1>1, <1>2, <1>7 DEF So

-----------------------------------------------------------------------------
(* Chunking: tokens of a range.                                             *)

LEMMA SumSteps ==
    ASSUME NEW s \in Seq(Nat)
    PROVE  \E acc : /\ acc[0] = 0 /\ Total(s) = acc[Len(s)]
                    /\ \A i \in 1 .. Len(s) : acc[i] = acc[i - 1] + s[i]
<1> DEFINE N == Len(s)
           D == DOMAIN s
           Next(y, i) == y + s[i]
           Law(g) == g = [t \in SUBSET D |-> IF t = {} THEN 0 ELSE Next(g[t \ {Max(t)}], Max(t))]
           h == CHOOSE g : Law(g)
<1>0. N \in Nat /\ D = 1 .. N
  OBVIOUS
<1>1. \A y \in Nat, i \in 1 .. N : Next(y, i) \in Nat
  OBVIOUS
<1>2. PICK Y : Y = Nat
  OBVIOUS
<1> DEFINE step == [p \in (1 .. N) \X Y |-> Next(p[2], p[1])]
<1> HIDE DEF Next, N, D
<1>3. step \in [(1 .. N) \X Y -> Y]
  BY <1>1, <1>2
<1>4. PICK g : Folds(g, Y, 0, N, step)
  <2> HIDE DEF step
  <2>1. 0 \in Y
    BY <1>2
  <2> QED BY <1>0, <1>3, <2>1, FoldExists
<1>5. Law(g)
  <2>1. ASSUME NEW t \in SUBSET (1 .. N), t # {}
        PROVE  step[<<Max(t), g[t \ {Max(t)}]>>] = Next(g[t \ {Max(t)}], Max(t))
    <3>1. Max(t) \in 1 .. N
      BY <1>0, <2>1, MaxOf
    <3>2. g[t \ {Max(t)}] \in Y
      BY <1>4 DEF Folds
    <3> QED BY <3>1, <3>2
  <2> HIDE DEF step
  <2> QED BY <1>0, <1>4, <2>1 DEF Folds
<1>6. Law(h)
  <2> HIDE DEF Law
  <2> QED BY <1>5
<1>7. Total(s) = h[D]
  BY DEF Total, FoldLeft, MapThenFoldSet, Next, D
<1> HIDE DEF h
<1>8. \A t \in SUBSET (1 .. N) : h[t] = IF t = {} THEN 0 ELSE Next(h[t \ {Max(t)}], Max(t))
  BY <1>0, <1>6
<1>9. h[{}] = 0 /\ \A i \in 1 .. N : h[1 .. i] = Next(h[1 .. i - 1], i)
  <2>1. {} \in SUBSET (1 .. N)
    OBVIOUS
  <2> QED BY <1>0, <1>8, <2>1, Prefix
<1>10. PICK acc : acc = [i \in 0 .. N |-> h[1 .. i]]
  OBVIOUS
<1>11. acc[0] = 0 /\ acc[N] = Total(s) /\ \A i \in 1 .. N : acc[i] = Next(acc[i - 1], i)
  BY <1>0, <1>7, <1>9, <1>10, EmptyRange
<1> QED BY <1>11 DEF N, Next

\* A sum is at least each of what it adds.
LEMMA SumBounds ==
    ASSUME NEW s \in Seq(Nat)
    PROVE  Total(s) \in Nat /\ \A i \in 1 .. Len(s) : s[i] <= Total(s)
<1>1. PICK acc : /\ acc[0] = 0 /\ Total(s) = acc[Len(s)]
                 /\ \A i \in 1 .. Len(s) : acc[i] = acc[i - 1] + s[i]
  BY SumSteps
<1>2. PICK N \in Nat : N = Len(s)
  OBVIOUS
<1> DEFINE T == {n \in Nat : n <= N => acc[n] \in Nat /\ \A i \in 1 .. n : s[i] <= acc[n]}
<1>3. 0 \in T
  <2>1. \A i \in 1 .. 0 : s[i] <= acc[0]
    BY EmptyRange
  <2> QED BY <1>1, <2>1
<1>4. ASSUME NEW n \in Nat, n \in T PROVE n + 1 \in T
  <2>1. SUFFICES ASSUME n + 1 <= N PROVE acc[n + 1] \in Nat /\ \A i \in 1 .. n + 1 : s[i] <= acc[n + 1]
    OBVIOUS
  <2>2. n <= N /\ n + 1 \in 1 .. N /\ (n + 1) - 1 = n
    BY <2>1
  <2>3. PICK a \in Nat : a = acc[n] /\ \A i \in 1 .. n : s[i] <= a
    BY <1>4, <2>2
  <2>4. PICK x \in Nat : x = s[n + 1]
    BY <1>2, <2>2
  <2>5. acc[n + 1] = a + x
    BY <1>1, <1>2, <2>2, <2>3, <2>4
  <2>6. ASSUME NEW i \in 1 .. n + 1 PROVE s[i] <= a + x
    <3>1. CASE i = n + 1
      BY <2>3, <2>4, <3>1
    <3>2. CASE i \in 1 .. n
      <4>1. PICK y \in Nat : y = s[i]
        BY <1>2, <2>2, <3>2
      <4>2. y <= a
        BY <2>3, <3>2, <4>1
      <4> QED BY <4>1, <4>2
    <3> QED BY <3>1, <3>2
  <2> QED BY <2>5, <2>6
<1> HIDE DEF T
<1>5. N \in T
  BY <1>3, <1>4, Induction
<1>6. N <= N
  OBVIOUS
<1> QED BY <1>1, <1>2, <1>5, <1>6 DEF T

\* A range that is not blank has tokens.
LEMMA TokIs ==
    ASSUME file.toks \in Seq(Nat), NEW a \in Nat, 1 <= a, NEW b \in Nat, b <= Len(file.toks)
    PROVE  Tok(a, b) \in Nat /\ \A l \in a .. b : file.toks[l] > 0 => Tok(a, b) > 0
<1>1. PICK toks \in Seq(Nat) : toks = file.toks
  OBVIOUS
<1>11. PICK s \in Seq(Nat) : /\ s = SubSeq(toks, a, b)
                            /\ \A i \in 1 .. Len(s) : s[i] = toks[a + i - 1]
                            /\ a <= b => Len(s) = b - a + 1
  <2>0. b <= Len(toks)
    BY <1>1
  <2>1. CASE a <= b
    <3>0. PICK n \in Nat : n = b - a + 1
      BY <2>1
    <3>1. \A i \in 1 .. n : a + i - 1 \in 1 .. Len(toks)
      BY <2>0, <2>1, <3>0
    <3>2. SubSeq(toks, a, b) \in Seq(Nat)
      BY <2>0
    <3>3. Len(SubSeq(toks, a, b)) = n
      BY <2>0, <2>1, <3>0
    <3>4. \A i \in 1 .. n : SubSeq(toks, a, b)[i] = toks[a + i - 1]
      BY <2>0, <2>1, <3>0, <3>1
    <3> QED BY <3>0, <3>2, <3>3, <3>4
  <2>2. CASE ~(a <= b)
    <3>1. Len(SubSeq(toks, a, b)) = 0
      BY <2>0, <2>2
    <3>2. SubSeq(toks, a, b) \in Seq(Nat)
      BY <2>0
    <3> QED BY <2>2, <3>1, <3>2
  <2> QED BY <2>1, <2>2
<1>2. PICK t : t = Total(s) /\ t \in Nat /\ \A i \in 1 .. Len(s) : s[i] <= t
  BY SumBounds
<1>3. Tok(a, b) = t
  BY <1>1, <1>11, <1>2 DEF Tok
<1>4. ASSUME NEW l \in a .. b, toks[l] > 0 PROVE t > 0
  <2>1. PICK i \in 1 .. Len(s) : a + i - 1 = l
    <3>1. l - a + 1 \in 1 .. Len(s) /\ a + (l - a + 1) - 1 = l
      BY <1>11
    <3> QED BY <3>1
  <2>2. PICK x \in Nat : x = s[i]
    BY ONLY s \in Seq(Nat), i \in 1 .. Len(s)
  <2>3. x = toks[l]
    <3>1. s[i] = toks[a + i - 1]
      BY ONLY <1>11, i \in 1 .. Len(s)
    <3> QED BY ONLY <2>1, <2>2, <3>1
  <2>4. x <= t /\ x > 0
    BY <1>2, <1>4, <2>2, <2>3
  <2> QED BY <1>2, <2>4
<1> QED BY <1>1, <1>2, <1>3, <1>4

LEMMA UnitIs ==
    ASSUME file.toks \in Seq(Nat), NEW a \in Nat, 1 <= a, NEW b \in Nat, b <= Len(file.toks)
    PROVE  Unit(a, b) \in Part /\ Unit(a, b).first = a /\ Unit(a, b).last = b /\ Unit(a, b).tokens = Tok(a, b)
<1>1. PICK t \in Nat : t = Tok(a, b)
  BY TokIs
<1> QED BY <1>1 DEF Unit, Part

-----------------------------------------------------------------------------
(* Chunking: lists that grow at their end.                                  *)

\* What follows the last piece follows all.
LEMMA FollowsAll ==
    ASSUME file.toks \in Seq(Nat), NEW out, Ordered(out, FALSE), out # <<>>, NEW p, p.first \in Nat,
           Before(out[Len(out)], p)
    PROVE  \A i \in 1 .. Len(out) : Before(out[i], p) /\ out[i].last <= out[Len(out)].last
<1>1. PICK n \in Nat : n = Len(out) /\ n \in 1 .. n
  BY DEF Ordered
<1>2. SUFFICES ASSUME NEW i \in 1 .. n PROVE Before(out[i], p) /\ out[i].last <= out[n].last
  BY <1>1
<1>3. PICK x \in Part, y \in Part : x = out[i] /\ y = out[n]
  BY <1>1 DEF Ordered
<1>4. x.last \in Nat /\ y.last \in Nat /\ y.first \in Nat /\ y.first <= y.last
  BY <1>1, <1>3, PartParts DEF Ordered
<1>5. x.last <= y.last
  <2>1. CASE i = n
    BY <1>3, <1>4, <2>1
  <2>2. CASE i < n
    <3>1. Before(x, y)
      BY <1>1, <1>3, <2>2 DEF Ordered
    <3> QED BY <1>4, <3>1 DEF Before
  <2> QED BY <1>1, <2>1, <2>2
<1>6. Before(y, p)
  BY <1>1, <1>3
<1>7. Before(x, p)
  BY <1>4, <1>5, <1>6 DEF Before
<1> QED BY <1>3, <1>5, <1>7

LEMMA OrderedAppend ==
    ASSUME file.toks \in Seq(Nat), NEW out, Ordered(out, FALSE), NEW p \in Part, p.first <= p.last,
           out # <<>> => Before(out[Len(out)], p)
    PROVE  Ordered(Append(out, p), FALSE)
<1>1. PICK t : t = <<p>> /\ t \in Seq(Part) /\ Len(t) = 1 /\ t[1] = p
  <2>1. <<p>> \in Seq(Part) /\ Len(<<p>>) = 1 /\ <<p>>[1] = p
    OBVIOUS
  <2> QED BY <2>1
<1>2. Ordered(t, FALSE)
  BY <1>1 DEF Ordered
<1>3. \A i \in 1 .. Len(out) : Before(out[i], p)
  <2>1. CASE out = <<>>
    BY <2>1, EmptyRange
  <2>2. CASE out # <<>>
    <3>1. p.first \in Nat
      BY PartParts
    <3> QED BY <2>2, <3>1, FollowsAll
  <2> QED BY <2>1, <2>2
<1>4. \A i \in 1 .. Len(out), j \in 1 .. Len(t) : Before(out[i], t[j]) \/ (FALSE /\ Twin(out[i], t[j]))
  <2>1. \A j \in 1 .. Len(t) : t[j] = p
    BY <1>1
  <2> QED BY <1>3, <2>1
<1>5. Ordered(out \o t, FALSE)
  <2>1. FALSE \in BOOLEAN
    OBVIOUS
  <2> QED BY <1>2, <1>4, OrderedJoin
<1>6. Append(out, p) = out \o t
  BY <1>1 DEF Ordered
<1> QED BY <1>5, <1>6

\* The list is on every line that old was on.
Keeps(new, old) == \A l \in Nat : (\E k \in 1 .. Len(old) : On(old[k], l)) => \E k \in 1 .. Len(new) : On(new[k], l)

\* The last piece ends later.
Grows(new, out, q) == new = [out EXCEPT ![Len(out)] = q]
Later(new, out, q) ==
    /\ Ordered(new, FALSE) /\ new # <<>> /\ Len(new) = Len(out) /\ new[Len(new)] = q /\ Keeps(new, out)
    /\ \A k \in 1 .. Len(out) : k # Len(out) => new[k] = out[k]

LEMMA LastGrows ==
    ASSUME file.toks \in Seq(Nat), NEW out, Ordered(out, FALSE), out # <<>>, NEW q \in Part,
           q.first = out[Len(out)].first, out[Len(out)].last <= q.last, NEW new, Grows(new, out, q)
    PROVE  Later(new, out, q)
<1>1. PICK n \in Nat : n = Len(out) /\ n \in 1 .. n /\ out \in Seq(Part)
  BY DEF Ordered
<1>2. /\ new \in Seq(Part) /\ Len(new) = n /\ new[n] = q
      /\ \A k \in 1 .. n : k # n => new[k] = out[k]
  BY <1>1 DEF Grows
<1>3. PICK y \in Part : y = out[n] /\ y.first = q.first /\ y.last <= q.last /\ y.first <= y.last
  BY <1>1 DEF Ordered
<1>4. y.first \in Nat /\ y.last \in Nat /\ q.last \in Nat
  BY PartParts
<1>5. q.first <= q.last
  BY <1>3, <1>4
<1>6. \A k \in 1 .. n : new[k].first <= new[k].last
  <2>1. ASSUME NEW k \in 1 .. n, k # n PROVE new[k].first <= new[k].last
    BY <1>1, <1>2, <2>1 DEF Ordered
  <2> QED BY <1>2, <1>5, <2>1
<1>7. ASSUME NEW i \in 1 .. n, NEW j \in 1 .. n, i < j PROVE Before(new[i], new[j])
  <2>1. i # n /\ new[i] = out[i]
    BY <1>2, <1>7
  <2>2. Before(out[i], out[j])
    BY <1>1, <1>7 DEF Ordered
  <2>3. CASE j # n
    BY <1>2, <2>1, <2>2, <2>3
  <2>4. CASE j = n
    BY <1>2, <1>3, <2>1, <2>2, <2>4 DEF Before
  <2> QED BY <2>3, <2>4
<1>8. Ordered(new, FALSE)
  BY <1>2, <1>6, <1>7 DEF Ordered
<1>9. ASSUME NEW l \in Nat, NEW k \in 1 .. n, On(out[k], l) PROVE \E i \in 1 .. n : On(new[i], l)
  <2>1. CASE k # n
    BY <1>2, <1>9, <2>1
  <2>2. CASE k = n
    <3>1. On(y, l)
      BY <1>3, <1>9, <2>2
    <3>2. On(q, l)
      BY <1>3, <1>4, <3>1 DEF On
    <3> QED BY <1>1, <1>2, <3>2
  <2> QED BY <2>1, <2>2
<1>10. Keeps(new, out)
  BY <1>1, <1>2, <1>9 DEF Keeps
<1>11. new # <<>>
  BY <1>1, <1>2
<1> QED BY <1>1, <1>2, <1>8, <1>10, <1>11 DEF Later

LEMMA AppendKeeps ==
    ASSUME NEW out \in Seq(Part), NEW p \in Part
    PROVE  /\ Append(out, p) # <<>> /\ Append(out, p)[Len(Append(out, p))] = p /\ Keeps(Append(out, p), out)
           /\ \A k \in 1 .. Len(Append(out, p)) : Append(out, p)[k] = p \/ (k \in 1 .. Len(out) /\ Append(out, p)[k] = out[k])
<1>1. PICK n \in Nat : n = Len(out)
  OBVIOUS
<1>2. PICK new : new = Append(out, p)
  OBVIOUS
<1>3. new \in Seq(Part) /\ Len(new) = n + 1 /\ new[n + 1] = p /\ \A k \in 1 .. n : new[k] = out[k]
  BY <1>1, <1>2
<1>4. \A k \in 1 .. n : k \in 1 .. n + 1
  OBVIOUS
<1>5. \A k \in 1 .. n + 1 : k \in 1 .. n \/ k = n + 1
  OBVIOUS
<1>6. Keeps(new, out)
  BY <1>1, <1>3, <1>4 DEF Keeps
<1>7. \A k \in 1 .. n + 1 : new[k] = p \/ (k \in 1 .. n /\ new[k] = out[k])
  BY <1>3, <1>5
<1>8. new # <<>>
  BY <1>2
<1> QED BY <1>1, <1>2, <1>3, <1>6, <1>7, <1>8

-----------------------------------------------------------------------------
(* Chunking: small neighbours joined.                                       *)

Glues(acc, units) ==
    /\ acc[0] = <<>>
    /\ \A i \in 1 .. Len(units) :
           \/ acc[i] = Append(acc[i - 1], units[i])
           \/ (acc[i - 1] # <<>> /\ acc[i] = Join(acc[i - 1], units[i]))

\* One unit more.
Glued(new, out, u) ==
    /\ Ordered(new, FALSE) /\ new # <<>> /\ new[Len(new)].last = u.last /\ Keeps(new, out)
    /\ \A l \in Nat : On(u, l) => \E k \in 1 .. Len(new) : On(new[k], l)
    /\ (\A k \in 1 .. Len(out) : out[k].tokens > 0) /\ u.tokens > 0 => \A k \in 1 .. Len(new) : new[k].tokens > 0

LEMMA GlueOne ==
    ASSUME file.toks \in Seq(Nat), NEW out, Ordered(out, FALSE), NEW u \in Part, u.first <= u.last,
           out # <<>> => Before(out[Len(out)], u),
           NEW new, new = Append(out, u) \/ (out # <<>> /\ new = Join(out, u))
    PROVE  Glued(new, out, u)
<1>1. PICK n \in Nat : n = Len(out) /\ out \in Seq(Part)
  BY DEF Ordered
<1>2. CASE new = Append(out, u)
  <2>1. Ordered(new, FALSE)
    BY <1>2, OrderedAppend
  <2>2. /\ new # <<>> /\ new[Len(new)] = u /\ Keeps(new, out)
        /\ \A k \in 1 .. Len(new) : new[k] = u \/ (k \in 1 .. Len(out) /\ new[k] = out[k])
    BY <1>1, <1>2, AppendKeeps
  <2>3. Len(new) \in 1 .. Len(new)
    BY <2>1, <2>2 DEF Ordered
  <2>4. \A l \in Nat : On(u, l) => \E k \in 1 .. Len(new) : On(new[k], l)
    BY <2>2, <2>3
  <2>5. (\A k \in 1 .. Len(out) : out[k].tokens > 0) /\ u.tokens > 0 => \A k \in 1 .. Len(new) : new[k].tokens > 0
    BY <2>2
  <2> QED BY <2>1, <2>2, <2>4, <2>5 DEF Glued
<1>3. CASE out # <<>> /\ new = Join(out, u)
  <2>1. PICK y \in Part : y = out[n] /\ y.first <= y.last /\ n \in 1 .. n /\ Before(y, u)
    BY <1>1, <1>3 DEF Ordered
  <2>2. y.first \in Nat /\ y.last \in Nat /\ u.first \in Nat /\ u.last \in Nat /\ y.tokens \in Nat /\ u.tokens \in Nat
    BY <2>1, PartParts
  <2>3. y.last <= u.last /\ y.first <= u.first
    BY <2>1, <2>2 DEF Before
  <2>4. PICK q \in Part : q = [first |-> y.first, last |-> u.last, tokens |-> y.tokens + u.tokens]
    <3>1. PICK m \in Nat : m = Len(file.toks)
      OBVIOUS
    <3>2. y.first \in Nat \ {0} /\ u.last \in 0 .. m /\ y.tokens + u.tokens \in Nat
      BY <2>2, <3>1 DEF Part
    <3> QED BY <3>1, <3>2 DEF Part
  <2>5. Grows(new, out, q)
    <3>1. q = [first |-> out[Len(out)].first, last |-> u.last, tokens |-> out[Len(out)].tokens + u.tokens]
      BY <1>1, <2>1, <2>4
    <3> QED BY <1>3, <3>1 DEF Join, Grows
  <2>6. /\ Ordered(new, FALSE) /\ new # <<>> /\ Len(new) = Len(out) /\ new[Len(new)] = q /\ Keeps(new, out)
        /\ \A k \in 1 .. Len(out) : k # Len(out) => new[k] = out[k]
    <3>1. out # <<>> /\ q.first = out[Len(out)].first /\ out[Len(out)].last <= q.last
      BY <1>1, <1>3, <2>1, <2>3, <2>4
    <3>2. Later(new, out, q)
      BY <2>5, <3>1, LastGrows
    <3> QED BY <3>2 DEF Later
  <2>7. ASSUME NEW l \in Nat, On(u, l) PROVE On(q, l)
    BY <2>2, <2>3, <2>4, <2>7 DEF On
  <2>8. (\A k \in 1 .. n : out[k].tokens > 0) /\ u.tokens > 0 => \A k \in 1 .. n : new[k].tokens > 0
    <3>1. SUFFICES ASSUME \A k \in 1 .. n : out[k].tokens > 0, u.tokens > 0, NEW k \in 1 .. n
                   PROVE  new[k].tokens > 0
      OBVIOUS
    <3>2. CASE k = n
      <4>1. q.tokens > 0
        BY <2>2, <2>4, <3>1
      <4> QED BY <1>1, <2>6, <3>2, <4>1
    <3>3. CASE k # n
      BY <1>1, <2>6, <3>1, <3>3
    <3> QED BY <3>2, <3>3
  <2>9. \A l \in Nat : On(u, l) => \E k \in 1 .. Len(new) : On(new[k], l)
    BY <1>1, <2>1, <2>6, <2>7
  <2>10. (\A k \in 1 .. Len(out) : out[k].tokens > 0) /\ u.tokens > 0 => \A k \in 1 .. Len(new) : new[k].tokens > 0
    BY <1>1, <2>6, <2>8
  <2>11. new[Len(new)].last = u.last
    BY <2>4, <2>6
  <2> QED BY <2>6, <2>9, <2>10, <2>11 DEF Glued
<1> QED BY <1>2, <1>3

\* The result is in order, where the units were, and not blank if they were not.
LEMMA GluedAll ==
    ASSUME file.toks \in Seq(Nat), NEW units, Ordered(units, FALSE), NEW acc, Glues(acc, units),
           NEW out, out = acc[Len(units)]
    PROVE  /\ Ordered(out, FALSE) /\ Keeps(out, units)
           /\ (\A i \in 1 .. Len(units) : units[i].tokens > 0) => \A k \in 1 .. Len(out) : out[k].tokens > 0
<1>1. PICK N \in Nat : N = Len(units) /\ units \in Seq(Part)
  BY DEF Ordered
<1> DEFINE So(n) ==
        /\ Ordered(acc[n], FALSE) /\ (n = 0 => acc[n] = <<>>)
        /\ n > 0 => acc[n] # <<>> /\ acc[n][Len(acc[n])].last = units[n].last
        /\ \A l \in Nat : (\E i \in 1 .. n : On(units[i], l)) => \E k \in 1 .. Len(acc[n]) : On(acc[n][k], l)
        /\ (\A i \in 1 .. n : units[i].tokens > 0) => \A k \in 1 .. Len(acc[n]) : acc[n][k].tokens > 0
           T == {n \in Nat : n <= N => So(n)}
<1> HIDE DEF So
<1>2. 0 \in T
  <2>1. acc[0] = <<>> /\ Len(<<>>) = 0
    BY DEF Glues
  <2>2. Ordered(acc[0], FALSE)
    BY <2>1, EmptyOrdered
  <2>3. \A k \in 1 .. Len(acc[0]) : FALSE
    BY <2>1, EmptyRange
  <2>4. \A k \in 1 .. 0 : FALSE
    BY EmptyRange
  <2>5. So(0)
    <3>1. \A l \in Nat : (\E i \in 1 .. 0 : On(units[i], l)) => \E k \in 1 .. Len(acc[0]) : On(acc[0][k], l)
      BY <2>4
    <3>2. (\A i \in 1 .. 0 : units[i].tokens > 0) => \A k \in 1 .. Len(acc[0]) : acc[0][k].tokens > 0
      BY <2>3
    <3>3. ~(0 > 0)
      OBVIOUS
    <3> QED BY <2>1, <2>2, <3>1, <3>2, <3>3 DEF So
  <2> QED BY <2>5
<1>3. ASSUME NEW n \in Nat, n \in T PROVE n + 1 \in T
  <2>1. SUFFICES ASSUME n + 1 <= N PROVE So(n + 1)
    OBVIOUS
  <2>2. n <= N /\ n + 1 \in 1 .. N /\ (n + 1) - 1 = n /\ n + 1 > 0 /\ n + 1 # 0
    BY <2>1
  <2>3. So(n)
    BY <1>3, <2>2
  <2>4. PICK old, new : old = acc[n] /\ new = acc[n + 1]
    OBVIOUS
  <2>5. PICK u \in Part : u = units[n + 1] /\ u.first <= u.last
    BY <1>1, <2>2 DEF Ordered
  <2>6. new = Append(old, u) \/ (old # <<>> /\ new = Join(old, u))
    BY <1>1, <2>2, <2>4, <2>5 DEF Glues
  <2>7. Ordered(old, FALSE)
    BY <2>3, <2>4 DEF So
  <2>8. old # <<>> => Before(old[Len(old)], u)
    <3>1. SUFFICES ASSUME old # <<>> PROVE Before(old[Len(old)], u)
      OBVIOUS
    <3>2. n > 0 /\ n \in 1 .. N /\ n < n + 1 /\ old[Len(old)].last = units[n].last
      BY <2>2, <2>3, <2>4, <3>1 DEF So
    <3>3. Before(units[n], u)
      BY <1>1, <2>2, <2>5, <3>2 DEF Ordered
    <3> QED BY <3>2, <3>3 DEF Before
  <2>9. Glued(new, old, u)
    BY <2>5, <2>6, <2>7, <2>8, GlueOne
  <2>10. \A i : i \in 1 .. n + 1 <=> i \in 1 .. n \/ i = n + 1
    OBVIOUS
  <2>11. ASSUME NEW l \in Nat, \E i \in 1 .. n + 1 : On(units[i], l) PROVE \E k \in 1 .. Len(new) : On(new[k], l)
    <3>1. CASE \E i \in 1 .. n : On(units[i], l)
      <4>1. \E k \in 1 .. Len(old) : On(old[k], l)
        BY <2>3, <2>4, <3>1 DEF So
      <4> QED BY <2>9, <4>1 DEF Glued, Keeps
    <3>2. CASE On(units[n + 1], l)
      BY <2>5, <2>9, <3>2 DEF Glued
    <3> QED BY <2>10, <2>11, <3>1, <3>2
  <2>12. (\A i \in 1 .. n + 1 : units[i].tokens > 0) => \A k \in 1 .. Len(new) : new[k].tokens > 0
    <3>1. (\A i \in 1 .. n + 1 : units[i].tokens > 0) => (\A i \in 1 .. n : units[i].tokens > 0) /\ u.tokens > 0
      BY <2>5, <2>10
    <3>2. (\A i \in 1 .. n : units[i].tokens > 0) => \A k \in 1 .. Len(old) : old[k].tokens > 0
      BY <2>3, <2>4 DEF So
    <3> QED BY <2>9, <3>1, <3>2 DEF Glued
  <2> QED BY <2>2, <2>4, <2>5, <2>9, <2>11, <2>12 DEF So, Glued
<1> HIDE DEF T
<1>4. N \in T /\ N <= N
  BY <1>2, <1>3, Induction
<1>5. So(N)
  BY <1>4 DEF T
<1> QED BY <1>1, <1>5 DEF So, Keeps

GlueNext(out, u, below, most) ==
    IF out # <<>> /\ u.tokens < below /\ Last1(out).tokens + u.tokens <= most
    THEN Join(out, u) ELSE Append(out, u)

LEMMA JoinIn ==
    ASSUME file.toks \in Seq(Nat), NEW out \in Seq(Part), out # <<>>, NEW u \in Part
    PROVE  Join(out, u) \in Seq(Part)
<1>1. PICK n \in Nat : n = Len(out) /\ n \in 1 .. n
  OBVIOUS
<1>2. PICK y \in Part : y = out[n]
  BY <1>1
<1>3. PICK q \in Part : q = [first |-> y.first, last |-> u.last, tokens |-> y.tokens + u.tokens]
  <2>1. PICK m \in Nat : m = Len(file.toks)
    OBVIOUS
  <2>2. y.first \in Nat \ {0} /\ u.last \in 0 .. m /\ y.tokens + u.tokens \in Nat
    BY <2>1 DEF Part
  <2> QED BY <2>1, <2>2 DEF Part
<1>4. Join(out, u) = [out EXCEPT ![n] = q]
  BY <1>1, <1>2, <1>3 DEF Join
<1> QED BY <1>1, <1>4

LEMMA GlueSteps ==
    ASSUME file.toks \in Seq(Nat), NEW units \in Seq(Part), NEW below, NEW most
    PROVE  \E acc : Glue(units, below, most) = acc[Len(units)] /\ Glues(acc, units)
<1> DEFINE N == Len(units)
           D == DOMAIN units
           Next(y, i) == GlueNext(y, units[i], below, most)
           Law(g) == g = [t \in SUBSET D |-> IF t = {} THEN <<>> ELSE Next(g[t \ {Max(t)}], Max(t))]
           h == CHOOSE g : Law(g)
<1>0. N \in Nat /\ D = 1 .. N
  OBVIOUS
<1>1. \A y \in Seq(Part), i \in 1 .. N : Next(y, i) \in Seq(Part)
  BY JoinIn DEF GlueNext
<1>2. PICK Y : Y = Seq(Part)
  OBVIOUS
<1> DEFINE step == [p \in (1 .. N) \X Y |-> Next(p[2], p[1])]
<1> HIDE DEF Next, N, D
<1>3. step \in [(1 .. N) \X Y -> Y]
  BY <1>1, <1>2
<1>4. PICK g : Folds(g, Y, <<>>, N, step)
  <2> HIDE DEF step
  <2>0. <<>> \in Seq(Part)
    OBVIOUS
  <2>1. PICK base \in Y : base = <<>>
    BY <1>2, <2>0
  <2>2. \E g : Folds(g, Y, base, N, step)
    BY <1>0, <1>3, FoldExists
  <2> QED BY <2>1, <2>2
<1>5. Law(g)
  <2>1. ASSUME NEW t \in SUBSET (1 .. N), t # {}
        PROVE  step[<<Max(t), g[t \ {Max(t)}]>>] = Next(g[t \ {Max(t)}], Max(t))
    <3>1. Max(t) \in 1 .. N
      BY <1>0, <2>1, MaxOf
    <3>2. g[t \ {Max(t)}] \in Y
      BY <1>4 DEF Folds
    <3> QED BY <3>1, <3>2
  <2> HIDE DEF step
  <2> QED BY <1>0, <1>4, <2>1 DEF Folds
<1>6. Law(h)
  <2> HIDE DEF Law
  <2> QED BY <1>5
<1>7. Glue(units, below, most) = h[D]
  BY DEF Glue, FoldLeft, MapThenFoldSet, Next, D, GlueNext
<1> HIDE DEF h
<1>8. \A t \in SUBSET (1 .. N) : h[t] = IF t = {} THEN <<>> ELSE Next(h[t \ {Max(t)}], Max(t))
  BY <1>0, <1>6
<1>9. h[{}] = <<>> /\ \A i \in 1 .. N : h[1 .. i] = Next(h[1 .. i - 1], i)
  <2>1. {} \in SUBSET (1 .. N)
    OBVIOUS
  <2> QED BY <1>0, <1>8, <2>1, Prefix
<1>10. PICK acc : acc = [i \in 0 .. N |-> h[1 .. i]]
  OBVIOUS
<1>11. acc[0] = <<>> /\ acc[N] = Glue(units, below, most) /\ \A i \in 1 .. N : acc[i] = Next(acc[i - 1], i)
  <2>1. acc[0] = h[{}] /\ acc[N] = h[D]
    BY <1>0, <1>10, EmptyRange
  <2>2. \A i \in 1 .. N : acc[i] = h[1 .. i] /\ acc[i - 1] = h[1 .. i - 1]
    BY <1>0, <1>10
  <2> QED BY <1>7, <1>9, <2>1, <2>2
<1>12. \A i \in 1 .. Len(units) :
           \/ acc[i] = Append(acc[i - 1], units[i])
           \/ (acc[i - 1] # <<>> /\ acc[i] = Join(acc[i - 1], units[i]))
  BY <1>11 DEF N, Next, GlueNext
<1>13. Glues(acc, units)
  BY <1>11, <1>12 DEF Glues
<1>14. acc[Len(units)] = Glue(units, below, most)
  BY <1>11 DEF N
<1> QED BY <1>13, <1>14

\* What Glue makes of units in order.
LEMMA GlueIs ==
    ASSUME file.toks \in Seq(Nat), NEW units, Ordered(units, FALSE), NEW below, NEW most,
           NEW out, out = Glue(units, below, most)
    PROVE  /\ Ordered(out, FALSE) /\ Keeps(out, units)
           /\ (\A i \in 1 .. Len(units) : units[i].tokens > 0) => \A k \in 1 .. Len(out) : out[k].tokens > 0
<1>1. units \in Seq(Part)
  BY DEF Ordered
<1>2. PICK acc : out = acc[Len(units)] /\ Glues(acc, units)
  BY <1>1, GlueSteps
<1> QED BY <1>2, GluedAll

-----------------------------------------------------------------------------
(* Chunking: gaps between the units.                                        *)

Widened(out, u) ==
    LET cursor == IF out = <<>> THEN 1 ELSE Last1(out).last + 1 IN
    Unit(IF cursor < u.first THEN cursor ELSE u.first, u.last)

LEMMA WidenedIs ==
    ASSUME file.toks \in Seq(Nat), NEW out \in Seq(Part), NEW u \in Part
    PROVE  /\ Widened(out, u) \in Part /\ Widened(out, u).last = u.last
           /\ Widened(out, u).first <= u.first
           /\ out = <<>> => Widened(out, u).first = 1
           /\ out # <<>> => /\ Widened(out, u).first <= out[Len(out)].last + 1
                            /\ Widened(out, u).first = out[Len(out)].last + 1 \/ Widened(out, u).first = u.first
<1>1. u.first \in Nat /\ 1 <= u.first /\ u.last \in Nat /\ u.last <= Len(file.toks)
  BY PartParts
<1>2. PICK c \in Nat : /\ 1 <= c /\ c = IF out = <<>> THEN 1 ELSE Last1(out).last + 1
                       /\ out # <<>> => c = out[Len(out)].last + 1
  <2>1. CASE out = <<>>
    BY <2>1
  <2>2. CASE out # <<>>
    <3>1. out[Len(out)] \in Part
      BY <2>2
    <3>2. out[Len(out)].last \in Nat
      BY <3>1, PartParts
    <3> QED BY <2>2, <3>2 DEF Last1
  <2> QED BY <2>1, <2>2
<1>3. PICK a \in Nat : a = (IF c < u.first THEN c ELSE u.first) /\ 1 <= a /\ a <= u.first /\ a <= c /\ (a = c \/ a = u.first)
  <2>1. PICK f \in Nat : f = u.first /\ 1 <= f
    BY <1>1
  <2>2. CASE c < f
    BY <1>2, <2>1, <2>2
  <2>3. CASE ~(c < f)
    BY <1>2, <2>1, <2>3
  <2> QED BY <2>2, <2>3
<1>4. Widened(out, u) = Unit(a, u.last)
  BY <1>2, <1>3 DEF Widened
<1>5. Unit(a, u.last) \in Part /\ Unit(a, u.last).first = a /\ Unit(a, u.last).last = u.last
  BY <1>1, <1>3, UnitIs
<1>6. out = <<>> => a = 1
  BY <1>1, <1>2, <1>3
<1> QED BY <1>2, <1>3, <1>4, <1>5, <1>6

\* The pieces leave out no line before the end of the last.
Reached(out) ==
    out # <<>> => \A l \in Nat : 1 <= l /\ l <= out[Len(out)].last => \E k \in 1 .. Len(out) : On(out[k], l)

LEMMA WidenOne ==
    ASSUME file.toks \in Seq(Nat), NEW out, Ordered(out, FALSE), Reached(out), NEW u \in Part, u.first <= u.last,
           out # <<>> => Before(out[Len(out)], u), NEW new, new = Append(out, Widened(out, u))
    PROVE  Ordered(new, FALSE) /\ new # <<>> /\ new[Len(new)].last = u.last /\ Reached(new)
<1>1. out \in Seq(Part)
  BY DEF Ordered
<1>2. PICK p \in Part : /\ p = Widened(out, u) /\ p.last = u.last /\ p.first <= u.first
                        /\ out = <<>> => p.first = 1
                        /\ out # <<>> => /\ p.first <= out[Len(out)].last + 1
                                         /\ p.first = out[Len(out)].last + 1 \/ p.first = u.first
  BY <1>1, WidenedIs
<1>3. p.first \in Nat /\ 1 <= p.first /\ p.last \in Nat /\ u.first \in Nat /\ p.first <= p.last
  BY <1>2, PartParts
<1>4. out # <<>> => Before(out[Len(out)], p)
  <2>1. SUFFICES ASSUME out # <<>> PROVE Before(out[Len(out)], p)
    OBVIOUS
  <2>2. PICK y \in Part : y = out[Len(out)] /\ y.last \in Nat
    <3>1. out[Len(out)] \in Part
      BY <1>1, <2>1
    <3> QED BY <3>1, PartParts
  <2>3. Before(y, u)
    BY <2>1, <2>2
  <2>4. CASE p.first = y.last + 1
    BY <1>3, <2>2, <2>4 DEF Before
  <2>5. CASE p.first = u.first
    BY <2>2, <2>3, <2>5 DEF Before
  <2> QED BY <1>2, <2>1, <2>2, <2>4, <2>5
<1>5. Ordered(new, FALSE)
  BY <1>2, <1>3, <1>4, OrderedAppend
<1>6. new # <<>> /\ new[Len(new)] = p /\ Keeps(new, out)
  BY <1>1, <1>2, AppendKeeps
<1>7. Len(new) \in 1 .. Len(new)
  BY <1>5, <1>6 DEF Ordered
<1>8. ASSUME NEW l \in Nat, 1 <= l, l <= p.last PROVE \E k \in 1 .. Len(new) : On(new[k], l)
  <2>1. CASE p.first <= l
    <3>1. On(p, l)
      BY <1>8, <2>1 DEF On
    <3> QED BY <1>6, <1>7, <3>1
  <2>2. CASE ~(p.first <= l)
    <3>1. out # <<>>
      BY <1>2, <1>8, <2>2
    <3>2. PICK y \in Part : y = out[Len(out)] /\ y.last \in Nat
      <4>1. out[Len(out)] \in Part
        BY <1>1, <3>1
      <4> QED BY <4>1, PartParts
    <3>3. l <= y.last
      BY <1>2, <1>3, <2>2, <3>1, <3>2
    <3>4. \E k \in 1 .. Len(out) : On(out[k], l)
      BY <1>8, <3>1, <3>2, <3>3 DEF Reached
    <3> QED BY <1>6, <3>4 DEF Keeps
  <2> QED BY <2>1, <2>2
<1>9. Reached(new)
  BY <1>6, <1>8 DEF Reached
<1> QED BY <1>2, <1>5, <1>6, <1>9

\* The last piece reaches the end of the file.
ToTheEnd(joined) ==
    IF joined = <<>> THEN joined
    ELSE [joined EXCEPT ![Len(joined)] = Unit(@.first, IF @.last < Len(file.toks) THEN Len(file.toks) ELSE @.last)]

LEMMA ContiguousSteps ==
    ASSUME file.toks \in Seq(Nat), NEW units \in Seq(Part)
    PROVE  \E acc : /\ acc[0] = <<>> /\ Contiguous(units) = ToTheEnd(acc[Len(units)])
                    /\ \A i \in 1 .. Len(units) : acc[i] = Append(acc[i - 1], Widened(acc[i - 1], units[i]))
<1> DEFINE N == Len(units)
           D == DOMAIN units
           Next(y, i) == Append(y, Widened(y, units[i]))
           Law(g) == g = [t \in SUBSET D |-> IF t = {} THEN <<>> ELSE Next(g[t \ {Max(t)}], Max(t))]
           h == CHOOSE g : Law(g)
<1>0. N \in Nat /\ D = 1 .. N
  OBVIOUS
<1>1. \A y \in Seq(Part), i \in 1 .. N : Next(y, i) \in Seq(Part)
  <2>1. ASSUME NEW y \in Seq(Part), NEW i \in 1 .. N PROVE Widened(y, units[i]) \in Part
    BY WidenedIs
  <2> QED BY <2>1
<1>2. PICK Y : Y = Seq(Part)
  OBVIOUS
<1> DEFINE step == [p \in (1 .. N) \X Y |-> Next(p[2], p[1])]
<1> HIDE DEF Next, N, D
<1>3. step \in [(1 .. N) \X Y -> Y]
  BY <1>1, <1>2
<1>4. PICK g : Folds(g, Y, <<>>, N, step)
  <2> HIDE DEF step
  <2>0. <<>> \in Seq(Part)
    OBVIOUS
  <2>1. PICK base \in Y : base = <<>>
    BY <1>2, <2>0
  <2>2. \E g : Folds(g, Y, base, N, step)
    BY <1>0, <1>3, FoldExists
  <2> QED BY <2>1, <2>2
<1>5. Law(g)
  <2>1. ASSUME NEW t \in SUBSET (1 .. N), t # {}
        PROVE  step[<<Max(t), g[t \ {Max(t)}]>>] = Next(g[t \ {Max(t)}], Max(t))
    <3>1. Max(t) \in 1 .. N
      BY <1>0, <2>1, MaxOf
    <3>2. g[t \ {Max(t)}] \in Y
      BY <1>4 DEF Folds
    <3> QED BY <3>1, <3>2
  <2> HIDE DEF step
  <2> QED BY <1>0, <1>4, <2>1 DEF Folds
<1>6. Law(h)
  <2> HIDE DEF Law
  <2> QED BY <1>5
<1>7. Contiguous(units) = ToTheEnd(h[D])
  BY DEF Contiguous, ToTheEnd, Widened, FoldLeft, MapThenFoldSet, Next, D
<1> HIDE DEF h
<1>8. \A t \in SUBSET (1 .. N) : h[t] = IF t = {} THEN <<>> ELSE Next(h[t \ {Max(t)}], Max(t))
  BY <1>0, <1>6
<1>9. h[{}] = <<>> /\ \A i \in 1 .. N : h[1 .. i] = Next(h[1 .. i - 1], i)
  <2>1. {} \in SUBSET (1 .. N)
    OBVIOUS
  <2> QED BY <1>0, <1>8, <2>1, Prefix
<1>10. PICK acc : acc = [i \in 0 .. N |-> h[1 .. i]]
  OBVIOUS
<1>11. acc[0] = <<>> /\ Contiguous(units) = ToTheEnd(acc[N]) /\ \A i \in 1 .. N : acc[i] = Next(acc[i - 1], i)
  <2>1. acc[0] = h[{}] /\ acc[N] = h[D]
    BY <1>0, <1>10, EmptyRange
  <2>2. \A i \in 1 .. N : acc[i] = h[1 .. i] /\ acc[i - 1] = h[1 .. i - 1]
    BY <1>0, <1>10
  <2> QED BY <1>7, <1>9, <2>1, <2>2
<1>12. Contiguous(units) = ToTheEnd(acc[Len(units)])
  BY <1>11 DEF N
<1>13. \A i \in 1 .. Len(units) : acc[i] = Append(acc[i - 1], Widened(acc[i - 1], units[i]))
  BY <1>11 DEF N, Next
<1> QED BY <1>11, <1>12, <1>13

\* Every line is in a piece.
Tiles(out) == Ordered(out, FALSE) /\ \A l \in 1 .. Len(file.toks) : \E k \in 1 .. Len(out) : On(out[k], l)

LEMMA EndTiles ==
    ASSUME file.toks \in Seq(Nat), NEW out, Ordered(out, FALSE), out # <<>>, Reached(out),
           NEW new, new = ToTheEnd(out)
    PROVE  Tiles(new)
<1>1. PICK N \in Nat : N = Len(file.toks)
  OBVIOUS
<1>2. PICK y \in Part : y = out[Len(out)] /\ y.first \in Nat /\ 1 <= y.first /\ y.last \in Nat /\ y.last <= N
  <2>1. out[Len(out)] \in Part
    BY DEF Ordered
  <2> QED BY <1>1, <2>1, PartParts
<1>3. PICK q \in Part : q = Unit(y.first, N) /\ q.first = y.first /\ q.last = N
  <2>1. N <= N
    OBVIOUS
  <2> QED BY <1>1, <1>2, <2>1, UnitIs
<1>4. (IF y.last < N THEN N ELSE y.last) = N
  BY <1>2
<1>5. Grows(new, out, q)
  BY <1>1, <1>2, <1>3, <1>4 DEF ToTheEnd, Grows
<1>6. Later(new, out, q)
  <2>1. q.first = out[Len(out)].first /\ out[Len(out)].last <= q.last
    BY <1>2, <1>3
  <2> QED BY <1>5, <2>1, LastGrows
<1>7. Len(new) \in 1 .. Len(new)
  BY <1>6 DEF Later, Ordered
<1>8. ASSUME NEW l \in 1 .. N PROVE \E k \in 1 .. Len(new) : On(new[k], l)
  <2>1. CASE l <= y.last
    <3>1. \E k \in 1 .. Len(out) : On(out[k], l)
      <4>1. l \in Nat /\ 1 <= l /\ l <= out[Len(out)].last
        BY <1>1, <1>2, <2>1
      <4> QED BY <4>1 DEF Reached
    <3> QED BY <1>6, <3>1 DEF Later, Keeps
  <2>2. CASE ~(l <= y.last)
    <3>1. y.first <= y.last
      <4>1. Len(out) \in 1 .. Len(out)
        BY DEF Ordered
      <4> QED BY <1>2, <4>1 DEF Ordered
    <3>2. q.first <= l /\ l <= q.last
      BY <1>2, <1>3, <2>2, <3>1
    <3>3. On(q, l)
      BY <3>2 DEF On
    <3> QED BY <1>6, <1>7, <3>3 DEF Later
  <2> QED BY <2>1, <2>2
<1> QED BY <1>1, <1>6, <1>8 DEF Tiles, Later

LEMMA ContiguousTiles ==
    ASSUME file.toks \in Seq(Nat), NEW units, Ordered(units, FALSE), units # <<>>
    PROVE  Tiles(Contiguous(units))
<1>1. PICK N \in Nat : N = Len(units) /\ units \in Seq(Part) /\ N # 0
  BY DEF Ordered
<1>2. PICK acc : /\ acc[0] = <<>> /\ Contiguous(units) = ToTheEnd(acc[N])
                 /\ \A i \in 1 .. N : acc[i] = Append(acc[i - 1], Widened(acc[i - 1], units[i]))
  BY <1>1, ContiguousSteps
<1> DEFINE So(n) ==
        /\ Ordered(acc[n], FALSE) /\ Reached(acc[n]) /\ (n = 0 => acc[n] = <<>>)
        /\ n > 0 => acc[n] # <<>> /\ acc[n][Len(acc[n])].last = units[n].last
           T == {n \in Nat : n <= N => So(n)}
<1> HIDE DEF So
<1>3. 0 \in T
  <2>1. Ordered(acc[0], FALSE) /\ Reached(acc[0])
    BY <1>2, EmptyOrdered DEF Reached
  <2>2. ~(0 > 0)
    OBVIOUS
  <2>3. So(0)
    BY <1>2, <2>1, <2>2 DEF So
  <2> QED BY <2>3
<1>4. ASSUME NEW n \in Nat, n \in T PROVE n + 1 \in T
  <2>1. SUFFICES ASSUME n + 1 <= N PROVE So(n + 1)
    OBVIOUS
  <2>2. n <= N /\ n + 1 \in 1 .. N /\ (n + 1) - 1 = n /\ n + 1 > 0 /\ n + 1 # 0
    BY <2>1
  <2>3. So(n)
    BY <1>4, <2>2
  <2>4. PICK old, new : old = acc[n] /\ new = acc[n + 1]
    OBVIOUS
  <2>5. PICK u \in Part : u = units[n + 1] /\ u.first <= u.last
    BY <1>1, <2>2 DEF Ordered
  <2>6. new = Append(old, Widened(old, u))
    BY <1>2, <2>2, <2>4, <2>5
  <2>7. Ordered(old, FALSE) /\ Reached(old)
    BY <2>3, <2>4 DEF So
  <2>8. old # <<>> => Before(old[Len(old)], u)
    <3>1. SUFFICES ASSUME old # <<>> PROVE Before(old[Len(old)], u)
      OBVIOUS
    <3>2. n > 0 /\ n \in 1 .. N /\ n < n + 1 /\ old[Len(old)].last = units[n].last
      BY <2>2, <2>3, <2>4, <3>1 DEF So
    <3>3. Before(units[n], u)
      BY <1>1, <2>2, <2>5, <3>2 DEF Ordered
    <3> QED BY <3>2, <3>3 DEF Before
  <2>9. Ordered(new, FALSE) /\ new # <<>> /\ new[Len(new)].last = u.last /\ Reached(new)
    BY ONLY file.toks \in Seq(Nat), u \in Part, <2>5, <2>6, <2>7, <2>8, WidenOne
  <2> QED BY <2>2, <2>4, <2>5, <2>9 DEF So
<1> HIDE DEF T
<1>5. N \in T /\ N <= N
  BY <1>3, <1>4, Induction
<1>6. So(N)
  BY <1>5 DEF T
<1>7. N > 0
  BY <1>1
<1>8. PICK out : out = acc[N] /\ Ordered(out, FALSE) /\ Reached(out) /\ out # <<>>
  BY <1>6, <1>7 DEF So
<1> QED BY <1>2, <1>8, EndTiles

-----------------------------------------------------------------------------
(* Chunking: blank edges.                                                   *)

LEMMA MinOf ==
    ASSUME NEW S \in SUBSET Nat, S # {}
    PROVE  \E l \in S : \A k \in S : l <= k
<1>1. IsWellFoundedOn(OpToRel(<, Nat), Nat)
  BY NatLessThanWellFounded
<1>2. PICK l \in S : \A k \in S : ~(<<k, l>> \in OpToRel(<, Nat))
  BY <1>1, WFMin
<1>3. ASSUME NEW k \in S PROVE l <= k
  <2>1. l \in Nat /\ k \in Nat
    OBVIOUS
  <2>2. ~(<<k, l>> \in OpToRel(<, Nat))
    BY <1>2
  <2>3. ~(k < l)
    BY <2>1, <2>2 DEF OpToRel
  <2> QED BY <2>1, <2>3
<1> QED BY <1>3

\* A text cut up: the pieces are not blank, lie in it and cover what is not blank.
NoBlank(out) == \A k \in 1 .. Len(out) : out[k].tokens > 0
Splits(seq, u, within, twins) ==
    /\ Ordered(seq, twins) /\ Lies(seq, u, within) /\ NoBlank(seq)
    /\ \A l \in Nat : On(u, l) /\ file.toks[l] > 0 => \E k \in 1 .. Len(seq) : On(seq[k], l)

LEMMA TrimIs ==
    ASSUME file.toks \in Seq(Nat), NEW u, u.first \in Nat, 1 <= u.first, u.last \in Nat, u.last <= Len(file.toks)
    PROVE  Splits(Trim(u), u, FALSE, FALSE)
<1>1. PICK text : text = {l \in u.first .. u.last : file.toks[l] > 0}
  OBVIOUS
<1>2. text \in SUBSET Nat
  BY <1>1
<1>3. CASE text = {}
  <2>1. Trim(u) = <<>>
    BY <1>1, <1>3 DEF Trim
  <2>2. ASSUME NEW l \in Nat, On(u, l), file.toks[l] > 0 PROVE FALSE
    BY <1>1, <1>3, <2>2 DEF On
  <2>3. \A k \in 1 .. Len(<<>>) : FALSE
    BY EmptyRange
  <2> QED BY <2>1, <2>2, <2>3, EmptyOrdered DEF Splits, Lies, NoBlank
<1>4. CASE text # {}
  <2> DEFINE a == CHOOSE l \in text : \A k \in text : l <= k
             b == CHOOSE l \in text : \A k \in text : k <= l
  <2>1. a \in text /\ \A k \in text : a <= k
    <3>1. \E l \in text : \A k \in text : l <= k
      BY <1>2, <1>4, MinOf
    <3> QED BY <3>1
  <2>2. b \in text /\ \A k \in text : k <= b
    <3>1. PICK n \in Nat : n = u.last
      OBVIOUS
    <3>2. text \in SUBSET (1 .. n)
      BY <1>1, <3>1
    <3>3. \E l \in text : \A k \in text : k <= l
      BY <1>4, <3>1, <3>2, MaxOf
    <3> QED BY <3>3
  <2>3. Trim(u) = <<Unit(a, b)>>
    BY <1>1, <1>4 DEF Trim
  <2> HIDE DEF a, b
  <2>4. /\ a \in Nat /\ 1 <= a /\ u.first <= a /\ a <= b /\ file.toks[a] > 0
        /\ b \in Nat /\ b <= u.last /\ b <= Len(file.toks)
    <3>1. a \in u.first .. u.last /\ b \in u.first .. u.last /\ file.toks[a] > 0
      BY <1>1, <2>1, <2>2
    <3>2. Len(file.toks) \in Nat
      OBVIOUS
    <3> QED BY <2>2, <2>1, <3>1, <3>2
  <2>5. PICK p \in Part : p = Unit(a, b) /\ p.first = a /\ p.last = b /\ p.tokens > 0
    <3>1. a \in a .. b
      BY <2>4
    <3>2. Tok(a, b) > 0
      BY <2>4, <3>1, TokIs
    <3>3. Unit(a, b) \in Part /\ Unit(a, b).first = a /\ Unit(a, b).last = b /\ Unit(a, b).tokens = Tok(a, b)
      BY <2>4, UnitIs
    <3> QED BY <3>2, <3>3
  <2>6. PICK seq : seq = <<p>> /\ seq \in Seq(Part) /\ Len(seq) = 1 /\ seq[1] = p
    <3>1. <<p>> \in Seq(Part) /\ Len(<<p>>) = 1 /\ <<p>>[1] = p
      OBVIOUS
    <3> QED BY <3>1
  <2>7. \A k \in 1 .. Len(seq) : k = 1
    BY <2>6
  <2>8. Ordered(seq, FALSE)
    <3>1. \A i, j \in 1 .. Len(seq) : ~(i < j)
      BY <2>6
    <3> QED BY <2>4, <2>5, <2>6, <2>7, <3>1 DEF Ordered
  <2>9. Lies(seq, u, FALSE) /\ \A k \in 1 .. Len(seq) : seq[k].tokens > 0
    BY <2>4, <2>5, <2>6, <2>7 DEF Lies
  <2>10. ASSUME NEW l \in Nat, On(u, l), file.toks[l] > 0 PROVE On(seq[1], l)
    <3>1. l \in text
      BY <1>1, <2>10 DEF On
    <3>2. a <= l /\ l <= b
      BY <2>1, <2>2, <3>1
    <3> QED BY <2>5, <2>6, <3>2 DEF On
  <2>11. 1 \in 1 .. Len(seq)
    BY <2>6
  <2> QED BY <2>3, <2>5, <2>6, <2>8, <2>9, <2>10, <2>11 DEF Splits, NoBlank
<1> QED BY <1>3, <1>4

\* The file as a list of pieces: in order, none blank, no line missing.
Covers(out) == \A l \in 1 .. Len(file.toks) : file.toks[l] > 0 => \E k \in 1 .. Len(out) : On(out[k], l)
Whole(out, twins) == Ordered(out, twins) /\ NoBlank(out) /\ Covers(out)

\* Cutting up each piece of a whole leaves a whole.
LEMMA SplitsWhole ==
    ASSUME file.toks \in Seq(Nat), NEW within, NEW twins, within => twins,
           NEW us, Ordered(us, within), Covers(us),
           NEW seqs, DOMAIN seqs = DOMAIN us,
           \A i \in 1 .. Len(us) : Splits(seqs[i], us[i], within, twins),
           seqs = [i \in DOMAIN us |-> seqs[i]]
    PROVE  /\ Whole(FlattenSeq(seqs), twins)
           /\ \A y : y \in ToSet(FlattenSeq(seqs)) => \E i \in 1 .. Len(us) : y \in ToSet(seqs[i])
<1>1. PICK N \in Nat : N = Len(us) /\ us \in Seq(Part) /\ DOMAIN us = 1 .. N
  BY DEF Ordered
<1>2. seqs \in Seq(Seq(Part)) /\ Len(seqs) = N
  <2>1. \A i \in 1 .. N : seqs[i] \in Seq(Part)
    BY <1>1 DEF Splits, Ordered
  <2>2. seqs \in [1 .. N -> Seq(Part)]
    BY <1>1, <2>1
  <2> QED BY <2>2
<1>3. \A i \in 1 .. N : us[i].first \in Nat /\ us[i].last \in Nat
  <2>1. \A i \in 1 .. N : us[i] \in Part
    BY <1>1
  <2> QED BY <2>1, PartParts
<1>4. \A i \in 1 .. N : Ordered(seqs[i], twins) /\ Lies(seqs[i], us[i], within)
  BY <1>1 DEF Splits
<1>5. \A i, j \in 1 .. N : i < j => Before(us[i], us[j]) \/ (within /\ Twin(us[i], us[j]))
  BY <1>1 DEF Ordered
<1>6. PICK out : out = FlattenSeq(seqs)
  OBVIOUS
<1>7. /\ Ordered(out, twins)
      /\ \A y : y \in ToSet(out) <=> \E i \in 1 .. N : y \in ToSet(seqs[i])
  BY <1>2, <1>3, <1>4, <1>5, <1>6, FlattenOrdered
<1>8. out \in Seq(Part)
  BY <1>7 DEF Ordered
<1>9. ASSUME NEW k \in 1 .. Len(out) PROVE out[k].tokens > 0
  <2>1. out[k] \in ToSet(out)
    BY <1>8, Members
  <2>2. PICK i \in 1 .. N : out[k] \in ToSet(seqs[i])
    BY <1>7, <2>1
  <2>3. PICK x : x = seqs[i] /\ x \in Seq(Part) /\ NoBlank(x)
    BY <1>1, <1>2, <2>2 DEF Splits
  <2>4. PICK y : y = out[k] /\ y \in ToSet(x)
    BY <2>2, <2>3
  <2>5. PICK h \in 1 .. Len(x) : y = x[h]
    <3>1. x \in Seq(Part)
      BY <2>3
    <3>2. y \in ToSet(x) <=> \E h \in 1 .. Len(x) : y = x[h]
      BY ONLY <3>1, Members
    <3> QED BY <2>4, <3>2
  <2> QED BY <2>3, <2>4, <2>5 DEF NoBlank
<1>10. ASSUME NEW l \in 1 .. Len(file.toks), file.toks[l] > 0 PROVE \E k \in 1 .. Len(out) : On(out[k], l)
  <2>1. PICK i \in 1 .. N : On(us[i], l)
    BY <1>1, <1>10 DEF Covers
  <2>2. PICK x : x = seqs[i] /\ x \in Seq(Part) /\ Splits(x, us[i], within, twins)
    BY <1>1, <1>2, <2>1
  <2>3. PICK h \in 1 .. Len(x) : On(x[h], l)
    <3>1. PICK v : v = us[i]
      OBVIOUS
    <3>2. l \in Nat /\ On(v, l) /\ file.toks[l] > 0 /\ Splits(x, v, within, twins)
      BY <1>10, <2>1, <2>2, <3>1
    <3> QED BY ONLY <3>2 DEF Splits
  <2>4. x[h] \in ToSet(out)
    <3>1. x[h] \in ToSet(x)
      BY ONLY <2>2, h \in 1 .. Len(x), Members
    <3> QED BY <1>7, <2>2, <3>1
  <2>5. PICK k \in 1 .. Len(out) : x[h] = out[k]
    BY ONLY <1>8, <2>4, Members
  <2> QED BY <2>3, <2>5
<1> QED BY <1>1, <1>6, <1>7, <1>9, <1>10 DEF Whole, NoBlank, Covers

\* Merging and dropping blank edges of units that tile the file.
LEMMA TilesSegments ==
    ASSUME file.toks \in Seq(Nat), NEW units, Tiles(units), NEW merged, merged = Merge(units)
    PROVE  Whole(FlattenSeq([i \in DOMAIN merged |-> Trim(merged[i])]), FALSE)
<1>1. /\ Ordered(merged, FALSE) /\ Keeps(merged, units)
  <2>1. Ordered(units, FALSE)
    BY DEF Tiles
  <2>2. merged = Glue(units, Limit + 1, Limit)
    BY DEF Merge
  <2> QED BY <2>1, <2>2, GlueIs
<1>2. Covers(merged)
  <2>1. \A l \in 1 .. Len(file.toks) : l \in Nat /\ \E k \in 1 .. Len(units) : On(units[k], l)
    BY DEF Tiles
  <2> QED BY <1>1, <2>1 DEF Keeps, Covers
<1>3. PICK seqs : seqs = [i \in DOMAIN merged |-> Trim(merged[i])]
  OBVIOUS
<1>4. merged \in Seq(Part) /\ DOMAIN merged = 1 .. Len(merged)
  BY <1>1 DEF Ordered
<1>5. DOMAIN seqs = DOMAIN merged /\ seqs = [i \in DOMAIN merged |-> seqs[i]]
  BY <1>3
<1>6. ASSUME NEW i \in 1 .. Len(merged) PROVE Splits(seqs[i], merged[i], FALSE, FALSE)
  <2>1. PICK u \in Part : u = merged[i]
    BY <1>4
  <2>2. Splits(Trim(u), u, FALSE, FALSE)
    BY PartParts, TrimIs
  <2> QED BY <1>3, <1>4, <2>1, <2>2
<1>7. Whole(FlattenSeq(seqs), FALSE)
  BY <1>1, <1>2, <1>5, <1>6, SplitsWhole
<1> QED BY <1>3, <1>7

\* The segments of code whose units are in order.
LEMMA CodeWhole ==
    ASSUME file.toks \in Seq(Nat), Ordered(Units, FALSE), Units # <<>>
    PROVE  Whole(CodeSegments, FALSE)
<1>1. PICK units : units = Contiguous(Units) /\ Tiles(units)
  BY ContiguousTiles
<1>2. PICK merged : merged = Merge(units)
  OBVIOUS
<1>3. Whole(FlattenSeq([i \in DOMAIN merged |-> Trim(merged[i])]), FALSE)
  BY <1>1, <1>2, TilesSegments
<1> QED BY <1>1, <1>2, <1>3 DEF CodeSegments

\* Pieces of a line each.
Single(out) == \A k \in 1 .. Len(out) : out[k].first = out[k].last

\* The segments of anything else: a line each.
LEMMA LinesWhole ==
    ASSUME file.toks \in Seq(Nat), file.kind # "code"
    PROVE  Whole(Segments, FALSE) /\ Single(Segments)
<1>1. PICK N \in Nat : N = Len(file.toks) /\ DOMAIN file.toks = 1 .. N
  OBVIOUS
<1>2. PICK us : us = [l \in 1 .. N |-> [first |-> l, last |-> l, tokens |-> 0]]
  OBVIOUS
<1>3. us \in Seq(Part) /\ Len(us) = N /\ DOMAIN us = 1 .. N /\ \A l \in 1 .. N : us[l].first = l /\ us[l].last = l
  <2>1. us \in [1 .. N -> Part]
    BY <1>1, <1>2 DEF Part
  <2>2. \A l \in 1 .. N : us[l].first = l /\ us[l].last = l
    BY <1>2
  <2>3. us \in Seq(Part) /\ Len(us) = N
    BY <2>1
  <2> QED BY <1>2, <2>2, <2>3
<1>4. Ordered(us, FALSE)
  <2>1. \A i, j \in 1 .. N : i < j => Before(us[i], us[j])
    BY <1>3 DEF Before
  <2>2. \A i \in 1 .. N : us[i].first <= us[i].last
    BY <1>3
  <2> QED BY <1>3, <2>1, <2>2 DEF Ordered
<1>5. Covers(us)
  BY <1>1, <1>3 DEF Covers, On
<1>6. PICK seqs : seqs = [l \in 1 .. N |-> Trim([first |-> l, last |-> l])]
  OBVIOUS
<1>7. DOMAIN seqs = DOMAIN us /\ seqs = [i \in DOMAIN us |-> seqs[i]]
  BY <1>3, <1>6
<1>8. ASSUME NEW i \in 1 .. N PROVE Splits(seqs[i], us[i], FALSE, FALSE)
  <2>1. PICK u : u = [first |-> i, last |-> i]
    OBVIOUS
  <2>2. i \in Nat /\ 1 <= i /\ i <= Len(file.toks) /\ u.first = i /\ u.last = i
    BY <1>1, <2>1
  <2>3. Splits(Trim(u), u, FALSE, FALSE)
    BY <2>2, TrimIs
  <2>4. seqs[i] = Trim(u)
    BY <1>6, <2>1
  <2>5. Splits(Trim(u), us[i], FALSE, FALSE)
    BY <1>3, <2>2, <2>3 DEF Splits, Lies, On
  <2> QED BY <2>4, <2>5
<1>9. PICK out : out = FlattenSeq(seqs) /\ out = Segments
  BY <1>1, <1>6 DEF Segments, Lines
<1>10. /\ Whole(out, FALSE)
       /\ \A y : y \in ToSet(out) => \E i \in 1 .. N : y \in ToSet(seqs[i])
  <2>1. \A i \in 1 .. Len(us) : Splits(seqs[i], us[i], FALSE, FALSE)
    BY <1>3, <1>8
  <2>2. /\ Whole(FlattenSeq(seqs), FALSE)
        /\ \A y : y \in ToSet(FlattenSeq(seqs)) => \E i \in 1 .. Len(us) : y \in ToSet(seqs[i])
    BY <1>4, <1>5, <1>7, <2>1, SplitsWhole
  <2> QED BY <1>3, <1>9, <2>2
<1>11. ASSUME NEW k \in 1 .. Len(out) PROVE out[k].first = out[k].last
  <2>1. out \in Seq(Part) /\ out[k].first <= out[k].last
    BY <1>10 DEF Whole, Ordered
  <2>2. PICK i \in 1 .. N : out[k] \in ToSet(seqs[i])
    BY <1>10, <2>1, Members
  <2>3. PICK x : x = seqs[i] /\ x \in Seq(Part) /\ Lies(x, us[i], FALSE)
    BY <1>8 DEF Splits, Ordered
  <2>4. PICK h \in 1 .. Len(x) : out[k] = x[h]
    BY <2>2, <2>3, Members
  <2>5. i <= x[h].first /\ x[h].last <= i
    BY <1>3, <2>3 DEF Lies
  <2>6. out[k] \in Part
    BY <2>1
  <2>7. out[k].first \in Nat /\ out[k].last \in Nat
    BY <2>6, PartParts
  <2> QED BY <2>1, <2>4, <2>5, <2>7
<1> QED BY <1>9, <1>10, <1>11 DEF Single

-----------------------------------------------------------------------------
(* Chunking: windows.                                                       *)

LEMMA Products ==
    ASSUME NEW s \in Nat, NEW i \in Nat, NEW n \in Nat, i <= n
    PROVE  i * s <= n * s /\ i * s \in Nat
<1>1. PICK d \in Nat : n = i + d
  <2>1. n - i \in Nat /\ n = i + (n - i)
    OBVIOUS
  <2> QED BY <2>1
<1>2. n * s = i * s + d * s
  BY <1>1
<1>3. d * s \in Nat /\ i * s \in Nat
  OBVIOUS
<1> QED BY <1>2, <1>3

LEMMA DivIs ==
    ASSUME NEW s \in Nat \ {0}, NEW a \in Nat
    PROVE  a \div s \in Nat /\ (a \div s) * s <= a /\ a < (a \div s) * s + s
<1>1. PICK d : d = a \div s
  OBVIOUS
<1>2. d \in Int /\ d * s <= a /\ a < d * s + s
  BY <1>1, Z3
<1>3. d \in Nat
  BY <1>2
<1> QED BY <1>1, <1>2, <1>3

\* The tokens of a window.
Window(t, i) == IF i * Size <= t THEN Size ELSE t - (i - 1) * Size

LEMMA WindowIs ==
    ASSUME NEW t \in Nat, t > 0, NEW n, n = (t + Size - 1) \div Size
    PROVE  n \in Nat /\ 1 <= n /\ \A i \in 1 .. n : Window(t, i) \in Nat /\ Window(t, i) > 0 /\ Window(t, i) <= Size
<1>1. PICK s \in Nat \ {0} : s = Size
  BY ChunkingAssumption
<1>2. n \in Nat /\ n * s <= t + s - 1 /\ t + s - 1 < n * s + s
  <2>1. t + s - 1 \in Nat
    BY <1>1
  <2> QED BY <1>1, <2>1, DivIs
<1>3. 1 <= n
  <2>1. CASE n = 0
    <3>1. 0 * s = 0
      OBVIOUS
    <3> QED BY <1>2, <2>1, <3>1
  <2> QED BY <1>2, <2>1
<1>4. ASSUME NEW i \in 1 .. n PROVE Window(t, i) \in Nat /\ Window(t, i) > 0 /\ Window(t, i) <= s
  <2>1. PICK j \in Nat : j = i - 1 /\ i = j + 1 /\ i \in Nat /\ i <= n
    BY <1>2
  <2>2. PICK a \in Nat, b \in Nat : a = i * s /\ b = j * s /\ a = b + s /\ a <= n * s
    <3>1. i * s \in Nat /\ i * s <= n * s /\ j * s \in Nat
      BY <1>2, <2>1, Products
    <3>2. i * s = j * s + s
      BY <2>1
    <3> QED BY <3>1, <3>2
  <2>3. n * s \in Nat
    BY <1>2
  <2>4. b < t
    BY <1>2, <2>2, <2>3
  <2>5. Window(t, i) = IF a <= t THEN s ELSE t - b
    BY <1>1, <2>1, <2>2 DEF Window
  <2> QED BY <2>2, <2>4, <2>5
<1> QED BY <1>1, <1>2, <1>3, <1>4

\* A piece that is not blank.
HasText(u) == u \in Part /\ u.first <= u.last /\ u.tokens > 0

\* A text splits into copies of its range.
LEMMA CopiesSplit ==
    ASSUME file.toks \in Seq(Nat), NEW u, HasText(u), NEW seq, seq \in Seq(Part), Len(seq) >= 1, NoBlank(seq),
           \A k \in 1 .. Len(seq) : Twin(seq[k], u)
    PROVE  /\ Splits(seq, u, TRUE, TRUE)
           /\ file.kind # "code" /\ u.first = u.last => Splits(seq, u, FALSE, FALSE)
           /\ Len(seq) = 1 => Splits(seq, u, TRUE, FALSE)
<1>1. PICK n \in Nat : n = Len(seq) /\ 1 \in 1 .. n
  OBVIOUS
<1>2. u.first \in Nat /\ u.last \in Nat /\ u.first <= u.last
  BY PartParts DEF HasText
<1>3. \A k \in 1 .. n : u.first = seq[k].first /\ seq[k].last = u.last
  BY <1>1 DEF Twin
<1>4. \A k \in 1 .. n : u.first <= seq[k].first /\ seq[k].last <= u.last /\ seq[k].first <= seq[k].last
  <2>1. \A a \in Nat : a <= a
    OBVIOUS
  <2> QED BY <1>2, <1>3, <2>1
<1>5. Lies(seq, u, TRUE) /\ Lies(seq, u, FALSE)
  BY <1>1, <1>4 DEF Lies
<1>6. \A l \in Nat : On(u, l) /\ file.toks[l] > 0 => \E k \in 1 .. Len(seq) : On(seq[k], l)
  BY <1>1, <1>3 DEF On
<1>7. Ordered(seq, TRUE)
  BY <1>1, <1>3, <1>4 DEF Ordered, Twin
<1>8. ASSUME file.kind # "code" /\ u.first = u.last PROVE Ordered(seq, FALSE)
  <2>1. \A i, j \in 1 .. n : Before(seq[i], seq[j])
    BY <1>3, <1>8 DEF Before
  <2> QED BY <1>1, <1>4, <2>1 DEF Ordered
<1>9. ASSUME n = 1 PROVE Ordered(seq, FALSE)
  <2>1. \A i, j \in 1 .. n : ~(i < j)
    BY <1>9
  <2> QED BY <1>1, <1>4, <2>1 DEF Ordered
<1> QED BY <1>1, <1>5, <1>6, <1>7, <1>8, <1>9 DEF Splits

LEMMA WholeSplits ==
    ASSUME file.toks \in Seq(Nat), NEW u, HasText(u)
    PROVE  Splits(<<u>>, u, TRUE, FALSE)
<1>1. PICK seq : seq = <<u>> /\ seq \in Seq(Part) /\ Len(seq) = 1 /\ seq[1] = u
  <2>1. <<u>> \in Seq(Part) /\ Len(<<u>>) = 1 /\ <<u>>[1] = u
    BY DEF HasText
  <2> QED BY <2>1
<1>2. \A k \in 1 .. Len(seq) : k = 1
  BY <1>1
<1>3. NoBlank(seq) /\ \A k \in 1 .. Len(seq) : Twin(seq[k], u)
  BY <1>1, <1>2 DEF HasText, NoBlank, Twin
<1>4. Len(seq) >= 1
  BY <1>1
<1>5. Splits(seq, u, TRUE, FALSE)
  BY <1>1, <1>3, <1>4, CopiesSplit
<1> QED BY <1>1, <1>5

\* The windows of a text: copies of its range, of at most Size tokens.
LEMMA WindowsSplit ==
    ASSUME file.toks \in Seq(Nat), NEW u, HasText(u)
    PROVE  /\ Splits(Windows(u), u, TRUE, TRUE)
           /\ file.kind # "code" /\ u.first = u.last => Splits(Windows(u), u, FALSE, FALSE)
           /\ \A y \in ToSet(Windows(u)) : y.tokens \in Nat /\ y.tokens <= Size
<1>1. PICK a \in Nat \ {0}, b \in 0 .. Len(file.toks), t \in Nat : u = [first |-> a, last |-> b, tokens |-> t] /\ t > 0
  BY DEF HasText, Part
<1>2. PICK n : n = (t + Size - 1) \div Size
  OBVIOUS
<1>3. n \in Nat /\ 1 <= n /\ \A i \in 1 .. n : Window(t, i) \in Nat /\ Window(t, i) > 0 /\ Window(t, i) <= Size
  BY <1>1, <1>2, WindowIs
<1>4. PICK seq : seq = Windows(u) /\ seq = [i \in 1 .. n |-> [first |-> a, last |-> b, tokens |-> Window(t, i)]]
  BY <1>1, <1>2 DEF Windows, Window
<1>5. seq \in Seq(Part) /\ Len(seq) = n
  <2>1. \A i \in 1 .. n : [first |-> a, last |-> b, tokens |-> Window(t, i)] \in Part
    BY <1>3 DEF Part
  <2>2. seq \in [1 .. n -> Part]
    BY <1>4, <2>1
  <2> QED BY <1>3, <2>2
<1>6. \A i \in 1 .. n : seq[i].first = a /\ seq[i].last = b /\ seq[i].tokens = Window(t, i)
  BY <1>4
<1>7. NoBlank(seq) /\ \A k \in 1 .. Len(seq) : Twin(seq[k], u)
  BY <1>1, <1>3, <1>5, <1>6 DEF NoBlank, Twin
<1>8. \A y \in ToSet(seq) : y.tokens \in Nat /\ y.tokens <= Size
  <2>1. ASSUME NEW y \in ToSet(seq) PROVE y.tokens \in Nat /\ y.tokens <= Size
    <3>1. PICK k \in 1 .. Len(seq) : y = seq[k]
      BY <1>5, <2>1, Members
    <3> QED BY <1>3, <1>5, <1>6, <3>1
  <2> QED BY <2>1
<1>9. Len(seq) >= 1
  BY <1>3, <1>5
<1> QED BY <1>4, <1>5, <1>7, <1>8, <1>9, CopiesSplit

LEMMA SplitsWeaker ==
    ASSUME NEW seq, NEW u, NEW within, NEW twins, Splits(seq, u, within, twins)
    PROVE  Splits(seq, u, FALSE, TRUE)
<1>1. Lies(seq, u, FALSE)
  BY DEF Splits, Lies
<1>2. Ordered(seq, TRUE)
  BY DEF Splits, Ordered
<1> QED BY <1>1, <1>2 DEF Splits

-----------------------------------------------------------------------------
(* Chunking: lines packed.                                                  *)

\* The lines of u before `start` are packed in out.
Packed(out, u, start) ==
    /\ Ordered(out, FALSE) /\ NoBlank(out)
    /\ \A k \in 1 .. Len(out) : u.first <= out[k].first /\ out[k].last < start
    /\ \A l \in Nat : u.first <= l /\ l < start /\ file.toks[l] > 0 => \E k \in 1 .. Len(out) : On(out[k], l)

LEMMA PieceIs ==
    ASSUME file.toks \in Seq(Nat), NEW a \in Nat, 1 <= a, NEW b \in Nat, b <= Len(file.toks)
    PROVE  /\ PieceOf(a, b) \in Seq(Part)
           /\ \/ PieceOf(a, b) = <<>> /\ ~(Tok(a, b) > 0)
              \/ \E p \in Part : PieceOf(a, b) = <<p>> /\ p.first = a /\ p.last = b /\ p.tokens > 0
<1>1. Tok(a, b) \in Nat
  BY TokIs
<1>2. PICK p \in Part : p = Unit(a, b) /\ p.first = a /\ p.last = b /\ p.tokens = Tok(a, b)
  BY UnitIs
<1>3. <<p>> \in Seq(Part) /\ <<>> \in Seq(Part)
  OBVIOUS
<1>4. CASE Tok(a, b) > 0
  <2>1. PieceOf(a, b) = <<p>>
    BY <1>2, <1>4 DEF PieceOf
  <2> QED BY <1>2, <1>3, <1>4, <2>1
<1>5. CASE ~(Tok(a, b) > 0)
  BY <1>3, <1>5 DEF PieceOf
<1> QED BY <1>4, <1>5

LEMMA PackPiece ==
    ASSUME file.toks \in Seq(Nat), NEW u, HasText(u), NEW a \in Nat, NEW b \in Nat, u.first <= a, a <= b, b <= u.last,
           NEW out, Packed(out, u, a), NEW new, new = out \o PieceOf(a, b)
    PROVE  Packed(new, u, b + 1)
<1>1. PICK n \in Nat : n = Len(out) /\ out \in Seq(Part)
  BY DEF Packed, Ordered
<1>2. u.first \in Nat /\ 1 <= u.first /\ u.last \in Nat /\ u.last <= Len(file.toks)
  BY PartParts DEF HasText
<1>3. 1 <= a /\ b <= Len(file.toks) /\ a < b + 1
  <2>1. Len(file.toks) \in Nat
    OBVIOUS
  <2> QED BY <1>2, <2>1
<1>4. \A k \in 1 .. n : out[k].last \in Nat /\ out[k].last < a /\ out[k].last < b + 1 /\ u.first <= out[k].first
  <2>1. ASSUME NEW k \in 1 .. n PROVE out[k].last \in Nat /\ out[k].last < a /\ u.first <= out[k].first
    <3>1. out[k] \in Part
      BY <1>1
    <3> QED BY <1>1, <3>1, PartParts DEF Packed
  <2> QED BY <1>3, <2>1
<1>5. ASSUME NEW l \in a .. b, file.toks[l] > 0 PROVE Tok(a, b) > 0
  BY <1>3, <1>5, TokIs
<1>6. \/ PieceOf(a, b) = <<>> /\ ~(Tok(a, b) > 0)
      \/ \E p \in Part : PieceOf(a, b) = <<p>> /\ p.first = a /\ p.last = b /\ p.tokens > 0
  BY <1>3, PieceIs
<1>7. CASE PieceOf(a, b) = <<>> /\ ~(Tok(a, b) > 0)
  <2>1. new = out
    BY <1>1, <1>7
  <2>2. ASSUME NEW l \in Nat, u.first <= l, l < b + 1, file.toks[l] > 0 PROVE \E k \in 1 .. n : On(out[k], l)
    <3>1. ~(l \in a .. b)
      BY <1>5, <1>7, <2>2
    <3>2. l < a
      BY <2>2, <3>1
    <3> QED BY <1>1, <2>2, <3>2 DEF Packed
  <2> QED BY <1>1, <1>4, <2>1, <2>2 DEF Packed
<1>8. CASE \E p \in Part : PieceOf(a, b) = <<p>> /\ p.first = a /\ p.last = b /\ p.tokens > 0
  <2>1. PICK p \in Part : PieceOf(a, b) = <<p>> /\ p.first = a /\ p.last = b /\ p.tokens > 0
    BY <1>8
  <2>2. new = Append(out, p)
    BY <1>1, <2>1
  <2>3. out # <<>> => Before(out[Len(out)], p)
    <3>1. out # <<>> => n \in 1 .. n
      BY <1>1
    <3> QED BY <1>1, <1>4, <2>1, <3>1 DEF Before
  <2>4. Ordered(new, FALSE)
    <3>1. Ordered(out, FALSE) /\ p.first <= p.last
      BY <2>1 DEF Packed
    <3>2. file.toks \in Seq(Nat)
      OBVIOUS
    <3>3. Ordered(Append(out, p), FALSE)
      BY ONLY <2>3, <3>1, <3>2, p \in Part, OrderedAppend
    <3> QED BY ONLY <2>2, <3>3
  <2>5. /\ new # <<>> /\ new[Len(new)] = p /\ Keeps(new, out)
        /\ \A k \in 1 .. Len(new) : new[k] = p \/ (k \in 1 .. Len(out) /\ new[k] = out[k])
    <3>1. out \in Seq(Part) /\ p \in Part
      BY <1>1, <2>1
    <3> QED BY ONLY <2>2, <3>1, AppendKeeps
  <2>6. Len(new) \in 1 .. Len(new)
    BY <2>4, <2>5 DEF Ordered
  <2>7. \A k \in 1 .. Len(new) : u.first <= new[k].first /\ new[k].last < b + 1 /\ new[k].tokens > 0
    <3>1. u.first <= p.first /\ p.last < b + 1
      BY <2>1
    <3>2. \A k \in 1 .. n : out[k].tokens > 0
      BY <1>1 DEF Packed, NoBlank
    <3> QED BY <1>1, <1>4, <2>1, <2>5, <3>1, <3>2
  <2>8. ASSUME NEW l \in Nat, u.first <= l, l < b + 1, file.toks[l] > 0 PROVE \E k \in 1 .. Len(new) : On(new[k], l)
    <3>1. CASE l < a
      <4>1. \E k \in 1 .. Len(out) : On(out[k], l)
        BY <2>8, <3>1 DEF Packed
      <4> QED BY <2>5, <4>1 DEF Keeps
    <3>2. CASE ~(l < a)
      <4>1. a <= l /\ l <= b
        BY <2>8, <3>2
      <4>2. On(p, l)
        BY <2>1, <4>1 DEF On
      <4> QED BY <2>5, <2>6, <4>2
    <3> QED BY <3>1, <3>2
  <2> QED BY <2>4, <2>7, <2>8 DEF Packed, NoBlank
<1> QED BY <1>6, <1>7, <1>8

PackLine(acc, l) ==
    IF acc.tokens + file.toks[l] + 1 > Size /\ l > acc.start
    THEN [out |-> acc.out \o PieceOf(acc.start, l - 1), start |-> l, tokens |-> file.toks[l] + 1]
    ELSE [acc EXCEPT !.tokens = @ + file.toks[l] + 1]
Packing == [out : Seq(Part), start : 1 .. Len(file.toks), tokens : Nat]

LEMMA PackIn ==
    ASSUME file.toks \in Seq(Nat), NEW acc \in Packing, NEW l \in 1 .. Len(file.toks)
    PROVE  PackLine(acc, l) \in Packing
<1>1. PICK N \in Nat : N = Len(file.toks)
  OBVIOUS
<1>2. file.toks[l] \in Nat /\ l \in 1 .. N
  BY <1>1
<1>3. PICK out \in Seq(Part), start \in 1 .. N, tokens \in Nat : acc = [out |-> out, start |-> start, tokens |-> tokens]
  BY <1>1 DEF Packing
<1>4. PieceOf(start, l - 1) \in Seq(Part)
  <2>1. l - 1 \in Nat /\ l - 1 <= Len(file.toks) /\ start \in Nat /\ 1 <= start
    BY <1>1, <1>2
  <2> QED BY <2>1, PieceIs
<1>5. PICK t \in Nat : t = file.toks[l]
  BY <1>2
<1>6. PICK new \in Seq(Part) : new = out \o PieceOf(start, l - 1)
  <2>1. PICK q \in Seq(Part) : q = PieceOf(start, l - 1)
    BY <1>4
  <2>2. out \o q \in Seq(Part)
    OBVIOUS
  <2> QED BY <2>1, <2>2
<1>7. \/ PackLine(acc, l) = [out |-> new, start |-> l, tokens |-> t + 1]
      \/ PackLine(acc, l) = [out |-> out, start |-> start, tokens |-> tokens + t + 1]
  BY <1>3, <1>5, <1>6 DEF PackLine
<1>8. [out |-> new, start |-> l, tokens |-> t + 1] \in Packing
  BY <1>1, <1>2 DEF Packing
<1>9. [out |-> out, start |-> start, tokens |-> tokens + t + 1] \in Packing
  BY <1>1 DEF Packing
<1> QED BY <1>7, <1>8, <1>9

\* The states the packing of a unit goes through, one per line, and what it
\* leaves: code_chunker.py:41-66.
PackRun(u, N, acc) ==
    /\ acc[0] = [out |-> <<>>, start |-> u.first, tokens |-> 0]
    /\ Pack(u) = acc[N].out \o PieceOf(acc[N].start, u.last)
    /\ \A i \in 1 .. N : acc[i] = PackLine(acc[i - 1], u.first + i - 1)

LEMMA PackSteps ==
    ASSUME file.toks \in Seq(Nat), NEW u, HasText(u), NEW N, N = u.last - u.first + 1
    PROVE  \E acc : PackRun(u, N, acc)
<1> DEFINE lines == [i \in 1 .. u.last - u.first + 1 |-> u.first + i - 1]
           D == DOMAIN lines
           Next(y, i) == PackLine(y, lines[i])
           first == [out |-> <<>>, start |-> u.first, tokens |-> 0]
           Law(g) == g = [t \in SUBSET D |-> IF t = {} THEN first ELSE Next(g[t \ {Max(t)}], Max(t))]
           h == CHOOSE g : Law(g)
<1>0. N \in Nat /\ D = 1 .. N /\ (\A i \in 1 .. N : lines[i] = u.first + i - 1 /\ lines[i] \in 1 .. Len(file.toks))
      /\ u.first \in 1 .. Len(file.toks)
  <2>1. PICK m \in Nat, a \in Nat, b \in Nat : m = Len(file.toks) /\ a = u.first /\ b = u.last /\ 1 <= a /\ a <= b /\ b <= m
    <3>1. Len(file.toks) \in Nat
      OBVIOUS
    <3> QED BY <3>1, PartParts DEF HasText
  <2>2. N = b - a + 1 /\ N \in Nat
    BY <2>1
  <2>21. lines = [i \in 1 .. N |-> a + i - 1]
    <3>1. u.last - u.first + 1 = N /\ u.first = a
      BY <2>1, <2>2
    <3> QED BY ONLY <3>1, Zenon
  <2> HIDE DEF lines
  <2>3. \A i \in 1 .. N : a + i - 1 \in 1 .. m
    <3>1. a \in Nat /\ b \in Nat /\ m \in Nat /\ 1 <= a /\ b <= m
      BY <2>1
    <3> QED BY ONLY <2>2, <3>1
  <2>4. DOMAIN lines = 1 .. N /\ \A i \in 1 .. N : lines[i] = a + i - 1
    BY <2>21
  <2> QED BY <2>1, <2>2, <2>3, <2>4
<1> HIDE DEF lines
<1>01. N \in Nat /\ D = 1 .. N
  BY <1>0
<1>1. \A y \in Packing, i \in 1 .. N : Next(y, i) \in Packing
  BY <1>0, PackIn
<1>2. PICK Y : Y = Packing
  OBVIOUS
<1> DEFINE step == [p \in (1 .. N) \X Y |-> Next(p[2], p[1])]
<1> HIDE DEF Next, D
<1>3. step \in [(1 .. N) \X Y -> Y]
  BY <1>1, <1>2
<1>31. first \in Y
  <2>1. <<>> \in Seq(Part)
    OBVIOUS
  <2> QED BY <1>0, <1>2, <2>1 DEF Packing
<1> HIDE DEF first
<1>4. PICK g : Folds(g, Y, first, N, step)
  <2> HIDE DEF step
  <2>1. \E g : Folds(g, Y, first, N, step)
    BY <1>0, <1>3, <1>31, FoldExists
  <2> QED BY <2>1
<1>5. Law(g)
  <2>1. ASSUME NEW t \in SUBSET (1 .. N), t # {}
        PROVE  step[<<Max(t), g[t \ {Max(t)}]>>] = Next(g[t \ {Max(t)}], Max(t))
    <3>1. Max(t) \in 1 .. N
      BY <1>0, <2>1, MaxOf
    <3>2. g[t \ {Max(t)}] \in Y
      BY <1>4 DEF Folds
    <3> QED BY <3>1, <3>2
  <2> HIDE DEF step
  <2> QED BY <1>0, <1>4, <2>1 DEF Folds
<1>6. Law(h)
  <2> HIDE DEF Law
  <2> QED BY <1>5
<1>7. Pack(u) = h[D].out \o PieceOf(h[D].start, u.last)
  BY DEF Pack, PackLine, FoldLeft, MapThenFoldSet, Next, D, lines, first
<1> HIDE DEF h
<1>8. \A t \in SUBSET (1 .. N) : h[t] = IF t = {} THEN first ELSE Next(h[t \ {Max(t)}], Max(t))
  BY <1>0, <1>6
<1>9. h[{}] = first /\ \A i \in 1 .. N : h[1 .. i] = Next(h[1 .. i - 1], i)
  <2>1. {} \in SUBSET (1 .. N)
    OBVIOUS
  <2> QED BY <1>01, <1>8, <2>1, Prefix
<1>10. PICK acc : acc = [i \in 0 .. N |-> h[1 .. i]]
  OBVIOUS
<1>11. acc[0] = first /\ acc[N] = h[D] /\ \A i \in 1 .. N : acc[i] = Next(acc[i - 1], i)
  BY <1>01, <1>9, <1>10, EmptyRange
<1>12. \A i \in 1 .. N : acc[i] = PackLine(acc[i - 1], u.first + i - 1)
  BY <1>0, <1>11 DEF Next
<1>13. Pack(u) = acc[N].out \o PieceOf(acc[N].start, u.last)
  BY <1>7, <1>11
<1>14. acc[0] = [out |-> <<>>, start |-> u.first, tokens |-> 0]
  BY <1>11 DEF first
<1>15. PackRun(u, N, acc)
  BY <1>12, <1>13, <1>14 DEF PackRun
<1> QED BY <1>15

\* Packing splits the unit.
LEMMA PackSplits ==
    ASSUME file.toks \in Seq(Nat), NEW u, HasText(u)
    PROVE  Splits(Pack(u), u, FALSE, FALSE)
<1>1. PICK m \in Nat, a \in Nat, b \in Nat : m = Len(file.toks) /\ a = u.first /\ b = u.last /\ 1 <= a /\ a <= b /\ b <= m
  <2>1. Len(file.toks) \in Nat
    OBVIOUS
  <2> QED BY <2>1, PartParts DEF HasText
<1>2. PICK N \in Nat : N = b - a + 1 /\ N > 0
  <2>1. b - a + 1 \in Nat /\ b - a + 1 > 0
    BY <1>1
  <2> QED BY <2>1
<1>3. PICK acc : /\ acc[0] = [out |-> <<>>, start |-> a, tokens |-> 0]
                 /\ Pack(u) = acc[N].out \o PieceOf(acc[N].start, b)
                 /\ \A i \in 1 .. N : acc[i] = PackLine(acc[i - 1], a + i - 1)
  <2>1. N = u.last - u.first + 1
    BY <1>1, <1>2
  <2>2. PICK acc : PackRun(u, N, acc)
    BY ONLY file.toks \in Seq(Nat), HasText(u), <2>1, PackSteps
  <2>3. /\ acc[0] = [out |-> <<>>, start |-> a, tokens |-> 0]
        /\ Pack(u) = acc[N].out \o PieceOf(acc[N].start, b)
        /\ \A i \in 1 .. N : acc[i] = PackLine(acc[i - 1], a + i - 1)
    BY ONLY <1>1, <2>2 DEF PackRun
  <2> QED BY ONLY <2>3
<1> DEFINE So(n) ==
        /\ acc[n].start \in Nat /\ a <= acc[n].start /\ acc[n].start <= b
        /\ Packed(acc[n].out, u, acc[n].start)
           T == {n \in Nat : n <= N => So(n)}
<1> HIDE DEF So
<1>4. 0 \in T
  <2>1. PICK y : y = acc[0] /\ y.out = <<>> /\ y.start = a
    BY <1>3
  <2>2. \A k \in 1 .. Len(<<>>) : FALSE
    BY EmptyRange
  <2>3. \A l \in Nat : ~(a <= l /\ l < a)
    BY <1>1
  <2>4. Packed(y.out, u, a)
    BY <1>1, <2>1, <2>2, <2>3, EmptyOrdered DEF Packed, NoBlank
  <2>5. a <= a
    BY <1>1
  <2>6. So(0)
    BY <1>1, <2>1, <2>4, <2>5 DEF So
  <2> QED BY <2>6
<1>5. ASSUME NEW n \in Nat, n \in T PROVE n + 1 \in T
  <2>1. SUFFICES ASSUME n + 1 <= N PROVE So(n + 1)
    OBVIOUS
  <2>2. n <= N /\ n + 1 \in 1 .. N /\ (n + 1) - 1 = n /\ n + 1 > 0
    BY <2>1
  <2>3. So(n)
    BY <1>5, <2>2
  <2>4. PICK l \in Nat : l = a + n /\ l <= b /\ a + (n + 1) - 1 = l /\ l < a + (n + 1)
    <3>0. a \in Nat /\ b \in Nat /\ N \in Nat /\ n \in Nat /\ N = b - a + 1
      BY <1>1, <1>2
    <3>1. a + n \in Nat /\ a + n <= b /\ a + (n + 1) - 1 = a + n /\ a + n < a + (n + 1)
      BY ONLY <2>1, <3>0
    <3> QED BY <3>1
  <2>5. PICK y, z : y = acc[n] /\ z = acc[n + 1] /\ z = PackLine(y, l)
    BY <1>3, <2>2, <2>4
  <2>6. PICK s \in Nat : s = y.start /\ a <= s /\ s <= b /\ Packed(y.out, u, s)
    BY <2>3, <2>4, <2>5 DEF So
  <2>7. CASE y.tokens + file.toks[l] + 1 > Size /\ l > s
    <3>1. z = [out |-> y.out \o PieceOf(s, l - 1), start |-> l, tokens |-> file.toks[l] + 1]
      BY <2>5, <2>6, <2>7 DEF PackLine
    <3>2. PICK new : new = y.out \o PieceOf(s, l - 1)
      OBVIOUS
    <3>3. z.out = new /\ z.start = l
      BY <3>1, <3>2
    <3>4. PICK e \in Nat : e = l - 1 /\ e + 1 = l /\ s <= e /\ e <= b
      <4>1. l - 1 \in Nat /\ (l - 1) + 1 = l /\ s <= l - 1 /\ l - 1 <= b
        BY <2>4, <2>6, <2>7
      <4> QED BY <4>1
    <3>5. Packed(new, u, e + 1)
      BY <1>1, <2>6, <3>2, <3>4, PackPiece
    <3>6. a <= l
      BY <1>1, <2>4
    <3> QED BY <2>4, <2>5, <3>3, <3>4, <3>5, <3>6 DEF So
  <2>8. CASE ~(y.tokens + file.toks[l] + 1 > Size /\ l > s)
    <3>1. z = [y EXCEPT !.tokens = @ + file.toks[l] + 1]
      BY <2>5, <2>6, <2>8 DEF PackLine
    <3>2. z.out = y.out /\ z.start = s
      BY <2>6, <3>1
    <3> QED BY <2>5, <2>6, <3>2 DEF So
  <2> QED BY <2>7, <2>8
<1> HIDE DEF T
<1>6. N \in T /\ N <= N
  BY <1>4, <1>5, Induction
<1>7. So(N)
  BY <1>6 DEF T
<1>8. PICK s \in Nat : s = acc[N].start /\ a <= s /\ s <= b /\ Packed(acc[N].out, u, s)
  BY <1>7 DEF So
<1>9. PICK new : new = Pack(u) /\ Packed(new, u, b + 1)
  <2>1. PICK out : out = acc[N].out /\ Packed(out, u, s) /\ Pack(u) = out \o PieceOf(s, b)
    BY <1>3, <1>8
  <2>2. u.first <= s /\ b <= u.last
    BY <1>1, <1>8
  <2>3. PICK new : new = out \o PieceOf(s, b)
    OBVIOUS
  <2>4. Packed(new, u, b + 1)
    BY <1>8, <2>1, <2>2, <2>3, PackPiece
  <2> QED BY <2>1, <2>3, <2>4
<1>10. \A k \in 1 .. Len(new) : u.first <= new[k].first /\ new[k].last <= u.last
  <2>1. ASSUME NEW k \in 1 .. Len(new) PROVE u.first <= new[k].first /\ new[k].last <= u.last
    <3>1. u.first <= new[k].first /\ new[k].last < b + 1
      BY <1>9 DEF Packed
    <3>2. new[k] \in Part
      BY <1>9 DEF Packed, Ordered
    <3> QED BY <1>1, <3>1, <3>2, PartParts
  <2> QED BY <2>1
<1>11. \A l \in Nat : On(u, l) => u.first <= l /\ l < b + 1
  BY <1>1 DEF On
<1> QED BY <1>9, <1>10, <1>11 DEF Packed, Splits, Lies

-----------------------------------------------------------------------------
(* Chunking: segments to chunks.                                            *)

LEMMA TextOf ==
    ASSUME NEW us, NEW twins, Whole(us, twins), NEW i \in 1 .. Len(us)
    PROVE  HasText(us[i])
<1>1. us \in Seq(Part) /\ us[i].first <= us[i].last /\ us[i].tokens > 0
  BY DEF Whole, Ordered, NoBlank
<1> QED BY <1>1 DEF HasText

LEMMA ChunkSplits ==
    ASSUME file.toks \in Seq(Nat), NEW s, NEW u, HasText(u)
    PROVE  Splits(ChunkSegment(s, u), u, FALSE, TRUE)
<1>1. Splits(<<u>>, u, FALSE, TRUE)
  BY WholeSplits, SplitsWeaker
<1>2. Splits(Windows(u), u, FALSE, TRUE)
  BY WindowsSplit, SplitsWeaker
<1>3. Splits(Pack(u), u, FALSE, TRUE)
  BY PackSplits, SplitsWeaker
<1>4. ChunkSegment(s, u) = <<u>> \/ ChunkSegment(s, u) = Windows(u) \/ ChunkSegment(s, u) = Pack(u)
  BY DEF ChunkSegment, ChunkCode, WholeOrSplit
<1> QED BY <1>1, <1>2, <1>3, <1>4

LEMMA MarkdownWhole ==
    ASSUME file.toks \in Seq(Nat), file.kind # "code", NEW segs, Whole(segs, FALSE), Single(segs)
    PROVE  Whole(Markdown(segs), FALSE)
<1>1. PICK N \in Nat : N = Len(segs) /\ segs \in Seq(Part) /\ DOMAIN segs = 1 .. N
  BY DEF Whole, Ordered
<1>2. PICK seqs : seqs = [i \in DOMAIN segs |-> Windows(segs[i])]
  OBVIOUS
<1>3. DOMAIN seqs = DOMAIN segs /\ seqs = [i \in DOMAIN segs |-> seqs[i]]
  BY <1>2
<1>4. ASSUME NEW i \in 1 .. Len(segs) PROVE Splits(seqs[i], segs[i], FALSE, FALSE)
  <2>1. PICK u : u = segs[i] /\ HasText(u) /\ u.first = u.last
    BY TextOf DEF Single
  <2>2. Splits(Windows(u), u, FALSE, FALSE)
    BY <2>1, WindowsSplit
  <2>3. seqs[i] = Windows(u)
    BY <1>1, <1>2, <2>1
  <2> QED BY <2>1, <2>2, <2>3
<1>5. Ordered(segs, FALSE) /\ Covers(segs)
  BY DEF Whole
<1>6. PICK flat : flat = FlattenSeq(seqs) /\ Whole(flat, FALSE)
  BY <1>3, <1>4, <1>5, SplitsWhole
<1>7. PICK out : out = Glue(flat, MinChunk, Size)
  OBVIOUS
<1>8. /\ Ordered(out, FALSE) /\ Keeps(out, flat)
      /\ (\A i \in 1 .. Len(flat) : flat[i].tokens > 0) => \A k \in 1 .. Len(out) : out[k].tokens > 0
  <2>1. Ordered(flat, FALSE)
    BY <1>6 DEF Whole
  <2> QED BY <1>7, <2>1, GlueIs
<1>9. NoBlank(out)
  BY <1>6, <1>8 DEF Whole, NoBlank
<1>10. Covers(out)
  <2>1. Covers(flat)
    BY <1>6 DEF Whole
  <2>2. \A l \in 1 .. Len(file.toks) : l \in Nat
    OBVIOUS
  <2> QED BY <1>8, <2>1, <2>2 DEF Covers, Keeps
<1>11. Markdown(segs) = out
  BY <1>2, <1>6, <1>7 DEF Markdown
<1> QED BY <1>8, <1>9, <1>10, <1>11 DEF Whole

LEMMA WholeWeaker ==
    ASSUME NEW out, Whole(out, FALSE)
    PROVE  Whole(out, TRUE)
BY DEF Whole, Ordered

LEMMA ChunksWhole ==
    ASSUME file.toks \in Seq(Nat), NEW segs, Whole(segs, FALSE), file.kind # "code" => Single(segs)
    PROVE  Whole(ChunkSegments(segs), TRUE)
<1>1. PICK s : s = EffectiveStrategy(file.kind, strategy)
  OBVIOUS
<1>2. s = "markdown" => file.kind # "code"
  BY <1>1 DEF EffectiveStrategy, Default
<1>3. CASE s = "markdown"
  <2>1. ChunkSegments(segs) = Markdown(segs)
    BY <1>1, <1>3 DEF ChunkSegments
  <2>2. Whole(Markdown(segs), FALSE)
    BY <1>2, <1>3, MarkdownWhole
  <2> QED BY <2>1, <2>2, WholeWeaker
<1>4. CASE s # "markdown"
  <2>1. PICK seqs : seqs = [i \in DOMAIN segs |-> ChunkSegment(s, segs[i])]
    OBVIOUS
  <2>2. ChunkSegments(segs) = FlattenSeq(seqs)
    BY <1>1, <1>4, <2>1 DEF ChunkSegments
  <2>3. DOMAIN seqs = DOMAIN segs /\ seqs = [i \in DOMAIN segs |-> seqs[i]]
    BY <2>1
  <2>4. Ordered(segs, FALSE) /\ Covers(segs) /\ DOMAIN segs = 1 .. Len(segs)
    BY DEF Whole, Ordered
  <2>5. ASSUME NEW i \in 1 .. Len(segs) PROVE Splits(seqs[i], segs[i], FALSE, TRUE)
    <3>1. PICK u : u = segs[i] /\ HasText(u)
      BY TextOf
    <3>2. Splits(ChunkSegment(s, u), u, FALSE, TRUE)
      BY <3>1, ChunkSplits
    <3>3. seqs[i] = ChunkSegment(s, u)
      BY <2>1, <2>4, <3>1
    <3> QED BY <3>1, <3>2, <3>3
  <2>6. PICK out : out = FlattenSeq(seqs) /\ Whole(out, TRUE)
    BY <2>3, <2>4, <2>5, SplitsWhole
  <2> QED BY <2>2, <2>6
<1> QED BY <1>3, <1>4

\* Every piece fits the embedding model when there is room for the header.
Fits(out) == Size + Header <= EmbedMax => \A k \in 1 .. Len(out) : out[k].tokens + Header <= EmbedMax

LEMMA FitWhole ==
    ASSUME file.toks \in Seq(Nat), NEW chunks, Whole(chunks, TRUE)
    PROVE  Whole(FitEmbedLimit(chunks), TRUE) /\ Fits(FitEmbedLimit(chunks))
<1>1. PICK seqs : seqs = [i \in DOMAIN chunks |->
          IF chunks[i].tokens + Header <= EmbedMax THEN <<chunks[i]>> ELSE Windows(chunks[i])]
  OBVIOUS
<1>2. DOMAIN seqs = DOMAIN chunks /\ seqs = [i \in DOMAIN chunks |-> seqs[i]]
  BY <1>1
<1>3. Ordered(chunks, TRUE) /\ Covers(chunks) /\ DOMAIN chunks = 1 .. Len(chunks)
  BY DEF Whole, Ordered
<1>4. ASSUME NEW i \in 1 .. Len(chunks)
      PROVE  /\ Splits(seqs[i], chunks[i], TRUE, TRUE)
             /\ Size + Header <= EmbedMax => \A y \in ToSet(seqs[i]) : y.tokens + Header <= EmbedMax
  <2>1. PICK u : u = chunks[i] /\ HasText(u)
    BY TextOf
  <2>2. seqs[i] = IF u.tokens + Header <= EmbedMax THEN <<u>> ELSE Windows(u)
    BY <1>1, <1>3, <2>1
  <2>3. CASE u.tokens + Header <= EmbedMax
    <3>1. seqs[i] = <<u>>
      BY <2>2, <2>3
    <3>2. Splits(<<u>>, u, TRUE, FALSE)
      BY <2>1, WholeSplits
    <3>3. Splits(<<u>>, u, TRUE, TRUE)
      BY <3>2 DEF Splits, Ordered
    <3>4. \A y \in ToSet(<<u>>) : y = u
      BY DEF ToSet
    <3> QED BY <2>1, <2>3, <3>1, <3>3, <3>4
  <2>4. CASE ~(u.tokens + Header <= EmbedMax)
    <3>1. seqs[i] = Windows(u)
      BY <2>2, <2>4
    <3>2. Splits(Windows(u), u, TRUE, TRUE) /\ \A y \in ToSet(Windows(u)) : y.tokens \in Nat /\ y.tokens <= Size
      BY <2>1, WindowsSplit
    <3>3. \A t \in Nat : t <= Size /\ Size + Header <= EmbedMax => t + Header <= EmbedMax
      BY ChunkingAssumption
    <3> QED BY <2>1, <3>1, <3>2, <3>3
  <2> QED BY <2>3, <2>4
<1>5. PICK out : out = FlattenSeq(seqs) /\ out = FitEmbedLimit(chunks)
  BY <1>1 DEF FitEmbedLimit
<1>6. /\ Whole(out, TRUE)
      /\ \A y : y \in ToSet(out) => \E i \in 1 .. Len(chunks) : y \in ToSet(seqs[i])
  <2>1. \A i \in 1 .. Len(chunks) : Splits(seqs[i], chunks[i], TRUE, TRUE)
    BY <1>4
  <2>2. /\ Whole(FlattenSeq(seqs), TRUE)
        /\ \A y : y \in ToSet(FlattenSeq(seqs)) => \E i \in 1 .. Len(chunks) : y \in ToSet(seqs[i])
    BY <1>2, <1>3, <2>1, SplitsWhole
  <2> QED BY <1>5, <2>2
<1>7. ASSUME Size + Header <= EmbedMax, NEW k \in 1 .. Len(out) PROVE out[k].tokens + Header <= EmbedMax
  <2>1. out \in Seq(Part)
    BY <1>6 DEF Whole, Ordered
  <2>2. out[k] \in ToSet(out)
    BY <2>1, Members
  <2>3. PICK i \in 1 .. Len(chunks) : out[k] \in ToSet(seqs[i])
    BY <1>6, <2>2
  <2> QED BY <1>4, <1>7, <2>3
<1> QED BY <1>5, <1>6, <1>7 DEF Fits

-----------------------------------------------------------------------------
(* Chunking: units of code.                                                 *)

Member == [first : Nat, last : Nat, kids : {<<>>}]
Statement == [first : Nat, last : Nat, kids : Seq(Member)]

\* A file of code.
Code ==
    /\ file.kind = "code" /\ file.toks \in Seq(Nat) /\ file.toks # <<>> /\ file.stmts \in Seq(Statement)
    /\ Laid(file.stmts, 1, Len(file.toks), file.lang)
    /\ \A i \in DOMAIN file.stmts :
           Laid(file.stmts[i].kids, file.stmts[i].first + 1, file.stmts[i].last, file.lang)

LEMMA CodeIs == ASSUME file \in Files, file.kind = "code" PROVE Code
BY ChunkingAssumption DEF Code, Statement, Member

\* Of two statements the earlier is before the later.
LEMMA LaidBefore ==
    ASSUME NEW ss, NEW X, ss \in Seq(X), NEW from, NEW to, Laid(ss, from, to, file.lang), Meet(ss) \subseteq SharedLines,
           NEW i \in 1 .. Len(ss), NEW j \in 1 .. Len(ss), i < j
    PROVE  Before(ss[i], ss[j])
<1>1. PICK n \in Nat : n = Len(ss) /\ DOMAIN ss = 1 .. n
  OBVIOUS
<1>2. ss[i].last < ss[j].first \/ ss[i].last = ss[j].first
  BY <1>1 DEF Laid
<1>3. ASSUME ss[i].last = ss[j].first PROVE ss[j].first \in SharedLines
  <2>1. i \in 1 .. j - 1
    BY <1>1
  <2>2. ss[j].first \in Meet(ss)
    BY <1>1, <1>3, <2>1 DEF Meet
  <2> QED BY <2>2
<1> QED BY <1>2, <1>3 DEF Before

\* One unit lies in what it is cut from.
LEMMA OneOrdered ==
    ASSUME file.toks \in Seq(Nat), NEW p \in Part, p.first <= p.last, NEW u, u.first = p.first, p.last = u.last
    PROVE  Ordered(<<p>>, FALSE) /\ Lies(<<p>>, u, FALSE) /\ <<p>> # <<>>
<1>1. PICK seq : seq = <<p>> /\ seq \in Seq(Part) /\ Len(seq) = 1 /\ seq[1] = p
  <2>1. <<p>> \in Seq(Part) /\ Len(<<p>>) = 1 /\ <<p>>[1] = p
    OBVIOUS
  <2> QED BY <2>1
<1>2. \A k \in 1 .. Len(seq) : k = 1
  BY <1>1
<1>3. \A i, j \in 1 .. Len(seq) : ~(i < j)
  BY <1>1
<1>4. u.first <= p.first /\ p.last <= u.last
  BY PartParts
<1>5. Ordered(seq, FALSE)
  BY <1>1, <1>2, <1>3 DEF Ordered
<1>6. Lies(seq, u, FALSE)
  BY <1>1, <1>2, <1>4 DEF Lies
<1>7. seq # <<>>
  BY <1>1
<1> QED BY <1>1, <1>5, <1>6, <1>7

LEMMA PythonOrdered ==
    ASSUME file.toks \in Seq(Nat), NEW s \in Statement, 1 <= s.first, s.first <= s.last, s.last <= Len(file.toks),
           Laid(s.kids, s.first + 1, s.last, file.lang), Meet(s.kids) \subseteq SharedLines
    PROVE  Ordered(PythonUnits(s), FALSE) /\ Lies(PythonUnits(s), s, FALSE) /\ PythonUnits(s) # <<>>
<1>1. PICK a \in Nat, b \in Nat, m \in Nat, kids \in Seq(Member) :
          a = s.first /\ b = s.last /\ m = Len(file.toks) /\ kids = s.kids /\ 1 <= a /\ a <= b /\ b <= m
  <2>1. Len(file.toks) \in Nat
    OBVIOUS
  <2> QED BY <2>1 DEF Statement
<1>2. PICK p \in Part : p = Unit(a, b) /\ p.first = a /\ p.last = b
  BY <1>1, UnitIs
<1>3. PICK n \in Nat : n = Len(kids) /\ DOMAIN kids = 1 .. n
  OBVIOUS
<1>4. CASE kids = <<>> \/ Tok(a, b) <= Limit
  <2>1. PythonUnits(s) = <<p>>
    BY <1>1, <1>2, <1>4 DEF PythonUnits
  <2> QED BY <1>1, <1>2, <2>1, OneOrdered
<1>5. CASE ~(kids = <<>> \/ Tok(a, b) <= Limit)
  <2>1. 1 \in 1 .. n
    BY <1>3, <1>5
  <2>2. \A i \in 1 .. n : /\ kids[i].first \in Nat /\ kids[i].last \in Nat
                          /\ a < kids[i].first /\ kids[i].first <= kids[i].last /\ kids[i].last <= b
    <3>1. ASSUME NEW i \in 1 .. n
          PROVE  /\ kids[i].first \in Nat /\ kids[i].last \in Nat
                 /\ a < kids[i].first /\ kids[i].first <= kids[i].last /\ kids[i].last <= b
      <4>0. kids[i] \in Member
        BY <1>3
      <4>1. kids[i].first \in Nat /\ kids[i].last \in Nat
        BY <4>0 DEF Member
      <4>2. a + 1 <= kids[i].first /\ kids[i].first <= kids[i].last /\ kids[i].last <= b
        BY <1>1, <1>3 DEF Laid
      <4> QED BY <4>1, <4>2
    <3> QED BY <3>1
  <2>3. \A i, j \in 1 .. n : i < j => Before(kids[i], kids[j])
    <3>1. Laid(kids, a + 1, b, file.lang) /\ Meet(kids) \subseteq SharedLines
      BY <1>1
    <3> QED BY <1>3, <3>1, LaidBefore
  <2>4. PICK c \in Nat : c = kids[1].first - 1 /\ a <= c /\ c < kids[1].first /\ c <= b
    <3>1. kids[1].first - 1 \in Nat /\ a <= kids[1].first - 1 /\ kids[1].first - 1 < kids[1].first /\ kids[1].first - 1 <= b
      BY <2>1, <2>2
    <3> QED BY <3>1
  <2>5. PICK h \in Part : h = Unit(a, c) /\ h.first = a /\ h.last = c
    <3>1. c <= Len(file.toks)
      BY <1>1, <2>4
    <3> QED BY <1>1, <3>1, UnitIs
  <2>6. PICK rest : rest = [i \in 1 .. n |-> Unit(kids[i].first, kids[i].last)]
    OBVIOUS
  <2>7. \A i \in 1 .. n : rest[i] \in Part /\ rest[i].first = kids[i].first /\ rest[i].last = kids[i].last
    <3>1. ASSUME NEW i \in 1 .. n PROVE rest[i] \in Part /\ rest[i].first = kids[i].first /\ rest[i].last = kids[i].last
      <4>1. PICK d \in Nat, e \in Nat : d = kids[i].first /\ e = kids[i].last /\ 1 <= d /\ e <= Len(file.toks)
        <5>1. /\ kids[i].first \in Nat /\ kids[i].last \in Nat
              /\ a < kids[i].first /\ kids[i].first <= kids[i].last /\ kids[i].last <= b
          BY <2>2
        <5>2. PICK d \in Nat, e \in Nat : d = kids[i].first /\ e = kids[i].last
          BY <5>1
        <5>3. a < d /\ d <= e /\ e <= b /\ a \in Nat /\ b \in Nat /\ m \in Nat /\ b <= m /\ 1 <= a
          BY <1>1, <5>1, <5>2
        <5>4. 1 <= d /\ e <= m
          BY ONLY <5>2, <5>3
        <5> QED BY <1>1, <5>2, <5>4
      <4>2. rest[i] = Unit(d, e)
        BY <2>6, <4>1
      <4> QED BY <4>1, <4>2, UnitIs
    <3> QED BY <3>1
  <2>8. rest \in Seq(Part) /\ Len(rest) = n
    <3>1. rest \in [1 .. n -> Part]
      BY <2>6, <2>7
    <3> QED BY <3>1
  <2>9. Ordered(rest, FALSE)
    <3>1. \A i, j \in 1 .. n : i < j => Before(rest[i], rest[j])
      BY <2>3, <2>7 DEF Before
    <3>2. \A i \in 1 .. n : rest[i].first <= rest[i].last
      BY <2>2, <2>7
    <3> QED BY <2>8, <3>1, <3>2 DEF Ordered
  <2>10. PICK head : head = <<h>> /\ Ordered(head, FALSE) /\ Len(head) = 1 /\ head[1] = h
    <3>1. Ordered(<<h>>, FALSE)
      BY <2>4, <2>5, OneOrdered
    <3>2. Len(<<h>>) = 1 /\ <<h>>[1] = h
      OBVIOUS
    <3> QED BY <3>1, <3>2
  <2>11. \A j \in 1 .. n : c < kids[j].first
    <3>1. ASSUME NEW j \in 1 .. n, 1 < j PROVE kids[1].first <= kids[j].first
      <4>1. Before(kids[1], kids[j])
        BY <2>1, <2>3, <3>1
      <4>2. kids[1].last <= kids[j].first
        BY <2>1, <2>2, <4>1 DEF Before
      <4> QED BY SMTT(30), <2>1, <2>2, <4>2
    <3>2. \A j \in 1 .. n : j = 1 \/ 1 < j
      OBVIOUS
    <3> QED BY <2>2, <2>4, <3>1, <3>2
  <2>12. \A i \in 1 .. Len(head), j \in 1 .. Len(rest) : Before(head[i], rest[j])
    BY <2>5, <2>7, <2>8, <2>10, <2>11 DEF Before
  <2>13. PICK out : out = head \o rest /\ Ordered(out, FALSE)
    BY <2>9, <2>10, <2>12, OrderedJoin
  <2>14. head \in Seq(Part)
    BY <2>10 DEF Ordered
  <2>15. /\ Len(out) = n + 1 /\ out[1] = h /\ \A k \in 1 .. n : out[k + 1] = rest[k]
    BY <2>8, <2>10, <2>13, <2>14
  <2>16. ASSUME NEW k \in 1 .. Len(out) PROVE a <= out[k].first /\ out[k].last <= b
    <3>1. CASE k = 1
      BY <2>4, <2>5, <2>15, <3>1
    <3>2. CASE k # 1
      <4>1. PICK j \in 1 .. n : k = j + 1
        <5>1. k - 1 \in 1 .. n /\ k = (k - 1) + 1
          BY <2>15, <3>2
        <5> QED BY <5>1
      <4>2. out[k] = rest[j]
        BY <2>15, <4>1
      <4>3. /\ kids[j].first \in Nat /\ kids[j].last \in Nat
            /\ a < kids[j].first /\ kids[j].last <= b
        BY <2>2
      <4>4. rest[j].first = kids[j].first /\ rest[j].last = kids[j].last
        BY <2>7
      <4>5. a <= kids[j].first
        BY ONLY <4>3, a \in Nat
      <4> QED BY ONLY <4>2, <4>3, <4>4, <4>5
    <3> QED BY <3>1, <3>2
  <2>17. Lies(out, s, FALSE)
    BY <1>1, <2>16 DEF Lies
  <2>18. out # <<>>
    BY <2>15
  <2>19. PythonUnits(s) = out
    <3>1. ~(s.kids = <<>> \/ Tok(s.first, s.last) <= Limit) /\ s.kids = kids /\ s.first = a /\ kids[1].first - 1 = c
      BY <1>1, <1>5, <2>4
    <3>2. PythonUnits(s) = <<Unit(a, c)>> \o [i \in DOMAIN kids |-> Unit(kids[i].first, kids[i].last)]
      BY ONLY <3>1 DEF PythonUnits
    <3> QED BY <1>3, <2>5, <2>6, <2>10, <2>13, <3>2
  <2> QED BY <2>13, <2>17, <2>18, <2>19
<1> QED BY <1>4, <1>5

\* Lines at which units begin.
Rising(x, from, to) ==
    /\ x \in Seq(Nat)
    /\ \A i \in 1 .. Len(x) : from <= x[i] /\ x[i] <= to
    /\ \A i, j \in 1 .. Len(x) : i < j => x[i] < x[j]

LEMMA RisingPrefix ==
    ASSUME NEW x, NEW a \in Nat, NEW to \in Nat, a <= to, Rising(x, a + 1, to)
    PROVE  /\ Rising(<<a>> \o x, a, to) /\ Len(<<a>> \o x) = Len(x) + 1 /\ (<<a>> \o x)[1] = a
           /\ \A i \in 1 .. Len(x) : (<<a>> \o x)[i + 1] = x[i]
<1>1. PICK n \in Nat : n = Len(x) /\ x \in Seq(Nat)
  BY DEF Rising
<1>2. PICK y : y = <<a>> \o x
  OBVIOUS
<1>3. y \in Seq(Nat) /\ Len(y) = n + 1 /\ y[1] = a /\ \A i \in 1 .. n : y[i + 1] = x[i]
  <2>1. <<a>> \in Seq(Nat) /\ Len(<<a>>) = 1 /\ <<a>>[1] = a
    OBVIOUS
  <2> QED BY <1>1, <1>2, <2>1
<1>4. \A i \in 1 .. n + 1 : i = 1 \/ (i - 1 \in 1 .. n /\ i = (i - 1) + 1)
  BY <1>1
<1>5. \A i \in 1 .. n : x[i] \in Nat /\ a < x[i] /\ x[i] <= to
  <2>1. ASSUME NEW i \in 1 .. n PROVE x[i] \in Nat /\ a < x[i] /\ x[i] <= to
    <3>1. x[i] \in Nat /\ a + 1 <= x[i] /\ x[i] <= to
      BY <1>1 DEF Rising
    <3> QED BY <3>1
  <2> QED BY <2>1
<1>6. ASSUME NEW i \in 1 .. n + 1 PROVE a <= y[i] /\ y[i] <= to
  <2>1. CASE i = 1
    BY <1>3, <2>1
  <2>2. CASE i # 1
    <3>1. PICK k \in 1 .. n : i = k + 1
      BY <1>4, <2>2
    <3>2. y[i] = x[k]
      BY <1>3, <3>1
    <3> QED BY <1>5, <3>2
  <2> QED BY <2>1, <2>2
<1>7. ASSUME NEW i \in 1 .. n + 1, NEW j \in 1 .. n + 1, i < j PROVE y[i] < y[j]
  <2>1. PICK l \in 1 .. n : j = l + 1
    BY <1>4, <1>7
  <2>2. y[j] = x[l]
    BY <1>3, <2>1
  <2>3. CASE i = 1
    BY <1>3, <1>5, <2>2, <2>3
  <2>4. CASE i # 1
    <3>1. PICK k \in 1 .. n : i = k + 1 /\ k < l
      BY <1>4, <1>7, <2>1, <2>4
    <3>2. y[i] = x[k] /\ x[k] < x[l]
      BY <1>1, <1>3, <3>1 DEF Rising
    <3> QED BY <2>2, <3>2
  <2> QED BY <2>3, <2>4
<1> QED BY <1>1, <1>2, <1>3, <1>6, <1>7 DEF Rising

\* Units that begin at the lines of x and end before the next.
CutAt(out, x, last) ==
    /\ Ordered(out, FALSE) /\ out # <<>> /\ Len(out) = Len(x)
    /\ \A i \in 1 .. Len(x) :
           /\ out[i] \in Part /\ out[i].first = x[i] /\ out[i].last <= last
           /\ out[i].last = IF i = Len(x) THEN last ELSE x[i + 1] - 1

LEMMA CutIs ==
    ASSUME file.toks \in Seq(Nat), NEW from \in Nat, 1 <= from, NEW last \in Nat, last <= Len(file.toks),
           NEW x, x # <<>>, Rising(x, from, last)
    PROVE  CutAt(Cut(x, last), x, last)
<1>1. PICK n \in Nat : n = Len(x) /\ x \in Seq(Nat) /\ DOMAIN x = 1 .. n /\ n # 0
  BY DEF Rising
<1>2. PICK ends : ends = [i \in 1 .. n |-> IF i = n THEN last ELSE x[i + 1] - 1]
  OBVIOUS
<1>3. ASSUME NEW i \in 1 .. n
      PROVE  /\ x[i] \in Nat /\ 1 <= x[i] /\ ends[i] \in Nat /\ x[i] <= ends[i] /\ ends[i] <= last
             /\ ends[i] = IF i = n THEN last ELSE x[i + 1] - 1
  <2>1. x[i] \in Nat /\ from <= x[i] /\ x[i] <= last
    BY <1>1 DEF Rising
  <2>2. ends[i] = IF i = n THEN last ELSE x[i + 1] - 1
    BY <1>2
  <2>3. CASE i = n
    BY <2>1, <2>2, <2>3
  <2>4. CASE i # n
    <3>1. i + 1 \in 1 .. n /\ i < i + 1
      BY <1>1, <2>4
    <3>2. x[i + 1] \in Nat /\ x[i] < x[i + 1] /\ x[i + 1] <= last
      BY SMTT(30), <1>1, <3>1 DEF Rising
    <3>3. ends[i] = x[i + 1] - 1
      BY ONLY <2>2, <2>4
    <3>4. x[i + 1] - 1 \in Nat /\ x[i] <= x[i + 1] - 1 /\ x[i + 1] - 1 <= last /\ 1 <= x[i]
      BY ONLY <2>1, <3>2, last \in Nat, from \in Nat, 1 <= from
    <3> QED BY ONLY <2>1, <2>2, <3>3, <3>4
  <2> QED BY <2>3, <2>4
<1>4. PICK out : out = Cut(x, last) /\ out = [i \in 1 .. n |-> Unit(x[i], ends[i])]
  <2>1. \A i \in 1 .. n : Unit(x[i], IF i = n THEN last ELSE x[i + 1] - 1) = Unit(x[i], ends[i])
    BY <1>3
  <2>2. Cut(x, last) = [i \in 1 .. n |-> Unit(x[i], IF i = n THEN last ELSE x[i + 1] - 1)]
    BY <1>1 DEF Cut
  <2> QED BY <2>1, <2>2
<1>5. ASSUME NEW i \in 1 .. n PROVE out[i] \in Part /\ out[i].first = x[i] /\ out[i].last = ends[i]
  <2>1. PICK a \in Nat, b \in Nat : a = x[i] /\ b = ends[i]
    BY <1>3
  <2>2. PICK m \in Nat : m = Len(file.toks)
    OBVIOUS
  <2>3. 1 <= a /\ b <= m
    BY <1>3, <2>1, <2>2
  <2>4. out[i] = Unit(a, b)
    BY <1>4, <2>1
  <2> QED BY <2>1, <2>2, <2>3, <2>4, UnitIs
<1>6. out \in Seq(Part) /\ Len(out) = n
  <2>1. out \in [1 .. n -> Part]
    BY <1>4, <1>5
  <2> QED BY <2>1
<1>7. ASSUME NEW i \in 1 .. n, NEW j \in 1 .. n, i < j PROVE Before(out[i], out[j])
  <2>1. i + 1 \in 1 .. n /\ i # n /\ (i + 1 = j \/ i + 1 < j)
    BY <1>7
  <2>2. x[i + 1] \in Nat /\ x[i + 1] <= x[j] /\ x[j] \in Nat
    <3>1. x[i + 1] \in Nat /\ x[j] \in Nat
      BY <1>1, <2>1
    <3>2. i + 1 < j => x[i + 1] < x[j]
      BY <1>1, <2>1 DEF Rising
    <3> QED BY <2>1, <3>1, <3>2
  <2>3. ends[i] = x[i + 1] - 1
    BY <1>3, <2>1
  <2>4. ends[i] < x[j]
    BY <2>2, <2>3
  <2> QED BY <1>5, <2>4 DEF Before
<1>8. \A i \in 1 .. n : out[i].first <= out[i].last
  BY <1>3, <1>5
<1>9. Ordered(out, FALSE)
  BY <1>6, <1>7, <1>8 DEF Ordered
<1>10. out # <<>>
  BY <1>1, <1>6
<1>11. \A i \in 1 .. n : /\ out[i] \in Part /\ out[i].first = x[i] /\ out[i].last <= last
                         /\ out[i].last = IF i = n THEN last ELSE x[i + 1] - 1
  BY <1>3, <1>5
<1> QED BY <1>1, <1>4, <1>6, <1>9, <1>10, <1>11 DEF CutAt

\* The members of a statement outside Python rise.
LEMMA KidsRise ==
    ASSUME NEW X, NEW ss \in Seq(X), \A i \in 1 .. Len(ss) : ss[i].first \in Nat /\ ss[i].last \in Nat,
           NEW from \in Nat, NEW to \in Nat, NEW lang, lang # "python", Laid(ss, from, to, lang)
    PROVE  Rising([i \in DOMAIN ss |-> ss[i].first], from, to)
<1>1. PICK n \in Nat : n = Len(ss) /\ DOMAIN ss = 1 .. n
  OBVIOUS
<1>2. PICK x : x = [i \in 1 .. n |-> ss[i].first]
  OBVIOUS
<1>3. x \in Seq(Nat) /\ Len(x) = n /\ \A i \in 1 .. n : x[i] = ss[i].first
  <2>1. x \in [1 .. n -> Nat]
    BY <1>1, <1>2
  <2> QED BY <1>2, <2>1
<1>4. \A i \in 1 .. n : from <= ss[i].first /\ ss[i].first <= ss[i].last /\ ss[i].last <= to
  BY <1>1 DEF Laid
<1>5. \A i \in 1 .. n : from <= x[i] /\ x[i] <= to
  <2>1. ASSUME NEW i \in 1 .. n PROVE from <= x[i] /\ x[i] <= to
    <3>1. x[i] = ss[i].first /\ ss[i].first \in Nat /\ ss[i].last \in Nat
      BY <1>1, <1>3
    <3> QED BY <1>4, <3>1
  <2> QED BY <2>1
<1>6. ASSUME NEW i \in 1 .. n, NEW j \in 1 .. n, i < j PROVE x[i] < x[j]
  <2>1. ss[i].last < ss[j].first
    BY <1>1, <1>6 DEF Laid
  <2>2. ss[i].first \in Nat /\ ss[i].last \in Nat /\ ss[j].first \in Nat
    BY <1>1
  <2>3. ss[i].first <= ss[i].last /\ x[i] = ss[i].first /\ x[j] = ss[j].first
    BY <1>3, <1>4
  <2> QED BY <2>1, <2>2, <2>3
<1> QED BY <1>1, <1>2, <1>3, <1>5, <1>6 DEF Rising

LEMMA JsOrdered ==
    ASSUME file.toks \in Seq(Nat), NEW s \in Statement, NEW u \in Part, u.first <= u.last, u.first = s.first, s.last <= u.last,
           file.lang # "python", Laid(s.kids, s.first + 1, s.last, file.lang)
    PROVE  Ordered(JsUnits(s, u), FALSE) /\ Lies(JsUnits(s, u), u, FALSE) /\ JsUnits(s, u) # <<>>
<1>1. PICK a \in Nat, b \in Nat, m \in Nat, e \in Nat, kids \in Seq(Member) :
          /\ a = s.first /\ b = s.last /\ m = Len(file.toks) /\ kids = s.kids /\ 1 <= a /\ a = u.first
          /\ e = u.last /\ e <= m /\ b <= e /\ a <= e
  <2>1. Len(file.toks) \in Nat /\ s.first \in Nat /\ s.last \in Nat /\ s.kids \in Seq(Member)
    BY DEF Statement
  <2> QED BY <2>1, PartParts
<1>2. CASE kids = <<>> \/ u.tokens <= Limit
  <2>1. JsUnits(s, u) = <<u>>
    BY <1>1, <1>2 DEF JsUnits
  <2> QED BY <2>1, OneOrdered
<1>3. CASE ~(kids = <<>> \/ u.tokens <= Limit)
  <2>1. PICK x : x = [i \in DOMAIN kids |-> kids[i].first]
    OBVIOUS
  <2>2. \A i \in 1 .. Len(kids) : kids[i].first \in Nat /\ kids[i].last \in Nat
    <3>1. \A i \in 1 .. Len(kids) : kids[i] \in Member
      OBVIOUS
    <3> QED BY <3>1 DEF Member
  <2>3. Rising(x, a + 1, b)
    <3>1. Laid(kids, a + 1, b, file.lang) /\ a + 1 \in Nat
      BY <1>1
    <3> QED BY <2>1, <2>2, <3>1, KidsRise
  <2>4. Rising(x, a + 1, e)
    <3>1. \A i \in 1 .. Len(x) : x[i] \in Nat /\ x[i] <= b
      BY <2>3 DEF Rising
    <3>2. \A i \in 1 .. Len(x) : x[i] <= e
      BY SMTT(30), <1>1, <3>1
    <3> QED BY <2>3, <3>2 DEF Rising
  <2>5. PICK y : y = <<a>> \o x /\ Rising(y, a, e) /\ Len(y) = Len(x) + 1
    BY <1>1, <2>4, RisingPrefix
  <2>6. y # <<>>
    <3>1. Len(x) \in Nat /\ y \in Seq(Nat)
      BY <2>3, <2>5 DEF Rising
    <3> QED BY <2>5, <3>1
  <2>7. PICK out : out = Cut(y, e) /\ CutAt(out, y, e)
    BY <1>1, <2>5, <2>6, CutIs
  <2>8. ASSUME NEW k \in 1 .. Len(out) PROVE u.first <= out[k].first /\ out[k].last <= u.last
    <3>1. k \in 1 .. Len(y)
      BY <2>7 DEF CutAt
    <3>2. out[k].first = y[k] /\ out[k].last <= e
      BY <2>7, <3>1 DEF CutAt
    <3>3. a <= y[k]
      BY <2>5, <3>1 DEF Rising
    <3> QED BY <1>1, <3>2, <3>3
  <2>9. JsUnits(s, u) = out
    <3>1. ~(s.kids = <<>> \/ u.tokens <= Limit) /\ s.kids = kids /\ u.first = a /\ u.last = e
      BY <1>1, <1>3
    <3>2. JsUnits(s, u) = Cut(<<a>> \o [i \in DOMAIN kids |-> kids[i].first], e)
      BY ONLY <3>1 DEF JsUnits
    <3> QED BY <2>1, <2>5, <2>7, <3>2
  <2> QED BY <2>7, <2>8, <2>9 DEF CutAt, Lies
<1> QED BY <1>2, <1>3

\* The units that begin at the statements, and the one before them.
Bounds(cut, lead) ==
    /\ Ordered(cut, FALSE) /\ cut # <<>> /\ Len(cut) = lead + Len(file.stmts) /\ lead \in 0 .. 1
    /\ \A i \in 1 .. Len(file.stmts) :
           /\ cut[lead + i] \in Part /\ cut[lead + i].first = file.stmts[i].first
           /\ file.stmts[i].last <= cut[lead + i].last

LEMMA BoundsFrom ==
    ASSUME Code, file.lang # "python", NEW x, x = [i \in DOMAIN file.stmts |-> file.stmts[i].first],
           NEW y, NEW lead \in 0 .. 1, Rising(y, 1, Len(file.toks)), y # <<>>, Len(y) = lead + Len(x),
           \A i \in 1 .. Len(x) : y[lead + i] = x[i], NEW cut, cut = Cut(y, Len(file.toks))
    PROVE  Bounds(cut, lead)
<1>1. PICK N \in Nat, n \in Nat, ss \in Seq(Statement) :
          N = Len(file.toks) /\ n = Len(ss) /\ ss = file.stmts /\ DOMAIN ss = 1 .. n /\ Laid(ss, 1, N, file.lang)
          /\ file.toks \in Seq(Nat)
  BY DEF Code
<1>2. \A i \in 1 .. n : ss[i].first \in Nat /\ ss[i].last \in Nat
  <2>1. \A i \in 1 .. n : ss[i] \in Statement
    BY <1>1
  <2> QED BY <2>1 DEF Statement
<1>3. Len(x) = n /\ \A i \in 1 .. n : x[i] = ss[i].first
  <2>1. x = [i \in 1 .. n |-> ss[i].first]
    BY <1>1
  <2> QED BY <2>1
<1>4. CutAt(cut, y, N)
  <2>1. 1 <= 1 /\ N <= Len(file.toks) /\ 1 \in Nat
    BY <1>1
  <2> QED BY <1>1, <2>1, CutIs
<1>5. PICK m \in Nat : m = Len(y) /\ m = lead + n
  <2>1. lead + n \in Nat
    OBVIOUS
  <2> QED BY <1>3, <2>1
<1>6. ASSUME NEW i \in 1 .. n
      PROVE  /\ cut[lead + i] \in Part /\ cut[lead + i].first = ss[i].first
             /\ ss[i].last <= cut[lead + i].last
  <2>1. PICK k \in 1 .. m : k = lead + i
    <3>1. lead + i \in 1 .. m
      BY <1>5
    <3> QED BY <3>1
  <2>2. /\ cut[k] \in Part /\ cut[k].first = y[k]
        /\ cut[k].last = IF k = m THEN N ELSE y[k + 1] - 1
    BY <1>4, <1>5 DEF CutAt
  <2>3. y[k] = ss[i].first
    BY <1>3, <2>1
  <2>4. ss[i].last <= N
    BY <1>1 DEF Laid
  <2>5. CASE k = m
    BY <2>1, <2>2, <2>3, <2>4, <2>5
  <2>6. CASE k # m
    <3>1. i + 1 \in 1 .. n /\ i < i + 1 /\ k + 1 = lead + (i + 1)
      BY <1>5, <2>1, <2>6
    <3>2. y[k + 1] = ss[i + 1].first
      BY <1>3, <3>1
    <3>3. ss[i].last < ss[i + 1].first
      BY <1>1, <3>1 DEF Laid
    <3>4. ss[i].last <= y[k + 1] - 1
      BY <1>2, <3>1, <3>2, <3>3
    <3> QED BY <2>1, <2>2, <2>3, <2>6, <3>4
  <2> QED BY <2>5, <2>6
<1> QED BY <1>1, <1>4, <1>5, <1>6 DEF Bounds, CutAt

LEMMA BoundsIs ==
    ASSUME Code, file.lang # "python", NEW x, x = [i \in DOMAIN file.stmts |-> file.stmts[i].first],
           NEW cut, cut = FromBoundaries(x), NEW lead, lead = Len(cut) - Len(x)
    PROVE  Bounds(cut, lead)
<1>1. PICK N \in Nat, n \in Nat, ss \in Seq(Statement) :
          N = Len(file.toks) /\ n = Len(ss) /\ ss = file.stmts /\ DOMAIN ss = 1 .. n /\ Laid(ss, 1, N, file.lang)
          /\ file.toks \in Seq(Nat) /\ 1 <= N
  <2>1. Len(file.toks) \in Nat /\ 1 <= Len(file.toks)
    BY DEF Code
  <2> QED BY <2>1 DEF Code
<1>2. Rising(x, 1, N)
  <2>1. \A i \in 1 .. n : ss[i] \in Statement
    BY <1>1
  <2>2. \A i \in 1 .. Len(ss) : ss[i].first \in Nat /\ ss[i].last \in Nat
    BY <1>1, <2>1 DEF Statement
  <2>3. x = [i \in DOMAIN ss |-> ss[i].first] /\ 1 \in Nat /\ N \in Nat /\ Laid(ss, 1, N, file.lang)
    BY <1>1
  <2>4. Rising([i \in DOMAIN ss |-> ss[i].first], 1, N)
    BY <2>2, <2>3, KidsRise
  <2> QED BY <2>3, <2>4
<1>3. x \in Seq(Nat) /\ Len(x) = n
  <2>1. x = [i \in 1 .. n |-> ss[i].first] /\ x \in Seq(Nat)
    BY <1>1, <1>2 DEF Rising
  <2> QED BY <2>1
<1>4. PICK y : cut = Cut(y, N) /\ y = IF x # <<>> /\ x[1] = 1 THEN x ELSE <<1>> \o x
  BY <1>1 DEF FromBoundaries
<1>5. CASE x # <<>> /\ x[1] = 1
  <2>1. y = x
    BY <1>4, <1>5
  <2>2. CutAt(cut, x, N)
    <3>1. 1 <= 1 /\ N <= Len(file.toks) /\ 1 \in Nat
      BY <1>1
    <3>2. CutAt(Cut(x, N), x, N)
      BY <1>1, <1>2, <1>5, <3>1, CutIs
    <3> QED BY <1>4, <2>1, <3>2
  <2>3. lead = 0 /\ lead \in 0 .. 1 /\ Len(x) = lead + Len(x)
    BY <1>3, <2>2 DEF CutAt
  <2>4. \A i \in 1 .. Len(x) : x[lead + i] = x[i]
    <3>0. \A i \in 1 .. n : 0 + i = i
      OBVIOUS
    <3>1. \A i \in 1 .. Len(x) : lead + i = i
      BY ONLY <1>3, <2>3, <3>0
    <3> QED BY <3>1
  <2>5. Rising(x, 1, Len(file.toks)) /\ cut = Cut(x, Len(file.toks))
    BY <1>1, <1>2, <1>4, <2>1
  <2> QED BY SMTT(30), <1>5, <2>3, <2>4, <2>5, BoundsFrom
<1>6. CASE ~(x # <<>> /\ x[1] = 1)
  <2>1. y = <<1>> \o x
    BY <1>4, <1>6
  <2>2. \A i \in 1 .. n : 1 + 1 <= x[i]
    <3>1. ASSUME NEW i \in 1 .. n PROVE 1 + 1 <= x[i]
      <4>1. 1 \in 1 .. n /\ x # <<>> /\ x[1] # 1 /\ (i = 1 \/ 1 < i)
        BY <1>3, <1>6, <3>1
      <4>2. x[1] \in Nat /\ x[i] \in Nat /\ 1 <= x[1]
        <5>1. 1 <= x[1]
          BY <1>2, <1>3, <4>1 DEF Rising
        <5> QED BY <1>3, <4>1, <5>1
      <4>3. 1 < i => x[1] < x[i]
        BY <1>2, <1>3, <4>1 DEF Rising
      <4> QED BY <4>1, <4>2, <4>3
    <3> QED BY <3>1
  <2>3. Rising(x, 1 + 1, N)
    BY <1>2, <1>3, <2>2 DEF Rising
  <2>4. /\ Rising(y, 1, N) /\ Len(y) = Len(x) + 1
        /\ \A i \in 1 .. Len(x) : y[i + 1] = x[i]
    <3>1. 1 \in Nat /\ 1 <= N
      BY <1>1
    <3> QED BY <2>1, <2>3, <3>1, RisingPrefix
  <2>5. y # <<>>
    <3>1. y \in Seq(Nat) /\ Len(y) = n + 1
      BY <1>3, <2>4 DEF Rising
    <3> QED BY <3>1
  <2>6. CutAt(cut, y, N)
    <3>1. 1 <= 1 /\ N <= Len(file.toks) /\ 1 \in Nat
      BY <1>1
    <3>2. CutAt(Cut(y, N), y, N)
      BY <1>1, <2>4, <2>5, <3>1, CutIs
    <3> QED BY <1>4, <3>2
  <2>7. lead = 1 /\ lead \in 0 .. 1 /\ Len(y) = lead + Len(x)
    BY <1>3, <2>4, <2>6 DEF CutAt
  <2>8. \A i \in 1 .. Len(x) : y[lead + i] = x[i]
    <3>1. \A i \in 1 .. Len(x) : lead + i = i + 1
      BY ONLY n \in Nat, <1>3, <2>7
    <3> QED BY <2>4, <3>1
  <2>9. Rising(y, 1, Len(file.toks)) /\ cut = Cut(y, Len(file.toks))
    BY <1>1, <1>4, <2>4
  <2>10. Bounds(Cut(y, Len(file.toks)), lead)
    BY <2>5, <2>7, <2>8, <2>9, BoundsFrom
  <2> QED BY <2>9, <2>10
<1> QED BY <1>5, <1>6

\* Units cut further, one after another.
LEMMA FlattenUnits ==
    ASSUME file.toks \in Seq(Nat), NEW us, NEW seqs, NEW n \in Nat, seqs = [i \in 1 .. n |-> seqs[i]],
           \A i \in 1 .. n : us[i].first \in Nat /\ us[i].last \in Nat,
           \A i, j \in 1 .. n : i < j => Before(us[i], us[j]),
           \A i \in 1 .. n : Ordered(seqs[i], FALSE) /\ Lies(seqs[i], us[i], FALSE) /\ seqs[i] # <<>>,
           NEW out, out = FlattenSeq(seqs)
    PROVE  /\ Ordered(out, FALSE) /\ (n # 0 => out # <<>>)
           /\ \A k \in 1 .. Len(out) : \E i \in 1 .. n : us[i].first <= out[k].first /\ out[k].last <= us[i].last
<1>1. seqs \in Seq(Seq(Part)) /\ Len(seqs) = n
  <2>1. \A i \in 1 .. n : seqs[i] \in Seq(Part)
    BY DEF Ordered
  <2>2. seqs \in [1 .. n -> Seq(Part)]
    BY <2>1
  <2> QED BY <2>2
<1>2. /\ Ordered(out, FALSE)
      /\ \A y : y \in ToSet(out) <=> \E i \in 1 .. n : y \in ToSet(seqs[i])
  BY <1>1, FlattenOrdered
<1>3. out \in Seq(Part)
  BY <1>2 DEF Ordered
<1>4. ASSUME NEW k \in 1 .. Len(out) PROVE \E i \in 1 .. n : us[i].first <= out[k].first /\ out[k].last <= us[i].last
  <2>1. out[k] \in ToSet(out)
    BY <1>3, Members
  <2>2. PICK i \in 1 .. n : out[k] \in ToSet(seqs[i])
    BY <1>2, <2>1
  <2>3. PICK x : x = seqs[i] /\ x \in Seq(Part) /\ Lies(x, us[i], FALSE)
    BY DEF Ordered
  <2>4. PICK h \in 1 .. Len(x) : out[k] = x[h]
    <3>1. x \in Seq(Part) /\ out[k] \in ToSet(x)
      BY <2>2, <2>3
    <3> QED BY ONLY <3>1, Members
  <2> QED BY <2>3, <2>4 DEF Lies
<1>5. ASSUME n # 0 PROVE out # <<>>
  <2>1. 1 \in 1 .. n
    BY <1>5
  <2>2. PICK x : x = seqs[1] /\ x \in Seq(Part) /\ x # <<>>
    BY <2>1 DEF Ordered
  <2>3. x[1] \in ToSet(x)
    <3>1. 1 \in 1 .. Len(x)
      BY <2>2
    <3> QED BY <2>2, <3>1, Members
  <2>4. x[1] \in ToSet(out)
    BY <1>2, <2>1, <2>2, <2>3
  <2>5. PICK k \in 1 .. Len(out) : x[1] = out[k]
    BY ONLY <1>3, <2>4, Members
  <2>6. Len(<<>>) = 0
    OBVIOUS
  <2> QED BY <1>3, <2>5, <2>6
<1> QED BY <1>2, <1>4, <1>5

LEMMA UnitsOrdered ==
    ASSUME Code, file.lang = "python" => file.stmts # <<>>
    PROVE  Ordered(Units, FALSE) /\ Units # <<>>
<1>1. PICK N \in Nat, n \in Nat, ss \in Seq(Statement) :
          N = Len(file.toks) /\ n = Len(ss) /\ ss = file.stmts /\ DOMAIN ss = 1 .. n /\ Laid(ss, 1, N, file.lang)
          /\ file.toks \in Seq(Nat)
  BY DEF Code
<1>2. \A i \in 1 .. n : ss[i] \in Statement /\ ss[i].first \in Nat /\ ss[i].last \in Nat
  <2>1. \A i \in 1 .. n : ss[i] \in Statement
    BY <1>1
  <2> QED BY <2>1 DEF Statement
<1>3. \A i \in 1 .. n : /\ 1 <= ss[i].first /\ ss[i].first <= ss[i].last /\ ss[i].last <= N
                        /\ Laid(ss[i].kids, ss[i].first + 1, ss[i].last, file.lang)
                        /\ Meet(ss[i].kids) \subseteq SharedLines
  <2>1. \A i \in 1 .. n : 1 <= ss[i].first /\ ss[i].first <= ss[i].last /\ ss[i].last <= N
    BY <1>1 DEF Laid
  <2>2. \A i \in 1 .. n : Laid(ss[i].kids, ss[i].first + 1, ss[i].last, file.lang)
    BY <1>1 DEF Code
  <2>3. \A i \in 1 .. n : Meet(ss[i].kids) \subseteq SharedLines
    BY <1>1 DEF SharedLines
  <2> QED BY <2>1, <2>2, <2>3
<1>4. \A i, j \in 1 .. n : i < j => Before(ss[i], ss[j])
  <2>1. Meet(ss) \subseteq SharedLines
    BY <1>1 DEF SharedLines
  <2> QED BY <1>1, <2>1, LaidBefore
<1>5. CASE file.lang = "python"
  <2>1. PICK seqs : seqs = [i \in 1 .. n |-> PythonUnits(ss[i])]
    OBVIOUS
  <2>2. Units = FlattenSeq(seqs)
    BY <1>1, <1>5, <2>1 DEF Units
  <2>3. ASSUME NEW i \in 1 .. n
        PROVE  Ordered(seqs[i], FALSE) /\ Lies(seqs[i], ss[i], FALSE) /\ seqs[i] # <<>>
    <3>1. PICK s \in Statement : s = ss[i]
      BY <1>2
    <3>2. Ordered(PythonUnits(s), FALSE) /\ Lies(PythonUnits(s), s, FALSE) /\ PythonUnits(s) # <<>>
      BY <1>1, <1>3, <3>1, PythonOrdered
    <3>3. seqs[i] = PythonUnits(s)
      BY <2>1, <3>1
    <3> QED BY <3>1, <3>2, <3>3
  <2>4. seqs = [i \in 1 .. n |-> seqs[i]] /\ n # 0
    BY <1>1, <1>5, <2>1
  <2>5. PICK out : out = FlattenSeq(seqs) /\ Ordered(out, FALSE) /\ out # <<>>
    <3>1. \A i \in 1 .. n : ss[i].first \in Nat /\ ss[i].last \in Nat
      BY <1>2
    <3>2. file.toks \in Seq(Nat) /\ n \in Nat
      BY <1>1
    <3>3. PICK out : out = FlattenSeq(seqs)
      OBVIOUS
    <3>4. Ordered(out, FALSE) /\ (n # 0 => out # <<>>)
      BY ONLY <1>4, <2>3, <2>4, <3>1, <3>2, <3>3, FlattenUnits
    <3> QED BY <2>4, <3>3, <3>4
  <2> QED BY <2>2, <2>5
<1>6. CASE file.lang # "python"
  <2>1. PICK x : x = [i \in DOMAIN file.stmts |-> file.stmts[i].first]
    OBVIOUS
  <2>2. PICK cut, lead : cut = FromBoundaries(x) /\ lead = Len(cut) - Len(x) /\ Bounds(cut, lead)
    BY <1>6, <2>1, BoundsIs
  <2>3. Len(x) = n /\ DOMAIN x = 1 .. n
    <3>1. x = [i \in 1 .. n |-> ss[i].first]
      BY <1>1, <2>1
    <3> QED BY <3>1
  <2>4. CASE file.lang # "js"
    <3>1. Units = cut
      BY <1>6, <2>1, <2>2, <2>4 DEF Units
    <3> QED BY <2>2, <3>1 DEF Bounds
  <2>5. CASE file.lang = "js"
    <3>1. PICK seqs : seqs = [i \in 1 .. n |-> JsUnits(ss[i], cut[lead + i])]
      OBVIOUS
    <3>2. PICK out : out = FlattenSeq(seqs)
      OBVIOUS
    <3>3. Units = SubSeq(cut, 1, lead) \o out
      BY <1>1, <1>6, <2>1, <2>2, <2>3, <2>5, <3>1, <3>2 DEF Units
    <3>4. PICK us : us = [i \in 1 .. n |-> cut[lead + i]] /\ \A i \in 1 .. n : us[i] = cut[lead + i]
      <4>1. PICK us : us = [i \in 1 .. n |-> cut[lead + i]]
        OBVIOUS
      <4> QED BY <4>1
    <3>5. ASSUME NEW i \in 1 .. n
          PROVE  /\ us[i] \in Part /\ us[i].first <= us[i].last /\ us[i].first \in Nat /\ us[i].last \in Nat
                 /\ Ordered(seqs[i], FALSE) /\ Lies(seqs[i], us[i], FALSE) /\ seqs[i] # <<>>
      <4>1. PICK s \in Statement : s = ss[i]
        BY <1>2
      <4>2. PICK u \in Part : u = us[i] /\ u.first = s.first /\ s.last <= u.last
        BY <1>1, <2>2, <3>4, <4>1 DEF Bounds
      <4>3. u.first <= u.last /\ u.first \in Nat /\ u.last \in Nat
        <5>1. u.first \in Nat /\ u.last \in Nat
          BY <1>1, PartParts
        <5>2. s.first <= s.last /\ s.first \in Nat /\ s.last \in Nat
          BY <1>2, <1>3, <4>1
        <5> QED BY <4>2, <5>1, <5>2
      <4>4. Laid(s.kids, s.first + 1, s.last, file.lang)
        BY <1>3, <4>1
      <4>5. Ordered(JsUnits(s, u), FALSE) /\ Lies(JsUnits(s, u), u, FALSE) /\ JsUnits(s, u) # <<>>
        BY <1>1, <1>6, <4>2, <4>3, <4>4, JsOrdered
      <4>6. seqs[i] = JsUnits(s, u)
        BY <3>1, <3>4, <4>1, <4>2
      <4> QED BY <4>2, <4>3, <4>5, <4>6
    <3>6. Ordered(cut, FALSE) /\ cut # <<>> /\ Len(cut) = lead + n /\ lead \in 0 .. 1
      BY <1>1, <2>2 DEF Bounds
    <3>7. \A i, j \in 1 .. n : i < j => Before(us[i], us[j])
      <4>1. ASSUME NEW i \in 1 .. n, NEW j \in 1 .. n, i < j PROVE Before(cut[lead + i], cut[lead + j])
        <5>1. lead + i \in 1 .. Len(cut) /\ lead + j \in 1 .. Len(cut) /\ lead + i < lead + j
          BY <3>6, <4>1
        <5> QED BY <3>6, <5>1 DEF Ordered
      <4> QED BY <3>4, <4>1
    <3>8. /\ Ordered(out, FALSE) /\ (n # 0 => out # <<>>)
          /\ \A k \in 1 .. Len(out) : \E i \in 1 .. n : us[i].first <= out[k].first /\ out[k].last <= us[i].last
      <4>1. seqs = [i \in 1 .. n |-> seqs[i]]
        BY <3>1
      <4>2. \A i \in 1 .. n : us[i].first \in Nat /\ us[i].last \in Nat
        BY <3>5
      <4>3. \A i \in 1 .. n : Ordered(seqs[i], FALSE) /\ Lies(seqs[i], us[i], FALSE) /\ seqs[i] # <<>>
        BY <3>5
      <4>4. file.toks \in Seq(Nat) /\ n \in Nat
        BY <1>1
      <4> QED BY ONLY <3>2, <3>7, <4>1, <4>2, <4>3, <4>4, FlattenUnits
    <3>9. out \in Seq(Part) /\ cut \in Seq(Part)
      BY <3>6, <3>8 DEF Ordered
    <3>10. CASE lead = 0
      <4>1. SubSeq(cut, 1, 0) = <<>>
        BY <3>9
      <4>2. Units = out
        BY <3>3, <3>9, <3>10, <4>1
      <4>3. n # 0
        BY <3>6, <3>9, <3>10
      <4> QED BY <3>8, <4>2, <4>3
    <3>11. CASE lead = 1
      <4>1. PICK p \in Part : p = cut[1] /\ p.first <= p.last /\ 1 \in 1 .. Len(cut) /\ p.last \in Nat
        <5>1. 1 \in 1 .. Len(cut)
          BY <3>6, <3>11
        <5>2. cut[1] \in Part /\ cut[1].first <= cut[1].last
          BY <3>6, <5>1 DEF Ordered
        <5> QED BY <1>1, <5>1, <5>2, PartParts
      <4>2. PICK head : head = SubSeq(cut, 1, 1) /\ head \in Seq(Part) /\ Len(head) = 1 /\ head[1] = p
        <5>1. PICK c \in Seq(Part) : c = cut /\ 1 <= Len(c) /\ c[1] = p
          BY <3>9, <4>1
        <5>2. SubSeq(c, 1, 1) \in Seq(Part) /\ Len(SubSeq(c, 1, 1)) = 1 /\ SubSeq(c, 1, 1)[1] = c[1]
          BY ONLY <5>1
        <5> QED BY <5>1, <5>2
      <4>4. Ordered(head, FALSE)
        <5>1. \A i \in 1 .. Len(head) : i = 1
          BY <4>2
        <5>2. \A i, j \in 1 .. Len(head) : ~(i < j)
          BY <4>2
        <5> QED BY <4>1, <4>2, <5>1, <5>2 DEF Ordered
      <4>5. ASSUME NEW k \in 1 .. Len(out) PROVE Before(p, out[k])
        <5>1. PICK i \in 1 .. n : us[i].first <= out[k].first
          BY <3>8
        <5>2. out[k] \in Part /\ 1 + i \in 1 .. Len(cut) /\ 1 < 1 + i
          BY <3>6, <3>9, <3>11
        <5>3. Before(p, us[i])
          BY <3>4, <3>6, <3>11, <4>1, <5>2 DEF Ordered
        <5>4. out[k].first \in Nat /\ us[i].first \in Nat /\ p.last <= p.last
          <6>1. \A q \in Part : q.first \in Nat
            BY <1>1, PartParts
          <6>2. out[k].first \in Nat
            BY <5>2, <6>1
          <6>3. us[i].first \in Nat
            BY <3>5
          <6>4. p.last <= p.last
            BY <4>1
          <6> QED BY <6>2, <6>3, <6>4
        <5> QED BY <4>1, <5>1, <5>3, <5>4, BeforeParts
      <4>6. \A i \in 1 .. Len(head), k \in 1 .. Len(out) : Before(head[i], out[k])
        BY <4>2, <4>5
      <4>7. PICK all : all = head \o out /\ Ordered(all, FALSE)
        BY <3>8, <4>4, <4>6, OrderedJoin
      <4>8. all # <<>>
        <5>1. Len(all) = 1 + Len(out) /\ Len(out) \in Nat
          BY <3>9, <4>2, <4>7
        <5> QED BY <5>1
      <4>9. Units = all
        BY <3>3, <3>11, <4>2, <4>7
      <4> QED BY <4>7, <4>8, <4>9
    <3>12. lead = 0 \/ lead = 1
      BY <3>6
    <3> QED BY <3>10, <3>11, <3>12
  <2> QED BY <2>4, <2>5
<1> QED BY <1>5, <1>6

-----------------------------------------------------------------------------
(* Chunking: the specification.                                             *)

LEMMA SegmentsWhole ==
    ASSUME file \in Files, file.lang = "python" => file.stmts # <<>>
    PROVE  Whole(Segments, FALSE) /\ (file.kind # "code" => Single(Segments))
<1>1. file.toks \in Seq(Nat)
  BY ChunkingAssumption
<1>2. CASE file.kind = "code"
  <2>1. Ordered(Units, FALSE) /\ Units # <<>>
    BY <1>2, CodeIs, UnitsOrdered
  <2>2. Whole(CodeSegments, FALSE)
    BY <1>1, <2>1, CodeWhole
  <2>3. Segments = CodeSegments
    BY <1>2 DEF Segments
  <2> QED BY <1>2, <2>2, <2>3
<1>3. CASE file.kind # "code"
  BY <1>1, <1>3, LinesWhole
<1> QED BY <1>2, <1>3

\* What is known of the pieces after each stage.
StageOK ==
    /\ stage \in {"load", "parsed", "chunked", "done"}
    /\ stage = "parsed" => Whole(pieces, FALSE) /\ (file.kind # "code" => Single(pieces))
    /\ stage = "chunked" => Whole(pieces, TRUE)
    /\ stage = "done" => Whole(pieces, TRUE) /\ Fits(pieces)

LinesInv == file \in Files /\ ((file.lang = "python" => file.stmts # <<>>) => StageOK)

\* A step leaves the file as it is.
LEMMA Framed ==
    ASSUME file' = file, NEW new, pieces' = new
    PROVE  /\ \A twins \in BOOLEAN : Whole(pieces, twins)' <=> Whole(new, twins)
           /\ Single(pieces)' <=> Single(new)
           /\ Fits(pieces)' <=> Fits(new)
<1>1. Part' = Part
  BY DEF Part
<1>2. SharedLines' = SharedLines
  BY DEF SharedLines, Meet
<1>3. \A p, q : Before(p, q)' <=> Before(p, q)
  BY <1>2 DEF Before
<1>4. ASSUME NEW twins \in BOOLEAN PROVE Ordered(pieces, twins)' <=> Ordered(new, twins)
  BY <1>1, <1>3 DEF Ordered, Twin
<1>5. NoBlank(pieces)' <=> NoBlank(new)
  BY DEF NoBlank
<1>6. Covers(pieces)' <=> Covers(new)
  BY DEF Covers, On
<1>7. \A twins \in BOOLEAN : Whole(pieces, twins)' <=> Whole(new, twins)
  BY <1>4, <1>5, <1>6 DEF Whole
<1>8. Single(pieces)' <=> Single(new)
  BY DEF Single
<1>9. Fits(pieces)' <=> Fits(new)
  BY DEF Fits
<1> QED BY <1>7, <1>8, <1>9

LEMMA StageOnce ==
    ASSUME file.toks \in Seq(Nat), Whole(pieces, TRUE), Fits(pieces)
    PROVE  /\ \A l \in Lines : file.toks[l] > 0 => \E i \in DOMAIN pieces : l \in pieces[i].first .. pieces[i].last
           /\ \A i, j \in DOMAIN pieces : i < j =>
                  \/ pieces[i].last < pieces[j].first
                  \/ pieces[i].last = pieces[j].first /\ (file.kind = "code" => pieces[j].first \in SharedLines)
                  \/ pieces[i].first = pieces[j].first /\ pieces[i].last = pieces[j].last
           /\ Size + Header <= EmbedMax => \A i \in DOMAIN pieces : pieces[i].tokens + Header <= EmbedMax
<1>1. PICK n \in Nat : n = Len(pieces) /\ DOMAIN pieces = 1 .. n /\ \A i \in 1 .. n : pieces[i] \in Part
  BY DEF Whole, Ordered
<1>2. PICK N \in Nat : N = Len(file.toks) /\ Lines = 1 .. N
  BY DEF Lines
<1>3. ASSUME NEW l \in Lines, file.toks[l] > 0 PROVE \E i \in DOMAIN pieces : l \in pieces[i].first .. pieces[i].last
  <2>1. PICK i \in 1 .. n : On(pieces[i], l)
    BY <1>1, <1>2, <1>3 DEF Whole, Covers
  <2>2. PICK p \in Part : p = pieces[i] /\ p.first \in Nat /\ p.last \in Nat /\ p.first <= l /\ l <= p.last
    BY <1>1, <2>1, PartParts DEF On
  <2>3. l \in p.first .. p.last
    BY <1>2, <2>2
  <2> QED BY <1>1, <2>2, <2>3
<1>4. ASSUME NEW i \in 1 .. n, NEW j \in 1 .. n, i < j
      PROVE  \/ pieces[i].last < pieces[j].first
             \/ pieces[i].last = pieces[j].first /\ (file.kind = "code" => pieces[j].first \in SharedLines)
             \/ pieces[i].first = pieces[j].first /\ pieces[i].last = pieces[j].last
  <2>1. Before(pieces[i], pieces[j]) \/ Twin(pieces[i], pieces[j])
    BY <1>1, <1>4 DEF Whole, Ordered
  <2> QED BY <2>1 DEF Before, Twin
<1> QED BY <1>1, <1>3, <1>4 DEF Fits

(* EveryLineOnce of Chunking: whatever the file, the strategy and the limits *)
(* are, no line with text in it is lost between the parser and the index,    *)
(* and two chunks that share lines are windows of one text or meet on a line *)
(* that two statements share.                                                *)
THEOREM LinesTheorem == ChunkingSpec => []EveryLineOnce
<1>1. ChunkingInit => LinesInv
  BY DEF ChunkingInit, LinesInv, StageOK
<1>2. LinesInv /\ [ChunkingNext]_chunkingVars => LinesInv'
  <2> SUFFICES ASSUME LinesInv, [ChunkingNext]_chunkingVars PROVE LinesInv'
    OBVIOUS
  <2>0. file.toks \in Seq(Nat) /\ file \in Files
    BY ChunkingAssumption DEF LinesInv
  <2>1. CASE UNCHANGED chunkingVars
    <3>1. file' = file /\ stage' = stage /\ pieces' = pieces
      BY <2>1 DEF chunkingVars
    <3>2. PICK old : old = pieces
      OBVIOUS
    <3>3. /\ Whole(pieces, TRUE)' <=> Whole(old, TRUE)
          /\ Whole(pieces, FALSE)' <=> Whole(old, FALSE)
          /\ Single(pieces)' <=> Single(old)
          /\ Fits(pieces)' <=> Fits(old)
      BY <3>1, <3>2, Framed
    <3> QED BY <3>1, <3>2, <3>3 DEF LinesInv, StageOK
  <2>2. ASSUME ChunkingNext PROVE LinesInv'
    <3>1. PICK new : pieces' = new
      OBVIOUS
    <3>2. file' = file
      BY <2>2 DEF ChunkingNext, ParseFile, ChunkFile, FitToEmbed, Advance
    <3>3. SUFFICES ASSUME file.lang = "python" => file.stmts # <<>> PROVE StageOK'
      BY <2>0, <3>2 DEF LinesInv
    <3>4. StageOK
      BY <3>3 DEF LinesInv
    <3>5. \/ stage' = "parsed" /\ Whole(new, FALSE) /\ (file.kind # "code" => Single(new))
          \/ stage' = "chunked" /\ Whole(new, TRUE)
          \/ stage' = "done" /\ Whole(new, TRUE) /\ Fits(new)
      <4>1. CASE ParseFile
        <5>1. stage' = "parsed" /\ new = Segments
          BY <3>1, <4>1 DEF ParseFile, Advance
        <5> QED BY <2>0, <3>3, <5>1, SegmentsWhole
      <4>2. CASE ChunkFile
        <5>1. stage = "parsed" /\ stage' = "chunked" /\ new = ChunkSegments(pieces)
          BY <3>1, <4>2 DEF ChunkFile, Advance
        <5>2. Whole(ChunkSegments(pieces), TRUE)
          BY <2>0, <3>4, <5>1, ChunksWhole DEF StageOK
        <5> QED BY <5>1, <5>2
      <4>3. CASE FitToEmbed
        <5>1. stage = "chunked" /\ stage' = "done" /\ new = FitEmbedLimit(pieces)
          BY <3>1, <4>3 DEF FitToEmbed, Advance
        <5>2. Whole(FitEmbedLimit(pieces), TRUE) /\ Fits(FitEmbedLimit(pieces))
          BY <2>0, <3>4, <5>1, FitWhole DEF StageOK
        <5> QED BY <5>1, <5>2
      <4> QED BY <2>2, <4>1, <4>2, <4>3 DEF ChunkingNext
    <3>6. /\ Whole(pieces, TRUE)' <=> Whole(new, TRUE)
          /\ Whole(pieces, FALSE)' <=> Whole(new, FALSE)
          /\ Single(pieces)' <=> Single(new)
          /\ Fits(pieces)' <=> Fits(new)
      BY <3>1, <3>2, Framed
    <3> QED BY <3>2, <3>5, <3>6 DEF StageOK
  <2> QED BY <2>1, <2>2
<1>3. LinesInv => EveryLineOnce
  <2> SUFFICES ASSUME LinesInv, stage = "done", file.lang = "python" => file.stmts # <<>> PROVE EveryLineOnce
    BY DEF EveryLineOnce
  <2>1. file.toks \in Seq(Nat)
    BY ChunkingAssumption DEF LinesInv
  <2>2. Whole(pieces, TRUE) /\ Fits(pieces)
    BY DEF LinesInv, StageOK
  <2> QED BY <2>1, <2>2, StageOnce DEF EveryLineOnce
<1> QED BY <1>1, <1>2, <1>3, PTL DEF ChunkingSpec

================================================================================
