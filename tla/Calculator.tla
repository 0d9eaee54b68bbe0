------------------------------ MODULE Calculator ------------------------------
(***************************************************************************)
(* The calculator tool of agent1 (apps/agent1/calculator.py, called by     *)
(* graph_qa.py): expressions of a language model are evaluated step by     *)
(* step, every way to fail is to come back as a CalculatorError, and no    *)
(* result may grow without bound.  A number is known by its kind, its sign *)
(* and the exponent of its first decimal digit, so a step has every        *)
(* exponent the digits behind it allow; of the results a cancellation or a *)
(* remainder may leave, the extremes stand for all.  The accumulator is    *)
(* the left operand and the right one a literal, or a power that passed    *)
(* its own check.  What a step costs is left out, and so is running out of *)
(* recursion: round(1, -999999999) is a 0, after a power of ten that has   *)
(* a thousand million digits and that nothing checks.                      *)
(***************************************************************************)
EXTENDS Integers

CONSTANTS
    MaxPowExponent, MaxResultDigits,   \* MAX_... of the module
    StrDigits,       \* digits str() converts; sys.set_int_max_str_digits
    FloatExponent,   \* the largest exponent of a float
    Operands,        \* the literals and powers tried as operands
    Powers,          \* the exponents tried after **, and the digits of round
    MaxSteps         \* bound: operators and calls of an expression

VARIABLES
    expr,    \* "given", "evaluating", "done"
    value,   \* the accumulator
    steps,   \* operators and calls so far
    outcome  \* "none", "answer", "explained" (CalculatorError), "raised" (any other)

calcVars == <<expr, value, steps, outcome>>

IntOf(e, neg)   == [is |-> "int", exp |-> e, neg |-> neg]
FloatOf(e, neg) == [is |-> "float", exp |-> e, neg |-> neg]
ZeroOf(kind)    == [is |-> kind, exp |-> -1, neg |-> FALSE]   \* a float zero is known by its kind too
Zero            == ZeroOf("zero")
FloatZero       == ZeroOf("zero_float")
Infinite        == [is |-> "inf", exp |-> 0, neg |-> FALSE]

\* A literal is shorter than MAX_RESULT_DIGITS, a power passed its check; the
\* range of a float, and 1000!, are below that.
ASSUME CalcAssumption ==
    /\ MaxPowExponent \in Nat /\ MaxResultDigits \in Nat /\ FloatExponent \in Nat
    /\ FloatExponent <= MaxResultDigits /\ 2567 <= MaxResultDigits
    /\ Powers \subseteq Int
    /\ \A l \in Operands :
           \/ l \in {Zero, FloatZero, Infinite}
           \/ \E e \in 0 .. MaxResultDigits, neg \in BOOLEAN : l = IntOf(e, neg)
           \/ \E e \in -FloatExponent .. FloatExponent, neg \in BOOLEAN : l = FloatOf(e, neg)

IsZero(v) == v.is \in {"zero", "zero_float"}
IsInt(v)  == v.is \in {"int", "zero"}

CalcInit == expr = "given" /\ value = Zero /\ steps = 0 /\ outcome = "none"

Explain == expr' = "done" /\ outcome' = "explained" /\ UNCHANGED <<value, steps>>
Become(v) == value' = v /\ steps' = steps + 1 /\ UNCHANGED <<expr, outcome>>

\* A float result: too large an exponent is an OverflowError, too small a zero.
BecomeFloat(e, neg) ==
    IF e > FloatExponent THEN Explain
    ELSE Become(IF e < -FloatExponent THEN FloatZero ELSE FloatOf(e, neg))

\* An operand that has to become a float first, and is too large for one.
TooLarge(v) == v.is = "int" /\ v.exp > FloatExponent

\* The result of two numbers is an integer when both are.
BecomeOf(int, e, neg) == IF int THEN Become(IntOf(e, neg)) ELSE BecomeFloat(e, neg)
Vanish(int)           == Become(IF int THEN Zero ELSE FloatZero)

\* normalize and ast.parse: empty, too long, not an expression.
Parse ==
    /\ expr = "given"
    /\ \/ Explain
       \/ \E l \in Operands : value' = l /\ expr' = "evaluating" /\ UNCHANGED <<steps, outcome>>

\* A node that is not allowed (names, keywords, attributes, strings, operators),
\* or arguments a function does not take.
Disallowed == expr = "evaluating" /\ Explain

\* + and -, unary and binary: the longer operand decides, up to a carry or a
\* cancellation.
Add ==
    /\ expr = "evaluating" /\ steps < MaxSteps
    /\ \E l \in Operands :
        LET e == IF IsZero(l) \/ (~IsZero(value) /\ value.exp > l.exp) THEN value.exp ELSE l.exp IN
        IF value.is = "inf" \/ l.is = "inf" THEN Explain
        ELSE IF IsInt(value) /\ IsInt(l)
          THEN Become(Zero) \/ \E x \in {0, e, e + 1}, neg \in BOOLEAN : x >= 0 /\ Become(IntOf(x, neg))
        ELSE IF TooLarge(value) \/ TooLarge(l) THEN Explain
        ELSE Become(FloatZero) \/ \E x \in {0, e, e + 1}, neg \in BOOLEAN : BecomeFloat(x, neg)

Multiply ==
    /\ expr = "evaluating" /\ steps < MaxSteps
    /\ \E l \in Operands :
        IF value.is = "inf" \/ l.is = "inf" THEN Explain
        ELSE IF ~(IsInt(value) /\ IsInt(l)) /\ (TooLarge(value) \/ TooLarge(l)) THEN Explain
        ELSE IF IsZero(value) \/ IsZero(l)
          THEN Become(IF IsInt(value) /\ IsInt(l) THEN Zero ELSE FloatZero)
        ELSE \E carry \in 0 .. 1 : LET e == value.exp + l.exp + carry  neg == value.neg # l.neg IN
             IF IsInt(value) /\ IsInt(l) THEN Become(IntOf(e, neg)) ELSE BecomeFloat(e, neg)

\* Two integers divide exactly, whatever their size, before they round.
Divide ==
    /\ expr = "evaluating" /\ steps < MaxSteps
    /\ \E l \in Operands :
        IF IsZero(l) \/ value.is = "inf" THEN Explain
        ELSE IF l.is = "inf" THEN (IF TooLarge(value) THEN Explain ELSE Become(FloatZero))
        ELSE IF IsZero(value) THEN Become(FloatZero)
        ELSE IF ~(IsInt(value) /\ IsInt(l)) /\ (TooLarge(value) \/ TooLarge(l)) THEN Explain
        ELSE \E carry \in 0 .. 1 : BecomeFloat(value.exp - l.exp - carry, value.neg # l.neg)

\* What // and % explain: no divisor, no end of the dividend, no float of a
\* number that is too long.
Indivisible(l) ==
    \/ IsZero(l) \/ value.is = "inf"
    \/ ~(IsInt(value) /\ IsInt(l)) /\ (TooLarge(value) \/ TooLarge(l))

\* Rounded down: away from zero below it, so a negative quotient can carry.
FloorDivide ==
    /\ expr = "evaluating" /\ steps < MaxSteps
    /\ \E l \in Operands :
        LET int  == IsInt(value) /\ IsInt(l)
            neg  == value.neg # l.neg
            e    == value.exp - l.exp
            exps == IF l.is = "inf" THEN {-1} ELSE {e - 1, e} \cup (IF neg THEN {e + 1} ELSE {})
        IN
        IF Indivisible(l) THEN Explain
        ELSE IF IsZero(value) THEN Vanish(int)
        ELSE \E x \in exps : IF x >= 0 THEN BecomeOf(int, x, neg)
                             ELSE IF neg THEN BecomeOf(int, 0, TRUE) ELSE Vanish(int)

\* The remainder has the sign of the divisor, and is smaller.
Mod ==
    /\ expr = "evaluating" /\ steps < MaxSteps
    /\ \E l \in Operands :
        LET int == IsInt(value) /\ IsInt(l) IN
        IF Indivisible(l) THEN Explain
        ELSE IF IsZero(value) THEN Vanish(int)
        ELSE IF l.is = "inf" THEN (IF value.neg THEN Explain ELSE BecomeFloat(value.exp, FALSE))
        ELSE IF value.exp < l.exp /\ value.neg = l.neg THEN BecomeOf(int, value.exp, value.neg)
        ELSE Vanish(int) \/ \E x \in {0, l.exp} : x <= l.exp /\ BecomeOf(int, x, l.neg)

\* Mutant: the length of the result is not estimated.
PowAllowedLong(n, x) == n <= MaxPowExponent /\ -n <= MaxPowExponent

\* _check_pow: x is the exponent the result will have.  A base of 0, 1 or -1
\* passes, and so does a power of zero.
PowAllowed(n, x) ==
    /\ n <= MaxPowExponent /\ -n <= MaxPowExponent
    /\ (IF n < 0 THEN -x ELSE x) <= MaxResultDigits

\* An infinite base passes with exponent 0 only.
Power ==
    /\ expr = "evaluating" /\ steps < MaxSteps
    /\ \E n \in Powers :
        IF value.is = "inf" THEN (IF n = 0 THEN Become(FloatOf(0, FALSE)) ELSE Explain)
        ELSE IF IsZero(value)
          THEN IF n < 0 \/ n > MaxPowExponent THEN Explain ELSE Become(IF n = 0 THEN IntOf(0, FALSE) ELSE value)
        ELSE \E x \in {value.exp * n, IF n > 0 THEN (value.exp + 1) * n - 1 ELSE (value.exp + 1) * n} :
             LET neg == value.neg /\ n % 2 = 1 IN
             IF ~PowAllowed(n, x) THEN Explain
             ELSE IF IsInt(value) /\ n >= 0 THEN Become(IntOf(x, neg))
             ELSE IF TooLarge(value) THEN Explain ELSE BecomeFloat(x, neg)

\* A fractional power: a negative base gives a complex number.
Root ==
    /\ expr = "evaluating" /\ steps < MaxSteps
    /\ IF value.neg \/ value.is = "inf" \/ TooLarge(value) THEN Explain
       ELSE Become(IF IsZero(value) THEN FloatZero ELSE FloatOf(value.exp \div 2, FALSE))

\* The exponents of 9!, 99!, 999! and 1000!.
Factorials == <<5, 155, 2564, 2567>>

\* _check_factorial (MAX_FACTORIAL_ARG is 1000), and math.factorial, which takes
\* no float.
Factorial ==
    /\ expr = "evaluating" /\ steps < MaxSteps
    /\ IF value.neg \/ ~IsInt(value) THEN Explain
       ELSE IF IsZero(value) THEN Become(IntOf(0, FALSE))
       ELSE \/ value.exp >= 3 /\ Explain
            \/ value.exp <= 3 /\ \E e \in {0, Factorials[value.exp + 1]} : Become(IntOf(e, FALSE))

\* The functions of math: a value out of the domain, or an overflow, is
\* explained, and every other result is some float.
MathFunction ==
    /\ expr = "evaluating" /\ steps < MaxSteps
    /\ \/ Explain
       \/ Become(FloatZero)
       \/ \E l \in {x \in Operands : x.is = "float"} : Become(l)

\* abs, min and max; an infinite result is explained.
Choice ==
    /\ expr = "evaluating" /\ steps < MaxSteps
    /\ \/ Explain
       \/ \E v \in {value, [value EXCEPT !.neg = FALSE]} \cup Operands : v.is # "inf" /\ Become(v)

\* ceil, floor and round make integers of floats, with a carry or without.
Round ==
    /\ expr = "evaluating" /\ steps < MaxSteps
    /\ IF value.is = "inf" THEN Explain
       ELSE IF IsInt(value) THEN Become(value)
       ELSE IF value.exp < 0 THEN Become(Zero) \/ Become(IntOf(0, value.neg))
       ELSE \E e \in {value.exp, value.exp + 1} : Become(IntOf(e, value.neg))

\* round with a second argument keeps the kind.  Digits before the point
\* (a negative n) can all be rounded away, or up to a power of ten.
RoundTo ==
    /\ expr = "evaluating" /\ steps < MaxSteps
    /\ \E n \in Powers :
        IF value.is = "inf" THEN Explain
        ELSE IF IsZero(value) \/ (IsInt(value) /\ n >= 0) THEN Become(value)
        ELSE \/ -n > value.exp /\ Vanish(IsInt(value))
             \/ \E e \in {value.exp, value.exp + 1} : e >= -n /\ BecomeOf(IsInt(value), e, value.neg)

\* format_number: str of an integer that is too long raises a ValueError.
FormatNumber ==
    /\ expr = "evaluating" /\ expr' = "done"
    /\ outcome' = IF value.is = "int" /\ value.exp >= StrDigits THEN "raised" ELSE "answer"
    /\ UNCHANGED <<value, steps>>

CalcNext ==
    \/ Parse \/ Disallowed \/ FormatNumber
    \/ Add \/ Multiply \/ Divide \/ FloorDivide \/ Mod \/ Power \/ Root
    \/ Factorial \/ MathFunction \/ Choice \/ Round \/ RoundTo

CalcSpec == CalcInit /\ [][CalcNext]_calcVars

-----------------------------------------------------------------------------
(* No result grows without bound, and none is an overflow: the digits of an  *)
(* integer grow by one power per operator at most, and by powers of powers   *)
(* not at all; a float is in range, and an infinite one is a literal of the  *)
(* expression, alone.  (This is about the values between the steps: the work *)
(* inside round is not bounded by them, and an integer they allow may be too *)
(* long for str(), which raises a plain ValueError in format_number.)        *)
CalculationsBounded ==
    /\ value.exp <= (steps + 1) * (MaxResultDigits + 1)
    /\ value.is = "float" => value.exp \in -FloatExponent .. FloatExponent
    /\ value.is = "inf" => steps = 0

==============================================================================
