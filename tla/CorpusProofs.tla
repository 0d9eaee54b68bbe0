----------------------------- MODULE CorpusProofs -----------------------------
(***************************************************************************)
(* What the RAG service promises of a text, for every input: a drawing     *)
(* becomes text whole, a workbook row by row, a registered collection      *)
(* serves, and an answer cites what it mentions.  Loops over a sequence    *)
(* are folds; what they come to is proved by induction on the prefixes     *)
(* they have been through.                                                 *)
(***************************************************************************)
EXTENDS Retrieval, Diagrams, Sheets, WellFoundedInduction, FiniteSetTheorems, TLAPS

-----------------------------------------------------------------------------
(* Induction and folds.                                                     *)

LEMMA Induction ==
    ASSUME NEW T, 0 \in T, \A n \in Nat : n \in T => n + 1 \in T
    PROVE  \A n \in Nat : n \in T
<1> DEFINE R == OpToRel(<, Nat)
           B == Nat \ T
<1>1. SUFFICES ASSUME B # {} PROVE FALSE
  OBVIOUS
<1>2. IsWellFoundedOn(R, Nat) /\ B \subseteq Nat
  BY NatLessThanWellFounded
<1> HIDE DEF R, B
<1>3. PICK x \in B : \A y \in B : ~(<<y, x>> \in R)
  BY <1>1, <1>2, WFMin
<1>4. x \in Nat /\ x \notin T /\ x # 0
  BY <1>3 DEF B
<1>5. x - 1 \in Nat /\ x - 1 \notin T
  BY <1>4
<1>6. x - 1 \in B /\ <<x - 1, x>> \in R
  BY <1>4, <1>5 DEF B, R, OpToRel
<1> QED BY <1>3, <1>6

LEMMA EmptyRange == 1 .. 0 = {}
  OBVIOUS

\* A set of positions has a last one.
LEMMA MaxOf ==
    ASSUME NEW n \in Nat, NEW s \in SUBSET (1 .. n), s # {}
    PROVE  Max(s) \in s /\ \A x \in s : x <= Max(s)
<1> DEFINE T == {k \in Nat : \A t \in SUBSET (1 .. k) : t # {} => \E m \in t : \A x \in t : m >= x}
<1>1. 0 \in T
  BY EmptyRange
<1>2. ASSUME NEW k \in Nat, k \in T PROVE k + 1 \in T
  <2>1. SUFFICES ASSUME NEW t \in SUBSET (1 .. k + 1), t # {}
                 PROVE  \E m \in t : \A x \in t : m >= x
    OBVIOUS
  <2>2. CASE k + 1 \in t
    BY <2>2
  <2>3. CASE k + 1 \notin t
    <3>1. t \in SUBSET (1 .. k)
      BY <2>3
    <3> QED BY <1>2, <2>1, <3>1
  <2> QED BY <2>2, <2>3
<1> HIDE DEF T
<1>3. n \in T
  BY <1>1, <1>2, Induction
<1>4. PICK m \in s : \A x \in s : m >= x
  BY <1>3 DEF T
<1>5. Max(s) \in s /\ \A x \in s : Max(s) >= x
  BY <1>4 DEF Max
<1> QED BY <1>5

LEMMA MaxIs ==
    ASSUME NEW n \in Nat, NEW s \in SUBSET (1 .. n), NEW m \in s, \A x \in s : x <= m
    PROVE  Max(s) = m
<1>1. Max(s) \in s /\ \A x \in s : x <= Max(s)
  BY MaxOf
<1>2. \A x \in s : x \in Int
  OBVIOUS
<1>3. m <= Max(s) /\ Max(s) <= m /\ m \in Int /\ Max(s) \in Int
  BY <1>1, <1>2
<1> QED BY <1>3

\* The function by which MapThenFoldSet folds the positions 1 .. n.
Folds(g, S, base, n, step) ==
    /\ g \in [SUBSET (1 .. n) -> S]
    /\ \A s \in SUBSET (1 .. n) :
           g[s] = IF s = {} THEN base ELSE step[<<Max(s), g[s \ {Max(s)}]>>]

\* Whatever the step, there is one.
LEMMA FoldExists ==
    ASSUME NEW S, NEW base \in S, NEW N \in Nat, NEW step \in [(1 .. N) \X S -> S]
    PROVE  \E g : Folds(g, S, base, N, step)
<1> DEFINE Law(g, n) == \A s \in SUBSET (1 .. n) :
               g[s] = IF s = {} THEN base ELSE step[<<Max(s), g[s \ {Max(s)}]>>]
           T == {n \in Nat : n <= N => \E g \in [SUBSET (1 .. n) -> S] : Law(g, n)}
<1>1. 0 \in T
  <2> DEFINE g == [s \in SUBSET (1 .. 0) |-> base]
  <2>2. g \in [SUBSET (1 .. 0) -> S]
    OBVIOUS
  <2>3. \A s \in SUBSET (1 .. 0) : s = {} /\ g[s] = base
    BY EmptyRange
  <2> HIDE DEF g
  <2>4. Law(g, 0)
    BY <2>3
  <2> QED BY <2>2, <2>4
<1>2. ASSUME NEW n \in Nat, n \in T PROVE n + 1 \in T
  <2>0. n + 1 \in Nat
    OBVIOUS
  <2>1. SUFFICES ASSUME n + 1 <= N PROVE \E g \in [SUBSET (1 .. n + 1) -> S] : Law(g, n + 1)
    <3> HIDE DEF Law
    <3> QED BY <2>0
  <2>2. PICK g \in [SUBSET (1 .. n) -> S] : Law(g, n)
    <3>1. n <= N => \E g \in [SUBSET (1 .. n) -> S] : Law(g, n)
      BY <1>2
    <3>2. n <= N
      BY <2>1
    <3> HIDE DEF Law
    <3> QED BY <3>1, <3>2
  <2>3. PICK h : h = [s \in SUBSET (1 .. n + 1) |->
                        IF n + 1 \in s THEN step[<<n + 1, g[s \ {n + 1}]>>] ELSE g[s]]
    OBVIOUS
  <2>4. ASSUME NEW s \in SUBSET (1 .. n + 1), n + 1 \in s
        PROVE  /\ s \ {n + 1} \in SUBSET (1 .. n) /\ Max(s) = n + 1
               /\ h[s] = step[<<n + 1, g[s \ {n + 1}]>>] /\ h[s \ {n + 1}] = g[s \ {n + 1}] /\ h[s] \in S
    <3>1. s \ {n + 1} \in SUBSET (1 .. n) /\ s \ {n + 1} \in SUBSET (1 .. n + 1)
      BY <2>4
    <3>2. Max(s) = n + 1
      <4>1. n + 1 \in Nat /\ \A x \in s : x <= n + 1
        BY <2>4
      <4> QED BY <2>4, <4>1, MaxIs
    <3>3. n + 1 \in 1 .. N /\ g[s \ {n + 1}] \in S
      BY <2>1, <2>2, <3>1
    <3> QED BY <2>3, <2>4, <3>1, <3>2, <3>3
  <2>5. ASSUME NEW s \in SUBSET (1 .. n + 1), n + 1 \notin s
        PROVE  s \in SUBSET (1 .. n) /\ h[s] = g[s] /\ h[s] \in S
               /\ \A t : h[s \ {t}] = g[s \ {t}]
    <3>1. \A x \in s : x \in 1 .. n
      <4>1. \A x \in s : x \in 1 .. n + 1 /\ x # n + 1
        BY <2>5
      <4> QED BY <4>1
    <3>2. s \in SUBSET (1 .. n) /\ \A t : s \ {t} \in SUBSET (1 .. n + 1)
      BY <3>1
    <3> QED BY <2>2, <2>3, <2>5, <3>2
  <2>6. h \in [SUBSET (1 .. n + 1) -> S]
    BY <2>3, <2>4, <2>5
  <2>7. Law(h, n + 1)
    <3>1. SUFFICES ASSUME NEW s \in SUBSET (1 .. n + 1)
                   PROVE  h[s] = IF s = {} THEN base ELSE step[<<Max(s), h[s \ {Max(s)}]>>]
      OBVIOUS
    <3>2. CASE n + 1 \in s
      BY <2>4, <3>2
    <3>3. CASE n + 1 \notin s
      BY <2>2, <2>5, <3>3
    <3> QED BY <3>2, <3>3
  <2> QED BY <2>6, <2>7
<1> HIDE DEF T
<1>3. N \in T
  BY <1>1, <1>2, Induction
<1>4. N <= N => \E g \in [SUBSET (1 .. N) -> S] : Law(g, N)
  <2> HIDE DEF Law
  <2> QED BY <1>3 DEF T
<1>5. N <= N
  OBVIOUS
<1> QED BY <1>4, <1>5 DEF Folds

\* The prefixes 1 .. i of a sequence's positions are what a fold goes through.
LEMMA Prefix ==
    ASSUME NEW n \in Nat, NEW i \in 1 .. n
    PROVE  /\ 1 .. i \in SUBSET (1 .. n) /\ 1 .. i # {} /\ Max(1 .. i) = i
           /\ (1 .. i) \ {i} = 1 .. i - 1 /\ 1 .. i - 1 \in SUBSET (1 .. n)
<1>1. 1 .. i \in SUBSET (1 .. n) /\ i \in 1 .. i /\ \A x \in 1 .. i : x <= i
  OBVIOUS
<1>2. Max(1 .. i) = i
  BY <1>1, MaxIs
<1> QED BY <1>1, <1>2


\* What keeping the first mentions of the members of K, in a sequence, has
\* gathered after n of its elements: each once, in the order of mention.
Gathered(out, s, K, n) ==
    /\ ToSet(out) = {x \in K : \E k \in 1 .. n : s[k] = x}
    /\ \A i, j \in 1 .. Len(out) : i < j =>
           \E k \in 1 .. n : s[k] = out[i] /\ \A l \in 1 .. k : s[l] # out[j]

LEMMA GatherOne ==
    ASSUME NEW X, NEW s \in Seq(X), NEW K, NEW out \in Seq(X), NEW n \in Nat, n + 1 <= Len(s),
           Gathered(out, s, K, n), NEW new,
           new = IF s[n + 1] \in K /\ ~Contains(out, s[n + 1]) THEN Append(out, s[n + 1]) ELSE out
    PROVE  new \in Seq(X) /\ Gathered(new, s, K, n + 1)
<1> DEFINE x == s[n + 1]
<1>0. x \in X /\ n + 1 \in 1 .. n + 1 /\ \A k : k \in 1 .. n + 1 <=> k \in 1 .. n \/ k = n + 1
  OBVIOUS
<1>00. Contains(out, x) <=> x \in ToSet(out)
  BY DEF Contains, ToSet
<1> HIDE DEF x
<1>1. CASE x \in K /\ ~Contains(out, x)
  <2>1. new = Append(out, x) /\ new \in Seq(X) /\ Len(new) = Len(out) + 1 /\ new[Len(out) + 1] = x
        /\ \A i \in 1 .. Len(out) : new[i] = out[i]
    BY <1>0, <1>1 DEF x
  <2>2. ToSet(new) = ToSet(out) \cup {x}
    BY <2>1 DEF ToSet
  <2>3. \A k \in 1 .. n : s[k] # x
    BY <1>00, <1>1 DEF Gathered
  <2>4. ToSet(new) = {y \in K : \E k \in 1 .. n + 1 : s[k] = y}
    BY <1>0, <1>1, <2>2 DEF Gathered, x
  <2>5. ASSUME NEW i \in 1 .. Len(new), NEW j \in 1 .. Len(new), i < j
        PROVE  \E k \in 1 .. n + 1 : s[k] = new[i] /\ \A l \in 1 .. k : s[l] # new[j]
    <3>1. i \in 1 .. Len(out) /\ (j \in 1 .. Len(out) \/ j = Len(out) + 1)
      BY <2>1, <2>5
    <3>2. CASE j \in 1 .. Len(out)
      <4>1. PICK k \in 1 .. n : s[k] = out[i] /\ \A l \in 1 .. k : s[l] # out[j]
        BY <2>5, <3>1, <3>2 DEF Gathered
      <4> QED BY <1>0, <2>1, <3>1, <3>2, <4>1
    <3>3. CASE j = Len(out) + 1
      <4>1. out[i] \in ToSet(out)
        BY <3>1 DEF ToSet
      <4>2. PICK k \in 1 .. n : s[k] = out[i]
        BY <4>1 DEF Gathered
      <4>3. \A l \in 1 .. k : s[l] # x
        BY <2>3
      <4> QED BY <1>0, <2>1, <3>1, <3>3, <4>2, <4>3
    <3> QED BY <3>1, <3>2, <3>3
  <2> QED BY <2>1, <2>4, <2>5 DEF Gathered
<1>2. CASE ~(x \in K /\ ~Contains(out, x))
  <2>1. new = out
    BY <1>2 DEF x
  <2>2. ToSet(out) = {y \in K : \E k \in 1 .. n + 1 : s[k] = y}
    BY <1>0, <1>00, <1>2 DEF Gathered, x
  <2>3. \A k \in 1 .. n : k \in 1 .. n + 1
    BY <1>0
  <2> QED BY <2>1, <2>2, <2>3 DEF Gathered
<1> QED BY <1>1, <1>2

\* The same for the whole sequence.
LEMMA Gather ==
    ASSUME NEW X, NEW s \in Seq(X), NEW K, NEW acc, acc[0] = <<>>,
           \A i \in 1 .. Len(s) :
               acc[i] = IF s[i] \in K /\ ~Contains(acc[i - 1], s[i]) THEN Append(acc[i - 1], s[i]) ELSE acc[i - 1]
    PROVE  acc[Len(s)] \in Seq(X) /\ Gathered(acc[Len(s)], s, K, Len(s))
<1> DEFINE T == {n \in Nat : n <= Len(s) => acc[n] \in Seq(X) /\ Gathered(acc[n], s, K, n)}
<1>1. 0 \in T
  <2>1. acc[0] \in Seq(X) /\ ToSet(acc[0]) = {} /\ Len(acc[0]) = 0
    BY DEF ToSet
  <2> QED BY <2>1, EmptyRange DEF Gathered
<1>2. ASSUME NEW n \in Nat, n \in T PROVE n + 1 \in T
  <2>1. SUFFICES ASSUME n + 1 <= Len(s) PROVE acc[n + 1] \in Seq(X) /\ Gathered(acc[n + 1], s, K, n + 1)
    OBVIOUS
  <2>2. n <= Len(s) /\ n + 1 \in 1 .. Len(s) /\ (n + 1) - 1 = n
    BY <2>1
  <2>3. acc[n] \in Seq(X) /\ Gathered(acc[n], s, K, n)
    BY <1>2, <2>2
  <2>4. PICK out \in Seq(X) : out = acc[n]
    BY <2>3
  <2>5. PICK new : new = acc[n + 1]
    OBVIOUS
  <2>6. new = IF s[n + 1] \in K /\ ~Contains(out, s[n + 1]) THEN Append(out, s[n + 1]) ELSE out
    BY <2>2, <2>4, <2>5
  <2> HIDE DEF T
  <2>7. new \in Seq(X) /\ Gathered(new, s, K, n + 1)
    BY <2>1, <2>3, <2>4, <2>6, GatherOne
  <2> QED BY <2>5, <2>7
<1> HIDE DEF T
<1>3. Len(s) \in T
  BY <1>1, <1>2, Induction
<1> QED BY <1>3 DEF T

\* Mentions in order are distinct, so there are as many as members.
LEMMA GatheredOnce ==
    ASSUME NEW X, NEW out \in Seq(X), NEW s, NEW K, NEW n \in Nat, Gathered(out, s, K, n)
    PROVE  Len(out) = Cardinality(ToSet(out))
<1>1. ASSUME NEW i \in 1 .. Len(out), NEW j \in 1 .. Len(out), i < j PROVE out[i] # out[j]
  <2>1. PICK k \in 1 .. n : s[k] = out[i] /\ \A l \in 1 .. k : s[l] # out[j]
    BY <1>1 DEF Gathered
  <2>2. k \in 1 .. k
    OBVIOUS
  <2> QED BY <2>1, <2>2
<1>2. PICK f : f = [i \in 1 .. Len(out) |-> out[i]]
  OBVIOUS
<1>3. f \in Bijection(1 .. Len(out), ToSet(out))
  <2>1. f \in [1 .. Len(out) -> ToSet(out)] /\ \A y \in ToSet(out) : \E i \in 1 .. Len(out) : f[i] = y
    BY <1>2 DEF ToSet
  <2>2. \A i, j \in 1 .. Len(out) : f[i] = f[j] => i = j
    BY <1>1, <1>2
  <2> QED BY <2>1, <2>2 DEF Bijection, Injection, Surjection, IsInjective
<1>4. IsFiniteSet(1 .. Len(out)) /\ Cardinality(1 .. Len(out)) = Len(out)
  BY FS_Interval
<1>5. ExistsBijection(1 .. Len(out), ToSet(out))
  BY <1>3 DEF ExistsBijection
<1> QED BY <1>4, <1>5, FS_Bijection


\* new is out and one more, x.
Longer(new, out, x) ==
    new = Append(out, x) /\ Len(new) = Len(out) + 1 /\ new[Len(out) + 1] = x
    /\ \A i \in 1 .. Len(out) : new[i] = out[i]

Grown(new, out, x) == \A y : y \in ToSet(new) <=> y \in ToSet(out) \/ y = x

LEMMA LongerSet ==
    ASSUME NEW X, NEW out \in Seq(X), NEW x \in X, NEW new \in Seq(X), Longer(new, out, x)
    PROVE  Grown(new, out, x)
<1>1. ToSet(new) = ToSet(out) \cup {x}
  BY DEF ToSet, Longer
<1> QED BY <1>1 DEF Grown

\* A loop that appends f[i] for every i of keep.
Appends(acc, f, keep, n) ==
    /\ acc[0] = <<>>
    /\ \A i \in 1 .. n : acc[i] = IF i \in keep THEN Append(acc[i - 1], f[i]) ELSE acc[i - 1]

Collected(out, f, keep, X) == out \in Seq(X) /\ \A y : y \in ToSet(out) <=> \E i \in keep : y = f[i]

LEMMA Appended ==
    ASSUME NEW X, NEW N \in Nat, NEW f \in [1 .. N -> X], NEW keep \in SUBSET (1 .. N), NEW acc,
           Appends(acc, f, keep, N)
    PROVE  Collected(acc[N], f, keep, X)
<1> DEFINE T == {n \in Nat : n <= N => /\ acc[n] \in Seq(X)
                                       /\ \A y : y \in ToSet(acc[n]) <=> \E i \in keep : i <= n /\ y = f[i]}
<1>1. 0 \in T
  <2>1. acc[0] \in Seq(X) /\ ToSet(acc[0]) = {}
    BY DEF ToSet, Appends
  <2> QED BY <2>1
<1>2. ASSUME NEW n \in Nat, n \in T PROVE n + 1 \in T
  <2>1. SUFFICES ASSUME n + 1 <= N
                 PROVE  acc[n + 1] \in Seq(X)
                        /\ \A y : y \in ToSet(acc[n + 1]) <=> \E i \in keep : i <= n + 1 /\ y = f[i]
    OBVIOUS
  <2>2. n <= N /\ n + 1 \in 1 .. N /\ (n + 1) - 1 = n
    BY <2>1
  <2>3. PICK out \in Seq(X) : out = acc[n] /\ \A y : y \in ToSet(out) <=> \E i \in keep : i <= n /\ y = f[i]
    BY <1>2, <2>2
  <2>4. PICK x \in X : x = f[n + 1]
    BY <2>2
  <2> HIDE DEF T
  <2>5. CASE n + 1 \in keep
    <3>1. PICK new : new = acc[n + 1]
      OBVIOUS
    <3>2. new = Append(out, x)
      BY <2>2, <2>3, <2>4, <2>5, <3>1 DEF Appends
    <3>5. new \in Seq(X) /\ Longer(new, out, x)
      BY <3>2 DEF Longer
    <3>3. new \in Seq(X) /\ Grown(new, out, x)
      BY <3>5, LongerSet
    <3>4. \A i \in keep : i <= n + 1 <=> i <= n \/ i = n + 1
      OBVIOUS
    <3> QED BY <2>3, <2>4, <2>5, <3>1, <3>3, <3>4 DEF Grown
  <2>6. CASE n + 1 \notin keep
    <3>1. acc[n + 1] = out
      BY <2>2, <2>3, <2>6 DEF Appends
    <3>2. \A i \in keep : i <= n + 1 <=> i <= n
      BY <2>6
    <3> QED BY <2>3, <3>1, <3>2
  <2> QED BY <2>5, <2>6
<1> HIDE DEF T
<1>3. N \in T
  BY <1>1, <1>2, Induction
<1>4. N <= N /\ \A i \in keep : i <= N
  OBVIOUS
<1> QED BY <1>3, <1>4 DEF T, Collected

Flattens(g, seqs) ==
    g = [i \in 1 .. Len(seqs) |-> IF i = 1 THEN seqs[i] ELSE g[i - 1] \o seqs[i]]

LEMMA FlattenExists ==
    ASSUME NEW X, NEW seqs \in Seq(Seq(X))
    PROVE  \E g \in [1 .. Len(seqs) -> Seq(X)] : Flattens(g, seqs)
<1> DEFINE Law(g, n) == \A i \in 1 .. n : g[i] = IF i = 1 THEN seqs[i] ELSE g[i - 1] \o seqs[i]
           T == {n \in Nat : n <= Len(seqs) => \E g \in [1 .. n -> Seq(X)] : Law(g, n)}
<1>1. 0 \in T
  <2>1. PICK g : g = [i \in 1 .. 0 |-> <<>>]
    OBVIOUS
  <2>2. g \in [1 .. 0 -> Seq(X)] /\ Law(g, 0)
    BY <2>1, EmptyRange
  <2> QED BY <2>2
<1>2. ASSUME NEW n \in Nat, n \in T PROVE n + 1 \in T
  <2>1. SUFFICES ASSUME n + 1 <= Len(seqs) PROVE \E g \in [1 .. n + 1 -> Seq(X)] : Law(g, n + 1)
    <3> HIDE DEF Law
    <3>1. n + 1 \in Nat
      OBVIOUS
    <3> QED BY <3>1
  <2>2. PICK g \in [1 .. n -> Seq(X)] : Law(g, n)
    <3>1. n <= Len(seqs)
      BY <2>1
    <3> HIDE DEF Law
    <3> QED BY <1>2, <3>1
  <2>3. PICK x \in Seq(X) : x = IF n = 0 THEN seqs[n + 1] ELSE g[n] \o seqs[n + 1]
    <3>1. n + 1 \in 1 .. Len(seqs) /\ (n # 0 => n \in 1 .. n)
      BY <2>1
    <3>2. seqs[n + 1] \in Seq(X) /\ (n # 0 => g[n] \in Seq(X))
      BY <3>1
    <3>3. PICK y \in Seq(X) : y = seqs[n + 1]
      BY <3>2
    <3>4. n # 0 => g[n] \o y \in Seq(X)
      BY <3>2
    <3> QED BY <3>3, <3>4
  <2>4. PICK h : h = [i \in 1 .. n + 1 |-> IF i = n + 1 THEN x ELSE g[i]]
    OBVIOUS
  <2>5. h \in [1 .. n + 1 -> Seq(X)]
    <3>1. \A i \in 1 .. n + 1 : i = n + 1 \/ i \in 1 .. n
      OBVIOUS
    <3> QED BY <2>4, <3>1
  <2>6. ASSUME NEW i \in 1 .. n + 1 PROVE h[i] = IF i = 1 THEN seqs[i] ELSE h[i - 1] \o seqs[i]
    <3>1. i = n + 1 \/ i \in 1 .. n
      OBVIOUS
    <3>2. CASE i = n + 1
      BY <2>3, <2>4, <3>2
    <3>3. CASE i \in 1 .. n
      <4>1. i # n + 1 /\ (i # 1 => i - 1 \in 1 .. n /\ i - 1 # n + 1)
        BY <3>3
      <4>2. h[i] = g[i] /\ (i # 1 => h[i - 1] = g[i - 1])
        BY <2>4, <4>1
      <4> QED BY <2>2, <3>3, <4>2
    <3> QED BY <3>1, <3>2, <3>3
  <2> HIDE DEF T
  <2> QED BY <2>5, <2>6
<1> HIDE DEF T
<1>3. Len(seqs) \in T
  BY SMTT(30), <1>1, <1>2, Induction
<1>4. PICK g \in [1 .. Len(seqs) -> Seq(X)] : Law(g, Len(seqs))
  <2>1. Len(seqs) <= Len(seqs)
    OBVIOUS
  <2> HIDE DEF Law
  <2> QED BY <1>3, <2>1 DEF T
<1> QED BY <1>4 DEF Flattens

\* FlattenSeq appends one sequence after the other.
Joins(acc, seqs) == acc[0] = <<>> /\ \A i \in 1 .. Len(seqs) : acc[i] = acc[i - 1] \o seqs[i]

LEMMA FlattenSteps ==
    ASSUME NEW X, NEW seqs \in Seq(Seq(X))
    PROVE  \E acc : Joins(acc, seqs) /\ FlattenSeq(seqs) = acc[Len(seqs)]
<1>1. CASE Len(seqs) = 0
  <2>1. seqs = <<>>
    BY <1>1
  <2>2. FlattenSeq(seqs) = <<>>
    BY <1>1, <2>1 DEF FlattenSeq
  <2>3. PICK acc : acc = [i \in 0 .. 0 |-> <<>>]
    OBVIOUS
  <2>4. acc[0] = <<>>
    BY <2>3
  <2> QED BY <1>1, <2>2, <2>4, EmptyRange DEF Joins
<1>2. CASE Len(seqs) # 0
  <2> DEFINE Law(g) == g = [i \in 1 .. Len(seqs) |-> IF i = 1 THEN seqs[i] ELSE g[i - 1] \o seqs[i]]
             h == CHOOSE g : Law(g)
  <2>1. PICK g : Flattens(g, seqs)
    BY FlattenExists
  <2>2. Law(g)
    BY <2>1 DEF Flattens
  <2>3. Law(h)
    <3> HIDE DEF Law
    <3> QED BY <2>2
  <2>4. FlattenSeq(seqs) = h[Len(seqs)]
    BY <1>2 DEF FlattenSeq
  <2> HIDE DEF h
  <2>5. PICK acc : acc = [i \in 0 .. Len(seqs) |-> IF i = 0 THEN <<>> ELSE h[i]]
    OBVIOUS
  <2>6. ASSUME NEW i \in 1 .. Len(seqs) PROVE acc[i] = acc[i - 1] \o seqs[i]
    <3>1. acc[i] = h[i] /\ seqs[i] \in Seq(X) /\ i \in Nat
      BY <2>5
    <3>2. CASE i = 1
      <4>1. acc[i - 1] = <<>>
        BY <2>5, <3>2
      <4>2. h[i] = seqs[i]
        BY <2>3, <3>2
      <4>3. PICK x \in Seq(X) : x = seqs[i]
        BY <3>1
      <4>4. <<>> \o x = x
        OBVIOUS
      <4> QED BY <3>1, <4>1, <4>2, <4>3, <4>4
    <3>3. CASE i # 1
      <4>1. i - 1 \in 0 .. Len(seqs) /\ i - 1 # 0
        BY <3>3
      <4>2. acc[i - 1] = h[i - 1]
        BY <2>5, <4>1
      <4>3. h[i] = h[i - 1] \o seqs[i]
        BY <2>3, <3>3
      <4> QED BY <3>1, <4>2, <4>3
    <3> QED BY <3>2, <3>3
  <2>7. acc[0] = <<>> /\ acc[Len(seqs)] = h[Len(seqs)]
    BY <1>2, <2>5
  <2> QED BY <2>4, <2>6, <2>7 DEF Joins
<1> QED BY <1>1, <1>2

-----------------------------------------------------------------------------
(* Diagrams.                                                                *)

\* How Once comes to its result, prefix by prefix.
LEMMA OnceSteps ==
    ASSUME NEW X, NEW s \in Seq(X)
    PROVE  \E acc : /\ acc[0] = <<>> /\ Once(s) = acc[Len(s)]
                    /\ \A i \in 1 .. Len(s) :
                           acc[i] = IF Contains(acc[i - 1], s[i]) THEN acc[i - 1] ELSE Append(acc[i - 1], s[i])
<1> DEFINE N == Len(s)
           D == DOMAIN s
           Step(out, x) == IF Contains(out, x) THEN out ELSE Append(out, x)
           Law(g) == g = [t \in SUBSET D |-> IF t = {} THEN <<>> ELSE Step(g[t \ {Max(t)}], s[Max(t)])]
           h == CHOOSE g : Law(g)
<1>0. \A y \in Seq(X), x \in X : Step(y, x) \in Seq(X)
  OBVIOUS
<1>1. PICK Y : Y = Seq(X) /\ \A y \in Y, x \in X : Step(y, x) \in Y
  <2> HIDE DEF Step
  <2> QED BY <1>0
<1>2. N \in Nat /\ D = 1 .. N /\ <<>> \in Y /\ \A i \in 1 .. N : s[i] \in X
  BY <1>1
<1> DEFINE step == [p \in (1 .. N) \X Y |-> Step(p[2], s[p[1]])]
<1> HIDE DEF Step, N, D
<1>3. step \in [(1 .. N) \X Y -> Y]
  BY <1>1, <1>2
<1>4. PICK g \in [SUBSET (1 .. N) -> Y] :
          \A t \in SUBSET (1 .. N) : g[t] = IF t = {} THEN <<>> ELSE step[<<Max(t), g[t \ {Max(t)}]>>]
  <2> HIDE DEF step
  <2>1. PICK base \in Y : base = <<>>
    BY <1>2
  <2>2. \E g : Folds(g, Y, base, N, step)
    BY <1>2, <1>3, FoldExists
  <2> QED BY <2>1, <2>2 DEF Folds
<1>5. Law(g)
  <2>1. ASSUME NEW t \in SUBSET (1 .. N), t # {}
        PROVE  step[<<Max(t), g[t \ {Max(t)}]>>] = Step(g[t \ {Max(t)}], s[Max(t)])
    <3>1. Max(t) \in 1 .. N
      BY <1>2, <2>1, MaxOf
    <3>2. g[t \ {Max(t)}] \in Y
      OBVIOUS
    <3> QED BY <3>1, <3>2
  <2> HIDE DEF step
  <2> QED BY <1>2, <1>4, <2>1
<1>6. Law(h)
  <2> HIDE DEF Law
  <2> QED BY <1>5
<1>7. Once(s) = h[D]
  BY DEF Once, FoldLeft, MapThenFoldSet, Step, D
<1> HIDE DEF h
<1>8. \A t \in SUBSET (1 .. N) : h[t] = IF t = {} THEN <<>> ELSE Step(h[t \ {Max(t)}], s[Max(t)])
  BY <1>2, <1>6
<1>9. h[{}] = <<>> /\ \A i \in 1 .. N : h[1 .. i] = Step(h[1 .. i - 1], s[i])
  <2>1. {} \in SUBSET (1 .. N)
    OBVIOUS
  <2> QED BY <1>2, <1>8, <2>1, Prefix
<1>10. PICK acc : acc = [i \in 0 .. N |-> h[1 .. i]]
  OBVIOUS
<1>11. acc[0] = <<>> /\ acc[N] = Once(s) /\ \A i \in 1 .. N : acc[i] = Step(acc[i - 1], s[i])
  BY <1>2, <1>7, <1>9, <1>10, EmptyRange
<1> QED BY <1>11 DEF N, Step


\* Every value once.
LEMMA OnceIs ==
    ASSUME NEW X, NEW s \in Seq(X)
    PROVE  ToSet(Once(s)) = ToSet(s) /\ Len(Once(s)) = Cardinality(ToSet(s))
<1>1. PICK acc : /\ acc[0] = <<>> /\ Once(s) = acc[Len(s)]
                 /\ \A i \in 1 .. Len(s) :
                        acc[i] = IF Contains(acc[i - 1], s[i]) THEN acc[i - 1] ELSE Append(acc[i - 1], s[i])
  BY OnceSteps
<1>2. \A i \in 1 .. Len(s) :
          acc[i] = IF s[i] \in X /\ ~Contains(acc[i - 1], s[i]) THEN Append(acc[i - 1], s[i]) ELSE acc[i - 1]
  BY <1>1
<1>3. Once(s) \in Seq(X) /\ Gathered(Once(s), s, X, Len(s))
  <2>1. acc[0] = <<>>
    BY <1>1
  <2>2. acc[Len(s)] \in Seq(X) /\ Gathered(acc[Len(s)], s, X, Len(s))
    BY ONLY s \in Seq(X), <1>2, <2>1, Gather
  <2> QED BY <1>1, <2>2
<1>4. ToSet(s) = {x \in X : \E k \in 1 .. Len(s) : s[k] = x}
  BY DEF ToSet
<1>5. ToSet(Once(s)) = ToSet(s)
  BY <1>3, <1>4 DEF Gathered
<1>6. Len(Once(s)) = Cardinality(ToSet(Once(s)))
  BY <1>3, GatheredOnce
<1> QED BY <1>5, <1>6


\* An edge between labelled cells, and its line.
Joined(e) == LabelOf(e[1]) # Nothing /\ LabelOf(e[2]) # Nothing
LinkLine(e) == <<LabelOf(e[1]), LabelOf(e[2]), e[3]>>

\* How the links are collected, edge by edge.
LEMMA NamedSteps ==
    ASSUME NEW X, NEW s \in Seq(X)
    PROVE  \E acc : /\ acc[0] = <<>> /\ Named(s) = acc[Len(s)]
                    /\ \A i \in 1 .. Len(s) :
                           acc[i] = IF Joined(s[i]) THEN Append(acc[i - 1], LinkLine(s[i])) ELSE acc[i - 1]
<1> DEFINE N == Len(s)
           D == DOMAIN s
           Next1(out, e) == IF Joined(e) THEN Append(out, LinkLine(e)) ELSE out
           Law(g) == g = [t \in SUBSET D |-> IF t = {} THEN <<>> ELSE Next1(g[t \ {Max(t)}], s[Max(t)])]
           h == CHOOSE g : Law(g)
<1>0. PICK Z : Z = {LinkLine(x) : x \in X}
  OBVIOUS
<1>00. \A y \in Seq(Z), x \in X : Next1(y, x) \in Seq(Z)
  BY <1>0
<1>1. PICK Y : Y = Seq(Z) /\ \A y \in Y, x \in X : Next1(y, x) \in Y
  <2> HIDE DEF Next1
  <2> QED BY <1>00
<1>2. N \in Nat /\ D = 1 .. N /\ <<>> \in Y /\ \A i \in 1 .. N : s[i] \in X
  BY <1>1
<1> DEFINE step == [p \in (1 .. N) \X Y |-> Next1(p[2], s[p[1]])]
<1> HIDE DEF Next1, N, D
<1>3. step \in [(1 .. N) \X Y -> Y]
  BY <1>1, <1>2
<1>4. PICK g : Folds(g, Y, <<>>, N, step)
  <2> HIDE DEF step
  <2>1. PICK base \in Y : base = <<>>
    BY <1>2
  <2>2. \E g : Folds(g, Y, base, N, step)
    BY <1>2, <1>3, FoldExists
  <2> QED BY <2>1, <2>2
<1>5. Law(g)
  <2>1. ASSUME NEW t \in SUBSET (1 .. N), t # {}
        PROVE  step[<<Max(t), g[t \ {Max(t)}]>>] = Next1(g[t \ {Max(t)}], s[Max(t)])
    <3>1. Max(t) \in 1 .. N
      BY <1>2, <2>1, MaxOf
    <3>2. g[t \ {Max(t)}] \in Y
      BY <1>4 DEF Folds
    <3> QED BY <3>1, <3>2
  <2> HIDE DEF step
  <2> QED BY <1>2, <1>4, <2>1 DEF Folds
<1>6. Law(h)
  <2> HIDE DEF Law
  <2> QED BY <1>5
<1>7. Named(s) = h[D]
  BY DEF Named, FoldLeft, MapThenFoldSet, Next1, D, Joined, LinkLine
<1> HIDE DEF h
<1>8. \A t \in SUBSET (1 .. N) : h[t] = IF t = {} THEN <<>> ELSE Next1(h[t \ {Max(t)}], s[Max(t)])
  BY <1>2, <1>6
<1>9. h[{}] = <<>> /\ \A i \in 1 .. N : h[1 .. i] = Next1(h[1 .. i - 1], s[i])
  <2>1. {} \in SUBSET (1 .. N)
    OBVIOUS
  <2> QED BY <1>2, <1>8, <2>1, Prefix
<1>10. PICK acc : acc = [i \in 0 .. N |-> h[1 .. i]]
  OBVIOUS
<1>11. acc[0] = <<>> /\ acc[N] = Named(s) /\ \A i \in 1 .. N : acc[i] = Next1(acc[i - 1], s[i])
  BY <1>2, <1>7, <1>9, <1>10, EmptyRange
<1> QED BY <1>11 DEF N, Next1


LEMMA Members ==
    ASSUME NEW X, NEW s \in Seq(X)
    PROVE  \A e : e \in ToSet(s) <=> \E i \in 1 .. Len(s) : e = s[i]
  BY DEF ToSet

LEMMA NamedIs ==
    ASSUME NEW X, NEW s \in Seq(X)
    PROVE  \E Z : Named(s) \in Seq(Z) /\ ToSet(Named(s)) = {LinkLine(e) : e \in {x \in ToSet(s) : Joined(x)}}
<1>1. PICK acc : /\ acc[0] = <<>> /\ Named(s) = acc[Len(s)]
                 /\ \A i \in 1 .. Len(s) :
                        acc[i] = IF Joined(s[i]) THEN Append(acc[i - 1], LinkLine(s[i])) ELSE acc[i - 1]
  BY NamedSteps
<1>2. PICK f, keep, Z : /\ f = [i \in 1 .. Len(s) |-> LinkLine(s[i])] /\ Z = {LinkLine(s[i]) : i \in 1 .. Len(s)}
                        /\ keep = {i \in 1 .. Len(s) : Joined(s[i])}
  OBVIOUS
<1>3. PICK N \in Nat : N = Len(s)
  OBVIOUS
<1>7. f \in [1 .. N -> Z] /\ keep \in SUBSET (1 .. N)
  BY <1>2, <1>3
<1>8. Appends(acc, f, keep, N)
  BY <1>1, <1>2, <1>3 DEF Appends
<1>9. acc[N] \in Seq(Z) /\ \A y : y \in ToSet(acc[N]) <=> \E i \in keep : y = f[i]
  <2>1. Collected(acc[N], f, keep, Z)
    BY <1>7, <1>8, Appended
  <2> QED BY <2>1 DEF Collected
<1>6. \A y : y \in ToSet(acc[N]) <=> \E i \in 1 .. Len(s) : Joined(s[i]) /\ y = LinkLine(s[i])
  BY <1>2, <1>3, <1>9
<1>10. \A y : y \in {LinkLine(e) : e \in {x \in ToSet(s) : Joined(x)}} <=> \E i \in 1 .. Len(s) : Joined(s[i]) /\ y = LinkLine(s[i])
  <2>1. PICK K : K = {x \in ToSet(s) : Joined(x)}
    OBVIOUS
  <2>2. \A e : e \in K <=> \E i \in 1 .. Len(s) : e = s[i] /\ Joined(s[i])
    <3>1. \A e : e \in K <=> e \in ToSet(s) /\ Joined(e)
      BY <2>1
    <3>2. \A e : e \in ToSet(s) <=> \E i \in 1 .. Len(s) : e = s[i]
      BY Members
    <3> QED BY <3>1, <3>2, Zenon
  <2>3. \A y : y \in {LinkLine(e) : e \in K} <=> \E e \in K : y = LinkLine(e)
    OBVIOUS
  <2> QED BY <2>1, <2>2, <2>3
<1>11. ToSet(acc[N]) = {LinkLine(e) : e \in {x \in ToSet(s) : Joined(x)}}
  BY <1>6, <1>10
<1> QED BY <1>1, <1>3, <1>9, <1>11


\* The elements drawn, of which an id is mentioned first, among n.
Drawn(k) == page[k].id \notin Layers \cup {Nothing}
First(n) == {k \in 1 .. n : Drawn(k) /\ \A j \in 1 .. k - 1 : page[j].id # page[k].id}

Boxed(k)   == page[k].draws = "vertex" /\ page[k].label # Nothing
EdgeOf(k)  == <<page[k].from, page[k].to, page[k].label>>

DiagTyped ==
    /\ page \in Drawings /\ scanned \in 0 .. Len(page)
    /\ reading \in {"packed", "scan", "done", "skipped"}
    /\ reading = "packed" => scanned = 0
    /\ reading = "done" => scanned = Len(page)

\* The dicts hold what has been read, the lists what it draws.
KnownIds(names) ==
    /\ DOMAIN names = {page[k].id : k \in First(scanned)}
    /\ \A k \in 1 .. scanned : Drawn(k) => page[k].id \in DOMAIN names

DiagRead ==
    /\ KnownIds(labels) /\ KnownIds(parents)
    /\ \A k \in First(scanned) : labels[page[k].id] = page[k].label /\ parents[page[k].id] = page[k].parent
    /\ vertices \in Seq({page[k].id : k \in DOMAIN page})
    /\ \A v : v \in ToSet(vertices) <=> \E k \in First(scanned) : Boxed(k) /\ v = page[k].id
    /\ edges \in Seq({EdgeOf(k) : k \in DOMAIN page})
    /\ \A e : e \in ToSet(edges) <=> \E k \in First(scanned) : page[k].draws = "edge" /\ e = EdgeOf(k)

DiagInv == DiagTyped /\ DiagRead /\ DiagramIsWhole

LEMMA PageIs == ASSUME DiagTyped PROVE page \in Seq(ToSet(page)) /\ Len(page) \in Nat /\ DOMAIN page = 1 .. Len(page)
<1>1. page \in Seq(ToSet(page))
  BY DrawingsAssumption DEF DiagTyped
<1> QED BY <1>1

\* What was read stays read while nothing is read.
LEMMA DiagSteady ==
    ASSUME DiagRead, UNCHANGED <<page, scanned, labels, parents, vertices, edges>>
    PROVE  DiagRead'
<1>1. First(scanned)' = First(scanned)
  BY DEF First, Drawn
<1>2. KnownIds(labels)' /\ KnownIds(parents)'
  BY <1>1 DEF DiagRead, KnownIds, Drawn
<1>3. \A k \in First(scanned)' : labels'[page'[k].id] = page'[k].label /\ parents'[page'[k].id] = page'[k].parent
  BY <1>1 DEF DiagRead
<1>4. (vertices \in Seq({page[k].id : k \in DOMAIN page}))' /\ (edges \in Seq({EdgeOf(k) : k \in DOMAIN page}))'
  BY DEF DiagRead, EdgeOf
<1>5. (\A v : v \in ToSet(vertices) <=> \E k \in First(scanned) : Boxed(k) /\ v = page[k].id)'
  BY <1>1 DEF DiagRead, Boxed
<1>6. (\A e : e \in ToSet(edges) <=> \E k \in First(scanned) : page[k].draws = "edge" /\ e = EdgeOf(k))'
  BY <1>1 DEF DiagRead, EdgeOf
<1> QED BY <1>2, <1>3, <1>4, <1>5, <1>6 DEF DiagRead

LEMMA DiagInitInv == ASSUME DiagramInit PROVE DiagInv
<1>1. scanned = 0 /\ page \in Drawings /\ reading = "packed"
  BY DEF DiagramInit
<1>2. page \in Seq(ToSet(page))
  BY <1>1, DrawingsAssumption
<1>3. DiagTyped
  BY <1>1, <1>2 DEF DiagTyped
<1>4. First(scanned) = {} /\ 1 .. scanned = {}
  BY <1>1, EmptyRange DEF First
<1>5. DOMAIN labels = {} /\ DOMAIN parents = {} /\ ToSet(vertices) = {} /\ ToSet(edges) = {}
  BY DEF DiagramInit, ToSet
<1>6. vertices \in Seq({page[k].id : k \in DOMAIN page}) /\ edges \in Seq({EdgeOf(k) : k \in DOMAIN page})
  BY DEF DiagramInit
<1>7. KnownIds(labels) /\ KnownIds(parents)
  BY <1>4, <1>5 DEF KnownIds
<1>8. DiagRead
  BY <1>4, <1>5, <1>6, <1>7 DEF DiagRead
<1> QED BY <1>1, <1>3, <1>8 DEF DiagInv, DiagramIsWhole

\* The next element is a first mention exactly when Scan takes it.
LEMMA Taken ==
    ASSUME DiagTyped, KnownIds(labels), scanned < Len(page), NEW el, el = page[scanned + 1]
    PROVE  /\ (el.id \in Layers \cup {Nothing} \/ (el.tag = "cell" /\ el.id \in DOMAIN labels))
                  <=> scanned + 1 \notin First(scanned + 1)
           /\ First(scanned + 1) = First(scanned) \cup (IF scanned + 1 \in First(scanned + 1) THEN {scanned + 1} ELSE {})
           /\ scanned + 1 \notin First(scanned) /\ First(scanned) \subseteq 1 .. scanned
           /\ scanned + 1 \in First(scanned + 1) => el.id \notin DOMAIN labels
<1>1. PICK n \in Nat : n = scanned /\ n + 1 \in DOMAIN page /\ n + 1 \in Nat /\ 1 .. n \subseteq DOMAIN page
  BY PageIs DEF DiagTyped
<1>2. \A k : k \in 1 .. n + 1 <=> k \in 1 .. n \/ k = n + 1
  BY <1>1
<1>3. n + 1 \notin 1 .. n /\ (n + 1) - 1 = n
  BY <1>1
<1>4. First(n + 1) = First(n) \cup (IF n + 1 \in First(n + 1) THEN {n + 1} ELSE {})
  BY <1>2, <1>3 DEF First
<1>5. n + 1 \notin First(n) /\ First(n) \subseteq 1 .. n
  BY <1>3 DEF First
<1>6. n + 1 \in First(n + 1) <=> Drawn(n + 1) /\ \A j \in 1 .. n : page[j].id # el.id
  BY <1>1, <1>2, <1>3 DEF First
<1>7. el.id \in DOMAIN labels => \E j \in 1 .. n : page[j].id = el.id
  BY <1>1, <1>5 DEF KnownIds
<1>8. ASSUME Drawn(n + 1), NEW j \in 1 .. n, page[j].id = el.id
      PROVE  el.tag = "cell" /\ el.id \in DOMAIN labels
  <2>1. Drawn(j) /\ j < n + 1 /\ j \in DOMAIN page /\ page \in Drawings
    BY <1>1, <1>8 DEF Drawn, DiagTyped
  <2>2. el.tag = "cell"
    BY <1>1, <1>8, <2>1, DrawingsAssumption DEF Drawn
  <2>3. el.id \in DOMAIN labels
    BY <1>1, <1>8, <2>1 DEF KnownIds
  <2> QED BY <2>2, <2>3
<1>9. (el.id \in Layers \cup {Nothing}) <=> ~Drawn(n + 1)
  BY <1>1 DEF Drawn
<1> QED BY <1>1, <1>4, <1>5, <1>6, <1>7, <1>8, <1>9


LEMMA ScanStep == ASSUME DiagInv, Scan PROVE DiagInv'
<1>1. /\ scanned < Len(page) /\ reading = "scan" /\ scanned' = scanned + 1
      /\ UNCHANGED <<page, reading, listed, links>>
  BY DEF Scan
<1>2. PICK n \in Nat : n = scanned /\ n + 1 \in DOMAIN page /\ n + 1 \in Nat /\ 1 .. n \subseteq DOMAIN page
                      /\ n + 1 \in 0 .. Len(page)
  BY <1>1, PageIs DEF DiagInv, DiagTyped
<1>3. DiagTyped'
  BY <1>1, <1>2 DEF DiagInv, DiagTyped
<1>4. PICK el : el = page[n + 1]
  OBVIOUS
<1>5. /\ (el.id \in Layers \cup {Nothing} \/ (el.tag = "cell" /\ el.id \in DOMAIN labels))
             <=> n + 1 \notin First(n + 1)
      /\ First(n + 1) = First(n) \cup (IF n + 1 \in First(n + 1) THEN {n + 1} ELSE {})
      /\ n + 1 \notin First(n) /\ First(n) \subseteq 1 .. n
      /\ n + 1 \in First(n + 1) => el.id \notin DOMAIN labels
  BY <1>1, <1>2, <1>4, Taken DEF DiagInv, DiagRead
<1>6. PICK F, G : F = First(n) /\ G = First(n + 1) /\ First(scanned)' = G
  BY <1>1, <1>2 DEF First, Drawn
<1>7. PICK V, E : V = {page[k].id : k \in DOMAIN page} /\ E = {EdgeOf(k) : k \in DOMAIN page}
  OBVIOUS
<1>8. V' = V /\ E' = E
  OBVIOUS
<1>9. vertices \in Seq(V) /\ edges \in Seq(E) /\ el.id \in V /\ EdgeOf(n + 1) \in E
  BY <1>2, <1>4, <1>7 DEF DiagInv, DiagRead
<1>10. /\ DOMAIN labels = {page[k].id : k \in F} /\ DOMAIN parents = DOMAIN labels
       /\ \A k \in F : labels[page[k].id] = page[k].label /\ parents[page[k].id] = page[k].parent
       /\ \A v : v \in ToSet(vertices) <=> \E k \in F : Boxed(k) /\ v = page[k].id
       /\ \A e : e \in ToSet(edges) <=> \E k \in F : page[k].draws = "edge" /\ e = EdgeOf(k)
       /\ \A k \in 1 .. n : Drawn(k) => page[k].id \in DOMAIN labels
  BY <1>2, <1>6 DEF DiagInv, DiagRead, KnownIds
<1>11. SUFFICES
       /\ DOMAIN labels' = {page[k].id : k \in G} /\ DOMAIN parents' = DOMAIN labels'
       /\ \A k \in G : labels'[page[k].id] = page[k].label /\ parents'[page[k].id] = page[k].parent
       /\ vertices' \in Seq(V) /\ edges' \in Seq(E)
       /\ \A v : v \in ToSet(vertices') <=> \E k \in G : Boxed(k) /\ v = page[k].id
       /\ \A e : e \in ToSet(edges') <=> \E k \in G : page[k].draws = "edge" /\ e = EdgeOf(k)
       /\ \A k \in 1 .. n + 1 : Drawn(k) => page[k].id \in DOMAIN labels'
  <2>1. DiagRead'
    BY <1>1, <1>2, <1>6, <1>7, <1>11 DEF DiagRead, KnownIds, Boxed, EdgeOf, Drawn
  <2>2. DiagramIsWhole'
    BY <1>1 DEF DiagramIsWhole
  <2> QED BY <1>3, <2>1, <2>2 DEF DiagInv
<1>12. \A k : k \in 1 .. n + 1 <=> k \in 1 .. n \/ k = n + 1
  BY <1>2
<1>13. CASE n + 1 \notin G
  <2>1. G = F /\ UNCHANGED <<labels, parents, vertices, edges>>
    BY <1>2, <1>4, <1>5, <1>6, <1>13 DEF Scan
  <2>2. Drawn(n + 1) => el.id \in DOMAIN labels
    BY <1>4, <1>5, <1>6, <1>13 DEF Drawn
  <2> QED BY <1>4, <1>9, <1>10, <1>12, <2>1, <2>2
<1>14. CASE n + 1 \in G
  <2>1. /\ labels' = Put(labels, el.id, el.label) /\ parents' = Put(parents, el.id, el.parent)
        /\ edges' = IF el.draws = "edge" THEN Append(edges, EdgeOf(n + 1)) ELSE edges
        /\ vertices' = IF Boxed(n + 1) THEN Append(vertices, el.id) ELSE vertices
    BY <1>2, <1>4, <1>5, <1>6, <1>14 DEF Scan, Boxed, EdgeOf
  <2>2. G = F \cup {n + 1} /\ n + 1 \notin F /\ el.id \notin DOMAIN labels
    BY <1>5, <1>6, <1>14
  <2>3. /\ DOMAIN labels' = {el.id} \cup DOMAIN labels /\ labels'[el.id] = el.label
        /\ \A x \in DOMAIN labels : x # el.id => labels'[x] = labels[x]
    BY <2>1 DEF Put
  <2>4. /\ DOMAIN parents' = {el.id} \cup DOMAIN parents /\ parents'[el.id] = el.parent
        /\ \A x \in DOMAIN parents : x # el.id => parents'[x] = parents[x]
    BY <2>1 DEF Put
  <2>5. \A k \in F : page[k].id \in DOMAIN labels /\ page[k].id # el.id
    BY <1>10, <2>2
  <2>6. DOMAIN labels' = {page[k].id : k \in G} /\ DOMAIN parents' = DOMAIN labels'
    BY <1>4, <1>10, <2>2, <2>3, <2>4
  <2>7. \A k \in G : labels'[page[k].id] = page[k].label /\ parents'[page[k].id] = page[k].parent
    BY <1>4, <1>10, <2>2, <2>3, <2>4, <2>5
  <2>8. vertices' \in Seq(V) /\ \A v : v \in ToSet(vertices') <=> \E k \in G : Boxed(k) /\ v = page[k].id
    <3>1. CASE Boxed(n + 1)
      <4>1. PICK out \in Seq(V), x \in V : out = vertices /\ x = el.id
        BY <1>9
      <4>2. PICK new : new = vertices'
        OBVIOUS
      <4>3. new \in Seq(V) /\ Longer(new, out, x)
        BY <2>1, <3>1, <4>1, <4>2 DEF Longer
      <4>4. \A y : y \in ToSet(new) <=> y \in ToSet(out) \/ y = x
        BY <4>3, LongerSet DEF Grown
      <4> QED BY <1>4, <1>10, <2>2, <3>1, <4>1, <4>2, <4>3, <4>4
    <3>2. CASE ~Boxed(n + 1)
      BY <1>9, <1>10, <2>1, <2>2, <3>2
    <3> QED BY <3>1, <3>2
  <2>9. edges' \in Seq(E) /\ \A e : e \in ToSet(edges') <=> \E k \in G : page[k].draws = "edge" /\ e = EdgeOf(k)
    <3>1. CASE el.draws = "edge"
      <4>1. PICK out \in Seq(E), x \in E : out = edges /\ x = EdgeOf(n + 1)
        BY <1>9
      <4>2. PICK new : new = edges'
        OBVIOUS
      <4>3. new \in Seq(E) /\ Longer(new, out, x)
        BY <2>1, <3>1, <4>1, <4>2 DEF Longer
      <4>4. \A y : y \in ToSet(new) <=> y \in ToSet(out) \/ y = x
        BY <4>3, LongerSet DEF Grown
      <4> QED BY <1>4, <1>10, <2>2, <3>1, <4>1, <4>2, <4>3, <4>4
    <3>2. CASE el.draws # "edge"
      BY <1>4, <1>9, <1>10, <2>1, <2>2, <3>2
    <3> QED BY <3>1, <3>2
  <2>10. \A k \in 1 .. n + 1 : Drawn(k) => page[k].id \in DOMAIN labels'
    BY <1>4, <1>10, <1>12, <2>3
  <2> QED BY <2>6, <2>7, <2>8, <2>9, <2>10
<1> QED BY <1>13, <1>14


\* What the text of a page should hold.
Cells     == {page[i] : i \in {k \in DOMAIN page : /\ page[k].id \notin Layers \cup {Nothing}
                                                   /\ \A j \in 1 .. k - 1 : page[j].id # page[k].id}}
Inside(v)  == {c \in Cells : c.id = v.parent}
InLabel(v) == IF Inside(v) = {} THEN Nothing ELSE (CHOOSE c \in Inside(v) : TRUE).label
Boxes      == {<<InLabel(v), v.label>> : v \in {el \in Cells : el.draws = "vertex" /\ el.label # Nothing}}
Linked(y)  == /\ y[3].draws = "edge" /\ y[3].from = y[1].id /\ y[3].to = y[2].id
              /\ y[1].label # Nothing /\ y[2].label # Nothing
LinkLines     == {<<x[1].label, x[2].label, x[3].label>> : x \in {y \in Cells \X Cells \X Cells : Linked(y)}}

LEMMA WholeIs ==
    DiagramIsWhole <=> (reading = "done" => /\ ToSet(listed) = Boxes /\ Len(listed) = Cardinality(Boxes)
                                            /\ ToSet(links) = LinkLines /\ Len(links) = Cardinality(LinkLines))
  BY DEF DiagramIsWhole, Cells, Inside, InLabel, Boxes, Linked, LinkLines

LEMMA WholeIsNext ==
    DiagramIsWhole' <=> (reading' = "done" => /\ ToSet(listed') = Boxes' /\ Len(listed') = Cardinality(Boxes')
                                              /\ ToSet(links') = LinkLines' /\ Len(links') = Cardinality(LinkLines'))
  BY DEF DiagramIsWhole, Cells, Inside, InLabel, Boxes, Linked, LinkLines

LEMMA CellsAre ==
    ASSUME DiagTyped, DiagRead, scanned = Len(page)
    PROVE  /\ \A c : c \in Cells <=> \E k \in First(scanned) : c = page[k]
           /\ \A k \in First(scanned), m \in First(scanned) : page[k].id = page[m].id => k = m
           /\ \A k \in First(scanned) : LabelOf(page[k].id) = page[k].label /\ page[k].id \notin Layers
           /\ \A id : (\A k \in First(scanned) : page[k].id # id) => LabelOf(id) = Nothing
<1>1. PICK n \in Nat : n = scanned /\ DOMAIN page = 1 .. n
  BY PageIs
<1>2. First(n) = {k \in DOMAIN page : /\ page[k].id \notin Layers \cup {Nothing}
                                      /\ \A j \in 1 .. k - 1 : page[j].id # page[k].id}
  BY <1>1 DEF First, Drawn
<1>3. \A c : c \in Cells <=> \E k \in First(n) : c = page[k]
  BY <1>2 DEF Cells
<1>4. ASSUME NEW k \in First(n), NEW m \in First(n), page[k].id = page[m].id PROVE k = m
  <2>1. k \in 1 .. n /\ m \in 1 .. n
    BY DEF First
  <2>2. \A j \in 1 .. m - 1 : page[j].id # page[m].id
    BY DEF First
  <2>3. \A j \in 1 .. k - 1 : page[j].id # page[k].id
    BY DEF First
  <2>4. k < m => k \in 1 .. m - 1
    BY <2>1
  <2>5. m < k => m \in 1 .. k - 1
    BY <2>1
  <2>6. k < m \/ m < k \/ k = m
    BY <2>1
  <2> QED BY <1>4, <2>2, <2>3, <2>4, <2>5, <2>6
<1>5. \A k \in First(n) : page[k].id \in DOMAIN labels /\ labels[page[k].id] = page[k].label /\ page[k].id \notin Layers
  BY <1>1 DEF DiagRead, KnownIds, First, Drawn
<1>6. \A id : id \in DOMAIN labels => \E k \in First(n) : page[k].id = id
  BY <1>1 DEF DiagRead, KnownIds
<1> QED BY <1>1, <1>3, <1>4, <1>5, <1>6 DEF LabelOf

LEMMA ContainersAre ==
    ASSUME DiagTyped, DiagRead, scanned = Len(page), NEW k \in First(scanned)
    PROVE  Container(page[k].id) = InLabel(page[k])
<1>1. PICK v : v = page[k]
  OBVIOUS
<1>2. parents[v.id] = v.parent
  BY <1>1 DEF DiagRead
<1>3. \A c : c \in Inside(v) <=> \E m \in First(scanned) : c = page[m] /\ c.id = v.parent
  BY CellsAre DEF Inside
<1>4. CASE Inside(v) = {}
  <2>1. LabelOf(v.parent) = Nothing
    BY <1>3, <1>4, CellsAre
  <2> QED BY <1>1, <1>2, <1>4, <2>1 DEF Container, InLabel
<1>5. CASE Inside(v) # {}
  <2>1. PICK c : c \in Inside(v) /\ c = CHOOSE x \in Inside(v) : TRUE
    BY <1>5
  <2>2. PICK m \in First(scanned) : c = page[m] /\ c.id = v.parent
    BY <1>3, <2>1
  <2>3. LabelOf(v.parent) = c.label /\ v.parent \notin Layers
    BY <2>2, CellsAre
  <2> QED BY <1>1, <1>2, <1>5, <2>1, <2>3 DEF Container, InLabel
<1> QED BY <1>4, <1>5

LEMMA RenderStep == ASSUME DiagInv, Render PROVE DiagInv'
<1>1. /\ reading = "scan" /\ scanned = Len(page) /\ reading' = "done"
      /\ UNCHANGED <<page, scanned, labels, parents, vertices, edges>>
  BY DEF Render
<1>2. DiagTyped /\ DiagRead
  BY DEF DiagInv
<1>3. DiagTyped' /\ DiagRead'
  <2>1. DiagTyped'
    BY <1>1, <1>2 DEF DiagTyped
  <2> QED BY <1>1, <1>2, <2>1, DiagSteady
<1>4. PICK F : F = First(scanned)
  OBVIOUS
<1>5. /\ \A c : c \in Cells <=> \E k \in F : c = page[k]
      /\ \A k \in F, m \in F : page[k].id = page[m].id => k = m
      /\ \A k \in F : LabelOf(page[k].id) = page[k].label
      /\ \A id : (\A k \in F : page[k].id # id) => LabelOf(id) = Nothing
      /\ \A k \in F : Container(page[k].id) = InLabel(page[k])
      /\ \A k \in F : labels[page[k].id] = page[k].label
  BY <1>1, <1>2, <1>4, CellsAre, ContainersAre DEF DiagRead
<1>6. ToSet(listed') = Boxes /\ Len(listed') = Cardinality(Boxes)
  <2>1. PICK s, Z : /\ s = [i \in DOMAIN vertices |-> <<Container(vertices[i]), labels[vertices[i]]>>]
                    /\ Z = {<<Container(vertices[i]), labels[vertices[i]]>> : i \in DOMAIN vertices}
    OBVIOUS
  <2>2. Len(vertices) \in Nat /\ DOMAIN vertices = 1 .. Len(vertices)
    BY <1>2 DEF DiagRead
  <2>3. s \in Seq(Z) /\ Len(s) = Len(vertices)
    BY <2>1, <2>2
  <2>4. listed' = Once(s)
    BY <2>1 DEF Render
  <2>5. ToSet(Once(s)) = ToSet(s) /\ Len(Once(s)) = Cardinality(ToSet(s))
    BY <2>3, OnceIs
  <2>6. \A y : y \in ToSet(s) <=> \E i \in 1 .. Len(vertices) : y = <<Container(vertices[i]), labels[vertices[i]]>>
    <3>1. \A y : y \in ToSet(s) <=> \E i \in 1 .. Len(s) : y = s[i]
      BY <2>3, Members
    <3>2. \A i \in 1 .. Len(vertices) : s[i] = <<Container(vertices[i]), labels[vertices[i]]>>
      BY <2>1, <2>2
    <3>3. PICK n : n = Len(vertices) /\ Len(s) = n
      BY <2>3
    <3>4. \A y : (\E i \in 1 .. n : y = s[i]) <=> (\E i \in 1 .. n : y = <<Container(vertices[i]), labels[vertices[i]]>>)
      BY <3>2, <3>3
    <3> QED BY <3>1, <3>3, <3>4
  <2>7. \A v : v \in ToSet(vertices) <=> \E i \in 1 .. Len(vertices) : v = vertices[i]
    <3>1. vertices \in Seq({page[k].id : k \in DOMAIN page})
      BY <1>2 DEF DiagRead
    <3> QED BY <3>1, Members
  <2>8. \A v : v \in ToSet(vertices) <=> \E k \in F : Boxed(k) /\ v = page[k].id
    BY <1>2, <1>4 DEF DiagRead
  <2>9. \A y : y \in ToSet(s) <=> \E k \in F : Boxed(k) /\ y = <<InLabel(page[k]), page[k].label>>
    <3>1. \A y : y \in ToSet(s) <=> \E v \in ToSet(vertices) : y = <<Container(v), labels[v]>>
      BY <2>6, <2>7
    <3>2. \A k \in F : <<Container(page[k].id), labels[page[k].id]>> = <<InLabel(page[k]), page[k].label>>
      BY <1>5
    <3> QED BY <2>8, <3>1, <3>2
  <2>10. \A y : y \in Boxes <=> \E k \in F : Boxed(k) /\ y = <<InLabel(page[k]), page[k].label>>
    <3>1. \A y : y \in Boxes <=> \E c \in Cells : c.draws = "vertex" /\ c.label # Nothing /\ y = <<InLabel(c), c.label>>
      BY DEF Boxes
    <3> QED BY <1>5, <3>1 DEF Boxed
  <2>11. ToSet(s) = Boxes
    BY <2>9, <2>10
  <2> QED BY <2>4, <2>5, <2>11
<1>7. ToSet(links') = LinkLines /\ Len(links') = Cardinality(LinkLines)
  <2>1. edges \in Seq({EdgeOf(k) : k \in DOMAIN page})
    BY <1>2 DEF DiagRead
  <2>2. PICK s, Z : s = Named(edges) /\ s \in Seq(Z) /\ ToSet(s) = {LinkLine(e) : e \in {x \in ToSet(edges) : Joined(x)}}
    BY <2>1, NamedIs
  <2>3. ToSet(Once(s)) = ToSet(s) /\ Len(Once(s)) = Cardinality(ToSet(s))
    BY <2>2, OnceIs
  <2>4. links' = Once(s)
    BY <2>2 DEF Render
  <2>5. \A y : y \in ToSet(s) <=> \E e \in ToSet(edges) : Joined(e) /\ y = LinkLine(e)
    <3>1. PICK K : K = {x \in ToSet(edges) : Joined(x)}
      OBVIOUS
    <3>2. \A e : e \in K <=> e \in ToSet(edges) /\ Joined(e)
      BY <3>1
    <3>3. \A y : y \in {LinkLine(e) : e \in K} <=> \E e \in K : y = LinkLine(e)
      OBVIOUS
    <3> QED BY <2>2, <3>1, <3>2, <3>3
  <2>6. \A e : e \in ToSet(edges) <=> \E k \in F : page[k].draws = "edge" /\ e = EdgeOf(k)
    BY <1>2, <1>4 DEF DiagRead
  <2>7. \A k : /\ Joined(EdgeOf(k)) <=> LabelOf(page[k].from) # Nothing /\ LabelOf(page[k].to) # Nothing
               /\ LinkLine(EdgeOf(k)) = <<LabelOf(page[k].from), LabelOf(page[k].to), page[k].label>>
    BY DEF Joined, LinkLine, EdgeOf
  <2>8. \A y : y \in ToSet(s) <=>
            \E k \in F : /\ page[k].draws = "edge" /\ LabelOf(page[k].from) # Nothing /\ LabelOf(page[k].to) # Nothing
                         /\ y = <<LabelOf(page[k].from), LabelOf(page[k].to), page[k].label>>
    BY <2>5, <2>6, <2>7
  <2>9. \A y : y \in LinkLines <=>
            \E k \in F, a \in F, b \in F :
                /\ page[k].draws = "edge" /\ page[k].from = page[a].id /\ page[k].to = page[b].id
                /\ page[a].label # Nothing /\ page[b].label # Nothing
                /\ y = <<page[a].label, page[b].label, page[k].label>>
    <3>1. \A y : y \in LinkLines <=>
              \E c1 \in Cells, c2 \in Cells, c3 \in Cells :
                  /\ c3.draws = "edge" /\ c3.from = c1.id /\ c3.to = c2.id /\ c1.label # Nothing /\ c2.label # Nothing
                  /\ y = <<c1.label, c2.label, c3.label>>
      <4>1. PICK K : K = {x \in Cells \X Cells \X Cells : Linked(x)}
        OBVIOUS
      <4>2. \A x : x \in K <=> x \in Cells \X Cells \X Cells /\ Linked(x)
        BY <4>1
      <4>3. \A y : y \in LinkLines <=> \E x \in K : y = <<x[1].label, x[2].label, x[3].label>>
        BY <4>1 DEF LinkLines
      <4>4. \A x : x \in Cells \X Cells \X Cells <=>
                      \E c1 \in Cells, c2 \in Cells, c3 \in Cells : x = <<c1, c2, c3>>
        OBVIOUS
      <4>5. ASSUME NEW y, y \in LinkLines
            PROVE  \E c1 \in Cells, c2 \in Cells, c3 \in Cells :
                       /\ c3.draws = "edge" /\ c3.from = c1.id /\ c3.to = c2.id /\ c1.label # Nothing /\ c2.label # Nothing
                       /\ y = <<c1.label, c2.label, c3.label>>
        <5>1. PICK x \in K : y = <<x[1].label, x[2].label, x[3].label>>
          BY <4>3, <4>5
        <5>2. PICK c1 \in Cells, c2 \in Cells, c3 \in Cells : x = <<c1, c2, c3>>
          BY <4>2, <4>4
        <5>3. Linked(<<c1, c2, c3>>)
          BY <4>2, <5>2
        <5> QED BY <5>1, <5>2, <5>3 DEF Linked
      <4>6. ASSUME NEW y, NEW c1 \in Cells, NEW c2 \in Cells, NEW c3 \in Cells,
                   c3.draws = "edge", c3.from = c1.id, c3.to = c2.id, c1.label # Nothing, c2.label # Nothing,
                   y = <<c1.label, c2.label, c3.label>>
            PROVE  y \in LinkLines
        <5>1. PICK x : x = <<c1, c2, c3>>
          OBVIOUS
        <5>2. x \in K
          BY <4>2, <4>6, <5>1 DEF Linked
        <5> QED BY <4>3, <4>6, <5>1, <5>2
      <4> QED BY <4>5, <4>6
    <3> QED BY <1>5, <3>1
  <2>10. \A id : LabelOf(id) # Nothing => \E a \in F : page[a].id = id /\ page[a].label = LabelOf(id)
    BY <1>5
  <2>11. \A y : y \in ToSet(s) <=> y \in LinkLines
    <3>1. ASSUME NEW y, y \in ToSet(s) PROVE y \in LinkLines
      BY <2>8, <2>9, <2>10, <3>1
    <3>2. ASSUME NEW y, y \in LinkLines PROVE y \in ToSet(s)
      BY <1>5, <2>8, <2>9, <3>2
    <3> QED BY <3>1, <3>2
  <2>12. ToSet(s) = LinkLines
    BY <2>11
  <2> QED BY <2>3, <2>4, <2>12
<1>8. Boxes' = Boxes /\ LinkLines' = LinkLines
  BY <1>1 DEF Boxes, LinkLines, Cells, InLabel, Inside, Linked
<1>9. DiagramIsWhole'
  BY <1>6, <1>7, <1>8, WholeIsNext
<1> QED BY <1>3, <1>9 DEF DiagInv

\* The text of a diagram is whole, whatever the drawing and the order of its
\* elements in the file.
THEOREM DiagramTheorem == DiagramSpec => []DiagramIsWhole
<1>1. ASSUME DiagInv, [DiagramNext]_diagramVars PROVE DiagInv'
  <2>1. CASE DecodeDiagram
    <3>1. UNCHANGED <<page, scanned, labels, parents, vertices, edges, listed, links>> /\ reading' \in {"scan", "skipped"}
      BY <2>1 DEF DecodeDiagram
    <3>2. DiagTyped' /\ DiagRead'
      <4>1. DiagTyped'
        BY <1>1, <3>1 DEF DiagInv, DiagTyped
      <4> QED BY <1>1, <3>1, <4>1, DiagSteady DEF DiagInv
    <3>3. DiagramIsWhole'
      BY <3>1 DEF DiagramIsWhole
    <3> QED BY <3>2, <3>3 DEF DiagInv
  <2>2. CASE UNCHANGED diagramVars
    <3>1. UNCHANGED <<page, reading, scanned, labels, parents, vertices, edges, listed, links>>
      BY <2>2 DEF diagramVars
    <3>2. DiagTyped' /\ DiagRead'
      <4>1. DiagTyped'
        BY <1>1, <3>1 DEF DiagInv, DiagTyped
      <4> QED BY <1>1, <3>1, <4>1, DiagSteady DEF DiagInv
    <3>3. DiagramIsWhole'
      <4>1. Boxes' = Boxes /\ LinkLines' = LinkLines
        BY <3>1 DEF Boxes, LinkLines, Cells, InLabel, Inside, Linked
      <4> QED BY <1>1, <3>1, <4>1, WholeIs, WholeIsNext DEF DiagInv
    <3> QED BY <3>2, <3>3 DEF DiagInv
  <2> QED BY <1>1, <2>1, <2>2, ScanStep, RenderStep DEF DiagramNext
<1>2. DiagInv => DiagramIsWhole
  BY DEF DiagInv
<1> QED BY <1>1, <1>2, DiagInitInv, PTL DEF DiagramSpec

USE SlotsAssumption

-----------------------------------------------------------------------------
(* Ranges of rows, <<first, last>>, one after the other.                    *)

Pairs == Nat \X Nat

\* The ranges go up, do not meet, and have the members of R between them.
Spans(out, R) ==
    /\ out \in Seq(Pairs)
    /\ \A i \in 1 .. Len(out) : 1 <= out[i][1] /\ out[i][1] <= out[i][2]
    /\ \A i, j \in 1 .. Len(out) : i < j => out[i][2] < out[j][1]
    /\ \A r \in Nat : r \in R <=> \E i \in 1 .. Len(out) : out[i][1] <= r /\ r <= out[i][2]

LEMMA PairParts == \A p \in Pairs : p[1] \in Nat /\ p[2] \in Nat /\ p = <<p[1], p[2]>>
BY DEF Pairs

LEMMA NoSpans == \A R : (\A r \in Nat : r \notin R) => Spans(<<>>, R)
BY EmptyRange DEF Spans

\* One more range after them.
LEMMA SpanMore ==
    ASSUME NEW out, NEW R, Spans(out, R), NEW a \in Nat, NEW b \in Nat, 1 <= a, a <= b,
           \A r \in Nat : r \in R => r < a,
           NEW Q, \A r \in Nat : r \in Q <=> r \in R \/ (a <= r /\ r <= b),
           NEW new, new = Append(out, <<a, b>>)
    PROVE  Spans(new, Q)
<1>1. PICK x \in Pairs : x = <<a, b>> /\ x[1] = a /\ x[2] = b
  <2>1. <<a, b>> \in Pairs /\ <<a, b>>[1] = a /\ <<a, b>>[2] = b
    BY Zenon DEF Pairs
  <2> QED BY <2>1
<1>2. new = Append(out, x)
  BY <1>1
<1>3. /\ out \in Seq(Pairs) /\ new \in Seq(Pairs) /\ Len(new) = Len(out) + 1 /\ new[Len(out) + 1] = x
      /\ \A i \in 1 .. Len(out) : new[i] = out[i]
  BY <1>2 DEF Spans
<1>4. Len(out) \in Nat /\ \A i \in 1 .. Len(out) : out[i] \in Pairs /\ out[i][1] \in Nat /\ out[i][2] \in Nat
  <2>1. ASSUME NEW i \in 1 .. Len(out) PROVE out[i] \in Pairs
    BY <1>3
  <2>2. Len(out) \in Nat
    BY <1>3
  <2> QED BY <2>1, <2>2, PairParts
<1>5. \A i : i \in 1 .. Len(new) <=> i \in 1 .. Len(out) \/ i = Len(out) + 1
  BY <1>3, <1>4
<1>6. ASSUME NEW i \in 1 .. Len(out) PROVE out[i][2] < a
  <2>1. out[i][1] <= out[i][2] /\ out[i][2] \in Nat
    BY <1>4 DEF Spans
  <2>2. out[i][2] \in R
    BY <2>1, <1>4 DEF Spans
  <2> QED BY <2>1, <2>2
<1>7. \A i \in 1 .. Len(new) : 1 <= new[i][1] /\ new[i][1] <= new[i][2]
  BY <1>1, <1>3, <1>5 DEF Spans
<1>8. ASSUME NEW i \in 1 .. Len(new), NEW j \in 1 .. Len(new), i < j PROVE new[i][2] < new[j][1]
  <2>1. i \in 1 .. Len(out) /\ new[i] = out[i]
    BY <1>3, <1>4, <1>5, <1>8
  <2>2. CASE j \in 1 .. Len(out)
    BY <1>3, <1>8, <2>1, <2>2 DEF Spans
  <2>3. CASE j = Len(out) + 1
    BY <1>1, <1>3, <1>6, <2>1, <2>3
  <2> QED BY <1>5, <2>2, <2>3
<1>9. ASSUME NEW r \in Nat PROVE r \in Q <=> \E i \in 1 .. Len(new) : new[i][1] <= r /\ r <= new[i][2]
  <2>1. (\E i \in 1 .. Len(new) : new[i][1] <= r /\ r <= new[i][2])
        <=> (\E i \in 1 .. Len(out) : out[i][1] <= r /\ r <= out[i][2]) \/ (a <= r /\ r <= b)
    <3>1. \A i \in 1 .. Len(new) : new[i][1] <= r /\ r <= new[i][2] =>
              (\E k \in 1 .. Len(out) : out[k][1] <= r /\ r <= out[k][2]) \/ (a <= r /\ r <= b)
      BY <1>1, <1>3, <1>5
    <3>2. \A i \in 1 .. Len(out) : out[i][1] <= r /\ r <= out[i][2] =>
              \E k \in 1 .. Len(new) : new[k][1] <= r /\ r <= new[k][2]
      BY <1>3, <1>5
    <3>3. a <= r /\ r <= b => \E k \in 1 .. Len(new) : new[k][1] <= r /\ r <= new[k][2]
      BY <1>1, <1>3, <1>5
    <3> QED BY <3>1, <3>2, <3>3
  <2>2. r \in R <=> \E i \in 1 .. Len(out) : out[i][1] <= r /\ r <= out[i][2]
    BY DEF Spans
  <2> QED BY <2>1, <2>2
<1> QED BY <1>1, <1>2, <1>3, <1>7, <1>8, <1>9 DEF Spans

\* The last range grows by a row.
Reaches(new, out, b) == new = [out EXCEPT ![Len(out)][2] = b]

LEMMA SpanGrows ==
    ASSUME NEW out, NEW R, Spans(out, R), out # <<>>, NEW b \in Nat,
           out[Len(out)][2] + 1 = b,
           NEW Q, \A r \in Nat : r \in Q <=> r \in R \/ r = b,
           NEW new, Reaches(new, out, b)
    PROVE  Spans(new, Q) /\ new # <<>> /\ Len(new) = Len(out) /\ new[Len(out)][2] = b
<1>1. PICK n \in Nat : n = Len(out) /\ n \in 1 .. n
  BY DEF Spans
<1>2. new = [out EXCEPT ![n][2] = b]
  BY <1>1 DEF Reaches
<1>3. out \in Seq(Pairs) /\ \A i \in 1 .. n : out[i] \in Pairs /\ out[i][1] \in Nat /\ out[i][2] \in Nat
  <2>1. out \in Seq(Pairs)
    BY DEF Spans
  <2>2. ASSUME NEW i \in 1 .. n PROVE out[i] \in Pairs
    BY <1>1, <2>1
  <2> QED BY <2>1, <2>2, PairParts
<1>4. PICK x \in Pairs : x = [out[n] EXCEPT ![2] = b] /\ x[1] = out[n][1] /\ x[2] = b
  <2>1. PICK p \in Pairs : p = out[n]
    BY <1>1, <1>3
  <2>2. [p EXCEPT ![2] = b] = <<p[1], b>>
    BY <2>1 DEF Pairs
  <2> QED BY <2>1, <2>2 DEF Pairs
<1>5. new = [out EXCEPT ![n] = x]
  BY <1>2, <1>4
<1>6. new \in Seq(Pairs) /\ Len(new) = n /\ new[n] = x /\ \A i \in 1 .. n : i # n => new[i] = out[i]
  BY <1>1, <1>3, <1>5
<1>7. \A i \in 1 .. n : new[i][1] = out[i][1]
  BY <1>4, <1>6
<1>8. \A i \in 1 .. n : 1 <= new[i][1] /\ new[i][1] <= new[i][2]
  <2>1. \A i \in 1 .. n : 1 <= out[i][1] /\ out[i][1] <= out[i][2]
    BY <1>1 DEF Spans
  <2>2. out[n][2] <= b /\ new[n][2] = b
    BY <1>1, <1>3, <1>4, <1>6
  <2>3. out[n][1] <= b
    BY <1>1, <1>3, <2>1, <2>2
  <2> QED BY <1>1, <1>6, <1>7, <2>1, <2>2, <2>3
<1>9. \A i, j \in 1 .. n : i < j => new[i][2] < new[j][1]
  BY <1>1, <1>6, <1>7 DEF Spans
<1>10. ASSUME NEW r \in Nat PROVE r \in Q <=> \E i \in 1 .. n : new[i][1] <= r /\ r <= new[i][2]
  <2>1. r \in R <=> \E i \in 1 .. n : out[i][1] <= r /\ r <= out[i][2]
    BY <1>1 DEF Spans
  <2>2. ASSUME NEW i \in 1 .. n
        PROVE  (new[i][1] <= r /\ r <= new[i][2]) <=> ((out[i][1] <= r /\ r <= out[i][2]) \/ (i = n /\ r = b))
    <3>1. CASE i # n
      BY <1>6, <3>1
    <3>2. CASE i = n
      <4>1. new[i][1] = out[i][1] /\ new[i][2] = b /\ out[i][2] + 1 = b /\ out[i][1] <= out[i][2]
        BY <1>1, <1>4, <1>6, <3>2 DEF Spans
      <4>2. out[i][1] \in Nat /\ out[i][2] \in Nat
        BY <1>3
      <4> QED BY <3>2, <4>1, <4>2
    <3> QED BY <3>1, <3>2
  <2> QED BY <1>1, <2>1, <2>2
<1>11. new # <<>> /\ new[n][2] = b
  BY <1>1, <1>4, <1>6
<1> QED BY <1>1, <1>2, <1>6, <1>8, <1>9, <1>10, <1>11 DEF Spans

-----------------------------------------------------------------------------
(* Sheets: groups.                                                          *)

Packs == [out : Seq(Pairs), tokens : Int]

\* The next item joins the open group or opens one.
PackNext(acc, r, w, lead, rep) ==
    IF acc.out = <<>> THEN [out |-> <<<<r, r>>>>, tokens |-> lead + w]
    ELSE IF acc.tokens + w > SheetLimit
      THEN [out |-> Append(acc.out, <<r, r>>), tokens |-> rep + w]
    ELSE [out |-> [acc.out EXCEPT ![Len(acc.out)][2] = r], tokens |-> acc.tokens + w]

LEMMA PackClosed ==
    ASSUME NEW acc \in Packs, NEW r \in Nat, NEW w \in Int, NEW lead \in Int, NEW rep \in Int
    PROVE  PackNext(acc, r, w, lead, rep) \in Packs
<1>1. PICK out \in Seq(Pairs), t \in Int : acc = [out |-> out, tokens |-> t] /\ acc.out = out /\ acc.tokens = t
  BY DEF Packs
<1>2. PICK x \in Pairs : x = <<r, r>>
  BY DEF Pairs
<1>3. CASE out = <<>>
  <2>1. <<x>> \in Seq(Pairs) /\ lead + w \in Int
    OBVIOUS
  <2> QED BY <1>1, <1>2, <1>3, <2>1 DEF PackNext, Packs
<1>4. CASE out # <<>> /\ t + w > SheetLimit
  <2>1. Append(out, x) \in Seq(Pairs) /\ rep + w \in Int
    OBVIOUS
  <2> QED BY <1>1, <1>2, <1>4, <2>1 DEF PackNext, Packs
<1>5. CASE out # <<>> /\ ~(t + w > SheetLimit)
  <2>1. PICK n \in 1 .. Len(out) : n = Len(out)
    BY <1>5
  <2>2. PICK y \in Pairs : y = out[n]
    BY <2>1
  <2>3. [y EXCEPT ![2] = r] \in Pairs
    <3>1. y = <<y[1], y[2]>> /\ y[1] \in Nat
      BY PairParts
    <3>2. [y EXCEPT ![2] = r] = <<y[1], r>>
      BY <3>1
    <3> QED BY <3>1, <3>2 DEF Pairs
  <2>4. [out EXCEPT ![n] = [y EXCEPT ![2] = r]] \in Seq(Pairs)
    BY <2>1, <2>3
  <2>5. [out EXCEPT ![n][2] = r] \in Seq(Pairs) /\ t + w \in Int
    BY <2>2, <2>4
  <2> QED BY <1>1, <1>5, <2>1, <2>5 DEF PackNext, Packs
<1> QED BY <1>3, <1>4, <1>5

\* How GroupRows comes to its result, item by item.
GroupTrace(acc, order, weight, lead, rep) ==
    /\ acc[0] = [out |-> <<>>, tokens |-> 0]
    /\ GroupRows(order, weight, lead, rep) = acc[Len(order)].out
    /\ \A i \in 1 .. Len(order) : acc[i] = PackNext(acc[i - 1], order[i], weight[order[i]], lead, rep)

LEMMA GroupSteps ==
    ASSUME NEW order \in Seq(Nat), NEW weight, \A i \in 1 .. Len(order) : weight[order[i]] \in Int,
           NEW lead \in Int, NEW rep \in Int
    PROVE  \E acc : GroupTrace(acc, order, weight, lead, rep)
<1> DEFINE N == Len(order)
           D == DOMAIN order
           Zero0 == [out |-> <<>>, tokens |-> 0]
           Step(y, i) == PackNext(y, order[i], weight[order[i]], lead, rep)
           Law(g) == g = [t \in SUBSET D |-> IF t = {} THEN Zero0 ELSE Step(g[t \ {Max(t)}], Max(t))]
           h == CHOOSE g : Law(g)
<1>0. Zero0 \in Packs /\ N \in Nat /\ D = 1 .. N
  BY DEF Packs
<1>1. \A y \in Packs, i \in 1 .. N : Step(y, i) \in Packs
  <2>1. \A i \in 1 .. N : order[i] \in Nat
    OBVIOUS
  <2> QED BY <2>1, PackClosed
<1>2. PICK Y : Y = Packs
  OBVIOUS
<1> DEFINE step == [p \in (1 .. N) \X Y |-> Step(p[2], p[1])]
<1> HIDE DEF Step, N, D, Zero0
<1>3. step \in [(1 .. N) \X Y -> Y]
  BY <1>1, <1>2
<1>4. PICK g : Folds(g, Y, Zero0, N, step)
  <2> HIDE DEF step
  <2>1. PICK base \in Y : base = Zero0
    BY <1>0, <1>2
  <2>2. \E g : Folds(g, Y, base, N, step)
    BY <1>0, <1>3, FoldExists
  <2> QED BY <2>1, <2>2
<1>5. Law(g)
  <2>1. ASSUME NEW t \in SUBSET (1 .. N), t # {}
        PROVE  step[<<Max(t), g[t \ {Max(t)}]>>] = Step(g[t \ {Max(t)}], Max(t))
    <3>1. Max(t) \in 1 .. N
      BY <1>0, <2>1, MaxOf
    <3>2. g[t \ {Max(t)}] \in Y
      BY <1>4 DEF Folds
    <3> QED BY <3>1, <3>2
  <2> HIDE DEF step
  <2> QED BY <1>0, <1>4, <2>1 DEF Folds
<1>6. Law(h)
  <2> HIDE DEF Law
  <2> QED BY <1>5
<1>7. GroupRows(order, weight, lead, rep) = h[D].out
  BY DEF GroupRows, FoldLeft, MapThenFoldSet, Step, D, PackNext, Zero0
<1> HIDE DEF h
<1>8. \A t \in SUBSET (1 .. N) : h[t] = IF t = {} THEN Zero0 ELSE Step(h[t \ {Max(t)}], Max(t))
  BY <1>0, <1>6
<1>9. h[{}] = Zero0 /\ \A i \in 1 .. N : h[1 .. i] = Step(h[1 .. i - 1], i)
  <2>1. {} \in SUBSET (1 .. N)
    OBVIOUS
  <2> QED BY <1>0, <1>8, <2>1, Prefix
<1>10. PICK acc : acc = [i \in 0 .. N |-> h[1 .. i]]
  OBVIOUS
<1>11. acc[0] = Zero0 /\ acc[N].out = GroupRows(order, weight, lead, rep) /\ \A i \in 1 .. N : acc[i] = Step(acc[i - 1], i)
  BY <1>0, <1>7, <1>9, <1>10, EmptyRange
<1> QED BY <1>11 DEF GroupTrace, N, Step, Zero0


\* n items from a on are in groups.
PackedTo(acc, a, n) ==
    /\ acc \in Packs /\ Spans(acc.out, a .. a + n - 1)
    /\ acc.out # <<>> <=> n > 0
    /\ n > 0 => acc.out[Len(acc.out)][2] = a + n - 1

\* One item more, the one that follows.
LEMMA PackOne ==
    ASSUME NEW a \in Nat, 1 <= a, NEW n \in Nat, NEW acc, PackedTo(acc, a, n),
           NEW w \in Int, NEW lead \in Int, NEW rep \in Int,
           NEW new, new = PackNext(acc, a + n, w, lead, rep)
    PROVE  PackedTo(new, a, n + 1)
<1> SUFFICES Spans(new.out, a .. a + n) /\ new.out # <<>> /\ new.out[Len(new.out)][2] = a + n
  <2>1. new \in Packs
    <3>1. a + n \in Nat /\ acc \in Packs
      BY DEF PackedTo
    <3> QED BY <3>1, PackClosed
  <2>2. a + (n + 1) - 1 = a + n /\ n + 1 > 0
    OBVIOUS
  <2> QED BY <2>1, <2>2 DEF PackedTo
<1>1. PICK out \in Seq(Pairs) : /\ acc.out = out /\ Spans(out, a .. a + n - 1)
                                /\ out # <<>> <=> n > 0
                                /\ n > 0 => out[Len(out)][2] = a + n - 1
  BY DEF Packs, PackedTo
<1>2. PICK r \in Nat : r = a + n /\ 1 <= r
  OBVIOUS
<1>3. \A x \in Nat : x \in a .. a + n <=> x \in a .. a + n - 1 \/ (r <= x /\ x <= r)
  BY <1>2
<1>4. PICK x \in Pairs : x = <<r, r>> /\ x[2] = r
  <2>1. <<r, r>> \in Pairs /\ <<r, r>>[2] = r
    BY DEF Pairs
  <2> QED BY <2>1
<1>5. PICK Q, R : Q = a .. a + n /\ R = a .. a + n - 1
  OBVIOUS
<1>6. \A y \in Nat : y \in R => y < r
  BY <1>2, <1>5
<1>7. Spans(out, R) /\ \A y \in Nat : y \in Q <=> y \in R \/ (r <= y /\ y <= r)
  BY <1>1, <1>3, <1>5
<1>8. Spans(Append(out, x), Q)
  <2>1. PICK longer : longer = Append(out, x) /\ longer = Append(out, <<r, r>>)
    BY <1>4
  <2>2. r <= r
    OBVIOUS
  <2>3. Spans(longer, Q)
    BY <1>2, <1>6, <1>7, <2>1, <2>2, SpanMore
  <2> QED BY <2>1, <2>3
<1>9. Append(out, x) # <<>> /\ Append(out, x)[Len(Append(out, x))] = x
  OBVIOUS
<1>10. CASE out = <<>>
  <2>1. new.out = <<x>>
    BY <1>1, <1>2, <1>4, <1>10 DEF PackNext
  <2>2. Append(out, x) = <<x>>
    BY <1>10
  <2> QED BY <1>2, <1>4, <1>5, <1>8, <1>9, <2>1, <2>2
<1>11. CASE out # <<>> /\ acc.tokens + w > SheetLimit
  <2>1. new.out = Append(out, x)
    BY <1>1, <1>2, <1>4, <1>11 DEF PackNext
  <2> QED BY <1>2, <1>4, <1>5, <1>8, <1>9, <2>1
<1>12. CASE out # <<>> /\ ~(acc.tokens + w > SheetLimit)
  <2>1. PICK grown : grown = new.out /\ Reaches(grown, out, r)
    BY <1>1, <1>2, <1>12 DEF PackNext, Reaches
  <2>2. out[Len(out)][2] + 1 = r
    BY <1>1, <1>2, <1>12
  <2>3. \A y \in Nat : y \in Q <=> y \in R \/ y = r
    BY <1>2, <1>5
  <2>4. Spans(grown, Q) /\ grown # <<>> /\ Len(grown) = Len(out) /\ grown[Len(out)][2] = r
    <3>1. Spans(out, R) /\ out # <<>> /\ Reaches(grown, out, r)
      BY <1>7, <1>12, <2>1
    <3> QED BY ONLY <2>2, <2>3, <3>1, r \in Nat, SpanGrows
  <2> QED BY <1>2, <1>5, <2>1, <2>4
<1> QED BY <1>10, <1>11, <1>12

\* The items a .. b in groups: every item in one, in order.
LEMMA GroupsSpan ==
    ASSUME NEW a \in Nat, 1 <= a, NEW b \in Nat, a <= b + 1,
           NEW weight, \A r \in a .. b : weight[r] \in Int, NEW lead \in Int, NEW rep \in Int
    PROVE  /\ Spans(GroupRows(Upto(a, b), weight, lead, rep), a .. b)
           /\ a <= b => GroupRows(Upto(a, b), weight, lead, rep) # <<>>
<1>1. PICK order \in Seq(Nat) : order = Upto(a, b) /\ Len(order) = b - a + 1
                                /\ \A i \in 1 .. Len(order) : order[i] = a + i - 1
  <2>1. PICK n \in Nat : n = b - a + 1
    OBVIOUS
  <2>2. PICK order : order = [i \in 1 .. n |-> a + i - 1]
    OBVIOUS
  <2>3. \A i \in 1 .. n : a + i - 1 \in Nat
    OBVIOUS
  <2>4. order \in Seq(Nat) /\ Len(order) = n /\ \A i \in 1 .. n : order[i] = a + i - 1
    BY <2>2, <2>3
  <2>5. order = Upto(a, b)
    BY <2>1, <2>2 DEF Upto
  <2> QED BY <2>1, <2>4, <2>5
<1>2. PICK N \in Nat : N = Len(order)
  OBVIOUS
<1>3. \A i \in 1 .. N : order[i] \in a .. b
  BY <1>1, <1>2
<1>4. PICK acc : GroupTrace(acc, order, weight, lead, rep)
  <2>1. \A i \in 1 .. Len(order) : weight[order[i]] \in Int
    BY <1>2, <1>3
  <2> QED BY <2>1, GroupSteps
<1> DEFINE T == {n \in Nat : n <= N => PackedTo(acc[n], a, n)}
<1>5. 0 \in T
  <2>1. acc[0] \in Packs /\ acc[0].out = <<>>
    BY <1>4 DEF Packs, GroupTrace
  <2>2. \A r \in Nat : r \notin a .. a + 0 - 1
    OBVIOUS
  <2>3. Spans(<<>>, a .. a + 0 - 1)
    BY <2>2, NoSpans
  <2> QED BY <2>1, <2>3 DEF PackedTo
<1>6. ASSUME NEW n \in Nat, n \in T PROVE n + 1 \in T
  <2>1. SUFFICES ASSUME n + 1 <= N PROVE PackedTo(acc[n + 1], a, n + 1)
    OBVIOUS
  <2>2. n <= N /\ n + 1 \in 1 .. N /\ (n + 1) - 1 = n
    BY <2>1
  <2>3. PICK y : y = acc[n] /\ PackedTo(y, a, n)
    BY <1>6, <2>2
  <2>5. order[n + 1] = a + n /\ weight[a + n] \in Int
    <3>1. order[n + 1] = a + n /\ a + n \in a .. b
      BY <1>1, <1>2, <2>2
    <3> QED BY <3>1
  <2>6. PICK w \in Int : w = weight[a + n]
    BY <2>5
  <2>7. PICK new : new = acc[n + 1] /\ new = PackNext(y, a + n, w, lead, rep)
    BY <1>2, <1>4, <2>2, <2>3, <2>5, <2>6 DEF GroupTrace
  <2> HIDE DEF T
  <2>8. PackedTo(new, a, n + 1)
    BY <2>3, <2>7, PackOne
  <2> QED BY <2>7, <2>8
<1> HIDE DEF T
<1>7. N \in T
  BY <1>5, <1>6, Induction
<1>8. PackedTo(acc[N], a, N)
  BY <1>7 DEF T
<1>9. a + N - 1 = b /\ (a <= b => N > 0)
  BY <1>1, <1>2
<1>10. GroupRows(Upto(a, b), weight, lead, rep) = acc[N].out
  BY <1>1, <1>2, <1>4 DEF GroupTrace
<1> QED BY <1>8, <1>9, <1>10 DEF PackedTo

-----------------------------------------------------------------------------
(* Sheets: blocks.                                                          *)

Reading == [out : Seq(Pairs), first : Nat]

BlockNext(acc, rows, r) ==
    IF Full(rows, r) THEN [acc EXCEPT !.first = IF @ = 0 THEN r ELSE @]
    ELSE IF acc.first # 0 THEN [out |-> Append(acc.out, <<acc.first, r - 1>>), first |-> 0]
    ELSE acc

BlocksEnd(read, rows) ==
    IF read.first = 0 THEN read.out ELSE Append(read.out, <<read.first, Len(rows)>>)

LEMMA BlockClosed ==
    ASSUME NEW acc \in Reading, NEW rows, NEW r \in Nat, 1 <= r
    PROVE  BlockNext(acc, rows, r) \in Reading
<1>1. PICK out \in Seq(Pairs), f \in Nat : acc = [out |-> out, first |-> f] /\ acc.out = out /\ acc.first = f
  BY DEF Reading
<1>2. PICK x \in Pairs : x = <<f, r - 1>>
  <2>1. r - 1 \in Nat
    OBVIOUS
  <2> QED BY <2>1 DEF Pairs
<1>3. CASE Full(rows, r)
  <2>1. BlockNext(acc, rows, r) = [out |-> out, first |-> IF f = 0 THEN r ELSE f]
    BY <1>1, <1>3 DEF BlockNext
  <2> QED BY <2>1 DEF Reading
<1>4. CASE ~Full(rows, r) /\ f # 0
  <2>1. BlockNext(acc, rows, r) = [out |-> Append(out, x), first |-> 0]
    BY <1>1, <1>2, <1>4 DEF BlockNext
  <2>2. Append(out, x) \in Seq(Pairs)
    OBVIOUS
  <2> QED BY <2>1, <2>2 DEF Reading
<1>5. CASE ~Full(rows, r) /\ f = 0
  BY <1>1, <1>5 DEF BlockNext
<1> QED BY <1>3, <1>4, <1>5

\* How Blocks comes to its result, row by row.
LEMMA BlockSteps ==
    ASSUME NEW rows \in Seq(Seq({0, 1}))
    PROVE  \E acc : /\ acc[0] = [out |-> <<>>, first |-> 0]
                    /\ Blocks(rows) = BlocksEnd(acc[Len(rows)], rows)
                    /\ \A i \in 1 .. Len(rows) : acc[i] = BlockNext(acc[i - 1], rows, i)
<1> DEFINE N == Len(rows)
           order == Upto(1, Len(rows))
           D == DOMAIN order
           None == [out |-> <<>>, first |-> 0]
           Step(y, i) == BlockNext(y, rows, order[i])
           Law(g) == g = [t \in SUBSET D |-> IF t = {} THEN None ELSE Step(g[t \ {Max(t)}], Max(t))]
           h == CHOOSE g : Law(g)
<1>0. None \in Reading /\ N \in Nat /\ D = 1 .. N /\ \A i \in 1 .. N : order[i] = i
  BY DEF Reading, Upto
<1> HIDE DEF order
<1>1. \A y \in Reading, i \in 1 .. N : Step(y, i) \in Reading
  <2>1. \A i \in 1 .. N : order[i] \in Nat /\ 1 <= order[i]
    BY <1>0
  <2> QED BY <2>1, BlockClosed
<1>2. PICK Y : Y = Reading
  OBVIOUS
<1> DEFINE step == [p \in (1 .. N) \X Y |-> Step(p[2], p[1])]
<1> HIDE DEF Step, N, D, None
<1>3. step \in [(1 .. N) \X Y -> Y]
  BY <1>1, <1>2
<1>4. PICK g : Folds(g, Y, None, N, step)
  <2> HIDE DEF step
  <2>1. PICK base \in Y : base = None
    BY <1>0, <1>2
  <2>2. \E g : Folds(g, Y, base, N, step)
    BY <1>0, <1>3, FoldExists
  <2> QED BY <2>1, <2>2
<1>5. Law(g)
  <2>1. ASSUME NEW t \in SUBSET (1 .. N), t # {}
        PROVE  step[<<Max(t), g[t \ {Max(t)}]>>] = Step(g[t \ {Max(t)}], Max(t))
    <3>1. Max(t) \in 1 .. N
      BY <1>0, <2>1, MaxOf
    <3>2. g[t \ {Max(t)}] \in Y
      BY <1>4 DEF Folds
    <3> QED BY <3>1, <3>2
  <2> HIDE DEF step
  <2> QED BY <1>0, <1>4, <2>1 DEF Folds
<1>6. Law(h)
  <2> HIDE DEF Law
  <2> QED BY <1>5
<1>7. Blocks(rows) = BlocksEnd(h[D], rows)
  BY DEF Blocks, BlocksEnd, FoldLeft, MapThenFoldSet, Step, D, BlockNext, None, order
<1> HIDE DEF h
<1>8. \A t \in SUBSET (1 .. N) : h[t] = IF t = {} THEN None ELSE Step(h[t \ {Max(t)}], Max(t))
  BY <1>0, <1>6
<1>9. h[{}] = None /\ \A i \in 1 .. N : h[1 .. i] = Step(h[1 .. i - 1], i)
  <2>1. {} \in SUBSET (1 .. N)
    OBVIOUS
  <2> QED BY <1>0, <1>8, <2>1, Prefix
<1>10. PICK acc : acc = [i \in 0 .. N |-> h[1 .. i]]
  OBVIOUS
<1>11. acc[0] = None /\ Blocks(rows) = BlocksEnd(acc[N], rows) /\ \A i \in 1 .. N : acc[i] = Step(acc[i - 1], i)
  BY <1>0, <1>7, <1>9, <1>10, EmptyRange
<1>12. \A i \in 1 .. N : acc[i] = BlockNext(acc[i - 1], rows, i)
  BY <1>0, <1>11 DEF Step
<1> QED BY <1>11, <1>12 DEF N, None

\* The full rows among the first n, but those of the open block.
ClosedRows(rows, n, f) == {r \in 1 .. n : Full(rows, r) /\ (f = 0 \/ r < f)}

\* What was read of the rows up to n.
ReadTo(acc, rows, n) ==
    /\ acc \in Reading /\ acc.first <= n
    /\ Spans(acc.out, ClosedRows(rows, n, acc.first))
    /\ acc.first # 0 => \A r \in acc.first .. n : Full(rows, r)

LEMMA BlockOne ==
    ASSUME NEW rows, NEW n \in Nat, NEW acc, ReadTo(acc, rows, n),
           NEW new, new = BlockNext(acc, rows, n + 1)
    PROVE  ReadTo(new, rows, n + 1)
<1>1. PICK out \in Seq(Pairs), f \in Nat : acc = [out |-> out, first |-> f] /\ acc.out = out /\ acc.first = f /\ f <= n
  BY DEF Reading, ReadTo
<1>2. new \in Reading /\ n + 1 \in Nat
  <2>1. n + 1 \in Nat /\ 1 <= n + 1
    OBVIOUS
  <2> QED BY <2>1, BlockClosed DEF ReadTo
<1>3. \A r : r \in 1 .. n + 1 <=> r \in 1 .. n \/ r = n + 1
  OBVIOUS
<1>4. CASE Full(rows, n + 1) /\ f = 0
  <2>1. new = [out |-> out, first |-> n + 1]
    BY <1>1, <1>4 DEF BlockNext
  <2>2. ClosedRows(rows, n + 1, n + 1) = ClosedRows(rows, n, f)
    BY <1>4 DEF ClosedRows
  <2>3. \A r \in n + 1 .. n + 1 : r = n + 1
    OBVIOUS
  <2>4. Spans(new.out, ClosedRows(rows, n + 1, new.first))
    BY <1>1, <2>1, <2>2 DEF ReadTo
  <2>5. new.first <= n + 1 /\ \A r \in new.first .. n + 1 : Full(rows, r)
    BY <1>4, <2>1, <2>3
  <2> QED BY <1>2, <2>4, <2>5 DEF ReadTo
<1>5. CASE Full(rows, n + 1) /\ f # 0
  <2>1. new = acc
    BY <1>1, <1>5 DEF BlockNext
  <2>2. ClosedRows(rows, n + 1, f) = ClosedRows(rows, n, f)
    BY <1>1, <1>5 DEF ClosedRows
  <2>3. \A r \in f .. n + 1 : Full(rows, r)
    <3>1. \A r \in f .. n + 1 : r \in f .. n \/ r = n + 1
      OBVIOUS
    <3>2. \A r \in f .. n : Full(rows, r)
      BY <1>1, <1>5 DEF ReadTo
    <3> QED BY <1>5, <3>1, <3>2
  <2>4. Spans(acc.out, ClosedRows(rows, n + 1, f))
    BY <1>1, <2>2 DEF ReadTo
  <2>5. f <= n + 1
    BY <1>1
  <2> QED BY <1>1, <1>2, <2>1, <2>3, <2>4, <2>5 DEF ReadTo
<1>6. CASE ~Full(rows, n + 1) /\ f # 0
  <2>1. PICK longer : longer = Append(out, <<f, n>>) /\ new.out = longer /\ new.first = 0
    <3>1. PICK m \in Nat : m = n + 1 /\ m - 1 = n
      OBVIOUS
    <3>2. acc.first # 0 /\ ~Full(rows, m) /\ new = BlockNext(acc, rows, m)
      BY <1>1, <1>6, <3>1
    <3>3. new = [out |-> Append(acc.out, <<acc.first, m - 1>>), first |-> 0]
      BY <3>2 DEF BlockNext
    <3> QED BY <1>1, <3>1, <3>3
  <2>2. PICK R, Q : R = ClosedRows(rows, n, f) /\ Q = ClosedRows(rows, n + 1, 0)
    OBVIOUS
  <2>3. \A r \in f .. n : Full(rows, r)
    BY <1>1, <1>6 DEF ReadTo
  <2>4. \A r \in Nat : r \in R => r < f
    BY <1>6, <2>2 DEF ClosedRows
  <2>5. \A r \in Nat : r \in Q <=> r \in R \/ (f <= r /\ r <= n)
    <3>1. \A r \in Nat : r \in Q <=> r \in 1 .. n /\ Full(rows, r)
      BY <1>3, <1>6, <2>2 DEF ClosedRows
    <3>2. \A r \in Nat : r \in R <=> r \in 1 .. n /\ Full(rows, r) /\ r < f
      BY <1>6, <2>2 DEF ClosedRows
    <3>3. \A r \in Nat : f <= r /\ r <= n => r \in 1 .. n /\ r \in f .. n
      BY <1>6
    <3> QED BY <2>3, <3>1, <3>2, <3>3
  <2>6. Spans(out, R) /\ 1 <= f
    BY <1>1, <1>6, <2>2 DEF ReadTo
  <2>7. Spans(longer, Q)
    BY <1>1, <2>1, <2>4, <2>5, <2>6, SpanMore
  <2>8. 0 <= n + 1
    OBVIOUS
  <2> QED BY <1>2, <2>1, <2>2, <2>7, <2>8 DEF ReadTo
<1>7. CASE ~Full(rows, n + 1) /\ f = 0
  <2>1. new = acc
    BY <1>1, <1>7 DEF BlockNext
  <2>2. ClosedRows(rows, n + 1, f) = ClosedRows(rows, n, f)
    BY <1>3, <1>7 DEF ClosedRows
  <2>3. Spans(acc.out, ClosedRows(rows, n + 1, f))
    BY <1>1, <2>2 DEF ReadTo
  <2> QED BY <1>1, <1>2, <1>7, <2>1, <2>3 DEF ReadTo
<1> QED BY <1>4, <1>5, <1>6, <1>7

\* The blocks are the full rows, in ranges one after the other.
LEMMA BlocksSpan ==
    ASSUME NEW rows \in Seq(Seq({0, 1}))
    PROVE  Spans(Blocks(rows), {r \in 1 .. Len(rows) : Full(rows, r)})
<1>1. PICK N \in Nat : N = Len(rows)
  OBVIOUS
<1>2. PICK acc : /\ acc[0] = [out |-> <<>>, first |-> 0]
                 /\ Blocks(rows) = BlocksEnd(acc[N], rows)
                 /\ \A i \in 1 .. N : acc[i] = BlockNext(acc[i - 1], rows, i)
  BY <1>1, BlockSteps
<1> DEFINE T == {n \in Nat : n <= N => ReadTo(acc[n], rows, n)}
<1>3. 0 \in T
  <2>1. acc[0] \in Reading /\ acc[0].out = <<>> /\ acc[0].first = 0
    BY <1>2 DEF Reading
  <2>2. \A r \in Nat : r \notin ClosedRows(rows, 0, 0)
    BY DEF ClosedRows
  <2> QED BY <2>1, <2>2, NoSpans DEF ReadTo
<1>4. ASSUME NEW n \in Nat, n \in T PROVE n + 1 \in T
  <2>1. SUFFICES ASSUME n + 1 <= N PROVE ReadTo(acc[n + 1], rows, n + 1)
    OBVIOUS
  <2>2. n <= N /\ n + 1 \in 1 .. N /\ (n + 1) - 1 = n
    BY <2>1
  <2>3. ReadTo(acc[n], rows, n)
    BY <1>4, <2>2
  <2>4. acc[n + 1] = BlockNext(acc[n], rows, n + 1)
    BY <1>2, <2>2
  <2> HIDE DEF T
  <2> QED BY <2>3, <2>4, BlockOne
<1> HIDE DEF T
<1>5. N \in T
  BY <1>3, <1>4, Induction
<1>6. ReadTo(acc[N], rows, N)
  BY <1>5 DEF T
<1>7. PICK out \in Seq(Pairs), f \in Nat : acc[N] = [out |-> out, first |-> f] /\ f <= N
                                          /\ Spans(out, ClosedRows(rows, N, f))
                                          /\ (f # 0 => \A r \in f .. N : Full(rows, r))
  BY <1>6 DEF ReadTo, Reading
<1>8. PICK Q : Q = {r \in 1 .. N : Full(rows, r)}
  OBVIOUS
<1>9. CASE f = 0
  <2>1. Blocks(rows) = out /\ ClosedRows(rows, N, f) = Q
    BY <1>2, <1>7, <1>8, <1>9 DEF BlocksEnd, ClosedRows
  <2> QED BY <1>1, <1>7, <1>8, <2>1
<1>10. CASE f # 0
  <2>1. PICK longer : longer = Append(out, <<f, N>>) /\ Blocks(rows) = longer
    <3>1. PICK acc1 : acc1 = acc[N] /\ acc1.first = f /\ acc1.out = out
      BY <1>7
    <3>2. Blocks(rows) = Append(acc1.out, <<acc1.first, Len(rows)>>)
      BY <1>2, <1>10, <3>1 DEF BlocksEnd
    <3> QED BY <1>1, <3>1, <3>2
  <2>2. PICK R : R = ClosedRows(rows, N, f)
    OBVIOUS
  <2>3. \A r \in Nat : r \in R => r < f
    BY <1>10, <2>2 DEF ClosedRows
  <2>4. \A r \in Nat : r \in Q <=> r \in R \/ (f <= r /\ r <= N)
    <3>1. \A r \in Nat : r \in R <=> r \in 1 .. N /\ Full(rows, r) /\ r < f
      BY <1>10, <2>2 DEF ClosedRows
    <3>2. \A r \in Nat : r \in Q <=> r \in 1 .. N /\ Full(rows, r)
      BY <1>8
    <3>3. \A r \in Nat : f <= r /\ r <= N => r \in 1 .. N /\ r \in f .. N
      BY <1>10
    <3> QED BY <1>7, <1>10, <3>1, <3>2, <3>3
  <2>5. Spans(out, R) /\ 1 <= f
    BY <1>7, <1>10, <2>2
  <2>6. Spans(longer, Q)
    BY <1>7, <2>1, <2>3, <2>4, <2>5, SpanMore
  <2> QED BY <1>1, <1>8, <2>1, <2>6
<1> QED BY <1>9, <1>10

-----------------------------------------------------------------------------
(* Sheets: segments.                                                        *)

Segment == [head : Nat, first : Nat, last : Nat]

Names(seg, r) == seg.first <= r /\ r <= seg.last
Heads(seg, r) == seg.head = r /\ seg.first = r + 1

\* The rows of R are named by one segment each or head one, and a segment names
\* and carries no other row.
Cover(segs, R) ==
    /\ segs \in Seq(Segment)
    /\ \A r \in Nat : 1 <= r /\ r \in R =>
           \E i \in 1 .. Len(segs) : Names(segs[i], r) \/ Heads(segs[i], r)
    /\ \A i \in 1 .. Len(segs) : \A r \in Nat : Names(segs[i], r) => r \in R
    /\ \A i \in 1 .. Len(segs) : segs[i].head # 0 =>
           segs[i].head \in R /\ \A r \in Nat : segs[i].head <= r /\ r <= segs[i].last => r \in R
    /\ \A i, j \in 1 .. Len(segs) : \A r \in Nat : Names(segs[i], r) /\ Names(segs[j], r) => i = j

\* Ranges as segments that carry a header, the row before the first of them, or
\* none.
Carries(segs, out, hs) ==
    /\ hs \in [1 .. Len(out) -> Nat]
    /\ segs = [i \in 1 .. Len(out) |-> [head |-> hs[i], first |-> out[i][1], last |-> out[i][2]]]

LEMMA Within ==
    \A f, g, a, r, b, l \in Nat :
        /\ f <= g /\ g <= a /\ a <= r /\ r <= b /\ b <= l => r \in f .. l
        /\ f <= g /\ g <= a /\ a <= b /\ b <= l => f <= b /\ f \in f .. l
        /\ f <= r /\ r <= b /\ b <= l => r \in f .. l
OBVIOUS

LEMMA CoverSpans ==
    ASSUME NEW first \in Nat, NEW last \in Nat, NEW from \in Nat, 1 <= first, from \in {first, first + 1},
           NEW out, Spans(out, from .. last), NEW hs, NEW segs, Carries(segs, out, hs),
           \A i \in 1 .. Len(out) : hs[i] \in {0, first},
           from = first + 1 => out # <<>> /\ hs[1] = first
    PROVE  Cover(segs, first .. last)
<1>1. out \in Seq(Pairs) /\ Len(out) \in Nat
  BY DEF Spans
<1>2. \A i \in 1 .. Len(out) : out[i] \in Pairs /\ out[i][1] \in Nat /\ out[i][2] \in Nat
  <2>1. ASSUME NEW i \in 1 .. Len(out) PROVE out[i] \in Pairs
    BY <1>1
  <2> QED BY <2>1, PairParts
<1>3. segs \in Seq(Segment) /\ Len(segs) = Len(out)
  <2>1. ASSUME NEW i \in 1 .. Len(out)
        PROVE  [head |-> hs[i], first |-> out[i][1], last |-> out[i][2]] \in Segment
    BY <1>2 DEF Segment, Carries
  <2>2. segs \in [1 .. Len(out) -> Segment]
    BY <2>1 DEF Carries
  <2> QED BY <1>1, <2>2
<1>4. \A i \in 1 .. Len(out) : segs[i].head = hs[i]
                               /\ segs[i].first = out[i][1] /\ segs[i].last = out[i][2]
  BY DEF Carries
<1>5. \A i \in 1 .. Len(out) : from <= out[i][1] /\ out[i][1] <= out[i][2] /\ out[i][2] <= last
  <2>1. ASSUME NEW i \in 1 .. Len(out)
        PROVE  from <= out[i][1] /\ out[i][1] <= out[i][2] /\ out[i][2] <= last
    <3>1. PICK a \in Nat, b \in Nat : a = out[i][1] /\ b = out[i][2]
      BY <1>2
    <3>2. a <= b /\ a <= a /\ b <= b
      BY <3>1 DEF Spans
    <3>3. a \in from .. last /\ b \in from .. last
      BY <3>1, <3>2 DEF Spans
    <3> QED BY <3>1, <3>2, <3>3
  <2> QED BY <2>1
<1>6. ASSUME NEW i \in 1 .. Len(out), NEW j \in 1 .. Len(out), NEW r \in Nat, i < j,
             out[i][1] <= r, r <= out[i][2], out[j][1] <= r, r <= out[j][2]
      PROVE  FALSE
  <2>1. PICK a \in Nat, b \in Nat : a = out[i][2] /\ b = out[j][1]
    BY <1>2
  <2>2. a < b
    BY <1>6, <2>1 DEF Spans
  <2>3. r <= a /\ b <= r
    BY <1>6, <2>1
  <2> QED BY <2>2, <2>3
<1>7. ASSUME NEW r \in Nat, r \in first .. last
      PROVE  \E i \in 1 .. Len(segs) : Names(segs[i], r) \/ Heads(segs[i], r)
  <2>1. CASE r \in from .. last
    <3>1. PICK i \in 1 .. Len(out) : out[i][1] <= r /\ r <= out[i][2]
      BY <2>1 DEF Spans
    <3>2. Names(segs[i], r)
      BY <1>4, <3>1 DEF Names
    <3> QED BY <1>3, <3>2
  <2>2. CASE r \notin from .. last
    <3>1. from = first + 1 /\ r = first /\ 1 \in 1 .. Len(out) /\ hs[1] = first
      BY <1>1, <1>7, <2>2
    <3>2. out[1][1] = from
      <4>1. first + 1 <= last
        BY <1>2, <1>5, <3>1
      <4>2. PICK i \in 1 .. Len(out) : out[i][1] <= from /\ from <= out[i][2]
        <5>1. from \in from .. last
          BY <3>1, <4>1
        <5> QED BY <5>1 DEF Spans
      <4>3. i = 1 \/ 1 < i
        OBVIOUS
      <4>4. 1 < i => out[1][2] < out[i][1]
        BY <3>1 DEF Spans
      <4> QED BY <1>2, <1>5, <3>1, <4>2, <4>3, <4>4
    <3>3. Heads(segs[1], r)
      BY <1>4, <3>1, <3>2 DEF Heads
    <3> QED BY <1>3, <3>1, <3>3
  <2> QED BY <2>1, <2>2
<1>8. ASSUME NEW i \in 1 .. Len(segs), NEW r \in Nat, Names(segs[i], r) PROVE r \in first .. last
  <2>1. PICK a \in Nat, b \in Nat : a = out[i][1] /\ b = out[i][2] /\ from <= a /\ b <= last
    BY <1>2, <1>3, <1>5
  <2>2. a <= r /\ r <= b
    BY <1>3, <1>4, <1>8, <2>1 DEF Names
  <2>3. first <= from
    OBVIOUS
  <2> QED BY <2>1, <2>2, <2>3, Within
<1>9. ASSUME NEW i \in 1 .. Len(segs), segs[i].head # 0
      PROVE  segs[i].head \in first .. last
             /\ \A r \in Nat : segs[i].head <= r /\ r <= segs[i].last => r \in first .. last
  <2>1. i \in 1 .. Len(out) /\ segs[i].head = first /\ segs[i].last = out[i][2]
    BY <1>3, <1>4, <1>9
  <2>2. PICK a \in Nat, b \in Nat : a = out[i][1] /\ b = out[i][2] /\ from <= a /\ a <= b /\ b <= last
    BY <1>2, <1>5, <2>1
  <2>3. first <= from
    OBVIOUS
  <2>4. first <= b /\ b <= last /\ first \in first .. last
    BY <2>2, <2>3, Within
  <2>5. \A r \in Nat : first <= r /\ r <= b => r \in first .. last
    BY <2>4, Within
  <2> QED BY <2>1, <2>2, <2>4, <2>5
<1>10. ASSUME NEW i \in 1 .. Len(segs), NEW j \in 1 .. Len(segs), NEW r \in Nat,
              Names(segs[i], r), Names(segs[j], r)
       PROVE  i = j
  <2>1. i \in 1 .. Len(out) /\ j \in 1 .. Len(out)
    BY <1>3
  <2>2. out[i][1] <= r /\ r <= out[i][2] /\ out[j][1] <= r /\ r <= out[j][2]
    BY <1>4, <1>10, <2>1 DEF Names
  <2>3. ~(i < j) /\ ~(j < i)
    BY <1>6, <2>1, <2>2
  <2> QED BY <2>1, <2>3
<1>11. PICK R : R = first .. last
  OBVIOUS
<1>12. \A r \in Nat : 1 <= r /\ r \in R => \E i \in 1 .. Len(segs) : Names(segs[i], r) \/ Heads(segs[i], r)
  BY <1>7, <1>11
<1>13. \A i \in 1 .. Len(segs) : \A r \in Nat : Names(segs[i], r) => r \in R
  BY <1>8, <1>11
<1>14. \A i \in 1 .. Len(segs) : segs[i].head # 0 =>
           segs[i].head \in R /\ \A r \in Nat : segs[i].head <= r /\ r <= segs[i].last => r \in R
  BY <1>9, <1>11
<1>15. \A i, j \in 1 .. Len(segs) : \A r \in Nat : Names(segs[i], r) /\ Names(segs[j], r) => i = j
  BY <1>10
<1> QED BY ONLY <1>3, <1>11, <1>12, <1>13, <1>14, <1>15 DEF Cover

\* One after the other.
LEMMA CoverJoin ==
    ASSUME NEW s, NEW R, Cover(s, R), NEW t, NEW Q, Cover(t, Q),
           \A r \in Nat : ~(r \in R /\ r \in Q),
           NEW P, \A r \in Nat : r \in P <=> r \in R \/ r \in Q
    PROVE  Cover(s \o t, P)
<1>1. PICK u : u = s \o t
  OBVIOUS
<1>2. PICK m \in Nat, n \in Nat : m = Len(s) /\ n = Len(t)
  BY DEF Cover
<1>3. /\ u \in Seq(Segment) /\ Len(u) = m + n
      /\ \A i \in 1 .. m : u[i] = s[i]
      /\ \A i \in 1 .. n : u[m + i] = t[i]
  BY <1>1, <1>2 DEF Cover
<1>4. \A i \in 1 .. m + n : i \in 1 .. m \/ (i - m \in 1 .. n /\ m + (i - m) = i)
  OBVIOUS
<1>5. \A i \in 1 .. m : i \in 1 .. m + n
  OBVIOUS
<1>6. \A i \in 1 .. n : m + i \in 1 .. m + n
  OBVIOUS
<1>0. \A i \in 1 .. m + n : (i \in 1 .. m /\ u[i] = s[i]) \/ \E k \in 1 .. n : i = m + k /\ u[i] = t[k]
  <2>1. ASSUME NEW i \in 1 .. m + n, i \notin 1 .. m PROVE \E k \in 1 .. n : i = m + k /\ u[i] = t[k]
    <3>1. PICK k \in 1 .. n : k = i - m /\ m + k = i
      BY <1>4, <2>1
    <3> QED BY <1>3, <3>1
  <2> QED BY <1>3, <2>1
<1>7. ASSUME NEW r \in Nat, 1 <= r, r \in P
      PROVE  \E i \in 1 .. m + n : Names(u[i], r) \/ Heads(u[i], r)
  <2>1. CASE r \in R
    <3>1. PICK i \in 1 .. m : Names(s[i], r) \/ Heads(s[i], r)
      BY <1>2, <1>7, <2>1 DEF Cover
    <3> QED BY <1>3, <1>5, <3>1
  <2>2. CASE r \in Q
    <3>1. PICK i \in 1 .. n : Names(t[i], r) \/ Heads(t[i], r)
      BY <1>2, <1>7, <2>2 DEF Cover
    <3> QED BY <1>3, <1>6, <3>1
  <2> QED BY <1>7, <2>1, <2>2
<1>8. ASSUME NEW i \in 1 .. m + n, NEW r \in Nat, Names(u[i], r) PROVE r \in P
  <2>1. CASE i \in 1 .. m /\ u[i] = s[i]
    <3>1. Names(s[i], r)
      BY <1>8, <2>1
    <3> QED BY <1>2, <2>1, <3>1 DEF Cover
  <2>2. ASSUME NEW k \in 1 .. n, u[i] = t[k] PROVE r \in P
    <3>1. Names(t[k], r)
      BY <1>8, <2>2
    <3> QED BY <1>2, <3>1 DEF Cover
  <2> QED BY <1>0, <2>1, <2>2
<1>9. ASSUME NEW i \in 1 .. m + n, u[i].head # 0
      PROVE  u[i].head \in P /\ \A r \in Nat : u[i].head <= r /\ r <= u[i].last => r \in P
  <2>0. u[i].head \in Nat
    <3>1. PICK y \in Segment : y = u[i]
      BY <1>3
    <3> QED BY <3>1 DEF Segment
  <2>1. CASE i \in 1 .. m /\ u[i] = s[i]
    <3>1. u[i].head \in R /\ \A r \in Nat : u[i].head <= r /\ r <= u[i].last => r \in R
      BY <1>2, <1>9, <2>1 DEF Cover
    <3> QED BY <2>0, <3>1
  <2>2. ASSUME NEW k \in 1 .. n, u[i] = t[k]
        PROVE  u[i].head \in P /\ \A r \in Nat : u[i].head <= r /\ r <= u[i].last => r \in P
    <3>1. u[i].head \in Q /\ \A r \in Nat : u[i].head <= r /\ r <= u[i].last => r \in Q
      BY <1>2, <1>9, <2>2 DEF Cover
    <3> QED BY <2>0, <3>1
  <2> QED BY <1>0, <2>1, <2>2
<1>10. ASSUME NEW i \in 1 .. m, NEW j \in 1 .. n, NEW r \in Nat, Names(s[i], r), Names(t[j], r)
       PROVE  FALSE
  <2>1. r \in R /\ r \in Q
    BY <1>2, <1>10 DEF Cover
  <2> QED BY <2>1
<1>11. ASSUME NEW i \in 1 .. m + n, NEW j \in 1 .. m + n, NEW r \in Nat, Names(u[i], r), Names(u[j], r)
       PROVE  i = j
  <2>1. CASE i \in 1 .. m /\ u[i] = s[i] /\ j \in 1 .. m /\ u[j] = s[j]
    <3>1. Names(s[i], r) /\ Names(s[j], r)
      BY <1>11, <2>1
    <3> QED BY <1>2, <2>1, <3>1 DEF Cover
  <2>2. ASSUME i \in 1 .. m, u[i] = s[i], NEW k \in 1 .. n, u[j] = t[k] PROVE FALSE
    <3>1. Names(s[i], r) /\ Names(t[k], r)
      BY <1>11, <2>2
    <3> QED BY <1>10, <2>2, <3>1
  <2>3. ASSUME j \in 1 .. m, u[j] = s[j], NEW k \in 1 .. n, u[i] = t[k] PROVE FALSE
    <3>1. Names(s[j], r) /\ Names(t[k], r)
      BY <1>11, <2>3
    <3> QED BY <1>10, <2>3, <3>1
  <2>4. ASSUME NEW k \in 1 .. n, i = m + k, u[i] = t[k], NEW l \in 1 .. n, j = m + l, u[j] = t[l] PROVE i = j
    <3>1. Names(t[k], r) /\ Names(t[l], r)
      BY <1>11, <2>4
    <3>2. k = l
      BY <1>2, <3>1 DEF Cover
    <3> QED BY <2>4, <3>2
  <2> QED BY <1>0, <2>1, <2>2, <2>3, <2>4
<1> QED BY <1>1, <1>3, <1>7, <1>8, <1>9, <1>11 DEF Cover

\* Block after block.
LEMMA CoverBlocks ==
    ASSUME NEW bs, NEW P, Spans(bs, P), NEW segs \in Seq(Seq(Segment)), Len(segs) = Len(bs),
           \A i \in 1 .. Len(bs) : Cover(segs[i], bs[i][1] .. bs[i][2])
    PROVE  Cover(FlattenSeq(segs), P)
<1>1. PICK N \in Nat : N = Len(bs)
  BY DEF Spans
<1>2. \A i \in 1 .. N : bs[i][1] \in Nat /\ bs[i][2] \in Nat
  <2>1. bs \in Seq(Pairs)
    BY DEF Spans
  <2>2. ASSUME NEW i \in 1 .. N PROVE bs[i] \in Pairs
    BY <1>1, <2>1
  <2> QED BY <2>2, PairParts
<1>3. PICK acc : Joins(acc, segs) /\ FlattenSeq(segs) = acc[N]
  BY <1>1, FlattenSteps
<1> DEFINE Upon(n) == {r \in Nat : \E i \in 1 .. n : bs[i][1] <= r /\ r <= bs[i][2]}
           T == {n \in Nat : n <= N => Cover(acc[n], Upon(n))}
<1>4. 0 \in T
  <2>1. acc[0] = <<>>
    BY <1>3 DEF Joins
  <2>2. \A r \in Nat : r \notin Upon(0)
    BY EmptyRange
  <2> HIDE DEF Upon
  <2>3. Cover(<<>>, Upon(0))
    BY <2>2, EmptyRange DEF Cover
  <2> QED BY <2>1, <2>3
<1>5. ASSUME NEW n \in Nat, n \in T PROVE n + 1 \in T
  <2>1. SUFFICES ASSUME n + 1 <= N PROVE Cover(acc[n + 1], Upon(n + 1))
    OBVIOUS
  <2>2. n <= N /\ n + 1 \in 1 .. N /\ (n + 1) - 1 = n
    BY <2>1
  <2>3. PICK s, R : s = acc[n] /\ R = Upon(n) /\ Cover(s, R)
    <3> HIDE DEF Upon
    <3> QED BY <1>5, <2>2
  <2>4. PICK t, Q : t = segs[n + 1] /\ Q = bs[n + 1][1] .. bs[n + 1][2] /\ Cover(t, Q)
    BY <1>1, <2>2
  <2>5. acc[n + 1] = s \o t
    BY <1>1, <1>3, <2>2, <2>3, <2>4 DEF Joins
  <2>6. \A r \in Nat : ~(r \in R /\ r \in Q)
    <3>1. SUFFICES ASSUME NEW r \in Nat, r \in R, r \in Q PROVE FALSE
      OBVIOUS
    <3>2. PICK i \in 1 .. n : bs[i][1] <= r /\ r <= bs[i][2]
      BY <2>3, <3>1
    <3>3. i \in 1 .. N /\ i < n + 1
      BY <2>2
    <3>4. bs[i][2] < bs[n + 1][1]
      BY <1>1, <2>2, <3>3 DEF Spans
    <3>5. bs[n + 1][1] <= r
      BY <2>4, <3>1
    <3>6. PICK last \in Nat, first \in Nat : last = bs[i][2] /\ first = bs[n + 1][1]
      BY <1>2, <2>2, <3>3
    <3>7. r <= last /\ last < first /\ first <= r
      BY <3>2, <3>4, <3>5, <3>6
    <3> QED BY <3>7
  <2>7. PICK U : U = Upon(n + 1)
    OBVIOUS
  <2>8. \A r \in Nat : r \in U <=> r \in R \/ r \in Q
    <3>1. \A i : i \in 1 .. n + 1 <=> i \in 1 .. n \/ i = n + 1
      OBVIOUS
    <3>2. \A r \in Nat : r \in U <=> \E i \in 1 .. n + 1 : bs[i][1] <= r /\ r <= bs[i][2]
      BY <2>7
    <3>3. \A r \in Nat : r \in R <=> \E i \in 1 .. n : bs[i][1] <= r /\ r <= bs[i][2]
      BY <2>3
    <3>4. \A r \in Nat : r \in Q <=> bs[n + 1][1] <= r /\ r <= bs[n + 1][2]
      BY <1>2, <2>2, <2>4
    <3> QED BY <3>1, <3>2, <3>3, <3>4
  <2> HIDE DEF T, Upon
  <2>9. Cover(s \o t, U)
    BY <2>3, <2>4, <2>6, <2>8, CoverJoin
  <2> QED BY <2>5, <2>7, <2>9
<1> HIDE DEF T
<1>6. N \in T
  BY <1>4, <1>5, Induction
<1>7. PICK U : U = Upon(N) /\ Cover(acc[N], U)
  <2>1. N <= N
    OBVIOUS
  <2> HIDE DEF Upon
  <2> QED BY <1>6, <2>1 DEF T
<1>8. \A r \in Nat : r \in P <=> r \in U
  BY <1>1, <1>7 DEF Spans
<1>9. Cover(acc[N], P)
  BY <1>7, <1>8 DEF Cover
<1> QED BY <1>3, <1>9

LEMMA CountNat == ASSUME NEW line \in Seq({0, 1}) PROVE Count(line) \in Nat
<1>1. PICK S : S = {c \in DOMAIN line : c <= MaxCols /\ line[c] = 1}
  OBVIOUS
<1>2. S \subseteq 1 .. Len(line) /\ IsFiniteSet(1 .. Len(line))
  <2>1. DOMAIN line = 1 .. Len(line)
    OBVIOUS
  <2> QED BY <1>1, <2>1, FS_Interval
<1>3. IsFiniteSet(S)
  BY <1>2, FS_Subset
<1> QED BY <1>1, <1>3, FS_CardinalityType DEF Count

\* A block becomes segments that hold its rows: one alone, records, or a table
\* under the first row.
LEMMA TableCovers ==
    ASSUME NEW rows \in Seq(Seq({0, 1})), NEW b, NEW first \in Nat, NEW last \in Nat,
           b = <<first, last>>, 1 <= first, first <= last, last <= Len(rows), Full(rows, first)
    PROVE  Cover(TableSegments(rows, b), first .. last)
<1> DEFINE keep   == {c \in 1 .. MaxCols : \E r \in b[1] .. b[2] : c \in DOMAIN rows[r] /\ rows[r][c] = 1}
           width  == Cardinality(keep)
           cells  == width * (b[2] - b[1])
           filled == FoldLeft(LAMBDA n, r : n + Cardinality({c \in keep \cap DOMAIN rows[r] : rows[r][c] = 1}),
                              0, Upto(b[1] + 1, b[2]))
           head   == Count(rows[b[1]]) + width
           heavy(t) == 5 * t > 2 * SheetLimit
           rep    == IF ~heavy(head) THEN head ELSE IF heavy(ShortHead) THEN 0 ELSE ShortHead
           seg(carried, g) == [head |-> carried, first |-> g[1], last |-> g[2]]
           over(i) == IF i = 1 \/ ~heavy(head) THEN b[1] ELSE 0
           records == GroupRows(Upto(b[1], b[2]), [r \in DOMAIN rows |-> Count(rows[r]) + 1], 0, 0)
           tables  == GroupRows(Upto(b[1] + 1, b[2]), [r \in DOMAIN rows |-> width + 1], head, rep)
           sparse  == width > WideFrom \/ 2 * (cells - filled) > cells
<1>1. b[1] = first /\ b[2] = last
  OBVIOUS
<1>2. \A r \in 1 .. Len(rows) : rows[r] \in Seq({0, 1}) /\ Count(rows[r]) \in Nat
  <2>1. \A r \in 1 .. Len(rows) : rows[r] \in Seq({0, 1})
    OBVIOUS
  <2> QED BY <2>1, CountNat
<1>3. width \in Nat /\ width # 0
  <2>1. MaxCols \in Nat
    BY SheetsAssumption
  <2>2. IsFiniteSet(1 .. MaxCols)
    BY <2>1, FS_Interval
  <2>3. keep \subseteq 1 .. MaxCols
    OBVIOUS
  <2>4. PICK c \in DOMAIN rows[first] : c <= MaxCols /\ rows[first][c] = 1
    BY DEF Full
  <2>5. first \in 1 .. Len(rows) /\ first \in b[1] .. b[2]
    BY <1>1
  <2>6. PICK line \in Seq({0, 1}) : line = rows[first]
    BY <1>2, <2>5
  <2>7. c \in 1 .. MaxCols
    <3>1. c \in 1 .. Len(line)
      BY <2>4, <2>6
    <3> QED BY <2>1, <2>4, <3>1
  <2>8. c \in keep
    BY <2>4, <2>5, <2>7
  <2> HIDE DEF keep
  <2>9. IsFiniteSet(keep) /\ keep # {}
    BY <2>2, <2>3, <2>8, FS_Subset
  <2> QED BY <2>9, FS_CardinalityType, FS_EmptySet
<1>4. PICK out1, out2 : out1 = records /\ out2 = tables
  OBVIOUS
<1>5. TableSegments(rows, b) =
          IF cells = 0 THEN <<seg(b[1], <<b[1], b[1]>>)>>
          ELSE IF sparse THEN [i \in DOMAIN out1 |-> seg(0, out1[i])]
          ELSE [i \in DOMAIN out2 |-> seg(over(i), out2[i])]
  <2>1. PICK one, many, table :
            /\ one = <<seg(b[1], <<b[1], b[1]>>)>>
            /\ many = [i \in DOMAIN records |-> seg(0, records[i])]
            /\ table = [i \in DOMAIN tables |-> seg(over(i), tables[i])]
    OBVIOUS
  <2>2. TableSegments(rows, b) = IF cells = 0 THEN one ELSE IF sparse THEN many ELSE table
    BY <2>1, Zenon DEF TableSegments
  <2>3. many = [i \in DOMAIN out1 |-> seg(0, out1[i])] /\ table = [i \in DOMAIN out2 |-> seg(over(i), out2[i])]
    <3> HIDE DEF records, tables, over
    <3> QED BY <1>4, <2>1
  <2> HIDE DEF cells, sparse, over
  <2> QED BY <2>1, <2>2, <2>3
<1> HIDE DEF sparse, filled, keep, width
<1>6. cells = 0 => first = last
  <2>1. PICK w \in Nat, d \in Nat : w = width /\ d = last - first /\ w # 0
    BY <1>3
  <2>2. w * d = 0 => d = 0
    BY <2>1
  <2> QED BY <1>1, <2>1, <2>2
<1>7. Spans(out1, first .. last)
  <2>1. PICK weight : weight = [r \in DOMAIN rows |-> Count(rows[r]) + 1]
    OBVIOUS
  <2>2. ASSUME NEW r \in first .. last PROVE weight[r] \in Int
    <3>1. r \in DOMAIN rows /\ r \in 1 .. Len(rows)
      OBVIOUS
    <3>2. PICK n \in Nat : n = Count(rows[r])
      BY <1>2, <3>1
    <3>3. weight[r] = n + 1
      BY <2>1, <3>1, <3>2
    <3> QED BY <3>3
  <2>3. first <= last + 1 /\ 0 \in Int
    OBVIOUS
  <2>4. out1 = GroupRows(Upto(first, last), weight, 0, 0)
    BY <1>1, <1>4, <2>1
  <2> QED BY <2>2, <2>3, <2>4, GroupsSpan
<1>8. Spans(out2, first + 1 .. last) /\ (first + 1 <= last => out2 # <<>>)
  <2>1. PICK w \in Int : w = width + 1
    BY <1>3
  <2>2. PICK weight : weight = [r \in DOMAIN rows |-> w]
    OBVIOUS
  <2>3. \A r \in first + 1 .. last : weight[r] \in Int
    BY <2>2
  <2>4. PICK l \in Int : l = head
    <3>1. Count(rows[b[1]]) \in Nat
      BY <1>1, <1>2
    <3> QED BY <1>3, <3>1
  <2>5. PICK k \in Int : k = rep
    <3>1. ShortHead \in Int
      BY SheetsAssumption
    <3> HIDE DEF head, heavy
    <3> QED BY <2>4, <3>1
  <2>6. PICK a \in Nat : a = first + 1 /\ 1 <= a /\ a <= last + 1
    OBVIOUS
  <2>7. out2 = GroupRows(Upto(a, last), weight, l, k)
    <3> HIDE DEF head, rep
    <3> QED BY <1>1, <1>4, <2>1, <2>2, <2>4, <2>5, <2>6
  <2>8. \A r \in a .. last : weight[r] \in Int
    BY <2>3, <2>6
  <2> HIDE DEF head, rep
  <2>9. Spans(out2, a .. last) /\ (a <= last => out2 # <<>>)
    BY <2>6, <2>7, <2>8, GroupsSpan
  <2> QED BY <2>6, <2>9
<1> HIDE DEF cells, records, tables, head, rep
<1>9. PICK segs : segs = TableSegments(rows, b)
  OBVIOUS
<1>10. CASE cells = 0
  <2>1. first = last /\ segs = <<seg(first, <<first, first>>)>>
    BY <1>1, <1>5, <1>6, <1>9, <1>10
  <2>2. PICK y \in Segment : y = seg(first, <<first, first>>) /\ y.head = first /\ y.first = first /\ y.last = first
    <3>1. <<first, first>>[1] = first /\ <<first, first>>[2] = first
      OBVIOUS
    <3>2. PICK y : y = [head |-> first, first |-> first, last |-> first]
      OBVIOUS
    <3>3. y \in Segment /\ y = seg(first, <<first, first>>)
      BY <3>1, <3>2 DEF Segment
    <3>4. y.head = first /\ y.first = first /\ y.last = first
      BY <3>2
    <3> QED BY ONLY <3>3, <3>4
  <2>3. segs = <<y>> /\ segs \in Seq(Segment) /\ Len(segs) = 1 /\ segs[1] = y
    BY <2>1, <2>2
  <2>4. \A r \in Nat : Names(y, r) <=> r = first
    BY <2>2 DEF Names
  <2>5. \A i : i \in 1 .. Len(segs) <=> i = 1
    BY <2>3
  <2>6. \A r \in Nat : r \in first .. last <=> r = first
    BY <2>1
  <2>7. PICK R : R = first .. last /\ \A r \in Nat : r \in R <=> r = first
    BY <2>6
  <2>8. \A r \in Nat : r \in R => \E i \in 1 .. Len(segs) : Names(segs[i], r) \/ Heads(segs[i], r)
    BY <2>3, <2>4, <2>5, <2>7
  <2>9. \A i \in 1 .. Len(segs) : \A r \in Nat : Names(segs[i], r) => r \in R
    BY <2>3, <2>4, <2>5, <2>7
  <2>10. ASSUME NEW i \in 1 .. Len(segs), segs[i].head # 0
         PROVE  segs[i].head \in R /\ \A r \in Nat : segs[i].head <= r /\ r <= segs[i].last => r \in R
    <3>1. segs[i].head = first /\ segs[i].last = first
      BY <2>2, <2>3, <2>5
    <3> QED BY <2>7, <3>1
  <2>11. ASSUME NEW i \in 1 .. Len(segs), NEW j \in 1 .. Len(segs) PROVE i = j
    <3>1. i = 1 /\ j = 1
      BY <2>5
    <3> QED BY <3>1
  <2>12. Cover(segs, R)
    BY ONLY <2>3, <2>8, <2>9, <2>10, <2>11 DEF Cover
  <2> QED BY <1>9, <2>7, <2>12
<1>11. CASE cells # 0 /\ sparse
  <2>1. out1 \in Seq(Pairs)
    BY <1>7 DEF Spans
  <2>2. PICK hs : hs = [i \in 1 .. Len(out1) |-> 0]
    OBVIOUS
  <2>3. Carries(segs, out1, hs) /\ \A i \in 1 .. Len(out1) : hs[i] \in {0, first}
    BY <1>5, <1>9, <1>11, <2>1, <2>2 DEF Carries
  <2>4. PICK from \in Nat : from = first
    OBVIOUS
  <2>5. from \in {first, first + 1} /\ from # first + 1 /\ Spans(out1, from .. last)
    BY <1>7, <2>4
  <2>6. Cover(segs, first .. last)
    BY <2>3, <2>5, CoverSpans
  <2> QED BY <1>9, <2>6
<1>12. CASE cells # 0 /\ ~sparse
  <2>1. out2 \in Seq(Pairs)
    BY <1>8 DEF Spans
  <2>2. PICK hs : hs = [i \in 1 .. Len(out2) |-> over(i)]
    OBVIOUS
  <2>3. \A i \in 1 .. Len(out2) : over(i) \in {0, first} /\ over(1) = first
    BY <1>1
  <2>4. \A i \in 1 .. Len(out2) : hs[i] \in {0, first} /\ hs[i] = over(i)
    BY <2>2, <2>3
  <2> HIDE DEF over
  <2>5. Carries(segs, out2, hs)
    BY <1>5, <1>9, <1>12, <2>1, <2>2, <2>4 DEF Carries
  <2>6. PICK from \in Nat : from = first + 1
    OBVIOUS
  <2>7. out2 # <<>> /\ hs[1] = first
    <3>1. first # last
      BY <1>1, <1>3, <1>12 DEF cells
    <3>2. out2 # <<>>
      BY <1>8, <3>1
    <3>3. 1 \in 1 .. Len(out2)
      BY <2>1, <3>2
    <3> QED BY <2>3, <2>4, <3>2, <3>3
  <2>8. from \in {first, first + 1} /\ Spans(out2, from .. last)
    BY <1>8, <2>6
  <2>9. Cover(segs, first .. last)
    BY <2>4, <2>5, <2>7, <2>8, CoverSpans
  <2> QED BY <1>9, <2>9
<1> QED BY <1>10, <1>11, <1>12

-----------------------------------------------------------------------------
(* Sheets: the workbook.                                                    *)

\* EveryRowOnce, for row r of a sheet of which the rows of R are held.
Placed(segs, R, r) ==
    LET named   == {i \in DOMAIN segs : r \in segs[i].first .. segs[i].last}
        heading == {i \in DOMAIN segs : segs[i].head = r} IN
    IF r \in R
      THEN \/ Cardinality(named) = 1
           \/ named = {} /\ \E i \in heading : segs[i].first = r + 1
      ELSE named \cup heading = {}

LEMMA HeldOnce ==
    ASSUME NEW segs, NEW R, Cover(segs, R), NEW r \in Nat, 1 <= r
    PROVE  Placed(segs, R, r)
<1>1. segs \in Seq(Segment) /\ DOMAIN segs = 1 .. Len(segs)
  BY DEF Cover
<1>2. ASSUME NEW i \in 1 .. Len(segs)
      PROVE  r \in segs[i].first .. segs[i].last <=> Names(segs[i], r)
  <2>1. PICK y \in Segment : y = segs[i]
    BY <1>1
  <2>2. y.first \in Nat /\ y.last \in Nat
    BY DEF Segment
  <2> QED BY <2>1, <2>2 DEF Names
<1>3. PICK S, H : /\ S = {i \in DOMAIN segs : r \in segs[i].first .. segs[i].last}
                  /\ H = {i \in DOMAIN segs : segs[i].head = r}
  OBVIOUS
<1>4. \A i : (i \in S <=> i \in 1 .. Len(segs) /\ Names(segs[i], r))
             /\ (i \in H <=> i \in 1 .. Len(segs) /\ segs[i].head = r)
  BY <1>1, <1>2, <1>3
<1>5. CASE r \in R /\ \E i \in 1 .. Len(segs) : Names(segs[i], r)
  <2>1. PICK i \in 1 .. Len(segs) : Names(segs[i], r)
    BY <1>5
  <2>2. ASSUME NEW j \in 1 .. Len(segs), Names(segs[j], r) PROVE i = j
    BY <2>1, <2>2 DEF Cover
  <2>3. S = {i}
    BY <1>4, <2>1, <2>2
  <2>4. Cardinality(S) = 1
    BY <2>3, FS_Singleton
  <2> QED BY <1>3, <1>5, <2>4 DEF Placed
<1>6. CASE r \in R /\ ~\E i \in 1 .. Len(segs) : Names(segs[i], r)
  <2>1. PICK i \in 1 .. Len(segs) : Heads(segs[i], r)
    BY <1>6 DEF Cover
  <2>2. S = {} /\ i \in H /\ segs[i].first = r + 1
    BY <1>4, <1>6, <2>1 DEF Heads
  <2> QED BY <1>3, <1>6, <2>2 DEF Placed
<1>7. CASE r \notin R
  <2>1. \A i \in 1 .. Len(segs) : ~Names(segs[i], r) /\ segs[i].head # r
    BY <1>7 DEF Cover
  <2>2. S \cup H = {}
    BY <1>4, <2>1
  <2> QED BY <1>3, <1>7, <2>2 DEF Placed
<1> QED BY <1>5, <1>6, <1>7

LEMMA GroupedOnce ==
    ASSUME NEW out, NEW Q, Spans(out, Q), NEW f \in Nat, f \in Q
    PROVE  Cardinality({i \in DOMAIN out : f \in out[i][1] .. out[i][2]}) = 1
<1>1. out \in Seq(Pairs) /\ DOMAIN out = 1 .. Len(out)
  BY DEF Spans
<1>2. \A i \in 1 .. Len(out) : out[i][1] \in Nat /\ out[i][2] \in Nat
  <2>1. ASSUME NEW i \in 1 .. Len(out) PROVE out[i] \in Pairs
    BY <1>1
  <2> QED BY <2>1, PairParts
<1>3. PICK i \in 1 .. Len(out) : out[i][1] <= f /\ f <= out[i][2]
  BY DEF Spans
<1>4. ASSUME NEW j \in 1 .. Len(out), out[j][1] <= f, f <= out[j][2] PROVE i = j
  <2>1. i < j => out[i][2] < out[j][1]
    BY DEF Spans
  <2>2. j < i => out[j][2] < out[i][1]
    BY DEF Spans
  <2>3. PICK a \in Nat, b \in Nat, c \in Nat, d \in Nat :
            a = out[i][1] /\ b = out[i][2] /\ c = out[j][1] /\ d = out[j][2]
    BY <1>2
  <2>4. a <= f /\ f <= b /\ c <= f /\ f <= d
    BY <1>3, <1>4, <2>3
  <2>5. ~(b < c) /\ ~(d < a)
    BY <2>4
  <2> QED BY <2>1, <2>2, <2>3, <2>5
<1>5. PICK S : S = {k \in DOMAIN out : f \in out[k][1] .. out[k][2]}
  OBVIOUS
<1>6. \A k : k \in S <=> k \in 1 .. Len(out) /\ out[k][1] <= f /\ f <= out[k][2]
  BY <1>1, <1>2, <1>5
<1>7. S = {i}
  BY <1>3, <1>4, <1>6
<1> QED BY <1>5, <1>7, FS_Singleton

LEMMA UngroupedNone ==
    ASSUME NEW out, NEW Q, Spans(out, Q), NEW f \in Nat, f \notin Q
    PROVE  \A i \in DOMAIN out : f \notin out[i][1] .. out[i][2]
<1>1. out \in Seq(Pairs) /\ DOMAIN out = 1 .. Len(out)
  BY DEF Spans
<1>2. ASSUME NEW i \in 1 .. Len(out) PROVE f \notin out[i][1] .. out[i][2]
  <2>1. out[i] \in Pairs
    BY <1>1
  <2>2. out[i][1] \in Nat /\ out[i][2] \in Nat
    BY <2>1, PairParts
  <2>3. ~(out[i][1] <= f /\ f <= out[i][2])
    BY DEF Spans
  <2> QED BY <2>2, <2>3
<1> QED BY <1>1, <1>2

LEMMA AtMostOf ==
    ASSUME NEW X, NEW s \in Seq(X), NEW n \in Nat, NEW t, t = AtMost(n, s)
    PROVE  /\ t \in Seq(X) /\ Len(t) \in Nat /\ Len(t) <= n /\ (Len(t) = n \/ Len(t) = Len(s))
           /\ \A i \in Nat : i \in 1 .. Len(t) <=> i \in 1 .. Len(s) /\ i <= n
           /\ \A i \in 1 .. Len(t) : t[i] = s[i]
<1>1. PICK m \in Nat : m = (IF Len(s) < n THEN Len(s) ELSE n) /\ m <= Len(s) /\ m <= n
  OBVIOUS
<1>2. t = SubSeq(s, 1, m)
  BY <1>1 DEF AtMost
<1>3. t \in Seq(X) /\ Len(t) = m /\ \A i \in 1 .. m : t[i] = s[i]
  BY <1>1, <1>2
<1> QED BY <1>1, <1>3

\* The segments of a sheet hold its rows that are not empty.
LEMMA SheetCovers ==
    ASSUME NEW rows \in Seq(Seq({0, 1})), NEW bs, bs = Blocks(rows)
    PROVE  Cover(FlattenSeq([i \in DOMAIN bs |-> TableSegments(rows, bs[i])]),
                 {r \in 1 .. Len(rows) : Full(rows, r)})
<1>1. PICK P : P = {r \in 1 .. Len(rows) : Full(rows, r)}
  OBVIOUS
<1>2. Spans(bs, P)
  BY <1>1, BlocksSpan
<1>3. bs \in Seq(Pairs) /\ DOMAIN bs = 1 .. Len(bs)
  BY <1>2 DEF Spans
<1>4. ASSUME NEW i \in 1 .. Len(bs)
      PROVE  Cover(TableSegments(rows, bs[i]), bs[i][1] .. bs[i][2])
  <2>1. PICK b \in Pairs : b = bs[i]
    BY <1>3
  <2>2. PICK first \in Nat, last \in Nat : b = <<first, last>> /\ first = b[1] /\ last = b[2]
    BY PairParts
  <2>3. 1 <= first /\ first <= last
    BY <1>2, <2>1, <2>2 DEF Spans
  <2>4. first \in P /\ last \in P
    <3>1. first <= first /\ last <= last
      OBVIOUS
    <3> QED BY <1>2, <2>1, <2>2, <2>3, <3>1 DEF Spans
  <2>5. last <= Len(rows) /\ Full(rows, first)
    BY <1>1, <2>4
  <2>6. Cover(TableSegments(rows, b), first .. last)
    BY <2>2, <2>3, <2>5, TableCovers
  <2> QED BY <2>1, <2>2, <2>6
<1>5. PICK segs : segs = [i \in DOMAIN bs |-> TableSegments(rows, bs[i])]
  OBVIOUS
<1>6. segs \in Seq(Seq(Segment)) /\ Len(segs) = Len(bs)
  <2>1. ASSUME NEW i \in 1 .. Len(bs) PROVE TableSegments(rows, bs[i]) \in Seq(Segment)
    BY <1>4 DEF Cover
  <2>2. segs \in [1 .. Len(bs) -> Seq(Segment)]
    BY <1>3, <1>5, <2>1
  <2> QED BY <1>3, <2>2
<1>7. \A i \in 1 .. Len(bs) : Cover(segs[i], bs[i][1] .. bs[i][2])
  BY <1>3, <1>4, <1>5
<1>8. Cover(FlattenSeq(segs), P)
  BY <1>2, <1>6, <1>7, CoverBlocks
<1> QED BY <1>1, <1>5, <1>8

Sheet == [visible : BOOLEAN, rows : Seq(Seq({0, 1})), formulas : Seq(Nat)]

\* What is left is sheets, and the count of formulas stays within its limit.
SheetInv ==
    /\ workbook \in Seq(Sheet)
    /\ nFormulas \in 0 .. MaxFormulas
    /\ EveryRowOnce

LEMMA ParseStep == ASSUME SheetInv, ParseSheet PROVE SheetInv'
<1>1. PICK s \in Sheet : s = Head(workbook) /\ workbook # <<>> /\ workbook' = Tail(workbook)
  <2>1. workbook \in Seq(Sheet) /\ workbook # <<>>
    BY DEF SheetInv, ParseSheet
  <2>2. Head(workbook) \in Sheet
    BY <2>1
  <2> QED BY <2>1, <2>2 DEF ParseSheet
<1>2. workbook' \in Seq(Sheet)
  BY <1>1 DEF SheetInv
<1>3. MaxFormulas \in Nat /\ MaxRows \in Nat
  BY SheetsAssumption
<1>4. s.rows \in Seq(Seq({0, 1})) /\ s.formulas \in Seq(Nat)
  BY DEF Sheet
<1>5. PICK n \in Nat : n = nFormulas /\ MaxFormulas - n \in Nat
  BY <1>3 DEF SheetInv
<1>6. PICK rows \in Seq(Seq({0, 1})) :
          /\ rows = AtMost(MaxRows, s.rows)
          /\ \A r \in Nat : r \in 1 .. Len(rows) <=> r \in 1 .. Len(s.rows) /\ r <= MaxRows
          /\ \A r \in 1 .. Len(rows) : rows[r] = s.rows[r]
  BY <1>3, <1>4, AtMostOf
<1>7. PICK found \in Seq(Nat) :
          /\ found = AtMost(MaxFormulas - n, s.formulas) /\ Len(found) <= MaxFormulas - n
          /\ Len(found) = MaxFormulas - n \/ Len(found) = Len(s.formulas)
  BY <1>4, <1>5, AtMostOf
<1>8. PICK bs : bs = Blocks(rows)
  OBVIOUS
<1>9. CASE s.visible
  <2>1. /\ sheet' = s
        /\ nFormulas' = n + Len(found)
        /\ segments' = FlattenSeq([i \in DOMAIN bs |-> TableSegments(rows, bs[i])])
        /\ groups' = GroupRows(Upto(1, Len(found)), [i \in DOMAIN found |-> found[i] + 1], 0, 0)
    BY <1>1, <1>5, <1>6, <1>7, <1>8, <1>9 DEF ParseSheet
  <2>2. PICK k \in Nat : k = Len(found) /\ k <= MaxFormulas - n /\ 1 <= k + 1
    BY <1>7
  <2>3. nFormulas' \in 0 .. MaxFormulas /\ (k = Len(s.formulas) \/ nFormulas' = MaxFormulas)
    BY <1>3, <1>5, <1>7, <2>1, <2>2
  <2>4. PICK P : P = {r \in 1 .. Len(rows) : Full(rows, r)}
    OBVIOUS
  <2>5. PICK segs : segs = segments' /\ Cover(segs, P)
    BY <1>8, <2>1, <2>4, SheetCovers
  <2>6. Spans(groups', 1 .. k)
    <3>1. PICK weight : weight = [i \in DOMAIN found |-> found[i] + 1]
      OBVIOUS
    <3>2. \A i \in 1 .. Len(found) : weight[i] \in Int
      BY <3>1
    <3>4. groups' = GroupRows(Upto(1, k), weight, 0, 0) /\ \A i \in 1 .. k : weight[i] \in Int
      BY <2>1, <2>2, <3>1, <3>2
    <3>5. 1 \in Nat /\ 1 <= 1 /\ 0 \in Int
      OBVIOUS
    <3> QED BY <2>2, <3>4, <3>5, GroupsSpan
  <2>7. \A r \in Nat : r \in P <=> Full(s.rows, r) /\ r <= MaxRows
    <3>1. DOMAIN rows = 1 .. Len(rows) /\ DOMAIN s.rows = 1 .. Len(s.rows)
      BY <1>4
    <3>2. \A r \in 1 .. Len(rows) : Full(rows, r) <=> Full(s.rows, r)
      BY <1>6, <3>1 DEF Full
    <3>3. \A r \in Nat : Full(s.rows, r) => r \in 1 .. Len(s.rows)
      BY <3>1 DEF Full
    <3> QED BY <1>6, <2>4, <3>2, <3>3
  <2>8. sheet'.rows = s.rows /\ sheet'.formulas = s.formulas /\ segments' = segs
    BY <2>1, <2>5
  <2>9. ASSUME NEW r \in DOMAIN s.rows PROVE RowHeld(r)'
    <3>1. r \in Nat /\ 1 <= r
      <4>1. PICK lines \in Seq(Seq({0, 1})) : lines = s.rows
        BY <1>4
      <4> QED BY <4>1
    <3>2. Placed(segs, P, r)
      BY <2>5, <3>1, HeldOnce
    <3>3. r \in P <=> Full(s.rows, r) /\ r <= MaxRows
      BY <2>7, <3>1
    <3> QED BY <2>8, <3>2, <3>3 DEF Placed, RowHeld
  <2>10. ASSUME NEW i \in DOMAIN segs PROVE OwnHeader(i)'
    <3>1. i \in 1 .. Len(segs) /\ segs \in Seq(Segment)
      BY <2>5 DEF Cover
    <3>2. segs[i].head \in Nat /\ segs[i].last \in Nat
      <4>1. PICK y \in Segment : y = segs[i]
        BY <3>1
      <4> QED BY <4>1 DEF Segment
    <3>3. segs[i].head # 0 => \A r \in Nat : segs[i].head <= r /\ r <= segs[i].last => r \in P
      BY <2>5, <3>1 DEF Cover
    <3>4. segs[i].head # 0 => \A r \in segs[i].head .. segs[i].last : Full(s.rows, r)
      BY <2>7, <3>2, <3>3
    <3> QED BY <2>8, <3>4 DEF OwnHeader
  <2>11. ASSUME NEW f \in DOMAIN s.formulas PROVE FormulaHeld(f)'
    <3>1. f \in Nat /\ f \in 1 .. Len(s.formulas)
      BY <1>4
    <3>2. CASE f \in 1 .. k
      BY <2>6, <3>1, <3>2, GroupedOnce DEF FormulaHeld
    <3>3. CASE f \notin 1 .. k
      <4>1. nFormulas' = MaxFormulas
        BY <2>3, <3>1, <3>3
      <4>2. \A i \in DOMAIN groups' : f \notin groups'[i][1] .. groups'[i][2]
        BY <2>6, <3>1, <3>3, UngroupedNone
      <4> QED BY <4>1, <4>2 DEF FormulaHeld
    <3> QED BY <3>2, <3>3
  <2>12. EveryRowOnce'
    BY <2>8, <2>9, <2>10, <2>11 DEF EveryRowOnce
  <2> QED BY <1>2, <2>3, <2>12 DEF SheetInv
<1>10. CASE ~s.visible
  <2>1. UNCHANGED <<sheet, nFormulas, segments, groups>>
    BY <1>1, <1>10 DEF ParseSheet
  <2>2. EveryRowOnce'
    BY <2>1 DEF SheetInv, EveryRowOnce, RowHeld, OwnHeader, FormulaHeld
  <2> QED BY <1>2, <2>1, <2>2 DEF SheetInv
<1> QED BY <1>9, <1>10

(* EveryRowOnce of Sheets, for any workbook and limits: the segments that     *)
(* _parse_sync makes of a visible sheet name every row below MAX_ROWS that is *)
(* not empty once, or carry it as the header over the first rows of its       *)
(* table, and no other row; and a formula is in one group unless MAX_FORMULAS *)
(* are read.                                                                  *)
THEOREM SheetTheorem == SheetSpec => []EveryRowOnce
<1>1. SheetInit => SheetInv
  <2>1. SUFFICES ASSUME SheetInit PROVE SheetInv
    OBVIOUS
  <2>2. workbook \in Seq(Sheet) /\ nFormulas \in 0 .. MaxFormulas
    BY <2>1, SheetsAssumption DEF SheetInit, Sheet
  <2>3. DOMAIN sheet.rows = {} /\ DOMAIN sheet.formulas = {} /\ DOMAIN segments = {}
    BY <2>1 DEF SheetInit
  <2> QED BY <2>2, <2>3 DEF SheetInv, EveryRowOnce
<1>2. SheetInv /\ [ParseSheet]_sheetVars => SheetInv'
  <2>1. ASSUME SheetInv, UNCHANGED sheetVars PROVE SheetInv'
    BY <2>1 DEF SheetInv, sheetVars, EveryRowOnce, RowHeld, OwnHeader, FormulaHeld
  <2> QED BY <2>1, ParseStep
<1>3. SheetInv => EveryRowOnce
  BY DEF SheetInv
<1> QED BY <1>1, <1>2, <1>3, PTL DEF SheetSpec

-----------------------------------------------------------------------------
(* Retrieval: the invariant of the registry and the vectors.                *)

WriterSteps == [create |-> {"insert", "look", "drop", "make", "undo"},
                delete |-> {"get", "look", "drop", "row"}]
ReaderSteps == {"guard", "get", "embed", "hits", "generate", "judge"}

\* A slot holds a request of its kind, at a step of its handler.
Formed(r) ==
    /\ request[r] = [op |-> request[r].op, at |-> request[r].at, calm |-> request[r].calm,
                     found |-> request[r].found, said |-> request[r].said,
                     answer |-> request[r].answer, cites |-> request[r].cites]
    /\ request[r].calm \in BOOLEAN
    /\ r \in Readers => request[r].at \in ReaderSteps \cup {"end"}
    /\ r \in Writers => \/ request[r].at = "end"
                        \/ request[r].op = "create" /\ request[r].at \in WriterSteps.create
                        \/ request[r].op = "delete" /\ request[r].at \in WriterSteps.delete

Typed ==
    /\ row \in BOOLEAN /\ vectors \in BOOLEAN /\ torn \in BOOLEAN
    /\ request = [r \in Slots |-> request[r]]
    /\ \A r \in Slots : Formed(r)

\* A writer that will make the vectors, delete the row, or leave it in doubt.
Mends(w) ==
    \/ request[w].op = "create" /\ request[w].at \in {"look", "drop", "make", "undo"}
    \/ request[w].op = "delete" /\ request[w].at \in {"drop", "row"}

Mended == row /\ ~vectors /\ ~torn => \E w \in Writers : Mends(w)

\* A reader nobody disturbed found the row, and nobody writes.
Undisturbed(r) ==
    /\ request[r].calm /\ InFlight(r) => ~Writing
    /\ request[r].calm /\ request[r].at \in {"embed", "hits"} => row
    /\ request[r].answer = "lost" => ~request[r].calm

Inv == Typed /\ Mended /\ \A r \in Readers : Undisturbed(r)

-----------------------------------------------------------------------------
(* What the steps do to the requests.                                       *)

\* All but r are left alone.
Only(r) == \A s \in Slots : s # r => request'[s] = request[s]

LEMMA GoOnEffect ==
    ASSUME Typed, NEW r \in Slots, NEW step, GoOn(r, step)
    PROVE  /\ Only(r) /\ request' = [s \in Slots |-> request'[s]]
           /\ request'[r] = [op |-> request[r].op, at |-> step, calm |-> request[r].calm,
                             found |-> request[r].found, said |-> request[r].said,
                             answer |-> request[r].answer, cites |-> request[r].cites]
<1>1. PICK q : q = request[r]
  OBVIOUS
<1>2. q = [op |-> q.op, at |-> q.at, calm |-> q.calm, found |-> q.found, said |-> q.said,
           answer |-> q.answer, cites |-> q.cites]
  BY <1>1 DEF Typed, Formed
<1>3. request' = [request EXCEPT ![r] = [q EXCEPT !.at = step]]
  BY <1>1 DEF GoOn
<1>4. [q EXCEPT !.at = step] =
          [op |-> q.op, at |-> step, calm |-> q.calm, found |-> q.found, said |-> q.said,
           answer |-> q.answer, cites |-> q.cites]
  BY <1>2
<1> QED BY <1>1, <1>3, <1>4 DEF Only, Typed

LEMMA AnswerEffect ==
    ASSUME Typed, NEW r \in Slots, NEW a, AnswerWith(r, a)
    PROVE  /\ Only(r) /\ request' = [s \in Slots |-> request'[s]]
           /\ request'[r] = [op |-> request[r].op, at |-> "end", calm |-> request[r].calm,
                             found |-> request[r].found, said |-> request[r].said,
                             answer |-> a, cites |-> request[r].cites]
<1>1. PICK q : q = request[r]
  OBVIOUS
<1>2. q = [op |-> q.op, at |-> q.at, calm |-> q.calm, found |-> q.found, said |-> q.said,
           answer |-> q.answer, cites |-> q.cites]
  BY <1>1 DEF Typed, Formed
<1>3. request' = [request EXCEPT ![r] = [q EXCEPT !.at = "end", !.answer = a]]
  BY <1>1 DEF AnswerWith
<1>4. PICK p : p = [op |-> q.op, at |-> "end", calm |-> q.calm, found |-> q.found, said |-> q.said,
                    answer |-> q.answer, cites |-> q.cites]
  OBVIOUS
<1>5. [q EXCEPT !.at = "end"] = p
  BY <1>2, <1>4
<1>6. [q EXCEPT !.at = "end", !.answer = a] = [p EXCEPT !.answer = a]
  BY <1>5
<1>7. [p EXCEPT !.answer = a] =
          [op |-> q.op, at |-> "end", calm |-> q.calm, found |-> q.found, said |-> q.said,
           answer |-> a, cites |-> q.cites]
  BY <1>4
<1> QED BY <1>1, <1>3, <1>6, <1>7 DEF Only, Typed

\* A handler goes on, or ends.
Moves(r, at, answer) ==
    /\ Only(r) /\ request' = [s \in Slots |-> request'[s]]
    /\ Formed(r)'
    /\ request'[r].op = request[r].op /\ request'[r].calm = request[r].calm
    /\ request'[r].at = at /\ request'[r].answer = answer

\* A step of a reader that leaves the stores alone.
LEMMA ReaderMoves ==
    ASSUME Inv, NEW r \in Readers, NEW at, NEW answer, Moves(r, at, answer),
           answer # "lost" \/ answer = request[r].answer,
           InFlight(r), at \in {"embed", "hits"} => request[r].at \in {"embed", "hits"} \/ row,
           UNCHANGED <<row, vectors, torn>>
    PROVE  Inv'
<1>1. \A w \in Writers : request'[w] = request[w] /\ w \in Slots
  BY DEF Moves, Only, Slots
<1>2. Typed'
  BY DEF Inv, Typed, Moves, Only, Formed
<1>3. Mended'
  BY <1>1 DEF Inv, Mended, Mends
<1>4. Writing' = Writing
  BY <1>1 DEF Writing, InFlight
<1>5. ASSUME NEW s \in Readers PROVE Undisturbed(s)'
  BY <1>4 DEF Inv, Undisturbed, Moves, Only, InFlight, Slots
<1> QED BY <1>2, <1>3, <1>5 DEF Inv

\* A step of a writer: readers in flight were disturbed when it began.
LEMMA WriterMoves ==
    ASSUME Inv, NEW w \in Writers, NEW at, NEW answer, Moves(w, at, answer), InFlight(w),
           row' \in BOOLEAN, vectors' \in BOOLEAN, torn' \in BOOLEAN, Mended'
    PROVE  Inv'
<1>1. w \in Slots /\ Writing /\ \A s \in Readers : s \in Slots /\ s # w /\ request'[s] = request[s]
  BY DEF Moves, Only, Slots, Writing
<1>2. Typed'
  BY DEF Inv, Typed, Moves, Only, Formed
<1>3. ASSUME NEW s \in Readers PROVE Undisturbed(s)'
  BY <1>1 DEF Inv, Undisturbed, InFlight
<1> QED BY <1>2, <1>3 DEF Inv

-----------------------------------------------------------------------------
(* The steps.                                                               *)

LEMMA WriterAt ==
    ASSUME Inv, NEW w \in Slots, request[w].at \in {"insert", "look", "drop", "make", "undo", "row"}
    PROVE  w \in Writers /\ InFlight(w)
  BY DEF Inv, Typed, Formed, ReaderSteps, InFlight, Slots

\* Where a writer stands tells what it is.
LEMMA WriterIs ==
    ASSUME Inv, NEW w \in Writers
    PROVE  /\ request[w].at \in {"insert", "make", "undo"} => request[w].op = "create"
           /\ request[w].at \in {"get", "row"} => request[w].op = "delete"
           /\ request[w].at \in {"look", "drop"} => request[w].op \in {"create", "delete"}
  BY DEF Inv, Typed, Formed, WriterSteps, Slots

\* A writer goes on to a step of its handler.
LEMMA WriterGoes ==
    ASSUME Inv, NEW w \in Writers, NEW at, GoOn(w, at),
           \/ request[w].op = "create" /\ at \in {"look", "drop", "make", "undo"}
           \/ request[w].op = "delete" /\ at \in {"look", "drop", "row"}
    PROVE  Moves(w, at, request[w].answer)
<1>1. w \in Slots /\ w \notin Readers /\ request[w].calm \in BOOLEAN
  BY DEF Inv, Typed, Formed, Slots
<1>2. /\ Only(w) /\ request' = [s \in Slots |-> request'[s]]
      /\ request'[w] = [op |-> request[w].op, at |-> at, calm |-> request[w].calm,
                        found |-> request[w].found, said |-> request[w].said,
                        answer |-> request[w].answer, cites |-> request[w].cites]
  BY <1>1, GoOnEffect DEF Inv
<1>3. /\ request'[w].op = request[w].op /\ request'[w].at = at /\ request'[w].calm = request[w].calm
      /\ request'[w].found = request[w].found /\ request'[w].said = request[w].said
      /\ request'[w].answer = request[w].answer /\ request'[w].cites = request[w].cites
  BY <1>2
<1> QED BY <1>1, <1>2, <1>3 DEF Formed, Moves, WriterSteps

LEMMA Ends ==
    ASSUME Inv, NEW r \in Slots, NEW a, AnswerWith(r, a)
    PROVE  Moves(r, "end", a)
<1>1. request[r].calm \in BOOLEAN
  BY DEF Inv, Typed, Formed
<1>2. /\ Only(r) /\ request' = [s \in Slots |-> request'[s]]
      /\ request'[r] = [op |-> request[r].op, at |-> "end", calm |-> request[r].calm,
                        found |-> request[r].found, said |-> request[r].said,
                        answer |-> a, cites |-> request[r].cites]
  BY AnswerEffect DEF Inv
<1>3. /\ request'[r].op = request[r].op /\ request'[r].at = "end" /\ request'[r].calm = request[r].calm
      /\ request'[r].found = request[r].found /\ request'[r].said = request[r].said
      /\ request'[r].answer = a /\ request'[r].cites = request[r].cites
  BY <1>2
<1> QED BY <1>1, <1>2, <1>3 DEF Formed, Moves

\* Another writer is where it was; a writer that moved mends if its place does.
LEMMA MendsKept ==
    ASSUME NEW w \in Writers, NEW at, NEW answer, Moves(w, at, answer)
    PROVE  /\ \A x \in Writers : x # w => (Mends(x)' <=> Mends(x))
           /\ request[w].op = "create" /\ at \in {"look", "drop", "make", "undo"} => Mends(w)'
           /\ request[w].op = "delete" /\ at \in {"drop", "row"} => Mends(w)'
  BY DEF Moves, Only, Mends, Slots

\* Mended after a step of w: nothing is to mend, or w mends, or w never did.
LEMMA MendedAfter ==
    ASSUME Inv, NEW w \in Writers, NEW at, NEW answer, Moves(w, at, answer),
           \/ ~row' \/ vectors' \/ torn'
           \/ request[w].op = "create" /\ at \in {"look", "drop", "make", "undo"}
           \/ request[w].op = "delete" /\ at \in {"drop", "row"}
           \/ ~Mends(w) /\ UNCHANGED <<row, vectors, torn>>
    PROVE  Mended'
  BY MendsKept DEF Inv, Mended

LEMMA InsertStep == ASSUME Inv, NEW w \in Slots, Insert(w) PROVE Inv'
<1>1. /\ w \in Writers /\ InFlight(w) /\ request[w].op = "create" /\ request[w].at = "insert"
      /\ row' = TRUE /\ vectors' = vectors /\ torn' = torn
  BY WriterAt, WriterIs DEF Insert, At, Calm
<1>2. CASE row
  <2>1. Moves(w, "end", "conflict")
    BY <1>1, <1>2, Ends DEF Insert
  <2>2. ~Mends(w) /\ row' = row
    BY <1>1, <1>2 DEF Mends
  <2> QED BY <1>1, <2>1, <2>2, MendedAfter, WriterMoves DEF Inv, Typed
<1>3. CASE ~row
  <2>1. Moves(w, "look", request[w].answer)
    BY <1>1, <1>3, WriterGoes DEF Insert
  <2> QED BY <1>1, <2>1, MendedAfter, WriterMoves DEF Inv, Typed
<1> QED BY <1>2, <1>3

LEMMA LookStep == ASSUME Inv, NEW w \in Slots, CollectionExists(w) PROVE Inv'
<1>1. /\ w \in Writers /\ InFlight(w) /\ request[w].at = "look"
      /\ request[w].op \in {"create", "delete"} /\ UNCHANGED <<row, vectors, torn>>
  BY WriterAt, WriterIs DEF CollectionExists, At, Calm
<1>2. PICK at : /\ at = IF vectors THEN "drop" ELSE IF request[w].op = "create" THEN "make" ELSE "row"
                /\ GoOn(w, at)
  BY DEF CollectionExists
<1>3. Moves(w, at, request[w].answer)
  BY <1>1, <1>2, WriterGoes
<1> QED BY <1>1, <1>2, <1>3, MendedAfter, WriterMoves DEF Inv, Typed

LEMMA DropStep == ASSUME Inv, NEW w \in Slots, DropVectors(w) PROVE Inv'
<1>1. /\ w \in Writers /\ InFlight(w) /\ request[w].at = "drop"
      /\ request[w].op \in {"create", "delete"} /\ vectors' = FALSE /\ UNCHANGED <<row, torn>>
  BY WriterAt, WriterIs DEF DropVectors, At, Calm
<1>2. PICK at : at = (IF request[w].op = "create" THEN "make" ELSE "row") /\ GoOn(w, at)
  BY DEF DropVectors
<1>3. Moves(w, at, request[w].answer)
  BY <1>1, <1>2, WriterGoes
<1> QED BY <1>1, <1>2, <1>3, MendedAfter, WriterMoves DEF Inv, Typed

LEMMA MakeStep == ASSUME Inv, NEW w \in Slots, MakeVectors(w) PROVE Inv'
<1>1. /\ w \in Writers /\ InFlight(w) /\ request[w].at = "make" /\ request[w].op = "create"
      /\ vectors' = TRUE /\ UNCHANGED <<row, torn>>
  BY WriterAt, WriterIs DEF MakeVectors, At, Calm
<1>2. Moves(w, "undo", request[w].answer) \/ Moves(w, "end", "created")
  BY <1>1, Ends, WriterGoes DEF MakeVectors
<1> QED BY <1>1, <1>2, MendedAfter, WriterMoves DEF Inv, Typed

LEMMA RowStep == ASSUME Inv, NEW w \in Slots, DeleteRow(w) PROVE Inv'
<1>1. /\ w \in Writers /\ InFlight(w) /\ row' = FALSE /\ torn' = FALSE /\ vectors' = vectors
  BY WriterAt DEF DeleteRow, At
<1>2. PICK a : Moves(w, "end", a)
  BY Ends DEF DeleteRow
<1> QED BY <1>1, <1>2, MendedAfter, WriterMoves DEF Inv, Typed

LEMMA FailsStep == ASSUME Inv, NEW r \in Slots, CallFails(r) PROVE Inv'
<1>1. /\ InFlight(r) /\ row' \in BOOLEAN /\ vectors' \in BOOLEAN /\ torn' \in BOOLEAN
      /\ torn' = (row' /\ (torn \/ Damage(r)))
  BY DEF CallFails, Inv, Typed
<1>2. CASE r \in Readers
  <2>1. request[r].at \in ReaderSteps /\ r \notin Writers
    BY <1>1, <1>2 DEF Inv, Typed, Formed, InFlight
  <2>2. row' = row /\ vectors' = vectors /\ request[r].at \notin {"look", "drop", "make", "insert", "undo", "row"}
    BY <2>1 DEF CallFails, At, ReaderSteps
  <2>3. Moves(r, "end", "failed")
    BY <2>2, Ends DEF CallFails, AfterFailure
  <2>4. \A w \in Writers : request'[w] = request[w]
    BY <2>1, <2>3 DEF Moves, Only, Slots
  <2>6. Mended'
    BY <1>1, <2>2, <2>4 DEF Inv, Mended, Mends
  <2>7. Writing' = Writing
    BY <2>4 DEF Writing, InFlight
  <2>8. ASSUME NEW s \in Readers PROVE Undisturbed(s)'
    BY <2>2, <2>3, <2>7 DEF Inv, Undisturbed, Moves, Only, InFlight, Slots
  <2>9. Typed'
    BY <1>1, <2>3 DEF Inv, Typed, Moves, Only, Formed
  <2> QED BY <2>6, <2>8, <2>9 DEF Inv
<1>3. CASE r \in Writers
  <2>1. CASE AfterFailure(r) = "end"
    <3>1. Moves(r, "end", "failed")
      BY <2>1, Ends DEF CallFails
    <3>2. ~(request[r].op = "create" /\ request[r].at \in {"look", "drop", "make"})
      BY <2>1 DEF AfterFailure
    <3>3. ~row' \/ vectors' \/ torn' \/ (~Mends(r) /\ UNCHANGED <<row, vectors, torn>>)
      BY <1>1, <1>3, <3>2, WriterIs DEF CallFails, Damage, Mends, At, Inv, Typed
    <3> QED BY <1>1, <1>3, <3>1, <3>3, MendedAfter, WriterMoves
  <2>2. CASE AfterFailure(r) # "end"
    <3>1. request[r].op = "create" /\ request[r].at \in {"look", "drop", "make"}
      BY <2>2 DEF AfterFailure
    <3>2. Moves(r, "undo", request[r].answer)
      BY <1>3, <2>2, <3>1, WriterGoes DEF CallFails, AfterFailure
    <3> QED BY <1>1, <1>3, <3>1, <3>2, MendedAfter, WriterMoves
  <2> QED BY <2>1, <2>2
<1> QED BY <1>2, <1>3 DEF Slots

\* A reader, or a delete that looks its collection up, goes on.
LEMMA ReaderGoes ==
    ASSUME Inv, NEW r \in Readers, NEW at \in ReaderSteps, GoOn(r, at)
    PROVE  Moves(r, at, request[r].answer)
<1>1. r \in Slots /\ r \notin Writers /\ request[r].calm \in BOOLEAN
  BY DEF Inv, Typed, Formed, Slots
<1>2. /\ Only(r) /\ request' = [s \in Slots |-> request'[s]]
      /\ request'[r] = [op |-> request[r].op, at |-> at, calm |-> request[r].calm,
                        found |-> request[r].found, said |-> request[r].said,
                        answer |-> request[r].answer, cites |-> request[r].cites]
  BY <1>1, GoOnEffect DEF Inv
<1>3. /\ request'[r].op = request[r].op /\ request'[r].at = at /\ request'[r].calm = request[r].calm
      /\ request'[r].found = request[r].found /\ request'[r].said = request[r].said
      /\ request'[r].answer = request[r].answer /\ request'[r].cites = request[r].cites
  BY <1>2
<1> QED BY <1>1, <1>2, <1>3 DEF Formed, Moves

LEMMA ReaderAt ==
    ASSUME Inv, NEW r \in Slots, request[r].at \in {"guard", "embed", "hits", "generate", "judge"}
    PROVE  r \in Readers /\ InFlight(r)
  BY DEF Inv, Typed, Formed, WriterSteps, InFlight, Slots

LEMMA GetStep == ASSUME Inv, NEW r \in Slots, GetCollection(r) PROVE Inv'
<1>1. request[r].at = "get" /\ InFlight(r) /\ UNCHANGED <<row, vectors, torn>>
  BY DEF GetCollection, At, Calm, InFlight
<1>2. CASE r \in Readers
  <2>1. CASE row
    <3>1. Moves(r, "embed", request[r].answer)
      BY <1>2, <2>1, ReaderGoes DEF GetCollection, ReaderSteps
    <3> QED BY <1>1, <1>2, <2>1, <3>1, ReaderMoves
  <2>2. CASE ~row
    <3>1. Moves(r, "end", "missing")
      BY <2>2, Ends DEF GetCollection
    <3> QED BY <1>1, <1>2, <3>1, ReaderMoves
  <2> QED BY <2>1, <2>2
<1>3. CASE r \in Writers
  <2>1. request[r].op = "delete" /\ ~Mends(r) /\ r \notin Readers
    BY <1>1, <1>3, WriterIs DEF Mends
  <2>2. Moves(r, "look", request[r].answer) \/ Moves(r, "end", "missing")
    BY <1>3, <2>1, WriterGoes, Ends DEF GetCollection
  <2> QED BY <1>1, <1>3, <2>1, <2>2, MendedAfter, WriterMoves DEF Inv, Typed
<1> QED BY <1>2, <1>3 DEF Slots

\* What a reader writes down of its answer does not matter here.
LEMMA Noted ==
    ASSUME Inv, NEW r \in Readers, NEW at \in ReaderSteps \cup {"end"}, NEW answer,
           NEW calm \in BOOLEAN, calm => request[r].calm, answer = "lost" => ~calm,
           NEW found, NEW said, NEW cites,
           request' = [request EXCEPT ![r] = [op |-> request[r].op, at |-> at, calm |-> calm,
                                              found |-> found, said |-> said,
                                              answer |-> answer, cites |-> cites]],
           InFlight(r), at \in {"embed", "hits"} => request[r].at \in {"embed", "hits"} \/ row,
           UNCHANGED <<row, vectors, torn>>
    PROVE  Inv'
<1>1. r \in Slots /\ r \notin Writers
  BY DEF Slots
<1>2. /\ Only(r) /\ request' = [s \in Slots |-> request'[s]]
      /\ request'[r] = [op |-> request[r].op, at |-> at, calm |-> calm, found |-> found,
                        said |-> said, answer |-> answer, cites |-> cites]
  BY <1>1 DEF Inv, Typed, Only
<1>3. /\ request'[r].op = request[r].op /\ request'[r].at = at /\ request'[r].calm = calm
      /\ request'[r].found = found /\ request'[r].said = said
      /\ request'[r].answer = answer /\ request'[r].cites = cites
  BY <1>2
<1>4. Typed'
  BY <1>1, <1>2, <1>3 DEF Inv, Typed, Formed, Only
<1>5. \A w \in Writers : request'[w] = request[w]
  BY <1>1, <1>2 DEF Only, Slots
<1>6. Mended' /\ Writing' = Writing
  BY <1>5 DEF Inv, Mended, Mends, Writing, InFlight
<1>7. ASSUME NEW s \in Readers PROVE Undisturbed(s)'
  BY <1>2, <1>3, <1>6 DEF Inv, Undisturbed, Only, InFlight, Slots
<1> QED BY <1>4, <1>6, <1>7 DEF Inv

\* A request's record.
Req(op, at, calm, found, said, answer, cites) ==
    [op |-> op, at |-> at, calm |-> calm, found |-> found, said |-> said, answer |-> answer, cites |-> cites]

LEMMA Recorded ==
    ASSUME Inv, NEW r \in Slots
    PROVE  \E q : /\ q = request[r] /\ q.calm \in BOOLEAN
                  /\ q = Req(q.op, q.at, q.calm, q.found, q.said, q.answer, q.cites)
  BY DEF Inv, Typed, Formed, Req

\* What a search comes to, and the two steps that write down of an answer.
LEMMA HitsEffect ==
    ASSUME Inv, NEW r \in Slots, HybridSearch(r), NEW q, q = request[r]
    PROVE  \/ \E c \in BOOLEAN :
                  /\ ~vectors /\ c = (q.calm /\ ~torn)
                  /\ request' = [request EXCEPT ![r] = Req(q.op, "end", c, q.found, q.said, "lost", q.cites)]
           \/ \E n \in Found, at \in {"generate", "end"}, a \in {"chunks", "insufficient", "none"} :
                  /\ vectors /\ (at = "generate" => n # <<>> /\ a = "none")
                  /\ request' = [request EXCEPT ![r] = Req(q.op, at, q.calm, n, q.said, a, q.cites)]
<1>1. q.calm \in BOOLEAN /\ q = Req(q.op, q.at, q.calm, q.found, q.said, q.answer, q.cites)
  BY Recorded
<1>3. CASE ~vectors
  <2>1. PICK c \in BOOLEAN : c = (q.calm /\ ~torn)
    OBVIOUS
  <2>3. request' = [request EXCEPT ![r] = [[[q EXCEPT !.at = "end"] EXCEPT !.answer = "lost"] EXCEPT !.calm = c]]
    BY <1>3, <2>1 DEF HybridSearch, Inv, Typed
  <2>4. [[[q EXCEPT !.at = "end"] EXCEPT !.answer = "lost"] EXCEPT !.calm = c]
            = Req(q.op, "end", c, q.found, q.said, "lost", q.cites)
    <3>1. PICK u : u = Req(q.op, "end", q.calm, q.found, q.said, q.answer, q.cites)
      OBVIOUS
    <3>2. PICK v : v = Req(q.op, "end", q.calm, q.found, q.said, "lost", q.cites)
      OBVIOUS
    <3>3. [q EXCEPT !.at = "end"] = u
      BY <1>1, <3>1 DEF Req
    <3>4. [u EXCEPT !.answer = "lost"] = v
      BY <3>1, <3>2 DEF Req
    <3>5. [v EXCEPT !.calm = c] = Req(q.op, "end", c, q.found, q.said, "lost", q.cites)
      BY <3>2 DEF Req
    <3> QED BY <3>3, <3>4, <3>5
  <2> QED BY <1>3, <2>1, <2>3, <2>4
<1>4. CASE vectors
  <2>1. PICK n \in Found, at \in {"generate", "end"}, a \in {"chunks", "insufficient", "none"} :
            /\ request' = [request EXCEPT ![r].found = n, ![r].at = at, ![r].answer = a]
            /\ at = "generate" => n # <<>> /\ a = "none"
    <3>1. PICK n \in Found :
              request' = [request EXCEPT ![r].found = n,
                  ![r].at = IF q.op = "query" /\ n # <<>> THEN "generate" ELSE "end",
                  ![r].answer = IF q.op = "search" THEN "chunks" ELSE IF n = <<>> THEN "insufficient" ELSE "none"]
      BY <1>4 DEF HybridSearch
    <3>2. PICK at : at = IF q.op = "query" /\ n # <<>> THEN "generate" ELSE "end"
      OBVIOUS
    <3>3. PICK a : a = IF q.op = "search" THEN "chunks" ELSE IF n = <<>> THEN "insufficient" ELSE "none"
      OBVIOUS
    <3>4. at \in {"generate", "end"} /\ a \in {"chunks", "insufficient", "none"}
          /\ (at = "generate" => n # <<>> /\ a = "none")
      BY <3>2, <3>3
    <3> QED BY <3>1, <3>2, <3>3, <3>4
  <2>2. request' = [request EXCEPT ![r] = [[[q EXCEPT !.found = n] EXCEPT !.at = at] EXCEPT !.answer = a]]
    BY <2>1 DEF Inv, Typed
  <2>3. [[[q EXCEPT !.found = n] EXCEPT !.at = at] EXCEPT !.answer = a]
            = Req(q.op, at, q.calm, n, q.said, a, q.cites)
    <3>1. PICK u : u = Req(q.op, q.at, q.calm, n, q.said, q.answer, q.cites)
      OBVIOUS
    <3>2. PICK v : v = Req(q.op, at, q.calm, n, q.said, q.answer, q.cites)
      OBVIOUS
    <3>3. [q EXCEPT !.found = n] = u
      BY <1>1, <3>1 DEF Req
    <3>4. [u EXCEPT !.at = at] = v
      BY <3>1, <3>2 DEF Req
    <3>5. [v EXCEPT !.answer = a] = Req(q.op, at, q.calm, n, q.said, a, q.cites)
      BY <3>2 DEF Req
    <3> QED BY <3>3, <3>4, <3>5
  <2>4. request' = [request EXCEPT ![r] = Req(q.op, at, q.calm, n, q.said, a, q.cites)]
    BY <2>2, <2>3
  <2>5. vectors /\ (at = "generate" => n # <<>> /\ a = "none")
    BY <1>4, <2>1
  <2> QED BY <2>4, <2>5
<1> QED BY <1>3, <1>4

LEMMA GenerateEffect ==
    ASSUME Inv, NEW r \in Slots, Generate(r), NEW q, q = request[r]
    PROVE  \E t \in Said : request' = [request EXCEPT ![r] = Req(q.op, "judge", q.calm, q.found, t, q.answer, q.cites)]
<1>1. q.calm \in BOOLEAN /\ q = Req(q.op, q.at, q.calm, q.found, q.said, q.answer, q.cites)
  BY Recorded
<1>2. PICK t \in Said : request' = [request EXCEPT ![r].at = "judge", ![r].said = t]
  BY DEF Generate
<1>3. request' = [request EXCEPT ![r] = [[q EXCEPT !.at = "judge"] EXCEPT !.said = t]]
  BY <1>2 DEF Inv, Typed
<1>4. [[q EXCEPT !.at = "judge"] EXCEPT !.said = t]
          = Req(q.op, "judge", q.calm, q.found, t, q.answer, q.cites)
  <2>1. PICK u : u = Req(q.op, "judge", q.calm, q.found, q.said, q.answer, q.cites)
    OBVIOUS
  <2>2. [q EXCEPT !.at = "judge"] = u
    BY <1>1, <2>1 DEF Req
  <2>3. [u EXCEPT !.said = t] = Req(q.op, "judge", q.calm, q.found, t, q.answer, q.cites)
    BY <2>1 DEF Req
  <2> QED BY <2>2, <2>3
<1> QED BY <1>2, <1>3, <1>4

LEMMA OutputEffect ==
    ASSUME Inv, NEW r \in Slots, CheckOutput(r), NEW q, q = request[r]
    PROVE  \/ AnswerWith(r, "blocked") \/ AnswerWith(r, "insufficient")
           \/ \E cs : /\ q.said.sufficient /\ cs = ExtractCitations(q.said.marks, q.found)
                      /\ request' = [request EXCEPT ![r] =
                                         Req(q.op, "end", q.calm, q.found, q.said, "answered", cs)]
<1>1. q.calm \in BOOLEAN /\ q = Req(q.op, q.at, q.calm, q.found, q.said, q.answer, q.cites)
  BY Recorded
<1>2. PICK cs : cs = ExtractCitations(q.said.marks, q.found)
  OBVIOUS
<1>3. SUFFICES ASSUME request' = [request EXCEPT ![r].at = "end", ![r].answer = "answered", ![r].cites = cs]
               PROVE  request' = [request EXCEPT ![r] = Req(q.op, "end", q.calm, q.found, q.said, "answered", cs)]
  BY <1>2 DEF CheckOutput
<1>4. request' = [request EXCEPT ![r] =
          [[[q EXCEPT !.at = "end"] EXCEPT !.answer = "answered"] EXCEPT !.cites = cs]]
  BY <1>3 DEF Inv, Typed
<1>5. [[[q EXCEPT !.at = "end"] EXCEPT !.answer = "answered"] EXCEPT !.cites = cs]
          = Req(q.op, "end", q.calm, q.found, q.said, "answered", cs)
  <2>1. PICK u : u = Req(q.op, "end", q.calm, q.found, q.said, q.answer, q.cites)
    OBVIOUS
  <2>2. PICK v : v = Req(q.op, "end", q.calm, q.found, q.said, "answered", q.cites)
    OBVIOUS
  <2>3. [q EXCEPT !.at = "end"] = u
    BY <1>1, <2>1 DEF Req
  <2>4. [u EXCEPT !.answer = "answered"] = v
    BY <2>1, <2>2 DEF Req
  <2>5. [v EXCEPT !.cites = cs] = Req(q.op, "end", q.calm, q.found, q.said, "answered", cs)
    BY <2>2 DEF Req
  <2> QED BY <2>3, <2>4, <2>5
<1> QED BY <1>4, <1>5

LEMMA HitsStep == ASSUME Inv, NEW r \in Slots, HybridSearch(r) PROVE Inv'
<1>1. r \in Readers /\ InFlight(r) /\ request[r].at = "hits" /\ UNCHANGED <<row, vectors, torn>>
  BY ReaderAt DEF HybridSearch, At, Calm
<1>2. PICK q : q = request[r] /\ q.calm \in BOOLEAN
  BY Recorded
<1>3. ASSUME NEW c \in BOOLEAN, ~vectors, c = (q.calm /\ ~torn),
             request' = [request EXCEPT ![r] = Req(q.op, "end", c, q.found, q.said, "lost", q.cites)]
      PROVE  Inv'
  <2>1. ~c
    BY <1>1, <1>2, <1>3 DEF Inv, Undisturbed, Mended, Mends, Writing, InFlight
  <2>2. request' = [request EXCEPT ![r] =
            [op |-> request[r].op, at |-> "end", calm |-> c, found |-> q.found, said |-> q.said,
             answer |-> "lost", cites |-> q.cites]]
    BY <1>2, <1>3 DEF Req
  <2> QED BY <1>1, <2>1, <2>2, Noted
<1>4. ASSUME NEW n \in Found, NEW at \in {"generate", "end"}, NEW a \in {"chunks", "insufficient", "none"},
             request' = [request EXCEPT ![r] = Req(q.op, at, q.calm, n, q.said, a, q.cites)]
      PROVE  Inv'
  <2>1. request' = [request EXCEPT ![r] =
            [op |-> request[r].op, at |-> at, calm |-> q.calm, found |-> n, said |-> q.said,
             answer |-> a, cites |-> q.cites]]
    BY <1>2, <1>4 DEF Req
  <2>2. at \in ReaderSteps \cup {"end"}
    BY DEF ReaderSteps
  <2> QED BY <1>1, <1>2, <2>1, <2>2, Noted
<1> QED BY <1>2, <1>3, <1>4, HitsEffect

LEMMA AnswerStep ==
    ASSUME Inv, NEW r \in Slots, CheckInput(r) \/ Embed(r) \/ Generate(r) \/ CheckOutput(r)
    PROVE  Inv'
<1>1. r \in Readers /\ InFlight(r) /\ UNCHANGED <<row, vectors, torn>>
  BY ReaderAt DEF CheckInput, Embed, Generate, CheckOutput, At, Calm
<1>2. PICK q : q = request[r] /\ q.calm \in BOOLEAN
  BY Recorded
<1>3. q.answer = "lost" => ~q.calm
  BY <1>1, <1>2 DEF Inv, Undisturbed
<1>4. CASE CheckInput(r)
  <2>1. Moves(r, "get", q.answer) \/ Moves(r, "end", "blocked")
    BY <1>1, <1>2, <1>4, ReaderGoes, Ends DEF CheckInput, ReaderSteps
  <2> QED BY <1>1, <1>2, <2>1, ReaderMoves
<1>5. CASE Embed(r)
  <2>1. Moves(r, "hits", q.answer) /\ request[r].at = "embed"
    BY <1>1, <1>2, <1>5, ReaderGoes DEF Embed, ReaderSteps, At
  <2> QED BY <1>1, <1>2, <2>1, ReaderMoves
<1>6. ASSUME NEW step \in {"judge", "end"}, NEW t, NEW a, NEW cs, a = q.answer \/ a = "answered",
             request' = [request EXCEPT ![r] = Req(q.op, step, q.calm, q.found, t, a, cs)]
      PROVE  Inv'
  <2>1. PICK at \in ReaderSteps \cup {"end"}, c \in BOOLEAN : at = step /\ c = q.calm
    BY <1>2 DEF ReaderSteps
  <2>2. PICK f : f = q.found
    OBVIOUS
  <2>3. request' = [request EXCEPT ![r] =
            [op |-> request[r].op, at |-> at, calm |-> c, found |-> f, said |-> t,
             answer |-> a, cites |-> cs]]
    BY <1>2, <1>6, <2>1, <2>2 DEF Req
  <2>4. (c => request[r].calm) /\ (a = "lost" => ~c) /\ at \notin {"embed", "hits"}
    BY <1>2, <1>3, <1>6, <2>1
  <2> QED BY <1>1, <2>3, <2>4, Noted
<1>7. CASE Generate(r)
  <2>1. PICK t \in Said :
            request' = [request EXCEPT ![r] = Req(q.op, "judge", q.calm, q.found, t, q.answer, q.cites)]
    BY <1>2, <1>7, GenerateEffect
  <2> QED BY <1>6, <2>1
<1>8. CASE CheckOutput(r)
  <2>1. CASE AnswerWith(r, "blocked") \/ AnswerWith(r, "insufficient")
    <3>1. Moves(r, "end", "blocked") \/ Moves(r, "end", "insufficient")
      BY <2>1, Ends
    <3> QED BY <1>1, <3>1, ReaderMoves
  <2>2. ASSUME NEW cs, request' = [request EXCEPT ![r] = Req(q.op, "end", q.calm, q.found, q.said, "answered", cs)]
        PROVE  Inv'
    <3>1. PICK t : t = q.said
      OBVIOUS
    <3> QED BY <1>6, <2>2, <3>1
  <2> QED BY <1>2, <1>8, <2>1, <2>2, OutputEffect
<1> QED BY <1>4, <1>5, <1>7, <1>8

LEMMA BeginStep == ASSUME Inv, NEW r \in Slots, Begin(r) PROVE Inv'
<1>1. ~InFlight(r) /\ UNCHANGED <<row, vectors, torn>>
  BY DEF Begin
<1>2. PICK op \in IF r \in Readers THEN {"search", "query"} ELSE {"create", "delete"} :
         request' = [x \in Slots |->
             IF x = r THEN [Fresh(op, FirstStep[op]) EXCEPT !.calm = ~Writing]
             ELSE [request[x] EXCEPT !.calm = @ /\ (~InFlight(x) \/ r \in Readers)]]
  BY DEF Begin
<1>3. PICK b \in BOOLEAN : b = ~Writing
  OBVIOUS
<1>4. request'[r] = [Fresh(op, FirstStep[op]) EXCEPT !.calm = b]
  BY <1>2, <1>3
<1>5. PICK none : Fresh(op, FirstStep[op]) = Req(op, FirstStep[op], TRUE, <<>>, none, "none", <<>>)
  BY DEF Fresh, Req
<1>6. request'[r] = Req(op, FirstStep[op], b, <<>>, none, "none", <<>>)
  <2>1. PICK u : u = Req(op, FirstStep[op], TRUE, <<>>, none, "none", <<>>)
    OBVIOUS
  <2>2. [u EXCEPT !.calm = b] = Req(op, FirstStep[op], b, <<>>, none, "none", <<>>)
    BY <2>1 DEF Req
  <2> QED BY <1>4, <1>5, <2>1, <2>2
<1>7. /\ request'[r].op = op /\ request'[r].at = FirstStep[op] /\ request'[r].calm = b
      /\ request'[r].answer = "none"
      /\ request'[r] = [op |-> request'[r].op, at |-> request'[r].at, calm |-> request'[r].calm,
                        found |-> request'[r].found, said |-> request'[r].said,
                        answer |-> request'[r].answer, cites |-> request'[r].cites]
  BY <1>6 DEF Req
<1>8. ASSUME NEW x \in Slots, x # r
      PROVE  /\ request'[x].op = request[x].op /\ request'[x].at = request[x].at
             /\ request'[x].answer = request[x].answer /\ request'[x].calm \in BOOLEAN
             /\ (request'[x].calm <=> (request[x].calm /\ (~InFlight(x) \/ r \in Readers)))
             /\ request'[x] = [op |-> request'[x].op, at |-> request'[x].at, calm |-> request'[x].calm,
                               found |-> request'[x].found, said |-> request'[x].said,
                               answer |-> request'[x].answer, cites |-> request'[x].cites]
  <2>1. PICK q : /\ q = request[x] /\ q.calm \in BOOLEAN
                 /\ q = Req(q.op, q.at, q.calm, q.found, q.said, q.answer, q.cites)
    BY Recorded
  <2>2. PICK c \in BOOLEAN : c = (q.calm /\ (~InFlight(x) \/ r \in Readers))
    OBVIOUS
  <2>3. request'[x] = [q EXCEPT !.calm = c]
    BY <1>2, <1>8, <2>1, <2>2
  <2>4. request'[x] = Req(q.op, q.at, c, q.found, q.said, q.answer, q.cites)
    <3>1. [q EXCEPT !.calm = c] = Req(q.op, q.at, c, q.found, q.said, q.answer, q.cites)
      BY <2>1 DEF Req
    <3> QED BY <2>3, <3>1
  <2>5. /\ request'[x].op = q.op /\ request'[x].at = q.at /\ request'[x].calm = c
        /\ request'[x].found = q.found /\ request'[x].said = q.said
        /\ request'[x].answer = q.answer /\ request'[x].cites = q.cites
    BY <2>4 DEF Req
  <2>6. request'[x] = [op |-> request'[x].op, at |-> request'[x].at, calm |-> request'[x].calm,
                       found |-> request'[x].found, said |-> request'[x].said,
                       answer |-> request'[x].answer, cites |-> request'[x].cites]
    BY <2>4, <2>5 DEF Req
  <2>7. request'[x].calm <=> (q.calm /\ (~InFlight(x) \/ r \in Readers))
    BY <2>2, <2>5
  <2> QED BY <2>1, <2>2, <2>5, <2>6, <2>7
<1>9. /\ r \in Readers => op \in {"search", "query"}
      /\ r \in Writers => op \in {"create", "delete"}
  BY <1>2
<1>10. /\ op = "create" => FirstStep[op] = "insert"
       /\ op = "delete" => FirstStep[op] = "get"
       /\ op = "search" => FirstStep[op] = "get"
       /\ op = "query" => FirstStep[op] = "guard"
  BY DEF FirstStep
<1>11. Typed'
  <2>1. request' = [x \in Slots |-> request'[x]]
    BY <1>2
  <2>2. Formed(r)'
    BY <1>7, <1>9, <1>10 DEF Formed, ReaderSteps, WriterSteps
  <2>3. ASSUME NEW x \in Slots, x # r PROVE Formed(x)'
    BY <1>8, <2>3 DEF Inv, Typed, Formed
  <2> QED BY <1>1, <2>1, <2>2, <2>3 DEF Inv, Typed
<1>12. Mended'
  <2>1. ASSUME NEW w \in Writers, Mends(w) PROVE Mends(w)'
    <3>1. w \in Slots /\ w # r
      BY <1>1, <2>1 DEF Mends, InFlight, Slots
    <3> QED BY <1>8, <2>1, <3>1 DEF Mends
  <2> QED BY <1>1, <2>1 DEF Inv, Mended
<1>13. CASE r \in Readers
  <2>1. Writing' = Writing
    BY <1>8, <1>13 DEF Writing, InFlight, Slots
  <2>2. Undisturbed(r)'
    BY <1>3, <1>7, <1>9, <1>10, <1>13, <2>1 DEF Undisturbed
  <2>3. ASSUME NEW s \in Readers, s # r PROVE Undisturbed(s)'
    BY <1>1, <1>8, <2>1, <2>3 DEF Inv, Undisturbed, InFlight, Slots
  <2> QED BY <1>11, <1>12, <2>2, <2>3 DEF Inv
<1>14. CASE r \notin Readers
  <2>1. ASSUME NEW s \in Readers PROVE Undisturbed(s)'
    BY <1>1, <1>8, <1>14 DEF Inv, Undisturbed, InFlight, Slots
  <2> QED BY <1>11, <1>12, <2>1 DEF Inv
<1> QED BY <1>13, <1>14

LEMMA KillStep == ASSUME Inv, Kill PROVE Inv'
<1>1. ASSUME NEW r \in Slots
      PROVE  /\ Formed(r)' /\ request'[r].at = "end" /\ request'[r].calm = request[r].calm
             /\ request'[r].answer \in {request[r].answer, "failed"}
  <2>1. PICK q : /\ q = request[r] /\ q.calm \in BOOLEAN
                 /\ q = Req(q.op, q.at, q.calm, q.found, q.said, q.answer, q.cites)
    BY Recorded
  <2>2. CASE InFlight(r)
    <3>1. request'[r] = [[q EXCEPT !.at = "end"] EXCEPT !.answer = "failed"]
      BY <2>1, <2>2 DEF Kill
    <3>2. request'[r] = Req(q.op, "end", q.calm, q.found, q.said, "failed", q.cites)
      <4>1. PICK u : u = Req(q.op, "end", q.calm, q.found, q.said, q.answer, q.cites)
        OBVIOUS
      <4>2. [q EXCEPT !.at = "end"] = u
        BY <2>1, <4>1 DEF Req
      <4>3. [u EXCEPT !.answer = "failed"] = Req(q.op, "end", q.calm, q.found, q.said, "failed", q.cites)
        BY <4>1 DEF Req
      <4> QED BY <3>1, <4>2, <4>3
    <3> QED BY <2>1, <3>2 DEF Req, Formed
  <2>3. CASE ~InFlight(r)
    BY <2>1, <2>3 DEF Kill, InFlight, Inv, Typed, Formed
  <2> QED BY <2>2, <2>3
<1>2. request' = [r \in Slots |-> request'[r]] /\ UNCHANGED <<row, vectors>>
      /\ torn' = (row /\ (torn \/ Writing))
  BY DEF Kill
<1>3. Typed'
  BY <1>1, <1>2 DEF Inv, Typed
<1>4. Mended'
  BY <1>2 DEF Inv, Typed, Mended, Mends, Writing, InFlight
<1>5. ASSUME NEW s \in Readers PROVE Undisturbed(s)'
  BY <1>1 DEF Inv, Undisturbed, InFlight, Slots
<1> QED BY <1>3, <1>4, <1>5 DEF Inv

LEMMA InitInv == RetrievalInit => Inv
<1>1. SUFFICES ASSUME RetrievalInit PROVE Inv
  OBVIOUS
<1>2. PICK q : q = Fresh("none", "end")
  OBVIOUS
<1>3. /\ q.at = "end" /\ q.calm = TRUE /\ q.answer = "none"
      /\ q = [op |-> q.op, at |-> q.at, calm |-> q.calm, found |-> q.found,
              said |-> q.said, answer |-> q.answer, cites |-> q.cites]
  BY <1>2 DEF Fresh
<1>4. request = [r \in Slots |-> q] /\ \A r \in Slots : request[r] = q
  BY <1>1, <1>2 DEF RetrievalInit
<1>5. \A r \in Slots : Formed(r)
  BY <1>3, <1>4 DEF Formed
<1>6. Typed
  BY <1>1, <1>4, <1>5 DEF Typed, RetrievalInit
<1>7. Mended
  BY <1>1 DEF Mended, RetrievalInit
<1>8. \A r \in Readers : Undisturbed(r)
  BY <1>3, <1>4 DEF Undisturbed, InFlight, Slots
<1> QED BY <1>6, <1>7, <1>8 DEF Inv

LEMMA InvStep == Inv /\ [RetrievalNext]_retrievalVars => Inv'
<1>1. ASSUME Inv, RetrievalNext PROVE Inv'
  BY <1>1, InsertStep, LookStep, DropStep, MakeStep, RowStep, FailsStep, GetStep, HitsStep,
     AnswerStep, BeginStep, KillStep DEF RetrievalNext
<1>2. ASSUME Inv, UNCHANGED retrievalVars PROVE Inv'
  BY <1>2 DEF retrievalVars, Inv, Typed, Formed, Mended, Mends, Undisturbed, Writing, InFlight
<1> QED BY <1>1, <1>2

\* Registry and Qdrant agree at rest, and a search nobody disturbed finds the
\* vectors of a registered collection, whatever fails in between.
THEOREM ServesTheorem == RetrievalSpec => []CollectionServes
<1>1. Inv => CollectionServes
  BY DEF Inv, Mended, Mends, Undisturbed, CollectionServes, Writing, InFlight
<1> QED BY InitInv, InvStep, <1>1, PTL DEF RetrievalSpec

-----------------------------------------------------------------------------
(* Retrieval: the citations of an answer.                                   *)

\* How Mentioned comes to its result, mark by mark.
LEMMA CitationSteps ==
    ASSUME NEW X, NEW s \in Seq(X), NEW m
    PROVE  \E acc : /\ acc[0] = <<>> /\ Mentioned(s, m) = acc[Len(s)]
                    /\ \A i \in 1 .. Len(s) :
                           acc[i] = IF s[i] \in 1 .. m /\ ~Contains(acc[i - 1], s[i])
                                      THEN Append(acc[i - 1], s[i]) ELSE acc[i - 1]
<1> DEFINE N == Len(s)
           D == DOMAIN s
           Next1(seen, k) == IF k \in 1 .. m /\ ~Contains(seen, k) THEN Append(seen, k) ELSE seen
           Law(g) == g = [t \in SUBSET D |-> IF t = {} THEN <<>> ELSE Next1(g[t \ {Max(t)}], s[Max(t)])]
           h == CHOOSE g : Law(g)
<1>0. \A y \in Seq(X), x \in X : Next1(y, x) \in Seq(X)
  OBVIOUS
<1>1. PICK Y : Y = Seq(X) /\ \A y \in Y, x \in X : Next1(y, x) \in Y
  <2> HIDE DEF Next1
  <2> QED BY <1>0
<1>2. N \in Nat /\ D = 1 .. N /\ <<>> \in Y /\ \A i \in 1 .. N : s[i] \in X
  BY <1>1
<1> DEFINE step == [p \in (1 .. N) \X Y |-> Next1(p[2], s[p[1]])]
<1> HIDE DEF Next1, N, D
<1>3. step \in [(1 .. N) \X Y -> Y]
  BY <1>1, <1>2
<1>4. PICK g : Folds(g, Y, <<>>, N, step)
  <2> HIDE DEF step
  <2>1. PICK base \in Y : base = <<>>
    BY <1>2
  <2>2. \E g : Folds(g, Y, base, N, step)
    BY <1>2, <1>3, FoldExists
  <2> QED BY <2>1, <2>2
<1>5. Law(g)
  <2>1. ASSUME NEW t \in SUBSET (1 .. N), t # {}
        PROVE  step[<<Max(t), g[t \ {Max(t)}]>>] = Next1(g[t \ {Max(t)}], s[Max(t)])
    <3>1. Max(t) \in 1 .. N
      BY <1>2, <2>1, MaxOf
    <3>2. g[t \ {Max(t)}] \in Y
      BY <1>4 DEF Folds
    <3> QED BY <3>1, <3>2
  <2> HIDE DEF step
  <2> QED BY <1>2, <1>4, <2>1 DEF Folds
<1>6. Law(h)
  <2> HIDE DEF Law
  <2> QED BY <1>5
<1>7. Mentioned(s, m) = h[D]
  BY DEF Mentioned, FoldLeft, MapThenFoldSet, Next1, D
<1> HIDE DEF h
<1>8. \A t \in SUBSET (1 .. N) : h[t] = IF t = {} THEN <<>> ELSE Next1(h[t \ {Max(t)}], s[Max(t)])
  BY <1>2, <1>6
<1>9. h[{}] = <<>> /\ \A i \in 1 .. N : h[1 .. i] = Next1(h[1 .. i - 1], s[i])
  <2>1. {} \in SUBSET (1 .. N)
    OBVIOUS
  <2> QED BY <1>2, <1>8, <2>1, Prefix
<1>10. PICK acc : acc = [i \in 0 .. N |-> h[1 .. i]]
  OBVIOUS
<1>11. acc[0] = <<>> /\ acc[N] = Mentioned(s, m) /\ \A i \in 1 .. N : acc[i] = Next1(acc[i - 1], s[i])
  BY <1>2, <1>7, <1>9, <1>10, EmptyRange
<1> QED BY <1>11 DEF N, Next1

\* Different chunks.
Hits(chunks) == chunks \in Seq(Chunks) /\ \A i, j \in DOMAIN chunks : chunks[i] = chunks[j] => i = j

\* The chunks it mentions, once each, in the order of mention.
Resolved(q) ==
    /\ q.found # <<>> /\ q.said.sufficient
    /\ ToSet(q.cites) = {q.found[n] : n \in ToSet(q.said.marks) \cap DOMAIN q.found}
    /\ \A i, j \in DOMAIN q.cites : i < j =>
           \E k \in DOMAIN q.said.marks :
               Refers(q, k, q.cites[i]) /\ \A l \in 1 .. k : ~Refers(q, l, q.cites[j])

\* The same of the numbers, out of 1 .. m.
InTheirOrder(out, s, m) ==
    /\ out \in Seq(Int) /\ ToSet(out) = ToSet(s) \cap 1 .. m
    /\ \A i, j \in DOMAIN out : i < j =>
           \E k \in DOMAIN s : s[k] = out[i] /\ \A l \in 1 .. k : s[l] # out[j]

LEMMA MentionedOnce ==
    ASSUME NEW s \in Seq(Int), NEW m \in Nat, NEW out, out = Mentioned(s, m)
    PROVE  InTheirOrder(out, s, m)
<1>1. PICK X, K : X = Int /\ K = 1 .. m
  OBVIOUS
<1>2. s \in Seq(X)
  BY <1>1
<1>3. PICK acc : /\ acc[0] = <<>> /\ out = acc[Len(s)]
                 /\ \A i \in 1 .. Len(s) :
                        acc[i] = IF s[i] \in K /\ ~Contains(acc[i - 1], s[i])
                                   THEN Append(acc[i - 1], s[i]) ELSE acc[i - 1]
  BY <1>1, <1>2, CitationSteps
<1>4. out \in Seq(X) /\ Gathered(out, s, K, Len(s))
  <2>1. acc[Len(s)] \in Seq(X) /\ Gathered(acc[Len(s)], s, K, Len(s))
    BY ONLY <1>2, <1>3, Gather, Zenon
  <2> QED BY <1>3, <2>1
<1>5. DOMAIN out = 1 .. Len(out) /\ DOMAIN s = 1 .. Len(s)
  BY <1>2, <1>4
<1>6. ToSet(s) = {s[k] : k \in 1 .. Len(s)}
  BY <1>5 DEF ToSet
<1>7. ToSet(out) = ToSet(s) \cap 1 .. m
  BY <1>1, <1>4, <1>6 DEF Gathered
<1>8. \A i, j \in 1 .. Len(out) : i < j =>
          \E k \in 1 .. Len(s) : s[k] = out[i] /\ \A l \in 1 .. k : s[l] # out[j]
  BY <1>4 DEF Gathered
<1>9. out \in Seq(Int)
  BY <1>1, <1>4
<1>10. \A i, j \in DOMAIN out : i < j =>
          \E k \in DOMAIN s : s[k] = out[i] /\ \A l \in 1 .. k : s[l] # out[j]
  <2>1. SUFFICES ASSUME NEW i \in DOMAIN out, NEW j \in DOMAIN out, i < j
                 PROVE  \E k \in DOMAIN s : s[k] = out[i] /\ \A l \in 1 .. k : s[l] # out[j]
    OBVIOUS
  <2>2. i \in 1 .. Len(out) /\ j \in 1 .. Len(out)
    BY <1>5
  <2>3. PICK k \in 1 .. Len(s) : s[k] = out[i] /\ \A l \in 1 .. k : s[l] # out[j]
    BY <1>8, <2>1, <2>2
  <2>4. k \in DOMAIN s
    BY <1>5
  <2> QED BY <2>3, <2>4
<1> QED BY ONLY <1>7, <1>9, <1>10 DEF InTheirOrder

LEMMA Extracted ==
    ASSUME NEW q, NEW s \in Seq(Int), s = q.said.marks, NEW chunks, Hits(chunks), chunks = q.found,
           NEW cs, cs = ExtractCitations(s, chunks), cs = q.cites, chunks # <<>>, q.said.sufficient
    PROVE  Resolved(q)
<1>1. PICK m \in Nat : m = Len(chunks) /\ DOMAIN chunks = 1 .. m
  BY DEF Hits
<1>2. PICK seen : seen = Mentioned(s, m)
  OBVIOUS
<1>9. InTheirOrder(seen, s, m)
  BY <1>2, MentionedOnce
<1>3. /\ seen \in Seq(Int) /\ ToSet(seen) = ToSet(s) \cap 1 .. m
      /\ \A i, j \in DOMAIN seen : i < j =>
             \E k \in DOMAIN s : s[k] = seen[i] /\ \A l \in 1 .. k : s[l] # seen[j]
  BY <1>9 DEF InTheirOrder
<1>4. cs = [i \in DOMAIN seen |-> chunks[seen[i]]]
  BY <1>1, <1>2 DEF ExtractCitations
<1>5. DOMAIN cs = DOMAIN seen /\ \A i \in DOMAIN seen : cs[i] = chunks[seen[i]] /\ seen[i] \in DOMAIN chunks
  BY <1>1, <1>3, <1>4 DEF ToSet
<1>6. ToSet(cs) = {chunks[n] : n \in ToSet(s) \cap DOMAIN chunks}
  <2>1. PICK S : S = ToSet(s) \cap DOMAIN chunks /\ S = {seen[i] : i \in DOMAIN seen}
    BY <1>1, <1>3 DEF ToSet
  <2>2. ToSet(cs) = {cs[i] : i \in DOMAIN seen}
    BY <1>5 DEF ToSet
  <2>3. \A c : c \in {cs[i] : i \in DOMAIN seen} <=> \E i \in DOMAIN seen : c = chunks[seen[i]]
    BY <1>5
  <2>4. \A c : c \in {chunks[n] : n \in S} <=> \E i \in DOMAIN seen : c = chunks[seen[i]]
    BY <2>1
  <2>5. {cs[i] : i \in DOMAIN seen} = {chunks[n] : n \in S}
    BY <2>3, <2>4
  <2> QED BY <2>1, <2>2, <2>5
<1>7. ASSUME NEW i \in DOMAIN cs, NEW j \in DOMAIN cs, i < j
      PROVE  \E k \in DOMAIN s : Refers(q, k, cs[i]) /\ \A l \in 1 .. k : ~Refers(q, l, cs[j])
  <2>1. PICK k \in DOMAIN s : s[k] = seen[i] /\ \A l \in 1 .. k : s[l] # seen[j]
    BY <1>3, <1>5, <1>7
  <2>2. Refers(q, k, cs[i])
    BY <1>5, <1>7, <2>1 DEF Refers
  <2>3. ASSUME NEW l \in 1 .. k, Refers(q, l, cs[j]) PROVE FALSE
    <3>1. s[l] \in DOMAIN chunks /\ chunks[s[l]] = chunks[seen[j]] /\ seen[j] \in DOMAIN chunks
      BY <1>5, <1>7, <2>3 DEF Refers
    <3>2. s[l] = seen[j]
      BY <3>1 DEF Hits
    <3> QED BY <2>1, <2>3, <3>2
  <2> QED BY <2>2, <2>3
<1> QED BY <1>6, <1>7 DEF Resolved

\* A query in progress has no answer yet, chunks when it asks for one, and
\* numbers to judge.
Citing(r) ==
    /\ InFlight(r) => request[r].answer = "none"
    /\ request[r].at \in {"generate", "judge"} => Hits(request[r].found) /\ request[r].found # <<>>
    /\ request[r].at = "judge" => request[r].said.marks \in Seq(Int)
    /\ request[r].answer = "answered" => Resolved(request[r])

\* The text of a request: all but who ran beside it.
SameText(r) ==
    /\ request'[r].at = request[r].at /\ request'[r].answer = request[r].answer
    /\ request'[r].found = request[r].found /\ request'[r].said = request[r].said
    /\ request'[r].cites = request[r].cites

LEMMA CitingKept == ASSUME NEW r, Citing(r), SameText(r) PROVE Citing(r)'
  BY DEF Citing, SameText, Resolved, Refers, InFlight

LEMMA CitingGoesOn ==
    ASSUME Inv, NEW r \in Slots, Citing(r), InFlight(r), NEW step, GoOn(r, step), step \notin {"generate", "judge"}
    PROVE  Citing(r)'
<1>1. request'[r] = [op |-> request[r].op, at |-> step, calm |-> request[r].calm,
                     found |-> request[r].found, said |-> request[r].said,
                     answer |-> request[r].answer, cites |-> request[r].cites]
  BY GoOnEffect DEF Inv
<1>2. request'[r].at = step /\ request'[r].answer = "none"
  BY <1>1 DEF Citing
<1> QED BY <1>2 DEF Citing

LEMMA CitingEnds ==
    ASSUME Inv, NEW r \in Slots, NEW a, AnswerWith(r, a), a # "answered"
    PROVE  Citing(r)'
<1>1. request'[r] = [op |-> request[r].op, at |-> "end", calm |-> request[r].calm,
                     found |-> request[r].found, said |-> request[r].said,
                     answer |-> a, cites |-> request[r].cites]
  BY AnswerEffect DEF Inv
<1>2. request'[r].at = "end" /\ request'[r].answer = a
  BY <1>1
<1> QED BY <1>2 DEF Citing, InFlight

\* The steps that write down of an answer.
LEMMA CitingWrites ==
    ASSUME Inv, NEW r \in Slots, Citing(r), HybridSearch(r) \/ Generate(r) \/ CheckOutput(r)
    PROVE  Citing(r)'
<1>1. PICK q : q = request[r]
  OBVIOUS
<1>2. ASSUME NEW p, request' = [request EXCEPT ![r] = p] PROVE request'[r] = p
  BY <1>2 DEF Inv, Typed
<1>3. CASE HybridSearch(r)
  <2>1. ASSUME NEW c, NEW f, NEW t, NEW cs,
               request' = [request EXCEPT ![r] = Req(q.op, "end", c, f, t, "lost", cs)]
        PROVE  Citing(r)'
    <3>1. request'[r].at = "end" /\ request'[r].answer = "lost"
      BY <1>2, <2>1 DEF Req
    <3> QED BY <3>1 DEF Citing, InFlight
  <2>2. ASSUME NEW n \in Found, NEW at \in {"generate", "end"}, NEW a \in {"chunks", "insufficient", "none"},
               at = "generate" => n # <<>> /\ a = "none", NEW c, NEW t, NEW cs,
               request' = [request EXCEPT ![r] = Req(q.op, at, c, n, t, a, cs)]
        PROVE  Citing(r)'
    <3>1. request'[r].at = at /\ request'[r].answer = a /\ request'[r].found = n
      BY <1>2, <2>2 DEF Req
    <3>2. Hits(n)
      BY DEF Found, Hits, BoundedSeq, SeqOf
    <3> QED BY <2>2, <3>1, <3>2 DEF Citing, InFlight
  <2> QED BY <1>1, <1>3, <2>1, <2>2, HitsEffect
<1>4. CASE Generate(r)
  <2>1. q.at = "generate" /\ q.answer = "none" /\ Hits(q.found) /\ q.found # <<>>
    BY <1>1, <1>4 DEF Generate, At, Citing, InFlight
  <2>2. PICK t \in Said : request' = [request EXCEPT ![r] = Req(q.op, "judge", q.calm, q.found, t, q.answer, q.cites)]
    BY <1>1, <1>4, GenerateEffect
  <2>3. request'[r].at = "judge" /\ request'[r].answer = q.answer /\ request'[r].found = q.found /\ request'[r].said = t
    <3>1. PICK p : p = Req(q.op, "judge", q.calm, q.found, t, q.answer, q.cites)
      OBVIOUS
    <3>2. request'[r] = p
      BY <1>2, <2>2, <3>1
    <3> QED BY <3>1, <3>2 DEF Req
  <2>4. t.marks \in Seq(Int)
    <3>1. CASE t = [sufficient |-> FALSE, marks |-> <<>>]
      <4>1. t.marks = <<>>
        BY <3>1
      <4> QED BY <4>1
    <3>2. CASE t \in [sufficient : {TRUE}, marks : BoundedSeq(Marks, MaxMarks)]
      <4>1. t.marks \in BoundedSeq(Marks, MaxMarks)
        BY <3>2
      <4> QED BY <4>1 DEF BoundedSeq, SeqOf, Marks
    <3> QED BY <3>1, <3>2 DEF Said
  <2> QED BY <2>1, <2>3, <2>4 DEF Citing, InFlight
<1>5. CASE CheckOutput(r)
  <2>1. q.at = "judge" /\ Hits(q.found) /\ q.found # <<>> /\ q.said.marks \in Seq(Int)
    BY <1>1, <1>5 DEF CheckOutput, At, Citing
  <2>2. CASE AnswerWith(r, "blocked") \/ AnswerWith(r, "insufficient")
    BY <2>2, CitingEnds
  <2>3. ASSUME NEW cs, q.said.sufficient, cs = ExtractCitations(q.said.marks, q.found),
               request' = [request EXCEPT ![r] = Req(q.op, "end", q.calm, q.found, q.said, "answered", cs)]
        PROVE  Citing(r)'
    <3>1. /\ request'[r].at = "end" /\ request'[r].answer = "answered" /\ request'[r].found = q.found
          /\ request'[r].said = q.said /\ request'[r].cites = cs
      BY <1>2, <2>3 DEF Req
    <3>2. Resolved(request'[r])
      <4>1. PICK p : p = request'[r]
        OBVIOUS
      <4>2. PICK s, chunks : s = q.said.marks /\ s \in Seq(Int) /\ chunks = q.found /\ Hits(chunks)
        BY <2>1
      <4>3. p.found = chunks /\ p.said = q.said /\ p.said.marks = s /\ p.said.sufficient /\ p.cites = cs /\ chunks # <<>>
        BY <2>1, <2>3, <3>1, <4>1, <4>2
      <4>4. cs = ExtractCitations(s, chunks)
        BY <2>3, <4>2
      <4>6. Resolved(p)
        BY <4>2, <4>3, <4>4, Extracted
      <4> QED BY <4>1, <4>6
    <3> QED BY <3>1, <3>2 DEF Citing, InFlight
  <2> QED BY <1>1, <1>5, <2>2, <2>3, OutputEffect
<1> QED BY <1>3, <1>4, <1>5

LEMMA CitingBegins ==
    ASSUME Inv, NEW r \in Slots, Begin(r), NEW x \in Slots, Citing(x)
    PROVE  Citing(x)'
<1>1. PICK op : request' = [z \in Slots |->
             IF z = r THEN [Fresh(op, FirstStep[op]) EXCEPT !.calm = ~Writing]
             ELSE [request[z] EXCEPT !.calm = @ /\ (~InFlight(z) \/ r \in Readers)]]
             /\ op \in {"search", "query", "create", "delete"}
  BY DEF Begin
<1>2. CASE x = r
  <2>1. PICK none, b : Fresh(op, FirstStep[op]) = Req(op, FirstStep[op], TRUE, <<>>, none, "none", <<>>) /\ b = ~Writing
    BY DEF Fresh, Req
  <2>2. PICK u : u = Req(op, FirstStep[op], TRUE, <<>>, none, "none", <<>>)
    OBVIOUS
  <2>3. request'[r] = [u EXCEPT !.calm = b]
    BY <1>1, <2>1, <2>2
  <2>4. request'[r].at = FirstStep[op] /\ request'[r].answer = "none"
    BY <2>2, <2>3 DEF Req
  <2>5. FirstStep[op] \notin {"generate", "judge"}
    BY <1>1 DEF FirstStep
  <2> QED BY <1>2, <2>4, <2>5 DEF Citing
<1>3. CASE x # r
  <2>1. PICK q : q = request[x] /\ q = Req(q.op, q.at, q.calm, q.found, q.said, q.answer, q.cites)
    BY Recorded
  <2>2. PICK c : c = (q.calm /\ (~InFlight(x) \/ r \in Readers))
    OBVIOUS
  <2>3. request'[x] = [q EXCEPT !.calm = c]
    BY <1>1, <1>3, <2>1, <2>2
  <2>4. SameText(x)
    BY <2>1, <2>3 DEF SameText, Req
  <2> QED BY <2>4, CitingKept
<1> QED BY <1>2, <1>3

LEMMA CitingKilled == ASSUME Inv, Kill, NEW x \in Slots, Citing(x) PROVE Citing(x)'
<1>1. CASE ~InFlight(x)
  <2>1. request'[x] = request[x]
    BY <1>1 DEF Kill
  <2> QED BY <2>1, CitingKept DEF SameText
<1>2. CASE InFlight(x)
  <2>1. PICK q : q = request[x] /\ q = Req(q.op, q.at, q.calm, q.found, q.said, q.answer, q.cites)
    BY Recorded
  <2>2. PICK u : u = Req(q.op, "end", q.calm, q.found, q.said, q.answer, q.cites)
    OBVIOUS
  <2>3. [q EXCEPT !.at = "end"] = u
    BY <2>1, <2>2 DEF Req
  <2>4. request'[x] = [u EXCEPT !.answer = "failed"]
    BY <1>2, <2>1, <2>3 DEF Kill
  <2>5. request'[x].at = "end" /\ request'[x].answer = "failed"
    BY <2>2, <2>4 DEF Req
  <2> QED BY <2>5 DEF Citing, InFlight
<1> QED BY <1>1, <1>2

LEMMA CitingOthers ==
    ASSUME Inv, NEW r \in Slots, NEW x \in Slots, Citing(x), x # r,
           \/ Insert(r) \/ CollectionExists(r) \/ DropVectors(r) \/ MakeVectors(r) \/ DeleteRow(r) \/ CallFails(r)
           \/ CheckInput(r) \/ GetCollection(r) \/ Embed(r) \/ HybridSearch(r) \/ Generate(r) \/ CheckOutput(r)
    PROVE  Citing(x)'
<1>1. request'[x] = request[x]
  BY DEF Inv, Typed, Insert, CollectionExists, DropVectors, MakeVectors, DeleteRow, CallFails, CheckInput,
         GetCollection, Embed, HybridSearch, Generate, CheckOutput, GoOn, AnswerWith
<1> QED BY <1>1, CitingKept DEF SameText

LEMMA CitingOwn ==
    ASSUME Inv, NEW r \in Slots, Citing(r),
           \/ Insert(r) \/ CollectionExists(r) \/ DropVectors(r) \/ MakeVectors(r) \/ DeleteRow(r) \/ CallFails(r)
           \/ CheckInput(r) \/ GetCollection(r) \/ Embed(r)
    PROVE  Citing(r)'
<1>1. InFlight(r)
  BY DEF Insert, CollectionExists, DropVectors, MakeVectors, DeleteRow, CallFails, CheckInput,
         GetCollection, Embed, At, InFlight
<1>2. \/ \E step : GoOn(r, step) /\ step \notin {"generate", "judge"}
      \/ \E a : AnswerWith(r, a) /\ a # "answered"
  <2>1. CASE Insert(r) \/ CollectionExists(r)
    BY <2>1 DEF Insert, CollectionExists
  <2>2. CASE DropVectors(r) \/ MakeVectors(r) \/ DeleteRow(r)
    BY <2>2 DEF DropVectors, MakeVectors, DeleteRow
  <2>3. CASE CallFails(r)
    BY <2>3 DEF CallFails, AfterFailure
  <2>4. CASE CheckInput(r) \/ Embed(r)
    BY <2>4 DEF CheckInput, Embed
  <2>5. CASE GetCollection(r)
    BY <2>5 DEF GetCollection
  <2> QED BY <2>1, <2>2, <2>3, <2>4, <2>5
<1> QED BY <1>1, <1>2, CitingGoesOn, CitingEnds

\* The citations of an answer are exactly the chunks its text mentions, once
\* each, in the order of mention, whatever the model says.
THEOREM CitationsTheorem == RetrievalSpec => []CitationsResolve
<1> DEFINE Cite == \A r \in Slots : Citing(r)
<1>1. RetrievalInit => Inv /\ Cite
  <2>1. SUFFICES ASSUME RetrievalInit, NEW r \in Slots PROVE Citing(r)
    BY InitInv
  <2>2. request[r] = Fresh("none", "end")
    BY <2>1 DEF RetrievalInit
  <2>3. request[r].at = "end" /\ request[r].answer = "none"
    BY <2>2 DEF Fresh
  <2> QED BY <2>3 DEF Citing, InFlight
<1>2. Inv /\ Cite /\ [RetrievalNext]_retrievalVars => (Inv /\ Cite)'
  <2>1. ASSUME Inv, Cite, RetrievalNext, NEW x \in Slots PROVE Citing(x)'
    <3>1. CASE Kill
      BY <2>1, <3>1, CitingKilled
    <3>2. ASSUME NEW r \in Slots, Begin(r) PROVE Citing(x)'
      BY <2>1, <3>2, CitingBegins
    <3>3. ASSUME NEW r \in Slots, x # r,
                 \/ Insert(r) \/ CollectionExists(r) \/ DropVectors(r) \/ MakeVectors(r) \/ DeleteRow(r) \/ CallFails(r)
                 \/ CheckInput(r) \/ GetCollection(r) \/ Embed(r) \/ HybridSearch(r) \/ Generate(r) \/ CheckOutput(r)
          PROVE  Citing(x)'
      BY <2>1, <3>3, CitingOthers
    <3>4. CASE \/ Insert(x) \/ CollectionExists(x) \/ DropVectors(x) \/ MakeVectors(x) \/ DeleteRow(x) \/ CallFails(x)
               \/ CheckInput(x) \/ GetCollection(x) \/ Embed(x)
      BY <2>1, <3>4, CitingOwn
    <3>5. CASE HybridSearch(x) \/ Generate(x) \/ CheckOutput(x)
      BY <2>1, <3>5, CitingWrites
    <3> QED BY <2>1, <3>1, <3>2, <3>3, <3>4, <3>5 DEF RetrievalNext
  <2>2. ASSUME Cite, UNCHANGED retrievalVars, NEW x \in Slots PROVE Citing(x)'
    BY <2>2, CitingKept DEF SameText, retrievalVars
  <2> QED BY <2>1, <2>2, InvStep
<1>3. Cite => CitationsResolve
  BY DEF Citing, Resolved, CitationsResolve, Slots
<1> QED BY <1>1, <1>2, <1>3, PTL DEF RetrievalSpec

===============================================================================
