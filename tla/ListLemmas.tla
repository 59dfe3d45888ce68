----------------------------- MODULE ListLemmas -----------------------------
(***************************************************************************)
(* Least and greatest elements of sets of numbers, and sequences without   *)
(* repetition: the facts the proofs of several components rest on.         *)
(*                                                                         *)
(* That a least element exists is induction.  It is taken here from the    *)
(* well-foundedness of the strict subsets of an interval, a statement      *)
(* about sets that the provers can use as it stands.                       *)
(***************************************************************************)
EXTENDS Integers, Sequences, SequencesExt, FiniteSetTheorems, SequenceTheorems, TLAPS

----------------------------------------------------------------------------
\* A bounded set of numbers has a least element, and Min is that.
LEMMA MinIsLeast ==
  ASSUME NEW n \in Nat, NEW I \in SUBSET (1 .. n), I # {}
  PROVE  Min(I) \in I /\ \A i \in I : Min(I) <= i
<1> DEFINE T == {1 .. k : k \in I}
<1>1. T \subseteq FiniteSubsetsOf(1 .. n)
  <2>1. SUFFICES ASSUME NEW k \in I PROVE 1 .. k \in FiniteSubsetsOf(1 .. n)
    OBVIOUS
  <2>2. IsFiniteSet(1 .. k)
    BY FS_Interval
  <2>3. QED
    BY <2>2 DEF FiniteSubsetsOf
<1>2. T # {}
  OBVIOUS
<1>3. PICK x \in T : \A y \in T : ~ (<<y, x>> \in StrictSubsetOrdering(1 .. n))
  <2> HIDE DEF T
  <2>1. QED
    BY <1>1, <1>2, FS_StrictSubsetOrderingWellFounded, WFMin
<1>4. PICK m \in I : x = 1 .. m
  BY <1>3
<1>5. \A j \in I : m <= j
  <2>1. SUFFICES ASSUME NEW j \in I, j < m PROVE FALSE
    OBVIOUS
  <2>2. 1 .. j \subseteq 1 .. m /\ 1 .. j # 1 .. m
    <3>1. m \in 1 .. m /\ m \notin 1 .. j
      BY <2>1
    <3>2. QED
      BY <3>1, <2>1
  <2>3. <<1 .. j, x>> \in StrictSubsetOrdering(1 .. n)
    BY <2>2, <1>4 DEF StrictSubsetOrdering
  <2>4. QED
    BY <2>3, <1>3
<1>6. QED
  BY <1>5 DEF Min

\* The same upside down: a bounded set of numbers has a greatest element, and Max is that.
LEMMA MaxIsGreatest ==
  ASSUME NEW n \in Nat, NEW I \in SUBSET (1 .. n), I # {}
  PROVE  Max(I) \in I /\ \A i \in I : Max(I) >= i
<1> DEFINE J == {n + 1 - i : i \in I}
<1>1. J \in SUBSET (1 .. n) /\ J # {}
  <2>1. \A i \in I : n + 1 - i \in 1 .. n
    OBVIOUS
  <2>2. QED
    BY <2>1
<1>2. Min(J) \in J /\ \A j \in J : Min(J) <= j
  <2> HIDE DEF J
  <2>1. QED
    BY <1>1, MinIsLeast
<1>3. PICK m \in I : Min(J) = n + 1 - m
  BY <1>2
<1>4. \A i \in I : m >= i
  <2>1. SUFFICES ASSUME NEW i \in I PROVE m >= i
    OBVIOUS
  <2>2. n + 1 - i \in J /\ i \in Nat /\ m \in Nat
    OBVIOUS
  <2>3. n + 1 - m <= n + 1 - i
    BY <2>2, <1>2, <1>3
  <2>4. QED
    BY <2>2, <2>3
<1>5. QED
  BY <1>4 DEF Max

----------------------------------------------------------------------------
\* Taking an element out of a sequence that has it once: the later ones move up.
LEMMA RemoveFirstAt ==
  ASSUME NEW S, NEW q \in Seq(S), IsInjective(q), NEW k \in 1 .. Len(q)
  PROVE  LET r == RemoveFirst(q, q[k]) IN
         /\ r \in Seq(S) /\ Len(r) = Len(q) - 1
         /\ \A i \in 1 .. Len(q) - 1 : r[i] = IF i < k THEN q[i] ELSE q[i + 1]
<1>1. {i \in 1 .. Len(q) : q[i] = q[k]} = {k}
  BY DEF IsInjective
<1>2. SelectInSeq(q, LAMBDA v : v = q[k]) = k
  <2>1. Min({k}) = k
    BY DEF Min
  <2>2. QED
    BY <1>1, <2>1 DEF SelectInSeq
<1> DEFINE r == SubSeq(q, 1, k - 1) \o SubSeq(q, k + 1, Len(q))
<1>3. RemoveFirst(q, q[k]) = r
  BY <1>2 DEF RemoveFirst, RemoveAt
<1>4. /\ r \in Seq(S) /\ Len(r) = Len(q) - 1
      /\ \A i \in 1 .. Len(q) - 1 : r[i] = IF i < k THEN q[i] ELSE q[i + 1]
  <2>1. k \in Nat /\ Len(q) \in Nat /\ 1 <= k /\ k <= Len(q) /\ k - 1 \in Int /\ k + 1 \in Int
    OBVIOUS
  <2>2. \A i \in 1 .. Len(q) : q[i] \in S
    OBVIOUS
  <2> DEFINE a == SubSeq(q, 1, k - 1)  b == SubSeq(q, k + 1, Len(q))
  <2>3. a \in Seq(S) /\ Len(a) = k - 1 /\ \A i \in 1 .. k - 1 : a[i] = q[i]
    BY <2>1, <2>2, SubSeqProperties
  <2>4. b \in Seq(S) /\ Len(b) = Len(q) - k /\ \A i \in 1 .. Len(q) - k : b[i] = q[k + i]
    BY <2>1, <2>2, SubSeqProperties
  <2> HIDE DEF a, b
  <2>0. /\ a \o b \in Seq(S) /\ Len(a \o b) = Len(a) + Len(b)
        /\ \A i \in 1 .. Len(a) + Len(b) : (a \o b)[i] = IF i <= Len(a) THEN a[i] ELSE b[i - Len(a)]
    BY <2>3, <2>4, ConcatProperties, Zenon
  <2>5. /\ a \o b \in Seq(S) /\ Len(a \o b) = Len(q) - 1
        /\ \A i \in 1 .. Len(q) - 1 : (a \o b)[i] = IF i <= k - 1 THEN a[i] ELSE b[i - (k - 1)]
    BY <2>0, <2>1, <2>3, <2>4
  <2>6. \A i \in 1 .. Len(q) - 1 : (a \o b)[i] = IF i < k THEN q[i] ELSE q[i + 1]
    <3>1. SUFFICES ASSUME NEW i \in 1 .. Len(q) - 1
                   PROVE  (a \o b)[i] = IF i < k THEN q[i] ELSE q[i + 1]
      OBVIOUS
    <3>2. CASE i < k
      <4>1. i \in 1 .. k - 1
        BY <3>2, <2>1
      <4>2. QED
        BY <4>1, <3>2, <2>1, <2>3, <2>5
    <3>3. CASE i >= k
      <4>1. i - (k - 1) \in 1 .. Len(q) - k /\ k + (i - (k - 1)) = i + 1
        BY <3>3, <2>1
      <4>2. (a \o b)[i] = b[i - (k - 1)]
        BY <3>3, <2>1, <2>5
      <4>3. b[i - (k - 1)] = q[i + 1]
        BY <4>1, <2>4
      <4>4. ~ (i < k)
        BY <3>3, <2>1
      <4>5. QED
        BY <4>2, <4>3, <4>4, Zenon
    <3>4. i < k \/ i >= k
      BY <2>1
    <3>5. QED
      BY <3>2, <3>3, <3>4, Zenon
  <2>7. QED
    BY <2>5, <2>6 DEF a, b
<1> HIDE DEF r
<1>5. QED
  BY <1>3, <1>4, Zenon

LEMMA RemoveFirstProperties ==
  ASSUME NEW S, NEW q \in Seq(S), IsInjective(q), NEW e
  PROVE  /\ RemoveFirst(q, e) \in Seq(S)
         /\ IsInjective(RemoveFirst(q, e))
         /\ Range(RemoveFirst(q, e)) = Range(q) \ {e}
         /\ e \in Range(q) => Len(RemoveFirst(q, e)) = Len(q) - 1
         /\ e \notin Range(q) => RemoveFirst(q, e) = q
<1>1. CASE e \notin Range(q)
  <2>1. ~ \E i \in 1 .. Len(q) : q[i] = e
    BY <1>1 DEF Range
  <2>2. RemoveFirst(q, e) = q
    BY <2>1 DEF RemoveFirst
  <2>3. QED
    BY <2>2, <1>1
<1>2. CASE e \in Range(q)
  <2>1. PICK k \in 1 .. Len(q) : q[k] = e
    BY <1>2 DEF Range
  <2> DEFINE r == RemoveFirst(q, q[k])
  <2>4. RemoveFirst(q, e) = r
    BY <2>1
  <2>5. /\ r \in Seq(S) /\ Len(r) = Len(q) - 1
        /\ \A i \in 1 .. Len(q) - 1 : r[i] = IF i < k THEN q[i] ELSE q[i + 1]
    BY RemoveFirstAt
  <2> HIDE DEF r
  <2>6. IsInjective(r)
    <3>1. SUFFICES ASSUME NEW i \in DOMAIN r, NEW j \in DOMAIN r, r[i] = r[j] PROVE i = j
      BY DEF IsInjective
    <3>2. i \in 1 .. Len(q) - 1 /\ j \in 1 .. Len(q) - 1
      BY <2>5
    <3>3. \A a, b \in 1 .. Len(q) : q[a] = q[b] => a = b
      BY DEF IsInjective
    <3>4. QED
      BY <3>1, <3>2, <3>3, <2>5
  <2>7. Range(r) = Range(q) \ {e}
    <3>1. ASSUME NEW x \in Range(r) PROVE x \in Range(q) \ {e}
      BY <2>1, <2>5 DEF Range, IsInjective
    <3>2. ASSUME NEW x \in Range(q) \ {e} PROVE x \in Range(r)
      <4>1. PICK i \in 1 .. Len(q) : q[i] = x
        BY DEF Range
      <4>2. CASE i < k
        BY <4>1, <4>2, <2>1, <2>5 DEF Range
      <4>3. CASE i > k
        <5>1. i - 1 \in DOMAIN r /\ r[i - 1] = q[i]
          BY <4>3, <2>1, <2>5
        <5>2. QED
          BY <5>1, <4>1 DEF Range
      <4>4. QED
        BY <4>1, <4>2, <4>3, <2>1
    <3>3. QED
      BY <3>1, <3>2
  <2>8. QED
    BY <1>2, <2>4, <2>5, <2>6, <2>7
<1>3. QED
  BY <1>1, <1>2

\* Adding an element that a sequence lacks.
LEMMA AppendNew ==
  ASSUME NEW S, NEW q \in Seq(S), IsInjective(q), NEW e \in S, e \notin Range(q)
  PROVE  /\ Append(q, e) \in Seq(S) /\ IsInjective(Append(q, e))
         /\ Range(Append(q, e)) = Range(q) \cup {e} /\ Len(Append(q, e)) = Len(q) + 1
<1> DEFINE r == Append(q, e)
<1>1. /\ r \in Seq(S) /\ Len(r) = Len(q) + 1
      /\ \A i \in 1 .. Len(q) : r[i] = q[i]
      /\ r[Len(q) + 1] = e
  OBVIOUS
<1> HIDE DEF r
<1>2. IsInjective(r)
  <2>1. \A a, b \in 1 .. Len(q) : q[a] = q[b] => a = b
    BY DEF IsInjective
  <2>2. \A a \in 1 .. Len(q) : q[a] # e
    BY DEF Range
  <2>3. QED
    BY <1>1, <2>1, <2>2 DEF IsInjective
<1>3. Range(r) = Range(q) \cup {e}
  <2>1. ASSUME NEW x \in Range(q) PROVE x \in Range(r)
    BY <1>1 DEF Range
  <2>2. e \in Range(r)
    BY <1>1 DEF Range
  <2>3. ASSUME NEW x \in Range(r) PROVE x \in Range(q) \cup {e}
    BY <1>1 DEF Range
  <2>4. QED
    BY <2>1, <2>2, <2>3
<1>4. QED
  BY <1>1, <1>2, <1>3, Zenon DEF r

\* Taking the first one off a sequence without repetition, putting one before it.
LEMMA TailOfInjective ==
  ASSUME NEW S, NEW q \in Seq(S), IsInjective(q), q # <<>>
  PROVE  /\ Head(q) = q[1] /\ Head(q) \in S /\ Head(q) \in Range(q)
         /\ Tail(q) \in Seq(S) /\ IsInjective(Tail(q)) /\ Range(Tail(q)) = Range(q) \ {Head(q)}
         /\ Len(q) > 0 /\ Len(Tail(q)) = Len(q) - 1
         /\ \A i \in 1 .. Len(q) - 1 : Tail(q)[i] = q[i + 1]
<1> DEFINE t == Tail(q)
<1>1. /\ Head(q) = q[1] /\ t \in Seq(S) /\ Len(t) = Len(q) - 1 /\ Len(q) \in Nat /\ Len(q) > 0
      /\ \A i \in 1 .. Len(q) - 1 : t[i] = q[i + 1]
  OBVIOUS
<1> HIDE DEF t
<1>2. \A a, b \in 1 .. Len(q) : q[a] = q[b] => a = b
  BY DEF IsInjective
<1>3. Head(q) \in S /\ Head(q) \in Range(q)
  BY <1>1 DEF Range
<1>4. IsInjective(t)
  <2>1. SUFFICES ASSUME NEW i \in DOMAIN t, NEW j \in DOMAIN t, t[i] = t[j] PROVE i = j
    BY DEF IsInjective
  <2>2. i \in 1 .. Len(q) - 1 /\ j \in 1 .. Len(q) - 1
    BY <1>1
  <2>3. i + 1 \in 1 .. Len(q) /\ j + 1 \in 1 .. Len(q) /\ q[i + 1] = q[j + 1]
    BY <1>1, <2>1, <2>2
  <2>4. i + 1 = j + 1
    BY <1>2, <2>3
  <2>5. QED
    BY <2>2, <2>4
<1>5. Range(t) = Range(q) \ {Head(q)}
  <2>1. ASSUME NEW x \in Range(t) PROVE x \in Range(q) /\ x # Head(q)
    <3>1. PICK i \in 1 .. Len(q) - 1 : x = t[i]
      BY <1>1 DEF Range
    <3>2. i + 1 \in 1 .. Len(q) /\ 1 \in 1 .. Len(q) /\ i + 1 # 1 /\ x = q[i + 1]
      BY <1>1, <3>1
    <3>3. QED
      BY <1>1, <1>2, <3>2 DEF Range
  <2>2. ASSUME NEW x \in Range(q), x # Head(q) PROVE x \in Range(t)
    <3>1. PICK i \in 1 .. Len(q) : x = q[i]
      BY DEF Range
    <3>2. i - 1 \in 1 .. Len(q) - 1 /\ (i - 1) + 1 = i
      BY <1>1, <2>2, <3>1
    <3>3. t[i - 1] = x /\ i - 1 \in DOMAIN t
      BY <1>1, <3>1, <3>2
    <3>4. QED
      BY <3>3 DEF Range
  <2>3. QED
    BY <2>1, <2>2
<1>6. QED
  BY <1>1, <1>3, <1>4, <1>5 DEF t

LEMMA ConsNew ==
  ASSUME NEW S, NEW q \in Seq(S), IsInjective(q), NEW e \in S, e \notin Range(q)
  PROVE  /\ <<e>> \o q \in Seq(S) /\ IsInjective(<<e>> \o q) /\ Range(<<e>> \o q) = {e} \cup Range(q)
         /\ Len(<<e>> \o q) = Len(q) + 1 /\ (<<e>> \o q)[1] = e
         /\ \A i \in 1 .. Len(q) : (<<e>> \o q)[i + 1] = q[i]
<1> DEFINE r == <<e>> \o q
<1>1. r \in Seq(S) /\ Len(r) = Len(q) + 1 /\ r[1] = e /\ Len(q) \in Nat /\ \A i \in 1 .. Len(q) : r[i + 1] = q[i]
  OBVIOUS
<1> HIDE DEF r
<1>2. \A i \in 1 .. Len(r) : i = 1 \/ (i - 1 \in 1 .. Len(q) /\ r[i] = q[i - 1])
  <2>1. SUFFICES ASSUME NEW i \in 1 .. Len(r), i # 1 PROVE i - 1 \in 1 .. Len(q) /\ r[i] = q[i - 1]
    OBVIOUS
  <2>2. i - 1 \in 1 .. Len(q) /\ (i - 1) + 1 = i
    BY <1>1, <2>1
  <2>3. QED
    BY <1>1, <2>2
<1>3. IsInjective(r)
  <2>1. SUFFICES ASSUME NEW i \in 1 .. Len(r), NEW j \in 1 .. Len(r), r[i] = r[j] PROVE i = j
    BY <1>1 DEF IsInjective
  <2>2. \A a, b \in 1 .. Len(q) : q[a] = q[b] => a = b
    BY DEF IsInjective
  <2>3. \A a \in 1 .. Len(q) : q[a] # e
    BY DEF Range
  <2>4. CASE i = 1 /\ j # 1
    BY <1>1, <1>2, <2>1, <2>3, <2>4
  <2>5. CASE i # 1 /\ j = 1
    BY <1>1, <1>2, <2>1, <2>3, <2>5
  <2>6. CASE i # 1 /\ j # 1
    <3>1. i - 1 = j - 1
      BY <1>2, <2>1, <2>2, <2>6
    <3>2. QED
      BY <1>1, <3>1
  <2>7. QED
    BY <2>4, <2>5, <2>6
<1>4. Range(r) = {e} \cup Range(q)
  <2>1. ASSUME NEW x \in Range(r) PROVE x = e \/ x \in Range(q)
    <3>1. PICK i \in 1 .. Len(r) : x = r[i]
      BY <1>1 DEF Range
    <3>2. CASE i = 1
      BY <1>1, <3>1, <3>2
    <3>3. CASE i - 1 \in 1 .. Len(q) /\ r[i] = q[i - 1]
      BY <3>1, <3>3 DEF Range
    <3>4. QED
      BY <1>2, <3>2, <3>3
  <2>2. e \in Range(r)
    BY <1>1 DEF Range
  <2>3. ASSUME NEW x \in Range(q) PROVE x \in Range(r)
    <3>1. PICK i \in 1 .. Len(q) : x = q[i]
      BY DEF Range
    <3>2. i + 1 \in DOMAIN r /\ r[i + 1] = x
      BY <1>1, <3>1
    <3>3. QED
      BY <3>2 DEF Range
  <2>4. QED
    BY <2>1, <2>2, <2>3
<1>5. QED
  BY <1>1, <1>3, <1>4 DEF r

----------------------------------------------------------------------------
\* A queue is a sequence of what is in it; what a list that is written out holds.
LEMMA ListRange ==
  /\ <<>> \in Seq(Range(<<>>)) /\ Range(<<>>) = {}
  /\ \A a : <<a>> \in Seq(Range(<<a>>)) /\ Range(<<a>>) = {a}
  /\ \A a, b : <<a, b>> \in Seq(Range(<<a, b>>)) /\ Range(<<a, b>>) = {a, b}
<1>1. <<>> \in Seq({}) /\ Range(<<>>) = {}
  BY DEF Range
<1>2. \A a : <<a>> \in Seq({a}) /\ Range(<<a>>) = {a}
  BY DEF Range
<1>3. ASSUME NEW a, NEW b PROVE <<a, b>> \in Seq({a, b}) /\ Range(<<a, b>>) = {a, b}
  <2> DEFINE q == <<a, b>>
  <2>1. q \in Seq({a, b}) /\ Len(q) = 2 /\ q[1] = a /\ q[2] = b
    OBVIOUS
  <2> HIDE DEF q
  <2>2. DOMAIN q = {1, 2}
    BY <2>1
  <2>3. Range(q) = {a, b}
    BY <2>1, <2>2 DEF Range
  <2>4. QED
    BY <2>1, <2>3 DEF q
<1>4. QED
  BY <1>1, <1>2, <1>3, Zenon

\* Putting two queues one after the other.
LEMMA ConcatRange ==
  ASSUME NEW q, NEW r, q \in Seq(Range(q)), r \in Seq(Range(r))
  PROVE  /\ q \o r \in Seq(Range(q \o r)) /\ Range(q \o r) = Range(q) \cup Range(r)
         /\ Len(q \o r) = Len(q) + Len(r)
         /\ \A i \in 1 .. Len(q \o r) : (q \o r)[i] = IF i <= Len(q) THEN q[i] ELSE r[i - Len(q)]
<1> DEFINE S == Range(q) \cup Range(r)
<1>1. q \in Seq(S) /\ r \in Seq(S)
  OBVIOUS
<1> HIDE DEF S
<1>2. /\ q \o r \in Seq(S) /\ Len(q \o r) = Len(q) + Len(r)
      /\ \A i \in 1 .. Len(q) + Len(r) : (q \o r)[i] = IF i <= Len(q) THEN q[i] ELSE r[i - Len(q)]
  BY <1>1, ConcatProperties, Zenon
<1>3. q \o r \in Seq(Range(q \o r))
  BY <1>2, SeqOfRange, Zenon
<1>4. Range(q \o r) = Range(q) \cup Range(r)
  <2>1. Len(q) \in Nat /\ Len(r) \in Nat /\ DOMAIN q = 1 .. Len(q) /\ DOMAIN r = 1 .. Len(r)
    BY <1>1
  <2>2. DOMAIN (q \o r) = 1 .. Len(q) + Len(r)
    BY <1>2
  <2> DEFINE w == q \o r
  <2>3. /\ DOMAIN w = 1 .. Len(q) + Len(r)
        /\ \A i \in 1 .. Len(q) + Len(r) : w[i] = IF i <= Len(q) THEN q[i] ELSE r[i - Len(q)]
    BY <1>2, <2>2, Zenon
  <2> HIDE DEF w
  <2>4. ASSUME NEW i \in DOMAIN w PROVE w[i] \in Range(q) \cup Range(r)
    <3>1. CASE i <= Len(q)
      <4>1. w[i] = q[i] /\ i \in DOMAIN q
        BY <2>1, <2>3, <2>4, <3>1
      <4>2. QED
        BY <4>1 DEF Range
    <3>2. CASE ~ (i <= Len(q))
      <4>1. w[i] = r[i - Len(q)] /\ i - Len(q) \in DOMAIN r
        BY <2>1, <2>3, <2>4, <3>2
      <4>2. QED
        BY <4>1 DEF Range
    <3>3. QED
      BY <3>1, <3>2, Zenon
  <2>5. ASSUME NEW i \in DOMAIN q PROVE q[i] \in Range(w)
    <3>1. w[i] = q[i] /\ i \in DOMAIN w
      BY <2>1, <2>3, <2>5
    <3>2. QED
      BY <3>1 DEF Range
  <2>6. ASSUME NEW i \in DOMAIN r PROVE r[i] \in Range(w)
    <3>1. Len(q) + i \in DOMAIN w /\ ~ (Len(q) + i <= Len(q)) /\ (Len(q) + i) - Len(q) = i
      BY <2>1, <2>3, <2>6
    <3>2. w[Len(q) + i] = r[i]
      BY <2>3, <3>1
    <3>3. QED
      BY <3>1, <3>2 DEF Range
  <2>7. Range(w) \subseteq Range(q) \cup Range(r)
    BY <2>4 DEF Range
  <2>8. Range(q) \subseteq Range(w) /\ Range(r) \subseteq Range(w)
    BY <2>5, <2>6 DEF Range
  <2>9. Range(w) = Range(q) \cup Range(r)
    BY <2>7, <2>8, Zenon
  <2>10. QED
    BY <2>9 DEF w
<1>5. QED
  BY <1>2, <1>3, <1>4, Zenon

\* Adding one at the end.
LEMMA AppendRange ==
  ASSUME NEW q, NEW e, q \in Seq(Range(q))
  PROVE  /\ Append(q, e) \in Seq(Range(Append(q, e))) /\ Range(Append(q, e)) = Range(q) \cup {e}
         /\ Append(q, e) = q \o <<e>>
<1>1. q \o <<e>> \in Seq(Range(q \o <<e>>)) /\ Range(q \o <<e>>) = Range(q) \cup {e}
  <2> DEFINE r == <<e>>
  <2>1. r \in Seq(Range(r)) /\ Range(r) = {e}
    BY ListRange
  <2> HIDE DEF r
  <2>2. q \o r \in Seq(Range(q \o r)) /\ Range(q \o r) = Range(q) \cup Range(r)
    BY <2>1, ConcatRange, Zenon
  <2>3. QED
    BY <2>1, <2>2 DEF r
<1>2. Append(q, e) = q \o <<e>>
  BY AppendProperties, ConcatProperties
<1>3. QED
  BY <1>1, <1>2, Zenon

\* Taking one off the front.
LEMMA TailRange ==
  ASSUME NEW q, q \in Seq(Range(q)), q # <<>>
  PROVE  /\ Head(q) \in Range(q) /\ Head(q) = q[1]
         /\ Tail(q) \in Seq(Range(Tail(q))) /\ Range(Tail(q)) \subseteq Range(q)
         /\ Len(q) > 0 /\ Len(Tail(q)) = Len(q) - 1
         /\ \A i \in 1 .. Len(q) - 1 : Tail(q)[i] = q[i + 1]
<1> DEFINE R == Range(q)  t == Tail(q)
<1>1. q \in Seq(R)
  OBVIOUS
<1> HIDE DEF R
<1>2. /\ Head(q) = q[1] /\ t \in Seq(R) /\ Len(t) = Len(q) - 1 /\ Len(q) \in Nat /\ Len(q) > 0
      /\ \A i \in 1 .. Len(q) - 1 : t[i] = q[i + 1]
  BY <1>1
<1>3. t \in Seq(Range(t)) /\ Range(t) \subseteq R
  <2>1. t \in Seq(Range(t))
    BY <1>2, SeqOfRange, Zenon
  <2>2. \A i \in 1 .. Len(t) : t[i] \in R
    BY <1>2
  <2>3. QED
    BY <1>2, <2>1, <2>2, RangeOfSeq, Zenon
<1>4. Head(q) \in R
  BY <1>1, <1>2
<1>5. QED
  BY <1>2, <1>3, <1>4, Zenon DEF R, t
=============================================================================
