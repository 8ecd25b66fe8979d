--------------------------- MODULE FunctionProofs ---------------------------
(***************************************************************************)
(* What the functions on lists return, for every input: the filter of      *)
(* Lists, the choice of a window and of a pane, the rows of the detail and *)
(* the merges of the hook files.  Induction is over a set of numbers or of *)
(* lists instead of a predicate, so that first-order provers can use it.   *)
(***************************************************************************)
EXTENDS HookFiles, Questions, WellFoundedInduction, FiniteSetTheorems,
        SequenceTheorems, TLAPS

-----------------------------------------------------------------------------
(* Induction.                                                              *)

\* A set of numbers that is not empty has a least element.
LEMMA Smallest ==
    ASSUME NEW T \in SUBSET Nat, T # {}
    PROVE  \E x \in T : \A y \in T : x <= y
<1> DEFINE less == {p \in Nat \X Nat : p[1] < p[2]}
<1>1. IsWellFoundedOn(less, Nat)
  BY NatLessThanWellFounded DEF OpToRel
<1>2. \E x \in T : \A y \in T : <<y, x>> \notin less
  <2> HIDE DEF less
  <2> QED
    BY <1>1, WFMin
<1>3. \A x, y \in T : <<y, x>> \notin less => x <= y
  OBVIOUS
<1> QED
  BY <1>2, <1>3

\* Induction, over a set of numbers instead of a predicate.
LEMMA SetInduction ==
    ASSUME NEW T, 0 \in T, \A n \in Nat : n \in T => n + 1 \in T
    PROVE  Nat \subseteq T
<1> SUFFICES ASSUME Nat \ T # {} PROVE FALSE
  OBVIOUS
<1>1. PICK x \in Nat \ T : \A y \in Nat \ T : x <= y
  BY Smallest
<1>2. x # 0
  OBVIOUS
<1>3. x - 1 \in T
  BY <1>1, <1>2
<1> QED
  BY <1>1, <1>3

\* Induction over lists.
LEMMA ListInduction ==
    ASSUME NEW A, NEW T, <<>> \in T,
           \A s \in Seq(A), x \in A : s \in T => Append(s, x) \in T
    PROVE  Seq(A) \subseteq T
<1> DEFINE N == {n \in Nat : \A s \in Seq(A) : Len(s) = n => s \in T}
<1>1. 0 \in N
  OBVIOUS
<1>2. ASSUME NEW n \in Nat, n \in N PROVE n + 1 \in N
  <2> SUFFICES ASSUME NEW s \in Seq(A), Len(s) = n + 1 PROVE s \in T
    OBVIOUS
  <2>1. PICK t \in Seq(A), x \in A : s = Append(t, x)
    BY SequenceEmptyOrAppend
  <2>2. t \in T
    BY <1>2, <2>1
  <2> QED
    BY <2>1, <2>2
<1>3. Nat \subseteq N
  <2> HIDE DEF N
  <2> QED
    BY <1>1, <1>2, SetInduction
<1> QED
  BY <1>3

\* Lists of the same elements are the same.
LEMMA SameLists ==
    ASSUME NEW A, NEW s \in Seq(A), NEW t \in Seq(A), Len(s) = Len(t),
           \A i \in 1..Len(s) : s[i] = t[i]
    PROVE  s = t
OBVIOUS

\* The elements of a list with one more.
LEMMA AppendSet ==
    ASSUME NEW A, NEW s \in Seq(A), NEW x \in A
    PROVE  ToSet(Append(s, x)) = ToSet(s) \cup {x}
<1>1. /\ Len(s) \in Nat /\ Len(Append(s, x)) = Len(s) + 1 /\ Append(s, x)[Len(s) + 1] = x
      /\ \A i \in 1..Len(s) : Append(s, x)[i] = s[i]
      /\ DOMAIN s = 1..Len(s) /\ DOMAIN Append(s, x) = 1..(Len(s) + 1)
  OBVIOUS
<1>2. ToSet(s) = {s[i] : i \in 1..Len(s)}
  BY <1>1 DEF ToSet
<1>3. ToSet(Append(s, x)) = {Append(s, x)[i] : i \in 1..(Len(s) + 1)}
  BY <1>1 DEF ToSet
<1>4. ASSUME NEW e \in ToSet(s) PROVE e \in ToSet(Append(s, x))
  BY <1>1, <1>2, <1>3
<1>5. x \in ToSet(Append(s, x))
  BY <1>1, <1>3
<1>6. ASSUME NEW e \in ToSet(Append(s, x)), e # x PROVE e \in ToSet(s)
  BY <1>1, <1>2, <1>3, <1>6
<1> QED
  BY <1>4, <1>5, <1>6

\* A recursive function exists, when each value is a step from the one before.
Recursive(r, n, V, base, step) ==
    /\ r \in [0..n -> V] /\ r[0] = base
    /\ \A i \in 1..n : r[i] = step[i][r[i - 1]]

LEMMA Recursion ==
    ASSUME NEW n \in Nat, NEW V, NEW base \in V, NEW step \in [1..n -> [V -> V]]
    PROVE  \E r : Recursive(r, n, V, base, step)
<1> DEFINE T == {m \in Nat : m <= n => \E r : Recursive(r, m, V, base, step)}
<1>1. 0 \in T
  <2>1. Recursive([i \in 0..0 |-> base], 0, V, base, step)
    BY DEF Recursive
  <2> QED
    BY <2>1
<1>2. ASSUME NEW m \in Nat, m \in T PROVE m + 1 \in T
  <2> SUFFICES ASSUME m + 1 <= n PROVE \E r : Recursive(r, m + 1, V, base, step)
    OBVIOUS
  <2>1. m <= n /\ m + 1 \in 1..n
    OBVIOUS
  <2>2. PICK r : Recursive(r, m, V, base, step)
    BY <1>2, <2>1
  <2>3. PICK v \in V : v = step[m + 1][r[m]]
    BY <2>1, <2>2 DEF Recursive
  <2> DEFINE q == [i \in 0..(m + 1) |-> IF i <= m THEN r[i] ELSE v]
  <2>4. q \in [0..(m + 1) -> V] /\ q[0] = base
    BY <2>2 DEF Recursive
  <2>5. ASSUME NEW i \in 1..(m + 1) PROVE q[i] = step[i][q[i - 1]]
    <3>1. q[i - 1] = r[i - 1]
      OBVIOUS
    <3>2. CASE i <= m
      BY <2>2, <3>1, <3>2 DEF Recursive
    <3>3. CASE i = m + 1
      <4>1. q[i] = v /\ q[i - 1] = r[m]
        BY <3>1, <3>3
      <4> QED
        BY <2>3, <3>3, <4>1
    <3> QED
      BY <3>2, <3>3
  <2>6. Recursive(q, m + 1, V, base, step)
    <3> HIDE DEF q
    <3> QED
      BY <2>4, <2>5 DEF Recursive
  <2> QED
    BY <2>6
<1>3. Nat \subseteq T
  <2> HIDE DEF T
  <2> QED
    BY <1>1, <1>2, SetInduction
<1> QED
  BY <1>3

-----------------------------------------------------------------------------
(* Keep.                                                                   *)

\* k is the loop of Keep.
Keeps(s, S, k) ==
    /\ k[0] = <<>>
    /\ \A i \in 1..Len(s) :
          k[i] = IF s[i] \in S THEN Append(k[i - 1], s[i]) ELSE k[i - 1]

\* Keep is what its loop comes to.
LEMMA KeepDef ==
    ASSUME NEW A, NEW s \in Seq(A), NEW S
    PROVE  \E k \in [0..Len(s) -> Seq(A)] : Keeps(s, S, k) /\ Keep(s, S) = k[Len(s)]
<1>1. PICK n \in Nat : n = Len(s)
  OBVIOUS
<1>2. \A i \in 1..n : s[i] \in A
  BY <1>1
<1> DEFINE Turn(v, i) == IF s[i] \in S THEN Append(v, s[i]) ELSE v
           step == [i \in 1..n |-> [v \in Seq(A) |-> Turn(v, i)]]
           Body(k) == [i \in 0..n |-> IF i = 0 THEN <<>> ELSE Turn(k[i - 1], i)]
<1>3. \A v \in Seq(A), i \in 1..n : Turn(v, i) \in Seq(A)
  BY <1>2
<1> HIDE DEF Turn
<1>4. step \in [1..n -> [Seq(A) -> Seq(A)]]
  BY <1>3
<1>5. \A v \in Seq(A), i \in 1..n : step[i][v] = Turn(v, i)
  OBVIOUS
<1> HIDE DEF step
<1>6. <<>> \in Seq(A)
  OBVIOUS
<1>7. PICK r : Recursive(r, n, Seq(A), <<>>, step)
  BY <1>4, <1>6, Recursion
<1>8. /\ r \in [0..n -> Seq(A)] /\ r[0] = <<>>
      /\ \A i \in 1..n : r[i] = Turn(r[i - 1], i)
  <2>1. r \in [0..n -> Seq(A)] /\ r[0] = <<>> /\ \A i \in 1..n : r[i] = step[i][r[i - 1]]
    BY <1>7 DEF Recursive
  <2>2. \A i \in 1..n : i - 1 \in 0..n
    OBVIOUS
  <2> QED
    BY <1>5, <2>1, <2>2
<1>9. r = Body(r)
  BY <1>8
<1> DEFINE k == CHOOSE k : k = Body(k)
<1>10. k = Body(k)
  <2> HIDE DEF Body
  <2> QED
    BY <1>9
<1>11. Keep(s, S) = k[n]
  BY <1>1 DEF Keep, Turn
<1> HIDE DEF k
<1>12. k[0] = <<>> /\ \A i \in 1..n : k[i] = Turn(k[i - 1], i)
  BY <1>10
<1>13. k \in [0..n -> Seq(A)]
  <2> DEFINE T == {i \in Nat : i <= n => k[i] \in Seq(A)}
  <2>1. 0 \in T
    BY <1>6, <1>12
  <2>2. ASSUME NEW i \in Nat, i \in T PROVE i + 1 \in T
    <3> SUFFICES ASSUME i + 1 <= n PROVE k[i + 1] \in Seq(A)
      OBVIOUS
    <3>1. i + 1 \in 1..n /\ (i + 1) - 1 = i /\ k[i] \in Seq(A)
      BY <2>2
    <3> QED
      BY <1>3, <1>12, <3>1
  <2>3. Nat \subseteq T
    <3> HIDE DEF T
    <3> QED
      BY <2>1, <2>2, SetInduction
  <2>4. \A i \in 0..n : k[i] \in Seq(A)
    BY <2>3
  <2> QED
    BY <1>10, <2>4
<1>14. Keeps(s, S, k)
  BY <1>1, <1>12 DEF Keeps, Turn
<1> QED
  BY <1>1, <1>11, <1>13, <1>14

\* One element more passes, or does not.
LEMMA KeepAppend ==
    ASSUME NEW A, NEW s \in Seq(A), NEW x \in A, NEW S
    PROVE  /\ Keep(s, S) \in Seq(A)
           /\ Keep(Append(s, x), S) = IF x \in S THEN Append(Keep(s, S), x) ELSE Keep(s, S)
<1> DEFINE n == Len(s)
           t == Append(s, x)
<1>1. t \in Seq(A) /\ n \in Nat /\ Len(t) = n + 1 /\ t[n + 1] = x /\ \A i \in 1..n : t[i] = s[i]
  OBVIOUS
<1>2. PICK k \in [0..n -> Seq(A)] : Keeps(s, S, k) /\ Keep(s, S) = k[n]
  BY KeepDef
<1>3. PICK h \in [0..Len(t) -> Seq(A)] : Keeps(t, S, h) /\ Keep(t, S) = h[Len(t)]
  <2> HIDE DEF t
  <2> QED
    BY <1>1, KeepDef
<1> HIDE DEF t
<1> DEFINE T == {i \in Nat : i <= n => h[i] = k[i]}
<1>4. 0 \in T
  BY <1>2, <1>3 DEF Keeps
<1>5. ASSUME NEW i \in Nat, i \in T PROVE i + 1 \in T
  <2> SUFFICES ASSUME i + 1 <= n PROVE h[i + 1] = k[i + 1]
    OBVIOUS
  <2>1. h[i] = k[i] /\ i + 1 \in 1..n /\ i + 1 \in 1..Len(t) /\ (i + 1) - 1 = i
    BY <1>1, <1>5
  <2>2. k[i + 1] = IF s[i + 1] \in S THEN Append(k[i], s[i + 1]) ELSE k[i]
    BY <1>2, <2>1 DEF Keeps
  <2>3. h[i + 1] = IF t[i + 1] \in S THEN Append(h[i], t[i + 1]) ELSE h[i]
    BY <1>3, <2>1 DEF Keeps
  <2> QED
    BY <1>1, <2>1, <2>2, <2>3
<1>6. Nat \subseteq T
  <2> HIDE DEF T
  <2> QED
    BY <1>4, <1>5, SetInduction
<1>7. h[n] = k[n]
  BY <1>1, <1>6
<1>8. h[n + 1] = IF x \in S THEN Append(h[n], x) ELSE h[n]
  <2>1. n + 1 \in 1..Len(t) /\ (n + 1) - 1 = n
    BY <1>1
  <2> QED
    BY <1>1, <1>3, <2>1 DEF Keeps
<1>9. Keep(t, S) = IF x \in S THEN Append(Keep(s, S), x) ELSE Keep(s, S)
  BY <1>1, <1>2, <1>3, <1>7, <1>8
<1>10. Keep(s, S) \in Seq(A)
  BY <1>1, <1>2
<1> QED
  BY <1>9, <1>10 DEF t

LEMMA OneMore ==
    ASSUME NEW A, NEW S
    PROVE  \A s \in Seq(A), x \in A :
              Keep(Append(s, x), S) = IF x \in S THEN Append(Keep(s, S), x) ELSE Keep(s, S)
BY KeepAppend

\* Nothing passes where there is nothing.
LEMMA KeepEmpty == \A S : Keep(<<>>, S) = <<>>
<1> TAKE S
<1>1. PICK k \in [0..Len(<<>>) -> Seq({})] : Keeps(<<>>, S, k) /\ Keep(<<>>, S) = k[Len(<<>>)]
  <2>1. <<>> \in Seq({})
    OBVIOUS
  <2> QED
    BY <2>1, KeepDef
<1> QED
  BY <1>1 DEF Keeps

\* What passes is what was there and is asked for.
LEMMA KeepSet ==
    ASSUME NEW A, NEW S
    PROVE  \A s \in Seq(A) : /\ Keep(s, S) \in Seq(A)
                             /\ ToSet(Keep(s, S)) = ToSet(s) \cap S
<1> DEFINE T == {s \in Seq(A) : /\ Keep(s, S) \in Seq(A)
                                /\ ToSet(Keep(s, S)) = ToSet(s) \cap S}
<1>1. <<>> \in T
  <2>1. ToSet(<<>>) = {} /\ {} \cap S = {} /\ <<>> \in Seq(A)
    BY DEF ToSet
  <2> QED
    BY <2>1, KeepEmpty
<1>2. ASSUME NEW s \in Seq(A), NEW x \in A, s \in T PROVE Append(s, x) \in T
  <2>1. \A t \in Seq(A) : ToSet(Append(t, x)) = ToSet(t) \cup {x}
    BY AppendSet
  <2>2. Keep(s, S) \in Seq(A) /\ Append(s, x) \in Seq(A)
    BY <1>2
  <2>3. CASE x \in S
    <3>1. Keep(Append(s, x), S) = Append(Keep(s, S), x)
      BY <2>3, KeepAppend
    <3>2. ToSet(Append(Keep(s, S), x)) = (ToSet(s) \cap S) \cup {x}
      BY <1>2, <2>1, <2>2
    <3>3. (ToSet(s) \cap S) \cup {x} = (ToSet(s) \cup {x}) \cap S
      BY <2>3
    <3>4. Append(Keep(s, S), x) \in Seq(A)
      BY <2>2
    <3> QED
      BY <2>1, <2>2, <3>1, <3>2, <3>3, <3>4
  <2>4. CASE x \notin S
    <3>1. Keep(Append(s, x), S) = Keep(s, S)
      BY <2>4, KeepAppend
    <3> QED
      BY <1>2, <2>1, <2>2, <2>4, <3>1
  <2> QED
    BY <2>3, <2>4
<1>3. Seq(A) \subseteq T
  <2> HIDE DEF T
  <2> QED
    BY <1>1, <1>2, ListInduction
<1> QED
  BY <1>3

\* As many pass as there are places of what is asked for.
LEMMA KeepCount ==
    ASSUME NEW A, NEW S
    PROVE  \A s \in Seq(A) :
              /\ IsFiniteSet({i \in 1..Len(s) : s[i] \in S})
              /\ Len(Keep(s, S)) = Cardinality({i \in 1..Len(s) : s[i] \in S})
<1> DEFINE P(s) == {i \in 1..Len(s) : s[i] \in S}
           T == {s \in Seq(A) : IsFiniteSet(P(s)) /\ Len(Keep(s, S)) = Cardinality(P(s))}
<1>1. <<>> \in T
  <2>1. P(<<>>) = {} /\ <<>> \in Seq(A)
    OBVIOUS
  <2> HIDE DEF P
  <2> QED
    BY <2>1, KeepEmpty, FS_EmptySet
<1>2. ASSUME NEW s \in Seq(A), NEW x \in A, s \in T PROVE Append(s, x) \in T
  <2>1. PICK t \in Seq(A) : t = Append(s, x)
    <3>1. Append(s, x) \in Seq(A)
      OBVIOUS
    <3> HIDE DEF T
    <3> QED
      BY <3>1
  <2>2. /\ Len(s) \in Nat /\ Len(t) = Len(s) + 1 /\ t[Len(s) + 1] = x
        /\ \A i \in 1..Len(s) : t[i] = s[i]
    BY <2>1
  <2>3. PICK k \in Seq(A) : k = Keep(s, S)
    BY KeepAppend
  <2>4. Keep(t, S) = IF x \in S THEN Append(k, x) ELSE k
    <3>1. Keep(Append(s, x), S) = IF x \in S THEN Append(Keep(s, S), x) ELSE Keep(s, S)
      BY KeepAppend
    <3> QED
      BY <2>1, <2>3, <3>1
  <2>5. IsFiniteSet(P(s)) /\ Len(k) = Cardinality(P(s)) /\ Len(s) + 1 \notin P(s)
    BY <1>2, <2>2, <2>3
  <2>6. CASE x \in S
    <3>1. P(t) = P(s) \cup {Len(s) + 1}
      BY <2>2, <2>6
    <3>2. Len(Keep(t, S)) = Len(k) + 1
      BY <2>4, <2>6
    <3> HIDE DEF P
    <3>3. IsFiniteSet(P(t)) /\ Cardinality(P(t)) = Cardinality(P(s)) + 1
      BY <2>5, <3>1, FS_AddElement
    <3> QED
      BY <2>1, <2>5, <3>2, <3>3
  <2>7. CASE x \notin S
    <3>1. P(t) = P(s)
      BY <2>2, <2>7
    <3>2. Keep(t, S) = k
      BY <2>4, <2>7
    <3> HIDE DEF P
    <3> QED
      BY <2>1, <2>5, <3>1, <3>2
  <2> QED
    BY <2>6, <2>7
<1>3. Seq(A) \subseteq T
  <2> HIDE DEF T
  <2> QED
    BY <1>1, <1>2, ListInduction
<1> QED
  BY <1>3

\* Two filters are one.
LEMMA KeepKeep ==
    ASSUME NEW A, NEW S, NEW R
    PROVE  \A s \in Seq(A) : Keep(Keep(s, S), R) = Keep(s, S \cap R)
<1> DEFINE T == {s \in Seq(A) : Keep(Keep(s, S), R) = Keep(s, S \cap R)}
<1>1. <<>> \in T
  <2>1. <<>> \in Seq(A)
    OBVIOUS
  <2> QED
    BY <2>1, KeepEmpty
<1>2. ASSUME NEW s \in Seq(A), NEW x \in A, s \in T PROVE Append(s, x) \in T
  <2>1. Append(s, x) \in Seq(A) /\ Keep(s, S) \in Seq(A)
    BY KeepAppend
  <2>2. Keep(Append(s, x), S) = IF x \in S THEN Append(Keep(s, S), x) ELSE Keep(s, S)
    BY KeepAppend
  <2>3. PICK C : C = S \cap R
    OBVIOUS
  <2>4. Keep(Append(s, x), C) = IF x \in C THEN Append(Keep(s, C), x) ELSE Keep(s, C)
    BY KeepAppend
  <2>5. Keep(Append(Keep(s, S), x), R)
          = IF x \in R THEN Append(Keep(Keep(s, S), R), x) ELSE Keep(Keep(s, S), R)
    BY <2>1, KeepAppend
  <2>6. Keep(Keep(s, S), R) = Keep(s, C) /\ (x \in C <=> x \in S /\ x \in R)
    BY <1>2, <2>3
  <2>7. Keep(Keep(Append(s, x), S), R) = Keep(Append(s, x), C)
    <3>1. CASE x \in S
      BY <2>2, <2>4, <2>5, <2>6, <3>1
    <3>2. CASE x \notin S
      BY <2>2, <2>4, <2>6, <3>2
    <3> QED
      BY <3>1, <3>2
  <2> QED
    BY <2>1, <2>3, <2>7
<1>3. Seq(A) \subseteq T
  <2> HIDE DEF T
  <2> QED
    BY <1>1, <1>2, ListInduction
<1> QED
  BY <1>3

\* Filters go over the parts of a list one by one.
LEMMA KeepConcat ==
    ASSUME NEW A, NEW S, NEW s \in Seq(A)
    PROVE  \A t \in Seq(A) : Keep(s \o t, S) = Keep(s, S) \o Keep(t, S)
<1> DEFINE T == {t \in Seq(A) : Keep(s \o t, S) = Keep(s, S) \o Keep(t, S)}
<1>1. <<>> \in T
  <2>1. s \o <<>> = s /\ Keep(s, S) \in Seq(A) /\ <<>> \in Seq(A)
    BY KeepSet
  <2>2. Keep(s, S) \o <<>> = Keep(s, S)
    BY <2>1
  <2> QED
    BY <2>1, <2>2, KeepEmpty
<1>2. ASSUME NEW t \in Seq(A), NEW x \in A, t \in T PROVE Append(t, x) \in T
  <2>1. PICK st \in Seq(A) : st = s \o t
    <3>1. s \o t \in Seq(A)
      OBVIOUS
    <3> HIDE DEF T
    <3> QED
      BY <3>1
  <2>2. PICK ks \in Seq(A), kt \in Seq(A) : ks = Keep(s, S) /\ kt = Keep(t, S)
    <3> HIDE DEF T
    <3> QED
      BY KeepSet
  <2>3. s \o Append(t, x) = Append(st, x) /\ ks \o Append(kt, x) = Append(ks \o kt, x)
    BY <2>1
  <2>4. Keep(st, S) = ks \o kt
    BY <1>2, <2>1, <2>2
  <2>5. Keep(Append(st, x), S) = IF x \in S THEN Append(Keep(st, S), x) ELSE Keep(st, S)
    BY OneMore
  <2>6. Keep(Append(t, x), S) = IF x \in S THEN Append(Keep(t, S), x) ELSE Keep(t, S)
    BY OneMore
  <2>7. Keep(s \o Append(t, x), S) = Keep(s, S) \o Keep(Append(t, x), S)
    BY <2>2, <2>3, <2>4, <2>5, <2>6
  <2>8. Append(t, x) \in Seq(A)
    OBVIOUS
  <2> QED
    BY <2>7, <2>8
<1>3. Seq(A) \subseteq T
  <2> HIDE DEF T
  <2> QED
    BY <1>1, <1>2, ListInduction
<1> QED
  BY <1>3

\* f is the loop of FlattenSeq, with nothing before its first turn.
Flattens(ss, f) == f[0] = <<>> /\ \A i \in 1..Len(ss) : f[i] = f[i - 1] \o ss[i]

LEMMA FlattenDef ==
    ASSUME NEW A, NEW ss \in Seq(Seq(A))
    PROVE  \E f \in [0..Len(ss) -> Seq(A)] : Flattens(ss, f) /\ FlattenSeq(ss) = f[Len(ss)]
<1>1. PICK n \in Nat : n = Len(ss)
  OBVIOUS
<1>2. \A i \in 1..n : ss[i] \in Seq(A)
  BY <1>1
<1> DEFINE step == [i \in 1..n |-> [v \in Seq(A) |-> v \o ss[i]]]
           Body(b) == [i \in 1..n |-> IF i = 1 THEN ss[i] ELSE b[i - 1] \o ss[i]]
           b == CHOOSE b : b = Body(b)
<1>3. \A v \in Seq(A), i \in 1..n : v \o ss[i] \in Seq(A)
  BY <1>2
<1>4. step \in [1..n -> [Seq(A) -> Seq(A)]] /\ <<>> \in Seq(A)
  BY <1>3
<1>5. \A v \in Seq(A), i \in 1..n : step[i][v] = v \o ss[i]
  OBVIOUS
<1> HIDE DEF step
<1>6. PICK r : Recursive(r, n, Seq(A), <<>>, step)
  BY <1>4, Recursion
<1>7. /\ r \in [0..n -> Seq(A)] /\ r[0] = <<>>
      /\ \A i \in 1..n : r[i] = r[i - 1] \o ss[i]
  <2>1. r \in [0..n -> Seq(A)] /\ r[0] = <<>> /\ \A i \in 1..n : r[i] = step[i][r[i - 1]]
    BY <1>6 DEF Recursive
  <2>2. \A i \in 1..n : i - 1 \in 0..n
    OBVIOUS
  <2> QED
    BY <1>5, <2>1, <2>2
<1>8. 1 \in 1..n => r[1] = ss[1]
  <2>1. \A v \in Seq(A) : <<>> \o v = v
    OBVIOUS
  <2>2. 1 \in 1..n => r[1] = <<>> \o ss[1]
    <3>1. 1 - 1 = 0
      OBVIOUS
    <3> QED
      BY <1>7, <3>1
  <2> QED
    BY <1>2, <2>1, <2>2
<1>9. \E q : q = Body(q)
  <2>1. PICK q : q = [i \in 1..n |-> r[i]]
    OBVIOUS
  <2>2. \A i \in 2..n : q[i - 1] = r[i - 1]
    BY <2>1
  <2>3. ASSUME NEW i \in 1..n PROVE q[i] = IF i = 1 THEN ss[i] ELSE q[i - 1] \o ss[i]
    <3>1. q[i] = r[i] /\ r[i] = r[i - 1] \o ss[i]
      BY <1>7, <2>1
    <3>2. CASE i = 1
      BY <1>8, <3>1, <3>2
    <3>3. CASE i # 1
      <4>1. q[i - 1] = r[i - 1]
        BY <2>2, <3>3
      <4> QED
        BY <3>1, <3>3, <4>1
    <3> QED
      BY <3>2, <3>3
  <2>4. q = Body(q)
    BY <2>1, <2>3
  <2> QED
    BY <2>4
<1>10. b = Body(b)
  <2> HIDE DEF Body
  <2> QED
    BY <1>9
<1>11. n # 0 => FlattenSeq(ss) = b[n]
  BY <1>1 DEF FlattenSeq
<1> HIDE DEF b
<1>12. \A i \in 1..n : b[i] = IF i = 1 THEN ss[i] ELSE b[i - 1] \o ss[i]
  BY <1>10
<1> DEFINE T == {i \in Nat : i + 1 <= n => b[i + 1] = r[i + 1]}
<1>13. 0 \in T
  BY <1>8, <1>12
<1>14. ASSUME NEW i \in Nat, i \in T PROVE i + 1 \in T
  <2> SUFFICES ASSUME i + 2 <= n PROVE b[i + 2] = r[i + 2]
    <3>1. (i + 1) + 1 = i + 2
      OBVIOUS
    <3> QED
      BY <3>1
  <2>1. i + 2 \in 1..n /\ i + 2 # 1 /\ (i + 2) - 1 = i + 1 /\ b[i + 1] = r[i + 1]
    BY <1>14
  <2>2. r[i + 2] = r[i + 1] \o ss[i + 2]
    BY <1>7, <2>1
  <2>3. b[i + 2] = b[i + 1] \o ss[i + 2]
    BY <1>12, <2>1
  <2> QED
    BY <2>1, <2>2, <2>3
<1>15. Nat \subseteq T
  <2> HIDE DEF T
  <2> QED
    BY <1>13, <1>14, SetInduction
<1>16. FlattenSeq(ss) = r[n]
  <2>1. CASE n = 0
    <3>1. ss = <<>>
      <4>1. Len(ss) = 0
        BY <1>1, <2>1
      <4> HIDE DEF T
      <4> QED
        BY <4>1
    <3>2. r[n] = <<>>
      BY <1>7, <2>1
    <3> QED
      BY <3>1, <3>2 DEF FlattenSeq
  <2>2. CASE n # 0
    <3>1. n - 1 \in T /\ (n - 1) + 1 = n
      BY <1>15, <2>2
    <3> QED
      BY <1>11, <2>2, <3>1
  <2> QED
    BY <2>1, <2>2
<1> QED
  BY <1>1, <1>7, <1>16 DEF Flattens

LEMMA FlattenEmpty == FlattenSeq(<<>>) = <<>>
BY DEF FlattenSeq

\* One list more is put at the end.
LEMMA FlattenAppend ==
    ASSUME NEW A, NEW ss \in Seq(Seq(A)), NEW x \in Seq(A)
    PROVE  /\ FlattenSeq(ss) \in Seq(A)
           /\ FlattenSeq(Append(ss, x)) = FlattenSeq(ss) \o x
<1>1. PICK n \in Nat : n = Len(ss)
  OBVIOUS
<1>2. PICK f \in [0..n -> Seq(A)] : Flattens(ss, f) /\ FlattenSeq(ss) = f[n]
  BY <1>1, FlattenDef
<1>3. PICK tt \in Seq(Seq(A)) : tt = Append(ss, x)
  <2>1. Append(ss, x) \in Seq(Seq(A))
    OBVIOUS
  <2> QED
    BY <2>1
<1>4. Len(tt) = n + 1 /\ tt[n + 1] = x /\ \A i \in 1..n : tt[i] = ss[i]
  BY <1>1, <1>3
<1>5. PICK h \in [0..(n + 1) -> Seq(A)] : Flattens(tt, h) /\ FlattenSeq(tt) = h[n + 1]
  BY <1>4, FlattenDef
<1> DEFINE T == {i \in Nat : i <= n => h[i] = f[i]}
<1>6. 0 \in T
  BY <1>2, <1>5 DEF Flattens
<1>7. ASSUME NEW i \in Nat, i \in T PROVE i + 1 \in T
  <2> SUFFICES ASSUME i + 1 <= n PROVE h[i + 1] = f[i + 1]
    OBVIOUS
  <2>1. h[i] = f[i] /\ i + 1 \in 1..n /\ i + 1 \in 1..(n + 1) /\ (i + 1) - 1 = i
    BY <1>7
  <2>2. f[i + 1] = f[i] \o ss[i + 1]
    BY <1>1, <1>2, <2>1 DEF Flattens
  <2>3. h[i + 1] = h[i] \o tt[i + 1]
    BY <1>4, <1>5, <2>1 DEF Flattens
  <2> QED
    BY <1>4, <2>1, <2>2, <2>3
<1>8. Nat \subseteq T
  <2> HIDE DEF T
  <2> QED
    BY <1>6, <1>7, SetInduction
<1>9. h[n] = f[n]
  BY <1>8
<1>10. h[n + 1] = h[n] \o x
  <2>1. n + 1 \in 1..Len(tt) /\ (n + 1) - 1 = n
    BY <1>4
  <2> QED
    BY <1>4, <1>5, <2>1 DEF Flattens
<1> QED
  BY <1>2, <1>3, <1>5, <1>9, <1>10

\* What passes of the lists one after the other is what passes of each, in the same order.
KeepAll(ss, S) == [i \in 1..Len(ss) |-> Keep(ss[i], S)]

LEMMA KeepAllType ==
    ASSUME NEW A, NEW S, NEW ss \in Seq(Seq(A))
    PROVE  /\ KeepAll(ss, S) \in Seq(Seq(A)) /\ Len(KeepAll(ss, S)) = Len(ss)
           /\ \A i \in 1..Len(ss) : KeepAll(ss, S)[i] = Keep(ss[i], S)
<1>1. PICK n \in Nat : n = Len(ss)
  OBVIOUS
<1>2. \A i \in 1..n : Keep(ss[i], S) \in Seq(A)
  BY <1>1, KeepSet
<1>3. KeepAll(ss, S) \in [1..n -> Seq(A)]
  BY <1>1, <1>2 DEF KeepAll
<1>4. \A i \in 1..n : KeepAll(ss, S)[i] = Keep(ss[i], S)
  BY <1>1 DEF KeepAll
<1> QED
  BY <1>1, <1>3, <1>4, SMTT(40)

LEMMA KeepAllAppend ==
    ASSUME NEW A, NEW S, NEW ss \in Seq(Seq(A)), NEW x \in Seq(A)
    PROVE  /\ KeepAll(ss, S) \in Seq(Seq(A))
           /\ KeepAll(Append(ss, x), S) = Append(KeepAll(ss, S), Keep(x, S))
<1>1. PICK n \in Nat : n = Len(ss)
  OBVIOUS
<1>2. PICK k \in Seq(Seq(A)) : k = KeepAll(ss, S) /\ Len(k) = n
  BY <1>1, KeepAllType
<1>3. \A i \in 1..n : k[i] = Keep(ss[i], S)
  BY <1>1, <1>2, KeepAllType
<1>4. PICK kx \in Seq(A) : kx = Keep(x, S)
  BY KeepSet
<1>5. PICK tt \in Seq(Seq(A)) :
         /\ tt = Append(ss, x) /\ Len(tt) = n + 1 /\ tt[n + 1] = x
         /\ \A i \in 1..n : tt[i] = ss[i]
  <2>1. /\ Append(ss, x) \in Seq(Seq(A)) /\ Len(Append(ss, x)) = n + 1
        /\ Append(ss, x)[n + 1] = x /\ \A i \in 1..n : Append(ss, x)[i] = ss[i]
    BY <1>1
  <2> QED
    BY <2>1
<1>6. PICK u \in Seq(Seq(A)) :
         /\ u = Append(k, kx) /\ Len(u) = n + 1 /\ u[n + 1] = kx
         /\ \A i \in 1..n : u[i] = k[i]
  <2>1. /\ Append(k, kx) \in Seq(Seq(A)) /\ Len(Append(k, kx)) = n + 1
        /\ Append(k, kx)[n + 1] = kx /\ \A i \in 1..n : Append(k, kx)[i] = k[i]
    BY <1>2
  <2> QED
    BY <2>1
<1>7. PICK v \in Seq(Seq(A)) :
         /\ v = KeepAll(tt, S) /\ Len(v) = n + 1
         /\ \A i \in 1..(n + 1) : v[i] = Keep(tt[i], S)
  <2>1. /\ KeepAll(tt, S) \in Seq(Seq(A)) /\ Len(KeepAll(tt, S)) = Len(tt)
        /\ \A i \in 1..Len(tt) : KeepAll(tt, S)[i] = Keep(tt[i], S)
    BY KeepAllType
  <2> QED
    BY <1>5, <2>1
<1>8. ASSUME NEW i \in 1..(n + 1) PROVE v[i] = u[i]
  <2>1. CASE i = n + 1
    BY <1>4, <1>5, <1>6, <1>7, <2>1
  <2>2. CASE i # n + 1
    <3>1. i \in 1..n
      BY ONLY n \in Nat, i \in 1..(n + 1), <2>2
    <3> QED
      BY <1>3, <1>5, <1>6, <1>7, <3>1
  <2> QED
    BY <2>1, <2>2
<1>9. v = u
  BY <1>6, <1>7, <1>8, SameLists
<1> QED
  BY <1>2, <1>4, <1>5, <1>6, <1>7, <1>9

LEMMA KeepFlatten ==
    ASSUME NEW A, NEW S
    PROVE  \A ss \in Seq(Seq(A)) :
              /\ FlattenSeq(ss) \in Seq(A)
              /\ Keep(FlattenSeq(ss), S) = FlattenSeq(KeepAll(ss, S))
<1> DEFINE T == {ss \in Seq(Seq(A)) : /\ FlattenSeq(ss) \in Seq(A)
                                      /\ Keep(FlattenSeq(ss), S) = FlattenSeq(KeepAll(ss, S))}
<1>1. <<>> \in T
  <2>1. KeepAll(<<>>, S) = <<>> /\ <<>> \in Seq(Seq(A)) /\ <<>> \in Seq(A)
    BY DEF KeepAll
  <2> QED
    BY <2>1, KeepEmpty, FlattenEmpty
<1>2. ASSUME NEW ss \in Seq(Seq(A)), NEW x \in Seq(A), ss \in T PROVE Append(ss, x) \in T
  <2>1. PICK f \in Seq(A) : f = FlattenSeq(ss)
    BY <1>2
  <2>2. Append(ss, x) \in Seq(Seq(A)) /\ f \o x \in Seq(A)
    OBVIOUS
  <2>3. FlattenSeq(Append(ss, x)) = f \o x
    BY <2>1, FlattenAppend
  <2>4. Keep(f \o x, S) = Keep(f, S) \o Keep(x, S)
    BY KeepConcat
  <2>5. PICK k \in Seq(Seq(A)) : k = KeepAll(ss, S)
    BY KeepAllAppend
  <2>6. KeepAll(Append(ss, x), S) = Append(k, Keep(x, S))
    BY <2>5, KeepAllAppend
  <2>7. PICK kx \in Seq(A) : kx = Keep(x, S)
    BY KeepSet
  <2>8. FlattenSeq(Append(k, kx)) = FlattenSeq(k) \o kx
    BY FlattenAppend
  <2>9. Keep(f, S) = FlattenSeq(k)
    BY <1>2, <2>1, <2>5
  <2> QED
    BY <2>2, <2>3, <2>4, <2>6, <2>7, <2>8, <2>9
<1>3. Seq(Seq(A)) \subseteq T
  <2> HIDE DEF T
  <2> QED
    BY <1>1, <1>2, ListInduction
<1> QED
  BY <1>3

-----------------------------------------------------------------------------
(* The view model.                                                         *)

\* What SelectInSeq finds is there.
LEMMA IndexFound ==
    ASSUME NEW n \in Nat, NEW I \in SUBSET (1..n), I # {}
    PROVE  Min(I) \in I /\ \A i \in I : Min(I) <= i
<1>1. \E x \in I : \A y \in I : x <= y
  BY Smallest
<1> QED
  BY <1>1 DEF Min

\* SelectInSeq finds the first that passes.
LEMMA SelectFound ==
    ASSUME NEW n \in Nat, NEW I \in SUBSET (1..n), NEW at,
           at = IF I = {} THEN 0 ELSE Min(I), at # 0
    PROVE  at \in I
BY IndexFound

\* The session that a detail is about is listed, with as many subagents.
Tells(d, id, sessions) ==
    /\ d.id = id /\ d.count = Len(d.rows)
    /\ \E i \in DOMAIN sessions :
          /\ sessions[i].id = id
          /\ CountDirectSubagents(sessions[i], sessions) = Len(d.rows)

LEMMA DetailAgrees ==
    ASSUME NEW S, NEW B, NEW sessions \in Seq(S), \A s \in S : s.subagents \in Seq(B),
           NEW id, NEW d, d = Detail(sessions, id), d # None
    PROVE  Tells(d, id, sessions)
<1> DEFINE at == SelectInSeq(sessions, LAMBDA s : s.id = id)
           I == {i \in 1..Len(sessions) : sessions[i].id = id}
<1>1. at # 0 /\ at = IF I = {} THEN 0 ELSE Min(I)
  BY DEF Detail, SelectInSeq
<1>2. Len(sessions) \in Nat /\ I \in SUBSET (1..Len(sessions)) /\ DOMAIN sessions = 1..Len(sessions)
  OBVIOUS
<1>3. at \in I
  <2> HIDE DEF I, at
  <2> QED
    BY <1>1, <1>2, SelectFound
<1>4. PICK i \in DOMAIN sessions : i = at
  BY <1>2, <1>3
<1>5. PICK s \in S : s = sessions[i]
  <2>1. sessions[i] \in S
    BY <1>2
  <2> HIDE DEF I, at
  <2> QED
    BY <2>1
<1>6. s.id = id /\ SubagentsOf(s, sessions) \in Seq(S) /\ s.subagents \in Seq(B)
  BY <1>3, <1>4, <1>5, KeepSet DEF SubagentsOf
<1>7. PICK rows : rows = SubagentRows(s, sessions)
  OBVIOUS
<1>8. PICK count : count = CountDirectSubagents(s, sessions)
  OBVIOUS
<1>9. d.id = id /\ d.count = count /\ d.rows = rows
  BY <1>1, <1>4, <1>5, <1>7, <1>8 DEF Detail
<1>10. count = Len(rows)
  BY <1>6, <1>7, <1>8 DEF CountDirectSubagents, SubagentRows
<1> QED
  BY <1>4, <1>5, <1>6, <1>8, <1>9, <1>10 DEF Tells

\* A detail is about one of the sessions that can be read, whatever was selected.
LEMMA ViewRight ==
    ASSUME NEW S, NEW B, \A s \in S : s.subagents \in Seq(B), None \notin S,
           NEW payload \in Seq(S \cup {None}), NEW panelView, NEW selected, NEW pinned
    PROVE  SameSubagents(View(payload, panelView, selected, pinned))
<1>1. PICK sessions \in Seq(S) : sessions = Parse(payload)
  <2>1. Parse(payload) \in Seq(S \cup {None}) /\ None \notin ToSet(Parse(payload))
    BY KeepSet DEF Parse
  <2>2. Parse(payload) \in Seq(S)
    BY <2>1 DEF ToSet
  <2> QED
    BY <2>2
<1>2. PICK v : v = View(payload, panelView, selected, pinned)
  OBVIOUS
<1>3. PICK d : d = v.detail
  OBVIOUS
<1>4. v.rows = ListRows(sessions)
  BY <1>1, <1>2 DEF View
<1>5. SUFFICES ASSUME d # None
      PROVE  /\ d.count = Len(d.rows)
             /\ \E i \in DOMAIN v.rows :
                   v.rows[i].id = d.id /\ v.rows[i].detail[2] = Len(d.rows)
  BY <1>2, <1>3 DEF SameSubagents
<1>6. \E id : d = Detail(sessions, id)
  BY <1>1, <1>2, <1>3, <1>5 DEF View
<1>7. PICK id : Tells(d, id, sessions)
  BY <1>5, <1>6, DetailAgrees
<1>8. PICK i \in DOMAIN sessions :
         sessions[i].id = id /\ CountDirectSubagents(sessions[i], sessions) = Len(d.rows)
  BY <1>7 DEF Tells
<1>9. i \in DOMAIN v.rows /\ v.rows[i] = Row(sessions[i], CountDirectSubagents(sessions[i], sessions))
  BY <1>4, <1>8 DEF ListRows
<1>10. v.rows[i].id = id /\ v.rows[i].detail[2] = Len(d.rows)
  BY <1>8, <1>9 DEF Row
<1> QED
  BY <1>7, <1>9, <1>10 DEF Tells

-----------------------------------------------------------------------------
(* The choice of a window.                                                 *)

\* Titles that agree before a place, one by one.
Agree(s, t, i) == \A j \in 1..(i - 1) : s[j] = t[j]

LEMMA SamePrefix ==
    ASSUME NEW A, NEW s \in Seq(A), NEW t \in Seq(A), NEW i \in Nat,
           i <= Len(s), i <= Len(t)
    PROVE  SubSeq(s, 1, i) = SubSeq(t, 1, i) <=> \A j \in 1..i : s[j] = t[j]
<1>1. Len(s) \in Nat /\ Len(t) \in Nat
  OBVIOUS
<1>2. SubSeq(s, 1, i) = [j \in 1..i |-> s[j]] /\ SubSeq(t, 1, i) = [j \in 1..i |-> t[j]]
  BY <1>1
<1>3. ASSUME [j \in 1..i |-> s[j]] = [j \in 1..i |-> t[j]], NEW j \in 1..i
      PROVE  s[j] = t[j]
  <2>1. [l \in 1..i |-> s[l]][j] = s[j] /\ [l \in 1..i |-> t[l]][j] = t[j]
    OBVIOUS
  <2> QED
    BY <1>3, <2>1
<1>4. ASSUME \A j \in 1..i : s[j] = t[j]
      PROVE  [j \in 1..i |-> s[j]] = [j \in 1..i |-> t[j]]
  BY <1>4
<1> QED
  BY <1>2, <1>3, <1>4

\* Precedes in terms of the places of two titles.
Before(s, t) ==
    \/ Len(s) < Len(t) /\ Agree(s, t, Len(s) + 1)
    \/ \E i \in 1..Len(s) : i <= Len(t) /\ s[i] < t[i] /\ Agree(s, t, i)

LEMMA PrecedesBefore ==
    ASSUME NEW s \in Seq(Nat), NEW t \in Seq(Nat)
    PROVE  Precedes(s, t) <=> Before(s, t)
<1>1. /\ Len(s) \in Nat /\ Len(t) \in Nat /\ DOMAIN s = 1..Len(s) /\ DOMAIN t = 1..Len(t)
      /\ s \in [1..Len(s) -> Nat] /\ t \in [1..Len(t) -> Nat]
  OBVIOUS
<1>2. SubSeq(s, 1, Len(s)) = s
  BY <1>1
<1>3. IsStrictPrefix(s, t) <=> Len(s) < Len(t) /\ Agree(s, t, Len(s) + 1)
  <2>1. IsStrictPrefix(s, t) <=>
          s # t /\ Len(s) <= Len(t) /\ SubSeq(s, 1, Len(s)) = SubSeq(t, 1, Len(s))
    BY DEF IsStrictPrefix, IsPrefix
  <2>2. Len(s) <= Len(t) =>
          (SubSeq(s, 1, Len(s)) = SubSeq(t, 1, Len(s)) <=> Agree(s, t, Len(s) + 1))
    <3>1. (Len(s) + 1) - 1 = Len(s)
      BY <1>1
    <3> QED
      BY <1>1, <3>1, SamePrefix DEF Agree
  <2>3. ASSUME Len(s) = Len(t), Agree(s, t, Len(s) + 1) PROVE s = t
    <3>1. \A j \in 1..Len(s) : s[j] = t[j]
      BY <1>1, <2>3 DEF Agree
    <3> QED
      BY <2>3, <3>1, SameLists
  <2>4. Len(s) < Len(t) => s # t
    BY <1>1
  <2>5. Len(s) <= Len(t) <=> Len(s) < Len(t) \/ Len(s) = Len(t)
    <3>1. \A m, n \in Nat : m <= n <=> m < n \/ m = n
      OBVIOUS
    <3> QED
      BY ONLY <1>1, <3>1
  <2>6. ASSUME IsStrictPrefix(s, t) PROVE Len(s) < Len(t) /\ Agree(s, t, Len(s) + 1)
    BY <2>1, <2>2, <2>3, <2>5, <2>6
  <2>7. ASSUME Len(s) < Len(t), Agree(s, t, Len(s) + 1) PROVE IsStrictPrefix(s, t)
    BY <2>1, <2>2, <2>4, <2>5, <2>7
  <2> QED
    BY <2>6, <2>7
<1>4. ASSUME NEW i \in 1..Len(s), i <= Len(t)
      PROVE  SubSeq(s, 1, i - 1) = SubSeq(t, 1, i - 1) <=> Agree(s, t, i)
  <2>1. i - 1 \in Nat /\ i - 1 <= Len(s) /\ i - 1 <= Len(t)
    BY <1>1, <1>4
  <2> QED
    BY <2>1, SamePrefix DEF Agree
<1>5. (\E i \in DOMAIN s \cap DOMAIN t :
          s[i] < t[i] /\ SubSeq(s, 1, i - 1) = SubSeq(t, 1, i - 1))
      <=> \E i \in 1..Len(s) : i <= Len(t) /\ s[i] < t[i] /\ Agree(s, t, i)
  <2>1. \A i : i \in DOMAIN s \cap DOMAIN t <=> i \in 1..Len(s) /\ i <= Len(t)
    BY <1>1
  <2> QED
    BY <1>4, <2>1
<1> QED
  BY <1>3, <1>5 DEF Precedes, Before

\* No title precedes itself.
LEMMA PrecedesIrreflexive ==
    ASSUME NEW s \in Seq(Nat) PROVE ~Precedes(s, s)
<1>1. Len(s) \in Nat /\ \A i \in 1..Len(s) : s[i] \in Nat
  OBVIOUS
<1>2. ~Before(s, s)
  BY <1>1 DEF Before
<1> QED
  BY <1>2, PrecedesBefore

\* The order of titles is transitive.
LEMMA PrecedesTransitive ==
    ASSUME NEW s \in Seq(Nat), NEW t \in Seq(Nat), NEW u \in Seq(Nat),
           Precedes(s, t), Precedes(t, u)
    PROVE  Precedes(s, u)
<1>1. /\ Len(s) \in Nat /\ \A i \in 1..Len(s) : s[i] \in Nat
      /\ Len(t) \in Nat /\ \A i \in 1..Len(t) : t[i] \in Nat
      /\ Len(u) \in Nat /\ \A i \in 1..Len(u) : u[i] \in Nat
  OBVIOUS
<1>2. Before(s, t) /\ Before(t, u)
  BY PrecedesBefore
<1>3. CASE Len(s) < Len(t) /\ Agree(s, t, Len(s) + 1)
  <2>1. CASE Len(t) < Len(u) /\ Agree(t, u, Len(t) + 1)
    <3>1. Len(s) < Len(u) /\ Agree(s, u, Len(s) + 1)
      BY <1>1, <1>3, <2>1 DEF Agree
    <3> QED
      BY <3>1, PrecedesBefore DEF Before
  <2>2. ASSUME NEW i \in 1..Len(t), i <= Len(u), t[i] < u[i], Agree(t, u, i)
        PROVE  Before(s, u)
    <3>1. CASE i <= Len(s)
      <4>1. s[i] = t[i] /\ Agree(s, u, i)
        BY <1>1, <1>3, <2>2, <3>1 DEF Agree
      <4> QED
        BY <1>1, <2>2, <3>1, <4>1 DEF Before
    <3>2. CASE i > Len(s)
      <4>1. Len(s) < Len(u) /\ Agree(s, u, Len(s) + 1)
        BY <1>1, <1>3, <2>2, <3>2 DEF Agree
      <4> QED
        BY <4>1 DEF Before
    <3> QED
      BY <1>1, <3>1, <3>2
  <2> QED
    BY <1>2, <2>1, <2>2, PrecedesBefore DEF Before
<1>4. ASSUME NEW i \in 1..Len(s), i <= Len(t), s[i] < t[i], Agree(s, t, i)
      PROVE  Before(s, u)
  <2>1. CASE Len(t) < Len(u) /\ Agree(t, u, Len(t) + 1)
    <3>1. i <= Len(u) /\ t[i] = u[i] /\ Agree(s, u, i)
      BY <1>1, <1>4, <2>1 DEF Agree
    <3> QED
      BY <1>1, <1>4, <3>1 DEF Before
  <2>2. ASSUME NEW l \in 1..Len(t), l <= Len(u), t[l] < u[l], Agree(t, u, l)
        PROVE  Before(s, u)
    <3>1. CASE l < i
      <4>1. l \in 1..Len(s) /\ s[l] = t[l] /\ Agree(s, u, l)
        BY <1>1, <1>4, <2>2, <3>1, SMTT(40) DEF Agree
      <4> QED
        BY <1>1, <2>2, <4>1 DEF Before
    <3>2. CASE l >= i
      <4>0. i <= Len(u) /\ \A j \in 1..i - 1 : j \in 1..l - 1
        BY <1>1, <2>2, <3>2
      <4>1. i <= Len(u) /\ Agree(s, u, i)
        BY <1>4, <2>2, <4>0 DEF Agree
      <4>2. s[i] < u[i]
        <5>1. CASE l = i
          BY <1>1, <1>4, <2>2, <5>1
        <5>2. CASE i < l
          BY <1>1, <1>4, <2>2, <5>2 DEF Agree
        <5> QED
          BY <1>1, <3>2, <5>1, <5>2
      <4> QED
        BY <4>1, <4>2 DEF Before
    <3> QED
      BY <1>1, <3>1, <3>2
  <2> QED
    BY <1>2, <2>1, <2>2 DEF Before
<1> QED
  BY <1>2, <1>3, <1>4, PrecedesBefore DEF Before

\* Of two titles that differ one precedes the other.
LEMMA PrecedesTotal ==
    ASSUME NEW s \in Seq(Nat), NEW t \in Seq(Nat), s # t
    PROVE  Precedes(s, t) \/ Precedes(t, s)
<1>1. /\ Len(s) \in Nat /\ s \in [1..Len(s) -> Nat]
      /\ Len(t) \in Nat /\ t \in [1..Len(t) -> Nat]
  OBVIOUS
<1> DEFINE D == {i \in Nat : i \in 1..Len(s) /\ i \in 1..Len(t) /\ s[i] # t[i]}
<1>2. CASE D = {}
  <2>1. \A i \in 1..Len(s) : i <= Len(t) => s[i] = t[i]
    BY <1>1, <1>2
  <2>2. Len(s) # Len(t)
    <3>1. Len(s) = Len(t) => \A i \in 1..Len(s) : s[i] = t[i]
      BY <1>1, <2>1
    <3> HIDE DEF D
    <3> QED
      BY <3>1, SameLists
  <2>3. CASE Len(s) < Len(t)
    <3>1. Agree(s, t, Len(s) + 1)
      BY <1>1, <2>1, <2>3 DEF Agree
    <3> QED
      BY <2>3, <3>1, PrecedesBefore DEF Before
  <2>4. CASE Len(t) < Len(s)
    <3>1. Agree(t, s, Len(t) + 1)
      BY <1>1, <2>1, <2>4 DEF Agree
    <3> QED
      BY <2>4, <3>1, PrecedesBefore DEF Before
  <2>5. Len(s) < Len(t) \/ Len(t) < Len(s)
    <3>1. \A m, n \in Nat : m # n => m < n \/ n < m
      OBVIOUS
    <3> QED
      BY ONLY <1>1, <2>2, <3>1
  <2> QED
    BY <2>3, <2>4, <2>5
<1>3. CASE D # {}
  <2>1. PICK i \in D : \A j \in D : i <= j
    BY <1>3, Smallest
  <2>2. Agree(s, t, i) /\ Agree(t, s, i)
    <3>1. ASSUME NEW j \in 1..(i - 1) PROVE s[j] = t[j]
      BY <1>1, <2>1
    <3> QED
      BY <3>1 DEF Agree
  <2>3. i \in 1..Len(s) /\ i \in 1..Len(t) /\ s[i] \in Nat /\ t[i] \in Nat /\ s[i] # t[i]
    BY <1>1, <2>1
  <2>4. s[i] < t[i] \/ t[i] < s[i]
    BY <2>3
  <2>5. Before(s, t) \/ Before(t, s)
    BY <1>1, <2>2, <2>3, <2>4 DEF Before
  <2> QED
    BY <2>5, PrecedesBefore
<1> QED
  BY <1>2, <1>3

\* Every title scores a number.
LEMMA ScoreNat ==
    ASSUME NEW title, NEW requested \in Seq(Nat)
    PROVE  Score(title, requested) \in Nat
<1> DEFINE parts == {i \in DOMAIN requested : Within(<<requested[i]>>, title)}
<1>1. IsFiniteSet(1..Len(requested)) /\ parts \in SUBSET (1..Len(requested))
  BY FS_Interval
<1>2. Cardinality(parts) \in Nat
  <2> HIDE DEF parts
  <2> QED
    BY <1>1, FS_Subset, FS_CardinalityType
<1> QED
  BY <1>2 DEF Score

\* best is the first in order of those in seen that score most.
Leads(best, seen, requested) ==
    /\ best = None => \A v \in seen : Score(v.title, requested) = 0
    /\ best # None =>
          /\ best \in seen /\ Score(best.title, requested) > 0
          /\ \A v \in seen :
                /\ Score(v.title, requested) <= Score(best.title, requested)
                /\ Score(v.title, requested) = Score(best.title, requested)
                      => ~Precedes(v.title, best.title)

\* What has a window replaced.
Beats(w, best, requested) ==
    \/ Score(w.title, requested) > Score(best.title, requested)
    \/ /\ Score(w.title, requested) = Score(best.title, requested)
       /\ Precedes(w.title, best.title)

\* One turn of the loop.
LEMMA BetterLeads ==
    ASSUME NEW W, AreWindows(W), NEW requested \in Seq(Nat),
           NEW seen \in SUBSET W, NEW best, Leads(best, seen, requested), NEW w \in W
    PROVE  Leads(Better(requested, best, w), seen \cup {w}, requested)
<1> DEFINE points(v) == Score(v.title, requested)
<1>1. \A v \in seen \cup {w} : points(v) \in Nat /\ v.title \in Seq(Nat) /\ v # None
  BY ScoreNat DEF AreWindows
<1>2. PICK next : next = Better(requested, best, w)
  OBVIOUS
<1>3. CASE best = None
  <2>1. \A v \in seen : points(v) = 0
    BY <1>3 DEF Leads
  <2>2. next = IF points(w) > 0 THEN w ELSE None
    BY <1>2, <1>3 DEF Better
  <2>3. ~Precedes(w.title, w.title)
    BY <1>1, PrecedesIrreflexive
  <2> QED
    BY <1>1, <1>2, <2>1, <2>2, <2>3 DEF Leads
<1>4. CASE best # None
  <2>1. /\ best \in seen /\ points(best) > 0
        /\ \A v \in seen :
              points(v) <= points(best)
              /\ (points(v) = points(best) => ~Precedes(v.title, best.title))
    BY <1>4 DEF Leads
  <2>2. CASE Beats(w, best, requested)
    <3>1. points(w) >= points(best) /\ points(w) > 0
      BY <1>1, <2>1, <2>2 DEF Beats
    <3>2. next = w
      BY <1>2, <2>2, <3>1 DEF Better, Beats
    <3>3. ASSUME NEW v \in seen, points(v) = points(w) PROVE ~Precedes(v.title, w.title)
      <4>1. points(v) = points(best) /\ Precedes(w.title, best.title)
        BY <1>1, <2>1, <2>2, <3>3 DEF Beats
      <4>2. ~Precedes(v.title, best.title)
        BY <2>1, <4>1
      <4> QED
        BY <1>1, <2>1, <4>1, <4>2, PrecedesTransitive
    <3>4. ~Precedes(w.title, w.title)
      BY <1>1, PrecedesIrreflexive
    <3>5. \A v \in seen \cup {w} : points(v) <= points(w)
      BY <1>1, <2>1, <3>1
    <3> QED
      BY <1>1, <1>2, <3>1, <3>2, <3>3, <3>4, <3>5 DEF Leads
  <2>3. CASE ~Beats(w, best, requested)
    <3>1. next = best
      <4>1. next = w \/ next = best
        BY <1>2 DEF Better
      <4>2. next # w \/ w = best
        BY <1>2, <1>4, <2>3 DEF Better, Beats
      <4> QED
        BY <4>1, <4>2
    <3>2. points(w) <= points(best)
      <4>1. \A p, q \in Nat : ~(p > q) => p <= q
        OBVIOUS
      <4> QED
        BY <1>1, <2>1, <2>3, <4>1 DEF Beats
    <3> QED
      BY <1>1, <1>2, <1>4, <2>1, <2>3, <3>1, <3>2 DEF Leads, Beats
  <2> QED
    BY <2>2, <2>3
<1> QED
  BY <1>3, <1>4

\* The loop finds the one that leads, in whatever order the candidates come.
LEMMA BestLeads ==
    ASSUME NEW W, AreWindows(W), NEW requested \in Seq(Nat), NEW candidates \in Seq(W)
    PROVE  Leads(BestCandidate(candidates, requested), ToSet(candidates), requested)
<1>1. PICK n \in Nat : n = Len(candidates) /\ \A i \in 1..n : candidates[i] \in W
  OBVIOUS
<1> DEFINE V == W \cup {None}
           Turn(v, i) == Better(requested, v, candidates[i])
           step == [i \in 1..n |-> [v \in V |-> Turn(v, i)]]
           Body(b) == [i \in 0..n |-> IF i = 0 THEN None ELSE Turn(b[i - 1], i)]
           b == CHOOSE b : b = Body(b)
           past(i) == {candidates[j] : j \in 1..i}
<1>2. BestCandidate(candidates, requested) = b[n]
  BY <1>1 DEF BestCandidate
<1>3. \A v \in V, i \in 1..n : Turn(v, i) \in V
  BY <1>1 DEF Better
<1>4. ASSUME NEW v, NEW i \in Nat, i + 1 <= n, Leads(v, past(i), requested)
      PROVE  Leads(Turn(v, i + 1), past(i + 1), requested)
  <2>1. past(i) \in SUBSET W /\ candidates[i + 1] \in W
    BY <1>1, <1>4
  <2>2. past(i + 1) = past(i) \cup {candidates[i + 1]}
    <3>1. 1..(i + 1) = 1..i \cup {i + 1}
      OBVIOUS
    <3> QED
      BY <3>1
  <2> HIDE DEF past
  <2> QED
    BY <1>4, <2>1, <2>2, BetterLeads
<1> HIDE DEF Turn
<1>5. step \in [1..n -> [V -> V]] /\ None \in V
  BY <1>3
<1>6. \A v \in V, i \in 1..n : step[i][v] = Turn(v, i)
  OBVIOUS
<1> HIDE DEF step, V
<1>7. PICK r : Recursive(r, n, V, None, step)
  BY <1>5, Recursion
<1>8. r = Body(r)
  <2>1. r \in [0..n -> V] /\ r[0] = None /\ \A i \in 1..n : r[i] = step[i][r[i - 1]]
    BY <1>7 DEF Recursive
  <2>2. \A i \in 1..n : i - 1 \in 0..n
    OBVIOUS
  <2>3. \A i \in 1..n : r[i] = Turn(r[i - 1], i)
    BY <1>6, <2>1, <2>2
  <2> QED
    BY <2>1, <2>3
<1>9. b = Body(b)
  <2> HIDE DEF Body
  <2> QED
    BY <1>8
<1> HIDE DEF b
<1>10. b[0] = None /\ \A i \in 1..n : b[i] = Turn(b[i - 1], i)
  BY <1>9
<1> DEFINE T == {i \in Nat : i <= n => Leads(b[i], past(i), requested)}
<1>11. 0 \in T
  BY <1>10 DEF Leads
<1>12. ASSUME NEW i \in Nat, i \in T PROVE i + 1 \in T
  <2> SUFFICES ASSUME i + 1 <= n PROVE Leads(b[i + 1], past(i + 1), requested)
    OBVIOUS
  <2>1. i + 1 \in 1..n /\ (i + 1) - 1 = i /\ Leads(b[i], past(i), requested)
    BY <1>12
  <2> HIDE DEF past
  <2> QED
    BY <1>4, <1>10, <2>1
<1>13. Nat \subseteq T
  <2> HIDE DEF T
  <2> QED
    BY <1>11, <1>12, SetInduction
<1>14. past(n) = ToSet(candidates)
  BY <1>1 DEF ToSet
<1> HIDE DEF past
<1> QED
  BY <1>2, <1>13, <1>14

\* The empty title is a part of every title.
LEMMA WithinEmpty ==
    ASSUME NEW A, NEW title \in Seq(A) PROVE Within(<<>>, title)
<1>1. 0 \in 0..Len(title) /\ 0 + Len(<<>>) <= Len(title)
  OBVIOUS
<1>2. SubSeq(title, 0 + 1, 0 + Len(<<>>)) = <<>>
  OBVIOUS
<1> QED
  BY <1>1, <1>2 DEF Within

\* An order in which the windows come does not decide which is raised, findToplevel.
LEMMA WindowRight ==
    ASSUME NEW W, AreWindows(W), NEW windows \in Seq(W), NEW requested \in Seq(Nat)
    PROVE  RightWindow(windows, requested)
<1> DEFINE U == {w \in ToSet(windows) : Usable(w)}
           E == {w \in ToSet(windows) : w.title = requested}
           H == {w \in ToSet(windows) : Within(requested, w.title)}
           holding == {i \in DOMAIN windows :
                          Usable(windows[i]) /\ Within(requested, windows[i].title)}
           points(w) == Score(w.title, requested)
           likely == {w \in U : points(w) > 0 /\ \A v \in U : points(v) <= points(w)}
           leading == {w \in likely : \A v \in likely : ~Precedes(v.title, w.title)}
<1>1. PICK candidates \in Seq(W) : candidates = Keep(windows, U) /\ ToSet(candidates) = U
  <2>1. ToSet(windows) \cap U = U
    OBVIOUS
  <2> HIDE DEF U
  <2> QED
    BY <2>1, KeepSet
<1>2. PICK exact \in Seq(W) : exact = Keep(candidates, E) /\ ToSet(exact) = U \cap E
  <2> HIDE DEF U, E
  <2> QED
    BY <1>1, KeepSet
<1>3. PICK containing \in Seq(W) :
         containing = Keep(candidates, H) /\ ToSet(containing) = U \cap H
  <2> HIDE DEF U, H
  <2> QED
    BY <1>1, KeepSet
<1>4. Len(containing) = Cardinality(holding)
  <2>1. containing = Keep(windows, U \cap H)
    <3> HIDE DEF U, H
    <3> QED
      BY <1>1, <1>3, KeepKeep
  <2>2. holding = {i \in 1..Len(windows) : windows[i] \in U \cap H}
    <3>1. DOMAIN windows = 1..Len(windows) /\ \A i \in 1..Len(windows) : windows[i] \in ToSet(windows)
      BY DEF ToSet
    <3> QED
      BY <3>1
  <2> HIDE DEF U, H, holding
  <2> QED
    BY <2>1, <2>2, KeepCount
<1>5. requested = <<>> => U \cap H = U
  <2>1. ToSet(windows) \subseteq W
    BY DEF ToSet
  <2> QED
    BY <2>1, WithinEmpty DEF AreWindows
<1>6. requested = <<>> => Len(containing) = Len(candidates)
  <2>1. containing = Keep(windows, U \cap H)
    <3> HIDE DEF U, H
    <3> QED
      BY <1>1, <1>3, KeepKeep
  <2> HIDE DEF U, H
  <2> QED
    BY <1>1, <1>5, <2>1
<1>7. {windows[i] : i \in holding} = U \cap H
  BY DEF ToSet
<1>8. \A s \in Seq(W) : /\ s # <<>> => s[1] \in ToSet(s)
                        /\ Len(s) = 1 => s # <<>> /\ ToSet(s) = {s[1]}
                        /\ s = <<>> => ToSet(s) = {}
  BY DEF ToSet
<1> DEFINE best == BestCandidate(candidates, requested)
           chosen == FindToplevel(windows, requested)
           acceptable == Acceptable(windows, requested)
<1>9. chosen = CASE requested # <<>> /\ exact # <<>> -> exact[1]
                 [] requested # <<>> /\ exact = <<>> /\ Len(containing) = 1 -> containing[1]
                 [] requested = <<>> /\ Len(candidates) = 1 -> candidates[1]
                 [] OTHER -> best
  BY <1>1, <1>2, <1>3 DEF FindToplevel
<1>10. acceptable = IF requested # <<>> /\ \E w \in U : w.title = requested
                    THEN {w \in U : w.title = requested}
                    ELSE IF Cardinality(holding) = 1 THEN {windows[i] : i \in holding}
                    ELSE leading
  BY DEF Acceptable
<1>11. /\ U \cap E = {w \in U : w.title = requested}
       /\ U \subseteq W
  BY DEF ToSet
<1>12. Leads(best, U, requested)
  BY <1>1, BestLeads
<1>13. \A w \in U : w # None /\ w.title \in Seq(Nat) /\ points(w) \in Nat
  BY <1>11, ScoreNat DEF AreWindows
<1> HIDE DEF U, E, H, holding, best, chosen, acceptable
<1>14. SUFFICES /\ chosen = None <=> acceptable = {}
                /\ chosen # None => chosen \in acceptable
                /\ \A v, w \in acceptable : v.title = w.title
  BY DEF RightWindow, chosen, acceptable
<1>15. CASE requested # <<>> /\ exact # <<>>
  <2>1. chosen = exact[1] /\ chosen \in U \cap E
    BY <1>2, <1>8, <1>9, <1>15
  <2>2. acceptable = U \cap E
    BY <1>10, <1>11, <1>15, <2>1
  <2> QED
    BY <1>11, <1>13, <2>1, <2>2
<1>16. CASE requested # <<>> /\ exact = <<>> /\ Len(containing) = 1
  <2>1. chosen = containing[1]
    BY <1>9, <1>16
  <2>2. U \cap H = {chosen} /\ chosen # None
    BY <1>3, <1>8, <1>13, <1>16, <2>1
  <2>3. acceptable = U \cap H
    BY <1>2, <1>4, <1>7, <1>8, <1>10, <1>11, <1>16
  <2> QED
    BY <2>2, <2>3
<1>17. CASE requested = <<>> /\ Len(candidates) = 1
  <2>1. chosen = candidates[1]
    BY <1>9, <1>17
  <2>2. U = {chosen} /\ chosen # None
    BY <1>1, <1>8, <1>13, <1>17, <2>1
  <2>3. acceptable = U
    BY <1>4, <1>5, <1>6, <1>7, <1>10, <1>17
  <2> QED
    BY <2>2, <2>3
<1>18. CASE /\ ~(requested # <<>> /\ exact # <<>>)
            /\ ~(requested # <<>> /\ exact = <<>> /\ Len(containing) = 1)
            /\ ~(requested = <<>> /\ Len(candidates) = 1)
  <2>1. chosen = best
    BY <1>9, <1>18
  <2>2. acceptable = leading
    BY <1>2, <1>4, <1>6, <1>8, <1>10, <1>11, <1>18
  <2>3. ASSUME best = None PROVE leading = {}
    <3>1. \A v \in U : points(v) = 0
      BY <1>12, <2>3 DEF Leads
    <3> QED
      BY <3>1
  <2>4. ASSUME best # None PROVE best \in leading
    <3>1. /\ best \in U /\ points(best) > 0
          /\ \A v \in U : /\ points(v) <= points(best)
                          /\ points(v) = points(best) => ~Precedes(v.title, best.title)
      BY <1>12, <2>4 DEF Leads
    <3>2. best \in likely
      BY <3>1
    <3>3. \A v \in likely : points(v) = points(best)
      BY <1>13, <3>1
    <3> QED
      BY <3>1, <3>2, <3>3
  <2>5. ASSUME NEW v \in leading, NEW w \in leading PROVE v.title = w.title
    <3>1. ~Precedes(v.title, w.title) /\ ~Precedes(w.title, v.title)
      OBVIOUS
    <3>2. v.title \in Seq(Nat) /\ w.title \in Seq(Nat)
      BY <1>13
    <3> QED
      BY <3>1, <3>2, PrecedesTotal
  <2> HIDE DEF leading
  <2> QED
    BY <2>1, <2>2, <2>3, <2>4, <2>5
<1> QED
  BY <1>15, <1>16, <1>17, <1>18

-----------------------------------------------------------------------------
(* The choice of a pane.                                                   *)

\* Where the climb is after i steps: it follows the parents, and has gone as far
\* unless it has met the end, a process once more, or one that cannot be read.
Climbing(walk, i, P, parent, pid) ==
    LET s == walk.seen
        k == Len(s)
    IN /\ s \in Seq(P) /\ k <= i
       /\ k = 0 => walk.at = pid /\ ~walk.failed
       /\ \A j \in 1..k : s[j] = IF j = 1 THEN pid ELSE parent[s[j - 1]]
       /\ k > 0 => /\ walk.failed <=> parent[s[k]] = None
                   /\ walk.at = IF parent[s[k]] \in {s[k], None} THEN 0 ELSE parent[s[k]]
       /\ k < i => walk.at \in {0, 1} \/ walk.at \in ToSet(s) \/ walk.failed

LEMMA ClimbStep ==
    ASSUME NEW P, NEW parent, AreProcesses(P, parent), NEW pid \in P,
           NEW i \in Nat, NEW walk, Climbing(walk, i, P, parent, pid)
    PROVE  Climbing(Climb(parent, walk), i + 1, P, parent, pid)
<1>1. PICK s, at, up :
         s \in Seq(P) /\ s = walk.seen /\ at = walk.at /\ up = parent[at]
  BY DEF Climbing
<1>2. PICK k \in Nat : k = Len(s)
  BY <1>1
<1>3. /\ k <= i
      /\ k = 0 => at = pid /\ ~walk.failed
      /\ \A j \in 1..k : s[j] = IF j = 1 THEN pid ELSE parent[s[j - 1]]
      /\ k > 0 => /\ walk.failed <=> parent[s[k]] = None
                  /\ at = IF parent[s[k]] \in {s[k], None} THEN 0 ELSE parent[s[k]]
  BY <1>1, <1>2 DEF Climbing
<1>4. \A j \in 1..k : s[j] \in P
  BY <1>1, <1>2
<1> DEFINE stop == at \in {0, 1} \/ at \in ToSet(s) \/ walk.failed
<1>5. CASE stop
  <2>1. Climb(parent, walk) = walk
    BY <1>1, <1>5 DEF Climb
  <2>2. k <= i + 1
    BY <1>3
  <2> HIDE DEF stop
  <2> QED
    BY <1>1, <1>2, <1>3, <1>5, <2>1, <2>2 DEF Climbing, stop
<1>6. CASE ~stop
  <2>1. PICK next : next = Climb(parent, walk)
    OBVIOUS
  <2>2. /\ next.seen = Append(s, at) /\ next.failed = (up = None)
        /\ next.at = IF up \in {at, None} THEN 0 ELSE up
    BY <1>1, <1>6, <2>1 DEF Climb
  <2>3. at \in P
    <3>1. at \notin {0, 1} /\ ~walk.failed
      BY <1>6
    <3>2. CASE k = 0
      BY <1>3, <3>2
    <3>3. CASE k > 0
      BY <1>3, <1>4, <3>1, <3>3 DEF AreProcesses
    <3> QED
      BY <3>2, <3>3
  <2>4. PICK t \in Seq(P) : t = Append(s, at)
    <3>1. Append(s, at) \in Seq(P)
      BY <1>1, <2>3
    <3> HIDE DEF stop
    <3> QED
      BY <3>1
  <2>5. Len(t) = k + 1 /\ t[k + 1] = at /\ \A j \in 1..k : t[j] = s[j]
    BY <1>2, <2>4
  <2>6. k = i
    BY <1>1, <1>2, <1>3, <1>6 DEF Climbing
  <2>7. at = IF k + 1 = 1 THEN pid ELSE parent[t[k]]
    <3>1. CASE k = 0
      BY <1>3, <3>1
    <3>2. CASE k > 0
      <4>1. t[k] = s[k] /\ at = parent[s[k]]
        BY <1>3, <1>6, <2>5, <3>2
      <4> QED
        BY <3>2, <4>1
    <3> QED
      BY <3>1, <3>2
  <2>8. \A j \in 1..(k + 1) : t[j] = IF j = 1 THEN pid ELSE parent[t[j - 1]]
    <3> SUFFICES ASSUME NEW j \in 1..(k + 1)
                 PROVE  t[j] = IF j = 1 THEN pid ELSE parent[t[j - 1]]
      OBVIOUS
    <3>1. CASE j = k + 1
      <4>1. j - 1 = k
        BY <3>1
      <4> QED
        BY <2>5, <2>7, <3>1, <4>1
    <3>2. CASE j \in 2..k
      <4>1. t[j] = s[j] /\ t[j - 1] = s[j - 1] /\ s[j] = parent[s[j - 1]]
        BY <1>3, <2>5, <3>2
      <4> QED
        BY <3>2, <4>1
    <3>3. CASE j = 1 /\ j \in 1..k
      BY <1>3, <2>5, <3>3
    <3> QED
      BY <3>1, <3>2, <3>3
  <2> HIDE DEF stop
  <2>9. Climbing(next, i + 1, P, parent, pid)
    <3>1. next.seen = t /\ Len(t) = i + 1 /\ t[i + 1] = at
      BY <2>2, <2>4, <2>5, <2>6
    <3>2. next.failed <=> parent[t[i + 1]] = None
      BY <1>1, <2>2, <3>1
    <3>3. next.at = IF parent[t[i + 1]] \in {t[i + 1], None} THEN 0 ELSE parent[t[i + 1]]
      BY <1>1, <2>2, <3>1
    <3>4. \A j \in 1..(i + 1) : t[j] = IF j = 1 THEN pid ELSE parent[t[j - 1]]
      BY <2>6, <2>8
    <3>5. i + 1 <= i + 1 /\ i + 1 # 0 /\ ~(i + 1 < i + 1)
      OBVIOUS
    <3> QED
      BY ONLY <2>4, <3>1, <3>2, <3>3, <3>4, <3>5 DEF Climbing
  <2> QED
    BY <2>1, <2>9
<1> QED
  BY <1>5, <1>6

\* The climb that resolvePane makes.
LEMMA AncestorsClimb ==
    ASSUME NEW P, NEW parent, AreProcesses(P, parent), NEW pid \in P, MaxDepth \in Nat
    PROVE  Climbing(Ancestors(pid, parent), MaxDepth, P, parent, pid)
<1> DEFINE V == [seen : Seq(P), failed : BOOLEAN, at : P \cup {0, 1}]
           start == [seen |-> <<>>, at |-> pid, failed |-> FALSE]
           Body(b) == [i \in 0..MaxDepth |-> IF i = 0 THEN start ELSE Climb(parent, b[i - 1])]
           b == CHOOSE b : b = Body(b)
           step == [i \in 1..MaxDepth |-> [w \in V |-> Climb(parent, w)]]
<1>1. Ancestors(pid, parent) = b[MaxDepth]
  BY DEF Ancestors
<1>2. start \in V
  <2>1. <<>> \in Seq(P)
    OBVIOUS
  <2> QED
    BY <2>1
<1>3. \A w \in V : Climb(parent, w) \in V
  <2> SUFFICES ASSUME NEW w \in V PROVE Climb(parent, w) \in V
    OBVIOUS
  <2>1. w.seen \in Seq(P) /\ w.failed \in BOOLEAN /\ w.at \in P \cup {0, 1}
    OBVIOUS
  <2>2. CASE w.at \in {0, 1} \/ w.at \in ToSet(w.seen) \/ w.failed
    BY <2>2 DEF Climb
  <2>3. CASE ~(w.at \in {0, 1} \/ w.at \in ToSet(w.seen) \/ w.failed)
    <3>1. w.at \in P /\ parent[w.at] \in P \cup {0, 1, None}
      BY <2>1, <2>3 DEF AreProcesses
    <3>2. PICK t \in Seq(P), f \in BOOLEAN, a \in P \cup {0, 1} :
             /\ t = Append(w.seen, w.at) /\ f = (parent[w.at] = None)
             /\ a = IF parent[w.at] \in {w.at, None} THEN 0 ELSE parent[w.at]
      <4>1. Append(w.seen, w.at) \in Seq(P)
        BY <2>1, <3>1
      <4> QED
        BY <3>1, <4>1
    <3>3. Climb(parent, w) = [seen |-> t, failed |-> f, at |-> a]
      BY <2>3, <3>2 DEF Climb
    <3> QED
      BY <3>3
  <2> QED
    BY <2>2, <2>3
<1>4. \A w \in V, i \in 1..MaxDepth : step[i][w] = Climb(parent, w)
  OBVIOUS
<1>5. step \in [1..MaxDepth -> [V -> V]]
  BY <1>3
<1>6. Climbing(start, 0, P, parent, pid)
  <2>1. <<>> \in Seq(P) /\ Len(<<>>) = 0
    OBVIOUS
  <2> QED
    BY <2>1 DEF Climbing
<1> HIDE DEF V, start, step
<1>7. PICK r : Recursive(r, MaxDepth, V, start, step)
  BY <1>2, <1>5, Recursion
<1>8. r = Body(r)
  <2>1. /\ r \in [0..MaxDepth -> V] /\ r[0] = start
        /\ \A i \in 1..MaxDepth : r[i] = step[i][r[i - 1]]
    BY <1>7 DEF Recursive
  <2>2. \A i \in 1..MaxDepth : i - 1 \in 0..MaxDepth
    OBVIOUS
  <2>3. \A i \in 1..MaxDepth : r[i] = Climb(parent, r[i - 1])
    BY <1>4, <2>1, <2>2
  <2> QED
    BY <2>1, <2>3
<1>9. b = Body(b)
  <2> HIDE DEF Body
  <2> QED
    BY <1>8
<1> HIDE DEF b
<1>10. b[0] = start /\ \A i \in 1..MaxDepth : b[i] = Climb(parent, b[i - 1])
  BY <1>9
<1> DEFINE T == {i \in Nat : i <= MaxDepth => Climbing(b[i], i, P, parent, pid)}
<1>11. 0 \in T
  BY <1>6, <1>10
<1>12. ASSUME NEW i \in Nat, i \in T PROVE i + 1 \in T
  <2> SUFFICES ASSUME i + 1 <= MaxDepth PROVE Climbing(b[i + 1], i + 1, P, parent, pid)
    OBVIOUS
  <2>1. /\ i + 1 \in 1..MaxDepth /\ (i + 1) - 1 = i
        /\ Climbing(b[i], i, P, parent, pid)
    BY <1>12
  <2>2. b[i + 1] = Climb(parent, b[i])
    BY <1>10, <2>1
  <2> QED
    BY <2>1, <2>2, ClimbStep
<1>13. Nat \subseteq T
  <2> HIDE DEF T
  <2> QED
    BY <1>11, <1>12, SetInduction
<1> QED
  BY <1>1, <1>13

\* A place in a list that Depth finds, which is the first.
LEMMA DepthFirst ==
    ASSUME NEW P, NEW seen \in Seq(P), NEW pane, pane.pid \in ToSet(seen)
    PROVE  /\ Depth(seen, pane) \in 1..Len(seen)
           /\ seen[Depth(seen, pane)] = pane.pid
           /\ \A l \in 1..Len(seen) : seen[l] = pane.pid => Depth(seen, pane) <= l
<1> DEFINE I == {i \in 1..Len(seen) : seen[i] = pane.pid}
<1>1. I # {}
  BY DEF ToSet
<1>2. Depth(seen, pane) = Min(I)
  BY <1>1 DEF Depth, SelectInSeq
<1>3. Len(seen) \in Nat /\ I \in SUBSET (1..Len(seen))
  OBVIOUS
<1>4. Min(I) \in I /\ \A i \in I : Min(I) <= i
  <2> HIDE DEF I
  <2> QED
    BY <1>1, <1>3, IndexFound
<1> QED
  BY <1>2, <1>4

\* best is, of the panes in past, one of an ancestor that is not further than others.
Nears(best, past, seen) ==
    /\ best = None => \A q \in past : q.pid \notin ToSet(seen)
    /\ best # None =>
          /\ best \in past /\ best.pid \in ToSet(seen)
          /\ \A q \in past : q.pid \in ToSet(seen) => Depth(seen, best) <= Depth(seen, q)

\* One turn of the loop.
LEMMA NearerNears ==
    ASSUME NEW P, NEW seen \in Seq(P), NEW past, NEW best, Nears(best, past, seen),
           NEW pane, pane # None
    PROVE  Nears(Nearer(seen, best, pane), past \cup {pane}, seen)
<1>1. \A q \in past \cup {pane} : q.pid \in ToSet(seen) => Depth(seen, q) \in Nat
  BY DepthFirst
<1>2. CASE pane.pid \notin ToSet(seen)
  <2>1. Nearer(seen, best, pane) = best
    BY <1>2 DEF Nearer
  <2> QED
    BY <1>2, <2>1 DEF Nears
<1>3. CASE pane.pid \in ToSet(seen) /\ best = None
  <2>1. Nearer(seen, best, pane) = pane
    BY <1>3 DEF Nearer
  <2> QED
    BY <1>1, <1>3, <2>1 DEF Nears
<1>4. CASE pane.pid \in ToSet(seen) /\ best # None
  <2>1. /\ best \in past /\ best.pid \in ToSet(seen)
        /\ \A q \in past : q.pid \in ToSet(seen) => Depth(seen, best) <= Depth(seen, q)
    BY <1>4 DEF Nears
  <2>2. CASE Depth(seen, pane) < Depth(seen, best)
    <3>1. Nearer(seen, best, pane) = pane
      BY <1>4, <2>2 DEF Nearer
    <3>2. \A q \in past \cup {pane} :
             q.pid \in ToSet(seen) => Depth(seen, pane) <= Depth(seen, q)
      BY <1>1, <1>4, <2>1, <2>2
    <3> QED
      BY <1>4, <3>1, <3>2 DEF Nears
  <2>3. CASE ~(Depth(seen, pane) < Depth(seen, best))
    <3>1. Nearer(seen, best, pane) = best
      BY <1>4, <2>3 DEF Nearer
    <3>2. Depth(seen, best) <= Depth(seen, pane)
      BY <1>1, <1>4, <2>1, <2>3
    <3> QED
      BY <1>4, <2>1, <3>1, <3>2 DEF Nears
  <2> QED
    BY <2>2, <2>3
<1> QED
  BY <1>2, <1>3, <1>4

\* The loop finds the nearest, in whatever order the panes come.
LEMMA NearestNears ==
    ASSUME NEW P, NEW seen \in Seq(P), NEW Q, None \notin Q, NEW panes \in Seq(Q)
    PROVE  Nears(Nearest(seen, panes), ToSet(panes), seen)
<1>1. PICK n \in Nat : n = Len(panes) /\ \A i \in 1..n : panes[i] \in Q
  OBVIOUS
<1> DEFINE V == Q \cup {None}
           Turn(v, i) == Nearer(seen, v, panes[i])
           step == [i \in 1..n |-> [v \in V |-> Turn(v, i)]]
           Body(b) == [i \in 0..n |-> IF i = 0 THEN None ELSE Turn(b[i - 1], i)]
           b == CHOOSE b : b = Body(b)
           past(i) == {panes[j] : j \in 1..i}
<1>2. Nearest(seen, panes) = b[n]
  BY <1>1 DEF Nearest
<1>3. \A v \in V, i \in 1..n : Turn(v, i) \in V
  BY <1>1 DEF Nearer
<1>4. ASSUME NEW v, NEW i \in Nat, i + 1 <= n, Nears(v, past(i), seen)
      PROVE  Nears(Turn(v, i + 1), past(i + 1), seen)
  <2>1. panes[i + 1] # None
    BY <1>1, <1>4
  <2>2. past(i + 1) = past(i) \cup {panes[i + 1]}
    <3>1. 1..(i + 1) = 1..i \cup {i + 1}
      OBVIOUS
    <3> QED
      BY <3>1
  <2> HIDE DEF past
  <2> QED
    BY <1>4, <2>1, <2>2, NearerNears
<1> HIDE DEF Turn
<1>5. step \in [1..n -> [V -> V]] /\ None \in V
  BY <1>3
<1>6. \A v \in V, i \in 1..n : step[i][v] = Turn(v, i)
  OBVIOUS
<1> HIDE DEF step, V
<1>7. PICK r : Recursive(r, n, V, None, step)
  BY <1>5, Recursion
<1>8. r = Body(r)
  <2>1. r \in [0..n -> V] /\ r[0] = None /\ \A i \in 1..n : r[i] = step[i][r[i - 1]]
    BY <1>7 DEF Recursive
  <2>2. \A i \in 1..n : i - 1 \in 0..n
    OBVIOUS
  <2>3. \A i \in 1..n : r[i] = Turn(r[i - 1], i)
    BY <1>6, <2>1, <2>2
  <2> QED
    BY <2>1, <2>3
<1>9. b = Body(b)
  <2> HIDE DEF Body
  <2> QED
    BY <1>8
<1> HIDE DEF b
<1>10. b[0] = None /\ \A i \in 1..n : b[i] = Turn(b[i - 1], i)
  BY <1>9
<1> DEFINE T == {i \in Nat : i <= n => Nears(b[i], past(i), seen)}
<1>11. 0 \in T
  BY <1>10 DEF Nears
<1>12. ASSUME NEW i \in Nat, i \in T PROVE i + 1 \in T
  <2> SUFFICES ASSUME i + 1 <= n PROVE Nears(b[i + 1], past(i + 1), seen)
    OBVIOUS
  <2>1. i + 1 \in 1..n /\ (i + 1) - 1 = i /\ Nears(b[i], past(i), seen)
    BY <1>12
  <2> HIDE DEF past
  <2> QED
    BY <1>4, <1>10, <2>1
<1>13. Nat \subseteq T
  <2> HIDE DEF T
  <2> QED
    BY <1>11, <1>12, SetInduction
<1>14. past(n) = ToSet(panes)
  BY <1>1 DEF ToSet
<1> HIDE DEF past
<1> QED
  BY <1>2, <1>13, <1>14

\* A line of n generations, from pid upwards.
Descends(path, n, P, parent, pid) ==
    /\ path \in [1..n -> P] /\ path[1] = pid
    /\ \A i \in 1..(n - 1) : path[i + 1] = parent[path[i]]

\* Where a climb that has not failed has been, it has been as early as can be; and it
\* has been wherever a line of descent leads.
LEMMA ClimbReaches ==
    ASSUME NEW P, NEW parent, AreProcesses(P, parent), NEW pid \in P, MaxDepth \in Nat,
           NEW walk, Climbing(walk, MaxDepth, P, parent, pid), ~walk.failed,
           NEW n \in 1..MaxDepth, NEW path, Descends(path, n, P, parent, pid)
    PROVE  \E l \in 1..Len(walk.seen) : l <= n /\ walk.seen[l] = path[n]
<1>1. PICK s \in Seq(P), k \in Nat : s = walk.seen /\ k = Len(s)
  BY DEF Climbing
<1>2. /\ k <= MaxDepth
      /\ k = 0 => walk.at = pid
      /\ \A j \in 1..k : s[j] = IF j = 1 THEN pid ELSE parent[s[j - 1]]
      /\ k > 0 => /\ parent[s[k]] # None
                  /\ walk.at = IF parent[s[k]] \in {s[k], None} THEN 0 ELSE parent[s[k]]
      /\ k < MaxDepth => walk.at \in {0, 1} \/ walk.at \in ToSet(s)
  BY <1>1 DEF Climbing
<1>3. ToSet(s) = {s[l] : l \in 1..k}
  BY <1>1 DEF ToSet
<1>4. k > 0
  <2> SUFFICES ASSUME k = 0 PROVE FALSE
    BY <1>1
  <2>1. walk.at = pid /\ k < MaxDepth /\ ToSet(s) = {}
    BY <1>2, <1>3
  <2> QED
    BY <1>2, <2>1 DEF AreProcesses
<1> DEFINE T == {m \in Nat : m + 1 <= n => \E l \in 1..k : l <= m + 1 /\ s[l] = path[m + 1]}
<1>5. 0 \in T
  <2>1. 1 \in 1..k /\ s[1] = path[0 + 1] /\ 1 <= 0 + 1
    BY <1>1, <1>2, <1>4 DEF Descends
  <2> QED
    BY <2>1
<1>6. ASSUME NEW m \in Nat, m \in T PROVE m + 1 \in T
  <2> SUFFICES ASSUME m + 2 <= n PROVE \E l \in 1..k : l <= m + 2 /\ s[l] = path[m + 2]
    <3>1. (m + 1) + 1 = m + 2
      OBVIOUS
    <3> QED
      BY <3>1
  <2>1. PICK l \in 1..k : l <= m + 1 /\ s[l] = path[m + 1]
    BY <1>6
  <2>2. path[m + 2] = parent[s[l]] /\ path[m + 2] \in P
    <3>1. m + 1 \in 1..(n - 1) /\ (m + 1) + 1 = m + 2 /\ m + 2 \in 1..n
      OBVIOUS
    <3> QED
      BY <2>1, <3>1 DEF Descends
  <2>3. CASE l < k
    <3>1. l + 1 \in 1..k /\ l + 1 # 1 /\ (l + 1) - 1 = l /\ l + 1 <= m + 2
      BY <1>1, <2>1, <2>3
    <3>2. s[l + 1] = parent[s[l]]
      BY <1>2, <3>1
    <3> QED
      BY <2>2, <3>1, <3>2
  <2>4. CASE l = k
    <3>1. CASE parent[s[k]] = s[k]
      <4>1. s[l] = path[m + 2] /\ l <= m + 2
        BY <2>1, <2>2, <2>4, <3>1
      <4> QED
        BY <4>1
    <3>2. CASE parent[s[k]] # s[k]
      <4>1. walk.at = path[m + 2] /\ walk.at \in P
        BY <1>2, <1>4, <2>2, <2>4, <3>2
      <4>2. k < MaxDepth
        BY <1>1, <2>1, <2>4
      <4>3. walk.at \in ToSet(s)
        BY <1>2, <4>1, <4>2 DEF AreProcesses
      <4>4. PICK j \in 1..k : s[j] = path[m + 2]
        BY <1>3, <4>1, <4>3
      <4>5. j <= m + 2
        BY <1>1, <2>1, <2>4
      <4> QED
        BY <4>4, <4>5
    <3> QED
      BY <3>1, <3>2
  <2> QED
    BY <1>1, <2>3, <2>4
<1>7. Nat \subseteq T
  <2> HIDE DEF T
  <2> QED
    BY <1>5, <1>6, SetInduction
<1>8. n - 1 \in Nat /\ (n - 1) + 1 = n
  OBVIOUS
<1>9. n - 1 \in T
  BY <1>7, <1>8
<1> QED
  BY <1>1, <1>8, <1>9

\* The pane is that of the nearest ancestor that runs in one, resolvePane.
LEMMA PaneRight ==
    ASSUME NEW P, NEW parent, AreProcesses(P, parent), NEW pid \in P, ToplevelAssumption,
           NEW Q, None \notin Q, NEW panes \in Seq(Q)
    PROVE  RightPane(pid, parent, panes)
<1>1. PICK walk : walk = Ancestors(pid, parent) /\ Climbing(walk, MaxDepth, P, parent, pid)
  BY AncestorsClimb DEF ToplevelAssumption
<1>2. PICK seen \in Seq(P), k \in Nat : seen = walk.seen /\ k = Len(seen) /\ k <= MaxDepth
  BY <1>1 DEF Climbing
<1>3. PICK best : best = Nearest(seen, panes) /\ Nears(best, ToSet(panes), seen)
  BY NearestNears
<1>4. ResolvePane(pid, parent, panes) = IF walk.failed THEN None ELSE best
  BY <1>1, <1>2, <1>3 DEF ResolvePane
<1> DEFINE far(p) == Generations(pid, parent, p)
           distances == UNION {far(q.pid) : q \in ToSet(panes)}
<1>5. CASE walk.failed
  BY <1>1, <1>4, <1>5 DEF RightPane
<1>6. CASE ~walk.failed
  <2>1. MaxDepth \in Nat /\ DOMAIN parent = P
    BY DEF ToplevelAssumption, AreProcesses
  <2>2. \A p : far(p) \subseteq 1..MaxDepth
    BY DEF Generations
  <2>3. ASSUME NEW p, NEW n \in far(p) PROVE \E l \in 1..k : l <= n /\ seen[l] = p
    <3>1. PICK path \in [1..n -> P] :
             /\ path[1] = pid /\ path[n] = p
             /\ \A i \in 1..n - 1 : path[i + 1] = parent[path[i]]
      BY <2>1, <2>3 DEF Generations
    <3>2. n \in 1..MaxDepth
      BY <2>2
    <3>3. \E l \in 1..Len(walk.seen) : l <= n /\ walk.seen[l] = path[n]
      <4>1. n \in 1..MaxDepth /\ MaxDepth \in Nat
        BY <2>1, <3>2
      <4>2. Climbing(walk, MaxDepth, P, parent, pid) /\ ~walk.failed
        BY <1>1, <1>6
      <4>3. Descends(path, n, P, parent, pid)
        BY <3>1 DEF Descends
      <4> HIDE DEF far, distances
      <4> QED
        BY ONLY AreProcesses(P, parent), pid \in P, <4>1, <4>2, <4>3, ClimbReaches
    <3> QED
      BY <1>2, <3>1, <3>3
  <2>4. ASSUME NEW l \in 1..k PROVE l \in far(seen[l])
    <3>1. l \in 1..MaxDepth /\ 1 \in 1..l /\ l \in 1..l
      BY <1>2, <2>1
    <3>2. PICK path \in [1..l -> P] : path = [j \in 1..l |-> seen[j]]
      <4>1. \A j \in 1..l : seen[j] \in P
        BY <1>2
      <4>2. [j \in 1..l |-> seen[j]] \in [1..l -> P]
        BY <4>1
      <4> QED
        BY <4>2
    <3>3. \A j \in 1..k : seen[j] = IF j = 1 THEN pid ELSE parent[seen[j - 1]]
      BY <1>1, <1>2 DEF Climbing
    <3>4. seen[1] = pid
      <4>1. 1 \in 1..k
        BY <1>2, <3>1
      <4> QED
        BY <3>3, <4>1
    <3>5. path[1] = pid /\ path[l] = seen[l]
      BY <3>1, <3>2, <3>4
    <3>6. ASSUME NEW j \in 1..l - 1 PROVE path[j + 1] = parent[path[j]]
      <4>1. j + 1 \in 1..k /\ j + 1 # 1 /\ (j + 1) - 1 = j /\ j \in 1..l /\ j + 1 \in 1..l
        BY <1>2
      <4> QED
        BY <3>2, <3>3, <4>1
    <3> QED
      BY <2>1, <3>1, <3>5, <3>6 DEF Generations
  <2> HIDE DEF far
  <2>5. ASSUME best = None PROVE distances = {}
    <3> SUFFICES ASSUME NEW q \in ToSet(panes), NEW n \in far(q.pid) PROVE FALSE
      OBVIOUS
    <3>1. q.pid \in ToSet(seen)
      BY <1>2, <2>3 DEF ToSet
    <3> QED
      BY <1>3, <2>5, <3>1 DEF Nears
  <2>6. ASSUME best # None
        PROVE  distances # {} /\ Min(distances) \in far(best.pid)
    <3>1. PICK d \in 1..k : d = Depth(seen, best) /\ seen[d] = best.pid
      BY <1>2, <1>3, <2>6, DepthFirst DEF Nears
    <3>2. d \in far(best.pid) /\ d \in distances
      BY <1>3, <2>4, <2>6, <3>1 DEF Nears
    <3>3. ASSUME NEW n \in distances PROVE d <= n
      <4>1. PICK q \in ToSet(panes) : n \in far(q.pid)
        OBVIOUS
      <4>2. PICK l \in 1..k : l <= n /\ seen[l] = q.pid
        BY <2>3, <4>1
      <4>3. q.pid \in ToSet(seen)
        BY <1>2, <4>2 DEF ToSet
      <4>4. Depth(seen, q) <= l /\ Depth(seen, q) \in 1..k
        BY <1>2, <4>2, <4>3, DepthFirst
      <4>5. d <= Depth(seen, q)
        BY <1>3, <2>6, <3>1, <4>3 DEF Nears
      <4>6. n \in 1..MaxDepth
        BY <2>2, <4>1
      <4> QED
        BY <1>2, <2>1, <4>2, <4>4, <4>5, <4>6
    <3>4. distances \subseteq Nat
      BY <2>1, <2>2
    <3> HIDE DEF distances
    <3>5. Min(distances) = d
      <4>1. \A x \in distances : (\A y \in distances : x <= y) => x = d
        BY <3>2, <3>3, <3>4
      <4> QED
        BY <3>2, <3>3, <4>1 DEF Min
    <3> QED
      BY <3>2, <3>5
  <2>7. ~Ancestors(pid, parent).failed
    BY <1>1, <1>6
  <2>8. RightPane(pid, parent, panes) <=>
          IF distances = {} THEN best = None
          ELSE best # None /\ Min(distances) \in far(best.pid)
    BY <1>4, <1>6, <2>7 DEF RightPane, far
  <2> HIDE DEF distances
  <2> QED
    BY <2>5, <2>6, <2>8
<1> QED
  BY <1>5, <1>6

-----------------------------------------------------------------------------
(* The hook files.                                                         *)

\* Nothing passes of what has nothing that is asked for, and all of what has nothing else.
LEMMA KeepNone ==
    ASSUME NEW A, NEW s \in Seq(A), NEW S, ToSet(s) \cap S = {}
    PROVE  Keep(s, S) = <<>>
<1>1. PICK k \in Seq(A) : k = Keep(s, S) /\ ToSet(k) = {}
  BY KeepSet
<1>2. k # <<>> => k[1] \in ToSet(k)
  BY DEF ToSet
<1> QED
  BY <1>1, <1>2

LEMMA KeepTwice ==
    ASSUME NEW A, NEW s \in Seq(A), NEW S
    PROVE  Keep(Keep(s, S), S) = Keep(s, S)
<1>1. Keep(Keep(s, S), S) = Keep(s, S \cap S)
  BY KeepKeep
<1>2. S \cap S = S
  OBVIOUS
<1> QED
  BY <1>1, <1>2

LEMMA KeepSingle ==
    ASSUME NEW A, NEW x \in A, NEW S
    PROVE  Keep(<<x>>, S) = IF x \in S THEN <<x>> ELSE <<>>
<1>1. PICK e \in Seq(A) : e = <<>> /\ Append(e, x) = <<x>>
  <2>1. <<>> \in Seq(A)
    OBVIOUS
  <2>2. Append(<<>>, x) = <<x>>
    OBVIOUS
  <2> QED
    BY <2>1, <2>2
<1>2. Keep(Append(e, x), S) = IF x \in S THEN Append(Keep(e, S), x) ELSE Keep(e, S)
  BY OneMore
<1>3. Keep(e, S) = e
  BY <1>1, KeepEmpty
<1> QED
  BY <1>1, <1>2, <1>3

\* Empty lists one after the other are empty.
LEMMA FlattenNothing ==
    ASSUME NEW A
    PROVE  \A ss \in Seq(Seq(A)) : (\A i \in 1..Len(ss) : ss[i] = <<>>) => FlattenSeq(ss) = <<>>
<1> DEFINE Void(ss) == \A i \in 1..Len(ss) : ss[i] = <<>>
           T == {ss \in Seq(Seq(A)) : Void(ss) => FlattenSeq(ss) = <<>>}
<1>1. <<>> \in T
  BY FlattenEmpty
<1>2. ASSUME NEW ss \in Seq(Seq(A)), NEW x \in Seq(A), ss \in T PROVE Append(ss, x) \in T
  <2>1. /\ Append(ss, x) \in Seq(Seq(A)) /\ Len(ss) \in Nat
        /\ Len(Append(ss, x)) = Len(ss) + 1 /\ Append(ss, x)[Len(ss) + 1] = x
        /\ \A i \in 1..Len(ss) : Append(ss, x)[i] = ss[i]
    OBVIOUS
  <2>2. ASSUME Void(Append(ss, x)) PROVE Void(ss) /\ x = <<>>
    BY <2>1, <2>2
  <2>3. FlattenSeq(Append(ss, x)) = FlattenSeq(ss) \o x
    BY FlattenAppend
  <2>4. <<>> \o <<>> = <<>>
    OBVIOUS
  <2> HIDE DEF Void
  <2> QED
    BY <1>2, <2>1, <2>2, <2>3, <2>4
<1>3. Seq(Seq(A)) \subseteq T
  <2> HIDE DEF T
  <2> QED
    BY <1>1, <1>2, ListInduction
<1> QED
  BY <1>3

\* All lists but one are empty, and that one has one element.
Lonely(ss, j) ==
    /\ j \in 1..Len(ss) /\ Len(ss[j]) = 1
    /\ \A i \in 1..Len(ss) : i # j => ss[i] = <<>>

LEMMA FlattenLonely ==
    ASSUME NEW A
    PROVE  \A ss \in Seq(Seq(A)) : (\E j : Lonely(ss, j)) => Len(FlattenSeq(ss)) = 1
<1> DEFINE T == {ss \in Seq(Seq(A)) : (\E j : Lonely(ss, j)) => Len(FlattenSeq(ss)) = 1}
<1>1. <<>> \in T
  BY DEF Lonely
<1>2. ASSUME NEW ss \in Seq(Seq(A)), NEW x \in Seq(A), ss \in T PROVE Append(ss, x) \in T
  <2>1. PICK n \in Nat : n = Len(ss)
    OBVIOUS
  <2>2. PICK tt \in Seq(Seq(A)) :
           /\ tt = Append(ss, x) /\ Len(tt) = n + 1 /\ tt[n + 1] = x
           /\ \A i \in 1..n : tt[i] = ss[i]
    <3>1. /\ Append(ss, x) \in Seq(Seq(A)) /\ Len(Append(ss, x)) = n + 1
          /\ Append(ss, x)[n + 1] = x /\ \A i \in 1..n : Append(ss, x)[i] = ss[i]
      BY <2>1
    <3> HIDE DEF T
    <3> QED
      BY <3>1
  <2>3. PICK f \in Seq(A) : f = FlattenSeq(ss)
    BY FlattenAppend
  <2>4. FlattenSeq(tt) = f \o x
    BY <2>2, <2>3, FlattenAppend
  <2>5. ASSUME NEW j, Lonely(tt, j) PROVE Len(f \o x) = 1
    <3>1. j \in 1..(n + 1) /\ Len(tt[j]) = 1 /\ \A i \in 1..(n + 1) : i # j => tt[i] = <<>>
      BY <2>2, <2>5 DEF Lonely
    <3>2. CASE j = n + 1
      <4>1. \A i \in 1..n : ss[i] = <<>>
        BY <2>2, <3>1, <3>2
      <4>2. f = <<>>
        BY <2>1, <2>3, <4>1, FlattenNothing
      <4>3. Len(x) = 1 /\ f \o x = x
        BY <2>2, <3>1, <3>2, <4>2
      <4> QED
        BY <4>3
    <3>3. CASE j \in 1..n
      <4>1. Lonely(ss, j)
        BY <2>1, <2>2, <3>1, <3>3 DEF Lonely
      <4>2. x = <<>>
        <5>1. n + 1 \in 1..(n + 1) /\ n + 1 # j
          BY <3>3
        <5> QED
          BY <2>2, <3>1, <5>1
      <4>3. Len(f) = 1 /\ f \o x = f
        BY <1>2, <2>3, <4>1, <4>2
      <4> QED
        BY <4>3
    <3> QED
      BY <3>1, <3>2, <3>3
  <2> QED
    BY <2>2, <2>4, <2>5
<1>3. Seq(Seq(A)) \subseteq T
  <2> HIDE DEF T
  <2> QED
    BY <1>1, <1>2, ListInduction
<1> QED
  BY <1>3

Others == Texts \ Managed

\* The matchers that hold a hook of way-island.
Holding(m) == {i \in DOMAIN m : \E h \in Managed : Contains(m[i], h)}

\* What is left of the matchers when their hooks of way-island are taken away.
LEMMA OthersLists ==
    ASSUME NEW m \in Matchers, NEW o, o = [i \in DOMAIN m |-> OthersOf(m[i])]
    PROVE  /\ o \in Matchers /\ Len(o) = Len(m)
           /\ \A i \in 1..Len(m) : Keep(o[i], Others) = o[i] /\ Keep(o[i], Managed) = <<>>
           /\ FlattenSeq(o) \in Seq(Texts)
           /\ FlattenSeq(o) = Keep(FlattenSeq(m), Others)
           /\ Keep(FlattenSeq(o), Others) = FlattenSeq(o)
           /\ Keep(FlattenSeq(o), Managed) = <<>>
<1>1. PICK n \in Nat : n = Len(m) /\ DOMAIN m = 1..n
  BY DEF Matchers
<1>2. o = KeepAll(m, Others)
  BY <1>1 DEF KeepAll, OthersOf, Others
<1>3. o \in Seq(Seq(Texts)) /\ Len(o) = n /\ \A i \in 1..n : o[i] = Keep(m[i], Others)
  <2>1. m \in Seq(Seq(Texts))
    BY DEF Matchers
  <2> QED
    <3>1. /\ KeepAll(m, Others) \in Seq(Seq(Texts)) /\ Len(KeepAll(m, Others)) = Len(m)
          /\ \A i \in 1..Len(m) : KeepAll(m, Others)[i] = Keep(m[i], Others)
      BY <2>1, KeepAllType
    <3> QED
      BY <1>1, <1>2, <3>1
<1>4. \A i \in 1..n : m[i] \in Seq(Texts)
  BY <1>1 DEF Matchers
<1>5. \A s \in Seq(Texts) : /\ Keep(Keep(s, Others), Others) = Keep(s, Others)
                             /\ Keep(Keep(s, Others), Managed) = <<>>
  <2> TAKE s \in Seq(Texts)
  <2>1. PICK k \in Seq(Texts) : k = Keep(s, Others) /\ ToSet(k) = ToSet(s) \cap Others
    BY KeepSet
  <2>2. ToSet(k) \cap Managed = {}
    BY <2>1 DEF Others
  <2>3. Keep(k, Managed) = <<>>
    BY <2>2, KeepNone
  <2> QED
    BY <2>1, <2>3, KeepTwice
<1>6. \A i \in 1..n : Keep(o[i], Others) = o[i] /\ Keep(o[i], Managed) = <<>>
  BY <1>3, <1>4, <1>5
<1>7. FlattenSeq(m) \in Seq(Texts) /\ FlattenSeq(o) = Keep(FlattenSeq(m), Others)
  BY <1>2, KeepFlatten DEF Matchers
<1>8. FlattenSeq(o) \in Seq(Texts)
  BY <1>3, KeepFlatten
<1> QED
  BY <1>1, <1>3, <1>5, <1>6, <1>7, <1>8 DEF Matchers

\* What is promised of the hooks that are written.
Ensured(m, r) ==
    /\ r \in Matchers
    /\ Keep(FlattenSeq(r), Others) = Keep(FlattenSeq(m), Others)
    /\ Len(Keep(FlattenSeq(r), Managed)) = 1
    /\ Len(r) = IF Holding(m) = {} THEN Len(m) + 1 ELSE Len(m)

\* ensureClaudeHookEntry and ensureCodexHookEntry.
LEMMA EnsureEnsures ==
    ASSUME HookAssumption, NEW m \in Matchers, NEW c \in Managed
    PROVE  Ensured(m, EnsureHookEntry(m, c))
<1>1. PICK o : o = [i \in DOMAIN m |-> OthersOf(m[i])]
  OBVIOUS
<1>2. /\ o \in Matchers /\ Len(o) = Len(m)
      /\ \A i \in 1..Len(m) : Keep(o[i], Others) = o[i] /\ Keep(o[i], Managed) = <<>>
      /\ FlattenSeq(o) \in Seq(Texts)
      /\ FlattenSeq(o) = Keep(FlattenSeq(m), Others)
      /\ Keep(FlattenSeq(o), Others) = FlattenSeq(o)
      /\ Keep(FlattenSeq(o), Managed) = <<>>
  BY <1>1, OthersLists
<1>3. PICK n \in Nat : n = Len(m) /\ DOMAIN m = 1..n
  BY DEF Matchers
<1>4. c \in Texts /\ c \notin Others /\ <<c>> \in Seq(Texts)
  <2>1. c \in Texts
    BY DEF HookAssumption
  <2>2. c \notin Others
    BY DEF Others
  <2> QED
    BY <2>1, <2>2
<1>5. PICK r : r = EnsureHookEntry(m, c)
  OBVIOUS
<1>6. r = IF Holding(m) = {} THEN Append(o, <<c>>)
          ELSE [o EXCEPT ![Min(Holding(m))] = Append(@, c)]
  BY <1>1, <1>5 DEF EnsureHookEntry, Holding
<1>7. CASE Holding(m) = {}
  <2>1. r = Append(o, <<c>>) /\ r \in Matchers /\ Len(r) = n + 1
    <3>1. r = Append(o, <<c>>)
      BY <1>6, <1>7
    <3>2. o \in Seq(Seq(Texts)) /\ Len(o) = n
      BY <1>2, <1>3 DEF Matchers
    <3>3. Append(o, <<c>>) \in Seq(Seq(Texts)) /\ Len(Append(o, <<c>>)) = n + 1
      BY <1>4, <3>2
    <3> QED
      BY <3>1, <3>3 DEF Matchers
  <2>2. FlattenSeq(r) = FlattenSeq(o) \o <<c>>
    BY <1>2, <1>4, <2>1, FlattenAppend DEF Matchers
  <2>3. PICK f \in Seq(Texts) : f = FlattenSeq(o)
    BY <1>2
  <2>4. \A S : Keep(f \o <<c>>, S) = Keep(f, S) \o Keep(<<c>>, S)
    BY <1>4, KeepConcat
  <2>5. Keep(<<c>>, Others) = <<>> /\ Keep(<<c>>, Managed) = <<c>>
    BY <1>4, KeepSingle
  <2>6. f \o <<>> = f /\ <<>> \o <<c>> = <<c>> /\ Len(<<c>>) = 1
    OBVIOUS
  <2>7. Keep(FlattenSeq(r), Others) = f
    BY <1>2, <2>2, <2>3, <2>4, <2>5, <2>6
  <2>8. Keep(FlattenSeq(r), Managed) = <<c>>
    BY <1>2, <2>2, <2>3, <2>4, <2>5, <2>6
  <2> QED
    BY <1>2, <1>3, <1>5, <1>7, <2>1, <2>3, <2>6, <2>7, <2>8 DEF Ensured
<1>8. CASE Holding(m) # {}
  <2>1. PICK j \in 1..n : j = Min(Holding(m))
    <3>1. Holding(m) \in SUBSET (1..n)
      BY <1>3 DEF Holding
    <3> QED
      BY <1>8, <3>1, IndexFound
  <2>2. \A i \in 1..n : o[i] \in Seq(Texts)
    BY <1>2, <1>3 DEF Matchers
  <2>3. o \in [1..n -> Seq(Texts)]
    BY <1>2, <1>3 DEF Matchers
  <2>4. PICK x \in Seq(Texts) : x = Append(o[j], c)
    <3>1. o[j] \in Seq(Texts) /\ c \in Texts
      BY <1>4, <2>2
    <3>2. Append(o[j], c) \in Seq(Texts)
      BY <3>1
    <3> QED
      BY <3>2
  <2>5. r = [o EXCEPT ![j] = x]
    BY <1>6, <1>8, <2>1, <2>4
  <2>6. r \in [1..n -> Seq(Texts)] /\ \A i \in 1..n : r[i] = IF i = j THEN x ELSE o[i]
    BY <2>3, <2>5
  <2>7. r \in Seq(Seq(Texts)) /\ Len(r) = n
    BY <2>6
  <2>8. Keep(x, Others) = o[j] /\ Keep(x, Managed) = <<c>>
    <3>0. PICK y \in Seq(Texts) : y = o[j]
      BY <2>2
    <3>1. Keep(x, Others) = Keep(o[j], Others)
      BY <1>4, <2>4, <3>0, OneMore
    <3>2. Keep(x, Managed) = Append(Keep(o[j], Managed), c)
      BY <1>4, <2>4, <3>0, OneMore
    <3>3. Append(<<>>, c) = <<c>>
      OBVIOUS
    <3> QED
      BY <1>2, <1>3, <3>1, <3>2, <3>3
  <2>9. KeepAll(r, Others) = o
    <3>1. PICK k \in Seq(Seq(Texts)) :
             k = KeepAll(r, Others) /\ Len(k) = n /\ \A i \in 1..n : k[i] = Keep(r[i], Others)
      BY <2>7, KeepAllType, ZenonT(40)
    <3>2. \A i \in 1..n : k[i] = o[i]
      BY <1>2, <1>3, <2>6, <2>8, <3>1
    <3> QED
      BY <1>2, <1>3, <3>1, <3>2, SameLists DEF Matchers
  <2>10. PICK k \in Seq(Seq(Texts)) :
            k = KeepAll(r, Managed) /\ Len(k) = n /\ \A i \in 1..n : k[i] = Keep(r[i], Managed)
    BY <2>7, KeepAllType, ZenonT(40)
  <2>11. Lonely(k, j)
    <3>1. Len(<<c>>) = 1
      OBVIOUS
    <3> QED
      BY <1>2, <1>3, <2>6, <2>8, <2>10, <3>1 DEF Lonely
  <2>12. Len(Keep(FlattenSeq(r), Managed)) = 1
    BY <2>7, <2>10, <2>11, FlattenLonely, KeepFlatten
  <2>13. Keep(FlattenSeq(r), Others) = FlattenSeq(o)
    BY <2>7, <2>9, KeepFlatten
  <2> QED
    BY <1>2, <1>3, <1>5, <1>8, <2>7, <2>12, <2>13 DEF Ensured, Matchers
<1> QED
  BY <1>7, <1>8

\* A file with a hook of way-island has a matcher that holds it.
LEMMA HoldsIt ==
    ASSUME NEW m \in Matchers, Len(Keep(FlattenSeq(m), Managed)) = 1
    PROVE  Holding(m) # {}
<1> SUFFICES ASSUME Holding(m) = {} PROVE FALSE
  OBVIOUS
<1>1. m \in Seq(Seq(Texts))
  BY DEF Matchers
<1>2. PICK k \in Seq(Seq(Texts)) :
         /\ k = KeepAll(m, Managed) /\ Len(k) = Len(m)
         /\ \A i \in 1..Len(m) : k[i] = Keep(m[i], Managed)
  BY <1>1, KeepAllType
<1>3. ASSUME NEW i \in 1..Len(m) PROVE Keep(m[i], Managed) = <<>>
  <2>1. m[i] \in Seq(Texts)
    BY <1>1
  <2>2. ToSet(m[i]) \cap Managed = {}
    <3> SUFFICES ASSUME NEW h \in Managed, h \in ToSet(m[i]) PROVE FALSE
      OBVIOUS
    <3>1. Contains(m[i], h)
      BY <2>1 DEF Contains, ToSet
    <3>2. i \in Holding(m)
      BY <1>1, <3>1 DEF Holding
    <3> QED
      BY <3>2
  <2> QED
    BY <2>1, <2>2, KeepNone
<1>4. FlattenSeq(k) = <<>>
  BY <1>2, <1>3, FlattenNothing
<1>5. Keep(FlattenSeq(m), Managed) = <<>>
  BY <1>1, <1>2, <1>4, KeepFlatten
<1> QED
  BY <1>5

-----------------------------------------------------------------------------
(* The merge of config.toml.                                               *)

\* Lists that differ only in what does not pass.
LEMMA KeepSame ==
    ASSUME NEW A, NEW S, NEW s \in Seq(A), NEW t \in Seq(A), Len(s) = Len(t),
           \A i \in 1..Len(s) : s[i] = t[i] \/ (s[i] \notin S /\ t[i] \notin S)
    PROVE  Keep(s, S) = Keep(t, S)
<1>1. PICK n \in Nat : n = Len(s) /\ n = Len(t)
  OBVIOUS
<1>2. PICK k \in [0..n -> Seq(A)] : Keeps(s, S, k) /\ Keep(s, S) = k[n]
  <2>1. \E k \in [0..Len(s) -> Seq(A)] : Keeps(s, S, k) /\ Keep(s, S) = k[Len(s)]
    BY KeepDef
  <2> QED
    BY <1>1, <2>1
<1>3. PICK h \in [0..n -> Seq(A)] : Keeps(t, S, h) /\ Keep(t, S) = h[n]
  <2>1. \E h \in [0..Len(t) -> Seq(A)] : Keeps(t, S, h) /\ Keep(t, S) = h[Len(t)]
    BY KeepDef
  <2> QED
    BY <1>1, <2>1
<1> DEFINE T == {i \in Nat : i <= n => h[i] = k[i]}
<1>4. 0 \in T
  BY <1>2, <1>3 DEF Keeps
<1>5. ASSUME NEW i \in Nat, i \in T PROVE i + 1 \in T
  <2> SUFFICES ASSUME i + 1 <= n PROVE h[i + 1] = k[i + 1]
    OBVIOUS
  <2>0. i <= n /\ i + 1 \in 1..n /\ (i + 1) - 1 = i
    OBVIOUS
  <2>1. h[i] = k[i] /\ i + 1 \in 1..n /\ (i + 1) - 1 = i
    BY <1>5, <2>0
  <2>2. k[i + 1] = IF s[i + 1] \in S THEN Append(k[i], s[i + 1]) ELSE k[i]
    BY <1>1, <1>2, <2>1 DEF Keeps
  <2>3. h[i + 1] = IF t[i + 1] \in S THEN Append(h[i], t[i + 1]) ELSE h[i]
    BY <1>1, <1>3, <2>1 DEF Keeps
  <2>4. s[i + 1] = t[i + 1] \/ (s[i + 1] \notin S /\ t[i + 1] \notin S)
    BY <1>1, <2>1
  <2> QED
    BY <2>1, <2>2, <2>3, <2>4
<1>6. Nat \subseteq T
  <2> HIDE DEF T
  <2> QED
    BY <1>4, <1>5, SetInduction
<1>7. h[n] = k[n]
  BY <1>6
<1> QED
  BY <1>2, <1>3, <1>7

LEMMA KeepEvery ==
    ASSUME NEW A, NEW S
    PROVE  \A s \in Seq(A) : ToSet(s) \subseteq S => Keep(s, S) = s
<1> DEFINE T == {s \in Seq(A) : ToSet(s) \subseteq S => Keep(s, S) = s}
<1>1. <<>> \in T
  BY KeepEmpty
<1>2. ASSUME NEW s \in Seq(A), NEW x \in A, s \in T PROVE Append(s, x) \in T
  <2>1. Append(s, x) \in Seq(A)
    OBVIOUS
  <2>2. ToSet(Append(s, x)) = ToSet(s) \cup {x}
    BY AppendSet
  <2>3. Keep(Append(s, x), S) = IF x \in S THEN Append(Keep(s, S), x) ELSE Keep(s, S)
    <3> HIDE DEF T
    <3> QED
      BY OneMore
  <2> QED
    BY <1>2, <2>1, <2>2, <2>3
<1>3. Seq(A) \subseteq T
  <2> HIDE DEF T
  <2> QED
    BY <1>1, <1>2, ListInduction
<1> QED
  BY <1>3

\* A set of numbers up to a bound has a greatest element.
LEMMA Greatest ==
    ASSUME NEW n \in Nat, NEW I \in SUBSET (1..n), I # {}
    PROVE  Max(I) \in I /\ \A i \in I : i <= Max(I)
<1> DEFINE T == {m \in Nat : \E i \in I : m = n - i}
<1>1. T # {}
  <2>1. PICK i \in I : TRUE
    OBVIOUS
  <2>2. n - i \in Nat
    OBVIOUS
  <2> QED
    BY <2>2
<1>2. PICK x \in T : \A y \in T : x <= y
  <2> HIDE DEF T
  <2>1. T \in SUBSET Nat
    BY DEF T
  <2> QED
    BY <1>1, <2>1, Smallest
<1>3. PICK i \in I : x = n - i
  OBVIOUS
<1>4. ASSUME NEW j \in I PROVE j <= i
  <2>1. n - j \in T
    OBVIOUS
  <2>2. n - i <= n - j
    BY <1>2, <1>3, <2>1
  <2> QED
    BY <2>2
<1>5. \E k \in I : \A j \in I : j <= k
  <2> HIDE DEF T
  <2> QED
    BY <1>4
<1> HIDE DEF T
<1> QED
  BY <1>5 DEF Max

\* At most one, without counting.
LEMMA AtMostOne ==
    ASSUME NEW n \in Nat, NEW I \in SUBSET (1..n)
    PROVE  Cardinality(I) <= 1 <=> \A i, j \in I : i = j
<1>1. IsFiniteSet(1..n)
  BY FS_Interval
<1>2. IsFiniteSet(I)
  BY <1>1, FS_Subset
<1>3. ASSUME Cardinality(I) <= 1, NEW i \in I, NEW j \in I, i # j PROVE FALSE
  <2>1. IsFiniteSet({i}) /\ Cardinality({i}) = 1
    BY FS_Singleton
  <2>2. Cardinality({i} \cup {j}) = 2
    BY <1>3, <2>1, FS_AddElement
  <2>3. Cardinality({i} \cup {j}) <= Cardinality(I)
    <3>1. {i} \cup {j} \in SUBSET I
      BY <1>3
    <3> QED
      BY <1>2, <3>1, FS_Subset
  <2>4. Cardinality(I) \in Nat
    BY <1>2, FS_CardinalityType
  <2> QED
    BY <1>3, <2>2, <2>3, <2>4
<1>4. ASSUME \A i, j \in I : i = j PROVE Cardinality(I) <= 1
  <2>1. CASE I = {}
    BY <2>1, FS_EmptySet
  <2>2. CASE I # {}
    <3>1. PICK i \in I : I = {i}
      BY <1>4, <2>2
    <3> QED
      BY <3>1, FS_Singleton
  <2> QED
    BY <2>1, <2>2
<1> QED
  BY <1>3, <1>4

\* Files without a line that the code takes for something else than TOML.
Clear(lines) == \A i \in 1..Len(lines) : ~Misread(lines[i])

\* The table of a line, as the code finds it: without looking for the last header.
InTable(lines, i) ==
    \E f \in 1..i : /\ lines[f] = "[features]"
                    /\ \A j \in (f + 1)..i : ~Header(lines[j])

LEMMA ClearMeans ==
    ASSUME NEW lines \in Seq(Texts), Clear(lines), NEW i \in 1..Len(lines)
    PROVE  /\ TomlHeader(lines[i]) <=> Header(lines[i])
           /\ lines[i] \in FeaturesHeaders <=> lines[i] = "[features]"
           /\ TomlSetting(lines[i]) <=> lines[i] \in Settings
           /\ TomlSetting(lines[i]) <=> Assigns(lines[i])
<1>1. ~Misread(lines[i])
  BY DEF Clear
<1>2. PICK l : l = lines[i]
  OBVIOUS
<1>3. ~Misread(l) => /\ TomlHeader(l) <=> Header(l)
                     /\ l \in FeaturesHeaders <=> l = "[features]"
                     /\ TomlSetting(l) <=> Assigns(l)
  BY DEF Misread, Header, TomlHeader, Assigns, TomlSetting
<1>4. Assigns(l) /\ ~Misread(l) => l \in Settings
  BY DEF Misread, Assigns, TomlSetting, Settings
<1>5. l \in Settings => Assigns(l)
  BY DEF Assigns
<1> QED
  BY <1>1, <1>2, <1>3, <1>4, <1>5

LEMMA TableOf ==
    ASSUME NEW lines \in Seq(Texts), Clear(lines), NEW i \in 1..Len(lines)
    PROVE  InFeatures(lines, i) <=> InTable(lines, i)
<1>0. \A j \in 1..i : /\ TomlHeader(lines[j]) <=> Header(lines[j])
                      /\ lines[j] \in FeaturesHeaders <=> lines[j] = "[features]"
  BY ClearMeans
<1>1. i \in Nat /\ SubSeq(lines, 1, i) = [j \in 1..i |-> lines[j]]
  OBVIOUS
<1>2. PICK s : s = SubSeq(lines, 1, i)
  OBVIOUS
<1>3. Len(s) = i /\ \A j \in 1..i : s[j] = lines[j]
  BY <1>1, <1>2
<1>4. PICK I : I = {j \in 1..i : Header(lines[j])}
  OBVIOUS
<1>5. {j \in 1..Len(s) : TomlHeader(s[j])} = I
  BY <1>0, <1>3, <1>4
<1>6. TableAt(lines, i) = IF I # {} THEN Max(I) ELSE 0
  BY <1>2, <1>5 DEF TableAt, SelectLastInSeq
<1>7. Header("[features]")
  BY DEF Header, Headers
<1>8. CASE I = {}
  <2>1. ~InFeatures(lines, i)
    BY <1>6, <1>8 DEF InFeatures
  <2>2. ~InTable(lines, i)
    BY <1>4, <1>7, <1>8 DEF InTable
  <2> QED
    BY <2>1, <2>2
<1>9. CASE I # {}
  <2>1. PICK t \in I : t = TableAt(lines, i) /\ \A j \in I : j <= t
    BY <1>1, <1>4, <1>6, <1>9, Greatest
  <2>2. InFeatures(lines, i) <=> lines[t] = "[features]"
    BY <1>0, <1>4, <2>1 DEF InFeatures
  <2>3. ASSUME lines[t] = "[features]" PROVE InTable(lines, i)
    <3>1. \A j \in (t + 1)..i : ~Header(lines[j])
      BY <1>1, <1>4, <2>1
    <3> QED
      BY <1>4, <2>1, <2>3, <3>1 DEF InTable
  <2>4. ASSUME InTable(lines, i) PROVE lines[t] = "[features]"
    <3>1. PICK f \in 1..i : lines[f] = "[features]" /\ \A j \in (f + 1)..i : ~Header(lines[j])
      BY <2>4 DEF InTable
    <3>2. f \in I /\ f <= t
      BY <1>4, <1>7, <2>1, <3>1
    <3>3. t \in 1..i /\ Header(lines[t])
      BY <1>4, <2>1
    <3>4. t = f
      BY <1>1, <3>1, <3>2, <3>3
    <3> QED
      BY <3>1, <3>4
  <2> QED
    BY <2>2, <2>3, <2>4
<1> QED
  BY <1>8, <1>9

\* The four ways in which mergeCodexHooksFeature turns the hooks on: with a new table,
\* at the end of the file, before the next table, and in the line that is there.
Matters(line) == Header(line) \/ Assigns(line)
Opens(lines, at, p) ==
    /\ at \in 1..Len(lines) /\ lines[at] = "[features]"
    /\ p > at /\ \A i \in (at + 1)..(p - 1) : ~Matters(lines[i])
MakesTable(lines, r) ==
    /\ \A i \in 1..Len(lines) : lines[i] # "[features]"
    /\ r = Append(Append(lines, "[features]"), "hooks = true")
AddsLine(lines, r) ==
    \E at \in 1..Len(lines) :
        Opens(lines, at, Len(lines) + 1) /\ r = Append(lines, "hooks = true")
InsertsLine(lines, r) ==
    \E at, p \in 1..Len(lines) :
        /\ Opens(lines, at, p) /\ Header(lines[p])
        /\ r = InsertAt(lines, p, "hooks = true")
ReplacesLine(lines, r) ==
    \E at, p \in 1..Len(lines) :
        /\ Opens(lines, at, p) /\ ~Header(lines[p]) /\ Assigns(lines[p])
        /\ r = [lines EXCEPT ![p] = "hooks = true"]

LEMMA MergeWays ==
    ASSUME HookAssumption, NEW lines \in Seq(Texts), NEW r, r = MergeFeature(lines)
    PROVE  MakesTable(lines, r) \/ AddsLine(lines, r) \/ InsertsLine(lines, r) \/ ReplacesLine(lines, r)
<1>1. PICK n \in Nat : n = Len(lines)
  OBVIOUS
<1>2. PICK I : I = {i \in 1..n : lines[i] = "[features]"}
  OBVIOUS
<1>3. PICK at : at = IF I # {} THEN Min(I) ELSE 0
  OBVIOUS
<1>4. at = SelectInSeq(lines, LAMBDA l : l = "[features]")
  BY <1>1, <1>2, <1>3 DEF SelectInSeq
<1>5. PICK s : s = SubSeq(lines, at + 1, n)
  OBVIOUS
<1>6. PICK J : J = {j \in 1..Len(s) : Matters(s[j])}
  OBVIOUS
<1>7. PICK next : next = (IF J # {} THEN Min(J) ELSE 0) + at
  OBVIOUS
<1>8. next = SelectInSeq(s, LAMBDA l : Header(l) \/ Assigns(l)) + at
  BY <1>6, <1>7 DEF SelectInSeq, Matters
<1>9. r = IF at = 0 THEN lines \o <<"[features]", "hooks = true">>
          ELSE IF next = at THEN lines \o <<"hooks = true">>
          ELSE IF Header(lines[next]) THEN InsertAt(lines, next, "hooks = true")
          ELSE ReplaceAt(lines, next, "hooks = true")
  BY <1>1, <1>4, <1>5, <1>8 DEF MergeFeature
<1>10. I \in SUBSET (1..n)
  BY <1>2
<1>11. CASE I = {}
  <2>1. r = lines \o <<"[features]", "hooks = true">>
    BY <1>3, <1>9, <1>11
  <2>2. PICK a \in Texts, b \in Texts : a = "[features]" /\ b = "hooks = true"
    BY DEF HookAssumption, Settings
  <2>3. lines \o <<a, b>> = Append(Append(lines, a), b)
    OBVIOUS
  <2>4. \A i \in 1..n : lines[i] # "[features]"
    BY <1>2, <1>11
  <2> QED
    BY <1>1, <2>1, <2>2, <2>3, <2>4 DEF MakesTable
<1>12. at # 0 => r = IF next = at THEN lines \o <<"hooks = true">>
                    ELSE IF Header(lines[next]) THEN InsertAt(lines, next, "hooks = true")
                    ELSE [lines EXCEPT ![next] = "hooks = true"]
  BY <1>9 DEF ReplaceAt
<1>13. CASE I # {}
  <2>1. at \in I /\ at \in 1..n /\ at # 0 /\ lines[at] = "[features]"
    <3>1. at \in I /\ at \in 1..n /\ lines[at] = "[features]"
      BY <1>2, <1>3, <1>10, <1>13, IndexFound
    <3> QED
      BY <3>1
  <2>2. Len(s) = n - at /\ \A j \in 1..(n - at) : s[j] = lines[at + j]
    BY <1>1, <1>5, <2>1
  <2>3. n - at \in Nat /\ J \in SUBSET (1..(n - at))
    BY <1>6, <2>1, <2>2
  <2>4. CASE J = {}
    <3>1. next = at
      BY <1>7, <2>1, <2>4
    <3>2. ASSUME NEW i \in (at + 1)..n PROVE ~Matters(lines[i])
      <4>1. i - at \in 1..(n - at) /\ at + (i - at) = i
        BY <2>1
      <4>2. s[i - at] = lines[i]
        BY <2>2, <4>1
      <4> QED
        BY <1>6, <2>2, <2>4, <4>1, <4>2
    <3>3. Opens(lines, at, n + 1)
      BY <1>1, <2>1, <3>2 DEF Opens
    <3>4. r = Append(lines, "hooks = true")
      <4>1. PICK b \in Texts : b = "hooks = true"
        BY DEF HookAssumption, Settings
      <4>2. lines \o <<b>> = Append(lines, b)
        OBVIOUS
      <4> QED
        BY <1>12, <2>1, <3>1, <4>1, <4>2
    <3> QED
      BY <1>1, <2>1, <3>3, <3>4 DEF AddsLine
  <2>5. CASE J # {}
    <3>1. PICK m \in J : m = Min(J) /\ \A j \in J : m <= j
      BY <2>3, <2>5, IndexFound
    <3>2. next = m + at /\ m \in 1..(n - at) /\ Matters(s[m])
      BY <1>6, <1>7, <2>2, <2>5, <3>1
    <3>3. next \in 1..n /\ next > at /\ next # at
      BY <2>1, <3>2
    <3>4. Matters(lines[next])
      <4>1. at + m = next
        BY <2>1, <3>2
      <4> QED
        BY <2>2, <3>2, <4>1
    <3>5. ASSUME NEW i \in (at + 1)..(next - 1) PROVE ~Matters(lines[i])
      <4>1. i - at \in 1..(n - at) /\ at + (i - at) = i /\ ~(m <= i - at)
        BY <2>1, <3>2
      <4>2. s[i - at] = lines[i]
        BY <2>2, <4>1
      <4> QED
        BY <1>6, <2>2, <3>1, <4>1, <4>2
    <3>6. Opens(lines, at, next)
      BY <1>1, <2>1, <3>3, <3>5 DEF Opens
    <3>7. CASE Header(lines[next])
      <4>1. r = InsertAt(lines, next, "hooks = true")
        BY <1>12, <2>1, <3>3, <3>7
      <4> QED
        BY <1>1, <2>1, <3>3, <3>6, <3>7, <4>1 DEF InsertsLine
    <3>8. CASE ~Header(lines[next])
      <4>1. r = [lines EXCEPT ![next] = "hooks = true"] /\ Assigns(lines[next])
        BY <1>12, <2>1, <3>3, <3>4, <3>8 DEF Matters
      <4> QED
        BY <1>1, <2>1, <3>3, <3>6, <3>8, <4>1 DEF ReplacesLine
    <3> QED
      BY <3>7, <3>8
  <2> QED
    BY <2>4, <2>5
<1> QED
  BY <1>11, <1>13

\* What is valid, without counting.
Single(lines) ==
    \A i, j \in 1..Len(lines) : lines[i] = "[features]" /\ lines[j] = "[features]" => i = j
Value(lines, i) == i \in 1..Len(lines) /\ lines[i] \in Settings /\ InTable(lines, i)

LEMMA ValidMeans ==
    ASSUME NEW lines \in Seq(Texts), Clear(lines)
    PROVE  /\ \A i : i \in Values(lines) <=> Value(lines, i)
           /\ Valid(lines) <=> Single(lines) /\ \A i, j \in Values(lines) : i = j
<1>1. PICK n \in Nat : n = Len(lines) /\ DOMAIN lines = 1..n
  OBVIOUS
<1>2. \A i : i \in Values(lines) <=> Value(lines, i)
  BY <1>1, ClearMeans, TableOf DEF Values, Value
<1>3. Values(lines) \in SUBSET (1..n)
  BY <1>1 DEF Values
<1>4. PICK I : I = {i \in 1..n : lines[i] = "[features]"}
  OBVIOUS
<1>5. I \in SUBSET (1..n)
  BY <1>4
<1>6. Valid(lines) <=> Cardinality(Values(lines)) <= 1 /\ Cardinality(I) <= 1
  <2>1. I = {i \in DOMAIN lines : lines[i] \in FeaturesHeaders}
    BY <1>1, <1>4, ClearMeans
  <2> QED
    BY <2>1 DEF Valid
<1>7. Cardinality(Values(lines)) <= 1 <=> \A i, j \in Values(lines) : i = j
  BY <1>3, AtMostOne
<1>8. Cardinality(I) <= 1 <=> \A i, j \in I : i = j
  BY <1>5, AtMostOne
<1>9. (\A i, j \in I : i = j) <=> Single(lines)
  BY <1>1, <1>4 DEF Single
<1> QED
  BY <1>2, <1>6, <1>7, <1>8, <1>9

\* The files that the merge is meant for, and what it makes of them.
Mergeable(lines) ==
    /\ lines \in Seq(Texts) /\ Single(lines) /\ Clear(lines)
    /\ \A i, j \in 1..Len(lines) : Value(lines, i) /\ Value(lines, j) => i = j
Rest(lines) == Keep(lines, Texts \ Settings)
On(lines) ==
    \E p \in 1..Len(lines) : /\ lines[p] = "hooks = true"
                             /\ \A i \in 1..Len(lines) : Value(lines, i) <=> i = p
HasTable(lines) == \E i \in 1..Len(lines) : lines[i] = "[features]"
Merged(lines, r) ==
    /\ Mergeable(r) /\ On(r)
    /\ Rest(r) = IF HasTable(lines) THEN Rest(lines) ELSE Append(Rest(lines), "[features]")

\* What the lines are that the merge writes.
LEMMA LineKinds ==
    /\ Header("[features]") /\ ~Assigns("[features]") /\ ~Misread("[features]")
    /\ "[features]" \notin Settings
    /\ "hooks = true" \in Settings /\ ~Header("hooks = true") /\ Assigns("hooks = true")
    /\ ~Misread("hooks = true") /\ "hooks = true" # "[features]"
    /\ \A l : l \in Settings => Assigns(l) /\ ~Header(l) /\ l # "[features]"
    /\ \A l : Assigns(l) /\ ~Misread(l) => l \in Settings
    /\ \A l : ~Header(l) => l # "[features]"
BY DEF Header, Headers, Assigns, Settings, Misread, TomlHeader, TomlSetting, FeaturesHeaders

\* A file is on when the merge has put its line into the one table, and no other
\* assignment is there.
LEMMA OnAt ==
    ASSUME NEW r \in Seq(Texts), Single(r), Clear(r),
           NEW p \in 1..Len(r), r[p] = "hooks = true", Value(r, p),
           \A i \in 1..Len(r) : Value(r, i) => i = p
    PROVE  Mergeable(r) /\ On(r)
BY DEF Mergeable, On

LEMMA MakesTableMerges ==
    ASSUME HookAssumption, NEW lines, Mergeable(lines), NEW r, MakesTable(lines, r)
    PROVE  Merged(lines, r)
<1>1. PICK n \in Nat : n = Len(lines) /\ lines \in Seq(Texts)
  BY DEF Mergeable
<1>2. PICK a \in Texts, b \in Texts : a = "[features]" /\ b = "hooks = true"
  BY DEF HookAssumption, Settings
<1>3. PICK q \in Seq(Texts) : /\ q = Append(lines, a) /\ Len(q) = n + 1 /\ q[n + 1] = a
                              /\ \A i \in 1..n : q[i] = lines[i]
  <2>1. /\ Append(lines, a) \in Seq(Texts) /\ Len(Append(lines, a)) = n + 1
        /\ Append(lines, a)[n + 1] = a /\ \A i \in 1..n : Append(lines, a)[i] = lines[i]
    BY <1>1
  <2> QED
    BY <2>1
<1>4. r = Append(q, b)
  BY <1>2, <1>3 DEF MakesTable
<1>5. /\ r \in Seq(Texts) /\ Len(r) = n + 2 /\ r[n + 1] = a /\ r[n + 2] = b
      /\ \A i \in 1..n : r[i] = lines[i]
  BY <1>3, <1>4
<1>6. \A i \in 1..(n + 2) : i \in 1..n \/ i = n + 1 \/ i = n + 2
  BY ONLY n \in Nat
<1>7. \A i \in 1..(n + 2) : r[i] = "[features]" => i = n + 1
  BY <1>1, <1>2, <1>5, <1>6, LineKinds DEF MakesTable
<1>8. Single(r)
  BY <1>5, <1>7 DEF Single
<1>9. Clear(r)
  BY <1>1, <1>2, <1>5, <1>6, LineKinds DEF Clear, Mergeable
<1>10. Value(r, n + 2)
  <2>1. \A j \in ((n + 1) + 1)..(n + 2) : j = n + 2
    OBVIOUS
  <2>2. n + 1 \in 1..(n + 2) /\ n + 2 \in 1..(n + 2)
    OBVIOUS
  <2>3. InTable(r, n + 2)
    BY <1>2, <1>5, <2>1, <2>2, LineKinds DEF InTable
  <2> QED
    BY <1>2, <1>5, <2>2, <2>3, LineKinds DEF Value
<1>11. ASSUME NEW i \in 1..Len(r), Value(r, i) PROVE i = n + 2
  <2>1. PICK f \in 1..i : r[f] = "[features]"
    BY <1>11 DEF Value, InTable
  <2>2. f = n + 1
    BY <1>5, <1>7, <2>1
  <2>3. i # n + 1
    BY <1>2, <1>5, <1>11, LineKinds DEF Value
  <2> QED
    BY <1>5, <2>2, <2>3
<1>12. Mergeable(r) /\ On(r)
  <2>1. n + 2 \in 1..Len(r) /\ r[n + 2] = "hooks = true"
    <3>1. n + 2 \in 1..(n + 2)
      OBVIOUS
    <3> QED
      BY <1>2, <1>5, <3>1
  <2> QED
    BY <1>5, <1>8, <1>9, <1>10, <1>11, <2>1, OnAt
<1>13. Rest(r) = Append(Rest(lines), "[features]")
  <2>1. a \in Texts \ Settings /\ b \notin Texts \ Settings
    BY <1>2, LineKinds
  <2>2. PICK S : S = Texts \ Settings
    OBVIOUS
  <2>3. Keep(r, S) = Keep(q, S)
    BY <1>4, <2>1, <2>2, OneMore
  <2>4. Keep(q, S) = Append(Keep(lines, S), a)
    BY <1>1, <1>3, <2>1, <2>2, OneMore
  <2> QED
    BY <1>2, <2>2, <2>3, <2>4 DEF Rest
<1>14. ~HasTable(lines)
  BY DEF HasTable, MakesTable
<1> QED
  BY <1>12, <1>13, <1>14 DEF Merged

LEMMA AddsLineMerges ==
    ASSUME HookAssumption, NEW lines, Mergeable(lines), NEW r, AddsLine(lines, r)
    PROVE  Merged(lines, r)
<1>1. PICK n \in Nat : n = Len(lines) /\ lines \in Seq(Texts)
  BY DEF Mergeable
<1>2. PICK b \in Texts : b = "hooks = true"
  BY DEF HookAssumption, Settings
<1>3. PICK at \in 1..n : Opens(lines, at, n + 1) /\ r = Append(lines, b)
  BY <1>1, <1>2 DEF AddsLine
<1>4. /\ r \in Seq(Texts) /\ Len(r) = n + 1 /\ r[n + 1] = b
      /\ \A i \in 1..n : r[i] = lines[i]
  BY <1>1, <1>3
<1>5. \A i \in 1..(n + 1) : i \in 1..n \/ i = n + 1
  BY ONLY n \in Nat
<1>6. lines[at] = "[features]" /\ \A i \in (at + 1)..n : ~Matters(lines[i])
  <2>1. (n + 1) - 1 = n
    OBVIOUS
  <2> QED
    BY <1>3, <2>1 DEF Opens
<1>7. \A i \in 1..(n + 1) : r[i] = "[features]" => i = at
  BY <1>1, <1>2, <1>4, <1>5, <1>6, LineKinds DEF Mergeable, Single
<1>8. Single(r)
  BY <1>4, <1>7 DEF Single
<1>9. Clear(r)
  BY <1>1, <1>2, <1>4, <1>5, LineKinds DEF Clear, Mergeable
<1>10. Value(r, n + 1)
  <2>1. ASSUME NEW j \in (at + 1)..(n + 1) PROVE ~Header(r[j])
    <3>1. CASE j = n + 1
      BY <1>2, <1>4, <3>1, LineKinds
    <3>2. CASE j # n + 1
      <4>1. j \in (at + 1)..n /\ j \in 1..n
        BY <3>2
      <4> QED
        BY <1>4, <1>6, <4>1 DEF Matters
    <3> QED
      BY <3>1, <3>2
  <2>2. at \in 1..(n + 1) /\ n + 1 \in 1..(n + 1) /\ r[at] = "[features]"
    BY <1>4, <1>6
  <2>3. InTable(r, n + 1)
    BY <2>1, <2>2 DEF InTable
  <2> QED
    BY <1>2, <1>4, <2>2, <2>3, LineKinds DEF Value
<1>11. ASSUME NEW i \in 1..Len(r), Value(r, i) PROVE i = n + 1
  <2>1. PICK f \in 1..i : r[f] = "[features]"
    BY <1>11 DEF Value, InTable
  <2>2. f = at /\ i \in 1..(n + 1)
    BY <1>4, <1>7, <2>1
  <2>3. r[i] \in Settings
    BY <1>11 DEF Value
  <2>4. i # at
    BY <1>4, <1>6, <2>3, LineKinds
  <2>5. ~(i \in (at + 1)..n)
    <3> SUFFICES ASSUME i \in (at + 1)..n PROVE FALSE
      OBVIOUS
    <3>1. i \in 1..n /\ ~Matters(lines[i])
      BY <1>6
    <3> QED
      BY <1>4, <2>3, <3>1, LineKinds DEF Matters
  <2> QED
    BY <2>1, <2>2, <2>4, <2>5
<1>12. Mergeable(r) /\ On(r)
  <2>1. n + 1 \in 1..Len(r) /\ r[n + 1] = "hooks = true"
    <3>1. n + 1 \in 1..(n + 1)
      OBVIOUS
    <3> QED
      BY <1>2, <1>4, <3>1
  <2> QED
    BY <1>4, <1>8, <1>9, <1>10, <1>11, <2>1, OnAt
<1>13. Rest(r) = Rest(lines)
  <2>1. b \notin Texts \ Settings
    BY <1>2, LineKinds
  <2>2. PICK S : S = Texts \ Settings
    OBVIOUS
  <2>3. Keep(r, S) = Keep(lines, S)
    BY <1>1, <1>3, <2>1, <2>2, OneMore
  <2> QED
    BY <2>2, <2>3 DEF Rest
<1>14. HasTable(lines)
  BY <1>1, <1>6 DEF HasTable
<1> QED
  BY <1>12, <1>13, <1>14 DEF Merged

\* Where the elements of a concatenation come from.
LEMMA Concatenated ==
    ASSUME NEW A, NEW a \in Seq(A), NEW b \in Seq(A), NEW r, r = a \o b,
           NEW k, k = Len(a), NEW l, l = Len(b)
    PROVE  /\ r \in Seq(A) /\ Len(r) = k + l
           /\ \A i \in 1..k : r[i] = a[i]
           /\ \A i \in 1..l : r[k + i] = b[i]
<1>0. k \in Nat /\ l \in Nat
  OBVIOUS
<1>1. /\ r \in Seq(A) /\ Len(r) = k + l
      /\ \A i \in 1..(k + l) : r[i] = IF i <= k THEN a[i] ELSE b[i - k]
  BY ConcatProperties
<1>2. ASSUME NEW i \in 1..k PROVE r[i] = a[i]
  <2>1. i \in 1..(k + l) /\ i <= k
    BY <1>0
  <2> QED
    BY <1>1, <2>1
<1>3. ASSUME NEW i \in 1..l PROVE r[k + i] = b[i]
  <2>1. k + i \in 1..(k + l) /\ ~(k + i <= k) /\ (k + i) - k = i
    BY <1>0
  <2> QED
    BY <1>1, <2>1
<1> QED
  BY <1>1, <1>2, <1>3

\* A line goes between two parts of a list.
LEMMA Inserted ==
    ASSUME NEW A, NEW s \in Seq(A), NEW p \in 1..Len(s), NEW e \in A, NEW S, e \notin S
    PROVE  /\ InsertAt(s, p, e) \in Seq(A) /\ Len(InsertAt(s, p, e)) = Len(s) + 1
           /\ InsertAt(s, p, e)[p] = e
           /\ \A i \in 1..(p - 1) : InsertAt(s, p, e)[i] = s[i]
           /\ \A i \in p..Len(s) : InsertAt(s, p, e)[i + 1] = s[i]
           /\ Keep(InsertAt(s, p, e), S) = Keep(s, S)
<1>1. PICK n \in Nat : n = Len(s) /\ p \in 1..n
  OBVIOUS
<1>2. PICK a \in Seq(A) : /\ a = SubSeq(s, 1, p - 1) /\ Len(a) = p - 1
                          /\ \A i \in 1..(p - 1) : a[i] = s[i]
  <2>1. /\ SubSeq(s, 1, p - 1) \in Seq(A) /\ Len(SubSeq(s, 1, p - 1)) = p - 1
        /\ \A i \in 1..(p - 1) : SubSeq(s, 1, p - 1)[i] = s[i]
    BY <1>1
  <2> QED
    BY <2>1
<1>3. PICK b \in Seq(A) : /\ b = SubSeq(s, p, n) /\ Len(b) = n - p + 1
                          /\ \A i \in 1..(n - p + 1) : b[i] = s[p + i - 1]
  <2>1. /\ SubSeq(s, p, n) \in Seq(A) /\ Len(SubSeq(s, p, n)) = n - p + 1
        /\ \A i \in 1..(n - p + 1) : SubSeq(s, p, n)[i] = s[p + i - 1]
    BY <1>1
  <2> QED
    BY <2>1
<1>4. PICK ae \in Seq(A) : /\ ae = Append(a, e) /\ Len(ae) = p /\ ae[p] = e
                           /\ \A i \in 1..(p - 1) : ae[i] = s[i]
  <2>1. /\ Append(a, e) \in Seq(A) /\ Len(Append(a, e)) = p /\ Append(a, e)[p] = e
        /\ \A i \in 1..(p - 1) : Append(a, e)[i] = a[i]
    BY <1>2
  <2> QED
    BY <1>2, <2>1
<1>5. PICK r : r = InsertAt(s, p, e)
  OBVIOUS
<1>6. r = ae \o b
  <2>1. r = (a \o <<e>>) \o b
    BY <1>1, <1>2, <1>3, <1>5 DEF InsertAt
  <2>2. a \o <<e>> = Append(a, e)
    OBVIOUS
  <2> QED
    BY <1>4, <2>1, <2>2
<1>7. /\ r \in Seq(A) /\ Len(r) = p + (n - p + 1)
      /\ \A i \in 1..p : r[i] = ae[i]
      /\ \A i \in 1..(n - p + 1) : r[p + i] = b[i]
  <2>1. PICK l : l = n - p + 1
    OBVIOUS
  <2>2. p = Len(ae) /\ l = Len(b)
    BY <1>3, <1>4, <2>1
  <2>3. /\ r \in Seq(A) /\ Len(r) = p + l
        /\ \A i \in 1..p : r[i] = ae[i]
        /\ \A i \in 1..l : r[p + i] = b[i]
    BY <1>6, <2>2, Concatenated
  <2> QED
    BY <2>1, <2>3
<1>8. ASSUME NEW i \in p..n PROVE r[i + 1] = s[i]
  <2>1. i - p + 1 \in 1..(n - p + 1) /\ p + (i - p + 1) = i + 1 /\ p + (i - p + 1) - 1 = i
    BY <1>1
  <2>2. r[p + (i - p + 1)] = b[i - p + 1]
    BY <1>7, <2>1
  <2>3. b[i - p + 1] = s[p + (i - p + 1) - 1]
    BY <1>3, <2>1
  <2> QED
    BY <2>1, <2>2, <2>3
<1>9. Keep(r, S) = Keep(s, S)
  <2>1. s = a \o b
    <3>1. PICK t : t = a \o b
      OBVIOUS
    <3>2. /\ t \in Seq(A) /\ Len(t) = n
          /\ \A i \in 1..(p - 1) : t[i] = a[i]
          /\ \A i \in 1..(n - p + 1) : t[(p - 1) + i] = b[i]
      <4>1. PICK k : k = p - 1
        OBVIOUS
      <4>2. PICK l : l = n - p + 1
        OBVIOUS
      <4>3. k = Len(a) /\ l = Len(b)
        BY <1>2, <1>3, <4>1, <4>2
      <4>4. /\ t \in Seq(A) /\ Len(t) = k + l
            /\ \A i \in 1..k : t[i] = a[i]
            /\ \A i \in 1..l : t[k + i] = b[i]
        BY <3>1, <4>3, Concatenated
      <4>5. k + l = n
        BY <1>1, <4>1, <4>2
      <4> QED
        BY <4>1, <4>2, <4>4, <4>5
    <3>3. ASSUME NEW i \in 1..n PROVE s[i] = t[i]
      <4>1. CASE i \in 1..(p - 1)
        BY <1>2, <3>2, <4>1
      <4>2. CASE i \notin 1..(p - 1)
        <5>1. i - p + 1 \in 1..(n - p + 1) /\ (p - 1) + (i - p + 1) = i /\ p + (i - p + 1) - 1 = i
          BY <1>1, <4>2
        <5>2. t[(p - 1) + (i - p + 1)] = b[i - p + 1]
          BY <3>2, <5>1
        <5>3. b[i - p + 1] = s[p + (i - p + 1) - 1]
          BY <1>3, <5>1
        <5> QED
          BY <5>1, <5>2, <5>3
      <4> QED
        BY <4>1, <4>2
    <3> QED
      BY <1>1, <3>1, <3>2, <3>3, SameLists
  <2>2. Keep(ae \o b, S) = Keep(ae, S) \o Keep(b, S) /\ Keep(a \o b, S) = Keep(a, S) \o Keep(b, S)
    BY KeepConcat
  <2>3. Keep(ae, S) = Keep(a, S)
    BY <1>4, OneMore
  <2> QED
    BY <1>6, <2>1, <2>2, <2>3
<1>10. Len(r) = n + 1 /\ \A i \in 1..(p - 1) : r[i] = s[i]
  BY <1>1, <1>4, <1>7
<1>11. r[p] = e
  BY <1>4, <1>7
<1> QED
  BY <1>1, <1>5, <1>7, <1>8, <1>9, <1>10, <1>11

LEMMA InsertsLineMerges ==
    ASSUME HookAssumption, NEW lines, Mergeable(lines), NEW r, InsertsLine(lines, r)
    PROVE  Merged(lines, r)
<1>1. PICK n \in Nat : n = Len(lines) /\ lines \in Seq(Texts)
  BY DEF Mergeable
<1>2. PICK b \in Texts : b = "hooks = true"
  BY DEF HookAssumption, Settings
<1>3. PICK at \in 1..n, p \in 1..n :
         Opens(lines, at, p) /\ Header(lines[p]) /\ r = InsertAt(lines, p, b)
  BY <1>1, <1>2 DEF InsertsLine
<1>4. b \notin Texts \ Settings
  BY <1>2, LineKinds
<1>5. /\ r \in Seq(Texts) /\ Len(r) = n + 1 /\ r[p] = b
      /\ \A i \in 1..(p - 1) : r[i] = lines[i]
      /\ \A i \in p..n : r[i + 1] = lines[i]
      /\ Keep(r, Texts \ Settings) = Keep(lines, Texts \ Settings)
  <2>1. PICK S : S = Texts \ Settings
    OBVIOUS
  <2> QED
    BY <1>1, <1>3, <1>4, <2>1, Inserted
<1>6. lines[at] = "[features]" /\ p > at /\ \A i \in (at + 1)..(p - 1) : ~Matters(lines[i])
  BY <1>3 DEF Opens
<1>7. \A i \in 1..n : lines[i] = "[features]" => i = at
  BY <1>1, <1>6 DEF Mergeable, Single
<1>8. ASSUME NEW i \in 1..(n + 1)
      PROVE  \/ i \in 1..(p - 1) /\ i \in 1..n /\ r[i] = lines[i]
             \/ i = p
             \/ i \in (p + 1)..(n + 1) /\ i - 1 \in p..n /\ i - 1 \in 1..n /\ r[i] = lines[i - 1]
  <2>1. CASE i < p
    <3>1. i \in 1..(p - 1) /\ i \in 1..n
      BY <2>1
    <3> QED
      BY <1>5, <3>1
  <2>2. CASE i > p
    <3>1. i \in (p + 1)..(n + 1) /\ i - 1 \in p..n /\ i - 1 \in 1..n /\ (i - 1) + 1 = i
      BY <2>2
    <3>2. r[(i - 1) + 1] = lines[i - 1]
      BY <1>5, <3>1
    <3> QED
      BY <3>1, <3>2
  <2> QED
    BY <2>1, <2>2
<1>9. ASSUME NEW i \in 1..(n + 1), r[i] = "[features]" PROVE i = at
  <2>1. CASE i \in 1..n /\ r[i] = lines[i]
    BY <1>7, <1>9, <2>1
  <2>2. CASE i = p
    BY <1>2, <1>5, <1>9, <2>2, LineKinds
  <2>3. CASE i - 1 \in p..n /\ i - 1 \in 1..n /\ r[i] = lines[i - 1]
    <3>1. i - 1 = at
      BY <1>7, <1>9, <2>3
    <3> QED
      BY <1>6, <2>3, <3>1
  <2> QED
    BY <1>8, <2>1, <2>2, <2>3
<1>10. Single(r)
  BY <1>5, <1>9 DEF Single
<1>11. Clear(r)
  <2>1. \A i \in 1..n : ~Misread(lines[i])
    BY <1>1 DEF Mergeable, Clear
  <2> QED
    BY <1>2, <1>5, <1>8, <2>1, LineKinds DEF Clear
<1>12. at \in 1..(p - 1) /\ r[at] = "[features]" /\ p \in 1..(n + 1)
  BY <1>5, <1>6
<1>13. Value(r, p)
  <2>1. ASSUME NEW j \in (at + 1)..p PROVE ~Header(r[j])
    <3>1. CASE j = p
      BY <1>2, <1>5, <3>1, LineKinds
    <3>2. CASE j # p
      <4>1. j \in (at + 1)..(p - 1) /\ j \in 1..(p - 1)
        BY <3>2
      <4> QED
        BY <1>5, <1>6, <4>1 DEF Matters
    <3> QED
      BY <3>1, <3>2
  <2>2. InTable(r, p)
    <3>1. at \in 1..p
      BY <1>12
    <3> QED
      BY <1>12, <2>1, <3>1 DEF InTable
  <2> QED
    BY <1>2, <1>5, <1>12, <2>2, LineKinds DEF Value
<1>14. ASSUME NEW i \in 1..Len(r), Value(r, i) PROVE i = p
  <2>1. PICK f \in 1..i : r[f] = "[features]" /\ \A j \in (f + 1)..i : ~Header(r[j])
    BY <1>14 DEF Value, InTable
  <2>2. i \in 1..(n + 1) /\ f \in 1..(n + 1)
    BY <1>5, <2>1
  <2>3. f = at
    BY <1>9, <2>1, <2>2
  <2>4. r[i] \in Settings
    BY <1>14 DEF Value
  <2>5. ASSUME i < p PROVE FALSE
    <3>1. i \in 1..(p - 1) /\ i # at
      <4>1. i \in 1..(p - 1)
        BY <2>2, <2>5
      <4>2. r[at] \notin Settings
        BY <1>12, LineKinds
      <4> QED
        BY <2>4, <4>1, <4>2
    <3>2. i \in (at + 1)..(p - 1)
      BY <2>1, <2>3, <3>1
    <3> QED
      BY <1>5, <1>6, <2>4, <3>1, <3>2, LineKinds DEF Matters
  <2>6. ASSUME i > p PROVE FALSE
    <3>1. p + 1 \in (f + 1)..i /\ p \in p..n
      BY <1>12, <2>2, <2>3, <2>6
    <3>2. r[p + 1] = lines[p]
      BY <1>5, <3>1
    <3> QED
      BY <1>3, <2>1, <3>1, <3>2
  <2> QED
    BY <2>2, <2>5, <2>6
<1>15. Mergeable(r) /\ On(r)
  BY <1>2, <1>5, <1>10, <1>11, <1>12, <1>13, <1>14, OnAt
<1>16. Rest(r) = Rest(lines) /\ HasTable(lines)
  BY <1>1, <1>5, <1>6 DEF Rest, HasTable
<1> QED
  BY <1>15, <1>16 DEF Merged

LEMMA ReplacesLineMerges ==
    ASSUME HookAssumption, NEW lines, Mergeable(lines), NEW r, ReplacesLine(lines, r)
    PROVE  Merged(lines, r)
<1>1. PICK n \in Nat : n = Len(lines) /\ lines \in Seq(Texts)
  BY DEF Mergeable
<1>2. PICK b \in Texts : b = "hooks = true"
  BY DEF HookAssumption, Settings
<1>3. PICK at \in 1..n, p \in 1..n :
         /\ Opens(lines, at, p) /\ ~Header(lines[p]) /\ Assigns(lines[p])
         /\ r = [lines EXCEPT ![p] = b]
  BY <1>1, <1>2 DEF ReplacesLine
<1>4. lines \in [1..n -> Texts]
  BY <1>1
<1>5. r \in [1..n -> Texts] /\ r[p] = b /\ \A i \in 1..n : i # p => r[i] = lines[i]
  BY <1>3, <1>4
<1>6. r \in Seq(Texts) /\ Len(r) = n
  BY <1>5
<1>7. lines[at] = "[features]" /\ p > at /\ \A i \in (at + 1)..(p - 1) : ~Matters(lines[i])
  BY <1>3 DEF Opens
<1>8. lines[p] \in Settings
  BY <1>1, <1>3, LineKinds DEF Mergeable, Clear
<1>9. \A i \in 1..n : r[i] = "[features]" => i = at
  BY <1>1, <1>2, <1>5, <1>7, LineKinds DEF Mergeable, Single
<1>10. Single(r)
  BY <1>6, <1>9 DEF Single
<1>11. Clear(r)
  BY <1>1, <1>2, <1>5, <1>6, LineKinds DEF Clear, Mergeable
<1>12. \A i \in 1..n : Header(r[i]) <=> Header(lines[i])
  BY <1>2, <1>3, <1>5, LineKinds
<1>13. r[at] = "[features]" /\ at \in 1..p
  BY <1>5, <1>7
<1>14. ASSUME NEW i \in at..n PROVE InTable(r, i) <=> InTable(lines, i)
  <2>1. i \in Nat /\ at \in 1..i
    OBVIOUS
  <2>2. ASSUME NEW f \in 1..i
        PROVE  /\ r[f] = "[features]" <=> lines[f] = "[features]"
               /\ \A j \in (f + 1)..i : Header(r[j]) <=> Header(lines[j])
    <3>1. f \in 1..n /\ \A j \in (f + 1)..i : j \in 1..n
      BY <2>1
    <3> QED
      BY <1>2, <1>3, <1>5, <1>12, <3>1, LineKinds
  <2> QED
    BY <2>2 DEF InTable
<1>15. Value(lines, p)
  <2>1. ASSUME NEW j \in (at + 1)..p PROVE ~Header(lines[j])
    <3>1. CASE j = p
      BY <1>3, <3>1
    <3>2. CASE j # p
      <4>1. j \in (at + 1)..(p - 1)
        BY <3>2
      <4> QED
        BY <1>7, <4>1 DEF Matters
    <3> QED
      BY <3>1, <3>2
  <2>2. InTable(lines, p)
    BY <1>7, <1>13, <2>1 DEF InTable
  <2> QED
    BY <1>1, <1>8, <2>2 DEF Value
<1>16. Value(r, p)
  <2>1. p \in at..n
    BY <1>7
  <2>2. InTable(r, p)
    BY <1>14, <1>15, <2>1 DEF Value
  <2> QED
    BY <1>2, <1>5, <1>6, <2>2, LineKinds DEF Value
<1>17. ASSUME NEW i \in 1..Len(r), Value(r, i) PROVE i = p
  <2>1. PICK f \in 1..i : r[f] = "[features]"
    BY <1>17 DEF Value, InTable
  <2>2. f = at /\ i \in at..n /\ i \in 1..n
    <3>1. i \in 1..n /\ f \in 1..n
      BY <1>6, <2>1
    <3>2. f = at
      BY <1>9, <2>1, <3>1
    <3> QED
      BY <2>1, <3>1, <3>2
  <2>3. SUFFICES ASSUME i # p PROVE FALSE
    OBVIOUS
  <2>4. Value(lines, i)
    BY <1>1, <1>5, <1>14, <1>17, <2>2, <2>3 DEF Value
  <2> QED
    BY <1>1, <1>15, <2>2, <2>3, <2>4 DEF Mergeable
<1>18. Mergeable(r) /\ On(r)
  BY <1>2, <1>5, <1>6, <1>10, <1>11, <1>16, <1>17, OnAt
<1>19. Rest(r) = Rest(lines)
  <2>1. PICK S : S = Texts \ Settings
    OBVIOUS
  <2>2. ASSUME NEW i \in 1..Len(lines)
        PROVE  lines[i] = r[i] \/ (lines[i] \notin S /\ r[i] \notin S)
    <3>1. CASE i = p
      <4>1. lines[p] \notin S
        BY <1>8, <2>1
      <4>2. r[p] \notin S
        BY <1>2, <1>5, <2>1, LineKinds
      <4> QED
        BY <3>1, <4>1, <4>2
    <3>2. CASE i # p
      <4>1. i \in 1..n
        BY <1>1
      <4>2. lines[i] = r[i]
        BY <1>5, <3>2, <4>1
      <4> HIDE <3>2
      <4> QED
        BY ONLY <4>2
    <3> QED
      BY <3>1, <3>2
  <2>3. Keep(lines, S) = Keep(r, S)
    BY <1>1, <1>6, <2>2, KeepSame
  <2> QED
    BY <2>1, <2>3 DEF Rest
<1>20. HasTable(lines)
  BY <1>1, <1>7 DEF HasTable
<1> QED
  BY <1>18, <1>19, <1>20 DEF Merged

\* Every way of the merge keeps what it should.
LEMMA MergeMerges ==
    ASSUME HookAssumption, NEW lines, Mergeable(lines)
    PROVE  Merged(lines, MergeFeature(lines))
<1>1. PICK r : r = MergeFeature(lines) /\ lines \in Seq(Texts)
  BY DEF Mergeable
<1>2. MakesTable(lines, r) \/ AddsLine(lines, r) \/ InsertsLine(lines, r) \/ ReplacesLine(lines, r)
  BY <1>1, MergeWays
<1> QED
  BY <1>1, <1>2, MakesTableMerges, AddsLineMerges, InsertsLineMerges, ReplacesLineMerges

\* The merge of any file is a file.
LEMMA MergeType ==
    ASSUME HookAssumption, NEW lines \in Seq(Texts)
    PROVE  MergeFeature(lines) \in Seq(Texts)
<1>1. PICK r : r = MergeFeature(lines)
  OBVIOUS
<1>2. PICK a \in Texts, b \in Texts : a = "[features]" /\ b = "hooks = true"
  BY DEF HookAssumption, Settings
<1>3. CASE MakesTable(lines, r)
  <2>1. PICK q \in Seq(Texts) : q = Append(lines, a)
    <3>1. Append(lines, a) \in Seq(Texts)
      OBVIOUS
    <3> QED
      BY <3>1
  <2>2. Append(q, b) \in Seq(Texts)
    OBVIOUS
  <2>3. r = Append(q, b)
    BY <1>2, <1>3, <2>1 DEF MakesTable
  <2> QED
    BY <1>1, <2>2, <2>3
<1>4. CASE AddsLine(lines, r)
  <2>1. Append(lines, b) \in Seq(Texts)
    OBVIOUS
  <2>2. r = Append(lines, b)
    BY <1>2, <1>4 DEF AddsLine
  <2> QED
    BY <1>1, <2>1, <2>2
<1>5. CASE InsertsLine(lines, r)
  <2>1. PICK p \in 1..Len(lines) : r = InsertAt(lines, p, b)
    BY <1>2, <1>5 DEF InsertsLine
  <2>2. PICK S : b \notin S
    <3>1. b \notin {}
      OBVIOUS
    <3> QED
      BY <3>1
  <2> QED
    BY <1>1, <2>1, <2>2, Inserted
<1>6. CASE ReplacesLine(lines, r)
  <2>1. PICK p \in 1..Len(lines) : r = [lines EXCEPT ![p] = b]
    BY <1>2, <1>6 DEF ReplacesLine
  <2>2. lines \in [1..Len(lines) -> Texts] /\ Len(lines) \in Nat
    OBVIOUS
  <2>3. r \in [1..Len(lines) -> Texts]
    BY <2>1, <2>2
  <2> QED
    BY <1>1, <2>2, <2>3
<1> QED
  BY <1>1, <1>3, <1>4, <1>5, <1>6, MergeWays

-----------------------------------------------------------------------------
(* The runs of init.                                                       *)

\* What is in a hook file, and which values the variables have.
Contents == HookFile \cup {None, Garbage}

HookTypes ==
    /\ HookTypeOK
    /\ claude \in Contents /\ codex \in Contents /\ config \in Seq(Texts) \cup {None}
    /\ first[1] \in Contents /\ first[2] \in Contents /\ first[3] \in Seq(Texts) \cup {None}
    /\ doing # "start" => command \in Managed
    /\ doing \in {"saveClaude", "saveBoth", "saveCodex"} => held \in HookFile
    /\ doing = "saveConfig" => held \in Seq(Texts)

\* A hook file that was written since the first run, with all that it held then or
\* without the event that had an odd entry.
Written(before, now) ==
    /\ now \in HookFile /\ ~now.odd
    /\ HasOdd(before) \/ KeepsOthers(before, now)
    /\ Len(Keep(CommandsOf(now), Managed)) = 1

\* config.toml since the first run: as it was, or merged.
Turned(before, now) ==
    now \in Seq(Texts) /\ (Mergeable(LinesOf(before)) => Merged(LinesOf(before), now))

\* What is to be written back is still what the file holds.
HeldInv ==
    /\ doing \in {"saveClaude", "saveBoth"} => claude # Garbage /\ held = ClaudeHeld(claude)
    /\ doing = "saveCodex" => codex # Garbage /\ ~HasOdd(codex) /\ held = CodexHeld(codex)
    /\ doing = "saveConfig" => held = LinesOf(config)

\* The inductive invariant.
HookInv ==
    ~touched =>
        /\ claude = first[1] \/ Written(first[1], claude)
        /\ HasKeys(first[1]) => HasKeys(claude)
        /\ codex = first[2] \/ (Written(first[2], codex) /\ ~HasOdd(first[2]))
        /\ config = first[3] \/ Turned(first[3], config)
        /\ HeldInv

\* A file that is read.
LEMMA FileMeans ==
    ASSUME HookAssumption, NEW f \in HookFile
    PROVE  /\ f.matchers \in Matchers /\ f.odd \in BOOLEAN /\ f.keys \in BOOLEAN
           /\ MatchersOf(f) = f.matchers
           /\ HasOdd(f) <=> f.odd
           /\ HasKeys(f) <=> f.keys
<1>1. f # None /\ f # Garbage
  BY DEF HookAssumption
<1>2. f.matchers \in Matchers /\ f.odd \in BOOLEAN /\ f.keys \in BOOLEAN
  BY DEF HookFile
<1>3. MatchersOf(f) = f.matchers
  BY <1>1 DEF MatchersOf
<1>4. HasOdd(f) <=> f.odd
  BY <1>1 DEF HasOdd
<1>5. HasKeys(f) <=> f.keys
  BY <1>1 DEF HasKeys
<1> QED
  BY <1>2, <1>3, <1>4, <1>5

LEMMA HooksLists ==
    ASSUME HookAssumption, NEW f \in Contents
    PROVE  MatchersOf(f) \in Matchers
<1>1. <<>> \in Matchers
  BY DEF Matchers
<1>2. CASE f \in HookFile
  BY <1>2, FileMeans
<1>3. CASE f \in {None, Garbage}
  BY <1>1, <1>3 DEF MatchersOf
<1> QED
  BY <1>2, <1>3 DEF Contents

\* What is held of a file.
LEMMA BlankIsFile ==
    ASSUME NEW m \in Matchers, NEW k \in BOOLEAN, NEW h,
           h = [matchers |-> m, extras |-> FALSE, odd |-> FALSE, keys |-> k]
    PROVE  h \in HookFile /\ h.matchers = m /\ h.keys = k /\ ~h.odd /\ ~h.extras
BY DEF HookFile

LEMMA ClaudeIsHeld ==
    ASSUME HookAssumption, NEW f \in Contents, f # Garbage, NEW h, h = ClaudeHeld(f)
    PROVE  /\ h \in HookFile /\ ~h.odd /\ ~h.extras
           /\ HasKeys(f) => h.keys
           /\ HasOdd(f) \/ h.matchers = MatchersOf(f)
<1>1. PICK m \in Matchers : m = IF HasOdd(f) THEN <<>> ELSE MatchersOf(f)
  <2>1. <<>> \in Matchers
    BY DEF Matchers
  <2> QED
    BY <2>1, HooksLists
<1>2. PICK k \in BOOLEAN : k = HasKeys(f)
  <2>1. HasKeys(f) \in BOOLEAN
    BY DEF HasKeys
  <2> QED
    BY <2>1
<1>3. h = [matchers |-> m, extras |-> FALSE, odd |-> FALSE, keys |-> k]
  <2>1. CASE f = None
    <3>1. m = <<>> /\ k = FALSE
      BY <1>1, <1>2, <2>1 DEF HasOdd, HasKeys, MatchersOf
    <3> QED
      BY <2>1, <3>1 DEF ClaudeHeld, Blank
  <2>2. CASE f # None
    <3>1. f \in HookFile /\ f.keys \in BOOLEAN
      BY <2>2 DEF Contents, HookFile
    <3>2. m = IF f.odd THEN <<>> ELSE f.matchers
      BY <1>1, <3>1, FileMeans
    <3>3. k <=> f.keys
      BY <1>2, <3>1, FileMeans
    <3>4. k = f.keys
      BY <1>2, <3>1, <3>3
    <3>5. h = [Blank EXCEPT !.matchers = m, !.keys = k]
      BY <2>2, <3>2, <3>4 DEF ClaudeHeld
    <3> QED
      BY <3>5 DEF Blank
  <2> QED
    BY <2>1, <2>2
<1>4. h \in HookFile /\ h.matchers = m /\ h.keys = k /\ ~h.odd /\ ~h.extras
  BY <1>3, BlankIsFile
<1> QED
  BY <1>1, <1>2, <1>4

LEMMA CodexIsHeld ==
    ASSUME HookAssumption, NEW f \in Contents, f # Garbage, NEW h, h = CodexHeld(f)
    PROVE  h \in HookFile /\ ~h.odd /\ ~h.extras /\ h.matchers = MatchersOf(f)
<1>1. PICK m \in Matchers : m = MatchersOf(f)
  BY HooksLists
<1>2. h = [matchers |-> m, extras |-> FALSE, odd |-> FALSE, keys |-> FALSE]
  <2>1. CASE f = None
    <3>1. m = <<>>
      BY <1>1, <2>1 DEF MatchersOf
    <3> QED
      BY <2>1, <3>1 DEF CodexHeld, Blank
  <2>2. CASE f # None
    <3>1. m = f.matchers
      BY <1>1, <2>2 DEF MatchersOf
    <3> QED
      BY <2>2, <3>1 DEF CodexHeld, Blank
  <2> QED
    BY <2>1, <2>2
<1>3. h \in HookFile /\ h.matchers = m /\ ~h.odd /\ ~h.extras
  BY <1>2, BlankIsFile
<1> QED
  BY <1>1, <1>3

\* The file that is written, of what was held.
LEMMA InstalledIs ==
    ASSUME HookAssumption, NEW h \in HookFile, NEW c \in Managed, NEW r, r = Installed(h, c)
    PROVE  /\ r \in HookFile /\ r.odd = h.odd /\ r.keys = h.keys
           /\ Ensured(h.matchers, r.matchers)
           /\ MatchersOf(r) = r.matchers
<1>1. PICK m \in Matchers : m = h.matchers
  BY DEF HookFile
<1>2. PICK e : e = EnsureHookEntry(m, c)
  OBVIOUS
<1>3. Ensured(m, e) /\ e \in Matchers
  <2>1. Ensured(m, e)
    BY <1>2, EnsureEnsures
  <2> QED
    BY <2>1 DEF Ensured
<1>4. r = [h EXCEPT !.matchers = e]
  BY <1>1, <1>2 DEF Installed
<1>5. r \in HookFile
  BY <1>3, <1>4, ZenonT(40) DEF HookFile
<1>6. r.odd = h.odd /\ r.keys = h.keys /\ r.matchers = e
  BY <1>4 DEF HookFile
<1>7. MatchersOf(r) = r.matchers
  BY <1>5, FileMeans
<1> QED
  BY <1>1, <1>3, <1>5, <1>6, <1>7

LEMMA LinesLists ==
    ASSUME NEW f \in Seq(Texts) \cup {None}
    PROVE  LinesOf(f) \in Seq(Texts)
<1>1. <<>> \in Seq(Texts)
  OBVIOUS
<1> QED
  BY <1>1 DEF LinesOf

\* What is written keeps to the promise, the first time and the times after, if what was
\* held are the matchers of the file or the event had an odd entry.
LEMMA WritesHooks ==
    ASSUME HookAssumption, NEW before \in Contents, NEW now \in Contents, NEW c \in Managed,
           now = before \/ Written(before, now),
           NEW h \in HookFile, ~h.odd, HasOdd(now) \/ h.matchers = MatchersOf(now),
           NEW r, r = Installed(h, c)
    PROVE  Written(before, r)
<1>1. PICK m \in Matchers : m = MatchersOf(now)
  BY HooksLists
<1>2. PICK b \in Matchers : b = MatchersOf(before)
  BY HooksLists
<1>3. PICK e : e = r.matchers
  OBVIOUS
<1>4. r \in HookFile /\ ~r.odd /\ Ensured(h.matchers, e) /\ MatchersOf(r) = e
  BY <1>3, InstalledIs
<1>5. Len(Keep(CommandsOf(r), Managed)) = 1
  BY <1>4 DEF Ensured, CommandsOf
<1>6. ASSUME ~HasOdd(before) PROVE KeepsOthers(before, r)
  <2>1. ~HasOdd(now)
    <3>1. Written(before, now) => now \in HookFile /\ ~now.odd
      BY DEF Written
    <3> QED
      BY <1>6, <3>1, FileMeans
  <2>2. h.matchers = m
    BY <1>1, <2>1
  <2>3. Ensured(m, e) /\ e \in Matchers
    BY <1>4, <2>2 DEF Ensured
  <2>4. now = before \/ KeepsOthers(before, now)
    BY <1>6 DEF Written
  <2>5. OthersOf(CommandsOf(now)) = OthersOf(CommandsOf(before))
    BY <2>4 DEF KeepsOthers
  <2>6. OthersOf(CommandsOf(r)) = OthersOf(CommandsOf(before))
    <3>1. Keep(FlattenSeq(e), Others) = Keep(FlattenSeq(m), Others)
      BY <2>3 DEF Ensured
    <3>2. OthersOf(CommandsOf(r)) = OthersOf(CommandsOf(now))
      BY <1>1, <1>4, <3>1 DEF OthersOf, CommandsOf, Others
    <3> QED
      BY <2>5, <3>2
  <2>7. Len(m) \in Nat /\ Len(b) \in Nat
    BY DEF Matchers
  <2>8. Len(e) \in Len(b) .. Len(b) + 1
    <3>1. CASE now = before
      BY <1>1, <1>2, <2>3, <2>7, <3>1 DEF Ensured
    <3>2. CASE now # before
      <4>1. Written(before, now) /\ KeepsOthers(before, now)
        BY <2>4, <3>2
      <4>2. Len(Keep(FlattenSeq(m), Managed)) = 1
        BY <1>1, <4>1 DEF Written, CommandsOf
      <4>3. Len(m) \in Len(b) .. Len(b) + 1
        BY <1>1, <1>2, <4>1 DEF KeepsOthers
      <4>4. Holding(m) # {}
        BY <4>2, HoldsIt
      <4>5. Len(e) = Len(m)
        BY <2>3, <4>4 DEF Ensured
      <4> QED
        BY <4>3, <4>5
    <3> QED
      BY <3>1, <3>2
  <2> QED
    BY <1>2, <1>4, <2>6, <2>8 DEF KeepsOthers
<1> QED
  BY <1>4, <1>5, <1>6 DEF Written

\* What is merged once more stays what it was.
LEMMA MergesLines ==
    ASSUME HookAssumption, NEW before \in Seq(Texts) \cup {None},
           NEW now \in Seq(Texts) \cup {None}, now = before \/ Turned(before, now)
    PROVE  Turned(before, MergeFeature(LinesOf(now)))
<1>1. PICK b \in Seq(Texts) : b = LinesOf(before)
  BY LinesLists
<1>2. PICK n \in Seq(Texts) : n = LinesOf(now)
  BY LinesLists
<1>3. PICK r \in Seq(Texts) : r = MergeFeature(n)
  BY MergeType
<1>4. ASSUME Mergeable(b) PROVE Merged(b, r)
  <2>1. CASE now = before
    BY <1>1, <1>2, <1>3, <1>4, <2>1, MergeMerges
  <2>2. CASE now # before
    <3>1. now = n /\ Merged(b, n)
      <4>1. Turned(before, now)
        BY <2>2
      <4>2. None \notin Seq(Texts)
        BY DEF HookAssumption
      <4>3. now = n
        BY <1>2, <4>1, <4>2 DEF Turned, LinesOf
      <4> QED
        BY <1>1, <1>4, <4>1, <4>3 DEF Turned
    <3>2. Mergeable(n) /\ On(n)
      BY <3>1 DEF Merged
    <3>3. Merged(n, r)
      BY <1>3, <3>2, MergeMerges
    <3>4. HasTable(n)
      <4>1. PICK p \in 1..Len(n) : Value(n, p)
        BY <3>2 DEF On
      <4>2. PICK f \in 1..p : n[f] = "[features]"
        BY <4>1 DEF Value, InTable
      <4>3. f \in 1..Len(n)
        OBVIOUS
      <4> QED
        BY <4>2, <4>3 DEF HasTable
    <3> QED
      BY <3>1, <3>3, <3>4 DEF Merged
  <2> QED
    BY <2>1, <2>2
<1> QED
  BY <1>1, <1>2, <1>3, <1>4 DEF Turned

\* Where the hooks are turned on, TOML reads it so, and the other lines are there.
LEMMA TurnedMeans ==
    ASSUME HookAssumption, NEW b \in Seq(Texts), NEW r, Merged(b, r)
    PROVE  /\ Valid(r) /\ \E i \in Values(r) : r[i] = "hooks = true"
           /\ Rest(b) \in {Rest(r), Keep(Rest(r), Texts \ {"[features]"})}
<1>1. r \in Seq(Texts) /\ Mergeable(r) /\ On(r)
  BY DEF Merged, Mergeable
<1>2. PICK p \in 1..Len(r) : r[p] = "hooks = true" /\ Value(r, p)
  BY <1>1 DEF On
<1>3. p \in Values(r)
  BY <1>1, <1>2, ValidMeans DEF Mergeable
<1>4. Valid(r)
  <2>1. ASSUME NEW i \in Values(r), NEW j \in Values(r) PROVE i = j
    <3>1. Value(r, i) /\ Value(r, j)
      BY <1>1, ValidMeans DEF Mergeable
    <3> QED
      BY <1>1, <3>1 DEF Mergeable, Value
  <2> QED
    BY <1>1, <2>1, ValidMeans DEF Mergeable
<1>5. CASE HasTable(b)
  BY <1>2, <1>3, <1>4, <1>5 DEF Merged
<1>6. CASE ~HasTable(b)
  <2>1. PICK a \in Texts : a = "[features]"
    BY DEF HookAssumption
  <2>2. PICK S : S = Texts \ Settings
    OBVIOUS
  <2>3. PICK T : T = Texts \ {a}
    OBVIOUS
  <2>4. PICK q \in Seq(Texts) : q = Keep(b, S) /\ ToSet(q) = ToSet(b) \cap S
    BY KeepSet
  <2>5. Rest(b) = q /\ Rest(r) = Append(q, a)
    BY <1>6, <2>1, <2>2, <2>4 DEF Merged, Rest
  <2>6. a \notin ToSet(b)
    <3>1. ToSet(b) = {b[i] : i \in 1..Len(b)}
      BY DEF ToSet
    <3> QED
      BY <1>6, <2>1, <3>1 DEF HasTable
  <2>7. ToSet(q) \subseteq T
    BY <2>2, <2>3, <2>4, <2>6
  <2>8. a \notin T
    BY <2>3
  <2>9. PICK z : z = Append(q, a)
    OBVIOUS
  <2>10. Keep(z, T) = Keep(q, T)
    BY <2>8, <2>9, OneMore
  <2>11. Keep(q, T) = q
    BY <2>7, KeepEvery
  <2> QED
    BY <1>2, <1>3, <1>4, <2>1, <2>3, <2>5, <2>9, <2>10, <2>11
<1> QED
  BY <1>5, <1>6

\* What the merge and the hook are made of.
LEMMA HookConstants ==
    ASSUME HookAssumption
    PROVE  /\ "notify" \in Texts /\ Managed \subseteq Texts
           /\ Hooks \subseteq HookFile /\ Configs \subseteq Seq(Texts)
           /\ None \notin HookFile /\ Garbage \notin HookFile
           /\ None \notin Seq(Texts) /\ Garbage \notin Seq(Texts)
           /\ <<>> \in Seq(Texts) /\ MaxRuns \in Nat
<1>1. "notify" \in Texts /\ Managed \subseteq Texts
  <2>1. /\ "notify" \in Managed \cup {"[features]", "notify"} \cup Settings
        /\ Managed \subseteq Managed \cup {"[features]", "notify"} \cup Settings
    OBVIOUS
  <2> QED
    BY <2>1 DEF HookAssumption
<1>2. <<>> \in Seq(Texts)
  OBVIOUS
<1>3. /\ None \notin HookFile /\ Garbage \notin HookFile
      /\ None \notin Seq(Texts) /\ Garbage \notin Seq(Texts)
  BY DEF HookAssumption
<1> QED
  BY <1>1, <1>2, <1>3 DEF HookAssumption

LEMMA HookTypesInit ==
    ASSUME HookAssumption, HookInit
    PROVE  HookTypes
<1>1. first = <<claude, codex, config>> /\ doing = "start" /\ command = None /\ runs = 0
  BY DEF HookInit, files
<1>2. claude \in Contents /\ codex \in Contents /\ config \in Seq(Texts) \cup {None}
  BY HookConstants DEF HookInit, Contents
<1>3. first[1] = claude /\ first[2] = codex /\ first[3] = config
  BY <1>1
<1>4. HookTypeOK
  BY <1>1, HookConstants DEF HookTypeOK
<1> QED
  BY <1>1, <1>2, <1>3, <1>4 DEF HookTypes

\* What an action that reads or writes does to the label, and what it leaves alone.
LEMMA HookTypesNext ==
    ASSUME HookAssumption, HookTypes, [HookNext]_hookVars
    PROVE  HookTypes'
<1>0. /\ doing \in {"start", "claude", "both", "codex", "config", "saveClaude", "saveBoth",
                 "saveCodex", "saveConfig", "ok", "failed"}
      /\ command \in Managed \cup {None} /\ runs \in 0..MaxRuns
      /\ claude \in Contents /\ codex \in Contents /\ config \in Seq(Texts) \cup {None}
      /\ first[1] \in Contents /\ first[2] \in Contents /\ first[3] \in Seq(Texts) \cup {None}
      /\ doing # "start" => command \in Managed
      /\ doing \in {"saveClaude", "saveBoth", "saveCodex"} =>
             held \in HookFile /\ ~held.odd /\ ~held.extras
      /\ doing = "saveConfig" => held \in Seq(Texts)
  BY DEF HookTypes, HookTypeOK
<1> DEFINE Goal ==
        /\ doing' \in {"start", "claude", "both", "codex", "config", "saveClaude", "saveBoth",
                    "saveCodex", "saveConfig", "ok", "failed"}
        /\ command' \in Managed \cup {None} /\ runs' \in 0..MaxRuns
        /\ claude' \in Contents /\ codex' \in Contents /\ config' \in Seq(Texts) \cup {None}
        /\ first' = first
        /\ doing' # "start" => command' \in Managed
        /\ doing' \in {"saveClaude", "saveBoth", "saveCodex"} =>
               held' \in HookFile /\ ~held'.odd /\ ~held'.extras
        /\ doing' = "saveConfig" => held' \in Seq(Texts)
<1>1. SUFFICES Goal
  <2>1. first' = first => /\ first'[1] \in Contents /\ first'[2] \in Contents
                          /\ first'[3] \in Seq(Texts) \cup {None}
    BY <1>0
  <2> QED
    BY <2>1, HookConstants DEF HookTypes, HookTypeOK
<1>2. CASE UNCHANGED hookVars
  BY <1>0, <1>2 DEF hookVars, files
<1>3. ASSUME NEW c \in Managed, NEW target \in {"claude", "codex", "both"}, RunInit(c, target)
      PROVE  Goal
  <2>1. runs' \in 0..MaxRuns
    BY <1>0, <1>3, HookConstants DEF RunInit
  <2> QED
    BY <1>0, <1>3, <2>1 DEF RunInit, files
<1>4. CASE ReadClaude
  <2>1. PICK h : h = ClaudeHeld(claude)
    OBVIOUS
  <2>2. claude # Garbage => h \in HookFile /\ ~h.odd /\ ~h.extras
    BY <1>0, <2>1, ClaudeIsHeld
  <2>3. \/ /\ claude # Garbage /\ held' = h /\ doing' \in {"saveClaude", "saveBoth"}
           /\ doing # "start"
        \/ doing' = "failed" /\ doing # "start"
    BY <1>4, <2>1 DEF ReadClaude, Proceed
  <2>4. UNCHANGED <<claude, codex, config, command, runs, first>>
    BY <1>4 DEF ReadClaude, Proceed, files
  <2> QED
    BY <1>0, <2>2, <2>3, <2>4
<1>5. CASE ReadCodex
  <2>1. PICK h : h = CodexHeld(codex)
    OBVIOUS
  <2>2. codex # Garbage => h \in HookFile /\ ~h.odd /\ ~h.extras
    BY <1>0, <2>1, CodexIsHeld
  <2>3. \/ codex # Garbage /\ held' = h /\ doing' = "saveCodex" /\ doing # "start"
        \/ doing' = "failed" /\ doing # "start"
    BY <1>5, <2>1 DEF ReadCodex, Proceed
  <2>4. UNCHANGED <<claude, codex, config, command, runs, first>>
    BY <1>5 DEF ReadCodex, Proceed, files
  <2> QED
    BY <1>0, <2>2, <2>3, <2>4
<1>6. CASE ReadConfig
  <2>1. LinesOf(config) \in Seq(Texts)
    BY <1>0, LinesLists
  <2> QED
    BY <1>0, <1>6, <2>1 DEF ReadConfig, Proceed, files
<1>7. CASE SaveClaude
  <2>1. Installed(held, command) \in Contents
    <3>1. held \in HookFile /\ command \in Managed
      BY <1>0, <1>7 DEF SaveClaude
    <3> QED
      BY <3>1, InstalledIs DEF Contents
  <2> QED
    BY <1>0, <1>7, <2>1 DEF SaveClaude, Proceed
<1>8. CASE SaveCodex
  <2>1. Installed(held, command) \in Contents
    <3>1. held \in HookFile /\ command \in Managed
      BY <1>0, <1>8 DEF SaveCodex
    <3> QED
      BY <3>1, InstalledIs DEF Contents
  <2> QED
    BY <1>0, <1>8, <2>1 DEF SaveCodex, Proceed
<1>9. CASE SaveConfig
  <2>1. MergeFeature(held) \in Seq(Texts)
    <3>1. held \in Seq(Texts)
      BY <1>0, <1>9 DEF SaveConfig
    <3> QED
      BY <3>1, MergeType
  <2> QED
    BY <1>0, <1>9, <2>1 DEF SaveConfig, Proceed
<1>10. CASE CutShort
  <2>1. Garbage \in Contents /\ <<>> \in Seq(Texts)
    BY DEF Contents
  <2> QED
    BY <1>0, <1>10, <2>1 DEF CutShort
<1>11. CASE Edit
  <2>1. [claude EXCEPT !.matchers = Append(@, <<"notify">>)] \in Contents
    <3>1. claude \in HookFile
      BY <1>0, <1>11 DEF Edit, Contents
    <3>2. PICK x \in Seq(Texts) : x = <<"notify">>
      <4>1. PICK a \in Texts : a = "notify"
        BY HookConstants
      <4>2. <<a>> \in Seq(Texts)
        OBVIOUS
      <4> QED
        BY <4>1, <4>2
    <3>3. PICK m \in Seq(Seq(Texts)) : m = claude.matchers
      BY <3>1 DEF HookFile, Matchers
    <3>4. Append(m, x) \in Seq(Seq(Texts))
      OBVIOUS
    <3>5. PICK y \in Matchers : y = Append(claude.matchers, <<"notify">>)
      BY <3>2, <3>3, <3>4 DEF Matchers
    <3>6. [claude EXCEPT !.matchers = y] \in HookFile
      BY <3>1, ZenonT(40) DEF HookFile
    <3> QED
      BY <3>5, <3>6 DEF Contents
  <2> QED
    BY <1>0, <1>11, <2>1 DEF Edit
<1> QED
  BY <1>2, <1>3, <1>4, <1>5, <1>6, <1>7, <1>8, <1>9, <1>10, <1>11 DEF HookNext

\* The history starts with the files, and nothing is held yet.
LEMMA HookInvInit ==
    ASSUME HookInit
    PROVE  HookInv
<1>1. first[1] = claude /\ first[2] = codex /\ first[3] = config /\ doing = "start"
  BY DEF HookInit, files
<1> QED
  BY <1>1 DEF HookInv, HeldInv

\* Reading holds what the file has; writing what was held keeps the promise; an edit
\* and a write that is cut short end it.
LEMMA HookInvNext ==
    ASSUME HookAssumption, HookTypes, HookInv, [HookNext]_hookVars
    PROVE  HookInv'
<1> DEFINE Goal == /\ claude' = first'[1] \/ Written(first'[1], claude')
                   /\ HasKeys(first'[1]) => HasKeys(claude')
                   /\ codex' = first'[2] \/ (Written(first'[2], codex') /\ ~HasOdd(first'[2]))
                   /\ config' = first'[3] \/ Turned(first'[3], config')
                   /\ HeldInv'
<1> SUFFICES ASSUME ~touched' PROVE Goal
  BY DEF HookInv
<1> DEFINE Same == first' = first /\ claude' = claude /\ codex' = codex /\ config' = config
<1>1. /\ claude \in Contents /\ codex \in Contents /\ config \in Seq(Texts) \cup {None}
      /\ first[1] \in Contents /\ first[2] \in Contents /\ first[3] \in Seq(Texts) \cup {None}
      /\ doing # "start" => command \in Managed
  BY DEF HookTypes
<1>2. ~touched => /\ claude = first[1] \/ Written(first[1], claude)
                  /\ HasKeys(first[1]) => HasKeys(claude)
                  /\ codex = first[2] \/ (Written(first[2], codex) /\ ~HasOdd(first[2]))
                  /\ config = first[3] \/ Turned(first[3], config)
                  /\ HeldInv
  BY DEF HookInv
<1>3. ASSUME ~touched, Same, HeldInv' PROVE Goal
  <2>1. first'[1] = first[1] /\ first'[2] = first[2] /\ first'[3] = first[3]
    BY <1>3
  <2> QED
    BY <1>2, <1>3, <2>1
<1>4. CASE UNCHANGED hookVars
  <2>1. ~touched /\ Same
    BY <1>4 DEF hookVars, files
  <2>2. HeldInv'
    BY <1>2, <1>4, <2>1 DEF HeldInv, hookVars, files
  <2> QED
    BY <1>3, <2>1, <2>2
<1>5. ASSUME NEW c \in Managed, NEW target \in {"claude", "codex", "both"}, RunInit(c, target)
      PROVE  Goal
  <2>1. ~touched /\ Same /\ doing' \in {"claude", "codex", "both"}
    BY <1>5 DEF RunInit, files
  <2>2. HeldInv'
    BY <2>1 DEF HeldInv
  <2> QED
    BY <1>3, <2>1, <2>2
<1>6. CASE ReadClaude
  <2>1. ~touched /\ Same
    BY <1>6 DEF ReadClaude, Proceed, files
  <2>2. \/ doing' \in {"saveBoth", "saveClaude"} /\ claude # Garbage /\ held' = ClaudeHeld(claude)
        \/ doing' = "failed"
    BY <1>6 DEF ReadClaude, Proceed
  <2>3. HeldInv'
    BY <2>1, <2>2 DEF HeldInv
  <2> QED
    BY <1>3, <2>1, <2>3
<1>7. CASE ReadCodex
  <2>1. ~touched /\ Same
    BY <1>7 DEF ReadCodex, Proceed, files
  <2>2. \/ doing' = "saveCodex" /\ codex # Garbage /\ ~HasOdd(codex) /\ held' = CodexHeld(codex)
        \/ doing' = "failed"
    BY <1>7 DEF ReadCodex, Proceed
  <2>3. HeldInv'
    BY <2>1, <2>2 DEF HeldInv
  <2> QED
    BY <1>3, <2>1, <2>3
<1>8. CASE ReadConfig
  <2>1. ~touched /\ Same
    BY <1>8 DEF ReadConfig, Proceed, files
  <2>2. (doing' = "saveConfig" /\ held' = LinesOf(config)) \/ doing' = "failed"
    BY <1>8 DEF ReadConfig, Proceed
  <2>3. HeldInv'
    BY <2>1, <2>2 DEF HeldInv
  <2> QED
    BY <1>3, <2>1, <2>3
<1>9. CASE SaveClaude
  <2>1. /\ ~touched /\ first' = first /\ codex' = codex /\ config' = config
        /\ doing' \in {"codex", "ok", "failed"} /\ doing \in {"saveClaude", "saveBoth"}
        /\ claude' = Installed(held, command) \/ claude' = claude
    BY <1>9 DEF SaveClaude, Proceed
  <2>2. HeldInv'
    BY <2>1 DEF HeldInv
  <2>3. CASE claude' = claude
    BY <1>3, <2>1, <2>2, <2>3
  <2>4. CASE claude' = Installed(held, command)
    <3>1. claude # Garbage /\ held = ClaudeHeld(claude) /\ command \in Managed
      BY <1>1, <1>2, <2>1 DEF HeldInv
    <3>2. PICK h : h = held
      OBVIOUS
    <3>3. /\ h \in HookFile /\ ~h.odd
          /\ HasKeys(claude) => h.keys
          /\ HasOdd(claude) \/ h.matchers = MatchersOf(claude)
      BY <1>1, <3>1, <3>2, ClaudeIsHeld
    <3>4. PICK r : r = Installed(h, command)
      OBVIOUS
    <3>5. Written(first[1], r)
      BY <1>1, <1>2, <2>1, <3>1, <3>3, <3>4, WritesHooks
    <3>6. HasKeys(claude) => HasKeys(r)
      <4>1. r \in HookFile /\ r.keys = h.keys
        BY <3>1, <3>3, <3>4, InstalledIs
      <4>2. HasKeys(r) <=> r.keys
        BY <4>1, FileMeans
      <4> QED
        BY <3>3, <4>1, <4>2
    <3>7. claude' = r
      BY <2>4, <3>2, <3>4
    <3> QED
      BY <1>2, <2>1, <2>2, <3>5, <3>6, <3>7
  <2> QED
    BY <2>1, <2>3, <2>4
<1>10. CASE SaveCodex
  <2>1. /\ ~touched /\ first' = first /\ claude' = claude /\ config' = config
        /\ doing' \in {"config", "failed"} /\ doing = "saveCodex"
        /\ codex' = Installed(held, command) \/ codex' = codex
    BY <1>10 DEF SaveCodex, Proceed
  <2>2. HeldInv'
    BY <2>1 DEF HeldInv
  <2>3. CASE codex' = codex
    BY <1>3, <2>1, <2>2, <2>3
  <2>4. CASE codex' = Installed(held, command)
    <3>1. codex # Garbage /\ ~HasOdd(codex) /\ held = CodexHeld(codex) /\ command \in Managed
      BY <1>1, <1>2, <2>1 DEF HeldInv
    <3>2. PICK h : h = held
      OBVIOUS
    <3>3. h \in HookFile /\ ~h.odd /\ h.matchers = MatchersOf(codex)
      BY <1>1, <3>1, <3>2, CodexIsHeld
    <3>4. PICK r : r = Installed(h, command)
      OBVIOUS
    <3>5. codex = first[2] \/ (Written(first[2], codex) /\ ~HasOdd(first[2]))
      BY <1>2, <2>1
    <3>6. Written(first[2], r)
      BY <1>1, <3>1, <3>3, <3>4, <3>5, WritesHooks
    <3>7. codex' = r /\ ~HasOdd(first[2])
      BY <2>4, <3>1, <3>2, <3>4, <3>5
    <3> QED
      BY <1>2, <2>1, <2>2, <3>6, <3>7
  <2> QED
    BY <2>1, <2>3, <2>4
<1>11. CASE SaveConfig
  <2>1. /\ ~touched /\ first' = first /\ claude' = claude /\ codex' = codex
        /\ doing' \in {"ok", "failed"} /\ doing = "saveConfig"
        /\ config' = MergeFeature(held) \/ config' = config
    BY <1>11 DEF SaveConfig, Proceed
  <2>2. HeldInv'
    BY <2>1 DEF HeldInv
  <2>3. CASE config' = config
    BY <1>3, <2>1, <2>2, <2>3
  <2>4. CASE config' = MergeFeature(held)
    <3>1. held = LinesOf(config)
      BY <1>2, <2>1 DEF HeldInv
    <3>2. Turned(first[3], config')
      BY <1>1, <1>2, <2>1, <2>4, <3>1, MergesLines
    <3> QED
      BY <1>2, <2>1, <2>2, <3>2
  <2> QED
    BY <2>1, <2>3, <2>4
<1>12. CASE CutShort
  BY <1>12 DEF CutShort
<1>13. CASE Edit
  BY <1>13 DEF Edit
<1> QED
  BY <1>4, <1>5, <1>6, <1>7, <1>8, <1>9, <1>10, <1>11, <1>12, <1>13 DEF HookNext

\* A file that was written, or was not, holds the hook once and the hooks of others.
LEMMA WrittenKeeps ==
    ASSUME HookAssumption, NEW before \in Contents, NEW now \in Contents,
           now = before \/ Written(before, now)
    PROVE  /\ Installs(before, now)
           /\ (HasOdd(before) /\ now # before) \/ KeepsOthers(before, now)
<1>1. PICK n \in Nat : n = Len(MatchersOf(before))
  <2>1. MatchersOf(before) \in Seq(Seq(Texts))
    BY HooksLists DEF Matchers
  <2> QED
    BY <2>1
<1>2. n \in n .. n + 1
  OBVIOUS
<1>3. CASE now = before
  BY <1>1, <1>2, <1>3 DEF KeepsOthers, Installs
<1>4. CASE now # before
  BY <1>4 DEF Written, Installs
<1> QED
  BY <1>3, <1>4

LEMMA TurnedTurnsOn ==
    ASSUME HookAssumption, HookTypes, HookInv
    PROVE  CodexHooksOn
<1>1. PICK b \in Seq(Texts) : b = LinesOf(first[3])
  BY LinesLists DEF HookTypes
<1> SUFFICES ASSUME config # first[3], ~touched, Valid(b), \A l \in ToSet(b) : ~Misread(l)
             PROVE  /\ Valid(config) /\ \E i \in Values(config) : config[i] = "hooks = true"
                    /\ Rest(b) \in {Rest(config), Keep(Rest(config), Texts \ {"[features]"})}
  BY <1>1 DEF CodexHooksOn, Rest
<1>2. Turned(first[3], config)
  BY DEF HookInv
<1>3. Mergeable(b)
  <2>1. Clear(b)
    BY DEF Clear, ToSet
  <2>2. Single(b) /\ \A i, j \in Values(b) : i = j
    BY <2>1, ValidMeans
  <2>3. \A i, j \in 1..Len(b) : Value(b, i) /\ Value(b, j) => i = j
    BY <2>1, <2>2, ValidMeans
  <2> QED
    BY <2>1, <2>2, <2>3 DEF Mergeable
<1>4. Merged(b, config)
  BY <1>1, <1>2, <1>3 DEF Turned
<1> QED
  BY <1>4, TurnedMeans

\* Labels keep their ranges, and every write is of what has been read and understood:
\* loadJSONFile and loadCodexHooksFile give up on what they cannot read.
THEOREM HookTypeCorrect ==
    ASSUME HookAssumption
    PROVE  HookSpec => []HookTypeOK
<1>1. HookInit => HookTypes
  BY HookTypesInit
<1>2. HookTypes /\ [HookNext]_hookVars => HookTypes'
  BY HookTypesNext
<1>3. HookTypes => HookTypeOK
  BY DEF HookTypes
<1> QED
  BY <1>1, <1>2, <1>3, PTL DEF HookSpec

LEMMA HookInvariant ==
    ASSUME HookAssumption
    PROVE  HookSpec => [](HookTypes /\ HookInv)
<1>1. HookInit => HookTypes /\ HookInv
  BY HookTypesInit, HookInvInit
<1>2. HookTypes /\ HookInv /\ [HookNext]_hookVars => (HookTypes /\ HookInv)'
  BY HookTypesNext, HookInvNext
<1> QED
  BY <1>1, <1>2, PTL DEF HookSpec

\* However often init runs, and whichever runs fail, each hook file keeps the commands of
\* others in their order, unless a Claude event had an odd entry, and holds that of
\* way-island once when it has been written; Claude's other settings stay
\* (ensureClaudeHookEntry, ensureCodexHookEntry, saveJSONFile).
THEOREM HooksKept ==
    ASSUME HookAssumption
    PROVE  HookSpec => []OneHookBesideOthers
<1>1. ASSUME HookTypes, HookInv PROVE OneHookBesideOthers
  <2> SUFFICES ASSUME ~touched
               PROVE  /\ Installs(first[1], claude) /\ Installs(first[2], codex)
                      /\ KeepsOthers(first[2], codex)
                      /\ HasOdd(first[1]) \/ KeepsOthers(first[1], claude)
                      /\ HasKeys(first[1]) => HasKeys(claude)
    BY DEF OneHookBesideOthers
  <2>1. /\ claude \in Contents /\ codex \in Contents
        /\ first[1] \in Contents /\ first[2] \in Contents
    BY <1>1 DEF HookTypes
  <2>2. /\ claude = first[1] \/ Written(first[1], claude)
        /\ HasKeys(first[1]) => HasKeys(claude)
        /\ codex = first[2] \/ (Written(first[2], codex) /\ ~HasOdd(first[2]))
    BY <1>1 DEF HookInv
  <2> QED
    BY <2>1, <2>2, WrittenKeeps
<1> QED
  BY <1>1, HookInvariant, PTL

\* A config.toml without a line that the code takes for something else than TOML does has,
\* when init has changed it, the hooks of Codex turned on, once and in the one table, and
\* every other line as it was (mergeCodexHooksFeature).
THEOREM CodexTurnedOn ==
    ASSUME HookAssumption
    PROVE  HookSpec => []CodexHooksOn
<1>1. HookTypes /\ HookInv => CodexHooksOn
  BY TurnedTurnsOn
<1> QED
  BY <1>1, HookInvariant, PTL

-----------------------------------------------------------------------------
(* The questions.                                                          *)

\* A question stays what it was.
Asked ==
    /\ about \in {"window", "pane", "view"} \/ about = None
    /\ about = "window" => question \in WindowQuestions
    /\ about = "pane" => question \in PaneQuestions
    /\ about = "view" => question \in ViewQuestions

LEMMA QuestionInvariant == QuestionSpec => []Asked
<1>1. QuestionInit => Asked
  BY DEF QuestionInit, Asked
<1>2. Asked /\ [UNCHANGED questionVars]_questionVars => Asked'
  BY DEF Asked, questionVars
<1> QED
  BY <1>1, <1>2, PTL DEF QuestionSpec

\* For any windows in any order, the one raised is as good as any other by its title,
\* and of those the last (findToplevel).
THEOREM WindowChosenByTitle ==
    ASSUME QuestionAssumption
    PROVE  QuestionSpec => []ChosenByTitle
<1>1. Asked => ChosenByTitle
  <2> SUFFICES ASSUME question \in WindowQuestions
               PROVE  RightWindow(question.windows, question.requested)
    BY DEF Asked, ChosenByTitle
  <2>1. PICK windows, requested, W :
          windows = question.windows /\ requested = question.requested /\ W = ToSet(windows)
    OBVIOUS
  <2>2. AreWindows(W) /\ windows \in Seq(W) /\ requested \in Seq(Nat)
    BY <2>1 DEF QuestionAssumption, IsList
  <2> QED
    BY <2>1, <2>2, WindowRight
<1> QED
  BY <1>1, QuestionInvariant, PTL

\* Whatever processes there are, with numbers used again and parents that cannot be read,
\* the pane found is that of the nearest ancestor within reach that has one (resolvePane).
THEOREM PaneIsNearest ==
    ASSUME QuestionAssumption
    PROVE  QuestionSpec => []NearestPane
<1>1. Asked => NearestPane
  <2> SUFFICES ASSUME question \in PaneQuestions
               PROVE  RightPane(question.pid, question.parent, question.panes)
    BY DEF Asked, NearestPane
  <2>1. PICK pid, parent, panes, P, Q :
          /\ pid = question.pid /\ parent = question.parent /\ panes = question.panes
          /\ P = DOMAIN parent /\ Q = ToSet(panes)
    OBVIOUS
  <2>2. /\ AreProcesses(P, parent) /\ pid \in P /\ ToplevelAssumption
        /\ panes \in Seq(Q) /\ None \notin Q
    BY <2>1 DEF QuestionAssumption, IsList
  <2> QED
    BY <2>1, <2>2, PaneRight
<1> QED
  BY <1>1, QuestionInvariant, PTL

\* For any payload, and whatever is selected and pinned, the badge of the list, the
\* heading of the detail and its rows tell the same subagents (countDirectSubagents).
THEOREM ViewSubagentsAgree ==
    ASSUME QuestionAssumption
    PROVE  QuestionSpec => []SubagentsAgree
<1>1. Asked => SubagentsAgree
  <2> SUFFICES ASSUME question \in ViewQuestions, NEW pinned \in BOOLEAN
               PROVE  SameSubagents(View(question.payload, question.panelView,
                                         question.selected, pinned))
    BY DEF Asked, SubagentsAgree
  <2>1. PICK payload, panelView, selected :
          /\ payload = question.payload
          /\ panelView = question.panelView /\ selected = question.selected
    OBVIOUS
  <2>2. PICK S, B : /\ S = ToSet(payload) \ {None}
                    /\ B = UNION {ToSet(s.subagents) : s \in ToSet(payload) \ {None}}
    OBVIOUS
  <2>3. payload \in Seq(ToSet(payload)) /\ \A s \in S : IsList(s.subagents)
    BY <2>1, <2>2 DEF QuestionAssumption, IsList
  <2>4. payload \in Seq(S \cup {None}) /\ None \notin S
    <3>1. ToSet(payload) \subseteq S \cup {None}
      BY <2>2
    <3> QED
      BY <2>2, <2>3, <3>1
  <2>5. \A s \in S : s.subagents \in Seq(B)
    <3> SUFFICES ASSUME NEW s \in S PROVE s.subagents \in Seq(B)
      OBVIOUS
    <3>1. PICK C : C = ToSet(s.subagents)
      OBVIOUS
    <3>2. s.subagents \in Seq(C)
      BY <2>3, <3>1 DEF IsList
    <3>3. C \subseteq B
      BY <2>2, <3>1
    <3> QED
      BY <3>2, <3>3
  <2> QED
    BY <2>1, <2>4, <2>5, ViewRight
<1> QED
  BY <1>1, QuestionInvariant, PTL
=============================================================================
