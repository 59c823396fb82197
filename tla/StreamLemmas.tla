---------------------------- MODULE StreamLemmas ----------------------------
(***************************************************************************)
(* Facts about the operators that the specifications share: induction for  *)
(* their loops and sums, sequences, the methods of ByteStream, the         *)
(* conversions of WrappingIntegers, the methods of StreamReassembler and   *)
(* the list of rules of an event loop.                                     *)
(***************************************************************************)
EXTENDS StreamReassembler, WrappingIntegers, EventLoop,
        SequenceTheorems, WellFoundedInduction, TLAPS

-----------------------------------------------------------------------------
(* Induction and iteration. *)

\* Every nonempty set of natural numbers has a least element.
LEMMA LeastElement ==
    ASSUME NEW T, T \subseteq Nat, T # {}
    PROVE  /\ Min(T) \in T
           /\ \A y \in T : Min(T) <= y
<1>1. PICK x \in T : \A y \in T : ~ (<<y, x>> \in OpToRel(<, Nat))
  BY WFMin, NatLessThanWellFounded
<1>2. \A y \in T : ~ (y < x)
  BY <1>1 DEF OpToRel
<1>3. \A y \in T : x <= y
  BY <1>2
<1>4. Min(T) = CHOOSE m \in T : \A y \in T : m <= y
  BY DEF Min
<1> QED BY <1>3, <1>4

\* Induction up to n, for the members of a set.
LEMMA InductionUpTo ==
    ASSUME NEW n \in Nat, NEW G, 0 \in G, \A k \in 0 .. n - 1 : k \in G => k + 1 \in G
    PROVE  \A k \in 0 .. n : k \in G
<1> DEFINE T == {k \in 0 .. n : k \notin G}
<1> SUFFICES ASSUME T # {} PROVE FALSE
  OBVIOUS
<1>1. T \subseteq Nat
  OBVIOUS
<1>2. PICK m \in T : \A y \in T : m <= y
  <2> HIDE DEF T
  <2> QED BY <1>1, LeastElement
<1>3. m \in 1 .. n /\ m \notin G
  BY <1>2
<1>4. m - 1 \in 0 .. n - 1 /\ m - 1 \in G
  BY <1>2, <1>3
<1>5. (m - 1) + 1 \in G
  BY <1>4
<1> QED BY <1>3, <1>5

\* g goes from x on by applying F again and again.
Iterates(g, F, x, n) == g[0] = x /\ \A k \in 0 .. n - 1 : g[k + 1] = F[g[k]]

\* A function can be applied again and again.
LEMMA Iteration ==
    ASSUME NEW S, NEW F \in [S -> S], NEW x \in S, NEW n \in Nat
    PROVE  \E g \in [0 .. n -> S] : Iterates(g, F, x, n)
<1> DEFINE G == {m \in 0 .. n : \E g \in [0 .. m -> S] : Iterates(g, F, x, m)}
<1>1. 0 \in G
  <2>1. [k \in 0 .. 0 |-> x] \in [0 .. 0 -> S] /\ Iterates([k \in 0 .. 0 |-> x], F, x, 0)
    BY DEF Iterates
  <2>2. 0 \in 0 .. n
    OBVIOUS
  <2> QED BY <2>1, <2>2
<1>2. ASSUME NEW m \in 0 .. n - 1, m \in G PROVE m + 1 \in G
  <2>1. PICK g \in [0 .. m -> S] : Iterates(g, F, x, m)
    BY <1>2
  <2> DEFINE h == [k \in 0 .. m + 1 |-> IF k = m + 1 THEN F[g[m]] ELSE g[k]]
  <2>2. h \in [0 .. m + 1 -> S]
    OBVIOUS
  <2>3. h[0] = x
    BY <2>1 DEF Iterates
  <2>4. \A k \in 0 .. m : h[k + 1] = F[h[k]]
    BY <2>1 DEF Iterates
  <2>5. Iterates(h, F, x, m + 1)
    <3> HIDE DEF h
    <3>1. (m + 1) - 1 = m
      OBVIOUS
    <3> QED BY <2>3, <2>4, <3>1 DEF Iterates
  <2>6. m + 1 \in 0 .. n
    OBVIOUS
  <2> HIDE DEF h
  <2> QED BY <2>2, <2>5, <2>6
<1>3. n \in G
  <2> HIDE DEF G
  <2>1. \A k \in 0 .. n : k \in G
    BY <1>1, <1>2, InductionUpTo
  <2> QED BY <2>1
<1> QED BY <1>3

\* A recursive definition over 0 .. n that some function satisfies is that
\* function's: both go from one value to the next in the same way.
LEMMA SameIteration ==
    ASSUME NEW n \in Nat, NEW g, NEW h, g[0] = h[0],
           \A k \in 0 .. n - 1 : g[k] = h[k] => g[k + 1] = h[k + 1]
    PROVE  \A k \in 0 .. n : g[k] = h[k]
<1> DEFINE G == {k \in 0 .. n : g[k] = h[k]}
<1>1. 0 \in G /\ \A k \in 0 .. n - 1 : k \in G => k + 1 \in G
  OBVIOUS
<1>2. \A k \in 0 .. n : k \in G
  <2> HIDE DEF G
  <2> QED BY <1>1, InductionUpTo
<1> QED BY <1>2

\* g holds the objects after each round of fetch_valid_data().
FetchRounds(g, x, n) ==
    /\ g[0] = x
    /\ \A k \in 0 .. n - 1 : g[k + 1] = FetchRound(g[k])
    /\ Iterate(FetchRound, x, n) = g[n]

\* The rounds of the loop, one after the other.
LEMMA FetchIterated ==
    ASSUME NEW S, \A r \in S : FetchRound(r) \in S, NEW x \in S, NEW n \in Nat
    PROVE  \E g \in [0 .. n -> S] : FetchRounds(g, x, n)
<1>1. PICK F \in [S -> S] : \A r \in S : F[r] = FetchRound(r)
  <2>1. [r \in S |-> FetchRound(r)] \in [S -> S]
    OBVIOUS
  <2> QED BY <2>1
<1>2. PICK g \in [0 .. n -> S] : Iterates(g, F, x, n)
  BY Iteration
<1>3. \A k \in 0 .. n - 1 : g[k + 1] = FetchRound(g[k])
  <2> SUFFICES ASSUME NEW k \in 0 .. n - 1 PROVE g[k + 1] = FetchRound(g[k])
    OBVIOUS
  <2>1. g[k] \in S
    OBVIOUS
  <2> QED BY <1>1, <1>2, <2>1 DEF Iterates
<1> DEFINE Once(u) == CHOOSE y \in {FetchRound(z) : z \in {u}} : TRUE
           it == CHOOSE h : h = [k \in 0 .. n |-> IF k = 0 THEN x ELSE Once(h[k - 1])]
<1>4. \A u : Once(u) = FetchRound(u)
  OBVIOUS
<1>5. Iterate(FetchRound, x, n) = it[n]
  BY DEF Iterate, Then
<1> HIDE DEF Once
<1>6. g = [k \in 0 .. n |-> IF k = 0 THEN x ELSE Once(g[k - 1])]
  <2>1. ASSUME NEW k \in 0 .. n
        PROVE  g[k] = IF k = 0 THEN x ELSE Once(g[k - 1])
    <3>1. CASE k = 0
      BY <1>2, <3>1 DEF Iterates
    <3>2. CASE k # 0
      <4>1. k - 1 \in 0 .. n - 1 /\ (k - 1) + 1 = k
        BY <3>2
      <4>2. g[k] = FetchRound(g[k - 1])
        BY <1>3, <4>1
      <4> QED BY <1>4, <3>2, <4>2
    <3> QED BY <3>1, <3>2
  <2> QED BY <2>1
<1>7. it = [k \in 0 .. n |-> IF k = 0 THEN x ELSE Once(it[k - 1])]
  BY <1>6
<1> HIDE DEF it
<1>8. it[0] = x /\ \A k \in 0 .. n - 1 : it[k + 1] = FetchRound(it[k])
  <2>1. it[0] = x
    BY <1>7
  <2>2. ASSUME NEW k \in 0 .. n - 1 PROVE it[k + 1] = FetchRound(it[k])
    <3>1. k + 1 \in 0 .. n /\ k + 1 # 0 /\ (k + 1) - 1 = k
      OBVIOUS
    <3>2. it[k + 1] = IF k + 1 = 0 THEN x ELSE Once(it[(k + 1) - 1])
      BY <1>7, <3>1
    <3> QED BY <1>4, <3>1, <3>2
  <2> QED BY <2>1, <2>2
<1>9. it[n] = g[n]
  <2>1. \A k \in 0 .. n - 1 : it[k] = g[k] => it[k + 1] = g[k + 1]
    BY <1>3, <1>8
  <2>2. it[0] = g[0]
    BY <1>2, <1>8 DEF Iterates
  <2>3. \A k \in 0 .. n : it[k] = g[k]
    BY <2>1, <2>2, SameIteration, Zenon
  <2> QED BY <2>3
<1>10. FetchRounds(g, x, n)
  BY <1>2, <1>3, <1>5, <1>9 DEF Iterates, FetchRounds
<1> QED BY <1>10

\* s holds the partial sums of f.
Sums(s, f, n) == s[0] = 0 /\ \A k \in 0 .. n - 1 : s[k + 1] = s[k] + f[k + 1]

\* Partial sums can be formed.
LEMMA SumsExist ==
    ASSUME NEW n \in Nat, NEW f, \A k \in 1 .. n : f[k] \in Nat
    PROVE  \E s \in [0 .. n -> Nat] : Sums(s, f, n)
<1> DEFINE G == {m \in 0 .. n : \E s \in [0 .. m -> Nat] : Sums(s, f, m)}
<1>1. 0 \in G
  <2>1. [k \in 0 .. 0 |-> 0] \in [0 .. 0 -> Nat] /\ Sums([k \in 0 .. 0 |-> 0], f, 0)
    BY DEF Sums
  <2>2. 0 \in 0 .. n
    OBVIOUS
  <2> QED BY <2>1, <2>2
<1>2. ASSUME NEW m \in 0 .. n - 1, m \in G PROVE m + 1 \in G
  <2>1. PICK s \in [0 .. m -> Nat] : Sums(s, f, m)
    BY <1>2
  <2>2. PICK y \in Nat : y = s[m] + f[m + 1]
    <3>1. m + 1 \in 1 .. n /\ m \in 0 .. m
      OBVIOUS
    <3> QED BY <3>1
  <2> DEFINE h == [k \in 0 .. m + 1 |-> IF k = m + 1 THEN y ELSE s[k]]
  <2>3. h \in [0 .. m + 1 -> Nat]
    OBVIOUS
  <2>4. h[0] = 0 /\ \A k \in 0 .. m : h[k + 1] = h[k] + f[k + 1]
    BY <2>1, <2>2 DEF Sums
  <2>5. Sums(h, f, m + 1)
    <3> HIDE DEF h
    <3>1. (m + 1) - 1 = m
      OBVIOUS
    <3> QED BY <2>4, <3>1 DEF Sums
  <2>6. m + 1 \in 0 .. n
    OBVIOUS
  <2> HIDE DEF h
  <2> QED BY <2>3, <2>5, <2>6
<1>3. n \in G
  <2> HIDE DEF G
  <2>1. \A k \in 0 .. n : k \in G
    BY <1>1, <1>2, InductionUpTo
  <2> QED BY <2>1
<1> QED BY <1>3

\* SumTo() is the last of the partial sums.
LEMMA SumToIsSum ==
    ASSUME NEW n \in Nat, NEW f, NEW s \in [0 .. n -> Nat], Sums(s, f, n)
    PROVE  SumTo(f, n) = s[n]
<1> DEFINE sum == CHOOSE h : h = [k \in 0 .. n |-> IF k = 0 THEN 0 ELSE h[k - 1] + f[k]]
<1>1. SumTo(f, n) = sum[n]
  BY DEF SumTo
<1>2. s = [k \in 0 .. n |-> IF k = 0 THEN 0 ELSE s[k - 1] + f[k]]
  <2>1. ASSUME NEW k \in 0 .. n
        PROVE  s[k] = IF k = 0 THEN 0 ELSE s[k - 1] + f[k]
    <3>1. CASE k = 0
      BY <3>1 DEF Sums
    <3>2. CASE k # 0
      <4>1. k - 1 \in 0 .. n - 1 /\ (k - 1) + 1 = k
        BY <3>2
      <4> QED BY <3>2, <4>1 DEF Sums
    <3> QED BY <3>1, <3>2
  <2> QED BY <2>1
<1>3. sum = [k \in 0 .. n |-> IF k = 0 THEN 0 ELSE sum[k - 1] + f[k]]
  BY <1>2
<1> HIDE DEF sum
<1>4. sum[0] = 0
  BY <1>3
<1>5. ASSUME NEW k \in 0 .. n - 1 PROVE sum[k + 1] = sum[k] + f[k + 1]
  <2>1. k + 1 \in 0 .. n /\ k + 1 # 0 /\ (k + 1) - 1 = k
    OBVIOUS
  <2>2. sum[k + 1] = IF k + 1 = 0 THEN 0 ELSE sum[(k + 1) - 1] + f[k + 1]
    BY <1>3, <2>1
  <2> QED BY <2>1, <2>2
<1>6. \A k \in 0 .. n : sum[k] = s[k]
  <2>1. sum[0] = s[0]
    BY <1>4 DEF Sums
  <2>2. \A k \in 0 .. n - 1 : sum[k] = s[k] => sum[k + 1] = s[k + 1]
    BY <1>5 DEF Sums
  <2> QED BY <2>1, <2>2, SameIteration, Zenon
<1> QED BY <1>1, <1>6

\* SumTo() adds one element at a time.
LEMMA SumToSteps ==
    ASSUME NEW n \in Nat, NEW f, \A k \in 1 .. n : f[k] \in Nat
    PROVE  /\ SumTo(f, 0) = 0
           /\ \A m \in 0 .. n : SumTo(f, m) \in Nat
           /\ \A m \in 0 .. n - 1 : SumTo(f, m + 1) = SumTo(f, m) + f[m + 1]
<1>1. PICK s \in [0 .. n -> Nat] : Sums(s, f, n)
  BY SumsExist
<1>2. ASSUME NEW m \in 0 .. n PROVE SumTo(f, m) = s[m]
  <2> DEFINE h == [k \in 0 .. m |-> s[k]]
  <2>1. h \in [0 .. m -> Nat]
    OBVIOUS
  <2>2. Sums(h, f, m)
    BY <1>1 DEF Sums
  <2>3. h[m] = s[m] /\ m \in Nat
    OBVIOUS
  <2> HIDE DEF h
  <2> QED BY <2>1, <2>2, <2>3, SumToIsSum
<1>3. SumTo(f, 0) = 0
  BY <1>1, <1>2 DEF Sums
<1>4. ASSUME NEW m \in 0 .. n - 1 PROVE SumTo(f, m + 1) = SumTo(f, m) + f[m + 1]
  <2>1. m \in 0 .. n /\ m + 1 \in 0 .. n
    OBVIOUS
  <2> QED BY <1>1, <1>2, <2>1 DEF Sums
<1> QED BY <1>2, <1>3, <1>4

\* g is f[1], ..., f[n] with x put behind position p.
Inserted(g, f, n, p, x) ==
    /\ \A k \in 1 .. p : g[k] = f[k]
    /\ g[p + 1] = x
    /\ \A k \in p + 1 .. n : g[k + 1] = f[k]

\* Inserting an element adds it to the sum.
LEMMA SumToInsert ==
    ASSUME NEW n \in Nat, NEW f, \A k \in 1 .. n : f[k] \in Nat,
           NEW p \in 0 .. n, NEW x \in Nat, NEW g, Inserted(g, f, n, p, x)
    PROVE  SumTo(g, n + 1) = SumTo(f, n) + x
<1> USE DEF Inserted
<1>1. \A k \in 1 .. n + 1 : g[k] \in Nat
  <2> SUFFICES ASSUME NEW k \in 1 .. n + 1 PROVE g[k] \in Nat
    OBVIOUS
  <2>1. CASE k \in p + 2 .. n + 1
    <3>1. k - 1 \in p + 1 .. n /\ k - 1 \in 1 .. n /\ (k - 1) + 1 = k
      BY <2>1
    <3> QED BY <3>1
  <2>2. CASE k = p + 1
    BY <2>2
  <2>3. CASE k \in 1 .. p
    BY <2>3
  <2> QED BY <2>1, <2>2, <2>3
<1>2. /\ SumTo(f, 0) = 0
      /\ \A m \in 0 .. n : SumTo(f, m) \in Nat
      /\ \A m \in 0 .. n - 1 : SumTo(f, m + 1) = SumTo(f, m) + f[m + 1]
  BY SumToSteps
<1>3. /\ SumTo(g, 0) = 0
      /\ \A m \in 0 .. n + 1 : SumTo(g, m) \in Nat
      /\ \A m \in 0 .. n : SumTo(g, m + 1) = SumTo(g, m) + g[m + 1]
  <2>1. n + 1 \in Nat /\ (n + 1) - 1 = n
    OBVIOUS
  <2> QED BY <1>1, <2>1, SumToSteps
<1> DEFINE G == {m \in 0 .. n : IF m <= p THEN SumTo(g, m) = SumTo(f, m)
                                         ELSE SumTo(g, m + 1) = SumTo(f, m) + x}
<1>4. \A m \in 0 .. n : m \in G
  <2>1. 0 \in G
    BY <1>2, <1>3
  <2>2. ASSUME NEW m \in 0 .. n - 1, m \in G PROVE m + 1 \in G
    <3>1. m + 1 \in 0 .. n /\ m \in 0 .. n
      OBVIOUS
    <3>2. CASE m + 1 <= p
      <4>1. m + 1 \in 1 .. p
        BY <3>2
      <4> QED BY <1>2, <1>3, <2>2, <3>1, <3>2, <4>1
    <3>3. CASE m = p
      <4>1. SumTo(g, p + 1) = SumTo(f, p) + x
        BY <1>3, <2>2, <3>3
      <4>2. g[(m + 1) + 1] = f[m + 1]
        BY <3>1, <3>3
      <4>3. SumTo(g, (m + 1) + 1) = SumTo(g, m + 1) + g[(m + 1) + 1]
        BY <1>3, <3>1
      <4>4. /\ SumTo(f, m + 1) = SumTo(f, m) + f[m + 1]
            /\ SumTo(f, m) \in Nat /\ f[m + 1] \in Nat
        BY <1>2, <3>1
      <4>5. SumTo(g, (m + 1) + 1) = SumTo(f, m + 1) + x
        BY <3>3, <4>1, <4>2, <4>3, <4>4
      <4> QED BY <3>1, <3>3, <4>5
    <3>4. CASE m > p
      <4>1. SumTo(g, m + 1) = SumTo(f, m) + x
        BY <2>2, <3>4
      <4>2. g[(m + 1) + 1] = f[m + 1]
        BY <3>1, <3>4
      <4>3. SumTo(g, (m + 1) + 1) = SumTo(g, m + 1) + g[(m + 1) + 1]
        BY <1>3, <3>1
      <4>4. /\ SumTo(f, m + 1) = SumTo(f, m) + f[m + 1]
            /\ SumTo(f, m) \in Nat /\ f[m + 1] \in Nat
        BY <1>2, <3>1
      <4>5. SumTo(g, (m + 1) + 1) = SumTo(f, m + 1) + x
        BY <4>1, <4>2, <4>3, <4>4
      <4> QED BY <3>1, <3>4, <4>5
    <3> QED BY <3>2, <3>3, <3>4
  <2> HIDE DEF G
  <2> QED BY <2>1, <2>2, InductionUpTo
<1>5. n \in G
  BY <1>4
<1>6. CASE n <= p
  <2>1. n = p /\ SumTo(g, n) = SumTo(f, n)
    BY <1>5, <1>6
  <2> QED BY <1>3, <2>1
<1>7. CASE ~ (n <= p)
  BY <1>5, <1>7
<1> QED BY <1>6, <1>7

-----------------------------------------------------------------------------
(* Sequences. *)

\* Part of a sequence.
LEMMA SubSeqParts ==
    ASSUME NEW S, NEW s \in Seq(S), NEW p \in Nat, NEW m \in Nat, p + m <= Len(s)
    PROVE  /\ SubSeq(s, p + 1, p + m) \in Seq(S)
           /\ Len(SubSeq(s, p + 1, p + m)) = m
           /\ \A i \in 1 .. m : SubSeq(s, p + 1, p + m)[i] = s[p + i]
<1>1. \A i \in p + 1 .. p + m : s[i] \in S
  <2>1. \A i \in p + 1 .. p + m : i \in 1 .. Len(s)
    BY LenProperties
  <2> QED BY <2>1
<1>2. PICK a \in Int, b \in Int : a = p + 1 /\ b = p + m
  OBVIOUS
<1>3. /\ SubSeq(s, a, b) \in Seq(S)
      /\ Len(SubSeq(s, a, b)) = IF a <= b THEN b - a + 1 ELSE 0
      /\ \A i \in 1 .. b - a + 1 : SubSeq(s, a, b)[i] = s[a + i - 1]
  BY <1>1, <1>2, SubSeqProperties
<1>4. b - a + 1 = m /\ (IF a <= b THEN b - a + 1 ELSE 0) = m
      /\ \A i \in 1 .. m : a + i - 1 = p + i
  BY <1>2
<1> QED BY <1>2, <1>3, <1>4

\* A list with an element put behind position p.
PutAfter(s, p, x) == SubSeq(s, 1, p) \o <<x>> \o SubSeq(s, p + 1, Len(s))

\* It is a list that is longer by one.
LongerBy(q, S, s, p, x) ==
    q \in Seq(S) /\ Len(q) = Len(s) + 1 /\ Inserted(q, s, Len(s), p, x)

\* What StoreAfter() does to the list.
LEMMA InsertAfter ==
    ASSUME NEW S, NEW s \in Seq(S), NEW p \in 0 .. Len(s), NEW x \in S
    PROVE  LongerBy(PutAfter(s, p, x), S, s, p, x)
<1> DEFINE q == SubSeq(s, 1, p) \o <<x>> \o SubSeq(s, p + 1, Len(s))
<1> HIDE DEF q
<1>1. PICK l \in Nat : l = Len(s) /\ p \in Nat /\ p <= l
  BY LenProperties
<1>2. PICK r \in Nat : l = p + r
  <2>1. l - p \in Nat /\ l = p + (l - p)
    BY <1>1
  <2> QED BY <2>1
<1>3. PICK u \in Seq(S) : /\ u = SubSeq(s, 1, p) /\ Len(u) = p
                         /\ \A i \in 1 .. p : u[i] = s[i]
  <2>1. 0 \in Nat /\ 0 + p <= Len(s) /\ 0 + 1 = 1 /\ 0 + p = p /\ \A i \in 1 .. p : 0 + i = i
    BY <1>1
  <2>2. /\ SubSeq(s, 0 + 1, 0 + p) \in Seq(S)
        /\ Len(SubSeq(s, 0 + 1, 0 + p)) = p
        /\ \A i \in 1 .. p : SubSeq(s, 0 + 1, 0 + p)[i] = s[0 + i]
    BY <1>1, <2>1, SubSeqParts
  <2>3. /\ SubSeq(s, 1, p) \in Seq(S)
        /\ Len(SubSeq(s, 1, p)) = p
        /\ \A i \in 1 .. p : SubSeq(s, 1, p)[i] = s[i]
    BY <2>1, <2>2
  <2> QED BY <2>3, Zenon
<1>4. PICK v \in Seq(S) : /\ v = SubSeq(s, p + 1, l) /\ Len(v) = r
                         /\ \A i \in 1 .. r : v[i] = s[p + i]
  <2>1. /\ SubSeq(s, p + 1, p + r) \in Seq(S)
        /\ Len(SubSeq(s, p + 1, p + r)) = r
        /\ \A i \in 1 .. r : SubSeq(s, p + 1, p + r)[i] = s[p + i]
    <3>1. p + r <= Len(s) /\ p \in Nat
      BY <1>1, <1>2
    <3> QED BY <3>1, SubSeqParts
  <2> QED BY <1>2, <2>1, Zenon
<1>5. PICK o \in Seq(S) : o = <<x>> /\ Len(o) = 1 /\ o[1] = x
  <2>1. <<x>> \in Seq(S) /\ Len(<<x>>) = 1 /\ <<x>>[1] = x
    OBVIOUS
  <2> QED BY <2>1, Zenon
<1>6. PICK w \in Seq(S) : /\ w = u \o o /\ Len(w) = p + 1
                         /\ \A i \in 1 .. p + 1 : w[i] = IF i <= p THEN u[i] ELSE o[i - p]
  <2>1. /\ u \o o \in Seq(S) /\ Len(u \o o) = Len(u) + Len(o)
        /\ \A i \in 1 .. Len(u) + Len(o) :
             (u \o o)[i] = IF i <= Len(u) THEN u[i] ELSE o[i - Len(u)]
    BY ConcatProperties
  <2>2. /\ u \o o \in Seq(S) /\ Len(u \o o) = p + 1
        /\ \A i \in 1 .. p + 1 : (u \o o)[i] = IF i <= p THEN u[i] ELSE o[i - p]
    BY <1>3, <1>5, <2>1, Zenon
  <2> QED BY <2>2, Zenon
<1>7. PICK z \in Seq(S) :
          /\ z = w \o v /\ Len(z) = (p + 1) + r
          /\ \A i \in 1 .. (p + 1) + r : z[i] = IF i <= p + 1 THEN w[i] ELSE v[i - (p + 1)]
  <2>1. p + 1 \in Nat
    BY <1>1
  <2>2. /\ w \o v \in Seq(S) /\ Len(w \o v) = (p + 1) + r
        /\ \A i \in 1 .. (p + 1) + r : (w \o v)[i] = IF i <= p + 1 THEN w[i] ELSE v[i - (p + 1)]
    <3>1. Len(w) = p + 1 /\ Len(v) = r
      BY <1>4, <1>6
    <3>2. /\ w \o v \in Seq(S) /\ Len(w \o v) = Len(w) + Len(v)
          /\ \A i \in 1 .. Len(w) + Len(v) :
               (w \o v)[i] = IF i <= Len(w) THEN w[i] ELSE v[i - Len(w)]
      BY ConcatProperties
    <3> QED BY <3>1, <3>2, Zenon
  <2> QED BY <2>2, Zenon
<1>8. q = z
  BY <1>1, <1>3, <1>4, <1>5, <1>6, <1>7 DEF q
<1>9. Len(z) = l + 1
  BY <1>1, <1>2, <1>7
<1>10. ASSUME NEW i \in 1 .. p PROVE z[i] = s[i]
  <2>1. i \in 1 .. (p + 1) + r /\ i <= p + 1 /\ i \in 1 .. p + 1 /\ i <= p
    BY <1>1
  <2> QED BY <1>3, <1>6, <1>7, <2>1
<1>11. z[p + 1] = x
  <2>1. p + 1 \in 1 .. (p + 1) + r /\ p + 1 <= p + 1 /\ p + 1 \in 1 .. p + 1
        /\ ~ (p + 1 <= p) /\ (p + 1) - p = 1
    BY <1>1
  <2>2. z[p + 1] = w[p + 1] /\ w[p + 1] = o[1]
    BY <1>6, <1>7, <2>1
  <2> QED BY <1>5, <2>2
<1>12. ASSUME NEW i \in p + 1 .. l PROVE z[i + 1] = s[i]
  <2>1. PICK j \in 1 .. r : i = p + j
    <3>1. i - p \in 1 .. r /\ i = p + (i - p)
      BY <1>1, <1>2
    <3> QED BY <3>1
  <2>2. i + 1 \in 1 .. (p + 1) + r /\ ~ (i + 1 <= p + 1) /\ (i + 1) - (p + 1) = j
    BY <1>1, <2>1
  <2>3. z[i + 1] = v[j]
    BY <1>7, <2>2
  <2> QED BY <1>4, <2>1, <2>3
<1>13. q = PutAfter(s, p, x)
  BY DEF q, PutAfter
<1> QED BY <1>1, <1>7, <1>8, <1>9, <1>10, <1>11, <1>12, <1>13 DEF Inserted, LongerBy

-----------------------------------------------------------------------------
(* Excerpts of the stream. *)

\* s holds the n bytes of the stream from index lo on.
Bytes(s, lo, n) ==
    s \in Seq(Nat) /\ Len(s) = n /\ \A i \in 1 .. n : s[i] = lo + i - 1

\* An excerpt has the bytes its bounds say ...
LEMMA BytesOfExcerpt ==
    ASSUME NEW lo \in Nat, NEW n \in Nat
    PROVE  Bytes(Excerpt(lo, lo + n), lo, n)
<1>1. (lo + n) - lo = n /\ \A i \in 1 .. n : lo + i - 1 \in Nat
  OBVIOUS
<1>2. Excerpt(lo, lo + n) = [i \in 1 .. n |-> lo + i - 1]
  BY <1>1 DEF Excerpt
<1> QED BY <1>1, <1>2 DEF Bytes

\* ... and is the only one that does.
LEMMA ExcerptOfBytes ==
    ASSUME NEW lo \in Nat, NEW n \in Nat, NEW s, Bytes(s, lo, n)
    PROVE  s = Excerpt(lo, lo + n)
<1>1. PICK e : e = Excerpt(lo, lo + n) /\ Bytes(e, lo, n)
  BY BytesOfExcerpt
<1>2. s \in Seq(Nat) /\ e \in Seq(Nat) /\ Len(s) = Len(e)
      /\ \A i \in 1 .. Len(s) : s[i] = e[i]
  BY <1>1 DEF Bytes
<1>3. s = e
  BY <1>2, SeqEqual
<1> QED BY <1>1, <1>3

\* A part of an excerpt is an excerpt.
LEMMA BytesSubSeq ==
    ASSUME NEW s, NEW lo \in Nat, NEW len \in Nat, Bytes(s, lo, len),
           NEW pos \in Nat, NEW m \in Nat, pos + m <= len
    PROVE  Bytes(SubSeq(s, pos + 1, pos + m), lo + pos, m)
<1>1. s \in Seq(Nat) /\ Len(s) = len /\ \A i \in 1 .. len : s[i] = lo + i - 1
  BY DEF Bytes
<1>2. /\ SubSeq(s, pos + 1, pos + m) \in Seq(Nat)
      /\ Len(SubSeq(s, pos + 1, pos + m)) = m
      /\ \A i \in 1 .. m : SubSeq(s, pos + 1, pos + m)[i] = s[pos + i]
  BY <1>1, SubSeqParts
<1>3. ASSUME NEW i \in 1 .. m
      PROVE  SubSeq(s, pos + 1, pos + m)[i] = (lo + pos) + i - 1
  <2>1. pos + i \in 1 .. len
    OBVIOUS
  <2>2. SubSeq(s, pos + 1, pos + m)[i] = lo + (pos + i) - 1
    BY <1>1, <1>2, <2>1
  <2> QED BY <2>2
<1> QED BY <1>2, <1>3 DEF Bytes

\* The part that is asked for, when it is there.
LEMMA BytesPart ==
    ASSUME NEW s, NEW lo \in Nat, NEW len \in Nat, Bytes(s, lo, len),
           NEW pos \in Nat, NEW n \in Nat, pos + n <= len
    PROVE  Bytes(Substr(s, pos, n), lo + pos, n)
<1>1. Substr(s, pos, n) = SubSeq(s, pos + 1, pos + n)
  BY DEF Substr, MinOf, Bytes
<1> QED BY <1>1, BytesSubSeq

\* All that is left behind a position.
LEMMA BytesDrop ==
    ASSUME NEW s, NEW lo \in Nat, NEW len \in Nat, Bytes(s, lo, len),
           NEW pos \in Nat, NEW r \in Nat, pos + r = len
    PROVE  Bytes(Drop(s, pos), lo + pos, r)
<1>1. Drop(s, pos) = SubSeq(s, pos + 1, pos + r)
  BY DEF Drop, Substr, MinOf, Bytes
<1>2. pos + r <= len
  OBVIOUS
<1> QED BY <1>1, <1>2, BytesSubSeq

\* Adjacent excerpts join.
LEMMA BytesConcat ==
    ASSUME NEW p, NEW q, NEW a \in Nat, NEW m \in Nat, NEW n \in Nat,
           Bytes(p, a, m), Bytes(q, a + m, n)
    PROVE  Bytes(p \o q, a, m + n)
<1>1. p \in Seq(Nat) /\ Len(p) = m /\ \A i \in 1 .. m : p[i] = a + i - 1
  BY DEF Bytes
<1>2. q \in Seq(Nat) /\ Len(q) = n /\ \A i \in 1 .. n : q[i] = (a + m) + i - 1
  BY DEF Bytes
<1>3. /\ p \o q \in Seq(Nat) /\ Len(p \o q) = m + n
      /\ \A i \in 1 .. m + n : (p \o q)[i] = IF i <= m THEN p[i] ELSE q[i - m]
  <2>1. Len(p) = m /\ Len(q) = n
    BY <1>1, <1>2
  <2>2. /\ p \o q \in Seq(Nat) /\ Len(p \o q) = Len(p) + Len(q)
        /\ \A i \in 1 .. Len(p) + Len(q) :
             (p \o q)[i] = IF i <= Len(p) THEN p[i] ELSE q[i - Len(p)]
    BY <1>1, <1>2, ConcatProperties
  <2> QED BY <2>1, <2>2, Zenon
<1>4. ASSUME NEW i \in 1 .. m + n PROVE (p \o q)[i] = a + i - 1
  <2>1. CASE i <= m
    BY <1>1, <1>3, <2>1
  <2>2. CASE ~ (i <= m)
    <3>1. i - m \in 1 .. n
      BY <2>2
    <3>2. q[i - m] = (a + m) + (i - m) - 1
      BY <1>2, <3>1
    <3>3. (p \o q)[i] = q[i - m]
      BY <1>3, <2>2
    <3> QED BY <3>2, <3>3
  <2> QED BY <2>1, <2>2
<1> QED BY <1>3, <1>4 DEF Bytes

-----------------------------------------------------------------------------
(* ByteStream. *)

\* What Substr returns: a sequence of the clamped length.
LEMMA SubstrType ==
    ASSUME NEW S, NEW s \in Seq(S), NEW pos \in 0 .. Len(s), NEW n \in Nat
    PROVE  /\ Substr(s, pos, n) \in Seq(S)
           /\ Len(Substr(s, pos, n)) = MinOf(n, Len(s) - pos)
<1> DEFINE m == MinOf(n, Len(s) - pos)
<1>1. m \in 0 .. Len(s) - pos
  BY DEF MinOf
<1>2. \A i \in pos + 1 .. pos + m : s[i] \in S
  BY <1>1
<1>3. /\ SubSeq(s, pos + 1, pos + m) \in Seq(S)
      /\ Len(SubSeq(s, pos + 1, pos + m)) = IF pos + 1 <= pos + m THEN (pos + m) - (pos + 1) + 1 ELSE 0
  <2> HIDE DEF m
  <2> QED BY <1>1, <1>2, SubSeqProperties
<1> QED BY <1>1, <1>3 DEF Substr

\* Cutting a string at n and joining the two halves gives it back: what
\* peek_output() copies and what pop_output() leaves make up the deque.
LEMMA SubstrSplit ==
    ASSUME NEW S, NEW s \in Seq(S), NEW n \in 0 .. Len(s)
    PROVE  Substr(s, 0, n) \o Substr(s, n, Len(s) - n) = s
<1>1. CASE n = Len(s)
  <2>1. Substr(s, 0, n) = SubSeq(s, 1, Len(s))
    BY <1>1 DEF Substr, MinOf
  <2>2. Substr(s, n, Len(s) - n) = << >>
    <3>1. Substr(s, n, Len(s) - n) = SubSeq(s, n + 1, n)
      BY <1>1 DEF Substr, MinOf
    <3> QED BY <3>1, SubSeqEmpty
  <2> QED BY <2>1, <2>2, SubSeqFull, ConcatEmptySeq
<1>2. CASE n < Len(s)
  <2>1. Substr(s, 0, n) = SubSeq(s, 1, n)
    BY <1>2 DEF Substr, MinOf
  <2>2. Substr(s, n, Len(s) - n) = SubSeq(s, n + 1, Len(s))
    BY <1>2 DEF Substr, MinOf
  <2>3. SubSeq(s, 1, n) \o SubSeq(s, n + 1, Len(s)) = SubSeq(s, 1, Len(s))
    <3>1. 1 \in 1 .. Len(s) + 1 /\ n \in 1 - 1 .. Len(s) /\ Len(s) \in n .. Len(s)
      BY <1>2
    <3> QED BY <3>1, ConcatAdjacentSubSeq
  <2> QED BY <2>1, <2>2, <2>3, SubSeqFull
<1> QED BY <1>1, <1>2

\* write() keeps the members' types and touches neither the read counter nor
\* the end flag.
LEMMA WriteType ==
    ASSUME NEW S, NEW b \in ByteStreamType(S), NEW data \in Seq(S)
    PROVE  /\ Write(b, data) \in ByteStreamType(S)
           /\ Write(b, data).readsize = b.readsize
           /\ Write(b, data).end = b.end
<1>1. b.que \in Seq(S) /\ b.capacity \in Nat /\ b.writtensize \in Nat
  BY DEF ByteStreamType
<1>2. PICK n \in Nat : n = WriteSize(b, data) /\ n <= b.capacity
  BY <1>1 DEF WriteSize, MinOf
<1>3. PICK s \in Seq(S) : s = Substr(data, 0, n)
  <2>1. 0 \in 0 .. Len(data)
    OBVIOUS
  <2> QED BY <2>1, SubstrType
<1>4. PICK q \in Seq(S) : q = b.que \o s
  BY <1>1, ConcatProperties
<1>5. Write(b, data) = [b EXCEPT !.que = q, !.capacity = b.capacity - n,
                                 !.writtensize = b.writtensize + n]
  BY <1>2, <1>3, <1>4 DEF Write
<1>6. b.capacity - n \in Nat /\ b.writtensize + n \in Nat
  BY <1>1, <1>2
<1>7. Write(b, data) \in ByteStreamType(S)
  BY <1>5, <1>6, Zenon DEF ByteStreamType
<1> QED BY <1>5, <1>7 DEF ByteStreamType

\* read(n) of bytes that are there counts n of them and keeps the rest.
LEMMA ReadType ==
    ASSUME NEW S, NEW b \in ByteStreamType(S), NEW n \in 0 .. Len(b.que)
    PROVE  /\ Read(b, n) \in ByteStreamType(S)
           /\ Read(b, n).readsize = b.readsize + n
           /\ Read(b, n).writtensize = b.writtensize
           /\ Read(b, n).end = b.end
<1>1. b.que \in Seq(S) /\ b.capacity \in Nat /\ b.readsize \in Nat
  BY DEF ByteStreamType
<1>2. MinOf(n, Len(b.que)) = n
  BY <1>1 DEF MinOf
<1>3. PICK q \in Seq(S) : q = Substr(b.que, n, Len(b.que) - n)
  <2>1. Len(b.que) - n \in Nat
    BY <1>1
  <2> QED BY <1>1, <2>1, SubstrType
<1>4. Read(b, n) = [b EXCEPT !.que = q, !.capacity = b.capacity + n,
                             !.readsize = b.readsize + n]
  BY <1>2, <1>3 DEF Read, PopOutput
<1>5. b.capacity + n \in Nat /\ b.readsize + n \in Nat
  BY <1>1
<1>6. Read(b, n) \in ByteStreamType(S)
  BY <1>4, <1>5, Zenon DEF ByteStreamType
<1> QED BY <1>4, <1>6 DEF ByteStreamType

\* The deque holds the bytes of the numbered stream that are written and not read,
\* and the room is what they leave of the capacity.
Buffered(o, cap) ==
    /\ o \in ByteStreamType(Nat)
    /\ o.capacity + Len(o.que) = cap
    /\ o.writtensize = o.readsize + Len(o.que)
    /\ Bytes(o.que, o.readsize, Len(o.que))

\* The members that only the constructor, end_input() and set_error() write.
SameFlags(w, o) ==
    w.end = o.end /\ w.error = o.error /\ w.maximumcapacity = o.maximumcapacity

\* The members of a stream, one by one.
LEMMA BufferedMembers ==
    ASSUME NEW cap \in Nat, NEW o, Buffered(o, cap)
    PROVE  /\ o.que \in Seq(Nat) /\ Len(o.que) \in Nat
           /\ o.capacity \in Nat /\ o.writtensize \in Nat /\ o.readsize \in Nat
           /\ o.end \in BOOLEAN /\ o.error \in BOOLEAN /\ o.maximumcapacity \in Nat
           /\ o.capacity + Len(o.que) = cap /\ o.writtensize = o.readsize + Len(o.que)
<1>1. /\ o.que \in Seq(Nat) /\ o.capacity \in Nat /\ o.writtensize \in Nat /\ o.readsize \in Nat
      /\ o.end \in BOOLEAN /\ o.error \in BOOLEAN /\ o.maximumcapacity \in Nat
  BY DEF Buffered, ByteStreamType
<1>2. Len(o.que) \in Nat
  BY <1>1, LenProperties
<1> QED BY <1>1, <1>2 DEF Buffered

\* The constructor.
LEMMA NewBuffered ==
    ASSUME NEW cap \in Nat, NEW o, o = NewByteStream(cap)
    PROVE  /\ Buffered(o, cap) /\ o.que = <<>> /\ o.maximumcapacity = cap
           /\ o.writtensize = 0 /\ o.readsize = 0 /\ ~ o.end /\ ~ o.error
<1>1. /\ o.que = <<>> /\ o.capacity = cap /\ o.maximumcapacity = cap /\ o.writtensize = 0
      /\ o.readsize = 0 /\ o.error = FALSE /\ o.end = FALSE
  BY DEF NewByteStream
<1>2. <<>> \in Seq(Nat) /\ Len(<<>>) = 0 /\ 0 \in Nat
  OBVIOUS
<1>3. o \in ByteStreamType(Nat)
  BY <1>2, Zenon DEF NewByteStream, ByteStreamType
<1>4. Bytes(o.que, o.readsize, Len(o.que))
  BY <1>1, <1>2 DEF Bytes
<1>5. o.capacity + Len(o.que) = cap /\ o.writtensize = o.readsize + Len(o.que)
  BY <1>1, <1>2
<1> QED BY <1>1, <1>3, <1>4, <1>5 DEF Buffered

\* write() of the next n bytes of the stream, for which there is room.
LEMMA WriteBuffered ==
    ASSUME NEW cap \in Nat, NEW o, Buffered(o, cap),
           NEW n \in Nat, n <= o.capacity, NEW d, Bytes(d, o.writtensize, n),
           NEW w, w = Write(o, d)
    PROVE  /\ Buffered(w, cap) /\ SameFlags(w, o)
           /\ w.writtensize = o.writtensize + n /\ w.readsize = o.readsize
           /\ w.capacity = o.capacity - n
<1>1. /\ o.que \in Seq(Nat) /\ Len(o.que) \in Nat
      /\ o.capacity \in Nat /\ o.writtensize \in Nat /\ o.readsize \in Nat
      /\ o.end \in BOOLEAN
  BY BufferedMembers
<1>2. PICK W \in Nat, R \in Nat, m \in Nat, C \in Nat :
          /\ W = o.writtensize /\ R = o.readsize /\ m = Len(o.que) /\ C = o.capacity
          /\ W = R + m /\ C + m = cap
  BY <1>1 DEF Buffered
<1>3. d \in Seq(Nat) /\ Len(d) = n
  BY DEF Bytes
<1>4. WriteSize(o, d) = n
  BY <1>1, <1>3 DEF WriteSize, MinOf
<1>5. Bytes(o.que \o Substr(d, 0, n), R, m + n)
  <2>1. Bytes(Substr(d, 0, n), W + 0, n)
    <3>1. 0 \in Nat /\ 0 + n <= n /\ Bytes(d, W, n)
      BY <1>2
    <3> QED BY <3>1, BytesPart
  <2>2. Bytes(Substr(d, 0, n), R + m, n) /\ Bytes(o.que, R, m)
    <3>1. W + 0 = R + m
      BY <1>2
    <3> QED BY <1>2, <2>1, <3>1 DEF Buffered
  <2> QED BY <2>2, BytesConcat
<1>6. PICK q : q = o.que \o Substr(d, 0, n) /\ Bytes(q, R, m + n)
  BY <1>5
<1>7. w = [o EXCEPT !.que = q, !.capacity = o.capacity - n, !.writtensize = o.writtensize + n]
  BY <1>4, <1>6 DEF Write
<1>8. o.capacity - n \in Nat /\ o.writtensize + n \in Nat /\ q \in Seq(Nat) /\ Len(q) = m + n
  <2>1. o.capacity - n \in Nat /\ o.writtensize + n \in Nat
    BY <1>1
  <2> QED BY <1>6, <2>1 DEF Bytes
<1>9. w \in ByteStreamType(Nat)
  BY <1>7, <1>8, Zenon DEF ByteStreamType, Buffered
<1>10. /\ w.que = q /\ w.capacity = C - n /\ w.writtensize = W + n
       /\ w.readsize = R /\ w.end = o.end
  BY <1>2, <1>7 DEF ByteStreamType, Buffered
<1>11. w.capacity + Len(w.que) = cap
  <2>1. w.capacity = C - n /\ Len(w.que) = m + n
    BY <1>8, <1>10
  <2>2. (C - n) + (m + n) = cap
    BY <1>2
  <2> QED BY <2>1, <2>2, Zenon
<1>12. w.writtensize = w.readsize + Len(w.que)
  <2>1. w.writtensize = W + n /\ w.readsize = R /\ Len(w.que) = m + n
    BY <1>8, <1>10
  <2>2. W + n = R + (m + n)
    <3>1. W = R + m
      BY <1>2
    <3> QED BY <3>1
  <2> QED BY <2>1, <2>2, Zenon
<1>13. Bytes(w.que, w.readsize, Len(w.que))
  BY <1>6, <1>8, <1>10
<1>14. SameFlags(w, o)
  BY <1>7 DEF ByteStreamType, Buffered, SameFlags
<1> QED BY <1>2, <1>9, <1>10, <1>11, <1>12, <1>13, <1>14 DEF Buffered

\* n bytes of the stream have been read.
HasRead(w, o, n, cap) ==
    /\ n \in Nat /\ n <= Len(o.que)
    /\ Buffered(w, cap) /\ SameFlags(w, o)
    /\ w.writtensize = o.writtensize /\ w.readsize = o.readsize + n
    /\ w.capacity = o.capacity + n

\* read() of any length leaves the rest.
LEMMA ReadBuffered ==
    ASSUME NEW cap \in Nat, NEW o, Buffered(o, cap), NEW len \in Nat, NEW w, w = Read(o, len)
    PROVE  HasRead(w, o, MinOf(len, Len(o.que)), cap)
<1>1. /\ o.que \in Seq(Nat) /\ Len(o.que) \in Nat
      /\ o.capacity \in Nat /\ o.writtensize \in Nat /\ o.readsize \in Nat
      /\ o.end \in BOOLEAN
  BY BufferedMembers
<1>2. PICK W \in Nat, R \in Nat, m \in Nat, C \in Nat :
          /\ W = o.writtensize /\ R = o.readsize /\ m = Len(o.que) /\ C = o.capacity
          /\ W = R + m /\ C + m = cap
  BY <1>1 DEF Buffered
<1>3. PICK n \in Nat : n = MinOf(len, m) /\ n <= m
  BY DEF MinOf
<1>4. PICK r \in Nat : m = n + r /\ r = m - n
  <2>1. m - n \in Nat /\ m = n + (m - n)
    BY <1>3
  <2> QED BY <2>1
<1>5. PICK q : q = Substr(o.que, n, m - n) /\ Bytes(q, R + n, r)
  <2>1. n + r <= m /\ Bytes(o.que, R, m)
    BY <1>2, <1>4 DEF Buffered
  <2>2. Bytes(Substr(o.que, n, r), R + n, r)
    BY <2>1, BytesPart
  <2> QED BY <1>4, <2>2
<1>6. w = [o EXCEPT !.que = q, !.capacity = o.capacity + n, !.readsize = o.readsize + n]
  BY <1>2, <1>3, <1>5 DEF Read, PopOutput
<1>7. o.capacity + n \in Nat /\ o.readsize + n \in Nat /\ q \in Seq(Nat) /\ Len(q) = r
  BY <1>1, <1>5, SMTT(20) DEF Bytes
<1>8. w \in ByteStreamType(Nat)
  BY <1>6, <1>7, Zenon DEF ByteStreamType, Buffered
<1>9. /\ w.que = q /\ w.capacity = C + n /\ w.writtensize = W
      /\ w.readsize = R + n /\ w.end = o.end
  BY <1>2, <1>6 DEF ByteStreamType, Buffered
<1>10. w.capacity + Len(w.que) = cap /\ w.writtensize = w.readsize + Len(w.que)
  <2>1. /\ w.capacity = C + n /\ Len(w.que) = r
        /\ w.writtensize = W /\ w.readsize = R + n
    BY <1>7, <1>9
  <2>2. (C + n) + r = cap /\ W = (R + n) + r
    BY <1>2, <1>4
  <2> QED BY <2>1, <2>2, Zenon
<1>11. Bytes(w.que, w.readsize, Len(w.que))
  BY <1>5, <1>7, <1>9
<1>12. SameFlags(w, o)
  BY <1>6 DEF ByteStreamType, Buffered, SameFlags
<1>13. /\ w.readsize = o.readsize + n /\ w.capacity = o.capacity + n
       /\ n = MinOf(len, Len(o.que)) /\ n <= Len(o.que) /\ w.writtensize = o.writtensize
  BY <1>2, <1>3, <1>9
<1>14. Buffered(w, cap)
  BY <1>8, <1>10, <1>11 DEF Buffered
<1> QED BY <1>12, <1>13, <1>14 DEF HasRead

\* end_input() and set_error() leave the bytes alone.
LEMMA EndBuffered ==
    ASSUME NEW cap \in Nat, NEW o, Buffered(o, cap), NEW w, w = EndInput(o)
    PROVE  /\ Buffered(w, cap) /\ w.end /\ w.error = o.error
           /\ w.maximumcapacity = o.maximumcapacity /\ w.que = o.que
           /\ w.writtensize = o.writtensize /\ w.readsize = o.readsize
           /\ w.capacity = o.capacity
<1>1. w = [o EXCEPT !.end = TRUE]
  BY DEF EndInput
<1>2. /\ w.que = o.que /\ w.capacity = o.capacity /\ w.writtensize = o.writtensize
      /\ w.readsize = o.readsize /\ w.end /\ w.error = o.error
      /\ w.maximumcapacity = o.maximumcapacity
  BY <1>1 DEF ByteStreamType, Buffered
<1>3. w \in ByteStreamType(Nat)
  BY <1>1, Zenon DEF ByteStreamType, Buffered
<1> QED BY <1>2, <1>3 DEF Buffered

LEMMA ErrorBuffered ==
    ASSUME NEW cap \in Nat, NEW o, Buffered(o, cap), NEW w, w = SetError(o)
    PROVE  /\ Buffered(w, cap) /\ w.error /\ w.end = o.end
           /\ w.maximumcapacity = o.maximumcapacity /\ w.que = o.que
           /\ w.writtensize = o.writtensize /\ w.readsize = o.readsize
           /\ w.capacity = o.capacity
<1>1. w = [o EXCEPT !.error = TRUE]
  BY DEF SetError
<1>2. /\ w.que = o.que /\ w.capacity = o.capacity /\ w.writtensize = o.writtensize
      /\ w.readsize = o.readsize /\ w.error /\ w.end = o.end
      /\ w.maximumcapacity = o.maximumcapacity
  BY <1>1 DEF ByteStreamType, Buffered
<1>3. w \in ByteStreamType(Nat)
  BY <1>1, Zenon DEF ByteStreamType, Buffered
<1> QED BY <1>2, <1>3 DEF Buffered

\* What peek_output() and a partial write() of it to a descriptor take from a stream is
\* what pop_output() takes off.
LEMMA PeekedBytes ==
    ASSUME NEW cap \in Nat, NEW o, Buffered(o, cap), NEW len \in Nat,
           NEW offered, offered = PeekOutput(o, len)
    PROVE  Bytes(offered, o.readsize, MinOf(len, Len(o.que)))
<1>1. PICK R \in Nat, m \in Nat : R = o.readsize /\ m = Len(o.que)
  BY BufferedMembers
<1>2. PICK n \in Nat : n = MinOf(len, m) /\ n <= m
  BY DEF MinOf
<1>3. Bytes(o.que, R, m) /\ 0 \in Nat /\ 0 + n <= m /\ R + 0 = R
  BY <1>1, <1>2 DEF Buffered
<1>4. Bytes(Substr(o.que, 0, n), R + 0, n)
  BY <1>3, BytesPart
<1> QED BY <1>1, <1>2, <1>3, <1>4 DEF PeekOutput

-----------------------------------------------------------------------------
(* Remainders modulo a positive number. *)

\* A remainder is in range and differs from the number by a multiple.
LEMMA ModDef ==
    ASSUME NEW L \in Nat, L > 0, NEW a \in Int
    PROVE  /\ a % L \in 0 .. L - 1
           /\ a \div L \in Int
           /\ a = L * (a \div L) + (a % L)
OBVIOUS

\* The same with the quotient as a witness.
LEMMA ModLaps ==
    ASSUME NEW L \in Nat, L > 0, NEW a \in Int
    PROVE  \E q \in Int : a = L * q + (a % L)
<1> WITNESS a \div L \in Int
<1> QED BY ModDef

\* Two numbers in range that differ by a multiple are equal.
LEMMA MultipleInRange ==
    ASSUME NEW L \in Nat, L > 0, NEW q \in Int, NEW r \in 0 .. L - 1,
           L * q + r \in 0 .. L - 1
    PROVE  q = 0
<1>1. CASE q >= 1
  <2>1. L * q >= L
    BY <1>1
  <2> QED BY <2>1
<1>2. CASE q <= -1
  <2>1. L * q <= -L
    BY <1>2
  <2> QED BY <2>1
<1> QED BY <1>1, <1>2

\* The remainder is the only number in range that differs by a multiple.
LEMMA ModUnique ==
    ASSUME NEW L \in Nat, L > 0, NEW a \in Int, NEW q \in Int,
           NEW r \in 0 .. L - 1, a = L * q + r
    PROVE  a % L = r
<1>1. PICK p \in Int, s \in 0 .. L - 1 : a = L * p + s /\ s = a % L
  BY ModDef
<1>2. L * (p - q) + s = r
  <2>1. L * p - L * q = L * (p - q)
    OBVIOUS
  <2> QED BY <1>1, <2>1
<1>3. p - q = 0
  <2>1. p - q \in Int /\ L * (p - q) + s \in 0 .. L - 1
    BY <1>2
  <2> QED BY <2>1, MultipleInRange
<1> QED BY <1>1, <1>2, <1>3, SMTT(20)

\* A multiple added does not change the remainder.
LEMMA ModShift ==
    ASSUME NEW L \in Nat, L > 0, NEW a \in Int, NEW k \in Int
    PROVE  (a + L * k) % L = a % L
<1>1. PICK q \in Int, r \in 0 .. L - 1 : a = L * q + r /\ r = a % L
  BY ModDef
<1>2. a + L * k = L * (q + k) + r
  <2>1. L * q + L * k = L * (q + k)
    OBVIOUS
  <2> QED BY <1>1, <2>1
<1>3. q + k \in Int /\ a + L * k \in Int
  OBVIOUS
<1> QED BY <1>1, <1>2, <1>3, ModUnique

\* A number in range is its own remainder.
LEMMA SmallMod ==
    ASSUME NEW L \in Nat, L > 0, NEW a \in 0 .. L - 1
    PROVE  a % L = a
<1>1. a = L * 0 + a
  OBVIOUS
<1> QED BY <1>1, ModUnique

-----------------------------------------------------------------------------
(* The conversions. *)

\* wrap() of the number of the SYN is the isn.
LEMMA WrapOfZero ==
    ASSUME NEW i \in Uint32
    PROVE  wrap(0, i) = i
<1>1. Wrap32 \in Nat /\ Wrap32 > 0 /\ 0 \in 0 .. Wrap32 - 1 /\ i \in 0 .. Wrap32 - 1 /\ i + 0 = i
  BY WrapAssumption DEF Uint32
<1>2. 0 % Wrap32 = 0 /\ i % Wrap32 = i
  BY <1>1, SmallMod
<1> QED BY <1>1, <1>2 DEF wrap, Plus

\* A wrapped number is isn + n up to full laps.
LEMMA WrapLaps ==
    ASSUME NEW n \in Nat, NEW i \in Nat
    PROVE  /\ wrap(n, i) \in Uint32
           /\ \E k \in Int : wrap(n, i) = i + n + Wrap32 * k
<1>0. Wrap32 \in Nat /\ Wrap32 > 0
  BY WrapAssumption
<1>1. PICK q \in Int : n = Wrap32 * q + (n % Wrap32)
  BY <1>0, ModLaps
<1>2. n % Wrap32 \in 0 .. Wrap32 - 1
  BY <1>0, ModDef
<1>3. PICK p \in Int : i + (n % Wrap32) = Wrap32 * p + ((i + (n % Wrap32)) % Wrap32)
  <2>1. i + (n % Wrap32) \in Int
    BY <1>2
  <2> QED BY <1>0, <2>1, ModLaps
<1>4. (i + (n % Wrap32)) % Wrap32 \in 0 .. Wrap32 - 1
  <2>1. i + (n % Wrap32) \in Int
    BY <1>2
  <2> QED BY <1>0, <2>1, ModDef
<1>5. wrap(n, i) = (i + (n % Wrap32)) % Wrap32
  BY DEF wrap, Plus
<1>6. wrap(n, i) = i + n - (Wrap32 * q) - (Wrap32 * p)
  BY <1>0, <1>1, <1>2, <1>3, <1>4, <1>5
<1>7. - (Wrap32 * q) - (Wrap32 * p) = Wrap32 * (- q - p)
  BY <1>0
<1>8. wrap(n, i) = i + n + Wrap32 * (- q - p) /\ - q - p \in Int
  BY <1>0, <1>6, <1>7
<1> QED BY <1>4, <1>5, <1>8 DEF Uint32

\* The distance that unwrap() computes on the wire is the distance of the
\* absolute numbers, up to full laps.
LEMMA WireDistance ==
    ASSUME NEW n \in Nat, NEW c \in Nat, NEW i \in Nat
    PROVE  Minus(wrap(n, i), wrap(c, i)) = (n - c) % Wrap32
<1>0. Wrap32 \in Nat /\ Wrap32 > 0
  BY WrapAssumption
<1>1. PICK k \in Int : wrap(n, i) = i + n + Wrap32 * k
  BY WrapLaps
<1>2. PICK m \in Int : wrap(c, i) = i + c + Wrap32 * m
  BY WrapLaps
<1>3. Wrap32 * k - Wrap32 * m = Wrap32 * (k - m)
  BY <1>0
<1>4. wrap(n, i) - wrap(c, i) = (n - c) + Wrap32 * (k - m)
  BY <1>0, <1>1, <1>2, <1>3
<1>5. k - m \in Int /\ n - c \in Int
  OBVIOUS
<1>6. ((n - c) + Wrap32 * (k - m)) % Wrap32 = (n - c) % Wrap32
  <2>1. ASSUME NEW a \in Int, NEW b \in Int
        PROVE  (a + Wrap32 * b) % Wrap32 = a % Wrap32
    BY <1>0, ModShift
  <2> QED BY <1>5, <2>1, Zenon
<1>7. Minus(wrap(n, i), wrap(c, i)) = (wrap(n, i) - wrap(c, i)) % Wrap32
  BY DEF Minus
<1> QED BY <1>4, <1>6, <1>7, Zenon

\* unwrap() in terms of the distance d, without the 64-bit wrap-around, for
\* checkpoints at least a lap below 2^64.
LEMMA UnwrapCases ==
    ASSUME NEW n \in Nat, NEW c \in Nat, c + Wrap32 <= Wrap64, NEW i \in Nat,
           NEW d \in 0 .. Wrap32 - 1, d = (n - c) % Wrap32
    PROVE  unwrap(wrap(n, i), i, c) =
             IF d < Half32 \/ c - (Wrap32 - d) < 0 THEN c + d ELSE c - (Wrap32 - d)
<1> USE WrapAssumption
<1>1. Minus(wrap(n, i), wrap(c, i)) = d
  BY WireDistance
<1>2. (c + d) % Wrap64 = c + d
  BY ModUnique
<1>3. CASE c - (Wrap32 - d) >= 0
  <2>1. c - (Wrap32 - d) \in 0 .. Wrap64 - 1
    BY <1>3
  <2>2. (c - (Wrap32 - d)) % Wrap64 = c - (Wrap32 - d)
    BY <2>1, ModUnique
  <2>3. ~ (c - (Wrap32 - d) > c)
    OBVIOUS
  <2> QED BY <1>1, <1>2, <1>3, <2>2, <2>3 DEF unwrap
<1>4. CASE c - (Wrap32 - d) < 0
  <2>1. /\ c - (Wrap32 - d) + Wrap64 \in 0 .. Wrap64 - 1
        /\ c - (Wrap32 - d) = Wrap64 * (-1) + (c - (Wrap32 - d) + Wrap64)
    BY <1>4
  <2>2. (c - (Wrap32 - d)) % Wrap64 = c - (Wrap32 - d) + Wrap64
    BY <2>1, ModUnique
  <2>3. c - (Wrap32 - d) + Wrap64 > c
    OBVIOUS
  <2> QED BY <1>1, <1>2, <1>4, <2>2, <2>3 DEF unwrap
<1> QED BY <1>3, <1>4

\* unwrap() inverts wrap() within half a lap of the checkpoint.
LEMMA UnwrapWrap ==
    ASSUME NEW n \in Nat, NEW c \in Nat, c + Wrap32 <= Wrap64, NEW i \in Nat,
           -Half32 <= n - c, n - c < Half32
    PROVE  unwrap(wrap(n, i), i, c) = n
<1> USE WrapAssumption
<1>0. Half32 \in Nat /\ 2 * Half32 = Wrap32
  BY DEF Half32
<1>1. CASE n >= c
  <2>1. n - c \in 0 .. Wrap32 - 1 /\ n - c = Wrap32 * 0 + (n - c)
    BY <1>0, <1>1
  <2>2. (n - c) % Wrap32 = n - c
    BY <2>1, ModUnique
  <2>3. PICK d \in 0 .. Wrap32 - 1 : d = (n - c) % Wrap32 /\ d = n - c
    BY <2>1, <2>2
  <2>4. d < Half32 /\ c + d = n
    BY <1>0, <1>1, <2>3
  <2>5. unwrap(wrap(n, i), i, c) =
          IF d < Half32 \/ c - (Wrap32 - d) < 0 THEN c + d ELSE c - (Wrap32 - d)
    BY <2>3, UnwrapCases
  <2> QED BY <2>4, <2>5
<1>2. CASE n < c
  <2>1. n - c + Wrap32 \in 0 .. Wrap32 - 1 /\ n - c = Wrap32 * (-1) + (n - c + Wrap32)
    BY <1>0, <1>2
  <2>2. (n - c) % Wrap32 = n - c + Wrap32
    BY <2>1, ModUnique
  <2>3. PICK d \in 0 .. Wrap32 - 1 : d = (n - c) % Wrap32 /\ d = n - c + Wrap32
    BY <2>1, <2>2
  <2>4. ~ (d < Half32) /\ c - (Wrap32 - d) = n /\ ~ (c - (Wrap32 - d) < 0)
    BY <1>0, <2>3
  <2>5. unwrap(wrap(n, i), i, c) =
          IF d < Half32 \/ c - (Wrap32 - d) < 0 THEN c + d ELSE c - (Wrap32 - d)
    BY <2>3, UnwrapCases
  <2> QED BY <2>4, <2>5
<1> QED BY <1>1, <1>2

-----------------------------------------------------------------------------
(* StreamReassembler. *)

\* The output holds the bytes of a stream of length L that are written and not
\* read, and has room for the rest of its capacity.
GoodOutput(o, L, cap) ==
    /\ o \in ByteStreamType(Nat)
    /\ o.capacity + Len(o.que) = cap
    /\ o.writtensize = o.readsize + Len(o.que)
    /\ Bytes(o.que, o.readsize, Len(o.que))
    /\ o.writtensize <= L
    /\ o.end => o.writtensize = L

\* The members of the output after a method, in terms of what it was.
LEMMA GoodOutputMembers ==
    ASSUME NEW L \in Nat, NEW cap \in Nat, NEW o, GoodOutput(o, L, cap)
    PROVE  /\ o.que \in Seq(Nat) /\ Len(o.que) \in Nat
           /\ o.capacity \in Nat /\ o.writtensize \in Nat /\ o.readsize \in Nat
           /\ o.end \in BOOLEAN /\ o.writtensize <= L /\ o.readsize <= o.writtensize
           /\ o.capacity = cap - (o.writtensize - o.readsize)
<1>1. o.que \in Seq(Nat) /\ o.capacity \in Nat /\ o.writtensize \in Nat /\ o.readsize \in Nat
      /\ o.end \in BOOLEAN
  BY DEF GoodOutput, ByteStreamType
<1>2. Len(o.que) \in Nat
  BY <1>1, LenProperties
<1> QED BY <1>1, <1>2 DEF GoodOutput

\* write() of the next n bytes of the stream, for which there is room.
LEMMA WriteGood ==
    ASSUME NEW L \in Nat, NEW cap \in Nat, NEW o, GoodOutput(o, L, cap),
           NEW n \in Nat, n <= o.capacity, o.writtensize + n <= L,
           NEW d, Bytes(d, o.writtensize, n), NEW w, w = Write(o, d)
    PROVE  /\ GoodOutput(w, L, cap)
           /\ w.writtensize = o.writtensize + n /\ w.readsize = o.readsize
           /\ w.capacity = o.capacity - n /\ w.end = o.end
<1>1. Buffered(o, cap)
  BY DEF GoodOutput, Buffered
<1>2. /\ Buffered(w, cap) /\ w.end = o.end
      /\ w.writtensize = o.writtensize + n /\ w.readsize = o.readsize
      /\ w.capacity = o.capacity - n
  BY <1>1, WriteBuffered DEF SameFlags
<1>3. o.writtensize \in Nat /\ o.writtensize <= L /\ (o.end => o.writtensize = L)
  BY GoodOutputMembers DEF GoodOutput
<1>4. w.writtensize <= L /\ (w.end => w.writtensize = L)
  BY <1>2, <1>3
<1> QED BY <1>2, <1>4 DEF GoodOutput, Buffered

\* read() leaves the rest.
LEMMA ReadGood ==
    ASSUME NEW L \in Nat, NEW cap \in Nat, NEW o, GoodOutput(o, L, cap),
           NEW len \in Nat, NEW w, w = Read(o, len)
    PROVE  /\ GoodOutput(w, L, cap)
           /\ w.writtensize = o.writtensize /\ w.readsize >= o.readsize /\ w.end = o.end
<1>1. Buffered(o, cap)
  BY DEF GoodOutput, Buffered
<1>2. PICK n \in Nat : /\ Buffered(w, cap) /\ w.end = o.end
                       /\ w.writtensize = o.writtensize /\ w.readsize = o.readsize + n
  <2>1. PICK n : HasRead(w, o, n, cap)
    BY <1>1, ReadBuffered
  <2> QED BY <2>1 DEF HasRead, SameFlags
<1>3. o.readsize \in Nat
  BY GoodOutputMembers
<1>4. w.readsize >= o.readsize
  BY <1>2, <1>3
<1>5. w.writtensize <= L /\ (w.end => w.writtensize = L)
  BY <1>2 DEF GoodOutput
<1> QED BY <1>2, <1>4, <1>5 DEF GoodOutput, Buffered

\* end_input() at the end of the stream.
LEMMA EndIfGood ==
    ASSUME NEW L \in Nat, NEW cap \in Nat, NEW o, GoodOutput(o, L, cap),
           NEW eof \in BOOLEAN, eof => o.writtensize = L, NEW w, w = EndIf(o, eof)
    PROVE  /\ GoodOutput(w, L, cap)
           /\ w.writtensize = o.writtensize /\ w.readsize = o.readsize
           /\ w.capacity = o.capacity /\ (o.end => w.end)
<1>1. CASE ~ eof
  BY <1>1 DEF EndIf
<1>2. CASE eof
  <2>1. w = [o EXCEPT !.end = TRUE]
    BY <1>2 DEF EndIf, EndInput
  <2>2. /\ w.que = o.que /\ w.capacity = o.capacity /\ w.writtensize = o.writtensize
        /\ w.readsize = o.readsize /\ w.end
    BY <2>1 DEF ByteStreamType, GoodOutput
  <2>3. w \in ByteStreamType(Nat)
    BY <2>1, Zenon DEF ByteStreamType, GoodOutput
  <2> QED BY <1>2, <2>2, <2>3 DEF GoodOutput
<1> QED BY <1>1, <1>2

\* A node of the list holds the bytes its bounds say, within the stream and
\* below the edge; one with eof ends the stream.
GoodNode(nd, L, edge) ==
    /\ nd \in NodeType
    /\ Bytes(nd.data, nd.blockstart, Len(nd.data))
    /\ nd.blockend = nd.blockstart + Len(nd.data) - 1
    /\ nd.blockstart + Len(nd.data) <= L
    /\ nd.blockstart + Len(nd.data) <= edge
    /\ nd.eof => nd.blockstart + Len(nd.data) = L

\* The list is sorted by index and its nodes do not overlap.
GoodList(nodes, L, edge) ==
    /\ nodes \in Seq(NodeType)
    /\ \A k \in 1 .. Len(nodes) : GoodNode(nodes[k], L, edge)
    /\ \A k \in 1 .. Len(nodes) - 1 : nodes[k].blockend < nodes[k + 1].blockstart

\* The lengths that Stored() adds up are natural numbers.
LEMMA StoredLengths ==
    ASSUME NEW L, NEW edge, NEW nodes, GoodList(nodes, L, edge),
           NEW f, f = Lengths(nodes)
    PROVE  /\ \A k \in 1 .. Len(nodes) : f[k] = Len(nodes[k].data) /\ f[k] \in Nat
           /\ Stored(nodes) = SumTo(f, Len(nodes))
           /\ Stored(nodes) \in Nat
<1>1. DOMAIN nodes = 1 .. Len(nodes) /\ Len(nodes) \in Nat
  BY LenProperties DEF GoodList
<1>2. ASSUME NEW k \in 1 .. Len(nodes)
      PROVE  f[k] = Len(nodes[k].data) /\ f[k] \in Nat
  <2>1. nodes[k].data \in Seq(Nat)
    BY DEF GoodList, GoodNode, NodeType
  <2>2. Len(nodes[k].data) \in Nat
    BY <2>1, LenProperties
  <2> QED BY <1>1, <2>2 DEF Lengths
<1>3. Stored(nodes) = SumTo(f, Len(nodes))
  BY DEF Stored
<1>4. SumTo(f, Len(nodes)) \in Nat
  <2>1. Len(nodes) \in 0 .. Len(nodes)
    BY <1>1
  <2> QED BY <1>1, <1>2, <2>1, SumToSteps
<1> QED BY <1>2, <1>3, <1>4

\* A node put at its place keeps the list in order, and adds its bytes.
LEMMA InsertGood ==
    ASSUME NEW L \in Nat, NEW edge \in Nat, NEW nodes, GoodList(nodes, L, edge),
           NEW p \in 0 .. Len(nodes), NEW nd, GoodNode(nd, L, edge),
           p > 0 => nodes[p].blockend < nd.blockstart,
           p < Len(nodes) => nd.blockend < nodes[p + 1].blockstart,
           NEW q \in Seq(NodeType), Len(q) = Len(nodes) + 1,
           Inserted(q, nodes, Len(nodes), p, nd)
    PROVE  /\ GoodList(q, L, edge)
           /\ Stored(q) = Stored(nodes) + Len(nd.data)
<1>1. PICK n \in Nat : n = Len(nodes) /\ p \in Nat /\ p <= n
  BY LenProperties DEF GoodList
<1>2. /\ q \in Seq(NodeType) /\ Len(q) = n + 1
      /\ \A i \in 1 .. p : q[i] = nodes[i]
      /\ q[p + 1] = nd
      /\ \A i \in p + 1 .. n : q[i + 1] = nodes[i]
  BY <1>1 DEF Inserted
<1>3. ASSUME NEW k \in 1 .. n + 1 PROVE GoodNode(q[k], L, edge)
  <2>1. CASE k \in 1 .. p
    <3>1. k \in 1 .. n
      BY <1>1, <2>1
    <3>2. q[k] = nodes[k]
      BY <1>2, <2>1
    <3> QED BY <1>1, <3>1, <3>2 DEF GoodList
  <2>2. CASE k = p + 1
    BY <1>2, <2>2
  <2>3. CASE k \in p + 2 .. n + 1
    <3>1. k - 1 \in p + 1 .. n /\ (k - 1) + 1 = k /\ k - 1 \in 1 .. n
      BY <1>1, <2>3
    <3>2. q[k] = nodes[k - 1]
      BY <1>2, <3>1
    <3> QED BY <1>1, <3>1, <3>2 DEF GoodList
  <2>4. k \in 1 .. p \/ k = p + 1 \/ k \in p + 2 .. n + 1
    BY <1>1
  <2> QED BY <2>1, <2>2, <2>3, <2>4
<1>4. ASSUME NEW k \in 1 .. n PROVE q[k].blockend < q[k + 1].blockstart
  <2>1. CASE k + 1 <= p
    <3>1. k \in 1 .. p /\ k + 1 \in 1 .. p /\ k \in 1 .. n - 1
      BY <1>1, <2>1
    <3>2. q[k] = nodes[k] /\ q[k + 1] = nodes[k + 1]
      BY <1>2, <3>1
    <3>3. nodes[k].blockend < nodes[k + 1].blockstart
      BY <1>1, <3>1 DEF GoodList
    <3> QED BY <3>2, <3>3
  <2>2. CASE k = p
    <3>1. p \in 1 .. p /\ p > 0
      BY <1>1, <2>2
    <3>2. q[k] = nodes[p] /\ q[k + 1] = nd
      BY <1>2, <2>2, <3>1
    <3> QED BY <3>1, <3>2
  <2>3. CASE k = p + 1
    <3>1. p + 1 \in p + 1 .. n /\ p < n
      BY <1>1, <2>3
    <3>2. q[k] = nd /\ q[k + 1] = nodes[p + 1]
      BY <1>2, <2>3, <3>1
    <3> QED BY <1>1, <3>1, <3>2
  <2>4. CASE k >= p + 2
    <3>1. k - 1 \in p + 1 .. n /\ (k - 1) + 1 = k /\ k - 1 \in 1 .. n - 1 /\ k \in p + 1 .. n
      BY <1>1, <2>4
    <3>2. q[k] = nodes[k - 1] /\ q[k + 1] = nodes[k]
      BY <1>2, <3>1
    <3>3. nodes[k - 1].blockend < nodes[(k - 1) + 1].blockstart
      BY <1>1, <3>1 DEF GoodList
    <3> QED BY <3>1, <3>2, <3>3
  <2>5. k + 1 <= p \/ k = p \/ k = p + 1 \/ k >= p + 2
    BY <1>1
  <2> QED BY <2>1, <2>2, <2>3, <2>4, <2>5
<1>5. GoodList(q, L, edge)
  <2>1. Len(q) - 1 = n
    <3>1. Len(q) = n + 1
      BY <1>2
    <3> QED BY <3>1
  <2> QED BY <1>2, <1>3, <1>4, <2>1 DEF GoodList
<1>6. Stored(q) = Stored(nodes) + Len(nd.data)
  <2>1. PICK f : f = Lengths(nodes)
    OBVIOUS
  <2>2. PICK g : g = Lengths(q)
    OBVIOUS
  <2>3. /\ \A k \in 1 .. n : f[k] = Len(nodes[k].data) /\ f[k] \in Nat
        /\ Stored(nodes) = SumTo(f, n)
    <3>1. /\ \A k \in 1 .. Len(nodes) : f[k] = Len(nodes[k].data) /\ f[k] \in Nat
          /\ Stored(nodes) = SumTo(f, Len(nodes))
      BY <2>1, StoredLengths
    <3> QED BY <1>1, <3>1, Zenon
  <2>4. /\ \A k \in 1 .. n + 1 : g[k] = Len(q[k].data) /\ g[k] \in Nat
        /\ Stored(q) = SumTo(g, n + 1)
    <3>1. Len(q) = n + 1
      BY <1>2
    <3>2. /\ \A k \in 1 .. Len(q) : g[k] = Len(q[k].data) /\ g[k] \in Nat
          /\ Stored(q) = SumTo(g, Len(q))
      BY <1>5, <2>2, StoredLengths
    <3> QED BY <3>1, <3>2, Zenon
  <2>5. ASSUME NEW k \in 1 .. p PROVE g[k] = f[k]
    <3>1. k \in 1 .. n /\ k \in 1 .. n + 1
      BY <1>1
    <3> QED BY <1>2, <2>3, <2>4, <3>1
  <2>6. g[p + 1] = Len(nd.data) /\ Len(nd.data) \in Nat
    <3>1. p + 1 \in 1 .. n + 1
      BY <1>1
    <3> QED BY <1>2, <2>4, <3>1
  <2>7. ASSUME NEW k \in p + 1 .. n PROVE g[k + 1] = f[k]
    <3>1. k \in 1 .. n /\ k + 1 \in 1 .. n + 1
      BY <1>1
    <3> QED BY <1>2, <2>3, <2>4, <3>1
  <2>8. PICK x \in Nat : x = Len(nd.data)
    BY <2>6
  <2>9. SumTo(g, n + 1) = SumTo(f, n) + x
    <3>1. p \in 0 .. n /\ \A k \in 1 .. n : f[k] \in Nat
      BY <1>1, <2>3
    <3>2. Inserted(g, f, n, p, x)
      BY <2>5, <2>6, <2>7, <2>8 DEF Inserted
    <3> QED BY <3>1, <3>2, SumToInsert
  <2> QED BY <2>3, <2>4, <2>8, <2>9
<1> QED BY <1>1, <1>2, <1>5, <1>6

\* The list without its first node.
LEMMA PopGood ==
    ASSUME NEW L \in Nat, NEW edge \in Nat, NEW nodes, GoodList(nodes, L, edge),
           nodes # <<>>
    PROVE  /\ GoodList(Tail(nodes), L, edge)
           /\ Len(Tail(nodes)) = Len(nodes) - 1 /\ Len(nodes) \in Nat /\ Len(nodes) > 0
           /\ Stored(nodes) = Stored(Tail(nodes)) + Len(nodes[1].data)
           /\ GoodNode(nodes[1], L, edge)
<1>1. PICK q \in Seq(NodeType) : q = Tail(nodes)
  BY HeadTailProperties DEF GoodList
<1>2. PICK n \in Nat : n = Len(q) /\ Len(nodes) = n + 1
  <2>1. Len(q) = Len(nodes) - 1 /\ Len(q) \in Nat /\ Len(nodes) \in Nat
    BY <1>1, HeadTailProperties, LenProperties DEF GoodList
  <2> QED BY <2>1
<1>3. \A i \in 1 .. n : q[i] = nodes[i + 1]
  BY <1>1, <1>2, HeadTailProperties DEF GoodList
<1>4. ASSUME NEW k \in 1 .. n PROVE GoodNode(q[k], L, edge)
  <2>1. k + 1 \in 1 .. n + 1
    OBVIOUS
  <2> QED BY <1>2, <1>3, <2>1 DEF GoodList
<1>5. ASSUME NEW k \in 1 .. n - 1 PROVE q[k].blockend < q[k + 1].blockstart
  <2>1. k \in 1 .. n /\ k + 1 \in 1 .. n /\ k + 1 \in 1 .. (n + 1) - 1
    OBVIOUS
  <2>2. q[k] = nodes[k + 1] /\ q[k + 1] = nodes[(k + 1) + 1]
    BY <1>3, <2>1
  <2>3. nodes[k + 1].blockend < nodes[(k + 1) + 1].blockstart
    BY <1>2, <2>1 DEF GoodList
  <2> QED BY <2>2, <2>3
<1>6. GoodList(q, L, edge)
  BY <1>1, <1>2, <1>4, <1>5 DEF GoodList
<1>7. GoodNode(nodes[1], L, edge)
  <2>1. 1 \in 1 .. Len(nodes)
    BY <1>2
  <2> QED BY <2>1 DEF GoodList
<1>8. Stored(nodes) = Stored(q) + Len(nodes[1].data)
  <2>1. PICK g : g = Lengths(nodes)
    OBVIOUS
  <2>2. PICK f : f = Lengths(q)
    OBVIOUS
  <2>3. /\ \A k \in 1 .. n + 1 : g[k] = Len(nodes[k].data) /\ g[k] \in Nat
        /\ Stored(nodes) = SumTo(g, n + 1)
    BY <1>2, <2>1, StoredLengths, SMTT(20)
  <2>4. /\ \A k \in 1 .. n : f[k] = Len(q[k].data) /\ f[k] \in Nat
        /\ Stored(q) = SumTo(f, n)
    BY <1>2, <1>6, <2>2, StoredLengths
  <2>5. PICK x \in Nat : x = Len(nodes[1].data) /\ g[1] = x
    <3>1. 1 \in 1 .. n + 1
      OBVIOUS
    <3> QED BY <2>3, <3>1
  <2>6. ASSUME NEW k \in 0 + 1 .. n PROVE g[k + 1] = f[k]
    <3>1. k \in 1 .. n /\ k + 1 \in 1 .. n + 1
      OBVIOUS
    <3> QED BY <1>3, <2>3, <2>4, <3>1
  <2>7. SumTo(g, n + 1) = SumTo(f, n) + x
    <3>1. 0 \in 0 .. n /\ \A k \in 1 .. n : f[k] \in Nat
      BY <2>4
    <3>2. Inserted(g, f, n, 0, x)
      BY <2>5, <2>6 DEF Inserted
    <3> QED BY <3>1, <3>2, SumToInsert
  <2> QED BY <2>3, <2>4, <2>5, <2>7
<1> QED BY <1>1, <1>2, <1>6, <1>7, <1>8

\* The edge may move on.
LEMMA EdgeMoves ==
    ASSUME NEW L \in Nat, NEW edge \in Nat, NEW edge2 \in Nat, edge <= edge2,
           NEW nodes, GoodList(nodes, L, edge)
    PROVE  GoodList(nodes, L, edge2)
<1>1. ASSUME NEW nd, GoodNode(nd, L, edge) PROVE GoodNode(nd, L, edge2)
  <2>1. nd.blockstart \in Nat /\ nd.data \in Seq(Nat)
    BY <1>1 DEF GoodNode, NodeType
  <2>2. Len(nd.data) \in Nat
    BY <2>1, LenProperties
  <2>3. nd.blockstart + Len(nd.data) <= edge2
    BY <1>1, <2>1, <2>2 DEF GoodNode
  <2> QED BY <1>1, <2>3 DEF GoodNode
<1> QED BY <1>1 DEF GoodList

\* The right edge of the window, or of the probe byte of a zero window.
Edge(o, cap) == MaxOf(o.readsize + cap, o.writtensize + 1)

\* A reassembler that has been given only bytes below the edge.
GoodReassembler(r, L) ==
    /\ r = [output |-> r.output, capacity |-> r.capacity,
            remaincapacity |-> r.remaincapacity, nodes |-> r.nodes]
    /\ r.capacity \in Nat /\ r.remaincapacity \in Nat
    /\ GoodOutput(r.output, L, r.capacity)
    /\ GoodList(r.nodes, L, Edge(r.output, r.capacity))
    /\ r.remaincapacity + Stored(r.nodes) = r.capacity

\* What a method that is not called by the reader may do to the output.
Advanced(r2, r) ==
    /\ r2.capacity = r.capacity
    /\ r2.output.readsize = r.output.readsize
    /\ r2.output.writtensize >= r.output.writtensize
    /\ r.output.end => r2.output.end

\* The edge is a natural number that moves with the output.
LEMMA EdgeType ==
    ASSUME NEW L \in Nat, NEW cap \in Nat, NEW o, GoodOutput(o, L, cap)
    PROVE  /\ Edge(o, cap) \in Nat
           /\ \A o2 : /\ GoodOutput(o2, L, cap)
                      /\ o2.readsize >= o.readsize /\ o2.writtensize >= o.writtensize
                      => Edge(o, cap) <= Edge(o2, cap)
<1>1. o.writtensize \in Nat /\ o.readsize \in Nat
  BY GoodOutputMembers
<1>2. Edge(o, cap) \in Nat
  BY <1>1 DEF Edge, MaxOf
<1>3. ASSUME NEW o2, GoodOutput(o2, L, cap),
             o2.readsize >= o.readsize, o2.writtensize >= o.writtensize
      PROVE  Edge(o, cap) <= Edge(o2, cap)
  <2>1. o2.writtensize \in Nat /\ o2.readsize \in Nat
    BY <1>3, GoodOutputMembers
  <2> QED BY <1>1, <1>3, <2>1 DEF Edge, MaxOf
<1> QED BY <1>2, <1>3

\* A reassembler whose output and list have been changed.
LEMMA ReassemblerChanged ==
    ASSUME NEW L \in Nat, NEW r, GoodReassembler(r, L),
           NEW o, GoodOutput(o, L, r.capacity),
           o.readsize >= r.output.readsize, o.writtensize >= r.output.writtensize,
           NEW q, GoodList(q, L, Edge(r.output, r.capacity)),
           NEW m \in Nat, m + Stored(q) = r.capacity,
           NEW r2, r2 = [output |-> o, capacity |-> r.capacity,
                         remaincapacity |-> m, nodes |-> q]
    PROVE  GoodReassembler(r2, L)
<1>1. r2.output = o /\ r2.capacity = r.capacity /\ r2.remaincapacity = m /\ r2.nodes = q
  OBVIOUS
<1>2. /\ r.capacity \in Nat /\ Edge(r.output, r.capacity) \in Nat /\ Edge(o, r.capacity) \in Nat
      /\ Edge(r.output, r.capacity) <= Edge(o, r.capacity)
  BY EdgeType DEF GoodReassembler
<1>3. GoodList(q, L, Edge(o, r.capacity))
  BY <1>2, EdgeMoves
<1> QED BY <1>1, <1>2, <1>3 DEF GoodReassembler

\* fetch_valid_data() drops the head of the list.
PoppedTo(r, o) == [PopHead(r) EXCEPT !.output = o]

LEMMA PopHeadGood ==
    ASSUME NEW L \in Nat, NEW r, GoodReassembler(r, L), r.nodes # <<>>,
           NEW o, GoodOutput(o, L, r.capacity),
           o.readsize >= r.output.readsize, o.writtensize >= r.output.writtensize,
           NEW z, z = PoppedTo(r, o)
    PROVE  /\ GoodReassembler(z, L)
           /\ z.output = o /\ z.capacity = r.capacity /\ Len(z.nodes) = Len(r.nodes) - 1
           /\ z.nodes = Tail(r.nodes)
<1> DEFINE cap == r.capacity
           e == Edge(r.output, cap)
           nodes == r.nodes
           q == Tail(nodes)
           x == Len(nodes[1].data)
           m == r.remaincapacity + x
<1>1. cap \in Nat /\ GoodOutput(r.output, L, cap) /\ GoodList(nodes, L, e) /\ nodes # <<>>
      /\ r.remaincapacity \in Nat /\ r.remaincapacity + Stored(nodes) = cap
  BY DEF GoodReassembler
<1>2. e \in Nat
  BY <1>1, EdgeType
<1>3. z = [output |-> o, capacity |-> cap, remaincapacity |-> m, nodes |-> q]
  <2>1. PopHead(r) = [r EXCEPT !.nodes = q, !.remaincapacity = m]
    BY DEF PopHead
  <2> QED BY <2>1 DEF GoodReassembler, PoppedTo
<1>4. GoodOutput(o, L, cap)
  OBVIOUS
<1> HIDE DEF q, x, m, nodes, e
<1>5. GoodList(q, L, e) /\ Len(q) = Len(nodes) - 1 /\ GoodNode(nodes[1], L, e)
      /\ Stored(nodes) = Stored(q) + x
  BY <1>1, <1>2, PopGood DEF q, x
<1>6. x \in Nat
  <2>1. nodes[1].data \in Seq(Nat)
    BY <1>5 DEF GoodNode, Bytes
  <2> QED BY <2>1, LenProperties DEF x
<1>7. Stored(q) \in Nat
  BY <1>5, StoredLengths
<1>8. m \in Nat /\ m + Stored(q) = cap
  BY <1>1, <1>5, <1>6, <1>7 DEF m
<1>9. GoodReassembler(z, L)
  BY <1>3, <1>5, <1>8, ReassemblerChanged DEF e
<1>10. z.output = o /\ z.capacity = cap /\ z.nodes = q
  BY <1>3
<1> QED BY <1>5, <1>9, <1>10 DEF nodes, q

\* The head of the list lies below the edge, so what the output lacks of it fits
\* as a whole.
LEMMA RestFits ==
    ASSUME NEW L \in Nat, NEW cap \in Nat, NEW o, GoodOutput(o, L, cap), o.capacity # 0,
           NEW head, GoodNode(head, L, Edge(o, cap)),
           ~ (head.blockstart > o.writtensize), ~ (head.blockend < o.writtensize)
    PROVE  \E n \in Nat :
             /\ Bytes(Rest(head, o.writtensize), o.writtensize, n)
             /\ n <= o.capacity /\ o.writtensize + n <= L
             /\ head.eof => o.writtensize + n = L
             /\ o.writtensize + n > head.blockend
<1> DEFINE W == o.writtensize
           R == o.readsize
           C == o.capacity
           b == head.blockstart
           d == Len(head.data)
           n == b + d - W
<1>1. W \in Nat /\ R \in Nat /\ C \in Nat /\ W <= L /\ R <= W /\ C = cap - (W - R)
  BY GoodOutputMembers
<1>2. b \in Nat /\ head.data \in Seq(Nat)
  BY DEF GoodNode, NodeType
<1>3. d \in Nat
  BY <1>2, LenProperties
<1>4. /\ Bytes(head.data, b, d) /\ head.blockend = b + d - 1 /\ b + d <= L
      /\ b + d <= Edge(o, cap) /\ (head.eof => b + d = L)
  BY DEF GoodNode
<1>5. Edge(o, cap) = R + cap \/ Edge(o, cap) = W + 1
  BY DEF Edge, MaxOf
<1>6. C # 0 /\ ~ (b > W) /\ ~ (b + d - 1 < W)
  BY <1>4
<1> HIDE DEF W, R, C, b, d
<1>7. W - b \in Nat /\ n \in Nat /\ (W - b) + n = d /\ W + n = b + d /\ b + (W - b) = W
  BY <1>1, <1>2, <1>3, <1>6
<1>8. n <= C
  BY <1>1, <1>2, <1>3, <1>4, <1>5, <1>6
<1> HIDE DEF n
<1>9. Bytes(Drop(head.data, W - b), b + (W - b), n)
  BY <1>2, <1>3, <1>4, <1>7, BytesDrop
<1>10. Bytes(Rest(head, W), W, n)
  BY <1>7, <1>9 DEF Rest, b
<1>11. W + n <= L /\ (head.eof => W + n = L)
  BY <1>4, <1>7
<1>12. W + n > head.blockend
  BY <1>2, <1>3, <1>4, <1>7
<1> QED BY <1>7, <1>8, <1>10, <1>11, <1>12 DEF W, C

\* One round of the loop in fetch_valid_data(): the head either goes as a whole
\* or the loop ends.
LEMMA FetchRoundGood ==
    ASSUME NEW L \in Nat, NEW r, GoodReassembler(r, L)
    PROVE  /\ GoodReassembler(FetchRound(r), L)
           /\ Advanced(FetchRound(r), r)
           /\ IF LoopEnds(r)
                THEN FetchRound(r) = r
                ELSE /\ Len(FetchRound(r).nodes) = Len(r.nodes) - 1
                     /\ FetchRound(r).nodes = Tail(r.nodes) /\ r.nodes # <<>>
                     /\ r.nodes[1].blockend < FetchRound(r).output.writtensize
<1> DEFINE o == r.output
           cap == r.capacity
           W == o.writtensize
           head == r.nodes[1]
           rest == Rest(head, W)
           v == EndIf(Write(o, rest), head.eof)
<1>1. cap \in Nat /\ GoodOutput(o, L, cap) /\ GoodList(r.nodes, L, Edge(o, cap))
  BY DEF GoodReassembler
<1>2. W \in Nat /\ o.readsize \in Nat
  BY <1>1, GoodOutputMembers
<1>3. CASE LoopEnds(r)
  <2>1. FetchRound(r) = r
    BY <1>3 DEF FetchRound
  <2>2. Advanced(r, r)
    BY <1>2 DEF Advanced
  <2> QED BY <1>3, <2>1, <2>2
<1>4. CASE ~ LoopEnds(r)
  <2>1. r.nodes # <<>> /\ o.capacity # 0 /\ ~ (head.blockstart > W)
    BY <1>4 DEF LoopEnds
  <2>2. GoodNode(head, L, Edge(o, cap))
    <3>1. Edge(o, cap) \in Nat
      BY <1>1, EdgeType
    <3> HIDE DEF o, cap
    <3> QED BY <1>1, <2>1, <3>1, PopGood
  <2>3. CASE head.blockend < W
    <3>1. FetchRound(r) = PopHead(r)
      BY <1>4, <2>3 DEF FetchRound
    <3>2. FetchRound(r) = PoppedTo(r, o)
      BY <3>1 DEF PopHead, GoodReassembler, PoppedTo
    <3>3. o.readsize >= r.output.readsize /\ o.writtensize >= r.output.writtensize
      BY <1>2
    <3>4. PICK z : z = FetchRound(r)
      OBVIOUS
    <3>5. /\ GoodReassembler(z, L)
          /\ z.output = o /\ z.capacity = r.capacity /\ Len(z.nodes) = Len(r.nodes) - 1
          /\ z.nodes = Tail(r.nodes)
      <4>1. GoodOutput(o, L, r.capacity)
        BY <1>1
      <4>2. z = PoppedTo(r, o)
        BY <3>2, <3>4, Zenon
      <4> HIDE DEF o, cap, head
      <4>3. r.nodes # <<>>
        BY <2>1
      <4>4. o.readsize >= r.output.readsize
        BY <3>3
      <4>5. o.writtensize >= r.output.writtensize
        BY <3>3
      <4> HIDE DEF W, rest, v
      <4>6. GoodReassembler(z, L)
        BY <4>1, <4>2, <4>3, <4>4, <4>5, PopHeadGood
      <4>7. z.output = o
        BY <4>1, <4>2, <4>3, <4>4, <4>5, PopHeadGood
      <4>8. z.capacity = r.capacity
        BY <4>1, <4>2, <4>3, <4>4, <4>5, PopHeadGood
      <4>9. Len(z.nodes) = Len(r.nodes) - 1
        BY <4>1, <4>2, <4>3, <4>4, <4>5, PopHeadGood
      <4>10. z.nodes = Tail(r.nodes)
        BY <4>1, <4>2, <4>3, <4>4, <4>5, PopHeadGood
      <4> QED BY <4>6, <4>7, <4>8, <4>9, <4>10
    <3>6. Advanced(z, r)
      BY <3>3, <3>5 DEF Advanced
    <3>7. r.nodes[1].blockend < z.output.writtensize
      BY <2>3, <3>5
    <3> QED BY <1>4, <2>1, <3>4, <3>5, <3>6, <3>7
  <2>4. CASE ~ (head.blockend < W)
    <3>1. PICK n \in Nat : /\ Bytes(rest, W, n) /\ n <= o.capacity /\ W + n <= L
                           /\ head.eof => W + n = L
                           /\ W + n > head.blockend
      <4> HIDE DEF o, cap, head
      <4> QED BY <1>1, <2>1, <2>2, <2>4, RestFits
    <3>2. PICK w : w = Write(o, rest)
      OBVIOUS
    <3>3. GoodOutput(w, L, cap) /\ w.writtensize = W + n /\ w.readsize = o.readsize /\ w.end = o.end
      <4> HIDE DEF o, cap, rest
      <4> QED BY <1>1, <3>1, <3>2, WriteGood
    <3>4. v = EndIf(w, head.eof) /\ head.eof \in BOOLEAN
      BY <2>2, <3>2 DEF GoodNode, NodeType
    <3> HIDE DEF v
    <3>5. GoodOutput(v, L, cap) /\ v.writtensize = W + n /\ v.readsize = o.readsize
          /\ (o.end => v.end)
      <4> HIDE DEF o, cap, head
      <4>1. GoodOutput(v, L, cap) /\ v.writtensize = w.writtensize
            /\ v.readsize = w.readsize /\ (w.end => v.end)
        BY <1>1, <3>1, <3>3, <3>4, EndIfGood
      <4> QED BY <3>3, <4>1
    <3>6. FetchRound(r) = PoppedTo(r, v)
      <4>1. Len(rest) = n /\ ~ (n > o.capacity) /\ n \in Nat
        <5>1. o.capacity \in Nat
          BY <1>1, GoodOutputMembers
        <5> QED BY <3>1, <5>1 DEF Bytes
      <4>2. FetchRound(r) = FetchWhole(r, rest)
        BY <1>4, <2>4, <4>1 DEF FetchRound
      <4>3. PopHead(r).output = o
        BY DEF PopHead, GoodReassembler
      <4> QED BY <4>2, <4>3 DEF FetchWhole, PoppedTo, v
    <3>7. v.readsize >= r.output.readsize /\ v.writtensize >= r.output.writtensize
      BY <1>2, <3>5
    <3>8. PICK z : z = FetchRound(r)
      OBVIOUS
    <3>9. /\ GoodReassembler(z, L)
          /\ z.output = v /\ z.capacity = r.capacity /\ Len(z.nodes) = Len(r.nodes) - 1
          /\ z.nodes = Tail(r.nodes)
      <4>1. GoodOutput(v, L, r.capacity)
        BY <3>5
      <4>2. z = PoppedTo(r, v)
        BY <3>6, <3>8, Zenon
      <4> HIDE DEF o, cap, head
      <4>3. r.nodes # <<>>
        BY <2>1
      <4>4. v.readsize >= r.output.readsize
        BY <3>7
      <4>5. v.writtensize >= r.output.writtensize
        BY <3>7
      <4> HIDE DEF W, rest
      <4>6. GoodReassembler(z, L)
        BY <4>1, <4>2, <4>3, <4>4, <4>5, PopHeadGood
      <4>7. z.output = v
        BY <4>1, <4>2, <4>3, <4>4, <4>5, PopHeadGood
      <4>8. z.capacity = r.capacity
        BY <4>1, <4>2, <4>3, <4>4, <4>5, PopHeadGood
      <4>9. Len(z.nodes) = Len(r.nodes) - 1
        BY <4>1, <4>2, <4>3, <4>4, <4>5, PopHeadGood
      <4>10. z.nodes = Tail(r.nodes)
        BY <4>1, <4>2, <4>3, <4>4, <4>5, PopHeadGood
      <4> QED BY <4>6, <4>7, <4>8, <4>9, <4>10
    <3>10. Advanced(z, r)
      BY <3>5, <3>7, <3>9 DEF Advanced
    <3>11. r.nodes[1].blockend < z.output.writtensize
      BY <3>1, <3>5, <3>9, <2>2, <1>2 DEF GoodNode, NodeType
    <3> QED BY <1>4, <2>1, <3>8, <3>9, <3>10, <3>11
  <2> QED BY <2>3, <2>4
<1> QED BY <1>3, <1>4

\* A good reassembler is one of the type.
LEMMA GoodReassemblerType ==
    ASSUME NEW L, NEW r, GoodReassembler(r, L)
    PROVE  r \in ReassemblerType
<1>1. r.output \in ByteStreamType(Nat) /\ r.nodes \in Seq(NodeType)
  BY DEF GoodReassembler, GoodOutput, GoodList
<1> QED BY <1>1 DEF GoodReassembler, ReassemblerType

\* Doing nothing is an advance.
LEMMA AdvancedSelf ==
    ASSUME NEW L \in Nat, NEW r, GoodReassembler(r, L)
    PROVE  Advanced(r, r)
<1>1. GoodOutput(r.output, L, r.capacity) /\ r.capacity \in Nat
  BY DEF GoodReassembler
<1>2. r.output.writtensize \in Nat
  BY <1>1, GoodOutputMembers
<1> QED BY <1>2 DEF Advanced

\* Advances add up.
LEMMA AdvancedTrans ==
    ASSUME NEW L \in Nat, NEW r, NEW r1, NEW r2,
           GoodReassembler(r, L), GoodReassembler(r1, L), GoodReassembler(r2, L),
           Advanced(r1, r), Advanced(r2, r1)
    PROVE  Advanced(r2, r)
<1>1. ASSUME NEW x, GoodReassembler(x, L) PROVE x.output.writtensize \in Nat
  <2>1. GoodOutput(x.output, L, x.capacity) /\ x.capacity \in Nat
    BY <1>1 DEF GoodReassembler
  <2> QED BY <2>1, GoodOutputMembers
<1>2. r.output.writtensize \in Nat /\ r1.output.writtensize \in Nat /\ r2.output.writtensize \in Nat
  BY <1>1
<1> QED BY <1>2 DEF Advanced

\* fetch_valid_data() leaves nothing at the front of the list that it could
\* have written.
LEMMA FetchValidDataGood ==
    ASSUME NEW L \in Nat, NEW r, GoodReassembler(r, L)
    PROVE  /\ GoodReassembler(FetchValidData(r), L)
           /\ Advanced(FetchValidData(r), r)
           /\ LoopEnds(FetchValidData(r))
<1> DEFINE S == {x \in ReassemblerType : GoodReassembler(x, L) /\ Advanced(x, r)}
<1>1. ASSUME NEW x \in S PROVE FetchRound(x) \in S
  <2>1. GoodReassembler(FetchRound(x), L) /\ Advanced(FetchRound(x), x)
    BY FetchRoundGood
  <2>2. Advanced(FetchRound(x), r)
    BY <2>1, AdvancedTrans
  <2> QED BY <2>1, <2>2, GoodReassemblerType
<1>2. r \in S
  <2>1. Advanced(r, r)
    BY AdvancedSelf
  <2> QED BY <2>1, GoodReassemblerType
<1>3. PICK n \in Nat : n = Len(r.nodes)
  BY LenProperties DEF GoodReassembler, GoodList
<1>4. PICK g \in [0 .. n -> S] : FetchRounds(g, r, n)
  <2> HIDE DEF S
  <2>1. \A x \in S : FetchRound(x) \in S
    BY <1>1
  <2> QED BY <1>2, <2>1, FetchIterated, Zenon
<1>5. FetchValidData(r) = g[n]
  BY <1>3, <1>4 DEF FetchValidData, FetchRounds
<1> DEFINE G == {k \in 0 .. n : LoopEnds(g[k]) \/ Len(g[k].nodes) <= n - k}
<1>6. \A k \in 0 .. n : g[k] \in S
  OBVIOUS
<1>7. \A k \in 0 .. n : GoodReassembler(g[k], L) /\ Advanced(g[k], r)
  BY <1>6
<1>8. \A k \in 0 .. n : Len(g[k].nodes) \in Nat
  <2> SUFFICES ASSUME NEW k \in 0 .. n PROVE Len(g[k].nodes) \in Nat
    OBVIOUS
  <2>1. GoodReassembler(g[k], L)
    BY <1>7
  <2> QED BY <2>1, LenProperties DEF GoodReassembler, GoodList
<1> HIDE DEF S
<1>9. \A k \in 0 .. n : k \in G
  <2>1. 0 \in G
    BY <1>3, <1>4 DEF FetchRounds
  <2>2. ASSUME NEW k \in 0 .. n - 1, k \in G PROVE k + 1 \in G
    <3>1. k \in 0 .. n /\ k + 1 \in 0 .. n /\ g[k + 1] = FetchRound(g[k])
      BY <1>4 DEF FetchRounds
    <3>2. GoodReassembler(g[k], L)
      BY <1>7, <3>1
    <3>3. CASE LoopEnds(g[k])
      <4>1. g[k + 1] = g[k]
        BY <3>1, <3>2, <3>3, FetchRoundGood
      <4> QED BY <3>1, <3>3, <4>1
    <3>4. CASE ~ LoopEnds(g[k])
      <4>1. Len(g[k + 1].nodes) = Len(g[k].nodes) - 1
        BY <3>1, <3>2, <3>4, FetchRoundGood
      <4>2. Len(g[k].nodes) <= n - k
        BY <2>2, <3>4
      <4>3. Len(g[k + 1].nodes) <= n - (k + 1)
        BY <1>8, <3>1, <4>1, <4>2
      <4> QED BY <3>1, <4>3
    <3> QED BY <3>3, <3>4
  <2> HIDE DEF G
  <2> QED BY <2>1, <2>2, InductionUpTo
<1>10. n \in 0 .. n
  OBVIOUS
<1>11. LoopEnds(g[n])
  <2>1. CASE LoopEnds(g[n])
    BY <2>1
  <2>2. CASE ~ LoopEnds(g[n])
    <3>1. Len(g[n].nodes) = 0
      BY <1>8, <1>9, <1>10, <2>2
    <3>2. GoodReassembler(g[n], L)
      BY <1>7, <1>10
    <3>3. g[n].nodes \in Seq(NodeType)
      BY <3>2 DEF GoodReassembler, GoodList
    <3>4. g[n].nodes = <<>>
      BY <3>1, <3>3, EmptySeq
    <3> QED BY <3>4 DEF LoopEnds
  <2> QED BY <2>1, <2>2
<1> QED BY <1>5, <1>7, <1>10, <1>11

\* A part of the stream that lies below the edge; eof goes with its end.
GoodData(data, index, eof, L, edge) ==
    /\ index \in Nat /\ eof \in BOOLEAN
    /\ Bytes(data, index, Len(data))
    /\ index + Len(data) <= L
    /\ index + Len(data) <= edge
    /\ Len(data) > 0 /\ eof => index + Len(data) = L

\* A node made of a part of such data.
LEMMA NodeGood ==
    ASSUME NEW L \in Nat, NEW edge \in Nat,
           NEW data, NEW index, NEW last, GoodData(data, index, last, L, edge),
           NEW offset \in Nat, NEW n \in Nat, offset + n <= Len(data),
           NEW eof \in BOOLEAN, eof => last /\ offset + n = Len(data) /\ n > 0,
           NEW nd, nd = Node(Substr(data, offset, n), index + offset, eof)
    PROVE  /\ GoodNode(nd, L, edge)
           /\ Len(nd.data) = n
           /\ nd.blockstart = index + offset /\ nd.blockend = index + offset + n - 1
<1>1. index \in Nat /\ Bytes(data, index, Len(data)) /\ index + Len(data) <= L
      /\ index + Len(data) <= edge /\ (Len(data) > 0 /\ last => index + Len(data) = L)
  BY DEF GoodData
<1>2. PICK len \in Nat : len = Len(data)
  BY <1>1, LenProperties DEF Bytes
<1>3. PICK d : d = Substr(data, offset, n) /\ Bytes(d, index + offset, n)
  BY <1>1, <1>2, BytesPart
<1>4. d \in Seq(Nat) /\ Len(d) = n
  BY <1>3 DEF Bytes
<1>5. nd = [data |-> d, blockstart |-> index + offset,
            blockend |-> index + offset + n - 1, eof |-> eof]
  BY <1>3, <1>4 DEF Node
<1>6. /\ nd.data = d /\ nd.blockstart = index + offset
      /\ nd.blockend = index + offset + n - 1 /\ nd.eof = eof
  BY <1>5
<1>7. nd \in NodeType
  <2>1. index + offset \in Nat /\ index + offset + n - 1 \in Int
    BY <1>1
  <2> QED BY <1>4, <1>5, <2>1 DEF NodeType
<1>8. Bytes(nd.data, nd.blockstart, Len(nd.data)) /\ Len(nd.data) = n
  BY <1>3, <1>4, <1>6
<1>9. index + offset + n <= L /\ index + offset + n <= edge
      /\ (eof => index + offset + n = L)
  BY <1>1, <1>2
<1> QED BY <1>6, <1>7, <1>8, <1>9 DEF GoodNode

\* A call of insert_to_linklist() on an object r that only its list has changed of.
GoodCall(c, r, L) ==
    /\ c = [sr |-> c.sr, data |-> c.data, index |-> c.index, head |-> c.head, eof |-> c.eof]
    /\ GoodReassembler(c.sr, L) /\ c.sr.output = r.output /\ c.sr.capacity = r.capacity
    /\ GoodData(c.data, c.index, c.eof, L, Edge(r.output, r.capacity))
    /\ c.head \in Nat /\ c.head >= 1
    /\ Len(c.data) > 0 /\ c.sr.nodes # <<>> => c.head <= Len(c.sr.nodes)

\* A place for n bytes of the data, from offset on, behind position p.
GoodPlace(c, p, offset, n) ==
    /\ p \in 0 .. Len(c.sr.nodes)
    /\ offset \in Nat /\ n \in Nat
    /\ offset + n <= Len(c.data) /\ n <= c.sr.remaincapacity
    /\ p > 0 => c.sr.nodes[p].blockend < c.index + offset
    /\ p < Len(c.sr.nodes) => c.index + offset + n - 1 < c.sr.nodes[p + 1].blockstart

\* A reassembler of which only the list has changed.
Relisted(z, r, L) ==
    GoodReassembler(z, L) /\ z.output = r.output /\ z.capacity = r.capacity

\* The new node is behind position p, and what was there is behind it.
StoredAt(z, c, p, offset, n) ==
    /\ Len(z.nodes) = Len(c.sr.nodes) + 1
    /\ z.nodes[p + 1].blockstart = c.index + offset
    /\ z.nodes[p + 1].blockend = c.index + offset + n - 1
    /\ p < Len(c.sr.nodes) => z.nodes[p + 2] = c.sr.nodes[p + 1]
    /\ z.remaincapacity = c.sr.remaincapacity - n

\* The list with the new node.
LEMMA StoreAfterGood ==
    ASSUME NEW L \in Nat, NEW r, GoodReassembler(r, L), NEW c, GoodCall(c, r, L),
           NEW p, NEW offset, NEW n, GoodPlace(c, p, offset, n),
           NEW eof \in BOOLEAN, eof => c.eof /\ offset + n = Len(c.data) /\ n > 0,
           NEW z, z = StoreAfter(c, p, offset, n, eof)
    PROVE  Relisted(z, r, L) /\ StoredAt(z, c, p, offset, n)
<1> DEFINE nodes == c.sr.nodes
           cap == c.sr.capacity
           o == c.sr.output
           e == Edge(o, cap)
           nd == Node(Substr(c.data, offset, n), c.index + offset, eof)
           q == SubSeq(nodes, 1, p) \o <<nd>> \o SubSeq(nodes, p + 1, Len(nodes))
           m == c.sr.remaincapacity - n
<1>1. /\ GoodReassembler(c.sr, L) /\ o = r.output /\ cap = r.capacity
      /\ GoodData(c.data, c.index, c.eof, L, e)
  BY DEF GoodCall
<1>2. /\ cap \in Nat /\ c.sr.remaincapacity \in Nat /\ GoodOutput(o, L, cap)
      /\ GoodList(nodes, L, e) /\ c.sr.remaincapacity + Stored(nodes) = cap
  BY <1>1 DEF GoodReassembler
<1>3. z = [output |-> o, capacity |-> cap, remaincapacity |-> m, nodes |-> q]
  BY <1>1 DEF StoreAfter, GoodReassembler
<1>4. /\ p \in 0 .. Len(nodes) /\ offset \in Nat /\ n \in Nat /\ offset + n <= Len(c.data)
      /\ n <= c.sr.remaincapacity
      /\ (p > 0 => nodes[p].blockend < c.index + offset)
      /\ (p < Len(nodes) => c.index + offset + n - 1 < nodes[p + 1].blockstart)
  BY DEF GoodPlace
<1>5. e \in Nat
  <2> HIDE DEF o, cap
  <2> QED BY <1>2, EdgeType
<1> HIDE DEF nodes, o, cap, e, q, m
<1>6. /\ GoodNode(nd, L, e) /\ Len(nd.data) = n
      /\ nd.blockstart = c.index + offset /\ nd.blockend = c.index + offset + n - 1
  <2> HIDE DEF nd
  <2>1. PICK data, index, last : data = c.data /\ index = c.index /\ last = c.eof
    OBVIOUS
  <2>2. GoodData(data, index, last, L, e)
    BY <1>1, <2>1
  <2>3. nd = Node(Substr(data, offset, n), index + offset, eof)
    BY <2>1 DEF nd
  <2>4. offset + n <= Len(data) /\ (eof => last /\ offset + n = Len(data) /\ n > 0)
    BY <1>4, <2>1
  <2>5. /\ GoodNode(nd, L, e) /\ Len(nd.data) = n
        /\ nd.blockstart = index + offset /\ nd.blockend = index + offset + n - 1
    BY <1>4, <1>5, <2>2, <2>3, <2>4, NodeGood
  <2> QED BY <2>1, <2>5
<1> HIDE DEF nd
<1>7. q \in Seq(NodeType) /\ Len(q) = Len(nodes) + 1 /\ Inserted(q, nodes, Len(nodes), p, nd)
  <2>1. nodes \in Seq(NodeType) /\ nd \in NodeType
    BY <1>2, <1>6 DEF GoodList, GoodNode
  <2>2. q = PutAfter(nodes, p, nd)
    BY DEF q, PutAfter
  <2>3. LongerBy(q, NodeType, nodes, p, nd)
    BY <1>4, <2>1, <2>2, InsertAfter
  <2> QED BY <2>3 DEF LongerBy
<1>8. GoodList(q, L, e) /\ Stored(q) = Stored(nodes) + n
  <2>1. /\ p > 0 => nodes[p].blockend < nd.blockstart
        /\ p < Len(nodes) => nd.blockend < nodes[p + 1].blockstart
    BY <1>4, <1>6
  <2>2. GoodList(q, L, e) /\ Stored(q) = Stored(nodes) + Len(nd.data)
    BY <1>2, <1>4, <1>5, <1>6, <1>7, <2>1, InsertGood
  <2> QED BY <1>6, <2>2
<1>9. Stored(nodes) \in Nat
  BY <1>2, StoredLengths
<1>10. m \in Nat /\ m + Stored(q) = cap
  <2>1. m \in Nat /\ m + (Stored(nodes) + n) = cap
    BY <1>2, <1>4, <1>9, SMTT(20) DEF m
  <2> QED BY <1>8, <2>1
<1>11. /\ z.output = o /\ z.capacity = cap /\ z.remaincapacity = m /\ z.nodes = q
  BY <1>3
<1>12. GoodReassembler(z, L)
  BY <1>2, <1>3, <1>8, <1>10, <1>11 DEF GoodReassembler, e
<1>13. Relisted(z, r, L)
  BY <1>1, <1>11, <1>12 DEF Relisted
<1>14. p < Len(nodes) => q[p + 2] = nodes[p + 1]
  <2> SUFFICES ASSUME p < Len(nodes) PROVE q[p + 2] = nodes[p + 1]
    OBVIOUS
  <2>1. Len(nodes) \in Nat
    BY <1>2, LenProperties DEF GoodList
  <2>2. p + 1 \in p + 1 .. Len(nodes) /\ (p + 1) + 1 = p + 2
    BY <1>4, <2>1
  <2> QED BY <1>7, <2>2 DEF Inserted
<1>15. q[p + 1] = nd
  BY <1>7 DEF Inserted
<1>16. StoredAt(z, c, p, offset, n)
  BY <1>6, <1>7, <1>11, <1>14, <1>15 DEF StoredAt, nodes, m
<1> QED BY <1>13, <1>16

\* A call that returns.
LEMMA ReturnGood ==
    ASSUME NEW L \in Nat, NEW r, GoodReassembler(r, L), NEW c, GoodCall(c, r, L),
           NEW z, Relisted(z, r, L)
    PROVE  GoodCall(Returned(c, z), r, L)
<1> DEFINE e == Edge(r.output, r.capacity)
           c2 == Returned(c, z)
<1>1. c2 = [sr |-> z, data |-> <<>>, index |-> c.index, head |-> c.head, eof |-> c.eof]
  <2>1. c = [sr |-> c.sr, data |-> c.data, index |-> c.index, head |-> c.head, eof |-> c.eof]
    BY DEF GoodCall
  <2>2. PICK a1, a2, a3, a4, a5 : c = [sr |-> a1, data |-> a2, index |-> a3, head |-> a4, eof |-> a5]
    BY <2>1, Zenon
  <2>3. PICK d : d = [c EXCEPT !.sr = z]
    OBVIOUS
  <2>4. d = [sr |-> z, data |-> a2, index |-> a3, head |-> a4, eof |-> a5]
    BY <2>2, <2>3
  <2>5. c2 = [d EXCEPT !.data = <<>>]
    BY <2>3 DEF Returned
  <2>6. c.index = a3 /\ c.head = a4 /\ c.eof = a5
    BY <2>2
  <2> QED BY <2>4, <2>5, <2>6
<1>2. e \in Nat
  BY EdgeType DEF GoodReassembler
<1>3. GoodData(c.data, c.index, c.eof, L, e) /\ c.head \in Nat /\ c.head >= 1
  BY DEF GoodCall
<1>4. Len(c.data) \in Nat
  BY <1>3, LenProperties DEF GoodData, Bytes
<1> HIDE DEF c2, e
<1>5. GoodData(<<>>, c.index, c.eof, L, e)
  <2>1. Len(<<>>) = 0 /\ <<>> \in Seq(Nat)
    BY EmptySeq
  <2>2. Bytes(<<>>, c.index, 0)
    BY <2>1 DEF Bytes
  <2>3. c.index \in Nat /\ c.eof \in BOOLEAN /\ c.index + 0 <= L /\ c.index + 0 <= e
    BY <1>2, <1>3, <1>4 DEF GoodData
  <2> QED BY <2>1, <2>2, <2>3 DEF GoodData
<1>6. /\ c2.sr = z /\ c2.data = <<>> /\ c2.index = c.index /\ c2.head = c.head /\ c2.eof = c.eof
      /\ Len(<<>>) = 0
  BY <1>1, EmptySeq
<1>7. c2 = [sr |-> c2.sr, data |-> c2.data, index |-> c2.index, head |-> c2.head, eof |-> c2.eof]
  BY <1>1, <1>6
<1>8. GoodReassembler(c2.sr, L) /\ c2.sr.output = r.output /\ c2.sr.capacity = r.capacity
  BY <1>6 DEF Relisted
<1>9. GoodData(c2.data, c2.index, c2.eof, L, e)
  BY <1>5, <1>6
<1>10. ~ (Len(c2.data) > 0)
  BY <1>6
<1>11. GoodCall(c2, r, L)
  BY <1>3, <1>6, <1>7, <1>8, <1>9, <1>10 DEF GoodCall, e
<1> QED BY <1>11 DEF c2

\* A call that calls itself for what is left of the data.
LEMMA RecurseGood ==
    ASSUME NEW L \in Nat, NEW r, GoodReassembler(r, L), NEW c, GoodCall(c, r, L),
           NEW z, Relisted(z, r, L),
           NEW used \in Nat, used <= Len(c.data),
           NEW head \in Nat, head >= 1, head <= Len(z.nodes)
    PROVE  GoodCall(Recurse(c, z, used, head), r, L)
<1> DEFINE e == Edge(r.output, r.capacity)
           c2 == Recurse(c, z, used, head)
           d == Drop(c.data, used)
           i == c.index + used
<1>1. c2 = [sr |-> z, data |-> d, index |-> i, head |-> head, eof |-> c.eof]
  BY DEF Recurse
<1>2. e \in Nat
  BY EdgeType DEF GoodReassembler
<1>3. GoodData(c.data, c.index, c.eof, L, e)
  BY DEF GoodCall
<1>4. PICK len \in Nat : len = Len(c.data)
  BY <1>3, LenProperties DEF GoodData, Bytes
<1>5. PICK n \in Nat : used + n = len
  <2>1. len - used \in Nat /\ used + (len - used) = len
    BY <1>4
  <2> QED BY <2>1
<1>6. c.index \in Nat /\ c.eof \in BOOLEAN
  BY <1>3 DEF GoodData
<1>7. Bytes(d, i, n)
  <2>1. Bytes(c.data, c.index, len)
    BY <1>3, <1>4 DEF GoodData
  <2> QED BY <1>5, <1>6, <2>1, BytesDrop
<1>8. Len(d) = n /\ i \in Nat
  BY <1>6, <1>7 DEF Bytes
<1> HIDE DEF c2, e, d
<1>9. GoodData(d, i, c.eof, L, e)
  <2>1. i + n = c.index + len
    BY <1>5, <1>6, SMTT(20)
  <2>2. c.index + len <= L /\ c.index + len <= e /\ (len > 0 /\ c.eof => c.index + len = L)
    BY <1>3, <1>4 DEF GoodData
  <2>3. n > 0 => len > 0
    BY <1>5
  <2> HIDE DEF i
  <2> QED BY <1>6, <1>7, <1>8, <2>1, <2>2, <2>3 DEF GoodData
<1> HIDE DEF i
<1>10. /\ c2.sr = z /\ c2.data = d /\ c2.index = i /\ c2.head = head /\ c2.eof = c.eof
  BY <1>1
<1>11. c2 = [sr |-> c2.sr, data |-> c2.data, index |-> c2.index, head |-> c2.head, eof |-> c2.eof]
  BY <1>1, <1>10
<1>12. GoodReassembler(c2.sr, L) /\ c2.sr.output = r.output /\ c2.sr.capacity = r.capacity
  BY <1>10 DEF Relisted
<1>13. GoodData(c2.data, c2.index, c2.eof, L, e)
  BY <1>9, <1>10
<1>14. c2.head \in Nat /\ c2.head >= 1 /\ c2.head <= Len(c2.sr.nodes)
  BY <1>10
<1>15. GoodCall(c2, r, L)
  BY <1>11, <1>12, <1>13, <1>14 DEF GoodCall, e
<1> QED BY <1>15 DEF c2

\* Behind the last node, or in an empty list.
LEMMA AppendLastGood ==
    ASSUME NEW L \in Nat, NEW r, GoodReassembler(r, L), NEW c, GoodCall(c, r, L),
           NEW p, NEW offset, NEW n, GoodPlace(c, p, offset, n), n > 0
    PROVE  GoodCall(AppendLast(c, p, offset, n), r, L)
<1>1. c.eof \in BOOLEAN
  BY DEF GoodCall, GoodData
<1>2. PICK eof \in BOOLEAN : eof = KeptEof(c, offset, n)
  BY <1>1 DEF KeptEof
<1>3. n \in Nat /\ offset \in Nat
  BY DEF GoodPlace
<1>4. eof => c.eof /\ offset + n = Len(c.data) /\ n > 0
  <2>1. n + offset = offset + n
    BY <1>3
  <2> QED BY <1>2, <2>1, Zenon DEF KeptEof
<1>5. PICK z : z = StoreAfter(c, p, offset, n, eof)
  OBVIOUS
<1>6. Relisted(z, r, L)
  BY <1>4, <1>5, StoreAfterGood
<1>7. GoodCall(Returned(c, z), r, L)
  BY <1>6, ReturnGood
<1> QED BY <1>2, <1>5, <1>7 DEF AppendLast

\* Before a node: the call goes on behind it.
LEMMA GoOnGood ==
    ASSUME NEW L \in Nat, NEW r, GoodReassembler(r, L), NEW c, GoodCall(c, r, L),
           NEW p, NEW offset, NEW n, GoodPlace(c, p, offset, n), p < Len(c.sr.nodes)
    PROVE  GoodCall(Recurse(c, StoreAfter(c, p, offset, n, FALSE), offset + n, p + 2), r, L)
<1>1. PICK z : z = StoreAfter(c, p, offset, n, FALSE)
  OBVIOUS
<1>2. Relisted(z, r, L) /\ Len(z.nodes) = Len(c.sr.nodes) + 1
  <2>1. PICK eof \in BOOLEAN : eof = FALSE
    OBVIOUS
  <2>2. eof => c.eof /\ offset + n = Len(c.data) /\ n > 0
    BY <2>1
  <2>3. z = StoreAfter(c, p, offset, n, eof)
    BY <1>1, <2>1
  <2> QED BY <2>2, <2>3, StoreAfterGood DEF StoredAt
<1>3. offset \in Nat /\ n \in Nat /\ p \in Nat /\ offset + n <= Len(c.data)
  BY DEF GoodPlace
<1>4. Len(c.sr.nodes) \in Nat
  BY LenProperties DEF GoodCall, GoodReassembler, GoodList
<1>5. PICK used \in Nat, head \in Nat : used = offset + n /\ head = p + 2
  BY <1>3
<1>6. used <= Len(c.data) /\ head >= 1 /\ head <= Len(z.nodes)
  BY <1>2, <1>3, <1>4, <1>5
<1>7. GoodCall(Recurse(c, z, used, head), r, L)
  BY <1>2, <1>6, RecurseGood
<1> QED BY <1>1, <1>5, <1>7

\* A node that has to be dealt with, behind nodes that need not.
StopsAt(p, c, ws) ==
    LET nodes == c.sr.nodes
    IN /\ p \in 1 .. Len(nodes)
       /\ p < Len(nodes) /\ c.index + ws - 1 > nodes[p].blockend
            => /\ nodes[p + 1].blockstart # nodes[p].blockend + 1
               /\ ~ (c.index > nodes[p + 1].blockstart)
       /\ p >= c.head
       /\ p > c.head
            => \/ /\ nodes[p].blockstart = nodes[p - 1].blockend + 1
                  /\ c.index + ws - 1 > nodes[p - 1].blockend
               \/ c.index > nodes[p].blockstart

\* The walk stops at such a node.
LEMMA WalkEndStops ==
    ASSUME NEW L \in Nat, NEW r, NEW c, GoodCall(c, r, L),
           Len(c.data) > 0, c.sr.nodes # <<>>, NEW ws \in Nat,
           NEW p, p = WalkEnd(c, ws)
    PROVE  StopsAt(p, c, ws)
<1> DEFINE nodes == c.sr.nodes
           Skips(k) == /\ c.index + ws - 1 > nodes[k].blockend
                       /\ k < Len(nodes)
                       /\ \/ nodes[k + 1].blockstart = nodes[k].blockend + 1
                          \/ c.index > nodes[k + 1].blockstart
           T == {k \in c.head .. Len(nodes) : ~ Skips(k)}
<1>1. p = Min(T)
  BY DEF WalkEnd
<1>2. Len(nodes) \in Nat /\ c.head \in Nat /\ c.head >= 1 /\ c.head <= Len(nodes)
  BY LenProperties DEF GoodCall, GoodReassembler, GoodList
<1>3. Len(nodes) \in T
  BY <1>2
<1>4. T \subseteq Nat
  BY <1>2
<1>5. p \in T /\ \A y \in T : p <= y
  <2> HIDE DEF T
  <2> QED BY <1>1, <1>3, <1>4, LeastElement
<1>6. p \in 1 .. Len(nodes) /\ p >= c.head /\ ~ Skips(p)
  BY <1>2, <1>5
<1>7. p > c.head => Skips(p - 1)
  <2> SUFFICES ASSUME p > c.head PROVE Skips(p - 1)
    OBVIOUS
  <2>1. p - 1 \in c.head .. Len(nodes) /\ ~ (p <= p - 1)
    BY <1>2, <1>6
  <2> QED BY <1>5, <2>1
<1>8. (p - 1) + 1 = p
  BY <1>6
<1> QED BY <1>6, <1>7, <1>8 DEF StopsAt

\* Data that begins at or behind the first node.
LEMMA InsertWalkGood ==
    ASSUME NEW L \in Nat, NEW r, GoodReassembler(r, L), NEW c, GoodCall(c, r, L),
           c.sr.nodes # <<>>,
           NEW ws \in Nat, ws > 0, ws <= Len(c.data), ws <= c.sr.remaincapacity
    PROVE  GoodCall(InsertWalk(c, ws), r, L)
<1> DEFINE nodes == c.sr.nodes
           p == WalkEnd(c, ws)
           end == nodes[p].blockend
           i == c.index
           len == Len(c.data)
           offset == IF i > end THEN 0 ELSE end + 1 - i
           room == MinOf(ws, len - offset)
           start == nodes[p + 1].blockstart
           gap == start - MaxOf(i - 1, end) - 1
           n == MinOf(room, gap)
<1>1. i \in Nat /\ len \in Nat /\ c.sr.remaincapacity \in Nat /\ nodes \in Seq(NodeType)
  BY LenProperties DEF GoodCall, GoodData, Bytes, GoodReassembler, GoodList
<1>2. Len(nodes) \in Nat
  BY <1>1, LenProperties
<1>3. /\ p \in 1 .. Len(nodes)
      /\ p < Len(nodes) /\ i + ws - 1 > end => start # end + 1 /\ ~ (i > start)
  <2>1. Len(c.data) > 0
    BY <1>1
  <2>2. StopsAt(p, c, ws)
    <3> HIDE DEF p
    <3>1. p = WalkEnd(c, ws)
      BY DEF p
    <3> QED BY <2>1, <3>1, WalkEndStops
  <2> HIDE DEF p
  <2> QED BY <2>2 DEF StopsAt
<1>4. end \in Int
  <2>1. nodes[p] \in NodeType
    BY <1>1, <1>3
  <2> QED BY <2>1 DEF NodeType
<1>5. p < Len(nodes) => start \in Nat /\ end < start
  <2> SUFFICES ASSUME p < Len(nodes) PROVE start \in Nat /\ end < start
    OBVIOUS
  <2>1. p + 1 \in 1 .. Len(nodes) /\ p \in 1 .. Len(nodes) - 1
    BY <1>2, <1>3
  <2>2. start \in Nat
    <3>1. nodes[p + 1] \in NodeType
      BY <1>1, <2>1
    <3> QED BY <3>1 DEF NodeType
  <2>3. end < start
    BY <2>1 DEF GoodCall, GoodReassembler, GoodList
  <2> QED BY <2>2, <2>3
<1>6. InsertWalk(c, ws) =
        CASE i + ws - 1 <= end -> Returned(c, c.sr)
          [] i + ws - 1 > end /\ p = Len(nodes) -> AppendLast(c, p, offset, room)
          [] OTHER -> Recurse(c, StoreAfter(c, p, offset, n, FALSE), offset + n, p + 2)
  BY DEF InsertWalk, Gap
<1> HIDE DEF p, end, i, len, start
<1>7. CASE i + ws - 1 <= end
  <2>1. InsertWalk(c, ws) = Returned(c, c.sr)
    <3> HIDE DEF offset, room, gap, n
    <3>1. ~ (i + ws - 1 > end)
      BY <1>1, <1>4, <1>7
    <3> QED BY <1>6, <1>7, <3>1
  <2>2. Relisted(c.sr, r, L)
    BY DEF GoodCall, Relisted
  <2> QED BY <2>1, <2>2, ReturnGood
<1>8. CASE ~ (i + ws - 1 <= end)
  <2>1. /\ offset \in Nat /\ offset < ws /\ room \in Nat /\ room > 0
        /\ offset + room <= len /\ room <= ws /\ end < i + offset
        /\ room <= c.sr.remaincapacity
    <3>1. ws <= len
      BY DEF len
    <3> HIDE DEF nodes, gap, n, room
    <3>2. offset \in Nat /\ offset < ws /\ end < i + offset
      <4>1. CASE i > end
        BY <1>1, <1>4, <4>1
      <4>2. CASE ~ (i > end)
        BY <1>1, <1>4, <1>8, <4>2
      <4> QED BY <4>1, <4>2
    <3> HIDE DEF offset
    <3>3. room \in Nat /\ room > 0 /\ room <= len - offset /\ room <= ws
      BY <1>1, <3>1, <3>2 DEF MinOf, room
    <3>4. offset + room <= len
      BY <1>1, <3>2, <3>3
    <3>5. room <= c.sr.remaincapacity
      BY <1>1, <3>3
    <3> QED BY <3>2, <3>3, <3>4, <3>5
  <2>2. CASE p = Len(nodes)
    <3>1. InsertWalk(c, ws) = AppendLast(c, p, offset, room)
      <4> HIDE DEF offset, room, gap, n
      <4>1. i + ws - 1 > end
        BY <1>1, <1>4, <1>8
      <4> QED BY <1>6, <1>8, <2>2, <4>1
    <3>2. GoodPlace(c, p, offset, room)
      <4> HIDE DEF offset, room
      <4>1. ~ (p < Len(nodes)) /\ p \in 0 .. Len(nodes)
        BY <1>2, <1>3, <2>2
      <4> QED BY <2>1, <4>1 DEF GoodPlace, i, len, end
    <3> HIDE DEF offset, room
    <3> QED BY <2>1, <3>1, <3>2, AppendLastGood
  <2>3. CASE p # Len(nodes)
    <3>1. p < Len(nodes) /\ p \in 0 .. Len(nodes)
      BY <1>2, <1>3, <2>3
    <3>2. InsertWalk(c, ws) = Recurse(c, StoreAfter(c, p, offset, n, FALSE), offset + n, p + 2)
      BY <1>1, <1>4, <1>6, <1>8, <2>3
    <3>3. start \in Nat /\ end < start /\ start # end + 1 /\ ~ (i > start)
      BY <1>1, <1>3, <1>4, <1>5, <1>8, <3>1
    <3>4. gap \in Nat /\ i + offset + gap = start
      <4> HIDE DEF room, n
      <4>1. CASE i > end
        BY <1>1, <1>4, <3>3, <4>1 DEF MaxOf
      <4>2. CASE ~ (i > end)
        BY <1>1, <1>4, <3>3, <4>2 DEF MaxOf
      <4> QED BY <4>1, <4>2
    <3> HIDE DEF offset, room, gap
    <3>5. n \in Nat /\ n <= room /\ n <= gap
      BY <2>1, <3>4 DEF MinOf
    <3> HIDE DEF n
    <3>6. offset + n <= len /\ n <= c.sr.remaincapacity /\ i + offset + n - 1 < start
      BY <1>1, <2>1, <3>3, <3>4, <3>5
    <3>7. GoodPlace(c, p, offset, n)
      BY <2>1, <3>1, <3>5, <3>6 DEF GoodPlace, i, len, end, start
    <3> QED BY <3>1, <3>2, <3>7, GoOnGood
  <2> QED BY <2>2, <2>3
<1> QED BY <1>7, <1>8

\* Every call of insert_to_linklist() keeps the list in order.
LEMMA InsertCallGood ==
    ASSUME NEW L \in Nat, NEW r, GoodReassembler(r, L), NEW c, GoodCall(c, r, L)
    PROVE  GoodCall(InsertCall(c), r, L)
<1> DEFINE nodes == c.sr.nodes
           ws == StoreSize(c)
           i == c.index
<1>1. i \in Nat /\ Len(c.data) \in Nat /\ c.sr.remaincapacity \in Nat /\ nodes \in Seq(NodeType)
  BY LenProperties DEF GoodCall, GoodData, Bytes, GoodReassembler, GoodList
<1>2. ws \in Nat /\ ws <= Len(c.data) /\ ws <= c.sr.remaincapacity
  BY <1>1 DEF StoreSize, MinOf
<1>3. Len(nodes) \in Nat
  BY <1>1, LenProperties
<1> HIDE DEF ws
<1>4. CASE ws = 0
  <2>1. InsertCall(c) = Returned(c, c.sr)
    BY <1>4 DEF InsertCall, ws
  <2>2. Relisted(c.sr, r, L)
    BY DEF GoodCall, Relisted
  <2> QED BY <2>1, <2>2, ReturnGood
<1>5. CASE ws > 0 /\ nodes = <<>>
  <2>1. InsertCall(c) = AppendLast(c, 0, 0, ws)
    BY <1>2, <1>5 DEF InsertCall, ws
  <2>2. PICK p, offset : p = 0 /\ offset = 0
    OBVIOUS
  <2>3. Len(nodes) = 0
    BY <1>5
  <2>4. GoodPlace(c, p, offset, ws)
    BY <1>1, <1>2, <2>2, <2>3 DEF GoodPlace
  <2>5. GoodCall(AppendLast(c, p, offset, ws), r, L)
    BY <1>5, <2>4, AppendLastGood
  <2> QED BY <2>1, <2>2, <2>5
<1>6. CASE ws > 0 /\ nodes # <<>> /\ i < nodes[1].blockstart
  <2> DEFINE start == nodes[1].blockstart
             n == MinOf(ws, start - i)
  <2>1. Len(nodes) > 0
    BY <1>1, <1>6, EmptySeq
  <2>2. start \in Nat
    <3>1. nodes[1] \in NodeType
      BY <1>1, <1>3, <2>1
    <3> QED BY <3>1 DEF NodeType
  <2>3. InsertCall(c) = Recurse(c, StoreAfter(c, 0, 0, n, FALSE), n, 2)
    <3>1. ~ (ws = 0) /\ ws > 0 /\ ~ (nodes = <<>>) /\ i < nodes[1].blockstart
      BY <1>2, <1>6
    <3> QED BY <3>1 DEF InsertCall, ws
  <2>4. n \in Nat /\ n <= ws /\ i + n <= start
    BY <1>1, <1>2, <1>6, <2>2 DEF MinOf
  <2> HIDE DEF n
  <2>5. PICK p, offset : p = 0 /\ offset = 0
    OBVIOUS
  <2>6. p < Len(nodes) /\ p \in 0 .. Len(nodes) /\ p + 1 = 1 /\ offset + n = n /\ p + 2 = 2
    BY <1>3, <2>1, <2>4, <2>5
  <2>7. GoodPlace(c, p, offset, n)
    <3>1. offset \in Nat /\ n \in Nat /\ offset + n <= Len(c.data) /\ n <= c.sr.remaincapacity
      BY <1>1, <1>2, <2>4, <2>5
    <3>2. ~ (p > 0) /\ i + offset + n - 1 < nodes[p + 1].blockstart
      BY <1>1, <2>2, <2>4, <2>5, <2>6
    <3> QED BY <2>6, <3>1, <3>2 DEF GoodPlace
  <2>8. GoodCall(Recurse(c, StoreAfter(c, p, offset, n, FALSE), offset + n, p + 2), r, L)
    BY <2>6, <2>7, GoOnGood
  <2> QED BY <2>3, <2>5, <2>6, <2>8
<1>7. CASE ws > 0 /\ nodes # <<>> /\ ~ (i < nodes[1].blockstart)
  <2>1. InsertCall(c) = InsertWalk(c, ws)
    BY <1>2, <1>7 DEF InsertCall, ws
  <2> QED BY <1>2, <1>7, <2>1, InsertWalkGood
<1>8. ws = 0 \/ ws > 0
  BY <1>2
<1> QED BY <1>4, <1>5, <1>6, <1>7, <1>8

\* g holds the calls of insert_to_linklist(), each made by the one before it.
InsertCalls(g, x, n) ==
    /\ g[0] = x
    /\ \A k \in 0 .. n - 1 : g[k + 1] = InsertCall(g[k])
    /\ Iterate(InsertCall, x, n) = g[n]

\* The calls, one after the other.
LEMMA InsertIterated ==
    ASSUME NEW S, \A r \in S : InsertCall(r) \in S, NEW x \in S, NEW n \in Nat
    PROVE  \E g \in [0 .. n -> S] : InsertCalls(g, x, n)
<1>1. PICK F \in [S -> S] : \A r \in S : F[r] = InsertCall(r)
  <2>1. [r \in S |-> InsertCall(r)] \in [S -> S]
    OBVIOUS
  <2> QED BY <2>1
<1>2. PICK g \in [0 .. n -> S] : Iterates(g, F, x, n)
  BY Iteration
<1>3. \A k \in 0 .. n - 1 : g[k + 1] = InsertCall(g[k])
  <2> SUFFICES ASSUME NEW k \in 0 .. n - 1 PROVE g[k + 1] = InsertCall(g[k])
    OBVIOUS
  <2>1. g[k] \in S
    OBVIOUS
  <2> QED BY <1>1, <1>2, <2>1 DEF Iterates
<1> DEFINE Once(u) == CHOOSE y \in {InsertCall(z) : z \in {u}} : TRUE
           it == CHOOSE h : h = [k \in 0 .. n |-> IF k = 0 THEN x ELSE Once(h[k - 1])]
<1>4. \A u : Once(u) = InsertCall(u)
  OBVIOUS
<1>5. Iterate(InsertCall, x, n) = it[n]
  BY DEF Iterate, Then
<1> HIDE DEF Once
<1>6. g = [k \in 0 .. n |-> IF k = 0 THEN x ELSE Once(g[k - 1])]
  <2>1. ASSUME NEW k \in 0 .. n
        PROVE  g[k] = IF k = 0 THEN x ELSE Once(g[k - 1])
    <3>1. CASE k = 0
      BY <1>2, <3>1 DEF Iterates
    <3>2. CASE k # 0
      <4>1. k - 1 \in 0 .. n - 1 /\ (k - 1) + 1 = k
        BY <3>2
      <4>2. g[k] = InsertCall(g[k - 1])
        BY <1>3, <4>1
      <4> QED BY <1>4, <3>2, <4>2
    <3> QED BY <3>1, <3>2
  <2> QED BY <2>1
<1>7. it = [k \in 0 .. n |-> IF k = 0 THEN x ELSE Once(it[k - 1])]
  BY <1>6
<1> HIDE DEF it
<1>8. it[0] = x /\ \A k \in 0 .. n - 1 : it[k + 1] = InsertCall(it[k])
  <2>1. it[0] = x
    BY <1>7
  <2>2. ASSUME NEW k \in 0 .. n - 1 PROVE it[k + 1] = InsertCall(it[k])
    <3>1. k + 1 \in 0 .. n /\ k + 1 # 0 /\ (k + 1) - 1 = k
      OBVIOUS
    <3>2. it[k + 1] = IF k + 1 = 0 THEN x ELSE Once(it[(k + 1) - 1])
      BY <1>7, <3>1
    <3> QED BY <1>4, <3>1, <3>2
  <2> QED BY <2>1, <2>2
<1>9. it[n] = g[n]
  <2>1. \A k \in 0 .. n - 1 : it[k] = g[k] => it[k + 1] = g[k + 1]
    BY <1>3, <1>8
  <2>2. it[0] = g[0]
    BY <1>2, <1>8 DEF Iterates
  <2>3. \A k \in 0 .. n : it[k] = g[k]
    BY <2>1, <2>2, SameIteration, Zenon
  <2> QED BY <2>3
<1>10. InsertCalls(g, x, n)
  BY <1>2, <1>3, <1>5, <1>9 DEF Iterates, InsertCalls
<1> QED BY <1>10

\* insert_to_linklist() changes only the list, and keeps it in order.
LEMMA InsertToLinklistGood ==
    ASSUME NEW L \in Nat, NEW r, GoodReassembler(r, L),
           NEW data, NEW index, NEW eof,
           GoodData(data, index, eof, L, Edge(r.output, r.capacity))
    PROVE  Relisted(InsertToLinklist(r, data, index, eof), r, L)
<1> DEFINE c == [sr |-> r, data |-> data, index |-> index, head |-> 1, eof |-> eof]
           U == [sr : ReassemblerType, data : Seq(Nat), index : Nat, head : Nat, eof : BOOLEAN]
           S == {x \in U : GoodCall(x, r, L)}
<1>1. ASSUME NEW x, GoodCall(x, r, L) PROVE x \in S
  <2>1. x.sr \in ReassemblerType
    BY <1>1, GoodReassemblerType DEF GoodCall
  <2>2. x.data \in Seq(Nat) /\ x.index \in Nat /\ x.eof \in BOOLEAN /\ x.head \in Nat
    BY <1>1 DEF GoodCall, GoodData, Bytes
  <2>3. x \in U
    BY <1>1, <2>1, <2>2 DEF GoodCall
  <2> QED BY <1>1, <2>3
<1>2. PICK n \in Nat : n = Len(r.nodes) + 2 /\ Len(r.nodes) = n - 2
  <2>1. Len(r.nodes) \in Nat
    BY LenProperties DEF GoodReassembler, GoodList
  <2> QED BY <2>1
<1>3. c \in S
  <2>1. c.sr = r /\ c.data = data /\ c.index = index /\ c.head = 1 /\ c.eof = eof
    OBVIOUS
  <2>2. c = [sr |-> c.sr, data |-> c.data, index |-> c.index, head |-> c.head, eof |-> c.eof]
    OBVIOUS
  <2> HIDE DEF c, S
  <2>3. c.sr.nodes # <<>> => c.head <= Len(c.sr.nodes)
    <3>1. r.nodes \in Seq(NodeType)
      BY DEF GoodReassembler, GoodList
    <3> QED BY <2>1, <3>1, EmptySeq
  <2>4. c.head \in Nat /\ c.head >= 1
    BY <2>1
  <2>5. GoodReassembler(c.sr, L) /\ c.sr.output = r.output /\ c.sr.capacity = r.capacity
        /\ GoodData(c.data, c.index, c.eof, L, Edge(r.output, r.capacity))
    BY <2>1
  <2>6. GoodCall(c, r, L)
    BY <2>2, <2>3, <2>4, <2>5 DEF GoodCall
  <2> QED BY <1>1, <2>6
<1>4. \A x \in S : InsertCall(x) \in S
  BY <1>1, InsertCallGood
<1>5. InsertToLinklist(r, data, index, eof) = Iterate(InsertCall, c, n).sr
  BY <1>2 DEF InsertToLinklist
<1>6. \A x \in S : GoodCall(x, r, L)
  OBVIOUS
<1> HIDE DEF c, S
<1>7. PICK g \in [0 .. n -> S] : InsertCalls(g, c, n)
  BY <1>3, <1>4, InsertIterated
<1>8. g[n] \in S
  OBVIOUS
<1>9. InsertToLinklist(r, data, index, eof) = g[n].sr
  BY <1>5, <1>7 DEF InsertCalls
<1>10. GoodCall(g[n], r, L)
  BY <1>6, <1>8
<1> QED BY <1>9, <1>10 DEF GoodCall, Relisted

\* What push_substring() may do: it keeps the reassembler good and lets the
\* output advance, and leaves nothing behind that it could have written unless
\* it returned at once.
Pushed(z, r, L) ==
    GoodReassembler(z, L) /\ Advanced(z, r) /\ (LoopEnds(z) \/ z = r)

\* A method that changes only the list advances.
LEMMA RelistedAdvanced ==
    ASSUME NEW L \in Nat, NEW r, GoodReassembler(r, L), NEW z, Relisted(z, r, L)
    PROVE  GoodReassembler(z, L) /\ Advanced(z, r)
<1>1. GoodOutput(r.output, L, r.capacity) /\ r.capacity \in Nat
  BY DEF GoodReassembler
<1>2. r.output.writtensize \in Nat
  BY <1>1, GoodOutputMembers
<1> QED BY <1>2 DEF Relisted, Advanced

\* fetch_valid_data() after it.
LEMMA FetchAfter ==
    ASSUME NEW L \in Nat, NEW r, NEW z, GoodReassembler(r, L), GoodReassembler(z, L),
           Advanced(z, r)
    PROVE  Pushed(FetchValidData(z), r, L)
<1>1. /\ GoodReassembler(FetchValidData(z), L) /\ Advanced(FetchValidData(z), z)
      /\ LoopEnds(FetchValidData(z))
  BY FetchValidDataGood
<1>2. Advanced(FetchValidData(z), r)
  BY <1>1, AdvancedTrans
<1> QED BY <1>1, <1>2 DEF Pushed

\* Data that continues the output.
LEMMA PushInOrderGood ==
    ASSUME NEW L \in Nat, NEW r, GoodReassembler(r, L),
           NEW m \in Nat, NEW rest, Bytes(rest, r.output.writtensize, m),
           r.output.writtensize + m <= L,
           r.output.writtensize + m <= Edge(r.output, r.capacity),
           NEW eof \in BOOLEAN, eof => r.output.writtensize + m = L
    PROVE  /\ GoodReassembler(PushInOrder(r, rest, eof), L)
           /\ Advanced(PushInOrder(r, rest, eof), r)
           /\ PushInOrder(r, rest, eof).output.writtensize
                = r.output.writtensize + MinOf(m, r.output.capacity)
<1> DEFINE o == r.output
           cap == r.capacity
           W == o.writtensize
           C == o.capacity
           ws == MinOf(Len(rest), C)
           part == Substr(rest, 0, ws)
           w == Write(o, part)
           b == EndsOutput(rest, ws, eof)
           out == EndIf(w, b)
           r2 == [r EXCEPT !.output = out]
           tail == Drop(rest, ws)
<1>1. cap \in Nat /\ GoodOutput(o, L, cap) /\ GoodList(r.nodes, L, Edge(o, cap))
      /\ r.remaincapacity \in Nat /\ r.remaincapacity + Stored(r.nodes) = cap
  BY DEF GoodReassembler
<1>2. W \in Nat /\ C \in Nat /\ o.readsize \in Nat
  <2> HIDE DEF o, cap
  <2> QED BY <1>1, GoodOutputMembers
<1>3. PushInOrder(r, rest, eof) = InsertToLinklist(r2, tail, W + ws, eof)
  BY DEF PushInOrder
<1>4. Len(rest) = m
  BY DEF Bytes
<1>5. Bytes(rest, W, m) /\ W + m <= L /\ W + m <= Edge(o, cap) /\ (eof => W + m = L)
  OBVIOUS
<1>6. r2 = [output |-> out, capacity |-> cap, remaincapacity |-> r.remaincapacity, nodes |-> r.nodes]
  <2> HIDE DEF out
  <2> QED BY DEF GoodReassembler
<1>7. o = r.output /\ cap = r.capacity
  OBVIOUS
<1> HIDE DEF o, cap, W, C, ws, part, w, b, out, r2, tail
<1>8. ws \in Nat /\ ws <= m /\ ws <= C /\ m - ws \in Nat /\ ws + (m - ws) = m
  BY <1>2, <1>4 DEF ws, MinOf
<1>9. b \in BOOLEAN /\ (b => eof /\ ws = m)
  <2>1. (ws >= Len(rest)) = (ws = m)
    BY <1>4, <1>8
  <2>2. b = (eof /\ ws >= Len(rest))
    BY DEF b, EndsOutput
  <2>3. (ws >= Len(rest)) \in BOOLEAN
    OBVIOUS
  <2> QED BY <2>1, <2>2
<1>10. Bytes(part, W, ws)
  <2>1. 0 + ws <= m /\ W + 0 = W
    BY <1>2, <1>8
  <2>2. Bytes(Substr(rest, 0, ws), W + 0, ws)
    BY <1>2, <1>5, <1>8, <2>1, BytesPart
  <2> QED BY <2>1, <2>2 DEF part
<1>11. /\ GoodOutput(w, L, cap) /\ w.writtensize = W + ws /\ w.readsize = o.readsize
       /\ w.end = o.end
  <2>1. ws <= o.capacity /\ o.writtensize + ws <= L /\ Bytes(part, o.writtensize, ws)
        /\ o.writtensize = W
    BY <1>2, <1>5, <1>8, <1>10 DEF W, C
  <2>2. w = Write(o, part)
    BY DEF w
  <2>3. /\ GoodOutput(w, L, cap) /\ w.writtensize = o.writtensize + ws
        /\ w.readsize = o.readsize /\ w.end = o.end
    BY <1>1, <1>8, <2>1, <2>2, WriteGood
  <2> QED BY <2>1, <2>3
<1>12. /\ GoodOutput(out, L, cap) /\ out.writtensize = W + ws /\ out.readsize = o.readsize
       /\ (o.end => out.end)
  <2>1. b => w.writtensize = L
    BY <1>5, <1>9, <1>11
  <2>2. out = EndIf(w, b)
    BY DEF out
  <2>3. /\ GoodOutput(out, L, cap) /\ out.writtensize = w.writtensize
        /\ out.readsize = w.readsize /\ (w.end => out.end)
    BY <1>1, <1>9, <1>11, <2>1, <2>2, EndIfGood
  <2> QED BY <1>11, <2>3
<1>13. out.readsize >= o.readsize /\ out.writtensize >= o.writtensize
  BY <1>2, <1>8, <1>12 DEF W
<1>14. GoodReassembler(r2, L)
  <2>1. GoodOutput(out, L, r.capacity) /\ GoodList(r.nodes, L, Edge(r.output, r.capacity))
        /\ r.remaincapacity + Stored(r.nodes) = r.capacity
        /\ r2 = [output |-> out, capacity |-> r.capacity, remaincapacity |-> r.remaincapacity,
                 nodes |-> r.nodes]
    BY <1>1, <1>6, <1>7, <1>12
  <2>2. out.readsize >= r.output.readsize /\ out.writtensize >= r.output.writtensize
    BY <1>7, <1>13
  <2> QED BY <1>1, <2>1, <2>2, ReassemblerChanged
<1>15. r2.output = out /\ r2.capacity = cap
  BY <1>6
<1>16. Advanced(r2, r)
  BY <1>7, <1>12, <1>13, <1>15 DEF Advanced
<1>17. GoodData(tail, W + ws, eof, L, Edge(out, cap))
  <2>1. Bytes(tail, W + ws, m - ws)
    BY <1>2, <1>5, <1>8, BytesDrop DEF tail
  <2>2. Len(tail) = m - ws
    BY <2>1 DEF Bytes
  <2>3. (W + ws) + (m - ws) = W + m /\ W + ws \in Nat
    BY <1>2, <1>8
  <2>4. Edge(o, cap) \in Nat /\ Edge(out, cap) \in Nat /\ Edge(o, cap) <= Edge(out, cap)
    BY <1>1, <1>12, <1>13, EdgeType
  <2>5. W + m <= Edge(out, cap)
    BY <1>2, <1>5, <2>4
  <2> QED BY <1>5, <2>1, <2>2, <2>3, <2>5 DEF GoodData
<1>18. PICK z : z = InsertToLinklist(r2, tail, W + ws, eof)
  OBVIOUS
<1>19. Relisted(z, r2, L)
  BY <1>14, <1>15, <1>17, <1>18, InsertToLinklistGood
<1>20. GoodReassembler(z, L) /\ Advanced(z, r2)
  BY <1>14, <1>19, RelistedAdvanced
<1>21. Advanced(z, r)
  BY <1>14, <1>16, <1>20, AdvancedTrans
<1>22. z.output.writtensize = r.output.writtensize + MinOf(m, r.output.capacity)
  <2>1. z.output.writtensize = W + ws
    BY <1>12, <1>15, <1>19 DEF Relisted
  <2> QED BY <1>4, <2>1 DEF W, ws, C, o
<1> QED BY <1>3, <1>18, <1>20, <1>21, <1>22

\* push_substring() of a part of the stream that lies below the edge.
LEMMA PushSubstringGood ==
    ASSUME NEW L \in Nat, NEW r, GoodReassembler(r, L),
           NEW index \in Nat, NEW len \in Nat, NEW data, Bytes(data, index, len),
           index + len <= L, index + len <= Edge(r.output, r.capacity),
           NEW eof \in BOOLEAN, eof => index + len = L
    PROVE  Pushed(PushSubstring(r, data, index, eof), r, L)
<1> DEFINE W == r.output.writtensize
<1>1. W \in Nat
  <2>1. GoodOutput(r.output, L, r.capacity) /\ r.capacity \in Nat
    BY DEF GoodReassembler
  <2> QED BY <2>1, GoodOutputMembers
<1>2. Len(data) = len
  BY DEF Bytes
<1>3. CASE index > W
  <2>1. PushSubstring(r, data, index, eof)
          = FetchValidData(InsertToLinklist(r, data, index, eof))
    BY <1>1, <1>3 DEF PushSubstring, Then
  <2>2. GoodData(data, index, eof, L, Edge(r.output, r.capacity))
    BY <1>2 DEF GoodData
  <2>3. PICK z : z = InsertToLinklist(r, data, index, eof)
    OBVIOUS
  <2>4. Relisted(z, r, L)
    BY <2>2, <2>3, InsertToLinklistGood
  <2>5. Pushed(FetchValidData(z), r, L)
    BY <2>4, RelistedAdvanced, FetchAfter
  <2> QED BY <2>1, <2>3, <2>5
<1>4. CASE index <= W /\ index + len >= W
  <2> DEFINE rest == Drop(data, W - index)
             m == index + len - W
  <2>1. PushSubstring(r, data, index, eof) = FetchValidData(PushInOrder(r, rest, eof))
    BY <1>1, <1>2, <1>4 DEF PushSubstring, ReachesOutput, Then
  <2>2. m \in Nat /\ W - index \in Nat /\ (W - index) + m = len /\ index + (W - index) = W
        /\ W + m = index + len
    BY <1>1, <1>4
  <2> HIDE DEF m
  <2>3. Bytes(rest, W, m)
    <3>1. Bytes(rest, index + (W - index), m)
      <4> HIDE DEF W
      <4> QED BY <2>2, BytesDrop
    <3> QED BY <2>2, <3>1
  <2> HIDE DEF rest
  <2>4. W + m <= L /\ W + m <= Edge(r.output, r.capacity) /\ (eof => W + m = L)
    BY <2>2
  <2>5. PICK z : z = PushInOrder(r, rest, eof)
    OBVIOUS
  <2>6. GoodReassembler(z, L) /\ Advanced(z, r)
    BY <2>2, <2>3, <2>4, <2>5, PushInOrderGood
  <2>7. Pushed(FetchValidData(z), r, L)
    BY <2>6, FetchAfter
  <2> QED BY <2>1, <2>5, <2>7
<1>5. CASE ~ (index > W) /\ ~ (index + len >= W)
  <2>1. PushSubstring(r, data, index, eof) = r
    BY <1>1, <1>2, <1>5 DEF PushSubstring, ReachesOutput
  <2>2. Advanced(r, r)
    BY AdvancedSelf
  <2> QED BY <2>1, <2>2 DEF Pushed
<1> QED BY <1>1, <1>3, <1>4, <1>5

\* The constructor.
LEMMA NewReassemblerGood ==
    ASSUME NEW L \in Nat, NEW cap \in Nat
    PROVE  GoodReassembler(NewReassembler(cap), L) /\ NewReassembler(cap).capacity = cap
<1> DEFINE o == NewByteStream(cap)
           r == NewReassembler(cap)
<1>1. r = [output |-> o, capacity |-> cap, remaincapacity |-> cap, nodes |-> <<>>]
  BY DEF NewReassembler
<1>2. Len(<<>>) = 0 /\ <<>> \in Seq(Nat) /\ <<>> \in Seq(NodeType)
  BY EmptySeq
<1>3. GoodOutput(o, L, cap)
  <2>1. o \in ByteStreamType(Nat)
    BY <1>2 DEF NewByteStream, ByteStreamType
  <2>2. Bytes(<<>>, 0, 0)
    BY <1>2 DEF Bytes
  <2>3. o.que = <<>> /\ o.capacity = cap /\ o.writtensize = 0 /\ o.readsize = 0 /\ ~ o.end
    BY DEF NewByteStream
  <2> QED BY <1>2, <2>1, <2>2, <2>3 DEF GoodOutput
<1>4. GoodList(<<>>, L, Edge(o, cap))
  BY <1>2 DEF GoodList
<1>5. Stored(<<>>) = 0
  <2>1. PICK f : f = Lengths(<<>>)
    OBVIOUS
  <2>2. \A k \in 1 .. 0 : f[k] \in Nat
    OBVIOUS
  <2>3. SumTo(f, 0) = 0
    BY <2>2, SumToSteps
  <2> QED BY <1>2, <2>1, <2>3 DEF Stored
<1> HIDE DEF o, r
<1>6. r.output = o /\ r.capacity = cap /\ r.remaincapacity = cap /\ r.nodes = <<>>
  BY <1>1
<1>7. GoodReassembler(r, L)
  BY <1>1, <1>3, <1>4, <1>5, <1>6 DEF GoodReassembler
<1> QED BY <1>6, <1>7 DEF r

\* read() by the application.
ReadOutput(r, len) == [r EXCEPT !.output = Read(@, len)]

\* It moves only the left end of the output.
LEMMA ReassemblerRead ==
    ASSUME NEW L \in Nat, NEW r, GoodReassembler(r, L), NEW len \in Nat,
           NEW z, z = ReadOutput(r, len)
    PROVE  /\ GoodReassembler(z, L) /\ z.capacity = r.capacity
           /\ z.output.writtensize = r.output.writtensize
           /\ z.output.readsize >= r.output.readsize /\ z.output.end = r.output.end
<1>1. PICK w : w = Read(r.output, len)
  OBVIOUS
<1>2. /\ r.capacity \in Nat /\ r.remaincapacity \in Nat
      /\ GoodOutput(r.output, L, r.capacity)
      /\ GoodList(r.nodes, L, Edge(r.output, r.capacity))
      /\ r.remaincapacity + Stored(r.nodes) = r.capacity
  BY DEF GoodReassembler
<1>3. /\ GoodOutput(w, L, r.capacity) /\ w.writtensize = r.output.writtensize
      /\ w.readsize >= r.output.readsize /\ w.end = r.output.end
  <2>1. PICK o : o = r.output
    OBVIOUS
  <2>2. PICK cap \in Nat : cap = r.capacity
    BY <1>2
  <2>3. GoodOutput(o, L, cap) /\ w = Read(o, len)
    BY <1>1, <1>2, <2>1, <2>2
  <2>4. GoodOutput(w, L, cap) /\ w.writtensize = o.writtensize /\ w.readsize >= o.readsize
        /\ w.end = o.end
    BY <2>3, ReadGood
  <2> QED BY <2>1, <2>2, <2>4
<1>4. w.writtensize >= r.output.writtensize
  <2>1. r.output.writtensize \in Nat
    BY <1>2, GoodOutputMembers
  <2> QED BY <1>3, <2>1
<1>5. z = [output |-> w, capacity |-> r.capacity, remaincapacity |-> r.remaincapacity,
           nodes |-> r.nodes]
  BY <1>1 DEF GoodReassembler, ReadOutput
<1>6. GoodReassembler(z, L)
  <2>1. PICK m, q : m \in Nat /\ m = r.remaincapacity /\ q = r.nodes
    BY <1>2
  <2>2. GoodList(q, L, Edge(r.output, r.capacity)) /\ m + Stored(q) = r.capacity
    BY <1>2, <2>1
  <2>3. z = [output |-> w, capacity |-> r.capacity, remaincapacity |-> m, nodes |-> q]
    BY <1>5, <2>1
  <2>4. GoodOutput(w, L, r.capacity) /\ w.readsize >= r.output.readsize
    BY <1>3
  <2> QED BY <1>4, <2>1, <2>2, <2>3, <2>4, ReassemblerChanged
<1>7. z.output = w /\ z.capacity = r.capacity
  BY <1>5
<1> QED BY <1>3, <1>6, <1>7

-----------------------------------------------------------------------------
(* The list of rules. *)

\* The members of the list.
LEMMA LoopMembers ==
    ASSUME NEW Rule, NEW l \in LoopType(Rule)
    PROVE  /\ l.rules \subseteq Rule /\ l.events \subseteq Rule
           /\ l.ready \subseteq Rule /\ l.hung \subseteq Rule /\ l.error \subseteq Rule
BY DEF LoopType

\* The answer that is gone through next is one that poll(2) has given.
LEMMA CurrentAnswer ==
    ASSUME NEW Rule, Rule \subseteq Nat, NEW l \in LoopType(Rule), ~ AllHandled(l)
    PROVE  Current(l) \in l.ready \cup l.hung \cup l.error /\ Current(l) \in Rule
<1>1. PICK A : A = l.ready \cup l.hung \cup l.error
  OBVIOUS
<1>2. A \subseteq Rule /\ A \subseteq Nat /\ A # {}
  BY <1>1, LoopMembers DEF AllHandled
<1>3. Min(A) \in A
  BY <1>2, LeastElement
<1> QED BY <1>1, <1>2, <1>3 DEF Current

\* A rule has been serviced, or cancelled.
LEMMA HandledMembers ==
    ASSUME NEW Rule, NEW l \in LoopType(Rule), NEW r \in Rule, NEW h, h = Handled(l, r)
    PROVE  /\ h \in LoopType(Rule) /\ h.rules = l.rules
           /\ h.ready = l.ready \ {r} /\ h.hung = l.hung \ {r} /\ h.error = l.error
BY DEF LoopType, Handled

LEMMA ErasedMembers ==
    ASSUME NEW Rule, NEW l \in LoopType(Rule), NEW r \in Rule,
           NEW h, h = Handled(Erase(l, r), r)
    PROVE  /\ h \in LoopType(Rule) /\ h.rules = l.rules \ {r}
           /\ h.ready = l.ready \ {r} /\ h.hung = l.hung \ {r} /\ h.error = l.error
BY DEF LoopType, Handled, Erase

\* The rules have been asked, and poll(2) has answered.
LEMMA SetUpMembers ==
    ASSUME NEW Rule, NEW l \in LoopType(Rule), NEW I, NEW h, h = SetUp(l, I)
    PROVE  /\ h \in LoopType(Rule) /\ h.rules = l.rules /\ h.events = l.rules \cap I
           /\ h.ready = l.ready /\ h.hung = l.hung /\ h.error = l.error
BY DEF LoopType, SetUp

LEMMA PolledMembers ==
    ASSUME NEW Rule, NEW l \in LoopType(Rule), NEW A, NEW H, NEW E, NEW h, h = Polled(l, A, H, E)
    PROVE  /\ h \in LoopType(Rule) /\ h.rules = l.rules
           /\ h.ready = l.events \cap A /\ h.hung = l.events \cap (H \ A)
           /\ h.error = l.rules \cap E
BY DEF LoopType, Polled
=============================================================================
