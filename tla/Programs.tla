------------------------------ MODULE Programs ------------------------------
(***************************************************************************)
(* What a program does, step by step: lemmas about folds over sequences and *)
(* about the values a sequence of steps runs through.                      *)
(***************************************************************************)
EXTENDS Integers, Sequences, SequencesExt, SequenceTheorems, NaturalsInduction,
        WellFoundedInduction, TLAPS

\* The least number of a set is one of it.
LEMMA LeastIs ==
  ASSUME NEW T \in SUBSET Nat, T # {}
  PROVE  Min(T) \in T /\ \A x \in T : Min(T) <= x
<1>1. PICK x \in T : \A y \in T : ~(<<y, x>> \in OpToRel(<, Nat))
  BY NatLessThanWellFounded, WFMin
<1>2. \A y, z \in Nat : y < z => <<y, z>> \in OpToRel(<, Nat)
  BY Zenon DEF OpToRel
<1>3. \A y \in T : x <= y
  <2>1. \A y \in T : ~(y < x)
    BY <1>1, <1>2
  <2> QED
    BY <2>1
<1> QED
  BY <1>3, Zenon DEF Min

(***************************************************************************)
(* Folds.                                                                  *)
(***************************************************************************)
\* it has the value of each part of a fold: of F[1] to F[n] the ones in Y, in order.
Iterates(it, base, F, n) ==
  it = [Y \in SUBSET (1 .. n) |-> IF Y = {} THEN base ELSE F[Max(Y)][it[Y \ {Max(Y)}]]]

LEMMA LastIs ==
  ASSUME NEW k \in Nat, NEW Y \in SUBSET (1 .. k + 1), k + 1 \in Y
  PROVE  Max(Y) = k + 1 /\ Y \ {k + 1} \in SUBSET (1 .. k)
<1>1. \A y \in Y : k + 1 >= y
  OBVIOUS
<1>2. Max(Y) \in Y /\ \A y \in Y : Max(Y) >= y
  BY <1>1, Zenon DEF Max
<1> HIDE DEF Max
<1> DEFINE m == Max(Y)
<1>3. m \in 1 .. k + 1 /\ m >= k + 1
  BY <1>2
<1> HIDE DEF m
<1>5. m = k + 1
  BY <1>3
<1>4. Y \ {k + 1} \subseteq 1 .. k
  OBVIOUS
<1> QED
  BY <1>4, <1>5 DEF m

LEMMA IteratesGrow ==
  ASSUME NEW k \in Nat, NEW S, NEW base \in S, NEW F, \A x \in S : F[k + 1][x] \in S,
         NEW it \in [SUBSET (1 .. k) -> S], Iterates(it, base, F, k)
  PROVE  \E more \in [SUBSET (1 .. k + 1) -> S] : Iterates(more, base, F, k + 1)
<1> DEFINE more == [Y \in SUBSET (1 .. k + 1) |->
                      IF k + 1 \in Y THEN F[k + 1][it[Y \ {k + 1}]] ELSE it[Y]]
<1>1. ASSUME NEW Y \in SUBSET (1 .. k + 1), k + 1 \notin Y
      PROVE  Y \in SUBSET (1 .. k)
  BY <1>1
<1>2. ASSUME NEW Y \in SUBSET (1 .. k + 1), k + 1 \in Y
      PROVE  /\ more[Y] \in S /\ Y # {}
             /\ more[Y] = F[Max(Y)][more[Y \ {Max(Y)}]]
  <2>1. Max(Y) = k + 1 /\ Y \ {k + 1} \in SUBSET (1 .. k) /\ Y \ {k + 1} \in SUBSET (1 .. k + 1)
    BY <1>2, LastIs
  <2>2. more[Y \ {k + 1}] = it[Y \ {k + 1}] /\ it[Y \ {k + 1}] \in S
    BY <2>1
  <2>3. more[Y] = F[k + 1][it[Y \ {k + 1}]]
    BY <1>2
  <2> HIDE DEF more
  <2>5. more[Y] \in S
    BY <2>2, <2>3
  <2> QED
    BY <1>2, <2>1, <2>2, <2>3, <2>5
<1>3. ASSUME NEW Y \in SUBSET (1 .. k + 1), k + 1 \notin Y
      PROVE  /\ more[Y] \in S
             /\ more[Y] = IF Y = {} THEN base ELSE F[Max(Y)][more[Y \ {Max(Y)}]]
  <2>1. Y \in SUBSET (1 .. k) /\ more[Y] = it[Y] /\ it[Y] \in S
    BY <1>1, <1>3
  <2>2. \A Z \in SUBSET (1 .. k + 1) : k + 1 \notin Z => more[Z] = it[Z]
    OBVIOUS
  <2>3. more[Y \ {Max(Y)}] = it[Y \ {Max(Y)}]
    BY <1>3, <2>2
  <2> HIDE DEF more
  <2>4. it[Y] = IF Y = {} THEN base ELSE F[Max(Y)][it[Y \ {Max(Y)}]]
    BY <2>1 DEF Iterates
  <2> QED
    BY <2>1, <2>3, <2>4
<1>4. DOMAIN more = SUBSET (1 .. k + 1)
  OBVIOUS
<1>5. more \in [SUBSET (1 .. k + 1) -> S]
  BY <1>2, <1>3
<1>6. more = [Y \in SUBSET (1 .. k + 1) |->
                IF Y = {} THEN base ELSE F[Max(Y)][more[Y \ {Max(Y)}]]]
  <2>1. \A Y \in SUBSET (1 .. k + 1) :
          more[Y] = IF Y = {} THEN base ELSE F[Max(Y)][more[Y \ {Max(Y)}]]
    BY <1>2, <1>3
  <2> HIDE DEF more
  <2> QED
    BY <1>5, <2>1
<1> HIDE DEF more
<1> QED
  BY <1>5, <1>6 DEF Iterates

\* Every fold has its values.
LEMMA FoldExists ==
  ASSUME NEW n \in Nat, NEW S, NEW base \in S, NEW F, \A i \in 1 .. n : \A x \in S : F[i][x] \in S
  PROVE  \E it \in [SUBSET (1 .. n) -> S] : Iterates(it, base, F, n)
<1> DEFINE Good(k) == \E it \in [SUBSET (1 .. k) -> S] : Iterates(it, base, F, k)
           Bad == {k \in 0 .. n : ~Good(k)}
           k == Min(Bad)
<1> SUFFICES ASSUME ~Good(n) PROVE FALSE
  OBVIOUS
<1> HIDE DEF Good
<1>1. Bad \in SUBSET Nat /\ Bad # {}
  OBVIOUS
<1>2. k \in Bad /\ \A j \in Bad : k <= j
  BY <1>1, LeastIs
<1> HIDE DEF k
<1>3. Good(0)
  <2> DEFINE it == [Y \in SUBSET (1 .. 0) |-> base]
  <2>1. it \in [SUBSET (1 .. 0) -> S]
    OBVIOUS
  <2>2. \A Y \in SUBSET (1 .. 0) : Y = {}
    OBVIOUS
  <2>3. Iterates(it, base, F, 0)
    BY <2>2 DEF Iterates
  <2> QED
    BY <2>1, <2>3 DEF Good
<1> DEFINE m == k - 1
<1>4. m \in 0 .. n /\ m + 1 = k /\ m \notin Bad /\ k \in 1 .. n
  BY <1>2, <1>3
<1>5. Good(m)
  BY <1>4
<1> HIDE DEF m
<1>6. PICK it \in [SUBSET (1 .. m) -> S] : Iterates(it, base, F, m)
  BY <1>5 DEF Good
<1>7. m \in Nat /\ \A x \in S : F[m + 1][x] \in S
  BY <1>4
<1>8. Good(m + 1)
  BY <1>6, <1>7, IteratesGrow DEF Good
<1> QED
  BY <1>2, <1>4, <1>8

\* What the values of a fold over 1 .. k are in, for each k.
LEMMA FoldType ==
  ASSUME NEW n \in Nat, NEW g, NEW W, g[0] \in W[0],
         \A k \in 1 .. n : g[k - 1] \in W[k - 1] => g[k] \in W[k]
  PROVE  \A k \in 0 .. n : g[k] \in W[k]
<1> DEFINE Bad == {k \in 0 .. n : g[k] \notin W[k]}
           k == Min(Bad)
<1> SUFFICES ASSUME Bad # {} PROVE FALSE
  OBVIOUS
<1>1. Bad \in SUBSET Nat
  OBVIOUS
<1>2. k \in Bad /\ \A j \in Bad : k <= j
  BY <1>1, LeastIs
<1> HIDE DEF k
<1>3. k \in 1 .. n
  BY <1>2
<1>4. k - 1 \in 0 .. n /\ k - 1 \notin Bad
  BY <1>2, <1>3
<1> QED
  BY <1>2, <1>3, <1>4

LEMMA MostIs ==
  ASSUME NEW n \in Nat, NEW Y \in SUBSET (1 .. n), Y # {}
  PROVE  Max(Y) \in Y /\ \A y \in Y : Max(Y) >= y
<1> DEFINE T == {n - y : y \in Y}
<1>1. T \in SUBSET Nat /\ T # {}
  <2>1. \A y \in Y : n - y \in Nat
    OBVIOUS
  <2> QED
    BY <2>1
<1>2. Min(T) \in T /\ \A x \in T : Min(T) <= x
  BY <1>1, LeastIs
<1>3. PICK m \in Y : Min(T) = n - m
  BY <1>2
<1>4. \A y \in Y : n - y \in T
  OBVIOUS
<1> HIDE DEF T
<1>5. ASSUME NEW y \in Y PROVE m >= y
  <2>1. n - m <= n - y
    BY <1>2, <1>3, <1>4
  <2>2. m \in Nat /\ y \in Nat
    OBVIOUS
  <2> QED
    BY <2>1, <2>2
<1>6. \E x \in Y : \A y \in Y : x >= y
  BY <1>3, <1>5
<1> QED
  BY <1>6, Zenon DEF Max

-----------------------------------------------------------------------------
(***************************************************************************)
(* What a sequence does: it goes from a to b, each x of it from one value  *)
(* to one that F[x] relates to it.                                         *)
(***************************************************************************)
Runs(F, S, s, a, b) ==
  \E w \in [1 .. Len(s) + 1 -> S] :
    /\ w[1] = a /\ w[Len(s) + 1] = b
    /\ \A i \in 1 .. Len(s) : <<w[i], w[i + 1]>> \in F[s[i]]

LEMMA RunsEmpty ==
  ASSUME NEW F, NEW S
  PROVE  /\ \A a \in S : Runs(F, S, <<>>, a, a)
         /\ \A a, b : Runs(F, S, <<>>, a, b) => a = b /\ a \in S
<1>1. Len(<<>>) = 0 /\ 0 + 1 = 1 /\ 1 .. 0 = {} /\ 1 \in 1 .. 1
  OBVIOUS
<1>2. ASSUME NEW a \in S PROVE Runs(F, S, <<>>, a, a)
  <2> DEFINE w == [i \in 1 .. 1 |-> a]
  <2>1. w \in [1 .. 1 -> S] /\ w[1] = a
    BY <1>1
  <2> HIDE DEF w
  <2> QED BY <1>1, <2>1 DEF Runs
<1>3. ASSUME NEW a, NEW b, Runs(F, S, <<>>, a, b) PROVE a = b /\ a \in S
  BY <1>1, <1>3 DEF Runs
<1> QED BY <1>2, <1>3

LEMMA RunsOne ==
  ASSUME NEW F, NEW S, NEW x, NEW a \in S, NEW b \in S, <<a, b>> \in F[x]
  PROVE  Runs(F, S, <<x>>, a, b)
<1> DEFINE w == [i \in 1 .. 2 |-> IF i = 1 THEN a ELSE b]
           s == <<x>>
<1>1. w \in [1 .. 2 -> S] /\ w[1] = a /\ w[1 + 1] = b
  OBVIOUS
<1>2. Len(s) = 1 /\ s[1] = x /\ 1 + 1 = 2 /\ \A i \in 1 .. 1 : i = 1
  OBVIOUS
<1> HIDE DEF w, s
<1>3. \A i \in 1 .. Len(s) : <<w[i], w[i + 1]>> \in F[s[i]]
  BY <1>1, <1>2
<1>4. Runs(F, S, s, a, b)
  BY <1>1, <1>2, <1>3 DEF Runs
<1> QED BY <1>4 DEF s

\* What leaves the value as it is.
LEMMA RunsStay ==
  ASSUME NEW F, NEW S, NEW X, NEW s \in Seq(X), NEW a \in S,
         \A i \in 1 .. Len(s) : <<a, a>> \in F[s[i]]
  PROVE  Runs(F, S, s, a, a)
<1> DEFINE n == Len(s)
           w == [i \in 1 .. n + 1 |-> a]
<1>1. n \in Nat
  OBVIOUS
<1>2. \A i \in 1 .. n + 1 : w[i] = a
  OBVIOUS
<1>3. w \in [1 .. n + 1 -> S]
  OBVIOUS
<1>4. 1 \in 1 .. n + 1 /\ n + 1 \in 1 .. n + 1 /\ \A i \in 1 .. n : i \in 1 .. n + 1 /\ i + 1 \in 1 .. n + 1
  BY <1>1
<1> HIDE DEF w, n
<1>5. \A i \in 1 .. n : <<w[i], w[i + 1]>> \in F[s[i]]
  BY <1>2, <1>4 DEF n
<1> QED BY <1>2, <1>3, <1>4, <1>5 DEF Runs, n

LEMMA RunsTail ==
  ASSUME NEW F, NEW S, NEW X, NEW s \in Seq(X), s # <<>>, NEW a, NEW b, Runs(F, S, s, a, b)
  PROVE  a \in S /\ \E c \in S : <<a, c>> \in F[s[1]] /\ Runs(F, S, Tail(s), c, b)
<1>1. /\ Len(Tail(s)) = Len(s) - 1 /\ Len(s) \in Nat
      /\ Len(s) >= 1 /\ \A i \in 1 .. Len(s) - 1 : Tail(s)[i] = s[i + 1]
  OBVIOUS
<1>2. PICK w \in [1 .. Len(s) + 1 -> S] :
             /\ w[1] = a /\ w[Len(s) + 1] = b
             /\ \A i \in 1 .. Len(s) : <<w[i], w[i + 1]>> \in F[s[i]]
  BY DEF Runs
<1> DEFINE v == [i \in 1 .. Len(s) |-> w[i + 1]]
<1>3. v \in [1 .. Len(Tail(s)) + 1 -> S]
  BY <1>1, <1>2
<1>4. v[Len(Tail(s)) + 1] = b
  BY <1>1, <1>2
<1>5. ASSUME NEW i \in 1 .. Len(Tail(s))
      PROVE  <<v[i], v[i + 1]>> \in F[Tail(s)[i]]
  <2>1. /\ i + 1 \in 1 .. Len(s) /\ i \in 1 .. Len(s) /\ Tail(s)[i] = s[i + 1]
        /\ (i + 1) + 1 \in 1 .. Len(s) + 1
    BY <1>1
  <2>2. v[i] = w[i + 1] /\ v[i + 1] = w[(i + 1) + 1]
    BY <2>1
  <2> QED BY <1>2, <2>1, <2>2
<1>6. /\ v[1] = w[1 + 1] /\ 1 \in 1 .. Len(s) /\ 1 + 1 \in 1 .. Len(s) + 1
      /\ 1 \in 1 .. Len(s) + 1
  BY <1>1
<1> HIDE DEF v
<1>7. Runs(F, S, Tail(s), v[1], b)
  BY <1>3, <1>4, <1>5 DEF Runs
<1>8. <<a, v[1]>> \in F[s[1]]
  BY <1>2, <1>6
<1> QED BY <1>2, <1>6, <1>7, <1>8

\* A run begins and ends in S.
LEMMA RunsFrom ==
  ASSUME NEW F, NEW S, NEW X, NEW s \in Seq(X), NEW a, NEW b, Runs(F, S, s, a, b)
  PROVE  a \in S /\ b \in S
<1>1. Len(s) \in Nat
  OBVIOUS
<1>2. PICK w \in [1 .. Len(s) + 1 -> S] : w[1] = a /\ w[Len(s) + 1] = b
  BY DEF Runs
<1>3. 1 \in 1 .. Len(s) + 1 /\ Len(s) + 1 \in 1 .. Len(s) + 1
  BY <1>1
<1> QED BY <1>2, <1>3

LEMMA RunsConcat ==
  ASSUME NEW F, NEW S, NEW X, NEW s \in Seq(X), NEW r \in Seq(X), NEW a, NEW b, NEW c,
         Runs(F, S, s, a, b), Runs(F, S, r, b, c)
  PROVE  Runs(F, S, s \o r, a, c)
<1> DEFINE sr == s \o r
           n == Len(s)
           m == Len(r)
<1>1. /\ n \in Nat /\ m \in Nat /\ Len(sr) = n + m
      /\ \A i \in 1 .. n : sr[i] = s[i]
      /\ \A i \in 1 .. m : sr[i + n] = r[i]
  OBVIOUS
<1>2. PICK v \in [1 .. n + 1 -> S] :
             /\ v[1] = a /\ v[n + 1] = b
             /\ \A i \in 1 .. n : <<v[i], v[i + 1]>> \in F[s[i]]
  BY DEF Runs
<1>3. PICK u \in [1 .. m + 1 -> S] :
             /\ u[1] = b /\ u[m + 1] = c
             /\ \A i \in 1 .. m : <<u[i], u[i + 1]>> \in F[r[i]]
  BY DEF Runs
<1> HIDE DEF sr, n, m
<1> DEFINE w == [i \in 1 .. n + m + 1 |-> IF i <= n THEN v[i] ELSE u[i - n]]
<1>4. /\ w \in [1 .. n + m + 1 -> S]
      /\ \A i \in 1 .. n : w[i] = v[i]
      /\ \A i \in 1 .. m + 1 : w[i + n] = u[i]
  <2>1. \A i \in 1 .. n + m + 1 : i <= n => i \in 1 .. n + 1
    BY <1>1
  <2>2. \A i \in 1 .. n + m + 1 : ~(i <= n) => i - n \in 1 .. m + 1
    BY <1>1
  <2>3. w \in [1 .. n + m + 1 -> S]
    BY <1>2, <1>3, <2>1, <2>2
  <2>4. \A i \in 1 .. n : i \in 1 .. n + m + 1 /\ i <= n
    BY <1>1
  <2>5. \A i \in 1 .. m + 1 : i + n \in 1 .. n + m + 1 /\ ~(i + n <= n) /\ (i + n) - n = i
    BY <1>1
  <2> QED BY <2>3, <2>4, <2>5
<1> HIDE DEF w
<1>5. w[n + 1] = b /\ v[n + 1] = b
  <2>1. 1 \in 1 .. m + 1 /\ 1 + n = n + 1
    BY <1>1
  <2> QED BY <1>2, <1>3, <1>4, <2>1
<1>6. w[1] = a /\ w[n + m + 1] = c
  <2>1. w[n + m + 1] = u[m + 1]
    <3>1. m + 1 \in 1 .. m + 1 /\ (m + 1) + n = n + m + 1
      BY <1>1
    <3> QED BY <1>4, <3>1
  <2>2. w[1] = a
    <3>1. CASE n = 0
      BY <1>2, <1>5, <3>1
    <3>2. CASE n # 0
      <4>1. 1 \in 1 .. n
        BY <1>1, <3>2
      <4> QED BY <1>2, <1>4, <4>1
    <3> QED BY <3>1, <3>2
  <2> QED BY <1>3, <2>1, <2>2
<1>7. ASSUME NEW i \in 1 .. n
      PROVE  <<w[i], w[i + 1]>> \in F[sr[i]]
  <2>1. w[i] = v[i] /\ sr[i] = s[i]
    BY <1>1, <1>4
  <2>2. w[i + 1] = v[i + 1]
    <3>1. CASE i = n
      BY <1>5, <3>1
    <3>2. CASE i # n
      <4>1. i + 1 \in 1 .. n
        BY <1>1, <3>2
      <4> QED BY <1>4, <4>1
    <3> QED BY <3>1, <3>2
  <2> QED BY <1>2, <2>1, <2>2
<1>8. ASSUME NEW i \in 1 .. m
      PROVE  <<w[i + n], w[(i + n) + 1]>> \in F[sr[i + n]]
  <2>1. i \in 1 .. m + 1 /\ i + 1 \in 1 .. m + 1 /\ (i + n) + 1 = (i + 1) + n
    BY <1>1
  <2>2. w[i + n] = u[i] /\ w[(i + n) + 1] = u[i + 1] /\ sr[i + n] = r[i]
    BY <1>1, <1>4, <2>1
  <2> QED BY <1>3, <2>2
<1>9. ASSUME NEW j \in 1 .. n + m
      PROVE  <<w[j], w[j + 1]>> \in F[sr[j]]
  <2>1. CASE j \in 1 .. n
    BY <1>7, <2>1
  <2>2. CASE j \notin 1 .. n
    <3> DEFINE i == j - n
    <3>1. i \in 1 .. m /\ i + n = j
      BY <1>1, <2>2
    <3> HIDE DEF i
    <3> QED BY <1>8, <3>1
  <2> QED BY <2>1, <2>2
<1>10. Runs(F, S, sr, a, c)
  BY <1>1, <1>4, <1>6, <1>9 DEF Runs
<1> QED BY <1>10 DEF sr

\* What no step of a sequence leaves, it does not leave.
LEMMA RunsKeep ==
  ASSUME NEW F, NEW S, NEW X, NEW s \in Seq(X), NEW a, NEW b, Runs(F, S, s, a, b),
         NEW T \in SUBSET S, a \in T,
         \A i \in 1 .. Len(s) : \A p \in T, q \in S : <<p, q>> \in F[s[i]] => q \in T
  PROVE  b \in T
<1> DEFINE n == Len(s)
<1>1. PICK w \in [1 .. n + 1 -> S] :
             /\ w[1] = a /\ w[n + 1] = b
             /\ \A i \in 1 .. n : <<w[i], w[i + 1]>> \in F[s[i]]
  BY DEF Runs
<1>2. n \in Nat
  OBVIOUS
<1> DEFINE g == [k \in 0 .. n |-> w[k + 1]]
           W == [k \in 0 .. n |-> T]
<1>3. g[0] \in W[0]
  BY <1>1, <1>2
<1>4. ASSUME NEW k \in 1 .. n, g[k - 1] \in W[k - 1]
      PROVE  g[k] \in W[k]
  <2>1. k - 1 \in 0 .. n /\ k \in 0 .. n /\ (k - 1) + 1 = k /\ k + 1 \in 1 .. n + 1
    BY <1>2
  <2>2. w[k] \in T /\ <<w[k], w[k + 1]>> \in F[s[k]] /\ w[k + 1] \in S
    BY <1>1, <1>4, <2>1
  <2> QED BY <2>1, <2>2
<1> HIDE DEF g, W
<1>5. \A k \in 0 .. n : g[k] \in W[k]
  BY <1>2, <1>3, <1>4, FoldType
<1>6. w[n + 1] \in T
  BY <1>2, <1>5 DEF g, W
<1> QED BY <1>1, <1>6

\* Two steps.
LEMMA TwoSteps ==
  ASSUME NEW x, NEW y
  PROVE  <<x>> \o <<y>> = <<x, y>>
<1> DEFINE s == <<x>>
           r == <<y>>
<1>1. s \in Seq({x, y}) /\ r \in Seq({x, y}) /\ Len(s) = 1 /\ Len(r) = 1 /\ s[1] = x /\ r[1] = y
  OBVIOUS
<1> HIDE DEF s, r
<1>7. /\ s \o r \in Seq({x, y}) /\ Len(s \o r) = Len(s) + Len(r)
      /\ \A i \in 1 .. Len(s) + Len(r) : (s \o r)[i] = IF i <= Len(s) THEN s[i] ELSE r[i - Len(s)]
  BY <1>1, ConcatProperties
<1> DEFINE z == s \o r
<1> HIDE DEF z
<1>2. z \in Seq({x, y}) /\ Len(z) = 2
  BY <1>1, <1>7 DEF z
<1>4. z[1] = x /\ z[2] = y
  <2>1. 1 \in 1 .. 2 /\ 2 \in 1 .. 2 /\ 1 <= 1 /\ ~(2 <= 1) /\ 2 - 1 = 1
    OBVIOUS
  <2> QED BY <1>1, <1>7, <2>1 DEF z
<1>3. <<x, y>> \in Seq({x, y}) /\ Len(<<x, y>>) = 2 /\ <<x, y>>[1] = x /\ <<x, y>>[2] = y
  OBVIOUS
<1> DEFINE q == <<x, y>>
           p == s \o r
<1> HIDE DEF q, p
<1>5. p = q
  <2>1. p \in Seq({x, y}) /\ q \in Seq({x, y}) /\ Len(p) = 2 /\ Len(q) = 2 /\ p[1] = q[1] /\ p[2] = q[2]
    BY <1>2, <1>3, <1>4 DEF p, q, z
  <2> QED BY <2>1, SeqEqual
<1> QED BY <1>5 DEF p, q, s, r

LEMMA OneStep ==
  ASSUME NEW X, NEW x \in X
  PROVE  <<x>> \in Seq(X) /\ Len(<<x>>) = 1 /\ <<x>>[1] = x /\ <<x>> \o <<>> = <<x>>
<1> DEFINE s == <<x>>
<1>1. s \in Seq(X) /\ Len(s) = 1 /\ s[1] = x
  OBVIOUS
<1> HIDE DEF s
<1>2. s \o <<>> = s
  BY <1>1
<1> QED BY <1>1, <1>2 DEF s

LEMMA ThreeSteps ==
  ASSUME NEW x, NEW y, NEW z
  PROVE  <<x, y>> \o <<z>> = <<x, y, z>>
<1> DEFINE X == {x, y, z}
           s == <<x, y>>
           r == <<z>>
           q == <<x, y, z>>
           p == s \o r
<1>1. s \in Seq(X) /\ Len(s) = 2 /\ s[1] = x /\ s[2] = y
  OBVIOUS
<1>2. r \in Seq(X) /\ Len(r) = 1 /\ r[1] = z
  OBVIOUS
<1>3. q \in Seq(X) /\ Len(q) = 3 /\ q[1] = x /\ q[2] = y /\ q[3] = z
  OBVIOUS
<1> HIDE DEF s, r, q, X
<1>4. /\ p \in Seq(X) /\ Len(p) = Len(s) + Len(r)
      /\ \A i \in 1 .. Len(s) + Len(r) : p[i] = IF i <= Len(s) THEN s[i] ELSE r[i - Len(s)]
  BY <1>1, <1>2, ConcatProperties
<1> HIDE DEF p
<1>5. Len(p) = 3 /\ \A i \in 1 .. 3 : p[i] = IF i <= 2 THEN s[i] ELSE r[i - 2]
  BY <1>1, <1>2, <1>4
<1>6. p[1] = x /\ p[2] = y /\ p[3] = z
  <2>1. /\ 1 \in 1 .. 3 /\ 2 \in 1 .. 3 /\ 3 \in 1 .. 3
        /\ 1 <= 2 /\ 2 <= 2 /\ ~(3 <= 2) /\ 3 - 2 = 1
    OBVIOUS
  <2> QED BY <1>1, <1>2, <1>5, <2>1
<1>7. \A i \in 1 .. 3 : p[i] = q[i]
  BY <1>3, <1>6
<1>8. p = q
  BY <1>3, <1>4, <1>5, <1>7, SeqEqual
<1> QED BY <1>8 DEF p, q, s, r

LEMMA FourSteps ==
  ASSUME NEW x, NEW y, NEW z, NEW w
  PROVE  <<x, y>> \o <<z, w>> = <<x, y, z, w>>
<1> DEFINE X == {x, y, z, w}
           s == <<x, y>>
           r == <<z, w>>
           q == <<x, y, z, w>>
           p == s \o r
<1>1. s \in Seq(X) /\ Len(s) = 2 /\ s[1] = x /\ s[2] = y
  OBVIOUS
<1>2. r \in Seq(X) /\ Len(r) = 2 /\ r[1] = z /\ r[2] = w
  OBVIOUS
<1>3. q \in Seq(X) /\ Len(q) = 4 /\ q[1] = x /\ q[2] = y /\ q[3] = z /\ q[4] = w
  OBVIOUS
<1> HIDE DEF s, r, q, X
<1>4. /\ p \in Seq(X) /\ Len(p) = Len(s) + Len(r)
      /\ \A i \in 1 .. Len(s) + Len(r) : p[i] = IF i <= Len(s) THEN s[i] ELSE r[i - Len(s)]
  BY <1>1, <1>2, ConcatProperties
<1> HIDE DEF p
<1>5. Len(p) = 4 /\ \A i \in 1 .. 4 : p[i] = IF i <= 2 THEN s[i] ELSE r[i - 2]
  BY <1>1, <1>2, <1>4
<1>6. p[1] = x /\ p[2] = y /\ p[3] = z /\ p[4] = w
  <2>1. /\ 1 \in 1 .. 4 /\ 2 \in 1 .. 4 /\ 3 \in 1 .. 4 /\ 4 \in 1 .. 4
        /\ 1 <= 2 /\ 2 <= 2 /\ ~(3 <= 2) /\ ~(4 <= 2) /\ 3 - 2 = 1 /\ 4 - 2 = 2
    OBVIOUS
  <2> QED BY <1>1, <1>2, <1>5, <2>1
<1>7. \A i \in 1 .. 4 : p[i] = q[i]
  BY <1>3, <1>6
<1>8. p = q
  BY <1>3, <1>4, <1>5, <1>7, SeqEqual
<1> QED BY <1>8 DEF p, q, s, r

LEMMA RunsTwo ==
  ASSUME NEW F, NEW S, NEW X, NEW x \in X, NEW y \in X, NEW a \in S, NEW b \in S, NEW c \in S,
         <<a, b>> \in F[x], <<b, c>> \in F[y]
  PROVE  <<x, y>> \in Seq(X) /\ Runs(F, S, <<x, y>>, a, c)
<1>1. Runs(F, S, <<x>>, a, b) /\ Runs(F, S, <<y>>, b, c)
  BY RunsOne
<1>2. <<x>> \in Seq(X) /\ <<y>> \in Seq(X) /\ <<x>> \o <<y>> = <<x, y>>
  BY TwoSteps, OneStep
<1>3. Runs(F, S, <<x>> \o <<y>>, a, c)
  BY <1>1, <1>2, RunsConcat
<1>4. <<x, y>> \in Seq(X)
  OBVIOUS
<1> QED BY <1>2, <1>3, <1>4
=============================================================================
