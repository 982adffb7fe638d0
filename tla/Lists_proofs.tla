---------------------------- MODULE Lists_proofs ----------------------------
(***************************************************************************)
(* Lemmas about counting and about Lists, for the proofs of the modules    *)
(* whose code builds a list or a total in a loop.                          *)
(*                                                                         *)
(* What a loop leaves after n rounds is shown from what it leaves after    *)
(* n - 1 (UpTo); that a recursive function over the rounds is a function   *)
(* at all, by FoldExists.                                                  *)
(***************************************************************************)
EXTENDS Lists, FiniteSetTheorems, WellFoundedInduction, TLAPS

(* A set of naturals that is not empty has a least element. *)
LEMMA Least ==
  ASSUME NEW T, T \subseteq Nat, T # {}
  PROVE  \E n \in T : \A m \in T : n <= m
<1> DEFINE R == {ss \in Nat \X Nat : ss[1] < ss[2]}
<1>1. IsWellFoundedOn(R, Nat)
  BY NatLessThanWellFounded DEF OpToRel
<1>2. \A m, n \in Nat : m < n => <<m, n>> \in R
  OBVIOUS
<1> HIDE DEF R
<1>3. PICK n \in T : \A m \in T : ~(<<m, n>> \in R)
  BY <1>1, WFMin
<1>4. QED
  <2>1. ASSUME NEW m \in T PROVE n <= m
    <3>1. m \in Nat /\ n \in Nat
      OBVIOUS
    <3>2. ~(m < n)
      BY <1>2, <1>3, <3>1, <2>1
    <3>3. QED
      BY <3>1, <3>2
  <2>2. QED
    BY <2>1

(* What holds of 0, and of n + 1 when it holds of n, holds up to N. *)
LEMMA UpTo ==
  ASSUME NEW N \in Nat, NEW T, 0 \in T, \A n \in 0..(N - 1) : n \in T => n + 1 \in T
  PROVE  \A n \in 0..N : n \in T
<1> DEFINE B == {n \in 0..N : n \notin T}
<1>1. SUFFICES ASSUME B # {} PROVE FALSE
  OBVIOUS
<1>2. B \subseteq Nat
  OBVIOUS
<1>3. PICK n \in B : \A m \in B : n <= m
  BY <1>1, <1>2, Least
<1>4. n # 0 /\ n \in 1..N
  BY <1>3
<1>5. n - 1 \in 0..(N - 1) /\ ~(n <= n - 1)
  BY <1>4
<1>6. n - 1 \in T
  BY <1>3, <1>5
<1>7. QED
  BY <1>3, <1>4, <1>5, <1>6

Follows(U, step, b, N) == U[0] = b /\ \A n \in 1..N : U[n] = step[n][U[n - 1]]

(* What is computed value after value is a function of how many there were. *)
LEMMA FoldExists ==
  ASSUME NEW X, NEW N \in Nat, NEW b \in X, NEW step \in [1..N -> [X -> X]]
  PROVE  \E U \in [0..N -> X] : Follows(U, step, b, N)
<1> DEFINE Good(U, m) == U = [n \in 0..m |-> IF n = 0 THEN b ELSE step[n][U[n - 1]]]
           T == {m \in 0..N : \E U \in [0..m -> X] : Good(U, m)}
<1>1. 0 \in T
  <2>1. [n \in 0..0 |-> b] \in [0..0 -> X] /\ 0 \in 0..N
    OBVIOUS
  <2>2. Good([n \in 0..0 |-> b], 0)
    OBVIOUS
  <2>3. QED
    BY <2>1, <2>2
<1>2. ASSUME NEW m \in 0..(N - 1), m \in T PROVE m + 1 \in T
  <2>1. PICK U \in [0..m -> X] : Good(U, m)
    BY <1>2
  <2> DEFINE V == [n \in 0..(m + 1) |-> IF n = m + 1 THEN step[m + 1][U[m]] ELSE U[n]]
  <2>2. m + 1 \in 1..N /\ m \in 0..m /\ U[m] \in X /\ step[m + 1] \in [X -> X]
    OBVIOUS
  <2>3. V \in [0..(m + 1) -> X]
    BY <2>2
  <2>4. ASSUME NEW n \in 0..(m + 1)
        PROVE  V[n] = IF n = 0 THEN b ELSE step[n][V[n - 1]]
    <3>1. CASE n = m + 1
      <4>1. n # 0 /\ n - 1 = m /\ V[m] = U[m] /\ V[n] = step[m + 1][U[m]]
        BY <3>1
      <4>2. QED
        BY ONLY <3>1, <4>1
    <3>2. CASE n # m + 1
      <4>1. n \in 0..m /\ V[n] = U[n] /\ (n # 0 => V[n - 1] = U[n - 1])
        BY <3>2
      <4>2. U[n] = IF n = 0 THEN b ELSE step[n][U[n - 1]]
        BY <2>1, <4>1
      <4>3. QED
        BY ONLY <4>1, <4>2
    <3>3. QED
      BY <3>1, <3>2
  <2>5. Good(V, m + 1)
    BY <2>4
  <2> HIDE DEF V, Good
  <2>6. QED
    BY <2>2, <2>3, <2>5
<1>3. N \in T
  <2> HIDE DEF T
  <2>1. \A n \in 0..N : n \in T
    BY <1>1, <1>2, UpTo
  <2>2. QED
    BY <2>1
<1>4. PICK U \in [0..N -> X] : Good(U, N)
  BY <1>3
<1>5. Follows(U, step, b, N)
  BY <1>4 DEF Follows
<1>6. QED
  BY <1>5

(* What a list is after another. *)
LEMMA Concatenated ==
  ASSUME NEW S, NEW s \in Seq(S), NEW t \in Seq(S)
  PROVE  /\ s \o t \in Seq(S) /\ Len(s \o t) = Len(s) + Len(t)
         /\ \A i \in 1..Len(s) : (s \o t)[i] = s[i]
         /\ \A i \in 1..Len(t) : (s \o t)[Len(s) + i] = t[i]
<1>1. Len(s) \in Nat /\ Len(t) \in Nat
  OBVIOUS
<1>2. s \o t \in Seq(S) /\ Len(s \o t) = Len(s) + Len(t)
  OBVIOUS
<1>3. \A i \in 1..(Len(s) + Len(t)) :
        (s \o t)[i] = IF i <= Len(s) THEN s[i] ELSE t[i - Len(s)]
  OBVIOUS
<1>4. \A i \in 1..Len(s) : (s \o t)[i] = s[i]
  BY <1>1, <1>3
<1>5. \A i \in 1..Len(t) : (s \o t)[Len(s) + i] = t[i]
  BY <1>1, <1>3
<1>6. QED
  BY <1>2, <1>4, <1>5

(* A function over 1..n is a list of n values. *)
LEMMA ListOf ==
  ASSUME NEW n \in Nat, NEW f, f = [i \in 1..n |-> f[i]]
  PROVE  f \in Seq({f[i] : i \in 1..n}) /\ Len(f) = n
<1> DEFINE S == {f[i] : i \in 1..n}
<1>1. f \in [1..n -> S]
  OBVIOUS
<1> HIDE DEF S
<1>2. f \in Seq(S) /\ Len(f) = n
  BY <1>1
<1>3. QED
  BY <1>2 DEF S

(* Places of rows of w values each, laid end to end. *)
LEMMA PlaceInRow ==
  ASSUME NEW w \in Nat \ {0}, NEW t \in Nat, NEW j \in 1..w
  PROVE  /\ (t * w + j - 1) \div w = t
         /\ (t * w + j - 1) % w = j - 1
         /\ \A n \in Nat : t < n => t * w + j \in 1..(n * w)
<1>1. t * w + j - 1 = w * t + (j - 1) /\ j - 1 \in 0..(w - 1)
  OBVIOUS
<1>2. (t * w + j - 1) \div w = t /\ (t * w + j - 1) % w = j - 1
  <2>1. ASSUME NEW a \in Int, NEW r \in 0..(w - 1), a = w * t + r
        PROVE  a \div w = t /\ a % w = r
    BY <2>1
  <2>2. t * w + j - 1 \in Int
    OBVIOUS
  <2>3. QED
    BY <1>1, <2>1, <2>2
<1>3. ASSUME NEW n \in Nat, t < n PROVE t * w + j \in 1..(n * w)
  <2>1. (t + 1) * w <= n * w
    BY <1>3
  <2>2. (t + 1) * w = t * w + w /\ t * w \in Nat /\ n * w \in Nat
    OBVIOUS
  <2>3. QED
    BY <2>1, <2>2
<1>4. QED
  BY <1>2, <1>3

LEMMA RowOfPlace ==
  ASSUME NEW w \in Nat \ {0}, NEW n \in Nat, NEW x \in 1..(n * w)
  PROVE  /\ (x - 1) \div w \in 0..(n - 1)
         /\ (x - 1) % w \in 0..(w - 1)
         /\ x = ((x - 1) \div w) * w + ((x - 1) % w) + 1
<1> DEFINE a == x - 1
           q == a \div w
           r == a % w
<1>1. n * w \in Nat /\ a \in Nat /\ a < n * w
  OBVIOUS
<1>2. a = w * q + r /\ r \in 0..(w - 1) /\ q \in Nat
  <2> HIDE DEF a
  <2>1. QED
    BY <1>1
<1> HIDE DEF a, q, r
<1>3. q < n
  <2>1. CASE n <= q
    <3>1. w * n <= w * q /\ w * n = n * w /\ w * q \in Nat
      BY <1>2, <2>1
    <3>2. QED
      BY <1>1, <1>2, <3>1
  <2>2. QED
    BY <1>2, <2>1
<1>4. w * q = q * w
  BY <1>2
<1>5. q \in 0..(n - 1) /\ r \in 0..(w - 1) /\ x = q * w + r + 1
  BY <1>1, <1>2, <1>3, <1>4 DEF a
<1>6. QED
  BY <1>5 DEF a, q, r

-----------------------------------------------------------------------------
(* What retain and filter keep: each kept value comes from a place of its  *)
(* own, and every place is kept.                                           *)
IsKept(kept, values, places, n) ==
  \E at \in [1..Len(kept) -> places \cap 1..n] :
    /\ \A j \in 1..Len(kept) : kept[j] = values[at[j]]
    /\ \A i, j \in 1..Len(kept) : at[i] = at[j] => i = j
    /\ \A i \in places \cap 1..n : \E j \in 1..Len(kept) : at[j] = i

Keeping(U, values, places) ==
  U = [n \in 0..Len(values) |->
         IF n = 0 THEN <<>>
         ELSE IF n \in places THEN Append(U[n - 1], values[n]) ELSE U[n - 1]]

LEMMA KeepingExists ==
  ASSUME NEW S, NEW values \in Seq(S), NEW places
  PROVE  \E U : Keeping(U, values, places)
<1> DEFINE N == Len(values)
           X == Seq(S)
           b == <<>>
           step == [n \in 1..N |-> [x \in X |->
                      IF n \in places THEN Append(x, values[n]) ELSE x]]
<1>1. N \in Nat /\ b \in X
  OBVIOUS
<1>2. step \in [1..N -> [X -> X]]
  <2>1. ASSUME NEW n \in 1..N, NEW x \in X
        PROVE  (IF n \in places THEN Append(x, values[n]) ELSE x) \in X
    <3>1. values[n] \in S
      OBVIOUS
    <3>2. QED
      BY <3>1
  <2>2. QED
    BY <2>1
<1>3. \A x \in X, n \in 1..N :
        step[n][x] = IF n \in places THEN Append(x, values[n]) ELSE x
  OBVIOUS
<1> HIDE DEF step, X
<1>4. PICK U \in [0..N -> X] : Follows(U, step, b, N)
  <2> HIDE DEF N, b
  <2>1. QED
    BY <1>1, <1>2, FoldExists
<1>5. ASSUME NEW n \in 0..N
      PROVE  U[n] = IF n = 0 THEN <<>>
                    ELSE IF n \in places THEN Append(U[n - 1], values[n]) ELSE U[n - 1]
  <2>1. CASE n = 0
    BY <1>4, <2>1 DEF Follows
  <2>2. CASE n # 0
    <3>1. n \in 1..N /\ n - 1 \in 0..N /\ U[n - 1] \in X
      BY <1>1, <2>2
    <3>2. U[n] = step[n][U[n - 1]]
      BY <1>4, <2>2, <3>1 DEF Follows
    <3>3. QED
      BY <1>3, <2>2, <3>1, <3>2
  <2>3. QED
    BY <2>1, <2>2
<1>6. Keeping(U, values, places)
  <2>1. U = [n \in 0..N |-> U[n]]
    OBVIOUS
  <2>2. QED
    BY <1>5, <2>1 DEF Keeping
<1>7. QED
  BY <1>6

(* A value more is kept at the end. *)
LEMMA KeptOne ==
  ASSUME NEW S, NEW values \in Seq(S), NEW places, NEW n \in 0..(Len(values) - 1),
         NEW kept \in Seq(S), IsKept(kept, values, places, n)
  PROVE  /\ n + 1 \in places => IsKept(Append(kept, values[n + 1]), values, places, n + 1)
         /\ n + 1 \notin places => IsKept(kept, values, places, n + 1)
<1> DEFINE k == Len(kept)
<1>1. /\ k \in Nat /\ n \in Nat /\ n + 1 \in 1..Len(values) /\ values[n + 1] \in S
      /\ Len(Append(kept, values[n + 1])) = k + 1
      /\ Append(kept, values[n + 1])[k + 1] = values[n + 1]
      /\ \A j \in 1..k : Append(kept, values[n + 1])[j] = kept[j]
  OBVIOUS
<1>2. PICK at \in [1..k -> places \cap 1..n] :
        /\ \A j \in 1..k : kept[j] = values[at[j]]
        /\ \A i, j \in 1..k : at[i] = at[j] => i = j
        /\ \A i \in places \cap 1..n : \E j \in 1..k : at[j] = i
  BY DEF IsKept
<1>3. CASE n + 1 \notin places
  <2>1. places \cap 1..(n + 1) = places \cap 1..n
    BY <1>1, <1>3
  <2>2. QED
    BY <1>3, <2>1 DEF IsKept
<1>4. CASE n + 1 \in places
  <2> DEFINE more == Append(kept, values[n + 1])
             to == [j \in 1..(k + 1) |-> IF j = k + 1 THEN n + 1 ELSE at[j]]
  <2>1. places \cap 1..(n + 1) = (places \cap 1..n) \cup {n + 1}
    BY <1>1, <1>4
  <2>2. 1..(k + 1) = (1..k) \cup {k + 1} /\ k + 1 \notin 1..k /\ n + 1 \notin 1..n
    BY <1>1
  <2>3. /\ to[k + 1] = n + 1
        /\ \A j \in 1..k : to[j] = at[j] /\ at[j] \in places \cap 1..n
    BY <1>2, <2>2
  <2>4. to \in [1..(k + 1) -> places \cap 1..(n + 1)]
    BY <2>1, <2>2, <2>3
  <2> HIDE DEF to
  <2>5. \A j \in 1..(k + 1) : more[j] = values[to[j]]
    BY <1>1, <1>2, <2>2, <2>3
  <2>6. ASSUME NEW i \in 1..(k + 1), NEW j \in 1..(k + 1), to[i] = to[j] PROVE i = j
    <3>1. CASE i \in 1..k /\ j \in 1..k
      BY ONLY <1>2, <2>3, <2>6, <3>1
    <3>2. CASE i \in 1..k /\ j = k + 1
      BY ONLY <2>2, <2>3, <2>6, <3>2
    <3>3. CASE i = k + 1 /\ j \in 1..k
      BY ONLY <2>2, <2>3, <2>6, <3>3
    <3>4. QED
      BY <2>2, <3>1, <3>2, <3>3
  <2>7. \A i \in places \cap 1..(n + 1) : \E j \in 1..(k + 1) : to[j] = i
    BY <1>2, <2>1, <2>2, <2>3
  <2>8. Len(more) = k + 1
    BY <1>1
  <2> HIDE DEF more, k
  <2>9. IsKept(more, values, places, n + 1)
    <3>1. /\ to \in [1..Len(more) -> places \cap 1..(n + 1)]
          /\ \A j \in 1..Len(more) : more[j] = values[to[j]]
          /\ \A i, j \in 1..Len(more) : to[i] = to[j] => i = j
          /\ \A i \in places \cap 1..(n + 1) : \E j \in 1..Len(more) : to[j] = i
      BY ONLY <2>4, <2>5, <2>6, <2>7, <2>8
    <3>2. QED
      BY ONLY <3>1 DEF IsKept
  <2>10. QED
    BY <1>4, <2>9 DEF more
<1>5. QED
  BY <1>3, <1>4

LEMMA KeptIs ==
  ASSUME NEW S, NEW values \in Seq(S), NEW places
  PROVE  /\ Kept(values, places) \in Seq(S)
         /\ IsKept(Kept(values, places), values, places, Len(values))
<1> DEFINE N == Len(values)
           g == CHOOSE U : Keeping(U, values, places)
           T == {n \in 0..N : g[n] \in Seq(S) /\ IsKept(g[n], values, places, n)}
<1>1. Kept(values, places) = g[N]
  BY DEF Kept, Keeping
<1>2. Keeping(g, values, places)
  BY KeepingExists
<1>3. N \in Nat
  OBVIOUS
<1> HIDE DEF g
<1>4. 0 \in T
  <2>1. g[0] = <<>> /\ 0 \in 0..N
    BY <1>2, <1>3 DEF Keeping
  <2>2. IsKept(<<>>, values, places, 0)
    <3> DEFINE none == [j \in 1..0 |-> 0]
    <3>1. none \in [1..0 -> places \cap 1..0] /\ Len(<<>>) = 0 /\ 1..0 = {}
      OBVIOUS
    <3> HIDE DEF none
    <3>2. /\ none \in [1..Len(<<>>) -> places \cap 1..0]
          /\ \A j \in 1..Len(<<>>) : FALSE
          /\ \A i \in places \cap 1..0 : FALSE
      BY <3>1
    <3>3. QED
      BY <3>2 DEF IsKept
  <2>3. g[0] \in Seq(S) /\ IsKept(g[0], values, places, 0)
    BY <2>1, <2>2
  <2> HIDE DEF IsKept
  <2>4. QED
    BY <2>1, <2>3
<1>5. ASSUME NEW n \in 0..(N - 1), n \in T PROVE n + 1 \in T
  <2>1. /\ n + 1 \in 0..N /\ n + 1 # 0 /\ (n + 1) - 1 = n /\ values[n + 1] \in S
        /\ g[n] \in Seq(S) /\ IsKept(g[n], values, places, n)
    BY <1>3, <1>5
  <2>2. g[n + 1] = IF n + 1 \in places THEN Append(g[n], values[n + 1]) ELSE g[n]
    BY <1>2, <2>1 DEF Keeping
  <2>3. IsKept(g[n + 1], values, places, n + 1)
    BY <2>1, <2>2, KeptOne
  <2>4. g[n + 1] \in Seq(S)
    BY <2>1, <2>2
  <2>5. QED
    BY <2>1, <2>3, <2>4
<1>6. N \in T
  <2> HIDE DEF T
  <2>1. \A n \in 0..N : n \in T
    BY <1>3, <1>4, <1>5, UpTo
  <2>2. QED
    BY <1>3, <2>1
<1>7. QED
  BY <1>1, <1>6

(* Each kept value from a place of its own, each place kept. *)
KeptFrom(kept, values, places) ==
  \E at \in [1..Len(kept) -> places] :
    /\ \A j \in 1..Len(kept) : kept[j] = values[at[j]]
    /\ \A i, j \in 1..Len(kept) : at[i] = at[j] => i = j
    /\ \A i \in places : \E j \in 1..Len(kept) : at[j] = i

LEMMA KeptFacts ==
  ASSUME NEW S, NEW values \in Seq(S), NEW places, places \subseteq 1..Len(values)
  PROVE  Kept(values, places) \in Seq(S) /\ KeptFrom(Kept(values, places), values, places)
<1>1. places \cap 1..Len(values) = places
  OBVIOUS
<1>2. QED
  BY <1>1, KeptIs DEF IsKept, KeptFrom

(* Sorting a set of numbers: each of them has a place, and every place one, *)
(* because the numbers below tell them apart.                               *)
LEMMA InOrderIs ==
  ASSUME NEW S, S \subseteq Int, IsFiniteSet(S)
  PROVE  /\ InOrder(S) \in Seq(S) /\ Len(InOrder(S)) = Cardinality(S)
         /\ \A x \in S : \E k \in 1..Cardinality(S) : InOrder(S)[k] = x
<1> DEFINE n == Cardinality(S)
           below(x) == {y \in S : y < x}
           rank == [x \in S |-> Cardinality(below(x))]
           places == 0..(n - 1)
<1>1. n \in Nat
  BY FS_CardinalityType
<1>2. ASSUME NEW x \in S
      PROVE  IsFiniteSet(below(x)) /\ Cardinality(below(x)) \in places
  <2>1. below(x) \in SUBSET S /\ x \notin below(x)
    OBVIOUS
  <2>2. IsFiniteSet(below(x)) /\ Cardinality(below(x)) <= n /\ (n = Cardinality(below(x)) => S = below(x))
    BY <2>1, FS_Subset
  <2>3. Cardinality(below(x)) \in Nat
    BY <2>2, FS_CardinalityType
  <2>4. Cardinality(below(x)) # n
    BY <2>1, <2>2
  <2> HIDE DEF below, n
  <2>5. QED
    BY <1>1, <2>2, <2>3, <2>4
<1>3. ASSUME NEW x \in S, NEW y \in S, x < y
      PROVE  Cardinality(below(x)) # Cardinality(below(y))
  <2>1. below(x) \in SUBSET below(y) /\ x \in below(y) /\ x \notin below(x)
    <3>1. \A z \in S : z \in Int
      OBVIOUS
    <3>2. \A z \in S : z < x => z < y
      BY <1>3, <3>1
    <3>3. ~(x < x)
      BY <3>1
    <3>4. QED
      BY <1>3, <3>2, <3>3
  <2>2. Cardinality(below(y)) = Cardinality(below(x)) => below(y) = below(x)
    BY <1>2, <2>1, FS_Subset
  <2>3. QED
    BY <2>1, <2>2
<1>4. ASSUME NEW x \in S, NEW y \in S, rank[x] = rank[y] PROVE x = y
  <2>1. x \in Int /\ y \in Int
    OBVIOUS
  <2>2. ~(x < y) /\ ~(y < x)
    BY <1>3, <1>4
  <2>3. QED
    BY <2>1, <2>2
<1>5. rank \in Injection(S, places)
  <2>1. rank \in [S -> places]
    BY <1>2
  <2> HIDE DEF rank, places
  <2>2. QED
    BY <1>4, <2>1 DEF Injection, IsInjective
<1>6. IsFiniteSet(places) /\ Cardinality(places) = n
  <2>1. IsFiniteSet(places) /\ Cardinality(places) = IF 0 > n - 1 THEN 0 ELSE n - 1 - 0 + 1
    BY <1>1, FS_Interval
  <2>2. QED
    BY <1>1, <2>1
<1>7. \A k \in places : \E x \in S : rank[x] = k
  <2>1. rank \in Surjection(S, places)
    BY <1>5, <1>6, FS_Injection
  <2>2. QED
    BY <2>1 DEF Surjection
<1> DEFINE f == InOrder(S)
<1>8. f = [k \in 1..n |-> CHOOSE x \in S : Cardinality(below(x)) = k - 1]
  BY DEF InOrder
<1>9. ASSUME NEW k \in 1..n PROVE f[k] \in S /\ rank[f[k]] = k - 1
  <2>1. k - 1 \in places
    BY <1>1
  <2>2. \E x \in S : Cardinality(below(x)) = k - 1
    BY <1>7, <2>1
  <2>3. f[k] = CHOOSE x \in S : Cardinality(below(x)) = k - 1
    BY <1>8
  <2> HIDE DEF f
  <2>4. f[k] \in S /\ Cardinality(below(f[k])) = k - 1
    BY <2>2, <2>3
  <2>5. QED
    BY <2>4
<1> HIDE DEF f, rank
<1>10. f \in Seq(S) /\ Len(f) = n
  <2> DEFINE at(k) == CHOOSE x \in S : Cardinality(below(x)) = k - 1
  <2>1. f = [k \in 1..n |-> at(k)]
    BY <1>8
  <2> HIDE DEF n, at
  <2>2. f \in [1..n -> S]
    BY <1>9, <2>1
  <2>3. QED
    BY <1>1, <2>2
<1>11. ASSUME NEW x \in S PROVE \E k \in 1..n : f[k] = x
  <2>1. rank[x] \in places
    BY <1>5 DEF Injection
  <2>2. rank[x] + 1 \in 1..n /\ rank[x] + 1 - 1 = rank[x]
    BY <1>1, <2>1
  <2>3. f[rank[x] + 1] = x
    <3> DEFINE k == rank[x] + 1
    <3>1. k \in 1..n /\ k - 1 = rank[x]
      BY <1>1, <2>1
    <3> HIDE DEF k
    <3>2. f[k] \in S /\ rank[f[k]] = k - 1
      BY <1>9, <3>1
    <3>3. f[k] = x
      BY <1>4, <3>1, <3>2
    <3>4. QED
      BY <3>3 DEF k
  <2>4. QED
    BY <2>2, <2>3
<1>12. QED
  BY <1>10, <1>11 DEF f
=============================================================================
