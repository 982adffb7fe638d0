------------------------ MODULE HostCollections_proofs ------------------------
(***************************************************************************)
(* Proofs about HostCollections, for any pointers, kinds and sequence of   *)
(* calls:                                                                  *)
(*   HostCollectionsImplement  the lists searched by values_equal are the  *)
(*                             tables, sets and lists of Collections;      *)
(*   HostQueriesAgree          every reading call answers what they hold.  *)
(* HInv is the invariant both start from: lists hold values of their kind, *)
(* and no two keys of a map, no two members of a set, are equal.           *)
(*                                                                         *)
(* retain, filter and push_unique fold over a list.  What a fold leaves    *)
(* after n values is shown from what it leaves after n - 1 (UpTo), and     *)
(* that the fold is a function at all by FoldExists.                       *)
(***************************************************************************)
EXTENDS HostCollections, Lists_proofs

AllKinds == Kinds \cup KeyKinds \cup ValueKinds \cup {"PTR"}

-----------------------------------------------------------------------------
(* Equality is that of the program: the same meaning, and not an odd one.  *)
LEMMA EqualMeans ==
  ASSUME NEW kind \in AllKinds, NEW u \in ValuesOf(kind), NEW v \in ValuesOf(kind)
  PROVE  values_equal(kind, u, v) <=> Promised!Equal(Meaning(kind, u), Meaning(kind, v))
<1>1. kind \in {"I64", "F64", "TEXT", "PTR"}
  BY ValueKindsAssumption DEF AllKinds
<1>2. CASE kind = "TEXT"
  <2>1. PICK p \in DOMAIN Bytes : u = <<"Ptr", p>>
    BY <1>2 DEF ValuesOf
  <2>2. PICK q \in DOMAIN Bytes : v = <<"Ptr", q>>
    BY <1>2 DEF ValuesOf
  <2>3. QED
    BY <1>2, <2>1, <2>2
       DEF values_equal, text_bytes, Meaning, Promised!Equal, OddValues, NaN
<1>3. CASE kind # "TEXT"
  <2>1. u # <<"Text", Unreadable>>
    BY <1>1, <1>3 DEF ValuesOf, NaN
  <2>2. QED
    BY <1>3, <2>1 DEF values_equal, Meaning, Promised!Equal, OddValues
<1>4. QED
  BY <1>2, <1>3

-----------------------------------------------------------------------------
(* Places that are not equal, as the calls compare. *)
Distinct(kind, values) ==
  \A i, j \in 1..Len(values) : i # j => ~values_equal(kind, values[i], values[j])

(* What push_unique collects: values of the list, none equal to another,   *)
(* and every meaning of the list.                                          *)
IsUnique(u, kind, values, n) ==
  /\ u \in Seq(ValuesOf(kind))
  /\ \A j \in 1..Len(u) : \E i \in 1..n : u[j] = values[i]
  /\ \A i \in 1..n : \E j \in 1..Len(u) : Meaning(kind, u[j]) = Meaning(kind, values[i])
  /\ Distinct(kind, u)

Collecting(U, kind, values) ==
  U = [n \in 0..Len(values) |-> IF n = 0 THEN <<>> ELSE push_unique(kind, U[n - 1], values[n])]

LEMMA EqualIsSymmetric ==
  ASSUME NEW kind \in AllKinds, NEW u \in ValuesOf(kind), NEW v \in ValuesOf(kind),
         values_equal(kind, u, v)
  PROVE  values_equal(kind, v, u)
BY EqualMeans DEF Promised!Equal

LEMMA PushUnique ==
  ASSUME NEW kind \in AllKinds, NEW values \in Seq(ValuesOf(kind)), NEW n \in 0..(Len(values) - 1),
         NEW u, IsUnique(u, kind, values, n)
  PROVE  IsUnique(push_unique(kind, u, values[n + 1]), kind, values, n + 1)
<1> DEFINE v == values[n + 1]
           S == ValuesOf(kind)
           k == Len(u)
           w == Append(u, v)
<1>1. /\ u \in Seq(S) /\ k \in Nat /\ v \in S /\ n + 1 \in 1..(n + 1)
      /\ \A i \in 1..(n + 1) : i \in 1..n \/ i = n + 1
      /\ \A i \in 1..n : i \in 1..(n + 1)
      /\ DOMAIN u = 1..k /\ \A j \in 1..k : u[j] \in S
  BY DEF IsUnique
<1>2. /\ \A j \in 1..k : \E i \in 1..n : u[j] = values[i]
      /\ \A i \in 1..n : \E j \in 1..k : Meaning(kind, u[j]) = Meaning(kind, values[i])
      /\ Distinct(kind, u)
  BY DEF IsUnique
<1>3. CASE contains(kind, u, v)
  <2>1. push_unique(kind, u, v) = u
    BY <1>3 DEF push_unique
  <2>2. PICK j \in 1..k : values_equal(kind, u[j], v)
    BY <1>1, <1>3 DEF contains
  <2>3. Meaning(kind, u[j]) = Meaning(kind, v)
    BY <1>1, <2>2, EqualMeans DEF Promised!Equal
  <2>4. \A l \in 1..k : \E i \in 1..(n + 1) : u[l] = values[i]
    BY <1>1, <1>2
  <2>5. \A i \in 1..(n + 1) : \E l \in 1..k : Meaning(kind, u[l]) = Meaning(kind, values[i])
    BY <1>1, <1>2, <2>3
  <2>6. QED
    BY <1>1, <1>2, <2>1, <2>4, <2>5 DEF IsUnique
<1>4. CASE ~contains(kind, u, v)
  <2>1. push_unique(kind, u, v) = w
    BY <1>4 DEF push_unique
  <2>2. /\ w \in Seq(S) /\ Len(w) = k + 1 /\ w[k + 1] = v /\ k + 1 \in 1..(k + 1)
        /\ \A j \in 1..k : w[j] = u[j] /\ j \in 1..(k + 1)
        /\ \A j \in 1..(k + 1) : j \in 1..k \/ j = k + 1
    BY <1>1
  <2> HIDE DEF w, v, k, S
  <2>3. \A l \in 1..(k + 1) : \E i \in 1..(n + 1) : w[l] = values[i]
    BY <1>1, <1>2, <2>2 DEF v
  <2>4. \A i \in 1..(n + 1) : \E l \in 1..(k + 1) : Meaning(kind, w[l]) = Meaning(kind, values[i])
    BY <1>1, <1>2, <2>2 DEF v
  <2>5. \A i \in 1..k : ~values_equal(kind, u[i], v) /\ ~values_equal(kind, v, u[i])
    BY <1>1, <1>4, EqualIsSymmetric DEF contains, S
  <2>6. Distinct(kind, w)
    BY <1>2, <2>2, <2>5 DEF Distinct, k
  <2>7. QED
    BY <2>1, <2>2, <2>3, <2>4, <2>6 DEF IsUnique, S, v
<1>5. QED
  BY <1>3, <1>4

LEMMA CollectingExists ==
  ASSUME NEW kind, NEW values \in Seq(ValuesOf(kind))
  PROVE  \E U : Collecting(U, kind, values)
<1> DEFINE N == Len(values)
           X == Seq(ValuesOf(kind))
           b == <<>>
           step == [n \in 1..N |-> [x \in X |-> push_unique(kind, x, values[n])]]
<1>1. N \in Nat /\ b \in X
  OBVIOUS
<1>2. step \in [1..N -> [X -> X]]
  <2>1. ASSUME NEW n \in 1..N, NEW x \in X PROVE push_unique(kind, x, values[n]) \in X
    <3>1. values[n] \in ValuesOf(kind)
      OBVIOUS
    <3>2. QED
      BY <3>1 DEF push_unique
  <2>2. QED
    BY <2>1
<1>3. \A x \in X, n \in 1..N : step[n][x] = push_unique(kind, x, values[n])
  OBVIOUS
<1> HIDE DEF step, X
<1>4. PICK U \in [0..N -> X] : Follows(U, step, b, N)
  <2> HIDE DEF N, b
  <2>1. QED
    BY <1>1, <1>2, FoldExists
<1>5. ASSUME NEW n \in 0..N
      PROVE  U[n] = IF n = 0 THEN <<>> ELSE push_unique(kind, U[n - 1], values[n])
  <2>1. CASE n = 0
    BY <1>4, <2>1 DEF Follows
  <2>2. CASE n # 0
    <3>1. n \in 1..N /\ n - 1 \in 0..N /\ U[n - 1] \in X
      BY <1>1, <2>2
    <3>2. U[n] = step[n][U[n - 1]]
      BY <1>4, <2>2, <3>1 DEF Follows
    <3>3. QED
      BY <1>3, <2>2, <3>1, <3>2
  <2>3. QED
    BY <2>1, <2>2
<1>6. Collecting(U, kind, values)
  <2>1. U = [n \in 0..N |-> U[n]]
    OBVIOUS
  <2>2. QED
    BY <1>5, <2>1 DEF Collecting
<1>7. QED
  BY <1>6

LEMMA UniqueIs ==
  ASSUME NEW kind \in AllKinds, NEW values \in Seq(ValuesOf(kind))
  PROVE  IsUnique(Unique(kind, values), kind, values, Len(values))
<1> DEFINE N == Len(values)
           g == CHOOSE U : Collecting(U, kind, values)
           T == {n \in 0..N : IsUnique(g[n], kind, values, n)}
<1>1. Unique(kind, values) = g[N]
  BY DEF Unique, Collecting
<1>2. Collecting(g, kind, values)
  BY CollectingExists
<1>3. N \in Nat
  OBVIOUS
<1> HIDE DEF g
<1>4. 0 \in T
  <2>1. g[0] = <<>> /\ 0 \in 0..N
    BY <1>2, <1>3 DEF Collecting
  <2>2. <<>> \in Seq(ValuesOf(kind)) /\ Len(<<>>) = 0
    OBVIOUS
  <2>3. IsUnique(<<>>, kind, values, 0)
    BY <2>2 DEF IsUnique, Distinct
  <2>4. IsUnique(g[0], kind, values, 0)
    BY <2>1, <2>3
  <2>5. QED
    BY <2>1, <2>4
<1>5. ASSUME NEW n \in 0..(N - 1), n \in T PROVE n + 1 \in T
  <2>1. n + 1 \in 0..N /\ n + 1 # 0 /\ (n + 1) - 1 = n /\ IsUnique(g[n], kind, values, n)
    BY <1>3, <1>5
  <2>2. g[n + 1] = push_unique(kind, g[n], values[n + 1])
    BY <1>2, <2>1 DEF Collecting
  <2>3. IsUnique(g[n + 1], kind, values, n + 1)
    BY <2>1, <2>2, PushUnique
  <2>4. QED
    BY <2>1, <2>3
<1>6. N \in T
  <2> HIDE DEF T
  <2>1. \A n \in 0..N : n \in T
    BY <1>3, <1>4, <1>5, UpTo
  <2>2. QED
    BY <1>3, <2>1
<1>7. QED
  BY <1>1, <1>6

-----------------------------------------------------------------------------
(* Sets: the meanings of a list, and what each call makes of them.         *)
Members(kind, values) == Range(MeaningsOf(kind, values))

MembersAt(kind, values, places) == {Meaning(kind, values[i]) : i \in places}

LEMMA MembersAre ==
  ASSUME NEW kind, NEW values \in Seq(ValuesOf(kind))
  PROVE  Members(kind, values) = MembersAt(kind, values, 1..Len(values))
BY DEF Members, MeaningsOf, Range, MembersAt

LEMMA KeptDistinct ==
  ASSUME NEW kind, NEW values \in Seq(ValuesOf(kind)), NEW places, places \subseteq 1..Len(values),
         Distinct(kind, values)
  PROVE  Distinct(kind, Kept(values, places))
<1> DEFINE kept == Kept(values, places)
<1>0. KeptFrom(kept, values, places)
  BY KeptFacts
<1>1. PICK at \in [1..Len(kept) -> places] :
        /\ \A j \in 1..Len(kept) : kept[j] = values[at[j]]
        /\ \A i, j \in 1..Len(kept) : at[i] = at[j] => i = j
  BY <1>0 DEF KeptFrom
<1>2. \A j \in 1..Len(kept) : at[j] \in 1..Len(values)
  BY <1>1
<1> HIDE DEF kept
<1>3. Distinct(kind, kept)
  BY <1>1, <1>2 DEF Distinct
<1>4. QED
  BY <1>3 DEF kept

LEMMA KeptMembers ==
  ASSUME NEW kind, NEW values \in Seq(ValuesOf(kind)), NEW places, places \subseteq 1..Len(values)
  PROVE  Members(kind, Kept(values, places)) = MembersAt(kind, values, places)
<1> DEFINE kept == Kept(values, places)
<1>0. KeptFrom(kept, values, places)
  BY KeptFacts
<1>1. PICK at \in [1..Len(kept) -> places] :
        /\ \A j \in 1..Len(kept) : kept[j] = values[at[j]]
        /\ \A i \in places : \E j \in 1..Len(kept) : at[j] = i
  BY <1>0 DEF KeptFrom
<1>2. kept \in Seq(ValuesOf(kind))
  BY KeptFacts
<1> HIDE DEF kept
<1>3. Members(kind, kept) = {Meaning(kind, kept[j]) : j \in 1..Len(kept)}
  BY <1>2, MembersAre DEF MembersAt
<1>4. \A j \in 1..Len(kept) : at[j] \in places /\ Meaning(kind, kept[j]) = Meaning(kind, values[at[j]])
  BY <1>1
<1>5. \A i \in places : \E j \in 1..Len(kept) : Meaning(kind, kept[j]) = Meaning(kind, values[i])
  BY <1>1
<1>6. Members(kind, kept) = MembersAt(kind, values, places)
  BY <1>3, <1>4, <1>5 DEF MembersAt
<1>7. QED
  BY <1>6 DEF kept

LEMMA UniqueMembers ==
  ASSUME NEW kind, NEW values \in Seq(ValuesOf(kind)), NEW u, IsUnique(u, kind, values, Len(values))
  PROVE  Members(kind, u) = Members(kind, values)
<1>1. u \in Seq(ValuesOf(kind))
  BY DEF IsUnique
<1>2. /\ Members(kind, u) = {Meaning(kind, u[j]) : j \in 1..Len(u)}
      /\ Members(kind, values) = {Meaning(kind, values[i]) : i \in 1..Len(values)}
  BY <1>1, MembersAre DEF MembersAt
<1>3. /\ \A j \in 1..Len(u) : \E i \in 1..Len(values) : Meaning(kind, u[j]) = Meaning(kind, values[i])
      /\ \A i \in 1..Len(values) : \E j \in 1..Len(u) : Meaning(kind, u[j]) = Meaning(kind, values[i])
  BY DEF IsUnique
<1>4. QED
  BY <1>2, <1>3

LEMMA ConcatMembers ==
  ASSUME NEW kind, NEW l \in Seq(ValuesOf(kind)), NEW r \in Seq(ValuesOf(kind))
  PROVE  Members(kind, l \o r) = Members(kind, l) \cup Members(kind, r)
<1> DEFINE w == l \o r
           m == Len(l)
           n == Len(r)
<1>1. /\ w \in Seq(ValuesOf(kind)) /\ Len(w) = m + n /\ m \in Nat /\ n \in Nat
      /\ \A i \in 1..m : w[i] = l[i]
      /\ \A i \in 1..n : w[m + i] = r[i] /\ m + i \in 1..(m + n)
      /\ \A i \in 1..(m + n) : i \in 1..m \/ (i - m \in 1..n /\ i = m + (i - m))
      /\ \A i \in 1..m : i \in 1..(m + n)
  OBVIOUS
<1>2. /\ Members(kind, l) = {Meaning(kind, l[i]) : i \in 1..m}
      /\ Members(kind, r) = {Meaning(kind, r[i]) : i \in 1..n}
  BY MembersAre DEF MembersAt
<1> HIDE DEF w, m, n
<1>3. Members(kind, w) = {Meaning(kind, w[i]) : i \in 1..(m + n)}
  <2>1. Members(kind, w) = MembersAt(kind, w, 1..Len(w))
    BY <1>1, MembersAre
  <2>2. QED
    BY <1>1, <2>1 DEF MembersAt
<1>4. \A x : x \in Members(kind, w) => x \in Members(kind, l) \cup Members(kind, r)
  <2>1. TAKE x
  <2>2. HAVE x \in Members(kind, w)
  <2>3. PICK i \in 1..(m + n) : x = Meaning(kind, w[i])
    BY <1>3, <2>2
  <2>4. CASE i \in 1..m
    BY <1>1, <1>2, <2>3, <2>4
  <2>5. CASE i - m \in 1..n /\ i = m + (i - m)
    <3>1. w[i] = r[i - m]
      BY <1>1, <2>5
    <3>2. QED
      BY <1>2, <2>3, <2>5, <3>1
  <2>6. QED
    BY <1>1, <2>4, <2>5
<1>5. \A x \in Members(kind, l) : x \in Members(kind, w)
  BY <1>1, <1>2, <1>3
<1>6. \A x \in Members(kind, r) : x \in Members(kind, w)
  BY <1>1, <1>2, <1>3
<1>7. QED
  BY <1>4, <1>5, <1>6 DEF w

LEMMA AppendMembers ==
  ASSUME NEW kind, NEW values \in Seq(ValuesOf(kind)), NEW v \in ValuesOf(kind)
  PROVE  Members(kind, Append(values, v)) = Members(kind, values) \cup {Meaning(kind, v)}
<1> DEFINE one == <<v>>
<1>1. /\ one \in Seq(ValuesOf(kind)) /\ Append(values, v) = values \o one
      /\ Len(one) = 1 /\ one[1] = v /\ 1..1 = {1}
  OBVIOUS
<1> HIDE DEF one
<1>2. Members(kind, one) = MembersAt(kind, one, 1..Len(one))
  BY <1>1, MembersAre
<1>3. Members(kind, one) = {Meaning(kind, v)}
  BY <1>1, <1>2 DEF MembersAt
<1>4. Members(kind, values \o one) = Members(kind, values) \cup Members(kind, one)
  BY <1>1, ConcatMembers
<1>5. QED
  BY <1>1, <1>3, <1>4

LEMMA AddIs ==
  ASSUME NEW kind \in AllKinds, NEW values \in Seq(ValuesOf(kind)), NEW v \in ValuesOf(kind),
         Distinct(kind, values)
  PROVE  /\ push_unique(kind, values, v) \in Seq(ValuesOf(kind))
         /\ Distinct(kind, push_unique(kind, values, v))
         /\ Members(kind, push_unique(kind, values, v)) = Members(kind, values) \cup {Meaning(kind, v)}
<1> DEFINE w == Append(values, v)
           n == Len(values)
<1>1. /\ w \in Seq(ValuesOf(kind)) /\ Len(w) = n + 1 /\ w[n + 1] = v /\ n \in Nat
      /\ n \in 0..(Len(w) - 1) /\ \A i \in 1..n : w[i] = values[i]
  OBVIOUS
<1>2. IsUnique(values, kind, w, n)
  BY <1>1 DEF IsUnique
<1> HIDE DEF w
<1>3. IsUnique(push_unique(kind, values, v), kind, w, n + 1)
  BY <1>1, <1>2, PushUnique
<1>4. Members(kind, push_unique(kind, values, v)) = Members(kind, w)
  BY <1>1, <1>3, UniqueMembers
<1>5. QED
  BY <1>3, <1>4, AppendMembers DEF w, IsUnique

LEMMA ContainsMeans ==
  ASSUME NEW kind \in AllKinds, NEW values \in Seq(ValuesOf(kind)), NEW v \in ValuesOf(kind)
  PROVE  contains(kind, values, v)
           <=> \E x \in Members(kind, values) : Promised!Equal(x, Meaning(kind, v))
<1>1. \A i \in 1..Len(values) : values[i] \in ValuesOf(kind)
  OBVIOUS
<1>2. \A i \in 1..Len(values) :
        values_equal(kind, values[i], v) <=> Promised!Equal(Meaning(kind, values[i]), Meaning(kind, v))
  BY <1>1, EqualMeans
<1>3. Members(kind, values) = {Meaning(kind, values[i]) : i \in 1..Len(values)}
  BY MembersAre DEF MembersAt
<1>4. DOMAIN values = 1..Len(values)
  OBVIOUS
<1>5. QED
  BY <1>2, <1>3, <1>4 DEF contains

LEMMA RemoveIs ==
  ASSUME NEW kind \in AllKinds, NEW values \in Seq(ValuesOf(kind)), NEW v \in ValuesOf(kind),
         Distinct(kind, values), NEW kept,
         kept = Kept(values, {i \in DOMAIN values : ~values_equal(kind, values[i], v)})
  PROVE  /\ kept \in Seq(ValuesOf(kind)) /\ Distinct(kind, kept)
         /\ Members(kind, kept) = Promised!RemoveFrom(Members(kind, values), Meaning(kind, v))
<1> DEFINE places == {i \in DOMAIN values : ~values_equal(kind, values[i], v)}
<1>1. DOMAIN values = 1..Len(values) /\ places \subseteq 1..Len(values)
  OBVIOUS
<1>2. \A i \in 1..Len(values) : values[i] \in ValuesOf(kind)
  OBVIOUS
<1>3. \A i \in 1..Len(values) :
        i \in places <=> ~Promised!Equal(Meaning(kind, values[i]), Meaning(kind, v))
  BY <1>1, <1>2, EqualMeans
<1> HIDE DEF places
<1>4. Members(kind, kept) = {Meaning(kind, values[i]) : i \in places}
  BY <1>1, KeptMembers DEF places, MembersAt
<1>5. Members(kind, values) = {Meaning(kind, values[i]) : i \in 1..Len(values)}
  BY MembersAre DEF MembersAt
<1>6. kept \in Seq(ValuesOf(kind)) /\ Distinct(kind, kept)
  BY <1>1, KeptFacts, KeptDistinct DEF places
<1>7. QED
  BY <1>1, <1>3, <1>4, <1>5, <1>6 DEF Promised!RemoveFrom

LEMMA FilterIs ==
  ASSUME NEW kind \in AllKinds, NEW l \in Seq(ValuesOf(kind)), NEW r \in Seq(ValuesOf(kind)),
         Distinct(kind, l)
  PROVE  /\ set_intersection(kind, l, r) \in Seq(ValuesOf(kind))
         /\ Distinct(kind, set_intersection(kind, l, r))
         /\ Members(kind, set_intersection(kind, l, r))
              = Promised!Common(Members(kind, l), Members(kind, r))
         /\ Without(kind, l, r) \in Seq(ValuesOf(kind))
         /\ Distinct(kind, Without(kind, l, r))
         /\ Members(kind, Without(kind, l, r))
              = Members(kind, l) \ Promised!Common(Members(kind, l), Members(kind, r))
         /\ \A j \in 1..Len(Without(kind, l, r)) : ~contains(kind, r, Without(kind, l, r)[j])
<1> DEFINE both == {i \in DOMAIN l : contains(kind, r, l[i])}
           only == {i \in DOMAIN l : ~contains(kind, r, l[i])}
           M == Members(kind, l)
           C == Promised!Common(M, Members(kind, r))
<1>1. DOMAIN l = 1..Len(l) /\ both \subseteq 1..Len(l) /\ only \subseteq 1..Len(l)
  OBVIOUS
<1>2. \A i \in 1..Len(l) : l[i] \in ValuesOf(kind)
  OBVIOUS
<1>3. M = {Meaning(kind, l[i]) : i \in 1..Len(l)}
  BY MembersAre DEF MembersAt
<1>4. ASSUME NEW i \in 1..Len(l)
      PROVE  contains(kind, r, l[i]) <=> Meaning(kind, l[i]) \in C
  <2>1. Meaning(kind, l[i]) \in M
    BY <1>3
  <2>2. contains(kind, r, l[i])
          <=> \E x \in Members(kind, r) : Promised!Equal(x, Meaning(kind, l[i]))
    BY <1>2, ContainsMeans
  <2>3. QED
    BY <2>1, <2>2 DEF Promised!Common, Promised!Equal
<1>5. \A i \in 1..Len(l) : (i \in both <=> Meaning(kind, l[i]) \in C)
                            /\ (i \in only <=> Meaning(kind, l[i]) \notin C)
  BY <1>1, <1>4
<1>6. /\ set_intersection(kind, l, r) = Kept(l, both)
      /\ Without(kind, l, r) = Kept(l, only)
  BY DEF set_intersection, Without
<1>7. C \subseteq M
  BY DEF Promised!Common
<1>8. \A i \in only : ~contains(kind, r, l[i])
  OBVIOUS
<1> HIDE DEF both, only, M, C
<1>9. Members(kind, Kept(l, both)) = {Meaning(kind, l[i]) : i \in both}
  <2>1. Members(kind, Kept(l, both)) = MembersAt(kind, l, both)
    BY <1>1, KeptMembers
  <2>2. QED
    BY <2>1 DEF MembersAt
<1>10. Members(kind, Kept(l, only)) = {Meaning(kind, l[i]) : i \in only}
  <2>1. Members(kind, Kept(l, only)) = MembersAt(kind, l, only)
    BY <1>1, KeptMembers
  <2>2. QED
    BY <2>1 DEF MembersAt
<1>11. Members(kind, Kept(l, both)) = C
  BY <1>1, <1>3, <1>5, <1>7, <1>9
<1>12. Members(kind, Kept(l, only)) = M \ C
  BY <1>1, <1>3, <1>5, <1>10
<1>17. KeptFrom(Kept(l, only), l, only)
  BY <1>1, KeptFacts
<1>13. PICK at \in [1..Len(Kept(l, only)) -> only] :
         \A j \in 1..Len(Kept(l, only)) : Kept(l, only)[j] = l[at[j]]
  BY <1>17 DEF KeptFrom
<1>14. \A j \in 1..Len(Kept(l, only)) : ~contains(kind, r, Kept(l, only)[j])
  BY <1>8, <1>13
<1>15. /\ Kept(l, both) \in Seq(ValuesOf(kind)) /\ Distinct(kind, Kept(l, both))
       /\ Kept(l, only) \in Seq(ValuesOf(kind)) /\ Distinct(kind, Kept(l, only))
  BY <1>1, KeptFacts, KeptDistinct
<1>16. QED
  BY <1>6, <1>11, <1>12, <1>14, <1>15 DEF M, C

-----------------------------------------------------------------------------
(* Maps: the entries, and what each call makes of the table they stand for. *)
GoodEntries(m) ==
  /\ m.key_kind \in AllKinds /\ m.value_kind \in AllKinds
  /\ m.entries \in Seq(ValuesOf(m.key_kind) \X ValuesOf(m.value_kind))
  /\ \A i, j \in 1..Len(m.entries) :
       i # j => ~values_equal(m.key_kind, m.entries[i][1], m.entries[j][1])

KeyOf(m, k) == Meaning(m.key_kind, k)
Pair(m, i) == <<KeyOf(m, m.entries[i][1]), m.entries[i][2]>>

LEMMA TableIs ==
  ASSUME NEW m, m.entries \in Seq(ValuesOf(m.key_kind) \X ValuesOf(m.value_kind))
  PROVE  TableOf(m) = {Pair(m, i) : i \in 1..Len(m.entries)}
<1>1. DOMAIN m.entries = 1..Len(m.entries)
  OBVIOUS
<1>2. QED
  BY <1>1 DEF TableOf, Pair, KeyOf

LEMMA EntryIs ==
  ASSUME NEW m, GoodEntries(m), NEW i \in 1..Len(m.entries)
  PROVE  /\ m.entries[i] \in ValuesOf(m.key_kind) \X ValuesOf(m.value_kind)
         /\ m.entries[i][1] \in ValuesOf(m.key_kind) /\ m.entries[i][2] \in ValuesOf(m.value_kind)
         /\ m.entries[i] = <<m.entries[i][1], m.entries[i][2]>>
<1>1. m.entries[i] \in ValuesOf(m.key_kind) \X ValuesOf(m.value_kind)
  BY DEF GoodEntries
<1>2. QED
  BY <1>1

LEMMA FoundIs ==
  ASSUME NEW m, GoodEntries(m), NEW k \in ValuesOf(m.key_kind)
  PROVE  /\ Found(m, k) \in 0..Len(m.entries)
         /\ Found(m, k) = 0 =>
              \A i \in 1..Len(m.entries) : ~values_equal(m.key_kind, m.entries[i][1], k)
         /\ Found(m, k) # 0 => values_equal(m.key_kind, m.entries[Found(m, k)][1], k)
<1> DEFINE hits == {i \in DOMAIN m.entries : values_equal(m.key_kind, m.entries[i][1], k)}
           N == Len(m.entries)
<1>1. N \in Nat /\ DOMAIN m.entries = 1..N
  BY DEF GoodEntries
<1>2. hits \subseteq Nat /\ hits \subseteq 1..N
  BY <1>1
<1>3. Found(m, k) = IF hits = {} THEN 0 ELSE Min(hits)
  BY DEF Found
<1>4. CASE hits = {}
  BY <1>1, <1>3, <1>4
<1>5. CASE hits # {}
  <2> HIDE DEF hits
  <2>1. \E n \in hits : \A j \in hits : n <= j
    BY <1>2, <1>5, Least
  <2>2. Min(hits) \in hits
    BY <2>1 DEF Min
  <2>3. Found(m, k) \in hits
    BY <1>3, <1>5, <2>2
  <2>4. QED
    BY <1>2, <2>3 DEF hits
<1>6. QED
  BY <1>4, <1>5

(* Two keys equal to the key are the same entry. *)
LEMMA OneEntry ==
  ASSUME NEW m, GoodEntries(m), NEW k \in ValuesOf(m.key_kind),
         NEW i \in 1..Len(m.entries), NEW j \in 1..Len(m.entries),
         values_equal(m.key_kind, m.entries[i][1], k), values_equal(m.key_kind, m.entries[j][1], k)
  PROVE  i = j
<1>1. m.key_kind \in AllKinds
  BY DEF GoodEntries
<1>2. m.entries[i][1] \in ValuesOf(m.key_kind) /\ m.entries[j][1] \in ValuesOf(m.key_kind)
  BY EntryIs
<1>3. values_equal(m.key_kind, m.entries[i][1], m.entries[j][1])
  BY <1>1, <1>2, EqualMeans DEF Promised!Equal
<1>4. QED
  BY <1>3 DEF GoodEntries

PutEntries(m, k, v) ==
  LET i == Found(m, k)
  IN  IF i # 0 THEN [m.entries EXCEPT ![i] = <<m.entries[i][1], v>>] ELSE Append(m.entries, <<k, v>>)

LEMMA PutIs ==
  ASSUME NEW m, GoodEntries(m), NEW k \in ValuesOf(m.key_kind), NEW v \in ValuesOf(m.value_kind),
         NEW m2, m2.key_kind = m.key_kind, m2.value_kind = m.value_kind,
         m2.entries = PutEntries(m, k, v)
  PROVE  GoodEntries(m2) /\ TableOf(m2) = Promised!PutIn(TableOf(m), KeyOf(m, k), v)
<1> DEFINE N == Len(m.entries)
           e == m.entries
           f == m2.entries
           K == ValuesOf(m.key_kind)
           V == ValuesOf(m.value_kind)
           E == K \X V
           eq(a, b) == values_equal(m.key_kind, a, b)
           KM == KeyOf(m, k)
<1>1. /\ N \in Nat /\ e \in Seq(E) /\ m.key_kind \in AllKinds /\ m.value_kind \in AllKinds
      /\ \A i, j \in 1..N : i # j => ~eq(e[i][1], e[j][1])
  BY DEF GoodEntries
<1>2. \A i \in 1..N : e[i][1] \in K /\ e[i][2] \in V /\ e[i] = <<e[i][1], e[i][2]>>
  BY EntryIs
<1>3. \A i \in 1..N : eq(e[i][1], k) <=> Promised!Equal(KeyOf(m, e[i][1]), KM)
  BY <1>1, <1>2, EqualMeans DEF KeyOf
<1>4. TableOf(m) = {Pair(m, i) : i \in 1..N}
  BY <1>1, TableIs
<1>5. \A i \in 1..N : Pair(m, i)[1] = KeyOf(m, e[i][1])
  BY DEF Pair
<1>6. Promised!PutIn(TableOf(m), KM, v)
        = {Pair(m, i) : i \in {j \in 1..N : ~eq(e[j][1], k)}} \cup {<<KM, v>>}
  BY <1>3, <1>4, <1>5 DEF Promised!PutIn
<1>7. CASE Found(m, k) = 0
  <2>1. f = Append(e, <<k, v>>)
    BY <1>7 DEF PutEntries
  <2>2. \A i \in 1..N : ~eq(e[i][1], k) /\ ~eq(k, e[i][1])
    <3>1. \A i \in 1..N : ~eq(e[i][1], k)
      BY <1>7, FoundIs
    <3>2. QED
      BY <1>1, <1>2, <3>1, EqualIsSymmetric
  <2>3. <<k, v>> \in E
    OBVIOUS
  <2>4. /\ f \in Seq(E) /\ Len(f) = N + 1 /\ f[N + 1] = <<k, v>> /\ N + 1 \in 1..(N + 1)
        /\ \A i \in 1..N : f[i] = e[i] /\ i \in 1..(N + 1)
        /\ \A i \in 1..(N + 1) : i \in 1..N \/ i = N + 1
    <3> HIDE DEF E, f
    <3>1. QED
      BY <1>1, <2>1, <2>3
  <2>5. \A i, j \in 1..(N + 1) : i # j => ~eq(f[i][1], f[j][1])
    <3>1. f[N + 1][1] = k
      BY <2>4
    <3>2. QED
      BY <1>1, <2>2, <2>4, <3>1
  <2>6. GoodEntries(m2)
    BY <1>1, <2>4, <2>5 DEF GoodEntries
  <2>7. TableOf(m2) = {Pair(m2, i) : i \in 1..(N + 1)}
    BY <2>4, TableIs
  <2>8. Pair(m2, N + 1) = <<KM, v>> /\ \A i \in 1..N : Pair(m2, i) = Pair(m, i)
    BY <2>4 DEF Pair, KeyOf
  <2>9. {j \in 1..N : ~eq(e[j][1], k)} = 1..N
    BY <2>2
  <2>10. TableOf(m2) = {Pair(m, i) : i \in 1..N} \cup {<<KM, v>>}
    BY <2>4, <2>7, <2>8
  <2>11. QED
    BY <1>6, <2>6, <2>9, <2>10
<1>8. CASE Found(m, k) # 0
  <2> DEFINE n == Found(m, k)
  <2>1. f = [e EXCEPT ![n] = <<e[n][1], v>>]
    BY <1>8 DEF PutEntries
  <2>2. n \in 1..N /\ eq(e[n][1], k)
    BY <1>1, <1>8, FoundIs
  <2>3. <<e[n][1], v>> \in E
    BY <1>2, <2>2
  <2>4. /\ f \in Seq(E) /\ Len(f) = N /\ f[n] = <<e[n][1], v>>
        /\ \A i \in 1..N : i # n => f[i] = e[i]
    <3> HIDE DEF E, f, n
    <3>1. QED
      BY <1>1, <2>1, <2>2, <2>3
  <2> HIDE DEF n
  <2>5. \A i \in 1..N : f[i][1] = e[i][1]
    BY <2>2, <2>4
  <2>6. GoodEntries(m2)
    BY <1>1, <2>4, <2>5 DEF GoodEntries
  <2>7. TableOf(m2) = {Pair(m2, i) : i \in 1..N}
    BY <2>4, TableIs
  <2>8. \A i \in 1..N : i # n => ~eq(e[i][1], k)
    BY <2>2, OneEntry
  <2>9. KeyOf(m, e[n][1]) = KM
    BY <1>3, <2>2 DEF Promised!Equal
  <2>10. Pair(m2, n) = <<KM, v>> /\ \A i \in 1..N : i # n => Pair(m2, i) = Pair(m, i)
    BY <2>2, <2>4, <2>9 DEF Pair, KeyOf
  <2>11. {j \in 1..N : ~eq(e[j][1], k)} = (1..N) \ {n}
    BY <2>2, <2>8
  <2>12. TableOf(m2) = {Pair(m, i) : i \in (1..N) \ {n}} \cup {<<KM, v>>}
    BY <2>2, <2>7, <2>10
  <2>13. QED
    BY <1>6, <2>6, <2>11, <2>12
<1>9. QED
  BY <1>7, <1>8

LEMMA DeleteIs ==
  ASSUME NEW m, GoodEntries(m), NEW k \in ValuesOf(m.key_kind),
         NEW m2, m2.key_kind = m.key_kind, m2.value_kind = m.value_kind,
         m2.entries = Kept(m.entries,
           {i \in DOMAIN m.entries : ~values_equal(m.key_kind, m.entries[i][1], k)})
  PROVE  GoodEntries(m2) /\ TableOf(m2) = Promised!DeleteFrom(TableOf(m), KeyOf(m, k))
<1> DEFINE N == Len(m.entries)
           e == m.entries
           f == m2.entries
           E == ValuesOf(m.key_kind) \X ValuesOf(m.value_kind)
           eq(a, b) == values_equal(m.key_kind, a, b)
           places == {i \in DOMAIN e : ~eq(e[i][1], k)}
<1>1. /\ N \in Nat /\ e \in Seq(E) /\ DOMAIN e = 1..N
      /\ m.key_kind \in AllKinds /\ m.value_kind \in AllKinds
      /\ \A i, j \in 1..N : i # j => ~eq(e[i][1], e[j][1])
  BY DEF GoodEntries
<1>2. \A i \in 1..N : e[i][1] \in ValuesOf(m.key_kind)
  BY EntryIs
<1>3. \A i \in 1..N : eq(e[i][1], k) <=> Promised!Equal(KeyOf(m, e[i][1]), KeyOf(m, k))
  BY <1>1, <1>2, EqualMeans DEF KeyOf
<1>4. places \subseteq 1..N /\ \A i \in 1..N : i \in places <=> ~eq(e[i][1], k)
  BY <1>1
<1>5. f \in Seq(E) /\ KeptFrom(f, e, places)
  <2>1. Kept(e, places) \in Seq(E) /\ KeptFrom(Kept(e, places), e, places)
    <3> HIDE DEF places, E
    <3>1. QED
      BY <1>1, <1>4, KeptFacts
  <2>2. QED
    BY <2>1
<1> HIDE DEF places, f
<1>6. PICK at \in [1..Len(f) -> places] :
        /\ \A j \in 1..Len(f) : f[j] = e[at[j]]
        /\ \A i, j \in 1..Len(f) : at[i] = at[j] => i = j
        /\ \A i \in places : \E j \in 1..Len(f) : at[j] = i
  BY <1>5 DEF KeptFrom
<1>7. \A j \in 1..Len(f) : at[j] \in places /\ at[j] \in 1..N /\ f[j] = e[at[j]]
  BY <1>4, <1>6
<1>8. \A i, j \in 1..Len(f) : i # j => ~eq(f[i][1], f[j][1])
  BY <1>1, <1>6, <1>7
<1>9. GoodEntries(m2)
  BY <1>1, <1>5, <1>8 DEF GoodEntries, f
<1>10. TableOf(m) = {Pair(m, i) : i \in 1..N}
  BY <1>1, TableIs
<1>11. \A i \in 1..N : Pair(m, i)[1] = KeyOf(m, e[i][1])
  BY DEF Pair
<1>12. Promised!DeleteFrom(TableOf(m), KeyOf(m, k)) = {Pair(m, i) : i \in places}
  BY <1>3, <1>4, <1>10, <1>11 DEF Promised!DeleteFrom
<1>13. TableOf(m2) = {Pair(m2, j) : j \in 1..Len(f)}
  BY <1>5, TableIs DEF f
<1>14. \A j \in 1..Len(f) : Pair(m2, j) = Pair(m, at[j])
  BY <1>7 DEF Pair, KeyOf, f
<1>15. {Pair(m2, j) : j \in 1..Len(f)} = {Pair(m, i) : i \in places}
  BY <1>6, <1>7, <1>14
<1>16. QED
  BY <1>9, <1>12, <1>13, <1>15

-----------------------------------------------------------------------------
(* What every call keeps: lists of values of their kind; a map in which no *)
(* two keys are equal, a set in which no two members are.                  *)
AnyValue == UNION {ValuesOf(k) : k \in AllKinds}
ListRec == [kind : AllKinds, values : Seq(AnyValue)]
MapRec == [key_kind : AllKinds, value_kind : AllKinds, entries : Seq(AnyValue \X AnyValue)]

GoodList(a) == a \in ListRec /\ a.values \in Seq(ValuesOf(a.kind))
GoodSet(s) == GoodList(s) /\ Distinct(s.kind, s.values)
GoodMap(m) == m \in MapRec /\ m.value_kind \in ValueKinds /\ GoodEntries(m)

HInv ==
  /\ arrays \in Seq(ListRec) /\ \A h \in 1..Len(arrays) : GoodList(arrays[h])
  /\ maps \in Seq(MapRec) /\ \A h \in 1..Len(maps) : GoodMap(maps[h])
  /\ sets \in Seq(ListRec) /\ \A h \in 1..Len(sets) : GoodSet(sets[h])

ListsOf(as) == [h \in DOMAIN as |-> MeaningsOf(as[h].kind, as[h].values)]
TablesOf(ms) == [h \in DOMAIN ms |-> TableOf(ms[h])]
SetsOf(ss) == [h \in DOMAIN ss |-> SetOf(ss[h])]
AllKeys == UNION {{Meaning(k, v) : v \in ValuesOf(k)} : k \in Kinds \cup KeyKinds \cup ValueKinds \cup {"PTR"}}
AllVals == UNION {ValuesOf(k) : k \in ValueKinds}

LEMMA Widen ==
  ASSUME NEW S, NEW T, S \subseteq T, NEW q \in Seq(S)
  PROVE  q \in Seq(T)
<1>1. q \in [1..Len(q) -> S] /\ Len(q) \in Nat
  OBVIOUS
<1>2. q \in [1..Len(q) -> T]
  BY <1>1
<1>3. QED
  BY <1>1, <1>2

LEMMA ListIsGood ==
  ASSUME NEW kind \in AllKinds, NEW values \in Seq(ValuesOf(kind))
  PROVE  GoodList([kind |-> kind, values |-> values])
<1>1. ValuesOf(kind) \subseteq AnyValue
  BY DEF AnyValue
<1>2. values \in Seq(AnyValue)
  BY <1>1, Widen
<1>3. QED
  BY <1>2 DEF GoodList, ListRec

(* One collection more, after those there were. *)
Extends(f, g, n) ==
  /\ g = Append(f, g[n + 1]) /\ Len(f) = n /\ Len(g) = n + 1
  /\ SubSeq(g, 1, Len(g) - 1) = f

LEMMA AppendIs ==
  ASSUME NEW n \in Nat, NEW f, NEW g, f = [h \in 1..n |-> f[h]], g = [h \in 1..(n + 1) |-> g[h]],
         \A i \in 1..n : g[i] = f[i]
  PROVE  Extends(f, g, n)
<1> DEFINE S == {g[h] : h \in 1..(n + 1)}
<1>1. \A i \in 1..n : i \in 1..(n + 1) /\ f[i] \in S
  OBVIOUS
<1>2. f \in [1..n -> S] /\ g \in [1..(n + 1) -> S] /\ g[n + 1] \in S
  BY <1>1
<1> HIDE DEF S
<1>3. ASSUME NEW a \in [1..n -> S], NEW b \in [1..(n + 1) -> S],
             \A i \in 1..n : b[i] = a[i]
      PROVE  b = Append(a, b[n + 1]) /\ Len(a) = n /\ Len(b) = n + 1 /\ SubSeq(b, 1, Len(b) - 1) = a
  <2>1. a \in Seq(S) /\ b \in Seq(S) /\ Len(a) = n /\ Len(b) = n + 1 /\ b[n + 1] \in S
    BY <1>3
  <2>2. /\ Append(a, b[n + 1]) \in Seq(S) /\ Len(Append(a, b[n + 1])) = n + 1
        /\ \A i \in 1..(n + 1) : Append(a, b[n + 1])[i] = b[i]
    BY <1>3, <2>1
  <2>3. b = Append(a, b[n + 1])
    <3> DEFINE c == Append(a, b[n + 1])
    <3>1. c \in Seq(S) /\ Len(c) = n + 1 /\ \A i \in 1..(n + 1) : c[i] = b[i]
      BY <2>2
    <3> HIDE DEF c
    <3>2. c \in [1..(n + 1) -> S] /\ b \in [1..(n + 1) -> S]
      BY <1>3, <3>1
    <3>4. b = c
      BY <3>1, <3>2
    <3>5. QED
      BY <3>4 DEF c
  <2>4. SubSeq(b, 1, n) = a
    <3> DEFINE d == SubSeq(b, 1, n)
    <3>1. d \in Seq(S) /\ Len(d) = n /\ \A i \in 1..n : d[i] = b[i]
      BY <2>1
    <3> HIDE DEF d
    <3>2. d \in [1..n -> S] /\ \A i \in 1..n : d[i] = a[i]
      BY <1>3, <3>1
    <3>3. d = a
      BY <3>2
    <3>4. QED
      BY <3>3 DEF d
  <2>5. QED
    BY <2>1, <2>3, <2>4
<1>4. QED
  BY <1>2, <1>3 DEF Extends

-----------------------------------------------------------------------------
(* The four ways a call writes: a collection is stored, or one is changed. *)
LEMMA SeqFacts ==
  ASSUME NEW S, NEW q \in Seq(S)
  PROVE  Len(q) \in Nat /\ DOMAIN q = 1..Len(q) /\ \A i \in 1..Len(q) : q[i] \in S
OBVIOUS

LEMMA AppendFacts ==
  ASSUME NEW S, NEW q \in Seq(S), NEW e \in S
  PROVE  /\ Append(q, e) \in Seq(S) /\ Len(Append(q, e)) = Len(q) + 1
         /\ Append(q, e)[Len(q) + 1] = e
         /\ \A i \in 1..Len(q) : Append(q, e)[i] = q[i]
         /\ \A i \in 1..(Len(q) + 1) : i \in 1..Len(q) \/ i = Len(q) + 1
OBVIOUS

LEMMA ArrayStored ==
  ASSUME HInv, NEW kind \in AllKinds, NEW values \in Seq(ValuesOf(kind)),
         store_array(kind, values), UNCHANGED <<maps, sets>>
  PROVE  HInv' /\ Promised!ListStep
<1> DEFINE a == [kind |-> kind, values |-> values]
           n == Len(arrays)
           f == ListsOf(arrays)
           g == ListsOf(arrays')
<1>1. arrays \in Seq(ListRec) /\ GoodList(a) /\ a \in ListRec /\ arrays' = Append(arrays, a)
  BY ListIsGood DEF HInv, store_array, GoodList
<1> HIDE DEF a
<1>2. /\ n \in Nat /\ DOMAIN arrays = 1..n /\ DOMAIN arrays' = 1..(n + 1)
      /\ arrays' \in Seq(ListRec) /\ Len(arrays') = n + 1 /\ arrays'[n + 1] = a
      /\ \A i \in 1..n : arrays'[i] = arrays[i] /\ i \in 1..(n + 1)
      /\ \A i \in 1..(n + 1) : i \in 1..n \/ i = n + 1
  BY <1>1, SeqFacts, AppendFacts
<1>3. HInv'
  BY <1>1, <1>2 DEF HInv
<1>4. /\ f = [h \in 1..n |-> f[h]] /\ g = [h \in 1..(n + 1) |-> g[h]]
      /\ \A i \in 1..n : g[i] = f[i]
  BY <1>2 DEF ListsOf
<1> HIDE DEF f, g
<1>5. Extends(f, g, n)
  BY <1>2, <1>4, AppendIs
<1>6. Len(g) = Len(f) + 1 /\ Promised!Front(g) = f
  BY <1>5 DEF Extends, Promised!Front
<1>7. QED
  BY <1>3, <1>6 DEF Promised!ListStep, f, g, ListsOf

LEMMA ArrayAssigned ==
  ASSUME HInv, NEW h \in DOMAIN arrays, NEW values \in Seq(ValuesOf(arrays[h].kind)),
         Assign(h, values), UNCHANGED <<maps, sets>>
  PROVE  HInv' /\ Promised!ListStep
<1> DEFINE n == Len(arrays)
           b == [arrays[h] EXCEPT !.values = values]
           f == ListsOf(arrays)
           g == ListsOf(arrays')
<1>1. arrays \in Seq(ListRec) /\ n \in Nat /\ DOMAIN arrays = 1..n /\ h \in 1..n
  BY SeqFacts DEF HInv
<1>2. arrays[h] \in ListRec /\ GoodList(arrays[h])
  BY <1>1 DEF HInv, GoodList
<1>3. arrays[h].kind \in AllKinds
  BY <1>2 DEF ListRec
<1>4. b = [kind |-> arrays[h].kind, values |-> values]
  BY <1>2 DEF ListRec
<1>5. GoodList(b) /\ b \in ListRec
  BY <1>3, <1>4, ListIsGood DEF GoodList
<1>6. arrays' = [arrays EXCEPT ![h] = b]
  BY DEF Assign
<1> HIDE DEF b
<1>7. /\ arrays' \in Seq(ListRec) /\ Len(arrays') = n /\ DOMAIN arrays' = 1..n /\ arrays'[h] = b
      /\ \A i \in 1..n : i # h => arrays'[i] = arrays[i]
  BY <1>1, <1>5, <1>6
<1>8. HInv'
  BY <1>1, <1>5, <1>7 DEF HInv
<1>9. DOMAIN g = DOMAIN f /\ h \in DOMAIN f /\ \A i \in DOMAIN f \ {h} : g[i] = f[i]
  BY <1>1, <1>7 DEF ListsOf
<1> HIDE DEF f, g
<1>10. QED
  BY <1>8, <1>9 DEF Promised!ListStep, f, g, ListsOf

LEMMA SetStored ==
  ASSUME HInv, NEW kind \in AllKinds, NEW values \in Seq(ValuesOf(kind)), Distinct(kind, values),
         store_set(kind, values), UNCHANGED <<arrays, maps>>
  PROVE  HInv' /\ SetsOf(sets') = Append(SetsOf(sets), Members(kind, values))
<1> DEFINE a == [kind |-> kind, values |-> values]
           n == Len(sets)
           f == SetsOf(sets)
           g == SetsOf(sets')
<1>1. /\ sets \in Seq(ListRec) /\ GoodSet(a) /\ a \in ListRec /\ sets' = Append(sets, a)
      /\ SetOf(a) = Members(kind, values)
  BY ListIsGood DEF HInv, store_set, GoodList, GoodSet, SetOf, Members
<1> HIDE DEF a
<1>2. /\ n \in Nat /\ DOMAIN sets = 1..n /\ DOMAIN sets' = 1..(n + 1)
      /\ sets' \in Seq(ListRec) /\ Len(sets') = n + 1 /\ sets'[n + 1] = a
      /\ \A i \in 1..n : sets'[i] = sets[i] /\ i \in 1..(n + 1)
      /\ \A i \in 1..(n + 1) : i \in 1..n \/ i = n + 1
  BY <1>1, SeqFacts, AppendFacts
<1>3. HInv'
  BY <1>1, <1>2 DEF HInv
<1>4. /\ f = [h \in 1..n |-> f[h]] /\ g = [h \in 1..(n + 1) |-> g[h]]
      /\ \A i \in 1..n : g[i] = f[i]
  BY <1>2 DEF SetsOf
<1>5. g[n + 1] = Members(kind, values)
  <2>1. n + 1 \in DOMAIN sets'
    BY <1>2
  <2>2. QED
    BY <1>1, <1>2, <2>1 DEF SetsOf
<1> HIDE DEF f, g
<1>6. g = Append(f, g[n + 1])
  <2>1. n \in Nat
    BY <1>2
  <2> HIDE DEF n
  <2>2. Extends(f, g, n)
    BY ONLY <2>1, <1>4, AppendIs
  <2>3. QED
    BY ONLY <2>2 DEF Extends
<1>7. QED
  BY <1>3, <1>5, <1>6 DEF f, g

LEMMA SetAssigned ==
  ASSUME HInv, NEW h \in DOMAIN sets, NEW values \in Seq(ValuesOf(sets[h].kind)),
         Distinct(sets[h].kind, values),
         sets' = [sets EXCEPT ![h].values = values], UNCHANGED <<arrays, maps>>
  PROVE  /\ HInv' /\ h \in DOMAIN SetsOf(sets)
         /\ SetsOf(sets') = [SetsOf(sets) EXCEPT ![h] = Members(sets[h].kind, values)]
<1> DEFINE n == Len(sets)
           b == [sets[h] EXCEPT !.values = values]
<1>1. sets \in Seq(ListRec) /\ n \in Nat /\ DOMAIN sets = 1..n /\ h \in 1..n
  BY SeqFacts DEF HInv
<1>2. sets[h] \in ListRec
  BY <1>1, SeqFacts
<1>3. sets[h].kind \in AllKinds
  BY <1>2 DEF ListRec
<1>4. b = [kind |-> sets[h].kind, values |-> values]
  BY <1>2 DEF ListRec
<1>5. GoodSet(b) /\ b \in ListRec /\ SetOf(b) = Members(sets[h].kind, values)
  BY <1>3, <1>4, ListIsGood DEF GoodList, GoodSet, SetOf, Members
<1>6. sets' = [sets EXCEPT ![h] = b]
  OBVIOUS
<1> HIDE DEF b
<1>7. /\ sets' \in Seq(ListRec) /\ Len(sets') = n /\ DOMAIN sets' = 1..n /\ sets'[h] = b
      /\ \A i \in 1..n : i # h => sets'[i] = sets[i]
  BY <1>1, <1>5, <1>6
<1>8. HInv'
  BY <1>1, <1>5, <1>7 DEF HInv
<1>9. QED
  BY <1>1, <1>5, <1>7, <1>8 DEF SetsOf

LEMMA MapAssigned ==
  ASSUME HInv, NEW h \in DOMAIN maps, NEW entries,
         GoodEntries([maps[h] EXCEPT !.entries = entries]),
         maps' = [maps EXCEPT ![h].entries = entries], UNCHANGED <<arrays, sets>>
  PROVE  /\ HInv' /\ h \in DOMAIN TablesOf(maps)
         /\ TablesOf(maps') = [TablesOf(maps) EXCEPT ![h] = TableOf([maps[h] EXCEPT !.entries = entries])]
<1> DEFINE n == Len(maps)
           b == [maps[h] EXCEPT !.entries = entries]
<1>1. maps \in Seq(MapRec) /\ n \in Nat /\ DOMAIN maps = 1..n /\ h \in 1..n
  BY SeqFacts DEF HInv
<1>2. maps[h] \in MapRec /\ GoodMap(maps[h])
  BY <1>1, SeqFacts DEF HInv
<1>3. /\ b = [key_kind |-> maps[h].key_kind, value_kind |-> maps[h].value_kind, entries |-> entries]
      /\ maps[h].key_kind \in AllKinds /\ maps[h].value_kind \in AllKinds
      /\ maps[h].value_kind \in ValueKinds
  BY <1>2 DEF MapRec, GoodMap
<1>4. entries \in Seq(ValuesOf(maps[h].key_kind) \X ValuesOf(maps[h].value_kind))
  BY <1>3 DEF GoodEntries
<1>5. entries \in Seq(AnyValue \X AnyValue)
  <2>1. ValuesOf(maps[h].key_kind) \X ValuesOf(maps[h].value_kind) \subseteq AnyValue \X AnyValue
    BY <1>3 DEF AnyValue
  <2>2. QED
    BY <1>4, <2>1, Widen
<1>6. b \in MapRec /\ GoodMap(b)
  BY <1>3, <1>5 DEF MapRec, GoodMap
<1>7. maps' = [maps EXCEPT ![h] = b]
  OBVIOUS
<1> HIDE DEF b
<1>8. /\ maps' \in Seq(MapRec) /\ Len(maps') = n /\ DOMAIN maps' = 1..n /\ maps'[h] = b
      /\ \A i \in 1..n : i # h => maps'[i] = maps[i]
  BY <1>1, <1>6, <1>7
<1>9. HInv'
  BY <1>1, <1>6, <1>8 DEF HInv
<1>10. QED
  BY <1>1, <1>8, <1>9 DEF TablesOf, b

-----------------------------------------------------------------------------
(* Arrays.                                                                 *)
LEMMA ArrayAt ==
  ASSUME HInv, NEW h \in DOMAIN arrays
  PROVE  /\ arrays[h].kind \in AllKinds
         /\ arrays[h].values \in Seq(ValuesOf(arrays[h].kind))
<1>1. h \in 1..Len(arrays)
  BY SeqFacts DEF HInv
<1>2. GoodList(arrays[h])
  BY <1>1 DEF HInv
<1>3. QED
  BY <1>2 DEF GoodList, ListRec

(* A part of a list is a list. *)
LEMMA PartIsList ==
  ASSUME NEW S, NEW q \in Seq(S), NEW from \in 0..Len(q), NEW to \in 0..Len(q)
  PROVE  SubSeq(q, from + 1, to) \in Seq(S)
OBVIOUS

LEMMA BoundsClamp ==
  ASSUME NEW mode \in {"SLICE", "TAKE", "TAKE_LAST", "DROP_FIRST"},
         NEW first \in Nat, NEW second \in Nat, NEW len \in Nat
  PROVE  /\ range_bounds(mode, first, second, len)[1] \in 0..len
         /\ range_bounds(mode, first, second, len)[2] \in 0..len
<1>1. CASE mode = "SLICE"
  BY <1>1 DEF range_bounds
<1>2. CASE mode = "TAKE"
  BY <1>2 DEF range_bounds
<1>3. CASE mode = "TAKE_LAST"
  BY <1>3 DEF range_bounds
<1>4. CASE mode = "DROP_FIRST"
  BY <1>4 DEF range_bounds
<1>5. QED
  BY <1>1, <1>2, <1>3, <1>4

LEMMA TailIsList ==
  ASSUME NEW S, NEW q \in Seq(S), Len(q) # 0
  PROVE  Tail(q) \in Seq(S)
OBVIOUS

(* Values picked from a list by place make a list. *)
LEMMA PickedIsList ==
  ASSUME NEW S, NEW q \in Seq(S), NEW p \in [1..Len(q) -> 1..Len(q)]
  PROVE  [i \in 1..Len(q) |-> q[p[i]]] \in Seq(S)
OBVIOUS

LEMMA ArrayWrites ==
  ASSUME HInv, NEW h \in DOMAIN arrays, UNCHANGED <<maps, sets>>,
         \/ array_push(h) \/ array_extend(h) \/ array_set(h) \/ array_clone(h)
         \/ array_reverse(h) \/ array_range(h) \/ array_remove(h) \/ array_sort(h)
  PROVE  HInv' /\ Promised!ListStep
<1> DEFINE values == arrays[h].values
           kind == arrays[h].kind
           S == ValuesOf(kind)
           n == Len(values)
           Writes == \E w \in Seq(S) : Assign(h, w)
           Stores == \E w \in Seq(S) : store_array(kind, w)
<1>1. kind \in AllKinds /\ values \in Seq(S)
  BY ArrayAt
<1>2. n \in Nat /\ DOMAIN values = 1..n /\ \A i \in 1..n : values[i] \in S
  BY <1>1, SeqFacts
<1>3. SUFFICES Writes \/ Stores
  BY <1>1, ArrayStored, ArrayAssigned
<1>4. CASE array_push(h)
  <2>1. \A v \in S : Append(values, v) \in Seq(S)
    BY <1>1
  <2>2. QED
    BY <1>4, <2>1 DEF array_push
<1>5. CASE array_extend(h)
  <2>1. PICK s \in DOMAIN arrays : arrays[s].kind = kind /\ Assign(h, values \o arrays[s].values)
    BY <1>5 DEF array_extend
  <2>2. arrays[s].values \in Seq(S)
    BY <2>1, ArrayAt
  <2>3. values \o arrays[s].values \in Seq(S)
    BY <1>1, <2>2
  <2>4. QED
    BY <2>1, <2>3
<1>6. CASE array_set(h)
  <2>1. PICK i \in DOMAIN values : \E v \in S : Assign(h, [values EXCEPT ![i] = v])
    BY <1>6 DEF array_set
  <2>2. PICK v \in S : Assign(h, [values EXCEPT ![i] = v])
    BY <2>1
  <2>3. [values EXCEPT ![i] = v] \in Seq(S)
    BY <1>1
  <2>4. QED
    BY <2>2, <2>3
<1>7. CASE array_clone(h)
  BY <1>1, <1>7 DEF array_clone
<1>8. CASE array_reverse(h)
  <2> DEFINE p == [i \in 1..n |-> n + 1 - i]
             w == [i \in 1..n |-> values[n + 1 - i]]
  <2>1. p \in [1..n -> 1..n] /\ w = [i \in 1..n |-> values[p[i]]]
    BY <1>2
  <2>2. w \in Seq(S)
    <3> HIDE DEF p, w, S
    <3>1. QED
      BY <1>1, <2>1, PickedIsList
  <2>3. Assign(h, w)
    BY <1>2, <1>8 DEF array_reverse
  <2>4. QED
    BY <2>2, <2>3
<1>9. CASE array_range(h)
  <2>1. PICK mode \in {"SLICE", "TAKE", "TAKE_LAST", "DROP_FIRST"}, first \in 0..(MaxCells + 1),
             second \in 0..(MaxCells + 1) :
          store_array(kind, SubSeq(values, range_bounds(mode, first, second, n)[1] + 1,
                                   range_bounds(mode, first, second, n)[2]))
    BY <1>9 DEF array_range
  <2> DEFINE from == range_bounds(mode, first, second, n)[1]
             to == range_bounds(mode, first, second, n)[2]
  <2>2. first \in Nat /\ second \in Nat
    OBVIOUS
  <2>3. from \in 0..n /\ to \in 0..n
    BY <1>2, <2>2, BoundsClamp
  <2> HIDE DEF from, to
  <2>4. SubSeq(values, from + 1, to) \in Seq(S)
    BY <1>1, <2>3, PartIsList
  <2>5. QED
    BY <2>1, <2>4 DEF from, to
<1>10. CASE array_remove(h)
  <2>1. values # <<>>
    BY <1>10 DEF array_remove
  <2>2. n # 0
    BY <1>1, <2>1
  <2>3. Tail(values) \in Seq(S)
    <3> HIDE DEF values, S
    <3>1. QED
      BY <1>1, <2>2, TailIsList
  <2>4. SubSeq(values, 1, n - 1) \in Seq(S)
    <3>1. SubSeq(values, 0 + 1, n - 1) \in Seq(S)
      <4>1. 0 \in 0..n /\ n - 1 \in 0..n
        BY <1>2, <2>2
      <4>2. QED
        BY <1>1, <4>1, PartIsList
    <3>2. QED
      BY <3>1
  <2>5. QED
    BY <1>10, <2>3, <2>4 DEF array_remove
<1>11. CASE array_sort(h)
  <2>1. PICK p \in Bijection(1..n, 1..n) : Assign(h, [i \in 1..n |-> values[p[i]]])
    BY <1>2, <1>11 DEF array_sort
  <2>2. p \in [1..n -> 1..n]
    BY <2>1 DEF Bijection, Injection, Surjection
  <2>3. [i \in 1..n |-> values[p[i]]] \in Seq(S)
    BY <1>1, <2>2, PickedIsList
  <2>4. QED
    BY <2>1, <2>3
<1>12. QED
  BY <1>4, <1>5, <1>6, <1>7, <1>8, <1>9, <1>10, <1>11

LEMMA ArrayCalls ==
  ASSUME HInv, ArrayCall
  PROVE  HInv' /\ Promised!ListStep
<1>1. UNCHANGED <<maps, sets>>
  BY DEF ArrayCall
<1>2. CASE array_new
  <2>1. PICK k \in Kinds : store_array(k, <<>>)
    BY <1>2 DEF array_new
  <2>2. k \in AllKinds /\ <<>> \in Seq(ValuesOf(k))
    BY DEF AllKinds
  <2>3. QED
    BY <1>1, <2>1, <2>2, ArrayStored
<1>3. ASSUME NEW h \in DOMAIN arrays,
             \/ array_push(h) \/ array_extend(h) \/ array_set(h) \/ array_clone(h)
             \/ array_reverse(h) \/ array_range(h) \/ array_remove(h) \/ array_sort(h)
      PROVE  HInv' /\ Promised!ListStep
  BY <1>1, <1>3, ArrayWrites
<1>4. QED
  BY <1>2, <1>3 DEF ArrayCall

-----------------------------------------------------------------------------
(* Maps.                                                                   *)
LEMMA MapAt ==
  ASSUME HInv, NEW h \in DOMAIN maps
  PROVE  maps[h] \in MapRec /\ GoodMap(maps[h]) /\ GoodEntries(maps[h])
<1>1. h \in 1..Len(maps)
  BY SeqFacts DEF HInv
<1>2. QED
  BY <1>1, SeqFacts DEF HInv, GoodMap

(* What the calls write in a map, they write of a table. *)
LEMMA TableWritten ==
  ASSUME NEW h, NEW k \in AllKeys,
         \/ \E v \in AllVals : TablesOf(maps') = [TablesOf(maps) EXCEPT ![h] = Promised!PutIn(@, k, v)]
         \/ TablesOf(maps') = [TablesOf(maps) EXCEPT ![h] = Promised!DeleteFrom(@, k)],
         h \in DOMAIN TablesOf(maps), UNCHANGED <<arrays, sets>>
  PROVE  Promised!TableStep
BY DEF Promised!TableStep, TablesOf, AllKeys, AllVals

LEMMA PutCall ==
  ASSUME HInv, NEW h \in DOMAIN maps, NEW k \in ValuesOf(maps[h].key_kind),
         NEW v \in ValuesOf(maps[h].value_kind), Put(h, k, v), UNCHANGED <<arrays, sets>>
  PROVE  HInv' /\ Promised!TableStep
<1> DEFINE m == maps[h]
           e == PutEntries(m, k, v)
           m2 == [m EXCEPT !.entries = e]
           i == Found(m, k)
<1>1. GoodMap(m) /\ GoodEntries(m) /\ m \in MapRec
  BY MapAt
<1>2. m.key_kind \in AllKinds /\ m.value_kind \in ValueKinds
  BY <1>1 DEF GoodMap, MapRec
<1>3. maps' = [maps EXCEPT ![h].entries = e]
  <2>1. ASSUME i # 0
        PROVE  [m.entries EXCEPT ![i][2] = v] = [m.entries EXCEPT ![i] = <<m.entries[i][1], v>>]
    <3>1. i \in 1..Len(m.entries)
      BY <1>1, <2>1, FoundIs DEF GoodEntries
    <3>2. m.entries[i] \in ValuesOf(m.key_kind) \X ValuesOf(m.value_kind)
      BY <1>1, <3>1, EntryIs
    <3>3. [m.entries[i] EXCEPT ![2] = v] = <<m.entries[i][1], v>>
      BY <3>2
    <3>4. QED
      BY <3>3
  <2>2. e = IF i # 0 THEN [m.entries EXCEPT ![i][2] = v] ELSE Append(m.entries, <<k, v>>)
    BY <2>1 DEF PutEntries
  <2>3. QED
    BY <2>2 DEF Put
<1>4. m2.key_kind = m.key_kind /\ m2.value_kind = m.value_kind /\ m2.entries = e
  BY <1>1 DEF MapRec
<1>5. GoodEntries(m2) /\ TableOf(m2) = Promised!PutIn(TableOf(m), KeyOf(m, k), v)
  <2> HIDE DEF m2, m
  <2>1. QED
    BY <1>1, <1>4, PutIs DEF m
<1>6. /\ HInv' /\ h \in DOMAIN TablesOf(maps)
      /\ TablesOf(maps') = [TablesOf(maps) EXCEPT ![h] = TableOf(m2)]
  <2> HIDE DEF e
  <2>1. QED
    BY <1>3, <1>5, MapAssigned
<1>7. KeyOf(m, k) \in AllKeys
  BY <1>2 DEF AllKeys, KeyOf, AllKinds
<1>8. v \in AllVals
  BY <1>2 DEF AllVals
<1>9. TablesOf(maps)[h] = TableOf(m)
  BY DEF TablesOf
<1> HIDE DEF m2, m
<1>10. TablesOf(maps') = [TablesOf(maps) EXCEPT ![h] = Promised!PutIn(@, KeyOf(m, k), v)]
  BY <1>5, <1>6, <1>9
<1>11. Promised!TableStep
  BY <1>6, <1>7, <1>8, <1>10, TableWritten
<1>12. QED
  BY <1>6, <1>11

LEMMA DeleteCall ==
  ASSUME HInv, NEW h \in DOMAIN maps, map_delete(h), UNCHANGED <<arrays, sets>>
  PROVE  HInv' /\ Promised!TableStep
<1> DEFINE m == maps[h]
<1>1. PICK k \in ValuesOf(m.key_kind) :
        maps' = [maps EXCEPT ![h].entries =
                   Kept(@, {i \in DOMAIN @ : ~values_equal(maps[h].key_kind, @[i][1], k)})]
  BY DEF map_delete
<1> DEFINE e == Kept(m.entries, {i \in DOMAIN m.entries : ~values_equal(m.key_kind, m.entries[i][1], k)})
           m2 == [m EXCEPT !.entries = e]
<1>2. maps' = [maps EXCEPT ![h].entries = e]
  BY <1>1
<1>3. GoodMap(m) /\ GoodEntries(m) /\ m \in MapRec
  BY MapAt
<1>4. m.key_kind \in AllKinds
  BY <1>3 DEF MapRec
<1>5. m2.key_kind = m.key_kind /\ m2.value_kind = m.value_kind /\ m2.entries = e
  BY <1>3 DEF MapRec
<1>6. GoodEntries(m2) /\ TableOf(m2) = Promised!DeleteFrom(TableOf(m), KeyOf(m, k))
  <2> HIDE DEF m2, m
  <2>1. QED
    BY <1>3, <1>5, DeleteIs
<1>7. /\ HInv' /\ h \in DOMAIN TablesOf(maps)
      /\ TablesOf(maps') = [TablesOf(maps) EXCEPT ![h] = TableOf(m2)]
  <2> HIDE DEF e
  <2>1. QED
    BY <1>2, <1>6, MapAssigned
<1>8. KeyOf(m, k) \in AllKeys
  BY <1>4 DEF AllKeys, KeyOf, AllKinds
<1>9. TablesOf(maps)[h] = TableOf(m)
  BY DEF TablesOf
<1> HIDE DEF m2, m
<1>10. TablesOf(maps') = [TablesOf(maps) EXCEPT ![h] = Promised!DeleteFrom(@, KeyOf(m, k))]
  BY <1>6, <1>7, <1>9
<1>11. Promised!TableStep
  BY <1>7, <1>8, <1>10, TableWritten
<1>12. QED
  BY <1>7, <1>11

LEMMA NewMap ==
  ASSUME HInv, map_new, UNCHANGED <<arrays, sets>>
  PROVE  HInv' /\ Promised!TableStep
<1>1. PICK k \in KeyKinds : \E v \in ValueKinds : store_map(k, v, <<>>)
  BY DEF map_new
<1>2. PICK v \in ValueKinds : store_map(k, v, <<>>)
  BY <1>1
<1> DEFINE m == [key_kind |-> k, value_kind |-> v, entries |-> <<>>]
           n == Len(maps)
           f == TablesOf(maps)
           g == TablesOf(maps')
<1>3. k \in AllKinds /\ v \in AllKinds
  BY DEF AllKinds
<1>4. m \in MapRec /\ GoodMap(m) /\ TableOf(m) = {}
  <2>1. m.key_kind = k /\ m.value_kind = v /\ m.entries = <<>>
    OBVIOUS
  <2>2. \A S : <<>> \in Seq(S)
    OBVIOUS
  <2>3. Len(<<>>) = 0 /\ 1..0 = {} /\ DOMAIN <<>> = {}
    OBVIOUS
  <2>4. m \in MapRec
    BY <1>3, <2>2 DEF MapRec
  <2>5. GoodEntries(m)
    <3> HIDE DEF m
    <3>1. QED
      BY <1>3, <2>1, <2>2, <2>3 DEF GoodEntries
  <2>6. TableOf(m) = {}
    BY <2>3 DEF TableOf
  <2>7. QED
    BY <2>4, <2>5, <2>6 DEF GoodMap
<1>5. maps' = Append(maps, m) /\ maps \in Seq(MapRec)
  BY <1>2 DEF store_map, HInv
<1> HIDE DEF m
<1>6. /\ n \in Nat /\ DOMAIN maps = 1..n /\ DOMAIN maps' = 1..(n + 1)
      /\ maps' \in Seq(MapRec) /\ Len(maps') = n + 1 /\ maps'[n + 1] = m
      /\ \A i \in 1..n : maps'[i] = maps[i] /\ i \in 1..(n + 1)
      /\ \A i \in 1..(n + 1) : i \in 1..n \/ i = n + 1
  BY <1>4, <1>5, SeqFacts, AppendFacts
<1>7. HInv'
  BY <1>4, <1>6 DEF HInv
<1>8. /\ f = [h \in 1..n |-> f[h]] /\ g = [h \in 1..(n + 1) |-> g[h]]
      /\ \A i \in 1..n : g[i] = f[i]
  BY <1>6 DEF TablesOf
<1>9. g[n + 1] = {}
  <2>1. n + 1 \in DOMAIN maps'
    BY <1>6
  <2>2. QED
    BY <1>4, <1>6, <2>1 DEF TablesOf
<1> HIDE DEF f, g
<1>10. g = Append(f, {})
  <2>1. n \in Nat
    BY <1>6
  <2>2. Extends(f, g, n)
    BY ONLY <1>8, <2>1, AppendIs
  <2>3. QED
    BY ONLY <1>9, <2>2 DEF Extends
<1>11. QED
  BY <1>7, <1>10 DEF Promised!TableStep, f, g, TablesOf

LEMMA ValuesCall ==
  ASSUME HInv, NEW h \in DOMAIN maps, map_values(h), UNCHANGED <<maps, sets>>
  PROVE  HInv' /\ Promised!ListStep
<1> DEFINE m == maps[h]
<1>1. GoodEntries(m) /\ m \in MapRec
  BY MapAt
<1>2. PICK part \in 1..2 :
        store_array(canonical_array_element_kind(IF part = 1 THEN m.key_kind ELSE m.value_kind),
                    [i \in DOMAIN m.entries |-> m.entries[i][part]])
  BY DEF map_values
<1> DEFINE kind == IF part = 1 THEN m.key_kind ELSE m.value_kind
           c == canonical_array_element_kind(kind)
           w == [i \in DOMAIN m.entries |-> m.entries[i][part]]
<1>3. kind \in AllKinds
  BY <1>1 DEF MapRec
<1>4. c \in AllKinds /\ ValuesOf(c) = ValuesOf(kind)
  <2>1. c = IF kind = "TEXT" THEN "PTR" ELSE kind
    BY DEF canonical_array_element_kind
  <2>2. "PTR" \in AllKinds /\ ValuesOf("PTR") = ValuesOf("TEXT")
    BY DEF AllKinds, ValuesOf
  <2> HIDE DEF kind, c
  <2>3. QED
    BY <1>3, <2>1, <2>2
<1>5. part = 1 \/ part = 2
  OBVIOUS
<1>6. Len(m.entries) \in Nat /\ DOMAIN m.entries = 1..Len(m.entries)
  BY <1>1, SeqFacts DEF GoodEntries
<1>7. \A i \in 1..Len(m.entries) :
        m.entries[i][1] \in ValuesOf(m.key_kind) /\ m.entries[i][2] \in ValuesOf(m.value_kind)
  BY <1>1, EntryIs
<1>8. \A i \in 1..Len(m.entries) : m.entries[i][part] \in ValuesOf(kind)
  BY <1>5, <1>7
<1>9. w \in [1..Len(m.entries) -> ValuesOf(c)]
  <2> HIDE DEF m, kind, c
  <2>1. QED
    BY <1>4, <1>6, <1>8
<1>10. w \in Seq(ValuesOf(c))
  BY <1>6, <1>9
<1>11. store_array(c, w)
  BY <1>2
<1> HIDE DEF c, w
<1>12. QED
  BY <1>4, <1>10, <1>11, ArrayStored

LEMMA MapCalls ==
  ASSUME HInv, MapCall
  PROVE  HInv' /\ Promised!Next
<1>1. UNCHANGED sets
  BY DEF MapCall
<1>2. CASE map_new /\ UNCHANGED arrays
  BY <1>1, <1>2, NewMap DEF Promised!Next
<1>3. ASSUME NEW h \in DOMAIN maps, map_put(h), UNCHANGED arrays PROVE HInv' /\ Promised!Next
  BY <1>1, <1>3, PutCall DEF map_put, Promised!Next
<1>4. ASSUME NEW h \in DOMAIN maps, aggregate_set_index_ptr_i64(h), UNCHANGED arrays
      PROVE  HInv' /\ Promised!Next
  BY <1>1, <1>4, PutCall DEF aggregate_set_index_ptr_i64, Promised!Next
<1>5. ASSUME NEW h \in DOMAIN maps, map_delete(h), UNCHANGED arrays PROVE HInv' /\ Promised!Next
  BY <1>1, <1>5, DeleteCall DEF Promised!Next
<1>6. ASSUME NEW h \in DOMAIN maps, map_values(h), UNCHANGED maps PROVE HInv' /\ Promised!Next
  BY <1>1, <1>6, ValuesCall DEF Promised!Next
<1>7. QED
  BY <1>2, <1>3, <1>4, <1>5, <1>6 DEF MapCall

-----------------------------------------------------------------------------
(* Sets.                                                                   *)
LEMMA SetAt ==
  ASSUME HInv, NEW h \in DOMAIN sets
  PROVE  /\ sets[h].kind \in AllKinds /\ sets[h].values \in Seq(ValuesOf(sets[h].kind))
         /\ Distinct(sets[h].kind, sets[h].values)
         /\ SetsOf(sets)[h] = Members(sets[h].kind, sets[h].values) /\ h \in DOMAIN SetsOf(sets)
<1>1. h \in 1..Len(sets)
  BY SeqFacts DEF HInv
<1>2. GoodSet(sets[h])
  BY <1>1 DEF HInv
<1>3. QED
  BY <1>2 DEF GoodSet, GoodList, ListRec, SetsOf, SetOf, Members

LEMMA NewSet ==
  ASSUME HInv, set_new, UNCHANGED <<arrays, maps>>
  PROVE  HInv' /\ Promised!SetStep
<1>1. PICK k \in KeyKinds : store_set(k, <<>>)
  BY DEF set_new
<1>2. k \in AllKinds /\ <<>> \in Seq(ValuesOf(k)) /\ Distinct(k, <<>>)
  BY DEF AllKinds, Distinct
<1>3. Members(k, <<>>) = {}
  BY DEF Members, MeaningsOf, Range
<1>4. HInv' /\ SetsOf(sets') = Append(SetsOf(sets), {})
  BY <1>1, <1>2, <1>3, SetStored
<1>5. QED
  BY <1>4 DEF Promised!SetStep, SetsOf

LEMMA SetFromArray ==
  ASSUME HInv, NEW a \in DOMAIN arrays, set_from_array(a), UNCHANGED <<arrays, maps>>
  PROVE  HInv' /\ Promised!SetStep
<1> DEFINE kind == arrays[a].kind
           values == arrays[a].values
           u == Unique(kind, values)
<1>1. kind \in AllKinds /\ values \in Seq(ValuesOf(kind))
  BY ArrayAt
<1> HIDE DEF kind, values
<1>2. IsUnique(u, kind, values, Len(values))
  BY <1>1, UniqueIs
<1> HIDE DEF u
<1>3. u \in Seq(ValuesOf(kind)) /\ Distinct(kind, u)
  BY <1>2 DEF IsUnique
<1>4. Members(kind, u) = Members(kind, values)
  BY <1>1, <1>2, UniqueMembers
<1>5. store_set(kind, u)
  BY DEF set_from_array, kind, values, u
<1>6. HInv' /\ SetsOf(sets') = Append(SetsOf(sets), Members(kind, values))
  BY <1>1, <1>3, <1>4, <1>5, SetStored
<1>7. ListsOf(arrays)[a] = MeaningsOf(kind, values) /\ a \in DOMAIN ListsOf(arrays)
  BY DEF ListsOf, kind, values
<1>8. Members(kind, values) = Promised!Range(ListsOf(arrays)[a])
  BY <1>7 DEF Members, Range, Promised!Range
<1>9. \E l \in DOMAIN ListsOf(arrays) : SetsOf(sets') = Append(SetsOf(sets), Promised!Range(ListsOf(arrays)[l]))
  BY <1>6, <1>7, <1>8
<1>10. QED
  BY <1>6, <1>9 DEF Promised!SetStep, SetsOf, ListsOf

LEMMA MemberKey ==
  ASSUME NEW kind \in AllKinds, NEW v \in ValuesOf(kind)
  PROVE  Meaning(kind, v) \in AllKeys
BY DEF AllKeys, AllKinds

LEMMA AddCall ==
  ASSUME HInv, NEW h \in DOMAIN sets, set_add(h), UNCHANGED <<arrays, maps>>
  PROVE  HInv' /\ Promised!SetStep
<1> DEFINE kind == sets[h].kind
           values == sets[h].values
<1>1. PICK v \in ValuesOf(kind) : sets' = [sets EXCEPT ![h].values = push_unique(sets[h].kind, @, v)]
  BY DEF set_add
<1> DEFINE w == push_unique(kind, values, v)
<1>2. sets' = [sets EXCEPT ![h].values = w]
  BY <1>1
<1>3. /\ kind \in AllKinds /\ values \in Seq(ValuesOf(kind)) /\ Distinct(kind, values)
      /\ SetsOf(sets)[h] = Members(kind, values)
  BY SetAt
<1>4. /\ w \in Seq(ValuesOf(kind)) /\ Distinct(kind, w)
      /\ Members(kind, w) = Members(kind, values) \cup {Meaning(kind, v)}
  <2> HIDE DEF kind, values
  <2>1. QED
    BY <1>3, AddIs DEF kind
<1> HIDE DEF w
<1>5. /\ HInv' /\ h \in DOMAIN SetsOf(sets)
      /\ SetsOf(sets') = [SetsOf(sets) EXCEPT ![h] = Members(kind, w)]
  BY <1>2, <1>4, SetAssigned
<1>6. Meaning(kind, v) \in AllKeys
  BY <1>3, MemberKey
<1>7. \E k \in AllKeys : SetsOf(sets') = [SetsOf(sets) EXCEPT ![h] = @ \cup {k}]
  BY <1>3, <1>4, <1>5, <1>6
<1>8. QED
  BY <1>5, <1>7 DEF Promised!SetStep, SetsOf, AllKeys

LEMMA RemoveCall ==
  ASSUME HInv, NEW h \in DOMAIN sets, set_delete(h), UNCHANGED <<arrays, maps>>
  PROVE  HInv' /\ Promised!SetStep
<1> DEFINE kind == sets[h].kind
           values == sets[h].values
<1>1. PICK v \in ValuesOf(kind) :
        sets' = [sets EXCEPT ![h].values = Kept(@, {i \in DOMAIN @ : ~values_equal(sets[h].kind, @[i], v)})]
  BY DEF set_delete
<1> DEFINE w == Kept(values, {i \in DOMAIN values : ~values_equal(kind, values[i], v)})
<1>2. sets' = [sets EXCEPT ![h].values = w]
  BY <1>1
<1>3. /\ kind \in AllKinds /\ values \in Seq(ValuesOf(kind)) /\ Distinct(kind, values)
      /\ SetsOf(sets)[h] = Members(kind, values)
  BY SetAt
<1>4. /\ w \in Seq(ValuesOf(kind)) /\ Distinct(kind, w)
      /\ Members(kind, w) = Promised!RemoveFrom(Members(kind, values), Meaning(kind, v))
  <2> HIDE DEF kind, values
  <2>1. QED
    BY <1>3, RemoveIs DEF kind
<1> HIDE DEF w
<1>5. /\ HInv' /\ h \in DOMAIN SetsOf(sets)
      /\ SetsOf(sets') = [SetsOf(sets) EXCEPT ![h] = Members(kind, w)]
  BY <1>2, <1>4, SetAssigned
<1>6. Meaning(kind, v) \in AllKeys
  BY <1>3, MemberKey
<1>7. \E k \in AllKeys :
        SetsOf(sets') = [SetsOf(sets) EXCEPT ![h] = Promised!RemoveFrom(@, k)]
  BY <1>3, <1>4, <1>5, <1>6
<1>8. QED
  BY <1>5, <1>7 DEF Promised!SetStep, SetsOf, AllKeys

LEMMA UnionIs ==
  ASSUME NEW kind \in AllKinds, NEW l \in Seq(ValuesOf(kind)), NEW r \in Seq(ValuesOf(kind))
  PROVE  /\ set_union(kind, l, r) \in Seq(ValuesOf(kind)) /\ Distinct(kind, set_union(kind, l, r))
         /\ Members(kind, set_union(kind, l, r)) = Members(kind, l) \cup Members(kind, r)
<1> DEFINE w == l \o r
           u == Unique(kind, w)
<1>1. w \in Seq(ValuesOf(kind))
  OBVIOUS
<1>2. Members(kind, w) = Members(kind, l) \cup Members(kind, r)
  BY ConcatMembers
<1>3. set_union(kind, l, r) = u
  BY DEF set_union
<1> HIDE DEF w
<1>4. IsUnique(u, kind, w, Len(w))
  BY <1>1, UniqueIs
<1> HIDE DEF u
<1>5. Members(kind, u) = Members(kind, w)
  BY <1>1, <1>4, UniqueMembers
<1>6. QED
  BY <1>2, <1>3, <1>4, <1>5 DEF IsUnique

LEMMA ConcatDistinct ==
  ASSUME NEW kind \in AllKinds, NEW a \in Seq(ValuesOf(kind)), NEW b \in Seq(ValuesOf(kind)),
         Distinct(kind, a), Distinct(kind, b),
         \A i \in 1..Len(a), j \in 1..Len(b) : ~values_equal(kind, a[i], b[j])
  PROVE  Distinct(kind, a \o b)
<1> DEFINE w == a \o b
           m == Len(a)
           n == Len(b)
<1>1. /\ m \in Nat /\ n \in Nat /\ Len(w) = m + n
      /\ \A i \in 1..m : w[i] = a[i] /\ a[i] \in ValuesOf(kind)
      /\ \A i \in 1..(m + n) : i \notin 1..m => i - m \in 1..n /\ w[i] = b[i - m]
      /\ \A i \in 1..n : b[i] \in ValuesOf(kind)
  OBVIOUS
<1> HIDE DEF w, m, n
<1>2. ASSUME NEW i \in 1..(m + n), NEW j \in 1..(m + n), i # j
      PROVE  ~values_equal(kind, w[i], w[j])
  <2>1. CASE i \in 1..m /\ j \in 1..m
    BY <1>1, <1>2, <2>1 DEF Distinct, m
  <2>2. CASE i \in 1..m /\ j \notin 1..m
    BY <1>1, <2>2 DEF m, n
  <2>3. CASE i \notin 1..m /\ j \in 1..m
    <3>1. w[j] = a[j] /\ w[i] = b[i - m] /\ i - m \in 1..n
      BY <1>1, <2>3
    <3>2. a[j] \in ValuesOf(kind) /\ b[i - m] \in ValuesOf(kind)
      BY <1>1, <2>3, <3>1
    <3>3. ~values_equal(kind, a[j], b[i - m])
      BY <2>3, <3>1 DEF m, n
    <3>4. QED
      BY <3>1, <3>2, <3>3, EqualIsSymmetric
  <2>4. CASE i \notin 1..m /\ j \notin 1..m
    <3>1. /\ w[i] = b[i - m] /\ w[j] = b[j - m] /\ i - m \in 1..n /\ j - m \in 1..n
          /\ i - m # j - m
      BY <1>1, <1>2, <2>4
    <3>2. QED
      BY <3>1 DEF Distinct, n
  <2>5. QED
    BY <2>1, <2>2, <2>3, <2>4
<1>3. QED
  BY <1>1, <1>2 DEF Distinct, w

LEMMA SymmetricIs ==
  ASSUME NEW kind \in AllKinds, NEW l \in Seq(ValuesOf(kind)), NEW r \in Seq(ValuesOf(kind)),
         Distinct(kind, l), Distinct(kind, r), NEW w, w = set_symmetric_difference(kind, l, r)
  PROVE  /\ w \in Seq(ValuesOf(kind)) /\ Distinct(kind, w)
         /\ Members(kind, w) = (Members(kind, l) \cup Members(kind, r))
                                  \ Promised!Common(Members(kind, l), Members(kind, r))
<1> DEFINE a == Without(kind, l, r)
           b == Without(kind, r, l)
           L == Members(kind, l)
           R == Members(kind, r)
<1>1. /\ a \in Seq(ValuesOf(kind)) /\ Distinct(kind, a) /\ Members(kind, a) = L \ Promised!Common(L, R)
      /\ \A j \in 1..Len(a) : ~contains(kind, r, a[j])
  BY FilterIs
<1>2. /\ b \in Seq(ValuesOf(kind)) /\ Distinct(kind, b) /\ Members(kind, b) = R \ Promised!Common(R, L)
  BY FilterIs
<1>3. w = a \o b
  BY DEF set_symmetric_difference
<1>4. Promised!Common(R, L) = Promised!Common(L, R)
  BY DEF Promised!Common, Promised!Equal
<1>5. Members(kind, b) \subseteq R
  BY <1>2
<1> HIDE DEF a, b
<1>6. ASSUME NEW i \in 1..Len(a), NEW j \in 1..Len(b) PROVE ~values_equal(kind, a[i], b[j])
  <2>1. a[i] \in ValuesOf(kind) /\ b[j] \in ValuesOf(kind)
    BY <1>1, <1>2, SeqFacts
  <2>2. SUFFICES ASSUME values_equal(kind, a[i], b[j]) PROVE FALSE
    OBVIOUS
  <2>3. values_equal(kind, b[j], a[i])
    BY <2>1, <2>2, EqualIsSymmetric
  <2>4. Promised!Equal(Meaning(kind, b[j]), Meaning(kind, a[i]))
    BY <2>1, <2>3, EqualMeans
  <2>5. Members(kind, b) = MembersAt(kind, b, 1..Len(b))
    BY <1>2, MembersAre
  <2>6. Meaning(kind, b[j]) \in R
    BY <1>5, <2>5 DEF MembersAt
  <2>7. contains(kind, r, a[i])
    BY <2>1, <2>4, <2>6, ContainsMeans
  <2>8. QED
    BY <1>1, <2>7
<1>7. Distinct(kind, a \o b)
  BY <1>1, <1>2, <1>6, ConcatDistinct
<1>8. Members(kind, a \o b) = Members(kind, a) \cup Members(kind, b)
  BY <1>1, <1>2, ConcatMembers
<1>9. a \o b \in Seq(ValuesOf(kind))
  BY <1>1, <1>2
<1>10. QED
  BY <1>1, <1>2, <1>3, <1>4, <1>7, <1>8, <1>9

LEMMA AlgebraCall ==
  ASSUME HInv, NEW l \in DOMAIN sets, NEW r \in DOMAIN sets, set_algebra(l, r), UNCHANGED <<arrays, maps>>
  PROVE  HInv' /\ Promised!SetStep
<1> DEFINE kind == sets[l].kind
           a == sets[l].values
           b == sets[r].values
           A == SetsOf(sets)[l]
           B == SetsOf(sets)[r]
           Given == {A \cup B, Promised!Common(A, B), A \ Promised!Common(A, B),
                     (A \cup B) \ Promised!Common(A, B)}
<1>1. /\ kind \in AllKinds /\ a \in Seq(ValuesOf(kind)) /\ Distinct(kind, a)
      /\ A = Members(kind, a) /\ l \in DOMAIN SetsOf(sets)
  BY SetAt
<1>2. sets[r].kind = kind
  BY DEF set_algebra
<1>3. /\ b \in Seq(ValuesOf(kind)) /\ Distinct(kind, b)
      /\ B = Members(kind, b) /\ r \in DOMAIN SetsOf(sets)
  BY <1>2, SetAt
<1>4. PICK w \in {set_union(kind, a, b), set_intersection(kind, a, b), set_difference(kind, a, b),
                  set_symmetric_difference(kind, a, b)} : store_set(kind, w)
  BY DEF set_algebra
<1> HIDE DEF kind, a, b, A, B
<1>5. w \in Seq(ValuesOf(kind)) /\ Distinct(kind, w) /\ Members(kind, w) \in Given
  <2>1. CASE w = set_union(kind, a, b)
    BY <1>1, <1>3, <2>1, UnionIs
  <2>2. CASE w = set_intersection(kind, a, b)
    BY <1>1, <1>3, <2>2, FilterIs
  <2>3. CASE w = set_difference(kind, a, b)
    BY <1>1, <1>3, <2>3, FilterIs DEF set_difference
  <2>4. CASE w = set_symmetric_difference(kind, a, b)
    <3>1. /\ w \in Seq(ValuesOf(kind)) /\ Distinct(kind, w)
          /\ Members(kind, w) = (A \cup B) \ Promised!Common(A, B)
      BY <1>1, <1>3, <2>4, SymmetricIs
    <3>2. QED
      BY <3>1
  <2>5. QED
    BY <2>1, <2>2, <2>3, <2>4
<1>6. HInv' /\ SetsOf(sets') = Append(SetsOf(sets), Members(kind, w))
  BY <1>1, <1>4, <1>5, SetStored
<1>7. \E s \in Given : SetsOf(sets') = Append(SetsOf(sets), s)
  BY <1>5, <1>6
<1>8. \E x, y \in DOMAIN SetsOf(sets) :
        \E s \in {SetsOf(sets)[x] \cup SetsOf(sets)[y], Promised!Common(SetsOf(sets)[x], SetsOf(sets)[y]),
                  SetsOf(sets)[x] \ Promised!Common(SetsOf(sets)[x], SetsOf(sets)[y]),
                  (SetsOf(sets)[x] \cup SetsOf(sets)[y])
                    \ Promised!Common(SetsOf(sets)[x], SetsOf(sets)[y])} :
          SetsOf(sets') = Append(SetsOf(sets), s)
  BY <1>1, <1>3, <1>7 DEF A, B
<1>9. QED
  BY <1>6, <1>8 DEF Promised!SetStep, SetsOf

LEMMA SetCalls ==
  ASSUME HInv, SetCall
  PROVE  HInv' /\ Promised!Next
<1>1. UNCHANGED maps
  BY DEF SetCall
<1>2. CASE set_new /\ UNCHANGED arrays
  BY <1>1, <1>2, NewSet DEF Promised!Next
<1>3. ASSUME NEW a \in DOMAIN arrays, set_from_array(a), UNCHANGED arrays PROVE HInv' /\ Promised!Next
  BY <1>1, <1>3, SetFromArray DEF Promised!Next
<1>4. ASSUME NEW h \in DOMAIN sets, set_add(h), UNCHANGED arrays PROVE HInv' /\ Promised!Next
  BY <1>1, <1>4, AddCall DEF Promised!Next
<1>5. ASSUME NEW h \in DOMAIN sets, set_delete(h), UNCHANGED arrays PROVE HInv' /\ Promised!Next
  BY <1>1, <1>5, RemoveCall DEF Promised!Next
<1>6. ASSUME NEW h \in DOMAIN sets, array_from_set(h), UNCHANGED sets PROVE HInv' /\ Promised!Next
  <2>1. sets[h].kind \in AllKinds /\ sets[h].values \in Seq(ValuesOf(sets[h].kind))
    BY SetAt
  <2>2. HInv' /\ Promised!ListStep
    BY <1>1, <1>6, <2>1, ArrayStored DEF array_from_set
  <2>3. QED
    BY <2>2 DEF Promised!Next
<1>7. ASSUME NEW l \in DOMAIN sets, NEW r \in DOMAIN sets, set_algebra(l, r), UNCHANGED arrays
      PROVE  HInv' /\ Promised!Next
  BY <1>1, <1>7, AlgebraCall DEF Promised!Next
<1>8. QED
  BY <1>2, <1>3, <1>4, <1>5, <1>6, <1>7 DEF SetCall

-----------------------------------------------------------------------------
(* Every call of the host keeps maps and sets free of equal keys and       *)
(* members, and every list to the values of its kind.                      *)
LEMMA HStep == HInv /\ HostNext => HInv' /\ Promised!Next
<1> SUFFICES ASSUME HInv, HostNext PROVE HInv' /\ Promised!Next
  OBVIOUS
<1>1. CASE ArrayCall
  BY <1>1, ArrayCalls DEF Promised!Next
<1>2. CASE MapCall
  BY <1>2, MapCalls
<1>3. CASE SetCall
  BY <1>3, SetCalls
<1>4. QED
  BY <1>1, <1>2, <1>3 DEF HostNext

LEMMA HStart == HostInit => HInv /\ Promised!Init
<1> SUFFICES ASSUME HostInit PROVE HInv /\ Promised!Init
  OBVIOUS
<1>1. Len(<<>>) = 0 /\ 1..0 = {} /\ DOMAIN <<>> = {} /\ \A S : <<>> \in Seq(S)
  OBVIOUS
<1>2. HInv
  BY <1>1 DEF HostInit, HInv
<1>3. Promised!Init
  <2>1. ASSUME NEW f, f = [h \in DOMAIN <<>> |-> f[h]] PROVE f = <<>>
    BY <1>1, <2>1
  <2>2. QED
    BY <1>1, <2>1 DEF HostInit, Promised!Init
<1>4. QED
  BY <1>2, <1>3

(* Whatever sequence of calls a program makes, the lists of the host       *)
(* hold what tables, sets and lists would: collection_map.rs and array.rs  *)
(* implement Collections.                                                  *)
THEOREM HostCollectionsImplement == HostSpec => ImplementsCollections
<1>1. HostInit => HInv /\ Promised!Init
  BY HStart
<1>2. HInv /\ [HostNext]_hostVars => HInv' /\ [Promised!Next]_(Promised!collections)
  <2>1. CASE HostNext
    BY <2>1, HStep
  <2>2. ASSUME HInv, UNCHANGED hostVars PROVE HInv' /\ UNCHANGED Promised!collections
    BY <2>2 DEF hostVars, HInv, Promised!collections
  <2>3. QED
    BY <2>1, <2>2
<1>3. QED
  BY <1>1, <1>2, PTL DEF HostSpec, ImplementsCollections, Promised!Spec

-----------------------------------------------------------------------------
(* What the reading calls answer.                                          *)

(* A list without repetition has as many members as places. *)
LEMMA CountIs ==
  ASSUME NEW n \in Nat, NEW T, NEW f \in [1..n -> T],
         \A i, j \in 1..n : f[i] = f[j] => i = j, \A x \in T : \E i \in 1..n : f[i] = x
  PROVE  Cardinality(T) = n
<1>1. f \in Bijection(1..n, T)
  BY DEF Bijection, Injection, IsInjective, Surjection
<1>2. IsFiniteSet(1..n) /\ Cardinality(1..n) = n
  BY FS_Interval
<1>3. ExistsBijection(1..n, T)
  BY <1>1 DEF ExistsBijection
<1>4. QED
  BY <1>2, <1>3, FS_Bijection

LEMMA ElementsAre ==
  ASSUME NEW S, NEW values \in Seq(S), NEW i
  PROVE  /\ i \in 1..Len(values) => Elements(values, i) = <<values[i]>>
         /\ i \notin 1..Len(values) => Elements(values, i) = <<>>
BY DEF Elements

LEMMA OneIsNotNone == ASSUME NEW x PROVE <<x>> # <<>>
<1>1. Len(<<x>>) = 1 /\ Len(<<>>) = 0
  OBVIOUS
<1>2. QED
  BY <1>1

LEMMA OneIsOne == ASSUME NEW x, NEW y, <<x>> = <<y>> PROVE x = y
OBVIOUS

(* A list read by index, by mode or through an option.                     *)
LEMMA ArrayReads ==
  ASSUME NEW a, a.values \in Seq(ValuesOf(a.kind))
  PROVE  ArrayAnswers(a)
<1> DEFINE n == Len(a.values)
           kind == a.kind
           Opt(mode, i) == array_option(a, mode, i)
           At(i) == Elements(a.values, i)
<1>1. n \in Nat /\ DOMAIN a.values = 1..n /\ array_length(a) = n
  BY SeqFacts DEF array_length
<1>2. /\ \A i \in 1..n : At(i) = <<a.values[i]>>
      /\ \A i : i \notin 1..n => At(i) = <<>>
  BY ElementsAre
<1>3. \A i : Opt("INDEX", i).kind = kind /\ Opt("INDEX", i).value = At(i + 1)
  BY DEF array_option, store_option, Place
<1>4. /\ Opt("FIRST", 0) = [kind |-> kind, value |-> At(1)]
      /\ Opt("LAST", 0) = [kind |-> kind, value |-> At(n)]
      /\ \A i : Opt("INDEX", i) = [kind |-> kind, value |-> At(i + 1)]
  BY DEF array_option, store_option, Place
<1> HIDE DEF At
<1>5. ASSUME NEW i \in -1..(n + 1), NEW k \in Kinds \cup {"PTR"}
      PROVE  /\ array_get(a, i, k) = option_get(Opt("INDEX", i), k)
             /\ k # kind \/ i \notin 0..(n - 1) => array_get(a, i, k) = <<>>
  <2>1. array_get(a, i, k) = IF kind = k THEN At(i + 1) ELSE <<>>
    BY DEF array_get, At
  <2>2. i \notin 0..(n - 1) => i + 1 \notin 1..n
    BY <1>1
  <2>3. QED
    BY <1>2, <1>3, <2>1, <2>2 DEF option_get
<1>6. ASSUME NEW i \in -1..(n + 1), NEW v \in ValuesOf(kind)
      PROVE  option_get_or(Opt("INDEX", i), kind, v)
               = option_get(IF option_is_present(Opt("INDEX", i), kind) = <<TRUE>>
                            THEN Opt("INDEX", i) ELSE option_some(kind, v), kind)
  <2> DEFINE o == Opt("INDEX", i)
  <2>1. o.kind = kind
    BY <1>3
  <2>2. option_some(kind, v).kind = kind /\ option_some(kind, v).value = <<v>>
    BY DEF option_some, store_option
  <2> HIDE DEF o
  <2>3. CASE o.value = <<>>
    <3>1. option_is_present(o, kind) = <<FALSE>>
      BY <2>1, <2>3 DEF option_is_present
    <3>2. option_is_present(o, kind) # <<TRUE>>
      BY <3>1, OneIsOne
    <3>3. QED
      BY <2>1, <2>2, <2>3, <3>2 DEF option_get_or, option_get, o
  <2>4. CASE o.value # <<>>
    <3>1. option_is_present(o, kind) = <<TRUE>>
      BY <2>1, <2>4 DEF option_is_present
    <3>2. QED
      BY <2>1, <2>4, <3>1 DEF option_get_or, option_get, o
  <2>5. QED
    BY <2>3, <2>4
<1>7. array_is_empty(a) <=> Opt("FIRST", 0) = option_none(kind)
  <2>1. option_none(kind) = [kind |-> kind, value |-> <<>>]
    BY DEF option_none, store_option
  <2>2. a.values = <<>> <=> n = 0
    OBVIOUS
  <2>3. n = 0 <=> At(1) = <<>>
    <3>1. n = 0 => At(1) = <<>>
      BY <1>2
    <3>2. n # 0 => 1 \in 1..n
      BY <1>1
    <3>3. QED
      BY <1>2, <3>1, <3>2, OneIsNotNone
  <2>4. Opt("FIRST", 0) = option_none(kind) <=> At(1) = <<>>
    BY <1>4, <2>1
  <2>5. QED
    BY <2>2, <2>3, <2>4 DEF array_is_empty
<1>8. Opt("FIRST", 0) = Opt("INDEX", 0) /\ Opt("LAST", 0) = Opt("INDEX", n - 1)
  <2>1. 0 + 1 = 1 /\ (n - 1) + 1 = n
    BY <1>1
  <2>2. QED
    BY <1>4, <2>1
<1>9. ASSUME NEW v \in ValuesOf(kind) \ {NaN}
      PROVE  array_contains(a, v) <=> \E i \in 0..n : array_get(a, i, kind) = <<v>>
  <2>1. array_contains(a, v) <=> \E j \in 1..n : a.values[j] = v
    BY <1>1, <1>9 DEF array_contains
  <2>2. \A i \in 0..n : array_get(a, i, kind) = At(i + 1)
    BY DEF array_get, At
  <2>3. ASSUME NEW j \in 1..n, a.values[j] = v PROVE \E i \in 0..n : array_get(a, i, kind) = <<v>>
    <3>1. j - 1 \in 0..n /\ (j - 1) + 1 = j
      BY <1>1
    <3>2. array_get(a, j - 1, kind) = <<v>>
      BY <1>2, <2>2, <2>3, <3>1
    <3>3. QED
      BY <3>1, <3>2
  <2>4. ASSUME NEW i \in 0..n, array_get(a, i, kind) = <<v>> PROVE \E j \in 1..n : a.values[j] = v
    <3>1. At(i + 1) = <<v>>
      BY <2>2, <2>4
    <3>2. i + 1 \in 1..n
      BY <1>2, <3>1, OneIsNotNone
    <3>3. a.values[i + 1] = v
      BY <1>2, <3>1, <3>2, OneIsOne
    <3>4. QED
      BY <3>2, <3>3
  <2>5. QED
    BY <2>1, <2>3, <2>4
<1> HIDE DEF n, Opt
<1>10. QED
  BY <1>1, <1>5, <1>6, <1>7, <1>8, <1>9 DEF ArrayAnswers, Opt

(* A map read by key, and its size.                                        *)
LEMMA MapReads ==
  ASSUME NEW m, GoodEntries(m)
  PROVE  MapAnswers(m)
<1> DEFINE n == Len(m.entries)
           e == m.entries
           T == TableOf(m)
           eq(a, b) == values_equal(m.key_kind, a, b)
           Key(i) == KeyOf(m, e[i][1])
           Pairs(k) == {x \in T : Promised!Equal(x[1], KeyOf(m, k))}
<1>1. /\ n \in Nat /\ DOMAIN e = 1..n /\ m.key_kind \in AllKinds
      /\ e \in Seq(ValuesOf(m.key_kind) \X ValuesOf(m.value_kind))
      /\ \A i, j \in 1..n : i # j => ~eq(e[i][1], e[j][1])
  BY SeqFacts DEF GoodEntries
<1>2. \A i \in 1..n : e[i][1] \in ValuesOf(m.key_kind)
  BY EntryIs
<1>3. T = {Pair(m, i) : i \in 1..n}
  BY <1>1, TableIs
<1>4. \A i \in 1..n : Pair(m, i)[1] = Key(i) /\ Pair(m, i)[2] = e[i][2]
  BY DEF Pair
<1> HIDE DEF T
<1>5. ASSUME NEW k \in ValuesOf(m.key_kind)
      PROVE  /\ Range(map_get(m, k)) = {x[2] : x \in Pairs(k)}
             /\ map_contains(m, k) <=> Pairs(k) # {}
  <2>1. \A i \in 1..n : eq(e[i][1], k) <=> Pair(m, i) \in Pairs(k)
    <3>1. \A i \in 1..n : eq(e[i][1], k) <=> Promised!Equal(Key(i), KeyOf(m, k))
      BY <1>1, <1>2, EqualMeans DEF KeyOf
    <3>2. QED
      BY <1>3, <1>4, <3>1
  <2>2. \A x \in Pairs(k) : \E i \in 1..n : x = Pair(m, i)
    BY <1>3
  <2> HIDE DEF Pairs
  <2>3. map_contains(m, k) <=> Pairs(k) # {}
    <3>1. map_contains(m, k) <=> \E i \in 1..n : eq(e[i][1], k)
      BY <1>1 DEF map_contains
    <3>2. QED
      BY <2>1, <2>2, <3>1
  <2>4. CASE Found(m, k) = 0
    <3>1. \A i \in 1..n : ~eq(e[i][1], k)
      BY <2>4, FoundIs
    <3>2. Pairs(k) = {}
      BY <2>1, <2>2, <3>1
    <3>3. map_get(m, k) = <<>>
      BY <2>4 DEF map_get
    <3>4. Range(<<>>) = {}
      BY DEF Range
    <3>5. QED
      BY <2>3, <3>2, <3>3, <3>4
  <2>5. CASE Found(m, k) # 0
    <3> DEFINE f == Found(m, k)
    <3>1. f \in 1..n /\ eq(e[f][1], k)
      BY <1>1, <2>5, FoundIs
    <3>2. \A i \in 1..n : eq(e[i][1], k) => i = f
      BY <3>1, OneEntry
    <3>3. map_get(m, k) = <<e[f][2]>>
      BY <2>5 DEF map_get
    <3> HIDE DEF f
    <3>4. Pairs(k) = {Pair(m, f)}
      BY <2>1, <2>2, <3>1, <3>2
    <3>5. \A x : Range(<<x>>) = {x}
      BY DEF Range
    <3>6. {x[2] : x \in Pairs(k)} = {e[f][2]}
      BY <1>4, <3>1, <3>4
    <3>7. QED
      BY <2>3, <3>3, <3>5, <3>6
  <2>6. QED
    BY <2>4, <2>5 DEF Pairs
<1>6. ASSUME \A x \in T : x[1] \notin OddValues
      PROVE  n = Cardinality(T)
  <2> DEFINE f == [i \in 1..n |-> Pair(m, i)]
  <2>1. f \in [1..n -> T] /\ \A x \in T : \E i \in 1..n : f[i] = x
    BY <1>3
  <2>2. ASSUME NEW i \in 1..n, NEW j \in 1..n, f[i] = f[j] PROVE i = j
    <3>1. Pair(m, i) = Pair(m, j) /\ Pair(m, i) \in T
      BY <1>3, <2>2
    <3>2. Key(i) = Key(j) /\ Key(i) \notin OddValues
      BY <1>4, <1>6, <3>1
    <3>3. eq(e[i][1], e[j][1])
      BY <1>1, <1>2, <3>2, EqualMeans DEF Promised!Equal, KeyOf
    <3>4. QED
      BY <1>1, <3>3
  <2> HIDE DEF f
  <2>3. QED
    BY <1>1, <2>1, <2>2, CountIs
<1> HIDE DEF n
<1>7. map_length(m) = n
  BY DEF map_length, n
<1>8. QED
  BY <1>5, <1>6, <1>7 DEF MapAnswers, KeyOf, T

(* A set read by member, and its size.                                     *)
LEMMA SetReads ==
  ASSUME NEW s, s.kind \in AllKinds, s.values \in Seq(ValuesOf(s.kind)), Distinct(s.kind, s.values)
  PROVE  SetAnswers(s)
<1> DEFINE n == Len(s.values)
           w == s.values
           T == SetOf(s)
<1>1. T = Members(s.kind, w)
  BY DEF SetOf, Members
<1>2. ASSUME NEW v \in ValuesOf(s.kind)
      PROVE  set_contains(s, v) <=> \E x \in T : Promised!Equal(x, Meaning(s.kind, v))
  BY <1>1, ContainsMeans DEF set_contains
<1>3. n \in Nat /\ \A i \in 1..n : w[i] \in ValuesOf(s.kind)
  BY SeqFacts
<1>4. T = {Meaning(s.kind, w[i]) : i \in 1..n}
  BY <1>1, MembersAre DEF MembersAt
<1> HIDE DEF T
<1>5. ASSUME T \cap OddValues = {} PROVE n = Cardinality(T)
  <2> DEFINE f == [i \in 1..n |-> Meaning(s.kind, w[i])]
  <2>1. f \in [1..n -> T] /\ \A x \in T : \E i \in 1..n : f[i] = x
    BY <1>4
  <2>2. ASSUME NEW i \in 1..n, NEW j \in 1..n, f[i] = f[j] PROVE i = j
    <3>1. f[i] = Meaning(s.kind, w[i]) /\ f[j] = Meaning(s.kind, w[j]) /\ f[i] \in T
      BY <1>4
    <3>2. f[i] \notin OddValues
      BY <1>5, <3>1
    <3>3. values_equal(s.kind, w[i], w[j])
      BY <1>3, <2>2, <3>1, <3>2, EqualMeans DEF Promised!Equal
    <3>4. QED
      BY <3>3 DEF Distinct
  <2> HIDE DEF f
  <2>3. QED
    BY <1>3, <2>1, <2>2, CountIs
<1> HIDE DEF n
<1>6. QED
  BY <1>2, <1>5 DEF SetAnswers, set_length, T, n

LEMMA Includes ==
  ASSUME NEW kind \in AllKinds, NEW l \in Seq(ValuesOf(kind)), NEW r \in Seq(ValuesOf(kind)),
         Members(kind, l) \cap OddValues = {}
  PROVE  (\A i \in DOMAIN l : contains(kind, r, l[i])) <=> Members(kind, l) \subseteq Members(kind, r)
<1>1. DOMAIN l = 1..Len(l) /\ \A i \in 1..Len(l) : l[i] \in ValuesOf(kind)
  BY SeqFacts
<1>2. Members(kind, l) = {Meaning(kind, l[i]) : i \in 1..Len(l)}
  BY MembersAre DEF MembersAt
<1>3. ASSUME NEW i \in 1..Len(l)
      PROVE  contains(kind, r, l[i]) <=> Meaning(kind, l[i]) \in Members(kind, r)
  <2>1. Meaning(kind, l[i]) \notin OddValues
    BY <1>2
  <2>2. contains(kind, r, l[i])
          <=> \E x \in Members(kind, r) : Promised!Equal(x, Meaning(kind, l[i]))
    BY <1>1, ContainsMeans
  <2>3. QED
    BY <2>1, <2>2 DEF Promised!Equal
<1>4. QED
  BY <1>1, <1>2, <1>3

LEMMA SetsCompared ==
  ASSUME NEW s, NEW t, s.kind \in AllKinds, t.kind = s.kind,
         s.values \in Seq(ValuesOf(s.kind)), t.values \in Seq(ValuesOf(s.kind))
  PROVE  SetsCompare(s, t)
<1>1. SetOf(s) = Members(s.kind, s.values) /\ SetOf(t) = Members(s.kind, t.values)
  BY DEF SetOf, Members
<1>2. SUFFICES ASSUME (SetOf(s) \cup SetOf(t)) \cap OddValues = {}
               PROVE  /\ set_is_subset(s, t) = <<SetOf(s) \subseteq SetOf(t)>>
                      /\ set_is_superset(s, t) = <<SetOf(t) \subseteq SetOf(s)>>
  BY DEF SetsCompare
<1>3. (\A i \in DOMAIN s.values : contains(s.kind, t.values, s.values[i])) <=> SetOf(s) \subseteq SetOf(t)
  BY <1>1, <1>2, Includes
<1>4. (\A i \in DOMAIN t.values : contains(s.kind, s.values, t.values[i])) <=> SetOf(t) \subseteq SetOf(s)
  BY <1>1, <1>2, Includes
<1>5. set_is_subset(s, t) = <<\A i \in DOMAIN s.values : contains(s.kind, t.values, s.values[i])>>
  BY DEF set_is_subset, set_relation
<1>6. set_is_superset(s, t) = <<\A i \in DOMAIN t.values : contains(s.kind, s.values, t.values[i])>>
  BY DEF set_is_superset, set_relation
<1>7. QED
  BY <1>3, <1>4, <1>5, <1>6

LEMMA HAgrees == HInv => QueriesAgree
<1> SUFFICES ASSUME HInv PROVE QueriesAgree
  OBVIOUS
<1>1. ASSUME NEW h \in DOMAIN arrays PROVE ArrayAnswers(arrays[h])
  BY ArrayAt, ArrayReads
<1>2. ASSUME NEW h \in DOMAIN maps PROVE MapAnswers(maps[h])
  BY MapAt, MapReads
<1>3. ASSUME NEW h \in DOMAIN sets PROVE SetAnswers(sets[h])
  BY SetAt, SetReads
<1>4. ASSUME NEW h \in DOMAIN sets, NEW g \in DOMAIN sets, sets[g].kind = sets[h].kind
      PROVE  SetsCompare(sets[h], sets[g])
  BY <1>4, SetAt, SetsCompared
<1>5. QED
  BY <1>1, <1>2, <1>3, <1>4 DEF QueriesAgree

(* What the reading calls answer is what the collection holds, after any   *)
(* sequence of calls: by index, by mode and through an option; by key, by  *)
(* member and by size; and of two sets.                                    *)
THEOREM HostQueriesAgree == HostSpec => []QueriesAgree
<1>1. HostInit => HInv
  BY HStart
<1>2. HInv /\ [HostNext]_hostVars => HInv'
  BY HStep DEF hostVars, HInv
<1>3. QED
  BY <1>1, <1>2, HAgrees, PTL DEF HostSpec
=============================================================================
