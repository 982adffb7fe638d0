-------------------------- MODULE HostCollections --------------------------
(***************************************************************************)
(* The arrays, maps, sets and options of the LLVM host (hosts/llvm/src:    *)
(* array.rs, array_numeric.rs, collection_map.rs, option.rs).  Everything  *)
(* a program makes is kept in the context until shutdown, so a handle is   *)
(* the place of its object in the vector of its kind, and a call with any  *)
(* other pointer is refused.                                               *)
(*                                                                         *)
(* Maps and sets are lists searched by values_equal: texts by their bytes, *)
(* everything else by the representation, which for NaN is never equal.    *)
(* A value is a pair <<variant, payload>>; VALUE_KIND_TEXT and _PTR share  *)
(* the variant Ptr, whose payload is a pointer, and the integer kinds      *)
(* behave as I64.  Calls that only read are operators, of what they write  *)
(* to their output, as a sequence: none is written when they are refused.  *)
(* A call that would write and is refused, which changes nothing, is a     *)
(* stutter.                                                                *)
(***************************************************************************)
EXTENDS Lists, FiniteSets, FiniteSetsExt

CONSTANTS
  Bytes,       \* what each text pointer points at, or Unreadable
  Unreadable,
  Kinds,       \* the value kinds the program uses for elements
  KeyKinds,    \* those it uses for keys and members
  ValueKinds,  \* those it uses for the values of maps
  Width,       \* integers wrap at 2^Width
  MaxObjects,  \* bound: collections in the context
  MaxCells     \* bound: elements of them all

ASSUME ValueKindsAssumption == Kinds \cup KeyKinds \cup ValueKinds \subseteq {"I64", "F64", "TEXT", "PTR"}

VARIABLES arrays, maps, sets
hostVars == <<arrays, maps, sets>>

NaN == <<"F64", -1>>
ValuesOf(kind) ==
  CASE kind = "I64" -> {<<"I64", n>> : n \in 0..1}
    [] kind = "F64" -> {NaN, <<"F64", 0>>}
    [] kind \in {"TEXT", "PTR"} -> {<<"Ptr", p>> : p \in DOMAIN Bytes}

HostInit == arrays = <<>> /\ maps = <<>> /\ sets = <<>>

-----------------------------------------------------------------------------
(* Equality and search.                                                    *)

(* Two texts are the same text only when they are the same pointer.        *)
identical(kind, u, v) == u = v /\ u # NaN

text_bytes(v) == Bytes[v[2]]

values_equal(kind, u, v) ==
  IF kind # "TEXT" THEN u = v /\ u # NaN
  ELSE text_bytes(u) = text_bytes(v) /\ text_bytes(u) # Unreadable

contains(kind, values, v) == \E i \in DOMAIN values : values_equal(kind, values[i], v)
push_unique(kind, values, v) == IF contains(kind, values, v) THEN values ELSE Append(values, v)
Unique(kind, values) ==
  LET Upto[n \in 0..Len(values)] ==
        IF n = 0 THEN <<>> ELSE push_unique(kind, Upto[n - 1], values[n])
  IN  Upto[Len(values)]

(* The entry a key finds: the first, or none. *)
Found(m, k) ==
  LET hits == {i \in DOMAIN m.entries : values_equal(m.key_kind, m.entries[i][1], k)}
  IN  IF hits = {} THEN 0 ELSE Min(hits)

-----------------------------------------------------------------------------
(* Arrays.                                                                 *)

store_array(kind, values) == arrays' = Append(arrays, [kind |-> kind, values |-> values])
Assign(h, values) == arrays' = [arrays EXCEPT ![h].values = values]

array_new == \E k \in Kinds : store_array(k, <<>>)
array_push(h) ==
  \E v \in ValuesOf(arrays[h].kind) : Assign(h, Append(arrays[h].values, v))
(* The source is copied first, so an array may extend itself. *)
array_extend(h) ==
  \E s \in DOMAIN arrays :
    /\ arrays[s].kind = arrays[h].kind
    /\ Assign(h, arrays[h].values \o arrays[s].values)
array_set(h) ==
  \E i \in DOMAIN arrays[h].values, v \in ValuesOf(arrays[h].kind) :
    Assign(h, [arrays[h].values EXCEPT ![i] = v])
array_clone(h) == store_array(arrays[h].kind, arrays[h].values)
array_reverse(h) ==
  LET values == arrays[h].values
  IN  Assign(h, [i \in DOMAIN values |-> values[Len(values) + 1 - i]])

(* Bounds clamp to the length; a negative one is refused. *)
range_bounds(mode, first, second, len) ==
  LET Clamp(n) == IF n < len THEN n ELSE len
  IN  CASE mode = "SLICE" -> <<IF Clamp(first) < Clamp(second) THEN Clamp(first) ELSE Clamp(second), Clamp(second)>>
        [] mode = "TAKE" -> <<0, Clamp(first)>>
        [] mode = "TAKE_LAST" -> <<len - Clamp(first), len>>
        [] mode = "DROP_FIRST" -> <<Clamp(first), len>>
array_range(h) ==
  \E mode \in {"SLICE", "TAKE", "TAKE_LAST", "DROP_FIRST"}, first, second \in 0..(MaxCells + 1) :
    LET bounds == range_bounds(mode, first, second, Len(arrays[h].values))
    IN  store_array(arrays[h].kind, SubSeq(arrays[h].values, bounds[1] + 1, bounds[2]))

(* An option is never written once stored, so it is the value a call       *)
(* returns.  The reading modes leave the array, the removing ones take the *)
(* element with them; where there is none the option is empty.             *)
store_option(kind, value) == [kind |-> kind, value |-> value]
Elements(values, i) == IF i \in DOMAIN values THEN <<values[i]>> ELSE <<>>
Place(mode, index, values) ==
  CASE mode = "INDEX" -> index + 1
    [] mode \in {"FIRST", "REMOVE_FIRST"} -> 1
    [] mode \in {"LAST", "REMOVE_LAST"} -> Len(values)
array_option(a, mode, index) == store_option(a.kind, Elements(a.values, Place(mode, index, a.values)))
array_remove(h) ==
  LET values == arrays[h].values
  IN  /\ values # <<>>
      /\ Assign(h, Tail(values)) \/ Assign(h, SubSeq(values, 1, Len(values) - 1))

(* Integers by value, floats by total_cmp; pointers are refused. *)
Before(u, v) == u # NaN /\ (v = NaN \/ u[2] < v[2])
array_sort(h) ==
  LET values == arrays[h].values
  IN  /\ arrays[h].kind \in {"I64", "F64"}
      /\ \E p \in Bijection(DOMAIN values, DOMAIN values) :
           /\ \A i, j \in DOMAIN values : i < j => ~Before(values[p[j]], values[p[i]])
           /\ Assign(h, [i \in DOMAIN values |-> values[p[i]]])

(* The sum of an integer array wraps. *)
array_sum(a) == FoldFunction(LAMBDA v, n : (n + v[2]) % 2^Width, 0, a.values)
array_contains(a, v) == \E i \in DOMAIN a.values : a.values[i] = v /\ v # NaN

(* Indices count from 0, one that is negative or too large is refused. *)
array_length(a) == Len(a.values)
array_is_empty(a) == a.values = <<>>
array_get(a, index, kind) == IF a.kind = kind THEN Elements(a.values, index + 1) ELSE <<>>

ArrayCall ==
  /\ UNCHANGED <<maps, sets>>
  /\ \/ array_new
     \/ \E h \in DOMAIN arrays :
          \/ array_push(h) \/ array_extend(h) \/ array_set(h) \/ array_clone(h)
          \/ array_reverse(h) \/ array_range(h) \/ array_remove(h) \/ array_sort(h)

-----------------------------------------------------------------------------
(* Maps.                                                                   *)

store_map(k, v, entries) ==
  maps' = Append(maps, [key_kind |-> k, value_kind |-> v, entries |-> entries])

map_new == \E k \in KeyKinds, v \in ValueKinds : store_map(k, v, <<>>)

(* A put that never looks for the entry it should replace. *)
map_append(h) ==
  \E k \in ValuesOf(maps[h].key_kind), v \in ValuesOf(maps[h].value_kind) :
    maps' = [maps EXCEPT ![h].entries = Append(@, <<k, v>>)]

Put(h, k, v) ==
  maps' = [maps EXCEPT ![h].entries =
             LET i == Found(maps[h], k)
             IN  IF i # 0 THEN [@ EXCEPT ![i][2] = v] ELSE Append(@, <<k, v>>)]

map_put(h) ==
  \E k \in ValuesOf(maps[h].key_kind), v \in ValuesOf(maps[h].value_kind) : Put(h, k, v)

(* For maps from texts to I64, under a key that can be read. *)
aggregate_set_index_ptr_i64(h) ==
  /\ maps[h].key_kind = "TEXT" /\ maps[h].value_kind = "I64"
  /\ \E k \in ValuesOf("TEXT"), v \in ValuesOf("I64") :
       text_bytes(k) # Unreadable /\ Put(h, k, v)

map_delete(h) ==
  \E k \in ValuesOf(maps[h].key_kind) :
    maps' = [maps EXCEPT ![h].entries =
               Kept(@, {i \in DOMAIN @ : ~values_equal(maps[h].key_kind, @[i][1], k)})]

map_get(m, k) == IF Found(m, k) = 0 THEN <<>> ELSE <<m.entries[Found(m, k)][2]>>
map_contains(m, k) == \E i \in DOMAIN m.entries : values_equal(m.key_kind, m.entries[i][1], k)
map_length(m) == Len(m.entries)

map_option(m, k) == store_option(m.value_kind, map_get(m, k))

(* A snapshot holds what the entries hold, under the kind that readers of  *)
(* arrays pass: every pointer-carried kind becomes PTR.                    *)
canonical_array_element_kind(kind) == IF kind = "TEXT" THEN "PTR" ELSE kind
map_values(h) ==
  \E part \in 1..2 :
    LET m == maps[h]
    IN  store_array(canonical_array_element_kind(IF part = 1 THEN m.key_kind ELSE m.value_kind),
                    [i \in DOMAIN m.entries |-> m.entries[i][part]])

MapCall ==
  /\ UNCHANGED sets
  /\ \/ map_new /\ UNCHANGED arrays
     \/ \E h \in DOMAIN maps :
          \/ (map_put(h) \/ aggregate_set_index_ptr_i64(h) \/ map_delete(h)) /\ UNCHANGED arrays
          \/ map_values(h) /\ UNCHANGED maps

-----------------------------------------------------------------------------
(* Sets.                                                                   *)

store_set(kind, values) == sets' = Append(sets, [kind |-> kind, values |-> values])

set_new == \E k \in KeyKinds : store_set(k, <<>>)
set_add(h) ==
  \E v \in ValuesOf(sets[h].kind) :
    sets' = [sets EXCEPT ![h].values = push_unique(sets[h].kind, @, v)]
set_delete(h) ==
  \E v \in ValuesOf(sets[h].kind) :
    sets' = [sets EXCEPT ![h].values =
               Kept(@, {i \in DOMAIN @ : ~values_equal(sets[h].kind, @[i], v)})]
set_from_array(a) == store_set(arrays[a].kind, Unique(arrays[a].kind, arrays[a].values))
array_from_set(h) == store_array(sets[h].kind, sets[h].values)

Without(kind, values, others) ==
  Kept(values, {i \in DOMAIN values : ~contains(kind, others, values[i])})
set_union(kind, l, r) == Unique(kind, l \o r)
set_intersection(kind, l, r) == Kept(l, {i \in DOMAIN l : contains(kind, r, l[i])})
set_difference(kind, l, r) == Without(kind, l, r)
set_symmetric_difference(kind, l, r) == Without(kind, l, r) \o Without(kind, r, l)

set_algebra(l, r) ==
  LET kind == sets[l].kind
  IN  /\ sets[r].kind = kind
      /\ \/ store_set(kind, set_union(kind, sets[l].values, sets[r].values))
         \/ store_set(kind, set_intersection(kind, sets[l].values, sets[r].values))
         \/ store_set(kind, set_difference(kind, sets[l].values, sets[r].values))
         \/ store_set(kind, set_symmetric_difference(kind, sets[l].values, sets[r].values))

set_contains(s, v) == contains(s.kind, s.values, v)
set_length(s) == Len(s.values)
set_relation(l, r, holds) == IF l.kind = r.kind THEN <<holds>> ELSE <<>>
set_is_subset(l, r) ==
  set_relation(l, r, \A i \in DOMAIN l.values : contains(l.kind, r.values, l.values[i]))
set_is_superset(l, r) ==
  set_relation(l, r, \A i \in DOMAIN r.values : contains(l.kind, l.values, r.values[i]))

SetCall ==
  /\ UNCHANGED maps
  /\ \/ set_new /\ UNCHANGED arrays
     \/ \E a \in DOMAIN arrays : set_from_array(a) /\ UNCHANGED arrays
     \/ \E h \in DOMAIN sets :
          \/ (set_add(h) \/ set_delete(h)) /\ UNCHANGED arrays
          \/ array_from_set(h) /\ UNCHANGED sets
     \/ \E l, r \in DOMAIN sets : set_algebra(l, r) /\ UNCHANGED arrays

-----------------------------------------------------------------------------
(* Options.  A reader names the kind it expects.                           *)

option_none(kind) == store_option(kind, <<>>)
option_some(kind, v) == store_option(kind, <<v>>)
option_is_present(o, kind) == IF o.kind = kind THEN <<o.value # <<>> >> ELSE <<>>
option_get(o, kind) == IF o.kind = kind THEN o.value ELSE <<>>
option_get_or(o, kind, fallback) ==
  IF o.kind # kind THEN <<>> ELSE IF o.value = <<>> THEN <<fallback>> ELSE o.value

-----------------------------------------------------------------------------
Cells(objects, F(_)) == FoldFunction(LAMBDA o, n : n + Len(F(o)), 0, objects)
WithinBounds ==
  /\ Len(arrays') + Len(maps') + Len(sets') <= MaxObjects
  /\ Cells(arrays', LAMBDA a : a.values) + Cells(maps', LAMBDA m : m.entries)
       + Cells(sets', LAMBDA s : s.values) <= MaxCells

HostNext == (ArrayCall \/ MapCall \/ SetCall) /\ WithinBounds

HostSpec == HostInit /\ [][HostNext]_hostVars

-----------------------------------------------------------------------------
(* What a value is to the program: a text is its bytes. *)
Meaning(kind, v) == IF kind = "TEXT" THEN <<"Text", Bytes[v[2]]>> ELSE v
MeaningsOf(kind, values) == [i \in DOMAIN values |-> Meaning(kind, values[i])]
OddValues == {NaN, <<"Text", Unreadable>>}
TableOf(m) == {<<Meaning(m.key_kind, m.entries[i][1]), m.entries[i][2]>> : i \in DOMAIN m.entries}
SetOf(s) == Range(MeaningsOf(s.kind, s.values))

Promised == INSTANCE Collections WITH
  Key <- UNION {{Meaning(k, v) : v \in ValuesOf(k)} : k \in Kinds \cup KeyKinds \cup ValueKinds \cup {"PTR"}},
  Val <- UNION {ValuesOf(k) : k \in ValueKinds},
  Odd <- OddValues,
  tables <- [h \in DOMAIN maps |-> TableOf(maps[h])],
  sets <- [h \in DOMAIN sets |-> SetOf(sets[h])],
  lists <- [h \in DOMAIN arrays |-> MeaningsOf(arrays[h].kind, arrays[h].values)]

(* Every call does to the program's collections what Collections allows:   *)
(* lists searched by values_equal, appended to and filtered, behave as     *)
(* tables from texts to values and as sets, whatever sequence of calls     *)
(* (set algebra, conversions, self-extension) made them, and no call       *)
(* touches a collection it was not given.                                  *)
ImplementsCollections == Promised!Spec

(* An array read by index, by mode or through an option gives the same     *)
(* elements, to a reader that names its kind and to no other.              *)
ArrayAnswers(a) ==
  LET Opt(mode, i) == array_option(a, mode, i)
  IN  /\ \A i \in -1..(array_length(a) + 1), kind \in Kinds \cup {"PTR"} :
           /\ array_get(a, i, kind) = option_get(Opt("INDEX", i), kind)
           /\ kind # a.kind \/ i \notin 0..(array_length(a) - 1) => array_get(a, i, kind) = <<>>
           /\ \A v \in ValuesOf(a.kind) :
                option_get_or(Opt("INDEX", i), a.kind, v)
                  = option_get(IF option_is_present(Opt("INDEX", i), a.kind) = <<TRUE>>
                               THEN Opt("INDEX", i) ELSE option_some(a.kind, v), a.kind)
      /\ array_is_empty(a) <=> Opt("FIRST", 0) = option_none(a.kind)
      /\ Opt("FIRST", 0) = Opt("INDEX", 0) /\ Opt("LAST", 0) = Opt("INDEX", array_length(a) - 1)
      /\ \A v \in ValuesOf(a.kind) \ {NaN} :
           array_contains(a, v) <=> \E i \in 0..array_length(a) : array_get(a, i, a.kind) = <<v>>

(* A key finds the value of the one pair with its bytes; the size counts   *)
(* each pair once (odd keys each time).                                    *)
MapAnswers(m) ==
  LET table == TableOf(m)
  IN  /\ \A k \in ValuesOf(m.key_kind) :
           LET pairs == {e \in table : Promised!Equal(e[1], Meaning(m.key_kind, k))}
           IN  /\ Range(map_get(m, k)) = {e[2] : e \in pairs}
               /\ map_contains(m, k) <=> pairs # {}
      /\ (\A e \in table : e[1] \notin OddValues) => map_length(m) = Cardinality(table)

(* The same of members; subset and superset are those of sets.             *)
SetAnswers(s) ==
  /\ \A v \in ValuesOf(s.kind) :
       set_contains(s, v) <=> \E x \in SetOf(s) : Promised!Equal(x, Meaning(s.kind, v))
  /\ SetOf(s) \cap OddValues = {} => set_length(s) = Cardinality(SetOf(s))
SetsCompare(s, t) ==
  (SetOf(s) \cup SetOf(t)) \cap OddValues = {} =>
    /\ set_is_subset(s, t) = <<SetOf(s) \subseteq SetOf(t)>>
    /\ set_is_superset(s, t) = <<SetOf(t) \subseteq SetOf(s)>>

(* What the reading calls answer is what the collection holds.             *)
QueriesAgree ==
  /\ \A h \in DOMAIN arrays : ArrayAnswers(arrays[h])
  /\ \A h \in DOMAIN maps : MapAnswers(maps[h])
  /\ \A h \in DOMAIN sets :
       /\ SetAnswers(sets[h])
       /\ \A g \in {i \in DOMAIN sets : sets[i].kind = sets[h].kind} : SetsCompare(sets[h], sets[g])
=============================================================================
