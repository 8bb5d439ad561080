--------------------------- MODULE SqlBuilder_proofs ---------------------------
(***************************************************************************)
(* Theorems about SqlBuilder, for any columns and fields and any number of *)
(* calls: the queries keep their types, and one renders other than what    *)
(* its calls said only when it shares its memory.                          *)
(***************************************************************************)
EXTENDS SqlBuilder, SequenceTheorems, TLAPS

(* s is a sequence, of whatever elements: what a query holds or said has   *)
(* no type of its own to name, so the facts about sequences are stated for *)
(* this and not for a set of elements.                                     *)
IsSeq(s) == Len(s) \in Nat /\ s = [i \in 1 .. Len(s) |-> s[i]]

LEMMA SeqIs ==
  ASSUME NEW S, NEW s \in Seq(S)
  PROVE  IsSeq(s) /\ DOMAIN s = 1 .. Len(s)
BY DEF IsSeq

LEMMA IsSeqDomain ==
  ASSUME NEW s, IsSeq(s)
  PROVE  DOMAIN s = 1 .. Len(s)
BY DEF IsSeq

(* s is the tuple of its n elements.                                       *)
Tuple(s, n) == s = [i \in 1 .. n |-> s[i]]

LEMMA SameEnd ==
  ASSUME NEW n \in Nat, NEW m \in Nat, 1 .. m = 1 .. n
  PROVE  m = n
<1>1. \A k \in Nat : 1 <= k /\ k <= m <=> 1 <= k /\ k <= n
  <2>1. \A k \in Nat : k \in 1 .. m <=> k \in 1 .. n
    OBVIOUS
  <2> QED
    BY <2>1
<1>2. (1 <= m => m <= n) /\ (1 <= n => n <= m)
  BY <1>1
<1> QED
  BY <1>2

LEMMA TupleIs ==
  ASSUME NEW n \in Nat, NEW s, Tuple(s, n)
  PROVE  IsSeq(s) /\ Len(s) = n
<1> DEFINE S == {s[i] : i \in 1 .. n}
<1>1. \A i \in 1 .. n : s[i] \in S
  OBVIOUS
<1> HIDE DEF S
<1>2. s \in Seq(S)
  BY <1>1, SeqDef DEF Tuple
<1>3. DOMAIN s = 1 .. Len(s) /\ Len(s) \in Nat
  BY <1>2
<1>4. DOMAIN s = 1 .. n
  BY DEF Tuple
<1>5. Len(s) = n
  BY <1>3, <1>4, SameEnd
<1>6. IsSeq(s)
  BY <1>2, SeqIs
<1> QED
  BY <1>5, <1>6

LEMMA AppendIs ==
  ASSUME NEW s, IsSeq(s), NEW x
  PROVE  /\ IsSeq(Append(s, x)) /\ Len(Append(s, x)) = Len(s) + 1
         /\ \A i \in 1 .. Len(s) : Append(s, x)[i] = s[i]
         /\ Append(s, x)[Len(s) + 1] = x
<1> DEFINE S == {s[i] : i \in 1 .. Len(s)} \cup {x}
<1>1. s \in Seq(S)
  <2>1. \A i \in 1 .. Len(s) : s[i] \in S
    OBVIOUS
  <2> HIDE DEF S
  <2> QED
    BY <2>1, SeqDef DEF IsSeq
<1>2. x \in S
  OBVIOUS
<1> HIDE DEF S
<1>3. Append(s, x) \in Seq(S)
  BY <1>1, <1>2
<1>4. IsSeq(Append(s, x))
  BY <1>3, SeqIs
<1>5. /\ Len(Append(s, x)) = Len(s) + 1
      /\ \A i \in 1 .. Len(s) : Append(s, x)[i] = s[i]
      /\ Append(s, x)[Len(s) + 1] = x
  BY <1>1, <1>2
<1> QED
  BY <1>4, <1>5

LEMMA EmptyIs == IsSeq(<<>>) /\ Len(<<>>) = 0
BY DEF IsSeq
-----------------------------------------------------------------------------
(* The inductive invariant.                                                *)
From(h) == queries[h].from
List(h, l) == queries[h].lists[l]
Said(h, l) == queries[h].said.lists[l]

(* A query the h was made from was used twice; and it had room.            *)
Reused(h) == \E k \in From(h) : uses[k] > 1
Shared(h) == \E k \in From(h) : uses[k] > 1 /\ \E l \in Lists : Room(List(k, l))

(* The memory, and the records of the queries.                             *)
Memory ==
  /\ IsSeq(heap) /\ IsSeq(maps) /\ IsSeq(queries) /\ IsSeq(uses)
  /\ \A a \in 1 .. Len(heap) : IsSeq(heap[a]) /\ Len(heap[a]) > 0
  /\ Len(uses) = Len(queries)
  /\ \A h \in Handles : uses[h] \in Nat

Formed(q) ==
  /\ q.kind \in Kinds
  /\ q = [kind |-> q.kind, lists |-> q.lists, fields |-> q.fields, map |-> q.map,
          rows |-> q.rows, from |-> q.from, said |-> q.said]
  /\ q.said = [lists |-> q.said.lists, fields |-> q.said.fields, set |-> q.said.set,
               rows |-> q.said.rows]
  /\ q.lists = [l \in Lists |-> q.lists[l]]
  /\ q.said.lists = [l \in Lists |-> q.said.lists[l]]
  /\ q.fields = [f \in Fields |-> q.fields[f]] /\ q.said.fields = q.fields
  /\ IsSeq(q.rows) /\ IsSeq(q.said.rows) /\ Len(q.said.rows) = Len(q.rows)
  /\ q.kind \notin {"bulk", "ondup"} => q.rows = <<>>

(* A list fits in its array, and no array is of two kinds of lists.        *)
Fits(q) ==
  \A l \in Lists :
    /\ q.lists[l].arr \in 0 .. Len(heap) /\ q.lists[l].len \in Nat
    /\ q.lists[l].arr # 0 => q.lists[l].len <= Len(heap[q.lists[l].arr])
    /\ q.lists[l].arr = 0 => q.lists[l].len = 0
    /\ IsSeq(q.said.lists[l]) /\ Len(q.said.lists[l]) = q.lists[l].len

Mapped(q) ==
  /\ q.map \in 0 .. Len(maps) /\ (q.map # 0) = (q.kind \in Sets)
  /\ q.map = 0 => q.said.set = {}
  /\ \A i \in 1 .. Len(q.rows) : q.rows[i] \in 1 .. Len(maps) /\ q.rows[i] # q.map

Made(h) ==
  /\ From(h) \subseteq Handles \ {h}
  /\ \A k \in From(h) : /\ uses[k] > 0 /\ queries[k].kind # "bulk"
                        /\ From(k) \subseteq From(h)

Apart ==
  \A h, g \in Handles : \A l, m \in Lists :
    List(h, l).arr # 0 /\ List(h, l).arr = List(g, m).arr => l = m

(* The queries whose list is in one array are a tree.                      *)
Below(k, h, l) ==
  k \in From(h) /\ List(k, l).arr = List(h, l).arr /\ List(k, l).len <= List(h, l).len
Kin(h, g, l) ==
  \/ h = g \/ Below(h, g, l) \/ Below(g, h, l)
  \/ \E k \in Handles : uses[k] > 1 /\ Below(k, h, l) /\ Below(k, g, l)
ListTree ==
  \A h, g \in Handles : \A l \in Lists :
    List(h, l).arr # 0 /\ List(h, l).arr = List(g, l).arr => Kin(h, g, l)

(* So are those with one map, with the queries that have it as a row.      *)
HasMap(h, m) == queries[h].map = m \/ \E i \in 1 .. Len(queries[h].rows) : queries[h].rows[i] = m
MapTree ==
  \A h, g \in Handles :
    queries[g].map # 0 /\ HasMap(h, queries[g].map) =>
      \/ h = g \/ h \in From(g) \/ g \in From(h)
      \/ \E k \in Handles : uses[k] > 1 /\ k \in From(h) /\ k \in From(g)

(* An entry is what was said: a condition, or the list of a query that     *)
(* holds conditions only.                                                  *)
Same(h, e, s) ==
  /\ e = [is |-> e.is, of |-> e.of] /\ s = [is |-> e.is, of |-> s.of]
  /\ \/ e.of = <<>> /\ s.of = <<>>
     \/ \E k \in From(h) :
          /\ e.of = <<List(k, "where")>> /\ s.of = <<Said(k, "where")>>
          /\ \A i \in 1 .. Len(Said(k, "where")) : Said(k, "where")[i].of = <<>>
Listed(h) ==
  ~Shared(h) =>
    \A l \in Lists : \A i \in 1 .. List(h, l).len :
      Same(h, heap[List(h, l).arr][i], Said(h, l)[i])
Valued(h) ==
  ~Reused(h) /\ uses[h] = 0 =>
    /\ queries[h].map # 0 => maps[queries[h].map] = queries[h].said.set
    /\ \A i \in 1 .. Len(queries[h].rows) : maps[queries[h].rows[i]] = queries[h].said.rows[i]

BuilderInv ==
  /\ Memory
  /\ \A h \in Handles : Formed(queries[h])
  /\ \A h \in Handles : Fits(queries[h])
  /\ \A h \in Handles : Mapped(queries[h])
  /\ \A h \in Handles : Made(h)
  /\ Apart /\ ListTree /\ MapTree
  /\ \A h \in Handles : Listed(h)
  /\ \A h \in Handles : Valued(h)
-----------------------------------------------------------------------------
(* What append does: the array of the slice is written where the slice     *)
(* ends when it has room, and is copied to a new one otherwise.            *)
Slice(s) ==
  /\ s.arr \in 0 .. Len(heap) /\ s.len \in Nat
  /\ s.arr # 0 => s.len <= Len(heap[s.arr])
  /\ s.arr = 0 => s.len = 0
Overwritten(s, a, i) == Room(s) /\ a = s.arr /\ i = s.len + 1
Written(s, x, t) ==
  /\ IsSeq(heap') /\ Len(heap') \in Nat /\ Len(heap') >= Len(heap)
  /\ \A a \in 1 .. Len(heap') : IsSeq(heap'[a]) /\ Len(heap'[a]) > 0
  /\ \A a \in 1 .. Len(heap) :
       /\ Len(heap'[a]) = Len(heap[a])
       /\ \A i \in 1 .. Len(heap[a]) : ~Overwritten(s, a, i) => heap'[a][i] = heap[a][i]
  /\ t.arr \in 1 .. Len(heap') /\ t.len = s.len + 1 /\ t.len <= Len(heap'[t.arr])
  /\ heap'[t.arr][t.len] = x
  /\ \A i \in 1 .. s.len : heap'[t.arr][i] = heap[s.arr][i]
  /\ Room(s) => t.arr = s.arr
  /\ ~Room(s) => t.arr = Len(heap) + 1

LEMMA AppendWrites ==
  ASSUME Memory, NEW s, Slice(s), NEW x, Appended(s, x)
  PROVE  Written(s, x, AppendedSlice(s))
<1> DEFINE t == AppendedSlice(s)
<1> SUFFICES Written(s, x, t)
  OBVIOUS
<1> USE DEF Slice
<1>1. /\ IsSeq(heap) /\ Len(heap) \in Nat /\ DOMAIN heap = 1 .. Len(heap)
      /\ \A a \in 1 .. Len(heap) : /\ IsSeq(heap[a]) /\ Len(heap[a]) \in Nat
                                   /\ Len(heap[a]) > 0 /\ DOMAIN heap[a] = 1 .. Len(heap[a])
  BY IsSeqDomain DEF Memory, IsSeq
<1>2. t.len = s.len + 1 /\ t.arr = IF Room(s) THEN s.arr ELSE Len(heap) + 1
  BY DEF AppendedSlice
<1>3. CASE Room(s)
  <2> DEFINE A == [heap[s.arr] EXCEPT ![s.len + 1] = x]
  <2>1. s.arr \in 1 .. Len(heap) /\ s.len + 1 \in 1 .. Len(heap[s.arr])
    BY <1>1, <1>3 DEF Room
  <2>2. heap' = [heap EXCEPT ![s.arr] = A]
    BY <1>3 DEF Appended
  <2>3. IsSeq(A) /\ Len(A) = Len(heap[s.arr])
    <3>1. Tuple(A, Len(heap[s.arr]))
      BY <1>1, <2>1 DEF Tuple
    <3> HIDE DEF A
    <3> QED
      BY <1>1, <2>1, <3>1, TupleIs
  <2>4. A[s.len + 1] = x /\ \A i \in 1 .. Len(heap[s.arr]) : i # s.len + 1 => A[i] = heap[s.arr][i]
    BY <1>1, <2>1
  <2> HIDE DEF A
  <2>5. IsSeq(heap') /\ Len(heap') = Len(heap)
    <3>1. Tuple(heap', Len(heap))
      BY <1>1, <2>2 DEF Tuple
    <3> QED
      BY <1>1, <3>1, TupleIs
  <2>6. heap'[s.arr] = A /\ \A a \in 1 .. Len(heap) : a # s.arr => heap'[a] = heap[a]
    BY <1>1, <2>1, <2>2
  <2>7. t.arr = s.arr
    BY <1>2, <1>3
  <2> HIDE DEF t
  <2>8. \A a \in 1 .. Len(heap') : IsSeq(heap'[a]) /\ Len(heap'[a]) > 0
    BY <1>1, <2>1, <2>3, <2>5, <2>6
  <2>9. \A a \in 1 .. Len(heap) :
         /\ Len(heap'[a]) = Len(heap[a])
         /\ \A i \in 1 .. Len(heap[a]) : ~Overwritten(s, a, i) => heap'[a][i] = heap[a][i]
    BY <1>3, <2>3, <2>4, <2>6 DEF Overwritten
  <2>10. \A i \in 1 .. s.len : heap'[t.arr][i] = heap[s.arr][i]
    <3>1. \A i \in 1 .. s.len : i \in 1 .. Len(heap[s.arr]) /\ i # s.len + 1
      BY <1>1, <2>1
    <3>2. \A i \in 1 .. s.len : A[i] = heap[s.arr][i]
      BY <2>4, <3>1
    <3> QED
      BY <2>6, <2>7, <3>2
  <2>11. t.len <= Len(heap'[t.arr]) /\ heap'[t.arr][t.len] = x
    BY <1>1, <1>2, <2>1, <2>3, <2>4, <2>6, <2>7
  <2> QED
    BY <1>1, <1>2, <1>3, <2>1, <2>5, <2>7, <2>8, <2>9, <2>10, <2>11 DEF Written
<1>4. CASE ~Room(s)
  <2> DEFINE cap == NewCap(s)
             A == [i \in 1 .. cap |->
                     IF i <= s.len THEN heap[s.arr][i]
                     ELSE IF i = s.len + 1 THEN x ELSE [is |-> 0, of |-> <<>>]]
  <2>1. heap' = Append(heap, A)
    BY <1>4 DEF Appended
  <2>2. cap \in Nat /\ s.len + 1 \in 1 .. cap
    BY <1>1, <1>4 DEF NewCap, Room
  <2> HIDE DEF cap
  <2>3. IsSeq(A) /\ Len(A) = cap
    <3>1. Tuple(A, cap)
      BY DEF Tuple
    <3> HIDE DEF A
    <3> QED
      BY <2>2, <3>1, TupleIs
  <2>4. A[s.len + 1] = x /\ \A i \in 1 .. s.len : A[i] = heap[s.arr][i]
    BY <2>2
  <2> HIDE DEF A
  <2>5. /\ IsSeq(heap') /\ Len(heap') = Len(heap) + 1
        /\ \A a \in 1 .. Len(heap) : heap'[a] = heap[a]
        /\ heap'[Len(heap) + 1] = A
    BY <1>1, <2>1, AppendIs
  <2>6. t.arr = Len(heap) + 1
    BY <1>2, <1>4
  <2> HIDE DEF t
  <2>7. \A a \in 1 .. Len(heap') : IsSeq(heap'[a]) /\ Len(heap'[a]) > 0
    BY <1>1, <2>2, <2>3, <2>5
  <2>8. t.len <= Len(heap'[t.arr]) /\ heap'[t.arr][t.len] = x
    BY <1>2, <2>2, <2>3, <2>4, <2>5, <2>6
  <2> QED
    BY <1>1, <1>2, <1>4, <2>4, <2>5, <2>6, <2>7, <2>8 DEF Written
<1> QED
  BY <1>3, <1>4

(* What a call that returns the query n, q, and uses those of S does.      *)
Called(n, q, S) ==
  /\ n \in Nat /\ n \notin Handles /\ Handles' = Handles \cup {n}
  /\ IsSeq(queries') /\ IsSeq(uses') /\ Len(uses') = Len(queries')
  /\ \A h \in Handles : queries'[h] = queries[h]
  /\ queries'[n] = q
  /\ \A h \in Handles : uses'[h] = IF h \in S THEN uses[h] + 1 ELSE uses[h]
  /\ uses'[n] = 0

LEMMA HandlesAre == Memory => /\ Handles = 1 .. Len(queries) /\ Len(queries) \in Nat
                              /\ DOMAIN uses = Handles
BY IsSeqDomain DEF Memory, Handles, IsSeq

LEMMA UsedIs ==
  ASSUME Memory, NEW S
  PROVE  /\ IsSeq(Used(S)) /\ Len(Used(S)) = Len(queries)
         /\ \A h \in Handles : Used(S)[h] = IF h \in S THEN uses[h] + 1 ELSE uses[h]
<1>1. DOMAIN uses = 1 .. Len(queries) /\ Len(queries) \in Nat
  BY HandlesAre
<1>2. Tuple(Used(S), Len(queries))
  BY <1>1 DEF Tuple, Used
<1>3. \A h \in Handles : Used(S)[h] = IF h \in S THEN uses[h] + 1 ELSE uses[h]
  BY HandlesAre DEF Used
<1> QED
  BY <1>1, <1>2, <1>3, TupleIs

LEMMA CallsMake ==
  ASSUME Memory, NEW q, NEW S, queries' = Append(queries, q), uses' = Append(Used(S), 0)
  PROVE  Called(Len(queries) + 1, q, S)
<1>1. /\ IsSeq(queries') /\ Len(queries') = Len(queries) + 1
      /\ \A h \in 1 .. Len(queries) : queries'[h] = queries[h]
      /\ queries'[Len(queries) + 1] = q
  BY AppendIs DEF Memory
<1>2. /\ IsSeq(uses') /\ Len(uses') = Len(queries) + 1
      /\ \A h \in 1 .. Len(queries) : uses'[h] = Used(S)[h]
      /\ uses'[Len(queries) + 1] = 0
  BY UsedIs, AppendIs
<1>3. Handles' = 1 .. Len(queries')
  BY <1>1, IsSeqDomain DEF Handles
<1>4. Handles' = Handles \cup {Len(queries) + 1} /\ Len(queries) + 1 \notin Handles
  BY <1>1, <1>3, HandlesAre
<1> QED
  BY <1>1, <1>2, <1>4, HandlesAre, UsedIs DEF Called

(* What every call leaves of the queries made before: their lists and maps *)
(* and what was said for the lists; a bulk insert may get more sources.    *)
Evolves ==
  /\ \A h \in Handles :
       /\ h \in Handles' /\ uses'[h] \in Nat /\ uses'[h] >= uses[h]
       /\ From(h) \subseteq From(h)'
       /\ queries'[h].lists = queries[h].lists
       /\ queries'[h].said.lists = queries[h].said.lists
       /\ queries'[h].map = queries[h].map
       /\ queries'[h].said.set = queries[h].said.set
  /\ Len(heap') \in Nat /\ Len(heap') >= Len(heap)
  /\ \A a \in 1 .. Len(heap) : Len(heap'[a]) = Len(heap[a])

ListsSound ==
  /\ Memory /\ \A h \in Handles : Fits(queries[h])
  /\ \A h \in Handles : Made(h)

LEMMA ListFits ==
  ASSUME ListsSound, NEW h \in Handles, NEW l \in Lists
  PROVE  /\ Slice(List(h, l)) /\ Len(heap) \in Nat /\ List(h, l).arr # Len(heap) + 1
         /\ List(h, l).arr # 0 =>
              List(h, l).arr \in 1 .. Len(heap) /\ Len(heap[List(h, l).arr]) \in Nat
<1>1. Slice(List(h, l))
  BY DEF ListsSound, Fits, List, Slice
<1>2. Len(heap) \in Nat /\ \A a \in 1 .. Len(heap) : Len(heap[a]) \in Nat
  BY DEF ListsSound, Memory, IsSeq
<1> QED
  BY <1>1, <1>2 DEF Slice

LEMMA ListStays ==
  ASSUME Evolves, NEW h \in Handles, NEW l \in Lists
  PROVE  List(h, l)' = List(h, l) /\ Said(h, l)' = Said(h, l)
BY DEF Evolves, List, Said

LEMMA RoomStays ==
  ASSUME ListsSound, Evolves, NEW h \in Handles, NEW l \in Lists
  PROVE  Room(List(h, l))' = Room(List(h, l))
<1>1. List(h, l)' = List(h, l)
  BY ListStays
<1>2. List(h, l).arr \in 0 .. Len(heap) /\ Len(heap) \in Nat
  BY DEF ListsSound, Fits, Memory, IsSeq, List
<1>3. List(h, l).arr # 0 => Len(heap'[List(h, l).arr]) = Len(heap[List(h, l).arr])
  BY <1>2 DEF Evolves
<1> QED
  BY <1>1, <1>3 DEF Room

LEMMA Remembered ==
  ASSUME ListsSound, Evolves, NEW h \in Handles
  PROVE  (Shared(h) => Shared(h)') /\ (Reused(h) => Reused(h)')
<1>1. \A k \in From(h) : /\ k \in Handles /\ k \in From(h)'
                         /\ uses[k] > 1 => uses'[k] > 1
  BY DEF ListsSound, Made, Evolves, Memory
<1>2. \A k \in From(h), l \in Lists : Room(List(k, l)) => Room(List(k, l))'
  BY <1>1, RoomStays
<1> QED
  BY <1>1, <1>2 DEF Shared, Reused

LEMMA KinStays ==
  ASSUME ListsSound, Evolves, NEW h \in Handles, NEW g \in Handles, NEW l \in Lists, Kin(h, g, l)
  PROVE  Kin(h, g, l)'
<1>1. \A x, y \in Handles : Below(x, y, l) => Below(x, y, l)'
  BY ListStays DEF Below, Evolves
<1>2. \A k \in Handles : k \in Handles' /\ (uses[k] > 1 => uses'[k] > 1)
  BY DEF Evolves, ListsSound, Memory
<1> QED
  BY <1>1, <1>2 DEF Kin

LEMMA KinTurns == \A h, g, l : Kin(h, g, l) => Kin(g, h, l)
BY DEF Kin

(* A query whose list goes on where that of g is, or is it, is related to  *)
(* whatever g is related to: a query g was not made from shares a query    *)
(* with it that is now used twice.                                         *)
LEMMA ChildIsKin ==
  ASSUME ListsSound, ListTree, Evolves, NEW n, NEW q, NEW S, Called(n, q, S), q.from = Sources(S),
         NEW g \in S \cap Handles, NEW l \in Lists,
         q.lists[l].arr = List(g, l).arr, q.lists[l].len \in Nat,
         q.lists[l].len >= List(g, l).len,
         NEW h \in Handles, List(h, l).arr # 0, List(h, l).arr = q.lists[l].arr
  PROVE  Kin(h, n, l)'
<1>1. Kin(h, g, l)
  BY DEF ListTree
<1>2. List(n, l)' = q.lists[l] /\ From(n)' = q.from
  BY DEF Called, List, From
<1>3. g \in q.from /\ From(g) \subseteq q.from
  BY DEF Sources, From
<1>4. \A x \in Handles : List(x, l)' = List(x, l) /\ List(x, l).len \in Nat
  BY ListStays DEF ListsSound, Fits, List
<1>5. Below(g, n, l)'
  BY <1>2, <1>3, <1>4 DEF Below
<1>6. \A x \in Handles : Below(x, g, l) => Below(x, n, l)'
  BY <1>2, <1>3, <1>4 DEF Below
<1>7. \A x \in Handles : Below(g, x, l) => Below(g, x, l)' /\ g \in Handles' /\ uses'[g] > 1
  <2>1. \A x \in Handles : g \in From(x) => uses[g] > 0
    BY DEF ListsSound, Made
  <2>2. uses'[g] = uses[g] + 1 /\ uses[g] \in Nat
    BY DEF Called, ListsSound, Memory
  <2>3. \A x \in Handles : From(x) \subseteq From(x)' /\ g \in Handles'
    BY DEF Evolves
  <2> QED
    BY <1>4, <2>1, <2>2, <2>3 DEF Below
<1>8. \A k, x \in Handles : /\ Below(k, x, l) => Below(k, x, l)'
                           /\ k \in Handles' /\ (uses[k] > 1 => uses'[k] > 1)
  BY <1>4 DEF Below, Evolves, ListsSound, Memory
<1>0. n \in Handles' /\ g \in Handles'
  BY DEF Called
<1>9. CASE h = g
  BY <1>5, <1>9 DEF Kin
<1>10. CASE Below(h, g, l)
  BY <1>6, <1>10 DEF Kin
<1>11. CASE Below(g, h, l)
  BY <1>5, <1>7, <1>11 DEF Kin
<1>12. CASE \E k \in Handles : uses[k] > 1 /\ Below(k, h, l) /\ Below(k, g, l)
  BY <1>6, <1>8, <1>12 DEF Kin
<1> QED
  BY <1>1, <1>9, <1>10, <1>11, <1>12 DEF Kin

(* A query whose lists are those of g, but that the list l goes on, in     *)
(* place or in a new array.                                                *)
Continues(q, g, l) ==
  /\ \A m \in Lists \ {l} : q.lists[m] = List(g, m)
  /\ q.lists[l].len \in Nat
  /\ \/ q.lists[l].arr = Len(heap) + 1
     \/ q.lists[l].arr = List(g, l).arr /\ q.lists[l].len >= List(g, l).len
Begins(q) == \A l \in Lists : q.lists[l].arr = 0
BeginsOrContinues(q, S) ==
  Begins(q) \/ \E g \in S \cap Handles, l \in Lists : Continues(q, g, l)

LEMMA NewList ==
  ASSUME ListsSound, NEW q, NEW S, BeginsOrContinues(q, S), NEW l \in Lists, q.lists[l].arr # 0
  PROVE  \/ q.lists[l].arr = Len(heap) + 1 /\ \A m \in Lists : q.lists[m].arr = q.lists[l].arr => m = l
         \/ \E g \in S \cap Handles :
              /\ q.lists[l].arr = List(g, l).arr /\ q.lists[l].len \in Nat
              /\ q.lists[l].len >= List(g, l).len
<1>1. PICK g \in S \cap Handles, k \in Lists : Continues(q, g, k)
  BY DEF BeginsOrContinues, Begins
<1>2. \A m \in Lists : List(g, m).len \in Nat /\ List(g, m).arr \in 0 .. Len(heap) /\ Len(heap) \in Nat
  BY DEF ListsSound, Fits, List, Memory, IsSeq
<1>3. CASE l # k
  BY <1>1, <1>2, <1>3 DEF Continues
<1>4. CASE l = k
  BY <1>1, <1>2, <1>4 DEF Continues
<1> QED
  BY <1>3, <1>4

LEMMA ListsKeep ==
  ASSUME ListsSound, Apart, ListTree, Evolves, NEW n, NEW q, NEW S, Called(n, q, S),
         q.from = Sources(S), BeginsOrContinues(q, S)
  PROVE  Apart' /\ ListTree'
<1>1. \A h \in Handles, l \in Lists :
        List(h, l)' = List(h, l) /\ List(h, l).arr # Len(heap) + 1
  BY ListStays, ListFits
<1>2. \A l \in Lists : List(n, l)' = q.lists[l]
  BY DEF Called, List
<1>3. Handles' = Handles \cup {n}
  BY DEF Called
<1>4. \A h \in Handles, l, m \in Lists :
        q.lists[l].arr # 0 /\ q.lists[l].arr = List(h, m).arr => l = m
  <2> TAKE h \in Handles, l, m \in Lists
  <2> HAVE q.lists[l].arr # 0 /\ q.lists[l].arr = List(h, m).arr
  <2>1. PICK g \in Handles : q.lists[l].arr = List(g, l).arr
    BY <1>1, NewList
  <2> QED
    BY <2>1 DEF Apart
<1>5. \A l, m \in Lists : q.lists[l].arr # 0 /\ q.lists[l].arr = q.lists[m].arr => l = m
  <2> TAKE l, m \in Lists
  <2> HAVE q.lists[l].arr # 0 /\ q.lists[l].arr = q.lists[m].arr
  <2>1. CASE \E g \in Handles : q.lists[l].arr = List(g, l).arr
    BY <1>4, <2>1
  <2> QED
    BY <2>1, NewList
<1>6. Apart'
  BY <1>1, <1>2, <1>3, <1>4, <1>5 DEF Apart
<1>7. \A h \in Handles, l \in Lists :
        List(h, l).arr # 0 /\ List(h, l).arr = q.lists[l].arr => Kin(h, n, l)' /\ Kin(n, h, l)'
  <2> TAKE h \in Handles, l \in Lists
  <2> HAVE List(h, l).arr # 0 /\ List(h, l).arr = q.lists[l].arr
  <2>1. PICK g \in S \cap Handles :
          /\ q.lists[l].arr = List(g, l).arr /\ q.lists[l].len \in Nat
          /\ q.lists[l].len >= List(g, l).len
    BY <1>1, NewList
  <2>2. Kin(h, n, l)'
    BY <2>1, ChildIsKin
  <2> QED
    BY <2>2, KinTurns DEF Kin
<1>8. \A h, g \in Handles, l \in Lists :
        List(h, l).arr # 0 /\ List(h, l).arr = List(g, l).arr => Kin(h, g, l)'
  BY KinStays DEF ListTree
<1>9. \A l \in Lists : Kin(n, n, l)'
  BY DEF Kin
<1>10. ListTree'
  BY <1>1, <1>2, <1>3, <1>7, <1>8, <1>9 DEF ListTree
<1> QED
  BY <1>6, <1>10

(* An append writes where a list of another query stands only when that    *)
(* query shares the array, with room: it was made from one used twice.     *)
LEMMA OldListed ==
  ASSUME ListsSound, Apart, ListTree, Evolves,
         NEW g \in Handles, NEW m \in Lists, uses'[g] > uses[g],
         \A a \in 1 .. Len(heap) : \A i \in 1 .. Len(heap[a]) :
           ~Overwritten(List(g, m), a, i) => heap'[a][i] = heap[a][i],
         NEW h \in Handles, Listed(h), ~Shared(h)', NEW l \in Lists, NEW i \in 1 .. List(h, l).len
  PROVE  /\ heap'[List(h, l).arr][i] = heap[List(h, l).arr][i]
         /\ Same(h, heap[List(h, l).arr][i], Said(h, l)[i])
<1> DEFINE a == List(h, l).arr
<1>1. ~Shared(h)
  BY Remembered
<1>2. Same(h, heap[a][i], Said(h, l)[i])
  BY <1>1 DEF Listed
<1>3. a \in 1 .. Len(heap) /\ i \in 1 .. Len(heap[a])
  <2>1. List(h, l).arr # 0 /\ i \in 1 .. Len(heap[List(h, l).arr])
    BY ListFits DEF Slice
  <2> QED
    BY <2>1, ListFits
<1>4. ASSUME Overwritten(List(g, m), a, i) PROVE FALSE
  <2>1. Room(List(g, m)) /\ a = List(g, m).arr /\ i = List(g, m).len + 1
    BY <1>4 DEF Overwritten
  <2>2. l = m /\ Kin(h, g, l)
    BY <1>3, <2>1 DEF Apart, ListTree
  <2>3. \A k \in Handles : /\ List(k, l).len \in Nat /\ uses[k] \in Nat /\ uses'[k] \in Nat
                           /\ (k \in From(h) => uses[k] > 0) /\ uses'[k] >= uses[k]
    BY DEF ListsSound, Fits, List, Made, Memory, Evolves
  <2>4. \A k \in Handles : k \in From(h) => k \in From(h)'
    BY DEF Evolves
  <2>5. \A k \in Handles : uses'[k] > 1 /\ k \in From(h) => ~Room(List(k, l))
    BY <2>4, RoomStays DEF Shared
  <2>6. CASE h = g
    BY <2>1, <2>2, <2>3, <2>6
  <2>7. CASE Below(h, g, l)
    BY <2>1, <2>2, <2>3, <2>7 DEF Below
  <2>8. CASE Below(g, h, l)
    BY <2>1, <2>2, <2>3, <2>5, <2>8 DEF Below
  <2>9. CASE \E k \in Handles : uses[k] > 1 /\ Below(k, h, l) /\ Below(k, g, l)
    <3>1. PICK k \in Handles : uses[k] > 1 /\ Below(k, h, l) /\ Below(k, g, l)
      BY <2>9
    <3>2. Room(List(k, l))
      <4>1. List(k, l).arr = List(g, l).arr /\ List(k, l).len <= List(g, l).len
        BY <3>1 DEF Below
      <4>2. List(g, l).arr # 0 /\ List(g, l).len < Len(heap[List(g, l).arr])
        BY <2>1, <2>2 DEF Room
      <4>3. Len(heap[List(g, l).arr]) \in Nat
        BY <1>3, <2>1, <2>2 DEF ListsSound, Memory, IsSeq
      <4> QED
        BY <2>3, <4>1, <4>2, <4>3 DEF Room
    <3> QED
      BY <2>3, <2>5, <3>1, <3>2 DEF Below
  <2> QED
    BY <2>2, <2>6, <2>7, <2>8, <2>9 DEF Kin
<1> QED
  BY <1>2, <1>3, <1>4

(* The queries a call uses are none of them bulk inserts, and the new one  *)
(* was made from them and from all they were made from.                    *)
LEMMA MadeKeeps ==
  ASSUME Memory, \A h \in Handles : Made(h), NEW n, NEW q, NEW S, Called(n, q, S),
         q.from = Sources(S), S \subseteq Handles, \A k \in S : queries[k].kind # "bulk"
  PROVE  \A h \in Handles' : Made(h)'
<1>1. Handles' = Handles \cup {n} /\ n \notin Handles
  BY DEF Called
<1>2. \A k \in Handles : /\ queries'[k] = queries[k] /\ uses[k] \in Nat /\ uses'[k] \in Nat
                         /\ uses'[k] >= uses[k] /\ (k \in S => uses'[k] > 0)
  BY DEF Called, Memory
<1>3. ASSUME NEW h \in Handles PROVE Made(h)'
  BY <1>1, <1>2 DEF Made, From
<1>4. Made(n)'
  <2>1. From(n)' = Sources(S)
    BY DEF Called, From
  <2>2. ASSUME NEW k \in Sources(S)
        PROVE  /\ k \in Handles /\ uses'[k] > 0 /\ queries[k].kind # "bulk"
               /\ From(k) \subseteq Sources(S)
    <3>1. CASE k \in S
      BY <1>2, <3>1 DEF Sources, From
    <3>2. CASE k \notin S
      <4>1. PICK g \in S : k \in From(g)
        BY <3>2 DEF Sources, From
      <4>2. k \in Handles /\ uses[k] > 0 /\ queries[k].kind # "bulk" /\ From(k) \subseteq From(g)
        BY <4>1 DEF Made
      <4>3. From(g) \subseteq Sources(S)
        BY <4>1 DEF Sources, From
      <4> QED
        BY <1>2, <4>2, <4>3
    <3> QED
      BY <3>1, <3>2
  <2>3. \A k \in Sources(S) : From(k)' = From(k) /\ queries'[k] = queries[k]
    BY <1>2, <2>2 DEF From
  <2> QED
    BY <1>1, <2>1, <2>2, <2>3 DEF Made
<1> QED
  BY <1>1, <1>3, <1>4

(* A query whose maps are those of queries used, or new, is related to     *)
(* whatever they are related to.                                           *)
HasMapOf(q, m) == q.map = m \/ \E i \in 1 .. Len(q.rows) : q.rows[i] = m
Related(h, g) ==
  \/ h = g \/ h \in From(g) \/ g \in From(h)
  \/ \E k \in Handles : uses[k] > 1 /\ k \in From(h) /\ k \in From(g)

LEMMA RelatedStays ==
  ASSUME ListsSound, Evolves, NEW h \in Handles, NEW g \in Handles, Related(h, g)
  PROVE  Related(h, g)'
<1>1. \A x \in Handles : /\ x \in Handles' /\ From(x) \subseteq From(x)'
                         /\ (uses[x] > 1 => uses'[x] > 1)
  BY DEF Evolves, ListsSound, Memory
<1> QED
  BY <1>1 DEF Related

(* What is related to a query that is now used is so to one made from it.  *)
LEMMA UserIsRelated ==
  ASSUME ListsSound, Evolves, NEW g \in Handles, uses'[g] > uses[g],
         NEW n \in Handles', g \in From(n)', From(g) \subseteq From(n)',
         NEW h \in Handles, Related(h, g) \/ Related(g, h)
  PROVE  Related(h, n)' /\ Related(n, h)'
<1>1. \A x \in Handles : /\ x \in Handles' /\ From(x) \subseteq From(x)'
                         /\ uses[x] \in Nat /\ uses'[x] \in Nat
                         /\ (uses[x] > 1 => uses'[x] > 1)
                         /\ (g \in From(x) => uses[g] > 0)
  BY DEF Evolves, ListsSound, Memory, Made
<1>2. CASE h = g \/ h \in From(g)
  BY <1>1, <1>2 DEF Related
<1>3. CASE g \in From(h)
  BY <1>1, <1>3 DEF Related
<1>4. CASE \E k \in Handles : uses[k] > 1 /\ k \in From(h) /\ k \in From(g)
  BY <1>1, <1>4 DEF Related
<1> QED
  BY <1>2, <1>3, <1>4 DEF Related

Sharing(q, S) ==
  /\ q.map \in 1 .. Len(maps) => \E g \in S : queries[g].map = q.map
  /\ \A m \in 1 .. Len(maps) : HasMapOf(q, m) => \E g \in S : HasMap(g, m)

LEMMA MapsKeep ==
  ASSUME ListsSound, \A h \in Handles : Mapped(queries[h]), MapTree, Evolves,
         NEW n, NEW q, NEW S, Called(n, q, S), q.from = Sources(S), S \subseteq Handles,
         Sharing(q, S), \A h \in Handles : queries'[h] = queries[h]
  PROVE  MapTree'
<1>1. \A h \in Handles : HasMap(h, queries[h].map)
  BY DEF HasMap
<1>2. \A h \in Handles : /\ queries[h].map # 0 => queries[h].map \in 1 .. Len(maps)
                         /\ \A m : HasMap(h, m) /\ m # 0 => m \in 1 .. Len(maps)
  <2>1. Len(maps) \in Nat
    BY DEF ListsSound, Memory, IsSeq
  <2> QED
    BY <2>1 DEF Mapped, HasMap
<1>3. Handles' = Handles \cup {n} /\ queries'[n] = q /\ n \in Handles' /\ n \notin Handles
  BY DEF Called
<1>4. \A g \in S : /\ uses'[g] > uses[g] /\ g \in From(n)' /\ From(g) \subseteq From(n)'
  <2>1. \A g \in S : uses'[g] > uses[g]
    BY DEF Called, ListsSound, Memory
  <2> QED
    BY <1>3, <2>1 DEF Sources, From
<1>5. \A h, g \in Handles : queries[g].map # 0 /\ HasMap(h, queries[g].map) => Related(h, g)
  BY DEF MapTree, Related
<1>8. ASSUME NEW h \in Handles, NEW g \in Handles, queries[g].map # 0, HasMap(h, queries[g].map)
      PROVE  Related(h, g)'
  BY <1>5, <1>8, RelatedStays
<1>9. ASSUME NEW h \in Handles, q.map # 0, HasMap(h, q.map)
      PROVE  Related(h, n)'
  <2>1. PICK g \in S : queries[g].map = q.map
    BY <1>2, <1>9 DEF Sharing
  <2>2. Related(h, g)
    BY <1>5, <1>9, <2>1
  <2> QED
    BY <1>3, <1>4, <2>1, <2>2, UserIsRelated
<1>10. ASSUME NEW h \in Handles, queries[h].map # 0, HasMapOf(q, queries[h].map)
      PROVE  Related(n, h)'
  <2>1. PICK g \in S : HasMap(g, queries[h].map)
    BY <1>2, <1>10 DEF Sharing
  <2>2. Related(g, h)
    BY <1>5, <1>10, <2>1
  <2> QED
    BY <1>3, <1>4, <2>1, <2>2, UserIsRelated
<1>11. Related(n, n)'
  BY DEF Related
<1>12. ASSUME NEW h \in Handles', NEW g \in Handles',
              (queries[g].map # 0 /\ HasMap(h, queries[g].map))'
       PROVE  Related(h, g)'
  <2>1. CASE h \in Handles /\ g \in Handles
    BY <1>8, <1>12, <2>1 DEF HasMap
  <2>2. CASE h \in Handles /\ g = n
    BY <1>3, <1>9, <1>12, <2>2 DEF HasMap
  <2>3. CASE h = n /\ g \in Handles
    BY <1>3, <1>10, <1>12, <2>3 DEF HasMap, HasMapOf
  <2> QED
    BY <1>3, <1>11, <2>1, <2>2, <2>3
<1> QED
  BY <1>12 DEF MapTree, Related

(* What a put into the map of g changes is a value of another query only   *)
(* when that one is used or was made from one used twice.                  *)
LEMMA OldValued ==
  ASSUME ListsSound, MapTree, Evolves,
         NEW g \in Handles, uses'[g] > uses[g], queries[g].map # 0,
         NEW h \in Handles, ~Reused(h)', uses'[h] = 0
  PROVE  ~HasMap(h, queries[g].map)
<1> SUFFICES ASSUME HasMap(h, queries[g].map) PROVE FALSE
  OBVIOUS
<1>1. Related(h, g)
  BY DEF MapTree, Related
<1>2. \A x \in Handles : /\ From(x) \subseteq From(x)' /\ uses[x] \in Nat /\ uses'[x] \in Nat
                         /\ uses'[x] >= uses[x]
                         /\ \A k \in From(x) : uses[k] > 0
  BY DEF Evolves, ListsSound, Memory, Made
<1> QED
  BY <1>1, <1>2 DEF Related, Reused

LEMMA FirstUse ==
  ASSUME ListsSound, Evolves, NEW g \in Handles, uses'[g] > uses[g],
         NEW n \in Handles', g \in From(n)', From(g) \subseteq From(n)', ~Reused(n)'
  PROVE  uses[g] = 0 /\ ~Reused(g)
<1>1. uses'[g] \in Nat /\ uses[g] \in Nat
  BY DEF Evolves, ListsSound, Memory
<1>2. \A k \in From(g) : k \in Handles /\ uses[k] \in Nat /\ uses'[k] \in Nat /\ uses'[k] >= uses[k]
  BY DEF Evolves, ListsSound, Memory, Made
<1> QED
  BY <1>1, <1>2 DEF Reused

HeapKeeps ==
  /\ IsSeq(heap') /\ Len(heap') \in Nat /\ Len(heap') >= Len(heap)
  /\ \A a \in 1 .. Len(heap') : IsSeq(heap'[a]) /\ Len(heap'[a]) > 0
  /\ \A a \in 1 .. Len(heap) : Len(heap'[a]) = Len(heap[a])

LEMMA CallEvolves ==
  ASSUME Memory, HeapKeeps, NEW n, NEW q, NEW S, Called(n, q, S)
  PROVE  Evolves
<1>1. \A h \in Handles : uses[h] \in Nat
  BY DEF Memory
<1>2. \A h \in Handles : uses'[h] \in Nat /\ uses'[h] >= uses[h]
  BY <1>1 DEF Called
<1>3. \A h \in Handles : h \in Handles' /\ From(h) \subseteq From(h)'
  BY DEF Called, From
<1> QED
  BY <1>2, <1>3 DEF Called, HeapKeeps, Evolves

LEMMA HeapSame == ASSUME Memory, UNCHANGED heap PROVE HeapKeeps
BY DEF Memory, HeapKeeps, IsSeq

LEMMA WhereIsList == "where" \in Lists
BY DEF Lists

LEMMA SameStays ==
  ASSUME ListsSound, Evolves, NEW h \in Handles, NEW n \in Handles', From(h) \subseteq From(n)',
         NEW e, NEW s, Same(h, e, s)
  PROVE  Same(n, e, s)'
<1>1. \A k \in From(h) : /\ k \in From(n)'
                         /\ List(k, "where")' = List(k, "where")
                         /\ Said(k, "where")' = Said(k, "where")
  BY ListStays, WhereIsList DEF ListsSound, Made
<1> QED
  BY <1>1 DEF Same

LEMMA ListedSame ==
  ASSUME ListsSound, Evolves, UNCHANGED heap, NEW h \in Handles, Listed(h)
  PROVE  Listed(h)'
<1>1. h \in Handles' /\ From(h) \subseteq From(h)'
  BY DEF Evolves
<1>2. SUFFICES ASSUME ~Shared(h)', NEW l \in Lists, NEW i \in 1 .. List(h, l)'.len
               PROVE  Same(h, heap[List(h, l).arr][i], Said(h, l)[i])'
  BY DEF Listed
<1>3. List(h, l)' = List(h, l) /\ Said(h, l)' = Said(h, l)
  BY ListStays
<1>4. Same(h, heap[List(h, l).arr][i], Said(h, l)[i])
  BY <1>2, <1>3, Remembered DEF Listed
<1> DEFINE e == heap[List(h, l).arr][i]
           s == Said(h, l)[i]
<1>5. \A x, y : Same(h, x, y) => Same(h, x, y)'
  BY <1>1, SameStays
<1>6. \A x, y : x = e /\ y = s => Same(h, x, y)'
  BY <1>4, <1>5
<1>7. e' = e /\ s' = s
  BY <1>3
<1> QED
  BY <1>6, <1>7 DEF Same

LEMMA Inherited ==
  ASSUME ListsSound, Evolves, NEW g \in Handles, NEW n, From(g) \subseteq From(n)'
  PROVE  (Shared(g) => Shared(n)') /\ (Reused(g) => Reused(n)')
<1>1. \A k \in From(g) : /\ k \in Handles /\ k \in From(n)'
                         /\ (uses[k] > 1 => uses'[k] > 1)
  BY DEF ListsSound, Made, Evolves, Memory
<1>2. \A k \in From(g), l \in Lists : Room(List(k, l)) => Room(List(k, l))'
  BY <1>1, RoomStays
<1> QED
  BY <1>1, <1>2 DEF Shared, Reused

(* The new query has the lists of one it was made from, or none.           *)
LEMMA ListedChild ==
  ASSUME ListsSound, Evolves, UNCHANGED heap, NEW n, NEW q, NEW S, Called(n, q, S),
         q.from = Sources(S), NEW g \in S \cap Handles, Listed(g),
         q.lists = queries[g].lists, q.said.lists = queries[g].said.lists
  PROVE  Listed(n)'
<1>1. n \in Handles' /\ From(g) \subseteq From(n)'
  BY DEF Called, Sources, From
<1>2. SUFFICES ASSUME ~Shared(n)', NEW l \in Lists, NEW i \in 1 .. List(n, l)'.len
               PROVE  Same(n, heap[List(n, l).arr][i], Said(n, l)[i])'
  BY DEF Listed
<1>3. List(n, l)' = List(g, l) /\ Said(n, l)' = Said(g, l)
  BY DEF Called, List, Said
<1>4. Same(g, heap[List(g, l).arr][i], Said(g, l)[i])
  BY <1>2, <1>3, <1>1, Inherited DEF Listed
<1> DEFINE e == heap[List(g, l).arr][i]
           s == Said(g, l)[i]
<1>5. \A x, y : Same(g, x, y) => Same(n, x, y)'
  BY <1>1, SameStays
<1>6. \A x, y : x = e /\ y = s => Same(n, x, y)'
  BY <1>4, <1>5
<1>7. (heap[List(n, l).arr][i])' = e /\ (Said(n, l)[i])' = s
  BY <1>3
<1> QED
  BY <1>6, <1>7 DEF Same

LEMMA ListedNone ==
  ASSUME NEW n, NEW q, NEW S, Called(n, q, S), \A l \in Lists : q.lists[l].len = 0
  PROVE  Listed(n)'
<1>1. \A l \in Lists : List(n, l)'.len = 0
  BY DEF Called, List
<1> QED
  BY <1>1 DEF Listed

LEMMA ValuedSame ==
  ASSUME ListsSound, Evolves, UNCHANGED maps, NEW h \in Handles, queries'[h] = queries[h], Valued(h)
  PROVE  Valued(h)'
<1>1. uses[h] \in Nat /\ uses'[h] \in Nat /\ uses'[h] >= uses[h]
  BY DEF ListsSound, Memory, Evolves
<1> QED
  BY <1>1, Remembered DEF Valued

LEMMA ValuedChild ==
  ASSUME ListsSound, Evolves, UNCHANGED maps, NEW n, NEW q, NEW S, Called(n, q, S),
         q.from = Sources(S), NEW g \in S \cap Handles, Valued(g), q.map = queries[g].map,
         q.rows = queries[g].rows, q.said.set = queries[g].said.set,
         q.said.rows = queries[g].said.rows
  PROVE  Valued(n)'
<1>1. /\ n \in Handles' /\ From(n)' = q.from /\ queries'[n] = q
      /\ g \in From(n)' /\ From(g) \subseteq From(n)'
  BY DEF Called, Sources, From
<1>2. uses'[g] > uses[g]
  BY DEF Called, ListsSound, Memory
<1>3. ~Reused(n)' => uses[g] = 0 /\ ~Reused(g)
  BY <1>1, <1>2, FirstUse
<1> QED
  BY <1>1, <1>3 DEF Valued

(* All that a call that returns a query has to keep.                       *)
LEMMA CallKeeps ==
  ASSUME BuilderInv, NEW n, NEW q, NEW S, Called(n, q, S), q.from = Sources(S),
         S \subseteq Handles, \A k \in S : queries[k].kind # "bulk", HeapKeeps,
         IsSeq(maps'), Len(maps') >= Len(maps),
         Formed(q), Fits(q)', Mapped(q)', BeginsOrContinues(q, S), Sharing(q, S),
         \A h \in Handles : Listed(h)' /\ Valued(h)', Listed(n)', Valued(n)'
  PROVE  BuilderInv'
<1>1. ListsSound
  BY DEF BuilderInv, ListsSound
<1>2. Evolves
  BY CallEvolves DEF BuilderInv
<1>3. Handles' = Handles \cup {n} /\ queries'[n] = q /\ \A h \in Handles : queries'[h] = queries[h]
  BY DEF Called
<1>4. Memory'
  <2>1. \A h \in Handles' : uses'[h] \in Nat
    BY <1>2 DEF Called, Evolves
  <2> QED
    BY <2>1 DEF Memory, HeapKeeps, Called
<1>5. \A h \in Handles' : Formed(queries[h])'
  <2>1. ASSUME NEW h \in Handles' PROVE Formed(queries'[h])
    BY <1>3 DEF BuilderInv
  <2> QED
    BY <2>1 DEF Formed
<1>6. \A h \in Handles' : Fits(queries[h])'
  <2>1. ASSUME NEW h \in Handles PROVE Fits(queries[h])'
    <3>1. Fits(queries[h]) /\ Len(heap) \in Nat
      BY DEF BuilderInv, Memory, IsSeq
    <3> DEFINE p == queries[h]
    <3>2. p' = p
      BY <1>3
    <3>3. \A l \in Lists :
            /\ p.lists[l].arr \in 0 .. Len(heap') /\ p.lists[l].len \in Nat
            /\ p.lists[l].arr # 0 => p.lists[l].len <= Len(heap'[p.lists[l].arr])
            /\ p.lists[l].arr = 0 => p.lists[l].len = 0
            /\ IsSeq(p.said.lists[l]) /\ Len(p.said.lists[l]) = p.lists[l].len
      <4> TAKE l \in Lists
      <4>1. /\ p.lists[l].arr \in 0 .. Len(heap) /\ p.lists[l].len \in Nat
            /\ p.lists[l].arr # 0 => p.lists[l].len <= Len(heap[p.lists[l].arr])
            /\ p.lists[l].arr = 0 => p.lists[l].len = 0
            /\ IsSeq(p.said.lists[l]) /\ Len(p.said.lists[l]) = p.lists[l].len
        BY <3>1 DEF Fits
      <4> DEFINE a == p.lists[l].arr
      <4> HIDE DEF p
      <4>2. a \in 0 .. Len(heap)
        BY <4>1
      <4>3. Len(heap) \in Nat /\ Len(heap') \in Nat /\ Len(heap') >= Len(heap)
        BY <3>1 DEF HeapKeeps
      <4>4. a \in 0 .. Len(heap')
        BY <4>2, <4>3
      <4>5. a # 0 => Len(heap'[a]) = Len(heap[a])
        BY <4>2, <4>3 DEF HeapKeeps
      <4> QED
        BY <4>1, <4>4, <4>5
    <3> HIDE DEF p
    <3>4. Fits(p)'
      BY <3>2, <3>3 DEF Fits
    <3> QED
      BY <3>4 DEF p
  <2> QED
    BY <1>3, <2>1 DEF Fits
<1>7. \A h \in Handles' : Mapped(queries[h])'
  <2>1. ASSUME NEW h \in Handles PROVE Mapped(queries[h])'
    <3>1. Mapped(queries[h]) /\ Len(maps) \in Nat /\ Len(maps') \in Nat
      BY DEF BuilderInv, Memory, IsSeq
    <3> QED
      BY <1>3, <3>1 DEF Mapped
  <2> QED
    BY <1>3, <2>1 DEF Mapped
<1>8. \A h \in Handles' : Made(h)'
  BY MadeKeeps DEF BuilderInv
<1>9. Apart' /\ ListTree'
  BY <1>1, <1>2, ListsKeep DEF BuilderInv
<1>10. MapTree'
  BY <1>1, <1>2, <1>3, MapsKeep DEF BuilderInv
<1> QED
  BY <1>3, <1>4, <1>5, <1>6, <1>7, <1>8, <1>9, <1>10 DEF BuilderInv

LEMMA SaidIs ==
  ASSUME NEW a, NEW b, NEW c, NEW d, NEW r,
         r = [lists |-> a, fields |-> b, set |-> c, rows |-> d]
  PROVE  r.lists = a /\ r.fields = b /\ r.set = c /\ r.rows = d
OBVIOUS

(* A query is formed when its parts are.                                   *)
IsQuery(r, a, b, c, d, e, f, sb, ss, sr) ==
  r = [kind |-> a, lists |-> b, fields |-> c, map |-> d, rows |-> e, from |-> f,
       said |-> [lists |-> sb, fields |-> c, set |-> ss, rows |-> sr]]
AreParts(a, b, c, e, sb, sr) ==
  /\ a \in Kinds /\ b = [l \in Lists |-> b[l]] /\ c = [k \in Fields |-> c[k]]
  /\ IsSeq(e) /\ IsSeq(sr) /\ Len(sr) = Len(e) /\ (a \notin {"bulk", "ondup"} => e = <<>>)
  /\ sb = [l \in Lists |-> sb[l]]

LEMMA QueryFormed ==
  ASSUME NEW a, NEW b, NEW c, NEW d, NEW e, NEW f, NEW sb, NEW ss, NEW sr, NEW r,
         AreParts(a, b, c, e, sb, sr), IsQuery(r, a, b, c, d, e, f, sb, ss, sr)
  PROVE  /\ Formed(r) /\ r.kind = a /\ r.lists = b /\ r.map = d /\ r.rows = e /\ r.from = f
         /\ r.said.lists = sb /\ r.said.set = ss /\ r.said.rows = sr
<1>1. /\ r.kind = a /\ r.lists = b /\ r.fields = c /\ r.map = d
      /\ r.rows = e /\ r.from = f
      /\ r.said = [lists |-> sb, fields |-> c, set |-> ss, rows |-> sr]
  BY DEF IsQuery
<1>2. r.said.lists = sb /\ r.said.fields = c /\ r.said.set = ss /\ r.said.rows = sr
  BY <1>1, SaidIs
<1>3. /\ r = [kind |-> r.kind, lists |-> r.lists, fields |-> r.fields, map |-> r.map,
              rows |-> r.rows, from |-> r.from, said |-> r.said]
      /\ r.said = [lists |-> r.said.lists, fields |-> r.said.fields, set |-> r.said.set,
                   rows |-> r.said.rows]
  BY <1>1, <1>2 DEF IsQuery
<1>4. Formed(r)
  BY <1>1, <1>2, <1>3 DEF Formed, AreParts
<1> QED
  BY <1>1, <1>2, <1>4

(* A query that begins has no lists and no values.                         *)
BegunAs(q, kind, map, rows, from, srows) ==
  q = Query(kind, map, rows, from,
            [lists |-> [l \in Lists |-> <<>>], fields |-> Unset, set |-> {}, rows |-> srows])

LEMMA QueryIs ==
  ASSUME NEW kind \in Kinds, NEW map, NEW rows, NEW from, NEW srows, NEW q,
         BegunAs(q, kind, map, rows, from, srows),
         IsSeq(rows), IsSeq(srows), Len(srows) = Len(rows),
         kind \notin {"bulk", "ondup"} => rows = <<>>
  PROVE  /\ Formed(q) /\ q.kind = kind /\ q.map = map /\ q.rows = rows /\ q.from = from
         /\ q.said.set = {} /\ q.said.rows = srows
         /\ \A l \in Lists : q.lists[l] = Nil /\ q.said.lists[l] = <<>>
<1> DEFINE ls == [l \in Lists |-> Nil]
           ss == [l \in Lists |-> <<>>]
<1>1. IsQuery(q, kind, ls, Unset, map, rows, from, ss, {}, srows)
  BY DEF BegunAs, Query, IsQuery
<1>2. AreParts(kind, ls, Unset, rows, ss, srows)
  BY DEF AreParts, Unset
<1>3. \A l \in Lists : ls[l] = Nil /\ ss[l] = <<>>
  OBVIOUS
<1> HIDE DEF ls, ss
<1> QED
  BY <1>1, <1>2, <1>3, QueryFormed

LEMMA BeginKeeps ==
  ASSUME BuilderInv, NEW n, NEW q, NEW S, Called(n, q, S), q.from = Sources(S),
         S \subseteq Handles, \A k \in S : queries[k].kind # "bulk",
         IsSeq(maps'), Len(maps') >= Len(maps), \A m \in 1 .. Len(maps) : maps'[m] = maps[m],
         Formed(q), Mapped(q)', Sharing(q, S), UNCHANGED heap,
         \A l \in Lists : q.lists[l] = Nil /\ q.said.lists[l] = <<>>, Valued(n)'
  PROVE  BuilderInv'
<1>1. ListsSound /\ HeapKeeps
  BY HeapSame DEF BuilderInv, ListsSound
<1>2. Evolves
  BY <1>1, CallEvolves DEF BuilderInv
<1>3. \A l \in Lists : q.lists[l].arr = 0 /\ q.lists[l].len = 0
  BY DEF Nil
<1>4. Fits(q)'
  <2>1. Len(heap') \in Nat
    BY <1>1 DEF HeapKeeps
  <2> QED
    BY <1>3, <2>1, EmptyIs DEF Fits
<1>5. BeginsOrContinues(q, S)
  BY <1>3 DEF BeginsOrContinues, Begins
<1>6. ASSUME NEW h \in Handles PROVE Listed(h)' /\ Valued(h)'
  <2>1. Listed(h)'
    BY <1>1, <1>2, ListedSame DEF BuilderInv
  <2>2. Valued(h) /\ Mapped(queries[h]) /\ queries'[h] = queries[h] /\ Len(maps) \in Nat
    BY DEF BuilderInv, Called, Memory, IsSeq
  <2>3. /\ queries[h].map # 0 => maps'[queries[h].map] = maps[queries[h].map]
        /\ \A i \in 1 .. Len(queries[h].rows) :
             maps'[queries[h].rows[i]] = maps[queries[h].rows[i]]
    BY <2>2 DEF Mapped
  <2>4. uses[h] \in Nat /\ uses'[h] \in Nat /\ uses'[h] >= uses[h]
    BY <1>1, <1>2 DEF ListsSound, Memory, Evolves
  <2>5. Valued(h)'
    BY <1>1, <1>2, <2>2, <2>3, <2>4, Remembered DEF Valued
  <2> QED
    BY <2>1, <2>5
<1>7. Listed(n)'
  BY <1>3, ListedNone
<1> QED
  BY <1>1, <1>4, <1>5, <1>6, <1>7, CallKeeps

LEMMA MapGrows ==
  ASSUME Memory, NEW x, maps' = Append(maps, x)
  PROVE  /\ IsSeq(maps') /\ Len(maps) \in Nat /\ Len(maps') = Len(maps) + 1
         /\ \A m \in 1 .. Len(maps) : maps'[m] = maps[m]
         /\ maps'[Len(maps) + 1] = x
<1>1. IsSeq(maps) /\ Len(maps) \in Nat
  BY DEF Memory, IsSeq
<1> QED
  BY <1>1, AppendIs

LEMMA NewKeeps ==
  ASSUME BuilderInv, NEW kind \in Kinds, New(kind)
  PROVE  BuilderInv'
<1>0. PICK m : m = IF kind \in Sets THEN Len(maps) + 1 ELSE 0
  OBVIOUS
<1>q. PICK q : q = Query(kind, m, <<>>, {}, Said0)
  OBVIOUS
<1>1. Memory /\ kind # "ondup" /\ UNCHANGED heap
  BY DEF BuilderInv, New
<1>2. uses' = Append(Used({}), 0) /\ Sources({}) = {}
  <2>1. Used({}) = uses
    <3>1. uses = [i \in 1 .. Len(uses) |-> uses[i]]
      BY <1>1 DEF Memory, IsSeq
    <3> QED
      BY <3>1 DEF Used
  <2> QED
    BY <2>1 DEF New, Sources
<1>3. queries' = Append(queries, q)
  BY <1>0, <1>q DEF New, Adds
<1>4. PICK k : Called(k, q, {})
  BY <1>1, <1>2, <1>3, CallsMake
<1>5. /\ Formed(q) /\ q.kind = kind /\ q.map = m /\ q.rows = <<>> /\ q.from = {}
      /\ q.said.set = {} /\ q.said.rows = <<>>
      /\ \A l \in Lists : q.lists[l] = Nil /\ q.said.lists[l] = <<>>
  <2>1. BegunAs(q, kind, m, <<>>, {}, <<>>)
    BY <1>q DEF BegunAs, Said0
  <2> QED
    BY <2>1, EmptyIs, QueryIs
<1>6. /\ IsSeq(maps') /\ Len(maps) \in Nat /\ Len(maps') \in Nat /\ Len(maps') >= Len(maps)
      /\ \A i \in 1 .. Len(maps) : maps'[i] = maps[i]
      /\ kind \in Sets => Len(maps') = Len(maps) + 1 /\ maps'[Len(maps) + 1] = {}
  <2>1. IsSeq(maps) /\ Len(maps) \in Nat
    BY <1>1 DEF Memory, IsSeq
  <2>2. CASE kind \in Sets
    BY <1>1, <2>2, MapGrows DEF New
  <2>3. CASE kind \notin Sets
    BY <2>1, <2>3 DEF New
  <2> QED
    BY <2>2, <2>3
<1>7. Mapped(q)'
  BY <1>0, <1>5, <1>6, EmptyIs DEF Mapped
<1>8. Sharing(q, {})
  BY <1>0, <1>5, <1>6, EmptyIs DEF Sharing, HasMapOf
<1>9. Valued(k)'
  <2>1. queries'[k] = q
    BY <1>4 DEF Called
  <2>2. q.map # 0 => maps'[q.map] = {}
    BY <1>0, <1>5, <1>6
  <2>3. \A i \in 1 .. Len(<<>>) : FALSE
    BY EmptyIs
  <2> QED
    BY <1>5, <2>1, <2>2, <2>3 DEF Valued
<1> QED
  BY <1>1, <1>2, <1>4, <1>5, <1>6, <1>7, <1>8, <1>9, BeginKeeps

(* The queries that calls return: a field set, a value put, a list grown.  *)
AssignedAs(q, p, f, c, from) ==
  q = [p EXCEPT !.fields[f] = c, !.said.fields[f] = c, !.from = from]
PutAs(q, p, S, from) == q = [p EXCEPT !.said.set = S, !.from = from]
ContinuedAs(q, p, l, t, x, from) ==
  q = [p EXCEPT !.lists[l] = t, !.said.lists[l] = Append(@, x), !.from = from]

LEMMA AssignIs ==
  ASSUME NEW p, Formed(p), NEW f \in Fields, NEW c, NEW from, NEW q, AssignedAs(q, p, f, c, from)
  PROVE  /\ Formed(q) /\ q.kind = p.kind /\ q.lists = p.lists /\ q.map = p.map
         /\ q.rows = p.rows /\ q.from = from /\ q.said.lists = p.said.lists
         /\ q.said.set = p.said.set /\ q.said.rows = p.said.rows
<1> DEFINE fs == [p.fields EXCEPT ![f] = c]
<1>1. IsQuery(q, p.kind, p.lists, fs, p.map, p.rows, from,
              p.said.lists, p.said.set, p.said.rows)
  BY DEF AssignedAs, Formed, IsQuery
<1>2. AreParts(p.kind, p.lists, fs, p.rows, p.said.lists, p.said.rows)
  BY DEF Formed, AreParts
<1> HIDE DEF fs
<1> QED
  BY <1>1, <1>2, QueryFormed

LEMMA PutIs ==
  ASSUME NEW p, Formed(p), NEW S, NEW from, NEW q, PutAs(q, p, S, from)
  PROVE  /\ Formed(q) /\ q.kind = p.kind /\ q.lists = p.lists /\ q.map = p.map
         /\ q.rows = p.rows /\ q.from = from /\ q.said.lists = p.said.lists
         /\ q.said.set = S /\ q.said.rows = p.said.rows
<1>1. IsQuery(q, p.kind, p.lists, p.fields, p.map, p.rows, from, p.said.lists, S, p.said.rows)
  BY DEF PutAs, Formed, IsQuery
<1>2. AreParts(p.kind, p.lists, p.fields, p.rows, p.said.lists, p.said.rows)
  BY DEF Formed, AreParts
<1> QED
  BY <1>1, <1>2, QueryFormed

LEMMA ContinueIs ==
  ASSUME NEW p, Formed(p), NEW l \in Lists, NEW t, NEW x, NEW from,
         NEW q, ContinuedAs(q, p, l, t, x, from)
  PROVE  /\ Formed(q) /\ q.kind = p.kind /\ q.map = p.map /\ q.rows = p.rows /\ q.from = from
         /\ q.said.set = p.said.set /\ q.said.rows = p.said.rows
         /\ \A m \in Lists : /\ q.lists[m] = IF m = l THEN t ELSE p.lists[m]
                             /\ q.said.lists[m] = IF m = l THEN Append(p.said.lists[l], x)
                                                  ELSE p.said.lists[m]
<1> DEFINE ls == [p.lists EXCEPT ![l] = t]
           ss == [p.said.lists EXCEPT ![l] = Append(p.said.lists[l], x)]
<1>1. IsQuery(q, p.kind, ls, p.fields, p.map, p.rows, from, ss, p.said.set, p.said.rows)
  BY DEF ContinuedAs, Formed, IsQuery
<1>2. AreParts(p.kind, ls, p.fields, p.rows, ss, p.said.rows)
  BY DEF Formed, AreParts
<1>4. /\ \A m \in Lists : /\ ls[m] = IF m = l THEN t ELSE p.lists[m]
                          /\ ss[m] = IF m = l THEN Append(p.said.lists[l], x) ELSE p.said.lists[m]
      /\ ls = [m \in Lists |-> ls[m]] /\ ss = [m \in Lists |-> ss[m]]
  BY DEF Formed
<1> HIDE DEF ls, ss
<1> QED
  <2>1. /\ Formed(q) /\ q.kind = p.kind /\ q.map = p.map /\ q.rows = p.rows /\ q.from = from
        /\ q.said.set = p.said.set /\ q.said.rows = p.said.rows
        /\ q.lists = ls /\ q.said.lists = ss
    BY <1>1, <1>2, QueryFormed
  <2>2. \A m \in Lists : /\ ls[m] = IF m = l THEN t ELSE p.lists[m]
                         /\ ss[m] = IF m = l THEN Append(p.said.lists[l], x) ELSE p.said.lists[m]
    BY <1>4
  <2> QED
    BY <2>1, <2>2

(* A call that changes no array returns a query with the lists and maps of *)
(* the one it was called on.                                               *)
LEMMA ChildKeeps ==
  ASSUME BuilderInv, NEW g \in Handles, queries[g].kind # "bulk",
         NEW n, NEW q, Called(n, q, {g}), q.from = Sources({g}), UNCHANGED heap,
         Formed(q), q.kind = queries[g].kind, q.lists = queries[g].lists,
         q.said.lists = queries[g].said.lists, q.map = queries[g].map, q.rows = queries[g].rows,
         q.map = 0 => q.said.set = {},
         IsSeq(maps'), Len(maps') = Len(maps),
         \A h \in Handles : Valued(h)', Valued(n)'
  PROVE  BuilderInv'
<1>1. ListsSound /\ HeapKeeps
  BY HeapSame DEF BuilderInv, ListsSound
<1>2. Evolves
  BY <1>1, CallEvolves DEF BuilderInv
<1>3. Fits(q)'
  <2>1. Fits(queries[g])
    BY DEF BuilderInv
  <2> QED
    BY <2>1 DEF Fits
<1>4. Mapped(q)'
  <2>1. Mapped(queries[g])
    BY DEF BuilderInv
  <2> QED
    BY <2>1 DEF Mapped
<1>5. Sharing(q, {g})
  BY DEF Sharing, HasMapOf, HasMap
<1>6. BeginsOrContinues(q, {g})
  <2>1. q.lists["where"].len \in Nat
    BY WhereIsList DEF BuilderInv, Fits
  <2>2. Continues(q, g, "where")
    BY <2>1 DEF Continues, List
  <2> QED
    BY <2>2, WhereIsList DEF BeginsOrContinues
<1>7. ASSUME NEW h \in Handles PROVE Listed(h)'
  BY <1>1, <1>2, ListedSame DEF BuilderInv
<1>8. Listed(n)'
  BY <1>1, <1>2, ListedChild DEF BuilderInv
<1>9. Len(maps) \in Nat
  BY DEF BuilderInv, Memory, IsSeq
<1> QED
  BY <1>1, <1>3, <1>4, <1>5, <1>6, <1>7, <1>8, <1>9, CallKeeps

LEMMA AssignKeeps ==
  ASSUME BuilderInv, NEW h \in Handles, NEW f \in Fields, Assign(h, f)
  PROVE  BuilderInv'
<1>1. PICK c : c = Call
  OBVIOUS
<1>2. PICK q : AssignedAs(q, queries[h], f, c, Sources({h}))
  BY DEF AssignedAs
<1>3. queries' = Append(queries, q) /\ queries[h].kind = "select"
  BY <1>1, <1>2 DEF Assign, Adds, AssignedAs, Is
<1>4. PICK n : Called(n, q, {h})
  BY <1>3, CallsMake DEF Assign, BuilderInv
<1>5. /\ Formed(q) /\ q.kind = queries[h].kind /\ q.lists = queries[h].lists
      /\ q.map = queries[h].map /\ q.rows = queries[h].rows /\ q.from = Sources({h})
      /\ q.said.lists = queries[h].said.lists
      /\ q.said.set = queries[h].said.set /\ q.said.rows = queries[h].said.rows
  BY <1>2, AssignIs DEF BuilderInv
<1>6. UNCHANGED heap /\ UNCHANGED maps /\ ListsSound /\ HeapKeeps
  BY HeapSame DEF Assign, BuilderInv, ListsSound
<1>7. Evolves
  BY <1>4, <1>6, CallEvolves DEF BuilderInv
<1>8. ASSUME NEW g \in Handles PROVE Valued(g)'
  BY <1>4, <1>6, <1>7, ValuedSame DEF BuilderInv, Called
<1>9. Valued(n)'
  BY <1>4, <1>5, <1>6, <1>7, ValuedChild DEF BuilderInv
<1>10. IsSeq(maps') /\ Len(maps') = Len(maps) /\ (q.map = 0 => q.said.set = {})
  BY <1>5, <1>6 DEF BuilderInv, Memory, Mapped
<1> QED
  BY <1>3, <1>4, <1>5, <1>6, <1>8, <1>9, <1>10, ChildKeeps

(* A value is put in a shared map; who shares it was used, or made from a  *)
(* query used twice.                                                       *)
LEMMA PutKeeps ==
  ASSUME BuilderInv, NEW h \in Handles, NEW c \in Columns, queries[h].kind \in Sets, PutInto(h, c)
  PROVE  BuilderInv'
<1> DEFINE m == queries[h].map
<1>1. PICK S : S = Put(queries[h].said.set, c)
  OBVIOUS
<1>2. PICK q : PutAs(q, queries[h], S, Sources({h}))
  BY DEF PutAs
<1>3. queries' = Append(queries, q) /\ queries[h].kind # "bulk"
  <2>1. queries[h].kind # "bulk"
    BY DEF Sets
  <2> QED
    BY <1>1, <1>2, <2>1 DEF PutInto, Adds, PutAs
<1>4. PICK n : Called(n, q, {h})
  BY <1>3, CallsMake DEF PutInto, BuilderInv
<1>5. /\ Formed(q) /\ q.kind = queries[h].kind /\ q.lists = queries[h].lists
      /\ q.map = queries[h].map /\ q.rows = queries[h].rows /\ q.from = Sources({h})
      /\ q.said.lists = queries[h].said.lists
      /\ q.said.set = S /\ q.said.rows = queries[h].said.rows
  BY <1>2, PutIs DEF BuilderInv
<1>6. UNCHANGED heap /\ ListsSound /\ HeapKeeps
  BY HeapSame DEF PutInto, BuilderInv, ListsSound
<1>7. Evolves
  BY <1>4, <1>6, CallEvolves DEF BuilderInv
<1>8. /\ IsSeq(maps) /\ Len(maps) \in Nat /\ DOMAIN maps = 1 .. Len(maps)
      /\ m \in 1 .. Len(maps) /\ m # 0
  <2>1. IsSeq(maps) /\ Len(maps) \in Nat /\ DOMAIN maps = 1 .. Len(maps)
    BY IsSeqDomain DEF BuilderInv, Memory, IsSeq
  <2> QED
    BY <2>1 DEF BuilderInv, Mapped
<1>9. /\ maps'[m] = Put(maps[m], c)
      /\ \A k \in 1 .. Len(maps) : k # m => maps'[k] = maps[k]
      /\ IsSeq(maps') /\ Len(maps') = Len(maps)
  <2>1. maps' = [maps EXCEPT ![m] = Put(maps[m], c)]
    BY DEF PutInto
  <2>2. Tuple(maps', Len(maps))
    BY <1>8, <2>1 DEF Tuple
  <2>3. IsSeq(maps') /\ Len(maps') = Len(maps)
    BY <1>8, <2>2, TupleIs
  <2> QED
    BY <1>8, <2>1, <2>3
<1>10. uses'[h] > uses[h]
  BY <1>4 DEF Called, BuilderInv, Memory
<1>11. ASSUME NEW g \in Handles PROVE Valued(g)'
  <2>1. SUFFICES ASSUME ~Reused(g)', uses'[g] = 0
                 PROVE  /\ queries'[g].map # 0 => maps'[queries'[g].map] = queries'[g].said.set
                        /\ \A i \in 1 .. Len(queries'[g].rows) :
                             maps'[queries'[g].rows[i]] = queries'[g].said.rows[i]
    BY DEF Valued
  <2>2. ~HasMap(g, m)
    BY <1>6, <1>7, <1>8, <1>10, <2>1, OldValued DEF BuilderInv
  <2>3. queries'[g] = queries[g] /\ Mapped(queries[g]) /\ Valued(g)
    BY <1>4 DEF Called, BuilderInv
  <2>4. ~Reused(g) /\ uses[g] = 0
    <3>1. uses[g] \in Nat /\ uses'[g] >= uses[g]
      BY <1>6, <1>7 DEF Evolves, ListsSound, Memory
    <3> QED
      BY <1>6, <1>7, <2>1, <3>1, Remembered
  <2>5. /\ queries[g].map # 0 => queries[g].map \in 1 .. Len(maps) /\ queries[g].map # m
        /\ \A i \in 1 .. Len(queries[g].rows) :
             queries[g].rows[i] \in 1 .. Len(maps) /\ queries[g].rows[i] # m
    BY <1>8, <2>2, <2>3 DEF Mapped, HasMap
  <2> QED
    BY <1>9, <2>3, <2>4, <2>5 DEF Valued
<1>12. Valued(n)'
  <2>1. SUFFICES ASSUME ~Reused(n)'
                 PROVE  /\ q.map # 0 => maps'[q.map] = q.said.set
                        /\ \A i \in 1 .. Len(q.rows) : maps'[q.rows[i]] = q.said.rows[i]
    BY <1>4 DEF Valued, Called
  <2>2. n \in Handles' /\ h \in From(n)' /\ From(h) \subseteq From(n)'
    BY <1>4, <1>5 DEF Called, From, Sources
  <2>3. uses[h] = 0 /\ ~Reused(h)
    BY <1>6, <1>7, <1>10, <2>1, <2>2, FirstUse
  <2>4. /\ maps[m] = queries[h].said.set
        /\ \A i \in 1 .. Len(queries[h].rows) : maps[queries[h].rows[i]] = queries[h].said.rows[i]
    BY <1>8, <2>3 DEF Valued, BuilderInv
  <2>5. \A i \in 1 .. Len(queries[h].rows) :
          queries[h].rows[i] \in 1 .. Len(maps) /\ queries[h].rows[i] # m
    BY DEF BuilderInv, Mapped
  <2>6. q.map = m /\ q.rows = queries[h].rows /\ q.said.set = S /\ q.said.rows = queries[h].said.rows
    BY <1>5
  <2>7. maps'[q.map] = q.said.set
    BY <1>1, <1>9, <2>4, <2>6
  <2>8. ASSUME NEW i \in 1 .. Len(q.rows) PROVE maps'[q.rows[i]] = q.said.rows[i]
    <3>1. i \in 1 .. Len(queries[h].rows) /\ q.rows[i] = queries[h].rows[i]
      BY <2>6
    <3>2. maps'[queries[h].rows[i]] = maps[queries[h].rows[i]]
      BY <1>9, <2>5, <3>1
    <3> QED
      BY <2>4, <2>6, <3>1, <3>2
  <2> QED
    BY <2>7, <2>8
<1> QED
  BY <1>3, <1>4, <1>5, <1>6, <1>8, <1>9, <1>11, <1>12, ChildKeeps

LEMMA OneElement ==
  ASSUME NEW x
  PROVE  IsSeq(<<x>>) /\ Len(<<x>>) = 1 /\ <<x>>[1] = x
BY DEF IsSeq

LEMMA OnDuplicateKeeps ==
  ASSUME BuilderInv, NEW h \in Handles, OnDuplicateKeyUpdate(h)
  PROVE  BuilderInv'
<1>1. PICK m : m = Len(maps) + 1
  OBVIOUS
<1>2. PICK row : row = <<queries[h].map>>
  OBVIOUS
<1>3. PICK said : said = <<queries[h].said.set>>
  OBVIOUS
<1>4. PICK q : BegunAs(q, "ondup", m, row, Sources({h}), said)
  BY DEF BegunAs
<1>5. queries' = Append(queries, q)
  <2>1. [Said0 EXCEPT !.rows = said]
          = [lists |-> [l \in Lists |-> <<>>], fields |-> Unset, set |-> {}, rows |-> said]
    BY DEF Said0
  <2>2. q = Query("ondup", m, row, Sources({h}), [Said0 EXCEPT !.rows = said])
    BY <1>4, <2>1 DEF BegunAs
  <2> QED
    BY <1>1, <1>2, <1>3, <2>2 DEF OnDuplicateKeyUpdate, Adds
<1>6. PICK n : Called(n, q, {h})
  BY <1>5, CallsMake DEF OnDuplicateKeyUpdate, BuilderInv
<1>7. /\ IsSeq(row) /\ Len(row) = 1 /\ row[1] = queries[h].map
      /\ IsSeq(said) /\ Len(said) = 1 /\ said[1] = queries[h].said.set
      /\ \A i \in 1 .. Len(row) : i = 1
  <2>1. \A i \in 1 .. 1 : i = 1
    OBVIOUS
  <2> QED
    BY <1>2, <1>3, <2>1, OneElement
<1>8. /\ Formed(q) /\ q.kind = "ondup" /\ q.map = m /\ q.rows = row /\ q.from = Sources({h})
      /\ q.said.set = {} /\ q.said.rows = said
      /\ \A l \in Lists : q.lists[l] = Nil /\ q.said.lists[l] = <<>>
  BY <1>4, <1>7, QueryIs DEF Kinds
<1>9. /\ IsSeq(maps') /\ Len(maps) \in Nat /\ Len(maps') = Len(maps) + 1
      /\ \A i \in 1 .. Len(maps) : maps'[i] = maps[i]
      /\ maps'[m] = {}
  BY <1>1, MapGrows DEF OnDuplicateKeyUpdate, BuilderInv
<1>10. queries[h].map \in 1 .. Len(maps) /\ queries[h].kind = "insert"
  BY <1>9 DEF OnDuplicateKeyUpdate, Is, BuilderInv, Mapped, Sets
<1>11. UNCHANGED heap /\ ListsSound /\ HeapKeeps
  BY HeapSame DEF OnDuplicateKeyUpdate, BuilderInv, ListsSound
<1>12. Evolves
  BY <1>6, <1>11, CallEvolves DEF BuilderInv
<1>13. Mapped(q)'
  <2>1. q.map \in 0 .. Len(maps') /\ q.map # 0
    BY <1>1, <1>8, <1>9
  <2>2. "ondup" \in Sets
    BY DEF Sets
  <2>3. \A i \in 1 .. Len(q.rows) : q.rows[i] \in 1 .. Len(maps') /\ q.rows[i] # q.map
    <3>1. \A i \in 1 .. Len(row) : row[i] = queries[h].map
      BY <1>7
    <3>2. queries[h].map \in 1 .. Len(maps') /\ queries[h].map # m
      BY <1>1, <1>9, <1>10
    <3> QED
      BY <1>8, <3>1, <3>2
  <2> QED
    BY <1>8, <2>1, <2>2, <2>3 DEF Mapped
<1>14. Sharing(q, {h})
  <2>1. q.map \notin 1 .. Len(maps)
    BY <1>1, <1>8, <1>9
  <2>2. \A k \in 1 .. Len(maps) : HasMapOf(q, k) => k = queries[h].map
    BY <1>7, <1>8, <2>1 DEF HasMapOf
  <2> QED
    BY <2>1, <2>2 DEF Sharing, HasMap
<1>15. Valued(n)'
  <2>1. SUFFICES ASSUME ~Reused(n)'
                 PROVE  maps'[m] = {} /\ maps'[row[1]] = said[1]
    BY <1>6, <1>7, <1>8 DEF Valued, Called
  <2>2. n \in Handles' /\ h \in From(n)' /\ From(h) \subseteq From(n)'
    BY <1>6, <1>8 DEF Called, From, Sources
  <2>3. uses'[h] > uses[h]
    BY <1>6 DEF Called, BuilderInv, Memory
  <2>4. uses[h] = 0 /\ ~Reused(h)
    BY <1>11, <1>12, <2>1, <2>2, <2>3, FirstUse
  <2>5. maps[queries[h].map] = queries[h].said.set
    BY <1>10, <2>4 DEF Valued, BuilderInv
  <2> QED
    BY <1>7, <1>9, <1>10, <2>5
<1> QED
  BY <1>6, <1>8, <1>9, <1>10, <1>11, <1>13, <1>14, <1>15, BeginKeeps

(* An append keeps what every list says, if what it adds to the list of h  *)
(* is what was said, or may be no more.                                    *)
LEMMA GrowKeeps ==
  ASSUME BuilderInv, NEW h \in Handles, NEW l \in Lists, NEW S, h \in S, S \subseteq Handles,
         \A k \in S : queries[k].kind # "bulk",
         NEW x, NEW s, Appended(List(h, l), x), NEW t, t = AppendedSlice(List(h, l)),
         NEW q, ContinuedAs(q, queries[h], l, t, s, Sources(S)),
         NEW n, Called(n, q, S), UNCHANGED maps, ~Shared(n)' => Same(n, x, s)'
  PROVE  BuilderInv'
<1>1. ListsSound
  BY DEF BuilderInv, ListsSound
<1>2. /\ Formed(q) /\ q.kind = queries[h].kind /\ q.map = queries[h].map
      /\ q.rows = queries[h].rows /\ q.from = Sources(S)
      /\ q.said.set = queries[h].said.set /\ q.said.rows = queries[h].said.rows
      /\ \A m \in Lists : /\ q.lists[m] = IF m = l THEN t ELSE queries[h].lists[m]
                          /\ q.said.lists[m] = IF m = l THEN Append(queries[h].said.lists[l], s)
                                               ELSE queries[h].said.lists[m]
  BY ContinueIs DEF BuilderInv
<1>3. \A m \in Lists : /\ q.lists[m] = IF m = l THEN t ELSE List(h, m)
                       /\ q.said.lists[m] = IF m = l THEN Append(Said(h, l), s) ELSE Said(h, m)
  BY <1>2 DEF List, Said
<1>4. Slice(List(h, l)) /\ Written(List(h, l), x, t)
  BY <1>1, ListFits, AppendWrites DEF ListsSound
<1>5. HeapKeeps
  BY <1>4 DEF Written, HeapKeeps
<1>6. Evolves
  BY <1>1, <1>5, CallEvolves DEF ListsSound
<1>7. uses'[h] > uses[h]
  BY DEF Called, BuilderInv, Memory
<1>8. \A m \in Lists : IsSeq(Said(h, m)) /\ Len(Said(h, m)) = List(h, m).len /\ List(h, m).len \in Nat
  BY DEF BuilderInv, Fits, List, Said
<1>9. /\ IsSeq(Append(Said(h, l), s)) /\ Len(Append(Said(h, l), s)) = List(h, l).len + 1
      /\ \A i \in 1 .. List(h, l).len : Append(Said(h, l), s)[i] = Said(h, l)[i]
      /\ Append(Said(h, l), s)[List(h, l).len + 1] = s
  BY <1>8, AppendIs
<1>10. Fits(q)'
  <2>1. ASSUME NEW m \in Lists
        PROVE  /\ q.lists[m].arr \in 0 .. Len(heap') /\ q.lists[m].len \in Nat
               /\ q.lists[m].arr # 0 => q.lists[m].len <= Len(heap'[q.lists[m].arr])
               /\ q.lists[m].arr = 0 => q.lists[m].len = 0
               /\ IsSeq(q.said.lists[m]) /\ Len(q.said.lists[m]) = q.lists[m].len
    <3>1. CASE m = l
      <4>1. /\ t.arr \in 1 .. Len(heap') /\ Len(heap') \in Nat
            /\ t.len = List(h, l).len + 1 /\ t.len <= Len(heap'[t.arr])
        BY <1>4 DEF Written
      <4>2. t.arr \in 0 .. Len(heap') /\ t.arr # 0 /\ t.len \in Nat
        BY <1>8, <4>1
      <4> QED
        BY <1>3, <1>9, <3>1, <4>1, <4>2
    <3>2. CASE m # l
      <4> DEFINE a == List(h, m).arr
      <4>1. Slice(List(h, m)) /\ Len(heap) \in Nat /\ (a # 0 => a \in 1 .. Len(heap))
        BY <1>1, ListFits
      <4>2. /\ Len(heap') \in Nat /\ Len(heap') >= Len(heap)
            /\ a # 0 => Len(heap'[a]) = Len(heap[a])
        BY <1>5, <4>1 DEF HeapKeeps
      <4>3. a \in 0 .. Len(heap') /\ (a # 0 => List(h, m).len <= Len(heap'[a]))
        BY <4>1, <4>2 DEF Slice
      <4>4. a = 0 => List(h, m).len = 0
        BY <4>1 DEF Slice
      <4> QED
        BY <1>3, <1>8, <3>2, <4>3, <4>4
    <3> QED
      BY <3>1, <3>2
  <2> QED
    BY <2>1 DEF Fits
<1>11. Mapped(q)'
  <2>1. Mapped(queries[h])
    BY DEF BuilderInv
  <2> QED
    BY <1>2, <2>1 DEF Mapped
<1>12. Sharing(q, S)
  BY <1>2 DEF Sharing, HasMapOf, HasMap
<1>13. BeginsOrContinues(q, S)
  <2>1. /\ t.len = List(h, l).len + 1 /\ (Room(List(h, l)) => t.arr = List(h, l).arr)
        /\ (~Room(List(h, l)) => t.arr = Len(heap) + 1)
    BY <1>4 DEF Written
  <2>2. Continues(q, h, l)
    BY <1>3, <1>8, <2>1 DEF Continues
  <2> QED
    BY <2>2 DEF BeginsOrContinues
<1>14. ASSUME NEW g \in Handles, ~Shared(g)', NEW m \in Lists, NEW i \in 1 .. List(g, m).len
       PROVE  /\ heap'[List(g, m).arr][i] = heap[List(g, m).arr][i]
              /\ Same(g, heap[List(g, m).arr][i], Said(g, m)[i])
  <2>1. \A a \in 1 .. Len(heap) : \A j \in 1 .. Len(heap[a]) :
          ~Overwritten(List(h, l), a, j) => heap'[a][j] = heap[a][j]
    BY <1>4 DEF Written
  <2> QED
    BY <1>1, <1>6, <1>7, <1>14, <2>1, OldListed DEF BuilderInv
<1>15. ASSUME NEW g \in Handles PROVE Listed(g)' /\ Valued(g)'
  <2>1. Valued(g)'
    BY <1>1, <1>6, ValuedSame DEF BuilderInv, Called
  <2>2. Listed(g)'
    <3>1. g \in Handles' /\ From(g) \subseteq From(g)'
      BY <1>6 DEF Evolves
    <3>2. \A m \in Lists : List(g, m)' = List(g, m) /\ Said(g, m)' = Said(g, m)
      BY <1>6, ListStays
    <3>3. SUFFICES ASSUME ~Shared(g)', NEW m \in Lists, NEW i \in 1 .. List(g, m).len
                   PROVE  Same(g, heap[List(g, m).arr][i], Said(g, m)[i])'
      BY <3>2 DEF Listed
    <3>4. /\ heap'[List(g, m).arr][i] = heap[List(g, m).arr][i]
          /\ Same(g, heap[List(g, m).arr][i], Said(g, m)[i])
      BY <1>14, <3>3
    <3>5. \A e, d : Same(g, e, d) => Same(g, e, d)'
      BY <1>1, <1>6, <3>1, SameStays
    <3>6. \A e, d : e = heap[List(g, m).arr][i] /\ d = Said(g, m)[i] => Same(g, e, d)'
      BY <3>4, <3>5
    <3> QED
      BY <3>2, <3>4, <3>6 DEF Same
  <2> QED
    BY <2>1, <2>2
<1>16. Valued(n)'
  BY <1>1, <1>2, <1>6, ValuedChild DEF BuilderInv
<1>17. Listed(n)'
  <2>1. n \in Handles' /\ From(h) \subseteq From(n)'
    BY <1>2 DEF Called, Sources, From
  <2>2. \A m \in Lists : List(n, m)' = q.lists[m] /\ Said(n, m)' = q.said.lists[m]
    BY DEF Called, List, Said
  <2>3. SUFFICES ASSUME ~Shared(n)', NEW m \in Lists, NEW i \in 1 .. List(n, m)'.len
                 PROVE  Same(n, heap[List(n, m).arr][i], Said(n, m)[i])'
    BY DEF Listed
  <2>0. i \in 1 .. q.lists[m].len
    BY <2>2, <2>3
  <2>4. ~Shared(h)'
    <3>1. From(h)' = From(h)
      BY DEF Called, From
    <3>2. \A k \in From(h)' : k \in From(n)'
      BY <2>1, <3>1
    <3> QED
      BY <2>3, <3>2 DEF Shared
  <2>5. \A e, d : Same(h, e, d) => Same(n, e, d)'
    BY <1>1, <1>6, <2>1, SameStays
  <2>9. SUFFICES \A e, d : e = heap'[q.lists[m].arr][i] /\ d = q.said.lists[m][i] => Same(n, e, d)'
    BY <2>2 DEF Same
  <2>6. CASE m # l
    <3>1. q.lists[m] = List(h, m) /\ q.said.lists[m] = Said(h, m)
      BY <1>3, <2>6
    <3> QED
      BY <1>14, <2>0, <2>4, <2>5, <3>1
  <2>7. CASE m = l /\ i # List(h, l).len + 1
    <3>1. q.lists[m] = t /\ q.said.lists[m] = Append(Said(h, l), s)
      BY <1>3, <2>7
    <3>2. i \in 1 .. List(h, l).len
      BY <1>4, <1>8, <2>0, <2>7, <3>1 DEF Written
    <3>3. heap'[t.arr][i] = heap[List(h, l).arr][i] /\ Append(Said(h, l), s)[i] = Said(h, l)[i]
      BY <1>4, <1>9, <3>2 DEF Written
    <3>4. Same(h, heap[List(h, l).arr][i], Said(h, l)[i])
      BY <1>14, <2>4, <3>2
    <3> QED
      BY <2>5, <3>1, <3>3, <3>4
  <2>8. CASE m = l /\ i = List(h, l).len + 1
    <3>1. q.lists[m] = t /\ q.said.lists[m] = Append(Said(h, l), s)
      BY <1>3, <2>8
    <3>2. heap'[t.arr][i] = x /\ Append(Said(h, l), s)[i] = s
      BY <1>4, <1>9, <2>8 DEF Written
    <3>3. Same(n, x, s)'
      BY <2>3
    <3> QED
      BY <3>1, <3>2, <3>3
  <2> QED
    BY <2>6, <2>7, <2>8
<1>18. IsSeq(maps') /\ Len(maps') >= Len(maps)
  BY DEF BuilderInv, Memory, IsSeq
<1> QED
  BY <1>2, <1>5, <1>10, <1>11, <1>12, <1>13, <1>15, <1>16, <1>17, <1>18, CallKeeps

LEMMA AppendKeeps ==
  ASSUME BuilderInv, NEW h \in Handles, queries[h].kind # "bulk", NEW l \in Lists, AppendTo(h, l)
  PROVE  BuilderInv'
<1>1. PICK x : x = Entry(Call)
  OBVIOUS
<1>2. PICK t : t = AppendedSlice(List(h, l))
  OBVIOUS
<1>3. PICK q : ContinuedAs(q, queries[h], l, t, x, Sources({h}))
  BY DEF ContinuedAs
<1>4. queries' = Append(queries, q) /\ Appended(List(h, l), x)
  BY <1>1, <1>2, <1>3 DEF AppendTo, Adds, ContinuedAs, List
<1>5. PICK n : Called(n, q, {h})
  BY <1>4, CallsMake DEF AppendTo, BuilderInv
<1>6. Same(n, x, x)'
  <2>1. x.is = Call /\ x.of = <<>> /\ x = [is |-> x.is, of |-> x.of]
    BY <1>1 DEF Entry
  <2> QED
    BY <2>1 DEF Same
<1> QED
  BY <1>2, <1>3, <1>4, <1>5, <1>6, GrowKeeps DEF AppendTo

LEMMA ElementsAre ==
  ASSUME ListsSound, NEW h \in Handles, NEW l \in Lists
  PROVE  /\ IsSeq(Elements(List(h, l))) /\ Len(Elements(List(h, l))) = List(h, l).len
         /\ \A i \in 1 .. List(h, l).len : Elements(List(h, l))[i] = heap[List(h, l).arr][i]
<1> DEFINE s == List(h, l)
<1>1. Slice(s) /\ (s.arr # 0 => s.arr \in 1 .. Len(heap))
  BY ListFits
<1>2. CASE s.arr = 0
  BY <1>1, <1>2, EmptyIs DEF Elements, Slice
<1>3. CASE s.arr # 0
  <2> DEFINE A == heap[s.arr]
             V == {A[i] : i \in 1 .. s.len}
  <2>1. s.len \in Nat /\ Elements(s) = SubSeq(A, 1, s.len)
    BY <1>1, <1>3 DEF Slice, Elements
  <2>2. \A i \in 1 .. s.len : A[i] \in V
    OBVIOUS
  <2> HIDE DEF A, V, s
  <2>3. /\ SubSeq(A, 1, s.len) \in Seq(V)
        /\ Len(SubSeq(A, 1, s.len)) = IF 1 <= s.len THEN s.len - 1 + 1 ELSE 0
        /\ \A i \in 1 .. s.len - 1 + 1 : SubSeq(A, 1, s.len)[i] = A[1 + i - 1]
    BY <2>1, <2>2, SubSeqProperties
  <2>4. /\ Len(Elements(s)) = s.len
        /\ \A i \in 1 .. s.len : Elements(s)[i] = A[i]
    BY <2>1, <2>3
  <2>5. IsSeq(Elements(s))
    BY <2>1, <2>3, SeqIs
  <2> QED
    BY <2>4, <2>5 DEF A, s
<1> QED
  BY <1>2, <1>3

(* A list without nested lists was said without any.                       *)
LEMMA FlatSaid ==
  ASSUME BuilderInv, NEW k \in Handles, Flat(k), ~Shared(k)
  PROVE  \A i \in 1 .. Len(Said(k, "where")) : Said(k, "where")[i].of = <<>>
<1>1. ListsSound /\ Listed(k)
  BY DEF BuilderInv, ListsSound
<1>2. Len(Said(k, "where")) = List(k, "where").len
  BY WhereIsList DEF BuilderInv, Fits, List, Said
<1>3. TAKE i \in 1 .. Len(Said(k, "where"))
<1> DEFINE e == heap[List(k, "where").arr][i]
<1>4. e.of = <<>>
  <2>1. \A j \in DOMAIN Elements(List(k, "where")) : Elements(List(k, "where"))[j].of = <<>>
    BY DEF Flat, List
  <2>2. DOMAIN Elements(List(k, "where")) = 1 .. List(k, "where").len
    BY <1>1, WhereIsList, ElementsAre, IsSeqDomain
  <2>3. Elements(List(k, "where"))[i] = e
    BY <1>1, <1>2, WhereIsList, ElementsAre
  <2> QED
    BY <1>2, <2>1, <2>2, <2>3
<1>5. Same(k, e, Said(k, "where")[i])
  BY <1>1, <1>2, WhereIsList DEF Listed
<1>6. \A y : <<y>> # <<>>
  OBVIOUS
<1> QED
  BY <1>4, <1>5, <1>6 DEF Same

LEMMA OrKeeps ==
  ASSUME BuilderInv, NEW h \in Handles, NEW k \in Handles, Or(h, k)
  PROVE  BuilderInv'
<1>1. PICK x : x = EntryOr(<<k>>)
  OBVIOUS
<1>2. PICK s : s = [is |-> Call, of |-> <<queries[k].said.lists.where>>]
  OBVIOUS
<1>3. PICK t : t = AppendedSlice(List(h, "where"))
  OBVIOUS
<1>4. PICK q : ContinuedAs(q, queries[h], "where", t, s, Sources({h, k}))
  BY DEF ContinuedAs
<1>5. queries' = Append(queries, q) /\ Appended(List(h, "where"), x)
  BY <1>1, <1>2, <1>3, <1>4 DEF Or, Adds, ContinuedAs, List
<1>6. PICK n : Called(n, q, {h, k})
  BY <1>5, CallsMake DEF Or, BuilderInv
<1>7. queries[h].kind # "bulk" /\ queries[k].kind # "bulk" /\ UNCHANGED maps
  BY DEF Or, Is
<1>8. q.from = Sources({h, k})
  BY <1>4, WhereIsList, ContinueIs DEF BuilderInv
<1>9. ASSUME ~Shared(n)' PROVE Same(n, x, s)'
  <2>1. ListsSound
    BY DEF BuilderInv, ListsSound
  <2>2. HeapKeeps
    <3>1. Written(List(h, "where"), x, t)
      BY <1>3, <1>5, <2>1, WhereIsList, ListFits, AppendWrites DEF ListsSound
    <3> QED
      BY <3>1 DEF Written, HeapKeeps
  <2>3. Evolves
    BY <1>6, <2>1, <2>2, CallEvolves DEF ListsSound
  <2>4. k \in From(n)' /\ From(k) \subseteq From(n)'
    BY <1>6, <1>8 DEF Called, From, Sources
  <2>5. ~Shared(k)
    BY <1>9, <2>1, <2>3, <2>4, Inherited
  <2>6. \A i \in 1 .. Len(Said(k, "where")) : Said(k, "where")[i].of = <<>>
    BY <2>5, FlatSaid DEF Or
  <2>7. List(k, "where")' = List(k, "where") /\ Said(k, "where")' = Said(k, "where")
    BY <2>3, WhereIsList, ListStays
  <2>8. x.is = Call /\ x.of = <<List(k, "where")>> /\ x = [is |-> x.is, of |-> x.of]
    BY <1>1 DEF EntryOr, List
  <2>9. s.of = <<Said(k, "where")>> /\ s = [is |-> x.is, of |-> s.of]
    BY <1>2, <2>8 DEF Said
  <2> QED
    BY <2>4, <2>6, <2>7, <2>8, <2>9 DEF Same
<1> QED
  BY <1>3, <1>4, <1>5, <1>6, <1>7, <1>9, WhereIsList, GrowKeeps

BulkAppendedAs(q, p, m, S, from) ==
  q = [p EXCEPT !.rows = Append(@, m), !.said.rows = Append(@, S), !.from = from]

LEMMA BulkAppendIs ==
  ASSUME NEW p, Formed(p), p.kind = "bulk", NEW m, NEW S, NEW from,
         NEW q, BulkAppendedAs(q, p, m, S, from)
  PROVE  /\ Formed(q) /\ q.kind = p.kind /\ q.lists = p.lists /\ q.map = p.map
         /\ q.rows = Append(p.rows, m) /\ q.from = from /\ q.said.lists = p.said.lists
         /\ q.said.set = p.said.set /\ q.said.rows = Append(p.said.rows, S)
<1> DEFINE rs == Append(p.rows, m)
           ss == Append(p.said.rows, S)
<1>1. IsQuery(q, p.kind, p.lists, p.fields, p.map, rs, from, p.said.lists, p.said.set, ss)
  BY DEF BulkAppendedAs, Formed, IsQuery
<1>2. IsSeq(p.rows) /\ IsSeq(p.said.rows) /\ Len(p.said.rows) = Len(p.rows)
  BY DEF Formed
<1>3. IsSeq(rs) /\ IsSeq(ss) /\ Len(ss) = Len(rs)
  BY <1>2, AppendIs
<1>4. AreParts(p.kind, p.lists, p.fields, rs, p.said.lists, ss)
  BY <1>3 DEF Formed, AreParts
<1> HIDE DEF rs, ss
<1>5. /\ Formed(q) /\ q.kind = p.kind /\ q.lists = p.lists /\ q.map = p.map
      /\ q.rows = rs /\ q.from = from /\ q.said.lists = p.said.lists
      /\ q.said.set = p.said.set /\ q.said.rows = ss
  BY <1>1, <1>4, QueryFormed
<1> QED
  BY <1>5 DEF rs, ss

LEMMA BulkKeeps ==
  ASSUME BuilderInv, NEW b \in Handles, NEW h \in Handles, BulkAppend(b, h)
  PROVE  BuilderInv'
<1>1. PICK m : m = queries[h].map
  OBVIOUS
<1>2. PICK V : V = queries[h].said.set
  OBVIOUS
<1>3. PICK q : BulkAppendedAs(q, queries[b], m, V, From(b) \cup Sources({h}))
  BY DEF BulkAppendedAs
<1>4. queries[b].kind = "bulk" /\ queries[h].kind = "insert" /\ UNCHANGED heap /\ UNCHANGED maps
  BY DEF BulkAppend, Is
<1>5. queries' = [queries EXCEPT ![b] = q]
  BY <1>1, <1>2, <1>3 DEF BulkAppend, BulkAppendedAs, From
<1>6. /\ Formed(q) /\ q.kind = "bulk" /\ q.lists = queries[b].lists /\ q.map = queries[b].map
      /\ q.rows = Append(queries[b].rows, m) /\ q.from = From(b) \cup Sources({h})
      /\ q.said.lists = queries[b].said.lists
      /\ q.said.set = queries[b].said.set /\ q.said.rows = Append(queries[b].said.rows, V)
  <2>1. Formed(queries[b])
    BY DEF BuilderInv
  <2>2. PICK p : p = queries[b]
    OBVIOUS
  <2>3. PICK F : F = From(b) \cup Sources({h})
    OBVIOUS
  <2>4. BulkAppendedAs(q, p, m, V, F) /\ Formed(p) /\ p.kind = "bulk"
    BY <1>3, <1>4, <2>1, <2>2, <2>3
  <2>5. /\ Formed(q) /\ q.kind = p.kind /\ q.lists = p.lists /\ q.map = p.map
        /\ q.rows = Append(p.rows, m) /\ q.from = F /\ q.said.lists = p.said.lists
        /\ q.said.set = p.said.set /\ q.said.rows = Append(p.said.rows, V)
    BY <2>4, BulkAppendIs
  <2> QED
    BY <2>2, <2>3, <2>4, <2>5
<1>7. ListsSound /\ HeapKeeps /\ Memory
  BY <1>4, HeapSame DEF BuilderInv, ListsSound
<1>8. Handles = 1 .. Len(queries) /\ Len(queries) \in Nat
  BY <1>7, HandlesAre
<1>9. /\ Handles' = Handles /\ IsSeq(queries') /\ Len(queries') = Len(queries)
      /\ queries'[b] = q /\ \A k \in Handles : k # b => queries'[k] = queries[k]
  <2>1. Tuple(queries', Len(queries))
    BY <1>5, <1>8, IsSeqDomain DEF Tuple, Handles
  <2>2. IsSeq(queries') /\ Len(queries') = Len(queries)
    BY <1>8, <2>1, TupleIs
  <2>3. Handles' = Handles
    BY <1>8, <2>2, IsSeqDomain DEF Handles
  <2> QED
    BY <1>5, <2>2, <2>3 DEF Handles
<1>10. /\ IsSeq(uses') /\ Len(uses') = Len(queries)
       /\ \A k \in Handles : uses'[k] = IF k = h THEN uses[k] + 1 ELSE uses[k]
  BY <1>7, UsedIs DEF BulkAppend
<1>11. \A k \in Handles : uses[k] \in Nat /\ uses'[k] \in Nat /\ uses'[k] >= uses[k]
  BY <1>7, <1>10 DEF Memory
<1>12. \A k \in Handles : /\ From(k) \subseteq From(k)' /\ (k # b => From(k)' = From(k))
                          /\ queries'[k].kind = queries[k].kind
  BY <1>4, <1>6, <1>9 DEF From
<1>13. Evolves
  BY <1>6, <1>7, <1>9, <1>11, <1>12 DEF Evolves, HeapKeeps
<1>14. /\ From(b)' = From(b) \cup {h} \cup From(h) /\ uses'[h] > uses[h]
       /\ h \in From(b)' /\ From(h) \subseteq From(b)'
  BY <1>6, <1>9, <1>10, <1>11 DEF From, Sources
<1>15. Memory'
  BY <1>4, <1>7, <1>9, <1>10, <1>11 DEF Memory
<1>16. \A k \in Handles' : Formed(queries[k])'
  <2>1. \A k \in Handles' : Formed(queries'[k])
    BY <1>6, <1>9 DEF BuilderInv
  <2> QED
    BY <2>1 DEF Formed
<1>17. \A k \in Handles' : Fits(queries[k])'
  <2>1. \A k \in Handles : /\ queries'[k].lists = queries[k].lists
                           /\ queries'[k].said.lists = queries[k].said.lists
    BY <1>6, <1>9
  <2> QED
    <3>1. ASSUME NEW k \in Handles PROVE Fits(queries[k])'
      <4>1. Fits(queries[k])
        BY DEF BuilderInv
      <4> QED
        BY <1>4, <2>1, <4>1 DEF Fits
    <3> QED
      BY <1>9, <3>1
<1>18. m \in 1 .. Len(maps) /\ Len(maps) \in Nat
  <2>1. Len(maps) \in Nat
    BY <1>7 DEF Memory, IsSeq
  <2> QED
    BY <1>1, <1>4, <2>1 DEF BuilderInv, Mapped, Sets
<1>19. /\ IsSeq(queries[b].rows) /\ Len(queries[b].rows) \in Nat
       /\ Len(q.rows) = Len(queries[b].rows) + 1
       /\ \A i \in 1 .. Len(queries[b].rows) :
            q.rows[i] = queries[b].rows[i] /\ q.said.rows[i] = queries[b].said.rows[i]
       /\ q.rows[Len(queries[b].rows) + 1] = m
       /\ q.said.rows[Len(queries[b].rows) + 1] = V
  <2>1. /\ IsSeq(queries[b].rows) /\ IsSeq(queries[b].said.rows)
        /\ Len(queries[b].said.rows) = Len(queries[b].rows)
    BY DEF BuilderInv, Formed
  <2>2. Len(queries[b].rows) \in Nat
    BY <2>1 DEF IsSeq
  <2>3. /\ Len(Append(queries[b].rows, m)) = Len(queries[b].rows) + 1
        /\ \A i \in 1 .. Len(queries[b].rows) : Append(queries[b].rows, m)[i] = queries[b].rows[i]
        /\ Append(queries[b].rows, m)[Len(queries[b].rows) + 1] = m
    BY <2>1, AppendIs
  <2>4. /\ \A i \in 1 .. Len(queries[b].rows) :
             Append(queries[b].said.rows, V)[i] = queries[b].said.rows[i]
        /\ Append(queries[b].said.rows, V)[Len(queries[b].rows) + 1] = V
    BY <2>1, AppendIs
  <2> QED
    BY <1>6, <2>1, <2>2, <2>3, <2>4
<1>20. \A i \in 1 .. Len(q.rows) : i \in 1 .. Len(queries[b].rows) \/ i = Len(queries[b].rows) + 1
  BY <1>19
<1>21. \A k \in Handles' : Mapped(queries[k])'
  <2>1. Mapped(queries[b]) /\ queries[b].map = 0
    BY <1>4 DEF BuilderInv, Mapped, Sets
  <2>2. Mapped(q)'
    <3>1. \A i \in 1 .. Len(q.rows) : q.rows[i] \in 1 .. Len(maps) /\ q.rows[i] # q.map
      BY <1>6, <1>18, <1>19, <1>20, <2>1 DEF Mapped
    <3> QED
      BY <1>4, <1>6, <2>1, <3>1 DEF Mapped
  <2>3. ASSUME NEW k \in Handles, k # b PROVE Mapped(queries[k])'
    BY <1>4, <1>9, <2>3 DEF BuilderInv, Mapped
  <2> QED
    BY <1>9, <2>2, <2>3 DEF Mapped
<1>22. \A k \in Handles' : Made(k)'
  <2>1. \A k \in Handles : /\ From(k) \subseteq Handles \ {k}
                           /\ \A g \in From(k) : /\ uses[g] > 0 /\ queries[g].kind # "bulk"
                                                 /\ From(g) \subseteq From(k)
    BY DEF BuilderInv, Made
  <2>2. ASSUME NEW k \in Handles, k # b PROVE Made(k)'
    <3>1. From(k)' = From(k)
      BY <1>12, <2>2
    <3>2. \A g \in From(k) : g # b /\ g \in Handles
      BY <1>4, <2>1
    <3> QED
      BY <1>9, <1>11, <1>12, <2>1, <3>1, <3>2 DEF Made
  <2>3. Made(b)'
    <3>1. \A g \in From(b)' : g # b /\ g \in Handles /\ queries[g].kind # "bulk"
      BY <1>4, <1>14, <2>1
    <3>2. \A g \in From(b)' : uses'[g] > 0 /\ From(g) \subseteq From(b)'
      BY <1>11, <1>14, <2>1, <3>1
    <3>3. \A g \in From(b)' : From(g)' = From(g) /\ queries'[g].kind # "bulk"
      BY <1>12, <3>1
    <3> QED
      BY <1>9, <3>1, <3>2, <3>3 DEF Made
  <2> QED
    BY <1>9, <2>2, <2>3
<1>23. Apart'
  <2>1. \A k \in Handles, l \in Lists : List(k, l)' = List(k, l)
    BY <1>13, ListStays
  <2> QED
    BY <1>9, <2>1 DEF Apart, BuilderInv
<1>24. ListTree'
  <2>1. \A k \in Handles, l \in Lists : List(k, l)' = List(k, l)
    BY <1>13, ListStays
  <2>2. \A k, g \in Handles, l \in Lists :
          List(k, l).arr # 0 /\ List(k, l).arr = List(g, l).arr => Kin(k, g, l)'
    BY <1>7, <1>13, KinStays DEF ListTree, BuilderInv
  <2> QED
    BY <1>9, <2>1, <2>2 DEF ListTree
<1>25. MapTree'
  <2>1. \A k, g \in Handles : queries[g].map # 0 /\ HasMap(k, queries[g].map) => Related(k, g)
    BY DEF BuilderInv, MapTree, Related
  <2>2. ASSUME NEW k \in Handles, NEW g \in Handles, queries[g].map # 0, HasMap(k, queries[g].map)
        PROVE  Related(k, g)'
    BY <1>7, <1>13, <2>1, <2>2, RelatedStays
  <2>3. ASSUME NEW g \in Handles, queries[g].map # 0, queries[g].map = m
        PROVE  Related(b, g)'
    <3>1. HasMap(h, queries[g].map)
      BY <1>1, <2>3 DEF HasMap
    <3>2. Related(h, g)
      BY <2>1, <2>3, <3>1
    <3> QED
      BY <1>7, <1>9, <1>13, <1>14, <3>2, UserIsRelated
  <2>4. ASSUME NEW k \in Handles, NEW g \in Handles,
               (queries[g].map # 0 /\ HasMap(k, queries[g].map))'
        PROVE  Related(k, g)'
    <3>1. queries'[g].map = queries[g].map
      BY <1>6, <1>9
    <3>2. CASE k # b
      <4>1. HasMap(k, queries[g].map)
        BY <1>9, <2>4, <3>1, <3>2 DEF HasMap
      <4> QED
        BY <2>2, <2>4, <3>1, <4>1
    <3>3. CASE k = b
      <4>1. HasMapOf(q, queries[g].map)
        BY <1>9, <2>4, <3>1, <3>3 DEF HasMap, HasMapOf
      <4>2. HasMap(b, queries[g].map) \/ queries[g].map = m
        BY <1>6, <1>19, <1>20, <4>1 DEF HasMap, HasMapOf
      <4> QED
        BY <2>2, <2>3, <2>4, <3>1, <3>3, <4>2
    <3> QED
      BY <3>2, <3>3
  <2> QED
    BY <1>9, <2>4 DEF MapTree, Related
<1>26. \A k \in Handles' : Listed(k)'
  BY <1>4, <1>7, <1>9, <1>13, ListedSame DEF BuilderInv
<1>27. \A k \in Handles' : Valued(k)'
  <2>1. ASSUME NEW k \in Handles, k # b PROVE Valued(k)'
    BY <1>4, <1>7, <1>9, <1>13, <2>1, ValuedSame DEF BuilderInv
  <2>2. Valued(b)'
    <3>1. queries[b].map = 0
      BY <1>4 DEF BuilderInv, Mapped, Sets
    <3>2. SUFFICES ASSUME ~Reused(b)', uses'[b] = 0
                   PROVE  \A i \in 1 .. Len(q.rows) : maps[q.rows[i]] = q.said.rows[i]
      BY <1>4, <1>6, <1>9, <3>1 DEF Valued
    <3>3. ~Reused(b) /\ uses[b] = 0
      BY <1>7, <1>11, <1>13, <3>2, Remembered
    <3>4. \A i \in 1 .. Len(queries[b].rows) : maps[queries[b].rows[i]] = queries[b].said.rows[i]
      BY <3>3 DEF BuilderInv, Valued
    <3>5. uses[h] = 0 /\ ~Reused(h)
      BY <1>7, <1>9, <1>13, <1>14, <3>2, FirstUse
    <3>6. maps[m] = V
      BY <1>1, <1>2, <1>18, <3>5 DEF BuilderInv, Valued
    <3> QED
      BY <1>19, <1>20, <3>4, <3>6
  <2> QED
    BY <1>9, <2>1, <2>2
<1> QED
  BY <1>15, <1>16, <1>17, <1>21, <1>22, <1>23, <1>24, <1>25, <1>26, <1>27 DEF BuilderInv

LEMMA BuilderStart == BuilderInit => BuilderInv
<1> SUFFICES ASSUME BuilderInit PROVE BuilderInv
  OBVIOUS
<1>1. heap = <<>> /\ maps = <<>> /\ queries = <<>> /\ uses = <<>>
  BY DEF BuilderInit
<1>2. Handles = {}
  BY <1>1 DEF Handles
<1>3. Memory
  BY <1>1, <1>2, EmptyIs DEF Memory
<1> QED
  BY <1>2, <1>3 DEF BuilderInv, Apart, ListTree, MapTree

LEMMA BuilderStep == BuilderInv /\ [BuilderNext]_builderVars => BuilderInv'
<1> SUFFICES ASSUME BuilderInv, [BuilderNext]_builderVars PROVE BuilderInv'
  OBVIOUS
<1>1. ASSUME NEW h \in Handles,
             SelectWhere(h) \/ JoinClause(h) \/ UpdateWhere(h) \/ DeleteWhere(h)
      PROVE  BuilderInv'
  <2>1. queries[h].kind # "bulk" /\ \E l \in Lists : AppendTo(h, l)
    BY <1>1 DEF SelectWhere, JoinClause, UpdateWhere, DeleteWhere, Is, Lists
  <2> QED
    BY <2>1, AppendKeeps
<1>2. ASSUME NEW h \in Handles, NEW c \in Columns,
             UpdateSet(h, c) \/ InsertValue(h, c) \/ ValueOnUpdate(h, c)
      PROVE  BuilderInv'
  <2>1. queries[h].kind \in Sets /\ PutInto(h, c)
    BY <1>2 DEF UpdateSet, InsertValue, ValueOnUpdate, Is, Sets
  <2> QED
    BY <2>1, PutKeeps
<1>3. CASE UNCHANGED builderVars
  <2>1. UNCHANGED heap /\ UNCHANGED maps /\ UNCHANGED queries /\ UNCHANGED uses
    BY <1>3 DEF builderVars
  <2>2. Memory' /\ Apart' /\ ListTree' /\ MapTree'
    BY <2>1 DEF BuilderInv, Memory, Apart, ListTree, MapTree, Handles, List, From, Kin, Below, HasMap
  <2>3. \A h \in Handles : Formed(queries[h])'
    BY <2>1 DEF BuilderInv, Formed
  <2>4. \A h \in Handles : Fits(queries[h])'
    BY <2>1 DEF BuilderInv, Fits
  <2>5. \A h \in Handles : Mapped(queries[h])'
    BY <2>1 DEF BuilderInv, Mapped
  <2>6. \A h \in Handles : Made(h)'
    BY <2>1 DEF BuilderInv, Made, From, Handles
  <2>7. \A h \in Handles : Valued(h)'
    BY <2>1 DEF BuilderInv, Valued, Reused, From
  <2>8. \A h \in Handles : Listed(h)'
    <3>1. ListsSound /\ Evolves
      BY <2>1 DEF BuilderInv, ListsSound, Evolves, Memory, IsSeq, From, Handles
    <3> QED
      BY <2>1, <3>1, ListedSame DEF BuilderInv
  <2>9. Handles' = Handles
    BY <2>1 DEF Handles
  <2> QED
    BY <2>2, <2>3, <2>4, <2>5, <2>6, <2>7, <2>8, <2>9 DEF BuilderInv
<1> QED
  BY <1>1, <1>2, <1>3, NewKeeps, AssignKeeps, OnDuplicateKeeps, OrKeeps, BulkKeeps
  DEF BuilderNext

LEMMA BuilderCorrect == BuilderSpec => []BuilderInv
BY BuilderStart, BuilderStep, PTL DEF BuilderSpec

LEMMA BuilderTyped == BuilderInv => BuilderTypeOK
<1> SUFFICES ASSUME BuilderInv PROVE BuilderTypeOK
  OBVIOUS
<1>1. DOMAIN uses = Handles /\ Len(maps) \in Nat /\ Len(heap) \in Nat
  BY HandlesAre DEF BuilderInv, Memory, IsSeq
<1>2. ASSUME NEW h \in Handles
      PROVE  /\ queries[h].kind \in Kinds /\ queries[h].from \subseteq Handles \ {h}
             /\ queries[h].map \in 0 .. Len(maps)
             /\ ToSet(queries[h].rows) \subseteq 1 .. Len(maps) \ {queries[h].map}
             /\ \A l \in Lists :
                  /\ queries[h].lists[l].arr \in 0 .. Len(heap)
                  /\ queries[h].lists[l].arr # 0 =>
                       queries[h].lists[l].len <= Len(heap[queries[h].lists[l].arr])
  <2>1. Formed(queries[h]) /\ Fits(queries[h]) /\ Mapped(queries[h]) /\ Made(h)
    BY DEF BuilderInv
  <2>2. DOMAIN queries[h].rows = 1 .. Len(queries[h].rows)
    BY <2>1, IsSeqDomain DEF Formed
  <2>3. ToSet(queries[h].rows) \subseteq 1 .. Len(maps) \ {queries[h].map}
    BY <2>1, <2>2 DEF Mapped, ToSet
  <2> QED
    BY <2>1, <2>3 DEF Formed, Fits, Mapped, Made, From
<1>3. \A h \in Handles : (queries[h].map # 0) = (queries[h].kind \in Sets)
  BY DEF BuilderInv, Mapped
<1> QED
  BY <1>1, <1>2, <1>3 DEF BuilderTypeOK

LEMMA SeqsEqual ==
  ASSUME NEW s, NEW t, IsSeq(s), IsSeq(t), Len(s) = Len(t), \A i \in 1 .. Len(s) : s[i] = t[i]
  PROVE  s = t
BY DEF IsSeq

(* A list is read as it was said.                                          *)
LEMMA FlatRead ==
  ASSUME BuilderInv, NEW k \in Handles, ~Shared(k),
         \A i \in 1 .. Len(Said(k, "where")) : Said(k, "where")[i].of = <<>>
  PROVE  Elements(List(k, "where")) = Said(k, "where")
<1> DEFINE s == Elements(List(k, "where"))
           t == Said(k, "where")
<1>1. ListsSound /\ Listed(k)
  BY DEF BuilderInv, ListsSound
<1>2. IsSeq(t) /\ Len(t) = List(k, "where").len
  BY WhereIsList DEF BuilderInv, Fits, List, Said
<1>3. /\ IsSeq(s) /\ Len(s) = List(k, "where").len
      /\ \A i \in 1 .. List(k, "where").len : s[i] = heap[List(k, "where").arr][i]
  BY <1>1, WhereIsList, ElementsAre
<1>4. \A i \in 1 .. Len(s) : s[i] = t[i]
  <2> TAKE i \in 1 .. Len(s)
  <2>1. Same(k, s[i], t[i])
    BY <1>1, <1>3, WhereIsList DEF Listed
  <2>2. t[i].of = <<>>
    BY <1>2, <1>3
  <2>3. s[i] = [is |-> s[i].is, of |-> s[i].of] /\ t[i] = [is |-> s[i].is, of |-> t[i].of]
    BY <2>1 DEF Same
  <2>4. s[i].of = <<>>
    <3>1. \A y : <<y>> # <<>>
      OBVIOUS
    <3> QED
      BY <2>1, <2>2, <3>1 DEF Same
  <2> QED
    BY <2>2, <2>3, <2>4, Zenon
<1> QED
  BY <1>2, <1>3, <1>4, SeqsEqual

ReadEntry(e) == [e EXCEPT !.of = [k \in DOMAIN @ |-> Elements(@[k])]]

LEMMA ReadIs ==
  ASSUME BuilderInv, NEW h \in Handles, ~Shared(h), NEW l \in Lists
  PROVE  Read(List(h, l)) = Said(h, l)
<1> DEFINE s == List(h, l)
           t == Said(h, l)
<1>1. ListsSound /\ Listed(h)
  BY DEF BuilderInv, ListsSound
<1>2. IsSeq(t) /\ Len(t) = s.len
  BY DEF BuilderInv, Fits, List, Said
<1>3. \A i \in 1 .. s.len : Elements(s)[i] = heap[s.arr][i]
  BY <1>1, ElementsAre
<1>4. ASSUME NEW i \in 1 .. s.len PROVE ReadEntry(Elements(s)[i]) = t[i]
  <2> PICK e : e = Elements(s)[i]
    OBVIOUS
  <2> PICK d : d = t[i]
    OBVIOUS
  <2>1. Same(h, e, d)
    BY <1>1, <1>3 DEF Listed
  <2>2. e = [is |-> e.is, of |-> e.of] /\ d = [is |-> e.is, of |-> d.of]
    BY <2>1 DEF Same
  <2>3. ReadEntry(e) = [is |-> e.is, of |-> [j \in DOMAIN e.of |-> Elements(e.of[j])]]
    BY <2>2 DEF ReadEntry
  <2>4. [j \in DOMAIN e.of |-> Elements(e.of[j])] = d.of
    <3>1. CASE e.of = <<>> /\ d.of = <<>>
      BY <3>1
    <3>2. CASE \E k \in From(h) :
                 /\ e.of = <<List(k, "where")>> /\ d.of = <<Said(k, "where")>>
                 /\ \A j \in 1 .. Len(Said(k, "where")) : Said(k, "where")[j].of = <<>>
      <4>1. PICK k \in From(h) :
              /\ e.of = <<List(k, "where")>> /\ d.of = <<Said(k, "where")>>
              /\ \A j \in 1 .. Len(Said(k, "where")) : Said(k, "where")[j].of = <<>>
        BY <3>2
      <4>2. k \in Handles /\ ~Shared(k)
        <5>1. k \in Handles /\ From(k) \subseteq From(h)
          BY <1>1 DEF ListsSound, Made
        <5> QED
          BY <5>1 DEF Shared
      <4>3. Elements(List(k, "where")) = Said(k, "where")
        BY <4>1, <4>2, FlatRead
      <4> QED
        BY <4>1, <4>3
    <3> QED
      BY <2>1, <3>1, <3>2 DEF Same
  <2> QED
    BY <2>2, <2>3, <2>4, Zenon
<1>5. Read(s) = [i \in 1 .. s.len |-> ReadEntry(Elements(s)[i])]
  BY DEF Read, ReadEntry
<1>6. t = [i \in 1 .. s.len |-> t[i]]
  BY <1>2 DEF IsSeq
<1> HIDE DEF s, t
<1>7. Read(s) = t
  BY <1>4, <1>5, <1>6
<1> QED
  BY <1>7 DEF s, t

LEMMA BuilderDiffers == BuilderInv => DiffersOnlyIfShared
<1> SUFFICES ASSUME BuilderInv, NEW h \in Handles,
                    ToSql(queries[h]) # queries[h].said
             PROVE  LET q == queries[h]
                        Twice == {k \in q.from : uses[k] > 1}
                        Spare == {k \in Twice : \E l \in Lists : Room(queries[k].lists[l])}
                    IN  IF q.kind \in {"select", "delete"} THEN Spare # {}
                        ELSE Twice # {} \/ uses[h] > 0
  BY DEF DiffersOnlyIfShared
<1> DEFINE q == queries[h]
           Twice == {k \in q.from : uses[k] > 1}
           Spare == {k \in Twice : \E l \in Lists : Room(queries[k].lists[l])}
<1>1. (Shared(h) => Spare # {}) /\ (Reused(h) => Twice # {}) /\ (Shared(h) => Reused(h))
  BY DEF Shared, Reused, From, List
<1>2. Formed(q) /\ Mapped(q) /\ Valued(h) /\ uses[h] \in Nat
  BY DEF BuilderInv, Memory
<1>3. ASSUME ~Shared(h), MapOf(q.map) = q.said.set,
             \A i \in 1 .. Len(q.rows) : MapOf(q.rows[i]) = q.said.rows[i]
      PROVE  FALSE
  <2>1. [l \in Lists |-> Read(q.lists[l])] = q.said.lists
    <3>1. \A l \in Lists : Read(q.lists[l]) = q.said.lists[l]
      BY <1>3, ReadIs DEF List, Said
    <3>2. q.said.lists = [l \in Lists |-> q.said.lists[l]]
      BY <1>2 DEF Formed
    <3> QED
      BY <3>1, <3>2
  <2>2. [i \in DOMAIN q.rows |-> MapOf(q.rows[i])] = q.said.rows
    <3>1. DOMAIN q.rows = 1 .. Len(q.rows)
      BY <1>2, IsSeqDomain DEF Formed
    <3>2. q.said.rows = [i \in 1 .. Len(q.rows) |-> q.said.rows[i]]
      BY <1>2 DEF Formed, IsSeq
    <3> QED
      BY <1>3, <3>1, <3>2
  <2>3. q.fields = q.said.fields
    BY <1>2 DEF Formed
  <2>4. ToSql(q) = [lists |-> q.said.lists, fields |-> q.said.fields, set |-> q.said.set,
                    rows |-> q.said.rows]
    BY <1>3, <2>1, <2>2, <2>3 DEF ToSql
  <2>5. q.said = [lists |-> q.said.lists, fields |-> q.said.fields, set |-> q.said.set,
                  rows |-> q.said.rows]
    BY <1>2 DEF Formed
  <2> QED
    BY <2>4, <2>5
<1>4. CASE q.kind \in {"select", "delete"}
  <2>1. q.map = 0 /\ q.said.set = {} /\ q.rows = <<>>
    BY <1>2, <1>4 DEF Formed, Mapped, Sets
  <2>2. MapOf(q.map) = q.said.set
    BY <2>1 DEF MapOf
  <2>3. Shared(h)
    BY <1>3, <2>1, <2>2, EmptyIs
  <2> QED
    BY <1>1, <1>4, <2>3
<1>5. CASE q.kind \notin {"select", "delete"}
  <2>1. ASSUME ~Reused(h), uses[h] = 0 PROVE FALSE
    <3>1. MapOf(q.map) = q.said.set
      BY <1>2, <2>1 DEF Mapped, Valued, MapOf
    <3>2. \A i \in 1 .. Len(q.rows) : MapOf(q.rows[i]) = q.said.rows[i]
      BY <1>2, <2>1 DEF Mapped, Valued, MapOf
    <3> QED
      BY <1>1, <1>3, <2>1, <3>1, <3>2
  <2> QED
    BY <1>1, <1>2, <1>5, <2>1
<1> QED
  BY <1>4, <1>5

(* The lists and maps of every query exist, no list is longer than its     *)
(* array, and the two maps of an ON DUPLICATE KEY UPDATE are two.          *)
THEOREM BuilderTypeCorrect == BuilderSpec => []BuilderTypeOK
BY BuilderCorrect, BuilderTyped, PTL

(* Whatever calls are made in whatever order on the queries that calls     *)
(* returned, a query renders what its own calls said, unless one it was    *)
(* made from was used twice while its array had room, or (with a map) any  *)
(* of them was used twice or it was itself used again.                     *)
THEOREM QueriesSayWhatWasCalled == BuilderSpec => []DiffersOnlyIfShared
BY BuilderCorrect, BuilderDiffers, PTL
=============================================================================
