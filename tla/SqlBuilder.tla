------------------------------ MODULE SqlBuilder ------------------------------
(***************************************************************************)
(* The generated query builders of the chair and estate tables.  A method  *)
(* takes its query by value and returns another, but the copies share      *)
(* memory: the array behind the where and join lists, which append writes  *)
(* into while it has room, and the map of the values that are set.  A      *)
(* bulk insert is a pointer and changes in place.                          *)
(***************************************************************************)
EXTENDS Naturals, FiniteSets, SequencesExt

CONSTANTS
  Columns, \* the columns a value may be set for
  Fields,  \* the single-valued parts: limit, offset, order, alias, columns, lock...
  MaxCalls, \* bound on the calls that return a query, those that begin one twice
  MaxNew,   \* bound on those of them that begin one
  MaxRows   \* bound on the rows of a bulk insert

ASSUME CallsAssumption == MaxCalls \in Nat /\ MaxNew \in Nat /\ MaxRows \in Nat

VARIABLES
  heap,    \* the arrays behind the lists; their length is the capacity
  maps,    \* the set maps: sets of [column, value]
  queries, \* the queries made, a call each
  uses     \* history: how often each was the receiver or an argument of a call

builderVars == <<heap, maps, queries, uses>>

Kinds == {"select", "update", "delete", "insert", "bulk", "ondup"}
Lists == {"where", "joins"}
Sets == {"update", "insert", "ondup"}
Nil == [arr |-> 0, len |-> 0]
Unset == [f \in Fields |-> 0]
Handles == DOMAIN queries
Is(h, kind) == queries[h].kind = kind
Call == Len(uses) + 1  \* every call passes a value of its own
Begun == Cardinality({h \in Handles : queries[h].kind = "bulk" \/ queries[h].from = {}})
-----------------------------------------------------------------------------
(* append: in place while the array has room, else into one of twice the   *)
(* capacity.                                                               *)
Room(s) == s.arr # 0 /\ s.len < Len(heap[s.arr])
NewCap(s) == IF s.arr = 0 THEN 1 ELSE 2 * Len(heap[s.arr])
Elements(s) == IF s.arr = 0 THEN <<>> ELSE SubSeq(heap[s.arr], 1, s.len)
Appended(s, x) ==
  IF Room(s)
    THEN heap' = [heap EXCEPT ![s.arr][s.len + 1] = x]
    ELSE heap' = Append(heap, [i \in 1 .. NewCap(s) |->
                   IF i <= s.len THEN heap[s.arr][i]
                   ELSE IF i = s.len + 1 THEN x ELSE [is |-> 0, of |-> <<>>]])
AppendedSlice(s) ==
  [arr |-> IF Room(s) THEN s.arr ELSE Len(heap) + 1, len |-> s.len + 1]

(* An entry of a list: a condition or clause, or the lists an Or holds.    *)
Entry(x) == [is |-> x, of |-> <<>>]
EntryOr(hs) == [is |-> Call, of |-> [i \in DOMAIN hs |-> queries[hs[i]].lists.where]]
Flat(h) == \A i \in DOMAIN Elements(queries[h].lists.where) :
             Elements(queries[h].lists.where)[i].of = <<>>

(* What ToSql renders of a query, read when it is called.                  *)
Read(s) ==
  [i \in 1 .. s.len |->
     [Elements(s)[i] EXCEPT !.of = [k \in DOMAIN @ |-> Elements(@[k])]]]
MapOf(m) == IF m = 0 THEN {} ELSE maps[m]
ToSql(q) ==
  [lists |-> [l \in Lists |-> Read(q.lists[l])],
   fields |-> q.fields,
   set |-> MapOf(q.map),
   rows |-> [i \in DOMAIN q.rows |-> MapOf(q.rows[i])]]
-----------------------------------------------------------------------------
Said0 == [lists |-> [l \in Lists |-> <<>>], fields |-> Unset, set |-> {}, rows |-> <<>>]

(* A query: its parts, the queries it was made from, and (history) what    *)
(* its calls said.                                                         *)
Query(kind, map, rows, from, said) ==
  [kind |-> kind, lists |-> [l \in Lists |-> Nil], fields |-> Unset,
   map |-> map, rows |-> rows, from |-> from, said |-> said]
Adds(q) == Len(uses) + Begun < MaxCalls /\ queries' = Append(queries, q)
Used(S) == [h \in DOMAIN uses |-> IF h \in S THEN uses[h] + 1 ELSE uses[h]]
Sources(S) == S \cup UNION {queries[h].from : h \in S}

BuilderInit == heap = <<>> /\ maps = <<>> /\ queries = <<>> /\ uses = <<>>

(* Select, Update, Delete, Insert, BulkInsert.                             *)
(* Mutant: the map of the values is made once. *)
NewOneMap(kind) ==
  /\ kind # "ondup" /\ Begun < MaxNew
  /\ IF kind \in Sets /\ maps = <<>> THEN maps' = <<{}>> ELSE UNCHANGED maps
  /\ Adds(Query(kind, IF kind \in Sets THEN 1 ELSE 0, <<>>, {}, Said0))
  /\ uses' = Append(uses, 0) /\ UNCHANGED heap
New(kind) ==
  /\ kind # "ondup" /\ Begun < MaxNew
  /\ IF kind \in Sets THEN maps' = Append(maps, {}) ELSE UNCHANGED maps
  /\ Adds(Query(kind, IF kind \in Sets THEN Len(maps) + 1 ELSE 0, <<>>, {}, Said0))
  /\ uses' = Append(uses, 0) /\ UNCHANGED heap

(* q.where = append(q.where, ...), and the same of the join clauses.       *)
AppendTo(h, l) ==
  /\ LET q == queries[h]
     IN  /\ Appended(q.lists[l], Entry(Call))
         /\ Adds([q EXCEPT !.lists[l] = AppendedSlice(@),
                           !.said.lists[l] = Append(@, Entry(Call)),
                           !.from = Sources({h})])
  /\ uses' = Append(Used({h}), 0) /\ UNCHANGED maps
SelectWhere(h) == Is(h, "select") /\ AppendTo(h, "where")
JoinClause(h) == Is(h, "select") /\ AppendTo(h, "joins")
UpdateWhere(h) == Is(h, "update") /\ AppendTo(h, "where")
DeleteWhere(h) == Is(h, "delete") /\ AppendTo(h, "where")

Or(h, k) ==
  /\ h # k /\ Is(h, "select") /\ Is(k, "select") /\ Flat(k)
  /\ LET q == queries[h]
         said == [is |-> Call, of |-> <<queries[k].said.lists.where>>]
     IN  /\ Appended(q.lists.where, EntryOr(<<k>>))
         /\ Adds([q EXCEPT !.lists.where = AppendedSlice(@),
                           !.said.lists.where = Append(@, said),
                           !.from = Sources({h, k})])
  /\ uses' = Append(Used({h, k}), 0) /\ UNCHANGED maps

(* Limit, Offset, ForUpdate, TableAlias, SetColumns, GroupBy, OrderBy...   *)
Assign(h, f) ==
  /\ Is(h, "select")
  /\ Adds([queries[h] EXCEPT !.fields[f] = Call, !.said.fields[f] = Call,
                             !.from = Sources({h})])
  /\ uses' = Append(Used({h}), 0) /\ UNCHANGED <<heap, maps>>

(* Set, Value, ValueOnUpdate and their like write into the shared map.     *)
Put(S, c) == {e \in S : e.column # c} \cup {[column |-> c, value |-> Call]}
PutInto(h, c) ==
  /\ maps' = [maps EXCEPT ![queries[h].map] = Put(@, c)]
  /\ Adds([queries[h] EXCEPT !.said.set = Put(@, c), !.from = Sources({h})])
  /\ uses' = Append(Used({h}), 0) /\ UNCHANGED heap
UpdateSet(h, c) == Is(h, "update") /\ PutInto(h, c)
InsertValue(h, c) == Is(h, "insert") /\ PutInto(h, c)
ValueOnUpdate(h, c) == Is(h, "ondup") /\ PutInto(h, c)

(* OnDuplicateKeyUpdate keeps the insert and has a map of its own.         *)
OnDuplicateKeyUpdate(h) ==
  /\ Is(h, "insert")
  /\ maps' = Append(maps, {})
  /\ Adds(Query("ondup", Len(maps) + 1, <<queries[h].map>>, Sources({h}),
                [Said0 EXCEPT !.rows = <<queries[h].said.set>>]))
  /\ uses' = Append(Used({h}), 0) /\ UNCHANGED heap

(* Append of a bulk insert.                                                *)
BulkAppend(b, h) ==
  /\ Len(queries[b].rows) < MaxRows
  /\ queries[b].kind = "bulk" /\ Is(h, "insert")
  /\ queries' = [queries EXCEPT ![b].rows = Append(@, queries[h].map),
                                ![b].said.rows = Append(@, queries[h].said.set),
                                ![b].from = @ \cup Sources({h})]
  /\ uses' = Used({h}) /\ UNCHANGED <<heap, maps>>

BuilderNext ==
  \/ \E kind \in Kinds : New(kind)
  \/ \E h \in Handles :
       \/ SelectWhere(h) \/ JoinClause(h) \/ UpdateWhere(h) \/ DeleteWhere(h)
       \/ \E f \in Fields : Assign(h, f)
       \/ \E c \in Columns : UpdateSet(h, c) \/ InsertValue(h, c) \/ ValueOnUpdate(h, c)
       \/ OnDuplicateKeyUpdate(h)
       \/ \E k \in Handles : Or(h, k) \/ BulkAppend(h, k)

BuilderSpec == BuilderInit /\ [][BuilderNext]_builderVars
-----------------------------------------------------------------------------
(* The lists and maps of the queries exist, no list is longer than its     *)
(* array, and the two maps of an ON DUPLICATE KEY UPDATE are two.          *)
BuilderTypeOK ==
  /\ DOMAIN uses = Handles
  /\ \A h \in Handles :
       LET q == queries[h]
       IN  /\ q.kind \in Kinds /\ q.from \subseteq Handles \ {h}
           /\ q.map \in 0 .. Len(maps) /\ (q.map # 0) = (q.kind \in Sets)
           /\ ToSet(q.rows) \subseteq 1 .. Len(maps) \ {q.map}
           /\ \A l \in Lists : /\ q.lists[l].arr \in 0 .. Len(heap)
                               /\ q.lists[l].arr # 0 => q.lists[l].len <= Len(heap[q.lists[l].arr])

(* A query renders other than what its calls said only when it shares its  *)
(* memory: a SELECT or DELETE when a query it was made from was used twice *)
(* while its array had room; a query with a map when it was itself used    *)
(* again or a query it was made from was used twice.  So the inserts that  *)
(* postChair and postEstate build in one chain of calls say their record.  *)
DiffersOnlyIfShared ==
  \A h \in Handles :
    LET q == queries[h]
        Twice == {k \in q.from : uses[k] > 1}
        Spare == {k \in Twice : \E l \in Lists : Room(queries[k].lists[l])}
    IN  ToSql(q) # q.said
          => IF q.kind \in {"select", "delete"} THEN Spare # {}
             ELSE Twice # {} \/ uses[h] > 0
=============================================================================
