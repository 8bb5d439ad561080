----------------------------- MODULE Chairs_proofs -----------------------------
(***************************************************************************)
(* Theorems about ChairShop, for any number of chairs and requests, any    *)
(* data file, any CSV and every combination of faults; and about ChairEdge *)
(* in front of it, for any number of viewers and URIs besides.             *)
(***************************************************************************)
EXTENDS ChairEdge, FiniteSetTheorems, TLAPS

-----------------------------------------------------------------------------
(* Types.                                                                  *)

(* Ids and stocks of a batch are the ones its records carry.               *)
LEMMA BatchStockType ==
  ASSUME NEW p \in Posters
  PROVE  /\ BatchIds(p) \subseteq Chairs
         /\ DOMAIN BatchStock(p) = BatchIds(p)
         /\ BatchStock(p) \in [BatchIds(p) -> Int]
<1>1. Batch[p] \in Seq(CsvRecord)
  BY BatchAssumption
<1>2. \A k \in DOMAIN Batch[p] : Batch[p][k].id \in Chairs /\ Batch[p][k].stock \in Int
  <2>1. \A k \in DOMAIN Batch[p] : Batch[p][k] \in CsvRecord
    BY <1>1
  <2> QED
    BY <2>1 DEF CsvRecord
<1>3. \A c \in BatchIds(p) : \E k \in DOMAIN Batch[p] : Batch[p][k].id = c
  BY DEF BatchIds
<1> QED
  BY <1>2, <1>3 DEF BatchIds, BatchStock

LEMMA FileStockType == \A c \in Chairs : FileStock(c) \in Int
<1> SUFFICES ASSUME NEW c \in Chairs PROVE FileStock(c) \in Int
  OBVIOUS
<1>1. CASE ~InFile(c)
  BY <1>1 DEF FileStock
<1>2. CASE InFile(c)
  <2> DEFINE k == CHOOSE j \in DOMAIN InitFile : c \in DOMAIN InitFile[j]
  <2>1. k \in DOMAIN InitFile /\ c \in DOMAIN InitFile[k]
    BY <1>2 DEF InFile
  <2>2. InitFile[k][c] \in Int
    BY <2>1, InitFileAssumption
  <2> QED
    BY <1>2, <2>2 DEF FileStock
<1> QED
  BY <1>1, <1>2

(* The columns keep their types when rows are inserted.                    *)
LEMMA InsertRowsType ==
  ASSUME ShopTypeOK, NEW D \in SUBSET Chairs, NEW f \in [D -> Int], InsertRows(f)
  PROVE  /\ rows' \subseteq Chairs
         /\ stock' \in [Chairs -> Int] /\ supply' \in [Chairs -> Int]
         /\ epoch' = epoch
BY DEF ShopTypeOK, InsertRows

LEMMA TypeInit == Init => ShopTypeOK
BY FileStockType DEF Init, ShopTypeOK, Statuses

LEMMA TypeBuy ==
  ASSUME ShopTypeOK, NEW b \in Buyers,
         BuyArrive(b) \/ BuyReject(b) \/ BuyStep(b)
  PROVE  ShopTypeOK'
<1> USE WantAssumption DEF ShopTypeOK, Statuses, Requests, Arrive, Advance, Return,
        tableVars, localVars, serverVars
<1>1. CASE BuyArrive(b)
  BY <1>1 DEF BuyArrive
<1>2. CASE BuyReject(b)
  BY <1>2 DEF BuyReject
<1>3. CASE BuyUpdate(b)
  BY <1>3 DEF BuyUpdate, TakeUnit, InStock
<1>4. CASE BuyMiss(b)
  BY <1>4 DEF BuyMiss
<1>5. CASE BuyUpdateFails(b)
  BY <1>5 DEF BuyUpdateFails, TakeUnit, InStock
<1>6. CASE BuySAdd(b)
  BY <1>6 DEF BuySAdd
<1>7. CASE BuySAddFails(b)
  BY <1>7 DEF BuySAddFails
<1> QED
  BY <1>1, <1>2, <1>3, <1>4, <1>5, <1>6, <1>7 DEF BuyStep

LEMMA TypePost ==
  ASSUME ShopTypeOK, NEW p \in Posters,
         PostArrive(p) \/ PostReject(p) \/ PostStep(p)
  PROVE  ShopTypeOK'
<1> USE DEF Statuses, Requests, Arrive, Advance, Return, tableVars, localVars, serverVars
<1>0. InsertRows(BatchStock(p)) =>
        /\ rows' \subseteq Chairs
        /\ stock' \in [Chairs -> Int] /\ supply' \in [Chairs -> Int]
        /\ epoch' = epoch
  BY InsertRowsType, BatchStockType
<1>1. CASE PostArrive(p)
  BY <1>1 DEF PostArrive, ShopTypeOK
<1>2. CASE PostReject(p)
  BY <1>2 DEF PostReject, ShopTypeOK
<1>3. CASE PostInsert(p)
  BY <1>0, <1>3 DEF PostInsert, ShopTypeOK
<1>4. CASE PostInsertFails(p)
  BY <1>0, <1>4 DEF PostInsertFails, ShopTypeOK
<1> QED
  BY <1>1, <1>2, <1>3, <1>4 DEF PostStep

LEMMA HaltTypes ==
  ASSUME ShopTypeOK, Halt, soldOut' \subseteq Chairs
  PROVE  ShopTypeOK'
<1>1. pc' \in [Requests -> {"idle", "update", "sadd", "insert", "schema", "estates",
                           "chairs", "flush", "reply", "done", "lost"}]
  BY DEF ShopTypeOK, Halt
<1>2. /\ appUp' = FALSE /\ redisUp' = redisUp /\ forgot' = forgot /\ status' = status
      /\ UNCHANGED <<tableVars, localVars>>
  BY DEF Halt
<1> QED
  BY <1>1, <1>2 DEF ShopTypeOK, tableVars, localVars

LEMMA TypeInitialize ==
  ASSUME ShopTypeOK, NEW i \in Initializers, InitArrive(i) \/ InitStep(i)
  PROVE  ShopTypeOK'
<1> USE DEF Statuses, Requests, Arrive, Advance, Return, tableVars, localVars, serverVars
<1>0. Truncate => /\ rows' \subseteq Chairs
                  /\ stock' \in [Chairs -> Int] /\ supply' \in [Chairs -> Int]
                  /\ epoch' \in Nat \ {0}
  BY DEF Truncate, ShopTypeOK
<1>1. CASE InitArrive(i)
  BY <1>1 DEF InitArrive, ShopTypeOK
<1>2. CASE InitSchema(i)
  <2>1. missed' \in [Initializers -> SUBSET Nat]
    BY <1>2 DEF InitSchema, GoesOnWithout, ShopTypeOK
  <2>2. Truncate \/ UNCHANGED tableVars
    BY <1>2 DEF InitSchema, GoesOnWithout
  <2> QED
    BY <1>0, <1>2, <2>1, <2>2 DEF InitSchema, ShopTypeOK
<1>3. CASE InitEstates(i)
  BY <1>3 DEF InitEstates, ShopTypeOK
<1>4. CASE InitChairs(i)
  <2>1. fileAt[i] \in DOMAIN InitFile
    BY <1>4, InitFileAssumption DEF InitChairs, ShopTypeOK
  <2> DEFINE f == InitFile[fileAt[i]]
  <2>2. DOMAIN f \in SUBSET Chairs /\ f \in [DOMAIN f -> Int]
    BY <2>1, InitFileAssumption
  <2>3. RunInsert(f) \/ UNCHANGED tableVars
    BY <1>4 DEF InitChairs, GoesOnWithout
  <2>5. missed' \in [Initializers -> SUBSET Nat]
    <3>1. fileAt[i] \in Nat /\ missed \in [Initializers -> SUBSET Nat]
      BY DEF ShopTypeOK
    <3>2. missed' = missed \/ missed' = [missed EXCEPT ![i] = @ \cup {fileAt[i]}]
      BY <1>4 DEF InitChairs, GoesOnWithout
    <3> QED
      BY <3>1, <3>2
  <2>6. fileAt' \in [Initializers -> Nat \ {0}]
    BY <1>4 DEF InitChairs, ShopTypeOK
  <2>4. /\ rows' \subseteq Chairs
        /\ stock' \in [Chairs -> Int] /\ supply' \in [Chairs -> Int]
        /\ epoch' = epoch
    <3> HIDE DEF f
    <3>1. CASE InsertRows(f)
      BY <2>2, <3>1, InsertRowsType
    <3>2. CASE UNCHANGED tableVars
      BY <3>2 DEF ShopTypeOK
    <3> QED
      BY <2>3, <3>1, <3>2 DEF RunInsert
  <2> QED
    BY <1>4, <2>4, <2>5, <2>6 DEF InitChairs, ShopTypeOK
<1>5. CASE InitChairsDone(i)
  BY <1>5 DEF InitChairsDone, ShopTypeOK
<1>6. CASE InitPsqlFails(i)
  <2>1. Truncate \/ UNCHANGED tableVars
    BY <1>6 DEF InitPsqlFails
  <2> QED
    BY <1>0, <1>6, <2>1 DEF InitPsqlFails, ShopTypeOK
<1>7. CASE InitFlush(i)
  BY <1>7 DEF InitFlush, ShopTypeOK
<1>8. CASE InitFlushFails(i)
  <2>1. soldOut' \subseteq Chairs
    BY <1>8 DEF InitFlushFails, ShopTypeOK
  <2>2. Halt
    BY <1>8 DEF InitFlushFails
  <2> QED
    BY <2>1, <2>2, HaltTypes
<1> QED
  BY <1>1, <1>2, <1>3, <1>4, <1>5, <1>6, <1>7, <1>8 DEF InitStep

(* Type correctness of the specification.                                  *)
THEOREM TypeCorrect == Spec => []ShopTypeOK
<1>1. ShopTypeOK /\ [Next]_vars => ShopTypeOK'
  <2> SUFFICES ASSUME ShopTypeOK, [Next]_vars PROVE ShopTypeOK'
    OBVIOUS
  <2> USE DEF Statuses, Requests, Advance, tableVars, localVars, serverVars
  <2>1. ASSUME NEW r \in Requests, Refused(r) \/ Reply(r) PROVE ShopTypeOK'
    BY <2>1 DEF Refused, Reply, ShopTypeOK
  <2>2. ASSUME NEW r \in Requests, Progress(r) PROVE ShopTypeOK'
    BY <2>1, <2>2, TypeBuy, TypePost, TypeInitialize DEF Progress
  <2>3. CASE Crash
    <3>1. Halt /\ soldOut' \subseteq Chairs
      BY <2>3 DEF Crash, ShopTypeOK
    <3> QED
      BY <3>1, HaltTypes
  <2>4. CASE Restart
    BY <2>4 DEF Restart, ShopTypeOK
  <2>5. CASE RedisTurns
    <3>1. redisUp' \in BOOLEAN /\ soldOut' \subseteq soldOut
      BY <2>5 DEF RedisTurns
    <3> QED
      BY <2>5, <3>1 DEF RedisTurns, ShopTypeOK
  <2>6. CASE UNCHANGED vars
    BY <2>6 DEF vars, ShopTypeOK
  <2> QED
    BY <2>1, <2>2, <2>3, <2>4, <2>5, <2>6, TypeBuy, TypePost, TypeInitialize DEF Next
<1> QED
  BY <1>1, TypeInit, PTL DEF Spec

-----------------------------------------------------------------------------
(* What a step can do to the chair table and to the buyers' knowledge of   *)
(* it: nothing, take one unit, empty the table, or add rows it lacks.      *)

TableKept == UNCHANGED <<tableVars, tookIn, seen>>

UnitTaken(b) ==
  /\ pc[b] = "update"
  /\ TakeUnit(b)
  /\ \/ seen' = [seen EXCEPT ![b] = stock'[Want[b]]]
     \/ UNCHANGED seen

TableEmptied ==
  /\ rows' = {}
  /\ epoch' = epoch + 1
  /\ UNCHANGED <<tookIn, seen>>

RowsAdded(D, f) ==
  /\ D \cap rows = {}
  /\ f \in [D -> Int]
  /\ InsertRows(f)
  /\ UNCHANGED <<tookIn, seen>>

TableStep ==
  \/ TableKept
  \/ \E b \in Buyers : UnitTaken(b)
  \/ TableEmptied
  \/ \E D \in SUBSET Chairs : \E f \in [D -> Int] : RowsAdded(D, f)

LEMMA TruncateStep ==
  ASSUME Truncate, UNCHANGED <<tookIn, seen>>
  PROVE  TableKept \/ TableEmptied
BY DEF Truncate, TableKept, TableEmptied

LEMMA TableStepPost ==
  ASSUME NEW p \in Posters, PostStep(p)
  PROVE  TableStep
<1>1. CASE Insertable(p) /\ InsertRows(BatchStock(p))
  <2>1. RowsAdded(BatchIds(p), BatchStock(p))
    BY <1>1, BatchStockType DEF Insertable, RowsAdded, PostStep, PostInsert,
       PostInsertFails, localVars, serverVars
  <2>2. BatchIds(p) \in SUBSET Chairs /\ BatchStock(p) \in [BatchIds(p) -> Int]
    BY BatchStockType
  <2> QED
    BY <2>1, <2>2 DEF TableStep
<1>2. CASE UNCHANGED tableVars
  BY <1>2 DEF TableStep, TableKept, PostStep, PostInsert, PostInsertFails, localVars, serverVars
<1> QED
  BY <1>1, <1>2 DEF PostStep, PostInsert, PostInsertFails

LEMMA TableStepInitialize ==
  ASSUME ShopTypeOK, NEW i \in Initializers, InitStep(i)
  PROVE  TableStep
<1> USE DEF localVars, serverVars
<1>1. CASE InitSchema(i)
  <2>1. (Truncate \/ UNCHANGED tableVars) /\ UNCHANGED <<tookIn, seen>>
    BY <1>1 DEF InitSchema, GoesOnWithout
  <2> QED
    BY <2>1, TruncateStep DEF TableStep, TableKept
<1>2. CASE InitPsqlFails(i)
  <2>1. Truncate \/ UNCHANGED tableVars
    BY <1>2 DEF InitPsqlFails
  <2>2. UNCHANGED <<tookIn, seen>>
    BY <1>2 DEF InitPsqlFails
  <2> QED
    BY <2>1, <2>2, TruncateStep DEF TableStep, TableKept
<1>3. CASE InitChairs(i)
  <2> DEFINE f == InitFile[fileAt[i]]
  <2>1. fileAt[i] \in DOMAIN InitFile
    BY <1>3, InitFileAssumption DEF InitChairs, ShopTypeOK
  <2>2. DOMAIN f \in SUBSET Chairs /\ f \in [DOMAIN f -> Int]
    BY <2>1, InitFileAssumption
  <2>3. (RunInsert(f) \/ UNCHANGED tableVars) /\ UNCHANGED <<tookIn, seen>>
    BY <1>3 DEF InitChairs, GoesOnWithout
  <2> HIDE DEF f
  <2>4. CASE UNCHANGED tableVars
    BY <2>3, <2>4 DEF TableStep, TableKept
  <2>5. CASE DOMAIN f \cap rows = {} /\ InsertRows(f)
    BY <2>2, <2>3, <2>5 DEF TableStep, RowsAdded
  <2> QED
    BY <2>3, <2>4, <2>5 DEF RunInsert
<1>4. CASE InitEstates(i) \/ InitChairsDone(i) \/ InitFlush(i) \/ InitFlushFails(i)
  BY <1>4 DEF InitEstates, InitChairsDone, InitFlush, InitFlushFails, Halt, TableStep,
     TableKept
<1> QED
  BY <1>1, <1>2, <1>3, <1>4 DEF InitStep

LEMMA TableStepBuy ==
  ASSUME NEW b \in Buyers, BuyStep(b)
  PROVE  TableKept \/ UnitTaken(b)
BY DEF BuyStep, BuyUpdate, BuyMiss, BuyUpdateFails, BuySAdd, BuySAddFails, localVars, serverVars,
   TableKept, UnitTaken, Advance, Return

(* Every step is one of the four.                                          *)
LEMMA EveryTableStep ==
  ASSUME ShopTypeOK, [Next]_vars
  PROVE  TableStep
<1>1. ASSUME NEW r \in Requests, Progress(r) PROVE TableStep
  <2>1. CASE r \in Buyers /\ BuyStep(r)
    BY <2>1, TableStepBuy DEF TableStep
  <2>2. CASE r \in Posters /\ PostStep(r)
    BY <2>2, TableStepPost
  <2>3. CASE r \in Initializers /\ InitStep(r)
    BY <2>3, TableStepInitialize
  <2>4. CASE Reply(r)
    BY <2>4 DEF Reply, TableStep, TableKept, localVars, serverVars
  <2> QED
    BY <1>1, <2>1, <2>2, <2>3, <2>4 DEF Progress
<1>2. ASSUME NEW b \in Buyers, BuyArrive(b) \/ BuyReject(b) PROVE TableStep
  BY <1>2 DEF BuyArrive, BuyReject, TableStep, TableKept, localVars, serverVars
<1>3. ASSUME NEW p \in Posters, PostArrive(p) \/ PostReject(p) PROVE TableStep
  BY <1>3 DEF PostArrive, PostReject, TableStep, TableKept, localVars, serverVars
<1>4. ASSUME NEW i \in Initializers, InitArrive(i) PROVE TableStep
  BY <1>4 DEF InitArrive, TableStep, TableKept
<1>5. ASSUME NEW r \in Requests, Refused(r) PROVE TableStep
  BY <1>5 DEF Refused, TableStep, TableKept, localVars, serverVars
<1>6. CASE Crash \/ Restart \/ RedisTurns
  BY <1>6 DEF Crash, Restart, RedisTurns, Halt, TableStep, TableKept, localVars, serverVars
<1>7. CASE UNCHANGED vars
  BY <1>7 DEF vars, TableStep, TableKept, localVars, serverVars
<1> QED
  BY <1>1, <1>2, <1>3, <1>4, <1>5, <1>6, <1>7 DEF Next

(* A buyer that has not run its UPDATE after a step had not before it, and *)
(* the step took no unit for it.                                           *)
Waiting(b) == pc[b] \in {"idle", "update"}
LEMMA WaitingStep ==
  ASSUME ShopTypeOK, [Next]_vars, NEW b \in Buyers, Waiting(b)'
  PROVE  Waiting(b) /\ tookIn'[b] = tookIn[b] /\ seen'[b] = seen[b]
<1> USE DEF Waiting, ShopTypeOK, Requests, localVars, serverVars
<1>1. ASSUME NEW r \in Requests, Progress(r) PROVE
         Waiting(b) /\ tookIn'[b] = tookIn[b] /\ seen'[b] = seen[b]
  <2>1. CASE r \in Buyers /\ BuyStep(r)
    BY <2>1 DEF BuyStep, BuyUpdate, BuyMiss, BuyUpdateFails, BuySAdd, BuySAddFails,
       TakeUnit, Advance, Return
  <2>2. CASE r \in Posters /\ PostStep(r)
    BY <2>2, DisjointAssumption DEF PostStep, PostInsert, PostInsertFails, Advance, Return
  <2>3. CASE r \in Initializers /\ InitStep(r)
    BY <2>3, DisjointAssumption DEF InitStep, InitSchema, InitEstates, InitChairs,
       InitChairsDone, InitPsqlFails, InitFlush, InitFlushFails, Halt, InFlight, Ended,
       Advance, Return
  <2>4. CASE Reply(r)
    BY <2>4 DEF Reply, Advance
  <2> QED
    BY <1>1, <2>1, <2>2, <2>3, <2>4 DEF Progress
<1>2. ASSUME NEW a \in Buyers, BuyArrive(a) \/ BuyReject(a) PROVE
         Waiting(b) /\ tookIn'[b] = tookIn[b] /\ seen'[b] = seen[b]
  BY <1>2 DEF BuyArrive, BuyReject, Arrive, Advance, Return
<1>3. ASSUME NEW p \in Posters, PostArrive(p) \/ PostReject(p) PROVE
         Waiting(b) /\ tookIn'[b] = tookIn[b] /\ seen'[b] = seen[b]
  BY <1>3, DisjointAssumption DEF PostArrive, PostReject, Arrive, Advance, Return
<1>4. ASSUME NEW i \in Initializers, InitArrive(i) PROVE
         Waiting(b) /\ tookIn'[b] = tookIn[b] /\ seen'[b] = seen[b]
  BY <1>4, DisjointAssumption DEF InitArrive, Arrive, Advance
<1>5. ASSUME NEW r \in Requests, Refused(r) PROVE
         Waiting(b) /\ tookIn'[b] = tookIn[b] /\ seen'[b] = seen[b]
  BY <1>5 DEF Refused, Advance
<1>6. CASE Crash \/ Restart \/ RedisTurns
  BY <1>6 DEF Crash, Restart, RedisTurns, Halt, InFlight, Ended
<1>7. CASE UNCHANGED vars
  BY <1>7 DEF vars
<1> QED
  BY <1>1, <1>2, <1>3, <1>4, <1>5, <1>6, <1>7 DEF Next

-----------------------------------------------------------------------------
(* Units.                                                                  *)

TookBeforeNow == \A b \in Buyers : tookIn[b] <= epoch
WaitingTookNothing == \A b \in Buyers : Waiting(b) => tookIn[b] = 0 /\ seen[b] = -1
SeenAfterTaking == \A b \in Buyers : seen[b] >= 0 => tookIn[b] > 0
TakersHaveRow == \A c \in Chairs : Takers(c) # {} => c \in rows
StockBelowSeen ==
  \A b \in Buyers :
    (seen[b] >= 0 /\ tookIn[b] = epoch) => stock[Want[b]] <= seen[b]

UnitsInv ==
  /\ TookBeforeNow
  /\ WaitingTookNothing
  /\ SeenAfterTaking
  /\ TakersHaveRow
  /\ StockBelowSeen
  /\ UnitsConserved
  /\ RemainderSeenOnce

LEMMA TakersFinite == \A c \in Chairs : IsFiniteSet(Takers(c))
BY BuyersFinite, FS_Subset DEF Takers

LEMMA UnitsInit == Init => UnitsInv
<1> SUFFICES ASSUME Init PROVE UnitsInv
  OBVIOUS
<1>1. \A c \in Chairs : Takers(c) = {}
  BY DEF Init, Takers
<1>2. UnitsConserved
  <2> SUFFICES ASSUME NEW c \in rows
               PROVE  stock[c] + Cardinality(Takers(c)) = supply[c] /\ Takers(c) = {}
    BY DEF UnitsConserved
  <2>1. c \in Chairs /\ Takers(c) = {} /\ Cardinality(Takers(c)) = 0
    BY <1>1, FS_EmptySet DEF Init
  <2>2. supply[c] = stock[c] /\ stock[c] \in Int
    BY <2>1, FileStockType DEF Init
  <2> QED
    BY <2>1, <2>2
<1> QED
  BY <1>1, <1>2 DEF Init, UnitsInv, TookBeforeNow, WaitingTookNothing, SeenAfterTaking,
     TakersHaveRow, StockBelowSeen, RemainderSeenOnce, Waiting

LEMMA UnitsKept ==
  ASSUME UnitsInv, TableKept
  PROVE  /\ TookBeforeNow' /\ SeenAfterTaking' /\ TakersHaveRow' /\ StockBelowSeen'
         /\ UnitsConserved' /\ RemainderSeenOnce'
<1>1. \A c \in Chairs : Takers(c)' = Takers(c)
  BY DEF TableKept, Takers, tableVars
<1>2. UnitsConserved'
  BY <1>1 DEF UnitsInv, UnitsConserved, TableKept, tableVars, Takers
<1> QED
  BY <1>1, <1>2 DEF UnitsInv, TableKept, tableVars, TookBeforeNow, SeenAfterTaking,
     TakersHaveRow, StockBelowSeen, RemainderSeenOnce

LEMMA UnitsTaken ==
  ASSUME ShopTypeOK, UnitsInv, NEW b \in Buyers, UnitTaken(b)
  PROVE  /\ TookBeforeNow' /\ SeenAfterTaking' /\ TakersHaveRow' /\ StockBelowSeen'
         /\ UnitsConserved' /\ RemainderSeenOnce'
<1> DEFINE w == Want[b]
<1>1. /\ w \in rows /\ stock[w] > 0 /\ w \in Chairs
      /\ stock' = [stock EXCEPT ![w] = @ - 1]
      /\ tookIn' = [tookIn EXCEPT ![b] = epoch]
      /\ rows' = rows /\ supply' = supply /\ epoch' = epoch
  BY WantAssumption DEF UnitTaken, TakeUnit, InStock
<1>2. tookIn[b] = 0 /\ seen[b] = -1
  BY DEF UnitsInv, WaitingTookNothing, Waiting, UnitTaken
<1>3. Takers(w)' = Takers(w) \cup {b} /\ b \notin Takers(w)
  BY <1>1, <1>2 DEF Takers, ShopTypeOK
<1>4. \A c \in Chairs \ {w} : Takers(c)' = Takers(c)
  BY <1>1, <1>2 DEF Takers, ShopTypeOK
<1>5. Cardinality(Takers(w)') = Cardinality(Takers(w)) + 1
  BY <1>1, <1>3, TakersFinite, FS_AddElement
<1>6. Cardinality(Takers(w)) \in Nat
  BY <1>1, TakersFinite, FS_CardinalityType
<1>7. UnitsConserved'
  <2> SUFFICES ASSUME NEW c \in rows
               PROVE  /\ stock'[c] + Cardinality(Takers(c)') = supply[c]
                      /\ Takers(c)' # {} => stock'[c] >= 0
    BY <1>1 DEF UnitsConserved
  <2>1. CASE c = w
    BY <1>1, <1>5, <1>6, <2>1 DEF UnitsInv, UnitsConserved, ShopTypeOK
  <2>2. CASE c # w
    BY <1>1, <1>4, <2>2 DEF UnitsInv, UnitsConserved, ShopTypeOK
  <2> QED
    BY <2>1, <2>2
<1>8. seen' \in [Buyers -> Nat \cup {-1}] /\ \A a \in Buyers \ {b} : seen'[a] = seen[a]
  BY <1>1 DEF UnitTaken, ShopTypeOK
<1>9. seen'[b] = -1 \/ seen'[b] = stock[w] - 1
  BY <1>1, <1>2 DEF UnitTaken, ShopTypeOK
<1>10. StockBelowSeen'
  BY <1>1, <1>8, <1>9, WantAssumption DEF UnitsInv, StockBelowSeen, ShopTypeOK
<1>11. RemainderSeenOnce'
  <2>1. \A a \in Buyers \ {b} :
          (Want[a] = w /\ tookIn[a] = epoch /\ seen[a] >= 0) => seen[a] >= stock[w]
    BY DEF UnitsInv, StockBelowSeen
  <2> SUFFICES ASSUME NEW a \in Buyers, NEW d \in Buyers, a # d, Want[a] = Want[d],
                      tookIn'[a] = tookIn'[d], seen'[a] >= 0
               PROVE  seen'[a] # seen'[d]
    BY DEF RemainderSeenOnce
  <2>2. CASE a # b /\ d # b
    BY <1>1, <1>8, <2>2 DEF UnitsInv, RemainderSeenOnce, ShopTypeOK
  <2>3. CASE a = b
    BY <1>1, <1>8, <1>9, <2>1, <2>3 DEF ShopTypeOK
  <2>4. CASE d = b
    BY <1>1, <1>8, <1>9, <2>1, <2>4 DEF ShopTypeOK
  <2> QED
    BY <2>2, <2>3, <2>4
<1>12. TookBeforeNow' /\ SeenAfterTaking' /\ TakersHaveRow'
  BY <1>1, <1>3, <1>4, <1>8 DEF UnitsInv, TookBeforeNow, SeenAfterTaking, TakersHaveRow,
     ShopTypeOK
<1> QED
  BY <1>7, <1>10, <1>11, <1>12

LEMMA UnitsEmptied ==
  ASSUME ShopTypeOK, UnitsInv, TableEmptied
  PROVE  /\ TookBeforeNow' /\ SeenAfterTaking' /\ TakersHaveRow' /\ StockBelowSeen'
         /\ UnitsConserved' /\ RemainderSeenOnce'
<1>1. \A b \in Buyers : tookIn'[b] < epoch'
  BY DEF UnitsInv, TookBeforeNow, TableEmptied, ShopTypeOK
<1>2. \A c \in Chairs : Takers(c)' = {}
  BY <1>1 DEF Takers, ShopTypeOK, TableEmptied
<1> QED
  BY <1>1, <1>2 DEF UnitsInv, TableEmptied, TookBeforeNow, SeenAfterTaking, TakersHaveRow,
     StockBelowSeen, UnitsConserved, RemainderSeenOnce, ShopTypeOK

LEMMA UnitsAdded ==
  ASSUME ShopTypeOK, UnitsInv, NEW D \in SUBSET Chairs, NEW f \in [D -> Int],
         RowsAdded(D, f)
  PROVE  /\ TookBeforeNow' /\ SeenAfterTaking' /\ TakersHaveRow' /\ StockBelowSeen'
         /\ UnitsConserved' /\ RemainderSeenOnce'
<1>1. /\ rows' = rows \cup D
      /\ \A c \in D : stock'[c] = f[c] /\ supply'[c] = f[c] /\ f[c] \in Int
      /\ \A c \in Chairs \ D : stock'[c] = stock[c] /\ supply'[c] = supply[c]
      /\ epoch' = epoch /\ tookIn' = tookIn /\ seen' = seen
  BY DEF RowsAdded, InsertRows
<1>2. \A c \in Chairs : Takers(c)' = Takers(c)
  BY <1>1 DEF Takers
<1>3. \A c \in D : Takers(c) = {}
  BY DEF RowsAdded, UnitsInv, TakersHaveRow
<1>4. UnitsConserved'
  <2> SUFFICES ASSUME NEW c \in rows \cup D
               PROVE  /\ stock'[c] + Cardinality(Takers(c)') = supply'[c]
                      /\ Takers(c)' # {} => stock'[c] >= 0
    BY <1>1 DEF UnitsConserved
  <2>1. CASE c \in D
    BY <1>1, <1>2, <1>3, <2>1, FS_EmptySet
  <2>2. CASE c \notin D
    BY <1>1, <1>2, <2>2 DEF UnitsInv, UnitsConserved, ShopTypeOK
  <2> QED
    BY <2>1, <2>2
<1>5. StockBelowSeen'
  BY <1>1, <1>3, WantAssumption DEF UnitsInv, StockBelowSeen, Takers
<1> QED
  BY <1>1, <1>2, <1>4, <1>5 DEF UnitsInv, TookBeforeNow, SeenAfterTaking, TakersHaveRow,
     RemainderSeenOnce

LEMMA UnitsNext == ShopTypeOK /\ UnitsInv /\ [Next]_vars => UnitsInv'
<1> SUFFICES ASSUME ShopTypeOK, UnitsInv, [Next]_vars PROVE UnitsInv'
  OBVIOUS
<1>1. WaitingTookNothing'
  BY WaitingStep DEF UnitsInv, WaitingTookNothing
<1>2. TableStep
  BY EveryTableStep
<1> QED
  BY <1>1, <1>2, UnitsKept, UnitsTaken, UnitsEmptied, UnitsAdded DEF TableStep, UnitsInv

LEMMA UnitsCorrect == Spec => []UnitsInv
<1>1. Init /\ [][Next]_vars /\ []ShopTypeOK => []UnitsInv
  BY UnitsInit, UnitsNext, PTL
<1> QED
  BY <1>1, TypeCorrect, PTL DEF Spec

(* No unit is sold twice, none vanishes, and nobody buys below zero.       *)
THEOREM UnitsAreConserved == Spec => []UnitsConserved
<1>1. UnitsInv => UnitsConserved
  BY DEF UnitsInv
<1> QED
  BY <1>1, UnitsCorrect, PTL

(* Two buyers of one row never read the same remaining stock, so that only *)
(* one of them takes itself for the buyer of the last unit.                *)
THEOREM RemainderIsSeenOnce == Spec => []RemainderSeenOnce
<1>1. UnitsInv => RemainderSeenOnce
  BY DEF UnitsInv
<1> QED
  BY <1>1, UnitsCorrect, PTL

-----------------------------------------------------------------------------
(* The sold-out list.                                                      *)

SAddsLast == \A b \in Buyers : pc[b] = "sadd" => seen[b] = 0
EndedStayEnded == \A i \in Initializers : \A r \in endedBefore[i] : Ended(r)
IdleUnanswered == \A i \in Initializers : pc[i] = "idle" => status[i] = 0

(* b read 0 for c and was not over when any initialize answered 200 arrived. *)
Lister(b, c) ==
  /\ Want[b] = c /\ seen[b] = 0
  /\ \A i \in Initializers : status[i] = 200 => b \notin endedBefore[i]
EveryListedHasLister == \A c \in soldOut : \E b \in Buyers : Lister(b, c)

ListInv ==
  /\ SAddsLast
  /\ EndedStayEnded
  /\ IdleUnanswered
  /\ EveryListedHasLister

LEMMA ListInit == Init => ListInv
BY DisjointAssumption DEF Init, ListInv, SAddsLast, EndedStayEnded, IdleUnanswered,
   EveryListedHasLister, Requests

(* What a buyer has read it keeps.                                         *)
LEMMA SeenKept ==
  ASSUME ShopTypeOK, UnitsInv, [Next]_vars, NEW b \in Buyers, seen[b] >= 0
  PROVE  seen'[b] = seen[b]
<1>1. ASSUME NEW a \in Buyers, UnitTaken(a) PROVE seen'[b] = seen[b]
  <2>1. seen[a] = -1
    BY <1>1 DEF UnitTaken, UnitsInv, WaitingTookNothing, Waiting
  <2> QED
    BY <1>1, <2>1 DEF UnitTaken, ShopTypeOK
<1> QED
  BY <1>1, EveryTableStep DEF TableStep, TableKept, TableEmptied, RowsAdded

(* The control flow moves one way: an ended request stays ended, nothing   *)
(* becomes idle again, and only the UPDATE leads to the SADD.              *)
Onward ==
  /\ \A r \in Requests : Ended(r) => Ended(r)'
  /\ \A r \in Requests : pc'[r] = "idle" => pc[r] = "idle" /\ status'[r] = status[r]
  /\ \A b \in Buyers : pc'[b] = "sadd" => pc[b] = "sadd" \/ seen'[b] = 0

LEMMA EveryStepOnward ==
  ASSUME ShopTypeOK, [Next]_vars
  PROVE  Onward
<1> USE DEF Onward, Ended, ShopTypeOK, Requests, Advance, Return, Arrive, localVars, serverVars
<1>1. ASSUME NEW b \in Buyers, BuyStep(b) PROVE Onward
  <2>1. CASE BuyUpdate(b)
    BY <2>1 DEF BuyUpdate
  <2>2. CASE BuyMiss(b) \/ BuyUpdateFails(b) \/ BuySAdd(b) \/ BuySAddFails(b)
    BY <2>2 DEF BuyMiss, BuyUpdateFails, BuySAdd, BuySAddFails
  <2> QED
    BY <1>1, <2>1, <2>2 DEF BuyStep
<1>2. ASSUME NEW p \in Posters, PostStep(p) PROVE Onward
  BY <1>2 DEF PostStep, PostInsert, PostInsertFails
<1>3. ASSUME NEW i \in Initializers, InitStep(i) PROVE Onward
  <2>1. CASE InitFlushFails(i)
    BY <2>1 DEF InitFlushFails, Halt, InFlight
  <2>2. CASE InitSchema(i) \/ InitEstates(i) \/ InitChairs(i) \/ InitChairsDone(i)
    BY <2>2 DEF InitSchema, InitEstates, InitChairs, InitChairsDone
  <2>3. CASE InitPsqlFails(i) \/ InitFlush(i)
    BY <2>3 DEF InitPsqlFails, InitFlush
  <2> QED
    BY <1>3, <2>1, <2>2, <2>3 DEF InitStep
<1>4. ASSUME NEW r \in Requests, Reply(r) \/ Refused(r) PROVE Onward
  BY <1>4 DEF Reply, Refused
<1>5. ASSUME NEW b \in Buyers, BuyArrive(b) \/ BuyReject(b) PROVE Onward
  BY <1>5 DEF BuyArrive, BuyReject
<1>6. ASSUME NEW p \in Posters, PostArrive(p) \/ PostReject(p) PROVE Onward
  BY <1>6 DEF PostArrive, PostReject
<1>7. ASSUME NEW i \in Initializers, InitArrive(i) PROVE Onward
  BY <1>7 DEF InitArrive
<1>8. CASE Crash \/ Restart \/ RedisTurns
  BY <1>8 DEF Crash, Restart, RedisTurns, Halt, InFlight
<1>9. CASE UNCHANGED vars
  BY <1>9 DEF vars
<1> QED
  BY <1>1, <1>2, <1>3, <1>4, <1>5, <1>6, <1>7, <1>8, <1>9 DEF Next, Progress

(* What a step can do to the list: lengthen it by the id of a buyer whose  *)
(* SADD it is, empty it, or leave it (FLUSHALL before an exit shortens it). *)
Listing(b) ==
  /\ pc[b] = "sadd"
  /\ soldOut' \subseteq soldOut \cup {Want[b]}
  /\ \A i \in Initializers : status'[i] = status[i]
  /\ UNCHANGED <<seen, endedBefore>>

ListKept ==
  /\ soldOut' \subseteq soldOut
  /\ endedBefore' = endedBefore
  /\ \A i \in Initializers : status'[i] = 200 => status[i] = 200

ListStep ==
  \/ ListKept
  \/ \E b \in Buyers : Listing(b)
  \/ soldOut' = {} /\ UNCHANGED endedBefore
  \/ \E i \in Initializers : InitArrive(i)

LEMMA EveryListStep ==
  ASSUME ShopTypeOK, [Next]_vars
  PROVE  ListStep
<1> USE DEF ListStep, ListKept, ShopTypeOK, Requests, Advance, Return, Arrive, localVars, serverVars
<1>1. ASSUME NEW b \in Buyers, BuyStep(b) PROVE ListStep
  <2>1. CASE BuySAdd(b) \/ BuySAddFails(b)
    <3>1. Listing(b)
      BY <2>1, DisjointAssumption DEF BuySAdd, BuySAddFails, Listing
    <3> QED
      BY <3>1
  <2>2. CASE BuyUpdate(b) \/ BuyMiss(b) \/ BuyUpdateFails(b)
    BY <2>2, DisjointAssumption DEF BuyUpdate, BuyMiss, BuyUpdateFails
  <2> QED
    BY <1>1, <2>1, <2>2 DEF BuyStep
<1>2. ASSUME NEW p \in Posters, PostStep(p) PROVE ListStep
  BY <1>2, DisjointAssumption DEF PostStep, PostInsert, PostInsertFails
<1>3. ASSUME NEW i \in Initializers, InitStep(i) PROVE ListStep
  <2>1. CASE InitFlush(i)
    BY <2>1 DEF InitFlush
  <2>2. CASE InitPsqlFails(i)
    BY <2>2 DEF InitPsqlFails
  <2>3. CASE InitSchema(i) \/ InitEstates(i) \/ InitChairs(i) \/ InitChairsDone(i)
    BY <2>3 DEF InitSchema, InitEstates, InitChairs, InitChairsDone
  <2>4. CASE InitFlushFails(i)
    BY <2>4 DEF InitFlushFails, Halt
  <2> QED
    BY <1>3, <2>1, <2>2, <2>3, <2>4 DEF InitStep
<1>4. ASSUME NEW r \in Requests, Reply(r) \/ Refused(r) PROVE ListStep
  BY <1>4 DEF Reply, Refused
<1>5. ASSUME NEW b \in Buyers, BuyArrive(b) \/ BuyReject(b) PROVE ListStep
  BY <1>5, DisjointAssumption DEF BuyArrive, BuyReject
<1>6. ASSUME NEW p \in Posters, PostArrive(p) \/ PostReject(p) PROVE ListStep
  BY <1>6, DisjointAssumption DEF PostArrive, PostReject
<1>7. CASE Crash \/ Restart \/ RedisTurns
  BY <1>7 DEF Crash, Restart, RedisTurns, Halt
<1>8. CASE UNCHANGED vars
  BY <1>8 DEF vars
<1> QED
  BY <1>1, <1>2, <1>3, <1>4, <1>5, <1>6, <1>7, <1>8 DEF Next, Progress

LEMMA ListNext == ShopTypeOK /\ UnitsInv /\ ListInv /\ [Next]_vars => ListInv'
<1> SUFFICES ASSUME ShopTypeOK, UnitsInv, ListInv, [Next]_vars PROVE ListInv'
  OBVIOUS
<1>1. Onward /\ ListStep
  BY EveryStepOnward, EveryListStep
<1>2. \A b \in Buyers : seen[b] = 0 => seen'[b] = 0
  BY SeenKept
<1>3. SAddsLast'
  BY <1>1, <1>2 DEF Onward, ListInv, SAddsLast
<1>4. IdleUnanswered'
  BY <1>1 DEF Onward, ListInv, IdleUnanswered, Requests
<1>5. EndedStayEnded'
  <2>1. CASE UNCHANGED endedBefore
    BY <1>1, <2>1 DEF Onward, ListInv, EndedStayEnded, ShopTypeOK
  <2>2. ASSUME NEW i \in Initializers, InitArrive(i) PROVE EndedStayEnded'
    BY <1>1, <2>2 DEF InitArrive, Onward, ListInv, EndedStayEnded, ShopTypeOK
  <2> QED
    BY <1>1, <2>1, <2>2 DEF ListStep, ListKept, Listing
<1>6. EveryListedHasLister'
  <2>1. CASE ListKept
    BY <1>2, <2>1 DEF ListKept, ListInv, EveryListedHasLister, Lister
  <2>2. ASSUME NEW b \in Buyers, Listing(b) PROVE EveryListedHasLister'
    <3>1. Lister(b, Want[b])
      <4>1. ~Ended(b)
        BY <2>2 DEF Listing, Ended
      <4> QED
        BY <2>2, <4>1 DEF Listing, Lister, ListInv, SAddsLast, EndedStayEnded
    <3>2. \A a \in Buyers, c \in Chairs : Lister(a, c) => Lister(a, c)'
      BY <2>2 DEF Listing, Lister
    <3> QED
      BY <2>2, <3>1, <3>2, WantAssumption DEF Listing, ListInv, EveryListedHasLister,
         ShopTypeOK
  <2>3. CASE soldOut' = {}
    BY <2>3 DEF EveryListedHasLister
  <2>4. ASSUME NEW i \in Initializers, InitArrive(i) PROVE EveryListedHasLister'
    <3>1. status[i] = 0 /\ status' = status /\ soldOut' = soldOut /\ seen' = seen
      BY <2>4 DEF InitArrive, Arrive, Advance, ListInv, IdleUnanswered
    <3>2. \A j \in Initializers \ {i} : endedBefore'[j] = endedBefore[j]
      BY <2>4 DEF InitArrive, ShopTypeOK
    <3> QED
      BY <3>1, <3>2 DEF ListInv, EveryListedHasLister, Lister
  <2> QED
    BY <1>1, <2>1, <2>2, <2>3, <2>4 DEF ListStep
<1> QED
  BY <1>3, <1>4, <1>5, <1>6 DEF ListInv

LEMMA ListCorrect == Spec => []ListInv
<1>1. Init /\ [][Next]_vars /\ []ShopTypeOK /\ []UnitsInv => []ListInv
  BY ListInit, ListNext, PTL
<1> QED
  BY <1>1, TypeCorrect, UnitsCorrect, PTL DEF Spec

(* A listed chair that can be bought was listed by a straggler of an       *)
(* earlier load of the table.                                              *)
THEOREM OnlyStragglersMislead == Spec => []ListedInStockOnlyByStraggler
<1>1. ShopTypeOK /\ UnitsInv /\ ListInv => ListedInStockOnlyByStraggler
  <2> SUFFICES ASSUME ShopTypeOK, UnitsInv, ListInv, NEW c \in soldOut, InStock(c)
               PROVE  \E b \in Buyers : Lister(b, c) /\ tookIn[b] < epoch
    BY DEF ListedInStockOnlyByStraggler, Lister
  <2>1. PICK b \in Buyers : Lister(b, c)
    BY DEF ListInv, EveryListedHasLister
  <2>2. tookIn[b] # epoch
    BY <2>1 DEF Lister, UnitsInv, StockBelowSeen, InStock, ShopTypeOK
  <2> QED
    BY <2>1, <2>2 DEF UnitsInv, TookBeforeNow, ShopTypeOK
<1> QED
  BY <1>1, TypeCorrect, UnitsCorrect, ListCorrect, PTL

(* Without initialize the table is never emptied ...                       *)
FirstLoad == Initializers = {} => epoch = 1
LEMMA FirstLoadNext == ShopTypeOK /\ FirstLoad /\ [Next]_vars => FirstLoad'
<1> SUFFICES ASSUME Initializers = {}, ShopTypeOK, [Next]_vars PROVE epoch' = epoch
  BY DEF FirstLoad
<1> USE DEF tableVars
<1>1. ASSUME NEW r \in Requests, Progress(r) PROVE epoch' = epoch
  BY <1>1 DEF Progress, BuyStep, BuyUpdate, BuyMiss, BuyUpdateFails, BuySAdd, BuySAddFails,
     TakeUnit, PostStep, PostInsert, PostInsertFails, InsertRows, Reply
<1>2. ASSUME NEW b \in Buyers, BuyArrive(b) \/ BuyReject(b) PROVE epoch' = epoch
  BY <1>2 DEF BuyArrive, BuyReject
<1>3. ASSUME NEW p \in Posters, PostArrive(p) \/ PostReject(p) PROVE epoch' = epoch
  BY <1>3 DEF PostArrive, PostReject
<1>4. ASSUME NEW r \in Requests, Refused(r) PROVE epoch' = epoch
  BY <1>4 DEF Refused
<1>5. CASE Crash \/ Restart \/ RedisTurns \/ UNCHANGED vars
  BY <1>5 DEF Crash, Restart, RedisTurns, Halt, vars
<1> QED
  BY <1>1, <1>2, <1>3, <1>4, <1>5 DEF Next

(* ... and a chair on the sold-out list can never be bought, whatever      *)
(* fails and whenever the application crashes.                             *)
THEOREM ListIsTruthfulWithoutInitialize ==
  ASSUME Initializers = {} PROVE Spec => []ListedIsSoldOut
<1>1. Init => FirstLoad
  BY DEF Init, FirstLoad
<1>2. ShopTypeOK /\ UnitsInv /\ FirstLoad /\ ListedInStockOnlyByStraggler
        => ListedIsSoldOut
  <2> SUFFICES ASSUME ShopTypeOK, UnitsInv, FirstLoad, ListedInStockOnlyByStraggler,
                      NEW c \in soldOut, InStock(c)
               PROVE  FALSE
    BY DEF ListedIsSoldOut
  <2>1. PICK b \in Buyers : seen[b] = 0 /\ tookIn[b] < epoch
    BY DEF ListedInStockOnlyByStraggler
  <2> QED
    BY <2>1 DEF FirstLoad, UnitsInv, SeenAfterTaking, ShopTypeOK
<1> QED
  BY <1>1, <1>2, FirstLoadNext, TypeCorrect, UnitsCorrect, OnlyStragglersMislead, PTL
     DEF Spec

-----------------------------------------------------------------------------
(* The application implements ChairSale.                                   *)

(* The status a buyer is given agrees with what its UPDATE did.            *)
Undecided(b) == pc[b] \in {"idle", "update", "sadd"}
StatusHonest ==
  \A b \in Buyers :
    /\ Undecided(b) => status[b] = 0
    /\ pc[b] \in {"reply", "done"} => status[b] # 0
    /\ status[b] = 200 => tookIn[b] > 0
    /\ status[b] = 404 => tookIn[b] = 0
    /\ pc[b] = "sadd" => tookIn[b] > 0

(* A step of another request leaves a buyer alone.                         *)
BuyersKept ==
  \A b \in Buyers :
    pc'[b] = pc[b] /\ status'[b] = status[b] /\ tookIn'[b] = tookIn[b]

LEMMA OthersKeepBuyers ==
  ASSUME ShopTypeOK, NEW r \in Requests \ Buyers,
         \/ r \in Posters /\ (PostArrive(r) \/ PostReject(r) \/ PostStep(r))
         \/ r \in Initializers /\ (InitArrive(r) \/ (InitStep(r) /\ ~InitFlushFails(r)))
         \/ Refused(r) \/ Reply(r)
  PROVE  BuyersKept
<1> USE DEF BuyersKept, ShopTypeOK, Requests, Arrive, Advance, Return, localVars, serverVars
<1>1. CASE r \in Posters /\ (PostArrive(r) \/ PostReject(r) \/ PostStep(r))
  BY <1>1 DEF PostArrive, PostReject, PostStep, PostInsert, PostInsertFails
<1>2. CASE r \in Initializers /\ (InitArrive(r) \/ (InitStep(r) /\ ~InitFlushFails(r)))
  BY <1>2 DEF InitArrive, InitStep, InitSchema, InitEstates, InitChairs, InitChairsDone,
     InitPsqlFails, InitFlush
<1>3. CASE Refused(r) \/ Reply(r)
  BY <1>3 DEF Refused, Reply
<1> QED
  BY <1>1, <1>2, <1>3

LEMMA StatusNext ==
  ShopTypeOK /\ UnitsInv /\ StatusHonest /\ [Next]_vars => StatusHonest'
<1> SUFFICES ASSUME ShopTypeOK, UnitsInv, StatusHonest, [Next]_vars PROVE StatusHonest'
  OBVIOUS
<1> USE DEF StatusHonest, Undecided
<1>0. BuyersKept => StatusHonest'
  BY DEF BuyersKept
<1>1. ASSUME NEW b \in Buyers,
             BuyArrive(b) \/ BuyReject(b) \/ BuyStep(b) \/ Refused(b) \/ Reply(b)
      PROVE StatusHonest'
  <2> USE DEF ShopTypeOK, Requests, Arrive, Advance, Return, localVars, serverVars
  <2>1. Waiting(b) => tookIn[b] = 0
    BY DEF UnitsInv, WaitingTookNothing
  <2>2. CASE BuyArrive(b) \/ BuyReject(b)
    BY <2>1, <2>2 DEF BuyArrive, BuyReject, Waiting
  <2>3. CASE BuyUpdate(b)
    BY <2>1, <2>3 DEF BuyUpdate, TakeUnit, Waiting
  <2>4. CASE BuyMiss(b) \/ BuyUpdateFails(b)
    BY <2>1, <2>4 DEF BuyMiss, BuyUpdateFails, TakeUnit, Waiting
  <2>5. CASE BuySAdd(b) \/ BuySAddFails(b)
    BY <2>5 DEF BuySAdd, BuySAddFails
  <2>6. CASE Refused(b) \/ Reply(b)
    BY <2>6 DEF Refused, Reply
  <2> QED
    BY <1>1, <2>2, <2>3, <2>4, <2>5, <2>6 DEF BuyStep
<1>2. CASE Halt
  BY <1>2 DEF Halt, localVars, serverVars, ShopTypeOK, Requests, InFlight, Ended
<1>3. CASE Restart \/ RedisTurns \/ UNCHANGED vars
  BY <1>0, <1>3 DEF Restart, RedisTurns, vars, localVars, serverVars, BuyersKept
<1>4. ASSUME NEW r \in Requests, Progress(r) \/ Refused(r) PROVE StatusHonest'
  BY <1>0, <1>1, <1>2, <1>4, OthersKeepBuyers, DisjointAssumption
     DEF Progress, InitFlushFails, Requests
<1> QED
  BY <1>0, <1>1, <1>2, <1>3, <1>4, OthersKeepBuyers, DisjointAssumption
     DEF Next, Crash, Requests

LEMMA StatusInit == Init => StatusHonest
BY DEF Init, StatusHonest, Undecided, Requests

LEMMA SaleInitial == Init => Sale!SaleInit
<1> SUFFICES ASSUME Init PROVE Sale!SaleInit
  OBVIOUS
<1>1. \A b \in Buyers : OutcomeOf(b) = "open" /\ ToldTo(b) = "nothing"
  BY DEF Init, OutcomeOf, ToldTo, Decision, Message, Requests
<1>2. OnSale \in [Chairs -> Int]
  BY FileStockType DEF Init, OnSale
<1> QED
  BY <1>1, <1>2 DEF Sale!SaleInit, SaleOutcome, SaleTold

(* A step that leaves the buyers alone supplies or withdraws chairs.       *)
LEMMA SupplyStep ==
  ASSUME ShopTypeOK', BuyersKept
  PROVE  Sale!SaleNext
<1>1. OnSale' \in [Chairs -> Int]
  BY DEF ShopTypeOK, OnSale
<1>2. \A b \in Buyers : OutcomeOf(b)' = OutcomeOf(b) /\ ToldTo(b)' = ToldTo(b)
  BY DEF BuyersKept, OutcomeOf, ToldTo
<1>3. SaleOutcome' = SaleOutcome /\ SaleTold' = SaleTold
  BY <1>2 DEF SaleOutcome, SaleTold
<1>4. Sale!Supply(Chairs)
  BY <1>1, <1>3 DEF Sale!Supply
<1> QED
  BY <1>4 DEF Sale!SaleNext

(* A step of one buyer is a step on its own outcome and answer.            *)
LEMMA OneBuyer ==
  ASSUME ShopTypeOK, NEW b \in Buyers,
         BuyArrive(b) \/ BuyReject(b) \/ BuyStep(b) \/ Refused(b) \/ Reply(b)
  PROVE  /\ SaleOutcome' = [SaleOutcome EXCEPT ![b] = OutcomeOf(b)']
         /\ SaleTold' = [SaleTold EXCEPT ![b] = ToldTo(b)']
<1>1. \A a \in Buyers \ {b} :
         pc'[a] = pc[a] /\ status'[a] = status[a] /\ tookIn'[a] = tookIn[a]
  BY DEF BuyArrive, BuyReject, BuyStep, BuyUpdate, BuyMiss, BuyUpdateFails, BuySAdd,
     BuySAddFails, TakeUnit, Refused, Reply, Arrive, Advance, Return, localVars, serverVars,
     Requests,
     ShopTypeOK
<1>2. \A a \in Buyers \ {b} : OutcomeOf(a)' = OutcomeOf(a) /\ ToldTo(a)' = ToldTo(a)
  BY <1>1 DEF OutcomeOf, ToldTo
<1> QED
  BY <1>2 DEF SaleOutcome, SaleTold

LEMMA BuyerStep ==
  ASSUME ShopTypeOK, UnitsInv, StatusHonest, NEW b \in Buyers,
         BuyArrive(b) \/ BuyReject(b) \/ BuyStep(b) \/ Refused(b) \/ Reply(b)
  PROVE  Sale!SaleNext \/ UNCHANGED <<OnSale, SaleOutcome, SaleTold>>
<1>1. /\ SaleOutcome[b] = OutcomeOf(b) /\ SaleTold[b] = ToldTo(b)
      /\ SaleOutcome' = [SaleOutcome EXCEPT ![b] = OutcomeOf(b)']
      /\ SaleTold' = [SaleTold EXCEPT ![b] = ToldTo(b)']
      /\ SaleOutcome = [a \in Buyers |-> SaleOutcome[a]]
      /\ SaleTold = [a \in Buyers |-> SaleTold[a]]
  BY OneBuyer DEF SaleOutcome, SaleTold
<1>2. /\ Waiting(b) => tookIn[b] = 0 /\ status[b] = 0
      /\ pc[b] = "sadd" => tookIn[b] > 0 /\ status[b] = 0
  BY DEF UnitsInv, WaitingTookNothing, StatusHonest, Undecided, Waiting
<1>3. b \in Requests /\ Want[b] \in Chairs
  BY WantAssumption DEF Requests
<1>4. Waiting(b) => OutcomeOf(b) = "open" /\ ToldTo(b) = "nothing"
  BY <1>2 DEF Waiting, OutcomeOf, ToldTo, Decision, Message
<1> USE DEF Arrive, Advance, Return, localVars, serverVars, ShopTypeOK
<1>5. CASE TakeUnit(b) /\ (BuyUpdate(b) \/ BuyUpdateFails(b))
  <2>1. Waiting(b) /\ pc'[b] \in {"sadd", "reply"}
    BY <1>3, <1>5 DEF BuyUpdate, BuyUpdateFails, Waiting
  <2>2. tookIn'[b] > 0
    BY <1>5 DEF TakeUnit
  <2>3. OutcomeOf(b)' = "sold" /\ ToldTo(b)' = "nothing"
    BY <2>1, <2>2 DEF OutcomeOf, ToldTo, Decision, Message
  <2>4. OnSale[Want[b]] > 0 /\ OnSale' = [OnSale EXCEPT ![Want[b]] = @ - 1]
    BY <1>3, <1>5 DEF TakeUnit, InStock, OnSale
  <2>5. Sale!Sell(b)
    BY <1>1, <1>4, <2>1, <2>3, <2>4 DEF Sale!Sell, Sale!Decide
  <2> QED
    BY <2>5 DEF Sale!SaleNext
<1>6. CASE BuyMiss(b)
  <2>1. Waiting(b) /\ pc'[b] = "reply" /\ status'[b] = 404 /\ tookIn'[b] = 0
    BY <1>2, <1>3, <1>6 DEF BuyMiss, Waiting
  <2>2. OutcomeOf(b)' = "refused" /\ ToldTo(b)' = "nothing"
    BY <2>1 DEF OutcomeOf, ToldTo, Decision, Message
  <2>3. OnSale[Want[b]] <= 0 /\ OnSale' = OnSale
    BY <1>3, <1>6 DEF BuyMiss, InStock, OnSale, tableVars
  <2>4. Sale!Refuse(b)
    BY <1>1, <1>4, <2>1, <2>2, <2>3 DEF Sale!Refuse, Sale!Decide
  <2> QED
    BY <2>4 DEF Sale!SaleNext
<1>7. CASE BuyReject(b) \/ Refused(b) \/ (BuyUpdateFails(b) /\ UNCHANGED <<tableVars, tookIn>>)
  <2>1. /\ Waiting(b) /\ tookIn'[b] = 0
        /\ \/ pc'[b] = "reply" /\ status'[b] \in {400, 500}
           \/ pc'[b] = "lost" /\ status'[b] = 0
    BY <1>2, <1>3, <1>7 DEF BuyReject, Refused, BuyUpdateFails, Waiting
  <2>2. OutcomeOf(b)' = "failed" /\ ToldTo(b)' \in {"nothing", "failure"}
    BY <2>1 DEF OutcomeOf, ToldTo, Decision, Message
  <2>3. OnSale' = OnSale
    BY <1>7 DEF BuyReject, Refused, BuyUpdateFails, OnSale, tableVars
  <2>4. Sale!Fail(b)
    BY <1>1, <1>4, <2>1, <2>2, <2>3 DEF Sale!Fail
  <2> QED
    BY <2>4 DEF Sale!SaleNext
<1>8. CASE BuyArrive(b) \/ BuySAdd(b) \/ BuySAddFails(b)
  <2>1. ASSUME BuyArrive(b)
        PROVE  OutcomeOf(b)' = OutcomeOf(b) /\ ToldTo(b)' = ToldTo(b)
    <3>1. Waiting(b) /\ pc'[b] = "update" /\ status'[b] = status[b] /\ tookIn'[b] = tookIn[b]
      BY <1>3, <2>1 DEF BuyArrive, Waiting
    <3>2. OutcomeOf(b)' = "open" /\ ToldTo(b)' = "nothing"
      BY <1>2, <3>1 DEF OutcomeOf, ToldTo, Decision, Message
    <3> QED
      BY <1>4, <3>1, <3>2
  <2>2. ASSUME BuySAdd(b) \/ BuySAddFails(b)
        PROVE  OutcomeOf(b)' = OutcomeOf(b) /\ ToldTo(b)' = ToldTo(b)
    <3>1. pc[b] = "sadd" /\ pc'[b] = "reply" /\ tookIn'[b] = tookIn[b]
      BY <1>3, <2>2 DEF BuySAdd, BuySAddFails
    <3>2. OutcomeOf(b) = "sold" /\ ToldTo(b) = "nothing"
      BY <1>2, <3>1 DEF OutcomeOf, ToldTo, Decision, Message
    <3>3. OutcomeOf(b)' = "sold" /\ ToldTo(b)' = "nothing"
      BY <1>2, <3>1 DEF OutcomeOf, ToldTo, Decision, Message
    <3> QED
      BY <3>2, <3>3
  <2>3. OnSale' = OnSale
    BY <1>8 DEF BuyArrive, BuySAdd, BuySAddFails, OnSale, tableVars
  <2> QED
    BY <1>1, <1>8, <2>1, <2>2, <2>3
<1>9. CASE Reply(b)
  <2>1. pc[b] = "reply" /\ pc'[b] = "done" /\ status'[b] = status[b] /\ tookIn'[b] = tookIn[b]
    BY <1>3, <1>9 DEF Reply
  <2>2. OutcomeOf(b)' = OutcomeOf(b) /\ ToldTo(b) = "nothing" /\ OnSale' = OnSale
    BY <1>9, <2>1 DEF Reply, OutcomeOf, ToldTo, Decision, Message, OnSale, tableVars
  <2>3. status[b] # 0 /\ (status[b] = 200 => tookIn[b] > 0) /\ (status[b] = 404 => tookIn[b] = 0)
    BY <2>1 DEF StatusHonest
  <2>4. \/ OutcomeOf(b) = "sold" /\ ToldTo(b)' \in {"bought", "failure"}
        \/ OutcomeOf(b) = "refused" /\ ToldTo(b)' = "not found"
        \/ OutcomeOf(b) = "failed" /\ ToldTo(b)' = "failure"
    BY <2>1, <2>3 DEF OutcomeOf, ToldTo, Decision, Message
  <2>5. Sale!Tell(b)
    BY <1>1, <2>2, <2>4 DEF Sale!Tell, Sale!Answer
  <2> QED
    BY <2>5 DEF Sale!SaleNext
<1> QED
  BY <1>5, <1>6, <1>7, <1>8, <1>9 DEF BuyStep, BuyUpdate, BuyUpdateFails

LEMMA HaltStep ==
  ASSUME ShopTypeOK, StatusHonest, Halt
  PROVE  Sale!SaleNext
<1> DEFINE S == {b \in Buyers : InFlight(b)}
<1>1. \A b \in Buyers : ToldTo(b)' = IF InFlight(b) THEN "failure" ELSE ToldTo(b)
  BY DEF Halt, InFlight, Ended, ToldTo, Message, Requests, ShopTypeOK
<1>2. \A b \in Buyers :
         OutcomeOf(b)' = IF InFlight(b) /\ OutcomeOf(b) = "open" THEN "failed" ELSE OutcomeOf(b)
  BY DEF Halt, InFlight, Ended, OutcomeOf, Decision, Requests, ShopTypeOK, localVars, serverVars
<1>3. \A b \in Buyers : InFlight(b) => ToldTo(b) = "nothing"
  BY DEF InFlight, Ended, ToldTo, Message
<1>4. OnSale' = OnSale
  BY DEF Halt, tableVars, OnSale
<1>5. Sale!Abort(S)
  BY <1>1, <1>2, <1>3, <1>4 DEF SaleOutcome, SaleTold, Sale!Abort
<1> QED
  BY <1>5 DEF Sale!SaleNext

LEMMA SaleStep ==
  ASSUME ShopTypeOK, ShopTypeOK', UnitsInv, StatusHonest, [Next]_vars
  PROVE  [Sale!SaleNext]_(Sale!saleVars)
<1> DEFINE Mapped == Sale!SaleNext \/ UNCHANGED <<OnSale, SaleOutcome, SaleTold>>
<1>1. ASSUME NEW b \in Buyers,
             BuyArrive(b) \/ BuyReject(b) \/ BuyStep(b) \/ Refused(b) \/ Reply(b)
      PROVE Mapped
  BY <1>1, BuyerStep
<1>2. ASSUME Halt PROVE Mapped
  BY <1>2, HaltStep
<1>3. ASSUME Restart \/ RedisTurns \/ UNCHANGED vars PROVE Mapped
  <2>1. BuyersKept
    BY <1>3 DEF Restart, RedisTurns, vars, localVars, serverVars, BuyersKept
  <2> QED
    BY <2>1, SupplyStep
<1>4. ASSUME NEW r \in Requests \ Buyers,
             \/ r \in Posters /\ (PostArrive(r) \/ PostReject(r) \/ PostStep(r))
             \/ r \in Initializers /\ (InitArrive(r) \/ InitStep(r))
             \/ Refused(r) \/ Reply(r)
      PROVE Mapped
  <2>1. CASE r \in Initializers /\ InitFlushFails(r)
    <3>1. Halt
      BY <2>1 DEF InitFlushFails
    <3> QED
      BY <1>2, <3>1
  <2>2. CASE ~(r \in Initializers /\ InitFlushFails(r))
    <3>1. BuyersKept
      BY <1>4, <2>2, OthersKeepBuyers
    <3> QED
      BY <3>1, SupplyStep
  <2> QED
    BY <2>1, <2>2
<1> HIDE DEF Mapped
<1>5. Mapped
  <2>1. Posters \subseteq Requests \ Buyers /\ Initializers \subseteq Requests \ Buyers
        /\ Buyers \subseteq Requests
    BY DisjointAssumption DEF Requests
  <2>2. ASSUME NEW r \in Requests, Progress(r) \/ Refused(r) PROVE Mapped
    <3>1. CASE r \in Buyers
      BY <1>1, <2>2, <3>1, DisjointAssumption DEF Progress
    <3>2. CASE r \notin Buyers
      BY <1>4, <2>2, <3>2 DEF Progress
    <3> QED
      BY <3>1, <3>2
  <2>3. CASE Next
    BY <1>1, <1>2, <1>3, <1>4, <2>1, <2>2, <2>3 DEF Next, Crash
  <2> QED
    BY <1>3, <2>3
<1> QED
  BY <1>5 DEF Mapped, Sale!saleVars

(* The Go application implements ChairSale: a purchase is one atomic       *)
(* decision, and nobody is told the opposite of what was decided.          *)
THEOREM ShopImplementsSale == Spec => ImplementsSale
<1>1. Init /\ [][Next]_vars /\ []ShopTypeOK /\ []UnitsInv => []StatusHonest
  BY StatusInit, StatusNext, PTL
<1>2. Init /\ [][Next]_vars /\ []ShopTypeOK /\ []UnitsInv /\ []StatusHonest
        => Sale!SaleInit /\ [][Sale!SaleNext]_(Sale!saleVars)
  BY SaleInitial, SaleStep, PTL
<1> QED
  BY <1>1, <1>2, TypeCorrect, UnitsCorrect, PTL DEF Spec, ImplementsSale, Sale!SaleSpec

-----------------------------------------------------------------------------
(* Posts.                                                                  *)

(* Only a batch that was parsed reaches the INSERT, ...                    *)
ParsedFirst == \A p \in Posters : pc[p] = "insert" => Parses(p)

(* ... and only an INSERT gives a poster its 201.                          *)
PostsKept(S) ==
  \A p \in S : /\ pc'[p] = "insert" => pc[p] = "insert"
               /\ status'[p] = 201 => status[p] = 201

LEMMA EveryPostStep ==
  ASSUME ShopTypeOK, [Next]_vars
  PROVE  \/ PostsKept(Posters)
         \/ \E p \in Posters :
              /\ PostArrive(p) \/ PostInsert(p) \/ PostInsertFails(p)
              /\ PostsKept(Posters \ {p})
<1> USE DisjointAssumption DEF PostsKept, ShopTypeOK, Requests, Advance, Return, Arrive
<1>1. ASSUME NEW b \in Buyers, BuyArrive(b) \/ BuyReject(b) \/ BuyStep(b)
      PROVE  PostsKept(Posters)
  BY <1>1 DEF BuyArrive, BuyReject, BuyStep, BuyUpdate, BuyMiss, BuyUpdateFails, BuySAdd,
     BuySAddFails
<1>2. ASSUME NEW p \in Posters, PostArrive(p) \/ PostStep(p)
      PROVE  PostsKept(Posters \ {p})
  BY <1>2 DEF PostArrive, PostStep, PostInsert, PostInsertFails
<1>3. ASSUME NEW p \in Posters, PostReject(p) PROVE PostsKept(Posters)
  BY <1>3 DEF PostReject
<1>4. ASSUME NEW i \in Initializers, InitArrive(i) \/ InitStep(i) PROVE PostsKept(Posters)
  BY <1>4 DEF InitArrive, InitStep, InitSchema, InitEstates, InitChairs, InitChairsDone,
     InitPsqlFails, InitFlush, InitFlushFails, Halt
<1>5. ASSUME NEW r \in Requests, Reply(r) \/ Refused(r) PROVE PostsKept(Posters)
  BY <1>5 DEF Reply, Refused
<1>6. CASE Crash \/ Restart \/ RedisTurns \/ UNCHANGED vars
  BY <1>6 DEF Crash, Restart, RedisTurns, Halt, vars
<1> HIDE DEF PostsKept
<1> QED
  BY <1>1, <1>2, <1>3, <1>4, <1>5, <1>6 DEF Next, Progress, PostStep

LEMMA ParsedNext == ShopTypeOK /\ ParsedFirst /\ [Next]_vars => ParsedFirst'
<1> SUFFICES ASSUME ShopTypeOK, ParsedFirst, [Next]_vars, NEW p \in Posters, pc'[p] = "insert"
             PROVE  Parses(p)
  BY DEF ParsedFirst, Parses
<1>1. pc[p] = "insert" \/ PostArrive(p) \/ PostInsert(p) \/ PostInsertFails(p)
  BY EveryPostStep DEF PostsKept
<1> QED
  BY <1>1 DEF ParsedFirst, PostArrive, PostInsert, PostInsertFails, Return, Advance, ShopTypeOK

(* The row of each record is the record.                                   *)
LEMMA BatchIsInserted ==
  ASSUME NEW p \in Posters, Parses(p), Insertable(p), InsertRows(BatchStock(p)), ShopTypeOK,
         NEW c \in BatchIds(p)
  PROVE  /\ c \in rows'
         /\ \E k \in DOMAIN Batch[p] :
              Batch[p][k] = [id |-> c, stock |-> stock'[c], parses |-> TRUE]
<1>1. Batch[p] \in Seq(CsvRecord) /\ c \in Chairs /\ c \in DOMAIN BatchStock(p)
  BY BatchAssumption, BatchStockType
<1>2. c \in rows' /\ stock'[c] = BatchStock(p)[c]
  BY <1>1 DEF InsertRows
<1> DEFINE k == CHOOSE j \in DOMAIN Batch[p] : Batch[p][j].id = c
<1>3. k \in DOMAIN Batch[p] /\ Batch[p][k].id = c
  BY DEF BatchIds
<1>4. stock'[c] = Batch[p][k].stock
  BY <1>2 DEF BatchStock
<1>5. Batch[p][k] \in CsvRecord /\ Batch[p][k].parses = TRUE
  <2> HIDE DEF k
  <2>1. Batch[p][k] \in CsvRecord
    BY <1>1, <1>3
  <2>2. Batch[p][k].parses
    BY <1>3 DEF Parses
  <2>3. Batch[p][k].parses \in BOOLEAN
    BY <2>1 DEF CsvRecord
  <2> QED
    BY <2>1, <2>2, <2>3
<1> HIDE DEF k
<1>6. Batch[p][k] = [id |-> c, stock |-> stock'[c], parses |-> TRUE]
  BY <1>3, <1>4, <1>5 DEF CsvRecord
<1> QED
  BY <1>2, <1>3, <1>6

(* When the INSERT of a post is over, every record of the CSV is in the    *)
(* table, with its stock and none of the ids taken before, or the table is *)
(* what it was, whatever other requests did and whatever failed; and the   *)
(* 201 is for the former.                                                  *)
Whole(p) ==
  /\ BatchIds(p) \cap rows = {}
  /\ rows' = rows \cup BatchIds(p)
  /\ \A c \in BatchIds(p) : \E k \in DOMAIN Batch[p] :
       Batch[p][k] = [id |-> c, stock |-> stock'[c], parses |-> TRUE]

LEMMA OnlyInsertLeaves ==
  ASSUME ShopTypeOK, [Next]_vars, NEW p \in Posters, pc[p] = "insert", pc'[p] # "insert"
  PROVE  \/ PostInsert(p) \/ PostInsertFails(p)
         \/ status'[p] # 201 /\ UNCHANGED <<rows, stock>>
         \/ status'[p] = status[p] /\ UNCHANGED <<rows, stock>>
<1> DEFINE Other == status'[p] = status[p] /\ UNCHANGED <<rows, stock>>
<1> USE DisjointAssumption DEF ShopTypeOK, Requests, Advance, Return, Arrive
<1>1. ASSUME NEW b \in Buyers, BuyArrive(b) \/ BuyReject(b) \/ BuyStep(b) PROVE FALSE
  BY <1>1 DEF BuyArrive, BuyReject, BuyStep, BuyUpdate, BuyMiss, BuyUpdateFails, BuySAdd,
     BuySAddFails
<1>2. ASSUME NEW q \in Posters, PostArrive(q) \/ PostReject(q) PROVE FALSE
  BY <1>2 DEF PostArrive, PostReject
<1>3. ASSUME NEW q \in Posters, PostStep(q) PROVE PostInsert(p) \/ PostInsertFails(p)
  BY <1>3 DEF PostStep, PostInsert, PostInsertFails
<1>4. ASSUME NEW i \in Initializers, InitArrive(i) \/ InitStep(i) PROVE Other
  BY <1>4 DEF InitArrive, InitStep, InitSchema, InitEstates, InitChairs, InitChairsDone,
     InitPsqlFails, InitFlush, InitFlushFails, Halt, tableVars
<1>5. ASSUME NEW r \in Requests, Reply(r) \/ Refused(r) PROVE FALSE
  BY <1>5 DEF Reply, Refused
<1>6. ASSUME Crash \/ Restart \/ RedisTurns \/ UNCHANGED vars PROVE Other
  BY <1>6 DEF Crash, Restart, RedisTurns, Halt, vars, tableVars
<1> HIDE DEF Other
<1>7. PostInsert(p) \/ PostInsertFails(p) \/ Other
  BY <1>1, <1>2, <1>3, <1>4, <1>5, <1>6 DEF Next, Progress
<1> QED
  BY <1>7 DEF Other

(* A post at its INSERT has no status yet.                                 *)
InsertUndecided == \A p \in Posters : pc[p] = "insert" => status[p] = 0
IdleUndecided == \A p \in Posters : pc[p] = "idle" => status[p] = 0
LEMMA UndecidedNext ==
  ASSUME ShopTypeOK, InsertUndecided, IdleUndecided, [Next]_vars
  PROVE  InsertUndecided' /\ IdleUndecided'
<1> DEFINE Fine(p) == pc'[p] \in {"idle", "insert"} => status'[p] = 0
<1> USE DisjointAssumption
    DEF InsertUndecided, IdleUndecided, ShopTypeOK, Requests, Advance, Return, Arrive
<1>0. SUFFICES ASSUME NEW p \in Posters PROVE Fine(p)
  OBVIOUS
<1>1. ASSUME NEW b \in Buyers, BuyArrive(b) \/ BuyReject(b) \/ BuyStep(b) PROVE Fine(p)
  BY <1>1 DEF BuyArrive, BuyReject, BuyStep, BuyUpdate, BuyMiss, BuyUpdateFails, BuySAdd,
     BuySAddFails
<1>2. ASSUME NEW q \in Posters, PostArrive(q) \/ PostReject(q) \/ PostStep(q) PROVE Fine(p)
  BY <1>2 DEF PostArrive, PostReject, PostStep, PostInsert, PostInsertFails
<1>4. ASSUME NEW i \in Initializers, InitArrive(i) \/ InitStep(i) PROVE Fine(p)
  BY <1>4 DEF InitArrive, InitStep, InitSchema, InitEstates, InitChairs, InitChairsDone,
     InitPsqlFails, InitFlush, InitFlushFails, Halt
<1>5. ASSUME NEW r \in Requests, Reply(r) \/ Refused(r) PROVE Fine(p)
  BY <1>5 DEF Reply, Refused
<1>6. CASE Crash \/ Restart \/ RedisTurns \/ UNCHANGED vars
  BY <1>6 DEF Crash, Restart, RedisTurns, Halt, vars
<1> HIDE DEF Fine
<1> QED
  BY <1>1, <1>2, <1>4, <1>5, <1>6 DEF Next, Progress

THEOREM PostsAreWhole == Spec => PostIsWhole
<1> DEFINE AllOrNone(p) ==
      pc[p] = "insert" /\ pc'[p] # "insert" =>
        \/ /\ status'[p] # 201
           /\ UNCHANGED <<rows, stock>>
        \/ Whole(p)
      PostInv == ParsedFirst /\ InsertUndecided /\ IdleUndecided
<1>1. ASSUME ShopTypeOK, PostInv, [Next]_vars, NEW p \in Posters PROVE AllOrNone(p)
  <2> SUFFICES ASSUME pc[p] = "insert", pc'[p] # "insert"
               PROVE  (status'[p] # 201 /\ UNCHANGED <<rows, stock>>) \/ Whole(p)
    OBVIOUS
  <2>1. status[p] = 0 /\ Parses(p)
    BY <1>1 DEF InsertUndecided, ParsedFirst
  <2>2. CASE Insertable(p) /\ InsertRows(BatchStock(p))
    <3>1. BatchIds(p) \cap rows = {}
      BY <2>2 DEF Insertable
    <3>2. rows' = rows \cup BatchIds(p)
      BY <2>2, BatchStockType DEF InsertRows
    <3>3. ASSUME NEW c \in BatchIds(p)
          PROVE  \E k \in DOMAIN Batch[p] :
                   Batch[p][k] = [id |-> c, stock |-> stock'[c], parses |-> TRUE]
      BY <1>1, <2>1, <2>2, BatchIsInserted
    <3> QED
      BY <3>1, <3>2, <3>3 DEF Whole
  <2>3. CASE status'[p] # 201 /\ UNCHANGED <<rows, stock>>
    BY <2>3
  <2>4. CASE status'[p] = status[p] /\ UNCHANGED <<rows, stock>>
    BY <2>1, <2>4
  <2>5. CASE PostInsert(p) \/ PostInsertFails(p)
    <3>1. \/ Insertable(p) /\ InsertRows(BatchStock(p))
          \/ UNCHANGED tableVars /\ status'[p] = 500
      BY <1>1, <2>5 DEF PostInsert, PostInsertFails, Return, ShopTypeOK, Requests
    <3> QED
      BY <2>2, <2>3, <3>1 DEF tableVars
  <2> QED
    BY <1>1, <2>2, <2>3, <2>4, <2>5, OnlyInsertLeaves
<1>2. ShopTypeOK /\ PostInv /\ [Next]_vars => [\A p \in Posters : AllOrNone(p)]_vars
  BY <1>1
<1>3. Init => PostInv
  BY DEF Init, ParsedFirst, InsertUndecided, IdleUndecided, Requests
<1>4. ShopTypeOK /\ PostInv /\ [Next]_vars => PostInv'
  BY ParsedNext, UndecidedNext
<1> HIDE DEF AllOrNone, PostInv
<1>5. Init /\ [][Next]_vars /\ []ShopTypeOK => [][\A p \in Posters : AllOrNone(p)]_vars
  BY <1>2, <1>3, <1>4, PTL
<1> QED
  BY <1>5, TypeCorrect, PTL DEF Spec, PostIsWhole, AllOrNone, Whole
-----------------------------------------------------------------------------
(* Initialize.                                                             *)

(* The position of an initialize moves by its own steps only.              *)
LEMMA ReloadPosition ==
  ASSUME ShopTypeOK, [Next]_vars, NEW i \in Initializers
  PROVE  \/ InitStep(i)
         \/ InitArrive(i)
         \/ fileAt'[i] = fileAt[i] /\ (pc'[i] = pc[i] \/ pc'[i] \in {"reply", "done", "lost"})
<1> DEFINE Still == fileAt'[i] = fileAt[i]
                    /\ (pc'[i] = pc[i] \/ pc'[i] \in {"reply", "done", "lost"})
<1> USE DisjointAssumption DEF ShopTypeOK, Requests, Advance, Return, Arrive, localVars, serverVars
<1>1. ASSUME NEW b \in Buyers, BuyArrive(b) \/ BuyReject(b) \/ BuyStep(b) PROVE Still
  BY <1>1 DEF BuyArrive, BuyReject, BuyStep, BuyUpdate, BuyMiss, BuyUpdateFails, BuySAdd,
     BuySAddFails
<1>2. ASSUME NEW p \in Posters, PostArrive(p) \/ PostReject(p) \/ PostStep(p) PROVE Still
  BY <1>2 DEF PostArrive, PostReject, PostStep, PostInsert, PostInsertFails
<1>3. ASSUME NEW j \in Initializers \ {i}, InitArrive(j) \/ InitStep(j) PROVE Still
  BY <1>3 DEF InitArrive, InitStep, InitSchema, InitEstates, InitChairs, InitChairsDone,
     InitPsqlFails, InitFlush, InitFlushFails, Halt
<1>4. ASSUME NEW r \in Requests, Reply(r) \/ Refused(r) PROVE Still
  BY <1>4 DEF Reply, Refused
<1>5. ASSUME Crash \/ Restart \/ RedisTurns \/ UNCHANGED vars PROVE Still
  BY <1>5 DEF Crash, Restart, RedisTurns, Halt, vars
<1> HIDE DEF Still
<1> QED
  <2> SUFFICES ASSUME ~InitStep(i), ~InitArrive(i) PROVE Still
    BY DEF Still
  <2>1. ASSUME NEW j \in Initializers, InitArrive(j) \/ InitStep(j) PROVE Still
    BY <1>3, <2>1
  <2> QED
    BY <1>1, <1>2, <1>4, <1>5, <2>1 DEF Next, Progress

(* It remembers it when it arrives.                                        *)
LEMMA EndedBeforeKept ==
  [Next]_vars => endedBefore' = endedBefore \/ \E j \in Initializers : InitArrive(j)
BY DEF Next, vars, localVars, BuyArrive, BuyReject, PostArrive, PostReject, Refused, Progress,
   BuyStep, BuyUpdate, BuyMiss, BuyUpdateFails, BuySAdd, BuySAddFails, PostStep, PostInsert,
   PostInsertFails, InitStep, InitSchema, InitEstates, InitChairs, InitChairsDone,
   InitPsqlFails, InitFlush, InitFlushFails, Reply, Crash, Restart, RedisTurns, Halt

(* What an initialize remembers as over was over when it arrived.          *)
LEMMA EndedBeforeStep ==
  ASSUME ShopTypeOK, [Next]_vars, NEW i \in Initializers, NEW r \in endedBefore'[i]
  PROVE  r \in Requests /\ (r \in endedBefore[i] \/ Ended(r))
<1>1. ASSUME NEW j \in Initializers, InitArrive(j)
      PROVE  r \in Requests /\ (r \in endedBefore[i] \/ Ended(r))
  BY <1>1 DEF InitArrive, ShopTypeOK
<1>2. CASE endedBefore' = endedBefore
  BY <1>2 DEF ShopTypeOK
<1>3. endedBefore' = endedBefore \/ \E j \in Initializers : InitArrive(j)
  BY EndedBeforeKept
<1> QED
  BY <1>1, <1>2, <1>3

(* The 200 of an initialize comes after its FLUSHALL.                      *)
LEMMA OnlyFlushAnswers ==
  ASSUME ShopTypeOK, [Next]_vars, NEW i \in Initializers, status'[i] = 200, status[i] = 0
  PROVE  InitFlush(i)
<1> DEFINE Unanswered == status'[i] # 200
<1> USE DisjointAssumption DEF ShopTypeOK, Requests, Advance, Return, Arrive
<1>1. ASSUME NEW b \in Buyers, BuyArrive(b) \/ BuyReject(b) \/ BuyStep(b) PROVE Unanswered
  BY <1>1 DEF BuyArrive, BuyReject, BuyStep, BuyUpdate, BuyMiss, BuyUpdateFails, BuySAdd,
     BuySAddFails
<1>2. ASSUME NEW p \in Posters, PostArrive(p) \/ PostReject(p) \/ PostStep(p) PROVE Unanswered
  BY <1>2 DEF PostArrive, PostReject, PostStep, PostInsert, PostInsertFails
<1>3. ASSUME NEW j \in Initializers, InitArrive(j) \/ InitStep(j), ~InitFlush(i) PROVE Unanswered
  BY <1>3 DEF InitArrive, InitStep, InitSchema, InitEstates, InitChairs, InitChairsDone,
     InitPsqlFails, InitFlush, InitFlushFails, Halt
<1>4. ASSUME NEW r \in Requests, Reply(r) \/ Refused(r) PROVE Unanswered
  BY <1>4 DEF Reply, Refused
<1>5. CASE Crash \/ Restart \/ RedisTurns \/ UNCHANGED vars
  BY <1>5 DEF Crash, Restart, RedisTurns, Halt, vars
<1> QED
  BY <1>1, <1>2, <1>3, <1>4, <1>5 DEF Next, Progress

(* Who was counted as overlapped stays so while the initialize is at work. *)
LEMMA OverlapStays ==
  ASSUME ShopTypeOK, [Next]_vars, NEW i \in Initializers, pc[i] # "idle"
  PROVE  /\ endedBefore'[i] = endedBefore[i]
         /\ \A r \in Requests : Overlapped(i, r) => Overlapped(i, r)'
<1>1. endedBefore'[i] = endedBefore[i]
  <2>1. ASSUME NEW j \in Initializers, InitArrive(j) PROVE endedBefore'[i] = endedBefore[i]
    BY <2>1 DEF InitArrive, Arrive, Advance, ShopTypeOK
  <2> QED
    BY <2>1, EndedBeforeKept
<1> QED
  BY <1>1, EveryStepOnward DEF Onward, Overlapped

(* Who is at work while the initialize is overlaps it.                     *)
LEMMA AtWorkOverlaps ==
  ASSUME EndedStayEnded, NEW i \in Initializers, NEW r \in Requests, r # i, InFlight(r)
  PROVE  Overlapped(i, r)
BY DEF EndedStayEnded, InFlight, Overlapped

-----------------------------------------------------------------------------
(* What a step does to the chair table, and who does it.                   *)

Silent ==
  /\ UNCHANGED <<rows, supply, epoch, fileAt>>
  /\ tookIn' = tookIn \/ \E b \in Buyers : UnitTaken(b)
Emptying(j) ==
  /\ pc[j] = "schema" /\ rows' = {} /\ epoch' = epoch + 1
  /\ UNCHANGED <<tookIn, fileAt>>
Posting(p) ==
  /\ pc[p] = "insert" /\ Insertable(p) /\ InsertRows(BatchStock(p))
  /\ UNCHANGED <<tookIn, fileAt>>
LoadStep ==
  \/ Silent
  \/ \E j \in Initializers : Emptying(j) \/ InitChairs(j)
  \/ \E p \in Posters : Posting(p)
MissedGrows == \A j \in Initializers : missed[j] \subseteq missed'[j]

LEMMA EveryLoadStep ==
  ASSUME ShopTypeOK, [Next]_vars
  PROVE  LoadStep /\ MissedGrows
<1> USE DEF LoadStep, Silent, MissedGrows, ShopTypeOK, Advance, Return, Arrive, tableVars, localVars
<1>1. ASSUME NEW b \in Buyers, BuyStep(b) PROVE LoadStep /\ MissedGrows
  <2>1. TableKept \/ UnitTaken(b)
    BY <1>1, TableStepBuy
  <2>2. UNCHANGED <<rows, supply, epoch, fileAt, missed>>
    BY <1>1 DEF BuyStep, BuyUpdate, BuyMiss, BuyUpdateFails, BuySAdd, BuySAddFails, TakeUnit
  <2> QED
    BY <2>1, <2>2 DEF TableKept
<1>2. ASSUME NEW p \in Posters, PostStep(p) PROVE LoadStep /\ MissedGrows
  <2>1. CASE Insertable(p) /\ InsertRows(BatchStock(p))
    <3>1. Posting(p) /\ missed' = missed
      BY <1>2, <2>1 DEF PostStep, PostInsert, PostInsertFails, Posting
    <3> QED
      BY <3>1
  <2>2. CASE UNCHANGED tableVars
    BY <1>2, <2>2 DEF PostStep, PostInsert, PostInsertFails
  <2> QED
    BY <1>2, <2>1, <2>2 DEF PostStep, PostInsert, PostInsertFails
<1>3. ASSUME NEW i \in Initializers, InitStep(i) PROVE LoadStep /\ MissedGrows
  <2>1. CASE InitChairs(i)
    BY <2>1 DEF InitChairs, GoesOnWithout
  <2>2. CASE InitSchema(i) \/ InitPsqlFails(i)
    <3>1. MissedGrows /\ UNCHANGED <<tookIn, fileAt>>
      BY <2>2 DEF InitSchema, InitPsqlFails, GoesOnWithout
    <3>2. (pc[i] = "schema" /\ Truncate) \/ UNCHANGED tableVars
      BY <2>2 DEF InitSchema, InitPsqlFails, GoesOnWithout
    <3>3. Emptying(i) \/ UNCHANGED tableVars
      BY <3>1, <3>2 DEF Truncate, Emptying
    <3> QED
      BY <3>1, <3>3
  <2>3. CASE InitEstates(i) \/ InitChairsDone(i) \/ InitFlush(i) \/ InitFlushFails(i)
    BY <2>3 DEF InitEstates, InitChairsDone, InitFlush, InitFlushFails, Halt
  <2> QED
    BY <1>3, <2>1, <2>2, <2>3 DEF InitStep
<1>4. ASSUME NEW r \in Requests, Reply(r) \/ Refused(r) PROVE LoadStep /\ MissedGrows
  BY <1>4 DEF Reply, Refused
<1>5. ASSUME NEW b \in Buyers, BuyArrive(b) \/ BuyReject(b) PROVE LoadStep /\ MissedGrows
  BY <1>5 DEF BuyArrive, BuyReject
<1>6. ASSUME NEW p \in Posters, PostArrive(p) \/ PostReject(p) PROVE LoadStep /\ MissedGrows
  BY <1>6 DEF PostArrive, PostReject
<1>7. ASSUME NEW i \in Initializers, InitArrive(i) PROVE LoadStep /\ MissedGrows
  BY <1>7 DEF InitArrive
<1>8. CASE Crash \/ Restart \/ RedisTurns \/ UNCHANGED vars
  BY <1>8 DEF Crash, Restart, RedisTurns, Halt, vars
<1> HIDE DEF LoadStep, MissedGrows
<1> QED
  BY <1>1, <1>2, <1>3, <1>4, <1>5, <1>6, <1>7, <1>8 DEF Next, Progress

-----------------------------------------------------------------------------
(* What is known of the table while an initialize whose TRUNCATE did not   *)
(* fail is at work: every row is of an INSERT of the file that is whole in *)
(* the table or of an overlapping post; every unit was taken by an         *)
(* overlapping buyer; and of the initialize that emptied the table last,   *)
(* itself or an overlapping one, each INSERT so far is in the table or has *)
(* an excuse.                                                              *)
Present(k) == \A c \in DOMAIN InitFile[k] : c \in rows /\ supply[c] = InitFile[k][c]
Excused(i, k) ==
  \/ \E j \in Initializers : (j = i \/ Overlapped(i, j)) /\ WentWithout(j, k)
  \/ \E p \in Posters : Overlapped(i, p) /\ BatchIds(p) \cap DOMAIN InitFile[k] # {}

Emptied(i) == pc[i] \in {"estates", "chairs", "flush"} /\ 0 \notin missed[i]
RowKnown(i, c) ==
  \/ \E k \in DOMAIN InitFile : c \in DOMAIN InitFile[k] /\ Present(k)
  \/ \E p \in Posters : Overlapped(i, p) /\ c \in BatchIds(p)
RowsKnown(i) == \A c \in rows : RowKnown(i, c)
TakersKnown(i) == \A b \in Buyers : tookIn[b] = epoch => Overlapped(i, b)
LoadedSoFar(i, x) == \A k \in 1 .. fileAt[x] - 1 : Present(k) \/ Excused(i, k)
FileKept(i) ==
  \E x \in Initializers : (x = i \/ Overlapped(i, x)) /\ LoadedSoFar(i, x)

Positions ==
  \A i \in Initializers :
    /\ pc[i] \in {"idle", "schema", "estates"} => fileAt[i] = 1
    /\ pc[i] = "flush" => fileAt[i] > Len(InitFile)
Loading == \A i \in Initializers : Emptied(i) => RowsKnown(i) /\ TakersKnown(i) /\ FileKept(i)
ReloadInv == EndedStayEnded /\ Positions /\ Loading

LEMMA ReloadInit == Init => ReloadInv
BY DisjointAssumption DEF Init, ReloadInv, EndedStayEnded, Positions, Loading, Emptied, Requests

LEMMA PositionsNext ==
  ASSUME ShopTypeOK, Positions, [Next]_vars
  PROVE  Positions'
<1> SUFFICES ASSUME NEW i \in Initializers
             PROVE  /\ pc'[i] \in {"idle", "schema", "estates"} => fileAt'[i] = 1
                    /\ pc'[i] = "flush" => fileAt'[i] > Len(InitFile)
  BY DEF Positions
<1> USE DEF Positions, ShopTypeOK, Requests, Advance, Return, Arrive, localVars
<1>1. CASE InitStep(i)
  BY <1>1 DEF InitStep, InitSchema, InitEstates, InitChairs, InitChairsDone, InitPsqlFails,
     InitFlush, InitFlushFails, Halt, InFlight, Ended
<1>2. CASE InitArrive(i)
  BY <1>2 DEF InitArrive
<1> QED
  BY <1>1, <1>2, ReloadPosition

(* The TRUNCATE of an initialize is behind it before a step, or is it.     *)
LEMMA EmptiedBefore ==
  ASSUME ShopTypeOK, [Next]_vars, NEW i \in Initializers, Emptied(i)'
  PROVE  Emptied(i) \/ (InitSchema(i) /\ Truncate)
<1> USE DEF Emptied, ShopTypeOK, Requests, Advance, Return, Arrive, localVars
<1>1. 0 \notin missed[i]
  BY EveryLoadStep DEF MissedGrows
<1>2. CASE InitSchema(i)
  BY <1>2 DEF InitSchema, GoesOnWithout
<1>3. CASE InitStep(i) /\ ~InitSchema(i)
  BY <1>1, <1>3 DEF InitStep, InitEstates, InitChairs, InitChairsDone, InitPsqlFails,
     InitFlush, InitFlushFails, Halt, InFlight, Ended
<1>4. CASE InitArrive(i)
  BY <1>4 DEF InitArrive
<1> QED
  BY <1>1, <1>2, <1>3, <1>4, ReloadPosition

(* Excuses last, and what is in the table stays while nothing is taken     *)
(* out of it.                                                              *)
LEMMA ExcuseStays ==
  ASSUME ShopTypeOK, [Next]_vars, NEW i \in Initializers, pc[i] # "idle", NEW k, Excused(i, k)
  PROVE  Excused(i, k)'
<1>1. CASE \E j \in Initializers : (j = i \/ Overlapped(i, j)) /\ WentWithout(j, k)
  <2>1. PICK j \in Initializers : (j = i \/ Overlapped(i, j)) /\ WentWithout(j, k)
    BY <1>1
  <2>2. j = i \/ Overlapped(i, j)'
    BY <2>1, OverlapStays DEF Requests
  <2>3. WentWithout(j, k)'
    BY <2>1, EveryLoadStep DEF MissedGrows, WentWithout
  <2> QED
    BY <2>2, <2>3 DEF Excused
<1>2. CASE \E p \in Posters : Overlapped(i, p) /\ BatchIds(p) \cap DOMAIN InitFile[k] # {}
  <2>1. PICK p \in Posters : Overlapped(i, p) /\ BatchIds(p) \cap DOMAIN InitFile[k] # {}
    BY <1>2
  <2>2. Overlapped(i, p)' /\ (BatchIds(p) \cap DOMAIN InitFile[k] # {})'
    BY <2>1, OverlapStays DEF Requests, BatchIds
  <2> QED
    BY <2>2 DEF Excused
<1> QED
  BY <1>1, <1>2 DEF Excused

LEMMA PresentStays ==
  ASSUME NEW D, D \cap rows = {}, rows' = rows \cup D,
         \A c \in rows : supply'[c] = supply[c],
         NEW k, Present(k)
  PROVE  Present(k)'
BY DEF Present

(* The rows of an INSERT of the file that just ran are its rows.           *)
LEMMA InsertIsPresent ==
  ASSUME ShopTypeOK, NEW n \in DOMAIN InitFile, InsertRows(InitFile[n])
  PROVE  Present(n)'
<1>1. DOMAIN InitFile[n] \subseteq Chairs
  BY InitFileAssumption
<1> QED
  BY <1>1 DEF InsertRows, Present

OneMore(i, x) ==
  \E k \in Nat : /\ k = fileAt[x] /\ fileAt'[x] = k + 1
                 /\ Present(k)' \/ Excused(i, k)'

(* The step that adds rows D to a table that has none of them, when the    *)
(* new rows are accounted for.                                             *)
LEMMA LoadingGrows ==
  ASSUME ShopTypeOK, ReloadInv, [Next]_vars, NEW i \in Initializers, Emptied(i),
         NEW D, D \cap rows = {}, rows' = rows \cup D,
         \A c \in rows : supply'[c] = supply[c],
         \A c \in D : RowKnown(i, c)',
         epoch' = epoch,
         \A b \in Buyers : tookIn'[b] = tookIn[b] \/ Overlapped(i, b)',
         \A x \in Initializers : fileAt'[x] = fileAt[x] \/ OneMore(i, x)
  PROVE  RowsKnown(i)' /\ TakersKnown(i)' /\ FileKept(i)'
<1>1. pc[i] # "idle"
  BY DEF Emptied
<1>2. \A r \in Requests : Overlapped(i, r) => Overlapped(i, r)'
  BY <1>1, OverlapStays
<1>3. \A k : Present(k) => Present(k)'
  BY PresentStays
<1>4. \A k : Excused(i, k) => Excused(i, k)'
  BY <1>1, ExcuseStays
<1>5. RowsKnown(i) /\ TakersKnown(i) /\ FileKept(i)
  BY DEF ReloadInv, Loading
<1>6. ASSUME NEW c \in rows PROVE RowKnown(i, c)'
  <2>1. CASE \E k \in DOMAIN InitFile : c \in DOMAIN InitFile[k] /\ Present(k)
    BY <1>3, <2>1 DEF RowKnown
  <2>2. CASE \E p \in Posters : Overlapped(i, p) /\ c \in BatchIds(p)
    <3>1. PICK p \in Posters : Overlapped(i, p) /\ c \in BatchIds(p)
      BY <2>2
    <3>2. Overlapped(i, p)' /\ (c \in BatchIds(p))'
      BY <1>2, <3>1 DEF Requests, BatchIds
    <3> QED
      BY <3>2 DEF RowKnown
  <2> QED
    BY <1>5, <2>1, <2>2 DEF RowsKnown, RowKnown
<1>7. RowsKnown(i)'
  BY <1>6 DEF RowsKnown
<1>8. TakersKnown(i)'
  BY <1>2, <1>5 DEF TakersKnown, Requests
<1>9. FileKept(i)'
  <2>1. PICK x \in Initializers : (x = i \/ Overlapped(i, x)) /\ LoadedSoFar(i, x)
    BY <1>5 DEF FileKept
  <2>2. x = i \/ Overlapped(i, x)'
    BY <1>2, <2>1 DEF Requests
  <2>3. ASSUME NEW k \in 1 .. fileAt'[x] - 1 PROVE Present(k)' \/ Excused(i, k)'
    <3>1. CASE k \in 1 .. fileAt[x] - 1
      BY <1>3, <1>4, <2>1, <3>1 DEF LoadedSoFar
    <3>2. CASE k \notin 1 .. fileAt[x] - 1
      <4>1. fileAt[x] \in Nat
        BY DEF ShopTypeOK
      <4>2. fileAt'[x] # fileAt[x]
        BY <2>3, <3>2
      <4>3. OneMore(i, x)
        BY <4>2
      <4>4. k = fileAt[x]
        BY <2>3, <3>2, <4>1, <4>3 DEF OneMore
      <4> QED
        BY <4>1, <4>3, <4>4 DEF OneMore
    <3> QED
      BY <3>1, <3>2
  <2>4. LoadedSoFar(i, x)'
    BY <2>3 DEF LoadedSoFar
  <2> QED
    BY <2>2, <2>4 DEF FileKept
<1> QED
  BY <1>7, <1>8, <1>9

LEMMA LoadingNext ==
  ASSUME ResetsChairDB, ShopTypeOK, UnitsInv, ReloadInv, [Next]_vars,
         NEW i \in Initializers, Emptied(i)'
  PROVE  RowsKnown(i)' /\ TakersKnown(i)' /\ FileKept(i)'
<1>1. CASE InitSchema(i) /\ Truncate
  <2>1. rows' = {} /\ epoch' = epoch + 1 /\ tookIn' = tookIn /\ fileAt' = fileAt
    BY <1>1 DEF InitSchema, Truncate
  <2>2. fileAt[i] = 1
    BY <1>1 DEF InitSchema, Advance, ReloadInv, Positions
  <2>3. TakersKnown(i)'
    BY <2>1 DEF TakersKnown, UnitsInv, TookBeforeNow, ShopTypeOK
  <2>4. LoadedSoFar(i, i)'
    BY <2>1, <2>2 DEF LoadedSoFar
  <2> QED
    BY <2>1, <2>3, <2>4 DEF RowsKnown, FileKept
<1>2. CASE Emptied(i)
  <2>0. pc[i] \in {"estates", "chairs", "flush"} /\ EndedStayEnded
    BY <1>2 DEF Emptied, ReloadInv
  <2>1. CASE Silent
    <3>1. \A b \in Buyers : tookIn'[b] = tookIn[b] \/ Overlapped(i, b)'
      <4>1. ASSUME NEW b \in Buyers, UnitTaken(b)
            PROVE  Overlapped(i, b)' /\ \A a \in Buyers \ {b} : tookIn'[a] = tookIn[a]
        <5>1. Overlapped(i, b)
          BY <2>0, <4>1, AtWorkOverlaps, DisjointAssumption
             DEF UnitTaken, InFlight, Ended, Requests
        <5> QED
          BY <2>0, <4>1, <5>1, OverlapStays DEF UnitTaken, TakeUnit, Requests, ShopTypeOK
      <4> QED
        BY <2>1, <4>1 DEF Silent
    <3> QED
      <4>1. rows' = rows /\ supply' = supply /\ epoch' = epoch /\ fileAt' = fileAt
        BY <2>1 DEF Silent
      <4>2. {} \cap rows = {} /\ rows' = rows \cup {}
        BY <4>1
      <4> QED
        BY <1>2, <3>1, <4>1, <4>2, LoadingGrows
  <2>2. ASSUME NEW j \in Initializers, Emptying(j)
        PROVE  RowsKnown(i)' /\ TakersKnown(i)' /\ FileKept(i)'
    <3>1. Overlapped(i, j)
      BY <2>0, <2>2, AtWorkOverlaps DEF Emptying, InFlight, Ended, Requests
    <3>2. Overlapped(i, j)'
      BY <2>0, <3>1, OverlapStays DEF Requests
    <3>3. fileAt'[j] = 1
      BY <2>2 DEF Emptying, ReloadInv, Positions
    <3>4. LoadedSoFar(i, j)'
      BY <3>3 DEF LoadedSoFar
    <3>5. TakersKnown(i)'
      BY <2>2 DEF Emptying, TakersKnown, UnitsInv, TookBeforeNow, ShopTypeOK
    <3> QED
      BY <2>2, <3>2, <3>4, <3>5 DEF Emptying, RowsKnown, FileKept
  <2>3. ASSUME NEW p \in Posters, Posting(p)
        PROVE  RowsKnown(i)' /\ TakersKnown(i)' /\ FileKept(i)'
    <3>1. Overlapped(i, p)'
      <4>1. Overlapped(i, p)
        BY <2>0, <2>3, AtWorkOverlaps, DisjointAssumption DEF Posting, InFlight, Ended, Requests
      <4> QED
        BY <2>0, <4>1, OverlapStays DEF Requests
    <3>2. \A c \in BatchIds(p) : RowKnown(i, c)'
      BY <3>1 DEF RowKnown, BatchIds
    <3>3. /\ BatchIds(p) \cap rows = {} /\ rows' = rows \cup BatchIds(p)
          /\ \A c \in rows : supply'[c] = supply[c]
          /\ epoch' = epoch /\ tookIn' = tookIn /\ fileAt' = fileAt
      BY <2>3, BatchStockType DEF Posting, Insertable, InsertRows, ShopTypeOK
    <3> QED
      BY <1>2, <3>2, <3>3, LoadingGrows
  <2>4. ASSUME NEW j \in Initializers, InitChairs(j)
        PROVE  RowsKnown(i)' /\ TakersKnown(i)' /\ FileKept(i)'
    <3>0. fileAt[j] \in DOMAIN InitFile /\ fileAt'[j] = fileAt[j] + 1
      BY <2>4, InitFileAssumption DEF InitChairs, ShopTypeOK
    <3> PICK n \in DOMAIN InitFile : n = fileAt[j]
      BY <3>0
    <3>1. n \in DOMAIN InitFile /\ n \in Nat /\ n = fileAt[j] /\ fileAt'[j] = n + 1
      BY <3>0, InitFileAssumption
    <3>2. /\ \A x \in Initializers \ {j} : fileAt'[x] = fileAt[x]
          /\ tookIn' = tookIn
      BY <2>4 DEF InitChairs, ShopTypeOK
    <3>3. j = i \/ Overlapped(i, j)'
      <4>1. j = i \/ Overlapped(i, j)
        BY <2>0, <2>4, AtWorkOverlaps DEF InitChairs, InFlight, Ended, Requests
      <4> QED
        BY <2>0, <4>1, OverlapStays DEF Requests
    <3>4. CASE InsertRows(InitFile[n]) /\ DOMAIN InitFile[n] \cap rows = {}
      <4>1. Present(n)'
        BY <3>1, <3>4, InsertIsPresent
      <4>2. \A c \in DOMAIN InitFile[n] : RowKnown(i, c)'
        BY <3>1, <4>1 DEF RowKnown
      <4>3. /\ rows' = rows \cup DOMAIN InitFile[n]
            /\ \A c \in rows : supply'[c] = supply[c]
            /\ epoch' = epoch
        BY <3>4 DEF InsertRows, ShopTypeOK
      <4>4. \A x \in Initializers : fileAt'[x] = fileAt[x] \/ OneMore(i, x)
        BY <3>1, <3>2, <4>1 DEF OneMore
      <4> QED
        BY <1>2, <3>2, <3>4, <4>2, <4>3, <4>4, LoadingGrows
    <3>5. ASSUME UNCHANGED tableVars, Excused(i, n)'
          PROVE  RowsKnown(i)' /\ TakersKnown(i)' /\ FileKept(i)'
      <4>1. \A x \in Initializers : fileAt'[x] = fileAt[x] \/ OneMore(i, x)
        BY <3>1, <3>2, <3>5 DEF OneMore
      <4>2. supply' = supply /\ epoch' = epoch /\ {} \cap rows = {} /\ rows' = rows \cup {}
        BY <3>5 DEF tableVars
      <4> QED
        BY <1>2, <3>2, <4>1, <4>2, LoadingGrows
    <3>6. ASSUME UNCHANGED tableVars, Present(n)'
          PROVE  RowsKnown(i)' /\ TakersKnown(i)' /\ FileKept(i)'
      <4>1. \A x \in Initializers : fileAt'[x] = fileAt[x] \/ OneMore(i, x)
        BY <3>1, <3>2, <3>6 DEF OneMore
      <4>2. supply' = supply /\ epoch' = epoch /\ {} \cap rows = {} /\ rows' = rows \cup {}
        BY <3>6 DEF tableVars
      <4> QED
        BY <1>2, <3>2, <4>1, <4>2, LoadingGrows
    <3>7. CASE GoesOnWithout(j, n)
      <4>1. n \in missed'[j]
        BY <3>7 DEF GoesOnWithout, ShopTypeOK
      <4>2. Excused(i, n)'
        BY <3>3, <4>1 DEF Excused, WentWithout
      <4> QED
        BY <3>5, <3>7, <4>2 DEF GoesOnWithout
    <3>8. CASE UNCHANGED tableVars /\ DOMAIN InitFile[n] \cap rows # {}
      <4>1. PICK c \in DOMAIN InitFile[n] : c \in rows
        BY <3>8
      <4>2. RowKnown(i, c)
        BY <1>2, <4>1 DEF ReloadInv, Loading, RowsKnown
      <4>3. CASE \E k \in DOMAIN InitFile : c \in DOMAIN InitFile[k] /\ Present(k)
        <5>1. Present(n)
          BY <3>1, <4>1, <4>3, InitFileAssumption
        <5>2. Present(n)'
          BY <3>8, <5>1 DEF Present, tableVars
        <5> QED
          BY <3>6, <3>8, <5>2
      <4>4. CASE \E p \in Posters : Overlapped(i, p) /\ c \in BatchIds(p)
        <5>1. Excused(i, n)
          BY <4>1, <4>4 DEF Excused
        <5>2. Excused(i, n)'
          BY <2>0, <5>1, ExcuseStays
        <5> QED
          BY <3>5, <3>8, <5>2
      <4> QED
        BY <4>2, <4>3, <4>4 DEF RowKnown
    <3>9. RunInsert(InitFile[n]) \/ GoesOnWithout(j, n)
      BY <2>4, <3>1 DEF InitChairs
    <3> QED
      BY <3>4, <3>7, <3>8, <3>9 DEF RunInsert
  <2> QED
    BY <2>1, <2>2, <2>3, <2>4, EveryLoadStep DEF LoadStep
<1> QED
  BY <1>1, <1>2, EmptiedBefore

LEMMA ReloadNext ==
  ASSUME ResetsChairDB, ShopTypeOK, UnitsInv, ReloadInv, [Next]_vars
  PROVE  ReloadInv'
<1>1. EndedStayEnded'
  <2> SUFFICES ASSUME NEW i \in Initializers, NEW r \in endedBefore'[i] PROVE Ended(r)'
    BY DEF EndedStayEnded
  <2>1. r \in Requests /\ (r \in endedBefore[i] \/ Ended(r))
    BY EndedBeforeStep DEF ShopTypeOK
  <2> QED
    BY <2>1, EveryStepOnward DEF Onward, ReloadInv, EndedStayEnded
<1>2. Positions'
  BY PositionsNext DEF ReloadInv
<1>3. Loading'
  BY LoadingNext DEF Loading
<1> QED
  BY <1>1, <1>2, <1>3 DEF ReloadInv

(* When the chair table is on the host initialize reloads, a 200 of an     *)
(* initialize is an empty list and a table with every INSERT of the data   *)
(* file, less what its overlapping buyers took: whatever else was at work, *)
(* other initializes included, and whatever failed, but for the statements *)
(* psql went on without, the initializes that emptied the table and did    *)
(* not end, and the posts of the same ids.                                 *)
THEOREM ReloadsRestoreStock ==
  ASSUME ResetsChairDB
  PROVE  Spec => InitializeRestoresStock
<1> DEFINE Reloads(i) ==
      status'[i] = 200 /\ status[i] = 0 =>
        /\ soldOut' = {}
        /\ \A k \in DOMAIN InitFile : \/ Disturbed(i, k)
                                     \/ \A c \in DOMAIN InitFile[k] :
                                          Restored(i, c, InitFile[k][c])
<1>1. ASSUME ShopTypeOK, UnitsInv, ReloadInv, [Next]_vars, NEW i \in Initializers
      PROVE  Reloads(i)
  <2> SUFFICES ASSUME status'[i] = 200, status[i] = 0
               PROVE  /\ soldOut' = {}
                      /\ \A k \in DOMAIN InitFile : \/ Disturbed(i, k)
                                                   \/ \A c \in DOMAIN InitFile[k] :
                                                        Restored(i, c, InitFile[k][c])
    OBVIOUS
  <2>1. InitFlush(i)
    BY <1>1, OnlyFlushAnswers
  <2>2. soldOut' = {} /\ pc[i] = "flush"
    BY <2>1 DEF InitFlush, Return, Advance
  <2>3. ASSUME NEW k \in DOMAIN InitFile, ~Disturbed(i, k), NEW c \in DOMAIN InitFile[k]
        PROVE  Restored(i, c, InitFile[k][c])
    <3>1. Emptied(i)
      BY <2>2, <2>3 DEF Emptied, Disturbed, WentWithout
    <3>2. TakersKnown(i) /\ FileKept(i)
      BY <1>1, <3>1 DEF ReloadInv, Loading
    <3>3. PICK x \in Initializers : (x = i \/ Overlapped(i, x)) /\ LoadedSoFar(i, x)
      BY <3>2 DEF FileKept
    <3>4. fileAt[x] > Len(InitFile)
      <4>1. CASE x = i
        BY <1>1, <2>2, <4>1 DEF ReloadInv, Positions
      <4>2. CASE Overlapped(i, x)
        BY <1>1, <2>3, <4>2, InitFileAssumption DEF Disturbed, CutShort, ShopTypeOK
      <4> QED
        BY <3>3, <4>1, <4>2
    <3>5. k \in 1 .. fileAt[x] - 1
      BY <1>1, <3>4, InitFileAssumption DEF ShopTypeOK
    <3>6. Present(k) \/ Excused(i, k)
      BY <3>3, <3>5 DEF LoadedSoFar
    <3>7. ~Excused(i, k)
      BY <2>3 DEF Excused, Disturbed
    <3>8. c \in rows /\ supply[c] = InitFile[k][c]
      BY <3>6, <3>7 DEF Present
    <3>9. {b \in Takers(c) : Overlapped(i, b)} = Takers(c)
      BY <3>2 DEF TakersKnown, Takers
    <3>10. Cardinality({b \in Takers(c) : Overlapped(i, b)}) = Cardinality(Takers(c))
      BY <3>9
    <3>11. stock[c] + Cardinality(Takers(c)) = supply[c]
      BY <1>1, <3>8 DEF UnitsInv, UnitsConserved
    <3> QED
      BY <3>8, <3>10, <3>11 DEF Restored
  <2> QED
    BY <2>2, <2>3
<1>2. ShopTypeOK /\ UnitsInv /\ ReloadInv /\ [Next]_vars
        => [\A i \in Initializers : Reloads(i)]_vars
  BY <1>1
<1>3. ShopTypeOK /\ UnitsInv /\ ReloadInv /\ [Next]_vars => ReloadInv'
  BY ReloadNext
<1> HIDE DEF Reloads
<1>4. Init /\ [][Next]_vars /\ []ShopTypeOK /\ []UnitsInv
        => [][\A i \in Initializers : Reloads(i)]_vars
  BY <1>2, <1>3, ReloadInit, PTL
<1> QED
  BY <1>4, TypeCorrect, UnitsCorrect, PTL DEF Spec, InitializeRestoresStock, Reloads

-----------------------------------------------------------------------------
(* The sold-out list has a chair whose last unit was sold.                 *)

(* What the invariants below need of a step: a status once decided stays;  *)
(* before any initialize the list loses what Redis forgets only and the    *)
(* table is not emptied;                                                   *)
(* who read 0 and is told 200 is on the list; who takes a unit reads what  *)
(* is left, or is told 500.                                                *)
Quiet == \A i \in Initializers : pc[i] = "idle"
Committed ==
  /\ \A b \in Buyers : status[b] # 0 => status'[b] = status[b]
  /\ Quiet' => soldOut \cup forgot \subseteq soldOut' \cup forgot' /\ epoch' = epoch
  /\ \A b \in Buyers :
       status'[b] = 200 /\ status[b] # 200 /\ seen'[b] = 0 => Want[b] \in soldOut'
  /\ \A b \in Buyers :
       tookIn'[b] # tookIn[b] => seen'[b] = stock'[Want[b]] \/ status'[b] = 500

LEMMA EveryStepCommits ==
  ASSUME ShopTypeOK, StatusHonest, ListInv, [Next]_vars
  PROVE  Committed
<1> USE DisjointAssumption
    DEF Committed, Quiet, ShopTypeOK, Requests, Advance, Return, Arrive, localVars, serverVars,
        tableVars
<1>1. ASSUME NEW b \in Buyers, BuyStep(b) PROVE Committed
  <2>0. status[b] = 0 \/ pc[b] \notin {"update", "sadd"}
    BY DEF StatusHonest, Undecided
  <2>1. CASE BuyUpdate(b)
    BY <2>0, <2>1 DEF BuyUpdate, TakeUnit
  <2>2. CASE BuyMiss(b)
    BY <2>0, <2>2 DEF BuyMiss
  <2>3. CASE BuyUpdateFails(b)
    BY <2>0, <2>3 DEF BuyUpdateFails, TakeUnit
  <2>4. CASE BuySAdd(b) \/ BuySAddFails(b)
    BY <2>0, <2>4 DEF BuySAdd, BuySAddFails
  <2> QED
    BY <1>1, <2>1, <2>2, <2>3, <2>4 DEF BuyStep
<1>2. ASSUME NEW p \in Posters, PostStep(p) PROVE Committed
  BY <1>2 DEF PostStep, PostInsert, PostInsertFails, InsertRows
<1>3. ASSUME NEW i \in Initializers, InitStep(i) PROVE Committed
  <2>1. pc[i] # "idle" /\ ~Quiet'
    <3>1. CASE InitFlushFails(i)
      BY <3>1 DEF InitFlushFails, Halt, InFlight, Ended
    <3>2. CASE InitSchema(i) \/ InitEstates(i) \/ InitChairs(i) \/ InitChairsDone(i)
      BY <3>2 DEF InitSchema, InitEstates, InitChairs, InitChairsDone
    <3>3. CASE InitPsqlFails(i) \/ InitFlush(i)
      BY <3>3 DEF InitPsqlFails, InitFlush
    <3> QED
      BY <1>3, <3>1, <3>2, <3>3 DEF InitStep
  <2>2. /\ \A b \in Buyers : status'[b] = status[b]
        /\ tookIn' = tookIn
    BY <1>3 DEF InitStep, InitSchema, InitEstates, InitChairs, InitChairsDone, InitPsqlFails,
       InitFlush, InitFlushFails, Halt
  <2> QED
    BY <2>1, <2>2
<1>4. ASSUME NEW r \in Requests, Reply(r) \/ Refused(r) PROVE Committed
  BY <1>4 DEF Reply, Refused
<1>5. ASSUME NEW b \in Buyers, BuyArrive(b) \/ BuyReject(b) PROVE Committed
  BY <1>5 DEF BuyArrive, BuyReject, StatusHonest, Undecided
<1>6. ASSUME NEW p \in Posters, PostArrive(p) \/ PostReject(p) PROVE Committed
  BY <1>6 DEF PostArrive, PostReject
<1>7. ASSUME NEW i \in Initializers, InitArrive(i) PROVE Committed
  BY <1>7 DEF InitArrive
<1>8. CASE Crash \/ Restart \/ RedisTurns
  BY <1>8 DEF Crash, Restart, RedisTurns, Halt
<1>9. CASE UNCHANGED vars
  BY <1>9 DEF vars
<1> QED
  BY <1>1, <1>2, <1>3, <1>4, <1>5, <1>6, <1>7, <1>8, <1>9 DEF Next, Progress

-----------------------------------------------------------------------------
(* Before the first initialize the table is that of the data file; a buyer *)
(* who read 0 and is told 200 has put its chair on the list; and the sale  *)
(* of the last unit was seen by its buyer, or ended in a 500.              *)
FirstEpoch == Quiet => epoch = 1
LastListed ==
  Quiet => \A b \in Buyers : seen[b] = 0 /\ status[b] = 200 => Want[b] \in soldOut \cup forgot
LastKnown ==
  \A c \in rows : stock[c] = 0 /\ Takers(c) # {} =>
    \E b \in Takers(c) : seen[b] = 0 \/ status[b] = 500

LastUnitInv == FirstEpoch /\ LastListed /\ LastKnown

LEMMA LastUnitInit == Init => LastUnitInv
<1> SUFFICES ASSUME Init PROVE LastUnitInv
  OBVIOUS
<1>1. \A c \in Chairs : Takers(c) = {}
  BY DEF Init, Takers
<1>2. rows \subseteq Chairs
  BY DEF Init
<1> QED
  BY <1>1, <1>2 DEF Init, LastUnitInv, FirstEpoch, LastListed, LastKnown, Requests

LEMMA LastKnownNext ==
  ASSUME ShopTypeOK, UnitsInv, LastKnown, Committed, [Next]_vars
  PROVE  LastKnown'
<1> SUFFICES ASSUME NEW c \in rows', stock'[c] = 0, Takers(c)' # {}
             PROVE  \E b \in Takers(c)' : seen'[b] = 0 \/ status'[b] = 500
  BY DEF LastKnown
<1>1. ASSUME NEW b \in Buyers, seen[b] = 0 \/ status[b] = 500
      PROVE  seen'[b] = 0 \/ status'[b] = 500
  BY <1>1, SeenKept DEF Committed
<1>2. ASSUME c \in rows, stock'[c] = stock[c], Takers(c)' = Takers(c)
      PROVE  \E b \in Takers(c)' : seen'[b] = 0 \/ status'[b] = 500
  BY <1>1, <1>2 DEF LastKnown, Takers
<1>3. CASE TableKept
  BY <1>2, <1>3 DEF TableKept, tableVars, Takers
<1>4. ASSUME NEW b \in Buyers, UnitTaken(b)
      PROVE  \E a \in Takers(c)' : seen'[a] = 0 \/ status'[a] = 500
  <2>1. /\ rows' = rows /\ epoch' = epoch /\ stock' = [stock EXCEPT ![Want[b]] = @ - 1]
        /\ tookIn' = [tookIn EXCEPT ![b] = epoch]
    BY <1>4 DEF UnitTaken, TakeUnit
  <2>2. CASE Want[b] = c
    <3>1. tookIn[b] = 0 /\ tookIn'[b] = epoch /\ epoch # 0
      BY <1>4, <2>1 DEF UnitTaken, UnitsInv, WaitingTookNothing, Waiting, ShopTypeOK
    <3>2. b \in Takers(c)'
      BY <2>1, <2>2, <3>1 DEF Takers
    <3> QED
      BY <2>2, <3>1, <3>2 DEF Committed
  <2>3. CASE Want[b] # c
    <3>1. Takers(c)' = Takers(c)
      BY <2>1, <2>3 DEF Takers, ShopTypeOK
    <3> QED
      BY <1>2, <2>1, <2>3, <3>1 DEF ShopTypeOK
  <2> QED
    BY <2>2, <2>3
<1>5. CASE TableEmptied
  BY <1>5 DEF TableEmptied
<1>6. ASSUME NEW D \in SUBSET Chairs, NEW f \in [D -> Int], RowsAdded(D, f)
      PROVE  \E b \in Takers(c)' : seen'[b] = 0 \/ status'[b] = 500
  <2>1. Takers(c)' = Takers(c)
    BY <1>6 DEF RowsAdded, InsertRows, Takers
  <2>2. c \in rows
    <3>1. c \in Chairs
      BY <1>6 DEF RowsAdded, InsertRows, ShopTypeOK
    <3> QED
      BY <2>1, <3>1 DEF UnitsInv, TakersHaveRow
  <2>3. stock'[c] = stock[c]
    BY <1>6, <2>2 DEF RowsAdded, InsertRows, ShopTypeOK
  <2> QED
    BY <1>2, <2>1, <2>2, <2>3
<1> QED
  BY <1>3, <1>4, <1>5, <1>6, EveryTableStep DEF TableStep

LEMMA LastUnitNext ==
  ShopTypeOK /\ UnitsInv /\ StatusHonest /\ ListInv /\ LastUnitInv /\ [Next]_vars => LastUnitInv'
<1> SUFFICES ASSUME ShopTypeOK, UnitsInv, StatusHonest, ListInv, LastUnitInv, [Next]_vars
             PROVE  LastUnitInv'
  OBVIOUS
<1>1. Committed /\ Onward
  BY EveryStepCommits, EveryStepOnward
<1>2. Quiet' => Quiet
  BY <1>1 DEF Quiet, Onward, Requests
<1>3. FirstEpoch'
  BY <1>1, <1>2 DEF LastUnitInv, FirstEpoch, Committed
<1>4. LastListed'
  <2> SUFFICES ASSUME Quiet', NEW b \in Buyers, seen'[b] = 0, status'[b] = 200
               PROVE  Want[b] \in soldOut' \cup forgot'
    BY DEF LastListed
  <2>1. CASE status[b] # 200
    BY <1>1, <2>1 DEF Committed
  <2>2. CASE status[b] = 200
    <3>1. seen[b] = 0
      <4>1. \A a \in Buyers : UnitTaken(a) => a # b
        BY <2>2 DEF UnitTaken, StatusHonest, Undecided
      <4> QED
        BY <4>1, EveryTableStep
           DEF TableStep, TableKept, TableEmptied, RowsAdded, UnitTaken, ShopTypeOK
    <3> QED
      BY <1>1, <1>2, <2>2, <3>1 DEF LastUnitInv, LastListed, Committed
  <2> QED
    BY <2>1, <2>2
<1> QED
  BY <1>1, <1>3, <1>4, LastKnownNext DEF LastUnitInv

LEMMA LastUnitCorrect == Spec => [](StatusHonest /\ LastUnitInv)
<1>1. Init /\ [][Next]_vars /\ []ShopTypeOK /\ []UnitsInv /\ []ListInv
        => [](StatusHonest /\ LastUnitInv)
  BY StatusInit, StatusNext, LastUnitInit, LastUnitNext, PTL
<1> QED
  BY <1>1, TypeCorrect, UnitsCorrect, ListCorrect, PTL DEF Spec

(* A chair whose last unit was sold is on the list, unless a buyer of it   *)
(* is not (or was not properly) answered, or an initialize has begun, or   *)
(* Redis forgot it: for any number of buyers and posts, whatever fails and *)
(* whenever the process ends.                                              *)
THEOREM SoldOutGetsListed == Spec => []SoldOutIsListed
<1>1. ShopTypeOK /\ StatusHonest /\ LastUnitInv => SoldOutIsListed
  <2> SUFFICES ASSUME LastUnitInv, NEW c \in rows, stock[c] = 0, Takers(c) # {}, Quiet,
                      \A b \in Takers(c) : ~ListingPending(b)
               PROVE  c \in soldOut \cup forgot
    BY DEF SoldOutIsListed, Quiet
  <2>1. PICK b \in Takers(c) : seen[b] = 0 \/ status[b] = 500
    BY DEF LastUnitInv, LastKnown
  <2>2. b \in Buyers /\ Want[b] = c /\ status[b] = 200
    BY DEF Takers, ListingPending
  <2> QED
    BY <2>1, <2>2 DEF LastUnitInv, LastListed
<1> QED
  BY <1>1, TypeCorrect, LastUnitCorrect, PTL

-----------------------------------------------------------------------------
(* ChairEdge: the proxy in front of the shop.                              *)

(* The proxy reads the state of ChairShop and takes its steps.             *)
LEMMA EdgeStepsShop == [EdgeNext]_viewVars => [Next]_vars
<1> SUFFICES ASSUME [EdgeNext]_viewVars PROVE [Next]_vars
  OBVIOUS
<1>1. ASSUME NEW v \in Viewers, ViewArrive(v) \/ ViewAgain(v) PROVE vars' = vars
  BY <1>1 DEF ViewArrive, ViewAgain
<1>2. ASSUME NEW v \in Viewers, ViewProgress(v) PROVE vars' = vars
  BY <1>2 DEF ViewProgress, AccessListed, AccessPasses, CacheHit, CacheLock, CacheWait,
     CacheStale, Wake, LockTimeout, AppRead, AppUnreachable, Respond
<1>3. ASSUME NEW u \in Uris, LockAges(u) \/ Expire(u) \/ Evict(u) PROVE vars' = vars
  BY <1>3 DEF LockAges, Expire, Evict
<1>4. CASE UNCHANGED viewVars
  BY <1>4 DEF viewVars
<1> QED
  BY <1>1, <1>2, <1>3, <1>4 DEF EdgeNext, ShopStep

(* The proxy adds nothing to the application: what a shop behind it does   *)
(* is what a shop does, so that every theorem about Spec holds there too.  *)
THEOREM EdgeIsShop == EdgeSpec => Spec
<1>1. EdgeInit => Init
  BY DEF EdgeInit
<1> QED
  BY <1>1, EdgeStepsShop, PTL DEF EdgeSpec, Spec

ShopInv ==
  /\ ShopTypeOK /\ UnitsInv /\ ListInv /\ ListedInStockOnlyByStraggler
  /\ StatusHonest /\ LastUnitInv

LEMMA ShopCorrect == EdgeSpec => []ShopInv
BY EdgeIsShop, TypeCorrect, UnitsCorrect, ListCorrect, OnlyStragglersMislead,
   LastUnitCorrect, PTL DEF ShopInv

-----------------------------------------------------------------------------
(* Types.                                                                  *)

Flags == stores \in [Viewers -> BOOLEAN] /\ doomed \in [Viewers -> BOOLEAN]
         /\ wasOut \in [Viewers -> BOOLEAN]
EdgeTypes ==
  /\ cache \in [Uris -> {"none", "fresh", "stale"}]
  /\ kept \in [Uris -> {0, 200}] /\ \A u \in Uris : cache[u] = "none" <=> kept[u] = 0
  /\ lock \in [Uris -> SUBSET Viewers]
  /\ \A u \in Uris : \A v \in lock[u] : Asks[v] = u
  /\ vpc \in [Viewers -> {"idle", "access", "cache", "wait", "app", "answer", "done"}]
  /\ vstatus \in [Viewers -> {0, 200, 404, 500, 502}]
  /\ source \in [Viewers -> {"none", "list", "cache", "app"}]

LEMMA BooleanAt ==
  ASSUME NEW S, NEW f \in [S -> BOOLEAN], NEW s \in S, NEW x \in BOOLEAN
  PROVE  [f EXCEPT ![s] = x] \in [S -> BOOLEAN]
OBVIOUS

LEMMA EdgeTypesStart == EdgeInit => EdgeTypes /\ Flags
<1> SUFFICES ASSUME EdgeInit PROVE EdgeTypes /\ Flags
  OBVIOUS
<1>1. EdgeTypes
  BY DEF EdgeInit, EdgeTypes
<1>2. Flags
  BY DEF EdgeInit, Flags
<1> QED
  BY <1>1, <1>2

LEMMA EdgeTypesView ==
  ASSUME EdgeTypes, NEW v \in Viewers,
         ViewArrive(v) \/ ViewAgain(v) \/ ViewProgress(v)
  PROVE  EdgeTypes'
<1> USE DEF EdgeTypes, Goes, Decides
<1>0. Asks[v] \in Uris
  BY DEF Uris
<1>1. CASE ViewArrive(v) \/ ViewAgain(v)
  BY <1>1 DEF ViewArrive, ViewAgain
<1>2. CASE AccessListed(v) \/ AccessPasses(v)
  BY <1>2 DEF AccessListed, AccessPasses
<1>3. CASE CacheHit(v)
  BY <1>0, <1>3 DEF CacheHit
<1>4. CASE CacheLock(v)
  BY <1>0, <1>4 DEF CacheLock
<1>5. CASE CacheWait(v) \/ CacheStale(v) \/ Wake(v) \/ LockTimeout(v)
  BY <1>5 DEF CacheWait, CacheStale, Wake, LockTimeout
<1>6. CASE AppRead(v) \/ AppUnreachable(v)
  BY <1>6 DEF AppRead, AppUnreachable, DetailStatus
<1>7. CASE Respond(v)
  <2>1. lock' = [lock EXCEPT ![Asks[v]] = @ \ {v}] /\ UNCHANGED <<vstatus, source>>
        /\ vpc' = [vpc EXCEPT ![v] = "done"]
    BY <1>7 DEF Respond
  <2>2. \/ UNCHANGED <<cache, kept>>
        \/ /\ cache' = [cache EXCEPT ![Asks[v]] = "fresh"]
           /\ kept' = [kept EXCEPT ![Asks[v]] = 200]
    BY <1>7 DEF Respond, Cacheable
  <2> QED
    BY <1>0, <2>1, <2>2
<1> QED
  BY <1>1, <1>2, <1>3, <1>4, <1>5, <1>6, <1>7 DEF ViewProgress

LEMMA EdgeTypesRest ==
  ASSUME EdgeTypes, UNCHANGED viewVars \/ ShopStep
                    \/ \E u \in Uris : LockAges(u) \/ Expire(u) \/ Evict(u)
  PROVE  EdgeTypes'
<1> USE DEF EdgeTypes
<1>1. CASE UNCHANGED viewVars
  BY <1>1 DEF viewVars, edgeVars
<1>2. CASE ShopStep
  <2>1. UNCHANGED <<cache, kept, lock, source>>
    BY <1>2 DEF ShopStep
  <2>2. /\ vpc' \in [Viewers -> {"idle", "access", "cache", "wait", "app", "answer", "done"}]
        /\ vstatus' \in [Viewers -> {0, 200, 404, 500, 502}]
    BY <1>2 DEF ShopStep, BreakOff
  <2> QED
    BY <2>1, <2>2
<1>3. ASSUME NEW u \in Uris, LockAges(u) \/ Expire(u) \/ Evict(u) PROVE EdgeTypes'
  BY <1>3 DEF LockAges, Expire, Evict
<1> QED
  BY <1>1, <1>2, <1>3

LEMMA EdgeTypesNext == EdgeTypes /\ [EdgeNext]_viewVars => EdgeTypes'
BY EdgeTypesView, EdgeTypesRest DEF EdgeNext

LEMMA FlagsNext == Flags /\ [EdgeNext]_viewVars => Flags'
<1> SUFFICES ASSUME Flags, [EdgeNext]_viewVars PROVE Flags'
  OBVIOUS
<1>1. CASE UNCHANGED viewVars
  BY <1>1 DEF viewVars, edgeVars, Flags
<1>2. CASE EdgeNext
  <2>1. wasOut' \in [Viewers -> BOOLEAN]
    BY <1>2 DEF EdgeNext, Observe
  <2>2. \/ stores' = stores
        \/ \E v \in Viewers, x \in BOOLEAN : stores' = [stores EXCEPT ![v] = x]
    BY <1>2 DEF EdgeNext, ViewArrive, ViewAgain, ViewProgress, AccessListed, AccessPasses,
       CacheHit, CacheLock, CacheWait, CacheStale, Wake, LockTimeout, AppRead, AppUnreachable,
       Respond, LockAges, Expire, Evict, ShopStep
  <2>3. \/ doomed' = doomed
        \/ \E v \in Viewers, x \in BOOLEAN : doomed' = [doomed EXCEPT ![v] = x]
    <3>1. \A v \in Viewers : SoldOutKnown(ChairOf(v)) \in BOOLEAN
      BY DEF SoldOutKnown
    <3> QED
      BY <1>2, <3>1 DEF EdgeNext, ViewArrive, ViewAgain, ViewProgress, AccessListed,
         AccessPasses, CacheHit, CacheLock, CacheWait, CacheStale, Wake, LockTimeout, AppRead,
         AppUnreachable, Respond, LockAges, Expire, Evict, ShopStep
  <2> QED
    BY <2>1, <2>2, <2>3, BooleanAt DEF Flags
<1> QED
  BY <1>1, <1>2

(* The variables of the proxy have their types.                            *)
THEOREM EdgeTypeCorrect == EdgeSpec => []EdgeTypeOK
<1>1. EdgeSpec => [](EdgeTypes /\ Flags)
  BY EdgeTypesStart, EdgeTypesNext, FlagsNext, PTL DEF EdgeSpec
<1>2. EdgeTypes /\ Flags => EdgeTypeOK
  BY DEF EdgeTypes, Flags, EdgeTypeOK
<1> QED
  BY <1>1, <1>2, PTL

-----------------------------------------------------------------------------
(* What the shop's list and table say before any initialize.               *)

LEMMA NoInitializeIsQuiet == NoInitialize = Quiet
BY DEF NoInitialize, Quiet

LEMMA QuietBefore ==
  ASSUME ShopInv, [Next]_vars, NoInitialize'
  PROVE  NoInitialize
BY EveryStepOnward DEF ShopInv, Onward, NoInitialize, Requests

(* A listed chair is out of stock, ...                                     *)
LEMMA ListedIsOut ==
  ASSUME ShopInv, NoInitialize, NEW c \in soldOut
  PROVE  ~InStock(c)
<1> SUFFICES ASSUME InStock(c) PROVE FALSE
  OBVIOUS
<1>1. PICK b \in Buyers : seen[b] = 0 /\ tookIn[b] < epoch
  BY DEF ShopInv, ListedInStockOnlyByStraggler
<1>2. epoch = 1
  BY NoInitializeIsQuiet DEF ShopInv, LastUnitInv, FirstEpoch
<1> QED
  BY <1>1, <1>2 DEF ShopInv, UnitsInv, SeenAfterTaking, ShopTypeOK

(* ... and a chair known to be sold out is too, and is listed unless Redis *)
(* forgot it, for as long as there is no initialize.                       *)
LEMMA KnownIsListed ==
  ASSUME ShopInv, NEW c \in Chairs, SoldOutKnown(c)
  PROVE  c \in soldOut \cup forgot /\ ~InStock(c)
<1>1. PICK b \in Buyers : Want[b] = c /\ seen[b] = 0 /\ status[b] = 200
  BY DEF SoldOutKnown
<1>2. c \in soldOut \cup forgot
  BY <1>1, NoInitializeIsQuiet DEF SoldOutKnown, ShopInv, LastUnitInv, LastListed
<1>3. epoch = 1
  BY NoInitializeIsQuiet DEF SoldOutKnown, ShopInv, LastUnitInv, FirstEpoch
<1>4. tookIn[b] = epoch
  BY <1>1, <1>3 DEF ShopInv, UnitsInv, SeenAfterTaking, TookBeforeNow, ShopTypeOK
<1> QED
  BY <1>1, <1>2, <1>4 DEF ShopInv, UnitsInv, StockBelowSeen, InStock, ShopTypeOK

LEMMA DoneStays ==
  ASSUME ShopTypeOK, [Next]_vars, NEW b \in Buyers, pc[b] = "done"
  PROVE  pc'[b] = "done"
<1> USE DisjointAssumption DEF ShopTypeOK, Requests, Advance, Return, Arrive
<1>1. ASSUME NEW r \in Requests, Refused(r) \/ Progress(r) PROVE pc'[b] = "done"
  <2>1. CASE r \in Buyers /\ BuyStep(r)
    BY <2>1 DEF BuyStep, BuyUpdate, BuyMiss, BuyUpdateFails, BuySAdd, BuySAddFails
  <2>2. CASE r \in Posters /\ PostStep(r)
    BY <2>2 DEF PostStep, PostInsert, PostInsertFails
  <2>3. CASE r \in Initializers /\ InitStep(r)
    BY <2>3 DEF InitStep, InitSchema, InitEstates, InitChairs, InitChairsDone, InitPsqlFails,
       InitFlush, InitFlushFails, Halt, InFlight, Ended
  <2>4. CASE Reply(r) \/ Refused(r)
    BY <2>4 DEF Reply, Refused
  <2> QED
    BY <1>1, <2>1, <2>2, <2>3, <2>4 DEF Progress
<1>2. ASSUME NEW a \in Buyers, BuyArrive(a) \/ BuyReject(a) PROVE pc'[b] = "done"
  BY <1>2 DEF BuyArrive, BuyReject
<1>3. ASSUME NEW p \in Posters, PostArrive(p) \/ PostReject(p) PROVE pc'[b] = "done"
  BY <1>3 DEF PostArrive, PostReject
<1>4. ASSUME NEW i \in Initializers, InitArrive(i) PROVE pc'[b] = "done"
  BY <1>4 DEF InitArrive
<1>5. CASE Crash \/ Restart \/ RedisTurns \/ UNCHANGED vars
  BY <1>5 DEF Crash, Restart, RedisTurns, Halt, InFlight, Ended, vars
<1> QED
  BY <1>1, <1>2, <1>3, <1>4, <1>5 DEF Next

LEMMA KnownStays ==
  ASSUME ShopInv, [Next]_vars, NoInitialize', NEW c \in Chairs, SoldOutKnown(c)
  PROVE  SoldOutKnown(c)'
<1>1. PICK b \in Buyers : Want[b] = c /\ seen[b] = 0 /\ pc[b] = "done" /\ status[b] = 200
  BY DEF SoldOutKnown
<1>2. seen'[b] = 0
  BY <1>1, SeenKept DEF ShopInv
<1>3. pc'[b] = "done"
  BY <1>1, DoneStays DEF ShopInv
<1>4. status'[b] = 200
  BY <1>1, EveryStepCommits DEF ShopInv, Committed
<1> QED
  BY <1>1, <1>2, <1>3, <1>4 DEF SoldOutKnown

(* Only where a fault of Redis is allowed does Redis go down or forget.    *)
RedisSteady == (redisUp /\ forgot = {}) \/ "redis" \in Faults
LEMMA SteadyNext ==
  ASSUME ShopTypeOK, RedisSteady, [Next]_vars
  PROVE  RedisSteady'
<1> DEFINE Still == redisUp' = redisUp /\ forgot' = forgot
<1> SUFFICES ASSUME "redis" \notin Faults PROVE Still
  BY DEF RedisSteady
<1> USE DEF serverVars
<1>1. ASSUME NEW r \in Requests, Refused(r) \/ Progress(r) PROVE Still
  BY <1>1 DEF Refused, Progress, Reply, BuyStep, BuyUpdate, BuyMiss, BuyUpdateFails, BuySAdd,
     BuySAddFails, PostStep, PostInsert, PostInsertFails, InitStep, InitSchema, InitEstates,
     InitChairs, InitChairsDone, InitPsqlFails, InitFlush, InitFlushFails
<1>2. ASSUME NEW b \in Buyers, BuyArrive(b) \/ BuyReject(b) PROVE Still
  BY <1>2 DEF BuyArrive, BuyReject
<1>3. ASSUME NEW p \in Posters, PostArrive(p) \/ PostReject(p) PROVE Still
  BY <1>3 DEF PostArrive, PostReject
<1>4. ASSUME NEW i \in Initializers, InitArrive(i) PROVE Still
  BY <1>4 DEF InitArrive
<1>5. CASE Crash \/ Restart \/ RedisTurns \/ UNCHANGED vars
  BY <1>5 DEF Crash, Restart, RedisTurns, Halt, vars
<1> QED
  BY <1>1, <1>2, <1>3, <1>4, <1>5 DEF Next

-----------------------------------------------------------------------------
(* Viewers.                                                                *)

(* The ways round the Lua check.                                           *)
Leaky(v) == "redis" \in Faults \/ Asks[v].form = "zero"
Behind(v) == vpc[v] \in {"cache", "wait", "app", "answer"}

(* A viewer that asked for a chair known to be sold out.                   *)
Hidden(v) ==
  /\ SoldOutKnown(ChairOf(v))
  /\ Behind(v) => Leaky(v)
  /\ vpc[v] = "answer" => vstatus[v] # 200
  /\ vpc[v] = "done" /\ vstatus[v] = 200 => source[v] = "cache" /\ Leaky(v)
AllHidden == \A v \in Viewers : doomed[v] /\ NoInitialize => Hidden(v)

(* A viewer that was told 404.                                             *)
Refusal(v) ==
  /\ vpc[v] = "idle" => vstatus[v] = 0
  /\ vstatus[v] = 404 /\ NoInitialize => wasOut[v]
AllRefusals == \A v \in Viewers : Refusal(v)

ViewInv == RedisSteady /\ AllHidden /\ AllRefusals

LEMMA ViewStart == EdgeInit => ViewInv
BY DEF EdgeInit, Init, ViewInv, RedisSteady, AllHidden, AllRefusals, Refusal

(* What a step does to viewer v, by where the request is.                  *)
ViewerKept(v) ==
  /\ vpc'[v] = vpc[v] /\ vstatus'[v] = vstatus[v]
  /\ source'[v] = source[v] /\ doomed'[v] = doomed[v]
Asked(v) ==
  /\ vpc[v] = "idle" /\ vpc'[v] = "access" /\ vstatus'[v] = vstatus[v]
  /\ doomed'[v] = SoldOutKnown(ChairOf(v)) /\ vars' = vars
Leaves(v) == vpc'[v] = "idle" /\ vstatus'[v] = 0 /\ doomed'[v] = doomed[v]
Turned(v) ==
  /\ vpc[v] = "access" /\ vpc'[v] = "done" /\ vstatus'[v] = 404
  /\ Listed(Asks[v]) /\ doomed'[v] = doomed[v] /\ vars' = vars
Passes(v) ==
  /\ vpc[v] = "access" /\ vpc'[v] = "cache" /\ vstatus'[v] = vstatus[v]
  /\ ~Listed(Asks[v]) \/ ~redisUp \/ "redis" \in Faults
  /\ doomed'[v] = doomed[v] /\ vars' = vars
Served200(v) ==
  /\ vpc[v] = "cache" /\ vpc'[v] = "done" /\ vstatus'[v] \in {0, 200} /\ source'[v] = "cache"
  /\ doomed'[v] = doomed[v]
Moves(v) ==
  /\ Behind(v) /\ vpc'[v] \in {"cache", "wait", "app"} /\ vstatus'[v] = vstatus[v]
  /\ doomed'[v] = doomed[v]
Reads(v) ==
  /\ Behind(v) /\ vpc'[v] = "answer" /\ doomed'[v] = doomed[v] /\ vars' = vars
  /\ vstatus'[v] \in {DetailStatus(ChairOf(v)), 500, 502}
Broken(v) ==
  /\ Behind(v) /\ vpc'[v] = "answer" /\ vstatus'[v] = 502 /\ doomed'[v] = doomed[v]
Answers(v) ==
  /\ vpc[v] = "answer" /\ vpc'[v] = "done" /\ vstatus'[v] = vstatus[v]
  /\ doomed'[v] = doomed[v]

ViewerStep(v) ==
  \/ ViewerKept(v) \/ Asked(v) \/ Leaves(v) \/ Turned(v) \/ Passes(v)
  \/ Served200(v) \/ Moves(v) \/ Reads(v) \/ Broken(v) \/ Answers(v)

LEMMA EveryViewerStep ==
  ASSUME EdgeTypes, Flags, [EdgeNext]_viewVars, NEW v \in Viewers
  PROVE  ViewerStep(v)
<1> USE DEF EdgeTypes, Flags, Goes, Decides, ViewerStep, Behind
<1>0. Asks[v] \in Uris
  BY DEF Uris
<1>1. ASSUME NEW w \in Viewers, ViewArrive(w) PROVE ViewerStep(v)
  BY <1>1 DEF ViewArrive, ViewerKept, Asked
<1>2. ASSUME NEW w \in Viewers, ViewAgain(w) PROVE ViewerStep(v)
  BY <1>2 DEF ViewAgain, ViewerKept, Leaves
<1>3. ASSUME NEW w \in Viewers, AccessListed(w) \/ AccessPasses(w) PROVE ViewerStep(v)
  BY <1>3 DEF AccessListed, AccessPasses, ViewerKept, Turned, Passes
<1>4. ASSUME NEW w \in Viewers, CacheHit(w) PROVE ViewerStep(v)
  BY <1>0, <1>4 DEF CacheHit, ViewerKept, Served200
<1>5. ASSUME NEW w \in Viewers,
             CacheLock(w) \/ CacheWait(w) \/ CacheStale(w) \/ Wake(w) \/ LockTimeout(w)
      PROVE ViewerStep(v)
  BY <1>5 DEF CacheLock, CacheWait, CacheStale, Wake, LockTimeout, ViewerKept, Moves
<1>6. ASSUME NEW w \in Viewers, AppRead(w) \/ AppUnreachable(w) PROVE ViewerStep(v)
  BY <1>6 DEF AppRead, AppUnreachable, ViewerKept, Reads
<1>7. ASSUME NEW w \in Viewers, Respond(w) PROVE ViewerStep(v)
  BY <1>7 DEF Respond, ViewerKept, Answers
<1>8. ASSUME NEW u \in Uris, LockAges(u) \/ Expire(u) \/ Evict(u) PROVE ViewerStep(v)
  BY <1>8 DEF LockAges, Expire, Evict, ViewerKept
<1>9. CASE ShopStep
  BY <1>9 DEF ShopStep, BreakOff, ViewerKept, Broken
<1>10. CASE UNCHANGED viewVars
  BY <1>10 DEF viewVars, edgeVars, ViewerKept
<1> QED
  BY <1>1, <1>2, <1>3, <1>4, <1>5, <1>6, <1>7, <1>8, <1>9, <1>10 DEF EdgeNext, ViewProgress

(* What is read of the tables does not change when the tables do not.      *)
LEMMA ReadsAgree ==
  ASSUME vars' = vars, NEW c
  PROVE  /\ InStock(c)' = InStock(c) /\ SoldOutKnown(c)' = SoldOutKnown(c)
         /\ NoInitialize' = NoInitialize
BY DEF vars, tableVars, localVars, serverVars, InStock, SoldOutKnown, NoInitialize

LEMMA HiddenStep ==
  ASSUME ShopInv, EdgeTypes, Flags, ViewInv, [EdgeNext]_viewVars,
         NEW v \in Viewers, doomed'[v], NoInitialize'
  PROVE  Hidden(v)'
<1>0. ChairOf(v) \in Chairs /\ [Next]_vars /\ NoInitialize
  BY AsksAssumption, EdgeStepsShop, QuietBefore DEF ChairOf
<1>1. CASE Asked(v)
  BY <1>0, <1>1, ReadsAgree DEF Asked, Hidden, Behind
<1>2. CASE ~Asked(v)
  <2>1. doomed[v] /\ (ViewerStep(v) /\ ~Asked(v))
    BY <1>2, EveryViewerStep DEF ViewerStep, ViewerKept, Leaves, Turned, Passes, Served200,
       Moves, Reads, Broken, Answers
  <2>2. Hidden(v)
    BY <1>0, <2>1 DEF ViewInv, AllHidden
  <2>3. SoldOutKnown(ChairOf(v)) /\ SoldOutKnown(ChairOf(v))'
    BY <1>0, <2>2, KnownStays DEF Hidden
  <2>4. ChairOf(v) \in soldOut \cup forgot /\ ~InStock(ChairOf(v))
    BY <1>0, <2>3, KnownIsListed
  <2>5. CASE ViewerKept(v)
    BY <2>2, <2>3, <2>5 DEF Hidden, Behind, Leaky, ViewerKept
  <2>9. CASE Leaves(v)
    BY <2>3, <2>9 DEF Hidden, Behind, Leaves
  <2>11. CASE Turned(v)
    <3>1. vpc'[v] = "done" /\ vstatus'[v] = 404
      BY <2>11 DEF Turned
    <3> QED
      BY <2>3, <3>1 DEF Hidden, Behind
  <2>6. CASE Passes(v)
    <3>1. Leaky(v)
      BY <2>4, <2>6, AsksAssumption DEF Passes, Listed, ChairOf, Leaky, ViewInv, RedisSteady, Forms
    <3> QED
      BY <2>3, <2>6, <3>1 DEF Hidden, Behind, Leaky, Passes
  <2>7. CASE Served200(v) \/ Moves(v)
    BY <2>2, <2>3, <2>7 DEF Hidden, Behind, Leaky, Served200, Moves
  <2>8. CASE Reads(v) \/ Broken(v)
    <3>1. vpc'[v] = "answer" /\ vstatus'[v] # 200
      <4>1. DetailStatus(ChairOf(v)) = 404
        BY <2>4 DEF DetailStatus
      <4>2. vpc'[v] = "answer" /\ vstatus'[v] \in {DetailStatus(ChairOf(v)), 500, 502}
        BY <2>8 DEF Reads, Broken
      <4> QED
        BY <4>1, <4>2
    <3>2. Leaky(v)
      BY <2>2, <2>8 DEF Hidden, Reads, Broken
    <3> QED
      BY <2>3, <3>1, <3>2 DEF Hidden, Behind, Leaky
  <2>10. CASE Answers(v)
    BY <2>2, <2>3, <2>10 DEF Hidden, Behind, Leaky, Answers
  <2> QED
    BY <2>1, <2>5, <2>6, <2>7, <2>8, <2>9, <2>10, <2>11 DEF ViewerStep
<1> QED
  BY <1>1, <1>2

LEMMA RefusalStep ==
  ASSUME ShopInv, EdgeTypes, Flags, ViewInv, EdgeNext, NEW v \in Viewers
  PROVE  Refusal(v)'
<1>0. [Next]_vars /\ (NoInitialize' => NoInitialize)
  BY EdgeStepsShop, QuietBefore
<1>1. vpc'[v] # "idle" /\ (wasOut[v] \/ ~InStock(ChairOf(v))') => wasOut'[v]
  BY DEF EdgeNext, Observe
<1>2. Refusal(v)
  BY DEF ViewInv, AllRefusals
<1>3. CASE Turned(v)
  <2>1. NoInitialize => ~InStock(ChairOf(v))
    BY <1>3, ListedIsOut DEF Turned, Listed, ChairOf
  <2> QED
    BY <1>0, <1>1, <1>3, <2>1, ReadsAgree DEF Turned, Refusal
<1>4. CASE Reads(v)
  <2>1. vpc'[v] = "answer" /\ (vstatus'[v] = 404 => ~InStock(ChairOf(v)))
    BY <1>4 DEF Reads, DetailStatus
  <2>2. InStock(ChairOf(v))' = InStock(ChairOf(v))
    BY <1>4, ReadsAgree DEF Reads
  <2> QED
    BY <1>1, <2>1, <2>2 DEF Refusal
<1>5. CASE ViewerKept(v) \/ Asked(v) \/ Passes(v) \/ Moves(v) \/ Answers(v)
  <2>1. vstatus'[v] = vstatus[v] /\ (vpc'[v] = "idle" => vpc[v] = "idle")
    BY <1>5 DEF ViewerKept, Asked, Passes, Moves, Answers
  <2>2. vstatus[v] = 404 => vpc'[v] # "idle"
    BY <1>2, <2>1 DEF Refusal
  <2> QED
    BY <1>0, <1>1, <1>2, <2>1, <2>2 DEF Refusal
<1>6. CASE Leaves(v) \/ Served200(v) \/ Broken(v)
  BY <1>6 DEF Refusal, Leaves, Served200, Broken
<1> QED
  BY <1>3, <1>4, <1>5, <1>6, EveryViewerStep DEF ViewerStep

LEMMA ViewNext ==
  ShopInv /\ EdgeTypes /\ Flags /\ ViewInv /\ [EdgeNext]_viewVars => ViewInv'
<1> SUFFICES ASSUME ShopInv, EdgeTypes, Flags, ViewInv, [EdgeNext]_viewVars PROVE ViewInv'
  OBVIOUS
<1>1. RedisSteady'
  BY EdgeStepsShop, SteadyNext DEF ViewInv, ShopInv
<1>2. AllHidden'
  BY HiddenStep DEF AllHidden
<1>3. AllRefusals'
  <2>1. CASE EdgeNext
    BY <2>1, RefusalStep DEF AllRefusals
  <2>2. CASE UNCHANGED viewVars
    BY <2>2, ReadsAgree DEF ViewInv, AllRefusals, Refusal, viewVars, edgeVars
  <2> QED
    BY <2>1, <2>2
<1> QED
  BY <1>1, <1>2, <1>3 DEF ViewInv

LEMMA ViewCorrect == EdgeSpec => []ViewInv
<1>1. EdgeSpec => [](EdgeTypes /\ Flags)
  BY EdgeTypesStart, EdgeTypesNext, FlagsNext, PTL DEF EdgeSpec
<1>2. EdgeInit /\ [][EdgeNext]_viewVars /\ []ShopInv /\ [](EdgeTypes /\ Flags) => []ViewInv
  BY ViewStart, ViewNext, PTL
<1> QED
  BY <1>1, <1>2, ShopCorrect, PTL DEF EdgeSpec

(* Whoever asks for a chair known to be sold out is not shown it, but by   *)
(* the cache to those the Lua check lets pass.                             *)
THEOREM SoldOutStaysHidden == EdgeSpec => []SoldOutIsHidden
<1>1. ViewInv => SoldOutIsHidden
  BY DEF ViewInv, AllHidden, Hidden, Leaky, SoldOutIsHidden
<1> QED
  BY <1>1, ViewCorrect, PTL

(* Whoever is told 404 asked for a chair that was out of stock meanwhile.  *)
THEOREM RefusalsAreTrue == EdgeSpec => []NoFalseSoldOut
<1>1. ViewInv => NoFalseSoldOut
  BY DEF ViewInv, AllRefusals, Refusal, NoFalseSoldOut
<1> QED
  BY <1>1, ViewCorrect, PTL
=============================================================================
