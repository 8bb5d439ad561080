-------------------------- MODULE ReferenceBuy_proofs --------------------------
(***************************************************************************)
(* Theorems about ReferenceBuy, for any number of chairs, buyers and       *)
(* connections, and every combination of faults.                           *)
(***************************************************************************)
EXTENDS ReferenceBuy, FiniteSetTheorems, TLAPS

Steps == {"idle", "pool", "begin", "select", "update", "commit", "ok",
          "miss", "rollback", "fail", "done", "hung"}

(* The types but for the upper bound of free, which is the pool's matter.  *)
Types ==
  /\ stock \in [Chairs -> Nat]
  /\ written \in [Buyers -> Nat \cup {-1}] /\ read \in [Buyers -> Nat \cup {-1}]
  /\ locked \in [Chairs -> SUBSET Buyers]
  /\ free \in Nat
  /\ broken \in [Buyers -> BOOLEAN] /\ sold \in [Buyers -> BOOLEAN]
  /\ pc \in [Buyers -> Steps]
  /\ status \in [Buyers -> {0, 200, 404, 500, 502}]

(* A row has one transaction, which read what the row still has; between   *)
(* its SELECT and its COMMIT a buyer has the lock of a row with stock.     *)
AtRow(b) == pc[b] \in {"update", "commit", "miss", "rollback", "fail"}
Locking ==
  /\ \A c \in Chairs : \A b \in locked[c] : Want[b] = c /\ AtRow(b) /\ read[b] = stock[c]
  /\ \A c \in Chairs : \A a, b \in locked[c] : a = b
  /\ \A b \in Buyers :
       /\ pc[b] \in {"update", "commit"} => b \in locked[Want[b]] /\ read[b] > 0
       /\ pc[b] = "commit" => written[b] = read[b] - 1

TxInv == Types /\ Locking

RequestStep(b) == Request(b) \/ Handle(b) \/ GetConnectionFails(b) \/ StatementFails(b)

(* What a buyer read, sold and was told, as far as its handler is.         *)
Honest(b) ==
  /\ pc[b] \in {"idle", "pool", "begin", "select"} => read[b] = -1
  /\ pc[b] \in {"idle", "pool", "begin", "select", "update", "commit", "miss"}
       => status[b] = 0 /\ ~sold[b]
  /\ pc[b] = "ok" => sold[b] /\ status[b] = 0
  /\ pc[b] \in {"miss", "rollback"} => read[b] = 0 /\ ~sold[b]
  /\ pc[b] = "rollback" => status[b] = 404
  /\ pc[b] \in {"fail", "hung"} => status[b] = 0 /\ read[b] # 0
  /\ pc[b] = "done" => status[b] # 0
  /\ status[b] = 404 => ~sold[b]
Honesty == \A b \in Buyers : Honest(b)

-----------------------------------------------------------------------------
(* The transactions.                                                       *)

LEMMA TxInit == RefInit => TxInv
BY ReferenceAssumption DEF RefInit, TxInv, Types, Locking, Steps

LEMMA TxQuiet ==
  ASSUME TxInv, NEW b \in Buyers,
         Request(b) \/ GetConnection(b) \/ BeginTransaction(b) \/ RespondOk(b) \/ RespondMiss(b)
  PROVE  TxInv'
<1> USE ReferenceAssumption DEF TxInv, Types, Steps, Goes, txVars, Release
<1>1. Types'
  BY DEF Request, GetConnection, BeginTransaction, RespondOk, RespondMiss
<1>2. /\ \A a \in Buyers \ {b} : pc'[a] = pc[a]
      /\ pc'[b] \notin {"update", "commit"}
      /\ AtRow(b) => AtRow(b)'
      /\ UNCHANGED <<stock, written, read, locked>>
  BY DEF Request, GetConnection, BeginTransaction, RespondOk, RespondMiss, AtRow
<1> QED
  BY <1>1, <1>2 DEF Locking, AtRow

(* A function into BOOLEAN that is changed at one point is one still.      *)
LEMMA BooleanPut ==
  ASSUME NEW S, NEW f \in [S -> BOOLEAN], NEW s \in S
  PROVE  [f EXCEPT ![s] = TRUE] \in [S -> BOOLEAN]
  BY Zenon

LEMMA TxRefused ==
  ASSUME TxInv, NEW b \in Buyers, GetConnectionFails(b)
  PROVE  TxInv'
<1> USE DEF TxInv, Types, Steps, Goes, txVars
<1>1. /\ pc[b] = "pool" /\ pc' = [pc EXCEPT ![b] = "hung"]
      /\ broken' = [broken EXCEPT ![b] = TRUE]
      /\ UNCHANGED <<stock, written, read, locked, free, sold, status>>
  BY DEF GetConnectionFails
<1>2. broken' \in [Buyers -> BOOLEAN]
  <2>1. broken \in [Buyers -> BOOLEAN]
    OBVIOUS
  <2> HIDE DEF TxInv, Types, Steps
  <2> QED
    BY <1>1, <2>1, BooleanPut, Zenon
<1>3. Types'
  BY <1>1, <1>2
<1>4. Locking'
  BY <1>1 DEF Locking, AtRow
<1> QED
  BY <1>3, <1>4

LEMMA TxSelect ==
  ASSUME TxInv, NEW b \in Buyers, Select(b)
  PROVE  TxInv'
<1> USE ReferenceAssumption DEF TxInv, Types, Steps, Goes
<1>1. Want[b] \in Chairs /\ stock[Want[b]] \in Nat
  OBVIOUS
<1>2. /\ pc[b] = "select"
      /\ \/ stock[Want[b]] > 0 /\ pc' = [pc EXCEPT ![b] = "update"]
         \/ pc' = [pc EXCEPT ![b] = "miss"]
      /\ read' = [read EXCEPT ![b] = stock[Want[b]]]
      /\ locked[Want[b]] = {} /\ locked' = [locked EXCEPT ![Want[b]] = {b}]
      /\ UNCHANGED <<stock, written, free, broken, sold, status>>
  BY DEF Select
<1>3. Types'
  BY <1>1, <1>2
<1>4. \A c \in Chairs : b \notin locked[c]
  BY <1>2 DEF Locking, AtRow
<1>5. Locking'
  BY <1>1, <1>2, <1>4 DEF Locking, AtRow
<1> QED
  BY <1>3, <1>5

LEMMA TxUpdate ==
  ASSUME TxInv, NEW b \in Buyers, Update(b)
  PROVE  TxInv'
<1> USE ReferenceAssumption DEF TxInv, Types, Steps, Goes
<1>1. read[b] \in Nat /\ read[b] > 0
  BY DEF Update, Locking
<1>2. Types'
  BY <1>1 DEF Update
<1>3. Locking'
  BY DEF Update, Locking, AtRow
<1> QED
  BY <1>2, <1>3

(* COMMIT takes one unit of the row the buyer holds, and lets it go.       *)
LEMMA EffectTakesOne ==
  ASSUME TxInv, NEW b \in Buyers, pc[b] = "commit", Effect(b)
  PROVE  /\ stock[Want[b]] > 0
         /\ stock' = [stock EXCEPT ![Want[b]] = @ - 1]
         /\ locked'[Want[b]] = {}
<1> USE ReferenceAssumption DEF TxInv, Types
<1>1. b \in locked[Want[b]] /\ read[b] > 0 /\ written[b] = read[b] - 1 /\ Want[b] \in Chairs
  BY DEF Locking
<1>2. read[b] = stock[Want[b]] /\ locked[Want[b]] = {b}
  BY <1>1 DEF Locking
<1> QED
  BY <1>1, <1>2 DEF Effect, EndTransaction

(* A transaction that ends and leaves the rows keeps the others' locks.    *)
LEMMA TxEnds ==
  ASSUME TxInv, NEW b \in Buyers, EndTransaction(b), pc' \in [Buyers -> Steps],
         \A a \in Buyers \ {b} : pc'[a] = pc[a],
         pc'[b] \notin {"update", "commit"},
         \/ stock' = stock
         \/ pc[b] = "commit" /\ Effect(b)
  PROVE  Locking' /\ stock' \in [Chairs -> Nat]
<1> USE ReferenceAssumption DEF TxInv, Types
<1>1. CASE stock' = stock
  BY <1>1 DEF EndTransaction, Locking, AtRow
<1>2. CASE pc[b] = "commit" /\ Effect(b)
  <2>1. /\ stock[Want[b]] > 0 /\ locked'[Want[b]] = {}
        /\ stock' = [stock EXCEPT ![Want[b]] = @ - 1]
    BY <1>2, EffectTakesOne
  <2>2. \A a \in Buyers \ {b} : a \in locked[Want[a]] => Want[a] # Want[b]
    <3>1. b \in locked[Want[b]]
      BY <1>2 DEF Locking
    <3> QED
      BY <3>1 DEF Locking
  <2>3. stock' \in [Chairs -> Nat]
    <3>1. stock[Want[b]] - 1 \in Nat
      BY <2>1
    <3> QED
      BY <2>1, <3>1
  <2>4. \A c \in Chairs : c # Want[b] => stock'[c] = stock[c] /\ locked'[c] = locked[c]
    BY <2>1 DEF EndTransaction
  <2>5. b \notin locked'[Want[b]] /\ \A c \in Chairs : b \in locked[c] => c = Want[b]
    BY <2>1 DEF Locking
  <2>6. \A c \in Chairs : \A a \in locked'[c] :
          /\ a \in Buyers \ {b} /\ c # Want[b] /\ a \in locked[c]
          /\ read'[a] = read[a] /\ pc'[a] = pc[a]
    BY <2>1, <2>4, <2>5 DEF EndTransaction
  <2>7. \A a \in Buyers \ {b} : written'[a] = written[a] /\ read'[a] = read[a]
    BY <1>2 DEF EndTransaction, Effect
  <2>8. \A a \in Buyers : pc'[a] \in {"update", "commit"}
          => a # b /\ a \in locked[Want[a]] /\ Want[a] # Want[b] /\ pc'[a] = pc[a]
    BY <2>2 DEF Locking
  <2> QED
    BY <2>3, <2>4, <2>6, <2>7, <2>8 DEF Locking, AtRow
<1> QED
  BY <1>1, <1>2

(* The types of what a transaction leaves when it ends.                    *)
LEMMA EndTypes ==
  ASSUME TxInv, NEW b \in Buyers, EndTransaction(b)
  PROVE  /\ locked' \in [Chairs -> SUBSET Buyers]
         /\ written' \in [Buyers -> Nat \cup {-1}] /\ read' \in [Buyers -> Nat \cup {-1}]
<1> USE DEF TxInv, Types
<1>1. locked' \in [Chairs -> SUBSET Buyers]
  <2>1. locked[Want[b]] \ {b} \in SUBSET Buyers
    BY ReferenceAssumption
  <2> QED
    BY <2>1, ReferenceAssumption DEF EndTransaction
<1>2. written' \in [Buyers -> Nat \cup {-1}]
  BY DEF EndTransaction
<1>3. read' \in [Buyers -> Nat \cup {-1}]
  BY DEF EndTransaction
<1> QED
  BY <1>1, <1>2, <1>3

LEMMA TxOver ==
  ASSUME TxInv, NEW b \in Buyers,
         Commit(b) \/ RollbackMiss(b) \/ Catch(b) \/ StatementFails(b)
  PROVE  TxInv'
<1> USE ReferenceAssumption DEF TxInv, Types, Steps
<1>1. CASE Commit(b) \/ RollbackMiss(b) \/ Catch(b)
  <2>1. Locking' /\ stock' \in [Chairs -> Nat]
    BY <1>1, TxEnds DEF Commit, RollbackMiss, Catch, Effect, Goes
  <2>2. EndTransaction(b)
    BY <1>1 DEF Commit, RollbackMiss, Catch, Effect
  <2>3. pc' \in [Buyers -> Steps] /\ free' \in Nat
    BY <1>1 DEF Commit, RollbackMiss, Catch, Effect, Goes, Release
  <2>4. broken' = broken /\ (sold' = sold \/ sold' = [sold EXCEPT ![b] = TRUE])
    BY <1>1 DEF Commit, RollbackMiss, Catch, Effect
  <2>5. status' = status \/ status' = [status EXCEPT ![b] = 0] \/ status' = [status EXCEPT ![b] = 500]
    BY <1>1 DEF Commit, RollbackMiss, Catch
  <2>6. sold' \in [Buyers -> BOOLEAN]
    <3>1. sold \in [Buyers -> BOOLEAN]
      OBVIOUS
    <3> HIDE DEF TxInv, Types, Steps
    <3> QED
      BY <2>4, <3>1, BooleanPut, Zenon
  <2>7. status' \in [Buyers -> {0, 200, 404, 500, 502}]
    BY <2>5
  <2> QED
    BY <2>1, <2>2, <2>3, <2>4, <2>6, <2>7, EndTypes
<1>2. CASE StatementFails(b) /\ UNCHANGED <<stock, txVars, broken, sold>>
  BY <1>2 DEF StatementFails, Locking, AtRow, txVars, InTransaction
<1>3. CASE StatementFails(b) /\ EndTransaction(b) /\ UNCHANGED <<stock, sold>>
  <2>1. Locking' /\ stock' \in [Chairs -> Nat]
    BY <1>3, TxEnds DEF StatementFails
  <2>2. /\ pc' = [pc EXCEPT ![b] = "fail"] /\ UNCHANGED <<free, status, sold>>
        /\ broken' = broken \/ broken' = [broken EXCEPT ![b] = TRUE]
    BY <1>3 DEF StatementFails
  <2>3. broken' \in [Buyers -> BOOLEAN]
    <3>1. broken \in [Buyers -> BOOLEAN]
      OBVIOUS
    <3> HIDE DEF TxInv, Types, Steps
    <3> QED
      BY <2>2, <3>1, BooleanPut, Zenon
  <2>4. pc' \in [Buyers -> Steps] /\ free' \in Nat
        /\ status' \in [Buyers -> {0, 200, 404, 500, 502}]
    BY <2>2
  <2>5. sold' \in [Buyers -> BOOLEAN]
    BY <2>2
  <2>6. EndTransaction(b)
    BY <1>3
  <2> QED
    BY <2>1, <2>3, <2>4, <2>5, <2>6, EndTypes
<1>4. CASE StatementFails(b) /\ pc[b] = "commit" /\ Effect(b)
  <2>1. /\ EndTransaction(b) /\ sold' = [sold EXCEPT ![b] = TRUE]
        /\ pc' = [pc EXCEPT ![b] = "fail"] /\ UNCHANGED <<free, status>>
        /\ broken' = broken \/ broken' = [broken EXCEPT ![b] = TRUE]
    BY <1>4 DEF StatementFails, Effect
  <2>2. Locking' /\ stock' \in [Chairs -> Nat]
    BY <1>4, <2>1, TxEnds
  <2>3. broken' \in [Buyers -> BOOLEAN] /\ sold' \in [Buyers -> BOOLEAN]
    <3>1. broken \in [Buyers -> BOOLEAN] /\ sold \in [Buyers -> BOOLEAN]
      OBVIOUS
    <3> HIDE DEF TxInv, Types, Steps
    <3> QED
      BY <2>1, <3>1, BooleanPut, Zenon
  <2> QED
    BY <2>1, <2>2, <2>3, EndTypes
<1> QED
  BY <1>1, <1>2, <1>3, <1>4 DEF StatementFails

LEMMA TxCrash ==
  ASSUME TxInv, Crash
  PROVE  TxInv'
<1> USE ReferenceAssumption DEF TxInv, Types, Steps
<1>1. Types'
  BY DEF Crash
<1>2. \A b \in Buyers : pc'[b] \notin {"update", "commit"}
  BY DEF Crash, Gone
<1>3. Locking'
  BY <1>2 DEF Crash, Locking
<1> QED
  BY <1>1, <1>3

LEMMA TxNext == TxInv /\ [RefNext]_refVars => TxInv'
<1> SUFFICES ASSUME TxInv, [RefNext]_refVars PROVE TxInv'
  OBVIOUS
<1>1. ASSUME NEW b \in Buyers, RequestStep(b) PROVE TxInv'
  BY <1>1, TxQuiet, TxRefused, TxSelect, TxUpdate, TxOver DEF RequestStep, Handle
<1>2. CASE UNCHANGED refVars
  BY <1>2 DEF refVars, txVars, TxInv, Types, Locking, AtRow
<1> QED
  BY <1>1, <1>2, TxCrash DEF RefNext, RequestStep

LEMMA TxCorrect == RefSpec => []TxInv
BY TxInit, TxNext, PTL DEF RefSpec

-----------------------------------------------------------------------------
(* The pool.                                                               *)

Holders == {b \in Buyers : Holding(b)}

LEMMA HoldersFinite == IsFiniteSet(Holders) /\ Cardinality(Holders) \in Nat
BY ReferenceAssumption, FS_Subset, FS_CardinalityType DEF Holders

LEMMA PoolInit == RefInit => PoolConserved
<1> SUFFICES ASSUME RefInit PROVE PoolConserved
  OBVIOUS
<1>1. {b \in Buyers : Holding(b)} = {}
  BY DEF RefInit, Holding
<1>2. Cardinality({b \in Buyers : Holding(b)}) = 0
  BY <1>1, FS_EmptySet
<1> QED
  BY <1>2, ReferenceAssumption DEF RefInit, PoolConserved

(* A handler that gets a connection, one that gives it back, and the rest. *)
LEMMA PoolStep ==
  ASSUME TxInv, PoolConserved, NEW b \in Buyers,
         RequestStep(b)
  PROVE  PoolConserved'
<1> USE DEF TxInv, Types, Goes
<1>1. IsFiniteSet(Holders) /\ Cardinality(Holders) \in Nat
  BY HoldersFinite
<1>2. CASE GetConnection(b)
  <2>1. Holders' = Holders \cup {b} /\ b \notin Holders /\ free' = free - 1
    BY <1>2 DEF GetConnection, Holders, Holding
  <2>2. Cardinality(Holders') = Cardinality(Holders) + 1
    BY <1>1, <2>1, FS_AddElement
  <2> QED
    BY <1>1, <2>1, <2>2, ReferenceAssumption DEF PoolConserved, Holders
<1>3. CASE RespondOk(b) \/ RollbackMiss(b) \/ Catch(b)
  <2>1. Holders' = Holders \ {b} /\ b \in Holders /\ free' = free + 1
    BY <1>3 DEF RespondOk, RollbackMiss, Catch, Release, Holders, Holding
  <2>2. Cardinality(Holders') = Cardinality(Holders) - 1
    BY <1>1, <2>1, FS_RemoveElement
  <2> QED
    BY <1>1, <2>1, <2>2, ReferenceAssumption DEF PoolConserved, Holders
<1>4. CASE \/ Request(b) \/ BeginTransaction(b) \/ Select(b) \/ Update(b) \/ Commit(b)
           \/ RespondMiss(b) \/ GetConnectionFails(b) \/ StatementFails(b)
  <2>1. Holders' = Holders /\ free' = free
    BY <1>4 DEF Request, GetConnectionFails, BeginTransaction, Select, Update, Commit, RespondMiss, StatementFails,
                InTransaction, Holders, Holding
  <2> QED
    BY <2>1 DEF PoolConserved, Holders
<1> QED
  BY <1>2, <1>3, <1>4 DEF RequestStep, Handle

LEMMA PoolNext == TxInv /\ PoolConserved /\ [RefNext]_refVars => PoolConserved'
<1> SUFFICES ASSUME TxInv, PoolConserved, [RefNext]_refVars PROVE PoolConserved'
  OBVIOUS
<1>1. CASE Crash
  <2>1. {b \in Buyers : Holding(b)}' = {} /\ free' = PoolSize
    BY <1>1 DEF Crash, Holding, Gone, TxInv, Types
  <2> QED
    BY <2>1, FS_EmptySet, ReferenceAssumption DEF PoolConserved
<1>2. CASE UNCHANGED refVars
  BY <1>2 DEF refVars, PoolConserved, Holding
<1> QED
  BY <1>1, <1>2, PoolStep DEF RefNext, RequestStep

(* No path keeps a connection or gives one back twice, for any number of   *)
(* buyers and connections and whatever fails.                              *)
THEOREM PoolIsConserved == RefSpec => []PoolConserved
BY PoolInit, PoolNext, TxCorrect, PTL DEF RefSpec

(* The variables of the reference purchase have their types.               *)
THEOREM RefTypeCorrect == RefSpec => []RefTypeOK
<1>1. TxInv /\ PoolConserved => RefTypeOK
  BY HoldersFinite, ReferenceAssumption DEF TxInv, Types, Steps, PoolConserved, RefTypeOK, Holders
<1> QED
  BY <1>1, TxCorrect, PoolIsConserved, PTL

(* A row is locked by one transaction, which read what the row still has.  *)
THEOREM LocksAreKept == RefSpec => []LocksAreHeld
<1>1. TxInv => LocksAreHeld
  <2> SUFFICES ASSUME TxInv, NEW c \in Chairs
               PROVE  /\ Cardinality(locked[c]) <= 1
                      /\ \A b \in locked[c] : Want[b] = c /\ Holding(b) /\ read[b] = stock[c]
    BY DEF LocksAreHeld
  <2>1. locked[c] = {} \/ \E b \in Buyers : locked[c] = {b}
    BY DEF TxInv, Types, Locking
  <2>2. Cardinality(locked[c]) \in {0, 1}
    BY <2>1, FS_EmptySet, FS_Singleton
  <2> QED
    BY <2>2 DEF TxInv, Types, Locking, AtRow, Holding
<1> QED
  BY <1>1, TxCorrect, PTL
-----------------------------------------------------------------------------
(* What buyers read, sold and were told.                                   *)

LEMMA OneAtATime ==
  ASSUME TxInv, NEW b \in Buyers, RequestStep(b), NEW a \in Buyers \ {b}
  PROVE  pc'[a] = pc[a] /\ read'[a] = read[a] /\ sold'[a] = sold[a] /\ status'[a] = status[a]
<1> USE DEF TxInv, Types, Goes, txVars, EndTransaction, Effect
<1>1. CASE GetConnectionFails(b) \/ StatementFails(b)
  BY <1>1 DEF GetConnectionFails, StatementFails
<1>2. CASE Request(b) \/ GetConnection(b) \/ BeginTransaction(b) \/ Select(b) \/ Update(b)
  BY <1>2 DEF Request, GetConnection, BeginTransaction, Select, Update
<1>3. CASE Commit(b) \/ RespondOk(b) \/ RespondMiss(b) \/ RollbackMiss(b) \/ Catch(b)
  BY <1>3 DEF Commit, RespondOk, RespondMiss, RollbackMiss, Catch
<1> QED
  BY <1>1, <1>2, <1>3 DEF RequestStep, Handle

LEMMA HonestInit == RefInit => Honesty
BY DEF RefInit, Honesty, Honest

LEMMA HonestStep ==
  ASSUME TxInv, Honesty, NEW b \in Buyers, RequestStep(b)
  PROVE  Honesty'
<1> USE DEF TxInv, Types, Goes, txVars
<1>1. Honest(b)
  BY DEF Honesty
<1>2. CASE Request(b) \/ GetConnection(b) \/ BeginTransaction(b) \/ Select(b) \/ Update(b)
  <2>1. Honest(b)'
    BY <1>1, <1>2, ReferenceAssumption
       DEF Request, GetConnection, BeginTransaction, Select, Update, Honest
  <2> QED
    BY <1>2, <2>1, OneAtATime DEF RequestStep, Handle, Honesty, Honest
<1>3. CASE Commit(b) \/ RespondOk(b) \/ RespondMiss(b) \/ RollbackMiss(b) \/ Catch(b)
  <2>1. Honest(b)'
    BY <1>1, <1>3 DEF Commit, RespondOk, RespondMiss, RollbackMiss, Catch, Honest,
                      EndTransaction, Effect, Locking
  <2> QED
    BY <1>3, <2>1, OneAtATime DEF RequestStep, Handle, Honesty, Honest
<1>4. CASE GetConnectionFails(b)
  <2>1. Honest(b)'
    BY <1>1, <1>4 DEF GetConnectionFails, Honest
  <2> QED
    BY <1>4, <2>1, OneAtATime DEF RequestStep, Honesty, Honest
<1>5. CASE StatementFails(b)
  <2>1. pc'[b] = "fail" /\ read'[b] = read[b] /\ status'[b] = status[b]
    BY <1>5 DEF StatementFails, EndTransaction, Effect
  <2>2. read[b] # 0 /\ status[b] = 0
    BY <1>1, <1>5 DEF StatementFails, InTransaction, Honest, Locking
  <2>3. Honest(b)'
    BY <2>1, <2>2 DEF Honest
  <2> QED
    BY <1>5, <2>3, OneAtATime DEF RequestStep, Honesty, Honest
<1> QED
  BY <1>2, <1>3, <1>4, <1>5 DEF RequestStep, Handle

LEMMA HonestNext == TxInv /\ Honesty /\ [RefNext]_refVars => Honesty'
<1> SUFFICES ASSUME TxInv, Honesty, [RefNext]_refVars PROVE Honesty'
  OBVIOUS
<1>1. CASE Crash
  BY <1>1 DEF Crash, Gone, Honesty, Honest, TxInv, Types, Steps
<1>2. CASE UNCHANGED refVars
  BY <1>2 DEF refVars, txVars, Honesty, Honest
<1> QED
  BY <1>1, <1>2, HonestStep DEF RefNext, RequestStep

-----------------------------------------------------------------------------
(* The refinement: each step is one of ChairSale's, or none.               *)

Mapped == <<stock, RefOutcome, RefTold>>

(* A step of one buyer leaves what was decided and told for the others.    *)
LEMMA OneDecision ==
  ASSUME TxInv, NEW b \in Buyers, RequestStep(b)
  PROVE  /\ RefOutcome' = [RefOutcome EXCEPT ![b] = Decision(b)']
         /\ RefTold' = [RefTold EXCEPT ![b] = Message(b)']
         /\ RefOutcome[b] = Decision(b) /\ RefTold[b] = Message(b)
         /\ Decision(b)' = Decision(b) => RefOutcome' = RefOutcome
         /\ Message(b)' = Message(b) => RefTold' = RefTold
<1>1. ASSUME NEW a \in Buyers \ {b}
      PROVE  Decision(a)' = Decision(a) /\ Message(a)' = Message(a)
  <2>1. /\ pc'[a] = pc[a] /\ read'[a] = read[a]
        /\ sold'[a] = sold[a] /\ status'[a] = status[a]
    BY OneAtATime
  <2> QED
    BY <2>1 DEF Decision, Message
<1> QED
  BY <1>1 DEF RefOutcome, RefTold

LEMMA SaleStart == RefInit => Sale!SaleInit
<1> SUFFICES ASSUME RefInit PROVE Sale!SaleInit
  OBVIOUS
<1>1. stock \in [Chairs -> Int]
  BY ReferenceAssumption DEF RefInit
<1>2. \A b \in Buyers : Decision(b) = "open" /\ Message(b) = "nothing"
  BY DEF RefInit, Decision, Message
<1> QED
  BY <1>1, <1>2 DEF Sale!SaleInit, RefOutcome, RefTold

CatchHangs(b) == Catch(b) /\ broken[b]
CatchAnswers(b) == Catch(b) /\ ~broken[b]

(* Steps that decide nothing and tell nobody.                              *)
LEMMA QuietStep ==
  ASSUME TxInv, Honesty, NEW b \in Buyers,
         \/ Request(b) \/ GetConnection(b) \/ BeginTransaction(b) \/ Update(b)
         \/ Select(b) /\ stock[Want[b]] > 0
         \/ RollbackMiss(b) \/ CatchHangs(b)
  PROVE  UNCHANGED Mapped
<1> USE DEF TxInv, Types, Goes, txVars
<1>1. RequestStep(b) /\ Honest(b)
  BY DEF RequestStep, Handle, Honesty, CatchHangs
<1>2. stock' = stock
  BY DEF Request, GetConnection, BeginTransaction, Update, Select, RollbackMiss, Catch, CatchHangs
<1>3. Decision(b)' = Decision(b) /\ Message(b)' = Message(b)
  <2>1. CASE Request(b) \/ GetConnection(b) \/ BeginTransaction(b) \/ Update(b)
    <3>1. sold' = sold /\ status' = status /\ read' = read
      BY <2>1 DEF Request, GetConnection, BeginTransaction, Update
    <3>2. pc[b] \in {"idle", "pool", "begin", "update"}
          /\ pc'[b] \in {"pool", "begin", "select", "commit"}
      BY <2>1 DEF Request, GetConnection, BeginTransaction, Update
    <3> QED
      BY <3>1, <3>2 DEF Decision, Message
  <2>2. CASE Select(b) /\ stock[Want[b]] > 0
    BY <1>1, <2>2, ReferenceAssumption DEF Select, Honest, Decision, Message
  <2>3. CASE RollbackMiss(b) \/ CatchHangs(b)
    <3>1. /\ sold' = sold /\ read' = read
          /\ status'[b] = status[b]
      BY <1>1, <2>3 DEF RollbackMiss, Catch, CatchHangs, EndTransaction, Honest
    <3>2. \/ pc[b] = "rollback" /\ status[b] = 404
          \/ pc[b] = "fail" /\ pc'[b] = "hung"
      BY <1>1, <2>3 DEF RollbackMiss, Catch, CatchHangs, Honest
    <3> QED
      BY <3>1, <3>2 DEF Decision, Message
  <2> QED
    BY <2>1, <2>2, <2>3
<1> QED
  BY <1>1, <1>2, <1>3, OneDecision DEF Mapped

(* The SELECT that finds no stock refuses.                                 *)
LEMMA MissRefuses ==
  ASSUME TxInv, Honesty, NEW b \in Buyers, Select(b), ~(stock[Want[b]] > 0)
  PROVE  Sale!Refuse(b)
<1> USE DEF TxInv, Types, Goes, txVars
<1>1. RequestStep(b) /\ Honest(b) /\ stock' = stock
  BY DEF RequestStep, Handle, Honesty, Select
<1>2. Decision(b) = "open" /\ Decision(b)' = "refused" /\ Message(b)' = Message(b)
  BY <1>1 DEF Select, Honest, Decision, Message
<1>3. stock[Want[b]] <= 0
  BY ReferenceAssumption
<1> QED
  BY <1>1, <1>2, <1>3, OneDecision DEF Sale!Refuse, Sale!Decide

(* The COMMIT that takes effect sells, whether its answer arrives or not.  *)
LEMMA CommitSells ==
  ASSUME TxInv, Honesty, NEW b \in Buyers, pc[b] = "commit", Effect(b),
         RequestStep(b), status' = status
  PROVE  Sale!Sell(b)
<1> USE DEF TxInv, Types
<1>1. stock[Want[b]] > 0 /\ stock' = [stock EXCEPT ![Want[b]] = @ - 1]
  BY EffectTakesOne, ReferenceAssumption DEF Effect
<1>2. Decision(b) = "open" /\ Decision(b)' = "sold" /\ Message(b)' = Message(b)
  BY DEF Honesty, Honest, Effect, EndTransaction, Decision, Message
<1> QED
  BY <1>1, <1>2, OneDecision DEF Sale!Sell, Sale!Decide

(* The handler's answers.                                                  *)
LEMMA AnswersTell ==
  ASSUME TxInv, Honesty, NEW b \in Buyers,
         RespondOk(b) \/ RespondMiss(b) \/ CatchAnswers(b)
  PROVE  Sale!Tell(b)
<1> USE DEF TxInv, Types, Goes, txVars
<1>1. RequestStep(b) /\ Honest(b) /\ stock' = stock /\ sold' = sold /\ read' = read
  BY DEF RequestStep, Handle, Honesty, RespondOk, RespondMiss, CatchAnswers, Catch, EndTransaction
<1>2. Message(b) = "nothing" /\ Decision(b)' = Decision(b)
  BY <1>1 DEF RespondOk, RespondMiss, CatchAnswers, Catch, Honest, Decision, Message
<1>3. \/ Decision(b) = "sold" /\ Message(b)' = "bought"
      \/ Decision(b) = "refused" /\ Message(b)' = "not found"
      \/ Decision(b) \in {"sold", "failed"} /\ Message(b)' = "failure"
  BY <1>1 DEF RespondOk, RespondMiss, CatchAnswers, Catch, Honest, Decision, Message
<1> QED
  <2>1. RefOutcome' = RefOutcome /\ RefTold' = [RefTold EXCEPT ![b] = Message(b)']
    BY <1>1, <1>2, OneDecision
  <2>2. RefOutcome[b] = Decision(b) /\ RefTold[b] = Message(b)
    BY DEF RefOutcome, RefTold
  <2> QED
    BY <1>1, <1>2, <1>3, <2>1, <2>2 DEF Sale!Tell, Sale!Answer

(* A connection that cannot be made, and a statement that fails before the *)
(* COMMIT took effect.                                                     *)
LEMMA FaultFails ==
  ASSUME TxInv, Honesty, NEW b \in Buyers, GetConnectionFails(b) \/ StatementFails(b),
         UNCHANGED <<stock, sold>>
  PROVE  Sale!Fail(b)
<1> USE DEF TxInv, Types
<1>1. RequestStep(b) /\ Honest(b)
  BY DEF RequestStep, Honesty
<1>2. Decision(b) = "open" /\ Decision(b)' = "failed" /\ Message(b)' = Message(b)
  <2>1. CASE GetConnectionFails(b)
    BY <1>1, <2>1 DEF GetConnectionFails, Goes, txVars, Honest, Decision, Message
  <2>2. CASE StatementFails(b)
    BY <1>1, <2>2 DEF StatementFails, InTransaction, EndTransaction, Honest, Decision, Message
  <2> QED
    BY <2>1, <2>2
<1>3. RefTold' = RefTold
  BY <1>1, <1>2, OneDecision
<1> QED
  BY <1>1, <1>2, <1>3, OneDecision DEF Sale!Fail

(* A crash tells everyone who waits that it failed.                        *)
LEMMA CrashAborts ==
  ASSUME TxInv, Honesty, Crash
  PROVE  Sale!Abort({b \in Buyers : Gone(b) /\ status[b] = 0})
<1> DEFINE S == {b \in Buyers : Gone(b) /\ status[b] = 0}
<1> USE DEF TxInv, Types, Steps
<1>1. \A b \in S : Message(b) = "nothing" /\ Message(b)' = "failure"
  BY DEF Crash, Message
<1>2. ASSUME NEW b \in S
      PROVE  Decision(b)' = IF Decision(b) = "open" THEN "failed" ELSE Decision(b)
  <2>1. /\ pc[b] \notin {"idle", "done", "hung"} /\ status[b] = 0
        /\ pc'[b] = "done" /\ status'[b] = 502 /\ sold' = sold /\ read' = read
    BY DEF Crash, Gone
  <2>2. Honest(b)
    BY DEF Honesty
  <2>3. CASE sold[b]
    BY <2>1, <2>3 DEF Decision
  <2>4. CASE ~sold[b] /\ pc[b] \in {"miss", "rollback"}
    BY <2>1, <2>2, <2>4 DEF Decision, Honest
  <2>5. CASE ~sold[b] /\ pc[b] \notin {"miss", "rollback"}
    <3>1. read[b] # 0
      BY <2>1, <2>2, <2>5 DEF Honest, Locking
    <3> QED
      BY <2>1, <2>5, <3>1 DEF Decision
  <2> QED
    BY <2>3, <2>4, <2>5
<1>3. ASSUME NEW b \in Buyers \ S
      PROVE  Message(b)' = Message(b) /\ Decision(b)' = Decision(b)
  <2>1. status'[b] = status[b] /\ sold' = sold /\ read' = read
    BY DEF Crash, Gone
  <2>2. \/ pc'[b] = pc[b]
        \/ pc[b] = "rollback" /\ status[b] = 404
    BY DEF Crash, Gone, Honesty, Honest
  <2> QED
    BY <2>1, <2>2 DEF Decision, Message
<1>4. stock' = stock
  BY DEF Crash
<1>5. \A b \in S : RefTold[b] = "nothing"
  BY <1>1 DEF RefTold
<1>6. RefTold' = [b \in Buyers |-> IF b \in S THEN "failure" ELSE RefTold[b]]
  BY <1>1, <1>3 DEF RefTold
<1>7. RefOutcome' = [b \in Buyers |-> IF b \in S /\ RefOutcome[b] = "open" THEN "failed"
                                      ELSE RefOutcome[b]]
  BY <1>2, <1>3 DEF RefOutcome
<1> QED
  BY <1>4, <1>5, <1>6, <1>7 DEF Sale!Abort

LEMMA SaleStep == TxInv /\ Honesty /\ [RefNext]_refVars => Sale!SaleNext \/ UNCHANGED Mapped
<1> SUFFICES ASSUME TxInv, Honesty, [RefNext]_refVars
             PROVE  Sale!SaleNext \/ UNCHANGED Mapped
  OBVIOUS
<1>1. ASSUME NEW b \in Buyers, Sale!Sell(b) \/ Sale!Refuse(b) \/ Sale!Fail(b) \/ Sale!Tell(b)
      PROVE  Sale!SaleNext
  BY <1>1 DEF Sale!SaleNext
<1>2. ASSUME NEW b \in Buyers, Request(b) \/ Handle(b)
      PROVE  Sale!SaleNext \/ UNCHANGED Mapped
  <2>1. CASE Commit(b)
    <3>1. pc[b] = "commit" /\ Effect(b) /\ RequestStep(b) /\ status' = status
      BY <2>1 DEF Commit, Goes, RequestStep, Handle
    <3> QED
      BY <3>1, <1>1, CommitSells
  <2>2. CASE Select(b)
    BY <1>1, <2>2, QuietStep, MissRefuses
  <2>3. CASE Catch(b)
    BY <1>1, <2>3, QuietStep, AnswersTell DEF CatchHangs, CatchAnswers
  <2>4. CASE RespondOk(b)
    BY <1>1, <2>4, AnswersTell
  <2>5. CASE RespondMiss(b)
    BY <1>1, <2>5, AnswersTell
  <2>6. CASE Request(b)
    BY <2>6, QuietStep
  <2>7. CASE GetConnection(b)
    BY <2>7, QuietStep
  <2>8. CASE BeginTransaction(b)
    BY <2>8, QuietStep
  <2>9. CASE Update(b)
    BY <2>9, QuietStep
  <2>10. CASE RollbackMiss(b)
    BY <2>10, QuietStep
  <2> QED
    BY <1>2, <2>1, <2>2, <2>3, <2>4, <2>5, <2>6, <2>7, <2>8, <2>9, <2>10 DEF Handle
<1>3. ASSUME NEW b \in Buyers, GetConnectionFails(b) \/ StatementFails(b)
      PROVE  Sale!SaleNext
  <2>1. CASE UNCHANGED <<stock, sold>>
    BY <1>1, <1>3, <2>1, FaultFails
  <2>2. CASE ~UNCHANGED <<stock, sold>>
    <3>1. pc[b] = "commit" /\ Effect(b) /\ RequestStep(b) /\ status' = status
      BY <1>3, <2>2 DEF GetConnectionFails, StatementFails, RequestStep
    <3> QED
      BY <3>1, <1>1, CommitSells
  <2> QED
    BY <2>1, <2>2
<1>4. CASE Crash
  BY <1>4, CrashAborts DEF Sale!SaleNext
<1>5. CASE UNCHANGED refVars
  BY <1>5 DEF refVars, txVars, Mapped, RefOutcome, RefTold, Decision, Message
<1> QED
  BY <1>2, <1>3, <1>4, <1>5 DEF RefNext

(* The transactions of concurrent buyers amount to one decision per buyer, *)
(* taken at the COMMIT or at the SELECT that finds nothing, whatever fails *)
(* and wherever the process dies: it is the sale ChairSale promises.       *)
THEOREM ReferenceImplementsSale == RefSpec => TransactionImplementsSale
<1>1. TxInv /\ Honesty /\ [RefNext]_refVars => [Sale!SaleNext]_(Sale!saleVars)
  BY SaleStep DEF Mapped, Sale!saleVars
<1>2. RefInit /\ []TxInv /\ []Honesty /\ [][RefNext]_refVars
        => Sale!SaleInit /\ [][Sale!SaleNext]_(Sale!saleVars)
  BY <1>1, SaleStart, PTL
<1>3. RefSpec => []Honesty
  BY HonestInit, HonestNext, TxCorrect, PTL DEF RefSpec
<1> QED
  BY <1>2, <1>3, TxCorrect, PTL DEF RefSpec, TransactionImplementsSale, Sale!SaleSpec
=============================================================================
