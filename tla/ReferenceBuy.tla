----------------------------- MODULE ReferenceBuy -----------------------------
(***************************************************************************)
(* POST /api/chair/buy/:id as the reference implementations do it, after   *)
(* isuumo/webapp/nodejs/app.js: a MySQL transaction on a connection of a   *)
(* pool that reads the row FOR UPDATE, writes the stock it read minus one, *)
(* and commits.  The others differ in who computes the difference.         *)
(***************************************************************************)
EXTENDS Integers, FiniteSets

CONSTANTS
  Chairs,    \* the ids of the chair table
  Supplied,  \* the stock the table is loaded with
  Buyers,    \* the requests
  Want,      \* the :id of each request
  PoolSize,  \* connectionLimit of the pool
  Faults     \* which of "query", "connection", "crash" may happen

ASSUME ReferenceAssumption ==
  /\ Supplied \in [Chairs -> Nat]
  /\ Want \in [Buyers -> Chairs]
  /\ IsFiniteSet(Buyers)
  /\ PoolSize \in Nat \ {0}
  /\ Faults \subseteq {"query", "connection", "crash"}

VARIABLES
  stock,    \* the committed stock column
  written,  \* the value a transaction has written, -1 if none
  read,     \* the stock its SELECT returned, -1 before
  locked,   \* the buyer whose transaction has the lock of a row, if any
  free,     \* idle connections of the pool
  broken,   \* the buyer's connection is gone, or could not be made
  pc,       \* where each request's handler is
  sold,     \* the COMMIT of the buyer's transaction took effect
  status    \* what the client was told, 0 before

txVars == <<written, read, locked>>
refVars == <<stock, txVars, free, broken, pc, sold, status>>

RefInit ==
  /\ stock = Supplied
  /\ written = [b \in Buyers |-> -1]
  /\ read = [b \in Buyers |-> -1]
  /\ locked = [c \in Chairs |-> {}]
  /\ free = PoolSize
  /\ broken = [b \in Buyers |-> FALSE]
  /\ pc = [b \in Buyers |-> "idle"]
  /\ sold = [b \in Buyers |-> FALSE]
  /\ status = [b \in Buyers |-> 0]

Goes(b, from, to) == pc[b] = from /\ pc' = [pc EXCEPT ![b] = to]

(* MySQL ends the transaction, one way or the other.                       *)
EndTransaction(b) ==
  /\ locked' = [locked EXCEPT ![Want[b]] = @ \ {b}]
  /\ written' = [written EXCEPT ![b] = -1]
  /\ UNCHANGED read

Request(b) ==
  /\ Goes(b, "idle", "pool")
  /\ UNCHANGED <<stock, txVars, free, broken, sold, status>>

GetConnection(b) ==
  /\ free > 0
  /\ Goes(b, "pool", "begin")
  /\ free' = free - 1
  /\ UNCHANGED <<stock, txVars, broken, sold, status>>

(* The pool makes a new connection when it has none to hand out, and its   *)
(* error is thrown before the try: no catch, no finally and no answer.     *)
GetConnectionFails(b) ==
  /\ "connection" \in Faults
  /\ free > 0
  /\ Goes(b, "pool", "hung")
  /\ broken' = [broken EXCEPT ![b] = TRUE]
  /\ UNCHANGED <<stock, txVars, free, sold, status>>

BeginTransaction(b) ==
  /\ Goes(b, "begin", "select")
  /\ UNCHANGED <<stock, txVars, free, broken, sold, status>>

(* Mutant: no FOR UPDATE. *)
SelectUnlocked(b) ==
  /\ read' = [read EXCEPT ![b] = stock[Want[b]]]
  /\ Goes(b, "select", IF stock[Want[b]] > 0 THEN "update" ELSE "miss")
  /\ UNCHANGED <<stock, written, locked, free, broken, sold, status>>
(* The lock is on the row of the primary key, so also on one without stock.*)
Select(b) ==
  /\ locked[Want[b]] = {}
  /\ locked' = [locked EXCEPT ![Want[b]] = {b}]
  /\ read' = [read EXCEPT ![b] = stock[Want[b]]]
  /\ Goes(b, "select", IF stock[Want[b]] > 0 THEN "update" ELSE "miss")
  /\ UNCHANGED <<stock, written, free, broken, sold, status>>

Update(b) ==
  /\ Goes(b, "update", "commit")
  /\ written' = [written EXCEPT ![b] = read[b] - 1]
  /\ UNCHANGED <<stock, read, locked, free, broken, sold, status>>

Effect(b) ==
  /\ stock' = [stock EXCEPT ![Want[b]] = written[b]]
  /\ sold' = [sold EXCEPT ![b] = TRUE]
  /\ EndTransaction(b)
Commit(b) ==
  /\ Goes(b, "commit", "ok")
  /\ Effect(b)
  /\ UNCHANGED <<free, broken, status>>

(* Mutant: nobody gives the connection back. *)
ReleaseForgotten(b) == UNCHANGED free
(* finally: the connection goes back to the pool.                          *)
Release(b) == free' = free + 1

RespondOk(b) ==
  /\ Goes(b, "ok", "done")
  /\ status' = [status EXCEPT ![b] = 200]
  /\ Release(b)
  /\ UNCHANGED <<stock, txVars, broken, sold>>

(* 404 is sent before the rollback; a rollback that throws leads to catch  *)
(* and finally with the same effect.                                       *)
RespondMiss(b) ==
  /\ Goes(b, "miss", "rollback")
  /\ status' = [status EXCEPT ![b] = 404]
  /\ UNCHANGED <<stock, txVars, free, broken, sold>>
RollbackMiss(b) ==
  /\ Goes(b, "rollback", "done")
  /\ EndTransaction(b)
  /\ Release(b)
  /\ UNCHANGED <<stock, broken, sold, status>>

(* A statement fails: a lock wait timeout, a deadlock victim, or the       *)
(* connection is lost, which ends the transaction.  A COMMIT that fails    *)
(* may have taken effect.                                                  *)
InTransaction(b) == pc[b] \in {"begin", "select", "update", "commit"}
StatementFails(b) ==
  /\ InTransaction(b)
  /\ pc' = [pc EXCEPT ![b] = "fail"]
  /\ \/ "query" \in Faults /\ UNCHANGED <<stock, txVars, broken, sold>>
     \/ /\ "connection" \in Faults
        /\ broken' = [broken EXCEPT ![b] = TRUE]
        /\ \/ EndTransaction(b) /\ UNCHANGED <<stock, sold>>
           \/ pc[b] = "commit" /\ Effect(b)
  /\ UNCHANGED <<free, status>>

(* Mutants: catch swallows the error; it forgets the rollback. *)
CatchSwallows(b) ==
  /\ Goes(b, "fail", "hung")
  /\ EndTransaction(b)
  /\ Release(b)
  /\ UNCHANGED <<stock, broken, sold, status>>
CatchNoRollback(b) ==
  /\ Goes(b, "fail", "done")
  /\ status' = [status EXCEPT ![b] = 500]
  /\ Release(b)
  /\ UNCHANGED <<stock, txVars, broken, sold>>
(* catch: roll back and hand the error on.  On a lost connection the       *)
(* rollback throws as well and nobody answers the client.                  *)
Catch(b) ==
  /\ Goes(b, "fail", IF broken[b] THEN "hung" ELSE "done")
  /\ status' = [status EXCEPT ![b] = IF broken[b] THEN 0 ELSE 500]
  /\ EndTransaction(b)
  /\ Release(b)
  /\ UNCHANGED <<stock, broken, sold>>

Handle(b) ==
  \/ GetConnection(b) \/ BeginTransaction(b) \/ Select(b) \/ Update(b) \/ Commit(b)
  \/ RespondOk(b) \/ RespondMiss(b) \/ RollbackMiss(b) \/ Catch(b)

(* The process ends and starts again: its connections close, MySQL rolls   *)
(* their transactions back, the clients are told 502.                      *)
Gone(b) == pc[b] \notin {"idle", "done", "hung"}
Crash ==
  /\ "crash" \in Faults
  /\ pc' = [b \in Buyers |-> IF Gone(b) THEN "done" ELSE pc[b]]
  /\ status' = [b \in Buyers |-> IF Gone(b) /\ status[b] = 0 THEN 502 ELSE status[b]]
  /\ locked' = [c \in Chairs |-> {}]
  /\ written' = [b \in Buyers |-> -1]
  /\ free' = PoolSize
  /\ UNCHANGED <<stock, read, broken, sold>>

RefNext ==
  \/ \E b \in Buyers : Request(b) \/ Handle(b) \/ GetConnectionFails(b) \/ StatementFails(b)
  \/ Crash

RefSpec == RefInit /\ [][RefNext]_refVars
(* Every call MySQL can answer is answered, and the event loop gets to     *)
(* every continuation.                                                     *)
RefFairSpec == RefSpec /\ \A b \in Buyers : WF_refVars(Handle(b))
-----------------------------------------------------------------------------
Holding(b) ==
  pc[b] \in {"begin", "select", "update", "commit", "ok", "miss", "rollback", "fail"}

(* The variables have the types the rest assumes.                          *)
RefTypeOK ==
  /\ stock \in [Chairs -> Nat]
  /\ written \in [Buyers -> Nat \cup {-1}] /\ read \in [Buyers -> Nat \cup {-1}]
  /\ locked \in [Chairs -> SUBSET Buyers]
  /\ free \in 0 .. PoolSize
  /\ broken \in [Buyers -> BOOLEAN] /\ sold \in [Buyers -> BOOLEAN]
  /\ pc \in [Buyers -> {"idle", "pool", "begin", "select", "update", "commit", "ok",
                        "miss", "rollback", "fail", "done", "hung"}]
  /\ status \in [Buyers -> {0, 200, 404, 500, 502}]

(* Every connection is in the pool or with one handler: no path, however   *)
(* it failed, keeps one or gives one back twice.                           *)
PoolConserved == free + Cardinality({b \in Buyers : Holding(b)}) = PoolSize

(* A row is locked by one transaction, of a handler still at work, and     *)
(* what that transaction read of the row is still what the row has.        *)
LocksAreHeld ==
  \A c \in Chairs :
    /\ Cardinality(locked[c]) <= 1
    /\ \A b \in locked[c] : Want[b] = c /\ Holding(b) /\ read[b] = stock[c]

(* Every buyer gets a connection and an answer, unless its own connection  *)
(* is lost or cannot be made (nobody answers it then): no failing          *)
(* statement, refused connection or lost one of others starves it.         *)
EveryBuyerAnswered ==
  \A b \in Buyers : pc[b] = "pool" ~> (status[b] # 0 \/ broken[b])

-----------------------------------------------------------------------------
(* The transaction implements the promise of ChairSale: its COMMIT is the  *)
(* moment of the sale.                                                     *)
Decision(b) ==
  IF sold[b] THEN "sold"
  ELSE IF pc[b] \in {"miss", "rollback"} \/ status[b] = 404
         \/ (status[b] = 502 /\ read[b] = 0) THEN "refused"
  ELSE IF status[b] # 0 \/ pc[b] \in {"fail", "hung"} THEN "failed"
  ELSE "open"
Message(b) ==
  CASE status[b] = 0 -> "nothing"
    [] status[b] = 200 -> "bought"
    [] status[b] = 404 -> "not found"
    [] OTHER -> "failure"
RefOutcome == [b \in Buyers |-> Decision(b)]
RefTold == [b \in Buyers |-> Message(b)]

Sale == INSTANCE ChairSale WITH outcome <- RefOutcome, told <- RefTold

(* The transactions of concurrent buyers amount to one atomic decision per *)
(* buyer: none sells a unit that is gone, none undoes another's sale.      *)
TransactionImplementsSale == Sale!SaleSpec
=============================================================================
