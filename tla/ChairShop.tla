------------------------------ MODULE ChairShop ------------------------------
(***************************************************************************)
(* The Go application (isuumo/webapp/go/main.go) as the writer of the two  *)
(* stores that describe a chair's availability: the chair table of chairDB *)
(* (Postgres) and the Redis set sold_out_chair.  A request is used once:   *)
(* it arrives, makes the database and Redis calls of its handler one step  *)
(* at a time, interleaved with every other request, and is answered.       *)
(***************************************************************************)
EXTENDS Integers, Sequences, FiniteSets

CONSTANTS
  Chairs,         \* chair ids
  Buyers,         \* POST /api/chair/buy/:id requests
  Posters,        \* POST /api/chair requests
  Initializers,   \* POST /initialize requests
  Want,           \* the :id of each buy request
  Batch,          \* the CSV of each post request: a sequence of records
  InitFile,       \* 2_DummyChairData.sql: a sequence of INSERTs, each a
                  \* function from the ids it inserts to their stock
  ResetsChairDB,  \* DB_HOSTNAME names the host chairDB is on
  Faults          \* which of "db", "redis", "crash" may happen

Requests == Buyers \cup Posters \cup Initializers
CsvRecord == [id : Chairs, stock : Int, parses : BOOLEAN]

ASSUME BuyersFinite == IsFiniteSet(Buyers)
ASSUME WantAssumption == Want \in [Buyers -> Chairs]
ASSUME BatchAssumption == Batch \in [Posters -> Seq(CsvRecord)]
ASSUME InitFileAssumption ==
  /\ Len(InitFile) \in Nat /\ DOMAIN InitFile = 1 .. Len(InitFile)
  /\ \A k \in DOMAIN InitFile :
       /\ DOMAIN InitFile[k] \subseteq Chairs
       /\ InitFile[k] \in [DOMAIN InitFile[k] -> Int]
  /\ \A j, k \in DOMAIN InitFile :
       j # k => DOMAIN InitFile[j] \cap DOMAIN InitFile[k] = {}
ASSUME DisjointAssumption ==
  /\ Buyers \cap Posters = {}
  /\ Buyers \cap Initializers = {}
  /\ Posters \cap Initializers = {}
ASSUME FaultsAssumption ==
  Faults \subseteq {"db", "redis", "crash"} /\ ResetsChairDB \in BOOLEAN

VARIABLES
  rows,     \* ids present in the chair table
  stock,    \* the stock column, 0 for an id without a row
  soldOut,  \* members of the Redis set sold_out_chair
  redisUp,  \* Redis answers
  forgot,   \* history: the members Redis lost with a restart
  appUp,    \* the Go process serves requests
  pc,       \* where each request's handler is
  status,   \* the status its handler decided on, 0 before that
  seen,     \* buyChair's local "stock" (RETURNING stock), -1 before the Scan
  fileAt,   \* the next statement of InitFile an initialize will run
  supply,   \* history: the stock each row was inserted with
  epoch,    \* history: 1 + the number of times the table was truncated
  tookIn,   \* history: the epoch a buyer's UPDATE took a unit in, 0 if none
  endedBefore, \* history: the requests over when an initialize arrived
  missed    \* history: the statements psql went on without, 0 the TRUNCATE
            \* and k the k-th INSERT of the data file

tableVars == <<rows, stock, supply, epoch>>
serverVars == <<redisUp, forgot, appUp>>
localVars == <<seen, fileAt, tookIn, endedBefore, missed>>
vars == <<tableVars, soldOut, serverVars, pc, status, localVars>>

-----------------------------------------------------------------------------
(* The state after init.sh loaded the data and prepare.sh flushed Redis.   *)

InFile(c) == \E k \in DOMAIN InitFile : c \in DOMAIN InitFile[k]
FileStock(c) ==
  IF InFile(c)
    THEN InitFile[CHOOSE k \in DOMAIN InitFile : c \in DOMAIN InitFile[k]][c]
    ELSE 0

Init ==
  /\ rows = {c \in Chairs : InFile(c)}
  /\ stock = [c \in Chairs |-> FileStock(c)]
  /\ supply = stock
  /\ epoch = 1
  /\ soldOut = {}
  /\ redisUp = TRUE
  /\ forgot = {}
  /\ appUp = TRUE
  /\ pc = [r \in Requests |-> "idle"]
  /\ status = [r \in Requests |-> 0]
  /\ seen = [b \in Buyers |-> -1]
  /\ fileAt = [i \in Initializers |-> 1]
  /\ tookIn = [b \in Buyers |-> 0]
  /\ endedBefore = [i \in Initializers |-> {}]
  /\ missed = [i \in Initializers |-> {}]

Ended(r) == pc[r] \in {"done", "lost"}
InFlight(r) == pc[r] # "idle" /\ ~Ended(r)
Advance(r, from, to) == pc[r] = from /\ pc' = [pc EXCEPT ![r] = to]
Return(r, from, s) ==
  Advance(r, from, "reply") /\ status' = [status EXCEPT ![r] = s]

(* A request reaches the listening server, or the proxy finds nobody there *)
(* and answers 502 itself.                                                 *)
Arrive(r, first) == appUp /\ Advance(r, "idle", first)
Refused(r) ==
  /\ ~appUp
  /\ Advance(r, "idle", "lost")
  /\ UNCHANGED <<tableVars, soldOut, serverVars, status, localVars>>

(* The status line reaches the client.                                     *)
Reply(r) ==
  /\ Advance(r, "reply", "done")
  /\ UNCHANGED <<tableVars, soldOut, serverVars, status, localVars>>

-----------------------------------------------------------------------------
(* buyChair.                                                               *)

(* Mutant: no "AND stock > 0" in the UPDATE. *)
InStockAnyRow(c) == c \in rows
InStock(c) == c \in rows /\ stock[c] > 0

BuyArrive(b) ==
  /\ Arrive(b, "update")
  /\ UNCHANGED <<tableVars, soldOut, serverVars, status, localVars>>

(* The body does not bind (500), has no email, or :id is no number (400).  *)
BuyReject(b) ==
  /\ appUp
  /\ \E s \in {400, 500} : Return(b, "idle", s)
  /\ UNCHANGED <<tableVars, soldOut, serverVars, localVars>>

(* Mutant: GREATEST(stock - 1, 0) instead of the stock > 0 condition. *)
TakeUnitClamped(b) ==
  /\ Want[b] \in rows
  /\ stock' = [stock EXCEPT ![Want[b]] = IF @ > 0 THEN @ - 1 ELSE 0]
  /\ tookIn' = [tookIn EXCEPT ![b] = epoch]
  /\ UNCHANGED <<rows, supply, epoch>>
(* UPDATE chair SET stock = stock - 1 WHERE id = ? AND stock > 0: one      *)
(* statement, which the row lock makes atomic.                             *)
TakeUnit(b) ==
  /\ InStock(Want[b])
  /\ stock' = [stock EXCEPT ![Want[b]] = @ - 1]
  /\ tookIn' = [tookIn EXCEPT ![b] = epoch]
  /\ UNCHANGED <<rows, supply, epoch>>

(* ... RETURNING stock: the buyer who reads 0 goes on to SADD.             *)
BuyUpdate(b) ==
  /\ TakeUnit(b)
  /\ seen' = [seen EXCEPT ![b] = stock'[Want[b]]]
  /\ IF seen'[b] = 0
       THEN Advance(b, "update", "sadd") /\ UNCHANGED status
       ELSE Return(b, "update", 200)
  /\ UNCHANGED <<soldOut, serverVars, fileAt, endedBefore, missed>>

BuyMiss(b) ==
  /\ ~InStock(Want[b])
  /\ Return(b, "update", 404)
  /\ UNCHANGED <<tableVars, soldOut, serverVars, localVars>>

(* Mutant: every error of the Scan is taken for sql.ErrNoRows. *)
BuyUpdateFailsAsMiss(b) ==
  /\ "db" \in Faults
  /\ Return(b, "update", 404)
  /\ TakeUnit(b) \/ UNCHANGED <<tableVars, tookIn>>
  /\ UNCHANGED <<soldOut, serverVars, seen, fileAt, endedBefore, missed>>
(* The query or the Scan fails; the database may have run the statement.   *)
BuyUpdateFails(b) ==
  /\ "db" \in Faults
  /\ Return(b, "update", 500)
  /\ \/ TakeUnit(b)
     \/ UNCHANGED <<tableVars, tookIn>>
  /\ UNCHANGED <<soldOut, serverVars, seen, fileAt, endedBefore, missed>>

(* Mutant: the list is given the stock that was read instead of the id. *)
BuySAddWrongMember(b) ==
  /\ redisUp
  /\ Return(b, "sadd", 200)
  /\ soldOut' = soldOut \cup {seen[b]}
  /\ UNCHANGED <<tableVars, serverVars, localVars>>
BuySAdd(b) ==
  /\ redisUp
  /\ Return(b, "sadd", 200)
  /\ soldOut' = soldOut \cup {Want[b]}
  /\ UNCHANGED <<tableVars, serverVars, localVars>>

(* Mutants: the error is logged and 200 returned; the call never gives up. *)
BuySAddFailsLogged(b) ==
  /\ "redis" \in Faults
  /\ Return(b, "sadd", 200)
  /\ soldOut' = IF redisUp THEN soldOut \cup {Want[b]} ELSE soldOut
  /\ UNCHANGED <<tableVars, serverVars, localVars>>
BuySAddFailsNever(b) == FALSE
(* 507: Redis is down, or it applied the SADD and the answer was lost.     *)
BuySAddFails(b) ==
  /\ "redis" \in Faults
  /\ Return(b, "sadd", 507)
  /\ soldOut' = IF redisUp THEN soldOut \cup {Want[b]} ELSE soldOut
  /\ UNCHANGED <<tableVars, serverVars, localVars>>

BuyStep(b) ==
  BuyUpdate(b) \/ BuyMiss(b) \/ BuyUpdateFails(b) \/ BuySAdd(b) \/ BuySAddFails(b)

-----------------------------------------------------------------------------
(* postChair: every record is parsed before the one INSERT, so a batch is  *)
(* inserted whole or not at all.                                           *)

InsertRows(f) ==
  /\ rows' = rows \cup DOMAIN f
  /\ stock' = [c \in Chairs |-> IF c \in DOMAIN f THEN f[c] ELSE stock[c]]
  /\ supply' = [c \in Chairs |-> IF c \in DOMAIN f THEN f[c] ELSE supply[c]]
  /\ UNCHANGED epoch

BatchIds(p) == {Batch[p][k].id : k \in DOMAIN Batch[p]}
BatchStock(p) ==
  [c \in BatchIds(p) |->
     Batch[p][CHOOSE k \in DOMAIN Batch[p] : Batch[p][k].id = c].stock]
Parses(p) == \A k \in DOMAIN Batch[p] : Batch[p][k].parses

(* What BulkInsert and the primary key accept: a batch that is not empty   *)
(* and names no id twice, nor one the table has.                           *)
Insertable(p) ==
  /\ Batch[p] # <<>>
  /\ \A j, k \in DOMAIN Batch[p] : Batch[p][j].id = Batch[p][k].id => j = k
  /\ BatchIds(p) \cap rows = {}

PostArrive(p) ==
  /\ Parses(p)
  /\ Arrive(p, "insert")
  /\ UNCHANGED <<tableVars, soldOut, serverVars, status, localVars>>

(* No form file or a record RecordMapper rejects (400), or no CSV (500).   *)
PostReject(p) ==
  /\ appUp
  /\ \/ ~Parses(p) /\ Return(p, "idle", 400)
     \/ Parses(p) /\ \E s \in {400, 500} : Return(p, "idle", s)
  /\ UNCHANGED <<tableVars, soldOut, serverVars, localVars>>

(* Mutant: one INSERT per record, up to the first that fails. *)
Fitting(p) == {k \in DOMAIN Batch[p] : \A j \in 1 .. k : Batch[p][j].id \notin rows}
PostInsertSingly(p) ==
  /\ InsertRows([c \in {Batch[p][k].id : k \in Fitting(p)} |-> BatchStock(p)[c]])
  /\ Return(p, "insert", IF Fitting(p) = DOMAIN Batch[p] THEN 201 ELSE 500)
  /\ UNCHANGED <<soldOut, serverVars, localVars>>
PostInsert(p) ==
  /\ IF Insertable(p)
       THEN InsertRows(BatchStock(p)) /\ Return(p, "insert", 201)
       ELSE UNCHANGED tableVars /\ Return(p, "insert", 500)
  /\ UNCHANGED <<soldOut, serverVars, localVars>>

PostInsertFails(p) ==
  /\ "db" \in Faults
  /\ Return(p, "insert", 500)
  /\ \/ Insertable(p) /\ InsertRows(BatchStock(p))
     \/ UNCHANGED tableVars
  /\ UNCHANGED <<soldOut, serverVars, localVars>>

PostStep(p) == PostInsert(p) \/ PostInsertFails(p)

-----------------------------------------------------------------------------
(* initialize: psql runs the schema, the estates and the chairs on the one *)
(* host DB_HOSTNAME names, then Redis is flushed.                          *)

InitArrive(i) ==
  /\ Arrive(i, "schema")
  /\ endedBefore' = [endedBefore EXCEPT ![i] = {r \in Requests : Ended(r)}]
  /\ UNCHANGED <<tableVars, soldOut, serverVars, status, seen, fileAt, tookIn, missed>>

(* Mutant: the schema file does not empty the chair table. *)
TruncateEstatesOnly == UNCHANGED tableVars
Truncate ==
  IF ResetsChairDB
    THEN /\ rows' = {}
         /\ stock' = [c \in Chairs |-> 0]
         /\ supply' = [c \in Chairs |-> 0]
         /\ epoch' = epoch + 1
    ELSE UNCHANGED tableVars

(* psql runs without ON_ERROR_STOP: a statement that fails (a timeout, a   *)
(* deadlock, a full disk) is reported, the ones after it are run, and psql *)
(* exits with 0.                                                           *)
GoesOnWithout(i, k) ==
  /\ "db" \in Faults
  /\ missed' = [missed EXCEPT ![i] = @ \cup {k}]
  /\ UNCHANGED tableVars

InitSchema(i) ==
  /\ Advance(i, "schema", "estates")
  /\ \/ Truncate /\ UNCHANGED missed
     \/ GoesOnWithout(i, 0)
  /\ UNCHANGED <<soldOut, serverVars, status, seen, fileAt, tookIn, endedBefore>>

InitEstates(i) ==
  /\ Advance(i, "estates", "chairs")
  /\ UNCHANGED <<tableVars, soldOut, serverVars, status, localVars>>

(* An INSERT that meets a duplicate id inserts nothing.                    *)
RunInsert(f) ==
  IF ResetsChairDB /\ DOMAIN f \cap rows = {}
    THEN InsertRows(f)
    ELSE UNCHANGED tableVars

InitChairs(i) ==
  /\ pc[i] = "chairs"
  /\ fileAt[i] <= Len(InitFile)
  /\ \/ RunInsert(InitFile[fileAt[i]]) /\ UNCHANGED missed
     \/ GoesOnWithout(i, fileAt[i])
  /\ fileAt' = [fileAt EXCEPT ![i] = @ + 1]
  /\ UNCHANGED <<soldOut, serverVars, pc, status, seen, tookIn, endedBefore>>

InitChairsDone(i) ==
  /\ fileAt[i] > Len(InitFile)
  /\ Advance(i, "chairs", "flush")
  /\ UNCHANGED <<tableVars, soldOut, serverVars, status, localVars>>

(* psql loses its connection: the statements it ran stay.                  *)
InitPsqlFails(i) ==
  /\ "db" \in Faults
  /\ \E stage \in {"schema", "estates", "chairs"} : Return(i, stage, 500)
  /\ UNCHANGED <<soldOut, serverVars, localVars>>
  /\ IF pc[i] = "schema" THEN Truncate \/ UNCHANGED tableVars ELSE UNCHANGED tableVars

(* Mutant: the list is not flushed. *)
InitFlushSkipped(i) ==
  /\ redisUp
  /\ Return(i, "flush", 200)
  /\ UNCHANGED <<tableVars, soldOut, serverVars, localVars>>
InitFlush(i) ==
  /\ redisUp
  /\ Return(i, "flush", 200)
  /\ soldOut' = {}
  /\ UNCHANGED <<tableVars, serverVars, localVars>>

(* The process ends: the proxy answers 502 to every request in flight.     *)
Halt ==
  /\ appUp' = FALSE
  /\ pc' = [r \in Requests |-> IF InFlight(r) THEN "lost" ELSE pc[r]]
  /\ UNCHANGED <<tableVars, redisUp, forgot, status, localVars>>

(* FLUSHALL fails: os.Exit(1).                                             *)
InitFlushFails(i) ==
  /\ "redis" \in Faults
  /\ pc[i] = "flush"
  /\ soldOut' = IF redisUp THEN {} ELSE soldOut
  /\ Halt

InitStep(i) ==
  \/ InitSchema(i) \/ InitEstates(i) \/ InitChairs(i) \/ InitChairsDone(i)
  \/ InitPsqlFails(i) \/ InitFlush(i) \/ InitFlushFails(i)

-----------------------------------------------------------------------------
Crash ==
  /\ "crash" \in Faults
  /\ appUp
  /\ Halt
  /\ UNCHANGED soldOut

(* systemd starts the process again; main() waits for the databases and    *)
(* exits again unless Redis answers its Ping.                              *)
Restart ==
  /\ ~appUp
  /\ redisUp
  /\ appUp' = TRUE
  /\ UNCHANGED <<tableVars, soldOut, redisUp, forgot, pc, status, localVars>>

(* Redis stops answering, and answers again with the members it kept: all  *)
(* of them if only the connection was gone, and after a restart what its   *)
(* last snapshot has, which can be none.                                   *)
RedisTurns ==
  /\ "redis" \in Faults
  /\ redisUp' = ~redisUp
  /\ soldOut' \in IF redisUp THEN {soldOut} ELSE SUBSET soldOut
  /\ forgot' = forgot \cup (soldOut \ soldOut')
  /\ UNCHANGED <<tableVars, appUp, pc, status, localVars>>

Progress(r) ==
  \/ r \in Buyers /\ BuyStep(r)
  \/ r \in Posters /\ PostStep(r)
  \/ r \in Initializers /\ InitStep(r)
  \/ Reply(r)

Next ==
  \/ \E b \in Buyers : BuyArrive(b) \/ BuyReject(b)
  \/ \E p \in Posters : PostArrive(p) \/ PostReject(p)
  \/ \E i \in Initializers : InitArrive(i)
  \/ \E r \in Requests : Refused(r) \/ Progress(r)
  \/ Crash \/ Restart \/ RedisTurns

Fairness ==
  /\ \A r \in Requests : WF_vars(Progress(r))
  /\ WF_vars(Restart)

Spec == Init /\ [][Next]_vars
FairSpec == Spec /\ Fairness

-----------------------------------------------------------------------------
(* Properties.                                                             *)

Statuses == {0, 200, 201, 400, 404, 500, 507}

(* The variables have the types the rest of this section assumes.          *)
ShopTypeOK ==
  /\ rows \subseteq Chairs
  /\ stock \in [Chairs -> Int] /\ supply \in [Chairs -> Int]
  /\ epoch \in Nat \ {0}
  /\ soldOut \subseteq Chairs
  /\ redisUp \in BOOLEAN /\ appUp \in BOOLEAN
  /\ forgot \subseteq Chairs
  /\ pc \in [Requests -> {"idle", "update", "sadd", "insert", "schema", "estates",
                          "chairs", "flush", "reply", "done", "lost"}]
  /\ status \in [Requests -> Statuses]
  /\ seen \in [Buyers -> Nat \cup {-1}]
  /\ fileAt \in [Initializers -> Nat \ {0}]
  /\ tookIn \in [Buyers -> Nat]
  /\ endedBefore \in [Initializers -> SUBSET Requests]
  /\ missed \in [Initializers -> SUBSET Nat]

(* The buyers who took a unit of the row that chair c has now.             *)
Takers(c) == {b \in Buyers : Want[b] = c /\ tookIn[b] = epoch}

(* No unit is sold twice and none vanishes: what a row was inserted with   *)
(* is what it still has plus one unit for every buyer whose UPDATE took    *)
(* one, the buyers who were never told included, and a row that has been   *)
(* sold from is never below zero.                                          *)
UnitsConserved ==
  \A c \in rows :
    /\ stock[c] + Cardinality(Takers(c)) = supply[c]
    /\ Takers(c) # {} => stock[c] >= 0

(* RETURNING stock tells the buyers of one row different numbers: at most  *)
(* one of them reads 0 and is responsible for the sold-out list.           *)
RemainderSeenOnce ==
  \A a, b \in Buyers :
    (a # b /\ Want[a] = Want[b] /\ tookIn[a] = tookIn[b] /\ seen[a] >= 0)
      => seen[a] # seen[b]

(* A chair on sale is on the sold-out list only because of a straggler: a  *)
(* buyer of the last unit of an earlier load of the table, still at work   *)
(* when each initialize answered 200 since then arrived.                   *)
ListedInStockOnlyByStraggler ==
  \A c \in soldOut : InStock(c) =>
    \E b \in Buyers :
      /\ Want[b] = c /\ seen[b] = 0 /\ tookIn[b] < epoch
      /\ \A i \in Initializers : status[i] = 200 => b \notin endedBefore[i]

(* The list is truthful: a listed chair cannot be bought.                  *)
ListedIsSoldOut == \A c \in soldOut : ~InStock(c)

(* The list is truthful whenever nothing is in progress: what a request    *)
(* of the past added to it is gone with the table it was true of.          *)
ListTruthfulAtRest == (\A r \in Requests : ~InFlight(r)) => ListedIsSoldOut

(* The buyer of the last unit is still at work, or got an answer other     *)
(* than 200, or got none.                                                  *)
ListingPending(b) == pc[b] # "done" \/ status[b] # 200

(* A chair whose last unit was sold is on the list, unless a buyer of it   *)
(* is not (or was not properly) answered, or an initialize has begun and   *)
(* its FLUSHALL may have come after the sale, or Redis lost the member     *)
(* with a restart.                                                         *)
SoldOutIsListed ==
  \A c \in rows :
    (stock[c] = 0 /\ Takers(c) # {} /\ \A i \in Initializers : pc[i] = "idle")
      => c \in soldOut \cup forgot \/ \E b \in Takers(c) : ListingPending(b)

(* The table never shows a part of a post: when its INSERT is over, either *)
(* every record of the CSV is in, with its stock and none of the ids taken *)
(* before, or the table is what it was; a 201 is for the former.           *)
PostIsWhole ==
  [][\A p \in Posters : pc[p] = "insert" /\ pc'[p] # "insert" =>
       \/ /\ status'[p] # 201
          /\ UNCHANGED <<rows, stock>>
       \/ /\ BatchIds(p) \cap rows = {}
          /\ rows' = rows \cup BatchIds(p)
          /\ \A c \in BatchIds(p) : \E k \in DOMAIN Batch[p] :
               Batch[p][k] = [id |-> c, stock |-> stock'[c], parses |-> TRUE]]_vars

(* What can keep the k-th INSERT of the data file from the table that      *)
(* initialize i leaves: psql went on without a statement of it, in i or in *)
(* an initialize at work meanwhile; one of those emptied the table again   *)
(* and did not get to the end of the file; or a post of meanwhile has one  *)
(* of its ids.                                                             *)
Overlapped(i, r) == r # i /\ pc[r] # "idle" /\ r \notin endedBefore[i]
WentWithout(j, k) == {0, k} \cap missed[j] # {}
CutShort(j) == fileAt[j] <= Len(InitFile)
Disturbed(i, k) ==
  \/ WentWithout(i, k)
  \/ \E j \in Initializers : Overlapped(i, j) /\ (WentWithout(j, k) \/ CutShort(j))
  \/ \E p \in Posters :
       Overlapped(i, p) /\ BatchIds(p) \cap DOMAIN InitFile[k] # {}

(* Chair c has the stock the file gives it, less the units of the buyers   *)
(* at work while the initialize was.                                       *)
Restored(i, c, n) ==
  /\ c \in rows
  /\ stock[c] + Cardinality({b \in Takers(c) : Overlapped(i, b)}) = n

(* An initialize that is answered 200 leaves an empty list, and every      *)
(* chair of the data file with the stock of the file, the chairs sold out  *)
(* before it included, whatever ran at the same time; the exceptions are   *)
(* the ones psql and the handler do not notice.                            *)
InitializeRestoresStock ==
  [][\A i \in Initializers : status'[i] = 200 /\ status[i] = 0 =>
       /\ soldOut' = {}
       /\ \A k \in DOMAIN InitFile : \/ Disturbed(i, k)
                                    \/ \A c \in DOMAIN InitFile[k] :
                                         Restored(i, c, InitFile[k][c])]_vars

(* Every request that reached the server is answered, by the handler or,   *)
(* when the process ends, by the proxy.                                    *)
EveryRequestAnswered ==
  \A r \in Requests : InFlight(r) ~> Ended(r)

-----------------------------------------------------------------------------
(* The application implements the promise of ChairSale.                    *)

OnSale == [c \in Chairs |-> IF c \in rows THEN stock[c] ELSE 0]

Decision(took, s, at) ==
  IF took > 0 THEN "sold"
  ELSE IF s = 404 THEN "refused"
  ELSE IF s # 0 \/ at = "lost" THEN "failed"
  ELSE "open"
OutcomeOf(b) == Decision(tookIn[b], status[b], pc[b])
SaleOutcome == [b \in Buyers |-> OutcomeOf(b)]

Message(s, at) ==
  IF at = "lost" THEN "failure"
  ELSE IF at # "done" THEN "nothing"
  ELSE IF s = 200 THEN "bought"
  ELSE IF s = 404 THEN "not found"
  ELSE "failure"
ToldTo(b) == Message(status[b], pc[b])
SaleTold == [b \in Buyers |-> ToldTo(b)]

Sale == INSTANCE ChairSale
          WITH stock <- OnSale, outcome <- SaleOutcome, told <- SaleTold

(* Every buy is decided once and atomically, and told as it was decided:   *)
(* 200 only for a unit taken, 404 only when none was left.                 *)
ImplementsSale == Sale!SaleSpec
=============================================================================
