----------------------------- MODULE EstateShop -----------------------------
(***************************************************************************)
(* The estate table of the Go application: postEstate and initialize write *)
(* it, and a visitor reads it through the detail, the document request,    *)
(* the low-priced list, the search and the drawn polygon (nazotte).  The   *)
(* search is two statements, and its OFFSET a product of two machine       *)
(* integers.                                                               *)
(***************************************************************************)
EXTENDS EstateOrder, Ranges, Polygon

CONSTANTS
  Lots,          \* the rows the estate table may have
  FileInserts,   \* the data file of initialize: the rows of each of its INSERTs
  EstatePosters, \* the requests of POST /api/estate
  EstateBatch,   \* the CSV of each: a sequence of [lot, cells]
  Questions,     \* the requests the visitor may make
  ListLimit,     \* Limit of main.go, 20
  NazotteLimit,  \* NazotteLimit of main.go, 50
  PartOf,        \* <<f, g>> when the name of feature f is a part of g's
  MaxInt         \* the largest int, 2^63 - 1

Lot == [id : Int, popularity : Int, rent : Int, width : Int, height : Int,
        lat : Int, lng : Int, features : SUBSET STRING]
MachineInt == -(MaxInt + 1) .. MaxInt
Question ==
  [kind : {"detail"}, id : Int] \cup [kind : {"low"}]
  \cup [kind : {"garbled"}, status : {400, 500}]
  \cup [kind : {"nazotte"}, ring : Seq(Int \X Int)]
  \cup [kind : {"search"}, height : SUBSET Int, width : SUBSET Int, rent : SUBSET Int,
        features : SUBSET STRING, page : MachineInt, perPage : MachineInt]

ASSUME LotsAssumption ==
  /\ IsFiniteSet(Lots) /\ Lots \subseteq Lot
  /\ \A e \in Lots : \A f \in e.features : <<f, f>> \in PartOf
ASSUME FileAssumption ==
  /\ FileInserts \in Seq(SUBSET Lots)
  /\ \A e, f \in UNION Range(FileInserts) : e.id = f.id => e = f
ASSUME BatchAssumption ==
  EstateBatch \in [EstatePosters -> Seq([lot : Lots, cells : Seq({"int", "float", "text"})])]
ASSUME QuestionsAssumption == Questions \subseteq Question
ASSUME LimitsAssumption == ListLimit \in Nat /\ NazotteLimit \in Nat /\ MaxInt \in Nat

VARIABLES
  lots,     \* the estate table
  ppc,      \* where each post is
  pstatus,  \* the status it answered with, 0 before that
  ipc,      \* initialize: how many INSERTs of the data file are still to come
  vpc,      \* the visitor: "idle", "ask" (before its statement) or "select"
  question, \* what it asked last
  total,    \* res.Count of a search
  reply,    \* the last answer: status, rows and the count of a list
  known,    \* history: estates of posts answered 201 since the last truncate
  moved     \* history: the table changed between the visitor's COUNT and SELECT

visitorVars == <<vpc, question, total, reply>>
estateVars == <<lots, ppc, pstatus, ipc, visitorVars, known, moved>>

-----------------------------------------------------------------------------
(* int: a product too large keeps its low bits, as two's complement.       *)
WrapInt(x) == ((x + MaxInt + 1) % (2 * MaxInt + 2)) - MaxInt - 1
(* Mutant: pages counted from 1. *)
OffsetFromOne(page, perPage) == WrapInt((page - 1) * perPage)
Offset(page, perPage) == WrapInt(page * perPage)

(* LIMIT and OFFSET of Postgres, which refuses negative ones.              *)
PageRows(S, limit, offset) ==
  {e \in S : Cardinality(Ahead(S, e)) \in offset .. offset + limit - 1}

(* The conditions of searchEstates over the generated columns.             *)
EstateFits(e, q) ==
  /\ \A i \in q.height : SizeRange(e.height) = i
  /\ \A i \in q.width : SizeRange(e.width) = i
  /\ \A i \in q.rent : RentRange(e.rent) = i
  /\ q.features \subseteq e.features
HasCriterion(q) == \E f \in {"height", "width", "rent", "features"} : q[f] # {}
Found(S, q) == {e \in S : EstateFits(e, q)}

(* ORDER BY rent ASC, id ASC LIMIT.                                        *)
Cheaper(e, f) == e.rent < f.rent \/ (e.rent = f.rent /\ e.id < f.id)
(* Mutant: no LIMIT. *)
CheapestAll(S, n) == S
Cheapest(S, n) == {e \in S : Cardinality({f \in S : Cheaper(f, e)}) < n}

(* searchEstateNazotte: the rows in the bounding box, then those in the    *)
(* ring, then the first NazotteLimit of them.                              *)
PointOf(e) == <<e.lat, e.lng>>
(* Mutant: the query of the box has the limit. *)
NazotteCutFirst(S, ring) ==
  LET boxed == Top({e \in S : InBox(BoundingBox(ring), PointOf(e))}, NazotteLimit)
  IN  {e \in boxed : RingContains(ring, PointOf(e))}
Nazotte(S, ring) ==
  LET boxed == {e \in S : InBox(BoundingBox(ring), PointOf(e))}
  IN  Top({e \in boxed : RingContains(ring, PointOf(e))}, NazotteLimit)

-----------------------------------------------------------------------------
(* RecordMapper reads a record column by column: the first missing cell or *)
(* the first that does not parse is its error, further cells are ignored.  *)
LotColumns ==
  <<"int", "text", "text", "text", "text", "float", "float", "int", "int", "int", "text", "int">>
ParsesAs(cell, column) ==
  column = "text" \/ cell = "int" \/ (column = "float" /\ cell = "float")
Maps(cells) ==
  /\ Len(cells) >= Len(LotColumns)
  /\ \A i \in DOMAIN LotColumns : ParsesAs(cells[i], LotColumns[i])
BatchMaps(p) == \A i \in DOMAIN EstateBatch[p] : Maps(EstateBatch[p][i].cells)

BatchLots(p) == {EstateBatch[p][i].lot : i \in DOMAIN EstateBatch[p]}
(* The primary key, and ErrEmpty of a bulk insert without rows.            *)
KeysOf(S) == {e.id : e \in S}
Insertable(p) ==
  /\ EstateBatch[p] # <<>>
  /\ IsInjective([i \in DOMAIN EstateBatch[p] |-> EstateBatch[p][i].lot.id])
  /\ KeysOf(BatchLots(p)) \cap KeysOf(lots) = {}

EstateInit ==
  /\ lots = UNION Range(FileInserts)
  /\ ppc = [p \in EstatePosters |-> "idle"]
  /\ pstatus = [p \in EstatePosters |-> 0]
  /\ ipc = 0
  /\ vpc = "idle" /\ question = [kind |-> "none"] /\ total = 0
  /\ reply = [status |-> 0, rows |-> {}, count |-> 0]
  /\ known = {} /\ moved = FALSE

PostDone(p, s) ==
  /\ ppc' = [ppc EXCEPT ![p] = "done"]
  /\ pstatus' = [pstatus EXCEPT ![p] = s]

(* FormFile, Open and ReadAll fail with 400 and 500, a record with 400.    *)
EstatePostArrive(p) ==
  /\ ppc[p] = "idle"
  /\ \/ BatchMaps(p) /\ ppc' = [ppc EXCEPT ![p] = "insert"] /\ UNCHANGED pstatus
     \/ ~BatchMaps(p) /\ PostDone(p, 400)
     \/ \E s \in {400, 500} : PostDone(p, s)
  /\ UNCHANGED <<lots, ipc, visitorVars, known, moved>>

EstatePostInsert(p) ==
  /\ ppc[p] = "insert"
  /\ IF Insertable(p)
       THEN /\ lots' = lots \cup BatchLots(p)
            /\ known' = known \cup BatchLots(p)
            /\ moved' = (vpc = "select")
            /\ PostDone(p, 201)
       ELSE PostDone(p, 500) /\ UNCHANGED <<lots, known, moved>>
  /\ UNCHANGED <<ipc, visitorVars>>

(* The statement fails, or only its answer is lost.                        *)
(* Mutant: the error of ExecContext is dropped. *)
EstatePostFailsUnseen(p) ==
  /\ ppc[p] = "insert"
  /\ PostDone(p, 201)
  /\ known' = known \cup BatchLots(p)
  /\ UNCHANGED <<lots, ipc, visitorVars, moved>>
EstatePostFails(p) ==
  /\ ppc[p] = "insert"
  /\ PostDone(p, 500)
  /\ \/ UNCHANGED <<lots, moved>>
     \/ Insertable(p) /\ lots' = lots \cup BatchLots(p) /\ moved' = (vpc = "select")
  /\ UNCHANGED <<ipc, visitorVars, known>>

(* initialize: the schema empties the table, the data file fills it.  psql *)
(* goes on past a statement that fails, because a post was quicker or for  *)
(* any other reason, and gives up only when it loses its connection.       *)
EstateTruncate ==
  /\ ipc = 0
  /\ ipc' \in {0, Len(FileInserts)}
  /\ \/ lots' = {} /\ known' = {} /\ moved' = (vpc = "select")
     \/ UNCHANGED <<lots, known, moved>>
  /\ UNCHANGED <<ppc, pstatus, visitorVars>>
EstateLoad ==
  /\ ipc > 0
  /\ ipc' \in {0, ipc - 1}
  /\ LET rows == FileInserts[Len(FileInserts) - ipc + 1]
     IN  \/ /\ KeysOf(lots) \cap KeysOf(rows) = {}
            /\ lots' = lots \cup rows /\ moved' = (vpc = "select")
         \/ UNCHANGED <<lots, moved>>
  /\ UNCHANGED <<ppc, pstatus, visitorVars, known>>

-----------------------------------------------------------------------------
Answer(s, rows, n) == reply' = [status |-> s, rows |-> rows, count |-> n]
Answers(s, rows, n) == vpc' = "idle" /\ Answer(s, rows, n) /\ UNCHANGED total
NoContent(s) == Answers(s, {}, 0)

(* The visitor asks; what is refused before the first statement is the     *)
(* search without a condition, the empty polygon, and what does not parse: *)
(* with 400, but the body of a document request that does not with 500.    *)
Refusable(q) ==
  \/ q.kind = "garbled"
  \/ q.kind = "search" /\ ~HasCriterion(q)
  \/ q.kind = "nazotte" /\ q.ring = <<>>
VisitorAsks(q) ==
  /\ vpc = "idle"
  /\ question' = q
  /\ IF Refusable(q) THEN NoContent(IF q.kind = "garbled" THEN q.status ELSE 400)
     ELSE vpc' = "ask" /\ total' = 0 /\ Answer(0, {}, 0)
  /\ UNCHANGED <<lots, ppc, pstatus, ipc, known, moved>>

Asked(kind) == vpc = "ask" /\ question.kind = kind

(* getEstateDetail and postEstateRequestDocument. *)
ReadOne ==
  /\ Asked("detail")
  /\ LET rows == {e \in lots : e.id = question.id}
     IN  NoContent(IF rows = {} THEN 404 ELSE 200)
ReadLowPriced ==
  /\ Asked("low")
  /\ LET rows == Cheapest(lots, ListLimit) IN Answers(200, rows, Cardinality(rows))
ReadNazotte ==
  /\ Asked("nazotte")
  /\ LET rows == Nazotte(lots, question.ring) IN Answers(200, rows, Cardinality(rows))

(* Mutant: the count is taken without the conditions. *)
CountAll ==
  /\ Asked("search")
  /\ vpc' = "select" /\ total' = Cardinality(lots) /\ UNCHANGED reply
CountFound ==
  /\ Asked("search")
  /\ vpc' = "select" /\ total' = Cardinality(Found(lots, question)) /\ UNCHANGED reply
SelectFound ==
  /\ vpc = "select"
  /\ LET offset == Offset(question.page, question.perPage)
     IN  IF offset < 0 \/ question.perPage < 0
           THEN NoContent(500)
           ELSE Answers(200, PageRows(Found(lots, question), question.perPage, offset), total)
StatementFails == vpc \in {"ask", "select"} /\ NoContent(500)

VisitorStep ==
  /\ ReadOne \/ ReadLowPriced \/ ReadNazotte \/ CountFound \/ SelectFound \/ StatementFails
  /\ moved' = FALSE
  /\ UNCHANGED <<lots, ppc, pstatus, ipc, question, known>>

EstateNext ==
  \/ \E p \in EstatePosters :
       EstatePostArrive(p) \/ EstatePostInsert(p) \/ EstatePostFails(p)
  \/ EstateTruncate \/ EstateLoad
  \/ (\E q \in Questions : VisitorAsks(q)) \/ VisitorStep

EstateSpec == EstateInit /\ [][EstateNext]_estateVars
-----------------------------------------------------------------------------
(* The variables have their types, no two rows have an id, and no list is  *)
(* longer than its limit.                                                  *)
EstateTypeOK ==
  /\ lots \subseteq Lots /\ known \subseteq Lots
  /\ \A e, f \in lots : e.id = f.id => e = f
  /\ ppc \in [EstatePosters -> {"idle", "insert", "done"}]
  /\ pstatus \in [EstatePosters -> {0, 201, 400, 500}]
  /\ ipc \in 0 .. Len(FileInserts) /\ vpc \in {"idle", "ask", "select"}
  /\ total \in Nat /\ moved \in BOOLEAN
  /\ question \in Questions \cup {[kind |-> "none"]}
  /\ reply.status \in {0, 200, 400, 404, 500} /\ reply.rows \subseteq Lots
  /\ question.kind = "nazotte" => Cardinality(reply.rows) <= NazotteLimit
  /\ question.kind = "low" => Cardinality(reply.rows) <= ListLimit

(* Once a post of estates is answered 201, every way to read the table     *)
(* finds each of its estates until the next truncation: the detail, and    *)
(* every list that is not cut off at its limit.                            *)
Missing(q, r, e) ==
  CASE q.kind = "detail" -> q.id = e.id /\ r.status = 404
    [] q.kind = "low" -> r.count < ListLimit /\ e \notin r.rows
    [] q.kind = "nazotte" ->
         r.count < NazotteLimit /\ RingContains(q.ring, PointOf(e)) /\ e \notin r.rows
    [] q.kind = "search" ->
         /\ q.page = 0 /\ Cardinality(r.rows) < q.perPage
         /\ EstateFits(e, q) /\ e \notin r.rows
PostedIsFound ==
  [][(vpc # "idle" /\ vpc' = "idle" /\ reply'.status \in {200, 404})
       => \A e \in known : ~Missing(question, reply', e)]_estateVars

(* The WHERE clause of the reference implementations, with LIKE '%f%' for  *)
(* a feature: it finds f in the names of other features, and the empty one *)
(* in every text.                                                          *)
Mentions(e, f) == f = "" \/ \E g \in e.features : <<f, g>> \in PartOf
EstateReferenceFits(e, q) ==
  /\ \A i \in q.height : Within(RangeOf(SizeSeparators, i), e.height)
  /\ \A i \in q.width : Within(RangeOf(SizeSeparators, i), e.width)
  /\ \A i \in q.rent : Within(RangeOf(RentSeparators, i), e.rent)
  /\ \A f \in q.features : Mentions(e, f)

(* A page of a search is the page the reference implementations answer on  *)
(* the same table, by the true product of page and perPage.  A wrong page  *)
(* needs a product no int can hold, or a requested feature whose name is a *)
(* part of another feature an estate of the table has: the Go application  *)
(* asks for whole names.  The reference refuses a range its conditions do  *)
(* not have; the Go application answers that it is empty.                  *)
KnownRanges(q) == q.height \cup q.width \cup q.rent \subseteq 0 .. 3
WholeNames(q) == \A e \in lots : \A f \in q.features : Mentions(e, f) => f \in e.features
EstatePageLikeReference ==
  [][(vpc = "select" /\ vpc' = "idle" /\ reply'.status = 200)
       => LET true == question.page * question.perPage
          IN  \/ true \notin MachineInt
              \/ ~WholeNames(question)
              \/ reply'.rows =
                   IF KnownRanges(question)
                     THEN PageRows({e \in lots : EstateReferenceFits(e, question)},
                                   question.perPage, true)
                     ELSE {}]_estateVars

(* The count and the rows of a search are two statements: they contradict  *)
(* each other only when the table changed between them.                    *)
CountAgreesUnlessMoved ==
  [][(vpc = "select" /\ vpc' = "idle" /\ reply'.status = 200 /\ ~moved)
       => LET beyond == reply'.count - Offset(question.page, question.perPage)
          IN  Cardinality(reply'.rows) = Max({0, Min({question.perPage, beyond})})]_estateVars

(* The answer to a drawn ring is the most popular NazotteLimit of all the  *)
(* estates in it, its border included: the box loses none, and the cut is  *)
(* made after the test.                                                    *)
NazotteLosesNone ==
  [][(Asked("nazotte") /\ vpc' = "idle" /\ reply'.status = 200)
       => reply'.rows =
            Top({e \in lots : RingContains(question.ring, PointOf(e))}, NazotteLimit)]_estateVars

(* A ring that is convex, as those of the page are: then they are the      *)
(* estates in the convex hull of its points.                               *)
TurnsOneWay(ring) ==
  LET turns == {Cross(ring[t[1]], ring[t[2]], ring[t[3]]) :
                  t \in {u \in [1 .. 3 -> DOMAIN ring] : u[1] < u[2] /\ u[2] < u[3]}}
  IN  (\A x \in turns : x >= 0) \/ (\A x \in turns : x <= 0)
NazotteIsPolygon ==
  [][(Asked("nazotte") /\ vpc' = "idle" /\ reply'.status = 200 /\ TurnsOneWay(question.ring))
       => reply'.rows =
            Top({e \in lots : HullContains(ToSet(question.ring), PointOf(e))},
                NazotteLimit)]_estateVars
=============================================================================
