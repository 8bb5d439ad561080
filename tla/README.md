# Isuumo: a TLA+ verification of the Go team's application

Isuumo is a site that sells chairs and shows estates. This repository is one
team's tuning of it: the Go application moved from MySQL to Postgres with
generated range columns, the last unit of a chair is remembered in a Redis set,
and OpenResty answers requests for chair details from that set and from a proxy
cache. The other languages' applications are kept unchanged beside it; where
they say more clearly what an operation is for, they are the reference the Go
application is compared with.

What the tuning put at risk is agreement: between the chair table, the Redis
list, the proxy cache and what the client was told; and between the rewritten
queries and the ones they replaced. That is the core of this project. Around it
are the pages in the browser, whose requests overtake each other, and the tools
of the repository that run concurrently or share memory.

Contents: [the system](#the-system) · [the modules](#the-modules-and-the-code) ·
[runs](#the-runs) · [bounds](#bounds) · [fairness](#fairness) ·
[proofs](#what-is-proved-and-how) · [disagreements](#disagreements-found) ·
[abstractions](#abstractions) · [not modelled](#not-modelled) · [what is left](#what-is-left)

To check everything, in this directory: `tlc -config <run>.cfg <MC module>` for
each run, `tlapm <module>_proofs.tla` for each proof module.

## The system

| component | state | operations | hard behaviour | correct when |
|---|---|---|---|---|
| Chair purchase, posting, reset (`webapp/go/main.go`) | the `chair` table (Postgres), the Redis set `sold_out_chair` | `buyChair`, `postChair`, `initialize`, restart by systemd | the UPDATE and the SADD are two calls to two stores; `initialize` is three `psql` runs and a FLUSHALL; each call can fail before or after its effect; `os.Exit` inside a handler | no unit is sold twice or lost; the list says "sold out" only of chairs that are, and says it of every chair whose last buyer was told 200; a CSV is in the table whole or not at all; a reset restores the data file but for what `psql` went on without |
| Chair detail through OpenResty (`etc/openresty`) | proxy cache `zone1`, its locks | the Lua access check, cache hit, fill, wait, timeout, expiry; `getChairDetail` | a fill in flight while the chair is sold; waiting behind a fill that is not stored; Redis down | after a sale is confirmed nobody is shown the chair, but by the cache and only within the limits stated; no false 404; nobody waits for ever |
| Chair search and its page (`searchChairs`, `frontend/.../chair/search`) | the visitor's page number and last answer | COUNT, SELECT, next page | two statements and many requests per walk, between which rows come and go; ranges turned into generated columns | a walk misses or repeats only what a shift explains; each page is the reference page |
| Recommended estates (`searchRecommendedEstateWithChair`) | none of its own; reads both databases | the handler | a union of limited queries replacing one OR | the answer is the reference answer |
| Reference purchase (`webapp/nodejs/app.js` and the other languages) | the `chair` table (MySQL), row locks, the connection pool | `POST /api/chair/buy/:id` in a transaction | lock waits, failing statements, lost connections, a COMMIT whose answer is lost | the same promise as the Go purchase; the pool and the locks never leak |
| Estates (`postEstate`, `getEstateDetail`, `postEstateRequestDocument`, `getLowPricedEstate`, `searchEstates`) | the `estate` table | one insert, single reads, a COUNT and a SELECT with an OFFSET computed in `int` | the answer of the insert is lost; rows come between the two statements; the product of two machine integers wraps | what a 201 posted is found by every reader; a page is the reference page; count and rows agree unless the table moved |
| Nazotte (`searchEstateNazotte`, `NazotteMap.tsx`) | the mode, the drawing, the requests outstanding | bounding box query, point-in-ring test, limit of 50; mouse callbacks, hull, fetch | the answer to a drawing comes while the next is drawn; the mouse is released outside the map | the answer is the most popular 50 of the polygon; the map shows the estates of the polygon it shows |
| Search page in the browser (`chair/search/index.tsx`) | criteria, result, page number, requests outstanding | search, page, answer, failure | several requests outstanding, answered in any order | rows and page number belong together and to the newest request |
| Query builders (`chair.gen.go`, `estate.gen.go`) | slices and maps behind copied structs | where, join, set, value, bulk append, ToSql | copies share the array `append` writes into, and the map of the values | a query renders what its calls said, unless it was kept and used twice |
| Ticker (`gotemplates/ticker.go`) | the timer field, the unbuffered stop channel | Start, Stop, Reset | Stop without a listener, two Starts that read the field the other sets, Reset after Stop, callbacks launched before Stop | after a Stop for each Start no callback is launched and no timer ticks, with two exceptions stated; a Stop is heard if any loop is left |
| Verification data (`make_verification_data`) | files, WaitGroup, goroutines | phases of concurrent requests and writes | a panic between truncation and write; files of an earlier run | a phase begins when the one before is written; the polygons sent are the hulls of the points drawn |
| Other frontend pages, mock API, Python generators, provisioning | none of their own | | | see [not modelled](#not-modelled) |

How they interact:

```
browser ──> OpenResty ── Lua check ──> Redis set sold_out_chair <── SADD / FLUSHALL ─┐
              │  proxy cache zone1                                                   │
              └── miss ──> Go application ── SELECT / UPDATE / INSERT ──> Postgres   │
                              │  chairDB and estateDB                                │
                              └───────────── buyChair, initialize ───────────────────┘
initialize ── psql ──> the host DB_HOSTNAME names
```

OpenResty and the application share nothing but Redis; nothing tells the cache
that a chair was sold. The handlers are concurrent goroutines without locks of
their own, so everything rests on single SQL statements being atomic.

The hazards are listed with their lines in `PROJECT.json`.

## The modules and the code

```
ChairSale                    what a purchase promises (abstract)
   ^ implemented by            ^ implemented by
ChairShop                    ReferenceBuy
   ^ composed with
ChairEdge, ChairSearch       ── Ranges

RecommendedEstate, EstateShop ── EstateOrder        SearchPage
        EstateShop, NazotteMap, VerificationData ── Polygon
SqlBuilder                   Ticker
```

`──` is EXTENDS of a module without state. Each `MC*` module instantiates modules for TLC, each
`*_proofs` module holds theorems: `Chairs_proofs` those of ChairShop and ChairEdge,
`Estates_proofs`, `Browser_proofs` and `Tools_proofs` those of the modules their `MC*` module
puts together, `SqlBuilder_proofs` those of the query builders, `Operators_proofs` those of
Ranges, EstateOrder and Polygon, which the others cite. `MCEstates`, `MCBrowser` and `MCTools` hold
several modules that share no state: the initial state chooses the one a
behaviour exercises (the variable `part` or `tool`), so a run checks
each of them alone, under one type invariant made of theirs (`EstatesTypeOK`,
`BrowserTypeOK`, `ToolsTypeOK`). Definitions that carry the comment "Mutant:"
are plausible bugs, used to show that the property of a run notices them; no
specification refers to them.

**ChairSale** is the promise: a purchase is decided once (sold, refused,
failed), and told as decided, except that a failure can be told of anything
because an answer can be lost. `Supply` stands for whoever restocks.

**ChairShop** is the application as the writer of the two stores. `rows`,
`stock` are the table; `soldOut` is the Redis set; `redisUp` and `appUp` say who
is running; `pc[r]`, `status[r]`, `seen[b]`, `fileAt[i]` are the position and
the locals of each request's handler. `supply`, `epoch`, `tookIn`, `endedBefore`,
`missed` (the statements `psql` went on without) and `forgot` (the members Redis lost)
are history. One action is one call of a handler to a store:

| action | code (`webapp/go/main.go`) |
|---|---|
| `BuyArrive`, `BuyReject` | `buyChair`, the binding and its early returns |
| `BuyUpdate`, `BuyMiss`, `BuyUpdateFails` | `UPDATE ... RETURNING stock` and the three outcomes of the Scan |
| `BuySAdd`, `BuySAddFails` | the SADD of the buyer who read 0; 507 |
| `PostArrive`, `PostReject`, `PostInsert`, `PostInsertFails` | `postChair`: all parsing before the one bulk INSERT |
| `InitSchema`, `InitEstates`, `InitChairs`, `InitChairsDone`, `InitPsqlFails` | the three `psql` runs of `initialize`: a statement that fails is passed over (`GoesOnWithout`), a lost connection ends `psql` and is a 500 |
| `InitFlush`, `InitFlushFails` | FLUSHALL, `os.Exit(1)` when it fails |
| `Crash`, `Restart`, `RedisTurns` | the process ends; systemd and `main()`; Redis stops, or answers again with what it kept of the set |
| `Refused`, `Reply` | 502 by the proxy; the status line reaches the client |

A call that fails may have had its effect: the failing actions offer both.

**ChairEdge** adds the way of `GET /api/chair/:id`. `AccessListed` and
`AccessPasses` are `chair_redis_cache.lua` (which lets everyone pass when Redis
does not answer, and which reads `07` as another id than `strconv.Atoi` does);
`CacheHit` to `LockAges` are the proxy cache as `isuumo.conf` configures it, per
URI as nginx keys it; `AppRead` is `getChairDetail`. `ShopStep` runs ChairShop
unchanged beside it and turns the requests a dying process was serving into 502,
those whose answer was decided but not delivered as it may be (`BreakOff`).
`wasOut` and `doomed` are history. nginx itself is not in the repository: its
cache is modelled from the directives of `nginx.conf` and `isuumo.conf`.

**ChairSearch** adds visitors that walk through the pages of a search:
`SearchCount` and `SearchSelect` are the two statements of `searchChairs`,
`Show` and `NextPage` the page component. `PriceRange`, `SizeRange` and
`RentRange` are the generated columns of `0_Schema.sql`; `ReferenceFits` is the
WHERE clause of the reference implementations. `came` and `left` are history.

**RecommendedEstate** has the two reads of the handler with the tables changing
between them; `Recommend` is its union of two limited queries over the sorted
sizes, `Reference` the single query with six alternatives.

**ReferenceBuy** is the transaction of `nodejs/app.js`: pool, BEGIN, SELECT ...
FOR UPDATE, UPDATE, COMMIT, the catch and finally blocks. `getConnection`, which is awaited
before the `try`, can fail (`GetConnectionFails`): nobody answers then. A statement can fail,
or the connection be lost; on a lost connection the rollback in `catch` throws
and the client is never answered (`"hung"`).

**SearchPage** is the page component with every request outstanding it can have:
`OnSearch` and `OnPage` take the old result away and ask, `Answered` shows
whatever comes, `NotAnswered` is the `catch` that only logs. `overlap` is history.

**EstateShop** is the estate table with its writers (`EstatePostArrive`,
`EstatePostInsert`, `EstatePostFails`; `EstateTruncate` and `EstateLoad` of
`initialize`, statement by statement, with `psql` going on past one that fails) and one
visitor: `ReadOne` (detail and document request),
`ReadLowPriced`, `ReadNazotte`, and the search as `CountFound` then
`SelectFound`. `Offset` is the product in `int`, whose largest is
`MaxInt`. `EstateReferenceFits` is the WHERE clause of the reference implementations, whose
LIKE finds a feature in the names of others (`PartOf`). `LotColumns`, `Maps` are the record mapper
with its types. **EstateOrder** has the order of the answers, **Ranges** the generated columns, **Polygon** the bounding box, the
ring test of orb (border inside, an unclosed ring closed), and `convexHull`
with its comparator as it is written.

**NazotteMap** is the map: `MouseDown`, `MouseMove`, `MouseUp` are
`onNazotteStart`, `onNazotte`, `onNazotteEnd`; `PressOutside`, `ReleaseOutside`
what the map does not see; `FabClick` the button that changes the mode;
`FetchDone`, `FetchFailed` the answers, of `NazotteLimit` estates at most. `astray` is history:
since the last drawing was begun, or the newest request answered, the map missed a press or a
release, or got the answer to an older drawing.

**SqlBuilder** keeps the memory of the generated builders: `heap` has the arrays
behind the lists, with `append` writing in place while there is room, `maps` the
shared value maps. A query carries beside its parts what its calls said
(`said`); `ToSql` is compared with that.

**Ticker** is `gotemplates/ticker.go`: `Start`, `Stop` as `StopCall` and
`HandOver` (a rendezvous), `Reset`, `TickOf`, `Fire` (the go statement) and `Callback`
(its goroutine). The field `t` is read without a lock: `StopCall` may see nil after a Start, and
`Start`, `Defer`, `Select` are the three places where a loop sets or reads it, so that one loop may
defer the stop of another's timer or wait on its channel. `spoiled` is history: that a Start came
between another's NewTicker and its defer, or that Reset started the timer of a loop that had returned.

**VerificationData** is the generator: `Load`, `NextPhase`, `Spawn` are `main`,
`AskServer`, `OpenFile`, `WriteFile` a goroutine of a phase, `Dies` every
panic and `log.Fatal`.

## The runs

| run | question | result |
|---|---|---|
| `shop_sales` | three buyers race for two units, two posts clash with each other and with the table, under database, Redis and process failures | units are conserved (`UnitsConserved`), one buyer reads 0 (`RemainderSeenOnce`), a confirmed sale-out is on the list (`SoldOutIsListed`), a post is in the table whole or not at all, and a 201 is the whole CSV (`PostIsWhole`), and the application implements ChairSale (`ImplementsSale`) |
| `shop_initialize` | initialize against a buyer of the last unit and a post of an id of the file, under every fault, with statements `psql` goes on without | a chair on sale is listed only through a straggler (`ListedInStockOnlyByStraggler`); what a 200 of initialize guarantees whatever ran beside it: an empty list, and each INSERT of the data file at its stock less the units of the overlapping buyers, with the exceptions `Disturbed` names (`InitializeRestoresStock`); every request that arrives is answered (`EveryRequestAnswered`) |
| `shop_straggler` | the comment on the FLUSHALL | refuted, see below |
| `shop_two_hosts` | the hosts of `env.sh` | refuted, see below |
| `edge_sold` | three viewers, one of them asking for `/api/chair/07`, before, during and after a chair is posted and sold | a sold-out chair is shown by the cache only, and only to a URI the Lua check cannot read (`SoldOutIsHidden`); a 404 is true of some moment since the request (`NoFalseSoldOut`) |
| `edge_liveness` | viewers that ask for ever, while database, Redis and process fail | a sold-out chair leaves the cache for good (`SoldOutLeavesCache`); every viewer is answered (`EveryViewerAnswered`) |
| `search_walk` | a walk with several criteria during a sale and a posting, a search with none, failures of database and process | `WalkMissesOnlyShifted`, `ShownTwiceOnlyIfShifted`; each page is the page of the reference implementations (`PageLikeReference`) |
| `search_features` | a search for a feature name that is a part of another | refuted, see below |
| `estates` | recommended estates over all subsets of five doors; every way to read the estates while they are posted and reset; queries kept and used again | the union of limited queries answers as the reference query (`AnswersLikeReference`); posted estates are found (`PostedIsFound`); a search page is the reference page unless the product overflows or a feature's name is a part of another's (`EstatePageLikeReference`), and agrees with its count unless the table moved (`CountAgreesUnlessMoved`); Nazotte loses no estate the ring test accepts (`NazotteLosesNone`), and of a convex ring these are those in the hull of its points (`NazotteIsPolygon`); a query differs from its calls only through shared memory (`DiffersOnlyIfShared`) |
| `browser` | three overlapping requests of the search page; two drawings with late, missing and reordered answers and a mouse that leaves the map | `ScreenFollowsNewest`, `MapIsTrueUnlessAstray`, `PostedCoversDrawing` |
| `tools` | a ticker started twice, stopped three times, reset at any time, with ticks and callbacks pending; a generator whose goroutines fail at any point | `StoppedFiresNoMore`, `StopIsHeard`; `PhasesAreBarriers`, `HullsAreConvex`, `EveryRunEnds` |
| `reference_buy` | three buyers, two connections, every fault | the transaction implements ChairSale (`TransactionImplementsSale`); pool and locks do not leak (`PoolConserved`, `LocksAreHeld`); every buyer is answered unless its own connection is lost or cannot be made (`EveryBuyerAnswered`) |

`CHECK_DEADLOCK FALSE` is set where the system stops: requests are used once,
and the visits, calls and callbacks of the browser, the builders and the ticker
are bounded. The viewers of ChairEdge ask for ever, and in `edge_sold` and
`edge_liveness` deadlock is checked.

## Bounds

Requests are used once, so their number bounds the models of the handlers; the
other bounds are constants named `Max...`.

- Buyers: three for two units is the smallest instance with a first unit, a last
  unit and a miss, and with two buyers racing for each. Buyers are symmetric in
  `shop_sales` because they want the same chair and nothing tells them apart.
- Chairs: two, so that a step on one can be seen to leave the other alone; one
  in the file and one posted, or both in the file in different INSERTs.
- Posts: two; one of them clashes both with the other and with the table.
- Initialize: one, beside a buyer of the last unit and a post that takes the id of the second of the
  two INSERTs of the file, under every fault. Of two initializes at once, where either can empty
  the table the other has filled, the theorems speak (`ReloadsRestoreStock`,
  `OnlyStragglersMislead`); together with every fault they are more than TLC can go through
  in the time of a run.
- Viewers: two behind one lock, a third with another URI.
- Search: five matching chairs on pages of two give three pages, the last one
  half full; two chairs share their popularity, and of two that do not match one
  is at the next range's price (3000 after 2999) and one at its height (80 after 79).
- Doors: five with a limit of two, one more than both halves of the union keep.
- Estates: six on a 4 by 4 grid, three of them in the two INSERTs of the file, at the ends of their ranges;
  three posts of one id, one of them with an id of the file besides, and one with a
  record that does not parse; `ListLimit` 4 and `NazotteLimit` 2, which the
  tables exceed; the rings are empty, a point, a flat one, a triangle, a triangle and a
  square with estates on their border, and a ring that is not convex. `MaxInt` 7 makes 4
  times 4 wrap to 0, 4 times 2 to -8. The name of one feature is a part of another's (`PartOf`), and one
  question asks for it.
- Builders: six calls that return a query, five when two of them begin one (`MaxCalls`,
  `MaxNew`), a bulk insert of two rows (`MaxRows`): a query begun, three conditions
  after which its array has a spare place, and two queries that both append into that place.
- Browser: three requests (`MaxRequests`), so that one may be overtaken by two;
  two drawings (`MaxPosts`) of up to three points (`MaxPath`) before the release,
  over a triangle and a point in it; `NazotteLimit` 3, one less than the points of the triangle.
- Ticker: two Starts, three Stops, so that one Stop finds no loop; two callbacks
  launched and not yet run (`MaxPending`).
- Generator: phases of two details, two searches and one polygon; clouds of four
  points, all 81 with latitudes 0 to 3 and three columns, and three with points
  of equal latitude.

Each property was seen to fail on a plausible bug of the code it is about, with
the same configuration (the mutants of `PROJECT.json`), so the bounds do reach the case.

## Fairness

- Every step of a handler (`Progress`, `ViewProgress`, `Handle`): weak. A call
  returns or fails, and a goroutine or a continuation that can run is run.
- `Restart`: weak. The unit files say `Restart=always`; `main()` exits until
  Redis answers, so nothing is promised while Redis is down.
- `LockTimeout`: strong. nginx counts the five seconds of
  `proxy_cache_lock_timeout` over all the waits of a request, so a viewer that
  is woken, loses the race for the lock and waits again cannot do so for ever.
- `Expire`: weak. A minute passes.
- `Defer` and `Select` of the ticker: weak. A goroutine that can run is run.
- `HandOver` of the ticker: strong, for each loop and any sender. A loop is at its `select` only
  from time to time, as ticks take it away; of the cases that are ready a `select` takes one at
  random, so a loop that finds a sender again and again does not take the tick for ever. The ticks
  themselves and the calls of Start, Stop and Reset have none.
- The generator as a whole: weak. Its goroutines are scheduled; that a request
  ends is up to the server, as `http.DefaultClient` has no timeout.
- Arrivals, faults, recovery of Redis, eviction, the age limit of the lock, and
  everything a visitor does: none.

## What is proved, and how

Proved for every value of the constants that meets the named assumptions: any
number of chairs, estates, requests, files, points and calls, any data, any faults. Every
invariant and every action property a passing run checks is a theorem, as are the two
refinements of ChairSale; what TLC alone checks is liveness.

### Chairs_proofs

*The shop.* `TypeCorrect` is the type invariant. For
`UnitsAreConserved` and `RemainderIsSeenOnce` the induction needs what a buyer
in the middle of its request knows (`UnitsInv`): no `tookIn` is ahead of
`epoch`, a buyer still waiting has taken nothing, and the remainders read in one
epoch are distinct and not below the row's present stock, so the next UPDATE
returns a number nobody has read. Every action is first reduced to one of
a few table steps (kept, one unit taken, emptied, rows added), and the
invariant is carried over those. `OnlyStragglersMislead` adds `ListInv`: each
listed id has a buyer who read 0 for it and was still at work when every
initialize answered since had arrived. Such a buyer of the present epoch would mean the
stock is 0 (`StockBelowSeen`), so a listed chair with stock has a straggler.
`ListIsTruthfulWithoutInitialize` is the corollary for the usual case: with no
initialize in the system, a listed chair cannot be bought. `ShopImplementsSale` is
the refinement: under the mapping `OnSale`, `SaleOutcome`, `SaleTold` every step of
the application is a step of ChairSale or a stutter; its induction uses
`StatusHonest` (a 404 was decided by a buyer who took nothing, a 200 by one who
took a unit). The assumptions are those of `ChairShop`: finitely many buyers,
disjoint requests, a data file that inserts no id twice.

`SoldOutGetsListed`: the buyer who read 0 answers 200
only after its SADD, and nothing removes an id but a FLUSHALL and a Redis that `forgot` it. The invariant
(`LastUnitInv`) follows the last unit before the first initialize: a buyer who
read 0 and was told 200 has listed its chair (`LastListed`), and of a row whose
stock was taken down to 0 some taker read the 0 or was told 500, its UPDATE having lost the
answer (`LastKnown`). `EveryStepCommits` says what one step may do to the facts these use.

`PostsAreWhole`: a post that reached its INSERT has parsed
every record before (`ParsedFirst`) and put nothing into the table (`UndecidedNext`), and the one
INSERT is all or nothing, its answer lost or not.
`ReloadsRestoreStock` is InitializeRestoresStock under `ResetsChairDB`,
the assumption `shop_two_hosts` shows to be needed. Other requests may be at work, so the table an
initialize *i* leaves need not be its own: the invariant (`ReloadInv`) says that the last
initialize to empty the table is *i* or overlapped *i* (`FileKept`), that what it has run of the
file so far is in the table, statement by statement, unless `psql` went on without it or a post
of meanwhile has its ids (`LoadedSoFar`), and that all who took a unit since then overlapped *i*
(`TakersKnown`). Its steps are sorted by what they do to the table (`EveryLoadStep`). At the 200 of
*i* the initialize that emptied last is at the end of the file or one of those `Disturbed` names.

*The proxy.* `SoldOutStaysHidden` and `RefusalsAreTrue` stand on the
invariants of ChairShop, which hold here because EdgeSpec implements Spec (`EdgeIsShop`): the
proxy adds viewers and no step to the stores. A chair known to be sold out is
listed for good, unless Redis forgot it (`KnownIsListed`, `KnownStays`). `ViewInv` says that a viewer who asked for such a
chair gets behind the access check only by a Redis that fails or forgot, or a URI the check
cannot read, and there reads no 200 but from the cache; and that a viewer
told 404 saw the chair out of stock. `EveryViewerStep` sorts all actions by
what they do to one viewer, so each part is carried over a few kinds of step.

### Operators_proofs

The operators without state. The generated columns number the ranges of the reference
implementations for every integer (`PriceRangeIsReference`,
`SizeRangeIsReference`, `RentRangeIsReference`). In an order without ties the map from a row
to the number of rows before it is a bijection onto the places (`Places`: it is injective, and
both sides have as many elements), and a list sorted by it has each row at its place (`InTurn`).

*The ring test.* `ConvexRingIsHull`: of a ring no three of whose points, in their order,
turn the other way, the test accepts exactly the convex hull of its points.

- What the test accepts is in the hull, whatever the ring (`RingInHull`). Fan the ring out into
  triangles from its first point. Outside a triangle an even number of its edges is crossed
  (`EvenTriangle`), and every diagonal counts twice; so a point outside all of them crosses an
  even number of edges of the ring.
- What is in the hull the test accepts (`ConvexRingHolds`). A triangle of the ring's points
  is on the left of every edge (`HalfPlane`), so no edge that goes up past the point is crossed. Of
  the edges that go down past it there is one (`Entering`), and in a convex ring only one
  (`OnceAround`), so the point lies on it or the number of crossings is one (`RingHolds`).
- A ring that turns right is one that turns left, gone around the other way (`BackwardsContains`).

Products of unknowns are what makes this hard for the solver. They are confined to identities
it proves by expanding (`CrossSum`, `Plane`, `Between`, `Weights`); the
arguments above them use only the signs of their terms (`Products`).

*The convex hull.* `SortedHullIsHull`: of points no three of which share a latitude, in any
order `sort.Slice` may leave them, the closed ring of `convexHull` has exactly their hull
inside. One invariant (`Swept`) holds of a chain that has seen the first *k* points: its
corners are some of them in their order, its turns are left, and no point seen is on the right of
one of its edges. A new point pops corners until the last turn is left (`PopIs`). The edges kept
have it on their left (`OldEdges`), and the new edge has all points seen on its left
(`NewEdge`): those behind its first end, those before it, over the edge popped last, and
those on the latitude of its first end, each by an argument of its own (`LeftBehind`,
`LeftBefore`, `LeftAbreast`). The lower chain is a sweep up the latitudes and the upper one a
sweep down, by the same lemmas with the two signs of `Sides`. Of two points of one latitude that
the comparator leaves in the wrong order there is no third between them, which is all `Sweep`
asks. The two chains together have every point on the left of every edge and go around once
(`Around`), so the ring test accepts the hull (`HullRing`).

`ClosedHull` adds what a drawing needs, whose points are sorted by both coordinates
(`Rising`): the corners turn left by any three, each comes once, and each is outside the hull of
the other points (`CornersOutside`, by `Lowest`: of a line that leaves it alone below).

### ChairSearch_proofs

From the ranges follows `PagesAreReference`: if no requested feature's name is a part of the name of another feature a chair
has, every page is the reference page.
`SearchTypeCorrect` includes that no page exceeds `perPage`; that needs ranks to
be distinct, which is what the id in ORDER BY is for. `WalksMissOnlyShifted` and
`TwiceOnlyIfShifted` rest on one observation: while no chair before `c` comes or
goes, the rank of `c` stays (`RankStays`), and while none comes it never grows
(`RankNeverGrows`). The invariant (`WalkInv`) says that a chair not shown yet, none before it having
come or gone, has a rank on a page still to come and within the count, and that
a chair already shown, none before it having come, has a rank on a page already passed.

### Estates_proofs

`RecommendIsReference`: a door that any of a
chair's faces passes is passed by the face of its two smallest sizes
(`SmallestFace`), and the first *n* rows of a union are the first *n* of the
union of the first *n* of each part (`TopOfUnion`, by the first row on which
they would differ). `RecommendationsAreReference` carries that to the handler.

The estate shop has one invariant (`EstateInv`): its types, that every estate of
`known` is in the table, that the question a visitor waits for was not refused, and
that between the two statements of a search `total` counts what is found unless
`moved`. On it stand

- `CountsAgree`. The rows with a place from `offset` on, `perPage` of them, are as
  many as the count leaves: by the bijection of `Places` the rows of a page
  are as many as its places (`PlacesTaken`). It is the id in ORDER BY, and the primary key, that
  make the order one without ties.
- `EstatePagesAreReference`, by the theorems on ranges, because a product
  an `int` can hold is what `WrapInt` leaves it, and because LIKE and containment agree on a table
  no feature of which has a requested one as a proper part of its name (`WholeNames`).
- `NazotteKeepsRing` (`RingInBox`). A point the ring test accepts lies on an edge, hence
  in the box, or its line crosses an odd number of edges. A crossed edge has its ends at
  both sides of the point in the first coordinate, which puts the point between the
  bounds of that. Past the upper bound of the second no edge is crossed
  (`BelowCrossesNot`); before the lower one exactly the edges that change sides are
  (`AboveCrosses`), and around a closed ring these are even, as it leaves each side as
  often as it enters it (`EvenChanges`). No convexity is needed.
- `NazotteIsHull`. The answer is that of the ring test, as the box loses none of it, and of a
  convex ring the test is the hull, by `ConvexRingIsHull`.
- `PostedEstatesAreFound`. A list with fewer rows than its limit was not cut off:
  by the same bijection, the row with the smallest place left out would have had a place within the limit.

`EstatesTypes` is the type invariant of the run, with the query builders.

### SqlBuilder_proofs

`QueriesSayWhatWasCalled`: a query renders what its own calls said, unless one
of those it was made from was used twice while its array had room, or, with a map, was
used twice or used again. An array is reached by many queries, and
what one of them appends the others may see; so the induction is about the
family of queries that share one: `BuilderInv` says that

- arrays and maps never shrink, the length of an array is fixed when it is made, and
  an array holds one kind of list (`Memory`, `Fits`, `Mapped`, `Apart`);
- of two queries that share an array one was made from the other, or both from one query that was
  used twice (`ListTree`), and the same of a map (`MapTree`): so two lists that end at the
  same place of an array, and could both be appended to there, betray a query used twice;
- what a query without such an ancestor holds is what was said to it (`Listed`, `Valued`).

Each call makes one query or none: `CallEvolves`, `ChildKeeps` and their like carry the invariant
once for every call that makes a query, and each call is then shown to be one of these.
TLC checked `BuilderInv` on the instance of the run before it was proved.

### Browser_proofs

`ScreenIsNewest` for any number of requests: while the
newest request did not overlap another, it is the only one outstanding (`PageInv`).
`MapIsTrue`: the newest request asks for the polygon on the screen as long as nothing is
being drawn (`Asked`), and its answer makes the map true again; between that and the next answer
the markers are of the polygon shown (`Shown`), or there are none and the button of the drawing is
pressed on the map (`Drawing`), unless the map has gone `astray`. MouseDown takes the old markers away.
`PostedIsHull`: the page computes the hull of the path with its last point and drops
a corner that is that point (`FiguresAre`; `ClosedIndexes` finds the index the library
gives each corner). What is left of a ring that turns left still turns left, so by
`ConvexRingIsHull` the polygon posted is the hull of its corners. If the last point is in
the hull of the others it is no corner (`CornersOutside`), nothing is dropped, and the polygon
is the hull of the drawing.
`BrowserTypes` is the type invariant of both.

### Tools_proofs

`StoppedStaysStopped`: each Stop that was heard ended one loop
and no two the same, so the loops that returned are as many as the Stops that were heard
(`HeardOnce`); when these are as many as the Starts, no loop is left to launch a callback
(`LaunchesNoMore`). While nothing `spoiled` it, each loop defers the stop of its own timer
(`OwnTimer`) and only the timers of loops at work tick (`HasLoop`), so then none does.
`DataBarriers`: the counter of the WaitGroup is the number of goroutines started
and not done, so `Wait` returns only when every file of the phase is
written, and a phase touches no file before the one before it is over (`DataInv`).
`DataHulls`: a ring sent is that of some cloud, which `AskServer` made and
the goroutine keeps until it has written its file (`HullInv`); `SortedHullIsHull` says the rest. The
clouds have two points at least (`CloudsAssumption`; the code draws ten or more).
`ToolsTypes` is the type invariant of both.

### ReferenceBuy_proofs

`RefTypeCorrect` is the type invariant. `LocksAreKept` and `PoolIsConserved` come from one
invariant (`TxInv`) of where each buyer's connection and row lock are;
`PoolIsConserved` counts each connection in exactly one place.
`ReferenceImplementsSale` maps a COMMIT to Sell, a SELECT of stock 0 to Refuse, every failing
path to Fail and a crash to Abort of all it cuts off; `Honesty` relates
each position of the handler to what was read, sold and told.

### Only model-checked

- Every liveness property (`EveryRequestAnswered`, `EveryViewerAnswered`,
  `SoldOutLeavesCache`, `EveryBuyerAnswered`, `StopIsHeard`, `EveryRunEnds`): fairness is beyond this prover.
- The runs that expect a violation: what they find is a counterexample.

## Disagreements found

- **A straggler undoes the flush** (`shop_straggler`). The comment at
  `main.go:359` calls the FLUSHALL at the end of `initialize` the correction of
  the stock. A buyer who took the last unit before the reload SADDs the id
  whenever it gets there; the restocked chair is then a 404 for everyone until
  the next initialize. `shop_initialize` and `OnlyStragglersMislead` show that
  this is the only way.
- **initialize reloads one of two hosts** (`shop_two_hosts`). `env.sh` gives
  `estateDB` and `chairDB` different hosts, `initialize` passes `psql` only
  `DB_HOSTNAME`: with these values the chair table is never reloaded and the
  answer is 200.
- **Features match whole names** (`search_features`). The reference
  implementations search features with LIKE, the Go application with `@>`; one
  name of the data generator is a part of another, so the answers differ.

Met while modelling, and stated as the exception of a property rather than as a
run of their own, as no text of the repository promises otherwise:

- `OFFSET` is `page * perPage` in `int`: a product too large answers another page
  with 200, or fails with 500 (`EstatePageLikeReference`).
- The search page shows the answer that comes last, not the newest
  (`ScreenFollowsNewest` excludes a request made while another is outstanding).
- `NazotteMap.tsx` computes the hull of the path with its last point and indexes
  the path without it: a corner where the mouse was released is lost
  (`PostedCoversDrawing`). The ring it posts is then not closed, which the
  server's ring test does not mind.
- `initialize` runs `psql -f` without ON_ERROR_STOP and answers 200 although a statement of a
  file failed (`Disturbed` of `InitializeRestoresStock`).
- An answer to a drawing ends the mode of the next one, and a press or release outside
  the map is not seen (`MapIsTrueUnlessAstray`).
- The comparator of `nazotte.go:38` compares a longitude with itself: of three
  points of one latitude the hull may lose a corner (`HullsAreConvex`).
- The ring test of the Go application has the border inside; ST_Contains of the
  reference implementations has it outside. `NazotteIsPolygon` takes the Go side.
- Stop of the ticker blocks for good when every loop has returned (`StopIsHeard`). Of two
  Starts at once one may stop the other's timer in its stead and leave its own ticking, and a
  Reset after the loop returned starts a timer nobody stops (`spoiled` of `StoppedFiresNoMore`).
- `nodejs/app.js` awaits `getConnection` before its `try`: when the connection cannot be made the
  buyer is never answered (`EveryBuyerAnswered`).
- A feature that is a part of another's name is searched for differently among the estates too
  (`WholeNames` of `EstatePageLikeReference`), as `search_features` shows for chairs.

## Abstractions

- Stocks are integers without a width: the column and the CSV are 32 and 64 bits
  wide and no operation but an INSERT grows them.
- A request is used once; clients that leave show as a call that failed. HEAD
  requests and malformed URIs of the detail are left out.
- One SQL statement is atomic, by the row lock for an UPDATE and by the primary
  key for an INSERT; a SELECT reads one snapshot. The external driver that
  rewrites `?` and backticks changes no statement's meaning and is left out.
- `psql` runs each statement of a file in a transaction of its own and goes on after one that
  fails, for a duplicate id (`RunInsert`) or any other reason (`GoesOnWithout`); only a lost
  connection makes it fail. Of the schema file only the TRUNCATEs touch rows; the statements after
  them create tables, columns and indexes, most of which exist already, and are left out.
- Redis may lose any of the set's members while it is down (`RedisTurns`): nothing in the
  repository makes it durable.
- The cache key of nginx is scheme, host and request URI: two spellings of an id
  are two entries. `LockAges` lets a slow filler store its answer all the same.
- The reference implementations answer 400 to an unknown range id and the Go
  application an empty page; the search page sends known ids only, and
  `PageLikeReference` speaks of those; `EstatePageLikeReference` has both, and asks of an
  unknown id that the page is empty. It sends numbers for `page` and `perPage`,
  so the 400s for other values are not in the model.
- LIKE with the features joined by commas cannot match across two of them,
  because the request was split at commas; `PartOf` is therefore a relation
  between single names.
- Node's rejection that nobody catches leaves the request unanswered; newer versions of Node
  end the process instead, which `Crash` covers.
- The estates an answer of `FetchDone` is cut to are any `NazotteLimit` of those in the ring:
  which ones is the subject of `NazotteLosesNone`.
- Coordinates are integers on a grid: the rounding of the floating-point box and
  ring tests is left out.
- The visitor of EstateShop asks one thing at a time; the handlers keep no state
  but the table, so several would not see more than one does.
- The document request of an estate reads like its detail and answers without
  the row; the two are one action. `getLowPricedChair` has none: it is the
  low-priced list of the estates with `stock > 0`, on the table ChairShop has.
- `GetDB`, `WaitDB` are part of `Restart`; tracing, logging and `pprof` are left out.

## Not modelled

- The estate search page: the code of the chair search page for other criteria.
- The other frontend pages: they fetch once and render.
- In the reference implementations everything but the purchase: their WHERE
  clause, their recommended-estate query and their polygon test appear as the references
  the Go application is compared with, the rest are single statements.
- In the generated builders `OnDuplicateKeyUpdate` of a bulk insert, and the
  hooks, which no type of the repository implements.
- `gotemplates` but the ticker: nothing imports them; maps behind one lock have
  no interleaving of their own, `singlefright.go` does not compile, the rest
  opens databases and exporters.
- The Python generators of the initial data: they run once, offline, without
  concurrency; their ranges appear in Ranges, their features in `search_features`.
- The mock API (static examples) and the provisioning (shell, Ansible); the
  hosts of `env.sh` and the cache removal of `prepare.sh` appear in ChairShop.

## What is left

The post and initialize of the reference implementations, in a transaction
where the Go application has one statement.
