----------------------------- MODULE Tools_proofs -----------------------------
(***************************************************************************)
(* Theorems about Ticker, for any number of calls of Start and Stop, and   *)
(* about VerificationData, for any phases with any number of files.        *)
(***************************************************************************)
EXTENDS MCTools, Operators_proofs, FiniteSetTheorems, TLAPS

-----------------------------------------------------------------------------
Loops(l) == {s \in Starters : loop[s] = l}

(* Each Stop that was heard ended one loop; and until something spoils it, *)
(* a loop's return stops its own timer, so that what ticks has a loop.     *)
HeardOnce == Cardinality(StopsIn("done")) = Cardinality(Loops("returned"))
OwnTimer ==
  \A s \in Starters :
    /\ loop[s] = "made" => t = s
    /\ loop[s] \in {"top", "waiting"} => deferred[s] = s
HasLoop == \A x \in ticking : loop[x] \in {"made", "top", "waiting"}
TickerInv ==
  /\ TickerTypeOK /\ HeardOnce
  /\ t # NoTimer => t \in Started
  /\ ~spoiled => OwnTimer /\ HasLoop

LEMMA Finite ==
  /\ IsFiniteSet(Loops("returned")) /\ Cardinality(Loops("returned")) \in Nat
  /\ IsFiniteSet(StopsIn("done")) /\ Cardinality(StopsIn("done")) \in Nat
  /\ IsFiniteSet(Started) /\ Cardinality(Started) \in Nat
BY TickerAssumption, FS_Subset, FS_CardinalityType DEF Loops, StopsIn, Started

LEMMA TickerStart == TickerInit => TickerInv
<1> SUFFICES ASSUME TickerInit PROVE TickerInv
  OBVIOUS
<1>1. TickerTypeOK
  <2>1. StopsIn("sending") = {}
    BY DEF TickerInit, StopsIn
  <2>2. pending \in 0 .. MaxPending
    BY TickerAssumption DEF TickerInit
  <2>3. spoiled \in BOOLEAN
    BY DEF TickerInit
  <2> QED
    BY <2>1, <2>2, <2>3 DEF TickerInit, TickerTypeOK
<1>2. StopsIn("done") = {} /\ Loops("returned") = {}
  BY DEF TickerInit, StopsIn, Loops
<1> QED
  BY <1>1, <1>2 DEF TickerInit, TickerInv, HeardOnce, OwnTimer, HasLoop

LEMMA TypesStep ==
  TickerInv /\ [TickerNext]_tickerVars => TickerTypeOK' /\ (t' # NoTimer => t' \in Started')
<1> SUFFICES ASSUME TickerInv, [TickerNext]_tickerVars
             PROVE  TickerTypeOK' /\ (t' # NoTimer => t' \in Started')
  OBVIOUS
<1> USE TickerAssumption DEF TickerInv, TickerTypeOK, StopsIn, Started, Steps
<1>1. ASSUME NEW s \in Starters, Start(s)
      PROVE  TickerTypeOK' /\ (t' # NoTimer => t' \in Started')
  BY <1>1 DEF Start
<1>2. ASSUME NEW s \in Starters, Defer(s)
      PROVE  TickerTypeOK' /\ (t' # NoTimer => t' \in Started')
  BY <1>2 DEF Defer
<1>3. ASSUME NEW s \in Starters, Select(s)
      PROVE  TickerTypeOK' /\ (t' # NoTimer => t' \in Started')
  BY <1>3 DEF Select
<1>4. ASSUME NEW s \in Starters, TickOf(s) \/ Fire(s)
      PROVE  TickerTypeOK' /\ (t' # NoTimer => t' \in Started')
  BY <1>4 DEF TickOf, Fire
<1>5. ASSUME NEW s \in Starters, NEW p \in Stoppers, HandOver(s, p)
      PROVE  TickerTypeOK' /\ (t' # NoTimer => t' \in Started')
  BY <1>5 DEF HandOver
<1>6. ASSUME NEW p \in Stoppers, StopCall(p)
      PROVE  TickerTypeOK' /\ (t' # NoTimer => t' \in Started')
  BY <1>6 DEF StopCall
<1>7. CASE Callback
  BY <1>7 DEF Callback
<1>8. CASE Reset
  BY <1>8 DEF Reset
<1>9. CASE UNCHANGED tickerVars
  BY <1>9 DEF tickerVars
<1> QED
  BY <1>1, <1>2, <1>3, <1>4, <1>5, <1>6, <1>7, <1>8, <1>9 DEF TickerNext

LEMMA HeardStep == TickerInv /\ [TickerNext]_tickerVars => HeardOnce'
<1> SUFFICES ASSUME TickerInv, [TickerNext]_tickerVars PROVE HeardOnce'
  OBVIOUS
<1> USE DEF TickerInv, TickerTypeOK, Steps
<1>1. ASSUME NEW s \in Starters, NEW p \in Stoppers, HandOver(s, p) PROVE HeardOnce'
  <2>1. StopsIn("done")' = StopsIn("done") \cup {p} /\ p \notin StopsIn("done")
    BY <1>1 DEF HandOver, StopsIn
  <2>2. Loops("returned")' = Loops("returned") \cup {s} /\ s \notin Loops("returned")
    BY <1>1 DEF HandOver, Loops
  <2>3. Cardinality(StopsIn("done")') = Cardinality(StopsIn("done")) + 1
    BY <2>1, Finite, FS_AddElement
  <2>4. Cardinality(Loops("returned")') = Cardinality(Loops("returned")) + 1
    BY <2>2, Finite, FS_AddElement
  <2> QED
    BY <2>3, <2>4 DEF HeardOnce
<1>2. ASSUME StopsIn("done")' = StopsIn("done"), Loops("returned")' = Loops("returned")
      PROVE  HeardOnce'
  BY <1>2 DEF HeardOnce
<1>3. ASSUME NEW s \in Starters, Start(s) \/ Defer(s) \/ Select(s) \/ Fire(s)
      PROVE  StopsIn("done")' = StopsIn("done") /\ Loops("returned")' = Loops("returned")
  BY <1>3 DEF Start, Defer, Select, Fire, StopsIn, Loops
<1>4. ASSUME NEW p \in Stoppers, StopCall(p)
      PROVE  StopsIn("done")' = StopsIn("done") /\ Loops("returned")' = Loops("returned")
  BY <1>4 DEF StopCall, StopsIn, Loops
<1>5. CASE UNCHANGED <<loop, stop>>
  BY <1>2, <1>5 DEF StopsIn, Loops
<1> QED
  BY <1>1, <1>2, <1>3, <1>4, <1>5 DEF TickerNext, TickOf, Callback, Reset, tickerVars

LEMMA OwnStep ==
  TickerInv /\ [TickerNext]_tickerVars => (~spoiled' => OwnTimer' /\ HasLoop')
<1> SUFFICES ASSUME TickerInv, [TickerNext]_tickerVars, ~spoiled' PROVE OwnTimer' /\ HasLoop'
  OBVIOUS
<1> USE DEF TickerInv, TickerTypeOK, OwnTimer, HasLoop, Started, Steps
<1>1. ASSUME NEW s \in Starters, Start(s) PROVE OwnTimer' /\ HasLoop'
  <2>1. ~spoiled /\ \A o \in Starters : loop[o] # "made"
    BY <1>1, Zenon DEF Start
  <2>2. /\ loop \in [Starters -> {"idle", "made", "top", "waiting", "returned"}]
        /\ loop' = [loop EXCEPT ![s] = "made"] /\ ticking \subseteq Starters
        /\ t' = s /\ ticking' = ticking \cup {s} /\ deferred' = deferred
    BY <1>1 DEF Start
  <2> QED
    BY <2>1, <2>2
<1>2. ASSUME NEW s \in Starters, Defer(s) \/ Select(s) PROVE OwnTimer' /\ HasLoop'
  BY <1>2 DEF Defer, Select
<1>3. ASSUME NEW s \in Starters, TickOf(s) \/ Fire(s) PROVE OwnTimer' /\ HasLoop'
  BY <1>3 DEF TickOf, Fire
<1>4. ASSUME NEW s \in Starters, NEW p \in Stoppers, HandOver(s, p) PROVE OwnTimer' /\ HasLoop'
  BY <1>4 DEF HandOver
<1>5. CASE Reset
  <2>1. ~spoiled /\ loop[t] # "returned"
    BY <1>5, Zenon DEF Reset
  <2>2. /\ t \in Started /\ ticking' = ticking \cup {t}
        /\ loop' = loop /\ deferred' = deferred /\ t' = t
    BY <1>5 DEF Reset
  <2> QED
    BY <2>1, <2>2
<1>6. ASSUME UNCHANGED <<loop, deferred, t, ticking, spoiled>> PROVE OwnTimer' /\ HasLoop'
  BY <1>6
<1> QED
  BY <1>1, <1>2, <1>3, <1>4, <1>5, <1>6 DEF TickerNext, StopCall, Callback, tickerVars

LEMMA TickerStep == TickerInv /\ [TickerNext]_tickerVars => TickerInv'
BY TypesStep, HeardStep, OwnStep DEF TickerInv

(* When a Stop was heard for every Start, every loop has returned.         *)
LEMMA AllReturned ==
  ASSUME TickerInv, AllHeard
  PROVE  Loops("returned") = Started
<1>1. Loops("returned") \subseteq Started
  BY DEF Loops, Started
<1> QED
  BY <1>1, Finite, FS_Subset DEF TickerInv, HeardOnce, AllHeard

LEMMA LaunchesNoMore ==
  ASSUME TickerInv, AllHeard, [TickerNext]_tickerVars
  PROVE  pending' <= pending
<1>1. pending \in Nat /\ \A s \in Starters : loop[s] # "waiting"
  BY AllReturned DEF Loops, Started, TickerInv, TickerTypeOK
<1> QED
  BY <1>1 DEF TickerNext, tickerVars, Start, Defer, Select, TickOf, Fire, Callback,
              StopCall, HandOver, Reset, Steps

LEMMA TicksNoMore ==
  ASSUME TickerInv, AllHeard
  PROVE  ticking = {} \/ spoiled
BY AllReturned DEF Loops, Started, TickerInv, TickerTypeOK, HasLoop

(* Once a Stop was heard for every Start no callback is launched any more, *)
(* whatever ticks are left, and no timer ticks, unless one of two Starts   *)
(* took the timer of the other or Reset came after the loop.               *)
THEOREM StoppedStaysStopped == TickerSpec => StoppedFiresNoMore
<1> DEFINE Quiet == /\ AllHeard => pending' <= pending
                    /\ AllHeard' => ticking' = {} \/ spoiled'
<1>1. TickerInv /\ TickerInv' /\ [TickerNext]_tickerVars => [Quiet]_tickerVars
  <2> SUFFICES ASSUME TickerInv, TickerInv', [TickerNext]_tickerVars PROVE Quiet
    OBVIOUS
  <2>1. AllHeard => pending' <= pending
    BY LaunchesNoMore
  <2>2. (TickerInv => (AllHeard => ticking = {} \/ spoiled))'
    BY TicksNoMore, PTL
  <2> QED
    BY <2>1, <2>2
<1>2. TickerInit /\ [][TickerNext]_tickerVars => [][Quiet]_tickerVars
  <2> HIDE DEF Quiet
  <2> QED
    BY <1>1, TickerStart, TickerStep, PTL
<1> QED
  BY <1>2, PTL DEF TickerSpec, StoppedFiresNoMore, Quiet

-----------------------------------------------------------------------------
(* The files of the phases before are written, those of the phase begun    *)
(* have a goroutine as far as it has started them, and only what a         *)
(* goroutine is done with or writing is touched.                           *)
Busy == {f \in Ids : task[f] \in {"ask", "open", "write"}}
Stages ==
  \A f \in Ids :
    /\ f[1] < phase => task[f] = "done"
    /\ f[1] = phase => (task[f] = "none" <=> f[2] >= spawned)
    /\ f[1] > phase => task[f] = "none"
Touched ==
  \A f \in Ids :
    /\ task[f] = "done" => Fresh(f)
    /\ task[f] \in {"none", "ask", "open"} => files[f].is \in {"none", "old"}
DataInv ==
  /\ DataTypeOK /\ Stages /\ Touched
  /\ IsFiniteSet(Busy) /\ snap = [f \in Ids |-> snap[f]]
  /\ process = "exited" => \A f \in Ids : task[f] = "done"

LEMMA IdsAre ==
  /\ DOMAIN Phases = 1 .. Len(Phases) /\ Len(Phases) \in Nat
  /\ \A k \in 1 .. Len(Phases) : Size(k) \in Nat \ {0}
  /\ Size(0) = 0
  /\ \A f \in Ids :
       /\ f = <<f[1], f[2]>> /\ f[1] \in 1 .. Len(Phases)
       /\ f[2] \in 0 .. Size(f[1]) - 1
  /\ \A k \in 1 .. Len(Phases) : \A i \in 0 .. Size(k) - 1 : <<k, i>> \in Ids
<1>1. /\ DOMAIN Phases = 1 .. Len(Phases) /\ Len(Phases) \in Nat
      /\ \A k \in 1 .. Len(Phases) : Phases[k].n \in Nat \ {0}
  <2> DEFINE Rows == [kind : STRING, n : Nat \ {0}]
  <2>1. Phases \in Seq(Rows)
    BY PhasesAssumption
  <2> HIDE DEF Rows
  <2>2. /\ DOMAIN Phases = 1 .. Len(Phases) /\ Len(Phases) \in Nat
        /\ \A k \in 1 .. Len(Phases) : Phases[k] \in Rows
    BY <2>1
  <2> QED
    BY <2>2 DEF Rows
<1>2. \A k \in 1 .. Len(Phases) : Size(k) = Phases[k].n
  BY <1>1 DEF Size
<1> QED
  BY <1>1, <1>2 DEF Ids, Size

(* No search it makes up is without a condition.                           *)
LEMMA NoQueryRefused ==
  ASSUME NEW f, NEW req \in RequestsOf(f), req.kind = "search"
  PROVE  StatusOf(req) # 400
<1>1. CASE Phases[f[1]].kind = "search"
  <2>1. req \in RandomQueries
    BY <1>1 DEF RequestsOf
  <2>2. PICK F : req.features = F /\ Cardinality(F) \in FeatureLengths(Len(FeatureList) - 1)
    BY <2>1 DEF RandomQueries
  <2>3. Cardinality(F) # 0
    BY <2>2 DEF FeatureLengths
  <2>4. req.features # {}
    BY <2>2, <2>3, FS_EmptySet
  <2> QED
    BY <2>4 DEF StatusOf
<1>2. CASE Phases[f[1]].kind # "search"
  BY <1>2 DEF RequestsOf, RandomConvexhulls
<1> QED
  BY <1>1, <1>2

LEMMA DataStart == DataInit => DataInv
<1> SUFFICES ASSUME DataInit PROVE DataInv
  OBVIOUS
<1> USE DEF DataInit
<1>1. Busy = {} /\ {f \in Ids : task[f] \in {"ask", "open", "write"}} = {}
  BY DEF Busy
<1>2. Conditions \ loaded = {"chair"} \cup {"estate"} /\ Cardinality({"chair"} \cup {"estate"}) = 2
  <2>1. Cardinality({"chair"}) = 1 /\ IsFiniteSet({"chair"})
    BY FS_Singleton
  <2> QED
    BY <2>1, FS_AddElement DEF Conditions
<1>3. DataTypeOK
  <2>1. wg = Cardinality(Conditions \ loaded)
             + Cardinality({f \in Ids : task[f] \in {"ask", "open", "write"}})
    BY <1>1, <1>2, FS_EmptySet
  <2>2. files \in [Ids -> [is : {"none", "old", "half", "new"}, by : Ids \cup {<<0, 0>>}]]
    BY DEF Is
  <2>3. \A f \in Ids : snap[f].req.kind = "search" => snap[f].status # 400
    BY DEF NoSnap
  <2>4. phase \in 0 .. Len(Phases) /\ spawned \in 0 .. Size(phase)
    BY IdsAre
  <2>5. task \in [Ids -> {"none", "ask", "open", "write", "done"}]
    OBVIOUS
  <2> QED
    BY <2>1, <2>2, <2>3, <2>4, <2>5 DEF DataTypeOK
<1>4. Stages /\ Touched
  BY IdsAre DEF Stages, Touched, Is
<1>5. IsFiniteSet(Busy)
  BY <1>1, FS_EmptySet
<1> QED
  BY <1>3, <1>4, <1>5 DEF DataInv

(* The WaitGroup's counter is at most the files begun and the conditions   *)
(* not loaded.                                                             *)
LEMMA WgCounts ==
  ASSUME DataInv
  PROVE  /\ IsFiniteSet(Busy) /\ Cardinality(Busy) \in Nat
         /\ IsFiniteSet(Conditions \ loaded) /\ Cardinality(Conditions \ loaded) \in Nat
         /\ wg = Cardinality(Conditions \ loaded) + Cardinality(Busy)
         /\ wg = 0 => Busy = {}
<1>1. IsFiniteSet(Conditions)
  <2>1. IsFiniteSet({"chair"})
    BY FS_Singleton
  <2> QED
    BY <2>1, FS_AddElement DEF Conditions
<1>2. IsFiniteSet(Conditions \ loaded)
  BY <1>1, FS_Subset
<1>3. IsFiniteSet(Busy) /\ wg = Cardinality(Conditions \ loaded) + Cardinality(Busy)
  BY DEF DataInv, DataTypeOK, Busy
<1>4. Cardinality(Busy) \in Nat /\ Cardinality(Conditions \ loaded) \in Nat
  BY <1>2, <1>3, FS_CardinalityType
<1>5. Cardinality(Busy) = 0 => Busy = {}
  BY <1>3, FS_EmptySet
<1> QED
  BY <1>2, <1>3, <1>4, <1>5

LEMMA LoadKeeps ==
  ASSUME DataInv, NEW c \in Conditions, Load(c)
  PROVE  DataInv'
<1> USE DEF Load
<1>1. Busy' = Busy
  BY DEF Busy
<1>2. (Conditions \ loaded)' = (Conditions \ loaded) \ {c} /\ c \in Conditions \ loaded
  OBVIOUS
<1>3. Cardinality((Conditions \ loaded)') = Cardinality(Conditions \ loaded) - 1
  BY <1>2, WgCounts, FS_RemoveElement
<1>4. DataTypeOK'
  <2>1. wg' = Cardinality((Conditions \ loaded)') + Cardinality(Busy')
    BY <1>1, <1>3, WgCounts
  <2> QED
    BY <2>1 DEF DataInv, DataTypeOK, Busy, Size
<1>5. Stages' /\ Touched'
  BY DEF DataInv, Stages, Touched, Fresh
<1> QED
  BY <1>1, <1>4, <1>5 DEF DataInv

LEMMA NextPhaseKeeps ==
  ASSUME DataInv, NextPhase
  PROVE  DataInv'
<1> USE DEF NextPhase
<1>1. Busy' = Busy /\ Busy = {}
  BY WgCounts DEF Busy
<1>2. phase \in 0 .. Len(Phases)
  BY DEF DataInv, DataTypeOK
<1>3. \A f \in Ids : f[1] <= phase => task[f] = "done"
  <2> SUFFICES ASSUME NEW f \in Ids, f[1] <= phase, task[f] # "done" PROVE FALSE
    OBVIOUS
  <2>1. f[1] = phase
    BY <1>2, IdsAre DEF DataInv, Stages
  <2>2. f[2] < spawned
    BY <2>1, IdsAre
  <2>3. task[f] # "none"
    BY <2>1, <2>2, IdsAre DEF DataInv, Stages, DataTypeOK
  <2> QED
    BY <2>3, <1>1 DEF Busy, DataInv, DataTypeOK
<1>4. CASE phase = Len(Phases)
  <2>1. \A f \in Ids : task[f] = "done"
    BY <1>3, <1>4, IdsAre
  <2> QED
    BY <1>1, <1>4, <2>1 DEF DataInv, DataTypeOK, Stages, Touched, Fresh, Size
<1>5. CASE phase # Len(Phases)
  <2>1. phase' = phase + 1 /\ spawned' = 0 /\ phase' \in 1 .. Len(Phases)
    BY <1>5, <1>2, IdsAre
  <2>2. DataTypeOK'
    BY <1>5, <2>1, IdsAre DEF DataInv, DataTypeOK
  <2>3. Stages'
    BY <1>2, <1>3, <1>5, <2>1, IdsAre DEF DataInv, Stages
  <2>4. Touched'
    BY <1>5 DEF DataInv, Touched, Fresh
  <2> QED
    BY <1>1, <1>5, <2>2, <2>3, <2>4 DEF DataInv
<1> QED
  BY <1>4, <1>5

LEMMA SpawnKeeps ==
  ASSUME DataInv, Spawn
  PROVE  DataInv'
<1> USE DEF Spawn
<1> DEFINE g == <<phase, spawned>>
<1>1. phase \in 0 .. Len(Phases) /\ spawned \in 0 .. Size(phase) - 1 /\ phase # 0
  BY IdsAre DEF DataInv, DataTypeOK
<1>2. g \in Ids /\ g[1] = phase /\ g[2] = spawned
  BY <1>1, IdsAre
<1>3. task[g] = "none"
  BY <1>1, <1>2 DEF DataInv, Stages
<1>4. \A f \in Ids : task'[f] = IF f = g THEN "ask" ELSE task[f]
  BY DEF DataInv, DataTypeOK
<1>5. Busy' = Busy \cup {g} /\ g \notin Busy
  BY <1>2, <1>3, <1>4 DEF Busy
<1>6. IsFiniteSet(Busy') /\ Cardinality(Busy') = Cardinality(Busy) + 1
  BY <1>5, WgCounts, FS_AddElement
<1>7. DataTypeOK'
  <2>1. wg' = Cardinality((Conditions \ loaded)') + Cardinality(Busy')
    BY <1>6, WgCounts
  <2> QED
    BY <1>1, <2>1, IdsAre DEF DataInv, DataTypeOK, Busy, Size
<1>8. Stages'
  <2> SUFFICES ASSUME NEW f \in Ids
               PROVE  /\ f[1] < phase => task'[f] = "done"
                      /\ f[1] = phase => (task'[f] = "none" <=> f[2] >= spawned + 1)
                      /\ f[1] > phase => task'[f] = "none"
    BY DEF Stages
  <2>1. CASE f = g
    BY <2>1, <1>1, <1>2, <1>4
  <2>2. CASE f # g
    <3>1. f[1] = phase => f[2] # spawned
      BY <2>2, IdsAre
    <3> QED
      BY <2>2, <3>1, <1>1, <1>4, IdsAre DEF DataInv, Stages
  <2> QED
    BY <2>1, <2>2
<1>9. Touched'
  <2> HIDE DEF g
  <2> QED
    BY <1>2, <1>3, <1>4 DEF DataInv, Touched, Fresh
<1> QED
  BY <1>6, <1>7, <1>8, <1>9 DEF DataInv

LEMMA GoroutineKeeps ==
  ASSUME DataInv, NEW g \in Ids, AskServer(g) \/ OpenFile(g) \/ WriteFile(g)
  PROVE  DataInv'
<1>1. /\ process = "run" /\ UNCHANGED <<process, loaded, phase, spawned>>
      /\ task[g] \in {"ask", "open", "write"} /\ task'[g] # "none"
      /\ \A f \in Ids : f # g => task'[f] = task[f] /\ files'[f] = files[f]
  BY DEF AskServer, OpenFile, WriteFile, DataInv, DataTypeOK
<1>2. CASE AskServer(g) \/ OpenFile(g)
  <2>1. Busy' = Busy
    BY <1>1, <1>2 DEF Busy, AskServer, OpenFile, DataInv, DataTypeOK
  <2>2. wg' = wg /\ UNCHANGED loaded
    BY <1>2 DEF AskServer, OpenFile
  <2>3. wg' = Cardinality((Conditions \ loaded)') + Cardinality(Busy')
    BY <2>1, <2>2, WgCounts
  <2>4. \A f \in Ids : snap'[f].req.kind = "search" => snap'[f].status # 400
    BY <1>2, NoQueryRefused DEF AskServer, OpenFile, DataInv, DataTypeOK
  <2>5. DataTypeOK'
    BY <1>1, <1>2, <2>3, <2>4 DEF AskServer, OpenFile, DataInv, DataTypeOK, Busy, Size, Is
  <2>6. Touched'
    BY <1>1, <1>2 DEF AskServer, OpenFile, DataInv, DataTypeOK, Touched, Fresh, Is
  <2>7. Stages'
    BY <1>1, <1>2 DEF AskServer, OpenFile, DataInv, DataTypeOK, Stages
  <2>8. snap' = [f \in Ids |-> snap'[f]]
    BY <1>2 DEF AskServer, OpenFile, DataInv
  <2> QED
    BY <1>1, <2>1, <2>5, <2>6, <2>7, <2>8 DEF DataInv
<1>3. CASE WriteFile(g)
  <2> USE <1>3 DEF WriteFile
  <2>1. Busy' = Busy \ {g} /\ g \in Busy
    BY <1>1 DEF Busy, DataInv, DataTypeOK
  <2>2. IsFiniteSet(Busy') /\ Cardinality(Busy') = Cardinality(Busy) - 1
    BY <2>1, WgCounts, FS_RemoveElement
  <2>3. wg' = Cardinality((Conditions \ loaded)') + Cardinality(Busy')
    BY <2>2, WgCounts
  <2>4. \A f \in Ids : snap'[f].req.kind = "search" => snap'[f].status # 400
    BY DEF NoSnap, DataInv, DataTypeOK
  <2>5. DataTypeOK'
    BY <2>3, <2>4 DEF DataInv, DataTypeOK, Busy, Size, WrittenBy
  <2>6. Touched'
    BY <1>1 DEF DataInv, DataTypeOK, Touched, Fresh, WrittenBy
  <2>7. Stages'
    BY <1>1 DEF DataInv, DataTypeOK, Stages
  <2>8. snap' = [f \in Ids |-> snap'[f]]
    BY DEF DataInv
  <2> QED
    BY <1>1, <2>2, <2>5, <2>6, <2>7, <2>8 DEF DataInv
<1> QED
  BY <1>2, <1>3

LEMMA DataStep == DataInv /\ [DataNext]_dataVars => DataInv'
<1> SUFFICES ASSUME DataInv, [DataNext]_dataVars PROVE DataInv'
  OBVIOUS
<1>1. CASE Dies \/ UNCHANGED dataVars
  <2>1. /\ UNCHANGED <<loaded, phase, spawned, wg, task, snap, files>>
        /\ process' \in {"dead", process}
    BY <1>1 DEF Dies, dataVars
  <2> QED
    BY <2>1 DEF DataInv, DataTypeOK, Busy, Stages, Touched, Fresh, Size
<1> QED
  BY <1>1, LoadKeeps, NextPhaseKeeps, SpawnKeeps, GoroutineKeeps DEF DataNext

LEMMA BarrierHolds == DataInv => PhasesAreBarriers
<1> SUFFICES ASSUME DataInv PROVE PhasesAreBarriers
  OBVIOUS
<1>1. ASSUME NEW f \in Ids, NEW g \in Ids, f[1] < g[1], files[g].is \in {"half", "new"}
      PROVE  Fresh(f)
  <2>1. task[g] \notin {"none", "ask", "open"}
    BY <1>1 DEF DataInv, Touched
  <2>2. ~(g[1] > phase)
    BY <2>1 DEF DataInv, Stages
  <2>3. f[1] < phase
    BY <1>1, <2>2, IdsAre DEF DataInv, DataTypeOK
  <2> QED
    BY <2>3 DEF DataInv, Stages, Touched
<1> QED
  BY <1>1 DEF PhasesAreBarriers, DataInv, Touched

(* A phase of the generator touches its files only when those of all the   *)
(* phases before are written, and a run that ends well wrote every file    *)
(* anew: the WaitGroup counts exactly the goroutines that are not done.    *)
THEOREM DataBarriers == DataSpec => []PhasesAreBarriers
<1> QED
  BY DataStart, DataStep, BarrierHolds, PTL DEF DataSpec

(* A polygon that was asked for was made of the points of a cloud.         *)
HullInv ==
  \A f \in Ids : snap[f].req.kind = "nazotte" => snap[f].req \in RandomConvexhulls

LEMMA HullRequests ==
  ASSUME NEW f, NEW req \in RequestsOf(f), req.kind = "nazotte"
  PROVE  req \in RandomConvexhulls
<1>1. CASE Phases[f[1]].kind = "nazotte"
  BY <1>1 DEF RequestsOf
<1>2. CASE Phases[f[1]].kind # "nazotte"
  BY <1>2 DEF RequestsOf, RandomQueries
<1> QED
  BY <1>1, <1>2

LEMMA HullStep == DataInv /\ HullInv /\ [DataNext]_dataVars => HullInv'
<1> SUFFICES ASSUME DataInv, HullInv, [DataNext]_dataVars PROVE HullInv'
  OBVIOUS
<1> HIDE DEF RandomConvexhulls
<1>1. ASSUME NEW g \in Ids, AskServer(g) PROVE HullInv'
  BY <1>1, HullRequests DEF AskServer, HullInv, DataInv
<1>2. ASSUME NEW g \in Ids, WriteFile(g) PROVE HullInv'
  BY <1>2 DEF WriteFile, HullInv, DataInv, NoSnap
<1>3. CASE UNCHANGED snap
  BY <1>3 DEF HullInv
<1> QED
  BY <1>1, <1>2, <1>3 DEF DataNext, Load, NextPhase, Spawn, Dies, OpenFile, dataVars

LEMMA HullsHold == HullInv => HullsAreConvex
<1> SUFFICES ASSUME HullInv, NEW f \in Ids, snap[f].req.kind = "nazotte",
                    ~\E a \in snap[f].req.cloud :
                       Cardinality({b \in snap[f].req.cloud : b[1] = a[1]}) > 2
             PROVE  \A c \in UNION Clouds :
                      RingContains(snap[f].req.ring, c) <=> HullContains(snap[f].req.cloud, c)
  BY DEF HullsAreConvex
<1> TAKE c \in UNION Clouds
<1>1. PICK P \in Clouds :
        \E w \in SortedAs(P) :
          snap[f].req = [kind |-> "nazotte", cloud |-> P,
                         ring |-> LET h == HullOf(w) IN Append(h, h[1])]
  BY DEF HullInv, RandomConvexhulls
<1>2. PICK s \in SortedAs(P) :
      snap[f].req = [kind |-> "nazotte", cloud |-> P,
                     ring |-> LET h == HullOf(s) IN Append(h, h[1])]
  BY <1>1
<1>3. snap[f].req.cloud = P /\ snap[f].req.ring = Append(HullOf(s), HullOf(s)[1])
  BY <1>2
<1>4. P \subseteq Int \X Int /\ IsFiniteSet(P) /\ Cardinality(P) >= 2 /\ c \in Int \X Int
  BY CloudsAssumption
<1>5. \A a \in P : ~(Cardinality({b \in P : b[1] = a[1]}) > 2)
  BY <1>3
<1> QED
  BY <1>3, <1>4, <1>5, SortedHullIsHull

(* Every polygon sent is the convex hull of the points drawn, for any      *)
(* points no three of which share their latitude.                          *)
THEOREM DataHulls == DataSpec => []HullsAreConvex
<1>1. DataInit => HullInv
  BY DEF DataInit, HullInv, NoSnap
<1> QED
  BY <1>1, DataStart, DataStep, HullStep, HullsHold, PTL DEF DataSpec

(* Both tools keep their types, in whatever order they take their steps.   *)
THEOREM ToolsTypes == MCSpec => []ToolsTypeOK
<1>1. MCInit => TickerInv /\ DataInv
  BY TickerStart, DataStart DEF MCInit
<1>2. TickerInv /\ DataInv /\ [MCNext]_<<tickerVars, dataVars, tool>> => (TickerInv /\ DataInv)'
  BY TickerStep, DataStep DEF MCNext
<1>3. TickerInv /\ DataInv => ToolsTypeOK
  BY DEF TickerInv, DataInv, ToolsTypeOK
<1> QED
  BY <1>1, <1>2, <1>3, PTL DEF MCSpec
=============================================================================
