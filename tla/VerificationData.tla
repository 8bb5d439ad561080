--------------------------- MODULE VerificationData ---------------------------
(***************************************************************************)
(* The generator of the verification data.  It loads two condition files,  *)
(* then goes through its phases: a phase starts a goroutine for each of    *)
(* its files, which asks the server and writes the request with its        *)
(* answer, and ends when all of them are done.  A failing request or write *)
(* panics and ends the process; nothing removes the files of an earlier    *)
(* run.                                                                    *)
(***************************************************************************)
EXTENDS Polygon

CONSTANTS
  Phases,   \* the phases in their order: [kind, n], n the number of files
  FeatureList, \* the features of a condition file
  KnownIds, \* the ids the server has
  Clouds,   \* the sets of points createRandomConvexhull may draw
  OldFiles  \* the files an earlier run left

Ids == UNION {{<<k, i>> : i \in 0 .. Phases[k].n - 1} : k \in DOMAIN Phases}
ASSUME PhasesAssumption == Phases \in Seq([kind : STRING, n : Nat \ {0}])
ASSUME CloudsAssumption ==
  \A P \in Clouds : P \subseteq Int \X Int /\ IsFiniteSet(P) /\ Cardinality(P) >= 2

VARIABLES
  process, \* "run", "exited" or "dead"
  loaded,  \* the condition files read
  phase,   \* the phase begun, 0 while the conditions are loaded
  spawned, \* the goroutines it has started
  wg,      \* the counter of the WaitGroup
  task,    \* of each file: "none", "ask", "open", "write" or "done"
  snap,    \* the snapshot its goroutine holds
  files    \* of each file: "none", "old", "half", or the goroutine that wrote it

dataVars == <<process, loaded, phase, spawned, wg, task, snap, files>>

Conditions == {"chair", "estate"}
Is(state) == [is |-> state, by |-> <<0, 0>>]
WrittenBy(f) == [is |-> "new", by |-> f]
NoSnap == [req |-> [kind |-> "none"], status |-> 0]
-----------------------------------------------------------------------------
(* createRandomChairSearchQuery, createRandomEstateSearchQuery: one to     *)
(* three features, never the last, and perhaps a range.                    *)
FeatureLengths(n) == 1 .. Min({3, n})
RandomQueries ==
  {[kind |-> "search", features |-> F, range |-> r] :
     F \in {G \in SUBSET ToSet(Front(FeatureList)) :
              Cardinality(G) \in FeatureLengths(Len(FeatureList) - 1)},
     r \in BOOLEAN}

(* createRandomConvexhull closes the hull.                                 *)
RandomConvexhulls ==
  UNION {{[kind |-> "nazotte", cloud |-> P, ring |-> LET h == HullOf(s) IN Append(h, h[1])] :
            s \in SortedAs(P)} : P \in Clouds}

RequestsOf(id) ==
  LET kind == Phases[id[1]].kind
  IN  CASE kind = "search" -> RandomQueries
        [] kind = "nazotte" -> RandomConvexhulls
        [] kind = "detail" -> {[kind |-> "detail", id |-> id[2]]}
        [] OTHER -> {[kind |-> kind]}

(* What the server answers when it is not in trouble.                      *)
StatusOf(req) ==
  CASE req.kind = "search" /\ req.features = {} /\ ~req.range -> 400
    [] req.kind = "detail" /\ req.id \notin KnownIds -> 404
    [] OTHER -> 200
-----------------------------------------------------------------------------
DataInit ==
  /\ process = "run" /\ loaded = {} /\ phase = 0 /\ spawned = 0 /\ wg = 2
  /\ task = [f \in Ids |-> "none"] /\ snap = [f \in Ids |-> NoSnap]
  /\ files = [f \in Ids |-> Is(IF f \in OldFiles THEN "old" ELSE "none")]

Load(c) ==
  /\ process = "run" /\ c \notin loaded
  /\ loaded' = loaded \cup {c} /\ wg' = wg - 1
  /\ UNCHANGED <<process, phase, spawned, task, snap, files>>

(* wg.Wait, and the next phase or the end of main.                         *)
Size(k) == IF k = 0 THEN 0 ELSE Phases[k].n
(* Mutant: the phase is not waited for. *)
NextPhaseAtOnce ==
  /\ process = "run" /\ spawned = Size(phase) /\ (phase = 0 => wg = 0)
  /\ IF phase = Len(Phases) THEN process' = "exited" /\ UNCHANGED <<phase, spawned>>
     ELSE phase' = phase + 1 /\ spawned' = 0 /\ UNCHANGED process
  /\ UNCHANGED <<loaded, wg, task, snap, files>>
NextPhase ==
  /\ process = "run" /\ spawned = Size(phase) /\ wg = 0
  /\ IF phase = Len(Phases) THEN process' = "exited" /\ UNCHANGED <<phase, spawned>>
     ELSE phase' = phase + 1 /\ spawned' = 0 /\ UNCHANGED process
  /\ UNCHANGED <<loaded, wg, task, snap, files>>

(* wg.Add(1), go func(id int).                                             *)
Spawn ==
  /\ process = "run" /\ spawned < Size(phase)
  /\ task' = [task EXCEPT ![<<phase, spawned>>] = "ask"]
  /\ spawned' = spawned + 1 /\ wg' = wg + 1
  /\ UNCHANGED <<process, loaded, phase, snap, files>>

(* The request is made up and answered: with an error of the server too,   *)
(* whose status is part of the snapshot.                                   *)
AskServer(f) ==
  /\ process = "run" /\ task[f] = "ask"
  /\ \E req \in RequestsOf(f), s \in {200, 500} :
       snap' = [snap EXCEPT ![f] =
                  [req |-> req, status |-> IF s = 500 THEN 500 ELSE StatusOf(req)]]
  /\ task' = [task EXCEPT ![f] = "open"]
  /\ UNCHANGED <<process, loaded, phase, spawned, wg, files>>

(* ioutil.WriteFile truncates the file, then writes it.                    *)
OpenFile(f) ==
  /\ process = "run" /\ task[f] = "open"
  /\ files' = [files EXCEPT ![f] = Is("half")] /\ task' = [task EXCEPT ![f] = "write"]
  /\ UNCHANGED <<process, loaded, phase, spawned, wg, snap>>
(* Mutant: wg.Done is forgotten. *)
WriteFileNotDone(f) ==
  /\ process = "run" /\ task[f] = "write"
  /\ files' = [files EXCEPT ![f] = WrittenBy(f)]
  /\ task' = [task EXCEPT ![f] = "done"] /\ snap' = [snap EXCEPT ![f] = NoSnap]
  /\ UNCHANGED <<process, loaded, phase, spawned, wg>>
WriteFile(f) ==
  /\ process = "run" /\ task[f] = "write"
  /\ files' = [files EXCEPT ![f] = WrittenBy(f)]
  /\ task' = [task EXCEPT ![f] = "done"] /\ wg' = wg - 1
  /\ snap' = [snap EXCEPT ![f] = NoSnap]
  /\ UNCHANGED <<process, loaded, phase, spawned>>

(* log.Fatal of a loader, a panic of MkdirIfNotExists or of a goroutine.   *)
Dies ==
  /\ process = "run"
  /\ \/ loaded # Conditions
     \/ phase > 0 /\ spawned = 0
     \/ \E f \in Ids : task[f] \in {"ask", "open", "write"}
  /\ process' = "dead"
  /\ UNCHANGED <<loaded, phase, spawned, wg, task, snap, files>>

DataNext ==
  \/ \E c \in Conditions : Load(c)
  \/ NextPhase \/ Spawn \/ Dies
  \/ \E f \in Ids : AskServer(f) \/ OpenFile(f) \/ WriteFile(f)

(* The goroutines are scheduled, and every request ends: http.DefaultClient *)
(* has no timeout, so this is the server's part.                           *)
DataFairness == WF_dataVars(DataNext)
DataSpec == DataInit /\ [][DataNext]_dataVars /\ DataFairness
-----------------------------------------------------------------------------
Fresh(f) == files[f] = WrittenBy(f)

(* The variables have their types, and the WaitGroup counts the goroutines *)
(* that are not done; and no search it makes up is refused for want of a   *)
(* condition.                                                              *)
DataTypeOK ==
  /\ process \in {"run", "exited", "dead"} /\ loaded \subseteq Conditions
  /\ phase \in 0 .. Len(Phases) /\ spawned \in 0 .. Size(phase)
  /\ task \in [Ids -> {"none", "ask", "open", "write", "done"}]
  /\ files \in [Ids -> [is : {"none", "old", "half", "new"}, by : Ids \cup {<<0, 0>>}]]
  /\ wg = Cardinality(Conditions \ loaded)
          + Cardinality({f \in Ids : task[f] \in {"ask", "open", "write"}})
  /\ \A f \in Ids : snap[f].req.kind = "search" => snap[f].status # 400

(* A phase touches its files only when those of the phases before are all  *)
(* written: what a run that died left is new before some phase, old or     *)
(* missing after it; and a run that ends well leaves no file of an earlier *)
(* run, none half written, and every snapshot in its own file.             *)
PhasesAreBarriers ==
  /\ \A f, g \in Ids : f[1] < g[1] /\ files[g].is \in {"half", "new"} => Fresh(f)
  /\ process = "exited" => \A f \in Ids : Fresh(f)

(* The polygon sent is the convex hull of the points drawn, for the server *)
(* that answers by the ring, unless three of the points share their        *)
(* latitude: the comparator does not order those, and the middle one may   *)
(* come first or last.                                                     *)
HullsAreConvex ==
  \A f \in Ids : snap[f].req.kind = "nazotte" =>
    LET P == snap[f].req.cloud
    IN  \/ \E a \in P : Cardinality({b \in P : b[1] = a[1]}) > 2
        \/ \A c \in UNION Clouds : RingContains(snap[f].req.ring, c) <=> HullContains(P, c)

(* A run that has its conditions ends: no goroutine is waited for that     *)
(* will not be done.                                                       *)
EveryRunEnds == loaded = Conditions ~> process # "run"
=============================================================================
