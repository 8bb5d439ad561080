------------------------------ MODULE ChairEdge ------------------------------
(***************************************************************************)
(* GET /api/chair/:id on its way through OpenResty: the Lua access check   *)
(* against the sold-out list, the proxy cache with its lock, and           *)
(* getChairDetail of the Go application behind them, all interleaved with  *)
(* the writers of ChairShop.  A viewer asks for its URI again and again.   *)
(***************************************************************************)
EXTENDS ChairShop

CONSTANTS
  Viewers,  \* clients that ask for a chair's detail
  Asks      \* the URI each of them asks for: a chair and how it is written

(* "plain" is /api/chair/7, "zero" is /api/chair/07: Lua reads "07", which  *)
(* is no member of the list, and strconv.Atoi reads 7.                     *)
Forms == {"plain", "zero"}
Uris == {Asks[v] : v \in Viewers}

ASSUME AsksAssumption == Asks \in [Viewers -> [chair : Chairs, form : Forms]]

VARIABLES
  cache,    \* zone1 by URI: "none", "fresh" (within its minute) or "stale"
  kept,     \* the status of the answer zone1 has for a URI, 0 without one
  lock,     \* the viewer that fills the missing entry of a URI, if any
  vpc,      \* where each viewer's request is
  vstatus,  \* the status it will be or was answered with, 0 before that
  source,   \* who decided that status: "list", "cache" or "app"
  stores,   \* the answer of the application may be put into the cache
  doomed,   \* history: the chair was known to be sold out when it asked
  wasOut    \* history: the chair was out of stock at some time since it asked

edgeVars == <<cache, kept, lock, vpc, vstatus, source, stores, doomed>>
viewVars == <<vars, edgeVars, wasOut>>

ChairOf(v) == Asks[v].chair

EdgeInit ==
  /\ Init
  /\ cache = [u \in Uris |-> "none"]
  /\ kept = [u \in Uris |-> 0]
  /\ lock = [u \in Uris |-> {}]
  /\ vpc = [v \in Viewers |-> "idle"]
  /\ vstatus = [v \in Viewers |-> 0]
  /\ source = [v \in Viewers |-> "none"]
  /\ stores = [v \in Viewers |-> FALSE]
  /\ doomed = [v \in Viewers |-> FALSE]
  /\ wasOut = [v \in Viewers |-> FALSE]

Goes(v, from, to) == vpc[v] = from /\ vpc' = [vpc EXCEPT ![v] = to]
Decides(v, s, who) ==
  /\ vstatus' = [vstatus EXCEPT ![v] = s]
  /\ source' = [source EXCEPT ![v] = who]

NoInitialize == \A i \in Initializers : pc[i] = "idle"

(* The buyer of the chair's last unit has been answered 200.               *)
SoldOutKnown(c) ==
  /\ NoInitialize
  /\ \E b \in Buyers : Want[b] = c /\ seen[b] = 0 /\ pc[b] = "done" /\ status[b] = 200

ViewArrive(v) ==
  /\ Goes(v, "idle", "access")
  /\ doomed' = [doomed EXCEPT ![v] = SoldOutKnown(ChairOf(v))]
  /\ UNCHANGED <<vars, cache, kept, lock, vstatus, source, stores>>

ViewAgain(v) ==
  /\ Goes(v, "done", "idle")
  /\ Decides(v, 0, "none")
  /\ UNCHANGED <<vars, cache, kept, lock, stores, doomed>>

-----------------------------------------------------------------------------
(* chair_redis_cache.lua.                                                  *)

Listed(u) == u.form # "zero" /\ u.chair \in soldOut

AccessListed(v) ==
  /\ redisUp
  /\ Listed(Asks[v])
  /\ Goes(v, "access", "done")
  /\ Decides(v, 404, "list")
  /\ UNCHANGED <<vars, cache, kept, lock, stores, doomed>>

(* Mutant: a chair the list has passes while it is in the cache. *)
AccessPassesCached(v) ==
  /\ ~Listed(Asks[v]) \/ ~redisUp \/ "redis" \in Faults \/ cache[Asks[v]] = "fresh"
  /\ Goes(v, "access", "cache")
  /\ UNCHANGED <<vars, cache, kept, lock, vstatus, source, stores, doomed>>
(* Not on the list; or Redis does not answer, which lets everyone pass.    *)
AccessPasses(v) ==
  /\ ~Listed(Asks[v]) \/ ~redisUp \/ "redis" \in Faults
  /\ Goes(v, "access", "cache")
  /\ UNCHANGED <<vars, cache, kept, lock, vstatus, source, stores, doomed>>

-----------------------------------------------------------------------------
(* proxy_cache zone1, proxy_cache_lock on, proxy_cache_valid 200 1m.       *)

CacheHit(v) ==
  /\ cache[Asks[v]] = "fresh"
  /\ Goes(v, "cache", "done")
  /\ Decides(v, kept[Asks[v]], "cache")
  /\ UNCHANGED <<vars, cache, kept, lock, stores, doomed>>

(* A missing entry is filled by whoever has its lock.                      *)
CacheLock(v) ==
  /\ cache[Asks[v]] = "none" /\ lock[Asks[v]] = {}
  /\ Goes(v, "cache", "app")
  /\ lock' = [lock EXCEPT ![Asks[v]] = {v}]
  /\ stores' = [stores EXCEPT ![v] = TRUE]
  /\ UNCHANGED <<vars, cache, kept, vstatus, source, doomed>>

CacheWait(v) ==
  /\ cache[Asks[v]] = "none" /\ lock[Asks[v]] # {}
  /\ Goes(v, "cache", "wait")
  /\ UNCHANGED <<vars, cache, kept, lock, vstatus, source, stores, doomed>>

(* The lock is for new entries: everyone refreshes an expired one.         *)
CacheStale(v) ==
  /\ cache[Asks[v]] = "stale"
  /\ Goes(v, "cache", "app")
  /\ stores' = [stores EXCEPT ![v] = TRUE]
  /\ UNCHANGED <<vars, cache, kept, lock, vstatus, source, doomed>>

Wake(v) ==
  /\ lock[Asks[v]] = {}
  /\ Goes(v, "wait", "cache")
  /\ UNCHANGED <<vars, cache, kept, lock, vstatus, source, stores, doomed>>

(* Mutant: whoever waits for the lock waits for ever. *)
LockTimeoutOff(v) == FALSE
(* proxy_cache_lock_timeout: on to the application, whose answer is not    *)
(* put into the cache.                                                     *)
LockTimeout(v) ==
  /\ Goes(v, "wait", "app")
  /\ stores' = [stores EXCEPT ![v] = FALSE]
  /\ UNCHANGED <<vars, cache, kept, lock, vstatus, source, doomed>>

(* proxy_cache_lock_age: the lock is taken from a slow viewer, which may   *)
(* store what it gets all the same.                                        *)
LockAges(u) ==
  /\ lock[u] # {}
  /\ lock' = [lock EXCEPT ![u] = {}]
  /\ UNCHANGED <<vars, cache, kept, vpc, vstatus, source, stores, doomed>>

-----------------------------------------------------------------------------
(* getChairDetail.                                                         *)

DetailStatus(c) == IF InStock(c) THEN 200 ELSE 404

AppRead(v) ==
  /\ appUp
  /\ Goes(v, "app", "answer")
  /\ \/ Decides(v, DetailStatus(ChairOf(v)), "app")
     \/ "db" \in Faults /\ Decides(v, 500, "app")
  /\ UNCHANGED <<vars, cache, kept, lock, stores, doomed>>

AppUnreachable(v) ==
  /\ ~appUp
  /\ Goes(v, "app", "answer")
  /\ Decides(v, 502, "app")
  /\ UNCHANGED <<vars, cache, kept, lock, stores, doomed>>

(* Mutant: a 404 is cached like a 200. *)
CacheableAny(s) == s \in {200, 404}
Cacheable(s) == s = 200

(* The answer passes the proxy, which stores it and releases the lock.     *)
Respond(v) ==
  /\ Goes(v, "answer", "done")
  /\ IF stores[v] /\ Cacheable(vstatus[v])
       THEN /\ cache' = [cache EXCEPT ![Asks[v]] = "fresh"]
            /\ kept' = [kept EXCEPT ![Asks[v]] = vstatus[v]]
       ELSE UNCHANGED <<cache, kept>>
  /\ lock' = [lock EXCEPT ![Asks[v]] = @ \ {v}]
  /\ stores' = [stores EXCEPT ![v] = FALSE]
  /\ UNCHANGED <<vars, vstatus, source, doomed>>

(* Mutant: an entry is valid for ever.                                     *)
ExpireNever(u) == FALSE
(* A minute passes; or the entry is not used for an hour, or the zone is   *)
(* full.                                                                   *)
Expire(u) ==
  /\ cache[u] = "fresh"
  /\ cache' = [cache EXCEPT ![u] = "stale"]
  /\ UNCHANGED <<vars, kept, lock, vpc, vstatus, source, stores, doomed>>
Evict(u) ==
  /\ cache[u] # "none"
  /\ cache' = [cache EXCEPT ![u] = "none"]
  /\ kept' = [kept EXCEPT ![u] = 0]
  /\ UNCHANGED <<vars, lock, vpc, vstatus, source, stores, doomed>>

ViewProgress(v) ==
  \/ AccessListed(v) \/ AccessPasses(v)
  \/ CacheHit(v) \/ CacheLock(v) \/ CacheWait(v) \/ CacheStale(v)
  \/ Wake(v) \/ LockTimeout(v)
  \/ AppRead(v) \/ AppUnreachable(v) \/ Respond(v)

-----------------------------------------------------------------------------
(* A step of ChairShop; when it ends the process, the proxy answers 502 to *)
(* the viewers the process was serving, those included whose answer was    *)
(* decided but had not reached the proxy.                                  *)
BreakOff(S) ==
  /\ vpc' = [v \in Viewers |-> IF vpc[v] = "app" THEN "answer" ELSE vpc[v]]
  /\ vstatus' = [v \in Viewers |-> IF vpc[v] = "app" \/ v \in S THEN 502 ELSE vstatus[v]]
ShopStep ==
  /\ Next
  /\ IF appUp /\ ~appUp'
       THEN \E S \in SUBSET {v \in Viewers : vpc[v] = "answer"} : BreakOff(S)
       ELSE UNCHANGED <<vpc, vstatus>>
  /\ UNCHANGED <<cache, kept, lock, source, stores, doomed>>

Observe ==
  wasOut' = [v \in Viewers |->
               vpc'[v] # "idle" /\ (wasOut[v] \/ ~InStock(ChairOf(v))')]

EdgeNext ==
  /\ \/ \E v \in Viewers : ViewArrive(v) \/ ViewAgain(v) \/ ViewProgress(v)
     \/ \E u \in Uris : LockAges(u) \/ Expire(u) \/ Evict(u)
     \/ ShopStep
  /\ Observe

EdgeSpec == EdgeInit /\ [][EdgeNext]_viewVars

(* Every call ends, every wait for the lock times out after five seconds   *)
(* in all, and a minute passes for every entry.                            *)
EdgeFairSpec ==
  /\ EdgeSpec
  /\ \A v \in Viewers :
       WF_viewVars(ViewProgress(v) /\ Observe) /\ SF_viewVars(LockTimeout(v) /\ Observe)
  /\ \A u \in Uris : WF_viewVars(Expire(u) /\ Observe)
-----------------------------------------------------------------------------
(* The variables of the proxy have the types the rest assumes, and the     *)
(* holder of a lock is a viewer of that URI.                               *)
EdgeTypeOK ==
  /\ cache \in [Uris -> {"none", "fresh", "stale"}]
  /\ kept \in [Uris -> {0, 200}] /\ \A u \in Uris : cache[u] = "none" <=> kept[u] = 0
  /\ lock \in [Uris -> SUBSET Viewers]
  /\ \A u \in Uris : \A v \in lock[u] : Asks[v] = u
  /\ vpc \in [Viewers -> {"idle", "access", "cache", "wait", "app", "answer", "done"}]
  /\ vstatus \in [Viewers -> {0, 200, 404, 500, 502}]
  /\ source \in [Viewers -> {"none", "list", "cache", "app"}]
  /\ stores \in [Viewers -> BOOLEAN]
  /\ doomed \in [Viewers -> BOOLEAN] /\ wasOut \in [Viewers -> BOOLEAN]

(* Whoever asks for a chair after the buyer of its last unit was told 200  *)
(* is not shown it: not by the application, and not by the cache either,   *)
(* however late an older answer was put there, as long as Redis answers    *)
(* and the URI is one the Lua check reads the id from.                     *)
SoldOutIsHidden ==
  \A v \in Viewers :
    (vpc[v] = "done" /\ vstatus[v] = 200 /\ doomed[v] /\ NoInitialize)
      => source[v] = "cache" /\ ("redis" \in Faults \/ Asks[v].form = "zero")

(* Whoever is told 404 asked for a chair that was out of stock or not yet  *)
(* posted at some time since it asked: no refusal is remembered, by the    *)
(* cache or by the list, past the posting of the chair.                    *)
NoFalseSoldOut ==
  \A v \in Viewers :
    (vstatus[v] = 404 /\ NoInitialize) => wasOut[v]

(* Once a chair is known to be sold out its entries leave the cache and    *)
(* none comes back, though clients keep asking and Redis may be down.      *)
SoldOutLeavesCache ==
  \A u \in Uris : SoldOutKnown(u.chair) ~> [](NoInitialize => cache[u] # "fresh")

(* Every viewer is answered, the ones behind a lock whose holder failed or *)
(* got nothing worth storing included.                                     *)
EveryViewerAnswered ==
  \A v \in Viewers : (vpc[v] # "idle") ~> (vpc[v] = "done")
=============================================================================
