-------------------------------- MODULE Ticker --------------------------------
(***************************************************************************)
(* The ticker of gotemplates: Start loops in a goroutine of its own and    *)
(* starts the callback at every tick, Stop hands the loop a value over a   *)
(* channel without buffer, Reset begins the period anew.  The field t is   *)
(* read and written without a lock.                                        *)
(***************************************************************************)
EXTENDS Naturals, FiniteSets

CONSTANTS
  Starters, \* the goroutines that call Start
  Stoppers, \* those that call Stop
  MaxPending \* bound on the callbacks launched and not run yet

ASSUME TickerAssumption == MaxPending \in Nat /\ IsFiniteSet(Starters) /\ IsFiniteSet(Stoppers)

NoTimer == "none"

VARIABLES
  loop,     \* of each Start: "idle", "made" (its timer), "top" (of the loop),
            \* "waiting" in the select, "returned"
  deferred, \* the timer its return will stop
  waits,    \* the timer whose channel its select waits on
  t,        \* the field t: the timer of the last Start
  ticking,  \* the timers that tick
  tick,     \* those with a tick in their channel, which holds one
  stop,     \* of each Stop: "idle", "sending", "done", or "skipped" as t was nil
  pending,  \* the callbacks a go statement launched that have not run
  spoiled   \* history: a Start came between another's NewTicker and defer, or
            \* Reset started the timer of a loop that had returned

tickerVars == <<loop, deferred, waits, t, ticking, tick, stop, pending, spoiled>>
-----------------------------------------------------------------------------
TickerInit ==
  /\ loop = [s \in Starters |-> "idle"]
  /\ deferred = [s \in Starters |-> NoTimer] /\ waits = [s \in Starters |-> NoTimer]
  /\ t = NoTimer /\ ticking = {} /\ tick = {}
  /\ stop = [p \in Stoppers |-> "idle"]
  /\ pending = 0 /\ spoiled = FALSE

Steps(s, from, to) == loop[s] = from /\ loop' = [loop EXCEPT ![s] = to]

(* Start makes a timer, then reads the field again for the defer, and at   *)
(* every turn of the loop for the select: another Start may have set it.   *)
Start(s) ==
  /\ Steps(s, "idle", "made")
  /\ t' = s /\ ticking' = ticking \cup {s}
  /\ spoiled' = (spoiled \/ \E o \in Starters : loop[o] = "made")
  /\ UNCHANGED <<deferred, waits, tick, stop, pending>>
Defer(s) ==
  /\ Steps(s, "made", "top")
  /\ deferred' = [deferred EXCEPT ![s] = t]
  /\ UNCHANGED <<waits, t, ticking, tick, stop, pending, spoiled>>
Select(s) ==
  /\ Steps(s, "top", "waiting")
  /\ waits' = [waits EXCEPT ![s] = t]
  /\ UNCHANGED <<deferred, t, ticking, tick, stop, pending, spoiled>>

(* time.Ticker drops a tick nobody took.                                   *)
TickOf(s) ==
  /\ s \in ticking /\ tick' = tick \cup {s}
  /\ UNCHANGED <<loop, deferred, waits, t, ticking, stop, pending, spoiled>>

(* go t.f(): the callback runs in a goroutine of its own, whenever it is   *)
(* scheduled.                                                              *)
Fire(s) ==
  /\ waits[s] \in tick /\ pending < MaxPending
  /\ Steps(s, "waiting", "top")
  /\ tick' = tick \ {waits[s]} /\ pending' = pending + 1
  /\ UNCHANGED <<deferred, waits, t, ticking, stop, spoiled>>
Callback ==
  /\ pending > 0 /\ pending' = pending - 1
  /\ UNCHANGED <<loop, deferred, waits, t, ticking, tick, stop, spoiled>>

(* Stop reads t without synchronisation: it may see nil after Start too.   *)
(* Mutant: Stop sends whatever t is. *)
StopCallAlways(p) ==
  /\ stop[p] = "idle"
  /\ stop' = [stop EXCEPT ![p] = "sending"]
  /\ UNCHANGED <<loop, deferred, waits, t, ticking, tick, pending, spoiled>>
StopCall(p) ==
  /\ stop[p] = "idle"
  /\ stop' = [stop EXCEPT ![p] = "skipped"] \/ (t # NoTimer /\ stop' = [stop EXCEPT ![p] = "sending"])
  /\ UNCHANGED <<loop, deferred, waits, t, ticking, tick, pending, spoiled>>

(* Mutant: the timer is stopped by the caller, not by a defer. *)
HandOverNoDefer(s, p) ==
  /\ Steps(s, "waiting", "returned")
  /\ stop[p] = "sending" /\ stop' = [stop EXCEPT ![p] = "done"]
  /\ UNCHANGED <<deferred, waits, t, ticking, tick, pending, spoiled>>
(* Mutant: the loop looks at its ticks first. *)
HandOverAfterTicks(s, p) ==
  /\ waits[s] \notin tick
  /\ Steps(s, "waiting", "returned")
  /\ stop[p] = "sending" /\ stop' = [stop EXCEPT ![p] = "done"]
  /\ ticking' = ticking \ {deferred[s]}
  /\ UNCHANGED <<deferred, waits, t, tick, pending, spoiled>>
HandOver(s, p) ==
  /\ Steps(s, "waiting", "returned")
  /\ stop[p] = "sending" /\ stop' = [stop EXCEPT ![p] = "done"]
  /\ ticking' = ticking \ {deferred[s]}
  /\ UNCHANGED <<deferred, waits, t, tick, pending, spoiled>>

(* time.Ticker.Reset starts a stopped timer again.                         *)
Reset ==
  /\ t # NoTimer /\ ticking' = ticking \cup {t}
  /\ spoiled' = (spoiled \/ loop[t] = "returned")
  /\ UNCHANGED <<loop, deferred, waits, t, tick, stop, pending>>

TickerNext ==
  \/ \E s \in Starters : Start(s) \/ Defer(s) \/ Select(s) \/ TickOf(s) \/ Fire(s)
  \/ \E s \in Starters, p \in Stoppers : HandOver(s, p)
  \/ \E p \in Stoppers : StopCall(p)
  \/ Callback \/ Reset

(* Goroutines are scheduled, and of the ready cases a select takes one at  *)
(* random: a loop that finds a sender again and again takes one in the end. *)
TickerFairness ==
  \A s \in Starters :
    /\ WF_tickerVars(Defer(s) \/ Select(s))
    /\ SF_tickerVars(\E p \in Stoppers : HandOver(s, p))
TickerSpec == TickerInit /\ [][TickerNext]_tickerVars /\ TickerFairness
-----------------------------------------------------------------------------
StopsIn(st) == {p \in Stoppers : stop[p] = st}
Started == {s \in Starters : loop[s] # "idle"}

(* The variables have their types, and only timers of a Start tick.        *)
TickerTypeOK ==
  /\ loop \in [Starters -> {"idle", "made", "top", "waiting", "returned"}]
  /\ deferred \in [Starters -> Starters \cup {NoTimer}]
  /\ waits \in [Starters -> Starters \cup {NoTimer}] /\ t \in Starters \cup {NoTimer}
  /\ ticking \subseteq Started /\ tick \subseteq Started
  /\ stop \in [Stoppers -> {"idle", "sending", "done", "skipped"}]
  /\ StopsIn("sending") # {} => Started # {}
  /\ pending \in 0 .. MaxPending /\ spoiled \in BOOLEAN

(* Once a Stop was heard for every Start, the ticker is quiet: no callback *)
(* is launched any more, whatever ticks are left in the channels (those    *)
(* launched before may still run), and no timer ticks, unless a Start came *)
(* into the beginning of another or Reset came after the loop.             *)
AllHeard == Cardinality(StopsIn("done")) = Cardinality(Started)
StoppedFiresNoMore ==
  [][/\ AllHeard => pending' <= pending
     /\ AllHeard' => ticking' = {} \/ spoiled']_tickerVars

(* A Stop is heard in the end, or blocks for good because every loop has   *)
(* already heard another.                                                  *)
StopIsHeard == \A p \in Stoppers : stop[p] = "sending" ~> (stop[p] = "done" \/ AllHeard)
=============================================================================
