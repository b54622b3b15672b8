------------------------------- MODULE Scheduler -------------------------------
(***************************************************************************)
(* The background scheduler of cache.go in discrete time: Start, Stop, the *)
(* loop that refreshes at once and then on every tick, and what that       *)
(* cadence means for the staleness of one module's state.                  *)
(*                                                                         *)
(* A ticker's channel holds one tick; a tick that finds it full is         *)
(* dropped.  A refresh is bounded by its context; what happens in it is    *)
(* one judgement of the module at any moment of it, or none when the       *)
(* context is done before the module's turn.                               *)
(*                                                                         *)
(* Time stands still while something is due that takes no time: a select   *)
(* with a case ready, a refresh whose context is done.                     *)
(***************************************************************************)
EXTENDS Naturals

CONSTANTS
  Interval,   \* e.refreshInterval
  Deadline,   \* e.refreshTimeout
  MaxStale,   \* maxStale of the module's policy
  Tolerance   \* refreshes in a row the module may miss and still be fresh

ASSUME SchedulerAssumption ==
  /\ {Interval, Deadline} \subseteq Nat \ {0}
  /\ {MaxStale, Tolerance} \subseteq Nat
  /\ Deadline <= Interval

VARIABLES
  pc,         \* "off", "refresh", "select" or "ended"
  cancelled,  \* the scheduler's context is done
  elapsed,    \* time since the refresh in progress began
  judged,     \* outcome of the module in the refresh: "none", "ok" or "failed"
  timer,      \* time to the ticker's next tick; 0 while there is no ticker
  pending,    \* a tick is in the channel
  seen,       \* LastSuccess is set
  age,        \* time since LastSuccess, capped once it is stale
  misses      \* history: refreshes ended without a success since the last one,
              \* capped once they exceed Tolerance

vars == <<pc, cancelled, elapsed, judged, timer, pending, seen, age, misses>>
module == <<seen, age, misses>>

Cap(n, bound) == IF n > bound THEN bound + 1 ELSE n

Init ==
  /\ pc = "off" /\ cancelled = FALSE
  /\ elapsed = 0 /\ judged = "none"
  /\ timer = 0 /\ pending = FALSE
  /\ seen = FALSE /\ age = 0 /\ misses = 0

Begin ==
  /\ pc' = "refresh"
  /\ elapsed' = 0 /\ judged' = "none"

Start ==
  /\ pc = "off"
  /\ Begin
  /\ UNCHANGED <<cancelled, timer, pending, module>>

Stop ==
  /\ pc # "off" /\ ~cancelled
  /\ cancelled' = TRUE
  /\ UNCHANGED <<pc, elapsed, judged, timer, pending, module>>

(* runModule, for the module in question *)
Judge(outcome) ==
  /\ pc = "refresh" /\ judged = "none"
  /\ judged' = outcome
  /\ IF outcome = "ok"
       THEN seen' = TRUE /\ age' = 0 /\ misses' = 0
       ELSE UNCHANGED module
  /\ UNCHANGED <<pc, cancelled, elapsed, timer, pending>>

\* Mutant: no ticker after a first refresh in which the module failed.
EndWithoutTicker ==
  /\ pc = "refresh"
  /\ pc' = "select"
  /\ misses' = IF judged = "ok" THEN misses ELSE Cap(misses + 1, Tolerance)
  /\ timer' = IF timer = 0 /\ judged = "ok" THEN Interval ELSE timer
  /\ UNCHANGED <<cancelled, elapsed, judged, pending, seen, age>>

\* The refresh returns; the first one is followed by the ticker.
End ==
  /\ pc = "refresh"
  /\ pc' = "select"
  /\ misses' = IF judged = "ok" THEN misses ELSE Cap(misses + 1, Tolerance)
  /\ timer' = IF timer = 0 THEN Interval ELSE timer
  /\ UNCHANGED <<cancelled, elapsed, judged, pending, seen, age>>

TakeTick ==
  /\ pc = "select" /\ pending
  /\ pending' = FALSE
  /\ Begin
  /\ UNCHANGED <<cancelled, timer, module>>

\* Mutant: the context is asked before there is a ticker only.
ReturnAtFirst ==
  /\ pc = "select" /\ cancelled /\ timer = 0
  /\ pc' = "ended" /\ timer' = 0 /\ pending' = FALSE
  /\ UNCHANGED <<cancelled, elapsed, judged, module>>

Return ==
  /\ pc = "select" /\ cancelled
  /\ pc' = "ended" /\ timer' = 0 /\ pending' = FALSE
  /\ UNCHANGED <<cancelled, elapsed, judged, module>>

Due ==
  \/ pc = "select" /\ (pending \/ cancelled)
  \/ pc = "refresh" /\ (elapsed = Deadline \/ cancelled)

Passing ==
  /\ age' = IF seen THEN Cap(age + 1, MaxStale) ELSE age
  /\ UNCHANGED <<pc, cancelled, judged, seen, misses>>

\* Mutant: the refresh has no deadline of its own.
ElapseUnbounded ==
  /\ pc = "refresh" \/ ~Due
  /\ elapsed' = IF pc = "refresh" THEN elapsed + 1 ELSE elapsed
  /\ IF timer = 1
       THEN timer' = Interval /\ pending' = TRUE
       ELSE timer' = (IF timer = 0 THEN 0 ELSE timer - 1) /\ UNCHANGED pending
  /\ Passing

\* Mutant: the ticker's channel holds nothing.
ElapseUnbuffered ==
  /\ ~Due
  /\ elapsed' = IF pc = "refresh" THEN elapsed + 1 ELSE elapsed
  /\ IF timer = 1
       THEN timer' = Interval /\ pending' = (pc = "select")
       ELSE timer' = (IF timer = 0 THEN 0 ELSE timer - 1) /\ UNCHANGED pending
  /\ Passing

\* One unit of time, and the ticker's tick when its time has come.
Elapse ==
  /\ ~Due
  /\ elapsed' = IF pc = "refresh" THEN elapsed + 1 ELSE elapsed
  /\ IF timer = 1
       THEN timer' = Interval /\ pending' = TRUE
       ELSE timer' = (IF timer = 0 THEN 0 ELSE timer - 1) /\ UNCHANGED pending
  /\ Passing

Next ==
  \/ Start \/ Stop \/ (\E outcome \in {"ok", "failed"} : Judge(outcome))
  \/ End \/ TakeTick \/ Return \/ Elapse

Spec == Init /\ [][Next]_vars

(* The goroutine runs and time passes.  select picks a ready case at random, *)
(* so the context's case, ready again and again, is taken in the end.        *)
FairSpec == Spec /\ WF_vars(End \/ TakeTick) /\ WF_vars(Elapse) /\ SF_vars(Return)

-----------------------------------------------------------------------------
TypeOK ==
  /\ pc \in {"off", "refresh", "select", "ended"}
  /\ cancelled \in BOOLEAN
  /\ elapsed \in 0 .. Deadline
  /\ judged \in {"none", "ok", "failed"}
  /\ timer \in 0 .. Interval
  /\ pending \in BOOLEAN
  /\ seen \in BOOLEAN
  /\ age \in 0 .. MaxStale + 1
  /\ misses \in 0 .. Tolerance + 1

IsStale == ~seen \/ age > MaxStale

(* Once a module has succeeded, its state goes stale under a running        *)
(* scheduler only after more than Tolerance refreshes in a row ended        *)
(* without a success of it, provided the policy leaves them the time: the   *)
(* one late success, the refreshes themselves and the last one's duration.  *)
StaleNeedsMisses ==
  /\ 2 * Deadline + (Tolerance + 1) * Interval <= MaxStale
  /\ seen /\ ~cancelled /\ IsStale
  => misses > Tolerance

(* Refresh follows refresh until the scheduler is stopped. *)
RefreshesGoOn == pc = "select" ~> pc = "refresh" \/ cancelled

(* A stopped scheduler ends, whatever ticks are pending. *)
StopEnds == cancelled ~> pc = "ended"
=============================================================================
