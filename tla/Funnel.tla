------------------------------- MODULE Funnel -------------------------------
(***************************************************************************)
(* Capturing and reusing market cycles: services/funnel.py over the rows   *)
(* of FunnelStore.  The thread of the scheduler's refresh captures a cycle *)
(* (run_funnel_cycle); the thread of a decision batch reuses a recent one, *)
(* waits for the one in flight or captures its own (run_or_reuse_cycle).   *)
(* They meet at the cycle lock, which dies with the process; the rows do   *)
(* not, and a row left running is swept when the scheduler is started.     *)
(*                                                                         *)
(* Abstractions: time passes in units that divide a day; a cycle has       *)
(* quotes or none; the news, the fundamentals and the retention of a scan  *)
(* are steps that may fail; what passes the filter is left out.            *)
(***************************************************************************)
EXTENDS Integers

CONSTANTS Refresher,   \* the thread that refreshes, one at a time (run lock)
          Callers,     \* threads of decision batches
          Nobody,
          Day,         \* length of a day
          MaxAge,      \* a completed cycle may be reused this long
          Stale,       \* a running one is given up after this long
          MaxCalls, MaxTime, MaxCrashes, MaxResets

Threads == {Refresher} \cup Callers

ASSUME ThreadsAssumption == Refresher \notin Callers /\ Nobody \notin Threads
ASSUME TimesAssumption == Day \in Nat \ {0} /\ Stale \in Nat \ {0} /\ MaxAge \in Nat
ASSUME BoundsAssumption == {MaxCalls, MaxTime, MaxCrashes, MaxResets} \subseteq Nat

VARIABLES cycles,     \* the rows of funnel_cycles, by id
          quotes,     \* cycles with rows in price_snapshots
          next,       \* AUTOINCREMENT
          cycleLock,
          pc,
          mine,       \* the cycle a thread captures, 0 for none
          inFlight,   \* the cycle a caller found in flight (no such variable)
          up, clock, count

vars == <<cycles, quotes, next, cycleLock, pc, mine, inFlight, up, clock, count>>
rows == <<cycles, quotes, next>>

Init ==
    /\ cycles = [c \in {} |-> 0] /\ quotes = {} /\ next = 1
    /\ cycleLock = Nobody
    /\ pc = [t \in Threads |-> "off"]
    /\ mine = [t \in Threads |-> 0]
    /\ inFlight = [t \in Threads |-> 0]
    /\ up = TRUE /\ clock = 0
    /\ count = [calls |-> 0, crashes |-> 0, resets |-> 0]

Goto(t, label) == pc' = [pc EXCEPT ![t] = label]

\* A call ends.
End(t) ==
    /\ Goto(t, "off")
    /\ mine' = [mine EXCEPT ![t] = 0]
    /\ inFlight' = [inFlight EXCEPT ![t] = 0]

Ended(c, status) == [status |-> status, started |-> cycles[c].started, completed |-> clock]

\* An UPDATE of a row that is not there does nothing.
With(c, status) ==
    cycles' = [d \in DOMAIN cycles |-> IF d = c THEN Ended(c, status) ELSE cycles[d]]
-----------------------------------------------------------------------------
(* A call begins *)

Call(t) ==
    /\ up /\ pc[t] = "off"
    /\ count.calls < MaxCalls
    /\ count' = [count EXCEPT !.calls = @ + 1]
    /\ Goto(t, IF t = Refresher THEN "lock" ELSE "look")
    /\ UNCHANGED <<rows, cycleLock, mine, inFlight, up, clock>>
-----------------------------------------------------------------------------
(* reuse_recent_cycle and run_or_reuse_cycle *)

Completed == {c \in DOMAIN cycles : cycles[c].status = "completed"}

\* The completed cycle that comes last, by time and then by id.
IsLatest(c) ==
    /\ c \in Completed
    /\ \A d \in Completed :
          \/ cycles[d].completed < cycles[c].completed
          \/ cycles[d].completed = cycles[c].completed /\ d <= c

Fresh(c) == clock - cycles[c].completed <= MaxAge

Reusable == {c \in Completed : IsLatest(c) /\ MaxAge > 0 /\ Fresh(c) /\ c \in quotes}

\* "look" is the first look, "again" the one after the wait.
Reuse(t) ==
    /\ up /\ pc[t] \in {"look", "again"}
    /\ Reusable # {}
    /\ End(t)
    /\ UNCHANGED <<rows, cycleLock, up, clock, count>>

NothingToReuse(t) ==
    /\ up /\ pc[t] \in {"look", "again"}
    /\ Reusable = {}
    /\ Goto(t, IF pc[t] = "look" THEN "peek" ELSE "lock")
    /\ UNCHANGED <<rows, cycleLock, mine, inFlight, up, clock, count>>

\* The research of the reused cycle cannot be read.
ReuseRaises(t) ==
    /\ up /\ pc[t] \in {"look", "again"}
    /\ End(t)
    /\ UNCHANGED <<rows, cycleLock, up, clock, count>>

\* Whether the lock is held is only asked; it may be taken or freed right after.
Peek(t) ==
    /\ up /\ pc[t] = "peek"
    /\ Goto(t, IF cycleLock = Nobody THEN "lock" ELSE "wait")
    /\ inFlight' = [inFlight EXCEPT ![t] = IF cycleLock = Nobody THEN 0 ELSE mine[cycleLock]]
    /\ UNCHANGED <<rows, cycleLock, mine, up, clock, count>>

\* Mutant of StopWaiting: after the wait a cycle is captured.
CaptureAfterWait(t) ==
    /\ up /\ pc[t] = "waited"
    /\ cycleLock' = Nobody
    /\ Goto(t, "lock")
    /\ UNCHANGED <<rows, mine, inFlight, up, clock, count>>

\* with _cycle_lock: pass
StopWaiting(t) ==
    /\ up /\ pc[t] = "waited"
    /\ cycleLock' = Nobody
    /\ Goto(t, "again")
    /\ UNCHANGED <<rows, mine, inFlight, up, clock, count>>

TakeLock(t) ==
    /\ up /\ cycleLock = Nobody
    /\ \/ pc[t] = "wait" /\ Goto(t, "waited")
       \/ pc[t] = "lock" /\ Goto(t, "start")
    /\ cycleLock' = t
    /\ UNCHANGED <<rows, mine, inFlight, up, clock, count>>
-----------------------------------------------------------------------------
(* run_funnel_cycle, _capture_cycle and _scan_market *)

StartCycle(t) ==
    /\ up /\ pc[t] = "start"
    /\ cycles' = [c \in DOMAIN cycles \cup {next} |->
                     IF c = next THEN [status |-> "running", started |-> clock, completed |-> 0]
                     ELSE cycles[c]]
    /\ next' = next + 1
    /\ mine' = [mine EXCEPT ![t] = next]
    /\ Goto(t, "scan")
    /\ UNCHANGED <<quotes, cycleLock, inFlight, up, clock, count>>

\* The watchlist is empty: no cycle.  The transaction may fail as well.
NoCycle(t) ==
    /\ up /\ pc[t] = "start"
    /\ Goto(t, "release")
    /\ UNCHANGED <<rows, cycleLock, mine, inFlight, up, clock, count>>

\* The snapshots reference the cycle; none of the quotes may be valid.
RecordQuotes(t) ==
    /\ up /\ pc[t] = "scan"
    /\ \/ mine[t] \in DOMAIN cycles /\ quotes' = quotes \cup {mine[t]}
       \/ UNCHANGED quotes
    /\ Goto(t, "research")
    /\ UNCHANGED <<cycles, next, cycleLock, mine, inFlight, up, clock, count>>

ScanFails(t) ==
    /\ up /\ pc[t] \in {"scan", "research"}
    /\ Goto(t, "fail")
    /\ UNCHANGED <<rows, cycleLock, mine, inFlight, up, clock, count>>

\* Whatever has become of the row: it is not asked for its status.
Complete(t) ==
    /\ up /\ pc[t] = "research"
    /\ With(mine[t], "completed")
    /\ Goto(t, "release")
    /\ UNCHANGED <<quotes, next, cycleLock, mine, inFlight, up, clock, count>>

\* Mutant of MarkFailed: the exception passes by the release of the lock.
MarkFailedOnly(t) ==
    /\ up /\ pc[t] = "fail"
    /\ With(mine[t], "failed")
    /\ End(t)
    /\ UNCHANGED <<quotes, next, cycleLock, up, clock, count>>

\* store.fail only changes a row that is running; it may raise as well.
MarkFailed(t) ==
    /\ up /\ pc[t] = "fail"
    /\ \/ mine[t] \in DOMAIN cycles /\ cycles[mine[t]].status = "running" /\ With(mine[t], "failed")
       \/ UNCHANGED cycles
    /\ Goto(t, "release")
    /\ UNCHANGED <<quotes, next, cycleLock, mine, inFlight, up, clock, count>>

Release(t) ==
    /\ up /\ pc[t] = "release"
    /\ cycleLock' = Nobody
    /\ End(t)
    /\ UNCHANGED <<rows, up, clock, count>>
-----------------------------------------------------------------------------
(* What comes in between *)

\* A reset holds the run lock, and so excludes the refresher and no caller.
Reset ==
    /\ up /\ pc[Refresher] = "off"
    /\ count.resets < MaxResets
    /\ count' = [count EXCEPT !.resets = @ + 1]
    /\ cycles' = [c \in {} |-> 0] /\ quotes' = {}
    /\ UNCHANGED <<next, cycleLock, pc, mine, inFlight, up, clock>>

Tick ==
    /\ clock < MaxTime
    /\ clock' = clock + 1
    /\ UNCHANGED <<rows, cycleLock, pc, mine, inFlight, up, count>>

Crash ==
    /\ up
    /\ count.crashes < MaxCrashes
    /\ count' = [count EXCEPT !.crashes = @ + 1]
    /\ up' = FALSE
    /\ cycleLock' = Nobody
    /\ pc' = [t \in Threads |-> "off"]
    /\ mine' = [t \in Threads |-> 0] /\ inFlight' = [t \in Threads |-> 0]
    /\ UNCHANGED <<rows, clock>>

\* Mutant of Swept: a cycle is stale at once.
SweptAtOnce(c) == cycles[c].status = "running" /\ cycles[c].started < clock

\* fail_stale compares text: started_at has a T between date and time, the
\* cutoff has a space, which sorts before it.  So only the dates count.
Swept(c) ==
    /\ cycles[c].status = "running"
    /\ cycles[c].started \div Day < (clock - Stale) \div Day

\* AppRuntime.start, MarketRefreshScheduler.start: recover_interrupted_cycles
Restart ==
    /\ ~up
    /\ up' = TRUE
    /\ cycles' = [c \in DOMAIN cycles |-> IF Swept(c) THEN Ended(c, "failed") ELSE cycles[c]]
    /\ UNCHANGED <<quotes, next, cycleLock, pc, mine, inFlight, clock, count>>

Step(t) ==
    \/ Reuse(t) \/ NothingToReuse(t) \/ ReuseRaises(t) \/ Peek(t)
    \/ TakeLock(t) \/ StopWaiting(t)
    \/ StartCycle(t) \/ NoCycle(t) \/ RecordQuotes(t) \/ ScanFails(t)
    \/ Complete(t) \/ MarkFailed(t) \/ Release(t)

\* Nothing more will happen within the bounds.
Finished ==
    /\ up /\ clock = MaxTime /\ count.calls = MaxCalls
    /\ \A t \in Threads : pc[t] = "off"
    /\ UNCHANGED vars

Next ==
    \/ \E t \in Threads : Call(t) \/ Step(t)
    \/ Reset \/ Tick \/ Crash \/ Restart
    \/ Finished

Spec == Init /\ [][Next]_vars

\* Threads run, and every provider they ask has a timeout.
FairSpec == Spec /\ \A t \in Threads : WF_vars(Step(t))
-----------------------------------------------------------------------------
Labels == {"off", "look", "peek", "wait", "waited", "again",
           "lock", "start", "scan", "research", "fail", "release"}

Cycle == [status : {"running", "completed", "failed"}, started : 0..MaxTime, completed : 0..MaxTime]

\* The types of the variables; identifiers count from 1.
TypeOK ==
    /\ cycles \in [DOMAIN cycles -> Cycle] /\ DOMAIN cycles \subseteq Nat \ {0}
    /\ quotes \subseteq DOMAIN cycles
    /\ next \in Nat \ {0}
    /\ cycleLock \in Threads \cup {Nobody}
    /\ pc \in [Threads -> Labels]
    /\ mine \in [Threads -> Nat] /\ inFlight \in [Threads -> Nat]
    /\ up \in BOOLEAN /\ clock \in 0..MaxTime
    /\ count \in [calls : 0..MaxCalls, crashes : 0..MaxCrashes, resets : 0..MaxResets]

\* A batch that found a capture in flight does not go on to pay for another one
\* when that capture succeeded, unless it has become too old to be reused or
\* another one came after it: the wait is over only when the capture is.
Capturing == {"lock", "start", "scan", "research"}

WaitersReuse ==
    /\ TypeOK
    /\ \A t \in Callers : pc[t] \in Capturing => inFlight[t] \notin Reusable

\* How a cycle ended is never rewritten, by a thread that is late or by the recovery after
\* a crash, and the recovery leaves a cycle alone until it is stale.
OutcomesAreFinal ==
    [][\A c \in DOMAIN cycles \cap DOMAIN cycles' :
         /\ cycles[c].status # "running" => cycles'[c] = cycles[c]
         /\ ~up /\ up' /\ cycles'[c].status # cycles[c].status
               => cycles[c].started < clock - Stale]_vars

\* The cycle lock is held from the wait for it, or the capture, to its release, by one
\* thread, and by none when the process is down.
LockIsHeld ==
    /\ \A t \in Threads :
          pc[t] \in {"waited", "start", "scan", "research", "fail", "release"} <=> cycleLock = t
    /\ ~up => \A t \in Threads : pc[t] = "off"

\* A thread has a cycle only while it holds the lock, and nobody else ends that cycle;
\* identifiers are used once.
CapturesAreOwn ==
    /\ \A c \in DOMAIN cycles : c < next
    /\ \A t \in Threads :
          /\ mine[t] < next
          /\ mine[t] # 0 => pc[t] \in {"scan", "research", "fail", "release"}
          /\ pc[t] \in {"scan", "research", "fail"} /\ mine[t] \in DOMAIN cycles
                => cycles[mine[t]].status = "running"

\* Once a caller has waited for a cycle, nobody captures that cycle any more.
WaitIsOver ==
    \A t \in Threads :
        /\ inFlight[t] < next
        /\ inFlight[t] # 0 /\ pc[t] # "wait" => \A u \in Threads : mine[u] # inFlight[t]

\* The inductive strengthening of WaitersReuse and of OutcomesAreFinal.
FunnelInv == WaitersReuse /\ LockIsHeld /\ CapturesAreOwn /\ WaitIsOver

\* Every call ends, whoever holds the cycle lock.
EveryCallEnds == \A t \in Threads : pc[t] # "off" ~> pc[t] = "off"

\* After the recovery no cycle that is stale is running.
StaleAreSwept ==
    [][~up /\ up' => \A c \in DOMAIN cycles :
         cycles'[c].status = "running" => cycles[c].started >= clock - Stale]_vars
=============================================================================
