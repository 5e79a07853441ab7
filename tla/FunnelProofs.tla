---------------------------- MODULE FunnelProofs ----------------------------
(***************************************************************************)
(* What the funnel promises for any number of callers, calls, crashes and  *)
(* resets: a wait for a capture that succeeds is rewarded, and how a cycle *)
(* ended is never rewritten.                                               *)
(*                                                                         *)
(* The induction is on FunnelInv.  Who holds the cycle lock is the only    *)
(* one with a cycle of its own, so a caller that got the lock knows that   *)
(* the cycle it waited for has no capture any more: what it finds then is  *)
(* all there will ever be of that cycle.                                   *)
(***************************************************************************)
EXTENDS Funnel, TLAPS

Holding == {"waited", "start", "scan", "research", "fail", "release"}

\* The label of one thread changes and no other.
LEMMA GotoFacts ==
    ASSUME TypeOK, NEW t \in Threads, NEW label \in Labels, Goto(t, label)
    PROVE  /\ pc' \in [Threads -> Labels] /\ pc'[t] = label
           /\ \A u \in Threads : u # t => pc'[u] = pc[u]
BY DEF TypeOK, Goto

\* So does what it captures and what it waited for, when its call ends.
LEMMA EndFacts ==
    ASSUME TypeOK, NEW t \in Threads, End(t)
    PROVE  /\ pc' \in [Threads -> Labels] /\ mine' \in [Threads -> Nat]
           /\ inFlight' \in [Threads -> Nat]
           /\ pc'[t] = "off" /\ mine'[t] = 0 /\ inFlight'[t] = 0
           /\ \A u \in Threads :
                 u # t => pc'[u] = pc[u] /\ mine'[u] = mine[u] /\ inFlight'[u] = inFlight[u]
BY DEF TypeOK, Goto, End, Labels

\* A row that is written ends, the others stay as they are.
LEMMA WithFacts ==
    ASSUME TypeOK, NEW c, NEW status \in {"completed", "failed"}, With(c, status)
    PROVE  /\ DOMAIN cycles' = DOMAIN cycles /\ cycles' \in [DOMAIN cycles -> Cycle]
           /\ \A d \in DOMAIN cycles :
                 /\ d # c => cycles'[d] = cycles[d]
                 /\ d = c => cycles'[d].status = status
<1>1. \A d \in DOMAIN cycles : Ended(d, status) \in Cycle /\ Ended(d, status).status = status
  BY DEF TypeOK, Cycle, Ended
<1>2. cycles \in [DOMAIN cycles -> Cycle]
  BY DEF TypeOK
<1> QED
  BY <1>1, <1>2 DEF With

\* The steps of a thread, by what they change.
LEMMA ThreadStep ==
    ASSUME TypeOK, NEW t \in Threads, Call(t) \/ Step(t)
    PROVE  /\ up /\ UNCHANGED <<up, clock>>
           /\ \/ UNCHANGED rows
              \/ StartCycle(t) \/ RecordQuotes(t) \/ Complete(t) \/ MarkFailed(t)
           /\ \/ UNCHANGED <<mine, inFlight>>
              \/ Peek(t) /\ UNCHANGED mine
              \/ StartCycle(t) /\ UNCHANGED inFlight
              \/ End(t)
BY DEF Call, Step, Reuse, NothingToReuse, ReuseRaises, Peek, TakeLock, StopWaiting, StartCycle,
       NoCycle, RecordQuotes, ScanFails, Complete, MarkFailed, Release, rows

\* What a thread does keeps the types.
LEMMA ThreadTypes ==
    ASSUME TypeOK, NEW t \in Threads, Call(t) \/ Step(t)
    PROVE  TypeOK'
<1>1. /\ cycles \in [DOMAIN cycles -> Cycle] /\ DOMAIN cycles \subseteq Nat \ {0}
      /\ quotes \subseteq DOMAIN cycles /\ next \in Nat \ {0}
      /\ mine \in [Threads -> Nat] /\ inFlight \in [Threads -> Nat]
      /\ count \in [calls : 0..MaxCalls, crashes : 0..MaxCrashes, resets : 0..MaxResets]
      /\ clock \in 0..MaxTime
  BY DEF TypeOK
<1>2. up' = up /\ clock' = clock
  BY ThreadStep
<1>3. pc' \in [Threads -> Labels]
  <2>1. CASE End(t)
    BY <2>1, EndFacts
  <2>2. CASE \E label \in Labels : Goto(t, label)
    BY <2>2, GotoFacts
  <2>3. End(t) \/ \E label \in Labels : Goto(t, label)
    <3>1. CASE Call(t)
      BY <3>1 DEF Call, Labels
    <3>2. CASE Reuse(t) \/ ReuseRaises(t) \/ Release(t)
      BY <3>2 DEF Reuse, ReuseRaises, Release
    <3>3. CASE NothingToReuse(t) \/ Peek(t)
      BY <3>3 DEF NothingToReuse, Peek, Labels
    <3>4. CASE TakeLock(t) \/ StopWaiting(t) \/ StartCycle(t) \/ NoCycle(t)
      BY <3>4 DEF TakeLock, StopWaiting, StartCycle, NoCycle, Labels
    <3>5. CASE RecordQuotes(t) \/ ScanFails(t) \/ Complete(t) \/ MarkFailed(t)
      BY <3>5 DEF RecordQuotes, ScanFails, Complete, MarkFailed, Labels
    <3> QED
      BY <3>1, <3>2, <3>3, <3>4, <3>5 DEF Step
  <2> QED
    BY <2>1, <2>2, <2>3
<1>4. cycleLock' \in Threads \cup {Nobody}
  BY DEF TypeOK, Call, Step, Reuse, NothingToReuse, ReuseRaises, Peek, TakeLock, StopWaiting,
         StartCycle, NoCycle, RecordQuotes, ScanFails, Complete, MarkFailed, Release
<1>5. mine' \in [Threads -> Nat] /\ inFlight' \in [Threads -> Nat]
  <2>1. CASE End(t)
    BY <2>1, EndFacts
  <2>2. CASE Peek(t) /\ UNCHANGED mine
    BY <1>1, <2>2 DEF Peek, TypeOK
  <2>3. CASE StartCycle(t) /\ UNCHANGED inFlight
    BY <1>1, <2>3 DEF StartCycle
  <2> QED
    BY <1>1, <2>1, <2>2, <2>3, ThreadStep
<1>6. /\ cycles' \in [DOMAIN cycles' -> Cycle] /\ DOMAIN cycles' \subseteq Nat \ {0}
      /\ quotes' \subseteq DOMAIN cycles' /\ next' \in Nat \ {0}
  <2>1. CASE StartCycle(t)
    <3> DEFINE row == [status |-> "running", started |-> clock, completed |-> 0]
    <3>1. row \in Cycle
      BY <1>1, BoundsAssumption DEF Cycle
    <3> HIDE DEF row
    <3>2. cycles' = [c \in DOMAIN cycles \cup {next} |-> IF c = next THEN row ELSE cycles[c]]
      BY <2>1 DEF StartCycle, row
    <3> QED
      BY <1>1, <2>1, <3>1, <3>2 DEF StartCycle
  <2>2. CASE RecordQuotes(t)
    BY <1>1, <2>2 DEF RecordQuotes
  <2>3. CASE Complete(t)
    BY <1>1, <2>3, WithFacts DEF Complete
  <2>4. CASE MarkFailed(t)
    BY <1>1, <2>4, WithFacts DEF MarkFailed
  <2> QED
    BY <1>1, <2>1, <2>2, <2>3, <2>4, ThreadStep DEF rows
<1>7. count' \in [calls : 0..MaxCalls, crashes : 0..MaxCrashes, resets : 0..MaxResets]
  <2>1. CASE Call(t)
    BY <1>1, <2>1, BoundsAssumption DEF Call
  <2>2. CASE count' = count
    BY <1>1, <2>2
  <2>3. Call(t) \/ count' = count
    BY DEF Step, Reuse, NothingToReuse, ReuseRaises, Peek, TakeLock, StopWaiting,
           StartCycle, NoCycle, RecordQuotes, ScanFails, Complete, MarkFailed, Release
  <2> QED
    BY <2>1, <2>2, <2>3
<1> QED
  BY <1>1, <1>2, <1>3, <1>4, <1>5, <1>6, <1>7 DEF TypeOK

\* And the cycle lock where it belongs.
LEMMA ThreadLock ==
    ASSUME TypeOK, LockIsHeld, NEW t \in Threads, Call(t) \/ Step(t)
    PROVE  LockIsHeld'
<1>1. up' = up /\ up
  BY ThreadStep
<1>2. /\ pc \in [Threads -> Labels] /\ Nobody \notin Threads
      /\ \A u \in Threads : pc[u] \in Holding <=> cycleLock = u
  BY ThreadsAssumption DEF LockIsHeld, Holding, TypeOK
<1> SUFFICES \A u \in Threads : pc'[u] \in Holding <=> cycleLock' = u
  BY <1>1 DEF LockIsHeld, Holding
<1>3. CASE Call(t)
  BY <1>2, <1>3 DEF Call, Goto, Holding
<1>4. CASE Reuse(t) \/ ReuseRaises(t)
  BY <1>2, <1>4, EndFacts DEF Reuse, ReuseRaises, Holding
<1>5. CASE NothingToReuse(t)
  BY <1>2, <1>5 DEF NothingToReuse, Goto, Holding
<1>6. CASE Peek(t)
  BY <1>2, <1>6 DEF Peek, Goto, Holding
<1>7. CASE TakeLock(t)
  BY <1>2, <1>7 DEF TakeLock, Goto, Holding
<1>8. CASE StopWaiting(t)
  BY <1>2, <1>8 DEF StopWaiting, Goto, Holding
<1>9. CASE StartCycle(t) \/ NoCycle(t)
  BY <1>2, <1>9 DEF StartCycle, NoCycle, Goto, Holding
<1>10. CASE RecordQuotes(t) \/ ScanFails(t)
  BY <1>2, <1>10 DEF RecordQuotes, ScanFails, Goto, Holding
<1>11. CASE Complete(t) \/ MarkFailed(t)
  BY <1>2, <1>11 DEF Complete, MarkFailed, Goto, Holding
<1>12. CASE Release(t)
  BY <1>2, <1>12, EndFacts DEF Release, Holding
<1> QED
  BY <1>3, <1>4, <1>5, <1>6, <1>7, <1>8, <1>9, <1>10, <1>11, <1>12 DEF Step

\* A thread ends, and lets go of, its own cycle only.
LEMMA ThreadCaptures ==
    ASSUME TypeOK, LockIsHeld, CapturesAreOwn, NEW t \in Threads, Call(t) \/ Step(t)
    PROVE  CapturesAreOwn'
<1>1. /\ next \in Nat \ {0} /\ DOMAIN cycles \subseteq Nat \ {0}
      /\ mine \in [Threads -> Nat] /\ pc \in [Threads -> Labels]
      /\ \A c \in DOMAIN cycles : c < next
      /\ \A u \in Threads :
            /\ mine[u] < next /\ mine[u] \in Nat
            /\ mine[u] # 0 => pc[u] \in {"scan", "research", "fail", "release"}
            /\ pc[u] \in {"scan", "research", "fail"} /\ mine[u] \in DOMAIN cycles
                  => cycles[mine[u]].status = "running"
  BY DEF TypeOK, CapturesAreOwn
<1>2. \A u \in Threads : pc[u] \in Holding /\ pc[t] \in Holding => u = t
  BY ThreadsAssumption DEF LockIsHeld, Holding
<1>3. ASSUME UNCHANGED rows, UNCHANGED mine, NEW label \in Labels, Goto(t, label),
             label \in {"scan", "research", "fail"} => pc[t] \in {"scan", "research", "fail"},
             mine[t] # 0 => label \in {"scan", "research", "fail", "release"}
      PROVE  CapturesAreOwn'
  BY <1>1, <1>3, GotoFacts DEF CapturesAreOwn, rows, TypeOK
<1>4. CASE UNCHANGED rows /\ End(t)
  BY <1>1, <1>4, EndFacts DEF CapturesAreOwn, rows
<1>5. CASE StartCycle(t)
  <2>1. /\ pc[t] = "start" /\ pc'[t] = "scan" /\ mine'[t] = next /\ next' = next + 1
        /\ DOMAIN cycles' = DOMAIN cycles \cup {next} /\ cycles'[next].status = "running"
        /\ \A c \in DOMAIN cycles : c # next => cycles'[c] = cycles[c]
        /\ \A u \in Threads : u # t => pc'[u] = pc[u] /\ mine'[u] = mine[u]
    BY <1>1, <1>5 DEF StartCycle, Goto
  <2>2. \A c \in DOMAIN cycles' : c < next'
    BY <1>1, <2>1
  <2>3. ASSUME NEW u \in Threads, u # t
        PROVE  /\ mine'[u] < next'
               /\ mine'[u] # 0 => pc'[u] \in {"scan", "research", "fail", "release"}
               /\ pc'[u] \in {"scan", "research", "fail"} => FALSE
    <3>1. pc[u] \notin Holding
      BY <1>2, <2>1, <2>3 DEF Holding
    <3>2. mine'[u] < next'
      BY <1>1, <2>1, <2>3
    <3> QED
      BY <1>1, <2>1, <2>3, <3>1, <3>2 DEF Holding
  <2>4. mine'[t] < next'
    BY <1>1, <2>1
  <2> QED
    BY <2>1, <2>2, <2>3, <2>4 DEF CapturesAreOwn
<1>6. CASE RecordQuotes(t)
  <2>1. /\ UNCHANGED <<cycles, next, mine>> /\ pc[t] = "scan" /\ Goto(t, "research")
        /\ "research" \in Labels
    BY <1>6 DEF RecordQuotes, Labels
  <2> QED
    BY <1>1, <2>1, GotoFacts DEF CapturesAreOwn
<1>7. CASE Complete(t) \/ MarkFailed(t)
  <2>1. /\ next' = next /\ mine' = mine /\ Goto(t, "release") /\ "release" \in Labels
        /\ pc[t] \in Holding
        /\ \/ cycles' = cycles
           \/ \E status \in {"completed", "failed"} : With(mine[t], status)
    BY <1>7 DEF Complete, MarkFailed, Labels, Holding
  <2>2. DOMAIN cycles' = DOMAIN cycles /\ \A d \in DOMAIN cycles : d # mine[t] => cycles'[d] = cycles[d]
    BY <2>1, WithFacts
  <2>3. /\ pc'[t] = "release"
        /\ \A u \in Threads : u # t => pc'[u] = pc[u] /\ pc[u] \notin Holding
    BY <1>2, <2>1, GotoFacts
  <2> QED
    BY <1>1, <2>1, <2>2, <2>3 DEF CapturesAreOwn, Holding
<1>8. CASE Call(t) \/ NothingToReuse(t) \/ TakeLock(t) \/ StopWaiting(t) \/ Peek(t)
  <2>1. pc[t] \notin {"scan", "research", "fail", "release"} /\ UNCHANGED <<rows, mine>>
    BY <1>8 DEF Call, NothingToReuse, TakeLock, StopWaiting, Peek
  <2>2. \E label \in {"lock", "look", "peek", "waited", "start", "again", "wait"} : Goto(t, label)
    BY <1>8 DEF Call, NothingToReuse, TakeLock, StopWaiting, Peek
  <2>3. {"lock", "look", "peek", "waited", "start", "again", "wait"} \subseteq
           Labels \ {"scan", "research", "fail"}
    BY DEF Labels
  <2>4. mine[t] = 0
    BY <1>1, <2>1
  <2> QED
    BY <1>3, <2>1, <2>2, <2>3, <2>4
<1>9. CASE NoCycle(t) \/ ScanFails(t)
  <2>1. UNCHANGED <<rows, mine>> /\ (Goto(t, "release") \/ Goto(t, "fail"))
    BY <1>9 DEF NoCycle, ScanFails
  <2>2. Goto(t, "fail") => pc[t] \in {"scan", "research"} \/ pc'[t] # "fail"
    BY <1>9, <1>1 DEF NoCycle, ScanFails, Goto
  <2>3. Goto(t, "fail") => pc'[t] = "fail" /\ "fail" \in Labels /\ "release" \in Labels
    BY GotoFacts DEF Labels
  <2>4. "release" \in Labels
    BY DEF Labels
  <2> QED
    BY <1>3, <2>1, <2>2, <2>3, <2>4
<1>10. CASE Reuse(t) \/ ReuseRaises(t) \/ Release(t)
  BY <1>4, <1>10 DEF Reuse, ReuseRaises, Release
<1> QED
  BY <1>5, <1>6, <1>7, <1>8, <1>9, <1>10 DEF Step

\* Who waited does not meet the capture it waited for.
LEMMA ThreadWaits ==
    ASSUME TypeOK, LockIsHeld, CapturesAreOwn, WaitIsOver, NEW t \in Threads, Call(t) \/ Step(t)
    PROVE  WaitIsOver'
<1>1. /\ next \in Nat \ {0} /\ mine \in [Threads -> Nat] /\ inFlight \in [Threads -> Nat]
      /\ pc \in [Threads -> Labels]
      /\ \A u \in Threads : inFlight[u] < next /\ mine[u] < next
      /\ \A v \in Threads : inFlight[v] # 0 /\ pc[v] # "wait" =>
            \A u \in Threads : mine[u] # inFlight[v]
      /\ \A u \in Threads : inFlight[u] \in Nat /\ mine[u] \in Nat
  BY DEF TypeOK, WaitIsOver, CapturesAreOwn
<1>2. CASE End(t) /\ next' = next
  BY <1>1, <1>2, EndFacts DEF WaitIsOver
<1>3. CASE StartCycle(t)
  <2>1. /\ pc[t] = "start" /\ pc'[t] = "scan" /\ mine'[t] = next /\ next' = next + 1
        /\ \A u \in Threads : u # t => pc'[u] = pc[u] /\ mine'[u] = mine[u]
        /\ inFlight' = inFlight
    BY <1>1, <1>3 DEF StartCycle, Goto
  <2>2. \A u \in Threads : inFlight[u] < next' /\ inFlight[u] # next
    BY <1>1, <2>1
  <2> QED
    BY <1>1, <2>1, <2>2 DEF WaitIsOver
<1>4. CASE Peek(t)
  <2>1. /\ next' = next /\ mine' = mine
        /\ inFlight' = [inFlight EXCEPT ![t] = IF cycleLock = Nobody THEN 0 ELSE mine[cycleLock]]
        /\ cycleLock \in Threads \cup {Nobody}
        /\ Goto(t, IF cycleLock = Nobody THEN "lock" ELSE "wait")
    BY <1>4 DEF Peek, rows, TypeOK
  <2>2. CASE cycleLock = Nobody
    <3>1. inFlight' = [inFlight EXCEPT ![t] = 0] /\ Goto(t, "lock")
      BY <2>1, <2>2
    <3> QED
      BY <1>1, <2>1, <3>1 DEF WaitIsOver, Goto
  <2>3. CASE cycleLock # Nobody
    <3>1. /\ cycleLock \in Threads
          /\ inFlight' = [inFlight EXCEPT ![t] = mine[cycleLock]] /\ Goto(t, "wait")
      BY <2>1, <2>3
    <3> QED
      BY <1>1, <2>1, <3>1 DEF WaitIsOver, Goto
  <2> QED
    BY <2>2, <2>3
<1>5. CASE TakeLock(t)
  <2>1. /\ next' = next /\ mine' = mine /\ inFlight' = inFlight /\ cycleLock = Nobody
        /\ \A u \in Threads : u # t => pc'[u] = pc[u]
    BY <1>1, <1>5 DEF TakeLock, rows, Goto
  <2>2. \A u \in Threads : pc[u] \notin Holding
    BY <2>1, ThreadsAssumption DEF LockIsHeld, Holding
  <2>3. \A u \in Threads : mine[u] = 0
    BY <2>2 DEF CapturesAreOwn, Holding
  <2> QED
    BY <1>1, <2>1, <2>3 DEF WaitIsOver
<1>6. CASE /\ UNCHANGED <<next, mine, inFlight>> /\ pc[t] # "wait"
           /\ \A u \in Threads : u # t => pc'[u] = pc[u]
  BY <1>1, <1>6 DEF WaitIsOver
<1>7. CASE Call(t) \/ NothingToReuse(t) \/ StopWaiting(t) \/ NoCycle(t) \/ RecordQuotes(t)
           \/ ScanFails(t) \/ Complete(t) \/ MarkFailed(t)
  <2>1. UNCHANGED <<next, mine, inFlight>> /\ pc[t] # "wait"
    BY <1>7 DEF Call, NothingToReuse, StopWaiting, NoCycle, RecordQuotes, ScanFails, Complete,
                MarkFailed, rows
  <2>2. \E label : Goto(t, label)
    BY <1>7 DEF Call, NothingToReuse, StopWaiting, NoCycle, RecordQuotes, ScanFails, Complete,
                MarkFailed
  <2>3. \A u \in Threads : u # t => pc'[u] = pc[u]
    BY <1>1, <2>2 DEF Goto
  <2> QED
    BY <1>6, <2>1, <2>3
<1>8. CASE Reuse(t) \/ ReuseRaises(t) \/ Release(t)
  BY <1>2, <1>8 DEF Reuse, ReuseRaises, Release, rows
<1> QED
  BY <1>3, <1>4, <1>5, <1>7, <1>8 DEF Step

\* A cycle that may not be reused never may, unless its capture completes it.
LEMMA NeverReusable ==
    ASSUME TypeOK, NEW c, c \notin Reusable, clock' \in Int, clock' >= clock,
           \A d \in Completed : d \in Completed' /\ cycles'[d] = cycles[d],
           c \in Completed' => c \in Completed,
           c \in quotes' => c \in quotes
    PROVE  c \notin Reusable'
<1> SUFFICES ASSUME c \in Reusable' PROVE FALSE
  OBVIOUS
<1>1. c \in Completed /\ cycles'[c] = cycles[c] /\ c \in quotes /\ MaxAge > 0
  BY DEF Reusable
<1>2. \A d \in Completed : /\ d \in Completed' /\ cycles'[d] = cycles[d]
                           /\ \/ cycles'[d].completed < cycles'[c].completed
                              \/ cycles'[d].completed = cycles'[c].completed /\ d <= c
  BY DEF Reusable, IsLatest
<1>3. IsLatest(c)
  BY <1>1, <1>2 DEF IsLatest
<1>4. Fresh(c)
  <2>1. clock' - cycles[c].completed <= MaxAge
    BY <1>1 DEF Reusable, Fresh
  <2>2. cycles[c].completed \in Int /\ clock \in Int /\ MaxAge \in Int
    BY <1>1, TimesAssumption DEF TypeOK, Completed, Cycle
  <2> QED
    BY <2>1, <2>2 DEF Fresh
<1> QED
  BY <1>1, <1>3, <1>4 DEF Reusable

\* A thread changes no completed cycle, and completes none but its own.
LEMMA ThreadCompletes ==
    ASSUME TypeOK, CapturesAreOwn, NEW t \in Threads, Call(t) \/ Step(t)
    PROVE  /\ \A c \in DOMAIN cycles \cap DOMAIN cycles' :
                 cycles[c].status # "running" => cycles'[c] = cycles[c]
           /\ DOMAIN cycles \subseteq DOMAIN cycles'
           /\ \A d \in Completed : d \in Completed' /\ cycles'[d] = cycles[d]
           /\ \A c \in Completed' : c # mine[t] => c \in Completed
           /\ \A c \in quotes' : c # mine[t] => c \in quotes
<1>1. \A c \in DOMAIN cycles : c # next
  <2>1. next \in Nat /\ \A c \in DOMAIN cycles : c \in Nat /\ c < next
    BY DEF TypeOK, CapturesAreOwn
  <2> QED
    BY <2>1
<1>2. CASE UNCHANGED rows
  BY <1>2 DEF rows, Completed
<1>3. CASE StartCycle(t)
  BY <1>1, <1>3 DEF StartCycle, Completed
<1>4. CASE RecordQuotes(t)
  BY <1>4 DEF RecordQuotes, Completed
<1>5. CASE Complete(t) \/ MarkFailed(t)
  <2>1. quotes' = quotes /\ (mine[t] \in DOMAIN cycles => cycles[mine[t]].status = "running")
    BY <1>5 DEF Complete, MarkFailed, CapturesAreOwn
  <2>2. /\ DOMAIN cycles' = DOMAIN cycles
        /\ \A d \in DOMAIN cycles : d # mine[t] => cycles'[d] = cycles[d]
    BY <1>5, WithFacts DEF Complete, MarkFailed
  <2> QED
    BY <2>1, <2>2 DEF Completed
<1> QED
  BY <1>2, <1>3, <1>4, <1>5, ThreadStep

\* So a caller that captures has no cycle to reuse among those it waited for.
LEMMA ThreadReuses ==
    ASSUME FunnelInv, NEW t \in Threads, Call(t) \/ Step(t)
    PROVE  WaitersReuse'
<1>1. TypeOK /\ LockIsHeld /\ CapturesAreOwn /\ WaitIsOver
  BY DEF FunnelInv, WaitersReuse
<1>2. TypeOK'
  BY <1>1, ThreadTypes
<1>3. clock' = clock /\ clock \in Int /\ clock' >= clock
  BY <1>1, ThreadStep DEF TypeOK
<1>4. ASSUME NEW c, c \notin Reusable, c # mine[t] PROVE c \notin Reusable'
  <2>1. /\ \A d \in Completed : d \in Completed' /\ cycles'[d] = cycles[d]
        /\ c \in Completed' => c \in Completed
        /\ c \in quotes' => c \in quotes
    BY <1>1, <1>4, ThreadCompletes
  <2> QED
    BY <1>1, <1>3, <1>4, <2>1, NeverReusable
<1>5. 0 \notin Reusable'
  BY <1>2 DEF TypeOK, Reusable, Completed
<1>6. ASSUME NEW u \in Callers, pc'[u] \in Capturing, inFlight'[u] # 0
      PROVE  inFlight'[u] \notin Reusable'
  <2>1. u \in Threads /\ u # Refresher
    BY ThreadsAssumption DEF Threads
  <2>2. inFlight'[u] = inFlight[u]
    <3>1. CASE End(t)
      BY <1>1, <1>6, <2>1, <3>1, EndFacts DEF Capturing
    <3>2. CASE Peek(t)
      <4>1. CASE u # t
        BY <1>1, <2>1, <3>2, <4>1 DEF Peek, TypeOK
      <4>2. CASE u = t
        <5>1. pc'[t] = IF cycleLock = Nobody THEN "lock" ELSE "wait"
          BY <1>1, <3>2 DEF Peek, Goto, TypeOK
        <5>2. inFlight'[t] = IF cycleLock = Nobody THEN 0 ELSE mine[cycleLock]
          BY <1>1, <3>2 DEF Peek, TypeOK
        <5> QED
          BY <1>6, <4>2, <5>1, <5>2 DEF Capturing
      <4> QED
        BY <4>1, <4>2
    <3> QED
      BY <1>1, <3>1, <3>2, ThreadStep
  <2>3. CASE pc[u] \in Capturing
    <3>1. inFlight[u] \notin Reusable
      BY <1>6, <2>3 DEF FunnelInv, WaitersReuse
    <3>2. inFlight[u] # mine[t]
      BY <1>1, <1>6, <2>1, <2>2, <2>3 DEF WaitIsOver, Capturing
    <3> QED
      BY <1>4, <2>2, <3>1, <3>2
  <2>4. CASE pc[u] \notin Capturing
    <3>1. u = t /\ ~End(t)
      <4>1. ASSUME u # t PROVE pc'[u] = pc[u]
        <5>1. CASE End(t)
          BY <1>1, <2>1, <4>1, <5>1, EndFacts
        <5>2. CASE ~End(t)
          <6>1. \E label : Goto(t, label)
            BY <5>2 DEF Call, Step, Reuse, NothingToReuse, ReuseRaises, Peek, TakeLock,
                        StopWaiting, StartCycle, NoCycle, RecordQuotes, ScanFails, Complete,
                        MarkFailed, Release
          <6> QED
            BY <1>1, <2>1, <4>1, <6>1 DEF TypeOK, Goto
        <5> QED
          BY <5>1, <5>2
      <4>2. End(t) => pc'[t] = "off"
        BY <1>1, EndFacts
      <4> QED
        BY <1>6, <2>4, <4>1, <4>2 DEF Capturing
    <3>2. NothingToReuse(t) \/ Peek(t)
      <4>1. Call(t) => pc'[t] = "look"
        BY <1>1, <2>1, <3>1 DEF Call, Goto, TypeOK
      <4>2. TakeLock(t) => pc'[t] = "waited" \/ pc[t] = "lock"
        BY <1>1 DEF TakeLock, Goto, TypeOK
      <4>3. StopWaiting(t) => pc'[t] = "again"
        BY <1>1 DEF StopWaiting, Goto, TypeOK
      <4>4. StartCycle(t) \/ NoCycle(t) \/ RecordQuotes(t) \/ ScanFails(t) \/ Complete(t)
                => pc[t] \in Capturing
        BY DEF StartCycle, NoCycle, RecordQuotes, ScanFails, Complete, Capturing
      <4>5. MarkFailed(t) => pc'[t] = "release"
        BY <1>1 DEF MarkFailed, Goto, TypeOK
      <4>6. Reuse(t) \/ ReuseRaises(t) \/ Release(t) => End(t)
        BY DEF Reuse, ReuseRaises, Release
      <4> QED
        BY <1>6, <2>4, <3>1, <4>1, <4>2, <4>3, <4>4, <4>5, <4>6 DEF Step, Capturing
    <3>3. Reusable = {} /\ UNCHANGED rows
      <4>1. CASE NothingToReuse(t)
        BY <4>1 DEF NothingToReuse
      <4>2. CASE Peek(t)
        <5>1. /\ pc'[t] = IF cycleLock = Nobody THEN "lock" ELSE "wait"
              /\ inFlight'[t] = IF cycleLock = Nobody THEN 0 ELSE mine[cycleLock]
          BY <1>1, <4>2 DEF Peek, Goto, TypeOK
        <5> QED
          BY <1>6, <3>1, <5>1 DEF Capturing
      <4> QED
        BY <3>2, <4>1, <4>2
    <3>4. Reusable' = Reusable
      BY <1>3, <3>3 DEF rows, Reusable, Completed, IsLatest, Fresh
    <3> QED
      BY <3>3, <3>4
  <2> QED
    BY <2>3, <2>4
<1> QED
  BY <1>2, <1>5, <1>6 DEF WaitersReuse
-----------------------------------------------------------------------------
(* What comes in between, and the beginning *)

\* Time passes, or nothing happens.
LEMMA QuietKeeps ==
    ASSUME FunnelInv, Tick \/ UNCHANGED vars
    PROVE  FunnelInv'
<1>1. TypeOK /\ LockIsHeld /\ CapturesAreOwn /\ WaitIsOver
  BY DEF FunnelInv, WaitersReuse
<1>2. /\ UNCHANGED <<cycles, quotes, next, cycleLock, pc, mine, inFlight, up, count>>
      /\ clock' \in 0..MaxTime /\ clock' >= clock
  BY <1>1, BoundsAssumption DEF Tick, vars, rows, TypeOK
<1>3. TypeOK'
  BY <1>1, <1>2 DEF TypeOK
<1>4. ASSUME NEW u \in Callers, pc'[u] \in Capturing PROVE inFlight'[u] \notin Reusable'
  <2>1. inFlight[u] \notin Reusable /\ inFlight'[u] = inFlight[u] /\ clock' \in Int
    BY <1>2, <1>4, <1>3 DEF FunnelInv, WaitersReuse, TypeOK
  <2>2. Completed' = Completed /\ cycles' = cycles /\ quotes' = quotes
    BY <1>2 DEF Completed
  <2> QED
    BY <1>1, <1>2, <2>1, <2>2, NeverReusable
<1> QED
  BY <1>1, <1>2, <1>3, <1>4
     DEF FunnelInv, WaitersReuse, LockIsHeld, CapturesAreOwn, WaitIsOver

\* A reset deletes the cycles, and with them all that could be reused.
LEMMA ResetKeeps ==
    ASSUME FunnelInv, Reset
    PROVE  FunnelInv'
<1>1. TypeOK /\ LockIsHeld /\ CapturesAreOwn /\ WaitIsOver
  BY DEF FunnelInv, WaitersReuse
<1>2. /\ UNCHANGED <<next, cycleLock, pc, mine, inFlight, up, clock>>
      /\ cycles' = [c \in {} |-> 0] /\ quotes' = {}
      /\ count.resets < MaxResets /\ count' = [count EXCEPT !.resets = count.resets + 1]
  BY DEF Reset
<1>3. DOMAIN cycles' = {} /\ cycles' \in [DOMAIN cycles' -> Cycle]
  BY <1>2
<1>4. TypeOK'
  BY SMTT(30), <1>1, <1>2, <1>3, BoundsAssumption DEF TypeOK
<1>5. Reusable' = {}
  BY <1>3 DEF Reusable, Completed
<1> QED
  BY <1>1, <1>2, <1>3, <1>4, <1>5
     DEF FunnelInv, WaitersReuse, LockIsHeld, CapturesAreOwn, WaitIsOver

\* A crash frees the lock and forgets who captured and who waited.
LEMMA CrashKeeps ==
    ASSUME FunnelInv, Crash
    PROVE  FunnelInv'
<1>1. TypeOK /\ LockIsHeld /\ CapturesAreOwn /\ WaitIsOver
  BY DEF FunnelInv, WaitersReuse
<1>2. /\ UNCHANGED <<cycles, quotes, next, clock>> /\ up' = FALSE /\ cycleLock' = Nobody
      /\ pc' = [t \in Threads |-> "off"] /\ mine' = [t \in Threads |-> 0]
      /\ inFlight' = [t \in Threads |-> 0]
      /\ count.crashes < MaxCrashes /\ count' = [count EXCEPT !.crashes = count.crashes + 1]
  BY DEF Crash, rows
<1>3. TypeOK'
  <2>1. /\ pc' \in [Threads -> Labels]
        /\ mine' \in [Threads -> Nat] /\ inFlight' \in [Threads -> Nat]
    BY <1>2 DEF Labels
  <2>2. count' \in [calls : 0..MaxCalls, crashes : 0..MaxCrashes, resets : 0..MaxResets]
    BY <1>1, <1>2, BoundsAssumption DEF TypeOK
  <2> QED
    BY <1>1, <1>2, <2>1, <2>2 DEF TypeOK
<1>4. LockIsHeld'
  BY <1>2, ThreadsAssumption DEF LockIsHeld
<1>5. CapturesAreOwn' /\ WaitIsOver'
  <2>1. 0 < next
    BY <1>1 DEF TypeOK
  <2> QED
    BY <1>1, <1>2, <2>1 DEF CapturesAreOwn, WaitIsOver
<1>6. \A u \in Callers : pc'[u] \notin Capturing
  BY <1>2 DEF Threads, Capturing
<1> QED
  BY <1>3, <1>4, <1>5, <1>6 DEF FunnelInv, WaitersReuse

\* The recovery writes rows while no thread is there to notice.
LEMMA RestartKeeps ==
    ASSUME FunnelInv, Restart
    PROVE  FunnelInv'
<1>1. TypeOK /\ LockIsHeld /\ CapturesAreOwn /\ WaitIsOver
  BY DEF FunnelInv, WaitersReuse
<1>2. /\ UNCHANGED <<quotes, next, cycleLock, pc, mine, inFlight, clock, count>> /\ ~up /\ up' = TRUE
      /\ cycles' = [c \in DOMAIN cycles |-> IF Swept(c) THEN Ended(c, "failed") ELSE cycles[c]]
  BY DEF Restart
<1>3. \A t \in Threads : pc[t] = "off"
  BY <1>1, <1>2 DEF LockIsHeld
<1>4. DOMAIN cycles' = DOMAIN cycles /\ cycles' \in [DOMAIN cycles -> Cycle]
  <2>1. \A c \in DOMAIN cycles : Ended(c, "failed") \in Cycle /\ cycles[c] \in Cycle
    BY <1>1 DEF TypeOK, Cycle, Ended
  <2> QED
    BY <1>2, <2>1
<1>5. TypeOK'
  BY <1>1, <1>2, <1>4 DEF TypeOK
<1>6. LockIsHeld'
  BY <1>1, <1>2 DEF LockIsHeld
<1>7. CapturesAreOwn' /\ WaitIsOver'
  BY <1>1, <1>2, <1>3, <1>4 DEF CapturesAreOwn, WaitIsOver
<1>8. \A u \in Callers : pc'[u] \notin Capturing
  BY <1>2, <1>3 DEF Threads, Capturing
<1> QED
  BY <1>5, <1>6, <1>7, <1>8 DEF FunnelInv, WaitersReuse

\* At first there are no cycles and nobody asks for one.
LEMMA InitFunnel == Init => FunnelInv
<1> SUFFICES ASSUME Init PROVE FunnelInv
  OBVIOUS
<1>1. TypeOK
  BY BoundsAssumption DEF Init, TypeOK, Labels
<1>2. LockIsHeld /\ CapturesAreOwn /\ WaitIsOver
  BY ThreadsAssumption DEF Init, LockIsHeld, CapturesAreOwn, WaitIsOver
<1>3. \A u \in Callers : pc[u] \notin Capturing
  BY DEF Init, Threads, Capturing
<1> QED
  BY <1>1, <1>2, <1>3 DEF FunnelInv, WaitersReuse

\* Every step keeps the invariant.
LEMMA StepFunnel == FunnelInv /\ [Next]_vars => FunnelInv'
<1> SUFFICES ASSUME FunnelInv, [Next]_vars PROVE FunnelInv'
  OBVIOUS
<1>1. TypeOK /\ LockIsHeld /\ CapturesAreOwn /\ WaitIsOver
  BY DEF FunnelInv, WaitersReuse
<1>2. ASSUME NEW t \in Threads, Call(t) \/ Step(t) PROVE FunnelInv'
  BY <1>1, <1>2, ThreadLock, ThreadCaptures, ThreadWaits, ThreadReuses DEF FunnelInv
<1> QED
  BY <1>2, QuietKeeps, ResetKeeps, CrashKeeps, RestartKeeps DEF Next, Finished
-----------------------------------------------------------------------------
(* The theorems *)

\* FunnelInv holds in every state.
THEOREM FunnelInductive == Spec => []FunnelInv
BY InitFunnel, StepFunnel, PTL DEF Spec

\* However many callers wait: a capture that one of them waited for, and that can
\* be reused, is never followed by a capture of its own.
THEOREM WaitIsRewarded == Spec => []WaitersReuse
<1>1. FunnelInv => WaitersReuse
  BY DEF FunnelInv
<1> QED
  BY <1>1, FunnelInductive, PTL

\* A row that is swept was started before the cutoff: comparing dates only can spare
\* a stale cycle, never sweep one that is not.
LEMMA SweptIsStale ==
    ASSUME TypeOK, NEW c \in DOMAIN cycles, Swept(c)
    PROVE  cycles[c].started < clock - Stale
<1>1. cycles[c].started \in Int /\ clock - Stale \in Int /\ Day \in Nat \ {0}
  BY TimesAssumption DEF TypeOK, Cycle
<1>2. \A x, y \in Int : y <= x => y \div Day <= x \div Day
  BY <1>1
<1>3. \A x \in Int : x \div Day \in Int
  BY <1>1
<1>4. cycles[c].started \div Day < (clock - Stale) \div Day
  BY DEF Swept
<1> QED
  BY <1>1, <1>2, <1>3, <1>4

\* How a cycle ended stays, and the recovery ends only cycles that are stale.
THEOREM OutcomesStay == Spec => OutcomesAreFinal
<1> DEFINE Settled ==
        \A c \in DOMAIN cycles \cap DOMAIN cycles' :
            /\ cycles[c].status # "running" => cycles'[c] = cycles[c]
            /\ ~up /\ up' /\ cycles'[c].status # cycles[c].status
                  => cycles[c].started < clock - Stale
<1>1. FunnelInv /\ [Next]_vars => [Settled]_vars
  <2> SUFFICES ASSUME FunnelInv, Next PROVE Settled \/ UNCHANGED vars
    OBVIOUS
  <2>1. TypeOK /\ CapturesAreOwn
    BY DEF FunnelInv, WaitersReuse
  <2>2. ASSUME NEW t \in Threads, Call(t) \/ Step(t) PROVE Settled
    BY <2>1, <2>2, ThreadCompletes, ThreadStep
  <2>3. CASE Reset \/ Tick \/ Crash
    BY <2>3 DEF Reset, Tick, Crash, rows
  <2>4. CASE Restart
    <3>1. \A c \in DOMAIN cycles : cycles'[c] = IF Swept(c) THEN Ended(c, "failed") ELSE cycles[c]
      BY <2>4 DEF Restart
    <3>2. \A c \in DOMAIN cycles : Swept(c) => /\ cycles[c].status = "running"
                                              /\ cycles[c].started < clock - Stale
      BY <2>1, SweptIsStale DEF Swept
    <3> QED
      BY <3>1, <3>2
  <2> QED
    BY <2>2, <2>3, <2>4 DEF Next, Finished
<1> QED
  BY <1>1, FunnelInductive, PTL DEF Spec, OutcomesAreFinal
=============================================================================
