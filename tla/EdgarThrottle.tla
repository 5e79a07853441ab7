--------------------------- MODULE EdgarThrottle ---------------------------
(***************************************************************************)
(* adapters/edgar/throttle.py: the requests of all threads of the process  *)
(* to SEC EDGAR take slots from one line, and a request that is refused    *)
(* with HTTP 429 waits and takes another slot.                             *)
(*                                                                         *)
(* Time is counted in ticks.  A thread sleeps until its slot at least: the *)
(* scheduler may wake it later.                                            *)
(***************************************************************************)
EXTENDS Integers, Sequences, FiniteSets

CONSTANTS Threads,
          Interval,      \* _MIN_INTERVAL_SECONDS, in ticks
          MaxAttempts,   \* _MAX_ATTEMPTS
          Backoffs,      \* what Retry-After, or the exponential backoff, may ask for
          MaxNow, MaxSent

ASSUME ThrottleAssumption ==
    /\ {Interval, MaxAttempts} \subseteq Nat \ {0}
    /\ Backoffs \subseteq Nat /\ {MaxNow, MaxSent} \subseteq Nat
    /\ IsFiniteSet(Threads)

VARIABLES now,        \* time.monotonic
          next_slot,
          getter,     \* each thread's locals in get and _paced_get
          sent        \* when the requests left (history)

throttleVars == <<now, next_slot, getter, sent>>

Resting == [pc |-> "rest", attempt |-> 0, until |-> 0]

ThrottleInit ==
    /\ now = 0 /\ next_slot = 0 /\ sent = <<>>
    /\ getter = [t \in Threads |-> Resting]

Tick == now < MaxNow /\ now' = now + 1 /\ UNCHANGED <<next_slot, getter, sent>>

Later(a, b) == IF a < b THEN b ELSE a

\* Mutant of NextSlot: the line restarts at every request.
NextSlotFromNow(slot) == now + Interval

NextSlot(slot) == slot + Interval

\* The threads that sleep until their slot, or overslept it.
Paced == {u \in Threads : getter[u].pc = "pace"}

\* get, or its next attempt when the backoff is over: the slot is taken under the
\* lock, and the thread sleeps outside of it.
TakeSlot(t) ==
    /\ getter[t].pc = "rest" \/ (getter[t].pc = "backoff" /\ now >= getter[t].until)
    /\ Len(sent) + Cardinality(Paced) < MaxSent
    /\ LET slot == Later(now, next_slot) IN
          /\ next_slot' = NextSlot(slot)
          /\ getter' = [getter EXCEPT ![t] = [pc |-> "pace", attempt |-> @.attempt + 1, until |-> slot]]
    /\ UNCHANGED <<now, sent>>

Send(t) ==
    /\ getter[t].pc = "pace" /\ now >= getter[t].until
    /\ sent' = Append(sent, now)
    /\ getter' = [getter EXCEPT ![t].pc = "sent"]
    /\ UNCHANGED <<now, next_slot>>

\* Any other status than 429, the last 429, or an exception is the caller's.
Answered(t) ==
    /\ getter[t].pc = "sent"
    /\ getter' = [getter EXCEPT ![t] = Resting]
    /\ UNCHANGED <<now, next_slot, sent>>

RateLimited(t) ==
    /\ getter[t].pc = "sent" /\ getter[t].attempt < MaxAttempts
    /\ \E wait \in Backoffs :
          getter' = [getter EXCEPT ![t] = [pc |-> "backoff", attempt |-> @.attempt, until |-> now + wait]]
    /\ UNCHANGED <<now, next_slot, sent>>

ThrottleNext ==
    \/ Tick
    \/ \E t \in Threads : TakeSlot(t) \/ Send(t) \/ Answered(t) \/ RateLimited(t)

ThrottleSpec == ThrottleInit /\ [][ThrottleNext]_throttleVars
-----------------------------------------------------------------------------
ThrottleTypeOK ==
    /\ now \in Nat /\ next_slot \in Nat /\ sent \in Seq(Nat)
    /\ getter \in [Threads -> [pc : {"rest", "pace", "sent", "backoff"}, attempt : Nat, until : Nat]]

\* "The whole process shares one conservative budget" (throttle.py:6): whatever the
\* threads do, no more requests have left by any time than one per interval; and in
\* any span of time no more than that and one late riser for each thread.
InBudget ==
    /\ Len(sent) * Interval <= now + Interval
    /\ \A i, j \in DOMAIN sent :
          i < j => (j - i - Cardinality(Threads)) * Interval <= sent[j] - sent[i]

\* The line is as long as the threads that wait in it: whatever is left of it at a
\* time has been taken by threads whose slots are later than that.
LineIsTaken ==
    \A time \in now..next_slot :
        next_slot <= time + Interval * (1 + Cardinality({u \in Paced : getter[u].until > time}))

\* Every request had its slot, and every thread in the line has one.
SlotsAreCounted == Interval * (Len(sent) + Cardinality(Paced)) <= next_slot

\* Since a request left, the line went on by a slot for every later one, but for as
\* many as there are threads that may have overslept theirs.
LineGoesOn ==
    \A i \in DOMAIN sent :
        /\ sent[i] <= now
        /\ Interval * (1 + Len(sent) - i + Cardinality(Paced) - Cardinality(Threads))
              <= Later(now, next_slot) - sent[i]

\* The inductive invariant.
ThrottleInv == ThrottleTypeOK /\ LineIsTaken /\ SlotsAreCounted /\ LineGoesOn /\ InBudget
=============================================================================
