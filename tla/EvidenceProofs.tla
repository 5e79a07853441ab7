--------------------------- MODULE EvidenceProofs ---------------------------
(***************************************************************************)
(* The pipeline of evidence for any number of threads, documents, tickers  *)
(* and faults: the pace of the requests to EDGAR, the briefs of filings,   *)
(* the fundamentals of a day, and what is made of the evidence on its way  *)
(* into a prompt, for any input.                                           *)
(***************************************************************************)
EXTENDS MCEvidence, FiniteSetTheorems, WellFoundedInduction, TLAPS

-----------------------------------------------------------------------------
(* The pace of the requests *)

\* Slots are added and compared as their numbers are.
LEMMA Slots ==
    /\ \A a, b \in Int : Interval * (a + b) = Interval * a + Interval * b
    /\ \A a, b \in Int : a <= b => Interval * a <= Interval * b
    /\ \A a \in Int : Interval * a \in Int /\ Interval * a = a * Interval
    /\ Interval * 1 = Interval /\ Interval \in Nat /\ Interval > 0
<1>1. Interval \in Nat /\ Interval > 0
  BY ThrottleAssumption
<1>2. \A a, b \in Int : Interval * (a + b) = Interval * a + Interval * b
  BY <1>1, SMT
<1>3. \A a, b \in Int : a <= b => Interval * a <= Interval * b
  <2> TAKE a, b \in Int
  <2> HAVE a <= b
  <2>1. b = a + (b - a) /\ b - a \in Nat
    OBVIOUS
  <2>2. Interval * b = Interval * a + Interval * (b - a)
    BY <2>1, <1>2
  <2>3. \A n \in Nat : Interval * n >= 0
    BY <1>1, SMT
  <2> QED
    BY <2>1, <2>2, <2>3, <1>1
<1> QED
  BY <1>1, <1>2, <1>3

\* The threads in the line can be counted, and so can those of them that are left.
LEMMA PacedIsFinite ==
    /\ IsFiniteSet(Paced) /\ Cardinality(Paced) \in Nat
    /\ Cardinality(Threads) \in Nat /\ Cardinality(Paced) <= Cardinality(Threads)
    /\ \A S \in SUBSET Paced : IsFiniteSet(S) /\ Cardinality(S) \in Nat
                               /\ Cardinality(S) <= Cardinality(Paced)
<1>1. IsFiniteSet(Threads) /\ Paced \in SUBSET Threads
  BY ThrottleAssumption DEF Paced
<1>2. IsFiniteSet(Paced) /\ Cardinality(Paced) <= Cardinality(Threads)
  BY <1>1, FS_Subset
<1>3. ASSUME NEW S \in SUBSET Paced
      PROVE  IsFiniteSet(S) /\ Cardinality(S) \in Nat /\ Cardinality(S) <= Cardinality(Paced)
  BY <1>2, FS_Subset, FS_CardinalityType
<1> QED
  BY <1>1, <1>2, <1>3, FS_CardinalityType

\* A step that moves no thread into the line or out of it keeps its place.
LEMMA SameLine ==
    ASSUME ThrottleInv, ThrottleTypeOK', next_slot' = next_slot, sent' = sent,
           now <= now', Paced' = Paced,
           \A u \in Paced : getter'[u].until = getter[u].until
    PROVE  ThrottleInv'
<1> DEFINE P == Cardinality(Paced)
<1>1. P \in Nat /\ Cardinality(Threads) \in Nat
  BY PacedIsFinite
<1>2. now \in Nat /\ now' \in Nat /\ next_slot \in Nat /\ sent \in Seq(Nat)
  BY DEF ThrottleInv, ThrottleTypeOK
<1>3. LineIsTaken'
  <2> SUFFICES ASSUME NEW time \in now'..next_slot
               PROVE  next_slot <= time + Interval * (1 + Cardinality({u \in Paced' : getter'[u].until > time}))
    BY DEF LineIsTaken
  <2>1. {u \in Paced' : getter'[u].until > time} = {u \in Paced : getter[u].until > time}
    OBVIOUS
  <2>2. time \in now..next_slot
    BY <1>2
  <2> QED
    BY <2>1, <2>2 DEF ThrottleInv, LineIsTaken
<1>4. SlotsAreCounted'
  BY DEF ThrottleInv, SlotsAreCounted
<1>5. LineGoesOn'
  <2> SUFFICES ASSUME NEW i \in DOMAIN sent
               PROVE  /\ sent[i] <= now'
                      /\ Interval * (1 + Len(sent) - i + P - Cardinality(Threads))
                            <= Later(now', next_slot) - sent[i]
    BY DEF LineGoesOn, Later
  <2>1. Later(now, next_slot) <= Later(now', next_slot)
    BY <1>2 DEF Later
  <2>2. sent[i] \in Nat /\ i \in Nat
    BY <1>2
  <2>3. Interval * (1 + Len(sent) - i + P - Cardinality(Threads)) \in Int
    BY <1>1, <1>2, <2>2, Slots
  <2>4. Later(now, next_slot) \in Nat /\ Later(now', next_slot) \in Nat
    BY <1>2 DEF Later
  <2>5. /\ sent[i] <= now
        /\ Interval * (1 + Len(sent) - i + P - Cardinality(Threads)) <= Later(now, next_slot) - sent[i]
    BY DEF ThrottleInv, LineGoesOn
  <2> QED
    BY SMTT(30), <1>2, <2>1, <2>2, <2>3, <2>4, <2>5
<1>6. InBudget'
  <2>1. Len(sent) * Interval <= now' + Interval
    BY <1>2, Slots DEF ThrottleInv, InBudget
  <2> QED
    BY <2>1 DEF ThrottleInv, InBudget
<1> QED
  BY <1>3, <1>4, <1>5, <1>6 DEF ThrottleInv

\* Types are kept.
LEMMA ThrottleTypes ==
    ASSUME ThrottleTypeOK, [ThrottleNext]_throttleVars
    PROVE  ThrottleTypeOK'
<1> USE DEF ThrottleTypeOK
<1>1. CASE Tick
  BY <1>1 DEF Tick
<1>2. ASSUME NEW t \in Threads, TakeSlot(t)
      PROVE  ThrottleTypeOK'
  <2> DEFINE slot == Later(now, next_slot)
  <2>1. slot \in Nat /\ NextSlot(slot) \in Nat
    BY ThrottleAssumption DEF Later, NextSlot
  <2> HIDE DEF slot
  <2>2. [pc |-> "pace", attempt |-> getter[t].attempt + 1, until |-> slot]
            \in [pc : {"rest", "pace", "sent", "backoff"}, attempt : Nat, until : Nat]
    BY <2>1
  <2>3. /\ getter' = [getter EXCEPT ![t] = [pc |-> "pace", attempt |-> @.attempt + 1, until |-> slot]]
        /\ next_slot' = NextSlot(slot) /\ UNCHANGED <<now, sent>>
    BY <1>2 DEF TakeSlot, slot
  <2> QED
    BY <2>1, <2>2, <2>3
<1>3. ASSUME NEW t \in Threads, Send(t)
      PROVE  ThrottleTypeOK'
  <2>1. sent' \in Seq(Nat)
    BY <1>3 DEF Send
  <2>2. [getter[t] EXCEPT !.pc = "sent"] \in [pc : {"rest", "pace", "sent", "backoff"}, attempt : Nat, until : Nat]
    OBVIOUS
  <2>3. /\ getter' = [getter EXCEPT ![t] = [getter[t] EXCEPT !.pc = "sent"]]
        /\ UNCHANGED <<now, next_slot>>
    BY <1>3 DEF Send
  <2> QED
    BY <2>1, <2>2, <2>3
<1>4. ASSUME NEW t \in Threads, Answered(t)
      PROVE  ThrottleTypeOK'
  BY <1>4 DEF Answered, Resting
<1>5. ASSUME NEW t \in Threads, RateLimited(t)
      PROVE  ThrottleTypeOK'
  <2>1. PICK wait \in Backoffs :
            getter' = [getter EXCEPT ![t] = [pc |-> "backoff", attempt |-> @.attempt, until |-> now + wait]]
    BY <1>5 DEF RateLimited
  <2>2. now + wait \in Nat
    BY ThrottleAssumption
  <2> QED
    BY <1>5, <2>1, <2>2 DEF RateLimited
<1>6. CASE UNCHANGED throttleVars
  BY <1>6 DEF throttleVars
<1> QED
  BY <1>1, <1>2, <1>3, <1>4, <1>5, <1>6 DEF ThrottleNext

\* A thread that takes a slot makes the line longer by one.
LEMMA SlotIsTaken ==
    ASSUME ThrottleInv, ThrottleTypeOK', NEW t \in Threads, TakeSlot(t)
    PROVE  ThrottleInv'
<1> DEFINE P == Cardinality(Paced)
           slot == Later(now, next_slot)
           Behind(time) == {u \in Paced : getter[u].until > time}
<1>1. /\ P \in Nat /\ Cardinality(Threads) \in Nat
      /\ \A time \in Nat : IsFiniteSet(Behind(time)) /\ Cardinality(Behind(time)) \in Nat
  BY PacedIsFinite
<1>2. now \in Nat /\ next_slot \in Nat /\ sent \in Seq(Nat) /\ Len(sent) \in Nat
  BY DEF ThrottleInv, ThrottleTypeOK
<1>3. /\ next_slot' = slot + Interval /\ now' = now /\ sent' = sent
      /\ getter[t].pc # "pace" /\ getter'[t].pc = "pace" /\ getter'[t].until = slot
      /\ \A u \in Threads : u # t => getter'[u] = getter[u]
  BY DEF TakeSlot, NextSlot, ThrottleInv, ThrottleTypeOK
<1>4. slot \in Nat /\ now <= slot /\ next_slot <= slot
      /\ (slot = now \/ slot = next_slot)
  BY <1>2 DEF Later
<1>5. t \notin Paced /\ Paced' = Paced \cup {t}
  BY <1>3 DEF Paced
<1>6. Cardinality(Paced') = P + 1
  BY <1>5, PacedIsFinite, FS_AddElement
<1>7. LineIsTaken'
  <2> SUFFICES ASSUME NEW time \in now..next_slot'
               PROVE  next_slot' <= time + Interval * (1 + Cardinality({u \in Paced' : getter'[u].until > time}))
    BY <1>3 DEF LineIsTaken
  <2> DEFINE S == {u \in Paced' : getter'[u].until > time}
  <2>1. time \in Nat /\ now <= time
    BY <1>2
  <2>2. S \in SUBSET Paced' /\ IsFiniteSet(Paced')
    BY <1>5, PacedIsFinite, FS_AddElement
  <2>3. Cardinality(S) \in Nat
    BY <2>2, FS_Subset, FS_CardinalityType
  <2>4. CASE slot <= time
    <3>1. Interval * (1 + Cardinality(S)) >= Interval * 1
      BY <2>3, Slots
    <3>2. Interval * (1 + Cardinality(S)) \in Int
      BY <2>3, Slots
    <3> QED
      BY <1>3, <1>4, <2>1, <2>4, <3>1, <3>2, Slots
  <2>5. CASE time < slot
    <3>1. S = Behind(time) \cup {t} /\ t \notin Behind(time)
      BY <1>3, <1>4, <1>5, <2>1, <2>5 DEF Paced
    <3>2. Cardinality(S) = Cardinality(Behind(time)) + 1
      BY <1>1, <2>1, <3>1, FS_AddElement
    <3>3. slot = next_slot /\ time \in now..next_slot
      BY <1>2, <1>4, <2>1, <2>5
    <3>4. next_slot <= time + Interval * (1 + Cardinality(Behind(time)))
      BY <3>3 DEF ThrottleInv, LineIsTaken
    <3>5. /\ Interval * (1 + Cardinality(S)) = Interval * (1 + Cardinality(Behind(time))) + Interval * 1
          /\ Interval * (1 + Cardinality(Behind(time))) \in Int
      <4>1. 1 + Cardinality(S) = (1 + Cardinality(Behind(time))) + 1 /\ 1 + Cardinality(Behind(time)) \in Int
        <5> DEFINE b == Cardinality(Behind(time))
        <5>1. b \in Nat /\ Cardinality(S) = b + 1
          BY <1>1, <2>1, <3>2
        <5> HIDE DEF b, S
        <5>2. 1 + Cardinality(S) = (1 + b) + 1 /\ 1 + b \in Int
          BY <5>1
        <5> QED
          BY <5>2 DEF b
      <4> QED
        BY <4>1, Slots
    <3> QED
      BY <1>2, <1>3, <2>1, <3>3, <3>4, <3>5, Slots
  <2> QED
    BY <1>4, <2>1, <2>4, <2>5
<1>8. SlotsAreCounted'
  <2>1. Interval * (Len(sent) + (P + 1)) = Interval * (Len(sent) + P) + Interval * 1
        /\ Interval * (Len(sent) + P) \in Int
    <3>1. Len(sent) + (P + 1) = (Len(sent) + P) + 1 /\ Len(sent) + P \in Int
      BY <1>1, <1>2
    <3> QED
      BY <3>1, Slots
  <2>2. Interval * (Len(sent) + P) <= next_slot
    BY DEF ThrottleInv, SlotsAreCounted
  <2>3. Interval * (Len(sent) + (P + 1)) <= next_slot'
    BY <1>2, <1>3, <1>4, <2>1, <2>2, Slots
  <2> QED
    BY <1>3, <1>6, <2>3 DEF SlotsAreCounted
<1>9. LineGoesOn'
  <2> SUFFICES ASSUME NEW i \in DOMAIN sent
               PROVE  /\ sent[i] <= now
                      /\ Interval * (1 + Len(sent) - i + (P + 1) - Cardinality(Threads))
                            <= Later(now, next_slot') - sent[i]
    BY <1>3, <1>6 DEF LineGoesOn, Later
  <2> DEFINE n == 1 + Len(sent) - i + P - Cardinality(Threads)
  <2>1. /\ sent[i] <= now
        /\ Interval * n <= slot - sent[i]
    BY DEF ThrottleInv, LineGoesOn
  <2>2. sent[i] \in Nat /\ i \in Nat
    BY <1>2
  <2>3. n \in Int /\ 1 + Len(sent) - i + (P + 1) - Cardinality(Threads) = n + 1
    BY <1>1, <1>2, <2>2
  <2>5. Later(now, next_slot') = slot + Interval
    <3>1. Interval \in Nat /\ Interval > 0
      BY Slots
    <3>2. slot \in Nat /\ now \in Nat /\ now <= slot
      BY <1>2, <1>4 DEF Later
    <3>3. next_slot' = slot + Interval
      BY <1>3
    <3> HIDE DEF slot
    <3> QED
      BY <3>1, <3>2, <3>3 DEF Later
  <2> HIDE DEF n, slot, P
  <2>4. Interval * (n + 1) = Interval * n + Interval * 1 /\ Interval * n \in Int
    BY <2>3, Slots
  <2> QED
    BY <1>4, <2>1, <2>2, <2>3, <2>4, <2>5, Slots
<1>10. InBudget'
  BY <1>3 DEF ThrottleInv, InBudget
<1> QED
  BY <1>7, <1>8, <1>9, <1>10 DEF ThrottleInv

\* A request that leaves finds the line long enough: its thread, which has overslept
\* its slot or not, is one of those the line was counted with.
LEMMA RequestLeaves ==
    ASSUME ThrottleInv, ThrottleTypeOK', NEW t \in Threads, Send(t)
    PROVE  ThrottleInv'
<1> DEFINE P == Cardinality(Paced)
           Behind(time) == {u \in Paced : getter[u].until > time}
<1>1. P \in Nat /\ Cardinality(Threads) \in Nat /\ P <= Cardinality(Threads)
  BY PacedIsFinite
<1>2. now \in Nat /\ next_slot \in Nat /\ sent \in Seq(Nat) /\ Len(sent) \in Nat
  BY DEF ThrottleInv, ThrottleTypeOK
<1>3. /\ next_slot' = next_slot /\ now' = now /\ sent' = Append(sent, now)
      /\ getter[t].pc = "pace" /\ getter[t].until <= now /\ getter'[t].pc = "sent"
      /\ \A u \in Threads : u # t => getter'[u] = getter[u]
  BY DEF Send, ThrottleInv, ThrottleTypeOK
<1>4. /\ Len(sent') = Len(sent) + 1 /\ DOMAIN sent' = DOMAIN sent \cup {Len(sent) + 1}
      /\ \A i \in DOMAIN sent : sent'[i] = sent[i] /\ sent[i] \in Nat /\ i \in 1..Len(sent)
      /\ sent'[Len(sent) + 1] = now
  BY <1>2, <1>3
<1>5. t \in Paced /\ Paced' = Paced \ {t}
  BY <1>3 DEF Paced
<1>6. Cardinality(Paced') = P - 1 /\ P >= 1
  BY <1>5, PacedIsFinite, FS_RemoveElement, FS_EmptySet
<1>7. LineIsTaken'
  <2> SUFFICES ASSUME NEW time \in now..next_slot
               PROVE  next_slot <= time + Interval * (1 + Cardinality({u \in Paced' : getter'[u].until > time}))
    BY <1>3 DEF LineIsTaken
  <2>1. {u \in Paced' : getter'[u].until > time} = Behind(time)
    BY <1>2, <1>3, <1>5 DEF Paced, ThrottleInv, ThrottleTypeOK
  <2> QED
    BY <2>1 DEF ThrottleInv, LineIsTaken
<1>8. SlotsAreCounted'
  <2>1. Len(sent') + Cardinality(Paced') = Len(sent) + P
    BY <1>1, <1>2, <1>4, <1>6
  <2> QED
    BY <1>3, <2>1 DEF ThrottleInv, SlotsAreCounted
\* What is left of the line is less than what its threads but this one need.
<1>9. next_slot <= now + Interval * P
  <2>1. CASE next_slot < now
    BY <1>1, <1>2, <2>1, Slots
  <2>2. CASE now <= next_slot
    <3>1. next_slot <= now + Interval * (1 + Cardinality(Behind(now)))
      BY <1>2, <2>2 DEF ThrottleInv, LineIsTaken
    <3>2. Behind(now) \in SUBSET (Paced \ {t}) /\ IsFiniteSet(Paced \ {t})
      <4>1. getter[t].until \in Nat /\ ~(getter[t].until > now)
        BY <1>2, <1>3 DEF ThrottleInv, ThrottleTypeOK
      <4>2. t \notin Behind(now)
        BY <4>1
      <4> QED
        BY <4>2, PacedIsFinite, FS_RemoveElement
    <3>3. Cardinality(Behind(now)) \in Nat /\ Cardinality(Behind(now)) <= P - 1
      BY <1>5, <1>6, <3>2, FS_Subset, FS_CardinalityType
    <3>4. Interval * (1 + Cardinality(Behind(now))) <= Interval * P
      BY <1>1, <3>3, Slots
    <3> QED
      BY <1>1, <1>2, <3>1, <3>3, <3>4, Slots
  <2> QED
    BY <1>2, <2>1, <2>2
<1>10. ASSUME NEW i \in DOMAIN sent
       PROVE  Interval * (Len(sent) + 1 - i - Cardinality(Threads)) <= now - sent[i]
  <2> DEFINE n == Len(sent) + 1 - i - Cardinality(Threads)
  <2>1. n \in Int /\ 1 + Len(sent) - i + P - Cardinality(Threads) = n + P /\ sent[i] \in Nat
    BY <1>1, <1>2, <1>4
  <2>2. Interval * (n + P) <= Later(now, next_slot) - sent[i]
    BY <2>1 DEF ThrottleInv, LineGoesOn
  <2>6. P \in Nat /\ n \in Int
    BY <1>1, <2>1
  <2> HIDE DEF n, P
  <2>3. Interval * (n + P) = Interval * n + Interval * P /\ Interval * n \in Int /\ Interval * P \in Int
    BY <2>6, Slots
  <2>4. Interval * P >= 0
    <3>1. Interval * 0 <= Interval * P /\ Interval * 0 = 0
      BY <2>6, Slots, SMT
    <3> QED
      BY <3>1
  <2>5. Later(now, next_slot) <= now + Interval * P /\ Later(now, next_slot) \in Nat
    BY <1>2, <1>9, <2>3, <2>4 DEF Later, P
  <2>7. Interval * n <= now - sent[i]
    BY <1>2, <2>1, <2>2, <2>3, <2>5
  <2> QED
    BY <2>7 DEF n
<1>11. LineGoesOn'
  <2> DEFINE M == Later(now, next_slot)
  <2>1. M \in Nat /\ now <= M
    BY <1>2 DEF Later
  <2>2. ASSUME NEW i \in DOMAIN sent
        PROVE  /\ sent'[i] <= now
               /\ Interval * (1 + Len(sent') - i + Cardinality(Paced') - Cardinality(Threads)) <= M - sent'[i]
    <3>1. 1 + Len(sent') - i + Cardinality(Paced') - Cardinality(Threads)
            = 1 + Len(sent) - i + P - Cardinality(Threads)
      BY <1>1, <1>2, <1>4, <1>6
    <3> QED
      BY <1>4, <3>1 DEF ThrottleInv, LineGoesOn
  <2>3. Interval * (1 + Len(sent') - (Len(sent) + 1) + Cardinality(Paced') - Cardinality(Threads)) <= M - now
    <3> DEFINE k == 1 + Len(sent') - (Len(sent) + 1) + Cardinality(Paced') - Cardinality(Threads)
    <3>1. k \in Int /\ k <= 0
      BY <1>1, <1>2, <1>4, <1>6
    <3>2. Interval * k <= Interval * 0 /\ Interval * k \in Int /\ Interval * 0 = 0
      <4>1. Interval * 0 = 0
        BY Slots, SMT
      <4> HIDE DEF k
      <4> QED
        BY <3>1, <4>1, Slots
    <3> HIDE DEF k, M
    <3>3. Interval * k <= M - now
      BY <1>2, <2>1, <3>2
    <3> QED
      BY <3>3 DEF k
  <2>4. SUFFICES ASSUME NEW i \in DOMAIN sent'
                 PROVE  /\ sent'[i] <= now
                        /\ Interval * (1 + Len(sent') - i + Cardinality(Paced') - Cardinality(Threads)) <= M - sent'[i]
    BY <1>3 DEF LineGoesOn, Later
  <2>5. CASE i = Len(sent) + 1
    BY <1>2, <1>4, <2>3, <2>5
  <2> QED
    BY <1>4, <2>2, <2>5
<1>12. InBudget'
  <2>1. Len(sent') * Interval <= now + Interval
    <3>1. /\ Interval * (Len(sent) + P) = Interval * Len(sent) + Interval * P
          /\ Interval * (Len(sent) + 1) = Interval * Len(sent) + Interval * 1
          /\ Interval * Len(sent) \in Int /\ Interval * P \in Int
          /\ (Len(sent) + 1) * Interval = Interval * (Len(sent) + 1)
      BY <1>1, <1>2, Slots
    <3>2. Interval * (Len(sent) + P) <= next_slot
      BY DEF ThrottleInv, SlotsAreCounted
    <3> QED
      BY <1>2, <1>4, <1>9, <3>1, <3>2, Slots
  <2>2. ASSUME NEW i \in DOMAIN sent', NEW j \in DOMAIN sent', i < j
        PROVE  (j - i - Cardinality(Threads)) * Interval <= sent'[j] - sent'[i]
    <3>1. i \in DOMAIN sent
      BY <1>2, <1>4, <2>2
    <3>2. CASE j \in DOMAIN sent
      BY <1>4, <2>2, <3>1, <3>2 DEF ThrottleInv, InBudget
    <3>3. CASE j = Len(sent) + 1
      <4>1. Interval * (j - i - Cardinality(Threads)) <= sent'[j] - sent'[i]
        <5>1. j - i - Cardinality(Threads) = Len(sent) + 1 - i - Cardinality(Threads)
          BY <1>1, <1>2, <1>4, <3>1, <3>3
        <5>2. sent'[j] = now /\ sent'[i] = sent[i]
          BY <1>4, <3>1, <3>3
        <5> QED
          BY <1>10, <3>1, <5>1, <5>2
      <4>2. j - i - Cardinality(Threads) \in Int
        BY <1>1, <1>2, <1>4, <3>1, <3>3
      <4> QED
        BY <4>1, <4>2, Slots
    <3> QED
      BY <1>4, <3>2, <3>3
  <2> QED
    BY <1>3, <2>1, <2>2 DEF InBudget
<1> QED
  BY <1>7, <1>8, <1>11, <1>12 DEF ThrottleInv

\* The inductive invariant of the pace.
THEOREM ThrottleInductive == ThrottleSpec => []ThrottleInv
<1>1. ThrottleInit => ThrottleInv
  <2> SUFFICES ASSUME ThrottleInit
               PROVE  ThrottleInv
    OBVIOUS
  <2>1. ThrottleTypeOK
    BY DEF ThrottleInit, ThrottleTypeOK, Resting
  <2>2. Paced = {} /\ Cardinality(Paced) = 0 /\ sent = <<>> /\ now = 0 /\ next_slot = 0
    BY FS_EmptySet DEF ThrottleInit, Paced, Resting
  <2>3. Interval * 0 = 0 /\ Len(sent) = 0 /\ 0 * Interval = 0
    BY <2>2, Slots, SMT
  <2>4. LineIsTaken
    <3> SUFFICES ASSUME NEW time \in now..next_slot
                 PROVE  next_slot <= time + Interval * (1 + Cardinality({u \in Paced : getter[u].until > time}))
      BY DEF LineIsTaken
    <3>1. {u \in Paced : getter[u].until > time} = {}
      BY <2>2
    <3> QED
      BY <2>2, <3>1, FS_EmptySet, Slots
  <2> QED
    BY <2>1, <2>2, <2>3, <2>4, Slots DEF ThrottleInv, SlotsAreCounted, LineGoesOn, InBudget
<1>2. ThrottleInv /\ [ThrottleNext]_throttleVars => ThrottleInv'
  <2> SUFFICES ASSUME ThrottleInv, [ThrottleNext]_throttleVars
               PROVE  ThrottleInv'
    OBVIOUS
  <2>1. ThrottleTypeOK' /\ ThrottleTypeOK
    BY ThrottleTypes DEF ThrottleInv
  <2>2. CASE Tick
    BY <2>1, <2>2, SameLine DEF Tick, Paced, ThrottleTypeOK
  <2>3. ASSUME NEW t \in Threads, TakeSlot(t)
        PROVE  ThrottleInv'
    BY <2>1, <2>3, SlotIsTaken
  <2>4. ASSUME NEW t \in Threads, Send(t)
        PROVE  ThrottleInv'
    BY <2>1, <2>4, RequestLeaves
  <2>5. ASSUME NEW t \in Threads, Answered(t) \/ RateLimited(t)
        PROVE  ThrottleInv'
    <3>1. /\ getter[t].pc = "sent" /\ getter'[t].pc # "pace"
          /\ \A u \in Threads : u # t => getter'[u] = getter[u]
          /\ UNCHANGED <<now, next_slot, sent>>
      BY <2>1, <2>5 DEF Answered, RateLimited, ThrottleTypeOK, Resting
    <3>2. Paced' = Paced /\ \A u \in Paced : getter'[u].until = getter[u].until
      BY <3>1 DEF Paced
    <3> QED
      BY <2>1, <3>1, <3>2, SameLine DEF ThrottleTypeOK
  <2>6. CASE UNCHANGED throttleVars
    BY <2>1, <2>6, SameLine DEF throttleVars, Paced, ThrottleTypeOK
  <2> QED
    BY <2>2, <2>3, <2>4, <2>5, <2>6 DEF ThrottleNext
<1> QED
  BY <1>1, <1>2, PTL DEF ThrottleSpec

\* No more requests have left by any time than one per interval, and in any span of
\* time no more than that and one late riser for each thread (throttle.py).
THEOREM PaceIsKept == ThrottleSpec => []InBudget
<1>1. ThrottleInv => InBudget
  BY DEF ThrottleInv
<1> QED
  BY <1>1, ThrottleInductive, PTL

-----------------------------------------------------------------------------
(* Filing briefs *)

\* Types are kept.
LEMMA FilingTypes ==
    ASSUME FilingTypeOK, NothingLeftBehind, [FilingNext]_filingVars
    PROVE  FilingTypeOK'
<1> USE DEF FilingTypeOK
<1>1. Idle \in RunOf /\ Scope \in Seq(Tickers)
  BY FilingAssumption, SMT DEF Idle, RunOf
<1>2. ASSUME NEW p \in Procs, NEW r \in RunOf, Set(p, r)
      PROVE  run' \in [Procs -> RunOf]
  BY <1>2 DEF Set
<1>3. ASSUME Fault
      PROVE  count' \in [faults : Nat, scripts : Nat]
  BY <1>3 DEF Fault
<1>4. ASSUME NEW p \in Procs, NEW label \in {"idle", "starting", "scan", "list", "next", "fetch", "ensure", "insert", "record"},
             Continue(p, label)
      PROVE  run' \in [Procs -> RunOf]
  <2>1. [run[p] EXCEPT !.pc = label] \in RunOf
    BY ZenonT(60) DEF RunOf
  <2> QED
    BY <1>2, <1>4, <2>1 DEF Continue
<1>5. ASSUME NEW p \in Procs, LoadTickerMap(p)
      PROVE  cikMap' \in [Procs -> {"unknown", "loaded", "missing"}]
  BY <1>5 DEF LoadTickerMap
<1>6. ASSUME NEW d \in Docs, NEW words \in Summaries, NEW by \in Procs, InsertBrief(d, words, by)
      PROVE  briefs' \subseteq [doc : Docs, text : Summaries, by : Procs]
  BY <1>6 DEF InsertBrief
<1>7. CASE Publish
  BY <1>7 DEF Publish
<1>8. CASE Trigger
  <2>1. [Idle EXCEPT !.pc = "starting", !.todo = Scope] \in RunOf
    BY <1>1 DEF Idle, RunOf
  <2> QED
    BY <1>2, <1>8, <2>1 DEF Trigger, Procs
<1>9. CASE Start
  BY <1>1, <1>2, <1>3, <1>4, <1>9 DEF Start, Procs
<1>10. CASE RunScript
  <2>1. [Idle EXCEPT !.pc = "scan", !.todo = Scope] \in RunOf
    BY <1>1 DEF Idle, RunOf
  <2>2. count' \in [faults : Nat, scripts : Nat]
    BY <1>10 DEF RunScript
  <2> QED
    BY <1>2, <1>10, <2>1, <2>2 DEF RunScript, Procs
<1>11. ASSUME NEW t \in Tickers, Expire(t)
       PROVE  FilingTypeOK'
  BY <1>11 DEF Expire
<1>12. ASSUME NEW p \in Procs, NextTicker(p)
       PROVE  FilingTypeOK'
  <2>1. run[p].todo \in Seq(Tickers) /\ run[p].todo # <<>>
    BY <1>12 DEF NextTicker, RunOf
  <2>2. Head(run[p].todo) \in Tickers /\ Tail(run[p].todo) \in Seq(Tickers)
    BY <2>1
  <2> DEFINE t == Head(run[p].todo)
             r == [run[p] EXCEPT !.todo = Tail(@), !.ticker = IF ScanIsFresh(t) THEN NoTicker ELSE t,
                                 !.pc = IF ScanIsFresh(t) THEN "scan" ELSE "list"]
  <2>3. r \in RunOf
    BY ZenonT(60), <2>2 DEF RunOf
  <2>4. Set(p, r) /\ UNCHANGED <<filed, documents, briefs, scan, cikMap, count>>
    BY <1>12 DEF NextTicker
  <2> HIDE DEF r
  <2> QED
    BY <1>2, <2>3, <2>4
<1>13. ASSUME NEW p \in Procs, EndRun(p)
       PROVE  FilingTypeOK'
  BY <1>1, <1>2, <1>13 DEF EndRun
<1>14. ASSUME NEW p \in Procs, ListFilings(p)
       PROVE  FilingTypeOK'
  <2> DEFINE onList == {d \in filed : cikMap'[p] = "loaded" /\ TickerOf[d] = run[p].ticker}
  <2>1. [run[p] EXCEPT !.pc = "next", !.seen = onList, !.left = onList] \in RunOf
    BY ZenonT(60) DEF RunOf
  <2> QED
    BY <1>2, <1>5, <1>14, <2>1 DEF ListFilings, Listed
<1>15. ASSUME NEW p \in Procs, ListingFails(p)
       PROVE  FilingTypeOK'
  <2>1. [run[p] EXCEPT !.pc = "record", !.failures = TRUE] \in RunOf
    BY ZenonT(60) DEF RunOf
  <2> QED
    BY <1>2, <1>3, <1>5, <1>15, <2>1 DEF ListingFails
<1>16. ASSUME NEW p \in Procs, RecordScan(p)
       PROVE  FilingTypeOK'
  <2>1. [Idle EXCEPT !.pc = "scan", !.todo = run[p].todo] \in RunOf
    BY <1>1 DEF Idle, RunOf
  <2>2. [status |-> ScanStatus(p), fresh |-> ScanStatus(p) # "failed", seen |-> run[p].seen]
            \in [status : {"none", "ok", "empty", "failed"}, fresh : BOOLEAN, seen : SUBSET Docs]
    BY DEF ScanStatus, RunOf
  <2> QED
    BY <1>2, <1>16, <2>1, <2>2 DEF RecordScan
<1>17. ASSUME NEW p \in Procs, NextDocument(p)
       PROVE  FilingTypeOK'
  <2>1. PICK d \in run[p].left :
            Set(p, [run[p] EXCEPT !.left = @ \ {d}, !.doc = d, !.pc = AfterLookup(d)])
    BY <1>17 DEF NextDocument
  <2>2. [run[p] EXCEPT !.left = @ \ {d}, !.doc = d, !.pc = AfterLookup(d)] \in RunOf
    BY ZenonT(60) DEF RunOf, AfterLookup
  <2> QED
    BY <1>2, <1>17, <2>1, <2>2 DEF NextDocument
<1>18. ASSUME NEW p \in Procs, FetchDocument(p)
       PROVE  FilingTypeOK'
  <2>1. run[p].doc \in Docs
    BY <1>18 DEF FetchDocument, InRun, NothingLeftBehind, LeavesNothing
  <2> QED
    BY <1>4, <1>18, <2>1 DEF FetchDocument
<1>19. ASSUME NEW p \in Procs, FetchFails(p)
       PROVE  FilingTypeOK'
  <2>1. [run[p] EXCEPT !.pc = "next", !.failures = TRUE] \in RunOf
    BY ZenonT(60) DEF RunOf
  <2> QED
    BY <1>2, <1>3, <1>19, <2>1 DEF FetchFails
<1>20. ASSUME NEW p \in Procs, BriefExists(p) \/ Summarise(p)
       PROVE  FilingTypeOK'
  BY <1>4, <1>20 DEF BriefExists, Summarise
<1>21. ASSUME NEW p \in Procs, ReuseBrief(p)
       PROVE  FilingTypeOK'
  <2>1. run[p].doc \in Docs
    BY <1>21 DEF ReuseBrief, InRun, NothingLeftBehind, LeavesNothing
  <2>2. PICK b \in SameContent(run[p].doc) : InsertBrief(run[p].doc, b.text, b.by)
    BY <1>21 DEF ReuseBrief
  <2>3. b.text \in Summaries /\ b.by \in Procs
    BY DEF SameContent
  <2> QED
    BY <1>4, <1>6, <1>21, <2>1, <2>2, <2>3 DEF ReuseBrief
<1>22. ASSUME NEW p \in Procs, PersistBrief(p)
       PROVE  FilingTypeOK'
  <2>1. run[p].doc \in Docs
    BY <1>22 DEF PersistBrief, InRun, NothingLeftBehind, LeavesNothing
  <2> QED
    BY <1>4, <1>6, <1>22, <2>1 DEF PersistBrief
<1>23. ASSUME NEW p \in Procs, Abort(p) \/ Restart(p)
       PROVE  FilingTypeOK'
  BY <1>1, <1>2, <1>3, <1>23 DEF Abort, Restart
<1>24. CASE UNCHANGED filingVars
  BY <1>24 DEF filingVars
<1> QED
  BY <1>7, <1>8, <1>9, <1>10, <1>11, <1>12, <1>13, <1>14, <1>15, <1>16, <1>17, <1>18, <1>19,
     <1>20, <1>21, <1>22, <1>23, <1>24 DEF FilingNext, Work

\* A process sets its own locals.
LEMMA OwnLocals ==
    ASSUME FilingTypeOK, NEW p \in Procs, NEW r, Set(p, r)
    PROVE  run'[p] = r /\ \A q \in Procs : q # p => run'[q] = run[q]
BY DEF Set, FilingTypeOK

\* What a run of one process does to the others' and to the store: nothing is taken
\* away, and a text enters in somebody's name only by its author, or as a copy.
LEMMA RunStep ==
    ASSUME FilingInv, FilingTypeOK', NEW p \in Procs, \A q \in Procs : q # p => run'[q] = run[q],
           LeavesNothing(run[p])', scan' = scan, documents \subseteq documents', briefs \subseteq briefs',
           SummarisedOnce',
           run'[p].pc = "insert" =>
              \A b \in briefs' : b.by = p => ContentOf[b.doc] # ContentOf[run'[p].doc],
           \A b \in briefs' \ briefs :
              b.by = p \/ \E c \in briefs : c.by = b.by /\ ContentOf[c.doc] = ContentOf[b.doc]
    PROVE  FilingInv'
<1>2. \A d : Summarised(d) => Summarised(d)'
  BY DEF Summarised
<1>3. NothingLeftBehind'
  <2> SUFFICES ASSUME NEW q \in Procs
               PROVE  LeavesNothing(run[q])'
    BY DEF NothingLeftBehind
  <2>2. CASE q # p
    <3>1. LeavesNothing(run[q]) /\ run'[q] = run[q]
      BY <2>2 DEF FilingInv, NothingLeftBehind
    <3> QED
      BY <1>2, <3>1 DEF LeavesNothing
  <2> QED
    BY <2>2 DEF LeavesNothing
<1>4. SummaryIsOwn'
  <2> SUFFICES ASSUME NEW q \in Procs, run'[q].pc = "insert", NEW b \in briefs', b.by = q
               PROVE  ContentOf[b.doc] # ContentOf[run'[q].doc]
    BY DEF SummaryIsOwn
  <2>1. CASE q = p
    BY <2>1
  <2>2. CASE q # p
    <3>1. run[q].pc = "insert" /\ run'[q].doc = run[q].doc
      BY <2>2
    <3>2. \E c \in briefs : c.by = q /\ ContentOf[c.doc] = ContentOf[b.doc]
      BY <2>2
    <3> QED
      BY <3>1, <3>2 DEF FilingInv, SummaryIsOwn
  <2> QED
    BY <2>1, <2>2
<1>5. CleanScanIsComplete'
  BY <1>2 DEF FilingInv, CleanScanIsComplete
<1> QED
  BY <1>3, <1>4, <1>5 DEF FilingInv

\* A step that writes no brief and asks for none.
LEMMA QuietRunStep ==
    ASSUME FilingInv, FilingTypeOK', NEW p \in Procs, \A q \in Procs : q # p => run'[q] = run[q],
           LeavesNothing(run[p])', scan' = scan, documents \subseteq documents', briefs' = briefs,
           run'[p].pc # "insert"
    PROVE  FilingInv'
<1>1. SummarisedOnce'
  BY DEF FilingInv, SummarisedOnce
<1> QED
  BY <1>1, RunStep

\* A step that leaves the runs and the store alone, and of the scans changes only how
\* fresh they are.
LEMMA NoRunStep ==
    ASSUME FilingInv, FilingTypeOK', UNCHANGED <<run, documents, briefs>>,
           \A t \in Tickers : scan'[t].status = scan[t].status /\ scan'[t].seen = scan[t].seen
    PROVE  FilingInv'
<1>1. \A d : Summarised(d) = Summarised(d)'
  BY DEF Summarised
<1>2. \A r : LeavesNothing(r) => LeavesNothing(r)'
  BY <1>1 DEF LeavesNothing
<1>3. NothingLeftBehind' /\ SummaryIsOwn' /\ SummarisedOnce'
  BY <1>2 DEF FilingInv, NothingLeftBehind, SummaryIsOwn, SummarisedOnce
<1>4. CleanScanIsComplete'
  BY <1>1 DEF FilingInv, CleanScanIsComplete
<1> QED
  BY <1>3, <1>4 DEF FilingInv

\* The inductive invariant of the briefs is kept by every step.
LEMMA FilingStep ==
    ASSUME FilingInv, [FilingNext]_filingVars
    PROVE  FilingInv'
<1>1. FilingTypeOK /\ FilingTypeOK' /\ NothingLeftBehind
  BY FilingTypes DEF FilingInv
<1>2. \A p \in Procs : run[p] \in RunOf /\ LeavesNothing(run[p])
  BY <1>1 DEF FilingTypeOK, NothingLeftBehind
<1>3. ASSUME NEW p \in Procs, Set(p, Idle), UNCHANGED <<documents, briefs, scan>>
      PROVE  FilingInv'
  BY <1>1, <1>3, OwnLocals, QuietRunStep DEF Idle, LeavesNothing
<1>4. CASE Publish
  BY <1>1, <1>4, NoRunStep DEF Publish
<1>5. CASE Trigger
  <2>1. /\ Set(Server, [Idle EXCEPT !.pc = "starting", !.todo = Scope])
        /\ Server \in Procs /\ UNCHANGED <<documents, briefs, scan>>
    BY <1>5 DEF Trigger, Procs
  <2>2. run'[Server] = [Idle EXCEPT !.pc = "starting", !.todo = Scope]
        /\ \A q \in Procs : q # Server => run'[q] = run[q]
    BY <1>1, <2>1, OwnLocals
  <2>3. LeavesNothing(run[Server])' /\ run'[Server].pc # "insert"
    BY <1>2, <2>1, <2>2 DEF RunOf, Idle, LeavesNothing
  <2> QED
    BY <1>1, <2>1, <2>2, <2>3, QuietRunStep
<1>6. CASE Start
  <2>1. Server \in Procs /\ UNCHANGED <<documents, briefs, scan>>
    BY <1>6 DEF Start, Procs
  <2>2. CASE Continue(Server, "scan")
    <3>1. run'[Server] = [run[Server] EXCEPT !.pc = "scan"]
          /\ \A q \in Procs : q # Server => run'[q] = run[q]
      BY <1>1, <2>1, <2>2, OwnLocals DEF Continue
    <3>2. LeavesNothing(run[Server])' /\ run'[Server].pc # "insert"
      BY <1>2, <2>1, <3>1 DEF RunOf, LeavesNothing
    <3> QED
      BY <1>1, <2>1, <3>1, <3>2, QuietRunStep
  <2> QED
    BY <1>3, <1>6, <2>1, <2>2 DEF Start
<1>7. CASE RunScript
  <2>1. /\ Set(Script, [Idle EXCEPT !.pc = "scan", !.todo = Scope])
        /\ Script \in Procs /\ UNCHANGED <<documents, briefs, scan>>
    BY <1>7 DEF RunScript, Procs
  <2>2. run'[Script] = [Idle EXCEPT !.pc = "scan", !.todo = Scope]
        /\ \A q \in Procs : q # Script => run'[q] = run[q]
    BY <1>1, <2>1, OwnLocals
  <2>3. LeavesNothing(run[Script])' /\ run'[Script].pc # "insert"
    BY <1>2, <2>1, <2>2 DEF RunOf, Idle, LeavesNothing
  <2> QED
    BY <1>1, <2>1, <2>2, <2>3, QuietRunStep
<1>8. ASSUME NEW t \in Tickers, Expire(t)
      PROVE  FilingInv'
  BY <1>1, <1>8, NoRunStep DEF Expire, FilingTypeOK
<1>9. ASSUME NEW p \in Procs, NextTicker(p)
      PROVE  FilingInv'
  <2> DEFINE t == Head(run[p].todo)
  <2>1. /\ Set(p, [run[p] EXCEPT !.todo = Tail(@), !.ticker = IF ScanIsFresh(t) THEN NoTicker ELSE t,
                                 !.pc = IF ScanIsFresh(t) THEN "scan" ELSE "list"])
        /\ UNCHANGED <<documents, briefs, scan>>
    BY <1>9 DEF NextTicker
  <2>2. run'[p] = [run[p] EXCEPT !.todo = Tail(@), !.ticker = IF ScanIsFresh(t) THEN NoTicker ELSE t,
                                 !.pc = IF ScanIsFresh(t) THEN "scan" ELSE "list"]
        /\ \A q \in Procs : q # p => run'[q] = run[q]
    BY <1>1, <2>1, OwnLocals
  <2>3. run'[p].pc \in {"scan", "list"}
    BY <1>2, <2>2 DEF RunOf
  <2> QED
    BY <1>1, <2>1, <2>2, <2>3, QuietRunStep DEF LeavesNothing
<1>10. ASSUME NEW p \in Procs, EndRun(p)
       PROVE  FilingInv'
  BY <1>3, <1>10 DEF EndRun
<1>11. ASSUME NEW p \in Procs, ListFilings(p)
       PROVE  FilingInv'
  <2> DEFINE onList == {d \in filed : cikMap'[p] = "loaded" /\ TickerOf[d] = run[p].ticker}
  <2>1. Set(p, [run[p] EXCEPT !.pc = "next", !.seen = onList, !.left = onList])
        /\ UNCHANGED <<documents, briefs, scan>>
    BY <1>11 DEF ListFilings, Listed
  <2> HIDE DEF onList
  <2>2. run'[p] = [run[p] EXCEPT !.pc = "next", !.seen = onList, !.left = onList]
        /\ \A q \in Procs : q # p => run'[q] = run[q]
    BY <1>1, <2>1, OwnLocals
  <2>3. LeavesNothing(run[p])' /\ run'[p].pc # "insert"
    BY <1>2, <2>1, <2>2 DEF RunOf, LeavesNothing
  <2> QED
    BY <1>1, <2>1, <2>2, <2>3, QuietRunStep
<1>12. ASSUME NEW p \in Procs, ListingFails(p)
       PROVE  FilingInv'
  <2>1. /\ Set(p, [run[p] EXCEPT !.pc = "record", !.failures = TRUE])
        /\ p \in Procs /\ UNCHANGED <<documents, briefs, scan>>
    BY <1>12 DEF ListingFails
  <2>2. run'[p] = [run[p] EXCEPT !.pc = "record", !.failures = TRUE]
        /\ \A q \in Procs : q # p => run'[q] = run[q]
    BY <1>1, <2>1, OwnLocals
  <2>3. LeavesNothing(run[p])' /\ run'[p].pc # "insert"
    BY <1>2, <2>1, <2>2 DEF RunOf, Idle, LeavesNothing
  <2> QED
    BY <1>1, <2>1, <2>2, <2>3, QuietRunStep
<1>13. ASSUME NEW p \in Procs, RecordScan(p)
       PROVE  FilingInv'
  <2>1. /\ Set(p, [Idle EXCEPT !.pc = "scan", !.todo = run[p].todo])
        /\ UNCHANGED <<documents, briefs>>
    BY <1>13 DEF RecordScan
  <2>2. run'[p] = [Idle EXCEPT !.pc = "scan", !.todo = run[p].todo]
        /\ \A q \in Procs : q # p => run'[q] = run[q]
    BY <1>1, <2>1, OwnLocals
  <2>3. \A d : Summarised(d)' = Summarised(d)
    BY <2>1 DEF Summarised
  <2>4. run'[p].pc = "scan"
    BY <2>2 DEF Idle
  <2>5. NothingLeftBehind' /\ SummaryIsOwn' /\ SummarisedOnce'
    <3>1. LeavesNothing(run[p])'
      BY <2>4 DEF LeavesNothing
    <3>2. ASSUME NEW q \in Procs, q # p
          PROVE  LeavesNothing(run[q])'
      BY <1>2, <2>1, <2>2, <2>3, <3>2 DEF LeavesNothing
    <3>3. NothingLeftBehind'
      BY <3>1, <3>2 DEF NothingLeftBehind
    <3>4. SummaryIsOwn' /\ SummarisedOnce'
      BY ZenonT(60), <2>1, <2>2, <2>4 DEF FilingInv, SummaryIsOwn, SummarisedOnce
    <3> QED
      BY <3>3, <3>4
  <2>6. CleanScanIsComplete'
    <3> SUFFICES ASSUME NEW t \in Tickers, NEW d \in scan'[t].seen,
                        scan'[t].status = "ok", ContentOf[d] # NoContent
                 PROVE  d \in documents /\ Summarised(d)
      BY <2>1, <2>3 DEF CleanScanIsComplete
    <3>1. CASE t # run[p].ticker
      BY <1>1, <1>13, <3>1 DEF RecordScan, FilingTypeOK, FilingInv, CleanScanIsComplete
    <3>2. CASE t = run[p].ticker
      <4>1. ScanStatus(p) = "ok" /\ d \in run[p].seen
        BY <1>1, <1>13, <3>2 DEF RecordScan, FilingTypeOK
      <4>2. ~run[p].failures /\ run[p].pc = "next" /\ run[p].left = {}
        BY <1>2, <1>13, <4>1 DEF ScanStatus, RecordScan, InRun, LeavesNothing
      <4> QED
        BY <1>2, <3>2, <4>1, <4>2 DEF LeavesNothing
    <3> QED
      BY <3>1, <3>2
  <2> QED
    BY <1>1, <2>5, <2>6 DEF FilingInv
<1>14. ASSUME NEW p \in Procs, NextDocument(p)
       PROVE  FilingInv'
  <2>1. PICK d \in run[p].left :
            Set(p, [run[p] EXCEPT !.left = @ \ {d}, !.doc = d, !.pc = AfterLookup(d)])
    BY <1>14 DEF NextDocument
  <2>2. run[p].pc = "next" /\ UNCHANGED <<documents, briefs, scan>>
    BY <1>14 DEF NextDocument, InRun
  <2>3. run'[p] = [run[p] EXCEPT !.left = @ \ {d}, !.doc = d, !.pc = AfterLookup(d)]
        /\ \A q \in Procs : q # p => run'[q] = run[q]
    BY <1>1, <2>1, OwnLocals
  <2>4. d \in Docs /\ \A x : Summarised(x)' = Summarised(x)
    BY <1>2, <2>2 DEF RunOf, Summarised
  <2>5. /\ run'[p].pc \in {"fetch", "ensure"} /\ (run'[p].pc = "ensure" => d \in documents)
        /\ run'[p].doc = d /\ run'[p].left = run[p].left \ {d} /\ run'[p].seen = run[p].seen
        /\ run'[p].failures = run[p].failures
    BY <1>2, <2>3 DEF RunOf, AfterLookup
  <2>6. LeavesNothing(run[p])'
    BY <1>2, <2>2, <2>4, <2>5 DEF LeavesNothing
  <2> QED
    BY <1>1, <2>2, <2>3, <2>5, <2>6, QuietRunStep
<1>15. ASSUME NEW p \in Procs, FetchDocument(p)
       PROVE  FilingInv'
  <2>1. run[p].pc = "fetch" /\ UNCHANGED <<briefs, scan>> /\ documents \subseteq documents'
    BY <1>15 DEF FetchDocument, InRun
  <2>2. PICK label \in {"next", "ensure"} :
            /\ Continue(p, label)
            /\ label = "next" => ContentOf[run[p].doc] = NoContent
            /\ label = "ensure" => run[p].doc \in documents'
    BY <1>15 DEF FetchDocument
  <2>3. run'[p] = [run[p] EXCEPT !.pc = label] /\ \A q \in Procs : q # p => run'[q] = run[q]
    BY <1>1, <2>2, OwnLocals DEF Continue
  <2>4. \A x : Summarised(x)' = Summarised(x)
    BY <2>1 DEF Summarised
  <2>5. LeavesNothing(run[p])' /\ run'[p].pc # "insert"
    BY <1>2, <2>1, <2>2, <2>3, <2>4 DEF RunOf, LeavesNothing
  <2> QED
    BY <1>1, <2>1, <2>3, <2>5, QuietRunStep
<1>16. ASSUME NEW p \in Procs, FetchFails(p)
       PROVE  FilingInv'
  <2>1. /\ Set(p, [run[p] EXCEPT !.pc = "next", !.failures = TRUE])
        /\ p \in Procs /\ UNCHANGED <<documents, briefs, scan>>
    BY <1>16 DEF FetchFails
  <2>2. run'[p] = [run[p] EXCEPT !.pc = "next", !.failures = TRUE]
        /\ \A q \in Procs : q # p => run'[q] = run[q]
    BY <1>1, <2>1, OwnLocals
  <2>3. LeavesNothing(run[p])' /\ run'[p].pc # "insert"
    BY <1>2, <2>1, <2>2 DEF RunOf, Idle, LeavesNothing
  <2> QED
    BY <1>1, <2>1, <2>2, <2>3, QuietRunStep
<1>17. ASSUME NEW p \in Procs, BriefExists(p)
       PROVE  FilingInv'
  <2>1. /\ run[p].pc = "ensure" /\ Summarised(run[p].doc)
        /\ Continue(p, "next") /\ UNCHANGED <<documents, briefs, scan>>
    BY <1>17 DEF BriefExists, InRun
  <2>2. run'[p] = [run[p] EXCEPT !.pc = "next"] /\ \A q \in Procs : q # p => run'[q] = run[q]
    BY <1>1, <2>1, OwnLocals DEF Continue
  <2>3. \A x : Summarised(x)' = Summarised(x)
    BY <2>1 DEF Summarised
  <2>4. LeavesNothing(run[p])' /\ run'[p].pc # "insert"
    BY <1>2, <2>1, <2>2, <2>3 DEF RunOf, LeavesNothing
  <2> QED
    BY <1>1, <2>1, <2>2, <2>4, QuietRunStep
<1>18. ASSUME NEW p \in Procs, ReuseBrief(p)
       PROVE  FilingInv'
  <2>1. /\ run[p].pc = "ensure" /\ ~Summarised(run[p].doc)
        /\ Continue(p, "next") /\ UNCHANGED <<documents, scan>>
    BY <1>18 DEF ReuseBrief, InRun
  <2>2. PICK b \in briefs :
            /\ ContentOf[b.doc] = ContentOf[run[p].doc]
            /\ briefs' = briefs \cup {[doc |-> run[p].doc, text |-> b.text, by |-> b.by]}
    BY <1>18, <2>1 DEF ReuseBrief, SameContent, InsertBrief
  <2>3. run'[p] = [run[p] EXCEPT !.pc = "next"] /\ \A q \in Procs : q # p => run'[q] = run[q]
    BY <1>1, <2>1, OwnLocals DEF Continue
  <2>4. Summarised(run[p].doc)' /\ \A x : Summarised(x) => Summarised(x)'
    <3>1. run'[p].doc = run[p].doc
      BY <1>2, <2>3 DEF RunOf
    <3>2. [doc |-> run[p].doc, text |-> b.text, by |-> b.by] \in briefs'
      BY <2>2
    <3> QED
      BY <2>2, <3>1, <3>2 DEF Summarised
  <2>5. LeavesNothing(run[p])' /\ run'[p].pc = "next"
    BY <1>2, <2>1, <2>3, <2>4 DEF RunOf, LeavesNothing
  <2>6. SummarisedOnce'
    BY <2>2 DEF FilingInv, SummarisedOnce
  <2>7. \A x \in briefs' \ briefs : \E c \in briefs : c.by = x.by /\ ContentOf[c.doc] = ContentOf[x.doc]
    BY <2>2
  <2>8. briefs \subseteq briefs'
    BY <2>2
  <2> QED
    BY <1>1, <2>1, <2>3, <2>5, <2>6, <2>7, <2>8, RunStep
<1>19. ASSUME NEW p \in Procs, Summarise(p)
       PROVE  FilingInv'
  <2>1. /\ run[p].pc = "ensure" /\ SameContent(run[p].doc) = {}
        /\ Continue(p, "insert") /\ UNCHANGED <<documents, briefs, scan>>
    BY <1>19 DEF Summarise, InRun
  <2>2. run'[p] = [run[p] EXCEPT !.pc = "insert"] /\ \A q \in Procs : q # p => run'[q] = run[q]
    BY <1>1, <2>1, OwnLocals DEF Continue
  <2>3. \A x : Summarised(x)' = Summarised(x)
    BY <2>1 DEF Summarised
  <2>4. LeavesNothing(run[p])' /\ run'[p].doc = run[p].doc
    BY <1>2, <2>1, <2>2, <2>3 DEF RunOf, LeavesNothing
  <2>5. \A b \in briefs' : ContentOf[b.doc] # ContentOf[run'[p].doc]
    BY <2>1, <2>4 DEF SameContent
  <2>6. SummarisedOnce'
    BY <2>1 DEF FilingInv, SummarisedOnce
  <2> QED
    BY <1>1, <2>1, <2>2, <2>4, <2>5, <2>6, RunStep
<1>20. ASSUME NEW p \in Procs, PersistBrief(p)
       PROVE  FilingInv'
  <2>1. /\ run[p].pc = "insert" /\ Continue(p, "next") /\ UNCHANGED <<documents, scan>>
    BY <1>20 DEF PersistBrief, InRun
  <2>2. PICK words \in Summaries : InsertBrief(run[p].doc, words, p)
    BY <1>20 DEF PersistBrief
  <2>3. run'[p] = [run[p] EXCEPT !.pc = "next"] /\ \A q \in Procs : q # p => run'[q] = run[q]
    BY <1>1, <2>1, OwnLocals DEF Continue
  <2>4. briefs \subseteq briefs' /\ \A x \in briefs' \ briefs : x = [doc |-> run[p].doc, text |-> words, by |-> p]
    BY <2>2 DEF InsertBrief
  <2>5. Summarised(run[p].doc)' /\ \A x : Summarised(x) => Summarised(x)'
    <3>1. run'[p].doc = run[p].doc
      BY <1>2, <2>3 DEF RunOf
    <3>2. Summarised(run[p].doc) \/ [doc |-> run[p].doc, text |-> words, by |-> p] \in briefs'
      BY <2>2 DEF InsertBrief
    <3> QED
      BY <2>4, <3>1, <3>2 DEF Summarised
  <2>6. LeavesNothing(run[p])' /\ run'[p].pc = "next"
    BY <1>2, <2>1, <2>3, <2>5 DEF RunOf, LeavesNothing
  <2>7. \A b \in briefs : b.by = p => ContentOf[b.doc] # ContentOf[run[p].doc]
    BY <2>1 DEF FilingInv, SummaryIsOwn
  <2>8. SummarisedOnce'
    <3> SUFFICES ASSUME NEW b \in briefs', NEW c \in briefs', b.by = c.by, ContentOf[b.doc] = ContentOf[c.doc]
                 PROVE  b.text = c.text
      BY DEF SummarisedOnce
    <3>1. CASE b \in briefs /\ c \in briefs
      BY <3>1 DEF FilingInv, SummarisedOnce
    <3>2. CASE b \notin briefs /\ c \notin briefs
      BY <2>4, <3>2
    <3>3. CASE b \in briefs /\ c \notin briefs
      BY <2>4, <2>7, <3>3
    <3>4. CASE b \notin briefs /\ c \in briefs
      BY <2>4, <2>7, <3>4
    <3> QED
      BY <3>1, <3>2, <3>3, <3>4
  <2>9. \A x \in briefs' \ briefs : x.by = p
    BY <2>4
  <2> QED
    BY <1>1, <2>1, <2>3, <2>4, <2>6, <2>8, <2>9, RunStep
<1>21. ASSUME NEW p \in Procs, Abort(p)
       PROVE  FilingInv'
  BY <1>3, <1>21 DEF Abort
<1>22. ASSUME NEW p \in Procs, Restart(p)
       PROVE  FilingInv'
  BY <1>3, <1>22 DEF Restart
<1>23. CASE UNCHANGED filingVars
  BY <1>1, <1>23, NoRunStep DEF filingVars
<1> QED
  BY <1>4, <1>5, <1>6, <1>7, <1>8, <1>9, <1>10, <1>11, <1>12, <1>13, <1>14, <1>15, <1>16, <1>17,
     <1>18, <1>19, <1>20, <1>21, <1>22, <1>23 DEF FilingNext, Work

\* The inductive invariant of the briefs.
THEOREM FilingInductive == FilingSpec => []FilingInv
<1>1. FilingInit => FilingInv
  <2> SUFFICES ASSUME FilingInit
               PROVE  FilingInv
    OBVIOUS
  <2>1. Idle \in RunOf
    BY DEF Idle, RunOf
  <2>2. FilingTypeOK
    BY <2>1, FilingAssumption DEF FilingInit, FilingTypeOK
  <2> QED
    BY <2>2 DEF FilingInit, FilingInv, NothingLeftBehind, LeavesNothing, SummaryIsOwn,
                CleanScanIsComplete, SummarisedOnce, Idle
<1>2. FilingInv /\ [FilingNext]_filingVars => FilingInv'
  BY FilingStep
<1> QED
  BY <1>1, <1>2, PTL DEF FilingSpec

\* A scan that is recorded as clean left nothing behind (_refresh_ticker), in any
\* interleaving of the server with the script and after any crash.
THEOREM CleanScansAreComplete == FilingSpec => []CleanScanIsComplete
<1>1. FilingInv => CleanScanIsComplete
  BY DEF FilingInv
<1> QED
  BY <1>1, FilingInductive, PTL

\* "Each distinct document content is summarised exactly once" (filing_briefs.py), by each
\* process.
THEOREM ContentIsSummarisedOnce == FilingSpec => []SummarisedOnce
<1>1. FilingInv => SummarisedOnce
  BY DEF FilingInv
<1> QED
  BY <1>1, FilingInductive, PTL

-----------------------------------------------------------------------------
(* Fundamentals *)

\* A set of numbers that is not empty has a least one.
LEMMA LeastOf ==
    ASSUME NEW S \in SUBSET Nat, S # {}
    PROVE  \E x \in S : \A y \in S : x <= y
<1>1. PICK x \in S : \A y \in S : ~(<<y, x>> \in OpToRel(<, Nat))
  BY NatLessThanWellFounded, WFMin
<1>2. \A y \in S : ~(y < x)
  BY <1>1 DEF OpToRel
<1> QED
  BY <1>2

\* Min is the least one.
LEMMA MinOf ==
    ASSUME NEW S \in SUBSET Nat, S # {}
    PROVE  Min(S) \in S /\ \A y \in S : Min(S) <= y
BY LeastOf DEF Min

\* Of each key that the payload has, the store has a fact afterwards.
LEMMA InsertedStores ==
    ASSUME ListingTypeOK, NEW places \in SUBSET DOMAIN listing, facts' = facts \cup Inserted(places),
           listing' = listing
    PROVE  \A i \in places : Stored(listing[i])'
<1> SUFFICES ASSUME NEW i \in places, ~Stored(listing[i])
             PROVE  \E f \in Inserted(places) : SameKey(f, listing[i])
  BY DEF Stored
<1> DEFINE S == {j \in places : SameKey(listing[j], listing[i])}
<1>1. S \in SUBSET Nat /\ i \in S
  BY DEF ListingTypeOK, SameKey
<1>2. PICK j \in S : \A k \in S : j <= k
  BY <1>1, LeastOf
<1>3. ~Stored(listing[j])
  BY <1>2 DEF Stored, SameKey
<1>4. \A k \in places : k < j => ~SameKey(listing[k], listing[j])
  <2> SUFFICES ASSUME NEW k \in places, k < j, SameKey(listing[k], listing[j])
               PROVE  FALSE
    OBVIOUS
  <2>1. k \in S
    BY <1>2 DEF SameKey
  <2> QED
    BY <1>1, <1>2, <2>1
<1>5. listing[j] \in Inserted(places)
  BY <1>2, <1>3, <1>4 DEF Inserted
<1> QED
  BY <1>2, <1>5

\* What still counts after a report is filed counted before: a tag that becomes the
\* preferred one hides what was listed under the others.
LEMMA CuratedShrinks ==
    ASSUME ListingTypeOK, NEW r \in DOMAIN Reports, FileReport(r)
    PROVE  /\ DOMAIN listing \subseteq DOMAIN listing'
           /\ \A i \in DOMAIN listing : listing'[i] = listing[i]
           /\ \A i \in DOMAIN listing' \ DOMAIN listing : listing'[i].filed = today
           /\ \A i \in DOMAIN listing : i \in Curated' => i \in Curated
           /\ Curated' \subseteq DOMAIN listing'
           /\ listing' \in Seq(ListedEntry) /\ \A i \in DOMAIN listing' : KnownTag(listing'[i])
<1> DEFINE added == [i \in DOMAIN Reports[r].entries |-> Filed(Reports[r].entries[i], r)]
<1>1. Reports[r].entries \in Seq(Entry) /\ Reports[r].form \in STRING
  BY FundamentalsAssumption
<1>2. listing' = listing \o added /\ listing \in Seq(ListedEntry)
  BY DEF FileReport, ListingTypeOK
<1>3. \A i \in DOMAIN added : added[i].filed = today
  BY DEF Filed
<1>4. DOMAIN added = 1..Len(added) /\ Len(added) \in Nat /\ added \in Seq({added[i] : i \in DOMAIN added})
  BY <1>1
<1> HIDE DEF added
<1>5. /\ DOMAIN listing \subseteq DOMAIN listing'
      /\ \A i \in DOMAIN listing : listing'[i] = listing[i]
      /\ \A i \in DOMAIN listing' \ DOMAIN listing : i - Len(listing) \in DOMAIN added
                                                    /\ listing'[i] = added[i - Len(listing)]
  BY <1>2, <1>4
<1>6. ASSUME NEW i \in DOMAIN listing, i \in Curated'
      PROVE  i \in Curated
  <2>1. listing'[i] = listing[i] /\ listing[i].metric \in Metrics
    <3>1. listing[i] \in ListedEntry
      BY <1>2, <1>6
    <3> QED
      BY <1>5, <1>6, <3>1 DEF ListedEntry
  <2> DEFINE m == listing[i].metric
             T == MetricTags[m]
             Now == {k \in DOMAIN T : \E j \in DOMAIN listing : listing[j].metric = m /\ listing[j].tag = T[k]}
             Then == {k \in DOMAIN T : \E j \in DOMAIN listing' : listing'[j].metric = m /\ listing'[j].tag = T[k]}
  <2>2. Now \subseteq Then
    BY <1>5
  <2>3. DOMAIN T \in SUBSET Nat
    <3>1. T \in Seq(STRING)
      BY <2>1, FundamentalsAssumption
    <3> QED
      BY <3>1
  <2>4. i \in DOMAIN listing' /\ listing[i].tag = T[Min(Then)] /\ listing[i].form \in AllowedForms
    BY <1>6, <2>1 DEF Curated, TagsListed
  <2>5. \E k \in DOMAIN T : listing[i].tag = T[k]
    BY <1>6 DEF ListingTypeOK, KnownTag
  <2>6. Min(Then) \in Then /\ \A k \in Then : Min(Then) <= k
    <3>1. Then # {} /\ Then \in SUBSET Nat
      BY <2>1, <2>3, <2>4, <2>5
    <3> HIDE DEF Then
    <3> QED
      BY <3>1, MinOf
  <2>7. Min(Then) \in Now
    BY <1>6, <2>4, <2>6
  <2>8. Min(Now) = Min(Then)
    <3>1. Min(Now) \in Now /\ Min(Now) <= Min(Then)
      <4>1. Now # {} /\ Now \in SUBSET Nat
        BY <2>3, <2>7
      <4> HIDE DEF Now, Then
      <4> QED
        BY <2>7, <4>1, MinOf
    <3>2. Min(Then) <= Min(Now) /\ Min(Now) \in Nat /\ Min(Then) \in Nat
      <4>1. Now \in SUBSET Nat /\ Then \in SUBSET Nat
        BY <2>3
      <4> HIDE DEF Now, Then
      <4> QED
        BY <2>2, <2>6, <3>1, <4>1
    <3> HIDE DEF Now, Then
    <3> QED
      BY <3>1, <3>2
  <2> QED
    BY <1>6, <2>4, <2>8 DEF Curated, TagsListed
<1>7. listing' \in Seq(ListedEntry) /\ \A i \in DOMAIN listing' : KnownTag(listing'[i])
  <2>1. ASSUME NEW i \in DOMAIN added
        PROVE  added[i] \in ListedEntry /\ KnownTag(added[i])
    <3>1. Reports[r].entries[i] \in Entry
      BY <1>1, <2>1 DEF added
    <3>2. added[i] = Filed(Reports[r].entries[i], r)
      BY <2>1 DEF added
    <3>3. KnownTag(added[i])
      BY <3>1, <3>2 DEF Entry, Filed, KnownTag
    <3>4. today \in 0..today
      BY FundamentalsAssumption DEF ListingTypeOK, Days
    <3> QED
      BY <1>1, <3>1, <3>2, <3>3, <3>4 DEF Entry, Filed, ListedEntry
  <2>2. added \in Seq(ListedEntry)
    BY <1>4, <2>1
  <2>3. \A i \in DOMAIN listing' : i \in DOMAIN listing \/ i \in DOMAIN listing' \ DOMAIN listing
    OBVIOUS
  <2>4. \A i \in DOMAIN listing : KnownTag(listing[i])
    BY DEF ListingTypeOK
  <2>5. \A i \in DOMAIN listing' : KnownTag(listing'[i])
    BY <1>5, <2>1, <2>3, <2>4 DEF KnownTag
  <2> QED
    BY <1>2, <2>2, <2>5
<1> QED
  BY <1>3, <1>5, <1>6, <1>7 DEF Curated

\* The invariant of the facts is kept by every step, and so is what was read of a day
\* that is covered.
LEMMA FundamentalsStep ==
    ASSUME FundamentalsInv, [FundamentalsNext]_fundamentalVars
    PROVE  FundamentalsInv' /\ SnapshotsSettle
<1> USE DEF ListingTypeOK
<1>1. ListingTypeOK /\ PayloadIsWhole /\ StoredBefore(Curated, covered)
  BY DEF FundamentalsInv
<1>2. ASSUME facts' = facts
      PROVE  SnapshotsSettle /\ \A e : Stored(e)' = Stored(e)
  BY <1>2 DEF SnapshotsSettle, Stored, Snapshot, FiledBefore, Summarize
<1>3. ASSUME listing' = listing
      PROVE  Curated' = Curated
  BY <1>3 DEF Curated, TagsListed
<1>4. today \in Nat /\ refresh.day \in Nat /\ refresh.day <= today /\ covered \in Nat /\ covered <= today
  BY <1>1, FundamentalsAssumption DEF Days
<1>5. Curated \subseteq DOMAIN listing
  BY DEF Curated
\* A step that leaves the listing, what is covered and the facts alone, and fetches nothing.
<1>6. ASSUME UNCHANGED <<listing, covered, facts>>, ListingTypeOK',
             refresh' = refresh \/ refresh'.at # "store"
      PROVE  FundamentalsInv' /\ SnapshotsSettle
  <2>1. \A e : Stored(e)' = Stored(e)
    BY <1>2, <1>6
  <2>2. StoredBefore(Curated, covered)'
    BY <1>1, <1>3, <1>6, <2>1 DEF StoredBefore
  <2>3. PayloadIsWhole'
    BY <1>1, <1>3, <1>6, <2>1 DEF PayloadIsWhole, StoredBefore
  <2> QED
    BY <1>2, <1>6, <2>2, <2>3 DEF FundamentalsInv
<1>7. ASSUME NEW r \in DOMAIN Reports, FileReport(r)
      PROVE  FundamentalsInv' /\ SnapshotsSettle
  <2>1. UNCHANGED <<today, facts, refresh, covered>>
    BY <1>7 DEF FileReport
  <2>2. /\ DOMAIN listing \subseteq DOMAIN listing'
        /\ \A i \in DOMAIN listing : listing'[i] = listing[i]
        /\ \A i \in DOMAIN listing' \ DOMAIN listing : listing'[i].filed = today
        /\ \A i \in DOMAIN listing : i \in Curated' => i \in Curated
        /\ Curated' \subseteq DOMAIN listing'
        /\ listing' \in Seq(ListedEntry) /\ \A i \in DOMAIN listing' : KnownTag(listing'[i])
    BY <1>1, <1>7, CuratedShrinks
  <2>3. ListingTypeOK'
    <3>1. ListedEntry' = ListedEntry
      BY <2>1 DEF ListedEntry
    <3>2. refresh' \in [at : {"idle", "store", "record"}, payload : SUBSET DOMAIN listing',
                        failed : BOOLEAN, day : 0..today']
      BY <1>1, <2>1, <2>2
    <3> QED
      BY <1>1, <2>1, <2>2, <3>1, <3>2 DEF KnownTag
  <2>4. \A e : Stored(e)' = Stored(e)
    BY <1>2, <2>1
  <2>5. ASSUME NEW i \in Curated', listing'[i].filed < today
        PROVE  i \in Curated /\ listing'[i] = listing[i]
    BY <1>4, <2>2, <2>5
  <2>6. \A i \in Curated' : listing'[i].filed \in Nat
    <3>1. \A i \in Curated' : listing'[i] \in ListedEntry
      BY <2>2
    <3>2. \A e \in ListedEntry : e.filed \in Nat
      BY <1>4 DEF ListedEntry
    <3> QED
      BY <3>1, <3>2
  <2>7. StoredBefore(Curated, covered)'
    <3> SUFFICES ASSUME NEW i \in Curated', listing'[i].filed < covered
                 PROVE  Stored(listing'[i])
      BY <2>1, <2>4 DEF StoredBefore, Stored
    <3> QED
      BY <1>1, <1>4, <2>5, <2>6 DEF StoredBefore
  <2>8. PayloadIsWhole'
    <3> SUFFICES ASSUME refresh.at = "store"
                 PROVE  /\ covered <= refresh.day
                        /\ \A i \in Curated' : listing'[i].filed < refresh.day => i \in refresh.payload
                        /\ StoredBefore(refresh.payload, covered)'
      BY <2>1 DEF PayloadIsWhole
    <3>1. \A i \in Curated' : listing'[i].filed < refresh.day => i \in refresh.payload
      BY <1>1, <1>4, <2>5, <2>6 DEF PayloadIsWhole
    <3>2. StoredBefore(refresh.payload, covered)'
      <4>1. refresh.payload \subseteq DOMAIN listing
        BY <1>1
      <4> QED
        BY <1>1, <2>1, <2>2, <2>4, <4>1 DEF PayloadIsWhole, StoredBefore
    <3> QED
      BY <1>1, <3>1, <3>2 DEF PayloadIsWhole
  <2> QED
    BY <1>2, <2>1, <2>3, <2>7, <2>8 DEF FundamentalsInv
<1>8. CASE NextDay
  <2>1. today' = today + 1 /\ today < LastDay /\ UNCHANGED <<listing, facts, refresh, covered>>
    BY <1>8 DEF NextDay
  <2>2. ListedEntry \subseteq ListedEntry'
    BY <1>4, <2>1 DEF ListedEntry
  <2>3. listing' \in Seq(ListedEntry')
    BY <1>1, <2>1, <2>2
  <2>4. ListingTypeOK'
    BY <1>1, <1>4, <2>1, <2>3, FundamentalsAssumption DEF Days, KnownTag
  <2> QED
    BY <1>6, <2>1, <2>4
<1>9. ASSUME UNCHANGED <<today, listing, covered>>,
             refresh' \in [at : {"idle", "store", "record"}, payload : SUBSET DOMAIN listing,
                           failed : BOOLEAN, day : 0..today]
      PROVE  ListingTypeOK'
  BY <1>1, <1>9 DEF ListedEntry, KnownTag
<1>10. CASE FetchExpires \/ UNCHANGED fundamentalVars
  <2>1. UNCHANGED <<today, listing, covered, facts, refresh>>
    BY <1>10 DEF FetchExpires, fundamentalVars
  <2> QED
    BY <1>1, <1>6, <1>9, <2>1
<1>11. CASE FetchFacts
  <2>1. UNCHANGED <<today, listing, covered, facts>>
    BY <1>11 DEF FetchFacts, Refreshes
  <2>2. PICK payload \in {Curated, {}} :
            refresh' = [at |-> IF payload = {} THEN "record" ELSE "store", payload |-> payload,
                        failed |-> FALSE, day |-> today]
    BY <1>11 DEF FetchFacts, Refreshes
  <2>3. ListingTypeOK'
    BY <1>4, <1>5, <1>9, <2>1, <2>2
  <2>4. CASE payload = {}
    BY <1>6, <2>1, <2>2, <2>3, <2>4
  <2>5. CASE payload # {}
    <3>1. refresh'.payload = Curated /\ refresh'.day = today /\ Curated' = Curated
      BY <1>3, <2>1, <2>2, <2>5
    <3>2. \A e : Stored(e)' = Stored(e)
      BY <1>2, <2>1
    <3>3. StoredBefore(Curated, covered)' /\ StoredBefore(refresh.payload, covered)'
      BY <1>1, <2>1, <3>1, <3>2 DEF StoredBefore
    <3>4. PayloadIsWhole'
      BY <1>4, <2>1, <3>1, <3>3 DEF PayloadIsWhole
    <3> QED
      BY <1>2, <2>1, <2>3, <3>3, <3>4 DEF FundamentalsInv
  <2> QED
    BY <2>4, <2>5
<1>12. CASE FactsFetchFails \/ RecordFetch \/ FactsRefreshDies
  <2>1. UNCHANGED <<today, listing, covered, facts>>
    BY <1>12 DEF FactsFetchFails, RecordFetch, FactsRefreshDies, Refreshes
  <2>2. /\ refresh'.at # "store"
        /\ refresh' \in [at : {"idle", "store", "record"}, payload : SUBSET DOMAIN listing,
                         failed : BOOLEAN, day : 0..today]
    <3>1. CASE FactsFetchFails
      <4>1. refresh' = [at |-> "record", payload |-> {}, failed |-> TRUE, day |-> today]
        BY <3>1 DEF FactsFetchFails, Refreshes
      <4> QED
        BY <1>4, <4>1
    <3>2. CASE RecordFetch \/ FactsRefreshDies
      <4>1. refresh' = [at |-> "idle", payload |-> {}, failed |-> FALSE, day |-> 0]
        BY <3>2 DEF RecordFetch, FactsRefreshDies, Refreshes, NoRefresh
      <4> QED
        BY <1>4, <4>1
    <3> QED
      BY <1>12, <3>1, <3>2
  <2> QED
    BY <1>6, <1>9, <2>1, <2>2
<1>13. CASE PersistFacts
  <2>1. /\ refresh.at = "store" /\ UNCHANGED <<today, listing>>
        /\ facts' = facts \cup Inserted(refresh.payload) /\ covered' = refresh.day
        /\ refresh' = [refresh EXCEPT !.at = "record"]
    BY <1>13 DEF PersistFacts, Refreshes
  <2>2. ListingTypeOK'
    BY <1>1, <1>4, <2>1 DEF ListedEntry, KnownTag
  <2>3. refresh'.at # "store" /\ PayloadIsWhole'
    BY <1>1, <2>1 DEF PayloadIsWhole
  <2>4. refresh.payload \in SUBSET DOMAIN listing
    BY <1>1
  <2>5. \A i \in refresh.payload : Stored(listing[i])'
    BY <1>1, <2>1, <2>4, InsertedStores
  <2>6. StoredBefore(Curated, covered)'
    <3>1. \A i \in Curated : listing[i].filed < refresh.day => i \in refresh.payload
      BY <1>1, <2>1 DEF PayloadIsWhole
    <3>2. \A i \in Curated' : listing'[i].filed < covered' => Stored(listing[i])'
      BY <1>3, <2>1, <2>5, <3>1
    <3> QED
      BY <2>1, <3>2 DEF StoredBefore
  <2>7. \A f \in Inserted(refresh.payload) : f.filed \in Nat /\ covered <= f.filed
    <3> SUFFICES ASSUME NEW i \in refresh.payload, ~Stored(listing[i])
                 PROVE  listing[i].filed \in Nat /\ covered <= listing[i].filed
      BY DEF Inserted
    <3>1. listing[i] \in ListedEntry
      BY <1>1, <2>4
    <3>2. listing[i].filed \in Nat
      BY <1>4, <3>1 DEF ListedEntry
    <3>3. ~(listing[i].filed < covered)
      BY <1>1, <2>1 DEF PayloadIsWhole, StoredBefore
    <3> QED
      BY <1>4, <3>2, <3>3
  <2>8. SnapshotsSettle
    <3> SUFFICES ASSUME NEW d \in Days, d < covered
                 PROVE  Snapshot(facts', d) = Snapshot(facts, d)
      BY DEF SnapshotsSettle
    <3>1. d \in Nat
      BY FundamentalsAssumption DEF Days
    <3>2. FiledBefore(facts', d) = FiledBefore(facts, d)
      BY <1>4, <2>1, <2>7, <3>1 DEF FiledBefore
    <3> QED
      BY <3>2 DEF Snapshot
  <2> QED
    BY <2>2, <2>3, <2>6, <2>8 DEF FundamentalsInv
<1> QED
  BY <1>7, <1>8, <1>10, <1>11, <1>12, <1>13 DEF FundamentalsNext

\* Nothing is stored at first.
LEMMA InitialFundamentals == FundamentalsInit => FundamentalsInv
<1> SUFFICES ASSUME FundamentalsInit
             PROVE  FundamentalsInv
  OBVIOUS
<1>1. ListingTypeOK
  BY FundamentalsAssumption DEF FundamentalsInit, ListingTypeOK, NoRefresh, Days
<1>2. Curated = {}
  BY DEF FundamentalsInit, Curated
<1> QED
  BY <1>1, <1>2 DEF FundamentalsInit, FundamentalsInv, PayloadIsWhole, StoredBefore, NoRefresh

\* The inductive invariant of the facts.
THEOREM FundamentalsInductive == FundamentalsSpec => []FundamentalsInv
<1>1. FundamentalsInit => FundamentalsInv
  BY InitialFundamentals
<1>2. FundamentalsInv /\ [FundamentalsNext]_fundamentalVars => FundamentalsInv'
  BY FundamentalsStep
<1> QED
  BY <1>1, <1>2, PTL DEF FundamentalsSpec

\* "No future information leaks into a decision": once a later day's facts are stored,
\* what a committee reads of a day never changes (snapshot, persist_facts).
THEOREM SnapshotsAreSettled == FundamentalsSpec => [][SnapshotsSettle]_fundamentalVars
<1>1. FundamentalsInv /\ [FundamentalsNext]_fundamentalVars => [SnapshotsSettle]_fundamentalVars
  BY FundamentalsStep
<1> QED
  BY <1>1, FundamentalsInductive, PTL DEF FundamentalsSpec

-----------------------------------------------------------------------------
(* What is made of evidence on its way into a prompt *)

-----------------------------------------------------------------------------
(* Loops over a sequence *)

\* What holds at 0 and, below n, at the successor of every number it holds at.
LEMMA CountingUp ==
    ASSUME NEW n \in Nat, NEW T, 0 \in T, \A i \in 0..(n - 1) : i \in T => i + 1 \in T
    PROVE  \A i \in 0..n : i \in T
<1> SUFFICES ASSUME (0..n) \ T # {} PROVE FALSE
  OBVIOUS
<1>1. (0..n) \ T \in SUBSET Nat
  OBVIOUS
<1>2. PICK x \in (0..n) \ T : \A y \in (0..n) \ T : x <= y
  BY <1>1, LeastOf
<1>3. x # 0 /\ x - 1 \in 0..(n - 1) /\ x - 1 \in 0..n /\ ~(x <= x - 1) /\ (x - 1) + 1 = x
  <2>1. x # 0
    OBVIOUS
  <2> QED
    BY <2>1
<1> QED
  BY <1>2, <1>3

\* The states of a loop of N turns, each of which makes a state from the one before it.
IsLoop(r, N, S, b, step) ==
    /\ r \in [0..N -> S] /\ r[0] = b
    /\ \A n \in 1..N : r[n] = step[<<n, r[n - 1]>>]

\* A loop runs through a state after each turn.
LEMMA LoopRuns ==
    ASSUME NEW N \in Nat, NEW S, NEW b \in S, NEW step \in [(1..N) \X S -> S]
    PROVE  \E r : IsLoop(r, N, S, b, step)
<1> DEFINE Runs(m, r) == IsLoop(r, m, S, b, step)
           T == {m \in 0..N : \E r : Runs(m, r)}
<1>1. 0 \in T
  <2> DEFINE r == [n \in 0..0 |-> b]
  <2>1. Runs(0, r)
    BY DEF IsLoop
  <2> HIDE DEF Runs, r
  <2> QED
    BY <2>1
<1>2. ASSUME NEW m \in 0..(N - 1), m \in T PROVE m + 1 \in T
  <2>1. PICK r : Runs(m, r)
    BY <1>2
  <2>a. r \in [0..m -> S] /\ r[0] = b /\ \A n \in 1..m : r[n] = step[<<n, r[n - 1]>>]
    BY <2>1 DEF IsLoop
  <2> DEFINE q == [n \in 0..(m + 1) |-> IF n \in 0..m THEN r[n] ELSE step[<<n, r[m]>>]]
  <2>2. /\ \A n \in 0..m : q[n] = r[n] /\ n \in 0..(m + 1)
        /\ q[m + 1] = step[<<m + 1, r[m]>>] /\ m + 1 \in 1..N
    OBVIOUS
  <2>3. r[m] \in S
    BY <2>a
  <2>4. step[<<m + 1, r[m]>>] \in S
    BY <2>2, <2>3
  <2>5. q \in [0..(m + 1) -> S]
    <3>1. \A n \in 0..(m + 1) : n \in 0..m \/ n = m + 1
      OBVIOUS
    <3>2. \A n \in 0..m : r[n] \in S
      BY <2>a
    <3> QED
      BY <2>4, <3>1, <3>2
  <2>6. ASSUME NEW n \in 1..(m + 1) PROVE q[n] = step[<<n, q[n - 1]>>]
    <3>1. CASE n \in 1..m
      <4>1. n \in 0..m /\ n - 1 \in 0..m
        BY <3>1
      <4> HIDE DEF q
      <4> QED
        BY <2>a, <2>2, <3>1, <4>1
    <3>2. CASE n = m + 1
      <4>1. n - 1 = m /\ m \in 0..m
        BY <3>2
      <4> HIDE DEF q
      <4> QED
        BY <2>2, <3>2, <4>1
    <3> QED
      BY <3>1, <3>2
  <2>7. q[0] = b
    <3> HIDE DEF q
    <3> QED
      BY <2>a, <2>2
  <2> HIDE DEF q
  <2>8. Runs(m + 1, q)
    BY <2>5, <2>6, <2>7 DEF IsLoop
  <2> HIDE DEF Runs
  <2> QED
    BY <2>2, <2>8
<1>3. N \in T
  <2> HIDE DEF T
  <2> QED
    BY <1>1, <1>2, CountingUp
<1> QED
  BY <1>3

\* A function that begins and goes on as the loop does is the loop.
LEMMA LoopIsTyped ==
    ASSUME NEW N \in Nat, NEW S, NEW f, f[0] \in S,
           \A n \in 1..N : f[n - 1] \in S => f[n] \in S
    PROVE  \A n \in 0..N : f[n] \in S
<1> DEFINE T == {n \in 0..N : f[n] \in S}
<1>1. 0 \in T
  OBVIOUS
<1>2. ASSUME NEW n \in 0..(N - 1), n \in T PROVE n + 1 \in T
  <2>1. n + 1 \in 1..N /\ (n + 1) - 1 = n
    OBVIOUS
  <2> QED
    BY <1>2, <2>1
<1>3. \A n \in 0..N : n \in T
  <2> HIDE DEF T
  <2> QED
    BY <1>1, <1>2, CountingUp
<1> QED
  BY <1>3

-----------------------------------------------------------------------------
(* Sums of lengths *)

\* The sums of the beginnings of a sequence.
LEMMA SumRuns ==
    ASSUME NEW s \in Seq(Nat)
    PROVE  \E r \in [0..Len(s) -> Nat] :
              r[0] = 0 /\ (\A n \in 1..Len(s) : r[n] = r[n - 1] + s[n]) /\ SumOf(s) = r[Len(s)]
<1> DEFINE N == Len(s)
           Fix(g) == g = [n \in 0..N |-> IF n = 0 THEN 0 ELSE g[n - 1] + s[n]]
           f == CHOOSE g : Fix(g)
           step == [p \in (1..N) \X Nat |-> p[2] + s[p[1]]]
<1>0. N \in Nat /\ \A n \in 1..N : s[n] \in Nat
  OBVIOUS
<1>1. step \in [(1..N) \X Nat -> Nat] /\ \A n \in 1..N, x \in Nat : step[<<n, x>>] = x + s[n]
  BY <1>0
<1>2. PICK r \in [0..N -> Nat] : r[0] = 0 /\ \A n \in 1..N : r[n] = step[<<n, r[n - 1]>>]
  <2>1. \E r : IsLoop(r, N, Nat, 0, step)
    <3> HIDE DEF step, N
    <3> QED
      BY <1>0, <1>1, LoopRuns
  <2> QED
    BY <2>1 DEF IsLoop
<1>3. Fix(r)
  <2>1. r = [n \in 0..N |-> r[n]]
    BY <1>2
  <2>2. ASSUME NEW n \in 0..N PROVE r[n] = IF n = 0 THEN 0 ELSE r[n - 1] + s[n]
    <3>1. CASE n = 0
      BY <1>2, <3>1
    <3>2. CASE n # 0
      <4>1. n \in 1..N /\ n - 1 \in 0..N
        BY <3>2
      <4>2. r[n - 1] \in Nat
        BY <1>2, <4>1
      <4> HIDE DEF step
      <4> QED
        BY <1>1, <1>2, <3>2, <4>1, <4>2
    <3> QED
      BY <3>1, <3>2
  <2> QED
    BY <2>1, <2>2
<1>4. Fix(f)
  <2> HIDE DEF Fix
  <2> QED
    BY <1>3
<1>5. SumOf(s) = f[N]
  BY DEF SumOf
<1> HIDE DEF f
<1>6. \A n \in 0..N : f[n] = IF n = 0 THEN 0 ELSE f[n - 1] + s[n]
  BY <1>4
<1>7. f[0] = 0 /\ \A n \in 1..N : f[n] = f[n - 1] + s[n]
  BY <1>6
<1>8. \A n \in 0..N : f[n] \in Nat
  <2> HIDE DEF N
  <2>1. ASSUME NEW n \in 1..N, f[n - 1] \in Nat PROVE f[n] \in Nat
    <3>1. f[n] = f[n - 1] + s[n] /\ s[n] \in Nat
      BY <1>0, <1>7
    <3> QED
      BY <2>1, <3>1
  <2>2. f[0] \in Nat
    BY <1>7
  <2> QED
    BY <1>0, <2>1, <2>2, LoopIsTyped
<1>9. f \in [0..N -> Nat]
  <2>1. f = [n \in 0..N |-> f[n]]
    <3>1. f = [n \in 0..N |-> IF n = 0 THEN 0 ELSE f[n - 1] + s[n]]
      BY <1>4
    <3>2. DOMAIN f = 0..N
      BY <3>1
    <3> QED
      BY <3>1, <3>2
  <2> QED
    BY <1>8, <2>1
<1> QED
  BY <1>5, <1>7, <1>9

\* The sum of two sequences, one after the other.
LEMMA SumOfBoth ==
    ASSUME NEW s \in Seq(Nat), NEW t \in Seq(Nat)
    PROVE  SumOf(s) \in Nat /\ SumOf(t) \in Nat /\ SumOf(s \o t) = SumOf(s) + SumOf(t)
<1> DEFINE u == s \o t
<1>0. u \in Seq(Nat) /\ Len(u) = Len(s) + Len(t) /\ Len(s) \in Nat /\ Len(t) \in Nat
  OBVIOUS
<1>1. /\ \A n \in 1..Len(s) : u[n] = s[n]
      /\ \A n \in 1..Len(t) : u[Len(s) + n] = t[n]
  OBVIOUS
<1>2. PICK a \in [0..Len(s) -> Nat] : a[0] = 0 /\ (\A n \in 1..Len(s) : a[n] = a[n - 1] + s[n]) /\ SumOf(s) = a[Len(s)]
  BY SumRuns
<1>3. PICK b \in [0..Len(t) -> Nat] : b[0] = 0 /\ (\A n \in 1..Len(t) : b[n] = b[n - 1] + t[n]) /\ SumOf(t) = b[Len(t)]
  BY SumRuns
<1>4. PICK c \in [0..Len(u) -> Nat] : c[0] = 0 /\ (\A n \in 1..Len(u) : c[n] = c[n - 1] + u[n]) /\ SumOf(u) = c[Len(u)]
  <2> HIDE DEF u
  <2> QED
    BY <1>0, SumRuns
<1> HIDE DEF u
<1>5. \A n \in 0..Len(s) : c[n] = a[n]
  <2> DEFINE T == {n \in 0..Len(s) : c[n] = a[n]}
  <2>1. 0 \in T
    BY <1>0, <1>2, <1>4
  <2>2. ASSUME NEW n \in 0..(Len(s) - 1), n \in T PROVE n + 1 \in T
    <3>1. n + 1 \in 1..Len(s) /\ n + 1 \in 1..Len(u) /\ (n + 1) - 1 = n
      BY <1>0
    <3> QED
      BY <1>0, <1>1, <1>2, <1>4, <2>2, <3>1
  <2>3. \A n \in 0..Len(s) : n \in T
    <3> HIDE DEF T
    <3> QED
      BY <1>0, <2>1, <2>2, CountingUp
  <2> QED
    BY <2>3
<1>6. \A n \in 0..Len(t) : c[Len(s) + n] = SumOf(s) + b[n]
  <2> DEFINE T == {n \in 0..Len(t) : c[Len(s) + n] = SumOf(s) + b[n]}
  <2>1. 0 \in T
    <3>1. Len(s) + 0 = Len(s) /\ Len(s) \in 0..Len(s) /\ 0 \in 0..Len(t)
      BY <1>0
    <3>2. a[Len(s)] \in Nat
      BY <1>2, <3>1
    <3>3. c[Len(s)] = SumOf(s)
      BY <1>2, <1>5, <3>1
    <3> QED
      BY <1>2, <1>3, <3>1, <3>2, <3>3
  <2>2. ASSUME NEW n \in 0..(Len(t) - 1), n \in T PROVE n + 1 \in T
    <3>1. /\ n + 1 \in 1..Len(t) /\ (n + 1) - 1 = n /\ n \in 0..Len(t)
          /\ Len(s) + (n + 1) \in 1..Len(u) /\ (Len(s) + (n + 1)) - 1 = Len(s) + n
      BY <1>0
    <3>2. c[Len(s) + (n + 1)] = c[Len(s) + n] + u[Len(s) + (n + 1)]
      BY <1>4, <3>1
    <3>3. u[Len(s) + (n + 1)] = t[n + 1]
      BY <1>1, <3>1
    <3>4. b[n + 1] = b[n] + t[n + 1]
      BY <1>3, <3>1
    <3>5. b[n] \in Nat /\ t[n + 1] \in Nat /\ SumOf(s) \in Nat
      <4>1. b[n] \in Nat
        BY <1>3, <3>1
      <4>2. t[n + 1] \in Nat
        BY <3>1
      <4>3. Len(s) \in 0..Len(s)
        BY <1>0
      <4>4. a[Len(s)] \in Nat
        BY <1>2, <4>3
      <4> QED
        BY <1>2, <4>1, <4>2, <4>4
    <3>6. c[Len(s) + n] = SumOf(s) + b[n]
      BY <2>2
    <3>7. c[Len(s) + (n + 1)] = (SumOf(s) + b[n]) + t[n + 1]
      BY <3>2, <3>3, <3>6
    <3>8. c[Len(s) + (n + 1)] = SumOf(s) + b[n + 1]
      BY <3>4, <3>5, <3>7
    <3> QED
      BY <3>1, <3>8
  <2>3. \A n \in 0..Len(t) : n \in T
    <3> HIDE DEF T
    <3> QED
      BY <1>0, <2>1, <2>2, CountingUp
  <2> QED
    BY <2>3
<1>7. Len(s) \in 0..Len(s) /\ Len(t) \in 0..Len(t)
  BY <1>0
<1>8. SumOf(s) \in Nat /\ SumOf(t) \in Nat
  BY <1>2, <1>3, <1>7
<1>9. SumOf(u) = c[Len(s) + Len(t)] /\ SumOf(t) = b[Len(t)]
  BY <1>0, <1>3, <1>4
<1> QED
  BY <1>6, <1>7, <1>8, <1>9 DEF u

\* The sums of nothing and of one.
LEMMA SumOfLittle ==
    ASSUME NEW x \in Nat
    PROVE  SumOf(<<>>) = 0 /\ SumOf(<<x>>) = x
<1>1. <<>> \in Seq(Nat) /\ Len(<<>>) = 0 /\ <<x>> \in Seq(Nat) /\ Len(<<x>>) = 1 /\ <<x>>[1] = x
  OBVIOUS
<1>2. SumOf(<<>>) = 0
  <2> DEFINE e == <<>>
  <2> HIDE DEF e
  <2>1. e \in Seq(Nat) /\ Len(e) = 0
    BY <1>1 DEF e
  <2>2. SumOf(e) = 0
    BY <2>1, SumRuns
  <2> QED
    BY <2>2 DEF e
<1>3. SumOf(<<x>>) = x
  <2> DEFINE e == <<x>>
  <2> HIDE DEF e
  <2>1. e \in Seq(Nat) /\ Len(e) = 1 /\ e[1] = x
    BY <1>1 DEF e
  <2>2. PICK r \in [0..Len(e) -> Nat] :
            r[0] = 0 /\ (\A n \in 1..Len(e) : r[n] = r[n - 1] + e[n]) /\ SumOf(e) = r[Len(e)]
    BY <2>1, SumRuns
  <2>3. r[1] = r[1 - 1] + e[1] /\ 1 - 1 = 0
    BY <2>1, <2>2
  <2>4. SumOf(e) = x
    BY <2>1, <2>2, <2>3
  <2> QED
    BY <2>4 DEF e
<1> QED
  BY <1>2, <1>3

-----------------------------------------------------------------------------
(* Sequences one after the other *)

\* What the first of the sequences make, one after the other.
LEMMA FlattenRuns ==
    ASSUME NEW T, NEW seqs \in Seq(Seq(T))
    PROVE  \E r \in [0..Len(seqs) -> Seq(T)] :
              r[0] = <<>> /\ (\A n \in 1..Len(seqs) : r[n] = r[n - 1] \o seqs[n]) /\ FlattenSeq(seqs) = r[Len(seqs)]
<1> DEFINE N == Len(seqs)
           S == Seq(T)
           step == [p \in (1..N) \X S |-> p[2] \o seqs[p[1]]]
           Fix(g) == g = [i \in 1..N |-> IF i = 1 THEN seqs[i] ELSE g[i - 1] \o seqs[i]]
           f == CHOOSE g : Fix(g)
<1>0. N \in Nat /\ <<>> \in S /\ \A n \in 1..N : seqs[n] \in S
  OBVIOUS
<1>1. step \in [(1..N) \X S -> S] /\ \A n \in 1..N, x \in S : step[<<n, x>>] = x \o seqs[n]
  <2>1. \A x, y \in S : x \o y \in S
    OBVIOUS
  <2> HIDE DEF S, N
  <2> QED
    BY <1>0, <2>1
<1>2. PICK r \in [0..N -> S] : r[0] = <<>> /\ \A n \in 1..N : r[n] = step[<<n, r[n - 1]>>]
  <2>1. \E r : IsLoop(r, N, S, <<>>, step)
    <3> HIDE DEF step, N, S
    <3> QED
      BY <1>0, <1>1, LoopRuns
  <2> QED
    BY <2>1 DEF IsLoop
<1>3. \A n \in 1..N : n - 1 \in 0..N /\ r[n - 1] \in S /\ r[n] = r[n - 1] \o seqs[n]
  <2> TAKE n \in 1..N
  <2>1. n - 1 \in 0..N
    OBVIOUS
  <2> HIDE DEF step, S, N
  <2>2. r[n - 1] \in S
    BY <1>2, <2>1
  <2>3. r[n] = step[<<n, r[n - 1]>>]
    BY <1>2
  <2> QED
    BY <1>1, <2>1, <2>2, <2>3
<1>4. CASE N = 0
  <2>1. seqs = <<>>
    BY <1>4
  <2> QED
    BY <1>2, <1>3, <1>4, <2>1 DEF FlattenSeq
<1>5. CASE N # 0
  <2> DEFINE q == [i \in 1..N |-> r[i]]
  <2>1. Fix(q)
    <3>1. ASSUME NEW i \in 1..N PROVE q[i] = IF i = 1 THEN seqs[i] ELSE q[i - 1] \o seqs[i]
      <4>1. CASE i = 1
        <5>1. r[1] = <<>> \o seqs[1]
          <6>1. 1 \in 1..N /\ 1 - 1 = 0
            BY <4>1
          <6>2. r[1] = r[1 - 1] \o seqs[1]
            BY <1>3, <6>1
          <6> QED
            BY <1>2, <6>1, <6>2
        <5>2. \A x \in S : <<>> \o x = x
          OBVIOUS
        <5> QED
          BY <1>0, <4>1, <5>1, <5>2
      <4>2. CASE i # 1
        <5>1. i - 1 \in 1..N
          BY <4>2
        <5> QED
          BY <1>3, <4>2, <5>1
      <4> QED
        BY <4>1, <4>2
    <3> HIDE DEF S
    <3> QED
      BY <3>1
  <2>2. Fix(f)
    <3> HIDE DEF Fix
    <3> QED
      BY <2>1
  <2>3. FlattenSeq(seqs) = f[N]
    BY <1>5 DEF FlattenSeq
  <2> HIDE DEF f
  <2>4. \A i \in 1..N : f[i] = IF i = 1 THEN seqs[i] ELSE f[i - 1] \o seqs[i]
    BY <2>2
  <2>5. \A i \in 0..N : i = 0 \/ f[i] = r[i]
    <3> DEFINE U == {i \in 0..N : i = 0 \/ f[i] = r[i]}
    <3>1. 0 \in U
      BY <1>0
    <3>2. ASSUME NEW i \in 0..(N - 1), i \in U PROVE i + 1 \in U
      <4>1. i + 1 \in 1..N /\ i + 1 \in 0..N /\ (i + 1) - 1 = i
        BY <1>0
      <4>2. f[i + 1] = r[i + 1]
        <5>1. CASE i = 0
          <6>1. i + 1 = 1 /\ 1 \in 1..N
            BY <4>1, <5>1
          <6>2. f[1] = seqs[1]
            BY <2>4, <6>1
          <6>3. r[1] = seqs[1]
            BY <2>1, <6>1
          <6> QED
            BY <6>1, <6>2, <6>3
        <5>2. CASE i # 0
          <6>1. i \in 1..N /\ i + 1 # 1
            BY <4>1, <5>2
          <6>2. f[i] = r[i]
            BY <3>2, <5>2
          <6>3. f[i + 1] = f[i] \o seqs[i + 1]
            BY <2>4, <4>1, <6>1
          <6>4. r[i + 1] = r[i] \o seqs[i + 1]
            BY <1>3, <4>1
          <6> QED
            BY <6>2, <6>3, <6>4
        <5> QED
          BY <5>1, <5>2
      <4> QED
        BY <4>1, <4>2
    <3>3. \A i \in 0..N : i \in U
      <4> HIDE DEF U, N
      <4> QED
        BY <1>0, <3>1, <3>2, CountingUp
    <3> QED
      BY <3>3
  <2>6. f[N] = r[N]
    BY <1>0, <1>5, <2>5
  <2> QED
    BY <1>2, <1>3, <2>3, <2>6
<1> QED
  BY <1>4, <1>5

\* One more sequence comes after the others.
LEMMA FlattenMore ==
    ASSUME NEW T, NEW seqs \in Seq(Seq(T)), NEW s \in Seq(T)
    PROVE  /\ FlattenSeq(seqs) \in Seq(T) /\ Append(seqs, s) \in Seq(Seq(T))
           /\ FlattenSeq(Append(seqs, s)) = FlattenSeq(seqs) \o s
<1> DEFINE more == Append(seqs, s)
<1>0. /\ more \in Seq(Seq(T)) /\ Len(more) = Len(seqs) + 1 /\ Len(seqs) \in Nat
      /\ \A n \in 1..Len(seqs) : more[n] = seqs[n]
      /\ more[Len(seqs) + 1] = s
  OBVIOUS
<1> HIDE DEF more
<1>1. PICK a \in [0..Len(seqs) -> Seq(T)] :
          a[0] = <<>> /\ (\A n \in 1..Len(seqs) : a[n] = a[n - 1] \o seqs[n]) /\ FlattenSeq(seqs) = a[Len(seqs)]
  BY FlattenRuns
<1>2. PICK b \in [0..Len(more) -> Seq(T)] :
          b[0] = <<>> /\ (\A n \in 1..Len(more) : b[n] = b[n - 1] \o more[n]) /\ FlattenSeq(more) = b[Len(more)]
  BY <1>0, FlattenRuns
<1>3. \A n \in 0..Len(seqs) : b[n] = a[n]
  <2> DEFINE U == {n \in 0..Len(seqs) : b[n] = a[n]}
  <2>1. 0 \in U
    BY <1>0, <1>1, <1>2
  <2>2. ASSUME NEW n \in 0..(Len(seqs) - 1), n \in U PROVE n + 1 \in U
    <3>1. n + 1 \in 1..Len(seqs) /\ n + 1 \in 1..Len(more) /\ (n + 1) - 1 = n
      BY <1>0
    <3>2. a[n + 1] = a[n] \o seqs[n + 1]
      BY <1>1, <3>1
    <3>3. b[n + 1] = b[n] \o more[n + 1]
      BY <1>2, <3>1
    <3>4. more[n + 1] = seqs[n + 1] /\ b[n] = a[n] /\ n + 1 \in 0..Len(seqs)
      BY <1>0, <2>2, <3>1
    <3>5. b[n + 1] = a[n + 1]
      BY <3>2, <3>3, <3>4
    <3> QED
      BY <3>4, <3>5
  <2>3. \A n \in 0..Len(seqs) : n \in U
    <3> HIDE DEF U
    <3> QED
      BY <1>0, <2>1, <2>2, CountingUp
  <2> QED
    BY <2>3
<1>4. Len(seqs) \in 0..Len(seqs) /\ Len(more) \in 1..Len(more) /\ Len(more) - 1 = Len(seqs)
  BY <1>0
<1>5. FlattenSeq(more) = b[Len(seqs)] \o s
  <2>1. b[Len(more)] = b[Len(more) - 1] \o more[Len(more)]
    BY <1>2, <1>4
  <2> QED
    BY <1>0, <1>2, <1>4, <2>1
<1>6. a[Len(seqs)] \in Seq(T)
  BY <1>1, <1>4
<1>7. FlattenSeq(more) = FlattenSeq(seqs) \o s
  BY <1>1, <1>3, <1>4, <1>5
<1> QED
  BY <1>0, <1>1, <1>6, <1>7 DEF more

\* Nothing makes nothing.
LEMMA FlattenNothing == FlattenSeq(<<>>) = <<>>
BY DEF FlattenSeq

-----------------------------------------------------------------------------
(* The chunks of an excerpt *)

PackStates == [done : Seq(Seq(Nat)), current : Seq(Nat)]

\* What has been packed is what there was up to now, and what is packed fits.
IsPacked(chunks, front, size) ==
    /\ chunks \in PackStates
    /\ FlattenSeq(chunks.done) \o chunks.current = front
    /\ \A i \in DOMAIN chunks.done : chunks.done[i] # <<>> /\ Joined(chunks.done[i]) <= size
    /\ chunks.current # <<>> => Joined(chunks.current) <= size

\* Packing makes chunks of chunks.
LEMMA PackType ==
    ASSUME NEW c \in PackStates, NEW piece \in Nat, NEW size \in Nat
    PROVE  Pack(c, piece, size) \in PackStates
<1>1. c.done \in Seq(Seq(Nat)) /\ c.current \in Seq(Nat)
  BY DEF PackStates
<1>2. Append(c.done, c.current) \in Seq(Seq(Nat)) /\ <<piece>> \in Seq(Nat) /\ Append(c.current, piece) \in Seq(Nat)
  BY <1>1
<1>3. [c EXCEPT !.current = Append(@, piece)] \in PackStates
  BY <1>1, <1>2 DEF PackStates
<1> QED
  BY <1>2, <1>3 DEF Pack, PackStates

\* The chunks after each number of pieces satisfy the recursion that defines them.
LEMMA PackedRuns ==
    ASSUME NEW pieces \in Seq(Nat), NEW size \in Nat
    PROVE  /\ Packed(pieces, size)[0] = [done |-> <<>>, current |-> <<>>]
           /\ \A n \in 1..Len(pieces) :
                 Packed(pieces, size)[n] = Pack(Packed(pieces, size)[n - 1], pieces[n], size)
<1> DEFINE N == Len(pieces)
           S == PackStates
           first == [done |-> <<>>, current |-> <<>>]
           Fix(g) == g = [n \in 0..N |-> IF n = 0 THEN first ELSE Pack(g[n - 1], pieces[n], size)]
           f == CHOOSE g : Fix(g)
           step == [p \in (1..N) \X S |-> Pack(p[2], pieces[p[1]], size)]
<1>0. N \in Nat /\ first \in S
  BY DEF PackStates
<1>1. step \in [(1..N) \X S -> S] /\ \A n \in 1..N, x \in S : step[<<n, x>>] = Pack(x, pieces[n], size)
  <2>1. \A n \in 1..N : pieces[n] \in Nat
    OBVIOUS
  <2>2. \A n \in 1..N, x \in S : Pack(x, pieces[n], size) \in S
    BY <2>1, PackType
  <2> HIDE DEF S, N
  <2> QED
    BY <2>2
<1>2. PICK r \in [0..N -> S] : r[0] = first /\ \A n \in 1..N : r[n] = step[<<n, r[n - 1]>>]
  <2>1. \E r : IsLoop(r, N, S, first, step)
    <3> HIDE DEF step, N, S, first
    <3> QED
      BY <1>0, <1>1, LoopRuns
  <2> QED
    BY <2>1 DEF IsLoop
<1>3. Fix(r)
  <2>1. ASSUME NEW n \in 0..N PROVE r[n] = IF n = 0 THEN first ELSE Pack(r[n - 1], pieces[n], size)
    <3>1. CASE n = 0
      BY <1>2, <3>1
    <3>2. CASE n # 0
      <4>1. n \in 1..N /\ n - 1 \in 0..N
        BY <3>2
      <4> HIDE DEF step, S, first
      <4>2. r[n - 1] \in S
        BY <1>2, <4>1
      <4>3. r[n] = step[<<n, r[n - 1]>>]
        BY <1>2, <4>1
      <4> QED
        BY <1>1, <3>2, <4>1, <4>2, <4>3
    <3> QED
      BY <3>1, <3>2
  <2>2. r = [n \in 0..N |-> r[n]]
    BY <1>2
  <2> HIDE DEF first, S
  <2> QED
    BY <2>1, <2>2
<1>4. Fix(f)
  <2> HIDE DEF Fix
  <2> QED
    BY <1>3
<1>5. Packed(pieces, size) = f
  BY DEF Packed
<1> HIDE DEF f
<1>6. \A n \in 0..N : f[n] = IF n = 0 THEN first ELSE Pack(f[n - 1], pieces[n], size)
  BY <1>4
<1>7. f[0] = first
  BY <1>0, <1>6
<1>8. \A n \in 1..N : f[n] = Pack(f[n - 1], pieces[n], size)
  <2> TAKE n \in 1..N
  <2>1. n \in 0..N /\ n # 0
    OBVIOUS
  <2> QED
    BY <1>6, <2>1
<1> QED
  BY <1>5, <1>7, <1>8

\* One more piece is packed.
LEMMA PackStep ==
    ASSUME NEW size \in Nat, NEW piece \in 0..size, NEW front \in Seq(Nat), NEW c, IsPacked(c, front, size)
    PROVE  IsPacked(Pack(c, piece, size), Append(front, piece), size)
<1> DEFINE d == Pack(c, piece, size)
<1>0. /\ c \in PackStates /\ c.done \in Seq(Seq(Nat)) /\ c.current \in Seq(Nat) /\ piece \in Nat
      /\ FlattenSeq(c.done) \o c.current = front
      /\ \A i \in DOMAIN c.done : c.done[i] # <<>> /\ Joined(c.done[i]) <= size
      /\ c.current # <<>> => Joined(c.current) <= size
  BY DEF IsPacked, PackStates
<1>1. d \in PackStates
  BY <1>0, PackType
<1>2. SumOf(c.current) \in Nat /\ SumOf(Append(c.current, piece)) = SumOf(c.current) + piece
  <2>1. <<piece>> \in Seq(Nat) /\ Append(c.current, piece) = c.current \o <<piece>>
    <3>1. \A x \in Seq(Nat) : Append(x, piece) = x \o <<piece>>
      BY <1>0
    <3>2. <<piece>> \in Seq(Nat)
      BY <1>0
    <3> QED
      BY <1>0, <3>1, <3>2
  <2>2. SumOf(c.current \o <<piece>>) = SumOf(c.current) + SumOf(<<piece>>) /\ SumOf(c.current) \in Nat
    BY <1>0, <2>1, SumOfBoth
  <2> QED
    BY <1>0, <2>1, <2>2, SumOfLittle
<1>3. SumOf(<<piece>>) = piece /\ Len(<<piece>>) = 1 /\ <<piece>> # <<>>
  BY <1>0, SumOfLittle
<1>4. FlattenSeq(c.done) \in Seq(Nat)
  BY <1>0, FlattenMore
<1>5. CASE Overflows(c.current, piece, size)
  <2>1. d = [done |-> Append(c.done, c.current), current |-> <<piece>>]
    BY <1>5 DEF Pack
  <2>2. d.done = Append(c.done, c.current) /\ d.current = <<piece>>
    BY <2>1
  <2>3. FlattenSeq(d.done) = front
    BY <1>0, <2>2, FlattenMore
  <2>4. FlattenSeq(d.done) \o d.current = Append(front, piece)
    <3>1. Append(front, piece) = front \o <<piece>>
      <4> HIDE DEF d
      <4>1. piece \in Nat /\ front \in Seq(Nat)
        BY <1>0
      <4> QED
        BY <4>1
    <3> HIDE DEF d
    <3> QED
      BY <2>2, <2>3, <3>1
  <2>5. c.current # <<>>
    BY <1>5 DEF Overflows
  <2>6. ASSUME NEW i \in DOMAIN d.done PROVE d.done[i] # <<>> /\ Joined(d.done[i]) <= size
    <3>1. \/ i \in DOMAIN c.done /\ d.done[i] = c.done[i]
          \/ d.done[i] = c.current
      <4> DEFINE m == Append(c.done, c.current)
      <4>1. /\ DOMAIN m = 1..(Len(c.done) + 1) /\ DOMAIN c.done = 1..Len(c.done) /\ Len(c.done) \in Nat
            /\ \A j \in 1..Len(c.done) : m[j] = c.done[j]
            /\ m[Len(c.done) + 1] = c.current
        BY <1>0
      <4>2. d.done = m
        BY <2>2
      <4> HIDE DEF m, d
      <4>3. i \in 1..(Len(c.done) + 1)
        BY <4>1, <4>2
      <4>4. i \in 1..Len(c.done) \/ i = Len(c.done) + 1
        BY <4>1, <4>3
      <4> QED
        BY <4>1, <4>2, <4>4
    <3> QED
      BY <1>0, <2>5, <3>1
  <2>7. Joined(d.current) <= size
    BY <1>3, <2>2 DEF Joined
  <2> QED
    BY <1>1, <2>4, <2>6, <2>7 DEF IsPacked
<1>6. CASE ~Overflows(c.current, piece, size)
  <2>1. d = [c EXCEPT !.current = Append(@, piece)]
    BY <1>6 DEF Pack
  <2>2. d.done = c.done /\ d.current = Append(c.current, piece)
    BY <1>0, <2>1 DEF PackStates
  <2>3. FlattenSeq(d.done) \o d.current = Append(front, piece)
    <3>1. \A x, y \in Seq(Nat) : x \o Append(y, piece) = Append(x \o y, piece)
      BY <1>0, SMTT(60)
    <3> QED
      BY <1>0, <1>4, <2>2, <3>1
  <2>4. Joined(d.current) <= size
    <3>1. Len(d.current) = Len(c.current) + 1 /\ Len(c.current) \in Nat
      BY <1>0, <2>2
    <3>2. CASE c.current = <<>>
      <4>1. d.current = <<piece>>
        BY <1>0, <2>2, <3>2
      <4> QED
        BY <1>3, <4>1 DEF Joined
    <3>3. CASE c.current # <<>>
      <4>1. SumOf(c.current) + Len(c.current) + piece + 1 <= size
        BY <1>0, <1>2, <1>6, <3>1, <3>3 DEF Overflows
      <4>2. Joined(d.current) = (SumOf(c.current) + piece) + (Len(c.current) + 1) - 1
        BY <1>2, <2>2, <3>1 DEF Joined
      <4> QED
        BY <1>0, <1>2, <3>1, <4>1, <4>2
    <3> QED
      BY <3>2, <3>3
  <2> QED
    BY <1>0, <1>1, <2>2, <2>3, <2>4 DEF IsPacked
<1> QED
  BY <1>5, <1>6

\* The pieces, packed into chunks, are the same pieces, and each chunk fits.
LEMMA PackedFits ==
    ASSUME NEW size \in Nat, NEW pieces \in Seq(0..size)
    PROVE  IsPacked(Packed(pieces, size)[Len(pieces)], pieces, size)
<1> DEFINE N == Len(pieces)
           Prefix(n) == [i \in 1..n |-> pieces[i]]
           f == Packed(pieces, size)
           T == {n \in 0..N : IsPacked(f[n], Prefix(n), size)}
<1>0. N \in Nat /\ pieces \in Seq(Nat) /\ \A n \in 1..N : pieces[n] \in 0..size
  OBVIOUS
<1>1. f[0] = [done |-> <<>>, current |-> <<>>] /\ \A n \in 1..N : f[n] = Pack(f[n - 1], pieces[n], size)
  BY <1>0, PackedRuns
<1> HIDE DEF f
<1>2. 0 \in T
  <2>1. Prefix(0) = <<>> /\ <<>> \in Seq(Nat) /\ <<>> \in Seq(Seq(Nat)) /\ <<>> \o <<>> = <<>>
    OBVIOUS
  <2>2. IsPacked([done |-> <<>>, current |-> <<>>], <<>>, size)
    BY <2>1, FlattenNothing DEF IsPacked, PackStates
  <2>3. IsPacked(f[0], Prefix(0), size)
    BY <1>1, <2>1, <2>2
  <2> QED
    BY <1>0, <2>3
<1>3. ASSUME NEW n \in 0..(N - 1), n \in T PROVE n + 1 \in T
  <2>1. n + 1 \in 1..N /\ n + 1 \in 0..N /\ (n + 1) - 1 = n /\ n \in Nat
    BY <1>0
  <2>2. Prefix(n) \in Seq(Nat) /\ Prefix(n + 1) = Append(Prefix(n), pieces[n + 1])
    <3>1. \A i \in 1..n : pieces[i] \in Nat
      BY <1>0, <2>1
    <3>2. Prefix(n) \in Seq(Nat) /\ Len(Prefix(n)) = n
      BY <2>1, <3>1
    <3>3. Len(Append(Prefix(n), pieces[n + 1])) = n + 1
      BY <3>2
    <3>4. \A i \in 1..(n + 1) : Append(Prefix(n), pieces[n + 1])[i] = pieces[i]
      BY <2>1, <3>2
    <3> QED
      BY <2>1, <3>2, <3>3, <3>4
  <2>3. f[n + 1] = Pack(f[n], pieces[n + 1], size)
    BY <1>1, <2>1
  <2>4. IsPacked(f[n], Prefix(n), size)
    BY <1>3
  <2> HIDE DEF Prefix
  <2>5. IsPacked(f[n + 1], Prefix(n + 1), size)
    BY <1>0, <2>1, <2>2, <2>3, <2>4, PackStep
  <2> QED
    BY <2>1, <2>5
<1>4. \A n \in 0..N : n \in T
  <2> HIDE DEF T, N
  <2> QED
    BY <1>0, <1>2, <1>3, CountingUp
<1>5. Prefix(N) = pieces /\ N \in 0..N
  BY <1>0
<1>6. IsPacked(f[N], Prefix(N), size)
  BY <1>4, <1>5
<1> QED
  BY <1>5, <1>6 DEF f

\* So many pieces of one length are as long as they are many times that length.
LEMMA SumOfEqual ==
    ASSUME NEW size \in Nat, NEW k \in Nat
    PROVE  [i \in 1..k |-> size] \in Seq(0..size) /\ SumOf([i \in 1..k |-> size]) = k * size
<1> DEFINE Equal(n) == [i \in 1..n |-> size]
           T == {n \in 0..k : SumOf(Equal(n)) = n * size}
<1>0. \A n \in Nat : Equal(n) \in Seq(0..size) /\ Equal(n) \in Seq(Nat)
  OBVIOUS
<1>1. 0 \in T
  <2>1. Equal(0) = <<>> /\ 0 * size = 0
    OBVIOUS
  <2>2. SumOf(Equal(0)) = 0
    BY <2>1, SumOfLittle
  <2> QED
    BY <2>1, <2>2
<1>2. ASSUME NEW n \in 0..(k - 1), n \in T PROVE n + 1 \in T
  <2>1. n \in Nat /\ n + 1 \in 0..k /\ <<size>> \in Seq(Nat)
    OBVIOUS
  <2>2. Equal(n + 1) = Equal(n) \o <<size>>
    OBVIOUS
  <2>3. (n + 1) * size = n * size + size /\ n * size \in Nat
    BY <2>1
  <2>4. SumOf(Equal(n)) = n * size
    BY <1>2
  <2> HIDE DEF Equal
  <2>5. SumOf(Equal(n + 1)) = SumOf(Equal(n)) + SumOf(<<size>>)
    BY <1>0, <2>1, <2>2, SumOfBoth
  <2>6. SumOf(<<size>>) = size
    BY SumOfLittle
  <2>7. SumOf(Equal(n + 1)) = (n + 1) * size
    BY <2>3, <2>4, <2>5, <2>6
  <2> QED
    BY <2>1, <2>7
<1>3. \A n \in 0..k : n \in T
  <2> HIDE DEF T
  <2> QED
    BY <1>1, <1>2, CountingUp
<1>4. SumOf(Equal(k)) = k * size
  BY <1>3
<1> QED
  BY <1>0, <1>4

\* The split of a paragraph that is too long loses nothing of it.
LEMMA HardSplitSums ==
    ASSUME NEW length \in Nat, NEW size \in Nat \ {0}
    PROVE  HardSplit(length, size) \in Seq(0..size) /\ SumOf(HardSplit(length, size)) = length
<1> DEFINE full == length \div size
           rest == length % size
           equal == [i \in 1..full |-> size]
<1>1. full \in Nat /\ rest \in 0..(size - 1) /\ length = full * size + rest
  OBVIOUS
<1>2. size \in Nat /\ rest \in Nat /\ rest \in 0..size
  BY <1>1
<1>3. equal \in Seq(0..size) /\ SumOf(equal) = full * size
  <2> HIDE DEF full
  <2> QED
    BY <1>1, <1>2, SumOfEqual
<1>4. HardSplit(length, size) = IF rest = 0 THEN equal ELSE Append(equal, rest)
  BY DEF HardSplit
<1> HIDE DEF full, rest, equal
<1>5. CASE rest = 0
  <2>1. full * size + 0 = full * size
    BY <1>1, <1>2
  <2> QED
    BY <1>1, <1>3, <1>4, <1>5, <2>1
<1>6. CASE rest # 0
  <2>1. equal \in Seq(Nat) /\ <<rest>> \in Seq(Nat) /\ Append(equal, rest) = equal \o <<rest>>
    BY <1>2, <1>3
  <2>2. SumOf(equal \o <<rest>>) = SumOf(equal) + SumOf(<<rest>>)
    BY <2>1, SumOfBoth
  <2>3. SumOf(<<rest>>) = rest
    BY <1>2, SumOfLittle
  <2>4. Append(equal, rest) \in Seq(0..size)
    BY <1>2, <1>3
  <2> QED
    BY <1>1, <1>3, <1>4, <1>6, <2>1, <2>2, <2>3, <2>4
<1> QED
  BY <1>5, <1>6

\* What the sequences sum up to, one after the other.
LEMMA SumOfFlat ==
    ASSUME NEW size \in Nat, NEW s \in Seq(Nat), NEW seqs \in Seq(Seq(0..size)), Len(seqs) = Len(s),
           \A i \in 1..Len(s) : SumOf(seqs[i]) = s[i]
    PROVE  FlattenSeq(seqs) \in Seq(0..size) /\ SumOf(FlattenSeq(seqs)) = SumOf(s)
<1> DEFINE N == Len(s)
<1>0. N \in Nat /\ N \in 0..N /\ \A x \in Seq(0..size) : x \in Seq(Nat)
  OBVIOUS
<1>1. PICK a \in [0..N -> Nat] : a[0] = 0 /\ (\A n \in 1..N : a[n] = a[n - 1] + s[n]) /\ SumOf(s) = a[N]
  BY SumRuns
<1>2. PICK b \in [0..N -> Seq(0..size)] :
          b[0] = <<>> /\ (\A n \in 1..N : b[n] = b[n - 1] \o seqs[n]) /\ FlattenSeq(seqs) = b[N]
  <2> DEFINE Q == 0..size
  <2>1. seqs \in Seq(Seq(Q))
    OBVIOUS
  <2> HIDE DEF Q
  <2>2. \E b \in [0..Len(seqs) -> Seq(Q)] :
          b[0] = <<>> /\ (\A n \in 1..Len(seqs) : b[n] = b[n - 1] \o seqs[n]) /\ FlattenSeq(seqs) = b[Len(seqs)]
    BY <2>1, FlattenRuns
  <2> QED
    BY <2>2 DEF Q
<1> DEFINE T == {n \in 0..N : SumOf(b[n]) = a[n]}
<1>3. 0 \in T
  <2>1. SumOf(<<>>) = 0
    BY SumOfLittle
  <2> QED
    BY <1>0, <1>1, <1>2, <2>1
<1>4. ASSUME NEW n \in 0..(N - 1), n \in T PROVE n + 1 \in T
  <2>1. n \in 0..N /\ n + 1 \in 1..N /\ n + 1 \in 0..N /\ (n + 1) - 1 = n
    BY <1>0
  <2>2. b[n] \in Seq(Nat) /\ seqs[n + 1] \in Seq(Nat)
    <3>1. b[n] \in Seq(0..size)
      BY <1>2, <2>1
    <3>2. seqs[n + 1] \in Seq(0..size)
      BY <2>1
    <3> QED
      BY <1>0, <3>1, <3>2
  <2>3. b[n + 1] = b[n] \o seqs[n + 1]
    BY <1>2, <2>1
  <2>4. SumOf(b[n + 1]) = SumOf(b[n]) + SumOf(seqs[n + 1])
    BY <2>2, <2>3, SumOfBoth
  <2>5. a[n + 1] = a[n] + s[n + 1]
    BY <1>1, <2>1
  <2>6. SumOf(b[n]) = a[n] /\ SumOf(seqs[n + 1]) = s[n + 1]
    BY <1>4, <2>1
  <2> QED
    BY <2>1, <2>4, <2>5, <2>6
<1>5. \A n \in 0..N : n \in T
  <2> HIDE DEF T, N
  <2> QED
    BY <1>0, <1>3, <1>4, CountingUp
<1>6. SumOf(b[N]) = a[N]
  BY <1>0, <1>5
<1>7. b[N] \in Seq(0..size)
  BY <1>0, <1>2
<1> QED
  BY <1>1, <1>2, <1>6, <1>7

\* The pieces are no longer than a chunk, and together what the paragraphs are.
LEMMA PiecesSum ==
    ASSUME NEW paragraphs \in Seq(Nat), NEW size \in Nat \ {0}
    PROVE  Pieces(paragraphs, size) \in Seq(0..size) /\ SumOf(Pieces(paragraphs, size)) = SumOf(paragraphs)
<1> DEFINE parts == [i \in DOMAIN paragraphs |->
                        IF paragraphs[i] <= size THEN <<paragraphs[i]>> ELSE HardSplit(paragraphs[i], size)]
<1>1. ASSUME NEW i \in 1..Len(paragraphs)
      PROVE  parts[i] \in Seq(0..size) /\ SumOf(parts[i]) = paragraphs[i]
  <2>1. paragraphs[i] \in Nat
    OBVIOUS
  <2>2. parts[i] = IF paragraphs[i] <= size THEN <<paragraphs[i]>> ELSE HardSplit(paragraphs[i], size)
    OBVIOUS
  <2> HIDE DEF parts
  <2>3. CASE paragraphs[i] <= size
    <3>1. <<paragraphs[i]>> \in Seq(0..size)
      BY <2>1, <2>3
    <3> QED
      BY <2>1, <2>2, <2>3, <3>1, SumOfLittle
  <2>4. CASE ~(paragraphs[i] <= size)
    BY <2>1, <2>2, <2>4, HardSplitSums
  <2> QED
    BY <2>3, <2>4
<1>2. parts \in Seq(Seq(0..size)) /\ Len(parts) = Len(paragraphs)
  <2>1. DOMAIN parts = 1..Len(paragraphs) /\ Len(paragraphs) \in Nat
    OBVIOUS
  <2>2. parts \in [1..Len(paragraphs) -> Seq(0..size)]
    <3>1. parts = [i \in 1..Len(paragraphs) |-> parts[i]]
      OBVIOUS
    <3> HIDE DEF parts
    <3> QED
      BY <1>1, <3>1
  <2> HIDE DEF parts
  <2> QED
    BY <2>1, <2>2
<1>3. Pieces(paragraphs, size) = FlattenSeq(parts)
  BY DEF Pieces
<1>4. size \in Nat
  OBVIOUS
<1> HIDE DEF parts
<1> QED
  BY <1>1, <1>2, <1>3, <1>4, SumOfFlat

\* "Pack whole paragraphs into chunks of at most size chars" (_chunks): nothing is lost,
\* whatever the lengths of the paragraphs.
LEMMA ChunksAreFit ==
    ASSUME NEW paragraphs \in Seq(Nat), NEW size \in Nat \ {0}
    PROVE  ChunksFit(paragraphs, size)
<1> DEFINE pieces == Pieces(paragraphs, size)
           packed == Packed(pieces, size)[Len(pieces)]
           chunks == Chunks(paragraphs, size)
<1>1. pieces \in Seq(0..size) /\ SumOf(pieces) = SumOf(paragraphs)
  BY PiecesSum
<1>2. IsPacked(packed, pieces, size)
  <2> HIDE DEF pieces
  <2> QED
    BY <1>1, PackedFits
<1>3. chunks = IF packed.current = <<>> THEN packed.done ELSE Append(packed.done, packed.current)
  BY DEF Chunks
<1> HIDE DEF pieces, packed, chunks
<1>4. /\ packed.done \in Seq(Seq(Nat)) /\ packed.current \in Seq(Nat)
      /\ FlattenSeq(packed.done) \o packed.current = pieces
      /\ \A i \in DOMAIN packed.done : packed.done[i] # <<>> /\ Joined(packed.done[i]) <= size
      /\ packed.current # <<>> => Joined(packed.current) <= size
  BY <1>2 DEF IsPacked, PackStates
<1>5. FlattenSeq(packed.done) \in Seq(Nat)
  BY <1>4, FlattenMore
<1>6. FlattenSeq(chunks) = pieces /\ \A i \in DOMAIN chunks : chunks[i] # <<>> /\ Joined(chunks[i]) <= size
  <2>1. CASE packed.current = <<>>
    <3>1. \A x \in Seq(Nat) : x \o <<>> = x
      OBVIOUS
    <3> QED
      BY <1>3, <1>4, <1>5, <2>1, <3>1
  <2>2. CASE packed.current # <<>>
    <3>1. FlattenSeq(chunks) = pieces
      BY <1>3, <1>4, <2>2, FlattenMore
    <3>2. ASSUME NEW i \in DOMAIN chunks PROVE chunks[i] # <<>> /\ Joined(chunks[i]) <= size
      <4>1. chunks = Append(packed.done, packed.current)
        BY <1>3, <2>2
      <4>2. /\ DOMAIN chunks = 1..(Len(packed.done) + 1) /\ DOMAIN packed.done = 1..Len(packed.done)
            /\ Len(packed.done) \in Nat /\ chunks[Len(packed.done) + 1] = packed.current
            /\ \A j \in 1..Len(packed.done) : chunks[j] = packed.done[j]
        BY <1>4, <4>1
      <4>3. i \in 1..Len(packed.done) \/ i = Len(packed.done) + 1
        BY <4>2
      <4> QED
        BY <1>4, <2>2, <4>2, <4>3
    <3> QED
      BY <3>1, <3>2
  <2> QED
    BY <2>1, <2>2
<1> QED
  BY <1>1, <1>6 DEF ChunksFit, pieces, chunks

-----------------------------------------------------------------------------
(* The choice of headlines *)

\* The number of values a function takes.
LEMMA ImageIsFinite ==
    ASSUME NEW S, IsFiniteSet(S), NEW f, DOMAIN f = S
    PROVE  /\ IsFiniteSet({f[x] : x \in S}) /\ Cardinality({f[x] : x \in S}) <= Cardinality(S)
           /\ (\A x, y \in S : f[x] = f[y] => x = y) => Cardinality({f[x] : x \in S}) = Cardinality(S)
<1> DEFINE T == {f[x] : x \in S}
           g == [x \in S |-> f[x]]
<1>1. g \in Surjection(S, T)
  BY DEF Surjection
<1>2. (\A x, y \in S : f[x] = f[y] => x = y) => g \in Injection(S, T)
  BY DEF Injection, IsInjective
<1> HIDE DEF g
<1>3. /\ IsFiniteSet(T) /\ Cardinality(T) <= Cardinality(S)
      /\ Cardinality(T) = Cardinality(S) <=> g \in Injection(S, T)
  <2> HIDE DEF T
  <2> QED
    BY <1>1, FS_Surjection
<1> QED
  BY <1>2, <1>3

\* The rows selected so far, each once.
IsSelection(seq) ==
    seq \in Seq(Nat) /\ IsFiniteSet(ToSet(seq)) /\ Cardinality(ToSet(seq)) = Len(seq)

\* One more row is selected.
LEMMA SelectMore ==
    ASSUME NEW seq, IsSelection(seq), NEW n \in Nat, n \notin ToSet(seq)
    PROVE  /\ IsSelection(Append(seq, n)) /\ ToSet(Append(seq, n)) = ToSet(seq) \cup {n}
           /\ Len(Append(seq, n)) = Len(seq) + 1
<1>1. seq \in Seq(Nat) /\ IsFiniteSet(ToSet(seq)) /\ Cardinality(ToSet(seq)) = Len(seq)
  BY DEF IsSelection
<1>2. /\ Append(seq, n) \in Seq(Nat) /\ Len(Append(seq, n)) = Len(seq) + 1
      /\ DOMAIN Append(seq, n) = 1..(Len(seq) + 1) /\ DOMAIN seq = 1..Len(seq) /\ Len(seq) \in Nat
      /\ Append(seq, n)[Len(seq) + 1] = n
      /\ \A i \in 1..Len(seq) : Append(seq, n)[i] = seq[i]
  BY <1>1
<1>3. ToSet(Append(seq, n)) = ToSet(seq) \cup {n}
  <2> DEFINE m == Append(seq, n)
  <2>1. /\ DOMAIN m = 1..(Len(seq) + 1) /\ m[Len(seq) + 1] = n
        /\ \A i \in 1..Len(seq) : m[i] = seq[i]
    BY <1>2
  <2> HIDE DEF m
  <2>2. \A i \in 1..(Len(seq) + 1) : i \in 1..Len(seq) \/ i = Len(seq) + 1
    BY <1>2
  <2>3. \A i \in 1..Len(seq) : i \in 1..(Len(seq) + 1)
    BY <1>2
  <2>4. Len(seq) + 1 \in 1..(Len(seq) + 1)
    BY <1>2
  <2>5. ToSet(m) \subseteq ToSet(seq) \cup {n}
    BY <1>2, <2>1, <2>2 DEF ToSet
  <2>6. ToSet(seq) \cup {n} \subseteq ToSet(m)
    BY <1>2, <2>1, <2>3, <2>4 DEF ToSet
  <2> QED
    BY <2>5, <2>6 DEF m
<1>4. IsFiniteSet(ToSet(seq) \cup {n}) /\ Cardinality(ToSet(seq) \cup {n}) = Cardinality(ToSet(seq)) + 1
  BY <1>1, FS_AddElement
<1> QED
  BY <1>1, <1>2, <1>3, <1>4 DEF IsSelection

\* The first pass, after each row, satisfies the recursion that defines it.
LEMMA FirstRuns ==
    ASSUME NEW C, NEW rows \in Seq(C), NEW limit \in Nat
    PROVE  /\ FirstPass(rows, limit)[0] = <<>>
           /\ \A n \in 1..Len(rows) :
                 FirstPass(rows, limit)[n] =
                    IF TakesFirst(rows, limit, FirstPass(rows, limit)[n - 1], n)
                    THEN Append(FirstPass(rows, limit)[n - 1], n) ELSE FirstPass(rows, limit)[n - 1]
<1> DEFINE N == Len(rows)
           S == Seq(Nat)
           Turn(x, n) == IF TakesFirst(rows, limit, x, n) THEN Append(x, n) ELSE x
           Fix(g) == g = [n \in 0..N |-> IF n = 0 THEN <<>> ELSE Turn(g[n - 1], n)]
           f == CHOOSE g : Fix(g)
           step == [p \in (1..N) \X S |-> Turn(p[2], p[1])]
<1>0. N \in Nat /\ <<>> \in S
  OBVIOUS
<1>1. step \in [(1..N) \X S -> S] /\ \A n \in 1..N, x \in S : step[<<n, x>>] = Turn(x, n)
  <2>1. \A n \in 1..N, x \in S : Append(x, n) \in S
    OBVIOUS
  <2>2. \A n \in 1..N, x \in S : Turn(x, n) \in S
    BY <2>1
  <2> HIDE DEF S, N, Turn
  <2> QED
    BY <2>2
<1>2. PICK r \in [0..N -> S] : r[0] = <<>> /\ \A n \in 1..N : r[n] = step[<<n, r[n - 1]>>]
  <2>1. \E r : IsLoop(r, N, S, <<>>, step)
    <3> HIDE DEF step, N, S
    <3> QED
      BY <1>0, <1>1, LoopRuns
  <2> QED
    BY <2>1 DEF IsLoop
<1> HIDE DEF Turn
<1>3. Fix(r)
  <2>1. ASSUME NEW n \in 0..N PROVE r[n] = IF n = 0 THEN <<>> ELSE Turn(r[n - 1], n)
    <3>1. CASE n = 0
      BY <1>2, <3>1
    <3>2. CASE n # 0
      <4>1. n \in 1..N /\ n - 1 \in 0..N
        BY <3>2
      <4> HIDE DEF step, S
      <4>2. r[n - 1] \in S
        BY <1>2, <4>1
      <4>3. r[n] = step[<<n, r[n - 1]>>]
        BY <1>2, <4>1
      <4> QED
        BY <1>1, <3>2, <4>1, <4>2, <4>3
    <3> QED
      BY <3>1, <3>2
  <2>2. r = [n \in 0..N |-> r[n]]
    BY <1>2
  <2> HIDE DEF S
  <2> QED
    BY <2>1, <2>2
<1>4. Fix(f)
  <2> HIDE DEF Fix
  <2> QED
    BY <1>3
<1>5. FirstPass(rows, limit) = f
  BY DEF FirstPass, Turn
<1> HIDE DEF f
<1>6. \A n \in 0..N : f[n] = IF n = 0 THEN <<>> ELSE Turn(f[n - 1], n)
  BY <1>4
<1>7. f[0] = <<>>
  BY <1>0, <1>6
<1>8. \A n \in 1..N : f[n] = Turn(f[n - 1], n)
  <2> TAKE n \in 1..N
  <2>1. n \in 0..N /\ n # 0
    OBVIOUS
  <2> QED
    BY <1>6, <2>1
<1> QED
  BY <1>5, <1>7, <1>8 DEF Turn

\* So does the second, which begins where the first ended.
LEMMA SecondRuns ==
    ASSUME NEW C, NEW rows \in Seq(C), NEW limit \in Nat, FirstPass(rows, limit)[Len(rows)] \in Seq(Nat)
    PROVE  /\ SecondPass(rows, limit)[0] = FirstPass(rows, limit)[Len(rows)]
           /\ \A n \in 1..Len(rows) :
                 SecondPass(rows, limit)[n] =
                    IF Len(SecondPass(rows, limit)[n - 1]) < limit /\ ~Contains(SecondPass(rows, limit)[n - 1], n)
                    THEN Append(SecondPass(rows, limit)[n - 1], n) ELSE SecondPass(rows, limit)[n - 1]
<1> DEFINE N == Len(rows)
           S == Seq(Nat)
           first == FirstPass(rows, limit)[Len(rows)]
           Turn(x, n) == IF Len(x) < limit /\ ~Contains(x, n) THEN Append(x, n) ELSE x
           Fix(g) == g = [n \in 0..N |-> IF n = 0 THEN first ELSE Turn(g[n - 1], n)]
           f == CHOOSE g : Fix(g)
           step == [p \in (1..N) \X S |-> Turn(p[2], p[1])]
<1>0. N \in Nat /\ first \in S
  OBVIOUS
<1>1. step \in [(1..N) \X S -> S] /\ \A n \in 1..N, x \in S : step[<<n, x>>] = Turn(x, n)
  <2>1. \A n \in 1..N, x \in S : Append(x, n) \in S
    OBVIOUS
  <2>2. \A n \in 1..N, x \in S : Turn(x, n) \in S
    BY <2>1
  <2> HIDE DEF S, N, Turn
  <2> QED
    BY <2>2
<1>2. PICK r \in [0..N -> S] : r[0] = first /\ \A n \in 1..N : r[n] = step[<<n, r[n - 1]>>]
  <2>1. \E r : IsLoop(r, N, S, first, step)
    <3> HIDE DEF step, N, S, first
    <3> QED
      BY <1>0, <1>1, LoopRuns
  <2> QED
    BY <2>1 DEF IsLoop
<1> HIDE DEF Turn, first
<1>3. Fix(r)
  <2>1. ASSUME NEW n \in 0..N PROVE r[n] = IF n = 0 THEN first ELSE Turn(r[n - 1], n)
    <3>1. CASE n = 0
      BY <1>2, <3>1
    <3>2. CASE n # 0
      <4>1. n \in 1..N /\ n - 1 \in 0..N
        BY <3>2
      <4> HIDE DEF step, S
      <4>2. r[n - 1] \in S
        BY <1>2, <4>1
      <4>3. r[n] = step[<<n, r[n - 1]>>]
        BY <1>2, <4>1
      <4> QED
        BY <1>1, <3>2, <4>1, <4>2, <4>3
    <3> QED
      BY <3>1, <3>2
  <2>2. r = [n \in 0..N |-> r[n]]
    BY <1>2
  <2> HIDE DEF S
  <2> QED
    BY <2>1, <2>2
<1>4. Fix(f)
  <2> HIDE DEF Fix
  <2> QED
    BY <1>3
<1>5. SecondPass(rows, limit) = f
  BY DEF SecondPass, Turn, first
<1> HIDE DEF f
<1>6. \A n \in 0..N : f[n] = IF n = 0 THEN first ELSE Turn(f[n - 1], n)
  BY <1>4
<1>7. f[0] = first
  BY <1>0, <1>6
<1>8. \A n \in 1..N : f[n] = Turn(f[n - 1], n)
  <2> TAKE n \in 1..N
  <2>1. n \in 0..N /\ n # 0
    OBVIOUS
  <2> QED
    BY <1>6, <2>1
<1> QED
  BY <1>5, <1>7, <1>8 DEF Turn, first

\* The best row of its kind.
IsBest(rows, i) == \A j \in 1..(i - 1) : rows[j] # rows[i]

\* Of every kind there is a best row.
LEMMA BestOfKind ==
    ASSUME NEW rows, NEW i \in Nat \ {0}
    PROVE  \E k \in 1..i : IsBest(rows, k) /\ rows[k] = rows[i]
<1> DEFINE T == {k \in 1..i : rows[k] = rows[i]}
<1>1. T \in SUBSET Nat /\ i \in T
  OBVIOUS
<1>2. PICK k \in T : \A j \in T : k <= j
  <2> HIDE DEF T
  <2> QED
    BY <1>1, LeastOf
<1>3. k \in 1..i /\ rows[k] = rows[i]
  BY <1>2
<1>4. ASSUME NEW j \in 1..(k - 1), rows[j] = rows[k] PROVE FALSE
  <2>1. j \in T
    BY <1>3, <1>4
  <2>2. k <= j
    BY <1>2, <2>1
  <2> QED
    BY <1>3, <2>2
<1> QED
  BY <1>3, <1>4 DEF IsBest

\* What the first pass has after n rows that are too many.
IsDiverse(seq, rows, limit, n) ==
    /\ IsSelection(seq) /\ Len(seq) <= limit
    /\ \A i \in ToSet(seq) : i \in 1..n /\ IsBest(rows, i)
    /\ Len(seq) < limit => \A i \in 1..n : IsBest(rows, i) => i \in ToSet(seq)
    /\ \A i \in ToSet(seq), j \in 1..n : j < i /\ IsBest(rows, j) => j \in ToSet(seq)

\* The first pass takes the best of each kind, in their order, as many as it may.
LEMMA FirstPassIsDiverse ==
    ASSUME NEW C, NEW rows \in Seq(C), NEW limit \in Nat, limit < Len(rows)
    PROVE  IsDiverse(FirstPass(rows, limit)[Len(rows)], rows, limit, Len(rows))
<1> DEFINE N == Len(rows)
           f == FirstPass(rows, limit)
           T == {n \in 0..N : IsDiverse(f[n], rows, limit, n)}
<1>0. N \in Nat /\ N \in 0..N /\ ~(N <= limit)
  OBVIOUS
<1>1. f[0] = <<>> /\ \A n \in 1..N : f[n] = IF TakesFirst(rows, limit, f[n - 1], n) THEN Append(f[n - 1], n) ELSE f[n - 1]
  BY FirstRuns
<1> HIDE DEF f
<1>2. 0 \in T
  <2>1. ToSet(<<>>) = {} /\ Len(<<>>) = 0 /\ <<>> \in Seq(Nat)
    BY DEF ToSet
  <2>2. IsSelection(<<>>)
    BY <2>1, FS_EmptySet DEF IsSelection
  <2>3. IsDiverse(<<>>, rows, limit, 0)
    BY <2>1, <2>2 DEF IsDiverse
  <2> QED
    BY <1>0, <1>1, <2>3
<1>3. ASSUME NEW n \in 0..(N - 1), n \in T PROVE n + 1 \in T
  <2> DEFINE s == f[n]
             m == n + 1
  <2>1. m \in 1..N /\ m \in 0..N /\ m - 1 = n /\ m \in Nat /\ n \in Nat
    BY <1>0
  <2>2. f[m] = IF TakesFirst(rows, limit, s, m) THEN Append(s, m) ELSE s
    BY <1>1, <2>1
  <2>3. /\ IsSelection(s) /\ Len(s) <= limit /\ Len(s) \in Nat
        /\ \A i \in ToSet(s) : i \in 1..n /\ IsBest(rows, i)
        /\ Len(s) < limit => \A i \in 1..n : IsBest(rows, i) => i \in ToSet(s)
        /\ \A i \in ToSet(s), j \in 1..n : j < i /\ IsBest(rows, j) => j \in ToSet(s)
    <3>1. IsDiverse(s, rows, limit, n)
      BY <1>3
    <3>2. IsSelection(s)
      BY <3>1 DEF IsDiverse
    <3>3. Len(s) \in Nat
      BY <3>2 DEF IsSelection
    <3> QED
      BY <3>1, <3>3 DEF IsDiverse
  <2> HIDE DEF s
  <2>4. \A i \in 1..m : i \in 1..n \/ i = m
    BY <2>1
  <2>5. \A i \in 1..n : i \in 1..m /\ i < m /\ i \in 1..(m - 1)
    BY <2>1
  <2>6. TakesFirst(rows, limit, s, m) <=> Len(s) < limit /\ \A j \in ToSet(s) : rows[j] # rows[m]
    BY <1>0 DEF TakesFirst
  <2> HIDE DEF m
  <2>7. Len(s) < limit => (IsBest(rows, m) <=> \A j \in ToSet(s) : rows[j] # rows[m])
    <3> HAVE Len(s) < limit
    <3>1. ASSUME IsBest(rows, m) PROVE \A j \in ToSet(s) : rows[j] # rows[m]
      BY <2>3, <2>5, <3>1 DEF IsBest
    <3>2. ASSUME \A j \in ToSet(s) : rows[j] # rows[m] PROVE IsBest(rows, m)
      <4>1. PICK k \in 1..m : IsBest(rows, k) /\ rows[k] = rows[m]
        BY <2>1, BestOfKind
      <4>2. k \in 1..n => k \in ToSet(s)
        BY <2>3, <4>1
      <4>3. k = m
        BY <2>4, <3>2, <4>1, <4>2
      <4> QED
        BY <4>1, <4>3
    <3> QED
      BY <3>1, <3>2
  <2>8. CASE TakesFirst(rows, limit, s, m)
    <3>1. m \notin ToSet(s)
      BY <2>1, <2>3
    <3>2. /\ IsSelection(f[m]) /\ ToSet(f[m]) = ToSet(s) \cup {m} /\ Len(f[m]) = Len(s) + 1
      BY <2>1, <2>2, <2>3, <2>8, <3>1, SelectMore
    <3>3. Len(s) < limit /\ IsBest(rows, m)
      BY <2>6, <2>7, <2>8
    <3>4. Len(f[m]) <= limit
      BY <2>3, <3>2, <3>3
    <3>5. \A i \in ToSet(f[m]) : i \in 1..m /\ IsBest(rows, i)
      BY <2>1, <2>3, <2>5, <3>2, <3>3
    <3>6. \A i \in 1..m : IsBest(rows, i) => i \in ToSet(f[m])
      BY <2>3, <2>4, <3>2, <3>3
    <3> QED
      BY <2>1, <3>2, <3>4, <3>5, <3>6 DEF IsDiverse, m
  <2>9. CASE ~TakesFirst(rows, limit, s, m)
    <3>1. f[m] = s
      BY <2>2, <2>9
    <3>2. \A i \in ToSet(s) : i \in 1..m /\ IsBest(rows, i)
      BY <2>3, <2>5
    <3>3. Len(s) < limit => ~IsBest(rows, m)
      BY <2>6, <2>7, <2>9
    <3>4. Len(s) < limit => \A i \in 1..m : IsBest(rows, i) => i \in ToSet(s)
      BY <2>3, <2>4, <3>3
    <3>5. ASSUME NEW i \in ToSet(s), NEW j \in 1..m, j < i, IsBest(rows, j) PROVE j \in ToSet(s)
      <4>1. i \in 1..n
        BY <2>3
      <4>2. j \in 1..n
        BY <2>1, <3>5, <4>1
      <4> QED
        BY <2>3, <3>5, <4>2
    <3> QED
      BY <2>1, <2>3, <3>1, <3>2, <3>4, <3>5 DEF IsDiverse, m
  <2> QED
    BY <2>8, <2>9
<1>4. \A n \in 0..N : n \in T
  <2> HIDE DEF T, N
  <2> QED
    BY <1>0, <1>2, <1>3, CountingUp
<1> QED
  BY <1>0, <1>4 DEF f

\* If they are not too many, it takes all.
LEMMA FirstPassTakesAll ==
    ASSUME NEW C, NEW rows \in Seq(C), NEW limit \in Nat, Len(rows) <= limit
    PROVE  /\ IsSelection(FirstPass(rows, limit)[Len(rows)])
           /\ ToSet(FirstPass(rows, limit)[Len(rows)]) = 1..Len(rows)
           /\ Len(FirstPass(rows, limit)[Len(rows)]) = Len(rows)
<1> DEFINE N == Len(rows)
           f == FirstPass(rows, limit)
           T == {n \in 0..N : IsSelection(f[n]) /\ ToSet(f[n]) = 1..n /\ Len(f[n]) = n}
<1>0. N \in Nat /\ N \in 0..N /\ N <= limit
  OBVIOUS
<1>1. f[0] = <<>> /\ \A n \in 1..N : f[n] = IF TakesFirst(rows, limit, f[n - 1], n) THEN Append(f[n - 1], n) ELSE f[n - 1]
  BY FirstRuns
<1> HIDE DEF f
<1>2. 0 \in T
  <2>1. ToSet(<<>>) = {} /\ Len(<<>>) = 0 /\ <<>> \in Seq(Nat) /\ 1..0 = {}
    BY DEF ToSet
  <2>2. IsSelection(<<>>)
    BY <2>1, FS_EmptySet DEF IsSelection
  <2> QED
    BY <1>0, <1>1, <2>1, <2>2
<1>3. ASSUME NEW n \in 0..(N - 1), n \in T PROVE n + 1 \in T
  <2>1. n + 1 \in 1..N /\ n + 1 \in 0..N /\ (n + 1) - 1 = n /\ n + 1 \in Nat /\ n + 1 \notin 1..n /\ n < limit
    BY <1>0
  <2>2. IsSelection(f[n]) /\ ToSet(f[n]) = 1..n /\ Len(f[n]) = n
    BY <1>3
  <2>3. TakesFirst(rows, limit, f[n], n + 1)
    BY <1>0, <2>1, <2>2 DEF TakesFirst
  <2>4. f[n + 1] = Append(f[n], n + 1)
    BY <1>1, <2>1, <2>3
  <2>5. IsSelection(f[n + 1]) /\ ToSet(f[n + 1]) = (1..n) \cup {n + 1} /\ Len(f[n + 1]) = n + 1
    BY <2>1, <2>2, <2>4, SelectMore
  <2>6. (1..n) \cup {n + 1} = 1..(n + 1)
    BY <2>1
  <2> QED
    BY <2>1, <2>5, <2>6
<1>4. \A n \in 0..N : n \in T
  <2> HIDE DEF T, N
  <2> QED
    BY <1>0, <1>2, <1>3, CountingUp
<1> QED
  BY <1>0, <1>4 DEF f

\* The second pass fills up with the rows that come first.
IsFilled(seq, first, limit, n) ==
    /\ IsSelection(seq) /\ Len(seq) <= limit
    /\ ToSet(first) \subseteq ToSet(seq) /\ \A i \in ToSet(seq) : i \in ToSet(first) \/ i \in 1..n
    /\ Len(seq) < limit => 1..n \subseteq ToSet(seq)
    /\ \A i \in ToSet(seq) \ ToSet(first) : \A j \in 1..n : j < i => j \in ToSet(seq)

\* It does so whatever the first has taken.
LEMMA SecondPassFills ==
    ASSUME NEW C, NEW rows \in Seq(C), NEW limit \in Nat,
           IsSelection(FirstPass(rows, limit)[Len(rows)]), Len(FirstPass(rows, limit)[Len(rows)]) <= limit
    PROVE  IsFilled(SelectDiverse(rows, limit), FirstPass(rows, limit)[Len(rows)], limit, Len(rows))
<1> DEFINE N == Len(rows)
           first == FirstPass(rows, limit)[Len(rows)]
           f == SecondPass(rows, limit)
           T == {n \in 0..N : IsFilled(f[n], first, limit, n)}
<1>0. N \in Nat /\ N \in 0..N /\ first \in Seq(Nat) /\ IsSelection(first) /\ Len(first) <= limit
  BY DEF IsSelection
<1>1. /\ f[0] = first
      /\ \A n \in 1..N : f[n] = IF Len(f[n - 1]) < limit /\ ~Contains(f[n - 1], n) THEN Append(f[n - 1], n) ELSE f[n - 1]
  BY <1>0, SecondRuns
<1> HIDE DEF f, first
<1>2. 0 \in T
  <2>1. IsFilled(first, first, limit, 0)
    BY <1>0 DEF IsFilled
  <2> QED
    BY <1>0, <1>1, <2>1
<1>3. ASSUME NEW n \in 0..(N - 1), n \in T PROVE n + 1 \in T
  <2> DEFINE s == f[n]
             m == n + 1
  <2>1. m \in 1..N /\ m \in 0..N /\ m - 1 = n /\ m \in Nat /\ n \in Nat
    BY <1>0
  <2>2. f[m] = IF Len(s) < limit /\ ~Contains(s, m) THEN Append(s, m) ELSE s
    BY <1>1, <2>1
  <2>3. /\ IsSelection(s) /\ Len(s) <= limit
        /\ ToSet(first) \subseteq ToSet(s) /\ \A i \in ToSet(s) : i \in ToSet(first) \/ i \in 1..n
        /\ Len(s) < limit => 1..n \subseteq ToSet(s)
        /\ \A i \in ToSet(s) \ ToSet(first) : \A j \in 1..n : j < i => j \in ToSet(s)
    BY <1>3 DEF IsFilled
  <2> HIDE DEF s
  <2>4. Len(s) \in Nat /\ (Contains(s, m) <=> m \in ToSet(s))
    <3>1. s \in Seq(Nat)
      BY <2>3 DEF IsSelection
    <3>2. Len(s) \in Nat /\ DOMAIN s = 1..Len(s)
      BY <3>1
    <3> QED
      BY <3>2 DEF Contains, ToSet
  <2>5. \A i \in 1..m : i \in 1..n \/ i = m
    BY <2>1
  <2>6. \A i \in 1..n : i \in 1..m /\ i < m /\ ~(m < i)
    BY <2>1
  <2> HIDE DEF m
  <2>7. CASE Len(s) < limit /\ ~Contains(s, m)
    <3>1. IsSelection(f[m]) /\ ToSet(f[m]) = ToSet(s) \cup {m} /\ Len(f[m]) = Len(s) + 1
      BY <2>1, <2>2, <2>3, <2>4, <2>7, SelectMore
    <3>2. Len(f[m]) <= limit
      BY <2>4, <2>7, <3>1
    <3>3. 1..m \subseteq ToSet(f[m])
      BY <2>3, <2>5, <2>7, <3>1
    <3>4. ToSet(first) \subseteq ToSet(f[m]) /\ \A i \in ToSet(f[m]) : i \in ToSet(first) \/ i \in 1..m
      BY <2>1, <2>3, <2>6, <3>1
    <3> QED
      BY <2>1, <3>1, <3>2, <3>3, <3>4 DEF IsFilled, m
  <2>8. CASE ~(Len(s) < limit /\ ~Contains(s, m))
    <3>1. f[m] = s
      BY <2>2, <2>8
    <3>2. Len(s) < limit => 1..m \subseteq ToSet(s)
      BY <2>3, <2>4, <2>5, <2>8
    <3>3. \A i \in ToSet(s) : i \in ToSet(first) \/ i \in 1..m
      BY <2>3, <2>6
    <3>4. ASSUME NEW i \in ToSet(s) \ ToSet(first), NEW j \in 1..m, j < i PROVE j \in ToSet(s)
      <4>1. i \in 1..n
        BY <2>3
      <4>2. j # m
        BY <2>6, <3>4, <4>1
      <4> QED
        BY <2>3, <2>5, <3>4, <4>2
    <3> QED
      BY <2>1, <2>3, <3>1, <3>2, <3>3, <3>4 DEF IsFilled, m
  <2> QED
    BY <2>7, <2>8
<1>4. \A n \in 0..N : n \in T
  <2> HIDE DEF T, N
  <2> QED
    BY <1>0, <1>2, <1>3, CountingUp
<1>5. IsFilled(f[N], first, limit, N)
  BY <1>0, <1>4
<1> QED
  BY <1>5 DEF f, first, SelectDiverse

\* "Prefer the highest-scoring items while covering distinct event categories"
\* (_select_diverse), whatever the categories, the number of rows and the limit.
LEMMA SelectionsAreDiverse ==
    ASSUME NEW C, NEW rows \in Seq(C), NEW limit \in Nat
    PROVE  SelectionIsDiverse(rows, limit)
<1> DEFINE N == Len(rows)
           first == FirstPass(rows, limit)[Len(rows)]
           seq == SelectDiverse(rows, limit)
           D == ToSet(first)
           F == ToSet(seq)
           Kinds(S) == {rows[i] : i \in S}
           all == 1..N
           least(a, b) == IF a < b THEN a ELSE b
<1>0. N \in Nat /\ DOMAIN rows = all /\ \A i \in all : i \in Nat \ {0} /\ \A k \in 1..i : k \in all
  OBVIOUS
<1>1. IsSelection(first) /\ Len(first) <= limit
  <2>1. CASE N <= limit
    BY <2>1, FirstPassTakesAll
  <2>2. CASE ~(N <= limit)
    <3>1. limit < N
      BY <1>0, <2>2
    <3>2. IsDiverse(first, rows, limit, N)
      BY <3>1, FirstPassIsDiverse
    <3> QED
      BY <3>2 DEF IsDiverse
  <2> QED
    BY <2>1, <2>2
<1>2. /\ IsSelection(seq) /\ Len(seq) <= limit
      /\ D \subseteq F /\ \A i \in F : i \in D \/ i \in all
      /\ Len(seq) < limit => all \subseteq F
      /\ \A i \in F \ D : \A j \in all : j < i => j \in F
  <2>1. IsFilled(seq, first, limit, N)
    BY <1>1, SecondPassFills
  <2> QED
    BY <2>1 DEF IsFilled
<1>3. N <= limit => D = all /\ Len(first) = N
  BY FirstPassTakesAll
<1>4. limit < N => /\ \A i \in D : i \in all /\ IsBest(rows, i)
                   /\ Len(first) < limit => \A i \in all : IsBest(rows, i) => i \in D
                   /\ \A i \in D, j \in all : j < i /\ IsBest(rows, j) => j \in D
  <2> HAVE limit < N
  <2>1. IsDiverse(first, rows, limit, N)
    BY FirstPassIsDiverse
  <2> QED
    BY <2>1 DEF IsDiverse
<1>5. /\ IsFiniteSet(D) /\ Cardinality(D) = Len(first) /\ Len(first) \in Nat
      /\ IsFiniteSet(F) /\ Cardinality(F) = Len(seq) /\ Len(seq) \in Nat
  <2>1. first \in Seq(Nat) /\ seq \in Seq(Nat)
    BY <1>1, <1>2 DEF IsSelection
  <2>2. Len(first) \in Nat /\ Len(seq) \in Nat
    BY <2>1
  <2> QED
    BY <1>1, <1>2, <2>2 DEF IsSelection
<1>6. IsFiniteSet(all) /\ Cardinality(all) = N
  <2> HIDE DEF N
  <2>1. 1 \in Int /\ N \in Int
    BY <1>0
  <2>2. IsFiniteSet(1..N) /\ Cardinality(1..N) = IF 1 > N THEN 0 ELSE N - 1 + 1
    BY <2>1, FS_Interval
  <2> QED
    BY <1>0, <2>2
<1> HIDE DEF first, seq, D, F, all, N
<1>7. N \in Nat /\ (N <= limit \/ limit < N)
  BY <1>0
<1>8. F \subseteq all
  BY <1>2, <1>3, <1>4, <1>7
<1>9. Len(seq) <= N
  BY <1>5, <1>6, <1>8, FS_Subset
<1>10. Len(seq) < limit => Len(seq) = N
  <2> HAVE Len(seq) < limit
  <2>1. F = all
    BY <1>2, <1>8
  <2> QED
    BY <1>5, <1>6, <2>1
<1>11. Len(seq) = least(N, limit)
  BY <1>2, <1>5, <1>7, <1>9, <1>10
<1>12. ToSet(rows) = Kinds(all)
  BY <1>0 DEF ToSet
<1>13. Cardinality(Kinds(F)) = least(Cardinality(ToSet(rows)), limit)
  <2>1. IsFiniteSet(Kinds(all)) /\ Cardinality(Kinds(all)) <= N
    <3> DEFINE g == [i \in all |-> rows[i]]
    <3>1. DOMAIN g = all /\ Kinds(all) = {g[x] : x \in all}
      OBVIOUS
    <3> HIDE DEF g, Kinds
    <3> QED
      BY <1>6, <3>1, ImageIsFinite
  <2>2. Cardinality(Kinds(all)) \in Nat
    BY <2>1, FS_CardinalityType
  <2>3. CASE N <= limit
    <3>1. F = all
      BY <1>2, <1>3, <1>8, <2>3
    <3> QED
      BY <1>7, <1>12, <2>1, <2>2, <2>3, <3>1
  <2>4. CASE limit < N
    <3>1. \A i, j \in D : rows[i] = rows[j] => i = j
      <4> SUFFICES ASSUME NEW i \in D, NEW j \in D, rows[i] = rows[j], i # j PROVE FALSE
        OBVIOUS
      <4>1. i \in Nat \ {0} /\ j \in Nat \ {0} /\ IsBest(rows, i) /\ IsBest(rows, j)
        BY <1>0, <1>4, <2>4
      <4>2. i \in 1..(j - 1) \/ j \in 1..(i - 1)
        BY <4>1
      <4> QED
        BY <4>1, <4>2 DEF IsBest
    <3>2. IsFiniteSet(Kinds(D)) /\ Cardinality(Kinds(D)) = Len(first)
      <4> DEFINE g == [i \in D |-> rows[i]]
      <4>1. DOMAIN g = D /\ Kinds(D) = {g[x] : x \in D} /\ \A i, j \in D : g[i] = g[j] => i = j
        BY <3>1
      <4> HIDE DEF g, Kinds
      <4> QED
        BY <1>5, <4>1, ImageIsFinite
    <3>3. Kinds(D) \subseteq Kinds(F) /\ Kinds(F) \subseteq Kinds(all) /\ Kinds(D) \subseteq Kinds(all)
      BY <1>2, <1>8
    <3>4. CASE Len(first) < limit
      <4>1. Kinds(all) \subseteq Kinds(D)
        <5> SUFFICES ASSUME NEW i \in all PROVE \E k \in D : rows[k] = rows[i]
          OBVIOUS
        <5>1. PICK k \in 1..i : IsBest(rows, k) /\ rows[k] = rows[i]
          BY <1>0, BestOfKind
        <5>2. k \in all
          BY <1>0
        <5> QED
          BY <1>4, <2>4, <3>4, <5>1, <5>2
      <4>2. Kinds(F) = Kinds(D) /\ Kinds(all) = Kinds(D)
        BY <3>3, <4>1
      <4> QED
        BY <1>5, <1>12, <3>2, <3>4, <4>2
    <3>5. CASE ~(Len(first) < limit)
      <4>1. Len(first) = limit /\ Len(seq) <= limit
        BY <1>1, <1>2, <1>5, <3>5
      <4>2. Cardinality(D) <= Cardinality(F)
        BY <1>2, <1>5, FS_Subset
      <4>3. Cardinality(F) = Cardinality(D)
        BY <1>5, <4>1, <4>2
      <4>4. F = D
        BY <1>2, <1>5, <4>3, FS_Subset
      <4>5. Cardinality(Kinds(D)) <= Cardinality(Kinds(all))
        BY <2>1, <3>3, FS_Subset
      <4> QED
        BY <1>12, <2>2, <3>2, <4>1, <4>4, <4>5
    <3> QED
      BY <3>4, <3>5
  <2> QED
    BY <1>7, <2>3, <2>4
<1>14. ASSUME NEW i \in F, NEW j \in 1..(i - 1), j \notin F
       PROVE  IsBest(rows, i) /\ ~IsBest(rows, j)
  <2>1. i \in all /\ j \in all /\ j < i
    <3>1. i \in Nat \ {0} /\ i \in all
      BY <1>0, <1>8
    <3>2. j \in 1..i /\ j < i
      BY <3>1
    <3> QED
      BY <1>0, <3>1, <3>2
  <2>2. i \in D
    BY <1>2, <1>14, <2>1
  <2>3. limit < N
    BY <1>2, <1>3, <1>7, <1>14, <2>1
  <2>4. j \notin D
    BY <1>2, <1>14
  <2> QED
    BY <1>4, <2>1, <2>2, <2>3, <2>4
<1>15. Len(seq) = least(Len(rows), limit) /\ Cardinality(F) = least(Len(rows), limit)
  BY <1>5, <1>11 DEF N
<1>16. \A i \in F : \A j \in 1..(i - 1) : j \notin F => IsBest(rows, i) /\ ~IsBest(rows, j)
  BY <1>14
<1> QED
  BY <1>13, <1>15, <1>16 DEF SelectionIsDiverse, IsBest, seq, F

-----------------------------------------------------------------------------
(* The points of a brief *)

\* What is kept of the first n items: each of them once, where it came first.
IsDeduped(kept, named, n) ==
    /\ IsInjective(kept)
    /\ \A k \in DOMAIN kept : \E p \in 1..n : named[p] = kept[k]
    /\ \A p \in 1..n : Contains(kept, named[p])
    /\ \A k, l \in DOMAIN kept, q \in 1..n :
          k < l /\ named[q] = kept[l] => \E p \in 1..(q - 1) : named[p] = kept[k]

\* One more item is kept unless it is known.
LEMMA DedupeStep ==
    ASSUME NEW P, NEW named \in Seq(P), NEW n \in Nat, n + 1 \in DOMAIN named,
           NEW kept \in Seq(P), IsDeduped(kept, named, n)
    PROVE  IsDeduped(IF Contains(kept, named[n + 1]) THEN kept ELSE Append(kept, named[n + 1]), named, n + 1)
<1> DEFINE m == n + 1
           x == named[n + 1]
           more == Append(kept, x)
           L == Len(kept)
<1>0. /\ IsInjective(kept)
      /\ \A k \in DOMAIN kept : \E p \in 1..n : named[p] = kept[k]
      /\ \A p \in 1..n : Contains(kept, named[p])
      /\ \A k, l \in DOMAIN kept, q \in 1..n :
            k < l /\ named[q] = kept[l] => \E p \in 1..(q - 1) : named[p] = kept[k]
  BY DEF IsDeduped
<1>1. /\ m \in Nat /\ n \in Nat /\ m - 1 = n /\ named[m] = x /\ x \in P
      /\ \A p \in 1..m : p \in 1..n \/ p = m
      /\ \A p \in 1..n : p \in 1..m
      /\ m \in 1..m
  OBVIOUS
<1>2. L \in Nat /\ DOMAIN kept = 1..L
  OBVIOUS
<1>3. /\ DOMAIN more = 1..(L + 1) /\ more[L + 1] = x
      /\ \A k \in 1..L : more[k] = kept[k] /\ k \in 1..(L + 1) /\ ~(L + 1 < k)
      /\ \A k \in 1..(L + 1) : k \in 1..L \/ k = L + 1
      /\ L + 1 \in 1..(L + 1) /\ ~(L + 1 < L + 1) /\ Len(more) = L + 1
  OBVIOUS
<1> HIDE DEF m, x, more, L
<1>4. CASE Contains(kept, x)
  <2>1. \A k \in DOMAIN kept : \E p \in 1..m : named[p] = kept[k]
    BY <1>0, <1>1
  <2>2. \A p \in 1..m : Contains(kept, named[p])
    BY <1>0, <1>1, <1>4
  <2>3. ASSUME NEW k \in DOMAIN kept, NEW l \in DOMAIN kept, NEW q \in 1..m, k < l, named[q] = kept[l]
        PROVE  \E p \in 1..(q - 1) : named[p] = kept[k]
    <3>1. CASE q \in 1..n
      BY <1>0, <2>3, <3>1
    <3>2. CASE q = m
      BY <1>0, <1>1, <3>2
    <3> QED
      BY <1>1, <3>1, <3>2
  <2> QED
    BY <1>0, <1>4, <2>1, <2>2, <2>3 DEF IsDeduped, m, x
<1>5. CASE ~Contains(kept, x)
  <2>1. \A k \in 1..L : kept[k] # x
    BY <1>5 DEF Contains, L
  <2>2. IsInjective(more)
    <3> SUFFICES ASSUME NEW k \in DOMAIN more, NEW l \in DOMAIN more, more[k] = more[l] PROVE k = l
      BY DEF IsInjective
    <3>1. CASE k \in 1..L /\ l \in 1..L
      BY <1>0, <1>2, <1>3, <3>1 DEF IsInjective
    <3>2. CASE ~(k \in 1..L /\ l \in 1..L)
      BY <1>3, <2>1, <3>2
    <3> QED
      BY <3>1, <3>2
  <2>3. \A k \in DOMAIN more : \E p \in 1..m : named[p] = more[k]
    BY <1>0, <1>1, <1>2, <1>3
  <2>4. ASSUME NEW p \in 1..m PROVE Contains(more, named[p])
    <3>1. CASE p \in 1..n
      <4>1. PICK k \in 1..L : kept[k] = named[p]
        BY <1>0, <3>1 DEF Contains, L
      <4> QED
        BY <1>3, <4>1 DEF Contains
    <3>2. CASE p = m
      BY <1>1, <1>3, <3>2 DEF Contains
    <3> QED
      BY <1>1, <3>1, <3>2
  <2>5. ASSUME NEW k \in DOMAIN more, NEW l \in DOMAIN more, NEW q \in 1..m, k < l, named[q] = more[l]
        PROVE  \E p \in 1..(q - 1) : named[p] = more[k]
    <3>1. k \in 1..L /\ more[k] = kept[k]
      BY <1>2, <1>3, <2>5
    <3>2. CASE q = m
      BY <1>0, <1>1, <1>2, <3>1, <3>2
    <3>3. CASE q \in 1..n
      <4>1. CASE l \in 1..L
        BY <1>0, <1>2, <1>3, <2>5, <3>1, <3>3, <4>1
      <4>2. CASE l = L + 1
        <5>1. named[q] = x /\ Contains(kept, named[q])
          BY <1>0, <1>3, <2>5, <3>3, <4>2
        <5> QED
          BY <1>5, <5>1
      <4> QED
        BY <1>3, <4>1, <4>2
    <3> QED
      BY <1>1, <3>2, <3>3
  <2>6. IsDeduped(more, named, m)
    BY <2>2, <2>3, <2>4, <2>5 DEF IsDeduped
  <2> QED
    BY <1>5, <2>6 DEF m, x, more
<1> QED
  BY <1>4, <1>5

\* Deduplication keeps each item once, where it came first (_dedupe).
LEMMA Dedupes ==
    ASSUME NEW P, NEW named \in Seq(P)
    PROVE  Dedupe(named) \in Seq(P) /\ IsDeduped(Dedupe(named), named, Len(named))
<1> DEFINE N == Len(named)
           S == Seq(P)
           Turn(y, n) == IF Contains(y, named[n]) THEN y ELSE Append(y, named[n])
           Fix(g) == g = [n \in 0..N |-> IF n = 0 THEN <<>> ELSE Turn(g[n - 1], n)]
           f == CHOOSE g : Fix(g)
           step == [p \in (1..N) \X S |-> Turn(p[2], p[1])]
<1>0. N \in Nat /\ N \in 0..N /\ <<>> \in S
  OBVIOUS
<1>1. \A n \in 1..N, y \in S : Turn(y, n) \in S
  <2>1. \A n \in 1..N, y \in S : Append(y, named[n]) \in S
    OBVIOUS
  <2> QED
    BY <2>1
<1>2. step \in [(1..N) \X S -> S] /\ \A n \in 1..N, y \in S : step[<<n, y>>] = Turn(y, n)
  <2> HIDE DEF S, N, Turn
  <2> QED
    BY <1>1
<1>3. PICK r \in [0..N -> S] : r[0] = <<>> /\ \A n \in 1..N : r[n] = step[<<n, r[n - 1]>>]
  <2>1. \E r : IsLoop(r, N, S, <<>>, step)
    <3> HIDE DEF step, N, S
    <3> QED
      BY <1>0, <1>2, LoopRuns
  <2> QED
    BY <2>1 DEF IsLoop
<1> HIDE DEF Turn
<1>4. Fix(r)
  <2>1. ASSUME NEW n \in 0..N PROVE r[n] = IF n = 0 THEN <<>> ELSE Turn(r[n - 1], n)
    <3>1. CASE n = 0
      BY <1>3, <3>1
    <3>2. CASE n # 0
      <4>1. n \in 1..N /\ n - 1 \in 0..N
        BY <3>2
      <4> HIDE DEF step, S
      <4>2. r[n - 1] \in S
        BY <1>3, <4>1
      <4>3. r[n] = step[<<n, r[n - 1]>>]
        BY <1>3, <4>1
      <4> QED
        BY <1>2, <3>2, <4>1, <4>2, <4>3
    <3> QED
      BY <3>1, <3>2
  <2>2. r = [n \in 0..N |-> r[n]]
    BY <1>3
  <2> HIDE DEF S
  <2> QED
    BY <2>1, <2>2
<1>5. Fix(f)
  <2> HIDE DEF Fix
  <2> QED
    BY <1>4
<1>6. Dedupe(named) = f[N]
  BY DEF Dedupe, Turn
<1> HIDE DEF f
<1>7. \A n \in 0..N : f[n] = IF n = 0 THEN <<>> ELSE Turn(f[n - 1], n)
  BY <1>5
<1> DEFINE T == {n \in 0..N : f[n] \in S /\ IsDeduped(f[n], named, n)}
<1>8. 0 \in T
  <2>1. f[0] = <<>>
    BY <1>0, <1>7
  <2>2. DOMAIN <<>> = {} /\ 1..0 = {}
    OBVIOUS
  <2>3. IsDeduped(<<>>, named, 0)
    BY <2>2 DEF IsDeduped, IsInjective
  <2> HIDE DEF S
  <2> QED
    BY <1>0, <2>1, <2>3
<1>9. ASSUME NEW n \in 0..(N - 1), n \in T PROVE n + 1 \in T
  <2>1. n + 1 \in 0..N /\ n + 1 \in 1..N /\ n + 1 # 0 /\ (n + 1) - 1 = n /\ n \in Nat /\ n + 1 \in DOMAIN named
    BY <1>0
  <2>2. f[n + 1] = Turn(f[n], n + 1)
    BY <1>7, <2>1
  <2>3. f[n] \in S /\ IsDeduped(f[n], named, n)
    BY <1>9
  <2>4. f[n + 1] \in S
    BY <1>1, <2>1, <2>2, <2>3
  <2>5. IsDeduped(Turn(f[n], n + 1), named, n + 1)
    BY <2>1, <2>3, DedupeStep DEF Turn
  <2> HIDE DEF S
  <2> QED
    BY <2>1, <2>2, <2>4, <2>5
<1>10. \A n \in 0..N : n \in T
  <2> HIDE DEF T, N
  <2> QED
    BY <1>0, <1>8, <1>9, CountingUp
<1>11. f[N] \in S /\ IsDeduped(f[N], named, N)
  BY <1>0, <1>10
<1> QED
  BY <1>6, <1>11

\* A list is cut off where it is too long.
LEMMA BoundedIsFront ==
    ASSUME NEW P, NEW list \in Seq(P)
    PROVE  /\ Bounded(list) \in Seq(P) /\ Len(Bounded(list)) <= PointLimit
           /\ Len(Bounded(list)) <= Len(list)
           /\ Len(Bounded(list)) < PointLimit => Bounded(list) = list
           /\ \A k \in DOMAIN Bounded(list) : k \in DOMAIN list /\ Bounded(list)[k] = list[k]
           /\ list # <<>> => Bounded(list) # <<>>
<1> DEFINE n == IF Len(list) < PointLimit THEN Len(list) ELSE PointLimit
           front == SubSeq(list, 1, n)
<1>1. PointLimit \in Nat /\ PointLimit > 0 /\ Len(list) \in Nat
  BY TextAssumption
<1>2. n \in Nat /\ n <= Len(list) /\ n <= PointLimit /\ (n < PointLimit => n = Len(list)) /\ (Len(list) > 0 => n > 0)
  BY <1>1
<1>3. Bounded(list) = front
  BY DEF Bounded
<1> HIDE DEF n
<1>4. front \in Seq(P) /\ Len(front) = n /\ DOMAIN front = 1..n /\ \A k \in 1..n : front[k] = list[k] /\ k \in 1..Len(list)
  BY <1>1, <1>2
<1>5. n = Len(list) => front = list
  BY <1>1, <1>4
<1>6. list # <<>> => Len(list) > 0
  BY <1>1
<1> HIDE DEF front
<1> QED
  BY <1>1, <1>2, <1>3, <1>4, <1>5, <1>6

\* Where an item of a sequence ends up: behind nothing but items of that one and of
\* those before it.
LEMMA FlattenOrders ==
    ASSUME NEW P, NEW seqs \in Seq(Seq(P))
    PROVE  /\ \A p \in DOMAIN FlattenSeq(seqs) : \E i \in DOMAIN seqs : Contains(seqs[i], FlattenSeq(seqs)[p])
           /\ \A j \in DOMAIN seqs, y \in P :
                 Contains(seqs[j], y) =>
                    \E q \in DOMAIN FlattenSeq(seqs) :
                       /\ FlattenSeq(seqs)[q] = y
                       /\ \A p \in 1..q : \E i \in 1..j : Contains(seqs[i], FlattenSeq(seqs)[p])
<1> DEFINE N == Len(seqs)
           From(r, p, n) == \E i \in 1..n : Contains(seqs[i], r[p])
           Ordered(r, n) ==
              /\ \A p \in DOMAIN r : From(r, p, n)
              /\ \A j \in 1..n, y \in P :
                    Contains(seqs[j], y) => \E q \in DOMAIN r : r[q] = y /\ \A p \in 1..q : From(r, p, j)
<1>0. N \in Nat /\ N \in 0..N /\ DOMAIN seqs = 1..N /\ \A n \in 1..N : seqs[n] \in Seq(P)
  OBVIOUS
<1>1. PICK b \in [0..N -> Seq(P)] :
          b[0] = <<>> /\ (\A n \in 1..N : b[n] = b[n - 1] \o seqs[n]) /\ FlattenSeq(seqs) = b[N]
  BY FlattenRuns
<1> DEFINE T == {n \in 0..N : Ordered(b[n], n)}
<1>2. 0 \in T
  <2>1. DOMAIN <<>> = {} /\ 1..0 = {}
    OBVIOUS
  <2>2. Ordered(<<>>, 0)
    BY <2>1
  <2> HIDE DEF Ordered
  <2> QED
    BY <1>0, <1>1, <2>2
<1>3. ASSUME NEW n \in 0..(N - 1), n \in T PROVE n + 1 \in T
  <2> DEFINE m == n + 1
             r == b[n]
             s == seqs[m]
             w == b[m]
  <2>1. m \in 1..N /\ m \in 0..N /\ m - 1 = n /\ n \in 0..N /\ n \in Nat /\ m \in 1..m /\ \A j \in 1..m : j \in 1..n \/ j = m
    BY <1>0
  <2>2. r \in Seq(P) /\ s \in Seq(P) /\ w = r \o s
    <3>1. r \in Seq(P) /\ s \in Seq(P)
      BY <1>0, <1>1, <2>1
    <3>2. w = r \o s
      BY <1>1, <2>1
    <3> QED
      BY <3>1, <3>2
  <2>3. Ordered(r, n)
    BY <1>3
  <2> HIDE DEF r, s, w
  <2>4. /\ Len(r) \in Nat /\ Len(s) \in Nat /\ DOMAIN r = 1..Len(r) /\ DOMAIN w = 1..(Len(r) + Len(s))
        /\ \A p \in 1..Len(r) : w[p] = r[p]
        /\ \A p \in 1..Len(s) : w[Len(r) + p] = s[p]
    BY <2>2
  <2>5. \A p \in DOMAIN w : p \in 1..Len(r) \/ \E k \in 1..Len(s) : p = Len(r) + k
    <3> TAKE p \in DOMAIN w
    <3>1. p \in 1..Len(r) \/ (p - Len(r) \in 1..Len(s) /\ p = Len(r) + (p - Len(r)))
      BY <2>4
    <3> QED
      BY <3>1
  <2>6. \A p \in 1..Len(r), j \in 1..n : From(r, p, j) <=> From(w, p, j)
    BY <2>4
  <2>7. \A j \in 1..n : j \in 1..m /\ 1..j \subseteq 1..m
    BY <2>1
  <2>8. \A k \in 1..Len(s) : Contains(seqs[m], s[k])
    BY <2>4 DEF Contains, s
  <2>9. ASSUME NEW p \in DOMAIN w PROVE From(w, p, m)
    <3>1. CASE p \in 1..Len(r)
      <4>1. From(r, p, n)
        BY <2>3, <2>4, <3>1
      <4>2. PICK i \in 1..n : Contains(seqs[i], r[p])
        BY <4>1
      <4> QED
        BY <2>4, <2>7, <3>1, <4>2
    <3>2. ASSUME NEW k \in 1..Len(s), p = Len(r) + k PROVE From(w, p, m)
      BY <2>1, <2>4, <2>8, <3>2
    <3> QED
      BY <2>5, <3>1, <3>2
  <2>10. ASSUME NEW j \in 1..m, NEW y \in P, Contains(seqs[j], y)
         PROVE  \E q \in DOMAIN w : w[q] = y /\ \A p \in 1..q : From(w, p, j)
    <3>1. CASE j \in 1..n
      <4>1. PICK q \in DOMAIN r : r[q] = y /\ \A p \in 1..q : From(r, p, j)
        BY <2>3, <2>10, <3>1
      <4>2. q \in DOMAIN w /\ w[q] = y /\ \A p \in 1..q : p \in 1..Len(r)
        BY <2>4, <4>1
      <4>3. \A p \in 1..q : From(w, p, j)
        BY <2>6, <3>1, <4>1, <4>2
      <4> QED
        BY <4>2, <4>3
    <3>2. CASE j = m
      <4>1. PICK k \in 1..Len(s) : s[k] = y
        BY <2>10, <3>2 DEF Contains, s
      <4>2. Len(r) + k \in DOMAIN w /\ w[Len(r) + k] = y /\ 1..(Len(r) + k) \subseteq DOMAIN w
        BY <2>4, <4>1
      <4>3. \A p \in 1..(Len(r) + k) : From(w, p, m)
        BY <2>9, <4>2
      <4> QED
        BY <3>2, <4>2, <4>3
    <3> QED
      BY <2>1, <3>1, <3>2
  <2>11. Ordered(w, m)
    BY <2>9, <2>10
  <2> HIDE DEF Ordered
  <2> QED
    BY <2>1, <2>11 DEF w, m
<1>4. \A n \in 0..N : n \in T
  <2> HIDE DEF T, N
  <2> QED
    BY <1>0, <1>2, <1>3, CountingUp
<1>5. Ordered(b[N], N)
  BY <1>0, <1>4
<1> DEFINE v == FlattenSeq(seqs)
<1>6. Ordered(v, N)
  <2> HIDE DEF Ordered
  <2> QED
    BY <1>1, <1>5
<1> HIDE DEF v
<1>7. /\ \A p \in DOMAIN v : \E i \in DOMAIN seqs : Contains(seqs[i], v[p])
      /\ \A j \in DOMAIN seqs, y \in P :
            Contains(seqs[j], y) =>
               \E q \in DOMAIN v : v[q] = y /\ \A p \in 1..q : \E i \in 1..j : Contains(seqs[i], v[p])
  <2> HIDE DEF N
  <2> QED
    BY <1>0, <1>6
<1> QED
  BY <1>7 DEF v

\* Points that are all those of some parts, or as many as a brief may have, each once and
\* in the order of the parts.
AreMerged(points, seqs, U) ==
    /\ points # <<>> /\ Len(points) <= PointLimit /\ IsInjective(points)
    /\ ToSet(points) \subseteq UNION {ToSet(seqs[i]) : i \in U}
    /\ Len(points) < PointLimit => UNION {ToSet(seqs[i]) : i \in U} \subseteq ToSet(points)
    /\ \A k, l \in DOMAIN points : k < l =>
          \E i \in U : /\ points[k] \in ToSet(seqs[i])
                       /\ \A j \in U : points[l] \in ToSet(seqs[j]) => i <= j

\* The points of a merged brief are those of its parts, in their order.
LEMMA MergedPoints ==
    ASSUME NEW P, NEW seqs \in Seq(Seq(P)), NEW U \in SUBSET DOMAIN seqs,
           \A i \in DOMAIN seqs : seqs[i] # <<>> => i \in U,
           \E i \in U : seqs[i] # <<>>,
           NEW points, points = Bounded(Dedupe(FlattenSeq(seqs)))
    PROVE  AreMerged(points, seqs, U)
<1> DEFINE named == FlattenSeq(seqs)
           d == Dedupe(named)
<1>0. /\ DOMAIN seqs = 1..Len(seqs) /\ Len(seqs) \in Nat
      /\ \A i \in DOMAIN seqs : seqs[i] \in Seq(P) /\ i \in Nat /\ \A j \in 1..i : j \in DOMAIN seqs
  OBVIOUS
<1>1. \A s \in Seq(P) : \A x : x \in ToSet(s) <=> Contains(s, x)
  <2> TAKE s \in Seq(P)
  <2>1. DOMAIN s = 1..Len(s)
    OBVIOUS
  <2> QED
    BY <2>1 DEF ToSet, Contains
<1>2. named \in Seq(P)
  <2>1. <<>> \in Seq(P)
    OBVIOUS
  <2> QED
    BY <2>1, FlattenMore
<1>3. /\ \A p \in DOMAIN named : \E i \in DOMAIN seqs : Contains(seqs[i], named[p])
      /\ \A j \in DOMAIN seqs, y \in P :
            Contains(seqs[j], y) =>
               \E q \in DOMAIN named : named[q] = y /\ \A p \in 1..q : \E i \in 1..j : Contains(seqs[i], named[p])
  BY FlattenOrders
<1> HIDE DEF named
<1>4. DOMAIN named = 1..Len(named) /\ Len(named) \in Nat
  BY <1>2
<1>5. /\ d \in Seq(P) /\ IsInjective(d)
      /\ \A k \in DOMAIN d : \E p \in 1..Len(named) : named[p] = d[k]
      /\ \A p \in 1..Len(named) : Contains(d, named[p])
      /\ \A k, l \in DOMAIN d, q \in 1..Len(named) :
            k < l /\ named[q] = d[l] => \E p \in 1..(q - 1) : named[p] = d[k]
  BY <1>2, Dedupes DEF IsDeduped
<1>6. points = Bounded(d)
  BY DEF named
<1> HIDE DEF d
<1>7. /\ points \in Seq(P) /\ Len(points) <= PointLimit
      /\ Len(points) < PointLimit => points = d
      /\ \A k \in DOMAIN points : k \in DOMAIN d /\ points[k] = d[k]
      /\ d # <<>> => points # <<>>
  BY <1>5, <1>6, BoundedIsFront
<1>8. \A i, x : i \in DOMAIN seqs /\ Contains(seqs[i], x) => i \in U /\ x \in ToSet(seqs[i]) /\ x \in P
  <2> TAKE i, x
  <2> HAVE i \in DOMAIN seqs /\ Contains(seqs[i], x)
  <2>1. seqs[i] \in Seq(P) /\ x \in ToSet(seqs[i])
    BY <1>0, <1>1
  <2>2. seqs[i] # <<>>
    BY DEF Contains
  <2>3. x \in P
    BY <2>1 DEF ToSet
  <2> QED
    BY <2>1, <2>2, <2>3
<1>9. points # <<>>
  <2>1. PICK i \in U : seqs[i] # <<>>
    OBVIOUS
  <2>2. seqs[i] \in Seq(P) /\ i \in DOMAIN seqs
    BY <1>0
  <2>3. Contains(seqs[i], seqs[i][1])
    <3>1. 1 \in 1..Len(seqs[i])
      BY <2>1, <2>2
    <3> QED
      BY <3>1 DEF Contains
  <2>4. PICK q \in DOMAIN named : named[q] = seqs[i][1]
    BY <1>3, <1>8, <2>2, <2>3
  <2>5. Contains(d, named[q])
    BY <1>4, <1>5
  <2>6. d # <<>>
    BY <2>5 DEF Contains
  <2> QED
    BY <1>7, <2>6
<1>10. IsInjective(points)
  BY <1>5, <1>7 DEF IsInjective
<1>11. ASSUME NEW k \in DOMAIN points
       PROVE  \E i \in U : points[k] \in ToSet(seqs[i])
  <2>1. PICK p \in 1..Len(named) : named[p] = points[k]
    BY <1>5, <1>7
  <2> QED
    BY <1>3, <1>4, <1>8, <2>1
<1>12. ToSet(points) \subseteq UNION {ToSet(seqs[i]) : i \in U}
  BY <1>11 DEF ToSet
<1>13. ASSUME Len(points) < PointLimit
       PROVE  UNION {ToSet(seqs[i]) : i \in U} \subseteq ToSet(points)
  <2> SUFFICES ASSUME NEW i \in U, NEW x \in ToSet(seqs[i]) PROVE x \in ToSet(points)
    OBVIOUS
  <2>1. i \in DOMAIN seqs /\ Contains(seqs[i], x)
    BY <1>0, <1>1
  <2>2. PICK q \in DOMAIN named : named[q] = x
    BY <1>3, <1>8, <2>1
  <2>3. Contains(d, x)
    BY <1>4, <1>5, <2>2
  <2> QED
    BY <1>1, <1>5, <1>7, <1>13, <2>3
<1>14. ASSUME NEW k \in DOMAIN points, NEW l \in DOMAIN points, k < l
       PROVE  \E i \in U : /\ points[k] \in ToSet(seqs[i])
                           /\ \A j \in U : points[l] \in ToSet(seqs[j]) => i <= j
  <2> DEFINE S == {i \in U : points[k] \in ToSet(seqs[i])}
  <2>1. S \in SUBSET Nat /\ S # {}
    BY <1>0, <1>11
  <2>2. PICK i \in S : \A j \in S : i <= j
    <3> HIDE DEF S
    <3> QED
      BY <2>1, LeastOf
  <2>3. ASSUME NEW j \in U, points[l] \in ToSet(seqs[j]) PROVE i <= j
    <3>1. j \in DOMAIN seqs /\ Contains(seqs[j], points[l]) /\ j \in Nat
      BY <1>0, <1>1, <2>3
    <3>2. PICK q \in DOMAIN named : named[q] = points[l] /\ \A p \in 1..q : \E h \in 1..j : Contains(seqs[h], named[p])
      BY <1>3, <1>8, <3>1
    <3>3. PICK p \in 1..(q - 1) : named[p] = points[k]
      <4>1. k \in DOMAIN d /\ l \in DOMAIN d /\ points[k] = d[k] /\ points[l] = d[l] /\ q \in 1..Len(named)
        BY <1>4, <1>7
      <4>2. \E p \in 1..(q - 1) : named[p] = d[k]
        BY <1>5, <1>14, <3>2, <4>1
      <4> QED
        BY <4>1, <4>2
    <3>4. p \in 1..q
      BY <1>4, <3>3
    <3>5. PICK h \in 1..j : Contains(seqs[h], points[k])
      BY <3>2, <3>3, <3>4
    <3>6. h \in S
      BY <1>0, <1>8, <3>1, <3>5
    <3>7. i <= h /\ h <= j /\ i \in Nat /\ h \in Nat
      BY <2>1, <2>2, <3>1, <3>5, <3>6
    <3> QED
      BY <3>1, <3>7
  <2> QED
    BY <2>2, <2>3
<1> QED
  BY <1>7, <1>9, <1>10, <1>12, <1>13, <1>14 DEF AreMerged

\* All points there are.
KeyPoints == UNION {ToSet(list) : list \in PointLists}

\* What the model may say of a chunk.
LEMMA AnswerShape ==
    ASSUME NEW answer \in Answers
    PROVE  /\ answer.status \in {"ok", "other", "insufficient_text"}
           /\ answer.status = "ok" =>
                 /\ answer \in [status : {"ok"}, guidance : (Guidance \ {"unknown"}) \cup {"invented"},
                                points : PointLists, tone : (Tones \ {"neutral"}) \cup {"invented"}]
                 /\ answer.guidance \in (Guidance \ {"unknown"}) \cup {"invented"}
                 /\ answer.points \in Seq(KeyPoints)
<1>1. CASE answer \in [status : {"other", "insufficient_text"}]
  BY <1>1
<1>2. CASE answer \in [status : {"ok"}, guidance : (Guidance \ {"unknown"}) \cup {"invented"},
                       points : PointLists, tone : (Tones \ {"neutral"}) \cup {"invented"}]
  <2>1. answer.status = "ok" /\ answer.points \in PointLists /\ answer.guidance \in (Guidance \ {"unknown"}) \cup {"invented"}
    BY <1>2
  <2>2. answer.points \in Seq(ToSet(answer.points)) /\ ToSet(answer.points) \subseteq KeyPoints
    BY <2>1, TextAssumption DEF KeyPoints
  <2>3. answer.points \in Seq(KeyPoints)
    <3> DEFINE list == answer.points
               S == ToSet(answer.points)
    <3>1. list \in Seq(S) /\ S \subseteq KeyPoints
      BY <2>2
    <3> HIDE DEF list, S
    <3>2. list \in Seq(KeyPoints)
      BY <3>1
    <3> QED
      BY <3>2 DEF list
  <2> QED
    BY <1>2, <2>1, <2>3
<1> QED
  BY <1>1, <1>2 DEF Answers

\* What is kept of an answer that is accepted.
LEMMA ValidShape ==
    ASSUME NEW answer \in Answers, answer.status = "ok"
    PROVE  /\ Valid(answer).status = "ok"
           /\ Valid(answer).guidance = IF answer.guidance \in Guidance THEN answer.guidance ELSE "unknown"
           /\ Valid(answer).points = Bounded(answer.points)
           /\ Valid(answer).points \in Seq(KeyPoints)
           /\ Len(Valid(answer).points) <= PointLimit
           /\ ~Rejected(answer) => Valid(answer).points # <<>>
<1>1. /\ answer \in [status : {"ok"}, guidance : (Guidance \ {"unknown"}) \cup {"invented"},
                     points : PointLists, tone : (Tones \ {"neutral"}) \cup {"invented"}]
      /\ answer.points \in Seq(KeyPoints)
  BY AnswerShape
<1>2. Valid(answer) = [answer EXCEPT !.guidance = IF @ \in Guidance THEN @ ELSE "unknown",
                                     !.points = Bounded(@),
                                     !.tone = IF @ \in Tones THEN @ ELSE "neutral"]
  BY DEF Valid
<1>3. /\ Valid(answer).status = "ok"
      /\ Valid(answer).guidance = IF answer.guidance \in Guidance THEN answer.guidance ELSE "unknown"
      /\ Valid(answer).points = Bounded(answer.points)
  BY <1>1, <1>2
<1>4. ~Rejected(answer) => answer.points # <<>>
  BY DEF Rejected
<1> QED
  BY <1>1, <1>3, <1>4, BoundedIsFront

\* As many as there are, counted from the other end.
LEMMA CountedBack ==
    ASSUME NEW n \in Nat, NEW S \in SUBSET (1..n), NEW T \in SUBSET (1..n),
           \A i \in 1..n : i \in T <=> n - i + 1 \in S
    PROVE  IsFiniteSet(S) /\ Cardinality(T) = Cardinality(S)
<1> DEFINE f == [i \in S |-> n - i + 1]
<1>1. IsFiniteSet(S)
  <2>1. 1 \in Int /\ n \in Int
    OBVIOUS
  <2>2. IsFiniteSet(1..n)
    BY <2>1, FS_Interval
  <2> QED
    BY <2>2, FS_Subset
<1>2. \A i \in S : i \in 1..n /\ n - i + 1 \in 1..n /\ n - (n - i + 1) + 1 = i /\ n - i + 1 \in T
  OBVIOUS
<1>3. \A i \in T : i \in 1..n /\ n - i + 1 \in S /\ n - (n - i + 1) + 1 = i
  OBVIOUS
<1>4. T = {f[i] : i \in S}
  BY <1>2, <1>3
<1>5. f \in [S -> T] /\ IsInjective(f) /\ \A t \in T : \E s \in S : f[s] = t
  BY <1>2, <1>4 DEF IsInjective
<1>6. ExistsBijection(S, T)
  BY <1>5 DEF ExistsBijection, Bijection, Injection, Surjection
<1> QED
  BY <1>1, <1>6, FS_Bijection

\* The parts in the opposite order are the same parts.
LEMMA ReversedParts ==
    ASSUME NEW answers \in Seq(Answers), NEW n, n = Len(answers), NEW back, back = Reverse(answers)
    PROVE  /\ back \in Seq(Answers) /\ n \in Nat /\ DOMAIN answers = 1..n /\ DOMAIN back = 1..n
           /\ \A i \in 1..n : n - i + 1 \in 1..n /\ back[i] = answers[n - i + 1]
           /\ \A i \in 1..n : n - (n - i + 1) + 1 = i
           /\ \A i \in 1..n : i \in Accepted(back) <=> n - i + 1 \in Accepted(answers)
           /\ \A i \in 1..n : i \in Usable(back) <=> n - i + 1 \in Usable(answers)
           /\ IsFiniteSet(Accepted(answers)) /\ Cardinality(Accepted(back)) = Cardinality(Accepted(answers))
<1>1. n \in Nat /\ DOMAIN answers = 1..n
  OBVIOUS
<1>2. back = [i \in 1..n |-> answers[(n - i) + 1]]
  BY DEF Reverse
<1>3. \A i \in 1..n : n - i + 1 \in 1..n /\ n - (n - i + 1) + 1 = i
  BY <1>1
<1>4. DOMAIN back = 1..n /\ \A i \in 1..n : back[i] = answers[n - i + 1]
  BY <1>2
<1>5. back \in Seq(Answers)
  <2>1. \A i \in 1..n : answers[n - i + 1] \in Answers
    BY <1>1, <1>3
  <2> QED
    BY <1>1, <1>2, <2>1
<1>6. \A i \in 1..n : i \in Accepted(back) <=> n - i + 1 \in Accepted(answers)
  BY <1>1, <1>3, <1>4 DEF Accepted
<1>7. \A i \in 1..n : i \in Usable(back) <=> n - i + 1 \in Usable(answers)
  BY <1>3, <1>4, <1>6 DEF Usable
<1>8. Accepted(answers) \in SUBSET (1..n) /\ Accepted(back) \in SUBSET (1..n)
  BY <1>1, <1>4 DEF Accepted
<1>9. IsFiniteSet(Accepted(answers)) /\ Cardinality(Accepted(back)) = Cardinality(Accepted(answers))
  BY <1>1, <1>6, <1>8, CountedBack
<1> QED
  BY <1>1, <1>3, <1>4, <1>5, <1>6, <1>7, <1>9

\* Nor do their guidance and tone depend on it.
LEMMA ReversedSummary ==
    ASSUME NEW answers \in Seq(Answers), Summary(answers).status = "ok"
    PROVE  /\ Summary(Reverse(answers)).guidance = Summary(answers).guidance
           /\ Summary(Reverse(answers)).tone = Summary(answers).tone
<1> DEFINE n == Len(answers)
           back == Reverse(answers)
           A == Accepted(answers)
           B == Accepted(back)
           U == Usable(answers)
           V == Usable(back)
<1>1. /\ back \in Seq(Answers) /\ n \in Nat /\ DOMAIN answers = 1..n /\ DOMAIN back = 1..n
      /\ \A i \in 1..n : n - i + 1 \in 1..n /\ back[i] = answers[n - i + 1]
      /\ \A i \in 1..n : n - (n - i + 1) + 1 = i
      /\ \A i \in 1..n : i \in B <=> n - i + 1 \in A
      /\ \A i \in 1..n : i \in V <=> n - i + 1 \in U
      /\ IsFiniteSet(A) /\ Cardinality(B) = Cardinality(A)
  BY ReversedParts
<1>2. A \in SUBSET (1..n) /\ B \in SUBSET (1..n) /\ U \in SUBSET (1..n) /\ V \in SUBSET (1..n)
  BY <1>1 DEF Accepted, Usable
<1>3. Summary(answers) = IF A = {} THEN [status |-> "metadata_only"]
                         ELSE IF Cardinality(A) = 1 THEN Valid(answers[CHOOSE i \in A : TRUE]) ELSE Merge(answers, U)
  BY DEF Summary
<1>4. Summary(back) = IF B = {} THEN [status |-> "metadata_only"]
                      ELSE IF Cardinality(B) = 1 THEN Valid(back[CHOOSE i \in B : TRUE]) ELSE Merge(back, V)
  BY DEF Summary
<1> HIDE DEF n, back, A, B, U, V
<1>5. A # {}
  BY <1>3
<1>6. B # {}
  BY <1>1, <1>2, <1>5
<1>7. CASE Cardinality(A) = 1
  <2>1. PICK i \in A : A = {i}
    BY <1>1, <1>7, FS_Singleton
  <2>2. i \in 1..n /\ n - i + 1 \in 1..n /\ back[n - i + 1] = answers[i]
    <3>1. i \in 1..n
      BY <1>2
    <3>2. n - i + 1 \in 1..n
      BY <1>1, <3>1
    <3> QED
      BY <1>1, <3>1, <3>2
  <2>3. B = {n - i + 1}
    <3>1. n - i + 1 \in B
      BY <1>1, <2>2
    <3>2. ASSUME NEW j \in B PROVE j = n - i + 1
      <4>1. j \in 1..n /\ n - j + 1 = i
        BY <1>1, <1>2, <2>1
      <4> QED
        BY <1>1, <4>1
    <3> QED
      BY <3>1, <3>2
  <2>4. (CHOOSE k \in A : TRUE) = i /\ (CHOOSE k \in B : TRUE) = n - i + 1
    BY <2>1, <2>3
  <2>5. Summary(back) = Summary(answers)
    BY <1>1, <1>3, <1>4, <1>5, <1>6, <1>7, <2>2, <2>4
  <2> QED
    BY <2>5 DEF back
<1>8. CASE Cardinality(A) # 1
  <2>1. Summary(answers) = Merge(answers, U) /\ Summary(back) = Merge(back, V)
    BY <1>1, <1>3, <1>4, <1>5, <1>6, <1>8
  <2>2. U # {}
    BY <2>1 DEF Merge
  <2>3. V # {}
    <3>1. PICK i \in U : i \in 1..n
      BY <1>2, <2>2
    <3>2. n - i + 1 \in 1..n /\ n - (n - i + 1) + 1 = i
      BY <1>1, <3>1
    <3>3. n - i + 1 \in V
      BY <1>1, <3>1, <3>2
    <3> QED
      BY <3>3
  <2>4. /\ Summary(answers).guidance = MergeGuidance({Valid(answers[i]).guidance : i \in U})
        /\ Summary(answers).tone = MergeTone(answers, U)
    BY <2>1, <2>2 DEF Merge
  <2>5. /\ Summary(back).guidance = MergeGuidance({Valid(back[i]).guidance : i \in V})
        /\ Summary(back).tone = MergeTone(back, V)
    BY <2>1, <2>3 DEF Merge
  <2>6. \A i \in V : i \in 1..n /\ n - i + 1 \in U /\ back[i] = answers[n - i + 1]
    BY <1>1, <1>2
  <2>7. \A i \in U : i \in 1..n /\ n - i + 1 \in V /\ back[n - i + 1] = answers[i]
    <3> TAKE i \in U
    <3>1. i \in 1..n
      BY <1>2
    <3>2. n - i + 1 \in 1..n /\ n - (n - i + 1) + 1 = i
      BY <1>1, <3>1
    <3> QED
      BY <1>1, <3>1, <3>2
  <2>8. {Valid(answers[i]).guidance : i \in U} = {Valid(back[i]).guidance : i \in V}
    BY <2>6, <2>7
  <2>9. ASSUME NEW tone
        PROVE  Cardinality({i \in V : Valid(back[i]).tone = tone}) = Cardinality({i \in U : Valid(answers[i]).tone = tone})
    <3> DEFINE S == {i \in U : Valid(answers[i]).tone = tone}
               T == {i \in V : Valid(back[i]).tone = tone}
    <3>1. S \in SUBSET (1..n) /\ T \in SUBSET (1..n)
      BY <1>2
    <3>2. \A i \in 1..n : i \in T <=> n - i + 1 \in S
      BY <1>1
    <3> HIDE DEF S, T
    <3>3. n \in Nat
      BY <1>1
    <3>4. Cardinality(T) = Cardinality(S)
      BY <3>1, <3>2, <3>3, CountedBack
    <3> QED
      BY <3>4 DEF S, T
  <2>10. MergeTone(back, V) = MergeTone(answers, U)
    BY <2>9 DEF MergeTone
  <2> QED
    BY <2>4, <2>5, <2>8, <2>10 DEF back
<1> QED
  BY <1>7, <1>8

\* A guidance is one that a part gave and no other contradicts (_merge_guidance).
LEMMA MergedGuidance ==
    ASSUME NEW said, said \subseteq (Guidance \ {"unknown"}) \cup {"invented"},
           NEW kept, kept = {IF g \in Guidance THEN g ELSE "unknown" : g \in said},
           NEW guidance, guidance = MergeGuidance(kept)
    PROVE  /\ guidance \in said \cup {"unknown"}
           /\ guidance = "raised" => "lowered" \notin said
           /\ guidance = "lowered" => "raised" \notin said
           /\ guidance = "none" => said \subseteq {"none", "invented"}
<1>1. /\ \A g \in said : g \in {"raised", "lowered", "maintained", "none", "invented"}
      /\ \A g \in {"raised", "lowered", "maintained", "none"} : g \in kept <=> g \in said
  BY DEF Guidance
<1>2. \/ {"raised", "lowered"} \subseteq kept /\ guidance = "unknown"
      \/ "raised" \in kept /\ "lowered" \notin kept /\ guidance = "raised"
      \/ "lowered" \in kept /\ "raised" \notin kept /\ guidance = "lowered"
      \/ /\ "raised" \notin kept /\ "lowered" \notin kept
         /\ guidance = IF "maintained" \in kept THEN "maintained" ELSE IF "none" \in kept THEN "none" ELSE "unknown"
  BY DEF MergeGuidance
<1> QED
  BY <1>1, <1>2

\* What a brief of a filing says, for whatever the model answers about its parts
\* (_summarize, _merge).
LEMMA SummariesAreSound ==
    ASSUME NEW answers \in Seq(Answers)
    PROVE  SummaryIsSound(answers)
<1> DEFINE A == Accepted(answers)
           U == Usable(answers)
           brief == Summary(answers)
           Points(i) == ToSet(Valid(answers[i]).points)
           said == {answers[i].guidance : i \in U}
           Claims ==
              /\ brief.points # <<>> /\ Len(brief.points) <= PointLimit
              /\ Cardinality(A) > 1 => IsInjective(brief.points)
              /\ ToSet(brief.points) \subseteq UNION {Points(i) : i \in U}
              /\ Len(brief.points) < PointLimit => UNION {Points(i) : i \in U} \subseteq ToSet(brief.points)
              /\ \A k, l \in DOMAIN brief.points : k < l =>
                    \E i \in U : /\ brief.points[k] \in Points(i)
                                 /\ \A j \in U : brief.points[l] \in Points(j) => i <= j
              /\ brief.guidance \in said \cup {"unknown"}
              /\ brief.guidance = "raised" => "lowered" \notin said
              /\ brief.guidance = "lowered" => "raised" \notin said
              /\ brief.guidance = "none" => said \subseteq {"none", "invented"}
<1>1. /\ DOMAIN answers = 1..Len(answers) /\ Len(answers) \in Nat
      /\ \A i \in DOMAIN answers : answers[i] \in Answers /\ i \in Nat
  OBVIOUS
<1>2. /\ \A i \in A : i \in DOMAIN answers /\ ~Rejected(answers[i])
      /\ \A i \in U : i \in A /\ answers[i].status = "ok"
      /\ \A i \in A : answers[i].status = "ok" => i \in U
  BY DEF Accepted, Usable
<1>3. brief = IF A = {} THEN [status |-> "metadata_only"]
              ELSE IF Cardinality(A) = 1 THEN Valid(answers[CHOOSE i \in A : TRUE]) ELSE Merge(answers, U)
  BY DEF Summary
<1>4. IsFiniteSet(A) /\ Cardinality(A) \in Nat
  BY ReversedParts, FS_CardinalityType
<1>5. ASSUME NEW i \in U
      PROVE  /\ Valid(answers[i]).status = "ok"
             /\ Valid(answers[i]).guidance = IF answers[i].guidance \in Guidance THEN answers[i].guidance ELSE "unknown"
             /\ Valid(answers[i]).points \in Seq(KeyPoints) /\ Valid(answers[i]).points # <<>>
             /\ Len(Valid(answers[i]).points) <= PointLimit
             /\ answers[i].guidance \in (Guidance \ {"unknown"}) \cup {"invented"}
  BY <1>1, <1>2, AnswerShape, ValidShape
<1> HIDE DEF A, U, brief
<1>6. CASE A = {}
  <2>1. brief.status = "metadata_only" /\ U = {}
    BY <1>2, <1>3, <1>6
  <2> QED
    BY <1>6, <2>1 DEF SummaryIsSound, A, U, brief
<1>7. CASE A # {} /\ U = {}
  <2>1. ASSUME NEW i \in A PROVE Valid(answers[i]).status = "insufficient_text"
    <3>1. answers[i] \in Answers /\ answers[i].status # "ok" /\ answers[i].status # "other"
      BY <1>1, <1>2, <1>7 DEF Rejected
    <3> QED
      BY <3>1, AnswerShape DEF Valid
  <2>2. (CHOOSE i \in A : TRUE) \in A
    BY <1>7
  <2>3. Merge(answers, U).status = "insufficient_text"
    BY <1>7 DEF Merge
  <2>4. brief.status = "insufficient_text"
    BY <1>3, <1>7, <2>1, <2>2, <2>3
  <2> QED
    BY <1>7, <2>4 DEF SummaryIsSound, A, U, brief
<1>8. ASSUME A # {}, U # {} PROVE brief.status = "ok" /\ Claims
  <2>1. CASE Cardinality(A) = 1
    <3>1. PICK i \in A : A = {i}
      BY <1>4, <2>1, FS_Singleton
    <3>2. U = {i} /\ i \in U /\ (CHOOSE k \in A : TRUE) = i
      BY <1>2, <1>8, <3>1
    <3>3. brief = Valid(answers[i])
      BY <1>3, <1>8, <2>1, <3>2
    <3> DEFINE points == Valid(answers[i]).points
    <3>4. /\ brief.status = "ok" /\ brief.points = points /\ points \in Seq(KeyPoints) /\ points # <<>>
          /\ Len(points) <= PointLimit
          /\ brief.guidance = IF answers[i].guidance \in Guidance THEN answers[i].guidance ELSE "unknown"
      BY <1>5, <3>2, <3>3
    <3>5. i \in Nat /\ said = {answers[i].guidance} /\ UNION {Points(j) : j \in U} = ToSet(points)
      BY <1>1, <1>2, <3>1, <3>2
    <3>6. /\ brief.guidance \in said \cup {"unknown"}
          /\ brief.guidance = "raised" => "lowered" \notin said
          /\ brief.guidance = "lowered" => "raised" \notin said
          /\ brief.guidance = "none" => said \subseteq {"none", "invented"}
      BY <3>4, <3>5
    <3>7. ASSUME NEW k \in DOMAIN brief.points, NEW l \in DOMAIN brief.points, k < l
          PROVE  \E h \in U : /\ brief.points[k] \in Points(h)
                              /\ \A j \in U : brief.points[l] \in Points(j) => h <= j
      <4>1. brief.points[k] \in Points(i)
        BY <3>4 DEF ToSet
      <4> QED
        BY <3>2, <3>5, <4>1
    <3>8. ~(Cardinality(A) > 1)
      BY <2>1
    <3> HIDE DEF points, Points, said
    <3> QED
      BY <3>4, <3>5, <3>6, <3>7, <3>8
  <2>2. CASE Cardinality(A) # 1
    <3> DEFINE seqs == [i \in DOMAIN answers |-> IF i \in U THEN Valid(answers[i]).points ELSE <<>>]
               kept == {Valid(answers[i]).guidance : i \in U}
    <3>1. brief = Merge(answers, U)
      BY <1>3, <1>8, <2>2
    <3>2. /\ brief.status = "ok" /\ brief.points = Bounded(Dedupe(FlattenSeq(seqs)))
          /\ brief.guidance = MergeGuidance(kept)
      BY <1>8, <3>1 DEF Merge
    <3>3. /\ seqs \in Seq(Seq(KeyPoints)) /\ DOMAIN seqs = DOMAIN answers /\ U \in SUBSET DOMAIN seqs
          /\ \A i \in DOMAIN seqs : seqs[i] # <<>> => i \in U
          /\ \A i \in U : seqs[i] = Valid(answers[i]).points
      <4>1. \A i \in DOMAIN answers : seqs[i] \in Seq(KeyPoints)
        BY <1>5
      <4>2. DOMAIN seqs = DOMAIN answers
        OBVIOUS
      <4>3. seqs \in [1..Len(answers) -> Seq(KeyPoints)]
        BY <1>1, <1>5
      <4>4. seqs \in Seq(Seq(KeyPoints))
        <5> HIDE DEF seqs
        <5> QED
          BY <1>1, <4>3
      <4> QED
        BY <1>2, <4>2, <4>4
    <3> HIDE DEF seqs
    <3>4. \E i \in U : seqs[i] # <<>>
      BY <1>5, <1>8, <3>3
    <3>5. /\ brief.points # <<>> /\ Len(brief.points) <= PointLimit /\ IsInjective(brief.points)
          /\ ToSet(brief.points) \subseteq UNION {ToSet(seqs[i]) : i \in U}
          /\ Len(brief.points) < PointLimit => UNION {ToSet(seqs[i]) : i \in U} \subseteq ToSet(brief.points)
          /\ \A k, l \in DOMAIN brief.points : k < l =>
                \E i \in U : /\ brief.points[k] \in ToSet(seqs[i])
                             /\ \A j \in U : brief.points[l] \in ToSet(seqs[j]) => i <= j
      <4> DEFINE points == brief.points
      <4>1. points = Bounded(Dedupe(FlattenSeq(seqs)))
        BY <3>2
      <4> HIDE DEF points
      <4>2. AreMerged(points, seqs, U)
        BY <3>3, <3>4, <4>1, MergedPoints
      <4> QED
        BY <4>2 DEF points, AreMerged
    <3>6. /\ \A i \in U : ToSet(seqs[i]) = Points(i)
          /\ UNION {ToSet(seqs[i]) : i \in U} = UNION {Points(i) : i \in U}
      BY <3>3
    <3>7. said \subseteq (Guidance \ {"unknown"}) \cup {"invented"}
      BY <1>5
    <3>8. kept = {IF g \in Guidance THEN g ELSE "unknown" : g \in said}
      BY <1>5
    <3> HIDE DEF Points, said, kept
    <3>9. /\ brief.guidance \in said \cup {"unknown"}
          /\ brief.guidance = "raised" => "lowered" \notin said
          /\ brief.guidance = "lowered" => "raised" \notin said
          /\ brief.guidance = "none" => said \subseteq {"none", "invented"}
      BY <3>2, <3>7, <3>8, MergedGuidance
    <3> QED
      BY <3>2, <3>5, <3>6, <3>9
  <2> QED
    BY <2>1, <2>2
<1>9. CASE A # {} /\ U # {}
  <2>1. /\ brief.guidance = Summary(Reverse(answers)).guidance
        /\ brief.tone = Summary(Reverse(answers)).tone
    BY <1>8, <1>9, ReversedSummary DEF brief
  <2> QED
    BY <1>8, <1>9, <2>1 DEF SummaryIsSound, A, U, brief
<1> QED
  BY <1>6, <1>7, <1>9

\* The three functions, for whatever input there is.
LEMMA TextsFit == TextInit => TextIsFit
<1> SUFFICES ASSUME TextInit PROVE TextIsFit
  OBVIOUS
<1>1. \A C, n : n \in Nat => \A s \in BoundedSeq(C, n) : s \in Seq(C)
  BY DEF BoundedSeq, SeqOf
<1>2. /\ MaxRows \in Nat /\ MaxLimit \in Nat /\ MaxParagraphs \in Nat /\ MaxAnswers \in Nat
      /\ ParagraphLengths \subseteq Nat /\ ChunkSizes \subseteq Nat \ {0}
  BY TextAssumption
<1>3. CASE text \in [of : {"rows"}, rows : BoundedSeq(Categories, MaxRows), limit : 0..MaxLimit]
  <2>1. text.of = "rows" /\ text.rows \in Seq(Categories) /\ text.limit \in Nat
    BY <1>1, <1>2, <1>3
  <2> QED
    BY <2>1, SelectionsAreDiverse DEF TextIsFit
<1>4. CASE text \in [of : {"excerpt"}, size : ChunkSizes,
                     paragraphs : BoundedSeq(ParagraphLengths, MaxParagraphs) \ {<<>>}]
  <2>1. text.of = "excerpt" /\ text.paragraphs \in Seq(ParagraphLengths) /\ text.size \in Nat \ {0}
    BY <1>1, <1>2, <1>4
  <2> DEFINE s == text.paragraphs
  <2>2. text.paragraphs \in Seq(Nat)
    <3>1. s \in Seq(ParagraphLengths)
      BY <2>1
    <3> HIDE DEF s
    <3>2. /\ s \in [1..Len(s) -> ParagraphLengths] /\ Len(s) \in Nat
      BY <3>1
    <3>3. s \in [1..Len(s) -> Nat]
      BY <1>2, <3>2
    <3>4. s \in Seq(Nat)
      BY <3>2, <3>3
    <3> QED
      BY <3>4 DEF s
  <2> QED
    BY <2>1, <2>2, ChunksAreFit DEF TextIsFit
<1>5. CASE text \in [of : {"answers"}, answers : BoundedSeq(Answers, MaxAnswers) \ {<<>>}]
  <2>1. text.of = "answers" /\ text.answers \in Seq(Answers)
    BY <1>1, <1>2, <1>5
  <2> QED
    BY <2>1, SummariesAreSound DEF TextIsFit
<1> QED
  BY <1>3, <1>4, <1>5 DEF TextInit


\* What reaches a committee's prompt is fit, whatever the input and in whatever order the
\* parts of the pipeline step (_select_diverse, _chunks, _merge, snapshot).
THEOREM EvidenceStaysSound == Spec => EvidenceIsSound
<1>1. Init => TextIsFit
  <2> SUFFICES ASSUME Init PROVE TextIsFit
    OBVIOUS
  <2>1. CASE text = [of |-> "none"]
    <3>1. text.of = "none"
      BY <2>1
    <3> QED
      BY <3>1 DEF TextIsFit
  <2>2. CASE TextInit
    BY <2>2, TextsFit
  <2> QED
    BY <2>1, <2>2 DEF Init
<1>2. Init => FundamentalsInv
  BY InitialFundamentals DEF Init
<1>3. ASSUME TextIsFit, FundamentalsInv, [Next]_vars
      PROVE  TextIsFit' /\ FundamentalsInv' /\ [SnapshotsSettle]_fundamentalVars
  <2>1. text' = text /\ [FundamentalsNext]_fundamentalVars
    BY <1>3 DEF Next, vars
  <2>2. TextIsFit'
    BY <1>3, <2>1 DEF TextIsFit
  <2> QED
    BY <1>3, <2>1, <2>2, FundamentalsStep
<1> QED
  BY <1>1, <1>2, <1>3, PTL DEF Spec, EvidenceIsSound
=============================================================================
