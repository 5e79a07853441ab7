-------------------------- MODULE AgentTurnProofs --------------------------
(***************************************************************************)
(* One turn of an agent, for any number of positions, tickers, attempts,   *)
(* decisions of a chair, rebuilds and backfills, wherever it raises.       *)
(*                                                                         *)
(* What the audits and the trades say of each other needs how far the list *)
(* of decisions is and which audits are still open; what the committee may *)
(* do needs that the reviews end before the first order; that one purchase *)
(* at most is repeated needs which one met the limit and that its audit is *)
(* settled for good.                                                       *)
(***************************************************************************)
EXTENDS AgentTurn, FiniteSetTheorems, TLAPS

-----------------------------------------------------------------------------
(* The data *)

\* The decisions and the lists of the committee.
LEMMA DecisionFacts ==
    /\ Hold \in Decisions /\ Hold.decision = "HOLD"
    /\ \A d \in Decisions : d.decision \in {"BUY", "SELL"} => d.ticker \in Tickers
    /\ \A t \in Tickers : [decision |-> "SELL", ticker |-> t] \in Decisions
BY DEF Hold, Decisions, Orders

\* See DecisionFacts.
LEMMA ListFacts ==
    ASSUME NEW list \in Lists
    PROVE  /\ list \in Seq(Decisions) /\ Len(list) \in {1, 2}
           /\ Len(list) = 2 => list[1].decision = "SELL" /\ list[2].decision = "BUY"
<1>1. CASE list = <<Hold>>
  BY <1>1, DecisionFacts
<1>2. CASE \E d \in Orders("SELL") \cup Orders("BUY") : list = <<d>>
  <2>1. PICK d \in Orders("SELL") \cup Orders("BUY") : list = <<d>>
    BY <1>2
  <2>2. d \in Decisions
    BY DEF Decisions
  <2> QED
    BY <2>1, <2>2
<1>3. CASE list \in Orders("SELL") \X Orders("BUY")
  <2>1. PICK s \in Orders("SELL"), b \in Orders("BUY") : list = <<s, b>>
    BY <1>3
  <2>2. s \in Decisions /\ b \in Decisions /\ s.decision = "SELL" /\ b.decision = "BUY"
    BY DEF Decisions, Orders
  <2> QED
    BY <2>1, <2>2
<1> QED
  BY <1>1, <1>2, <1>3 DEF Lists

\* What the chair authorizes is such a list.
LEMMA ContractFacts ==
    ASSUME NEW answer, NEW list \in Contract(answer)
    PROVE  list \in Lists
<1>1. <<Hold>> \in Lists
  BY DEF Lists
<1> QED
  BY <1>1 DEF Contract

\* A finite set in the order of a sequence.
LEMMA SequenceOfSet ==
    ASSUME NEW S, IsFiniteSet(S)
    PROVE  /\ Cardinality(S) \in Nat
           /\ \A n \in 1..Cardinality(S) : SetToSeq(S)[n] \in S
           /\ \A m, n \in 1..Cardinality(S) : SetToSeq(S)[m] = SetToSeq(S)[n] => m = n
<1>1. Cardinality(S) \in Nat
  BY FS_CardinalityType
<1>2. \E f \in [1..Cardinality(S) -> S] : IsInjective(f)
  <2>1. PICK f : f \in Bijection(1..Cardinality(S), S)
    BY FS_CardinalityType, Zenon DEF ExistsBijection
  <2> QED
    BY <2>1 DEF Bijection, Injection
<1>3. SetToSeq(S) \in [1..Cardinality(S) -> S] /\ IsInjective(SetToSeq(S))
  BY <1>2 DEF SetToSeq
<1> QED
  BY <1>1, <1>3 DEF IsInjective

\* The turn goes to another place and changes nothing else.
LEMMA GotoEffect ==
    ASSUME TurnTypeOK, NEW label \in Labels, Goto(label)
    PROVE  /\ turn' \in Locals /\ turn'.pc = label
           /\ turn'.stage = turn.stage /\ turn'.tries = turn.tries /\ turn'.list = turn.list
           /\ turn'.ids = turn.ids /\ turn'.i = turn.i /\ turn'.left = turn.left
           /\ turn'.sellFailed = turn.sellFailed /\ turn'.blocked = turn.blocked
           /\ turn'.result = turn.result
<1>1. turn \in Locals /\ turn' = [turn EXCEPT !.pc = label]
  BY DEF TurnTypeOK, Goto
<1> QED
  BY <1>1 DEF Locals

\* The turn goes on with the next decision.
LEMMA NextEffect ==
    ASSUME turn \in Locals, NEW n \in Nat, NEW failed \in BOOLEAN, NEW blocked \in Decisions,
           turn' = [turn EXCEPT !.pc = "loop", !.i = n, !.sellFailed = failed, !.blocked = blocked]
    PROVE  /\ turn' \in Locals /\ turn'.pc = "loop" /\ turn'.i = n
           /\ turn'.list = turn.list /\ turn'.ids = turn.ids /\ turn'.stage = turn.stage
           /\ turn'.blocked = blocked /\ turn'.sellFailed = failed
<1>1. "loop" \in Labels
  BY DEF Labels
<1> QED
  BY <1>1 DEF Locals

\* A new audit, at the end.
LEMMA AuditEffect ==
    ASSUME TurnTypeOK,
           NEW by, NEW response, NEW status, NEW d,
           [by |-> by, response |-> response, status |-> status, decision |-> d] \in AuditRow,
           Audit(by, response, status, d)
    PROVE  /\ audits' \in Seq(AuditRow)
           /\ Len(audits) \in Nat /\ Len(audits') = Len(audits) + 1
           /\ DOMAIN audits' = DOMAIN audits \cup {Len(audits) + 1}
           /\ DOMAIN audits = 1..Len(audits)
           /\ \A k \in DOMAIN audits : audits'[k] = audits[k]
           /\ LET row == audits'[Len(audits) + 1]
              IN  row.by = by /\ row.response = response /\ row.status = status /\ row.decision = d
<1> DEFINE row == [by |-> by, response |-> response, status |-> status, decision |-> d]
<1>1. row.by = by /\ row.response = response /\ row.status = status /\ row.decision = d
  OBVIOUS
<1>2. audits \in Seq(AuditRow) /\ row \in AuditRow /\ audits' = Append(audits, row)
  BY DEF TurnTypeOK, Audit
<1> HIDE DEF row
<1> QED
  BY <1>1, <1>2

\* The status of the current audit.
LEMMA StatusEffect ==
    ASSUME TurnTypeOK, Recorder \in DOMAIN audits,
           NEW status \in {"pending", "executed", "rejected", "hold", "not_attempted"},
           SetStatus(status)
    PROVE  /\ audits' \in Seq(AuditRow) /\ Len(audits') = Len(audits) /\ DOMAIN audits' = DOMAIN audits
           /\ audits'[Recorder].status = status
           /\ \A k \in DOMAIN audits :
                 /\ k # Recorder => audits'[k] = audits[k]
                 /\ audits'[k].by = audits[k].by /\ audits'[k].decision = audits[k].decision
<1> DEFINE row == [audits[Recorder] EXCEPT !.status = status]
<1>1. audits \in Seq(AuditRow) /\ audits[Recorder] \in AuditRow
  BY DEF TurnTypeOK
<1>2. /\ row \in AuditRow /\ row.status = status
      /\ row.by = audits[Recorder].by /\ row.decision = audits[Recorder].decision
  BY <1>1 DEF AuditRow
<1>3. audits' = [audits EXCEPT ![Recorder] = row]
  BY DEF SetStatus
<1> HIDE DEF row
<1>4. audits' \in Seq(AuditRow) /\ Len(audits') = Len(audits) /\ DOMAIN audits' = DOMAIN audits
  BY <1>1, <1>2, <1>3
<1>5. \A k \in DOMAIN audits : audits'[k] = IF k = Recorder THEN row ELSE audits[k]
  BY <1>1, <1>3
<1> QED
  BY <1>2, <1>4, <1>5

\* The quote of one trade.
LEMMA QuoteEffect ==
    ASSUME TurnTypeOK, NEW n \in DOMAIN trades, NEW q \in Nat \cup {-1},
           trades' = [trades EXCEPT ![n].quote = q]
    PROVE  /\ trades' \in Seq(Trade) /\ DOMAIN trades' = DOMAIN trades
           /\ Ordered' = Ordered /\ trades'[n].quote = q
           /\ \A m \in DOMAIN trades :
                 /\ m # n => trades'[m] = trades[m]
                 /\ trades'[m].ref = trades[m].ref /\ trades'[m].ticker = trades[m].ticker
                 /\ trades'[m].action = trades[m].action
<1> DEFINE row == [trades[n] EXCEPT !.quote = q]
<1>1. trades \in Seq(Trade) /\ trades[n] \in Trade
  BY DEF TurnTypeOK
<1>2. /\ row \in Trade /\ row.quote = q /\ row.ref = trades[n].ref
      /\ row.ticker = trades[n].ticker /\ row.action = trades[n].action
  BY <1>1 DEF Trade
<1>3. trades' = [trades EXCEPT ![n] = row]
  OBVIOUS
<1> HIDE DEF row
<1>4. trades' \in Seq(Trade) /\ DOMAIN trades' = DOMAIN trades
  BY <1>1, <1>2, <1>3
<1>5. \A m \in DOMAIN trades : trades'[m] = IF m = n THEN row ELSE trades[m]
  BY <1>1, <1>3
<1>6. Ordered' = Ordered
  BY <1>2, <1>4, <1>5 DEF Ordered
<1> QED
  BY <1>2, <1>4, <1>5, <1>6
-----------------------------------------------------------------------------
(* The steps that change nothing but where the turn is *)

\* What every step below establishes.
TurnStepIsSafe == TurnInv' /\ BuyFollowsSell

\* Between two places at which the same audits are open, or at which none is.
LEMMA MoveKeeps ==
    ASSUME TurnInv, NEW label \in Labels \ {"risk", "forced", "forcedQuotes", "quotes", "outcome"},
           turn' \in Locals, turn'.pc = label,
           turn'.list = turn.list, turn'.ids = turn.ids, turn'.i = turn.i \/ label = "ask",
           turn'.sellFailed = turn.sellFailed, turn'.blocked = turn.blocked,
           UNCHANGED <<arch, held, trades, audits, steps, count>>,
           ~Ended, At("risk") => label = "failed",
           At("forced") => turn.left = {} \/ label = "failed",
           At("forcedQuotes") => label = "failed",
           StageInOrder', ListInOrder',
           label = "done" /\ turn'.stage \in {"loop", "late"} =>
              \A k \in DOMAIN audits : audits[k].status # "pending",
           label \notin {"done", "failed"} => ~At("quotes") /\ ~At("outcome"),
           turn'.stage \in {"early", "late"} \/ turn.stage \notin {"early", "late"},
           label = "retry" => ~At("attempt") /\ turn.stage \in {"loop", "offer"},
           label = "ask" => At("forced") \/ (turn.stage = "loop" /\ turn'.stage = "offer"),
           turn'.stage = "loop" => turn.stage = "loop",
           Multi /\ label \in Deciding => turn.pc \in Deciding,
           Multi /\ label = "attempt" => ~turn.sellFailed \/ Decision.decision # "BUY",
           Multi /\ label \in {"loop", "skip", "attempt"} => turn.pc \in {"loop", "skip", "attempt"},
           label = "skip" => turn.sellFailed
    PROVE  TurnStepIsSafe
<1> USE DEF TurnInv
<1>1. TurnTypeOK'
  BY DEF TurnTypeOK
<1>2. TradesInOrder'
  BY DEF TradesInOrder, Ordered, Ended, At, Recorder, Decision
<1>3. ForcedInOrder'
  BY DEF ForcedInOrder, Linked, Ordered, Ended, At
<1>4. RotationInOrder'
  <2>1. By("model")' = By("model") /\ By("retry")' = By("retry")
    BY DEF By
  <2>2. turn'.stage \notin {"early", "late"} \/ label = "retry" => By("retry") = {}
    BY DEF RotationInOrder, At
  <2>3. ~Multi =>
          /\ turn'.stage = "loop" /\ label = "ask" => By("model") = {}
          /\ turn'.stage = "loop" \/ label = "ask" => \A j, k \in By("model") : j = k
    <3>1. turn.stage \in {"loop", "offer", "early", "late"}
      BY DEF TurnTypeOK, Locals
    <3>2. At("forced") => turn.stage = "loop"
      BY <3>1 DEF StageInOrder, At
    <3>3. label = "ask" => turn.stage = "loop" /\ (turn'.stage = "loop" => At("forced"))
      BY <3>2
    <3> QED
      BY <3>3 DEF RotationInOrder, At
  <2>4. Multi' = Multi
    BY DEF Multi
  <2>5. \A k \in By("retry") : \E j \in By("model") :
          /\ j < k /\ audits'[j].status = "rejected"
          /\ audits'[j].decision = audits'[k].decision /\ audits'[k].decision.decision = "BUY"
    BY DEF RotationInOrder
  <2>6. turn'.blocked # Hold =>
          \E j \in By("model") : /\ audits'[j].status = "rejected"
                                 /\ audits'[j].decision = turn'.blocked
                                 /\ turn'.blocked.decision = "BUY"
    BY DEF RotationInOrder
  <2> QED
    BY <2>1, <2>2, <2>3, <2>4, <2>5, <2>6 DEF RotationInOrder, At
<1>5. CommitteeInOrder'
  <2>1. Authorized' = Authorized /\ Ordered' = Ordered
    BY DEF Authorized, Proposals, Parsed, Ordered
  <2> QED
    BY <2>1 DEF CommitteeInOrder, Multi, Decision, At, Deciding, StageInOrder
<1> QED
  BY <1>1, <1>2, <1>3, <1>4, <1>5 DEF TurnStepIsSafe, BuyFollowsSell

\* See MoveKeeps.
LEMMA PlainMoves ==
    ASSUME TurnInv, ForcedSellsDone \/ AnswerReturned \/ NextDecision \/ LoopDone \/ AfterSell \/ Raise
    PROVE  TurnStepIsSafe
<1> USE DEF TurnInv
<1>1. turn \in Locals /\ turn.stage \in {"loop", "offer", "early", "late"} /\ turn.pc \in Labels
      /\ "none" \notin Labels
  BY DEF TurnTypeOK, Locals, Labels
<1>2. CASE ForcedSellsDone
  <2>1. PICK label \in {"ask", "done"} : Goto(label)
    BY <1>2 DEF ForcedSellsDone
  <2>2. label \in Labels
    BY DEF Labels
  <2>3. StageInOrder'
    BY <1>1, <1>2, <2>1, <2>2, GotoEffect DEF StageInOrder, ForcedSellsDone, At, Multi
  <2>4. ListInOrder'
    BY <1>1, <1>2, <2>1, <2>2, GotoEffect DEF ListInOrder, StageInOrder, ForcedSellsDone, At, Ended, Deciding
  <2>5. \A k \in DOMAIN audits : audits[k].status # "pending"
    BY <1>2 DEF ForcedSellsDone, ListInOrder, Ended, At, Deciding
  <2> QED
    BY <1>1, <1>2, <2>1, <2>2, <2>3, <2>4, <2>5, GotoEffect, MoveKeeps DEF ForcedSellsDone, At, Ended, Deciding
<1>3. CASE AnswerReturned
  <2>1. PICK label \in {"answered", "loop"} :
           Goto(label) /\ (label = "answered" <=> turn.stage = "offer")
    BY <1>3 DEF AnswerReturned
  <2>2. label \in Labels
    BY DEF Labels
  <2>3. StageInOrder'
    BY <1>1, <1>3, <2>1, <2>2, GotoEffect DEF StageInOrder, AnswerReturned, At, Multi
  <2>4. ListInOrder'
    BY <1>1, <1>3, <2>1, <2>2, GotoEffect DEF ListInOrder, AnswerReturned, At, Ended, Deciding
  <2> QED
    BY <1>1, <1>3, <2>1, <2>2, <2>3, <2>4, GotoEffect, MoveKeeps
       DEF AnswerReturned, At, Ended, Deciding, StageInOrder
<1>4. CASE NextDecision
  <2>1. PICK label \in {"skip", "attempt"} :
           Goto(label) /\ (label = "skip" <=> Multi /\ turn.sellFailed /\ Decision.decision = "BUY")
    BY <1>4 DEF NextDecision
  <2>2. label \in Labels
    BY DEF Labels
  <2>3. StageInOrder'
    BY <1>1, <1>4, <2>1, <2>2, GotoEffect DEF StageInOrder, NextDecision, At, Multi
  <2>4. ListInOrder'
    BY <1>1, <1>4, <2>1, <2>2, GotoEffect DEF ListInOrder, NextDecision, At, Ended, Deciding
  <2> QED
    BY <1>1, <1>4, <2>1, <2>2, <2>3, <2>4, GotoEffect, MoveKeeps
       DEF NextDecision, At, Ended, Deciding, StageInOrder
<1>5. CASE LoopDone
  <2>1. PICK label \in {"offer", "done"} :
           Goto(label) /\ (label = "offer" => turn.blocked # Hold /\ ~Multi)
    BY <1>5 DEF LoopDone
  <2>2. label \in Labels
    BY DEF Labels
  <2>3. StageInOrder'
    BY <1>1, <1>5, <2>1, <2>2, GotoEffect DEF StageInOrder, LoopDone, At, Multi
  <2>4. \A k \in DOMAIN audits : audits[k].status # "pending"
    BY <1>1, <1>5 DEF LoopDone, ListInOrder, Ended, At, Deciding, Locals
  <2>5. ListInOrder'
    BY <1>1, <1>5, <2>1, <2>2, <2>4, GotoEffect DEF ListInOrder, LoopDone, At, Ended, Deciding
  <2> QED
    BY <1>1, <1>5, <2>1, <2>2, <2>3, <2>4, <2>5, GotoEffect, MoveKeeps
       DEF LoopDone, At, Ended, Deciding, StageInOrder
<1>6. CASE AfterSell
  <2>1. PICK label \in {"retry", "done"} :
           /\ turn' \in Locals /\ turn'.pc = label
           /\ turn'.stage = (IF label = "retry" THEN "late" ELSE turn.stage)
           /\ turn'.list = turn.list /\ turn'.ids = turn.ids /\ turn'.i = turn.i
           /\ turn'.sellFailed = turn.sellFailed /\ turn'.blocked = turn.blocked
    BY ZenonT(60), <1>1, <1>6 DEF AfterSell, Goto, Locals, Labels
  <2>2. label \in Labels /\ turn.stage = "offer" /\ ~Multi
    BY <1>1, <1>6 DEF Labels, AfterSell, StageInOrder, At
  <2>3. StageInOrder'
    BY <1>1, <1>6, <2>1, <2>2 DEF StageInOrder, AfterSell, At, Multi
  <2>4. ListInOrder'
    BY <1>1, <1>6, <2>1, <2>2 DEF ListInOrder, AfterSell, At, Ended, Deciding
  <2> QED
    BY <1>1, <1>6, <2>1, <2>2, <2>3, <2>4, MoveKeeps
       DEF AfterSell, At, Ended, Deciding, StageInOrder
<1>7. CASE Raise
  <2>1. PICK label \in {"done", "failed"} : Goto(label) /\ (label = "done" <=> Swallowed)
    BY <1>7 DEF Raise
  <2>2. label \in Labels
    BY DEF Labels
  <2>3. StageInOrder'
    BY <1>1, <1>7, <2>1, <2>2, GotoEffect DEF StageInOrder, Raise, At, Multi, Swallowed
  <2>4. ListInOrder'
    BY <1>1, <1>7, <2>1, <2>2, GotoEffect DEF ListInOrder, Raise, At, Ended, Deciding
  <2>5. label = "done" /\ turn.stage \in {"loop", "late"} =>
           \A k \in DOMAIN audits : audits[k].status # "pending"
    BY <1>7, <2>1 DEF Raise, Swallowed, ListInOrder, Ended, At, Deciding
  <2>6. label = "done" => turn.pc \notin {"risk", "forced", "forcedQuotes"}
    BY <1>1, <2>1 DEF Swallowed, StageInOrder, At
  <2> QED
    BY <1>1, <1>7, <2>1, <2>2, <2>3, <2>4, <2>5, <2>6, GotoEffect, MoveKeeps
       DEF Raise, At, Ended, Deciding
<1> QED
  BY <1>2, <1>3, <1>4, <1>5, <1>6, <1>7

\* The rotation begins: the slot is free by now, or the model is asked what to sell.
LEMMA OfferRotationKeeps == TurnInv /\ OfferRotation => TurnStepIsSafe
<1> SUFFICES ASSUME TurnInv, OfferRotation PROVE TurnStepIsSafe
  OBVIOUS
<1> USE DEF TurnInv
<1>1. turn \in Locals /\ turn.pc = "offer" /\ turn.stage = "loop" /\ ~Multi /\ turn.blocked # Hold
      /\ turn.stage \in {"loop", "offer", "early", "late"} /\ held \subseteq Tickers
  <2>1. turn \in Locals /\ turn.pc = "offer" /\ held \subseteq Tickers
    BY DEF TurnTypeOK, OfferRotation, At
  <2>2. turn.stage \in {"loop", "offer", "early", "late"}
    BY <2>1 DEF Locals
  <2> QED
    BY <2>1, <2>2 DEF StageInOrder, At
<1>2. \A k \in DOMAIN audits : audits[k].status # "pending"
  BY <1>1 DEF ListInOrder, Ended, At, Deciding
<1>3. PICK label \in {"done", "retry", "ask"} :
         /\ turn' \in Locals /\ turn'.pc = label
         /\ turn'.stage = (IF label = "retry" THEN "early" ELSE IF label = "ask" THEN "offer" ELSE "loop")
         /\ turn'.list = turn.list /\ turn'.ids = turn.ids
         /\ turn'.i = (IF label = "ask" THEN 1 ELSE turn.i)
         /\ turn'.sellFailed = turn.sellFailed /\ turn'.blocked = turn.blocked
  <2>1. CASE Goto("done")
    BY <1>1, <2>1 DEF Goto, Locals, Labels
  <2>2. CASE turn' = [turn EXCEPT !.pc = "retry", !.stage = "early"]
    BY <1>1, <2>2 DEF Locals, Labels
  <2>3. CASE turn' = [turn EXCEPT !.pc = "ask", !.stage = "offer", !.left = held, !.i = 1]
    BY <1>1, <2>3 DEF Locals, Labels
  <2> QED
    BY <2>1, <2>2, <2>3 DEF OfferRotation
<1>4. label \in Labels
  BY DEF Labels
<1>5. StageInOrder'
  BY <1>1, <1>3 DEF StageInOrder, At, Multi, OfferRotation
<1>6. ListInOrder'
  BY <1>1, <1>2, <1>3 DEF ListInOrder, At, Ended, Deciding, OfferRotation
<1> QED
  BY <1>1, <1>2, <1>3, <1>4, <1>5, <1>6, MoveKeeps DEF OfferRotation, At, Ended, Deciding

-----------------------------------------------------------------------------
(* The steps that settle an audit *)

\* The audit of the decision that is carried out.
LEMMA RecorderFacts ==
    ASSUME TurnInv, turn.pc \in {"skip", "attempt", "quotes", "outcome", "answered"}
    PROVE  /\ turn.i \in 1..Len(turn.ids) /\ Len(turn.ids) = Len(turn.list)
           /\ Len(turn.ids) \in Nat /\ DOMAIN turn.ids = 1..Len(turn.ids)
           /\ Decision \in Decisions
           /\ Recorder \in DOMAIN audits /\ audits[Recorder].status = "pending"
           /\ audits[Recorder].decision = Decision
           /\ turn.stage \in {"loop", "offer"} => audits[Recorder].by = "model"
           /\ turn.stage # "loop" => Len(turn.list) = 1
           /\ \A j \in DOMAIN turn.ids : turn.ids[j] = Recorder => j = turn.i
<1>1. turn.ids \in Seq(Nat) /\ turn.list \in Seq(Decisions) /\ turn.i \in Nat
  BY DEF TurnInv, TurnTypeOK, Locals
<1>2. /\ turn.i \in 1..(Len(turn.list) + 1) /\ turn.i <= Len(turn.list)
      /\ Len(turn.ids) = Len(turn.list) /\ (turn.stage # "loop" => Len(turn.list) = 1)
  BY DEF TurnInv, ListInOrder, Deciding, At
<1>3. turn.i \in DOMAIN turn.ids /\ turn.i \in DOMAIN turn.list
  BY <1>1, <1>2
<1>4. Decision \in Decisions
  BY <1>1, <1>3 DEF Decision
<1> QED
  BY <1>1, <1>2, <1>3, <1>4 DEF TurnInv, ListInOrder, Deciding, At, Recorder, Decision

\* No trade refers to an audit that is open, but for the trade of the order in progress.
LEMMA OpenHasNoTrade ==
    ASSUME TurnInv, turn.pc \in {"skip", "attempt", "quotes", "outcome", "answered"},
           ~(turn.pc \in {"quotes", "outcome"} /\ turn.result = "executed")
    PROVE  \A n \in Ordered : trades[n].ref # Recorder
BY RecorderFacts DEF TurnInv, TradesInOrder, Ended

\* The audit gets its outcome, and the turn goes on to the next decision, if any.
LEMMA SettleKeeps ==
    ASSUME TurnInv, turn.pc \in {"skip", "outcome", "answered"},
           NEW status \in {"executed", "rejected", "hold", "not_attempted"}, SetStatus(status),
           UNCHANGED <<arch, held, trades, steps, count>>,
           turn' \in Locals, turn'.list = turn.list, turn'.ids = turn.ids, turn'.stage = turn.stage,
           \/ turn'.pc = "loop" /\ turn.stage = "loop" /\ turn'.i = turn.i + 1
           \/ turn'.pc = "done" /\ turn.stage # "loop" /\ turn'.i = turn.i
           \/ turn'.pc = "sold" /\ turn.stage = "offer" /\ turn'.i = turn.i,
           status = "executed" <=> At("outcome") /\ turn.result = "executed",
           \/ turn'.blocked = turn.blocked
           \/ /\ turn.stage = "loop" /\ turn'.blocked = Decision
              /\ status = "rejected" /\ Decision.decision = "BUY",
           Multi => \/ turn'.sellFailed
                    \/ ~turn.sellFailed /\ (status = "executed" \/ Decision.decision # "SELL")
    PROVE  TurnStepIsSafe
<1> USE DEF TurnInv
<1>1. /\ audits' \in Seq(AuditRow) /\ Len(audits') = Len(audits) /\ DOMAIN audits' = DOMAIN audits
      /\ audits'[Recorder].status = status
      /\ \A k \in DOMAIN audits :
            /\ k # Recorder => audits'[k] = audits[k]
            /\ audits'[k].by = audits[k].by /\ audits'[k].decision = audits[k].decision
  BY RecorderFacts, StatusEffect
<1>2. TurnTypeOK'
  BY <1>1 DEF TurnTypeOK
<1>3. turn.stage \in {"loop", "offer", "early", "late"} /\ Multi' = Multi /\ Ordered' = Ordered
  BY DEF TurnTypeOK, Locals, Multi, Ordered
<1>4. StageInOrder'
  BY <1>3, DecisionFacts DEF StageInOrder, At
<1>5. /\ turn.i \in 1..Len(turn.ids) /\ Len(turn.ids) = Len(turn.list)
      /\ Len(turn.ids) \in Nat /\ DOMAIN turn.ids = 1..Len(turn.ids)
      /\ Recorder \in DOMAIN audits /\ audits[Recorder].status = "pending"
      /\ audits[Recorder].decision = Decision /\ Recorder = turn.ids[turn.i]
      /\ \A j \in DOMAIN turn.ids : turn.ids[j] = Recorder => j = turn.i
      /\ turn.stage # "loop" => Len(turn.list) = 1
      /\ turn.stage \in {"loop", "offer"} => audits[Recorder].by = "model"
  BY RecorderFacts DEF Recorder
<1>6. \A k \in DOMAIN audits : audits'[k].status = "pending" =>
         k # Recorder /\ \E j \in DOMAIN turn.ids : turn.ids[j] = k /\ j # turn.i
  BY <1>1, <1>5 DEF ListInOrder, Ended
<1>7. ListInOrder'
  <2>1. \A j \in DOMAIN turn.ids :
           /\ turn.ids[j] \in DOMAIN audits'
           /\ audits'[turn.ids[j]].decision = turn.list[j]
           /\ turn.stage \in {"loop", "offer"} => audits'[turn.ids[j]].by = "model"
           /\ audits'[turn.ids[j]].status = "pending" <=> j >= turn.i + 1
    <3> SUFFICES ASSUME NEW j \in DOMAIN turn.ids
                 PROVE  /\ turn.ids[j] \in DOMAIN audits'
                        /\ audits'[turn.ids[j]].decision = turn.list[j]
                        /\ turn.stage \in {"loop", "offer"} => audits'[turn.ids[j]].by = "model"
                        /\ audits'[turn.ids[j]].status = "pending" <=> j >= turn.i + 1
      OBVIOUS
    <3>1. /\ turn.ids[j] \in DOMAIN audits /\ audits[turn.ids[j]].decision = turn.list[j]
          /\ turn.stage \in {"loop", "offer"} => audits[turn.ids[j]].by = "model"
          /\ audits[turn.ids[j]].status = "pending" <=> j >= turn.i
      BY DEF ListInOrder, Deciding, At
    <3> QED
      BY SMTT(30), <1>1, <1>5, <3>1
  <2>2. \A j, k \in DOMAIN turn.ids : turn.ids[j] = turn.ids[k] => j = k
    BY DEF ListInOrder, Deciding, At
  <2>3. CASE turn'.pc = "loop"
    BY SMTT(30), <1>1, <1>3, <1>5, <1>6, <2>1, <2>2, <2>3 DEF ListInOrder, Deciding, At, Ended
  <2>4. CASE turn'.pc = "done"
    BY <2>4 DEF ListInOrder, Deciding, At, Ended
  <2>5. CASE turn'.pc = "sold"
    BY <1>1, <1>5, <1>6, <2>5 DEF ListInOrder, Deciding, At, Ended
  <2> QED
    BY <2>3, <2>4, <2>5
<1>8. TradesInOrder'
  <2>1. \A n \in Ordered : /\ trades[n].ref \in DOMAIN audits'
                          /\ audits'[trades[n].ref].status = "executed"
    <3> SUFFICES ASSUME NEW n \in Ordered
                 PROVE  trades[n].ref \in DOMAIN audits' /\ audits'[trades[n].ref].status = "executed"
      OBVIOUS
    <3>1. CASE trades[n].ref = Recorder
      BY <1>1, <1>5, <3>1, OpenHasNoTrade DEF At
    <3>2. CASE trades[n].ref # Recorder
      BY <1>1, <3>2 DEF TradesInOrder, Ended
    <3> QED
      BY <3>1, <3>2
  <2>2. \A k \in DOMAIN audits :
           audits'[k].by # "auto" /\ audits'[k].status = "executed" /\ count.rebuilds = 0
              => \E n \in Ordered : trades[n].ref = k /\ trades[n].quote = k
    BY <1>1 DEF TradesInOrder, At
  <2>3. turn'.pc = "done" => \A k \in DOMAIN audits : audits'[k].status # "pending"
    BY <1>5, <1>6
  <2> QED
    BY <1>1, <1>3, <2>1, <2>2, <2>3 DEF TradesInOrder, At, Ended
<1>9. ForcedInOrder'
  BY <1>1, <1>3 DEF ForcedInOrder, Linked, At
<1>10. RotationInOrder'
  <2>1. By("model")' = By("model") /\ By("retry")' = By("retry")
    BY <1>1 DEF By
  <2>2. \A j \in DOMAIN audits : audits[j].status = "rejected" => audits'[j] = audits[j]
    BY <1>1, <1>5
  <2>3. turn'.blocked # Hold =>
          \E j \in By("model") : /\ audits'[j].status = "rejected"
                                 /\ audits'[j].decision = turn'.blocked
                                 /\ turn'.blocked.decision = "BUY"
    <3>1. CASE turn'.blocked = turn.blocked
      BY <2>2, <3>1 DEF RotationInOrder, By
    <3>2. CASE turn'.blocked # turn.blocked
      BY <1>1, <1>5, <3>2 DEF By
    <3> QED
      BY <3>1, <3>2
  <2>4. \A k \in By("retry") : \E j \in By("model") :
          /\ j < k /\ audits'[j].status = "rejected"
          /\ audits'[j].decision = audits'[k].decision /\ audits'[k].decision.decision = "BUY"
    BY <1>1, <2>2 DEF RotationInOrder, By
  <2> QED
    BY <1>3, <2>1, <2>3, <2>4 DEF RotationInOrder, At
<1>11. CommitteeInOrder'
  <2> SUFFICES ASSUME Multi PROVE CommitteeInOrder'
    BY <1>3 DEF CommitteeInOrder
  <2>1. Authorized' = Authorized
    BY DEF Authorized, Proposals, Parsed
  <2>2. turn.list \in Lists /\ Authorized
    BY DEF CommitteeInOrder, Deciding
  <2>3. turn'.i = 2 /\ turn'.pc = "loop" /\ Len(turn.list) = 2 =>
           turn'.sellFailed \/ audits'[turn.ids[1]].status = "executed"
    BY <1>1, <1>5, <2>2, ListFacts DEF Decision
  <2> QED
    BY <1>3, <2>1, <2>2, <2>3 DEF CommitteeInOrder, At, Deciding
<1> QED
  BY <1>2, <1>4, <1>7, <1>8, <1>9, <1>10, <1>11 DEF TurnStepIsSafe, BuyFollowsSell

\* See SettleKeeps.
LEMMA SkipBuyKeeps == TurnInv /\ SkipBuy => TurnStepIsSafe
<1> SUFFICES ASSUME TurnInv, SkipBuy PROVE TurnStepIsSafe
  OBVIOUS
<1>1. turn \in Locals /\ turn.pc = "skip" /\ turn' = [turn EXCEPT !.pc = "loop", !.i = @ + 1]
      /\ Multi /\ turn.stage = "loop" /\ turn.sellFailed
  BY DEF TurnInv, TurnTypeOK, SkipBuy, At, StageInOrder, CommitteeInOrder
<1>2. /\ turn' \in Locals /\ turn'.pc = "loop" /\ turn'.i = turn.i + 1
      /\ turn'.list = turn.list /\ turn'.ids = turn.ids /\ turn'.stage = turn.stage
      /\ turn'.blocked = turn.blocked /\ turn'.sellFailed = turn.sellFailed
  <2> DEFINE n == turn.i + 1
  <2>1. n \in Nat /\ turn.sellFailed \in BOOLEAN /\ turn.blocked \in Decisions
    BY <1>1 DEF Locals
  <2>2. turn' = [turn EXCEPT !.pc = "loop", !.i = n]
    BY <1>1
  <2> HIDE DEF n
  <2>3. turn' = [turn EXCEPT !.pc = "loop", !.i = n, !.sellFailed = turn.sellFailed,
                             !.blocked = turn.blocked]
    BY <1>1, <2>2 DEF Locals
  <2>4. n = turn.i + 1
    BY DEF n
  <2> QED
    BY <1>1, <2>1, <2>3, <2>4, NextEffect
<1> QED
  BY <1>1, <1>2, SettleKeeps DEF SkipBuy, At

\* See SettleKeeps: the model keeps its positions.
LEMMA FollowUpKeeps == TurnInv /\ FollowUp => TurnStepIsSafe
<1> SUFFICES ASSUME TurnInv, FollowUp PROVE TurnStepIsSafe
  OBVIOUS
<1>1. turn \in Locals /\ turn.pc = "answered" /\ turn.stage = "offer" /\ ~Multi
      /\ "attempt" \in Labels /\ "done" \in Labels
  <2>1. turn \in Locals /\ turn.pc = "answered"
    BY DEF TurnInv, TurnTypeOK, FollowUp, At
  <2>2. turn.stage \in {"loop", "offer", "early", "late"}
    BY <2>1 DEF Locals
  <2> QED
    BY <2>1, <2>2 DEF TurnInv, StageInOrder, At, Labels
<1>2. CASE Goto("attempt") /\ UNCHANGED audits
  <2>1. StageInOrder'
    BY <1>1, <1>2, GotoEffect DEF TurnInv, StageInOrder, At, Multi, FollowUp
  <2>2. ListInOrder'
    BY <1>1, <1>2, GotoEffect DEF TurnInv, ListInOrder, At, Ended, Deciding
  <2> QED
    BY <1>1, <1>2, <2>1, <2>2, GotoEffect, MoveKeeps DEF TurnInv, FollowUp, At, Ended, Deciding
<1>3. CASE SetStatus("hold") /\ Goto("done")
  BY <1>1, <1>3, GotoEffect, SettleKeeps DEF TurnInv, FollowUp, At
<1> QED
  BY <1>2, <1>3 DEF FollowUp

\* See SettleKeeps: the outcome of an order.
LEMMA RecordOutcomeKeeps == TurnInv /\ RecordOutcome => TurnStepIsSafe
<1> SUFFICES ASSUME TurnInv, RecordOutcome PROVE TurnStepIsSafe
  OBVIOUS
<1> DEFINE status == IF turn.result = "max_positions_reached" THEN "rejected" ELSE turn.result
           limited == turn.blocked = Hold /\ turn.result = "max_positions_reached"
           failedSell == Multi /\ Decision.decision = "SELL" /\ turn.result # "executed"
<1>1. /\ turn \in Locals /\ turn.pc = "outcome" /\ turn.stage \in {"loop", "offer", "early", "late"}
      /\ turn.result \in {"none", "hold", "rejected", "max_positions_reached", "executed"}
      /\ turn.result # "none" /\ turn.sellFailed \in BOOLEAN
      /\ turn.result = "max_positions_reached" => Decision.decision = "BUY"
      /\ Multi => turn.stage = "loop"
  <2>1. turn \in Locals /\ turn.pc = "outcome"
    BY DEF TurnInv, TurnTypeOK, RecordOutcome, At
  <2> QED
    BY <2>1 DEF TurnInv, Locals, TradesInOrder, At, StageInOrder
<1>2. /\ status \in {"executed", "rejected", "hold", "not_attempted"}
      /\ SetStatus(status) /\ (status = "executed" <=> turn.result = "executed")
      /\ limited => status = "rejected"
  BY <1>1 DEF RecordOutcome
<1>3. Decision \in Decisions
  BY <1>1, RecorderFacts
<1>4. turn' = AfterAttempt
  BY DEF RecordOutcome
<1>5. CASE turn.stage = "loop"
  <2> DEFINE failed == turn.sellFailed \/ failedSell
             blocked == IF limited THEN Decision ELSE turn.blocked
             n == turn.i + 1
  <2>1. turn' = [turn EXCEPT !.pc = "loop", !.i = n, !.sellFailed = failed, !.blocked = blocked]
    BY <1>4, <1>5 DEF AfterAttempt
  <2>2. failed \in BOOLEAN /\ blocked \in Decisions /\ n \in Nat
    BY <1>1, <1>3 DEF Locals
  <2> HIDE DEF failed, blocked, n
  <2>3. /\ turn' \in Locals /\ turn'.pc = "loop" /\ turn'.i = turn.i + 1
        /\ turn'.list = turn.list /\ turn'.ids = turn.ids /\ turn'.stage = turn.stage
        /\ turn'.blocked = blocked /\ turn'.sellFailed = failed
    BY <1>1, <2>1, <2>2, NextEffect DEF n
  <2> HIDE DEF status
  <2> USE DEF failed, blocked
  <2> QED
    BY <1>1, <1>2, <1>5, <2>3, SettleKeeps DEF RecordOutcome, At
<1>6. CASE turn.stage # "loop"
  <2>1. PICK label \in {"sold", "done"} :
           turn' = [turn EXCEPT !.pc = label] /\ (label = "sold" => turn.stage = "offer")
    BY <1>4, <1>1, <1>6 DEF AfterAttempt
  <2>2. /\ turn' \in Locals /\ turn'.pc = label /\ turn'.i = turn.i
        /\ turn'.list = turn.list /\ turn'.ids = turn.ids /\ turn'.stage = turn.stage
        /\ turn'.blocked = turn.blocked
    BY <1>1, <2>1 DEF Locals, Labels
  <2> HIDE DEF status
  <2> QED
    BY <1>1, <1>2, <1>6, <2>1, <2>2, SettleKeeps DEF RecordOutcome, At
<1> QED
  BY <1>5, <1>6

-----------------------------------------------------------------------------
(* The order and its quotes *)

\* An order is executed under the reference of its audit, or it is not.
LEMMA ExecuteKeeps == TurnInv /\ Execute => TurnStepIsSafe
<1> SUFFICES ASSUME TurnInv, Execute PROVE TurnStepIsSafe
  OBVIOUS
<1> USE DEF TurnInv
<1>1. /\ turn \in Locals /\ turn.pc = "attempt" /\ trades \in Seq(Trade) /\ held \subseteq Tickers
      /\ UNCHANGED <<arch, audits, steps, count>>
  BY DEF TurnTypeOK, Execute, At
<1>2. /\ Decision \in Decisions /\ Recorder \in DOMAIN audits /\ audits[Recorder].status = "pending"
      /\ Recorder \in Nat /\ Recorder > 0 /\ audits \in Seq(AuditRow)
  BY <1>1, RecorderFacts DEF TurnTypeOK
<1>3. PICK result \in {"hold", "rejected", "max_positions_reached", "executed"} :
         /\ Completing(result)
         /\ result = "max_positions_reached" => Decision.decision = "BUY"
         /\ IF result = "executed"
            THEN /\ Decision.decision \in {"BUY", "SELL"} /\ held' \in HeldAfter(Decision)
                 /\ trades' = Append(trades, [action |-> Decision.decision, ticker |-> Decision.ticker,
                                              ref |-> Recorder, quote |-> -1])
            ELSE UNCHANGED <<held, trades>>
  BY Zenon DEF Execute
<1>4. /\ turn' \in Locals /\ turn'.pc = "quotes" /\ turn'.result = result
      /\ turn'.stage = turn.stage /\ turn'.list = turn.list /\ turn'.ids = turn.ids
      /\ turn'.i = turn.i /\ turn'.blocked = turn.blocked /\ turn'.left = turn.left
      /\ turn'.sellFailed = turn.sellFailed
  BY <1>1, <1>3 DEF Completing, Locals, Labels
<1>5. Recorder' = Recorder /\ Decision' = Decision /\ Multi' = Multi
  BY <1>1, <1>4 DEF Recorder, Decision, Multi
<1>6. held' \subseteq Tickers
  <2>1. CASE result = "executed"
    BY <1>1, <1>2, <1>3, <2>1, DecisionFacts DEF HeldAfter
  <2>2. CASE result # "executed"
    BY <1>1, <1>3, <2>2
  <2> QED
    BY <2>1, <2>2
<1>7. /\ trades' \in Seq(Trade) /\ \A n \in DOMAIN trades : n \in DOMAIN trades' /\ trades'[n] = trades[n]
      /\ \A n \in DOMAIN trades' \ DOMAIN trades :
            /\ result = "executed" /\ trades'[n].ref = Recorder /\ trades'[n].action = Decision.decision
  <2>1. CASE result = "executed"
    <3> DEFINE row == [action |-> Decision.decision, ticker |-> Decision.ticker,
                       ref |-> Recorder, quote |-> -1]
    <3>1. row \in Trade /\ row.ref = Recorder /\ row.action = Decision.decision
      BY <1>2, <1>3, <2>1, DecisionFacts DEF Trade
    <3>2. trades' = Append(trades, row)
      BY <1>3, <2>1
    <3> HIDE DEF row
    <3> QED
      BY <1>1, <2>1, <3>1, <3>2
  <2>2. CASE result # "executed"
    BY <1>1, <1>3, <2>2
  <2> QED
    BY <2>1, <2>2
<1>8. \A n \in Ordered' : n \in Ordered \/ (n \notin DOMAIN trades /\ n \in DOMAIN trades')
  BY <1>7 DEF Ordered
<1>9. /\ Ordered \subseteq Ordered'
      /\ DOMAIN trades' \ Ordered' = DOMAIN trades \ Ordered
  BY <1>2, <1>7 DEF Ordered
<1>10. TurnTypeOK'
  BY <1>1, <1>4, <1>6, <1>7 DEF TurnTypeOK
<1>11. StageInOrder'
  BY <1>1, <1>4, <1>5 DEF StageInOrder, At
<1>12. ListInOrder'
  BY <1>1, <1>4 DEF ListInOrder, At, Ended, Deciding
<1>13. TradesInOrder'
  <2>1. ASSUME NEW n \in Ordered'
        PROVE  /\ trades'[n].ref \in DOMAIN audits
               /\ audits[trades'[n].ref].status \in {"executed", "pending"}
               /\ audits[trades'[n].ref].status = "pending" =>
                     result = "executed" /\ trades'[n].ref = Recorder
    <3>1. CASE n \in Ordered
      BY <1>1, <1>7, <3>1 DEF TradesInOrder, Ended, Ordered
    <3>2. CASE n \notin Ordered
      BY <1>2, <1>7, <1>8, <3>2
    <3> QED
      BY <3>1, <3>2
  <2>2. \A k \in DOMAIN audits :
           audits[k].by # "auto" /\ audits[k].status = "executed" /\ count.rebuilds = 0
              => \E n \in Ordered' : trades'[n].ref = k /\ trades'[n].quote = k
    BY <1>7, <1>9 DEF TradesInOrder, Ordered
  <2> QED
    BY <1>1, <1>3, <1>4, <1>5, <2>1, <2>2 DEF TradesInOrder, At, Ended
<1>14. ForcedInOrder'
  <2>1. \A n \in DOMAIN trades \ Ordered : trades'[n] = trades[n]
    BY <1>7
  <2> QED
    BY <1>1, <1>4, <1>9, <2>1 DEF ForcedInOrder, Linked, At
<1>15. RotationInOrder'
  <2>1. By("model")' = By("model") /\ By("retry")' = By("retry")
    BY <1>1 DEF By
  <2> QED
    BY <1>1, <1>4, <1>5, <2>1 DEF RotationInOrder, At
<1>16. CommitteeInOrder'
  <2>1. Authorized' = Authorized
    BY <1>1 DEF Authorized, Proposals, Parsed
  <2> QED
    BY <1>1, <1>4, <1>5, <2>1 DEF CommitteeInOrder, At, Deciding
<1>17. BuyFollowsSell
  <2> SUFFICES ASSUME NEW n \in DOMAIN trades' \ DOMAIN trades, Multi, Len(turn.list) = 2,
                      trades'[n].action = "BUY"
               PROVE  \E k \in DOMAIN audits :
                         audits[k].decision = turn.list[1] /\ audits[k].status = "executed"
    BY DEF BuyFollowsSell
  <2>1. Decision.decision = "BUY" /\ turn.list \in Lists /\ ~turn.sellFailed
    BY <1>1, <1>7 DEF CommitteeInOrder, Deciding, At
  <2>2. turn.i \in 1..2 /\ Len(turn.ids) = 2
    BY <1>1, RecorderFacts
  <2>3. turn.i = 2
    BY <2>1, <2>2, ListFacts DEF Decision
  <2>4. audits[turn.ids[1]].status = "executed"
    BY <1>1, <2>1, <2>3 DEF CommitteeInOrder
  <2>5. turn.ids[1] \in DOMAIN audits /\ audits[turn.ids[1]].decision = turn.list[1]
    BY <1>1, <2>2, RecorderFacts DEF ListInOrder, Deciding
  <2> QED
    BY <2>4, <2>5
<1> QED
  BY <1>10, <1>11, <1>12, <1>13, <1>14, <1>15, <1>16, <1>17 DEF TurnStepIsSafe

\* The quote of the order refers to the audit.
LEMMA RecordQuotesKeeps == TurnInv /\ RecordQuotes => TurnStepIsSafe
<1> SUFFICES ASSUME TurnInv, RecordQuotes PROVE TurnStepIsSafe
  OBVIOUS
<1> USE DEF TurnInv
<1>1. turn.pc = "quotes" /\ "outcome" \in Labels /\ UNCHANGED <<arch, held, audits, steps, count>>
  BY DEF RecordQuotes, At, Labels
<1>2. /\ turn' \in Locals /\ turn'.pc = "outcome" /\ turn'.result = turn.result
      /\ turn'.stage = turn.stage /\ turn'.list = turn.list /\ turn'.ids = turn.ids
      /\ turn'.i = turn.i /\ turn'.blocked = turn.blocked /\ turn'.left = turn.left
      /\ turn'.sellFailed = turn.sellFailed
  BY <1>1, GotoEffect DEF RecordQuotes
<1>3. Recorder' = Recorder /\ Decision' = Decision /\ Multi' = Multi
  BY <1>1, <1>2 DEF Recorder, Decision, Multi
<1>4. Recorder \in DOMAIN audits /\ Recorder \in Nat /\ audits[Recorder].status = "pending" /\ Recorder > 0
  BY <1>1, RecorderFacts DEF TurnTypeOK
<1>5. /\ trades' \in Seq(Trade) /\ DOMAIN trades' = DOMAIN trades /\ Ordered' = Ordered
      /\ \A n \in DOMAIN trades :
            /\ trades'[n].ref = trades[n].ref /\ trades'[n].ticker = trades[n].ticker
            /\ trades[n].ref # Recorder => trades'[n] = trades[n]
      /\ turn.result = "executed" =>
            \E n \in Ordered : trades[n].ref = Recorder /\ trades'[n].quote = Recorder
  <2>1. CASE turn.result = "executed"
    <3>1. PICK n \in DOMAIN trades : /\ trades[n].ref = Recorder
                                    /\ trades' = [trades EXCEPT ![n].quote = Recorder]
      BY <2>1 DEF RecordQuotes, LinkQuote
    <3>2. n \in Ordered
      BY <1>4, <3>1 DEF Ordered
    <3> QED
      BY <1>4, <3>1, <3>2, QuoteEffect
  <2>2. CASE turn.result # "executed"
    BY <2>2 DEF RecordQuotes, TurnTypeOK, Ordered
  <2> QED
    BY <2>1, <2>2
<1>6. TurnTypeOK'
  BY <1>1, <1>2, <1>5 DEF TurnTypeOK
<1>7. StageInOrder'
  BY <1>1, <1>2, <1>3 DEF StageInOrder, At
<1>8. ListInOrder'
  BY <1>1, <1>2 DEF ListInOrder, At, Ended, Deciding
<1>9. TradesInOrder'
  <2>1. \A n \in Ordered :
           /\ trades'[n].ref \in DOMAIN audits
           /\ audits[trades'[n].ref].status \in {"executed", "pending"}
           /\ audits[trades'[n].ref].status = "pending" =>
                 turn.result = "executed" /\ trades'[n].ref = Recorder
    BY <1>1, <1>5 DEF TradesInOrder, Ended, Ordered
  <2>2. \A k \in DOMAIN audits :
           audits[k].by # "auto" /\ audits[k].status = "executed" /\ count.rebuilds = 0
              => \E n \in Ordered : trades'[n].ref = k /\ trades'[n].quote = k
    <3> SUFFICES ASSUME NEW k \in DOMAIN audits, audits[k].by # "auto",
                        audits[k].status = "executed", count.rebuilds = 0
                 PROVE  \E n \in Ordered : trades'[n].ref = k /\ trades'[n].quote = k
      OBVIOUS
    <3>1. PICK n \in Ordered : trades[n].ref = k /\ trades[n].quote = k
      BY DEF TradesInOrder
    <3>2. k # Recorder /\ n \in DOMAIN trades
      BY <1>4 DEF Ordered
    <3> QED
      BY <1>5, <3>1, <3>2
  <2>3. turn.result # "none" /\ (turn.result = "max_positions_reached" => Decision.decision = "BUY")
    BY <1>1 DEF TradesInOrder
  <2>4. turn.result = "executed" =>
           \E n \in Ordered : trades'[n].ref = Recorder /\ trades'[n].quote = Recorder
    BY <1>5 DEF Ordered
  <2> QED
    BY <1>1, <1>2, <1>3, <1>5, <2>1, <2>2, <2>3, <2>4 DEF TradesInOrder, At, Ended
<1>10. ForcedInOrder'
  <2>1. \A n \in DOMAIN trades \ Ordered : trades'[n] = trades[n]
    BY <1>4, <1>5 DEF Ordered
  <2> QED
    BY <1>1, <1>2, <1>5, <2>1 DEF ForcedInOrder, Linked, At
<1>11. RotationInOrder'
  <2>1. By("model")' = By("model") /\ By("retry")' = By("retry")
    BY <1>1 DEF By
  <2> QED
    BY <1>1, <1>2, <1>3, <2>1 DEF RotationInOrder, At
<1>12. CommitteeInOrder'
  <2>1. Authorized' = Authorized
    BY <1>1 DEF Authorized, Proposals, Parsed
  <2> QED
    BY <1>1, <1>2, <1>3, <1>5, <2>1 DEF CommitteeInOrder, At, Deciding
<1> QED
  BY <1>5, <1>6, <1>7, <1>8, <1>9, <1>10, <1>11, <1>12 DEF TurnStepIsSafe, BuyFollowsSell

-----------------------------------------------------------------------------
(* The steps that write an audit *)

\* No trade is waiting for its outcome where an audit is written.
LEMMA TradesAfterAudit ==
    ASSUME TurnInv, turn.pc \in {"forced", "ask", "emit", "retry"},
           NEW by, NEW response, NEW status, NEW d,
           [by |-> by, response |-> response, status |-> status, decision |-> d] \in AuditRow,
           Audit(by, response, status, d), status = "executed" => by = "auto",
           UNCHANGED <<trades, count>>, turn'.pc \notin {"quotes", "outcome"},
           turn'.pc = "done" => turn.pc = "ask" /\ status # "pending"
    PROVE  TradesInOrder'
<1> USE DEF TurnInv
<1>1. /\ Len(audits) \in Nat /\ DOMAIN audits' = DOMAIN audits \cup {Len(audits) + 1}
      /\ \A k \in DOMAIN audits : audits'[k] = audits[k]
      /\ audits'[Len(audits) + 1].by = by /\ audits'[Len(audits) + 1].status = status
  BY AuditEffect
<1>2. Ordered' = Ordered
  BY DEF Ordered
<1>3. \A n \in Ordered : trades[n].ref \in DOMAIN audits' /\ audits'[trades[n].ref].status = "executed"
  BY <1>1 DEF TradesInOrder, Ended
<1>4. \A k \in DOMAIN audits' :
         audits'[k].by # "auto" /\ audits'[k].status = "executed" /\ count.rebuilds = 0
            => \E n \in Ordered : trades[n].ref = k /\ trades[n].quote = k
  BY <1>1 DEF TradesInOrder
<1>5. turn'.pc = "done" => \A k \in DOMAIN audits' : audits'[k].status # "pending"
  <2> SUFFICES ASSUME turn'.pc = "done" PROVE \A k \in DOMAIN audits' : audits'[k].status # "pending"
    OBVIOUS
  <2>1. \A k \in DOMAIN audits : audits[k].status # "pending"
    BY DEF ListInOrder, Ended, Deciding
  <2> QED
    BY <1>1, <2>1
<1> QED
  BY <1>2, <1>3, <1>4, <1>5 DEF TradesInOrder, At

\* What the quotes of the forced sales refer to stays.
LEMMA LinkedAfterAudit ==
    ASSUME TurnInv,
           NEW by, NEW response, NEW status, NEW d,
           [by |-> by, response |-> response, status |-> status, decision |-> d] \in AuditRow,
           Audit(by, response, status, d), UNCHANGED trades
    PROVE  \A n \in DOMAIN trades : Linked(n) => Linked(n)'
<1>1. /\ DOMAIN audits' = DOMAIN audits \cup {Len(audits) + 1}
      /\ \A k \in DOMAIN audits : audits'[k] = audits[k]
  BY AuditEffect DEF TurnInv
<1> QED
  BY <1>1 DEF Linked

\* A forced sale gets an audit of its own.
LEMMA ForcedSellAuditKeeps == TurnInv /\ ForcedSellAudit => TurnStepIsSafe
<1> SUFFICES ASSUME TurnInv, ForcedSellAudit PROVE TurnStepIsSafe
  OBVIOUS
<1> USE DEF TurnInv
<1>1. PICK t \in turn.left :
         /\ Audit("auto", "parsed", "executed", [decision |-> "SELL", ticker |-> t])
         /\ turn' = [turn EXCEPT !.pc = "forcedQuotes", !.left = @ \ {t}]
  BY DEF ForcedSellAudit
<1> DEFINE sale == [decision |-> "SELL", ticker |-> t]
<1>2. /\ turn \in Locals /\ turn.pc = "forced" /\ turn.left \subseteq Tickers
      /\ turn.stage = "loop" /\ turn.stage \in {"loop", "offer", "early", "late"}
      /\ UNCHANGED <<arch, held, trades, steps, count>>
  <2>1. turn \in Locals /\ turn.pc = "forced"
    BY DEF TurnTypeOK, ForcedSellAudit, At
  <2>2. turn.stage \in {"loop", "offer", "early", "late"} /\ turn.left \subseteq Tickers
    BY <2>1 DEF Locals
  <2> QED
    BY <2>1, <2>2 DEF StageInOrder, At, ForcedSellAudit
<1>3. /\ turn' \in Locals /\ turn'.pc = "forcedQuotes" /\ turn'.left = turn.left \ {t}
      /\ turn'.stage = "loop" /\ turn'.list = turn.list /\ turn'.ids = turn.ids
      /\ turn'.i = turn.i /\ turn'.blocked = turn.blocked
  <2> DEFINE rest == turn.left \ {t}
  <2>1. rest \in SUBSET Tickers /\ "forcedQuotes" \in Labels
    BY <1>2 DEF Labels
  <2>2. turn' = [turn EXCEPT !.pc = "forcedQuotes", !.left = rest]
    BY <1>1
  <2> HIDE DEF rest
  <2>3. /\ turn' \in Locals /\ turn'.pc = "forcedQuotes" /\ turn'.left = rest
        /\ turn'.stage = turn.stage /\ turn'.list = turn.list /\ turn'.ids = turn.ids
        /\ turn'.i = turn.i /\ turn'.blocked = turn.blocked
    BY <1>2, <2>1, <2>2 DEF Locals
  <2> QED
    BY <1>2, <2>3 DEF rest
<1>4. sale \in Decisions /\ sale.ticker = t
  BY <1>2, DecisionFacts
<1> HIDE DEF sale
<1>5. [by |-> "auto", response |-> "parsed", status |-> "executed", decision |-> sale] \in AuditRow
  BY <1>4 DEF AuditRow
<1>6. Audit("auto", "parsed", "executed", sale)
  BY <1>1 DEF sale
<1>7. /\ audits' \in Seq(AuditRow)
      /\ Len(audits) \in Nat /\ Len(audits') = Len(audits) + 1
      /\ DOMAIN audits' = DOMAIN audits \cup {Len(audits) + 1}
      /\ DOMAIN audits = 1..Len(audits)
      /\ \A k \in DOMAIN audits : audits'[k] = audits[k]
      /\ audits'[Len(audits) + 1].by = "auto" /\ audits'[Len(audits) + 1].status = "executed"
      /\ audits'[Len(audits) + 1].decision = sale
  BY <1>5, <1>6, AuditEffect
<1>8. Multi' = Multi /\ Ordered' = Ordered
  BY <1>2 DEF Multi, Ordered
<1>9. TurnTypeOK'
  BY <1>2, <1>3, <1>7 DEF TurnTypeOK
<1>10. StageInOrder'
  BY <1>2, <1>3, <1>8 DEF StageInOrder, At
<1>11. ListInOrder'
  BY <1>2, <1>3, <1>7 DEF ListInOrder, At, Ended, Deciding
<1>12. TradesInOrder'
  BY <1>2, <1>3, <1>5, <1>6, TradesAfterAudit
<1>13. ForcedInOrder'
  <2>1. \A n \in DOMAIN trades : Linked(n) => Linked(n)'
    BY <1>2, <1>5, <1>6, LinkedAfterAudit
  <2>2. audits' # <<>> /\ audits'[Len(audits')].decision.ticker = t
    BY <1>4, <1>7
  <2> QED
    BY <1>2, <1>3, <1>8, <2>1, <2>2 DEF ForcedInOrder, At
<1>14. RotationInOrder'
  <2>1. By("model")' = By("model") /\ By("retry")' = By("retry")
    BY <1>7 DEF By
  <2>2. By("model") \subseteq DOMAIN audits /\ By("retry") \subseteq DOMAIN audits
    BY DEF By
  <2> QED
    BY <1>2, <1>3, <1>7, <1>8, <2>1, <2>2 DEF RotationInOrder, At
<1>15. CommitteeInOrder'
  BY <1>2, <1>3, <1>8 DEF CommitteeInOrder, At, Deciding
<1> QED
  BY <1>2, <1>9, <1>10, <1>11, <1>12, <1>13, <1>14, <1>15 DEF TurnStepIsSafe, BuyFollowsSell

\* And the quote of the sale refers to it.
LEMMA ForcedSellQuotesKeeps == TurnInv /\ ForcedSellQuotes => TurnStepIsSafe
<1> SUFFICES ASSUME TurnInv, ForcedSellQuotes PROVE TurnStepIsSafe
  OBVIOUS
<1> USE DEF TurnInv
<1>1. /\ turn \in Locals /\ turn.pc = "forcedQuotes" /\ "forced" \in Labels
      /\ turn.stage = "loop" /\ audits \in Seq(AuditRow) /\ audits # <<>>
      /\ UNCHANGED <<arch, held, audits, steps, count>>
  <2>1. turn \in Locals /\ turn.pc = "forcedQuotes" /\ "forced" \in Labels
    BY DEF TurnTypeOK, ForcedSellQuotes, At, Labels
  <2>2. turn.stage \in {"loop", "offer", "early", "late"}
    BY <2>1 DEF Locals
  <2> QED
    BY <2>1, <2>2 DEF StageInOrder, At, ForcedSellQuotes, ForcedInOrder, TurnTypeOK
<1>2. /\ turn' \in Locals /\ turn'.pc = "forced" /\ turn'.left = turn.left
      /\ turn'.stage = turn.stage /\ turn'.list = turn.list /\ turn'.ids = turn.ids
      /\ turn'.i = turn.i /\ turn'.blocked = turn.blocked
  BY <1>1, GotoEffect DEF ForcedSellQuotes
<1> DEFINE last == Len(audits)
<1>3. last \in DOMAIN audits /\ last \in Nat
  BY <1>1
<1>4. PICK n \in DOMAIN trades :
         /\ trades[n].ref = 0 /\ trades[n].ticker = audits[last].decision.ticker
         /\ trades' = [trades EXCEPT ![n].quote = last]
  BY DEF ForcedSellQuotes, LinkQuote
<1> HIDE DEF last
<1>5. /\ trades' \in Seq(Trade) /\ DOMAIN trades' = DOMAIN trades
      /\ Ordered' = Ordered /\ trades'[n].quote = last
      /\ \A m \in DOMAIN trades :
            /\ m # n => trades'[m] = trades[m]
            /\ trades'[m].ref = trades[m].ref /\ trades'[m].ticker = trades[m].ticker
  BY <1>3, <1>4, QuoteEffect
<1>6. n \notin Ordered /\ \A m \in Ordered : m \in DOMAIN trades /\ trades'[m] = trades[m]
  BY <1>4, <1>5 DEF Ordered
<1>7. TurnTypeOK'
  BY <1>1, <1>2, <1>5 DEF TurnTypeOK
<1>8. StageInOrder'
  BY <1>1, <1>2 DEF StageInOrder, At, Multi
<1>9. ListInOrder'
  BY <1>1, <1>2 DEF ListInOrder, At, Ended, Deciding
<1>10. TradesInOrder'
  BY <1>1, <1>2, <1>5, <1>6 DEF TradesInOrder, At, Ended
<1>11. ForcedInOrder'
  <2>1. Linked(n)'
    BY <1>1, <1>3, <1>4, <1>5 DEF Linked
  <2>2. \A m \in DOMAIN trades : m # n /\ Linked(m) => Linked(m)'
    BY <1>1, <1>5 DEF Linked
  <2>3. \A m \in DOMAIN trades \ Ordered : trades[m].ticker = audits[last].decision.ticker => m = n
    BY <1>4, <1>6 DEF ForcedInOrder
  <2> QED
    BY <1>1, <1>2, <1>5, <2>1, <2>2, <2>3 DEF ForcedInOrder, At, last
<1>12. RotationInOrder'
  <2>1. By("model")' = By("model") /\ By("retry")' = By("retry")
    BY <1>1 DEF By
  <2> QED
    BY <1>1, <1>2, <2>1 DEF RotationInOrder, At, Multi
<1>13. CommitteeInOrder'
  BY <1>1, <1>2, <1>5 DEF CommitteeInOrder, At, Deciding, Multi
<1> QED
  BY <1>5, <1>7, <1>8, <1>9, <1>10, <1>11, <1>12, <1>13 DEF TurnStepIsSafe, BuyFollowsSell

\* The forced sales themselves: every ticker is sold once.
LEMMA ForcedSellsKeeps == TurnInv /\ ForcedSells => TurnStepIsSafe
<1> SUFFICES ASSUME TurnInv, ForcedSells PROVE TurnStepIsSafe
  OBVIOUS
<1> USE DEF TurnInv
<1>1. /\ turn \in Locals /\ turn.pc = "risk" /\ turn.stage = "loop" /\ trades = <<>>
      /\ held \subseteq Tickers /\ UNCHANGED <<arch, audits, steps, count>>
  <2>1. turn \in Locals /\ turn.pc = "risk"
    BY DEF TurnTypeOK, ForcedSells, At
  <2>2. turn.stage \in {"loop", "offer", "early", "late"}
    BY <2>1 DEF Locals
  <2> QED
    BY <2>1, <2>2 DEF StageInOrder, At, ForcedSells, ForcedInOrder, TurnTypeOK
<1>2. PICK sold \in SUBSET held :
         /\ held' = held \ sold
         /\ trades' = trades \o [n \in 1..Cardinality(sold) |->
               [action |-> "SELL", ticker |-> SetToSeq(sold)[n], ref |-> 0, quote |-> -1]]
         /\ turn' \in {[turn EXCEPT !.pc = "forced", !.left = sold],
                       [turn EXCEPT !.pc = "failed"]}
  BY DEF ForcedSells
<1>3. /\ Cardinality(sold) \in Nat
      /\ \A n \in 1..Cardinality(sold) : SetToSeq(sold)[n] \in sold
      /\ \A m, n \in 1..Cardinality(sold) : SetToSeq(sold)[m] = SetToSeq(sold)[n] => m = n
  <2>1. IsFiniteSet(sold)
    BY <1>1, TickersAssumption, FS_Subset
  <2> QED
    BY <2>1, SequenceOfSet
<1>4. /\ trades' \in Seq(Trade) /\ DOMAIN trades' = 1..Cardinality(sold)
      /\ \A n \in DOMAIN trades' :
            /\ trades'[n].ticker = SetToSeq(sold)[n] /\ trades'[n].ref = 0
            /\ trades'[n].action = "SELL"
  <2> DEFINE row(n) == [action |-> "SELL", ticker |-> SetToSeq(sold)[n], ref |-> 0, quote |-> -1]
             rows == [n \in 1..Cardinality(sold) |-> row(n)]
  <2>1. \A n \in 1..Cardinality(sold) :
           /\ row(n) \in Trade /\ row(n).ticker = SetToSeq(sold)[n] /\ row(n).ref = 0
           /\ row(n).action = "SELL"
    BY <1>1, <1>3 DEF Trade
  <2>2. rows \in Seq(Trade) /\ Len(rows) = Cardinality(sold)
    <3> HIDE DEF row
    <3> QED
      BY <1>3, <2>1
  <2>3. trades' = rows
    BY <1>1, <1>2, <2>2
  <2> QED
    BY <1>3, <2>1, <2>2, <2>3
<1>5. Ordered' = {} /\ Multi' = Multi /\ Ordered = {}
  BY <1>1, <1>4 DEF Ordered, Multi
<1>6. /\ turn' \in Locals /\ turn'.pc \in {"forced", "failed"}
      /\ turn'.pc = "forced" => turn'.left = sold
      /\ turn'.stage = turn.stage /\ turn'.list = turn.list /\ turn'.ids = turn.ids
      /\ turn'.i = turn.i /\ turn'.blocked = turn.blocked
  BY <1>1, <1>2 DEF Locals, Labels
<1>7. TurnTypeOK'
  BY <1>1, <1>2, <1>4, <1>6 DEF TurnTypeOK
<1>8. StageInOrder'
  BY <1>1, <1>5, <1>6 DEF StageInOrder, At
<1>9. ListInOrder'
  BY <1>1, <1>6 DEF ListInOrder, At, Ended, Deciding
<1>10. TradesInOrder'
  BY <1>1, <1>5, <1>6 DEF TradesInOrder, At, Ended
<1>11. ForcedInOrder'
  BY <1>3, <1>4, <1>5, <1>6 DEF ForcedInOrder, At
<1>12. RotationInOrder'
  <2>1. By("model")' = By("model") /\ By("retry")' = By("retry")
    BY <1>1 DEF By
  <2> QED
    BY <1>1, <1>5, <1>6, <2>1 DEF RotationInOrder, At
<1>13. CommitteeInOrder'
  BY <1>1, <1>5, <1>6 DEF CommitteeInOrder, At, Deciding
<1>14. BuyFollowsSell
  BY <1>4 DEF BuyFollowsSell
<1> QED
  BY <1>7, <1>8, <1>9, <1>10, <1>11, <1>12, <1>13, <1>14 DEF TurnStepIsSafe

\* A new audit and the rotation: who wrote what before is what it was.
LEMMA WritersAfterAudit ==
    ASSUME TurnInv,
           NEW by, NEW response, NEW status, NEW d,
           [by |-> by, response |-> response, status |-> status, decision |-> d] \in AuditRow,
           Audit(by, response, status, d)
    PROVE  /\ \A w \in {"model", "retry"} :
                 By(w)' = IF w = by THEN By(w) \cup {Len(audits) + 1} ELSE By(w)
           /\ \A j \in By("model") \cup By("retry") :
                 j \in 1..Len(audits) /\ audits'[j] = audits[j]
<1>1. /\ Len(audits) \in Nat
      /\ DOMAIN audits' = DOMAIN audits \cup {Len(audits) + 1}
      /\ DOMAIN audits = 1..Len(audits)
      /\ \A k \in DOMAIN audits : audits'[k] = audits[k]
      /\ audits'[Len(audits) + 1].by = by
  BY AuditEffect DEF TurnInv
<1> QED
  BY <1>1 DEF By

\* The answer of one model is audited, whatever becomes of it.
LEMMA AskModelKeeps == TurnInv /\ AskModel => TurnStepIsSafe
<1> SUFFICES ASSUME TurnInv, AskModel PROVE TurnStepIsSafe
  OBVIOUS
<1> USE DEF TurnInv
<1>1. /\ turn \in Locals /\ turn.pc = "ask" /\ turn.stage \in {"loop", "offer"} /\ ~Multi
      /\ turn.i = 1 /\ (turn.stage = "loop" => turn.ids = <<>>)
      /\ UNCHANGED <<arch, held, trades, steps, count>>
  <2>1. turn \in Locals /\ turn.pc = "ask"
    BY DEF TurnTypeOK, AskModel, At
  <2>2. turn.stage \in {"loop", "offer", "early", "late"}
    BY <2>1 DEF Locals
  <2> QED
    BY <2>1, <2>2 DEF StageInOrder, At, AskModel, ListInOrder
<1>2. \A k \in DOMAIN audits : audits[k].status # "pending"
  BY <1>1 DEF ListInOrder, Ended, Deciding
<1>3. CASE Goto("done") /\ UNCHANGED audits
  <2>1. "done" \in Labels
    BY DEF Labels
  <2>2. StageInOrder'
    BY <1>1, <1>3, <2>1, GotoEffect DEF StageInOrder, At, Multi
  <2>3. ListInOrder'
    BY <1>1, <1>3, <2>1, GotoEffect DEF ListInOrder, At, Ended, Deciding
  <2> QED
    BY <1>1, <1>2, <1>3, <2>1, <2>2, <2>3, GotoEffect, MoveKeeps DEF At, Ended, Deciding
<1>4. CASE ~(Goto("done") /\ UNCHANGED audits)
  <2>1. PICK response \in {"configuration_failed", "provider_failed", "malformed", "parsed"},
             status \in {"not_attempted", "pending"}, d \in Decisions,
             label \in {"raise", "done", "parsed"} :
           /\ Audit("model", response, status, d)
           /\ status = "pending" <=> label = "parsed"
           /\ IF label = "parsed"
              THEN turn' = [turn EXCEPT !.pc = "parsed", !.list = <<d>>, !.ids = <<Len(audits) + 1>>]
              ELSE Goto(label)
    BY <1>4, DecisionFacts, Zenon DEF AskModel
  <2>2. [by |-> "model", response |-> response, status |-> status, decision |-> d] \in AuditRow
    BY DEF AuditRow
  <2>3. /\ audits' \in Seq(AuditRow)
        /\ Len(audits) \in Nat /\ Len(audits') = Len(audits) + 1
        /\ DOMAIN audits' = DOMAIN audits \cup {Len(audits) + 1}
        /\ DOMAIN audits = 1..Len(audits)
        /\ \A k \in DOMAIN audits : audits'[k] = audits[k]
        /\ audits'[Len(audits) + 1].by = "model" /\ audits'[Len(audits) + 1].status = status
        /\ audits'[Len(audits) + 1].decision = d
    BY <2>1, <2>2, AuditEffect
  <2>4. /\ turn' \in Locals /\ turn'.pc = label
        /\ turn'.stage = turn.stage /\ turn'.i = turn.i /\ turn'.left = turn.left
        /\ turn'.blocked = turn.blocked
        /\ IF label = "parsed" THEN turn'.list = <<d>> /\ turn'.ids = <<Len(audits) + 1>>
                              ELSE turn'.list = turn.list /\ turn'.ids = turn.ids
    <3>1. CASE label = "parsed"
      <4> DEFINE list == <<d>>
                 ids == <<Len(audits) + 1>>
      <4>1. list \in Seq(Decisions) /\ ids \in Seq(Nat) /\ "parsed" \in Labels
        BY <2>3 DEF Labels
      <4>2. turn' = [turn EXCEPT !.pc = "parsed", !.list = list, !.ids = ids]
        BY <2>1, <3>1
      <4> HIDE DEF list, ids
      <4>3. /\ turn' \in Locals /\ turn'.pc = label
            /\ turn'.stage = turn.stage /\ turn'.i = turn.i /\ turn'.left = turn.left
            /\ turn'.blocked = turn.blocked /\ turn'.list = list /\ turn'.ids = ids
        BY <1>1, <3>1, <4>1, <4>2 DEF Locals
      <4> QED
        BY <3>1, <4>3 DEF list, ids
    <3>2. CASE label # "parsed"
      BY <1>1, <2>1, <3>2, GotoEffect DEF Labels
    <3> QED
      BY <3>1, <3>2
  <2>5. Multi' = Multi /\ Ordered' = Ordered
    BY <1>1 DEF Multi, Ordered
  <2>6. TurnTypeOK'
    BY <1>1, <2>3, <2>4 DEF TurnTypeOK
  <2>7. StageInOrder'
    BY <1>1, <2>1, <2>4, <2>5 DEF StageInOrder, At
  <2>8. ListInOrder'
    <3>1. CASE label = "parsed"
      <4>1. Len(turn'.ids) = 1 /\ Len(turn'.list) = 1 /\ DOMAIN turn'.ids = {1}
            /\ turn'.ids[1] = Len(audits) + 1 /\ turn'.list[1] = d
        <5> DEFINE list == <<d>>
                   ids == <<Len(audits) + 1>>
        <5>1. /\ Len(list) = 1 /\ DOMAIN list = 1..1 /\ list[1] = d
              /\ Len(ids) = 1 /\ DOMAIN ids = 1..1 /\ ids[1] = Len(audits) + 1
          OBVIOUS
        <5>2. turn'.list = list /\ turn'.ids = ids /\ 1..1 = {1}
          BY <2>4, <3>1
        <5> HIDE DEF list, ids
        <5> QED
          BY <5>1, <5>2
      <4> QED
        BY <1>1, <1>2, <2>1, <2>3, <2>4, <3>1, <4>1 DEF ListInOrder, At, Ended, Deciding
    <3>2. CASE label # "parsed"
      BY <1>1, <1>2, <2>1, <2>3, <2>4, <3>2 DEF ListInOrder, At, Ended, Deciding
    <3> QED
      BY <3>1, <3>2
  <2>9. TradesInOrder'
    BY <1>1, <2>1, <2>2, <2>4, TradesAfterAudit
  <2>10. ForcedInOrder'
    <3>1. \A n \in DOMAIN trades : Linked(n) => Linked(n)'
      BY <1>1, <2>1, <2>2, LinkedAfterAudit
    <3> QED
      BY <1>1, <2>4, <2>5, <3>1 DEF ForcedInOrder, At
  <2>11. RotationInOrder'
    <3>1. By("model")' = By("model") \cup {Len(audits) + 1} /\ By("retry")' = By("retry")
          /\ \A j \in By("model") \cup By("retry") : audits'[j] = audits[j]
      BY <2>1, <2>2, WritersAfterAudit
    <3>2. By("retry") = {}
      BY <1>1 DEF RotationInOrder
    <3>3. /\ \A j, k \in By("model") : j = k
          /\ turn.stage = "loop" => By("model") = {}
      BY <1>1 DEF RotationInOrder, At
    <3>4. turn'.blocked # Hold =>
            \E j \in By("model") : /\ audits'[j].status = "rejected"
                                   /\ audits'[j].decision = turn'.blocked
                                   /\ turn'.blocked.decision = "BUY"
      BY <2>4, <3>1 DEF RotationInOrder
    <3> HIDE DEF TurnInv
    <3> QED
      BY <1>1, <2>1, <2>4, <3>1, <3>2, <3>3, <3>4 DEF RotationInOrder, At
  <2>12. CommitteeInOrder'
    BY <1>1, <2>5 DEF CommitteeInOrder
  <2> QED
    BY <1>1, <2>6, <2>7, <2>8, <2>9, <2>10, <2>11, <2>12 DEF TurnStepIsSafe, BuyFollowsSell
<1> QED
  BY <1>3, <1>4

\* The decisions of the chair get an audit each.
LEMMA EmitDecisionKeeps == TurnInv /\ EmitDecision => TurnStepIsSafe
<1> SUFFICES ASSUME TurnInv, EmitDecision PROVE TurnStepIsSafe
  OBVIOUS
<1> USE DEF TurnInv
<1> DEFINE n == Len(turn.ids) + 1
           d == turn.list[n]
           label == IF n = Len(turn.list) THEN "loop" ELSE "emit"
           ids == Append(turn.ids, Len(audits) + 1)
<1>1. /\ turn \in Locals /\ turn.pc = "emit" /\ turn.stage = "loop" /\ Multi
      /\ turn.i = 1 /\ Len(turn.ids) < Len(turn.list)
      /\ turn.ids \in Seq(Nat) /\ turn.list \in Seq(Decisions) /\ audits \in Seq(AuditRow)
      /\ UNCHANGED <<arch, held, trades, steps, count>>
  <2>1. turn \in Locals /\ turn.pc = "emit" /\ audits \in Seq(AuditRow)
    BY DEF TurnTypeOK, EmitDecision, At
  <2>2. turn.stage \in {"loop", "offer", "early", "late"} /\ turn.ids \in Seq(Nat)
        /\ turn.list \in Seq(Decisions)
    BY <2>1 DEF Locals
  <2> QED
    BY <2>1, <2>2 DEF StageInOrder, At, EmitDecision, ListInOrder, Deciding
<1>2. /\ n \in Nat /\ n \in DOMAIN turn.list /\ d \in Decisions
      /\ ids \in Seq(Nat) /\ Len(ids) = n /\ DOMAIN ids = 1..n /\ DOMAIN turn.ids = 1..(n - 1)
      /\ ids[n] = Len(audits) + 1 /\ \A j \in 1..(n - 1) : ids[j] = turn.ids[j]
      /\ n <= Len(turn.list) /\ Len(turn.list) \in Nat /\ n >= 1 /\ Len(turn.ids) = n - 1
  BY <1>1
<1>3. Audit("model", "parsed", "pending", d) /\ turn' = [turn EXCEPT !.ids = ids, !.pc = label]
  BY DEF EmitDecision
<1>4. [by |-> "model", response |-> "parsed", status |-> "pending", decision |-> d] \in AuditRow
  BY <1>2 DEF AuditRow
<1>5. label \in {"loop", "emit"} /\ label \in Labels /\ (label = "loop" <=> n = Len(turn.list))
  BY DEF Labels
<1> HIDE DEF ids, label, d, n
<1>6. /\ turn' \in Locals /\ turn'.pc = label /\ turn'.ids = ids
      /\ turn'.stage = turn.stage /\ turn'.i = turn.i /\ turn'.left = turn.left
      /\ turn'.blocked = turn.blocked /\ turn'.list = turn.list /\ turn'.sellFailed = turn.sellFailed
  BY <1>1, <1>2, <1>3, <1>5 DEF Locals
<1>7. /\ audits' \in Seq(AuditRow)
      /\ Len(audits) \in Nat /\ Len(audits') = Len(audits) + 1
      /\ DOMAIN audits' = DOMAIN audits \cup {Len(audits) + 1}
      /\ DOMAIN audits = 1..Len(audits)
      /\ \A k \in DOMAIN audits : audits'[k] = audits[k]
      /\ audits'[Len(audits) + 1].by = "model" /\ audits'[Len(audits) + 1].status = "pending"
      /\ audits'[Len(audits) + 1].decision = d
  BY <1>3, <1>4, AuditEffect
<1>8. Multi' = Multi /\ Ordered' = Ordered
  BY <1>1 DEF Multi, Ordered
<1>9. TurnTypeOK'
  BY <1>1, <1>6, <1>7 DEF TurnTypeOK
<1>10. StageInOrder'
  BY <1>1, <1>5, <1>6, <1>8 DEF StageInOrder, At
<1>11. ListInOrder'
  <2>1. \A j \in 1..(n - 1) :
           /\ turn.ids[j] \in DOMAIN audits /\ audits[turn.ids[j]].decision = turn.list[j]
           /\ audits[turn.ids[j]].by = "model" /\ audits[turn.ids[j]].status = "pending"
           /\ \A k \in 1..(n - 1) : turn.ids[j] = turn.ids[k] => j = k
    <3>1. \A j \in DOMAIN turn.ids :
             /\ turn.ids[j] \in DOMAIN audits
             /\ audits[turn.ids[j]].decision = turn.list[j]
             /\ audits[turn.ids[j]].by = "model"
             /\ audits[turn.ids[j]].status = "pending" <=> j >= 1
             /\ \A k \in DOMAIN turn.ids : turn.ids[j] = turn.ids[k] => j = k
      BY <1>1 DEF ListInOrder, Deciding
    <3> QED
      BY <1>2, <3>1
  <2>2. \A j \in 1..n :
           /\ ids[j] \in DOMAIN audits' /\ audits'[ids[j]].decision = turn.list[j]
           /\ audits'[ids[j]].by = "model" /\ audits'[ids[j]].status = "pending"
           /\ \A k \in 1..n : ids[j] = ids[k] => j = k
    <3> SUFFICES ASSUME NEW j \in 1..n
                 PROVE  /\ ids[j] \in DOMAIN audits' /\ audits'[ids[j]].decision = turn.list[j]
                        /\ audits'[ids[j]].by = "model" /\ audits'[ids[j]].status = "pending"
                        /\ \A k \in 1..n : ids[j] = ids[k] => j = k
      OBVIOUS
    <3>1. CASE j = n
      BY <1>2, <1>7, <2>1, <3>1 DEF d
    <3>2. CASE j # n
      <4>1. j \in 1..(n - 1) /\ ids[j] = turn.ids[j] /\ ids[j] \in DOMAIN audits
        BY <1>2, <2>1, <3>2
      <4>2. ids[n] \notin DOMAIN audits
        BY <1>2, <1>7
      <4>3. \A k \in 1..n : ids[j] = ids[k] => j = k
        <5>1. \A k \in 1..n : k = n \/ (k \in 1..(n - 1) /\ ids[k] = turn.ids[k])
          BY <1>2
        <5>2. \A k \in 1..(n - 1) : turn.ids[j] = turn.ids[k] => j = k
          BY <2>1, <4>1
        <5> QED
          BY <4>1, <4>2, <5>1, <5>2
      <4> QED
        BY <1>7, <2>1, <4>1, <4>3
    <3> QED
      BY <3>1, <3>2
  <2>3. \A k \in DOMAIN audits' : audits'[k].status = "pending" => \E j \in 1..n : ids[j] = k
    <3> SUFFICES ASSUME NEW k \in DOMAIN audits', audits'[k].status = "pending"
                 PROVE  \E j \in 1..n : ids[j] = k
      OBVIOUS
    <3>1. CASE k = Len(audits) + 1
      BY <1>2, <3>1
    <3>2. CASE k # Len(audits) + 1
      <4>1. PICK j \in 1..(n - 1) : turn.ids[j] = k
        BY <1>1, <1>2, <1>7, <3>2 DEF ListInOrder, Ended
      <4> QED
        BY <1>2, <4>1
    <3> QED
      BY <3>1, <3>2
  <2>4. /\ turn'.i \in 1..(Len(turn'.list) + 1) /\ turn'.i <= Len(turn'.list)
        /\ IF turn'.pc = "emit" THEN turn'.i = 1 /\ Len(turn'.ids) < Len(turn'.list)
                               ELSE Len(turn'.ids) = Len(turn'.list)
    BY <1>1, <1>2, <1>5, <1>6
  <2>5. \A j \in DOMAIN turn'.ids :
           /\ turn'.ids[j] \in DOMAIN audits'
           /\ audits'[turn'.ids[j]].decision = turn'.list[j]
           /\ audits'[turn'.ids[j]].by = "model"
           /\ audits'[turn'.ids[j]].status = "pending" <=> j >= turn'.i
           /\ \A k \in DOMAIN turn'.ids : turn'.ids[j] = turn'.ids[k] => j = k
    BY SMTT(30), <1>1, <1>2, <1>6, <2>2
  <2>6. \A k \in DOMAIN audits' :
           audits'[k].status = "pending" => \E j \in DOMAIN turn'.ids : turn'.ids[j] = k
    BY <1>2, <1>6, <2>3
  <2> HIDE DEF TurnInv
  <2> QED
    BY <1>1, <1>5, <1>6, <2>4, <2>5, <2>6 DEF ListInOrder, At, Ended, Deciding
<1>12. TradesInOrder'
  BY <1>1, <1>3, <1>4, <1>5, <1>6, TradesAfterAudit
<1>13. ForcedInOrder'
  <2>1. \A k \in DOMAIN trades : Linked(k) => Linked(k)'
    BY <1>1, <1>3, <1>4, LinkedAfterAudit
  <2> QED
    BY <1>1, <1>5, <1>6, <1>8, <2>1 DEF ForcedInOrder, At
<1>14. RotationInOrder'
  <2>1. By("model")' = By("model") \cup {Len(audits) + 1} /\ By("retry")' = By("retry")
        /\ \A j \in By("model") \cup By("retry") : audits'[j] = audits[j]
    BY <1>3, <1>4, WritersAfterAudit
  <2>2. By("retry") = {}
    BY <1>1 DEF RotationInOrder
  <2> QED
    BY <1>1, <1>6, <1>8, <2>1, <2>2 DEF RotationInOrder, At
<1>15. CommitteeInOrder'
  <2>1. Authorized' = Authorized
    BY <1>1 DEF Authorized, Proposals, Parsed
  <2> QED
    BY <1>1, <1>5, <1>6, <1>8, <2>1 DEF CommitteeInOrder, At, Deciding
<1> QED
  BY <1>1, <1>9, <1>10, <1>11, <1>12, <1>13, <1>14, <1>15 DEF TurnStepIsSafe, BuyFollowsSell

\* The purchase that met the limit is repeated, under an audit of its own.
LEMMA RetryBlockedBuyKeeps == TurnInv /\ RetryBlockedBuy => TurnStepIsSafe
<1> SUFFICES ASSUME TurnInv, RetryBlockedBuy PROVE TurnStepIsSafe
  OBVIOUS
<1> USE DEF TurnInv
<1> DEFINE d == turn.blocked
           list == <<d>>
           ids == <<Len(audits) + 1>>
<1>1. /\ turn \in Locals /\ turn.pc = "retry" /\ turn.stage \in {"early", "late"} /\ ~Multi
      /\ d \in Decisions /\ d # Hold
      /\ UNCHANGED <<arch, held, trades, steps, count>>
  <2>1. turn \in Locals /\ turn.pc = "retry"
    BY DEF TurnTypeOK, RetryBlockedBuy, At
  <2>2. turn.stage \in {"loop", "offer", "early", "late"} /\ d \in Decisions
    BY <2>1 DEF Locals
  <2> QED
    BY <2>1, <2>2 DEF StageInOrder, At, RetryBlockedBuy
<1>2. \A k \in DOMAIN audits : audits[k].status # "pending"
  BY <1>1 DEF ListInOrder, Ended, Deciding
<1>3. [by |-> "retry", response |-> "parsed", status |-> "pending", decision |-> d] \in AuditRow
  BY <1>1 DEF AuditRow
<1>4. /\ Audit("retry", "parsed", "pending", d)
      /\ turn' = [turn EXCEPT !.pc = "attempt", !.list = list, !.ids = ids, !.i = 1]
  BY DEF RetryBlockedBuy
<1> HIDE DEF d
<1>5. /\ audits' \in Seq(AuditRow)
      /\ Len(audits) \in Nat /\ Len(audits') = Len(audits) + 1
      /\ DOMAIN audits' = DOMAIN audits \cup {Len(audits) + 1}
      /\ DOMAIN audits = 1..Len(audits)
      /\ \A k \in DOMAIN audits : audits'[k] = audits[k]
      /\ audits'[Len(audits) + 1].by = "retry" /\ audits'[Len(audits) + 1].status = "pending"
      /\ audits'[Len(audits) + 1].decision = d
  BY <1>3, <1>4, AuditEffect
<1>6. /\ list \in Seq(Decisions) /\ Len(list) = 1 /\ DOMAIN list = 1..1 /\ list[1] = d
      /\ ids \in Seq(Nat) /\ Len(ids) = 1 /\ DOMAIN ids = 1..1 /\ ids[1] = Len(audits) + 1
      /\ 1..1 = {1} /\ "attempt" \in Labels
  BY <1>1, <1>5 DEF Labels
<1> HIDE DEF list, ids
<1>7. /\ turn' \in Locals /\ turn'.pc = "attempt" /\ turn'.ids = ids /\ turn'.i = 1
      /\ turn'.stage = turn.stage /\ turn'.left = turn.left
      /\ turn'.blocked = turn.blocked /\ turn'.list = list
  BY <1>1, <1>4, <1>6 DEF Locals
<1>8. Multi' = Multi /\ Ordered' = Ordered
  BY <1>1 DEF Multi, Ordered
<1>9. TurnTypeOK'
  BY <1>1, <1>5, <1>7 DEF TurnTypeOK
<1>10. StageInOrder'
  BY <1>1, <1>7, <1>8 DEF StageInOrder, At, d
<1>11. ListInOrder'
  <2>1. \A k \in DOMAIN audits : audits[k].status # "pending"
    BY <1>1, <1>2 DEF ListInOrder, Ended, Deciding
  <2>2. Len(audits) + 1 \in DOMAIN audits' /\ DOMAIN audits' = DOMAIN audits \cup {Len(audits) + 1}
    BY <1>5
  <2>3. turn'.stage \in {"early", "late"} /\ turn'.pc \in Deciding
    <3>1. turn.stage \in {"early", "late"}
      BY <1>1 DEF StageInOrder, At
    <3> QED
      BY <3>1, <1>7 DEF Deciding
  <2> HIDE DEF TurnInv, d
  <2>4. 1 \in 1..(Len(turn'.list) + 1) /\ 1 <= Len(turn'.list) /\ Len(turn'.list) = 1
        /\ Len(turn'.ids) = Len(turn'.list)
    <3>1. 1 \in 1..(Len(list) + 1) /\ 1 <= Len(list)
      BY <1>6
    <3> QED
      BY <1>6, <1>7, <3>1
  <2>5. DOMAIN turn'.ids = {1} /\ turn'.ids[1] = Len(audits) + 1 /\ turn'.list[1] = d
    BY <1>6, <1>7
  <2>6. \A j \in DOMAIN turn'.ids :
          /\ turn'.ids[j] \in DOMAIN audits'
          /\ audits'[turn'.ids[j]].decision = turn'.list[j]
          /\ audits'[turn'.ids[j]].status = "pending" <=> j >= 1
          /\ \A k \in DOMAIN turn'.ids : turn'.ids[j] = turn'.ids[k] => j = k
    BY <1>5, <2>2, <2>5
  <2>7. \A k \in DOMAIN audits' : audits'[k].status = "pending"
          => \E j \in DOMAIN turn'.ids : turn'.ids[j] = k
    BY <1>5, <2>1, <2>2, <2>5
  <2> QED
    BY <1>7, <2>3, <2>4, <2>6, <2>7 DEF ListInOrder, At, Ended
<1>12. TradesInOrder'
  BY <1>1, <1>3, <1>4, <1>7, TradesAfterAudit
<1>13. ForcedInOrder'
  <2>1. \A k \in DOMAIN trades : Linked(k) => Linked(k)'
    BY <1>1, <1>3, <1>4, LinkedAfterAudit
  <2> QED
    BY <1>1, <1>7, <1>8, <2>1 DEF ForcedInOrder, At
<1>14. RotationInOrder'
  <2>1. By("retry")' = By("retry") \cup {Len(audits) + 1} /\ By("model")' = By("model")
        /\ \A j \in By("model") : j \in 1..Len(audits) /\ audits'[j] = audits[j]
    BY <1>3, <1>4, WritersAfterAudit
  <2>2. By("retry") = {}
    BY <1>1 DEF RotationInOrder, At
  <2>3. PICK j \in By("model") : /\ audits[j].status = "rejected" /\ audits[j].decision = d
                                /\ d.decision = "BUY"
    BY <1>1 DEF RotationInOrder, d
  <2>4. j < Len(audits) + 1
    BY <1>5, <2>1
  <2>5. \A k \in By("retry")' :
          /\ j \in By("model")' /\ j < k /\ audits'[j].status = "rejected"
          /\ audits'[j].decision = audits'[k].decision /\ audits'[k].decision.decision = "BUY"
    BY <1>5, <2>1, <2>2, <2>3, <2>4
  <2>6. turn'.blocked # Hold =>
          \E l \in By("model")' : /\ audits'[l].status = "rejected"
                                  /\ audits'[l].decision = turn'.blocked
                                  /\ turn'.blocked.decision = "BUY"
    BY <1>7, <2>1, <2>3 DEF d
  <2>7. ~Multi => \A i, k, l \in By("model") : i = k \/ k = l \/ i = l
    BY DEF RotationInOrder
  <2> HIDE DEF TurnInv
  <2> QED
    BY <1>1, <1>7, <1>8, <2>1, <2>2, <2>5, <2>6, <2>7 DEF RotationInOrder, At
<1>15. CommitteeInOrder'
  BY <1>1, <1>8 DEF CommitteeInOrder
<1> QED
  BY <1>1, <1>9, <1>10, <1>11, <1>12, <1>13, <1>14, <1>15 DEF TurnStepIsSafe, BuyFollowsSell

-----------------------------------------------------------------------------
(* The committee *)

\* A review, or another attempt at one.
LEMMA AttemptKeeps ==
    ASSUME TurnInv, turn.pc = "ask", Multi, NEW n \in 0..Attempts,
           turn' = [turn EXCEPT !.tries = n], steps' \in Seq(StepRow),
           UNCHANGED <<arch, held, trades, audits, count>>
    PROVE  TurnStepIsSafe
<1> USE DEF TurnInv
<1>1. /\ turn' \in Locals /\ turn'.pc = turn.pc /\ turn'.ids = turn.ids /\ turn'.i = turn.i
      /\ turn'.stage = turn.stage /\ turn'.left = turn.left /\ turn'.result = turn.result
      /\ turn'.blocked = turn.blocked /\ turn'.list = turn.list /\ turn'.sellFailed = turn.sellFailed
  BY DEF TurnTypeOK, Locals
<1>2. Multi' = Multi /\ Ordered' = Ordered /\ Recorder' = Recorder /\ Decision' = Decision
      /\ By("model")' = By("model") /\ By("retry")' = By("retry")
  BY <1>1 DEF Multi, Ordered, Recorder, Decision, By
<1>3. TurnTypeOK' /\ StageInOrder' /\ ListInOrder'
  BY <1>1, <1>2 DEF TurnTypeOK, StageInOrder, ListInOrder, At, Ended, Deciding
<1>4. TradesInOrder' /\ ForcedInOrder'
  BY <1>1, <1>2 DEF TradesInOrder, ForcedInOrder, Linked, At, Ended
<1>5. RotationInOrder'
  BY <1>1, <1>2 DEF RotationInOrder, At
<1>6. CommitteeInOrder'
  BY <1>1, <1>2 DEF CommitteeInOrder, At, Deciding
<1> QED
  BY <1>3, <1>4, <1>5, <1>6 DEF TurnStepIsSafe, BuyFollowsSell

\* A step of the committee is there to be read afterwards.
LEMMA StepEffect ==
    ASSUME TurnTypeOK, NEW role, NEW status, [role |-> role, status |-> status] \in StepRow,
           Step(role, status)
    PROVE  /\ steps' \in Seq(StepRow) /\ Len(steps) \in Nat /\ Len(steps') = Len(steps) + 1
           /\ \A k \in DOMAIN steps : k \in DOMAIN steps' /\ steps'[k] = steps[k]
           /\ Len(steps') \in DOMAIN steps'
           /\ steps'[Len(steps')].role = role /\ steps'[Len(steps')].status = status
<1> DEFINE row == [role |-> role, status |-> status]
<1>1. row.role = role /\ row.status = status
  OBVIOUS
<1>2. steps \in Seq(StepRow) /\ row \in StepRow /\ steps' = Append(steps, row)
  BY DEF TurnTypeOK, Step
<1> HIDE DEF row
<1> QED
  BY <1>1, <1>2

\* The reviews of the advisers and of the fallback for the risk review.
LEMMA ReviewKeeps == TurnInv /\ Review => TurnStepIsSafe
<1> SUFFICES ASSUME TurnInv, Review PROVE TurnStepIsSafe
  OBVIOUS
<1>1. /\ turn.pc = "ask" /\ Multi /\ UNCHANGED <<arch, held, trades, audits, count>>
      /\ turn \in Locals /\ turn.tries \in 0..Attempts /\ Attempts \in Nat \ {0}
      /\ steps \in Seq(StepRow)
  BY ParameterAssumption DEF Review, At, TurnInv, TurnTypeOK, Locals
<1>2. CASE CallFails
  <2> DEFINE n == turn.tries + 1
  <2>1. n \in 0..Attempts /\ turn' = [turn EXCEPT !.tries = n] /\ steps' = steps
    BY <1>1, <1>2 DEF CallFails
  <2> HIDE DEF n
  <2> QED
    BY <1>1, <2>1, AttemptKeeps
<1>3. CASE ~CallFails
  <2>1. PICK status \in {"provider_failed", "malformed", "parsed"} :
           Step(NextRole, status) /\ turn' = [turn EXCEPT !.tries = 0]
    BY <1>3 DEF Review
  <2>2. NextRole \in {"quality", "momentum", "risk", "chair"}
    <3>1. Len(steps) \in Nat
      BY <1>1
    <3>2. Advisers[1] = "quality" /\ Advisers[2] = "momentum" /\ Advisers[3] = "risk"
      BY DEF Advisers
    <3>3. Len(steps) < 3 => Len(steps) + 1 \in {1, 2, 3}
      BY <3>1
    <3> QED
      BY <3>2, <3>3 DEF NextRole
  <2>3. [role |-> NextRole, status |-> status] \in StepRow
    BY <2>2 DEF StepRow
  <2>4. steps' \in Seq(StepRow)
    BY <2>1, <2>3, StepEffect DEF TurnInv
  <2> QED
    BY <1>1, <2>1, <2>4, AttemptKeeps
<1> QED
  BY <1>2, <1>3

\* No decision is authorized.
LEMMA FailClosedKeeps ==
    ASSUME TurnInv, turn.pc = "ask", Multi, NEW response \in {"provider_failed", "malformed"},
           FailClosed(response), UNCHANGED <<arch, held, trades, count>>
    PROVE  TurnStepIsSafe
<1> USE DEF TurnInv
<1>1. /\ Step("chair", response) /\ Audit("model", response, "not_attempted", Hold)
      /\ Goto("failed") /\ "failed" \in Labels
  BY DEF FailClosed, Labels
<1>2. /\ [by |-> "model", response |-> response, status |-> "not_attempted", decision |-> Hold] \in AuditRow
      /\ [role |-> "chair", status |-> response] \in StepRow
  BY DecisionFacts DEF AuditRow, StepRow
<1>3. /\ turn' \in Locals /\ turn'.pc = "failed" /\ turn'.stage = turn.stage
      /\ turn'.blocked = turn.blocked
  BY <1>1, GotoEffect
<1>4. Multi' = Multi /\ Ordered' = Ordered
  BY DEF Multi, Ordered
<1>5. audits' \in Seq(AuditRow) /\ steps' \in Seq(StepRow)
  BY <1>1, <1>2, AuditEffect, StepEffect
<1>6. TurnTypeOK' /\ StageInOrder' /\ ListInOrder'
  BY <1>3, <1>4, <1>5 DEF TurnTypeOK, StageInOrder, ListInOrder, At, Ended, Deciding
<1>7. TradesInOrder'
  BY <1>1, <1>2, <1>3, TradesAfterAudit
<1>8. ForcedInOrder'
  BY <1>3, <1>4 DEF ForcedInOrder, At
<1>9. RotationInOrder'
  <2>1. By("model")' = By("model") \cup {Len(audits) + 1} /\ By("retry")' = By("retry")
        /\ \A j \in By("model") \cup By("retry") : audits'[j] = audits[j]
    BY <1>1, <1>2, WritersAfterAudit
  <2>2. turn.stage = "loop"
    BY DEF StageInOrder
  <2>3. By("retry") = {}
    BY <2>2 DEF RotationInOrder
  <2> QED
    BY <1>3, <1>4, <2>1, <2>3 DEF RotationInOrder, At
<1>10. CommitteeInOrder'
  BY <1>3, <1>4 DEF CommitteeInOrder, At, Deciding
<1> QED
  BY <1>6, <1>7, <1>8, <1>9, <1>10 DEF TurnStepIsSafe, BuyFollowsSell

\* Two proposals are two of the steps.
LEMMA TwoProposals ==
    ASSUME Cardinality(Proposals) >= 2
    PROVE  \E i, j \in Proposals : i # j
<1> SUFFICES ASSUME \A i, j \in Proposals : i = j PROVE FALSE
  OBVIOUS
<1>1. CASE Proposals = {}
  BY <1>1, FS_EmptySet
<1>2. CASE Proposals # {}
  <2>1. PICK x : Proposals = {x}
    BY <1>2
  <2>2. Cardinality({x}) = 1
    BY FS_Singleton
  <2> QED
    BY <2>1, <2>2
<1> QED
  BY <1>1, <1>2

\* The chair decides with the proposals before it, or nothing is decided.
LEMMA ChairKeeps == TurnInv /\ Chair => TurnStepIsSafe
<1> SUFFICES ASSUME TurnInv, Chair PROVE TurnStepIsSafe
  OBVIOUS
<1>1. /\ turn.pc = "ask" /\ Multi /\ UNCHANGED <<arch, held, trades, count>>
      /\ turn \in Locals /\ turn.tries \in 0..Attempts /\ Attempts \in Nat \ {0}
      /\ steps \in Seq(StepRow) /\ turn.stage = "loop"
  BY ParameterAssumption DEF Chair, At, TurnInv, TurnTypeOK, Locals, StageInOrder
<1>2. CASE CallFails /\ UNCHANGED audits
  <2> DEFINE n == turn.tries + 1
  <2>1. n \in 0..Attempts /\ turn' = [turn EXCEPT !.tries = n] /\ steps' = steps
    BY <1>1, <1>2 DEF CallFails
  <2> HIDE DEF n
  <2> QED
    BY <1>1, <1>2, <2>1, AttemptKeeps
<1>3. CASE \E response \in {"provider_failed", "malformed"} : FailClosed(response)
  BY <1>1, <1>3, FailClosedKeeps
<1>4. CASE /\ Quorate
           /\ \E answer \in BoundedSeq(Decisions, MaxAnswer) : \E list \in Contract(answer) :
                /\ Step("chair", "parsed")
                /\ turn' = [turn EXCEPT !.pc = "emit", !.list = list]
                /\ UNCHANGED audits
  <2> USE DEF TurnInv
  <2>1. PICK list \in Lists : /\ Step("chair", "parsed")
                             /\ turn' = [turn EXCEPT !.pc = "emit", !.list = list]
                             /\ UNCHANGED audits
    BY <1>4, ContractFacts
  <2>2. list \in Seq(Decisions) /\ Len(list) \in {1, 2} /\ "emit" \in Labels
    BY ListFacts DEF Labels
  <2>3. /\ turn' \in Locals /\ turn'.pc = "emit" /\ turn'.list = list /\ turn'.ids = turn.ids
        /\ turn'.i = turn.i /\ turn'.stage = turn.stage /\ turn'.left = turn.left
        /\ turn'.blocked = turn.blocked
    BY <1>1, <2>1, <2>2 DEF Locals
  <2>4. [role |-> "chair", status |-> "parsed"] \in StepRow
    BY DEF StepRow
  <2>5. /\ steps' \in Seq(StepRow)
        /\ \A k \in DOMAIN steps : k \in DOMAIN steps' /\ steps'[k] = steps[k]
        /\ Len(steps') \in DOMAIN steps'
        /\ steps'[Len(steps')].role = "chair" /\ steps'[Len(steps')].status = "parsed"
    BY <2>1, <2>4, StepEffect
  <2>6. Multi' = Multi /\ Ordered' = Ordered /\ By("model")' = By("model") /\ By("retry")' = By("retry")
    BY <1>1, <2>1 DEF Multi, Ordered, By
  <2>7. Authorized'
    <3>1. PICK i, j \in Proposals : i # j
      BY <1>4, TwoProposals DEF Quorate
    <3>2. i \in Proposals' /\ j \in Proposals'
      BY <2>5, <3>1 DEF Proposals
    <3>3. Parsed("risk")' /\ Parsed("chair")'
      BY <1>4, <2>5 DEF Quorate, Parsed
    <3> QED
      BY <2>5, <3>1, <3>2, <3>3 DEF Authorized
  <2>8. TurnTypeOK'
    BY <1>1, <2>1, <2>3, <2>5 DEF TurnTypeOK
  <2>9. StageInOrder'
    BY <1>1, <2>3, <2>6 DEF StageInOrder, At
  <2>10. ListInOrder'
    <3>1. turn.ids = <<>> /\ turn.i = 1 /\ \A k \in DOMAIN audits : audits[k].status # "pending"
      BY <1>1 DEF ListInOrder, Ended, Deciding
    <3>2. Len(turn.ids) = 0 /\ DOMAIN turn.ids = {}
      BY <3>1
    <3>3. 1 \in 1..(Len(list) + 1) /\ Len(list) >= 1
      BY SMTT(30), <2>2
    <3> QED
      BY <1>1, <2>1, <2>3, <3>1, <3>2, <3>3 DEF ListInOrder, At, Ended, Deciding
  <2>11. TradesInOrder'
    BY <1>1, <2>1, <2>3, <2>6 DEF TradesInOrder, At, Ended
  <2>12. ForcedInOrder'
    BY <1>1, <2>1, <2>3, <2>6 DEF ForcedInOrder, Linked, At
  <2>13. RotationInOrder'
    BY <1>1, <2>1, <2>3, <2>6 DEF RotationInOrder, At
  <2>14. CommitteeInOrder'
    BY <1>1, <2>3, <2>6, <2>7 DEF CommitteeInOrder, At, Deciding
  <2> QED
    BY <1>1, <2>8, <2>9, <2>10, <2>11, <2>12, <2>13, <2>14 DEF TurnStepIsSafe, BuyFollowsSell
<1> QED
  BY <1>2, <1>3, <1>4 DEF Chair

-----------------------------------------------------------------------------
(* What can come in between, and after the turn *)

\* A rebuild takes the trades of the turn with it.
LEMMA RebuildKeeps == TurnInv /\ Rebuild => TurnStepIsSafe
<1> SUFFICES ASSUME TurnInv, Rebuild PROVE TurnStepIsSafe
  OBVIOUS
<1> USE DEF TurnInv
<1>1. /\ trades' = <<>> /\ held' \subseteq Tickers /\ UNCHANGED <<arch, audits, steps, turn>>
      /\ count' = [count EXCEPT !.rebuilds = @ + 1] /\ count.rebuilds < MaxRebuilds /\ ~Ended
  BY DEF Rebuild
<1>2. /\ count' \in [rebuilds : 0..MaxRebuilds, backfills : 0..MaxBackfills]
      /\ count'.rebuilds # 0
  BY <1>1, ParameterAssumption DEF TurnTypeOK
<1>3. Ordered' = {} /\ DOMAIN trades' = {} /\ Multi' = Multi /\ Recorder' = Recorder /\ Decision' = Decision
      /\ By("model")' = By("model") /\ By("retry")' = By("retry") /\ trades' \in Seq(Trade)
  BY <1>1 DEF Ordered, Multi, Recorder, Decision, By
<1>4. TurnTypeOK' /\ StageInOrder' /\ ListInOrder'
  BY <1>1, <1>2, <1>3 DEF TurnTypeOK, StageInOrder, ListInOrder, At, Ended, Deciding
<1>5. TradesInOrder' /\ ForcedInOrder'
  BY <1>1, <1>2, <1>3 DEF TradesInOrder, ForcedInOrder, At, Ended
<1>6. RotationInOrder'
  BY <1>1, <1>3 DEF RotationInOrder, At
<1>7. CommitteeInOrder'
  <2>1. Authorized' = Authorized
    BY <1>1 DEF Authorized, Proposals, Parsed
  <2> QED
    BY <1>1, <1>3, <2>1 DEF CommitteeInOrder, At, Deciding
<1> QED
  BY <1>3, <1>4, <1>5, <1>6, <1>7 DEF TurnStepIsSafe, BuyFollowsSell

\* A backfill audits a forced sale of a turn that has ended.
LEMMA BackfillKeeps == TurnInv /\ BackfillForcedSell => TurnStepIsSafe
<1> SUFFICES ASSUME TurnInv, BackfillForcedSell PROVE TurnStepIsSafe
  OBVIOUS
<1> USE DEF TurnInv
<1>1. PICK n \in Unaudited :
         /\ Audit("auto", "parsed", "executed", [decision |-> "SELL", ticker |-> trades[n].ticker])
         /\ trades' = [trades EXCEPT ![n].quote = IF @ = -1 THEN -1 ELSE Len(audits) + 1]
  BY DEF BackfillForcedSell
<1> DEFINE sale == [decision |-> "SELL", ticker |-> trades[n].ticker]
           quote == IF trades[n].quote = -1 THEN -1 ELSE Len(audits) + 1
<1>2. /\ Ended /\ UNCHANGED <<arch, held, steps, turn>> /\ trades \in Seq(Trade)
      /\ count' = [count EXCEPT !.backfills = @ + 1] /\ count.backfills < MaxBackfills
      /\ n \in DOMAIN trades /\ n \notin Ordered /\ trades[n] \in Trade /\ audits \in Seq(AuditRow)
  BY <1>1 DEF BackfillForcedSell, Unaudited, Ordered, TurnTypeOK
<1>3. /\ count' \in [rebuilds : 0..MaxRebuilds, backfills : 0..MaxBackfills]
      /\ count'.backfills # 0 /\ count'.rebuilds = count.rebuilds
  BY <1>2, ParameterAssumption DEF TurnTypeOK
<1>4. sale \in Decisions /\ quote \in Nat \cup {-1}
  BY <1>2, DecisionFacts DEF Trade
<1>5. trades' = [trades EXCEPT ![n].quote = quote]
  BY <1>1, <1>2
<1> HIDE DEF sale, quote
<1>6. /\ [by |-> "auto", response |-> "parsed", status |-> "executed", decision |-> sale] \in AuditRow
      /\ Audit("auto", "parsed", "executed", sale)
  BY <1>1, <1>4 DEF AuditRow, sale
<1>7. /\ audits' \in Seq(AuditRow)
      /\ DOMAIN audits' = DOMAIN audits \cup {Len(audits) + 1}
      /\ \A k \in DOMAIN audits : audits'[k] = audits[k]
      /\ audits'[Len(audits) + 1].by = "auto" /\ audits'[Len(audits) + 1].status = "executed"
  BY <1>6, AuditEffect
<1>8. /\ trades' \in Seq(Trade) /\ DOMAIN trades' = DOMAIN trades
      /\ Ordered' = Ordered
      /\ \A m \in DOMAIN trades :
            /\ m # n => trades'[m] = trades[m]
            /\ trades'[m].ref = trades[m].ref /\ trades'[m].ticker = trades[m].ticker
  BY <1>2, <1>4, <1>5, QuoteEffect
<1>9. \A m \in Ordered : m \in DOMAIN trades /\ trades'[m] = trades[m]
  BY <1>2, <1>8 DEF Ordered
<1>10. TurnTypeOK' /\ StageInOrder'
  BY <1>2, <1>3, <1>7, <1>8 DEF TurnTypeOK, StageInOrder, At, Multi
<1>11. ListInOrder'
  BY <1>2 DEF ListInOrder, At, Ended, Deciding
<1>12. TradesInOrder'
  <2>1. \A m \in Ordered : /\ trades'[m].ref \in DOMAIN audits'
                          /\ audits'[trades'[m].ref].status \in {"executed", "pending"}
    BY <1>7, <1>9 DEF TradesInOrder
  <2>2. \A k \in DOMAIN audits' :
           audits'[k].by # "auto" /\ audits'[k].status = "executed" /\ count.rebuilds = 0
              => \E m \in Ordered : trades'[m].ref = k /\ trades'[m].quote = k
    BY <1>7, <1>9 DEF TradesInOrder
  <2>3. At("done") /\ turn.stage \in {"loop", "late"} =>
           \A k \in DOMAIN audits' : audits'[k].status # "pending"
    BY <1>7 DEF TradesInOrder
  <2> QED
    BY <1>2, <1>3, <1>8, <2>1, <2>2, <2>3 DEF TradesInOrder, At, Ended
<1>13. ForcedInOrder'
  BY <1>2, <1>3, <1>8 DEF ForcedInOrder, At, Ended
<1>14. RotationInOrder'
  <2>1. By("model")' = By("model") /\ By("retry")' = By("retry")
        /\ \A j \in By("model") \cup By("retry") : audits'[j] = audits[j]
    BY <1>6, WritersAfterAudit
  <2> QED
    BY <1>2, <2>1 DEF RotationInOrder, At, Multi
<1>15. CommitteeInOrder'
  <2>1. Authorized' = Authorized
    BY <1>2 DEF Authorized, Proposals, Parsed
  <2> QED
    BY <1>2, <1>8, <2>1 DEF CommitteeInOrder, At, Deciding, Ended, Multi
<1> QED
  BY <1>8, <1>10, <1>11, <1>12, <1>13, <1>14, <1>15 DEF TurnStepIsSafe, BuyFollowsSell

\* A stutter.
LEMMA TurnStutterKeeps == TurnInv /\ UNCHANGED turnVars => TurnStepIsSafe
<1> SUFFICES ASSUME TurnInv, UNCHANGED turnVars PROVE TurnStepIsSafe
  OBVIOUS
<1> USE DEF TurnInv
<1>1. /\ arch' = arch /\ held' = held /\ trades' = trades /\ audits' = audits /\ steps' = steps
      /\ turn' = turn /\ count' = count
  BY DEF turnVars
<1>2. Multi' = Multi /\ Ordered' = Ordered /\ Recorder' = Recorder /\ Decision' = Decision
      /\ By("model")' = By("model") /\ By("retry")' = By("retry") /\ Authorized' = Authorized
  BY <1>1 DEF Multi, Ordered, Recorder, Decision, By, Authorized, Proposals, Parsed
<1>3. TurnTypeOK' /\ StageInOrder' /\ ListInOrder'
  BY <1>1, <1>2 DEF TurnTypeOK, StageInOrder, ListInOrder, At, Ended
<1>4. TradesInOrder' /\ ForcedInOrder'
  BY <1>1, <1>2 DEF TradesInOrder, ForcedInOrder, Linked, At, Ended
<1>5. RotationInOrder' /\ CommitteeInOrder'
  BY <1>1, <1>2 DEF RotationInOrder, CommitteeInOrder, At
<1> QED
  BY <1>1, <1>3, <1>4, <1>5 DEF TurnStepIsSafe, BuyFollowsSell

\* Every step.
LEMMA TurnNextKeeps == TurnInv /\ [TurnNext]_turnVars => TurnStepIsSafe
<1>1. TurnInv /\ TurnStep => TurnStepIsSafe
  BY ForcedSellsKeeps, ForcedSellAuditKeeps, ForcedSellQuotesKeeps, PlainMoves, AskModelKeeps,
     ReviewKeeps, ChairKeeps, EmitDecisionKeeps, SkipBuyKeeps, ExecuteKeeps, RecordQuotesKeeps,
     RecordOutcomeKeeps, OfferRotationKeeps, FollowUpKeeps, RetryBlockedBuyKeeps
     DEF TurnStep
<1> QED
  BY <1>1, RebuildKeeps, BackfillKeeps, TurnStutterKeeps DEF TurnNext, TurnFinished

-----------------------------------------------------------------------------
(* The theorems *)

\* How far a turn is and what its audits and its trades say of each other by then.
THEOREM TurnInductive == TurnSpec => []TurnInv
<1>1. TurnInit => TurnInv
  <2> SUFFICES ASSUME TurnInit PROVE TurnInv
    OBVIOUS
  <2>1. /\ arch \in Architectures /\ held \subseteq Tickers /\ trades = <<>> /\ audits = <<>> /\ steps = <<>>
        /\ count = [rebuilds |-> 0, backfills |-> 0]
    BY DEF TurnInit
  <2>2. PICK label \in {"risk", "ask"} :
           turn = [pc |-> label, stage |-> "loop", tries |-> 0,
                   list |-> <<>>, ids |-> <<>>, i |-> 1, left |-> {},
                   sellFailed |-> FALSE, blocked |-> Hold, result |-> "none"]
    BY DEF TurnInit
  <2>3. /\ turn.pc = label /\ turn.stage = "loop" /\ turn.ids = <<>> /\ turn.i = 1 /\ turn.blocked = Hold
        /\ turn \in Locals
    <3>1. label \in Labels /\ 0 \in 0..Attempts
      BY ParameterAssumption DEF Labels
    <3>2. <<>> \in Seq(Decisions) /\ <<>> \in Seq(Nat)
      OBVIOUS
    <3> QED
      BY <2>2, <3>1, <3>2, DecisionFacts DEF Locals
  <2>4. TurnTypeOK
    BY <2>1, <2>3, ParameterAssumption DEF TurnTypeOK
  <2>5. Ordered = {} /\ By("model") = {} /\ By("retry") = {} /\ DOMAIN audits = {} /\ DOMAIN trades = {}
    BY <2>1 DEF Ordered, By
  <2>6. StageInOrder /\ ListInOrder
    BY <2>3, <2>5 DEF StageInOrder, ListInOrder, At, Deciding
  <2>7. TradesInOrder /\ ForcedInOrder
    BY <2>1, <2>3, <2>5 DEF TradesInOrder, ForcedInOrder, At
  <2>8. RotationInOrder /\ CommitteeInOrder
    BY <2>3, <2>5 DEF RotationInOrder, CommitteeInOrder, At, Deciding
  <2> QED
    BY <2>4, <2>6, <2>7, <2>8 DEF TurnInv
<1>2. TurnInv /\ [TurnNext]_turnVars => TurnInv'
  BY TurnNextKeeps DEF TurnStepIsSafe
<1> QED
  BY <1>1, <1>2, PTL DEF TurnSpec

\* A committee that traded had two proposals, the risk review among the parsed, and a
\* decision of its chair as the last of its steps.
THEOREM CommitteeDecides == TurnSpec => []CommitteeFailsClosed
<1>1. TurnInv => CommitteeFailsClosed
  BY DEF TurnInv, CommitteeInOrder, CommitteeFailsClosed, Authorized
<1> QED
  BY <1>1, TurnInductive, PTL

\* One purchase is repeated, once, and only because of the position limit.
THEOREM RotationHappensOnce == TurnSpec => []OneRotation
<1>1. TurnInv => OneRotation
  <2> SUFFICES ASSUME TurnInv PROVE OneRotation
    OBVIOUS
  <2>1. By("retry") = {k \in DOMAIN audits : audits[k].by = "retry"}
        /\ By("model") = {k \in DOMAIN audits : audits[k].by = "model"}
    BY DEF By
  <2>2. Cardinality(By("retry")) <= 1
    <3>1. \A k, l \in By("retry") : k = l
      BY DEF TurnInv, RotationInOrder
    <3>2. CASE By("retry") = {}
      BY <3>2, FS_EmptySet
    <3>3. CASE By("retry") # {}
      <4>1. PICK x : By("retry") = {x}
        BY <3>1, <3>3
      <4>2. Cardinality({x}) = 1
        BY FS_Singleton
      <4> QED
        BY <4>1, <4>2
    <3> QED
      BY <3>2, <3>3
  <2>3. ~Multi => Cardinality(By("model")) <= 2
    <3> SUFFICES ASSUME ~Multi PROVE Cardinality(By("model")) <= 2
      OBVIOUS
    <3>1. \A j, k, l \in By("model") : j = k \/ k = l \/ j = l
      BY DEF TurnInv, RotationInOrder
    <3>2. CASE By("model") = {}
      BY <3>2, FS_EmptySet
    <3>3. CASE By("model") # {}
      <4>1. PICK x, y \in By("model") : By("model") = {x, y}
        <5>1. PICK x \in By("model") : TRUE
          BY <3>3
        <5>2. CASE By("model") = {x}
          BY <5>2
        <5>3. CASE By("model") # {x}
          <6>1. PICK y \in By("model") : y # x
            BY <5>1, <5>3
          <6>2. By("model") = {x, y}
            BY <3>1, <6>1
          <6> QED
            BY <6>2
        <5> QED
          BY <5>2, <5>3
      <4>2. IsFiniteSet({y}) /\ Cardinality({y}) = 1
        BY FS_Singleton
      <4>3. Cardinality({y} \cup {x}) <= 2
        BY <4>2, FS_AddElement
      <4>4. {x, y} = {y} \cup {x}
        OBVIOUS
      <4> QED
        BY <4>1, <4>3, <4>4
    <3> QED
      BY <3>2, <3>3
  <2>4. \A k \in By("retry") : \E j \in By("model") :
          /\ j < k /\ audits[j].status = "rejected"
          /\ audits[j].decision = audits[k].decision /\ audits[k].decision.decision = "BUY"
    BY DEF TurnInv, RotationInOrder
  <2> QED
    BY <2>1, <2>2, <2>3, <2>4 DEF OneRotation
<1> QED
  BY <1>1, TurnInductive, PTL

\* The audits, the trades and the quotes of a turn tell the same story, wherever it ended.
THEOREM TurnsAreAccountedFor == TurnSpec => []TurnIsAccountedFor
<1>1. TurnInv => TurnIsAccountedFor
  <2> SUFFICES ASSUME TurnInv PROVE TurnIsAccountedFor
    OBVIOUS
  <2>1. turn.pc = "done" /\ count.backfills = 0
          => \A n \in DOMAIN trades : trades[n].ref = 0 =>
                trades[n].quote > 0 /\ audits[trades[n].quote].decision.ticker = trades[n].ticker
    <3> SUFFICES ASSUME turn.pc = "done", count.backfills = 0, NEW n \in DOMAIN trades, trades[n].ref = 0
                 PROVE  trades[n].quote > 0 /\ audits[trades[n].quote].decision.ticker = trades[n].ticker
      OBVIOUS
    <3>1. n \in DOMAIN trades \ Ordered
      BY DEF Ordered
    <3>2. Linked(n)
      BY <3>1 DEF TurnInv, ForcedInOrder, At
    <3>3. audits \in Seq(AuditRow)
      BY DEF TurnInv, TurnTypeOK
    <3> QED
      BY <3>2, <3>3 DEF Linked
  <2> QED
    BY <2>1 DEF TurnInv, TradesInOrder, At, TurnIsAccountedFor
<1> QED
  BY <1>1, TurnInductive, PTL

\* When the committee decided on a sale and a purchase, the purchase never stands alone.
THEOREM BuysFollowSells == TurnSpec => NoBuyWithoutItsSell
<1>1. TurnInv /\ [TurnNext]_turnVars => [BuyFollowsSell]_turnVars
  BY TurnNextKeeps DEF TurnStepIsSafe
<1> QED
  BY <1>1, TurnInductive, PTL DEF TurnSpec, NoBuyWithoutItsSell
=============================================================================
