----------------------------- MODULE AgentTurn -----------------------------
(***************************************************************************)
(* One turn of one agent in a decision batch: _process_agent, with the two *)
(* ways a decision is reached, run_agent (one model) and the investment    *)
(* committee (three advisers, a fallback for the risk review, a chair),    *)
(* and the audit trail all of it leaves.                                   *)
(*                                                                         *)
(* Every audit, step, quote and trade is a transaction of its own, so the  *)
(* turn is a sequence of small steps and an exception can end it after any *)
(* of them.  A rebuild of the same portfolio can come in between.          *)
(*                                                                         *)
(* Abstractions: prompts, prices and quantities; a decision is an action   *)
(* and a ticker; an order is executed or rejected, and the only rejection  *)
(* that the turn tells apart is the one of the position limit.             *)
(***************************************************************************)
EXTENDS Integers, Sequences, SequencesExt, FiniteSets

CONSTANTS Tickers, NoTicker,
          MaxPositions,     \* StrategyPolicy.max_positions
          Attempts,         \* pi_copilot_retry_attempts
          RiskFallback,     \* is pi_copilot_risk_fallback_model configured?
          Architectures,    \* the kinds of agents of the instance
          MaxAnswer,        \* bound on the decisions of one answer of the chair
          MaxRebuilds, MaxBackfills

ASSUME TickersAssumption == NoTicker \notin Tickers /\ IsFiniteSet(Tickers)
ASSUME ParameterAssumption ==
    /\ MaxPositions \in Nat /\ Attempts \in Nat \ {0} /\ RiskFallback \in BOOLEAN
    /\ Architectures \subseteq {"single", "committee", "autonomous"}
    /\ {MaxAnswer, MaxRebuilds, MaxBackfills} \subseteq Nat

VARIABLES arch,     \* decision_architecture, and strategy.autonomous
          held,     \* the tickers of the agent's holdings
          trades,   \* the transactions made in the turn: ticker, action, order
                    \*   reference (0: a forced sell), and the audit that the
                    \*   quote of the transaction references (0: none; -1: no quote)
          audits,   \* decision_audits, by id
          steps,    \* ensemble_decision_steps
          turn,     \* the locals of _process_agent and of what it calls
          count     \* counters of the bounds

turnVars == <<arch, held, trades, audits, steps, turn, count>>

Hold == [decision |-> "HOLD", ticker |-> NoTicker]
Orders(kind) == [decision : {kind}, ticker : Tickers]
Decisions ==
    Orders("BUY") \cup Orders("SELL") \cup {Hold, [decision |-> "OTHER", ticker |-> NoTicker]}

Trade == [action : {"BUY", "SELL"}, ticker : Tickers, ref : Nat, quote : Nat \cup {-1}]
AuditRow == [by : {"auto", "model", "retry"},
             response : {"parsed", "malformed", "provider_failed", "configuration_failed"},
             status : {"pending", "executed", "rejected", "hold", "not_attempted"},
             decision : Decisions]
StepRow == [role : {"quality", "momentum", "risk", "chair"},
            status : {"parsed", "malformed", "provider_failed"}]

\* Where _process_agent is, or what it calls; stage tells the decisions of the turn from the
\* follow-up of a rotation and from the purchase that the rotation repeats.
Labels == {"risk", "forced", "forcedQuotes", "ask", "raise", "parsed", "emit", "loop", "skip",
           "attempt", "quotes", "outcome", "offer", "answered", "sold", "retry", "done", "failed"}
Locals == [pc : Labels, stage : {"loop", "offer", "early", "late"}, tries : 0..Attempts,
           list : Seq(Decisions), ids : Seq(Nat), i : Nat, left : SUBSET Tickers,
           sellFailed : BOOLEAN, blocked : Decisions,
           result : {"none", "hold", "rejected", "max_positions_reached", "executed"}]

Multi == arch # "single"
HasPolicy == arch # "autonomous"

TurnInit ==
    /\ arch \in Architectures
    /\ held \in {h \in SUBSET Tickers : Cardinality(h) <= MaxPositions}
    /\ trades = <<>> /\ audits = <<>> /\ steps = <<>>
    /\ turn = [pc |-> IF HasPolicy THEN "risk" ELSE "ask", stage |-> "loop", tries |-> 0,
               list |-> <<>>, ids |-> <<>>, i |-> 1, left |-> {},
               sellFailed |-> FALSE, blocked |-> Hold, result |-> "none"]
    /\ count = [rebuilds |-> 0, backfills |-> 0]

At(label) == turn.pc = label
Goto(label) == turn' = [turn EXCEPT !.pc = label]

Audit(by, response, status, d) ==
    audits' = Append(audits, [by |-> by, response |-> response, status |-> status, decision |-> d])

Ended == turn.pc \in {"done", "failed"}
-----------------------------------------------------------------------------
(* Forced sells *)

\* auto_enforce_risk_rules: every sale is committed before the next.  It may
\* raise half-way, and what it sold is not reported then.
ForcedSells ==
    /\ At("risk")
    /\ \E sold \in SUBSET held :
          /\ held' = held \ sold
          /\ trades' = trades \o [n \in 1..Cardinality(sold) |->
                [action |-> "SELL", ticker |-> SetToSeq(sold)[n], ref |-> 0, quote |-> -1]]
          /\ turn' \in {[turn EXCEPT !.pc = "forced", !.left = sold],
                        [turn EXCEPT !.pc = "failed"]}
    /\ UNCHANGED <<arch, audits, steps, count>>

ForcedSellAudit ==
    /\ At("forced")
    /\ \E t \in turn.left :
          /\ Audit("auto", "parsed", "executed", [decision |-> "SELL", ticker |-> t])
          /\ turn' = [turn EXCEPT !.pc = "forcedQuotes", !.left = @ \ {t}]
    /\ UNCHANGED <<arch, held, trades, steps, count>>

\* record_execution_quotes: the quote of a transaction references the audit.
\* If the transaction was deleted meanwhile, its ticker cannot be read.
LinkQuote(ref, ticker, audit) ==
    \E n \in DOMAIN trades :
        /\ trades[n].ref = ref /\ trades[n].ticker = ticker
        /\ trades' = [trades EXCEPT ![n].quote = audit]

ForcedSellQuotes ==
    /\ At("forcedQuotes")
    /\ LinkQuote(0, audits[Len(audits)].decision.ticker, Len(audits))
    /\ Goto("forced")
    /\ UNCHANGED <<arch, held, audits, steps, count>>

\* The account may be gone: the turn ends and counts as completed.
ForcedSellsDone ==
    /\ At("forced") /\ turn.left = {}
    /\ Goto("ask") \/ Goto("done")
    /\ UNCHANGED <<arch, held, trades, audits, steps, count>>
-----------------------------------------------------------------------------
(* A decision by one model: run_agent, for the turn or for the follow-up *)

\* The answer is audited before it is returned; what is done with it in between
\* (a log line that slices the reasoning) can raise.
AskModel ==
    /\ At("ask") /\ ~Multi
    /\ \/ \* the agent has no model
          Goto("done") /\ UNCHANGED audits
       \/ Audit("model", "configuration_failed", "not_attempted", Hold) /\ Goto("raise")
       \/ \E response \in {"provider_failed", "malformed"} :
             Audit("model", response, "not_attempted", Hold) /\ Goto("done")
       \/ \E d \in Decisions :
             /\ Audit("model", "parsed", "pending", d)
             /\ turn' = [turn EXCEPT !.pc = "parsed", !.list = <<d>>, !.ids = <<Len(audits) + 1>>]
    /\ UNCHANGED <<arch, held, trades, steps, count>>

AnswerReturned ==
    /\ At("parsed")
    /\ Goto(IF turn.stage = "offer" THEN "answered" ELSE "loop")
    /\ UNCHANGED <<arch, held, trades, audits, steps, count>>
-----------------------------------------------------------------------------
(* A decision by the committee: decide *)

Advisers == <<"quality", "momentum", "risk">>

Parsed(role) == \E i \in DOMAIN steps : steps[i].role = role /\ steps[i].status = "parsed"
Proposals == {i \in DOMAIN steps : steps[i].role \in ToSet(Advisers) /\ steps[i].status = "parsed"}

\* The review that comes next: the advisers in order, then the risk fallback if
\* it is needed and there is one, then the chair.
NextRole ==
    IF Len(steps) < 3 THEN Advisers[Len(steps) + 1]
    ELSE IF Len(steps) = 3 /\ ~Parsed("risk") /\ RiskFallback THEN "risk"
    ELSE "chair"

Step(role, status) == steps' = Append(steps, [role |-> role, status |-> status])

\* Mutant of CallFails: the attempts are not counted.
CallFailsForever ==
    /\ turn' = [turn EXCEPT !.tries = (@ + 1) % Attempts]
    /\ UNCHANGED steps

\* One call of the CLI fails; _complete_with_retry waits and repeats it.
CallFails ==
    /\ turn.tries + 1 < Attempts
    /\ turn' = [turn EXCEPT !.tries = @ + 1]
    /\ UNCHANGED steps

Review ==
    /\ At("ask") /\ Multi /\ NextRole # "chair"
    /\ \/ CallFails
       \/ /\ turn.tries + 1 = Attempts
          /\ Step(NextRole, "provider_failed")
          /\ turn' = [turn EXCEPT !.tries = 0]
       \/ \E status \in {"malformed", "parsed"} :
             Step(NextRole, status) /\ turn' = [turn EXCEPT !.tries = 0]
    /\ UNCHANGED <<arch, held, trades, audits, count>>

\* Mutant of Quorate: the risk review is an adviser like the others.
QuorateOfAny == Cardinality(Proposals) >= 2

Quorate == Cardinality(Proposals) >= 2 /\ Parsed("risk")

\* No decision is authorized: the step and the decision say why, and the turn
\* fails for want of a decision.
FailClosed(response) ==
    /\ Step("chair", response)
    /\ Audit("model", response, "not_attempted", Hold)
    /\ Goto("failed")

\* _committee_contract: of the orders of an answer at most one SELL and one BUY, of
\* different tickers, in this order.
Lists ==
    {<<Hold>>} \cup {<<d>> : d \in Orders("SELL") \cup Orders("BUY")}
        \cup {s \in Orders("SELL") \X Orders("BUY") : s[1].ticker # s[2].ticker}

Contract(answer) ==
    LET Of(kind) == {n \in DOMAIN answer : answer[n].decision = kind}
        orders == {answer[n] : n \in Of("SELL") \cup Of("BUY")}
    IN  IF orders = {} THEN {<<Hold>>}
        ELSE {list \in Lists :
                 /\ Cardinality(Of("SELL")) <= 1 /\ Cardinality(Of("BUY")) <= 1
                 /\ ToSet(list) = orders}

Chair ==
    /\ At("ask") /\ Multi /\ NextRole = "chair"
    /\ \/ ~Quorate /\ FailClosed("provider_failed")
       \/ /\ Quorate
          /\ \/ CallFails /\ UNCHANGED audits
             \/ turn.tries + 1 = Attempts /\ FailClosed("provider_failed")
             \/ FailClosed("malformed")
             \/ \E answer \in BoundedSeq(Decisions, MaxAnswer) : \E list \in Contract(answer) :
                   /\ Step("chair", "parsed")
                   /\ turn' = [turn EXCEPT !.pc = "emit", !.list = list]
                   /\ UNCHANGED audits
    /\ UNCHANGED <<arch, held, trades, count>>

\* One audit per decision, each with a recorder of its own.
EmitDecision ==
    /\ At("emit")
    /\ Audit("model", "parsed", "pending", turn.list[Len(turn.ids) + 1])
    /\ turn' = [turn EXCEPT !.ids = Append(@, Len(audits) + 1),
                            !.pc = IF Len(turn.ids) + 1 = Len(turn.list) THEN "loop" ELSE "emit"]
    /\ UNCHANGED <<arch, held, trades, steps, count>>
-----------------------------------------------------------------------------
(* Executing a decision: attempt *)

Decision == turn.list[turn.i]
Recorder == turn.ids[turn.i]

\* Mutant of NextDecision: a BUY is attempted whatever became of the SELL.
NextDecisionAlways ==
    /\ At("loop")
    /\ turn.i <= Len(turn.list) /\ Goto("attempt")
    /\ UNCHANGED <<arch, held, trades, audits, steps, count>>

NextDecision ==
    /\ At("loop")
    /\ turn.i <= Len(turn.list)
    /\ Goto(IF Multi /\ turn.sellFailed /\ Decision.decision = "BUY" THEN "skip" ELSE "attempt")
    /\ UNCHANGED <<arch, held, trades, audits, steps, count>>

SetStatus(status) == audits' = [audits EXCEPT ![Recorder].status = status]

SkipBuy ==
    /\ At("skip")
    /\ SetStatus("not_attempted")
    /\ turn' = [turn EXCEPT !.pc = "loop", !.i = @ + 1]
    /\ UNCHANGED <<arch, held, trades, steps, count>>

LimitReached(d) == HasPolicy /\ d.ticker \notin held /\ Cardinality(held) >= MaxPositions

Completing(result) == turn' = [turn EXCEPT !.pc = "quotes", !.result = result]

\* What the account holds after the order: a sale may leave some of the shares.
HeldAfter(d) == IF d.decision = "BUY" THEN {held \cup {d.ticker}} ELSE {held, held \ {d.ticker}}

\* trading.execute_decision under the reference of the audit.
Execute ==
    /\ At("attempt")
    /\ LET d == Decision IN
       \/ d.decision = "HOLD" /\ Completing("hold") /\ UNCHANGED <<held, trades>>
       \/ d.decision = "OTHER" /\ Completing("rejected") /\ UNCHANGED <<held, trades>>
       \/ d.decision \in {"BUY", "SELL"} /\ Completing("rejected") /\ UNCHANGED <<held, trades>>
       \/ /\ d.decision = "BUY" /\ LimitReached(d)
          /\ Completing("max_positions_reached") /\ UNCHANGED <<held, trades>>
       \/ /\ d.decision = "BUY" => ~LimitReached(d)
          /\ d.decision = "SELL" => d.ticker \in held
          /\ d.decision \in {"BUY", "SELL"}
          /\ held' \in HeldAfter(d)
          /\ trades' = Append(trades, [action |-> d.decision, ticker |-> d.ticker,
                                       ref |-> Recorder, quote |-> -1])
          /\ Completing("executed")
    /\ UNCHANGED <<arch, audits, steps, count>>

\* recorder.complete: the quotes first, the outcome in a transaction of its own.
RecordQuotes ==
    /\ At("quotes")
    /\ IF turn.result = "executed" THEN LinkQuote(Recorder, Decision.ticker, Recorder)
                                   ELSE UNCHANGED trades
    /\ Goto("outcome")
    /\ UNCHANGED <<arch, held, audits, steps, count>>

\* Where the turn goes on after an attempt.
AfterAttempt ==
    LET failedSell == Multi /\ Decision.decision = "SELL" /\ turn.result # "executed"
        limited == turn.blocked = Hold /\ turn.result = "max_positions_reached"
    IN  CASE turn.stage = "loop" ->
                [turn EXCEPT !.pc = "loop", !.i = @ + 1,
                             !.sellFailed = @ \/ failedSell,
                             !.blocked = IF limited THEN Decision ELSE @]
          [] turn.stage = "offer" ->
                [turn EXCEPT !.pc = IF turn.result = "executed" THEN "sold" ELSE "done"]
          [] OTHER -> [turn EXCEPT !.pc = "done"]

\* Mutant of RecordOutcome: an order that was not executed leaves no outcome.
RecordExecuted ==
    /\ At("outcome")
    /\ IF turn.result = "executed" THEN SetStatus("executed") ELSE UNCHANGED audits
    /\ turn' = AfterAttempt
    /\ UNCHANGED <<arch, held, trades, steps, count>>

RecordOutcome ==
    /\ At("outcome")
    /\ SetStatus(IF turn.result = "max_positions_reached" THEN "rejected" ELSE turn.result)
    /\ turn' = AfterAttempt
    /\ UNCHANGED <<arch, held, trades, steps, count>>
-----------------------------------------------------------------------------
(* The rotation: offer_rotation and retry_blocked_buy *)

SlotFree == Cardinality(held) < MaxPositions

LoopDone ==
    /\ At("loop")
    /\ turn.i > Len(turn.list)
    /\ Goto(IF turn.blocked # Hold /\ ~Multi THEN "offer" ELSE "done")
    /\ UNCHANGED <<arch, held, trades, audits, steps, count>>

\* The slot may be free by now, because the portfolio was rebuilt.  The follow-up
\* names the tickers held at this moment.
OfferRotation ==
    /\ At("offer")
    /\ \/ Goto("done")              \* the account is gone
       \/ SlotFree /\ turn' = [turn EXCEPT !.pc = "retry", !.stage = "early"]
       \/ ~SlotFree /\ turn' = [turn EXCEPT !.pc = "ask", !.stage = "offer", !.left = held, !.i = 1]
    /\ UNCHANGED <<arch, held, trades, audits, steps, count>>

FollowUp ==
    /\ At("answered")
    /\ IF Decision.decision = "SELL" /\ Decision.ticker \in turn.left
       THEN Goto("attempt") /\ UNCHANGED audits
       ELSE SetStatus("hold") /\ Goto("done")
    /\ UNCHANGED <<arch, held, trades, steps, count>>

AfterSell ==
    /\ At("sold")
    /\ IF SlotFree THEN turn' = [turn EXCEPT !.pc = "retry", !.stage = "late"] ELSE Goto("done")
    /\ UNCHANGED <<arch, held, trades, audits, steps, count>>

\* Mutant of RetryBlockedBuy: what is bought is what was decided last.
RetryLastDecision ==
    /\ At("retry")
    /\ Audit("retry", "parsed", "pending", turn.list[Len(turn.list)])
    /\ turn' = [turn EXCEPT !.pc = "attempt", !.ids = <<Len(audits) + 1>>, !.i = 1]
    /\ UNCHANGED <<arch, held, trades, steps, count>>

RetryBlockedBuy ==
    /\ At("retry")
    /\ Audit("retry", "parsed", "pending", turn.blocked)
    /\ turn' = [turn EXCEPT !.pc = "attempt", !.list = <<turn.blocked>>,
                            !.ids = <<Len(audits) + 1>>, !.i = 1]
    /\ UNCHANGED <<arch, held, trades, steps, count>>
-----------------------------------------------------------------------------
(* What can happen at any moment *)

\* Inside of the try of offer_rotation exceptions end the offer, not the turn.
Swallowed ==
    \/ At("offer") \/ turn.stage = "early"
    \/ turn.stage = "offer" /\ turn.pc \in {"ask", "raise", "parsed"}

Raise ==
    /\ ~Ended
    /\ Goto(IF Swallowed THEN "done" ELSE "failed")
    /\ UNCHANGED <<arch, held, trades, audits, steps, count>>

\* AgentService._replace_portfolio of the same agent.
Rebuild ==
    /\ ~Ended /\ count.rebuilds < MaxRebuilds
    /\ held' \in {h \in SUBSET Tickers : Cardinality(h) <= MaxPositions}
    /\ trades' = <<>>
    /\ count' = [count EXCEPT !.rebuilds = @ + 1]
    /\ UNCHANGED <<arch, audits, steps, turn>>

Unaudited == {n \in DOMAIN trades : trades[n].ref = 0 /\ trades[n].quote <= 0}

\* backfill_forced_sell_audits for one of the sales it finds, after the turn.
BackfillForcedSell ==
    /\ Ended /\ count.backfills < MaxBackfills
    /\ \E n \in Unaudited :
          /\ Audit("auto", "parsed", "executed", [decision |-> "SELL", ticker |-> trades[n].ticker])
          /\ trades' = [trades EXCEPT ![n].quote = IF @ = -1 THEN -1 ELSE Len(audits) + 1]
    /\ count' = [count EXCEPT !.backfills = @ + 1]
    /\ UNCHANGED <<arch, held, steps, turn>>

TurnFinished == Ended /\ UNCHANGED turnVars

TurnStep ==
    \/ ForcedSells \/ ForcedSellAudit \/ ForcedSellQuotes \/ ForcedSellsDone
    \/ AskModel \/ AnswerReturned \/ Review \/ Chair \/ EmitDecision
    \/ NextDecision \/ SkipBuy \/ Execute \/ RecordQuotes \/ RecordOutcome
    \/ LoopDone \/ OfferRotation \/ FollowUp \/ AfterSell \/ RetryBlockedBuy
    \/ Raise

TurnNext == TurnStep \/ Rebuild \/ BackfillForcedSell \/ TurnFinished

\* Every call the turn waits for has a timeout of its own.
TurnSpec == TurnInit /\ [][TurnNext]_turnVars /\ WF_turnVars(TurnStep)
-----------------------------------------------------------------------------
Ordered == {n \in DOMAIN trades : trades[n].ref > 0}

TurnTypeOK ==
    /\ arch \in Architectures /\ held \subseteq Tickers
    /\ trades \in Seq(Trade) /\ audits \in Seq(AuditRow) /\ steps \in Seq(StepRow)
    /\ turn \in Locals
    /\ count \in [rebuilds : 0..MaxRebuilds, backfills : 0..MaxBackfills]

\* A committee trades only on a decision of its chair, with the proposals of at
\* least two advisers before it, one of them the independent risk review; the
\* reviews are there to be read afterwards.
CommitteeFailsClosed ==
    Multi /\ Ordered # {} =>
        /\ \E i, j \in Proposals : i # j
        /\ Parsed("risk") /\ Parsed("chair")
        /\ steps[Len(steps)].role = "chair"

\* The BUY of a rotation is executed only after its SELL: when the committee
\* decided on both, the purchase never stands alone.
BuyFollowsSell ==
    \A n \in DOMAIN trades' \ DOMAIN trades :
        Multi /\ Len(turn.list) = 2 /\ trades'[n].action = "BUY"
            => \E k \in DOMAIN audits :
                   audits[k].decision = turn.list[1] /\ audits[k].status = "executed"
NoBuyWithoutItsSell == [][BuyFollowsSell]_turnVars

\* A turn repeats a purchase at most once, the one that met the position limit,
\* and asks the model for at most one follow-up.
OneRotation ==
    LET Of(by) == {k \in DOMAIN audits : audits[k].by = by} IN
    /\ Cardinality(Of("retry")) <= 1
    /\ ~Multi => Cardinality(Of("model")) <= 2
    /\ \A k \in Of("retry") : \E j \in Of("model") :
          /\ j < k /\ audits[j].status = "rejected"
          /\ audits[j].decision = audits[k].decision /\ audits[k].decision.decision = "BUY"

\* What the audits say is what happened: a trade refers to an audit that is
\* executed or was about to be, an executed audit has its trade (until a rebuild
\* deletes it), and a completed turn leaves nothing pending unless an exception
\* was swallowed in the rotation.  A turn that went well leaves every forced sale with
\* an audit of its own ticker, and with the quote that references it.
TurnIsAccountedFor ==
    /\ \A n \in Ordered : audits[trades[n].ref].status \in {"executed", "pending"}
    /\ \A k \in DOMAIN audits :
          audits[k].by # "auto" /\ audits[k].status = "executed" /\ count.rebuilds = 0
              => \E n \in Ordered : trades[n].ref = k /\ trades[n].quote = k
    /\ turn.pc = "done" /\ turn.stage \in {"loop", "late"}
          => \A k \in DOMAIN audits : audits[k].status # "pending"
    /\ turn.pc = "done" /\ count.backfills = 0
          => \A n \in DOMAIN trades : trades[n].ref = 0 =>
                trades[n].quote > 0 /\ audits[trades[n].quote].decision.ticker = trades[n].ticker

\* The parts of the turn follow each other: only one model is asked for a follow-up, and
\* only after a purchase that met the position limit.
StageInOrder ==
    /\ turn.stage = "loop" => ~At("answered") /\ ~At("sold") /\ ~At("retry")
    /\ turn.stage = "offer" => turn.pc \in {"ask", "raise", "parsed", "answered", "attempt", "quotes",
                                           "outcome", "sold", "done", "failed"}
    /\ turn.stage \in {"early", "late"} => turn.pc \in {"retry", "attempt", "quotes", "outcome",
                                                      "done", "failed"}
    /\ Multi => turn.stage = "loop" /\ ~At("raise") /\ ~At("parsed") /\ ~At("offer")
    /\ ~Multi => ~At("emit") /\ ~At("skip")
    /\ At("offer") \/ turn.stage # "loop" => turn.blocked # Hold

\* Where the decisions of the list are audited and not all of them settled.
Deciding == {"parsed", "emit", "loop", "skip", "attempt", "quotes", "outcome", "answered"}

\* The decisions and their audits: what is pending is what the turn has not come to yet.
ListInOrder ==
    /\ turn.pc \in {"risk", "forced", "forcedQuotes", "ask"} =>
          turn.i = 1 /\ (turn.stage = "loop" => turn.ids = <<>>)
    /\ turn.pc \in Deciding =>
          /\ turn.i \in 1..(Len(turn.list) + 1)
          /\ ~At("loop") => turn.i <= Len(turn.list)
          /\ turn.stage # "loop" => Len(turn.list) = 1
          /\ IF At("emit") THEN turn.i = 1 /\ Len(turn.ids) < Len(turn.list)
                           ELSE Len(turn.ids) = Len(turn.list)
          /\ \A j \in DOMAIN turn.ids :
                /\ turn.ids[j] \in DOMAIN audits
                /\ audits[turn.ids[j]].decision = turn.list[j]
                /\ turn.stage \in {"loop", "offer"} => audits[turn.ids[j]].by = "model"
                /\ audits[turn.ids[j]].status = "pending" <=> j >= turn.i
                /\ \A k \in DOMAIN turn.ids : turn.ids[j] = turn.ids[k] => j = k
    /\ ~Ended => \A k \in DOMAIN audits :
          audits[k].status = "pending" =>
              turn.pc \in Deciding /\ \E j \in DOMAIN turn.ids : turn.ids[j] = k

\* The orders and what the audits say of them, with the one in progress.
TradesInOrder ==
    /\ \A n \in Ordered :
          /\ trades[n].ref \in DOMAIN audits
          /\ audits[trades[n].ref].status \in {"executed", "pending"}
          /\ audits[trades[n].ref].status = "pending" /\ ~Ended =>
                /\ turn.pc \in {"quotes", "outcome"} /\ turn.result = "executed"
                /\ trades[n].ref = Recorder
    /\ \A k \in DOMAIN audits :
          audits[k].by # "auto" /\ audits[k].status = "executed" /\ count.rebuilds = 0
              => \E n \in Ordered : trades[n].ref = k /\ trades[n].quote = k
    /\ turn.pc \in {"quotes", "outcome"} =>
          /\ turn.result # "none"
          /\ turn.result = "max_positions_reached" => Decision.decision = "BUY"
    /\ At("outcome") /\ turn.result = "executed" /\ count.rebuilds = 0 =>
          \E n \in Ordered : trades[n].ref = Recorder /\ trades[n].quote = Recorder
    /\ At("done") /\ turn.stage \in {"loop", "late"} =>
          \A k \in DOMAIN audits : audits[k].status # "pending"

\* The forced sales and their audits.
Linked(n) ==
    /\ trades[n].quote \in DOMAIN audits
    /\ audits[trades[n].quote].decision.ticker = trades[n].ticker

ForcedInOrder ==
    /\ \A m, n \in DOMAIN trades \ Ordered : trades[m].ticker = trades[n].ticker => m = n
    /\ At("risk") => trades = <<>>
    /\ At("forcedQuotes") => audits # <<>>
    /\ ~At("failed") /\ count.backfills = 0 =>
          \A n \in DOMAIN trades \ Ordered :
             \/ Linked(n)
             \/ turn.pc \in {"forced", "forcedQuotes"} /\ trades[n].ticker \in turn.left
             \/ At("forcedQuotes") /\ trades[n].ticker = audits[Len(audits)].decision.ticker

\* The rotation and what it starts from.
By(whom) == {k \in DOMAIN audits : audits[k].by = whom}

RotationInOrder ==
    /\ turn.blocked # Hold =>
          \E j \in By("model") : /\ audits[j].status = "rejected"
                                 /\ audits[j].decision = turn.blocked
                                 /\ turn.blocked.decision = "BUY"
    /\ turn.stage \notin {"early", "late"} \/ At("retry") => By("retry") = {}
    /\ \A k, l \in By("retry") : k = l
    /\ \A k \in By("retry") : \E j \in By("model") :
          /\ j < k /\ audits[j].status = "rejected"
          /\ audits[j].decision = audits[k].decision /\ audits[k].decision.decision = "BUY"
    /\ ~Multi =>
          /\ turn.stage = "loop" /\ turn.pc \in {"risk", "forced", "forcedQuotes", "ask"} =>
                By("model") = {}
          /\ turn.stage = "loop" \/ At("ask") => \A j, k \in By("model") : j = k
          /\ \A j, k, l \in By("model") : j = k \/ k = l \/ j = l

\* The committee and its authority.
Authorized ==
    /\ \E i, j \in Proposals : i # j
    /\ Parsed("risk") /\ Parsed("chair")
    /\ steps[Len(steps)].role = "chair"

CommitteeInOrder ==
    Multi =>
        /\ turn.pc \in {"risk", "forced", "forcedQuotes", "ask"} => Ordered = {}
        /\ turn.pc \in Deciding \/ Ordered # {} => Authorized
        /\ turn.pc \in Deciding => turn.list \in Lists
        /\ turn.pc \in {"loop", "skip", "attempt"} /\ turn.i = 2 /\ Len(turn.list) = 2 =>
              turn.sellFailed \/ audits[turn.ids[1]].status = "executed"
        /\ At("attempt") /\ turn.sellFailed => Decision.decision # "BUY"
        /\ At("skip") => turn.sellFailed

\* The inductive invariant.
TurnInv ==
    /\ TurnTypeOK /\ StageInOrder /\ ListInOrder /\ TradesInOrder /\ ForcedInOrder
    /\ RotationInOrder /\ CommitteeInOrder

\* Every turn ends, whatever the providers answer and however often they fail.
EveryTurnEnds == <>Ended
=============================================================================
