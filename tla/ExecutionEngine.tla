-------------------------- MODULE ExecutionEngine --------------------------
(***************************************************************************)
(* The arithmetic of one account: services/execution_engine.py over the    *)
(* models Account and Holding.  Every trade is one transaction, so one     *)
(* step; an order the engine refuses (ExecutionError) changes nothing.     *)
(* The risk pass over an agent's holdings is a loop of such transactions   *)
(* that works on quotes it was given, and on holdings and a balance it     *)
(* read at its start, one after the other.  It holds no lock: trades, a    *)
(* rebuild, a split, a dividend or a reset may come between any two of its *)
(* steps.  A rebuild is one transaction of several purchases; its legs are *)
(* steps here, between which nobody else acts on the account.              *)
(*                                                                         *)
(* Tickers are numbered in alphabetical order.  A price of 0 stands for a  *)
(* quote that is missing or invalid.  Ratios (allocations, caps, reserve)  *)
(* are parts of Ratio.  An amount "in parts" is a multiple of              *)
(* 1 / (Scale * Scale * Ratio), fine enough for every exact product below. *)
(*                                                                         *)
(* Decimal keeps 38 digits.  Only a quotient can be inexact: an allocation *)
(* that was computed as one may sell a hair less than the whole position.  *)
(***************************************************************************)
EXTENDS Money, Sequences, FiniteSets, FiniteSetsExt, Functions, TLC

CONSTANTS Tickers, SectorOf, Unclassified,
          Prices,       \* quotes, 0 for none
          StartingCash, Fee,
          Ratio, Allocations,
          Policies,     \* what an agent may be bound by
          NoPolicy,     \* a person's account
          Autonomous,   \* a committee's, which no investment guardrail binds
          DefaultPolicy,  \* but in a rebuild
          PlanParts,    \* allocations of a portfolio plan
          MaxPositionRatio, StopLoss, TakeProfit,
          Splits,       \* ratios, a numerator and a denominator
          Payments,     \* dividends
          MaxTrades,    \* bound on trades
          MaxEvents     \* bound on splits, dividends and resets together

ASSUME TickersAssumption ==
    Tickers \subseteq Nat /\ IsFiniteSet(Tickers) /\ SectorOf \in [Tickers -> STRING]
ASSUME PricesAssumption == Prices \subseteq Nat /\ \E p \in Prices : \A q \in Prices : q <= p
ASSUME AmountsAssumption == StartingCash \in Nat /\ Fee \in Nat /\ Ratio \in Nat \ {0}
ASSUME SharesAssumption == Allocations \cup PlanParts \cup {MaxPositionRatio} \subseteq Nat
ASSUME EventsAssumption ==
    /\ Splits \subseteq [shares : Nat \ {0}, for : Nat \ {0}]
    /\ Payments \subseteq Nat /\ MaxEvents \in Nat
ASSUME PoliciesAssumption ==
    /\ DefaultPolicy \in Policies
    /\ Policies \subseteq [positions : Nat, cap : Nat, reserve : Nat, sector : Nat]

Quotes == [Tickers -> Prices]
Position == [quantity : Nat, cost : Nat]  \* cost is the average per share

VARIABLES cash, holdings,  \* the rows of accounts and holdings
          quotes,          \* the market of the operation in progress
          policy,          \* of the account
          last,            \* the kind and the ticker of the last trade
          pass,            \* the risk pass in progress
          rebuild,         \* the rebuild in progress: purchases left, what to roll back to
          trades, events   \* counters of the bounds

engineVars == <<cash, holdings, quotes, policy, last, pass, rebuild, trades, events>>

NoTrade == [kind |-> "none", ticker |-> 0, part |-> 0]
NoRebuild == [on |-> FALSE, left |-> << >>, cash |-> 0, holdings |-> << >>]

\* A pass: the holdings to visit and as they were read, the quotes, the portfolio value
\* from when it is known; of its past, the sales, the holdings that were not sold, and
\* whether nobody else has acted on the account.
NoPass == [on |-> FALSE, left |-> {}, seen |-> << >>, market |-> << >>,
           valued |-> FALSE, worth |-> 0, fees |-> 0, kept |-> {}, alone |-> FALSE]

EngineInit ==
    /\ cash = StartingCash
    /\ holdings = << >>
    /\ quotes \in Quotes
    /\ policy \in Policies \cup {NoPolicy, Autonomous}
    /\ last = NoTrade
    /\ pass = NoPass
    /\ rebuild = NoRebuild
    /\ trades = 0 /\ events = 0
-----------------------------------------------------------------------------
(* Reading the portfolio *)

\* Holding.all_for_user leaves out the rows that are down to nothing.
Open(h) == {t \in DOMAIN h : h[t].quantity > 0}

QuantityOf(h, t) == IF t \in DOMAIN h THEN h[t].quantity ELSE 0

\* The row of t is written over or added.
Put(h, t, position) == [s \in DOMAIN h \cup {t} |-> IF s = t THEN position ELSE h[s]]

Worth(h, T, m) ==
    SumFunction([t \in Tickers |-> IF t \in T THEN Value(h[t].quantity, m[t]) ELSE 0])

\* The quoted part of the portfolio, exactly, in units of 1 / Scale^2.
ExactTotal(c, h, m) == c * Scale + Worth(h, {t \in Open(h) : m[t] > 0}, m)

Quoted(h, m) == \A t \in Open(h) : m[t] > 0

\* get_total_portfolio_value, which needs every quote.
Total(c, h, m) == RoundHalfUp(ExactTotal(c, h, m), Scale)
-----------------------------------------------------------------------------
(* execute_buy.  Amounts are in parts. *)

Parts(amount, ratio) == amount * ratio * Scale
Whole(amount) == Parts(amount, Ratio)

SectorWorth(h, t, m) ==
    Worth(h, {s \in Open(h) : SectorOf[s] = SectorOf[t]}, m) * Ratio

\* The configuration of a committee has no limits of its own, and its rebuild reads
\* those of the defaults.
InForce == IF rebuild.on /\ policy = Autonomous THEN DefaultPolicy ELSE policy
Bound == InForce \in Policies
Unbound == InForce = Autonomous

\* Which tickers are eligible is the batch's choice; a ticker that is not is
\* refused, and so never reaches this point.
PolicyAllows(t, total, part) ==
    /\ t \in DOMAIN holdings \/ Cardinality(Open(holdings)) < InForce.positions
    /\ \/ SectorOf[t] = Unclassified
       \/ total = 0
       \/ SectorWorth(holdings, t, quotes') + Parts(total, part) <= Parts(total, InForce.sector)

\* What a purchase is cut down to: the position cap less what is held, and the
\* cash less the fee and the reserve.  Nothing above zero is a refusal.
PositionCap == IF Bound THEN InForce.cap ELSE MaxPositionRatio

\* Mutant of BelowCap: the cap is per order.
BelowCapAlone(t, total, part) ==
    IF Unbound THEN Parts(total, part)
    ELSE Min({Parts(total, part), Parts(total, PositionCap)})

BelowCap(t, total, part) ==
    IF Unbound THEN Parts(total, part)
    ELSE Min({Parts(total, part),
              Parts(total, PositionCap) - Value(QuantityOf(holdings, t), quotes'[t]) * Ratio})

Available(total) ==
    Whole(cash - Fee) - (IF Bound THEN Parts(total, InForce.reserve) ELSE 0)

BuyAmount(t, total, part) == Min({BelowCap(t, total, part), Available(total)})

\* Account.deduct refuses to go below zero; execute_buy ignores its answer.
Deducted(amount) == IF amount <= cash THEN cash - amount ELSE cash

\* Mutant of Added: what the old shares cost is counted at the new price.
AddedAtPrice(t, price, amount) ==
    LET shares == QuantityOf(holdings, t) * Ratio * price + amount
        cost == IF t \in DOMAIN holdings THEN holdings[t].cost ELSE 0
    IN Put(holdings, t, [quantity |-> RoundHalfUp(shares, Ratio * price),
                         cost |-> RoundHalfUp((shares + cost * Ratio) * price, shares)])

\* Holding.add_shares: amount buys amount / price shares.
Added(t, price, amount) ==
    LET old == QuantityOf(holdings, t)
        cost == IF t \in DOMAIN holdings THEN holdings[t].cost ELSE 0
        shares == old * Ratio * price + amount      \* of 1 / (Ratio * price)
        paid == old * cost * Ratio + amount
    IN Put(holdings, t, [quantity |-> RoundHalfUp(shares, Ratio * price),
                         cost |-> RoundHalfUp(paid * price, shares)])

\* The row counts as a trade when the fee, which comes last, can be paid.
Record(kind, t, part, balance) ==
    /\ balance >= Fee
    /\ cash' = balance - Fee
    /\ last' = [kind |-> kind, ticker |-> t, part |-> part]
    /\ trades' = trades + 1

Accepted(t, part) ==
    LET total == Total(cash, holdings, quotes')
        amount == BuyAmount(t, total, part)
    IN  /\ Quoted(holdings, quotes') /\ quotes'[t] > 0
        /\ Bound => PolicyAllows(t, total, part)
        /\ amount > 0
        /\ Deducted(RoundHalfUp(amount, Scale * Ratio)) >= Fee

BuyFor(t, part) ==
    LET amount == BuyAmount(t, Total(cash, holdings, quotes'), part)
    IN  /\ Accepted(t, part)
        /\ holdings' = Added(t, quotes'[t], amount)
        /\ Record("BUY", t, part, Deducted(RoundHalfUp(amount, Scale * Ratio)))

\* A rebuild holds the write lock; a risk pass holds none.
Unlocked == ~rebuild.on
Room == trades < MaxTrades

\* Somebody else than the risk pass acts on the account.
Meddle == pass' = [pass EXCEPT !.alone = FALSE]

Buy(t, part) ==
    /\ Unlocked /\ Room
    /\ quotes' \in Quotes
    /\ BuyFor(t, part)
    /\ Meddle
    /\ UNCHANGED <<policy, rebuild, events>>
-----------------------------------------------------------------------------
(* execute_sell *)

\* Selling n/d of the portfolio's value, at most the whole position: held,
\* target and sold count shares of 1 / (d * price).
Held(t, price, d) == holdings[t].quantity * d * price
Target(total, n) == total * Scale * n
Sold(t, price, total, n, d) == Min({Target(total, n), Held(t, price, d)})
Proceeds(t, price, total, n, d) == RoundHalfUp(Sold(t, price, total, n, d), d * Scale)

\* Holding.remove_shares.  When the quotient is the whole position but for its
\* 38th digit, the row goes or stays with a quantity of 0.
Removed(t, price, total, n, d, exact) ==
    LET held == Held(t, price, d)
        left == RoundHalfUp(held - Sold(t, price, total, n, d), d * price)
        row == Put(holdings, t, [holdings[t] EXCEPT !.quantity = left])
        gone == [s \in DOMAIN holdings \ {t} |-> holdings[s]]
    IN  CASE Target(total, n) < held -> {row}
          [] Target(total, n) > held -> {gone}
          [] OTHER -> IF exact THEN {gone} ELSE {gone, row}

SellShares(t, price, total, n, d, exact) ==
    /\ Sold(t, price, total, n, d) > 0
    /\ holdings' \in Removed(t, price, total, n, d, exact)
    /\ Record("SELL", t, n, cash + Proceeds(t, price, total, n, d))

\* An agent states its allocation; a person's is the quotient of the amount
\* asked for and the portfolio value.
Sell(t, part) ==
    /\ Unlocked /\ Room
    /\ t \in Open(holdings)
    /\ quotes' \in Quotes /\ Quoted(holdings, quotes')
    /\ SellShares(t, quotes'[t], Total(cash, holdings, quotes'), part, Ratio, policy # NoPolicy)
    /\ Meddle
    /\ UNCHANGED <<policy, rebuild, events>>
-----------------------------------------------------------------------------
(* What else changes an account: corporate actions and resets *)

Event == Unlocked /\ events < MaxEvents /\ events' = events + 1

\* CorporateActionStore.apply_split, of a row opened before the day of the split.
SplitHolding(t) ==
    /\ Event /\ t \in Open(holdings)
    /\ \E ratio \in Splits :
          holdings' = Put(holdings, t,
              [quantity |-> RoundHalfUp(holdings[t].quantity * ratio.shares, ratio.for),
               cost |-> RoundHalfUp(holdings[t].cost * ratio.for, ratio.shares)])
    /\ Meddle
    /\ UNCHANGED <<cash, quotes, policy, last, rebuild, trades>>

\* A dividend is paid, or taken back if the balance allows it.
PayDividend ==
    /\ Event
    /\ \E amount \in Payments :
          \/ cash' = cash + amount
          \/ amount <= cash /\ cash' = cash - amount
    /\ Meddle
    /\ UNCHANGED <<holdings, quotes, policy, last, rebuild, trades>>

\* reset_mutable_simulation_state
ResetAccount ==
    /\ Event
    /\ cash' = StartingCash /\ holdings' = << >> /\ last' = NoTrade
    /\ Meddle
    /\ UNCHANGED <<quotes, policy, rebuild, trades>>
-----------------------------------------------------------------------------
(* auto_enforce_risk_rules *)

SaleDue(position, price) ==
    \/ price * 100 < position.cost * (100 - StopLoss)
    \/ price * 100 > position.cost * (100 + TakeProfit)

\* Holding.all_for_user; what has no quote will not be visited.
StartPass ==
    /\ Bound /\ Unlocked /\ Room /\ ~pass.on
    /\ quotes' \in Quotes
    /\ pass' = [NoPass EXCEPT !.on = TRUE, !.seen = holdings, !.market = quotes',
                              !.left = {t \in Open(holdings) : quotes'[t] > 0}, !.alone = TRUE]
    /\ UNCHANGED <<cash, holdings, policy, last, rebuild, trades, events>>

\* Account.get_by_user_id, and total_value of the two reads.
ValuePass ==
    /\ pass.on /\ ~pass.valued /\ Unlocked
    /\ pass' = [pass EXCEPT !.valued = TRUE, !.worth = ExactTotal(cash, pass.seen, pass.market)]
    /\ UNCHANGED <<cash, holdings, quotes, policy, last, rebuild, trades, events>>

\* The holdings are visited in order; one that broke no rule is passed over.
NextDue == Min(pass.left)
Triggered(t) == SaleDue(pass.seen[t], pass.market[t])

\* Mutant of Share: the position is valued at its cost.
ShareAtCost(t) == Value(pass.seen[t].quantity, pass.seen[t].cost)

\* allocation_percentage: the value of the position over that of the portfolio,
\* both as read at the start.
Share(t) == Value(pass.seen[t].quantity, pass.market[t])

\* execute_sell reads the account anew.
Now == Total(cash, holdings, pass.market)

\* It is refused when the position is gone, the quote of a holding is missing or the
\* fee cannot be paid.
SaleAccepted(t) ==
    /\ t \in Open(holdings) /\ Quoted(holdings, pass.market)
    /\ Sold(t, pass.market[t], Now, Share(t), pass.worth) > 0
    /\ cash + Proceeds(t, pass.market[t], Now, Share(t), pass.worth) >= Fee

Visit == pass.on /\ pass.valued /\ pass.left # {} /\ Unlocked

ForcedSell ==
    /\ Visit
    /\ Triggered(NextDue) /\ SaleAccepted(NextDue)
    /\ SellShares(NextDue, pass.market[NextDue], Now, Share(NextDue), pass.worth, FALSE)
    /\ quotes' = pass.market
    /\ pass' = [pass EXCEPT !.left = @ \ {NextDue}, !.fees = @ + 1]
    /\ UNCHANGED <<policy, rebuild, events>>

\* No rule is broken, or the sale was refused and the error logged.
PassOver ==
    /\ Visit
    /\ ~(Triggered(NextDue) /\ SaleAccepted(NextDue))
    /\ pass' = [pass EXCEPT !.left = @ \ {NextDue}, !.kept = @ \cup {NextDue}]
    /\ UNCHANGED <<cash, holdings, quotes, policy, last, rebuild, trades, events>>

EndPass ==
    /\ pass.on /\ pass.valued /\ pass.left = {}
    /\ pass' = NoPass
    /\ UNCHANGED <<cash, holdings, quotes, policy, last, rebuild, trades, events>>

-----------------------------------------------------------------------------
(* build_portfolio: a plan of a model replaces the portfolio, whole or not at *)
(* all                                                                        *)

\* _validate_portfolio_plan, with the percentages as parts.
PlanIsValid(plan, limit, market) ==
    LET allocated == FoldFunction(LAMBDA leg, sum : leg.part + sum, 0, plan) IN
    /\ Len(plan) \in 1..limit.positions
    /\ \A i, j \in DOMAIN plan : plan[i].ticker = plan[j].ticker => i = j
    /\ \A i \in DOMAIN plan : /\ 20 * plan[i].part >= Ratio /\ plan[i].part <= limit.cap
                             /\ market[plan[i].ticker] > 0
    /\ allocated <= Ratio
    /\ 10 * allocated >= 6 * Ratio

Plans == UNION {[1..n -> [ticker : Tickers, part : PlanParts]] : n \in 1..Cardinality(Tickers)}

StartRebuild ==
    /\ Unlocked /\ Room /\ policy # NoPolicy
    /\ quotes' \in Quotes
    /\ \E plan \in Plans :
          /\ PlanIsValid(plan, IF policy = Autonomous THEN DefaultPolicy ELSE policy, quotes')
          /\ rebuild' = [on |-> TRUE, left |-> plan, cash |-> cash, holdings |-> holdings]
    /\ cash' = StartingCash /\ holdings' = << >>
    /\ last' = NoTrade
    /\ Meddle
    /\ UNCHANGED <<policy, trades, events>>

BuyLeg ==
    /\ rebuild.on /\ rebuild.left # << >>
    /\ UNCHANGED quotes
    /\ BuyFor(Head(rebuild.left).ticker, Head(rebuild.left).part)
    /\ rebuild' = [rebuild EXCEPT !.left = Tail(@)]
    /\ UNCHANGED <<policy, pass, events>>

\* One purchase was refused: the transaction is rolled back.
AbandonRebuild ==
    /\ rebuild.on /\ rebuild.left # << >>
    /\ UNCHANGED quotes
    /\ ~Accepted(Head(rebuild.left).ticker, Head(rebuild.left).part)
    /\ cash' = rebuild.cash /\ holdings' = rebuild.holdings
    /\ rebuild' = NoRebuild /\ last' = NoTrade
    /\ UNCHANGED <<policy, pass, trades, events>>

EndRebuild ==
    /\ rebuild.on /\ rebuild.left = << >>
    /\ rebuild' = NoRebuild
    /\ UNCHANGED <<cash, holdings, quotes, policy, last, pass, trades, events>>

EngineFinished == ~pass.on /\ Unlocked /\ ~Room /\ UNCHANGED engineVars

EngineNext ==
    \/ \E t \in Tickers, part \in Allocations : Buy(t, part) \/ Sell(t, part)
    \/ \E t \in Tickers : SplitHolding(t)
    \/ PayDividend \/ ResetAccount
    \/ StartPass \/ ValuePass \/ ForcedSell \/ PassOver \/ EndPass
    \/ StartRebuild \/ BuyLeg \/ AbandonRebuild \/ EndRebuild
    \/ EngineFinished

EngineSpec == EngineInit /\ [][EngineNext]_engineVars
-----------------------------------------------------------------------------
IsPortfolio(h) == DOMAIN h \subseteq Tickers /\ \A t \in DOMAIN h : h[t] \in Position

\* The types of the variables.  The cash never falls below zero.
EngineTypeOK ==
    /\ cash \in Nat
    /\ IsPortfolio(holdings)
    /\ quotes \in Quotes
    /\ policy \in Policies \cup {NoPolicy, Autonomous}
    /\ last \in [kind : {"none", "BUY", "SELL"}, ticker : Tickers \cup {0}, part : Nat]
    /\ pass.left \cup pass.kept \subseteq Tickers
    /\ {trades, events} \subseteq Nat

Traded == trades' # trades

\* What holds of a purchase, in the limits in force.
WithinLimits ==
    LET t == last'.ticker
        total == Total(cash, holdings, quotes')
        slack == Ratio * quotes'[t]
        worth == Value(holdings'[t].quantity, quotes'[t])
        bought == worth - Value(QuantityOf(holdings, t), quotes'[t])
    IN  /\ 2 * Ratio * bought <= 2 * Parts(total, last'.part) + slack
        /\ ~Unbound => 2 * Ratio * worth <= 2 * Parts(total, PositionCap) + slack
        /\ Bound =>
              /\ 2 * Whole(cash') + Whole(1) >= 2 * Parts(total, InForce.reserve)
              /\ SectorOf[t] # Unclassified =>
                    2 * SectorWorth(holdings', t, quotes')
                       <= 2 * Parts(total, InForce.sector) + slack

\* However much was asked for and however often, a purchase buys no more than that and,
\* when guardrails bind it, ends within the position cap, above the cash reserve (the
\* fee is paid out of the rest) and, in a classified sector, within the sector cap; so
\* do the purchases of a plan that together ask for all of the cash.
BuysStayWithinPolicy == [][Traded /\ last'.kind = "BUY" => WithinLimits]_engineVars

\* What holds of the money of a trade.
MoneyIsKept ==
    LET change == ExactTotal(cash', holdings', quotes') - ExactTotal(cash, holdings, quotes')
        drift == 2 * (change + Fee * Scale)
        rounding == Scale + quotes'[last'.ticker]
    IN  -rounding <= drift /\ drift <= rounding

\* The prices between which the average cost of t has to be after a purchase.
Paid(t) == {quotes'[t]} \cup IF QuantityOf(holdings, t) > 0 THEN {holdings[t].cost} ELSE {}

CostIsBetween(t) == Min(Paid(t)) <= holdings'[t].cost /\ holdings'[t].cost <= Max(Paid(t))

\* A trade neither makes nor loses money: at the prices it was made at, the portfolio is
\* worth the fee less than before, give or take the rounding of one amount of cash and
\* one quantity of shares.  And the average cost of a position that grows is between
\* what its shares cost before and what the new ones cost, over any sequence of trades.
TradesAreAccounted ==
    [][Traded => MoneyIsKept /\ (last'.kind = "BUY" => CostIsBetween(last'.ticker))]_engineVars

\* The positions that a pass has sold, and what others may have bought of them since.
Forced == {t \in Open(pass.seen) : pass.market[t] > 0} \ (pass.left \cup pass.kept)

\* While a pass is alone with the account, what it leaves of a position it sold is worth no
\* more than the fees of its sales before (and the rounding of these sales): they had
\* lowered the portfolio value that the allocation is a part of.
LittleIsLeft ==
    pass.on /\ pass.alone => \A t \in Forced :
        2 * Value(QuantityOf(holdings, t), pass.market[t])
            <= 2 * (pass.fees - 1) * Fee * Scale + pass.fees * (Scale + Max(Prices))

IsForcedSale == pass.on /\ pass'.on /\ pass'.fees # pass.fees

\* What a forced sale leaves when others did act: nothing, or no more than the position
\* has grown by since the pass read it and the portfolio has lost since then.
LeavesLittle ==
    LET t == NextDue
        left == Value(QuantityOf(holdings', t), pass.market[t])
        grown == Value(QuantityOf(holdings, t), pass.market[t]) - Share(t)
        lost == pass.worth - ExactTotal(cash, holdings, pass.market)
    IN  left = 0 \/ 2 * left <= 2 * grown + 2 * Max({0, lost}) + Scale + pass.market[t]

\* A forced sale sells the position but for what happened since the pass read the account:
\* its own sales before, which cost their fees, and whatever trades, rebuild, splits,
\* dividends and resets came in between.  No trade of the pass, or outside of one, takes the
\* cash below zero (EngineTypeOK).
ForcedSalesLeaveLittle ==
    /\ [](EngineTypeOK /\ LittleIsLeft)
    /\ [][IsForcedSale => LeavesLittle]_engineVars

\* A position that a risk pass sells is sold whole.
ForcedSalesSellAll == pass.on /\ pass.alone => \A t \in Forced : t \notin Open(holdings)

\* What ForcedSalesLeaveLittle rests on.  What a pass read was an account, of which a row is
\* a part; alone, it knows the rows it has not visited yet as they are, and the account has
\* lost no more since its start than its sales cost.
Lost(n) == 2 * n * Fee * Scale + n * (Scale + Max(Prices))  \* by n sales, twice

PassIsRead ==
    /\ IsPortfolio(pass.seen) /\ pass.market \in Quotes /\ pass.worth \in Nat /\ pass.fees \in Nat
    /\ \A t \in pass.left : /\ t \in Open(pass.seen) /\ pass.market[t] > 0
                            /\ pass.valued => Share(t) <= pass.worth

PassIsCurrent ==
    /\ \A t \in pass.left : t \in DOMAIN holdings /\ holdings[t] = pass.seen[t]
    /\ IF pass.valued
       THEN 2 * pass.worth <= 2 * ExactTotal(cash, holdings, pass.market) + Lost(pass.fees)
       ELSE holdings = pass.seen /\ pass.fees = 0

\* A rebuild can be rolled back, and whoever is passing over the account is not alone with it.
RebuildCanEnd ==
    rebuild.on => /\ ~pass.alone /\ rebuild.cash \in Nat /\ IsPortfolio(rebuild.holdings)
                  /\ rebuild.left \in Seq([ticker : Tickers, part : PlanParts])

EngineInv ==
    /\ EngineTypeOK /\ LittleIsLeft
    /\ DOMAIN pass = DOMAIN NoPass /\ DOMAIN rebuild = DOMAIN NoRebuild
    /\ ~pass.on => pass.left = {} /\ ~pass.alone
    /\ pass.on => PassIsRead
    /\ pass.on /\ pass.alone => PassIsCurrent
    /\ RebuildCanEnd
=============================================================================
