------------------------------ MODULE EntrySizing ------------------------------
(***************************************************************************)
(* How many contracts an entry buys and what may be lost on them           *)
(* (evaluate_entry and its helpers in src/src/app.rs, the economics of a   *)
(* position in trading.rs, the fills of broker.rs and iol_client.rs).      *)
(*                                                                         *)
(* Money is in integers: a price is in two hundredths of its unit, so that *)
(* the limit, half a percent above the ask, is one; rates are in parts of  *)
(* Scale; amounts in which rates were multiplied are too, and are named    *)
(* for how often.                                                          *)
(***************************************************************************)
EXTENDS Integers

CONSTANTS
    Scale,
    Asks, Multipliers, Costs, Slippages, StopLosses, Taxes,     \* bounds
    Budgets, MaxLosses, Sizes, Factors, Funds,                  \* bounds
    Prices                                                      \* bound: of fills

ASSUME SizingAssumption ==
    /\ Scale \in Nat \ {0}
    /\ Asks \cup Multipliers \cup Budgets \cup MaxLosses \cup Sizes \cup Factors \cup Prices \subseteq Nat \ {0}
    /\ Costs \cup Slippages \subseteq 0..(Scale - 1)
    /\ StopLosses \subseteq 1..Scale /\ Taxes \subseteq 0..Scale
    /\ Funds \subseteq Nat

VARIABLES
    stage,          \* "idle", "offered", "sized", "rejected", "open", "unfilled" or "aborted"
    offer,          \* the option, the rates and the limits of one entry
    quantity,
    paid            \* the price of the fill

sizing == <<stage, offer, quantity, paid>>

NoOffer == [ask |-> 0]
Least(a, b) == IF a < b THEN a ELSE b
Most(a, b) == IF a > b THEN a ELSE b

SizingInit == stage = "idle" /\ offer = NoOffer /\ quantity = 0 /\ paid = 0

MarketPrice == 200 * offer.ask
LimitPrice == 201 * offer.ask

-----------------------------------------------------------------------------
(* The limits: execution_risk_limits, effective_investment_budget          *)

\* The limits are halved, or more, at lunch and with a high VIX.
MaxLoss == offer.maxLoss \div offer.factor
MaxSize == Most(offer.size \div offer.factor, 1)
\* The funds of the account limit what is bought with real money.
Budget ==
    IF offer.real THEN Least(offer.budget \div offer.factor, offer.funds)
    ELSE offer.budget \div offer.factor

-----------------------------------------------------------------------------
(* Economics: build_position_economics                                     *)

Units(n) == n * offer.multiplier

\* stop_price, of n contracts bought at e, is the larger of two triggers.
PercentageTrigger(e, n) == e * (Scale - offer.stop) * Units(n) * (Scale - offer.cost) * (Scale - offer.slip)
AbsoluteTrigger(e, n) == Scale * Scale * Most(e * (Scale + offer.cost) * Units(n) - MaxLoss * Scale, 0)
EntryTrigger(e, n) == e * Scale * Units(n) * (Scale - offer.cost) * (Scale - offer.slip)
StopPrice(e, n) == Most(PercentageTrigger(e, n), AbsoluteTrigger(e, n))

\* What the stop costs before it is capped, times Scale cubed.
LossAtStop3(e, n) ==
    IF PercentageTrigger(e, n) >= AbsoluteTrigger(e, n)
    THEN e * Units(n) * ((Scale + offer.cost) * Scale * Scale
                         - (Scale - offer.stop) * (Scale - offer.slip) * (Scale - offer.cost))
    ELSE MaxLoss * Scale * Scale * Scale
MaxNetLoss3(e, n) == Least(LossAtStop3(e, n), MaxLoss * Scale * Scale * Scale)

\* None without a stop below the entry, or with a tax and costs no price pays.
EconomicsExist(e, n) ==
    /\ MaxLoss > 0 /\ StopPrice(e, n) < EntryTrigger(e, n)
    /\ Scale - offer.tax > offer.cost

-----------------------------------------------------------------------------
(* The entry                                                               *)

\* purchase_cash_required, times Scale
CashRequired1(price, n) == price * Units(n) * (Scale + offer.cost)

\* Mutant: the cash is reckoned at the price of the market.
CashQuantityAtMarket ==
    Least((Budget * Scale) \div CashRequired1(MarketPrice, 1), MaxSize)
\* affordable_contracts
CashQuantity == Least((Budget * Scale) \div CashRequired1(LimitPrice, 1), MaxSize)

\* Mutant: the risk of a trade does not count its contracts.
RiskQuantityAny == IF EconomicsExist(LimitPrice, 1) THEN MaxSize ELSE 0
RiskQuantity ==
    IF EconomicsExist(LimitPrice, 1)
    THEN (MaxLoss * Scale * Scale * Scale) \div MaxNetLoss3(LimitPrice, 1)
    ELSE 0

EntryQuantity == Least(CashQuantity, RiskQuantity)

\* An option is chosen, in some state of the account.
Offer ==
    /\ stage = "idle"
    /\ offer' \in [ask : Asks, multiplier : Multipliers, cost : Costs, slip : Slippages,
                   stop : StopLosses, tax : Taxes, budget : Budgets, maxLoss : MaxLosses,
                   size : Sizes, factor : Factors, funds : Funds, real : BOOLEAN]
    /\ stage' = "offered"
    /\ UNCHANGED <<quantity, paid>>

\* The cash also has to pass max_notional of the risk manager, a choice here.
SizeEntry ==
    /\ stage = "offered"
    /\ quantity' = EntryQuantity
    /\ stage' = IF quantity' = 0 THEN "rejected" ELSE "sized"
    /\ UNCHANGED <<offer, paid>>

\* Economics that cannot be built end the run with the position bought and not
\* opened.
OpenAt(price) ==
    /\ paid' = price
    /\ stage' = IF EconomicsExist(price, quantity) THEN "open" ELSE "aborted"

\* PaperBroker: the market and its slippage, which rejects what is over the limit.
FillSimulated ==
    /\ stage = "sized" /\ ~offer.real
    /\ \E price \in {p \in Prices : p >= MarketPrice} :
        IF price <= LimitPrice THEN OpenAt(price) ELSE stage' = "unfilled" /\ UNCHANGED paid
    /\ UNCHANGED <<offer, quantity>>

\* IOL: parse_order_execution and validate_order_execution want a price that is
\* finite and positive, and do not compare it with the limit that was sent.
FillReal ==
    /\ stage = "sized" /\ offer.real
    /\ \E price \in Prices : OpenAt(price)
    /\ UNCHANGED <<offer, quantity>>

SizingNext == Offer \/ SizeEntry \/ FillSimulated \/ FillReal
SizingSpec == SizingInit /\ [][SizingNext]_sizing

-----------------------------------------------------------------------------

Filled == stage \in {"open", "aborted"}
MayCost == IF offer.real THEN Least(offer.budget, offer.funds) ELSE offer.budget
CostsNoMoreThanAllowed == CashRequired1(paid, quantity) <= MayCost * Scale

\* A position that is opened, at whatever price was reported, loses at its stop,
\* once the stop is reached and paid for, no more than the limit of a trade.  And
\* every fill the order allows - each simulated one, and a real one up to the
\* limit sent - opens a position that cost, with its fees, no more than the
\* budget and the funds: the quantity decided at the limit price is right for
\* whatever better price and however the limits were reduced, so that such a
\* fill does not reach the error between a purchase and its PositionOpened
\* (app.rs:1711).
FillsKeepTheLimits ==
    /\ stage = "open" => LossAtStop3(paid, quantity) <= MaxLoss * Scale * Scale * Scale
    /\ Filled /\ (offer.real => paid <= LimitPrice) =>
        stage = "open" /\ CostsNoMoreThanAllowed /\ quantity <= offer.size

\* What is accepted as the execution of an order corresponds to it: its price is
\* one the order allows, so that what was bought is a position and within its
\* money (broker.rs:47, PLAN.md:17).  It does not: a real execution reported
\* above its limit is accepted, and costs more than the funds or ends the run
\* with the purchase filled and no position (app.rs:1711).
ExecutionsMatchTheirOrder == Filled => stage = "open" /\ CostsNoMoreThanAllowed
=============================================================================
