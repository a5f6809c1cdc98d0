------------------------------ MODULE Pricing -------------------------------
(***************************************************************************)
(* What a booking of several items costs, and what is due in advance.      *)
(*                                                                         *)
(* Every item has a price: fixed, starting from an amount, or within a     *)
(* range; and a policy of advance payment.  Both are as availability and   *)
(* the settings resolve them: an override before what it overrides.  A     *)
(* booking shows one price for all its items, asks for one advance, and is *)
(* stored when its schema accepts them; a booking of an accepted quote     *)
(* takes over the quote's.                                                 *)
(*                                                                         *)
(* Amounts are in minor units of one currency, percentages whole numbers.  *)
(* An item without a price, or whose advance has to be quoted, is refused  *)
(* before, and so left out.                                                *)
(***************************************************************************)
EXTENDS Naturals, Sequences

CONSTANTS
    Amounts,     \* the amounts prices and advances are made of
    Percentages  \* the percentages of an advance

ASSUME PricingAssumption ==
    Amounts \subseteq Nat /\ Percentages \subseteq 1..100

\* A fixed price is a range of one amount; the end of an open one is its start.
Prices ==
    {p \in [mode : {"fixed", "starting_from", "range"}, from : Amounts, to : Amounts] :
        /\ p.from <= p.to
        /\ p.mode # "range" => p.from = p.to}

Policies ==
    {[requirement |-> "none", calculation |-> "none", amount |-> 0]} \cup
    [requirement : {"optional", "required"}, calculation : {"fixed"}, amount : Amounts \ {0}] \cup
    [requirement : {"optional", "required"}, calculation : {"percentage"}, amount : Percentages]

Carts ==
    LET Item == [price : Prices, policy : Policies] IN {<<i>> : i \in Item} \cup (Item \X Item)

-----------------------------------------------------------------------------
(* Pricing a booking *)

priceEstimate(price) == price.from

Sum(amounts) ==
    LET upTo[n \in 0..Len(amounts)] == IF n = 0 THEN 0 ELSE upTo[n - 1] + amounts[n]
    IN  upTo[Len(amounts)]

\* A part of a minor unit is not charged.
RoundedDown(n, percentage) == (n * percentage) \div 100

\* A part of a minor unit is charged as one.
Rounded(n, percentage) == (n * percentage + 99) \div 100

calculateAdvance(policy, estimate) ==
    CASE policy.calculation = "none"  -> 0
      [] policy.calculation = "fixed" -> policy.amount
      [] OTHER                        -> Rounded(estimate, policy.amount)

\* What the booking asks for is the strictest of what its items do.
Requirement(cart) ==
    LET asked == {cart[n].policy.requirement : n \in DOMAIN cart} IN
    IF "required" \in asked THEN "required"
    ELSE IF "optional" \in asked THEN "optional" ELSE "none"

\* A price that has no end leaves the whole without one.
Mode(cart) ==
    LET modes == {cart[n].price.mode : n \in DOMAIN cart} IN
    CASE modes = {"fixed"}            -> "fixed"
      [] "starting_from" \in modes  -> "starting_from"
      [] OTHER                        -> "range"

combinePricing(cart) ==
    [mode |-> Mode(cart),
     from |-> Sum([n \in DOMAIN cart |-> priceEstimate(cart[n].price)]),
     to   |-> Sum([n \in DOMAIN cart |-> cart[n].price.to]),
     requirement |-> Requirement(cart),
     due  |-> Sum([n \in DOMAIN cart |->
                  calculateAdvance(cart[n].policy, priceEstimate(cart[n].price))])]

\* The quotes their schema accepts.
Quotes ==
    {q \in [total : Amounts, requirement : {"none", "optional", "required"}, due : Amounts] :
        /\ q.due <= q.total
        /\ q.requirement = "none" => q.due = 0
        /\ q.requirement = "required" => q.due > 0}

\* The price of a booking of an accepted quote.
QuotedPricing(q) ==
    [mode |-> "quote_required", from |-> q.total, to |-> q.total, requirement |-> q.requirement,
     due |-> q.due]

\* What the schema of bookings accepts; nothing has been paid yet.
Storable(b) ==
    /\ b.requirement = "none" => b.due = 0
    /\ b.requirement = "required" => b.due > 0
    /\ b.mode = "range" => b.from <= b.to

-----------------------------------------------------------------------------
(* What is expected of a price *)

\* A part of nothing is nothing.
AsksAPartOfNothing(item) ==
    item.policy.calculation = "percentage" /\ item.price.from = 0

\* The advance a booking of the cart requires is not rounded away, however small
\* its price, and none is due that nobody asks for.  When every item that asks for
\* one asks for a part of nothing, it cannot always be stored.
StorableWhenPriced(cart) ==
    \/ Storable(combinePricing(cart))
    \/ \A n \in DOMAIN cart :
         cart[n].policy.requirement # "none" => AsksAPartOfNothing(cart[n])

\* Whatever each item turns out to cost within its own price, the whole is as shown.
ShownPriceHolds(cart) ==
    LET shown == combinePricing(cart)
        Costs(n) ==
            LET p == cart[n].price IN
            IF p.mode = "starting_from" THEN {a \in Amounts : a >= p.from} ELSE {p.from, p.to}
    IN
    \A costs \in [DOMAIN cart -> Amounts] :
        (\A n \in DOMAIN cart : costs[n] \in Costs(n)) =>
            LET cost == Sum(costs) IN
            /\ shown.from <= cost
            /\ shown.mode \in {"fixed", "range"} => cost <= shown.to
            /\ shown.mode = "fixed" => cost = shown.from

\* How many items a cart has that is priced in another way than expected.
Mispriced ==
    {Len(cart) : cart \in {c \in Carts : ~(StorableWhenPriced(c) /\ ShownPriceHolds(c))}}

QuotesAreStorable == \A q \in Quotes : Storable(QuotedPricing(q))
=============================================================================
