------------------------- MODULE Availability_proofs -------------------------
(***************************************************************************)
(* Proofs about Availability and Pricing.                                  *)
(***************************************************************************)
EXTENDS Availability, WellFoundedInduction, SequenceTheorems, FiniteSetTheorems, TLAPS

-----------------------------------------------------------------------------
(* Induction *)

\* A set of natural numbers that is not empty has a least element.  This is how
\* everything below is shown of every n: the least counterexample is not 0, and
\* the number before it would be another.
LEMMA Least ==
    ASSUME NEW S \in SUBSET Nat, S # {}
    PROVE  \E n \in S : \A m \in S : n <= m
<1>1. \E n \in S : \A m \in S : <<m, n>> \notin OpToRel(<, Nat)
    BY WFMin, NatLessThanWellFounded, Zenon
<1>2. \A m, n \in Nat : m < n => <<m, n>> \in OpToRel(<, Nat)
    BY Zenon DEF OpToRel
<1>3. \E n \in S : \A m \in S : ~(m < n)
    BY <1>1, <1>2, Zenon
<1> QED  BY <1>3

\* A set of natural numbers with 0 that has n + 1 with n < k, has all up to k.
LEMMA Upwards ==
    ASSUME NEW k \in Nat, NEW S, 0 \in S, \A n \in 0 .. k - 1 : n \in S => n + 1 \in S
    PROVE  \A n \in 0 .. k : n \in S
<1> SUFFICES ASSUME NEW j \in 0 .. k, j \notin S PROVE FALSE
    OBVIOUS
<1> DEFINE T == {n \in 0 .. k : n \notin S}
<1>1. T \in SUBSET Nat /\ T # {}
    OBVIOUS
<1>2. PICK n \in T : \A m \in T : n <= m
    BY <1>1, Least
<1>3. n # 0 /\ n - 1 \in 0 .. k - 1
    BY <1>2
<1>4. n - 1 \in S
    BY <1>2, <1>3
<1> QED  BY <1>2, <1>3, <1>4

-----------------------------------------------------------------------------
(* Sums *)

Totals(s) == CHOOSE f : f = [n \in 0 .. Len(s) |-> IF n = 0 THEN 0 ELSE f[n - 1] + s[n]]

\* The running totals up to the n-th amount.
Running(s, k) == {f \in [0 .. k -> Nat] : f[0] = 0 /\ \A n \in 1 .. k : f[n] = f[n - 1] + s[n]}

LEMMA RunningOn ==
    ASSUME NEW s \in Seq(Nat), NEW k \in 0 .. Len(s) - 1, Running(s, k) # {}
    PROVE  Running(s, k + 1) # {}
<1>0. Len(s) \in Nat /\ s[k + 1] \in Nat /\ k \in Nat
    OBVIOUS
<1>1. PICK f \in [0 .. k -> Nat] : f[0] = 0 /\ \A n \in 1 .. k : f[n] = f[n - 1] + s[n]
    BY DEF Running
<1> DEFINE g == [n \in 0 .. k + 1 |-> IF n = k + 1 THEN f[k] + s[k + 1] ELSE f[n]]
<1>2. g \in [0 .. k + 1 -> Nat]
    BY <1>0, <1>1
<1>3. g[0] = 0 /\ g[k + 1] = f[k] + s[k + 1] /\ \A n \in 0 .. k : g[n] = f[n]
    BY <1>0, <1>1
<1> HIDE DEF g
<1>4. ASSUME NEW n \in 1 .. k + 1 PROVE g[n] = g[n - 1] + s[n]
  <2>1. CASE n = k + 1
    BY <1>0, <1>3, <2>1
  <2>2. CASE n \in 1 .. k
    <3>1. n \in 0 .. k /\ n - 1 \in 0 .. k
        BY <2>2, <1>0
    <3> QED  BY <2>2, <3>1, <1>1, <1>3
  <2> QED  BY <1>0, <2>1, <2>2
<1>5. g \in Running(s, k + 1)
    BY <1>2, <1>3, <1>4 DEF Running
<1> QED  BY <1>5

\* Sum adds up one amount after the other.
LEMMA Totalled ==
    ASSUME NEW s \in Seq(Nat)
    PROVE  /\ Totals(s) \in [0 .. Len(s) -> Nat]
           /\ Totals(s)[0] = 0
           /\ \A n \in 1 .. Len(s) : Totals(s)[n] = Totals(s)[n - 1] + s[n]
           /\ Sum(s) = Totals(s)[Len(s)]
<1>0. Len(s) \in Nat
    OBVIOUS
<1> DEFINE S == {k \in 0 .. Len(s) : Running(s, k) # {}}
<1>1. 0 \in S
  <2>1. [n \in 0 .. 0 |-> 0] \in Running(s, 0)
    BY DEF Running
  <2> QED  BY <1>0, <2>1
<1>2. \A k \in 0 .. Len(s) - 1 : k \in S => k + 1 \in S
    BY <1>0, RunningOn
<1> HIDE DEF S
<1>3. \A k \in 0 .. Len(s) : k \in S
    BY <1>0, <1>1, <1>2, Upwards
<1>4. Running(s, Len(s)) # {}
    BY <1>0, <1>3 DEF S
<1>5. PICK f \in [0 .. Len(s) -> Nat] :
          f[0] = 0 /\ \A n \in 1 .. Len(s) : f[n] = f[n - 1] + s[n]
    BY <1>4 DEF Running
<1>6. \A n \in 0 .. Len(s) : f[n] = IF n = 0 THEN 0 ELSE f[n - 1] + s[n]
    BY <1>0, <1>5
<1>7. f = [n \in 0 .. Len(s) |-> IF n = 0 THEN 0 ELSE f[n - 1] + s[n]]
    BY <1>5, <1>6
<1>8. Totals(s) = [n \in 0 .. Len(s) |-> IF n = 0 THEN 0 ELSE Totals(s)[n - 1] + s[n]]
    BY <1>7, Zenon DEF Totals
<1>9. \A n \in 0 .. Len(s) : Totals(s)[n] = IF n = 0 THEN 0 ELSE Totals(s)[n - 1] + s[n]
    BY <1>8, Zenon
<1> DEFINE T == {k \in 0 .. Len(s) : Totals(s)[k] \in Nat}
<1>10. 0 \in T
    BY <1>0, <1>9
<1>11. \A k \in 0 .. Len(s) - 1 : k \in T => k + 1 \in T
  <2> TAKE k \in 0 .. Len(s) - 1
  <2>1. k + 1 \in 0 .. Len(s) /\ k + 1 # 0 /\ (k + 1) - 1 = k /\ s[k + 1] \in Nat
    BY <1>0
  <2>2. Totals(s)[k + 1] = Totals(s)[k] + s[k + 1]
    BY <2>1, <1>9
  <2> QED  BY <2>1, <2>2
<1> HIDE DEF T
<1>12. \A k \in 0 .. Len(s) : k \in T
    BY <1>0, <1>10, <1>11, Upwards
<1>13. Totals(s) \in [0 .. Len(s) -> Nat]
    BY <1>8, <1>12 DEF T
<1>14. \A n \in 1 .. Len(s) : n \in 0 .. Len(s) /\ n # 0
    BY <1>0
<1>15. Sum(s) = Totals(s)[Len(s)]
    BY Zenon DEF Sum, Totals
<1> QED  BY <1>0, <1>9, <1>13, <1>14, <1>15

LEMMA SumType ==
    ASSUME NEW s \in Seq(Nat)
    PROVE  Sum(s) \in Nat
<1>1. Len(s) \in 0 .. Len(s)
    OBVIOUS
<1> QED  BY <1>1, Totalled

\* Sums of greater amounts are greater.
LEMMA SumGrows ==
    ASSUME NEW s \in Seq(Nat), NEW t \in Seq(Nat), Len(s) = Len(t),
           \A n \in 1 .. Len(s) : s[n] <= t[n]
    PROVE  Sum(s) <= Sum(t)
<1>0. Len(s) \in Nat /\ \A n \in 1 .. Len(s) : s[n] \in Nat /\ t[n] \in Nat
    OBVIOUS
<1> DEFINE S == {k \in 0 .. Len(s) : Totals(s)[k] <= Totals(t)[k]}
<1>1. 0 \in S
    BY <1>0, Totalled
<1>2. \A k \in 0 .. Len(s) - 1 : k \in S => k + 1 \in S
  <2> TAKE k \in 0 .. Len(s) - 1
  <2>1. k \in 0 .. Len(s) /\ k + 1 \in 1 .. Len(s) /\ k + 1 \in 0 .. Len(s) /\ (k + 1) - 1 = k
    BY <1>0
  <2>2. Totals(s)[k + 1] = Totals(s)[k] + s[k + 1] /\ Totals(t)[k + 1] = Totals(t)[k] + t[k + 1]
    BY <2>1, Totalled
  <2>3. Totals(s)[k] \in Nat /\ Totals(t)[k] \in Nat /\ s[k + 1] <= t[k + 1]
    BY <2>1, Totalled
  <2> QED  BY <1>0, <2>1, <2>2, <2>3
<1> HIDE DEF S
<1>3. \A k \in 0 .. Len(s) : k \in S
    BY <1>0, <1>1, <1>2, Upwards
<1> QED  BY <1>0, <1>3, Totalled DEF S

\* A sum is no less than any of its amounts.
LEMMA SumHolds ==
    ASSUME NEW s \in Seq(Nat), NEW m \in 1 .. Len(s)
    PROVE  s[m] <= Sum(s)
<1>0. Len(s) \in Nat /\ \A n \in 1 .. Len(s) : s[n] \in Nat
    OBVIOUS
<1> DEFINE S == {k \in 0 .. Len(s) : k >= m => s[m] <= Totals(s)[k]}
<1>1. 0 \in S
    BY <1>0
<1>2. \A k \in 0 .. Len(s) - 1 : k \in S => k + 1 \in S
  <2> TAKE k \in 0 .. Len(s) - 1
  <2>1. k \in 0 .. Len(s) /\ k + 1 \in 1 .. Len(s) /\ k + 1 \in 0 .. Len(s) /\ (k + 1) - 1 = k
    BY <1>0
  <2>2. Totals(s)[k + 1] = Totals(s)[k] + s[k + 1]
    BY <2>1, Totalled
  <2>3. Totals(s)[k] \in Nat /\ s[k + 1] \in Nat /\ s[m] \in Nat
    BY <1>0, <2>1, Totalled
  <2> QED  BY <1>0, <2>1, <2>2, <2>3
<1> HIDE DEF S
<1>3. \A k \in 0 .. Len(s) : k \in S
    BY <1>0, <1>1, <1>2, Upwards
<1>4. Len(s) \in S
    BY <1>0, <1>3
<1> QED  BY <1>0, <1>4, Totalled DEF S

\* The sum of nothing but zeros is zero.
LEMMA SumOfZeros ==
    ASSUME NEW s \in Seq(Nat), \A n \in 1 .. Len(s) : s[n] = 0
    PROVE  Sum(s) = 0
<1>0. Len(s) \in Nat
    OBVIOUS
<1> DEFINE S == {k \in 0 .. Len(s) : Totals(s)[k] = 0}
<1>1. 0 \in S
    BY <1>0, Totalled
<1>2. \A k \in 0 .. Len(s) - 1 : k \in S => k + 1 \in S
  <2> TAKE k \in 0 .. Len(s) - 1
  <2>1. k + 1 \in 1 .. Len(s) /\ k + 1 \in 0 .. Len(s) /\ (k + 1) - 1 = k
    BY <1>0
  <2>2. Totals(s)[k + 1] = Totals(s)[k] + s[k + 1] /\ s[k + 1] = 0
    BY <2>1, Totalled
  <2> QED  BY <1>0, <2>1, <2>2
<1> HIDE DEF S
<1>3. \A k \in 0 .. Len(s) : k \in S
    BY <1>0, <1>1, <1>2, Upwards
<1>4. Len(s) \in S
    BY <1>0, <1>3
<1> QED  BY <1>0, <1>4, Totalled DEF S

-----------------------------------------------------------------------------
(* Prices *)

CartItem == [price : Prices, policy : Policies]

\* A part of an amount, however small both are, is not rounded away.
LEMMA RoundedUp ==
    ASSUME NEW n \in Nat, NEW percentage \in 1 .. 100
    PROVE  Rounded(n, percentage) \in Nat /\ (n > 0 => Rounded(n, percentage) > 0)
<1>1. n * percentage \in Nat /\ (n > 0 => n * percentage > 0)
    OBVIOUS
<1> DEFINE m == n * percentage
<1>2. m \in Nat /\ (n > 0 => m > 0)
    BY <1>1
<1> HIDE DEF m
<1>3. (m + 99) \div 100 \in Nat /\ (m > 0 => (m + 99) \div 100 > 0)
    BY <1>2
<1> QED  BY <1>2, <1>3 DEF Rounded, m

\* What an item costs and asks for.
LEMMA ItemFields ==
    ASSUME NEW i \in CartItem
    PROVE  /\ i.price.from \in Nat /\ i.price.to \in Nat /\ i.price.from <= i.price.to
           /\ i.price.mode \in {"fixed", "starting_from", "range"}
           /\ i.price.mode # "range" => i.price.from = i.price.to
           /\ i.policy.requirement \in {"none", "optional", "required"}
           /\ calculateAdvance(i.policy, i.price.from) \in Nat
           /\ i.policy.requirement = "none" => calculateAdvance(i.policy, i.price.from) = 0
           /\ i.policy.requirement # "none" =>
                  AsksAPartOfNothing(i) \/ calculateAdvance(i.policy, i.price.from) > 0
<1>1. i.price \in Prices /\ i.policy \in Policies
    BY DEF CartItem
<1>2. /\ i.price.from \in Nat /\ i.price.to \in Nat /\ i.price.from <= i.price.to
      /\ i.price.mode \in {"fixed", "starting_from", "range"}
      /\ i.price.mode # "range" => i.price.from = i.price.to
    BY <1>1, PricingAssumption DEF Prices
<1>3. CASE i.policy = [requirement |-> "none", calculation |-> "none", amount |-> 0]
    BY <1>2, <1>3 DEF calculateAdvance
<1>4. CASE i.policy \in [requirement : {"optional", "required"}, calculation : {"fixed"},
                         amount : Amounts \ {0}]
  <2>1. i.policy.amount \in Amounts /\ i.policy.amount # 0 /\ i.policy.calculation = "fixed"
    BY <1>4
  <2>a. i.policy.amount \in Nat
    BY <2>1, PricingAssumption
  <2>2. i.policy.amount \in Nat /\ i.policy.amount > 0
    BY <2>1, <2>a
  <2> QED  BY <1>2, <1>4, <2>1, <2>2 DEF calculateAdvance
<1>5. CASE i.policy \in [requirement : {"optional", "required"}, calculation : {"percentage"},
                         amount : Percentages]
  <2>1. i.policy.amount \in 1 .. 100 /\ i.policy.calculation = "percentage"
    BY <1>5, PricingAssumption
  <2>2. calculateAdvance(i.policy, i.price.from) = Rounded(i.price.from, i.policy.amount)
    BY <2>1 DEF calculateAdvance
  <2>3. i.price.from > 0 \/ AsksAPartOfNothing(i)
    BY <1>2, <2>1 DEF AsksAPartOfNothing
  <2> QED  BY <1>2, <1>5, <2>1, <2>2, <2>3, RoundedUp
<1> QED  BY <1>1, <1>3, <1>4, <1>5 DEF Policies

\* The amounts that the items of a cart cost at least, at most, and ask for.
From(cart)  == [n \in DOMAIN cart |-> priceEstimate(cart[n].price)]
Until(cart) == [n \in DOMAIN cart |-> cart[n].price.to]
Asked(cart) == [n \in DOMAIN cart |-> calculateAdvance(cart[n].policy, priceEstimate(cart[n].price))]

LEMMA CartAmounts ==
    ASSUME NEW cart \in Seq(CartItem)
    PROVE  /\ Len(cart) \in Nat /\ DOMAIN cart = 1 .. Len(cart)
           /\ \A n \in 1 .. Len(cart) : cart[n] \in CartItem
           /\ From(cart) \in Seq(Nat) /\ Len(From(cart)) = Len(cart)
           /\ Until(cart) \in Seq(Nat) /\ Len(Until(cart)) = Len(cart)
           /\ Asked(cart) \in Seq(Nat) /\ Len(Asked(cart)) = Len(cart)
<1>1. Len(cart) \in Nat /\ DOMAIN cart = 1 .. Len(cart)
    OBVIOUS
<1>2. \A n \in 1 .. Len(cart) : cart[n] \in CartItem
    OBVIOUS
<1>3. \A n \in 1 .. Len(cart) :
        /\ From(cart)[n] \in Nat /\ Until(cart)[n] \in Nat /\ Asked(cart)[n] \in Nat
  <2> TAKE n \in 1 .. Len(cart)
  <2> QED  BY <1>1, <1>2, ItemFields DEF From, Until, Asked, priceEstimate
<1>4. /\ From(cart) \in [1 .. Len(cart) -> Nat]
      /\ Until(cart) \in [1 .. Len(cart) -> Nat]
      /\ Asked(cart) \in [1 .. Len(cart) -> Nat]
    BY <1>1, <1>3 DEF From, Until, Asked
<1>5. \A s \in [1 .. Len(cart) -> Nat] : s \in Seq(Nat) /\ Len(s) = Len(cart)
    BY <1>1
<1> HIDE DEF From, Until, Asked
<1> QED  BY <1>1, <1>2, <1>4, <1>5

\* A booking of any cart can be stored.
LEMMA EveryCartIsStorable ==
    ASSUME NEW cart \in Seq(CartItem)
    PROVE  StorableWhenPriced(cart)
<1> DEFINE b == combinePricing(cart)
<1>0. /\ b.mode = Mode(cart) /\ b.from = Sum(From(cart)) /\ b.to = Sum(Until(cart))
      /\ b.requirement = Requirement(cart) /\ b.due = Sum(Asked(cart))
    BY DEF combinePricing, From, Until, Asked
<1>1. \A n \in 1 .. Len(cart) : /\ From(cart)[n] = cart[n].price.from
                                /\ Until(cart)[n] = cart[n].price.to
                                /\ Asked(cart)[n] = calculateAdvance(cart[n].policy, cart[n].price.from)
    BY CartAmounts DEF From, Until, Asked, priceEstimate
<1>2. b.from <= b.to
  <2>1. \A n \in 1 .. Len(cart) : From(cart)[n] <= Until(cart)[n]
    BY <1>1, CartAmounts, ItemFields
  <2>2. Sum(From(cart)) <= Sum(Until(cart))
    BY <2>1, CartAmounts, SumGrows
  <2> QED  BY <1>0, <2>2
<1>3. ASSUME Requirement(cart) = "none" PROVE b.due = 0
  <2>1. \A n \in 1 .. Len(cart) : cart[n].policy.requirement = "none"
    BY <1>3, CartAmounts, ItemFields DEF Requirement
  <2>2. \A n \in 1 .. Len(cart) : Asked(cart)[n] = 0
    BY <1>1, <2>1, CartAmounts, ItemFields
  <2> QED  BY <1>0, <2>2, CartAmounts, SumOfZeros
<1>4. ASSUME NEW n \in DOMAIN cart,
             cart[n].policy.requirement # "none", ~AsksAPartOfNothing(cart[n])
      PROVE  b.due > 0
  <2>1. n \in 1 .. Len(Asked(cart)) /\ Asked(cart)[n] > 0 /\ Asked(cart)[n] \in Nat
    <3>1. /\ n \in 1 .. Len(cart) /\ cart[n] \in CartItem
          /\ Asked(cart) \in Seq(Nat) /\ Len(Asked(cart)) = Len(cart)
        BY CartAmounts
    <3>2. Asked(cart)[n] = calculateAdvance(cart[n].policy, cart[n].price.from)
        BY <1>1, <3>1
    <3>3. Asked(cart)[n] > 0
        BY <1>4, <3>1, <3>2, ItemFields
    <3>4. Asked(cart)[n] \in Nat
        BY <3>1
    <3> QED  BY <3>1, <3>3, <3>4
  <2>2. Asked(cart)[n] <= Sum(Asked(cart))
    BY <2>1, CartAmounts, SumHolds
  <2>3. Sum(Asked(cart)) \in Nat
    BY CartAmounts, SumType
  <2> QED  BY <1>0, <2>1, <2>2, <2>3
<1> HIDE DEF b
<1> QED  BY <1>0, <1>2, <1>3, <1>4 DEF StorableWhenPriced, Storable, b

\* Whatever the items of any cart turn out to cost, the whole is as shown.
LEMMA EveryPriceHolds ==
    ASSUME NEW cart \in Seq(CartItem)
    PROVE  ShownPriceHolds(cart)
<1> DEFINE shown == combinePricing(cart)
           Costs(n) == LET p == cart[n].price IN
                       IF p.mode = "starting_from" THEN {a \in Amounts : a >= p.from}
                       ELSE {p.from, p.to}
<1> SUFFICES ASSUME NEW costs \in [DOMAIN cart -> Amounts],
                    \A n \in DOMAIN cart : costs[n] \in Costs(n)
             PROVE  /\ shown.from <= Sum(costs)
                    /\ shown.mode \in {"fixed", "range"} => Sum(costs) <= shown.to
                    /\ shown.mode = "fixed" => Sum(costs) = shown.from
    BY DEF ShownPriceHolds
<1>0. shown.mode = Mode(cart) /\ shown.from = Sum(From(cart)) /\ shown.to = Sum(Until(cart))
    BY DEF combinePricing, From, Until
<1>1. \A n \in 1 .. Len(cart) : From(cart)[n] = cart[n].price.from /\ Until(cart)[n] = cart[n].price.to
    BY CartAmounts DEF From, Until, priceEstimate
<1>2. costs \in Seq(Nat) /\ Len(costs) = Len(cart)
  <2>1. costs \in [1 .. Len(cart) -> Nat]
    BY CartAmounts, PricingAssumption
  <2>2. Len(cart) \in Nat
    BY CartAmounts
  <2> QED  BY <2>1, <2>2
<1>3. \A n \in 1 .. Len(cart) :
        /\ From(cart)[n] <= costs[n]
        /\ cart[n].price.mode # "starting_from" => costs[n] <= Until(cart)[n]
        /\ cart[n].price.mode = "fixed" => costs[n] = From(cart)[n]
  <2> TAKE n \in 1 .. Len(cart)
  <2>1. cart[n] \in CartItem /\ n \in DOMAIN cart
    BY CartAmounts
  <2>2. costs[n] \in Costs(n) /\ costs[n] \in Nat
    BY <1>2, <2>1
  <2> QED  BY <1>1, <2>1, <2>2, ItemFields
<1>4. shown.from <= Sum(costs)
    BY <1>0, <1>2, <1>3, CartAmounts, SumGrows
<1>5. ASSUME Mode(cart) \in {"fixed", "range"}
      PROVE  Sum(costs) <= shown.to
  <2>1. \A n \in 1 .. Len(cart) : cart[n].price.mode # "starting_from"
    BY <1>5, CartAmounts DEF Mode
  <2>2. \A n \in 1 .. Len(cart) : costs[n] <= Until(cart)[n]
    BY <1>3, <2>1
  <2> QED  BY <1>0, <1>2, <2>2, CartAmounts, SumGrows
<1>6. ASSUME Mode(cart) = "fixed" PROVE Sum(costs) = shown.from
  <2>1. \A n \in 1 .. Len(cart) : cart[n].price.mode = "fixed"
    BY <1>6, CartAmounts DEF Mode
  <2>2. \A n \in 1 .. Len(cart) : costs[n] = From(cart)[n]
    BY <1>3, <2>1
  <2>a. \A n \in 1 .. Len(cart) : costs[n] <= From(cart)[n] /\ From(cart)[n] <= costs[n]
    BY <1>1, <2>2, CartAmounts, ItemFields
  <2>3. Sum(costs) <= Sum(From(cart)) /\ Sum(From(cart)) <= Sum(costs)
    BY <1>2, <2>a, CartAmounts, SumGrows
  <2>4. Sum(costs) \in Nat /\ Sum(From(cart)) \in Nat
    BY <1>2, CartAmounts, SumType
  <2> QED  BY <1>0, <2>3, <2>4
<1> QED  BY <1>0, <1>4, <1>5, <1>6

\* Any number of items with any prices and policies, whose amounts and percentages
\* are natural numbers: the booking of them can be stored, with the advance some
\* item requires, and the price shown to the customer (combinePricing) holds.
THEOREM EveryCartIsPriced ==
    \A cart \in Seq(CartItem) : StorableWhenPriced(cart) /\ ShownPriceHolds(cart)
BY EveryCartIsStorable, EveryPriceHolds

\* So does every booking of up to two items in the calendar (PricesHold), and every
\* booking of an accepted quote.
THEOREM PricesAreRight == Spec => []PricesHold
<1>1. Carts \subseteq Seq(CartItem)
  <2>1. Carts = {<<i>> : i \in CartItem} \cup (CartItem \X CartItem)
    BY DEF Carts, CartItem
  <2>2. \A i \in CartItem : <<i>> \in Seq(CartItem)
    OBVIOUS
  <2>3. \A i, j \in CartItem : <<i, j>> \in Seq(CartItem)
    OBVIOUS
  <2>4. \A x \in CartItem \X CartItem : \E i, j \in CartItem : x = <<i, j>>
    OBVIOUS
  <2>5. ASSUME NEW x \in CartItem \X CartItem PROVE x \in Seq(CartItem)
    <3>1. PICK i \in CartItem, j \in CartItem : x = <<i, j>>
        BY <2>4
    <3>2. <<i, j>> \in Seq(CartItem)
        BY <2>3
    <3> QED  BY <3>1, <3>2
  <2>6. ASSUME NEW x \in {<<i>> : i \in CartItem} PROVE x \in Seq(CartItem)
    <3>1. PICK i \in CartItem : x = <<i>>
        OBVIOUS
    <3> QED  BY <2>2, <3>1
  <2> QED  BY <2>1, <2>5, <2>6
<1>2. Mispriced = {}
    BY <1>1, EveryCartIsPriced DEF Mispriced
<1>3. QuotesAreStorable
    BY DEF QuotesAreStorable, Quotes, QuotedPricing, Storable
<1>4. PricesHold
    BY <1>2, <1>3 DEF PricesHold
<1> QED  BY <1>4, PTL

-----------------------------------------------------------------------------
(* Recursion and folds *)

\* What holds where the rank is 0, and wherever it holds of the predecessor, holds everywhere.
LEMMA Descent ==
    ASSUME NEW D, NEW N \in Nat, NEW rank \in [D -> 0 .. N], NEW pred, NEW P,
           \A x \in D : rank[x] > 0 => pred[x] \in D /\ rank[pred[x]] < rank[x],
           \A x \in D : rank[x] = 0 => x \in P,
           \A x \in D : rank[x] > 0 /\ pred[x] \in P => x \in P
    PROVE  \A x \in D : x \in P
<1> DEFINE T == {n \in 0 .. N : \A x \in D : rank[x] <= n => x \in P}
<1>1. 0 \in T
    OBVIOUS
<1>2. \A n \in 0 .. N - 1 : n \in T => n + 1 \in T
  <2> TAKE n \in 0 .. N - 1
  <2> HAVE n \in T
  <2>1. ASSUME NEW x \in D, rank[x] <= n + 1 PROVE x \in P
    <3>1. rank[x] \in Nat
        OBVIOUS
    <3>2. CASE rank[x] = 0
        BY <3>2
    <3>3. CASE rank[x] > 0
      <4>1. pred[x] \in D /\ rank[pred[x]] < rank[x] /\ rank[pred[x]] \in Nat
        BY <3>3
      <4>2. rank[pred[x]] <= n
        BY <4>1, <3>1, <2>1
      <4> QED  BY <4>1, <4>2, <3>3
    <3> QED  BY <3>1, <3>2, <3>3
  <2> QED  BY <2>1
<1> HIDE DEF T
<1>3. N \in T
    BY <1>1, <1>2, Upwards
<1> QED  BY <1>3 DEF T

\* Whatever is not at rank 0 has a predecessor of lesser rank.
Ranked(D, N, rank, pred) ==
    /\ rank \in [D -> 0 .. N]
    /\ \A x \in D : rank[x] > 0 => pred[x] \in D /\ rank[pred[x]] < rank[x]

\* What a definition by recursion defines.
Solutions(D, V, rank, pred, base, G) ==
    {f \in [D -> V] :
       \A x \in D : f[x] = IF rank[x] = 0 THEN base[x] ELSE G[<<x, f[pred[x]]>>]}

\* A definition by recursion over falling ranks has a solution.
LEMMA Recursion ==
    ASSUME NEW D, NEW V, NEW N \in Nat, NEW rank, NEW pred, NEW base \in [D -> V],
           NEW G \in [D \X V -> V], Ranked(D, N, rank, pred)
    PROVE  Solutions(D, V, rank, pred, base, G) # {}
<1>0. /\ rank \in [D -> 0 .. N]
      /\ \A x \in D : rank[x] > 0 => pred[x] \in D /\ rank[pred[x]] < rank[x]
    BY DEF Ranked
<1> DEFINE Fits(f, n) == \A x \in D : rank[x] <= n =>
                           f[x] = IF rank[x] = 0 THEN base[x] ELSE G[<<x, f[pred[x]]>>]
           T == {n \in 0 .. N : \E f \in [D -> V] : Fits(f, n)}
<1>1. 0 \in T
  <2>1. Fits(base, 0)
    BY <1>0
  <2> QED  BY <2>1
<1>2. \A n \in 0 .. N - 1 : n \in T => n + 1 \in T
  <2> TAKE n \in 0 .. N - 1
  <2> HAVE n \in T
  <2>1. PICK f \in [D -> V] : Fits(f, n)
    OBVIOUS
  <2> DEFINE g == [x \in D |-> IF rank[x] = 0 THEN base[x] ELSE
                                 IF rank[x] <= n + 1 THEN G[<<x, f[pred[x]]>>] ELSE base[x]]
  <2>2. \A x \in D : rank[x] > 0 => f[pred[x]] \in V
    BY <1>0
  <2>3. \A x \in D : rank[x] > 0 => G[<<x, f[pred[x]]>>] \in V
    BY <2>2
  <2>31. \A x \in D : rank[x] = 0 \/ rank[x] > 0
    BY <1>0
  <2>4. g \in [D -> V]
    BY <2>3, <2>31
  <2>5. \A x \in D : rank[x] <= n => g[x] = f[x]
    BY <2>1, <1>0
  <2>6. ASSUME NEW x \in D, rank[x] <= n + 1, rank[x] > 0 PROVE g[x] = G[<<x, g[pred[x]]>>]
    <3>1. pred[x] \in D /\ rank[pred[x]] < rank[x] /\ rank[pred[x]] \in Nat /\ rank[x] \in Nat
        BY <2>6, <1>0
    <3>2. rank[pred[x]] <= n
        BY <3>1, <2>6
    <3>3. g[pred[x]] = f[pred[x]]
        BY <3>1, <3>2, <2>5
    <3> QED  BY <3>3, <2>6
  <2>7. \A x \in D : rank[x] = 0 => g[x] = base[x]
    OBVIOUS
  <2> HIDE DEF g
  <2>8. \A x \in D : rank[x] \in Nat /\ (rank[x] = 0 \/ rank[x] > 0)
    BY <1>0
  <2>9. Fits(g, n + 1)
    BY <2>6, <2>7, <2>8
  <2>10. n + 1 \in 0 .. N
    OBVIOUS
  <2> QED  BY <2>4, <2>9, <2>10
<1> HIDE DEF T
<1>3. N \in T
  <2>1. N \in 0 .. N
    OBVIOUS
  <2> QED  BY <1>1, <1>2, <2>1, Upwards
<1>4. PICK f \in [D -> V] : Fits(f, N)
    BY <1>3 DEF T
<1>5. \A x \in D : rank[x] <= N
    BY <1>0
<1>6. f \in Solutions(D, V, rank, pred, base, G)
    BY <1>4, <1>5 DEF Solutions
<1> QED  BY <1>6

\* What holds of the empty set, and of a set without its chosen element only if
\* of the set, holds of every subset of a finite set.
LEMMA Choosing ==
    ASSUME NEW S, IsFiniteSet(S), NEW chosen, NEW P,
           \A s \in SUBSET S : s # {} => chosen[s] \in s,
           {} \in P, \A s \in SUBSET S : s # {} /\ s \ {chosen[s]} \in P => s \in P
    PROVE  \A s \in SUBSET S : s \in P
<1> DEFINE N == Cardinality(S)
           rank == [s \in SUBSET S |-> Cardinality(s)]
           pred == [s \in SUBSET S |-> s \ {chosen[s]}]
           D == SUBSET S
<1>1. N \in Nat
    BY FS_CardinalityType
<1>2. \A s \in D : IsFiniteSet(s) /\ Cardinality(s) \in Nat /\ Cardinality(s) <= N
    BY FS_Subset, FS_CardinalityType
<1>3. rank \in [D -> 0 .. N]
    BY <1>1, <1>2
<1>4. \A s \in D : rank[s] = 0 <=> s = {}
    BY <1>2, FS_EmptySet
<1>5. ASSUME NEW s \in D, s # {} PROVE pred[s] \in D /\ rank[pred[s]] < rank[s]
  <2>1. Cardinality(s \ {chosen[s]}) = Cardinality(s) - 1
    BY <1>2, <1>5, FS_RemoveElement
  <2> QED  BY <2>1, <1>2
<1>6. \A s \in D : rank[s] > 0 => s # {}
  <2> TAKE s \in D
  <2>1. CASE s = {}
    <3>1. rank[s] = 0
        BY <1>4, <2>1
    <3> QED  BY <3>1
  <2> QED  BY <2>1
<1>7. \A s \in D : rank[s] > 0 => pred[s] \in D /\ rank[pred[s]] < rank[s]
    BY <1>5, <1>6
<1>8. \A s \in D : rank[s] = 0 => s \in P
    BY <1>4
<1>9. \A s \in D : rank[s] > 0 /\ pred[s] \in P => s \in P
    BY <1>6
<1> HIDE DEF N, rank, pred, D
<1>10. \A s \in D : s \in P
    BY <1>1, <1>3, <1>7, <1>8, <1>9, Descent
<1> QED  BY <1>10 DEF D

\* The same of every choice and every set.
LEMMA ChoosingAny ==
    ASSUME NEW S, IsFiniteSet(S)
    PROVE  \A C, Q : (/\ \A s \in SUBSET S : s # {} => C[s] \in s
                     /\ {} \in Q
                     /\ \A s \in SUBSET S : s # {} /\ s \ {C[s]} \in Q => s \in Q)
                    => \A s \in SUBSET S : s \in Q
<1> TAKE C, Q
<1> SUFFICES ASSUME \A s \in SUBSET S : s # {} => C[s] \in s,
                    {} \in Q,
                    \A s \in SUBSET S : s # {} /\ s \ {C[s]} \in Q => s \in Q
             PROVE  \A s \in SUBSET S : s \in Q
    OBVIOUS
<1>1. IsFiniteSet(S)
    OBVIOUS
<1>2. \A s \in SUBSET S : s # {} => C[s] \in s
    OBVIOUS
<1>3. {} \in Q
    OBVIOUS
<1>4. \A s \in SUBSET S : s # {} /\ s \ {C[s]} \in Q => s \in Q
    OBVIOUS
<1> QED  BY ONLY <1>1, <1>2, <1>3, <1>4, Choosing

\* What a fold over the subsets of S, that takes out the chosen elements, computes.
FoldsOver(S, V, chosen, base, G) ==
    {f \in [SUBSET S -> V] :
       \A s \in SUBSET S : f[s] = IF s = {} THEN base ELSE G[<<s, f[s \ {chosen[s]}]>>]}

\* A fold over the subsets of a finite set has a solution.
LEMMA Folding ==
    ASSUME NEW S, IsFiniteSet(S), NEW V, NEW chosen, NEW base \in V,
           NEW G \in [(SUBSET S) \X V -> V],
           \A s \in SUBSET S : s # {} => chosen[s] \in s
    PROVE  FoldsOver(S, V, chosen, base, G) # {}
<1> DEFINE N == Cardinality(S)
           rank == [s \in SUBSET S |-> Cardinality(s)]
           pred == [s \in SUBSET S |-> s \ {chosen[s]}]
           start == [s \in SUBSET S |-> base]
           D == SUBSET S
<1>1. N \in Nat
    BY FS_CardinalityType
<1>2. \A s \in D : IsFiniteSet(s) /\ Cardinality(s) \in Nat /\ Cardinality(s) <= N
    BY FS_Subset, FS_CardinalityType
<1>3. rank \in [D -> 0 .. N]
    BY <1>1, <1>2
<1>4. \A s \in D : rank[s] = 0 <=> s = {}
    BY <1>2, FS_EmptySet
<1>5. ASSUME NEW s \in D, s # {} PROVE pred[s] \in D /\ rank[pred[s]] < rank[s]
  <2>1. Cardinality(s \ {chosen[s]}) = Cardinality(s) - 1
    BY <1>2, <1>5, FS_RemoveElement
  <2> QED  BY <2>1, <1>2
<1>6. \A s \in D : rank[s] > 0 => s # {}
  <2> TAKE s \in D
  <2>1. CASE s = {}
    <3>1. rank[s] = 0
        BY <1>4, <2>1
    <3> QED  BY <3>1
  <2> QED  BY <2>1
<1>7. \A s \in D : rank[s] > 0 => pred[s] \in D /\ rank[pred[s]] < rank[s]
    BY <1>5, <1>6
<1>8. start \in [D -> V] /\ G \in [D \X V -> V]
    OBVIOUS
<1>9. \A s \in D : pred[s] = s \ {chosen[s]} /\ start[s] = base
    OBVIOUS
<1> HIDE DEF N, rank, pred, start, D
<1>10. Solutions(D, V, rank, pred, start, G) # {}
    BY <1>1, <1>3, <1>7, <1>8, Recursion DEF Ranked
<1>11. PICK f \in [D -> V] :
          \A x \in D : f[x] = IF rank[x] = 0 THEN start[x] ELSE G[<<x, f[pred[x]]>>]
    BY <1>10 DEF Solutions
<1>12. \A s \in D : f[s] = IF s = {} THEN base ELSE G[<<s, f[s \ {chosen[s]}]>>]
    BY <1>11, <1>9, <1>4
<1> QED  BY <1>12 DEF D, FoldsOver

-----------------------------------------------------------------------------
(* Ranges of a day *)

\* Ranges of the day that are not empty.
Ranges == {r \in Times : r.start < r.end}

\* There are finitely many ranges in a day.
LEMMA TimesAreFinite == IsFiniteSet(Times)
<1> DEFINE D == 0 .. Midnight
           g == [p \in D \X D |-> [start |-> p[1], end |-> p[2]]]
<1>1. IsFiniteSet(D)
    BY DayAssumption, FS_Interval
<1>2. IsFiniteSet(D \X D)
    BY <1>1, FS_Product
<1>3. g \in [D \X D -> Times]
    BY DEF Times
<1>4. ASSUME NEW r \in Times PROVE \E p \in D \X D : g[p] = r
  <2>1. <<r.start, r.end>> \in D \X D
    BY DEF Times
  <2>2. g[<<r.start, r.end>>] = r
    BY <2>1 DEF Times
  <2> QED  BY <2>1, <2>2
<1>5. g \in Surjection(D \X D, Times)
    BY <1>3, <1>4 DEF Surjection
<1> QED  BY <1>2, <1>5, FS_Surjection

\* A range has a start and an end of the day.
LEMMA TimeFields ==
    ASSUME NEW r \in Times
    PROVE  /\ r.start \in 0 .. Midnight /\ r.end \in 0 .. Midnight
           /\ r.start \in Int /\ r.end \in Int
           /\ r = [start |-> r.start, end |-> r.end]
    BY DayAssumption DEF Times

\* A range is its start and its end.
LEMMA SameTime ==
    ASSUME NEW a \in Times, NEW b \in Times, a.start = b.start, a.end = b.end
    PROVE  a = b
    BY TimeFields

\* The last of the ranges s, in order of start and end.
Latest(s) == {r \in s : \A q \in s : q = r \/ Earlier(q, r)}

\* Of finitely many ranges one is the last.
LEMMA FinalExists ==
    ASSUME NEW s \in SUBSET Times, s # {}
    PROVE  Latest(s) # {}
<1> DEFINE chosen == [t \in SUBSET Times |-> CHOOSE x \in t : TRUE]
           P == {t \in SUBSET Times : t # {} => Latest(t) # {}}
<1>1. \A t \in SUBSET Times : t # {} => chosen[t] \in t
    OBVIOUS
<1>2. {} \in P
    OBVIOUS
<1>3. ASSUME NEW t \in SUBSET Times, t # {}, t \ {chosen[t]} \in P PROVE t \in P
  <2> DEFINE x == chosen[t]
             u == t \ {x}
  <2>1. x \in t /\ x \in Times /\ t = u \cup {x} /\ u \in SUBSET Times
    BY <1>3, <1>1
  <2> HIDE DEF chosen
  <2>2. CASE u = {}
    <3>1. x \in Latest(t)
        BY <2>1, <2>2 DEF Latest
    <3> QED  BY <3>1
  <2>3. CASE u # {}
    <3>1. PICK r \in u : \A q \in u : q = r \/ Earlier(q, r)
        BY <2>3, <1>3 DEF Latest
    <3>2. r \in Times
        BY <2>1
    <3> HIDE DEF x, u
    <3>3. CASE Earlier(r, x)
      <4>1. \A q \in u : Earlier(q, x)
        BY <3>1, <3>2, <3>3, <2>1, TimeFields DEF Earlier
      <4>2. x \in Latest(t)
        BY <4>1, <2>1 DEF Latest
      <4> QED  BY <4>2
    <3>4. CASE ~Earlier(r, x)
      <4>1. x = r \/ Earlier(x, r)
        BY <3>2, <3>4, <2>1, TimeFields, SameTime DEF Earlier
      <4>2. r \in Latest(t)
        BY <4>1, <3>1, <2>1 DEF Latest
      <4> QED  BY <4>2
    <3> QED  BY <3>3, <3>4
  <2> QED  BY <2>2, <2>3
<1> HIDE DEF chosen, P
<1>4. s \in P
    BY <1>1, <1>2, <1>3, TimesAreFinite, Choosing
<1> QED  BY <1>4 DEF P

\* The last of some ranges is one of them.
LEMMA FinalIsLast ==
    ASSUME NEW s \in SUBSET Times, s # {}
    PROVE  /\ Final(s) \in s /\ Final(s) \in Times
           /\ \A q \in s : q = Final(s) \/ Earlier(q, Final(s))
<1>1. \E r \in s : \A q \in s : q = r \/ Earlier(q, r)
    BY FinalExists DEF Latest
<1>2. Final(s) \in s /\ \A q \in s : q = Final(s) \/ Earlier(q, Final(s))
    BY <1>1, Zenon DEF Final
<1> QED  BY <1>2

\* The ranges of s that begin first.
Soonest(s) == {r \in s : \A q \in s : r.start <= q.start}

\* Of finitely many ranges some begin first.
LEMMA FirstExists ==
    ASSUME NEW s \in SUBSET Times, s # {}
    PROVE  Soonest(s) # {}
<1> DEFINE T == {n \in Nat : \E r \in s : r.start = n}
<1>1. T \in SUBSET Nat /\ T # {}
  <2>1. PICK r \in s : TRUE
    OBVIOUS
  <2>2. r.start \in Nat
    BY <2>1, TimeFields, DayAssumption
  <2> QED  BY <2>2
<1>2. PICK n \in T : \A m \in T : n <= m
    BY <1>1, Least
<1>3. PICK r \in s : r.start = n
    BY <1>2
<1>4. \A q \in s : q.start \in T
    BY TimeFields, DayAssumption
<1>5. r \in Soonest(s)
    BY <1>2, <1>3, <1>4 DEF Soonest
<1> QED  BY <1>5

\* The first of some ranges is one of them.
LEMMA FirstIsSoonest ==
    ASSUME NEW s \in SUBSET Times, s # {}
    PROVE  /\ First(s) \in s /\ First(s) \in Times
           /\ \A q \in s : First(s).start <= q.start
<1>1. \E r \in s : \A q \in s : r.start <= q.start
    BY FirstExists DEF Soonest
<1>2. First(s) \in s /\ \A q \in s : First(s).start <= q.start
    BY <1>1, Zenon DEF First
<1> QED  BY <1>2

\* The greater of two numbers.
LEMMA MaxOfTwo ==
    ASSUME NEW a \in Int, NEW b \in Int
    PROVE  Max({a, b}) = IF a < b THEN b ELSE a
<1> DEFINE m == IF a < b THEN b ELSE a
<1>1. m \in {a, b} /\ \A y \in {a, b} : m >= y
    OBVIOUS
<1>2. \A x \in {a, b} : (\A y \in {a, b} : x >= y) => x = m
    OBVIOUS
<1> HIDE DEF m
<1>3. (CHOOSE x \in {a, b} : \A y \in {a, b} : x >= y) = m
    BY <1>1, <1>2
<1>4. Max({a, b}) = m
    BY <1>3, Zenon DEF Max
<1> QED  BY <1>4 DEF m

\* The lesser of two numbers.
LEMMA MinOfTwo ==
    ASSUME NEW a \in Int, NEW b \in Int
    PROVE  Min({a, b}) = IF a < b THEN a ELSE b
<1> DEFINE m == IF a < b THEN a ELSE b
<1>1. m \in {a, b} /\ \A y \in {a, b} : m <= y
    OBVIOUS
<1>2. \A x \in {a, b} : (\A y \in {a, b} : x <= y) => x = m
    OBVIOUS
<1> HIDE DEF m
<1>3. (CHOOSE x \in {a, b} : \A y \in {a, b} : x <= y) = m
    BY <1>1, <1>2
<1>4. Min({a, b}) = m
    BY <1>3, Zenon DEF Min
<1> QED  BY <1>4 DEF m

-----------------------------------------------------------------------------
(* Merging *)

\* Those of R that are not empty.
Real(R) == {r \in R : r.end > r.start}

\* One step of Merge, and the function its fold defines.
Joined(r, merged) ==
    LET last == Final(merged) IN
    IF merged = {} \/ last.end < r.start THEN merged \cup {r}
    ELSE (merged \ {last}) \cup {Span(last.start, Max({last.end, r.end}))}

Merges(S) ==
    CHOOSE iter : iter = [s \in SUBSET S |->
        IF s = {} THEN {} ELSE Joined(Final(s), iter[s \ {Final(s)}])]

\* Merge is the value of that function.
LEMMA MergeFolds == ASSUME NEW R PROVE Merge(R) = Merges(Real(R))[Real(R)]
    BY Zenon DEF Merge, MapThenFoldSet, Merges, Joined, Real

\* Ranges that neither overlap nor touch.
Apart(R) == \A a, b \in R : a = b \/ a.end < b.start \/ b.end < a.start

\* A point lies in one of the ranges.
LEMMA PointsOf ==
    ASSUME NEW R, NEW p
    PROVE  p \in Points(R) <=> \E r \in R : p \in r.start .. r.end - 1
    BY DEF Points

\* What merging the ranges of s results in.
Merged(s, m) ==
    /\ m \in SUBSET Ranges
    /\ Apart(m)
    /\ Points(m) = Points(s)
    /\ \A r \in s : \E a \in m : Holds(a, r)
    /\ \A a \in m : \E r \in s : r.start = a.start

\* Joining the next range in order keeps what merging promises.
LEMMA JoinOnce ==
    ASSUME NEW s \in SUBSET Ranges, NEW x \in Ranges, NEW m, Merged(s, m),
           \A q \in s : Earlier(q, x)
    PROVE  Merged(s \cup {x}, Joined(x, m))
<1>0. /\ m \in SUBSET Ranges /\ Apart(m) /\ Points(m) = Points(s)
      /\ \A r \in s : \E a \in m : Holds(a, r)
      /\ \A a \in m : \E r \in s : r.start = a.start
    BY DEF Merged
<1>1. /\ \A r \in Ranges : r \in Times /\ r.start \in Int /\ r.end \in Int /\ r.start < r.end
                           /\ 0 <= r.start /\ r.end <= Midnight
      /\ Midnight \in Nat
    BY TimeFields, DayAssumption DEF Ranges
<1>2. \A q \in s : q.start <= x.start
    BY <1>1 DEF Earlier
<1>3. \A a \in m : a.start <= x.start
    BY <1>0, <1>2
<1>4. CASE m = {} \/ Final(m).end < x.start
  <2>1. Joined(x, m) = m \cup {x}
    BY <1>4 DEF Joined
  <2>2. \A a \in m : a.end < x.start
    <3>1. CASE m = {}
        BY <3>1
    <3>2. CASE m # {}
      <4>1. /\ Final(m) \in m /\ Final(m).end < x.start
            /\ \A q \in m : q = Final(m) \/ Earlier(q, Final(m))
        BY <1>0, <1>1, <1>4, <3>2, FinalIsLast
      <4>2. \A q \in m : q = Final(m) \/ q.end < Final(m).start
        BY <4>1, <1>0, <1>1 DEF Earlier, Apart
      <4> QED  BY <4>1, <4>2, <1>0, <1>1
    <3> QED  BY <3>1, <3>2
  <2>3. Apart(m \cup {x})
    BY <1>0, <2>2 DEF Apart
  <2>4. Points(m \cup {x}) = Points(s \cup {x})
    <3>1. \A p : p \in Points(m \cup {x}) <=> p \in Points(m) \/ p \in x.start .. x.end - 1
        BY PointsOf
    <3>2. \A p : p \in Points(s \cup {x}) <=> p \in Points(s) \/ p \in x.start .. x.end - 1
        BY PointsOf
    <3> QED  BY <3>1, <3>2, <1>0
  <2>5. Holds(x, x)
    BY <1>1 DEF Holds
  <2>6. \A r \in s \cup {x} : \E a \in m \cup {x} : Holds(a, r)
    BY <1>0, <2>5
  <2>7. \A a \in m \cup {x} : \E r \in s \cup {x} : r.start = a.start
    BY <1>0
  <2> QED  BY <1>0, <2>1, <2>3, <2>4, <2>6, <2>7 DEF Merged
<1>5. CASE m # {} /\ ~(Final(m).end < x.start)
  <2> DEFINE last == Final(m)
             e == IF last.end < x.end THEN x.end ELSE last.end
             new == Span(last.start, e)
             rest == m \ {last}
  <2>1. last \in m /\ last \in Ranges /\ \A q \in m : q = last \/ Earlier(q, last)
    BY <1>0, <1>1, <1>5, FinalIsLast
  <2>2. Joined(x, m) = rest \cup {new}
    BY <1>5, <1>1, <2>1, MaxOfTwo DEF Joined
  <2>3. /\ new.start = last.start /\ new.end = e
    BY DEF Span
  <2>4. /\ last.start <= x.start /\ x.start <= last.end
        /\ e \in 0 .. Midnight /\ last.end <= e /\ x.end <= e /\ (e = last.end \/ e = x.end)
    BY <1>1, <1>3, <1>5, <2>1
  <2>5. new \in Ranges
    BY <1>1, <2>1, <2>4 DEF Ranges, Times, Span
  <2>6. \A q \in rest : q.end < last.start
    BY <2>1, <1>0, <1>1 DEF Earlier, Apart
  <2>7. m = rest \cup {last}
    BY <2>1
  <2> HIDE DEF last, new, rest, e
  <2>8. Apart(rest \cup {new})
    BY <1>0, <2>3, <2>6, <2>7 DEF Apart
  <2>9. \A p : p \in new.start .. new.end - 1 <=>
               p \in last.start .. last.end - 1 \/ p \in x.start .. x.end - 1
    BY <2>3, <2>4, <1>1, <2>1
  <2>10. Points(rest \cup {new}) = Points(s \cup {x})
    <3>1. \A p : p \in Points(rest \cup {new}) <=> p \in Points(m) \/ p \in x.start .. x.end - 1
        BY <2>7, <2>9, PointsOf
    <3>2. \A p : p \in Points(s \cup {x}) <=> p \in Points(s) \/ p \in x.start .. x.end - 1
        BY PointsOf
    <3> QED  BY <3>1, <3>2, <1>0
  <2>11. Holds(new, x) /\ \A r \in Ranges : Holds(last, r) => Holds(new, r)
    BY <2>3, <2>4, <2>1, <1>1 DEF Holds
  <2>12. \A r \in s \cup {x} : \E a \in rest \cup {new} : Holds(a, r)
    <3> TAKE r \in s \cup {x}
    <3>1. CASE r = x
        BY <3>1, <2>11
    <3>2. CASE r \in s
      <4>1. PICK a \in m : Holds(a, r)
        BY <3>2, <1>0
      <4> QED  BY <4>1, <3>2, <2>7, <2>11
    <3> QED  BY <3>1, <3>2
  <2>13. \A a \in rest \cup {new} : \E r \in s \cup {x} : r.start = a.start
    BY <1>0, <2>1, <2>3, <2>7
  <2>14. rest \cup {new} \in SUBSET Ranges
    BY <1>0, <2>5, <2>7
  <2> QED  BY <2>2, <2>8, <2>10, <2>12, <2>13, <2>14 DEF Merged
<1> QED  BY <1>4, <1>5

\* Merge takes one range after the other, in order.
LEMMA MergeSteps ==
    ASSUME NEW S \in SUBSET Ranges
    PROVE  \A s \in SUBSET S :
             Merges(S)[s] = IF s = {} THEN {} ELSE Joined(Final(s), Merges(S)[s \ {Final(s)}])
<1>0. S \in SUBSET Times /\ IsFiniteSet(S)
    BY TimesAreFinite, FS_Subset DEF Ranges
<1> DEFINE chosen == [s \in SUBSET S |-> Final(s)]
           V == SUBSET Times
           G == [y \in (SUBSET S) \X V |-> Joined(Final(y[1]), y[2])]
<1>1. \A s \in SUBSET S : chosen[s] = Final(s) /\ (s # {} => chosen[s] \in s)
    BY <1>0, FinalIsLast
<1>2. ASSUME NEW s \in SUBSET S, NEW v \in V, s # {}
      PROVE  Joined(Final(s), v) \in V
  <2>1. Final(s) \in Times
    BY <1>2, <1>0, FinalIsLast
  <2>2. CASE v = {}
    BY <2>1, <2>2 DEF Joined
  <2>3. CASE v # {}
    <3>1. Final(v) \in Times
        BY <2>3, FinalIsLast
    <3>2. Span(Final(v).start, Max({Final(v).end, Final(s).end})) \in Times
        BY <2>1, <3>1, TimeFields, MaxOfTwo DEF Times, Span
    <3> QED  BY <2>1, <3>2 DEF Joined
  <2> QED  BY <2>2, <2>3
<1> DEFINE H == [y \in (SUBSET S) \X V |-> IF y[1] = {} THEN {} ELSE G[y]]
<1>3. H \in [(SUBSET S) \X V -> V]
    BY <1>2
<1>4. \A s \in SUBSET S : \A v \in V : s # {} => H[<<s, v>>] = Joined(Final(s), v)
    OBVIOUS
<1> HIDE DEF chosen, H, V
<1>5. {} \in V
    BY DEF V
<1>6. FoldsOver(S, V, chosen, {}, H) # {}
    BY <1>0, <1>1, <1>3, <1>5, Folding
<1>7. PICK f \in [SUBSET S -> V] :
          \A s \in SUBSET S : f[s] = IF s = {} THEN {} ELSE H[<<s, f[s \ {chosen[s]}]>>]
    BY <1>6 DEF FoldsOver
<1>8. \A s \in SUBSET S : f[s] = IF s = {} THEN {} ELSE Joined(Final(s), f[s \ {Final(s)}])
  <2> TAKE s \in SUBSET S
  <2>1. CASE s = {}
    BY <1>7, <2>1
  <2>2. CASE s # {}
    <3>1. chosen[s] = Final(s) /\ s \ {Final(s)} \in SUBSET S
        BY <1>1
    <3>2. f[s \ {Final(s)}] \in V
        BY <3>1
    <3>3. f[s] = H[<<s, f[s \ {Final(s)}]>>]
        BY <1>7, <2>2, <3>1
    <3> QED  BY <3>2, <3>3, <1>4, <2>2
  <2> QED  BY <2>1, <2>2
<1>9. f = [s \in SUBSET S |-> IF s = {} THEN {} ELSE Joined(Final(s), f[s \ {Final(s)}])]
    BY <1>7, <1>8
<1>10. Merges(S) = [s \in SUBSET S |->
          IF s = {} THEN {} ELSE Joined(Final(s), Merges(S)[s \ {Final(s)}])]
    BY <1>9, Zenon DEF Merges
<1> QED  BY <1>10, Zenon

\* mergeRanges: the ranges it returns cover the same instants, each one of those given,
\* no two overlap or touch, and each begins where one of those given does.  For all
\* ranges of a day, in any order, overlapping, touching, nested or empty.
THEOREM MergeIsRight ==
    ASSUME NEW R \in SUBSET Times
    PROVE  Merged(Real(R), Merge(R))
<1> DEFINE S == Real(R)
           P == {s \in SUBSET S : Merged(s, Merges(S)[s])}
           chosen == [s \in SUBSET S |-> Final(s)]
<1>0. S \in SUBSET Ranges /\ S \in SUBSET Times /\ IsFiniteSet(S)
    BY TimesAreFinite, FS_Subset, TimeFields DEF Ranges, Real
<1> HIDE DEF S
<1>1. \A s \in SUBSET S : chosen[s] = Final(s) /\ (s # {} => chosen[s] \in s)
    BY <1>0, FinalIsLast
<1>2. \A s \in SUBSET S :
          Merges(S)[s] = IF s = {} THEN {} ELSE Joined(Final(s), Merges(S)[s \ {Final(s)}])
    BY <1>0, MergeSteps
<1>3. Merged({}, {})
    BY DEF Merged, Apart
<1>4. {} \in P
    BY <1>2, <1>3
<1>5. ASSUME NEW s \in SUBSET S, s # {}, s \ {chosen[s]} \in P PROVE s \in P
  <2> DEFINE x == Final(s)
             u == s \ {x}
  <2>1. u \in P /\ chosen[s] = x
    BY <1>1, <1>5
  <2>2. Merged(u, Merges(S)[u])
    BY <2>1
  <2>3. /\ x \in s /\ \A q \in u : Earlier(q, x)
    BY <1>0, <1>5, FinalIsLast
  <2>4. s = u \cup {x} /\ x \in Ranges /\ u \in SUBSET Ranges
    BY <2>3, <1>0
  <2>5. Merges(S)[s] = Joined(x, Merges(S)[u])
    BY <1>2, <1>5
  <2> HIDE DEF x, u
  <2>6. Merged(u \cup {x}, Joined(x, Merges(S)[u]))
    BY <2>2, <2>3, <2>4, JoinOnce
  <2> QED  BY <2>4, <2>5, <2>6
<1> HIDE DEF chosen, P
<1>6. S \in P
    BY <1>0, <1>1, <1>4, <1>5, Choosing
<1>7. Merge(R) = Merges(S)[S]
    BY MergeFolds DEF S
<1> QED  BY <1>6, <1>7 DEF P, S

-----------------------------------------------------------------------------
(* Intersecting *)

\* What two ranges have in common, the step of the walk, and the function it defines.
Met(l, r) ==
    LET s == Max({l.start, r.start})
        e == Min({l.end, r.end})
    IN {x \in {Span(s, e)} : s < e}

Onward(p) ==
    LET l == First(p[1])
        r == First(p[2])
    IN IF l.end <= r.end THEN <<p[1] \ {l}, p[2]>> ELSE <<p[1], p[2] \ {r}>>

Commons(A, B) ==
    CHOOSE common : common = [p \in (SUBSET A) \X (SUBSET B) |->
        IF p[1] = {} \/ p[2] = {} THEN {}
        ELSE Met(First(p[1]), First(p[2])) \cup common[Onward(p)]]

\* Intersect is the value of that function.
LEMMA IntersectWalks ==
    ASSUME NEW A, NEW B
    PROVE  Intersect(A, B) = Commons(Merge(A), Merge(B))[<<Merge(A), Merge(B)>>]
    BY Zenon DEF Intersect, Commons, Met, Onward

\* The points of two sets of ranges are those of either.
LEMMA PointsOfBoth ==
    ASSUME NEW X, NEW Y
    PROVE  Points(X \cup Y) = Points(X) \cup Points(Y)
<1>1. \A p : p \in Points(X \cup Y) <=> p \in Points(X) \/ p \in Points(Y)
    BY PointsOf
<1> QED  BY <1>1

\* What the arithmetic of ranges needs to know of them.
RangeFacts ==
    \A r \in Ranges : r \in Times /\ r.start \in Int /\ r.end \in Int /\ r.start < r.end
                      /\ 0 <= r.start /\ r.end <= Midnight

\* Ranges of the day have these.
LEMMA RangesAre == RangeFacts /\ Midnight \in Nat
    BY TimeFields, DayAssumption DEF Ranges, RangeFacts

\* What two ranges have in common are the points of both.
LEMMA MetIsCommon ==
    ASSUME NEW l \in Ranges, NEW r \in Ranges
    PROVE  /\ Met(l, r) \in SUBSET Ranges
           /\ \A p : p \in Points(Met(l, r)) <=>
                     p \in l.start .. l.end - 1 /\ p \in r.start .. r.end - 1
<1>0. /\ l.start \in Int /\ l.end \in Int /\ l.start < l.end /\ 0 <= l.start /\ l.end <= Midnight
      /\ r.start \in Int /\ r.end \in Int /\ r.start < r.end /\ 0 <= r.start /\ r.end <= Midnight
      /\ Midnight \in Nat
    BY RangesAre DEF RangeFacts
<1> DEFINE s == IF l.start < r.start THEN r.start ELSE l.start
           e == IF l.end < r.end THEN l.end ELSE r.end
<1>1. Met(l, r) = {x \in {Span(s, e)} : s < e}
    BY <1>0, MaxOfTwo, MinOfTwo DEF Met
<1>2. Span(s, e).start = s /\ Span(s, e).end = e
    BY DEF Span
<1>3. s < e => Span(s, e) \in Ranges
    BY <1>0 DEF Span, Ranges, Times
<1>4. \A p : s < e /\ p \in s .. e - 1 <=> p \in l.start .. l.end - 1 /\ p \in r.start .. r.end - 1
    BY <1>0
<1> HIDE DEF s, e
<1>5. \A p : p \in Points(Met(l, r)) <=> s < e /\ p \in s .. e - 1
    BY <1>1, <1>2, PointsOf
<1> QED  BY <1>1, <1>3, <1>4, <1>5

\* The first of ranges apart ends before every other begins.
LEMMA FirstApart ==
    ASSUME NEW m \in SUBSET Ranges, Apart(m), m # {}
    PROVE  /\ First(m) \in m /\ First(m) \in Ranges
           /\ \A q \in m \ {First(m)} : First(m).end < q.start
<1>0. m \in SUBSET Times
    BY DEF Ranges
<1>1. First(m) \in m /\ \A q \in m : First(m).start <= q.start
    BY <1>0, FirstIsSoonest
<1> DEFINE f == First(m)
<1>2. f \in m /\ f \in Ranges /\ \A q \in m : f.start <= q.start
    BY <1>1
<1> HIDE DEF f
<1>3. ASSUME NEW q \in m, q # f PROVE f.end < q.start
  <2>1. f.end < q.start \/ q.end < f.start
    BY <1>2, <1>3 DEF Apart
  <2> QED  BY <2>1, <1>2, RangesAre DEF RangeFacts
<1> QED  BY <1>2, <1>3 DEF f

\* One step of the walk: what the first two have in common, and what is common
\* of the rest.
LEMMA StepIsCommon ==
    ASSUME NEW L \in SUBSET Ranges, NEW R \in SUBSET Ranges, Apart(L), Apart(R),
           L # {}, R # {}, NEW c \in SUBSET Ranges,
           Points(c) = Points(Onward(<<L, R>>)[1]) \cap Points(Onward(<<L, R>>)[2])
    PROVE  /\ Met(First(L), First(R)) \cup c \in SUBSET Ranges
           /\ Points(Met(First(L), First(R)) \cup c) = Points(L) \cap Points(R)
<1> DEFINE l == First(L)
           r == First(R)
           In(p, x) == p \in x.start .. x.end - 1
<1>1. /\ l \in L /\ l \in Ranges /\ \A q \in L \ {l} : l.end < q.start
      /\ r \in R /\ r \in Ranges /\ \A q \in R \ {r} : r.end < q.start
    BY FirstApart
<1>2. Met(l, r) \in SUBSET Ranges
    BY <1>1, MetIsCommon
<1>3. \A p : p \in Points(Met(l, r) \cup c) <=> (In(p, l) /\ In(p, r)) \/ p \in Points(c)
  <2>1. Points(Met(l, r) \cup c) = Points(Met(l, r)) \cup Points(c)
    BY PointsOfBoth
  <2>2. \A p : p \in Points(Met(l, r)) <=> In(p, l) /\ In(p, r)
    BY <1>1, MetIsCommon
  <2> HIDE DEF l, r, In
  <2> QED  BY <2>1, <2>2
<1>4. Onward(<<L, R>>) = IF l.end <= r.end THEN <<L \ {l}, R>> ELSE <<L, R \ {r}>>
    BY DEF Onward
<1> HIDE DEF l, r
<1>5. \A p : /\ p \in Points(L) <=> In(p, l) \/ p \in Points(L \ {l})
             /\ p \in Points(R) <=> In(p, r) \/ p \in Points(R \ {r})
    BY <1>1, PointsOf
<1>6. \A p : /\ p \in Points(L \ {l}) => p \in Int /\ p > l.end
             /\ p \in Points(R \ {r}) => p \in Int /\ p > r.end
  <2> TAKE p
  <2>1. ASSUME p \in Points(L \ {l}) PROVE p \in Int /\ p > l.end
    <3>1. PICK q \in L \ {l} : In(p, q)
        BY <2>1, PointsOf
    <3>2. q \in Ranges
        OBVIOUS
    <3> QED  BY <3>1, <3>2, <1>1, RangesAre DEF RangeFacts
  <2>2. ASSUME p \in Points(R \ {r}) PROVE p \in Int /\ p > r.end
    <3>1. PICK q \in R \ {r} : In(p, q)
        BY <2>2, PointsOf
    <3>2. q \in Ranges
        OBVIOUS
    <3> QED  BY <3>1, <3>2, <1>1, RangesAre DEF RangeFacts
  <2> QED  BY <2>1, <2>2
<1>7. l.end \in Int /\ r.end \in Int
    BY <1>1, RangesAre DEF RangeFacts
<1>8. CASE l.end <= r.end
  <2>1. Points(c) = Points(L \ {l}) \cap Points(R)
    BY <1>4, <1>8
  <2>2. ASSUME NEW p, In(p, l), p \in Points(R) PROVE In(p, r)
    <3>1. l.start \in Int /\ l.end \in Int
        BY <1>1, RangesAre DEF RangeFacts
    <3>2. p \in Int /\ p < l.end
        BY <2>2, <3>1
    <3>3. p \notin Points(R \ {r})
        BY <1>6, <1>7, <1>8, <3>2
    <3> QED  BY <1>5, <2>2, <3>3
  <2>3. \A p : p \in Points(Met(l, r) \cup c) <=> p \in Points(L) \cap Points(R)
    BY <2>1, <2>2, <1>3, <1>5
  <2> QED  BY <2>3, <1>2 DEF l, r
<1>9. CASE ~(l.end <= r.end)
  <2>1. Points(c) = Points(L) \cap Points(R \ {r})
    BY <1>4, <1>9
  <2>2. ASSUME NEW p, In(p, r), p \in Points(L) PROVE In(p, l)
    <3>1. r.start \in Int /\ r.end \in Int
        BY <1>1, RangesAre DEF RangeFacts
    <3>2. p \in Int /\ p < r.end
        BY <2>2, <3>1
    <3>3. p \notin Points(L \ {l})
        BY <1>6, <1>7, <1>9, <3>2
    <3> QED  BY <1>5, <2>2, <3>3
  <2>3. \A p : p \in Points(Met(l, r) \cup c) <=> p \in Points(L) \cap Points(R)
    BY <2>1, <2>2, <1>3, <1>5
  <2> QED  BY <2>3, <1>2 DEF l, r
<1> QED  BY <1>8, <1>9

\* How many ranges of both lists are left.
Remaining(A, B) ==
    [p \in (SUBSET A) \X (SUBSET B) |->
       IF p[1] = {} \/ p[2] = {} THEN 0 ELSE Cardinality(p[1]) + Cardinality(p[2])]
\* The step of the walk as a function.
Onwards(A, B) == [p \in (SUBSET A) \X (SUBSET B) |-> Onward(p)]

\* Every step leaves fewer ranges behind it.
LEMMA WalkEnds ==
    ASSUME NEW A \in SUBSET Ranges, NEW B \in SUBSET Ranges
    PROVE  /\ Cardinality(A) + Cardinality(B) \in Nat
           /\ Ranked((SUBSET A) \X (SUBSET B), Cardinality(A) + Cardinality(B),
                     Remaining(A, B), Onwards(A, B))
           /\ \A p \in (SUBSET A) \X (SUBSET B) :
                Remaining(A, B)[p] = 0 <=> p[1] = {} \/ p[2] = {}
<1> DEFINE D == (SUBSET A) \X (SUBSET B)
           N == Cardinality(A) + Cardinality(B)
<1>0. A \in SUBSET Times /\ B \in SUBSET Times /\ IsFiniteSet(A) /\ IsFiniteSet(B)
    BY TimesAreFinite, FS_Subset DEF Ranges
<1>1. Cardinality(A) \in Nat /\ Cardinality(B) \in Nat
    BY <1>0, FS_CardinalityType
<1>2. /\ \A s \in SUBSET A : IsFiniteSet(s) /\ Cardinality(s) \in Nat /\ Cardinality(s) <= Cardinality(A)
      /\ \A s \in SUBSET B : IsFiniteSet(s) /\ Cardinality(s) \in Nat /\ Cardinality(s) <= Cardinality(B)
    BY <1>0, FS_Subset, FS_CardinalityType
<1>3. /\ \A s \in SUBSET A : s # {} => Cardinality(s) > 0
      /\ \A s \in SUBSET B : s # {} => Cardinality(s) > 0
    BY <1>2, FS_EmptySet
<1>4. \A p \in D : p[1] \in SUBSET A /\ p[2] \in SUBSET B
    OBVIOUS
<1>5. \A p \in D : Remaining(A, B)[p] =
          IF p[1] = {} \/ p[2] = {} THEN 0 ELSE Cardinality(p[1]) + Cardinality(p[2])
    BY DEF Remaining
<1>6. \A p \in D : Remaining(A, B)[p] = 0 <=> p[1] = {} \/ p[2] = {}
    BY <1>2, <1>3, <1>4, <1>5
<1>7. Remaining(A, B) \in [D -> 0 .. N]
    BY <1>1, <1>2, <1>4 DEF Remaining
<1>8. ASSUME NEW p \in D, Remaining(A, B)[p] > 0
      PROVE  Onwards(A, B)[p] \in D /\ Remaining(A, B)[Onwards(A, B)[p]] < Remaining(A, B)[p]
  <2>1. p[1] # {} /\ p[2] # {} /\ p[1] \in SUBSET A /\ p[2] \in SUBSET B
    BY <1>8, <1>6, <1>4
  <2>2. p[1] \in SUBSET Times /\ p[2] \in SUBSET Times
    BY <2>1, <1>0
  <2>3. First(p[1]) \in p[1] /\ First(p[2]) \in p[2]
    BY <2>1, <2>2, FirstIsSoonest
  <2>4. /\ Cardinality(p[1] \ {First(p[1])}) = Cardinality(p[1]) - 1
        /\ Cardinality(p[2] \ {First(p[2])}) = Cardinality(p[2]) - 1
    BY <2>1, <2>3, <1>2, FS_RemoveElement
  <2>5. Onwards(A, B)[p] = Onward(p)
    BY DEF Onwards
  <2>6. \/ Onward(p) = <<p[1] \ {First(p[1])}, p[2]>>
        \/ Onward(p) = <<p[1], p[2] \ {First(p[2])}>>
    BY DEF Onward
  <2>7. Onward(p) \in D
    BY <2>1, <2>6
  <2>8. Remaining(A, B)[p] = Cardinality(p[1]) + Cardinality(p[2])
    BY <1>5, <2>1
  <2>9. Cardinality(p[1]) \in Nat /\ Cardinality(p[2]) \in Nat
        /\ Cardinality(p[1]) > 0 /\ Cardinality(p[2]) > 0
    BY <2>1, <1>2, <1>3
  <2>10. CASE Onward(p) = <<p[1] \ {First(p[1])}, p[2]>>
    <3>1. Onward(p)[1] = p[1] \ {First(p[1])} /\ Onward(p)[2] = p[2]
        BY <2>10
    <3>2. Remaining(A, B)[Onward(p)] \in {0, Cardinality(p[1]) - 1 + Cardinality(p[2])}
        BY <3>1, <1>5, <2>7, <2>4
    <3> QED  BY <3>2, <2>5, <2>7, <2>8, <2>9
  <2>11. CASE Onward(p) = <<p[1], p[2] \ {First(p[2])}>>
    <3>1. Onward(p)[2] = p[2] \ {First(p[2])} /\ Onward(p)[1] = p[1]
        BY <2>11
    <3>2. Remaining(A, B)[Onward(p)] \in {0, Cardinality(p[1]) + (Cardinality(p[2]) - 1)}
        BY <3>1, <1>5, <2>7, <2>4
    <3> QED  BY <3>2, <2>5, <2>7, <2>8, <2>9
  <2> QED  BY <2>6, <2>10, <2>11
<1> QED  BY <1>1, <1>6, <1>7, <1>8 DEF Ranked

\* The walk goes step by step to its end.
LEMMA CommonSteps ==
    ASSUME NEW A \in SUBSET Ranges, NEW B \in SUBSET Ranges
    PROVE  \A p \in (SUBSET A) \X (SUBSET B) :
             Commons(A, B)[p] = IF p[1] = {} \/ p[2] = {} THEN {}
                                ELSE Met(First(p[1]), First(p[2])) \cup Commons(A, B)[Onward(p)]
<1> DEFINE D == (SUBSET A) \X (SUBSET B)
           N == Cardinality(A) + Cardinality(B)
           V == SUBSET Ranges
           none == [p \in D |-> {}]
           G == [y \in D \X V |-> IF y[1][1] = {} \/ y[1][2] = {} THEN {}
                                  ELSE Met(First(y[1][1]), First(y[1][2])) \cup y[2]]
           rank == Remaining(A, B)
           pred == Onwards(A, B)
<1>1. N \in Nat /\ Ranked(D, N, rank, pred)
    BY WalkEnds
<1>2. \A p \in D : rank[p] = 0 <=> p[1] = {} \/ p[2] = {}
    BY WalkEnds
<1>3. \A p \in D : pred[p] = Onward(p)
    BY DEF Onwards
<1>4. none \in [D -> V]
    OBVIOUS
<1>5. ASSUME NEW p \in D, NEW v \in V, p[1] # {}, p[2] # {}
      PROVE  Met(First(p[1]), First(p[2])) \cup v \in V
  <2>1. p[1] \in SUBSET Times /\ p[2] \in SUBSET Times /\ p[1] \in SUBSET Ranges /\ p[2] \in SUBSET Ranges
    BY DEF Ranges
  <2>2. First(p[1]) \in Ranges /\ First(p[2]) \in Ranges
    BY <2>1, <1>5, FirstIsSoonest
  <2> QED  BY <2>2, MetIsCommon
<1>6. G \in [D \X V -> V]
    BY <1>5
<1>7. \A p \in D : \A v \in V : p[1] # {} /\ p[2] # {} =>
          G[<<p, v>>] = Met(First(p[1]), First(p[2])) \cup v
    OBVIOUS
<1>8. \A p \in D : none[p] = {}
    OBVIOUS
<1>9. \A p \in D : p[1] # {} /\ p[2] # {} => rank[p] > 0 /\ pred[p] \in D
    BY <1>1, <1>2 DEF Ranked
<1> HIDE DEF G, rank, pred, none, V, N, D
<1>10. Solutions(D, V, rank, pred, none, G) # {}
    BY <1>1, <1>4, <1>6, Recursion
<1>11. PICK f \in [D -> V] :
          \A x \in D : f[x] = IF rank[x] = 0 THEN none[x] ELSE G[<<x, f[pred[x]]>>]
    BY <1>10 DEF Solutions
<1>12. \A p \in D : f[p] = IF p[1] = {} \/ p[2] = {} THEN {}
                           ELSE Met(First(p[1]), First(p[2])) \cup f[Onward(p)]
  <2> TAKE p \in D
  <2>1. CASE p[1] = {} \/ p[2] = {}
    BY <2>1, <1>11, <1>2, <1>8
  <2>2. CASE p[1] # {} /\ p[2] # {}
    <3>1. rank[p] # 0 /\ pred[p] \in D /\ pred[p] = Onward(p)
        BY <2>2, <1>2, <1>9, <1>3
    <3>2. f[p] = G[<<p, f[pred[p]]>>] /\ f[pred[p]] \in V
        BY <3>1, <1>11
    <3> QED  BY <3>1, <3>2, <1>7, <2>2
  <2> QED  BY <2>1, <2>2
<1>13. f = [p \in D |-> IF p[1] = {} \/ p[2] = {} THEN {}
                       ELSE Met(First(p[1]), First(p[2])) \cup f[Onward(p)]]
    BY <1>11, <1>12
<1>14. Commons(A, B) = [p \in D |-> IF p[1] = {} \/ p[2] = {} THEN {}
            ELSE Met(First(p[1]), First(p[2])) \cup Commons(A, B)[Onward(p)]]
    BY <1>13, Zenon DEF Commons, D
<1> QED  BY <1>14, Zenon DEF D

\* From wherever the walk is, it finds the points that both rests have.
LEMMA CommonIsRight ==
    ASSUME NEW A \in SUBSET Ranges, NEW B \in SUBSET Ranges, Apart(A), Apart(B)
    PROVE  /\ Commons(A, B)[<<A, B>>] \in SUBSET Ranges
           /\ Points(Commons(A, B)[<<A, B>>]) = Points(A) \cap Points(B)
<1> DEFINE D == (SUBSET A) \X (SUBSET B)
           N == Cardinality(A) + Cardinality(B)
           C == Commons(A, B)
           rank == Remaining(A, B)
           pred == Onwards(A, B)
           P == {p \in D : C[p] \in SUBSET Ranges /\ Points(C[p]) = Points(p[1]) \cap Points(p[2])}
<1>1. N \in Nat /\ Ranked(D, N, rank, pred)
    BY WalkEnds
<1>2. \A p \in D : rank[p] = 0 <=> p[1] = {} \/ p[2] = {}
    BY WalkEnds
<1>3. \A p \in D : pred[p] = Onward(p)
    BY DEF Onwards
<1>4. \A p \in D : C[p] = IF p[1] = {} \/ p[2] = {} THEN {}
                           ELSE Met(First(p[1]), First(p[2])) \cup C[Onward(p)]
    BY CommonSteps
<1>5. Points({}) = {}
    BY DEF Points
<1>6. \A p \in D : rank[p] = 0 => p \in P
    BY <1>2, <1>4, <1>5
<1>7. ASSUME NEW p \in D, rank[p] > 0, pred[p] \in P PROVE p \in P
  <2> DEFINE L == p[1]
             R == p[2]
             c == C[Onward(p)]
  <2>1. L # {} /\ R # {} /\ p = <<L, R>>
    BY <1>2, <1>7
  <2>2. L \in SUBSET Ranges /\ R \in SUBSET Ranges /\ Apart(L) /\ Apart(R)
    BY DEF Apart
  <2>3. C[p] = Met(First(L), First(R)) \cup c
    BY <1>4, <2>1
  <2>4. c \in SUBSET Ranges /\ Points(c) = Points(Onward(p)[1]) \cap Points(Onward(p)[2])
    BY <1>3, <1>7
  <2>5. Onward(p) = Onward(<<L, R>>)
    BY <2>1
  <2> HIDE DEF L, R, c
  <2>6. /\ Met(First(L), First(R)) \cup c \in SUBSET Ranges
        /\ Points(Met(First(L), First(R)) \cup c) = Points(L) \cap Points(R)
    BY <2>1, <2>2, <2>4, <2>5, StepIsCommon
  <2> QED  BY <2>3, <2>6 DEF L, R
<1> HIDE DEF C, rank, pred, N, D, P
<1>8. /\ rank \in [D -> 0 .. N]
      /\ \A x \in D : rank[x] > 0 => pred[x] \in D /\ rank[pred[x]] < rank[x]
    BY <1>1 DEF Ranked
<1>9. \A p \in D : p \in P
    BY <1>1, <1>6, <1>7, <1>8, Descent
<1>10. <<A, B>> \in D
    BY DEF D
<1> QED  BY <1>9, <1>10 DEF P, C

\* intersectRangeSets: the walk over two lists, that leaves behind whichever range ends
\* first, finds every instant both have and no other.
THEOREM IntersectIsRight ==
    ASSUME NEW A \in SUBSET Times, NEW B \in SUBSET Times
    PROVE  /\ Intersect(A, B) \in SUBSET Ranges
           /\ Points(Intersect(A, B)) = Points(A) \cap Points(B)
<1>1. \A R \in SUBSET Times : Points(Real(R)) = Points(R)
  <2> TAKE R \in SUBSET Times
  <2>1. \A p : p \in Points(Real(R)) <=> p \in Points(R)
    <3> TAKE p
    <3>1. ASSUME NEW r \in R, p \in r.start .. r.end - 1 PROVE r.end > r.start
        BY <3>1, TimeFields
    <3> QED  BY <3>1, PointsOf DEF Real
  <2> QED  BY <2>1
<1>2. /\ Merge(A) \in SUBSET Ranges /\ Apart(Merge(A)) /\ Points(Merge(A)) = Points(A)
      /\ Merge(B) \in SUBSET Ranges /\ Apart(Merge(B)) /\ Points(Merge(B)) = Points(B)
    BY <1>1, MergeIsRight DEF Merged
<1> QED  BY <1>2, IntersectWalks, CommonIsRight

-----------------------------------------------------------------------------
(* Subtracting *)

\* One step of Cut, where it begins, the function its fold defines, and what is left.
Moved(source, x, acc) ==
    IF x.end <= acc.cursor \/ x.start >= source.end THEN acc
    ELSE [cursor |-> Max({acc.cursor, x.end}),
          left   |-> acc.left \cup
             {y \in {Span(acc.cursor, Min({x.start, source.end}))} : acc.cursor < x.start}]

Outset(source) == [cursor |-> source.start, left |-> {}]

Cuts(source, E) ==
    CHOOSE iter : iter = [s \in SUBSET E |->
        IF s = {} THEN Outset(source)
        ELSE Moved(source, Final(s), iter[s \ {Final(s)}])]

Rest(source, acc) ==
    acc.left \cup {y \in {Span(acc.cursor, source.end)} : acc.cursor < source.end}

\* Cut is made of the value of that function.
LEMMA CutFolds ==
    ASSUME NEW source, NEW E
    PROVE  Cut(source, E) = Rest(source, Cuts(source, E)[E])
    BY Zenon DEF Cut, MapThenFoldSet, Cuts, Moved, Rest, Outset

\* Where a cut can be.
Cursors == [cursor : 0 .. Midnight, left : SUBSET Ranges]

\* What the cursor has left behind is the source without the exclusions so far,
\* and no exclusion so far reaches beyond the cursor.
Swept(source, s, acc) ==
    /\ acc \in Cursors
    /\ source.start <= acc.cursor
    /\ acc.cursor = source.start \/ \E x \in s : acc.cursor = x.end
    /\ \A p \in source.start .. source.end - 1 :
         /\ p < acc.cursor => (p \in Points(acc.left) <=> p \notin Points(s))
         /\ acc.cursor <= p => p \notin Points(s)
    /\ \A p \in Points(acc.left) : p \in source.start .. source.end - 1 /\ p < acc.cursor

\* The next exclusion in order keeps that.
LEMMA SweptFurther ==
    ASSUME NEW source \in Ranges, NEW s \in SUBSET Ranges, NEW x \in Ranges,
           \A q \in s : q.end < x.start, NEW acc, Swept(source, s, acc)
    PROVE  Swept(source, s \cup {x}, Moved(source, x, acc))
<1> DEFINE c == acc.cursor
           left == acc.left
           a == source.start
           b == source.end
           In(p) == p \in x.start .. x.end - 1
<1>0. /\ c \in Int /\ 0 <= c /\ c <= Midnight /\ left \in SUBSET Ranges /\ acc \in Cursors
      /\ a <= c
      /\ c = a \/ \E q \in s : c = q.end
      /\ \A p \in a .. b - 1 :
           /\ p < c => (p \in Points(left) <=> p \notin Points(s))
           /\ c <= p => p \notin Points(s)
      /\ \A p \in Points(left) : p \in a .. b - 1 /\ p < c
    BY RangesAre DEF Swept, Cursors
<1>1. /\ a \in Int /\ b \in Int /\ a < b /\ 0 <= a /\ b <= Midnight /\ Midnight \in Nat
      /\ x.start \in Int /\ x.end \in Int /\ x.start < x.end /\ 0 <= x.start /\ x.end <= Midnight
      /\ \A q \in s : q.start \in Int /\ q.end \in Int
    BY RangesAre DEF RangeFacts
<1>2. c = a \/ c < x.start
    BY <1>0
<1>3. \A p : p \in Points(s \cup {x}) <=> p \in Points(s) \/ In(p)
    BY PointsOf
<1>4. Moved(source, x, acc) =
          IF x.end <= c \/ x.start >= b THEN acc
          ELSE [cursor |-> Max({c, x.end}),
                left   |-> left \cup {y \in {Span(c, Min({x.start, b}))} : c < x.start}]
    BY DEF Moved
<1>5. CASE x.end <= c \/ x.start >= b
  <2>1. \A p \in a .. b - 1 : ~In(p)
    BY <1>1, <1>2, <1>5, <1>0
  <2> HIDE DEF In, c, left, a, b
  <2>2. /\ c = a \/ \E q \in s \cup {x} : c = q.end
    BY <1>0
  <2>3. \A p \in a .. b - 1 : p \in Points(s \cup {x}) <=> p \in Points(s)
    BY <2>1, <1>3
  <2>4. /\ \A p \in a .. b - 1 :
             /\ p < c => (p \in Points(left) <=> p \notin Points(s \cup {x}))
             /\ c <= p => p \notin Points(s \cup {x})
    BY <2>3, <1>0
  <2>5. Moved(source, x, acc) = acc
    BY <1>4, <1>5
  <2> QED  BY <2>2, <2>4, <2>5, <1>0 DEF Swept, c, left, a, b
<1>6. CASE ~(x.end <= c \/ x.start >= b)
  <2> DEFINE c2 == x.end
             new == {y \in {Span(c, x.start)} : c < x.start}
             left2 == left \cup new
             acc2 == [cursor |-> c2, left |-> left2]
  <2>1. Max({c, x.end}) = c2 /\ Min({x.start, b}) = x.start
    BY <1>0, <1>1, <1>6, MaxOfTwo, MinOfTwo
  <2>2. Moved(source, x, acc) = acc2
    BY <2>1, <1>4, <1>6
  <2>3. new \in SUBSET Ranges
    BY <1>0, <1>1 DEF Ranges, Times, Span
  <2>4. acc2 \in Cursors
    BY <2>3, <1>0, <1>1 DEF Cursors
  <2>5. \A p : p \in Points(new) <=> c < x.start /\ p \in c .. x.start - 1
    <3>1. Span(c, x.start).start = c /\ Span(c, x.start).end = x.start
        BY DEF Span
    <3> QED  BY <3>1, PointsOf
  <2>6. Points(left2) = Points(left) \cup Points(new)
    BY PointsOfBoth
  <2>7. a <= c2
    BY <1>0, <1>1, <1>6
  <2>8. \E q \in s \cup {x} : c2 = q.end
    OBVIOUS
  <2> HIDE DEF left2, new, c, left, a, b
  <2>9. ASSUME NEW p \in a .. b - 1
        PROVE  /\ p < c2 => (p \in Points(left2) <=> p \notin Points(s \cup {x}))
               /\ c2 <= p => p \notin Points(s \cup {x})
    <3>0. p \in Int /\ a <= p /\ p < b
        BY <1>1
    <3>1. CASE p < c
      <4>1. ~In(p) /\ p \notin Points(new)
        BY <1>2, <1>1, <1>0, <3>0, <3>1, <2>5
      <4>2. p < c2
        BY <3>0, <3>1, <1>0, <1>1, <1>6
      <4>3. p \in Points(left) <=> p \notin Points(s)
        BY <1>0, <3>1
      <4>4. ~(c2 <= p)
        BY <4>2, <3>0, <1>1
      <4> HIDE DEF In, c2
      <4> QED  BY <4>1, <4>2, <4>3, <4>4, <2>6, <1>3
    <3>2. CASE ~(p < c)
      <4>1. p \notin Points(s) /\ p \notin Points(left)
        BY <1>0, <3>0, <3>2
      <4>2. p < c2 => (p \in Points(new) <=> ~In(p))
        BY <2>5, <3>0, <3>2, <1>0, <1>1, <1>6
      <4>3. c2 <= p => ~In(p)
        BY <3>0, <1>1
      <4> HIDE DEF In, c2
      <4> QED  BY <4>1, <4>2, <4>3, <2>6, <1>3
    <3> QED  BY <3>1, <3>2
  <2>10. ASSUME NEW p \in Points(left2) PROVE p \in a .. b - 1 /\ p < c2
    <3>1. CASE p \in Points(left)
      <4>1. p \in a .. b - 1 /\ p < c
        BY <1>0, <3>1
      <4> QED  BY <4>1, <1>0, <1>1, <1>6
    <3>2. CASE p \in Points(new)
        BY <3>2, <2>5, <1>0, <1>1, <1>6
    <3> QED  BY <3>1, <3>2, <2>6
  <2>11. acc2.cursor = c2 /\ acc2.left = left2
    OBVIOUS
  <2> HIDE DEF acc2, c2
  <2>12. Swept(source, s \cup {x}, acc2)
    BY <2>4, <2>7, <2>8, <2>9, <2>10, <2>11 DEF Swept, a, b
  <2> QED  BY <2>2, <2>12
<1> QED  BY <1>5, <1>6

\* Cut takes one exclusion after the other, in order.
LEMMA CutSteps ==
    ASSUME NEW source \in Ranges, NEW E \in SUBSET Ranges
    PROVE  \A s \in SUBSET E :
             Cuts(source, E)[s] = IF s = {} THEN Outset(source)
                                  ELSE Moved(source, Final(s), Cuts(source, E)[s \ {Final(s)}])
<1>0. E \in SUBSET Times /\ IsFiniteSet(E)
    BY TimesAreFinite, FS_Subset DEF Ranges
<1> DEFINE chosen == [s \in SUBSET E |-> Final(s)]
           V == Cursors
           G == [y \in (SUBSET E) \X V |-> IF y[1] = {} THEN Outset(source)
                                           ELSE Moved(source, Final(y[1]), y[2])]
<1>1. \A s \in SUBSET E : chosen[s] = Final(s) /\ (s # {} => chosen[s] \in s)
    BY <1>0, FinalIsLast
<1>2. Outset(source) \in V
    BY RangesAre DEF RangeFacts, Cursors, Outset
<1>3. ASSUME NEW s \in SUBSET E, NEW v \in V, s # {}
      PROVE  Moved(source, Final(s), v) \in V
  <2> DEFINE x == Final(s)
  <2>1. x \in Ranges
    BY <1>3, <1>0, FinalIsLast
  <2> HIDE DEF x
  <2>2. /\ x.start \in 0 .. Midnight /\ x.end \in 0 .. Midnight /\ source.end \in 0 .. Midnight
        /\ v.cursor \in 0 .. Midnight /\ v.left \in SUBSET Ranges /\ Midnight \in Nat
    BY <2>1, RangesAre DEF RangeFacts, Cursors
  <2>3. Max({v.cursor, x.end}) \in 0 .. Midnight /\ Min({x.start, source.end}) \in 0 .. Midnight
    BY <2>2, MaxOfTwo, MinOfTwo
  <2>4. CASE x.end <= v.cursor \/ x.start >= source.end
    BY <2>4 DEF Moved, x
  <2>5. CASE ~(x.end <= v.cursor \/ x.start >= source.end)
    <3>1. ASSUME v.cursor < x.start
          PROVE  Span(v.cursor, Min({x.start, source.end})) \in Ranges
      <4>1. v.cursor < Min({x.start, source.end})
        BY <3>1, <2>2, <2>5, MinOfTwo
      <4> QED  BY <4>1, <2>2, <2>3 DEF Ranges, Times, Span
    <3> DEFINE new == {y \in {Span(v.cursor, Min({x.start, source.end}))} : v.cursor < x.start}
    <3>2. new \in SUBSET Ranges
        BY <3>1
    <3> HIDE DEF new
    <3>3. [cursor |-> Max({v.cursor, x.end}), left |-> v.left \cup new] \in V
        BY <2>2, <2>3, <3>2 DEF Cursors
    <3>4. Moved(source, x, v) = [cursor |-> Max({v.cursor, x.end}), left |-> v.left \cup new]
        BY <2>5 DEF Moved, new
    <3> QED  BY <3>3, <3>4 DEF x
  <2> QED  BY <2>4, <2>5
<1>4. G \in [(SUBSET E) \X V -> V]
    BY <1>2, <1>3
<1>5. \A s \in SUBSET E : \A v \in V : s # {} => G[<<s, v>>] = Moved(source, Final(s), v)
    OBVIOUS
<1> HIDE DEF chosen, G, V
<1>6. FoldsOver(E, V, chosen, Outset(source), G) # {}
    BY <1>0, <1>1, <1>2, <1>4, Folding
<1>7. PICK f \in [SUBSET E -> V] :
          \A s \in SUBSET E : f[s] = IF s = {} THEN Outset(source) ELSE G[<<s, f[s \ {chosen[s]}]>>]
    BY <1>6 DEF FoldsOver
<1>8. \A s \in SUBSET E :
          f[s] = IF s = {} THEN Outset(source) ELSE Moved(source, Final(s), f[s \ {Final(s)}])
  <2> TAKE s \in SUBSET E
  <2>1. CASE s = {}
    BY <1>7, <2>1
  <2>2. CASE s # {}
    <3>1. chosen[s] = Final(s) /\ s \ {Final(s)} \in SUBSET E
        BY <1>1
    <3>2. f[s \ {Final(s)}] \in V
        BY <3>1
    <3>3. f[s] = G[<<s, f[s \ {Final(s)}]>>]
        BY <1>7, <2>2, <3>1
    <3> QED  BY <3>2, <3>3, <1>5, <2>2
  <2> QED  BY <2>1, <2>2
<1>9. f = [s \in SUBSET E |->
             IF s = {} THEN Outset(source) ELSE Moved(source, Final(s), f[s \ {Final(s)}])]
    BY <1>7, <1>8
<1>10. Cuts(source, E) = [s \in SUBSET E |->
          IF s = {} THEN Outset(source) ELSE Moved(source, Final(s), Cuts(source, E)[s \ {Final(s)}])]
    BY <1>9, Zenon DEF Cuts
<1> QED  BY <1>10, Zenon

\* Cutting out ranges that are apart leaves the other points of the source.
LEMMA CutIsRight ==
    ASSUME NEW source \in Ranges, NEW E \in SUBSET Ranges, Apart(E)
    PROVE  /\ Cut(source, E) \in SUBSET Ranges
           /\ Points(Cut(source, E)) = (source.start .. source.end - 1) \ Points(E)
<1> DEFINE P == {s \in SUBSET E : Swept(source, s, Cuts(source, E)[s])}
           chosen == [s \in SUBSET E |-> Final(s)]
<1>0. E \in SUBSET Times /\ IsFiniteSet(E)
    BY TimesAreFinite, FS_Subset DEF Ranges
<1>1. \A s \in SUBSET E : chosen[s] = Final(s) /\ (s # {} => chosen[s] \in s)
    BY <1>0, FinalIsLast
<1>2. \A s \in SUBSET E :
          Cuts(source, E)[s] = IF s = {} THEN Outset(source)
                               ELSE Moved(source, Final(s), Cuts(source, E)[s \ {Final(s)}])
    BY CutSteps
<1>3. Swept(source, {}, Outset(source))
  <2>1. /\ Outset(source).cursor = source.start /\ Outset(source).left = {}
        /\ Outset(source) \in Cursors
    BY RangesAre DEF RangeFacts, Cursors, Outset
  <2>2. Points({}) = {}
    BY DEF Points
  <2>3. source.start \in Int /\ source.end \in Int
    BY RangesAre DEF RangeFacts
  <2> QED  BY <2>1, <2>2, <2>3 DEF Swept
<1>4. {} \in P
    BY <1>2, <1>3
<1>5. ASSUME NEW s \in SUBSET E, s # {}, s \ {chosen[s]} \in P PROVE s \in P
  <2> DEFINE x == Final(s)
             u == s \ {x}
  <2>1. Swept(source, u, Cuts(source, E)[u])
    BY <1>1, <1>5
  <2>2. x \in s /\ \A q \in u : Earlier(q, x)
    BY <1>0, <1>5, FinalIsLast
  <2>3. s = u \cup {x} /\ x \in Ranges /\ u \in SUBSET Ranges /\ x \notin u
    BY <2>2
  <2>4. \A q \in u : q.end < x.start
    BY <2>2, <2>3, RangesAre DEF RangeFacts, Earlier, Apart
  <2>5. Cuts(source, E)[s] = Moved(source, x, Cuts(source, E)[u])
    BY <1>2, <1>5
  <2> HIDE DEF x, u
  <2>6. Swept(source, u \cup {x}, Moved(source, x, Cuts(source, E)[u]))
    BY <2>1, <2>3, <2>4, SweptFurther
  <2> QED  BY <2>3, <2>5, <2>6
<1> HIDE DEF chosen, P
<1>6. E \in P
    BY <1>0, <1>1, <1>4, <1>5, Choosing
<1> DEFINE acc == Cuts(source, E)[E]
           b == source.end
           new == {y \in {Span(acc.cursor, b)} : acc.cursor < b}
<1>7. Swept(source, E, acc)
    BY <1>6 DEF P
<1>8. Cut(source, E) = acc.left \cup new
    BY CutFolds DEF Rest
<1> HIDE DEF acc
<1>9. /\ acc.cursor \in Int /\ 0 <= acc.cursor /\ acc.cursor <= Midnight /\ acc.left \in SUBSET Ranges
      /\ source.start <= acc.cursor
      /\ \A p \in source.start .. b - 1 :
           /\ p < acc.cursor => (p \in Points(acc.left) <=> p \notin Points(E))
           /\ acc.cursor <= p => p \notin Points(E)
      /\ \A p \in Points(acc.left) : p \in source.start .. b - 1 /\ p < acc.cursor
    BY <1>7, RangesAre DEF Swept, Cursors
<1>10. source.start \in Int /\ b \in Int /\ b <= Midnight /\ Midnight \in Nat
    BY RangesAre DEF RangeFacts
<1>11. new \in SUBSET Ranges
    BY <1>9, <1>10 DEF Ranges, Times, Span
<1>12. \A p : p \in Points(new) <=> acc.cursor < b /\ p \in acc.cursor .. b - 1
  <2>1. Span(acc.cursor, b).start = acc.cursor /\ Span(acc.cursor, b).end = b
    BY DEF Span
  <2> QED  BY <2>1, PointsOf
<1>13. Points(acc.left \cup new) = Points(acc.left) \cup Points(new)
    BY PointsOfBoth
<1> HIDE DEF new, b
<1>14. ASSUME NEW p
       PROVE  p \in Points(acc.left) \/ p \in Points(new) <=>
              p \in source.start .. b - 1 /\ p \notin Points(E)
    BY <1>9, <1>10, <1>12
<1> QED  BY <1>8, <1>9, <1>11, <1>13, <1>14 DEF b

\* Empty ranges have no points.
LEMMA PointsOfReal ==
    ASSUME NEW R \in SUBSET Times
    PROVE  Points(Real(R)) = Points(R)
<1>1. \A p : p \in Points(Real(R)) <=> p \in Points(R)
  <2> TAKE p
  <2>1. ASSUME NEW r \in R, p \in r.start .. r.end - 1 PROVE r.end > r.start
    BY <2>1, TimeFields
  <2> QED  BY <2>1, PointsOf DEF Real
<1> QED  BY <1>1

\* Merging keeps the points.
LEMMA MergeKeepsPoints ==
    ASSUME NEW R \in SUBSET Times
    PROVE  Merge(R) \in SUBSET Ranges /\ Apart(Merge(R)) /\ Points(Merge(R)) = Points(R)
    BY PointsOfReal, MergeIsRight DEF Merged

\* subtractRanges: the cursor leaves every instant of the one list that the other
\* does not have, and no other.
THEOREM SubtractIsRight ==
    ASSUME NEW R \in SUBSET Times, NEW E \in SUBSET Times
    PROVE  /\ Subtract(R, E) \in SUBSET Ranges
           /\ Points(Subtract(R, E)) = Points(R) \ Points(E)
<1> DEFINE M == Merge(R)
           X == Merge(E)
<1>1. /\ M \in SUBSET Ranges /\ Points(M) = Points(R)
      /\ X \in SUBSET Ranges /\ Apart(X) /\ Points(X) = Points(E)
    BY MergeKeepsPoints
<1>2. Subtract(R, E) = UNION {Cut(source, X) : source \in M}
    BY DEF Subtract
<1> HIDE DEF M, X
<1>3. \A source \in M :
          /\ Cut(source, X) \in SUBSET Ranges
          /\ Points(Cut(source, X)) = (source.start .. source.end - 1) \ Points(X)
    BY <1>1, CutIsRight
<1>4. Subtract(R, E) \in SUBSET Ranges
    BY <1>2, <1>3
<1>5. ASSUME NEW p PROVE p \in Points(Subtract(R, E)) <=> p \in Points(M) /\ p \notin Points(X)
  <2>1. p \in Points(Subtract(R, E)) <=> \E source \in M : \E r \in Cut(source, X) : p \in r.start .. r.end - 1
    BY <1>2, PointsOf
  <2>2. p \in Points(Subtract(R, E)) <=> \E source \in M : p \in Points(Cut(source, X))
    BY <2>1, PointsOf
  <2>3. p \in Points(Subtract(R, E)) <=>
          \E source \in M : p \in source.start .. source.end - 1 /\ p \notin Points(X)
    BY <2>2, <1>3
  <2> QED  BY <2>3, PointsOf
<1> QED  BY <1>1, <1>4, <1>5

\* A list that is not empty has a first element.
LEMMA OneOfThem ==
    ASSUME NEW T, NEW s \in Seq(T), s # <<>>
    PROVE  s[1] \in T
<1>1. Len(s) \in Nat /\ Len(s) # 0
    BY EmptySeq
<1> QED  BY <1>1, ElementOfSeq

\* The opening hours are times of the day.
LEMMA HoursAreTimes ==
    ASSUME day \in Days
    PROVE  BranchHours \in SUBSET Times /\ Points(BranchHours) \in SUBSET Instant
<1>1. DefaultHours \in SUBSET Times
  <2>1. Midnight \div 3 \in 0 .. Midnight
    BY DayAssumption
  <2> QED  BY <2>1, DayAssumption DEF DefaultHours, Span, Times
<1>2. day.hours \in Seq([closed : BOOLEAN, intervals : SUBSET Times])
    BY DaysAssumption
<1>3. day.hours # <<>> => day.hours[1].intervals \in SUBSET Times
  <2>1. day.hours # <<>> => day.hours[1] \in [closed : BOOLEAN, intervals : SUBSET Times]
    BY <1>2, OneOfThem
  <2> QED  BY <2>1
<1>4. BranchHours \in SUBSET Times
    BY <1>1, <1>3 DEF BranchHours
<1>5. \A p : p \in Points(BranchHours) => p \in Instant
  <2> TAKE p
  <2> HAVE p \in Points(BranchHours)
  <2>1. PICK r \in BranchHours : p \in r.start .. r.end - 1
    BY PointsOf
  <2>2. r \in Times
    BY <1>4
  <2> QED  BY <2>1, <2>2, TimeFields, DayAssumption DEF Instant
<1> QED  BY <1>4, <1>5

\* A shift and a break are times of the day.
LEMMA ScheduleFields ==
    ASSUME day \in Days, NEW e \in Employee, day.schedule[e] # <<>>
    PROVE  day.schedule[e][1].shifts \in SUBSET Times /\ day.schedule[e][1].breaks \in SUBSET Times
<1>1. day.schedule[e] \in Seq([shifts : SUBSET Times, breaks : SUBSET Times])
    BY DaysAssumption
<1>2. day.schedule[e][1] \in [shifts : SUBSET Times, breaks : SUBSET Times]
    BY <1>1, OneOfThem
<1> QED  BY <1>2

\* The working time of one employee, by what intersecting and subtracting do.
LEMMA WorkingTimeOf ==
    ASSUME day \in Days, NEW e \in Employee
    PROVE  LET s == day.schedule[e] IN
           /\ WorkingTime(e) \in SUBSET Ranges
           /\ Points(WorkingTime(e)) =
                (Points(BranchHours) \cap
                   (IF s = <<>> \/ s[1].shifts = {} THEN Instant ELSE Points(s[1].shifts)))
                \ (IF s = <<>> THEN {} ELSE Points(s[1].breaks))
<1> DEFINE s == day.schedule[e]
           shifts == IF s = <<>> \/ s[1].shifts = {} THEN BranchHours ELSE s[1].shifts
           breaks == IF s = <<>> THEN {} ELSE s[1].breaks
<1>1. shifts \in SUBSET Times /\ breaks \in SUBSET Times
    BY HoursAreTimes, ScheduleFields
<1>2. WorkingTime(e) = Subtract(Intersect(shifts, BranchHours), breaks)
    BY DEF WorkingTime
<1>3. Points({}) = {}
    BY DEF Points
<1>4. breaks = {} \/ s # <<>>
    OBVIOUS
<1>5. Points(breaks) = IF s = <<>> THEN {} ELSE Points(s[1].breaks)
    BY <1>3
<1>6. Points(shifts) \cap Points(BranchHours) =
          Points(BranchHours) \cap
            (IF s = <<>> \/ s[1].shifts = {} THEN Instant ELSE Points(s[1].shifts))
    BY HoursAreTimes
<1> HIDE DEF shifts, breaks
<1>7. BranchHours \in SUBSET Times /\ \A r \in SUBSET Ranges : r \in SUBSET Times
    BY HoursAreTimes DEF Ranges
<1>8. /\ Intersect(shifts, BranchHours) \in SUBSET Ranges
      /\ Points(Intersect(shifts, BranchHours)) = Points(shifts) \cap Points(BranchHours)
    BY <1>1, <1>7, IntersectIsRight
<1>9. /\ WorkingTime(e) \in SUBSET Ranges
      /\ Points(WorkingTime(e)) = (Points(shifts) \cap Points(BranchHours)) \ Points(breaks)
    BY <1>1, <1>2, <1>7, <1>8, SubtractIsRight
<1> QED  BY <1>5, <1>6, <1>9

\* The day is one of Days.
LEMMA DayStays == Spec => [](day \in Days)
<1>1. Init => day \in Days
    BY DEF Init
<1>2. day \in Days /\ [Next]_vars => (day \in Days)'
    BY DEF Next, vars, Book, Reschedule, Cancel, Give
<1> QED  BY <1>1, <1>2, PTL DEF Spec

\* Whatever the hours, shifts and breaks of a day are, an employee works in the shifts
\* inside the opening hours without the breaks, instant by instant (WorkingTimeIsRight).
THEOREM WorkingTimeHolds == Spec => []WorkingTimeIsRight
<1>1. day \in Days => WorkingTimeIsRight
    BY WorkingTimeOf DEF WorkingTimeIsRight
<1> QED  BY <1>1, DayStays, PTL

-----------------------------------------------------------------------------
(* Listing *)

\* Division with remainder.
LEMMA Division ==
    ASSUME NEW n \in Nat, NEW g \in Nat \ {0}
    PROVE  /\ n \div g \in Nat /\ n % g \in 0 .. g - 1
           /\ n = g * (n \div g) + (n % g)
    OBVIOUS

\* A point of the grid is reached from the first one in steps.
LEMMA Aligned ==
    ASSUME NEW v \in Nat, NEW t \in Nat, v <= t, t % Grid = 0
    PROVE  \E k \in 0 .. t : t = AlignUp(v) + k * Grid
<1>0. Grid \in Nat /\ Grid >= 1
    BY DayAssumption
<1> DEFINE q == (v + Grid - 1) \div Grid
           m == t \div Grid
<1>1. v + Grid - 1 \in Nat
    BY <1>0
<1>2. q \in Nat /\ Grid * q <= v + Grid - 1
    BY <1>0, <1>1, Division
<1>3. m \in Nat /\ t = Grid * m
    BY <1>0, Division
<1>4. AlignUp(v) = q * Grid
    BY DEF AlignUp
<1> HIDE DEF q, m
<1>5. q <= m
  <2> SUFFICES ASSUME q >= m + 1 PROVE FALSE
    BY <1>2, <1>3
  <2>1. Grid * q >= Grid * (m + 1)
    BY <1>0, <1>2, <1>3
  <2>2. Grid * (m + 1) = Grid * m + Grid
    BY <1>0, <1>3
  <2>3. Grid * q \in Int
    BY <1>0, <1>2
  <2> QED  BY <2>1, <2>2, <2>3, <1>0, <1>2, <1>3
<1>6. m <= t
    BY <1>0, <1>3
<1>7. m - q \in 0 .. t
    BY <1>2, <1>3, <1>5, <1>6
<1>8. t = q * Grid + (m - q) * Grid
    BY <1>0, <1>2, <1>3
<1> QED  BY <1>4, <1>7, <1>8

\* What a slot has passed that is available.
LEMMA WhenAvailable ==
    ASSUME NEW e, NEW d, NEW t, NEW b, Reason(e, d, t, b) = "AVAILABLE"
    PROVE  /\ t % Grid = 0
           /\ \E h \in BranchHours : Holds(h, Whole(d, t))
           /\ CanAllocate({r \in Of(e, b) : \E p \in Phases(d, t) : Overlaps(r, p)},
                          Take(Phases(d, t), e, Asking, 1), Capacity[e])
           /\ \A k \in Type : Resources[k] # <<>> => Find(k, Whole(d, t), b) # 0
    BY DEF Reason

\* What an item of a request is.
LEMMA ItemFieldsOf ==
    ASSUME NEW request \in Requests, NEW x \in Items(request)
    PROVE  /\ Len(request.items) \in Nat
           /\ x[1] \in 1 .. Len(request.items) /\ x = <<x[1], request.items[x[1]]>>
           /\ x[2] = request.items[x[1]]
           /\ x[2].employee \in Employee /\ x[2].start \in Int /\ x[2].duration \in Durations
<1>1. request.items \in Seq([employee : Employee, start : Int, duration : Durations])
    BY RequestsAssumption
<1>2. Len(request.items) \in Nat
    BY <1>1
<1>3. PICK i \in 1 .. Len(request.items) : x = <<i, request.items[i]>>
    BY DEF Items
<1>4. request.items[i] \in [employee : Employee, start : Int, duration : Durations]
    BY <1>1, <1>3, ElementOfSeq
<1> QED  BY <1>2, <1>3, <1>4

\* The parts of a duration, which are not all zero.
LEMMA DurationFields ==
    ASSUME NEW d \in Durations
    PROVE  /\ d.application \in Nat /\ d.processing \in Nat /\ d.finishing \in Nat /\ d.buffer \in Nat
           /\ Length(d) \in Nat /\ Length(d) > 0
    BY DEF Durations, Length

\* A start on the grid whose service ends in the opening hours is enumerated.
LEMMA StartsThere ==
    ASSUME day \in Days, NEW d \in Durations, NEW t \in Instant, t % Grid = 0,
           NEW h \in BranchHours, Holds(h, Whole(d, t))
    PROVE  t \in Starts(BranchHours, Length(d))
<1>0. /\ t \in Nat /\ t < Midnight /\ Midnight \in Nat
    BY DayAssumption DEF Instant
<1>1. Length(d) \in Nat /\ Length(d) > 0
    BY DurationFields
<1>2. h \in Times /\ BranchHours \in SUBSET Times
    BY HoursAreTimes
<1>3. h.start <= t /\ t + Length(d) <= h.end
    BY DEF Holds, Whole, Span
<1>4. h \in Real(BranchHours)
    BY <1>0, <1>1, <1>2, <1>3, TimeFields DEF Real
<1>5. PICK w \in Merge(BranchHours) : Holds(w, h) /\ w \in Ranges
    BY <1>2, <1>4, MergeIsRight DEF Merged
<1>6. w.start \in Nat /\ w.start <= t /\ t + Length(d) <= w.end
    BY <1>0, <1>1, <1>2, <1>3, <1>5, TimeFields, RangesAre DEF RangeFacts, Holds
<1>7. PICK k \in 0 .. t : t = AlignUp(w.start) + k * Grid
    BY <1>0, <1>6, Aligned
<1>8. k \in 0 .. Midnight
    BY <1>0, <1>7
<1>9. t \in {u \in Instant : \E j \in 0 .. Midnight :
                u = AlignUp(w.start) + j * Grid /\ u + Length(d) <= w.end}
    BY <1>6, <1>7, <1>8
<1> QED  BY <1>5, <1>9 DEF Starts

\* Whatever day it is, and whatever is booked, the list of free slots has every start a
\* booking would accept, and no other (ListingIsComplete): a start that passes every
\* check is on the grid and ends in the opening hours, so it is enumerated.
THEOREM ListingHolds == Spec => []ListingIsComplete
<1>1. ASSUME day \in Days PROVE ListingIsComplete
  <2> SUFFICES ASSUME NEW d \in {x[2].duration : x \in UNION {Items(request) : request \in Requests}},
                      NEW e \in Candidates(Employee)
               PROVE  Listed(e, d) = {t \in Instant : Reason(e, d, t, 0) = "AVAILABLE"}
    BY DEF ListingIsComplete
  <2>1. d \in Durations
    <3>1. PICK request \in Requests : \E x \in Items(request) : d = x[2].duration
        OBVIOUS
    <3> QED  BY <3>1, ItemFieldsOf
  <2>2. \A t \in Starts(BranchHours, Length(d)) : t \in Instant
    BY DEF Starts
  <2>3. ASSUME NEW t \in Instant, Reason(e, d, t, 0) = "AVAILABLE"
        PROVE  t \in Starts(BranchHours, Length(d))
    <3>1. t % Grid = 0 /\ \E h \in BranchHours : Holds(h, Whole(d, t))
        BY <2>3, WhenAvailable
    <3> QED  BY <1>1, <2>1, <3>1, StartsThere
  <2> QED  BY <2>2, <2>3 DEF Listed
<1> QED  BY <1>1, DayStays, PTL

-----------------------------------------------------------------------------
(* Units *)

\* The element a sum takes next, and the function a sum of units defines.
Some(R) == CHOOSE r \in R : TRUE

Sums(S) ==
    CHOOSE iter : iter = [s \in SUBSET S |->
        IF s = {} THEN 0 ELSE Some(s).units + iter[s \ {Some(s)}]]

\* Units is the value of that function.
LEMMA UnitsFold == ASSUME NEW R PROVE Units(R) = Sums(R)[R]
    BY Zenon DEF Units, MapThenSumSet, MapThenFoldSet, Sums, Some

\* Finite sets of things that have units.
Sized(S) == IsFiniteSet(S) /\ \A r \in S : r.units \in Nat

\* A part of such a set is one.
LEMMA SizedParts ==
    ASSUME NEW S, Sized(S), NEW s \in SUBSET S
    PROVE  Sized(s)
    BY FS_Subset DEF Sized

\* A sum takes one after the other.
LEMMA SumSteps ==
    ASSUME NEW S, Sized(S)
    PROVE  /\ Sums(S) \in [SUBSET S -> Nat]
           /\ \A s \in SUBSET S :
                Sums(S)[s] = IF s = {} THEN 0 ELSE Some(s).units + Sums(S)[s \ {Some(s)}]
<1>0. IsFiniteSet(S) /\ \A r \in S : r.units \in Nat
    BY DEF Sized
<1> DEFINE chosen == [s \in SUBSET S |-> Some(s)]
           G == [y \in (SUBSET S) \X Nat |-> IF y[1] = {} THEN 0 ELSE Some(y[1]).units + y[2]]
<1>1. \A s \in SUBSET S : s # {} => Some(s) \in s
    BY DEF Some
<1>2. \A s \in SUBSET S : chosen[s] = Some(s)
    OBVIOUS
<1>3. ASSUME NEW s \in SUBSET S, NEW v \in Nat, s # {} PROVE Some(s).units + v \in Nat
    BY <1>0, <1>1, <1>3
<1>4. G \in [(SUBSET S) \X Nat -> Nat]
    BY <1>3
<1>5. \A s \in SUBSET S : \A v \in Nat : s # {} => G[<<s, v>>] = Some(s).units + v
    OBVIOUS
<1> HIDE DEF chosen, G
<1>6. \A s \in SUBSET S : s # {} => chosen[s] \in s
    BY <1>1, <1>2
<1>7. FoldsOver(S, Nat, chosen, 0, G) # {}
    BY <1>0, <1>4, <1>6, Folding
<1>8. PICK f \in [SUBSET S -> Nat] :
          \A s \in SUBSET S : f[s] = IF s = {} THEN 0 ELSE G[<<s, f[s \ {chosen[s]}]>>]
    BY <1>7 DEF FoldsOver
<1>9. \A s \in SUBSET S : f[s] = IF s = {} THEN 0 ELSE Some(s).units + f[s \ {Some(s)}]
  <2> TAKE s \in SUBSET S
  <2>1. CASE s = {}
    BY <1>8, <2>1
  <2>2. CASE s # {}
    <3>1. chosen[s] = Some(s) /\ s \ {Some(s)} \in SUBSET S
        BY <1>2
    <3>2. f[s \ {Some(s)}] \in Nat
        BY <3>1
    <3>3. f[s] = G[<<s, f[s \ {Some(s)}]>>]
        BY <1>8, <2>2, <3>1
    <3> QED  BY <3>2, <3>3, <1>5, <2>2
  <2> QED  BY <2>1, <2>2
<1>10. f = [s \in SUBSET S |-> IF s = {} THEN 0 ELSE Some(s).units + f[s \ {Some(s)}]]
    BY <1>8, <1>9
<1>11. Sums(S) = [s \in SUBSET S |-> IF s = {} THEN 0 ELSE Some(s).units + Sums(S)[s \ {Some(s)}]]
    BY <1>10, Zenon DEF Sums
<1>12. \A s \in SUBSET S :
          Sums(S)[s] = IF s = {} THEN 0 ELSE Some(s).units + Sums(S)[s \ {Some(s)}]
    BY <1>11, Zenon
<1> DEFINE P == {s \in SUBSET S : Sums(S)[s] \in Nat}
<1>13. {} \in P
    BY <1>12
<1>14. \A s \in SUBSET S : s # {} /\ s \ {chosen[s]} \in P => s \in P
    BY <1>0, <1>1, <1>2, <1>12
<1> HIDE DEF P
<1>15. \A s \in SUBSET S : s \in P
    BY <1>0, <1>6, <1>13, <1>14, Choosing
<1>16. Sums(S) \in [SUBSET S -> Nat]
    BY <1>11, <1>15 DEF P
<1> QED  BY <1>12, <1>16

\* A part is summed the same way within any set.
LEMMA SumsAgree ==
    ASSUME NEW S, Sized(S), NEW T \in SUBSET S
    PROVE  Sums(S)[T] = Units(T)
<1>0. Sized(T) /\ IsFiniteSet(T)
    BY SizedParts DEF Sized
<1> DEFINE chosen == [s \in SUBSET T |-> Some(s)]
           P == {s \in SUBSET T : Sums(S)[s] = Sums(T)[s]}
<1>1. \A s \in SUBSET T : chosen[s] = Some(s) /\ (s # {} => chosen[s] \in s)
    BY DEF Some
<1>2. \A s \in SUBSET T :
          /\ Sums(S)[s] = IF s = {} THEN 0 ELSE Some(s).units + Sums(S)[s \ {Some(s)}]
          /\ Sums(T)[s] = IF s = {} THEN 0 ELSE Some(s).units + Sums(T)[s \ {Some(s)}]
    BY <1>0, SumSteps
<1>3. {} \in P
    BY <1>2
<1>4. \A s \in SUBSET T : s # {} /\ s \ {chosen[s]} \in P => s \in P
    BY <1>1, <1>2
<1> HIDE DEF chosen, P
<1>5. T \in P
    BY <1>0, <1>1, <1>3, <1>4, Choosing
<1> QED  BY <1>5, UnitsFold DEF P

\* A sum of units is a natural number, that of nothing is 0.
LEMMA UnitsType ==
    ASSUME NEW S, Sized(S)
    PROVE  Units(S) \in Nat /\ Units({}) = 0
<1>1. Units(S) \in Nat
    BY SumSteps, UnitsFold
<1>2. Sized({})
    BY SizedParts
<1>3. Units({}) = 0
    BY <1>2, SumSteps, UnitsFold
<1> QED  BY <1>1, <1>3

\* Taking out the chosen one takes away its units.
LEMMA UnitsOfSome ==
    ASSUME NEW S, Sized(S), S # {}
    PROVE  Some(S) \in S /\ Units(S) = Some(S).units + Units(S \ {Some(S)})
<1>1. Units(S) = Some(S).units + Sums(S)[S \ {Some(S)}]
    BY SumSteps, UnitsFold
<1> QED  BY <1>1, SumsAgree DEF Some

\* Taking out one takes away its units.
LEMMA UnitsWithout ==
    ASSUME NEW S, Sized(S)
    PROVE  \A x \in S : Units(S) = x.units + Units(S \ {x})
<1> DEFINE N == Cardinality(S)
           Fine(R) == \A x \in R : Units(R) = x.units + Units(R \ {x})
           T == {n \in 0 .. N : \A R \in SUBSET S : Cardinality(R) = n => Fine(R)}
<1>0. /\ N \in Nat /\ \A r \in S : r.units \in Nat
      /\ \A R \in SUBSET S : IsFiniteSet(R) /\ Sized(R) /\ Units(R) \in Nat
    BY FS_CardinalityType, FS_Subset, SizedParts, UnitsType DEF Sized
<1>1. 0 \in T
  <2>1. \A R \in SUBSET S : Cardinality(R) = 0 => R = {}
    BY <1>0, FS_EmptySet
  <2> QED  BY <1>0, <2>1
<1>2. \A n \in 0 .. N - 1 : n \in T => n + 1 \in T
  <2> TAKE n \in 0 .. N - 1
  <2> HAVE n \in T
  <2>1. ASSUME NEW R \in SUBSET S, Cardinality(R) = n + 1, NEW x \in R
        PROVE  Units(R) = x.units + Units(R \ {x})
    <3> DEFINE c == Some(R)
    <3>1. c \in R /\ Units(R) = c.units + Units(R \ {c})
        BY <1>0, UnitsOfSome
    <3>2. CASE x = c
        BY <3>1, <3>2
    <3>3. CASE x # c
      <4>1. Cardinality(R \ {c}) = n /\ Cardinality(R \ {x}) = n
        <5>1. IsFiniteSet(R) /\ (n + 1) - 1 = n
            BY <1>0
        <5>2. Cardinality(R \ {c}) = Cardinality(R) - 1
            BY <5>1, <3>1, FS_RemoveElement
        <5>3. Cardinality(R \ {x}) = Cardinality(R) - 1
            BY <5>1, <2>1, FS_RemoveElement
        <5> QED  BY <5>1, <5>2, <5>3, <2>1
      <4>2. R \ {c} \in SUBSET S /\ R \ {x} \in SUBSET S /\ x \in R \ {c} /\ c \in R \ {x}
        BY <3>1, <3>3
      <4>3. Units(R \ {c}) = x.units + Units((R \ {c}) \ {x})
        BY <4>1, <4>2
      <4>4. Units(R \ {x}) = c.units + Units((R \ {x}) \ {c})
        BY <4>1, <4>2
      <4>5. (R \ {c}) \ {x} = (R \ {x}) \ {c} /\ (R \ {c}) \ {x} \in SUBSET S
        OBVIOUS
      <4>51. Units((R \ {c}) \ {x}) = Units((R \ {x}) \ {c}) /\ Units((R \ {c}) \ {x}) \in Nat
        BY <4>5, <1>0
      <4>6. c.units \in Nat /\ x.units \in Nat
        BY <1>0, <3>1
      <4> HIDE DEF c
      <4> QED  BY <3>1, <4>3, <4>4, <4>51, <4>6
    <3> QED  BY <3>2, <3>3
  <2>2. n + 1 \in 0 .. N
    BY <1>0
  <2> QED  BY <2>1, <2>2
<1> HIDE DEF T
<1>3. N \in T
  <2>1. N \in 0 .. N
    BY <1>0
  <2> HIDE DEF N
  <2> QED  BY <1>0, <1>1, <1>2, <2>1, Upwards
<1> QED  BY <1>3 DEF T

\* The units of two sets that share nothing add up.
LEMMA UnitsOfBoth ==
    ASSUME NEW S, Sized(S), NEW A \in SUBSET S, NEW B \in SUBSET S, A \cap B = {}
    PROVE  Units(A \cup B) = Units(A) + Units(B)
<1> DEFINE chosen == [b \in SUBSET B |-> Some(b)]
           P == {b \in SUBSET B : Units(A \cup b) = Units(A) + Units(b)}
<1>0. IsFiniteSet(B) /\ \A R \in SUBSET S : Sized(R) /\ Units(R) \in Nat
    BY SizedParts, UnitsType DEF Sized
<1>1. \A b \in SUBSET B : chosen[b] = Some(b) /\ (b # {} => chosen[b] \in b)
    BY DEF Some
<1>2. {} \in P
  <2>1. A \cup {} = A
    OBVIOUS
  <2> QED  BY <2>1, <1>0, UnitsType
<1>3. ASSUME NEW b \in SUBSET B, b # {}, b \ {chosen[b]} \in P PROVE b \in P
  <2> DEFINE c == Some(b)
  <2>1. c \in b /\ c \in A \cup b /\ c \notin A /\ c \in S /\ c.units \in Nat
    BY <1>1, <1>3 DEF Sized
  <2>2. (A \cup b) \ {c} = A \cup (b \ {c})
    BY <2>1
  <2>3. Units(A \cup b) = c.units + Units(A \cup (b \ {c}))
    BY <2>1, <2>2, <1>0, UnitsWithout
  <2>4. Units(b) = c.units + Units(b \ {c})
    BY <2>1, <1>0, UnitsWithout
  <2>5. Units(A \cup (b \ {c})) = Units(A) + Units(b \ {c})
    BY <1>1, <1>3
  <2>6. Units(A) \in Nat /\ Units(b \ {c}) \in Nat
    BY <1>0
  <2> QED  BY <2>1, <2>3, <2>4, <2>5, <2>6
<1> HIDE DEF chosen, P
<1>4. B \in P
    BY <1>0, <1>1, <1>2, <1>3, Choosing
<1> QED  BY <1>4 DEF P

\* A part has no more units than the whole.
LEMMA UnitsOfPart ==
    ASSUME NEW S, Sized(S), NEW T \in SUBSET S
    PROVE  Units(T) <= Units(S) /\ Units(S \ T) = Units(S) - Units(T)
<1>1. T \cup (S \ T) = S /\ T \cap (S \ T) = {} /\ S \ T \in SUBSET S
    OBVIOUS
<1>2. Units(S) = Units(T) + Units(S \ T)
    BY <1>1, UnitsOfBoth
<1>3. Units(T) \in Nat /\ Units(S \ T) \in Nat
    BY <1>1, SizedParts, UnitsType
<1> QED  BY <1>2, <1>3

\* One has no more units than all.
LEMMA UnitsOfOne ==
    ASSUME NEW S, Sized(S), NEW x \in S
    PROVE  x.units <= Units(S) /\ Units({x}) = x.units
<1>1. Units(S) = x.units + Units(S \ {x}) /\ Units({x}) = x.units + Units({x} \ {x})
    BY SizedParts, UnitsWithout
<1>2. {x} \ {x} = {} /\ S \ {x} \in SUBSET S /\ x.units \in Nat
    BY DEF Sized
<1>3. Units(S \ {x}) \in Nat /\ Units({x} \ {x}) = 0
    BY <1>2, SizedParts, UnitsType
<1> QED  BY <1>1, <1>2, <1>3

-----------------------------------------------------------------------------
(* Sweeping over what is reserved *)

\* When something of R begins or ends.
Events(R) == {r.start : r \in R} \cup {r.end : r \in R}

\* One step of CanAllocate, where it begins, and the function its fold defines.
Counted(existing, requested, capacity, t, acc) ==
    LET old == acc.old + Delta(existing, t)
        new == acc.new + Delta(requested, t)
    IN  [old |-> old, new |-> new,
         ok  |-> acc.ok /\ (new > 0 => old + new <= capacity)]

Nothing == [old |-> 0, new |-> 0, ok |-> TRUE]

Sweeps(existing, requested, capacity, T) ==
    CHOOSE iter : iter = [s \in SUBSET T |->
        IF s = {} THEN Nothing
        ELSE Counted(existing, requested, capacity, Max(s), iter[s \ {Max(s)}])]

\* CanAllocate is the verdict of that function.
LEMMA AllocateFolds ==
    ASSUME NEW existing, NEW requested, NEW capacity
    PROVE  CanAllocate(existing, requested, capacity) =
             Sweeps(existing, requested, capacity, Events(existing \cup requested))
               [Events(existing \cup requested)].ok
    BY Zenon DEF CanAllocate, MapThenFoldSet, Sweeps, Counted, Nothing, Events

\* What takes up room for a while.
Blocks(R) ==
    /\ Sized(R)
    /\ \A r \in R : r.start \in Int /\ r.end \in Int /\ r.start < r.end

\* What takes up room at t.
At(R, t) == {r \in R : r.start <= t /\ t < r.end}

\* A part of such a set is one,
LEMMA BlocksOf ==
    ASSUME NEW R, Blocks(R), NEW T \in SUBSET R
    PROVE  Blocks(T)
    BY SizedParts DEF Blocks

\* and so are two such sets together.
LEMMA BlocksOfBoth ==
    ASSUME NEW R, Blocks(R), NEW T, Blocks(T)
    PROVE  Blocks(R \cup T)
    BY FS_Union DEF Blocks, Sized

\* Finitely many events.
LEMMA EventsAre ==
    ASSUME NEW R, Blocks(R)
    PROVE  IsFiniteSet(Events(R)) /\ Events(R) \in SUBSET Int
<1>0. IsFiniteSet(R) /\ \A r \in R : r.start \in Int /\ r.end \in Int
    BY DEF Blocks, Sized
<1> DEFINE A == {r.start : r \in R}
           B == {r.end : r \in R}
           f == [r \in R |-> r.start]
           g == [r \in R |-> r.end]
<1>1. f \in Surjection(R, A) /\ g \in Surjection(R, B)
    BY DEF Surjection
<1>2. IsFiniteSet(A) /\ IsFiniteSet(B)
    BY <1>0, <1>1, FS_Surjection
<1>3. A \in SUBSET Int /\ B \in SUBSET Int
    BY <1>0
<1>4. Events(R) = A \cup B
    BY DEF Events
<1> QED  BY <1>2, <1>3, <1>4, FS_Union

\* The greatest of some numbers.
Greatest(s) == {x \in s : \A y \in s : x >= y}

\* Max chooses the greatest of finitely many numbers.
LEMMA MaxIsGreatest ==
    ASSUME NEW S, IsFiniteSet(S), S \in SUBSET Int
    PROVE  \A s \in SUBSET S : s # {} => Max(s) \in s /\ \A y \in s : Max(s) >= y
<1> DEFINE chosen == [s \in SUBSET S |-> CHOOSE x \in s : TRUE]
           P == {s \in SUBSET S : s # {} => Greatest(s) # {}}
<1>1. \A s \in SUBSET S : s # {} => chosen[s] \in s
    OBVIOUS
<1>2. {} \in P
    OBVIOUS
<1>3. ASSUME NEW t \in SUBSET S, t # {}, t \ {chosen[t]} \in P PROVE t \in P
  <2> DEFINE x == chosen[t]
             u == t \ {x}
  <2>1. x \in t /\ x \in Int /\ t = u \cup {x} /\ u \in SUBSET Int
    BY <1>3, <1>1
  <2> HIDE DEF chosen
  <2>2. CASE u = {}
    <3>1. x \in Greatest(t)
        BY <2>1, <2>2 DEF Greatest
    <3> QED  BY <3>1
  <2>3. CASE u # {}
    <3>1. PICK r \in u : \A q \in u : r >= q
        BY <2>3, <1>3 DEF Greatest
    <3>2. r \in Int
        BY <2>1
    <3> HIDE DEF x, u
    <3>3. CASE x >= r
      <4>1. \A q \in u : x >= q
        BY <3>1, <3>2, <3>3, <2>1
      <4>2. x \in Greatest(t)
        BY <4>1, <2>1 DEF Greatest
      <4> QED  BY <4>2
    <3>4. CASE ~(x >= r)
      <4>1. r \in Greatest(t)
        BY <3>1, <3>2, <3>4, <2>1 DEF Greatest
      <4> QED  BY <4>1
    <3> QED  BY <3>3, <3>4
  <2> QED  BY <2>2, <2>3
<1> HIDE DEF chosen, P
<1>4. \A s \in SUBSET S : s \in P
  <2>1. IsFiniteSet(S)
    OBVIOUS
  <2>2. \A s \in SUBSET S : s # {} /\ s \ {chosen[s]} \in P => s \in P
    BY <1>3
  <2> QED  BY ONLY <1>1, <1>2, <2>1, <2>2, Choosing
<1>5. ASSUME NEW s \in SUBSET S, s # {} PROVE Max(s) \in s /\ \A y \in s : Max(s) >= y
  <2>1. \E x \in s : \A y \in s : x >= y
    BY <1>4, <1>5 DEF P, Greatest
  <2> QED  BY <2>1, Zenon DEF Max
<1> QED  BY <1>5

\* What begins less what ends at an instant.
LEMMA DeltaType ==
    ASSUME NEW R, Blocks(R), NEW t
    PROVE  Delta(R, t) \in Int
<1>1. Sized({r \in R : r.start = t}) /\ Sized({r \in R : r.end = t})
    BY SizedParts DEF Blocks
<1>2. Units({r \in R : r.start = t}) \in Nat /\ Units({r \in R : r.end = t}) \in Nat
    BY <1>1, UnitsType
<1> QED  BY <1>2 DEF Delta

\* What the function of a sweep is.
Steps(existing, requested, capacity, T, f) ==
    /\ f \in [SUBSET T -> [old : Int, new : Int, ok : BOOLEAN]]
    /\ \A s \in SUBSET T :
         f[s] = IF s = {} THEN Nothing
                ELSE Counted(existing, requested, capacity, Max(s), f[s \ {Max(s)}])

\* A sweep takes one event after the other.
LEMMA SweepSteps ==
    ASSUME NEW existing, Blocks(existing), NEW requested, Blocks(requested), NEW capacity \in Int,
           NEW T, IsFiniteSet(T), T \in SUBSET Int
    PROVE  Steps(existing, requested, capacity, T, Sweeps(existing, requested, capacity, T))
<1> DEFINE chosen == [s \in SUBSET T |-> Max(s)]
           V == [old : Int, new : Int, ok : BOOLEAN]
           Go(t, v) == Counted(existing, requested, capacity, t, v)
           G == [y \in (SUBSET T) \X V |-> IF y[1] = {} THEN Nothing ELSE Go(Max(y[1]), y[2])]
           F == Sweeps(existing, requested, capacity, T)
<1>1. \A s \in SUBSET T : chosen[s] = Max(s) /\ (s # {} => chosen[s] \in s)
    BY MaxIsGreatest
<1>2. Nothing \in V
    BY DEF Nothing
<1>3. ASSUME NEW t, NEW v \in V PROVE Go(t, v) \in V
  <2>1. Delta(existing, t) \in Int /\ Delta(requested, t) \in Int
    BY DeltaType
  <2>2. v.old \in Int /\ v.new \in Int /\ v.ok \in BOOLEAN
    OBVIOUS
  <2> DEFINE old == v.old + Delta(existing, t)
             new == v.new + Delta(requested, t)
             ok == v.ok /\ (new > 0 => old + new <= capacity)
  <2>3. old \in Int /\ new \in Int
    BY <2>1, <2>2
  <2>4. ok \in BOOLEAN
    BY Zenon
  <2>5. Go(t, v) = [old |-> old, new |-> new, ok |-> ok]
    BY DEF Counted
  <2> HIDE DEF old, new, ok
  <2> QED  BY <2>3, <2>4, <2>5
<1>4. G \in [(SUBSET T) \X V -> V]
    BY <1>2, <1>3
<1>5. \A s \in SUBSET T : \A v \in V : s # {} => G[<<s, v>>] = Go(Max(s), v)
    OBVIOUS
<1> HIDE DEF chosen, G, V, Go
<1>6. FoldsOver(T, V, chosen, Nothing, G) # {}
    BY <1>1, <1>2, <1>4, Folding
<1>7. PICK f \in [SUBSET T -> V] :
          \A s \in SUBSET T : f[s] = IF s = {} THEN Nothing ELSE G[<<s, f[s \ {chosen[s]}]>>]
    BY <1>6 DEF FoldsOver
<1>8. \A s \in SUBSET T : f[s] = IF s = {} THEN Nothing ELSE Go(Max(s), f[s \ {Max(s)}])
  <2> TAKE s \in SUBSET T
  <2>1. CASE s = {}
    BY <1>7, <2>1
  <2>2. CASE s # {}
    <3>1. chosen[s] = Max(s) /\ s \ {Max(s)} \in SUBSET T
        BY <1>1
    <3>2. f[s \ {Max(s)}] \in V
        BY <3>1
    <3>3. f[s] = G[<<s, f[s \ {Max(s)}]>>]
        BY <1>7, <2>2, <3>1
    <3> QED  BY <3>2, <3>3, <1>5, <2>2
  <2> QED  BY <2>1, <2>2
<1>9. f = [s \in SUBSET T |-> IF s = {} THEN Nothing ELSE Go(Max(s), f[s \ {Max(s)}])]
    BY <1>7, <1>8
<1>10. F = [s \in SUBSET T |-> IF s = {} THEN Nothing ELSE Go(Max(s), F[s \ {Max(s)}])]
    BY <1>9, Zenon DEF Sweeps, Go
<1> HIDE DEF F
<1>11. \A s \in SUBSET T : F[s] = IF s = {} THEN Nothing ELSE Go(Max(s), F[s \ {Max(s)}])
    BY <1>10, Zenon
<1> DEFINE P == {s \in SUBSET T : F[s] \in V}
<1>12. {} \in P
    BY <1>2, <1>11
<1>13. \A s \in SUBSET T : s # {} /\ s \ {chosen[s]} \in P => s \in P
  <2> TAKE s \in SUBSET T
  <2> HAVE s # {} /\ s \ {chosen[s]} \in P
  <2>1. F[s \ {Max(s)}] \in V
    BY <1>1
  <2>2. F[s] = Go(Max(s), F[s \ {Max(s)}])
    BY <1>11
  <2> QED  BY <2>1, <2>2, <1>3
<1> HIDE DEF P
<1>14. \A s \in SUBSET T : s \in P
  <2>1. IsFiniteSet(T)
    OBVIOUS
  <2>2. \A s \in SUBSET T : s # {} => chosen[s] \in s
    BY <1>1
  <2>3. {} \in P
    BY ONLY <1>12
  <2>4. \A s \in SUBSET T : s # {} /\ s \ {chosen[s]} \in P => s \in P
    BY ONLY <1>13
  <2>5. \A C, Q : (/\ \A s \in SUBSET T : s # {} => C[s] \in s
                  /\ {} \in Q
                  /\ \A s \in SUBSET T : s # {} /\ s \ {C[s]} \in Q => s \in Q)
                 => \A s \in SUBSET T : s \in Q
    BY ONLY <2>1, ChoosingAny, Zenon
  <2> QED  BY ONLY <2>2, <2>3, <2>4, <2>5, Zenon
<1>15. F \in [SUBSET T -> V]
    BY <1>10, <1>14 DEF P
<1> QED  BY <1>11, <1>15 DEF F, V, Go, Steps

\* What has begun at one of the times, without what has ended.
Net(R, s) == Units({r \in R : r.start \in s}) - Units({r \in R : r.end \in s})

\* The next event in order adds its delta.
LEMMA NetStep ==
    ASSUME NEW R, Blocks(R), NEW s, NEW m \in s
    PROVE  Net(R, s) = Net(R, s \ {m}) + Delta(R, m) /\ Net(R, s) \in Int
<1>0. Sized(R) /\ \A T \in SUBSET R : Units(T) \in Nat
    BY SizedParts, UnitsType DEF Blocks
<1> DEFINE A == {r \in R : r.start \in s}
           A1 == {r \in R : r.start \in s \ {m}}
           A2 == {r \in R : r.start = m}
           B == {r \in R : r.end \in s}
           B1 == {r \in R : r.end \in s \ {m}}
           B2 == {r \in R : r.end = m}
<1>1. A = A1 \cup A2 /\ A1 \cap A2 = {} /\ A1 \in SUBSET R /\ A2 \in SUBSET R /\ A \in SUBSET R
    OBVIOUS
<1>2. B = B1 \cup B2 /\ B1 \cap B2 = {} /\ B1 \in SUBSET R /\ B2 \in SUBSET R /\ B \in SUBSET R
    OBVIOUS
<1>3. Net(R, s) = Units(A) - Units(B) /\ Net(R, s \ {m}) = Units(A1) - Units(B1)
      /\ Delta(R, m) = Units(A2) - Units(B2)
    BY DEF Net, Delta
<1> HIDE DEF A, A1, A2, B, B1, B2
<1>4. Units(A) = Units(A1) + Units(A2)
    BY <1>0, <1>1, UnitsOfBoth
<1>5. Units(B) = Units(B1) + Units(B2)
    BY <1>0, <1>2, UnitsOfBoth
<1>6. /\ Units(A) \in Nat /\ Units(A1) \in Nat /\ Units(A2) \in Nat
      /\ Units(B) \in Nat /\ Units(B1) \in Nat /\ Units(B2) \in Nat
    BY <1>0, <1>1, <1>2
<1> QED  BY <1>3, <1>4, <1>5, <1>6

\* Before the first event nothing is counted.
LEMMA NetOfNothing == ASSUME NEW R, Blocks(R) PROVE Net(R, {}) = 0
<1>1. {r \in R : r.start \in {}} = {} /\ {r \in R : r.end \in {}} = {}
    OBVIOUS
<1>2. Units({}) = 0
    BY UnitsType DEF Blocks
<1>3. Net(R, {}) = Units({}) - Units({})
    BY <1>1 DEF Net
<1> QED  BY <1>2, <1>3

\* The events up to t.
UpTo(s, t) == {u \in s : u <= t}

\* Wherever something is requested up to the last of the events s, both fit.
Fits(existing, requested, capacity, s) ==
    Net(requested, s) > 0 => Net(existing, s) + Net(requested, s) <= capacity

\* A sweep has the counts at its last event, and its verdict on all before.
LEMMA SweepFits ==
    ASSUME NEW existing, Blocks(existing), NEW requested, Blocks(requested), NEW capacity \in Int,
           NEW T, IsFiniteSet(T), T \in SUBSET Int,
           Sweeps(existing, requested, capacity, T)[T].ok
    PROVE  \A t \in T : Fits(existing, requested, capacity, UpTo(T, t))
<1> DEFINE f == Sweeps(existing, requested, capacity, T)
           Fit(s) == Fits(existing, requested, capacity, s)
           P == {s \in SUBSET T : /\ f[s].old = Net(existing, s)
                                  /\ f[s].new = Net(requested, s)
                                  /\ f[s].ok => \A t \in s : Fit(UpTo(s, t))}
           chosen == [s \in SUBSET T |-> Max(s)]
<1>1. /\ f \in [SUBSET T -> [old : Int, new : Int, ok : BOOLEAN]]
      /\ \A s \in SUBSET T :
           f[s] = IF s = {} THEN Nothing
                  ELSE Counted(existing, requested, capacity, Max(s), f[s \ {Max(s)}])
  <2>1. Steps(existing, requested, capacity, T, f)
    BY SweepSteps
  <2> HIDE DEF f
  <2> QED  BY <2>1 DEF Steps
<1> HIDE DEF f
<1>2. \A s \in SUBSET T : s # {} => Max(s) \in s /\ \A y \in s : Max(s) >= y
    BY MaxIsGreatest
<1>3. {} \in P
  <2>1. f[{}] = Nothing
    BY <1>1
  <2>2. f[{}].old = 0 /\ f[{}].new = 0
    BY <2>1 DEF Nothing
  <2>3. Net(existing, {}) = 0 /\ Net(requested, {}) = 0
    BY NetOfNothing
  <2> QED  BY <2>2, <2>3
<1>4. ASSUME NEW s \in SUBSET T, s # {}, s \ {Max(s)} \in P PROVE s \in P
  <2> DEFINE m == Max(s)
             u == s \ {m}
             old == f[u].old + Delta(existing, m)
             new == f[u].new + Delta(requested, m)
  <2>1. m \in s /\ \A y \in s : m >= y
    BY <1>2, <1>4
  <2>2. f[s] = Counted(existing, requested, capacity, m, f[u])
    BY <1>1, <1>4
  <2>3. /\ f[u].old = Net(existing, u) /\ f[u].new = Net(requested, u)
        /\ f[u].ok => \A t \in u : Fit(UpTo(u, t))
    BY <1>4
  <2>4. old = Net(existing, s) /\ new = Net(requested, s)
    BY <2>1, <2>3, NetStep
  <2>5. f[s].old = old /\ f[s].new = new
    BY <2>2 DEF Counted
  <2>6. f[s].ok = (f[u].ok /\ (new > 0 => old + new <= capacity))
    BY <2>2 DEF Counted
  <2>7. Fit(s) <=> (new > 0 => old + new <= capacity)
    BY <2>4 DEF Fits
  <2> HIDE DEF old, new, m, u
  <2>8. ASSUME f[s].ok, NEW t \in s PROVE Fit(UpTo(s, t))
    <3>1. f[u].ok /\ Fit(s)
        BY <2>6, <2>7, <2>8, Zenon
    <3>2. CASE t = m
      <4>1. UpTo(s, t) = s
        BY <2>1, <3>2 DEF UpTo
      <4> QED  BY <3>1, <4>1
    <3>3. CASE t # m
      <4>1. t \in u /\ ~(m <= t)
        BY <2>1, <2>8, <3>3 DEF u
      <4>2. UpTo(s, t) = UpTo(u, t)
        BY <4>1 DEF UpTo, u
      <4> QED  BY <2>3, <3>1, <4>1, <4>2
    <3> QED  BY <3>2, <3>3
  <2>9. f[s].ok => \A t \in s : Fit(UpTo(s, t))
    BY <2>8
  <2> HIDE DEF Fit
  <2> QED  BY <2>4, <2>5, <2>9
<1>5. \A s \in SUBSET T : s # {} => chosen[s] \in s
    BY <1>2
<1>6. \A s \in SUBSET T : s # {} /\ s \ {chosen[s]} \in P => s \in P
    BY <1>4
<1>7. T \in P
  <2> HIDE DEF P, chosen
  <2>1. IsFiniteSet(T)
    OBVIOUS
  <2>5. \A C, Q : (/\ \A s \in SUBSET T : s # {} => C[s] \in s
                  /\ {} \in Q
                  /\ \A s \in SUBSET T : s # {} /\ s \ {C[s]} \in Q => s \in Q)
                 => \A s \in SUBSET T : s \in Q
    BY ONLY <2>1, ChoosingAny, Zenon
  <2>6. \A s \in SUBSET T : s \in P
    BY ONLY <1>3, <1>5, <1>6, <2>5, Zenon
  <2> QED  BY <2>6
<1> QED  BY <1>7 DEF f

\* What has begun and not ended by t is what takes up room at t.
LEMMA NetAt ==
    ASSUME NEW R, Blocks(R), NEW T, Events(R) \in SUBSET T, T \in SUBSET Int, NEW t \in Int
    PROVE  Net(R, UpTo(T, t)) = Units(At(R, t))
<1>0. Sized(R) /\ \A r \in R : r.start \in Int /\ r.end \in Int /\ r.start < r.end
                               /\ r.start \in T /\ r.end \in T
    BY DEF Blocks, Events
<1> DEFINE A == {r \in R : r.start \in UpTo(T, t)}
           B == {r \in R : r.end \in UpTo(T, t)}
<1>1. A \in SUBSET R /\ B \in SUBSET A /\ A \ B = At(R, t)
    BY <1>0 DEF UpTo, At
<1>2. Net(R, UpTo(T, t)) = Units(A) - Units(B)
    BY DEF Net
<1> HIDE DEF A, B
<1>3. Sized(A)
    BY <1>0, <1>1, SizedParts
<1>4. Units(A \ B) = Units(A) - Units(B)
    BY <1>1, <1>3, UnitsOfPart
<1> QED  BY <1>1, <1>2, <1>4

\* canAllocateCapacity: if it says yes, then at every instant at which something is
\* requested, what is requested and what exists take no more than the capacity, though
\* it looks only at the instants at which something begins or ends.
THEOREM AllocationFits ==
    ASSUME NEW existing, Blocks(existing), NEW requested, Blocks(requested), NEW capacity \in Int,
           CanAllocate(existing, requested, capacity),
           NEW t \in Int, Units(At(requested, t)) > 0
    PROVE  Units(At(existing, t)) + Units(At(requested, t)) <= capacity
<1> DEFINE T == Events(existing \cup requested)
<1>1. Blocks(existing \cup requested)
    BY BlocksOfBoth
<1>2. IsFiniteSet(T) /\ T \in SUBSET Int
    BY <1>1, EventsAre
<1>3. Sweeps(existing, requested, capacity, T)[T].ok
    BY AllocateFolds
<1>4. Events(existing) \in SUBSET T /\ Events(requested) \in SUBSET T
    BY DEF Events
<1> HIDE DEF T
<1>5. /\ Net(existing, UpTo(T, t)) = Units(At(existing, t))
      /\ Net(requested, UpTo(T, t)) = Units(At(requested, t))
    BY <1>2, <1>4, NetAt
<1>6. UpTo(T, t) # {}
  <2> SUFFICES ASSUME UpTo(T, t) = {} PROVE FALSE
    OBVIOUS
  <2>1. Net(requested, UpTo(T, t)) = 0
    BY NetOfNothing
  <2> QED  BY <2>1, <1>5
<1> DEFINE m == Max(UpTo(T, t))
<1>7. m \in UpTo(T, t) /\ \A y \in UpTo(T, t) : m >= y
    BY <1>2, <1>6, MaxIsGreatest DEF UpTo
<1>8. UpTo(T, m) = UpTo(T, t) /\ m \in T
  <2>1. m \in T /\ m \in Int /\ m <= t
    BY <1>7, <1>2 DEF UpTo
  <2>2. \A y \in T : y \in Int /\ (y <= t => m >= y)
    BY <1>7, <1>2 DEF UpTo
  <2> HIDE DEF m
  <2>3. \A y \in T : y <= m <=> y <= t
    BY <2>1, <2>2
  <2>4. UpTo(T, m) = UpTo(T, t)
    BY <2>3 DEF UpTo
  <2> QED  BY <2>1, <2>4
<1>9. Fits(existing, requested, capacity, UpTo(T, m))
    BY <1>2, <1>3, <1>8, SweepFits
<1> QED  BY <1>5, <1>8, <1>9 DEF Fits

-----------------------------------------------------------------------------
(* What a booking takes *)

\* Ranges with integer ends that are not empty, finitely many.
Proper(R) ==
    IsFiniteSet(R) /\ \A r \in R : r.start \in Int /\ r.end \in Int /\ r.start < r.end

\* A service begins at its start and takes its length.
LEMMA WholeIs ==
    ASSUME NEW d \in Durations, NEW t \in Int
    PROVE  /\ Whole(d, t).start = t /\ Whole(d, t).end = t + Length(d)
           /\ t < t + Length(d) /\ t + Length(d) \in Int
    BY DurationFields DEF Whole, Span

\* The phases of a service lie inside it and do not overlap.
LEMMA PhasesAre ==
    ASSUME NEW d \in Durations, NEW t \in Int
    PROVE  /\ Proper(Phases(d, t))
           /\ \A p \in Phases(d, t) : Holds(Whole(d, t), p)
           /\ \A p, q \in Phases(d, t) : p = q \/ ~Overlaps(p, q)
<1> DEFINE u == t + d.application
           v == t + d.application + d.processing
           w == v + d.finishing
           x == v + d.finishing + d.buffer
<1>0. /\ u \in Int /\ v \in Int /\ w \in Int /\ x \in Int
      /\ t <= u /\ u <= v /\ v <= w /\ w <= x /\ x = t + Length(d)
    BY DurationFields DEF Length
<1>1. Phases(d, t) \in SUBSET {r \in {Span(t, u), Span(u, v), Span(v, w), Span(w, x)} : r.start < r.end}
    BY DEF Phases
<1>2. /\ Span(t, u).start = t /\ Span(t, u).end = u
      /\ Span(u, v).start = u /\ Span(u, v).end = v
      /\ Span(v, w).start = v /\ Span(v, w).end = w
      /\ Span(w, x).start = w /\ Span(w, x).end = x
    BY DEF Span
<1> DEFINE four == {Span(t, u), Span(u, v), Span(v, w), Span(w, x)}
<1>3. IsFiniteSet(four)
  <2>1. four = (({Span(t, u)} \cup {Span(u, v)}) \cup {Span(v, w)}) \cup {Span(w, x)}
    OBVIOUS
  <2>2. IsFiniteSet({Span(t, u)} \cup {Span(u, v)})
    <3>1. IsFiniteSet({Span(t, u)})
        BY FS_Singleton
    <3> QED  BY <3>1, FS_AddElement
  <2>3. IsFiniteSet(({Span(t, u)} \cup {Span(u, v)}) \cup {Span(v, w)})
    BY <2>2, FS_AddElement
  <2>4. IsFiniteSet((({Span(t, u)} \cup {Span(u, v)}) \cup {Span(v, w)}) \cup {Span(w, x)})
    BY <2>3, FS_AddElement
  <2> QED  BY <2>1, <2>4
<1>4. Phases(d, t) \in SUBSET four
    BY <1>1
<1>5. IsFiniteSet(Phases(d, t))
    BY <1>3, <1>4, FS_Subset
<1> HIDE DEF u, v, w, x
<1>6. ASSUME NEW p \in Phases(d, t)
      PROVE  p.start \in Int /\ p.end \in Int /\ p.start < p.end /\ t <= p.start /\ p.end <= x
    BY <1>0, <1>1, <1>2
<1>7. \A p \in Phases(d, t) : Holds(Whole(d, t), p)
    BY <1>0, <1>6, WholeIs DEF Holds
<1>8. ASSUME NEW p \in Phases(d, t), NEW q \in Phases(d, t), p # q PROVE ~Overlaps(p, q)
  <2>1. p \in four /\ q \in four /\ p.start < p.end /\ q.start < q.end
    BY <1>1
  <2> QED  BY <1>0, <1>2, <1>8, <2>1 DEF Overlaps
<1> QED  BY <1>5, <1>6, <1>7, <1>8 DEF Proper

\* Reservations of ranges are these ranges.
LEMMA TakeIs ==
    ASSUME NEW R, Proper(R), NEW who, NEW item, NEW units \in Nat
    PROVE  /\ Blocks(Take(R, who, item, units))
           /\ \A r \in Take(R, who, item, units) :
                /\ r.who = who /\ r.item = item /\ r.units = units
                /\ \E p \in R : r.start = p.start /\ r.end = p.end
           /\ \A p \in R : \E r \in Take(R, who, item, units) : r.start = p.start /\ r.end = p.end
<1> DEFINE one(p) == [who |-> who, item |-> item, start |-> p.start, end |-> p.end, units |-> units]
           f == [p \in R |-> one(p)]
           T == Take(R, who, item, units)
<1>1. T = {one(p) : p \in R}
    BY DEF Take
<1>2. f \in Surjection(R, T)
    BY <1>1 DEF Surjection
<1>3. IsFiniteSet(T)
    BY <1>2, FS_Surjection DEF Proper
<1>4. \A p : /\ one(p).who = who /\ one(p).item = item /\ one(p).units = units
             /\ one(p).start = p.start /\ one(p).end = p.end
    OBVIOUS
<1> HIDE DEF one, T, f
<1>5. \A r \in T : /\ r.who = who /\ r.item = item /\ r.units = units
                   /\ \E p \in R : r.start = p.start /\ r.end = p.end
    BY <1>1, <1>4
<1>6. \A p \in R : \E r \in T : r.start = p.start /\ r.end = p.end
    BY <1>1, <1>4
<1>7. \A r \in T : r.start \in Int /\ r.end \in Int /\ r.start < r.end
    BY <1>5 DEF Proper
<1> QED  BY <1>3, <1>5, <1>6, <1>7 DEF Blocks, Sized, T

\* A service as one range.
LEMMA WholeIsProper ==
    ASSUME NEW d \in Durations, NEW t \in Int
    PROVE  Proper({Whole(d, t)})
<1>1. IsFiniteSet({Whole(d, t)})
    BY FS_Singleton
<1>2. /\ Whole(d, t).start \in Int /\ Whole(d, t).end \in Int
      /\ Whole(d, t).start < Whole(d, t).end
    BY WholeIs
<1> QED  BY <1>1, <1>2 DEF Proper

\* How many clients an employee serves or a room takes.
Limit(who) == IF who \in Employee THEN Capacity[who] ELSE Room[who]

\* A limit is 1 or more, that of an employee at most 5.
LEMMA LimitType ==
    /\ \A e \in Employee : Limit(e) = Capacity[e] /\ Limit(e) \in 1 .. 5
    /\ \A x \in AllResources : Limit(x) = Room[x] /\ Limit(x) \in Nat \ {0}
    BY DayAssumption, ResourcesAssumption DEF Limit

\* A resource that is found is one of the branch and has room.
LEMMA FoundIs ==
    ASSUME NEW k \in Type, NEW whole, NEW b, Find(k, whole, b) # 0
    PROVE  LET x == Resources[k][Find(k, whole, b)] IN
           /\ x \in AllResources
           /\ CanAllocate({r \in Of(x, b) : Overlaps(r, whole)},
                          Take({whole}, x, Asking, 1), Room[x])
<1> DEFINE Test(x) == CanAllocate({r \in Of(x, b) : Overlaps(r, whole)},
                                  Take({whole}, x, Asking, 1), Room[x])
           seq == Resources[k]
           I == {i \in 1 .. Len(seq) : Test(seq[i])}
<1>1. seq \in Seq(AllResources) /\ Len(seq) \in Nat
    BY ResourcesAssumption
<1>2. Find(k, whole, b) = IF I # {} THEN Min(I) ELSE 0
    BY Zenon DEF Find, SelectInSeq
<1> HIDE DEF Test
<1>3. I # {} /\ I \in SUBSET Nat
    BY <1>1, <1>2
<1>4. \E n \in I : \A m \in I : n <= m
    BY <1>3, Least
<1> HIDE DEF I
<1>5. Min(I) \in I
    BY <1>4, Zenon DEF Min
<1>6. Find(k, whole, b) \in I
    BY <1>2, <1>3, <1>5
<1>7. Find(k, whole, b) \in 1 .. Len(seq) /\ Test(seq[Find(k, whole, b)])
    BY <1>6 DEF I
<1>8. seq[Find(k, whole, b)] \in AllResources
    BY <1>1, <1>7, ElementOfSeq
<1> QED  BY <1>7, <1>8 DEF Test

\* What one item takes.
TakenFor(b, x, r) ==
    LET d == x[2].duration
        t == x[2].start
    IN  /\ r.item = <<b, x[1]>> /\ r.units = 1
        /\ Whole(d, t).start <= r.start /\ r.end <= Whole(d, t).end
        /\ r.who \in Employee \cup AllResources
        /\ r.who \in Employee =>
             /\ r.who = x[2].employee
             /\ \E p \in Phases(d, t) : r.start = p.start /\ r.end = p.end
        /\ r.who \notin Employee =>
             /\ r.start = Whole(d, t).start /\ r.end = Whole(d, t).end
             /\ \E k \in Type :
                  Resources[k] # <<>> /\ r.who = Resources[k][Find(k, Whole(d, t), b)]

LEMMA ItemTakesAre ==
    ASSUME NEW b, NEW request \in Requests, NEW x \in Items(request),
           \A k \in Type : Resources[k] # <<>> =>
               Find(k, Whole(x[2].duration, x[2].start), b) # 0
    PROVE  Blocks(ItemTakes(b, x)) /\ \A r \in ItemTakes(b, x) : TakenFor(b, x, r)
<1> DEFINE d == x[2].duration
           t == x[2].start
           e == x[2].employee
           whole == Whole(d, t)
           item == <<b, x[1]>>
           K == {k \in Type : Resources[k] # <<>>}
           of(k) == Resources[k][Find(k, whole, b)]
           A == Take(Phases(d, t), e, item, 1)
           B == UNION {Take({whole}, of(k), item, 1) : k \in K}
<1>0. d \in Durations /\ t \in Int /\ e \in Employee
    BY ItemFieldsOf
<1>1. ItemTakes(b, x) = A \cup B
    BY DEF ItemTakes
<1>2. \A k \in K : of(k) \in AllResources /\ of(k) \notin Employee
    BY FoundIs, ResourcesAssumption
<1>3. Proper(Phases(d, t)) /\ Proper({whole}) /\ \A p \in Phases(d, t) : Holds(whole, p)
    BY <1>0, PhasesAre, WholeIsProper
<1> HIDE DEF d, t, e, whole, item, of
<1>4. /\ Blocks(A)
      /\ \A r \in A : /\ r.who = e /\ r.item = item /\ r.units = 1
                      /\ \E p \in Phases(d, t) : r.start = p.start /\ r.end = p.end
  <2> DEFINE R == Phases(d, t)
  <2>1. Proper(R) /\ 1 \in Nat
    BY <1>3
  <2> HIDE DEF R
  <2>2. /\ Blocks(Take(R, e, item, 1))
        /\ \A r \in Take(R, e, item, 1) :
             /\ r.who = e /\ r.item = item /\ r.units = 1
             /\ \E p \in R : r.start = p.start /\ r.end = p.end
    BY ONLY <2>1, TakeIs
  <2> QED  BY <2>2 DEF R
<1>5. \A k \in K :
          /\ Blocks(Take({whole}, of(k), item, 1))
          /\ \A r \in Take({whole}, of(k), item, 1) :
               r.who = of(k) /\ r.item = item /\ r.units = 1
               /\ r.start = whole.start /\ r.end = whole.end
  <2> TAKE k \in K
  <2>1. /\ Blocks(Take({whole}, of(k), item, 1))
        /\ \A r \in Take({whole}, of(k), item, 1) :
             /\ r.who = of(k) /\ r.item = item /\ r.units = 1
             /\ \E p \in {whole} : r.start = p.start /\ r.end = p.end
    <3> DEFINE R == {whole}
               w == of(k)
    <3>1. Proper(R) /\ 1 \in Nat
        BY <1>3
    <3> HIDE DEF R, w
    <3>2. /\ Blocks(Take(R, w, item, 1))
          /\ \A r \in Take(R, w, item, 1) :
               /\ r.who = w /\ r.item = item /\ r.units = 1
               /\ \E p \in R : r.start = p.start /\ r.end = p.end
        BY ONLY <3>1, TakeIs
    <3> QED  BY <3>2 DEF R, w
  <2> QED  BY <2>1
<1>6. \A r \in B : /\ r.item = item /\ r.units = 1 /\ r.start = whole.start /\ r.end = whole.end
                   /\ \E k \in K : r.who = of(k)
    BY <1>5
<1>7. IsFiniteSet(B)
  <2> DEFINE S == {Take({whole}, of(k), item, 1) : k \in K}
             f == [k \in K |-> Take({whole}, of(k), item, 1)]
  <2>1. f \in Surjection(K, S)
    BY DEF Surjection
  <2>2. IsFiniteSet(K)
    BY ResourcesAssumption, FS_Subset
  <2>3. IsFiniteSet(S)
    BY <2>1, <2>2, FS_Surjection
  <2>4. \A s \in S : IsFiniteSet(s)
    BY <1>5 DEF Blocks, Sized
  <2> QED  BY <2>3, <2>4, FS_UNION
<1>8. whole.start \in Int /\ whole.end \in Int /\ whole.start < whole.end
    BY <1>3 DEF Proper
<1> HIDE DEF A, B
<1>9. Blocks(B)
    BY <1>6, <1>7, <1>8 DEF Blocks, Sized
<1>10. Blocks(A \cup B)
    BY <1>4, <1>9, BlocksOfBoth
<1>11. ASSUME NEW r \in A
       PROVE  /\ r.item = item /\ r.units = 1 /\ r.who \in Employee /\ r.who = e
              /\ whole.start <= r.start /\ r.end <= whole.end
              /\ \E p \in Phases(d, t) : r.start = p.start /\ r.end = p.end
    BY <1>0, <1>3, <1>4 DEF Holds
<1>12. ASSUME NEW r \in B
       PROVE  /\ r.item = item /\ r.units = 1 /\ r.who \in AllResources /\ r.who \notin Employee
              /\ whole.start <= r.start /\ r.end <= whole.end
              /\ r.start = whole.start /\ r.end = whole.end /\ \E k \in K : r.who = of(k)
    BY <1>2, <1>6, <1>8
<1>13. ASSUME NEW r \in A PROVE TakenFor(b, x, r)
    BY <1>11 DEF TakenFor, d, t, e, whole, item
<1>14. ASSUME NEW r \in B PROVE TakenFor(b, x, r)
    BY <1>12 DEF TakenFor, d, t, whole, item, of, K
<1> QED  BY <1>1, <1>10, <1>13, <1>14

\* The least of some numbers.
Lowest(s) == {x \in s : \A y \in s : x <= y}

\* Min chooses the least of finitely many numbers.
LEMMA MinIsLeast ==
    ASSUME NEW S, IsFiniteSet(S), S \in SUBSET Int
    PROVE  \A s \in SUBSET S : s # {} => Min(s) \in s /\ \A y \in s : Min(s) <= y
<1> DEFINE chosen == [s \in SUBSET S |-> CHOOSE x \in s : TRUE]
           P == {s \in SUBSET S : s # {} => Lowest(s) # {}}
<1>1. \A s \in SUBSET S : s # {} => chosen[s] \in s
    OBVIOUS
<1>2. {} \in P
    OBVIOUS
<1>3. ASSUME NEW t \in SUBSET S, t # {}, t \ {chosen[t]} \in P PROVE t \in P
  <2> DEFINE x == chosen[t]
             u == t \ {x}
  <2>1. x \in t /\ x \in Int /\ t = u \cup {x} /\ u \in SUBSET Int
    BY <1>3, <1>1
  <2> HIDE DEF chosen
  <2>2. CASE u = {}
    <3>1. x \in Lowest(t)
        BY <2>1, <2>2 DEF Lowest
    <3> QED  BY <3>1
  <2>3. CASE u # {}
    <3>1. PICK r \in u : \A q \in u : r <= q
        BY <2>3, <1>3 DEF Lowest
    <3>2. r \in Int
        BY <2>1
    <3> HIDE DEF x, u
    <3>3. CASE x <= r
      <4>1. \A q \in u : x <= q
        BY <3>1, <3>2, <3>3, <2>1
      <4>2. x \in Lowest(t)
        BY <4>1, <2>1 DEF Lowest
      <4> QED  BY <4>2
    <3>4. CASE ~(x <= r)
      <4>1. r \in Lowest(t)
        BY <3>1, <3>2, <3>4, <2>1 DEF Lowest
      <4> QED  BY <4>1
    <3> QED  BY <3>3, <3>4
  <2> QED  BY <2>2, <2>3
<1> HIDE DEF chosen, P
<1>4. \A s \in SUBSET S : s \in P
  <2>1. IsFiniteSet(S)
    OBVIOUS
  <2>2. \A s \in SUBSET S : s # {} /\ s \ {chosen[s]} \in P => s \in P
    BY <1>3
  <2> QED  BY ONLY <1>1, <1>2, <2>1, <2>2, Choosing
<1>5. ASSUME NEW s \in SUBSET S, s # {} PROVE Min(s) \in s /\ \A y \in s : Min(s) <= y
  <2>1. \E x \in s : \A y \in s : x <= y
    BY <1>4, <1>5 DEF P, Lowest
  <2> QED  BY <2>1, Zenon DEF Min
<1> QED  BY <1>5

\* A request has finitely many items, which its employees serve.
LEMMA ItemsAreFinite ==
    ASSUME NEW request \in Requests
    PROVE  IsFiniteSet(Items(request)) /\ IsFiniteSet(Serving(request))
           /\ Serving(request) \in SUBSET Employee
<1> DEFINE D == 1 .. Len(request.items)
           f == [i \in D |-> <<i, request.items[i]>>]
           g == [x \in Items(request) |-> x[2].employee]
<1>1. Len(request.items) \in Nat
    BY RequestsAssumption
<1>2. f \in Surjection(D, Items(request))
    BY DEF Surjection, Items
<1>3. IsFiniteSet(D)
    BY <1>1, FS_Interval
<1>4. IsFiniteSet(Items(request))
    BY <1>2, <1>3, FS_Surjection
<1>5. g \in Surjection(Items(request), Serving(request))
    BY DEF Surjection, Serving
<1>6. IsFiniteSet(Serving(request))
    BY <1>4, <1>5, FS_Surjection
<1>7. Serving(request) \in SUBSET Employee
    BY ItemFieldsOf DEF Serving
<1> QED  BY <1>4, <1>6, <1>7

\* Travel lies outside the items of its employee.
LEMMA TravelSpansAre ==
    ASSUME NEW request \in Requests, NEW e \in Serving(request)
    PROVE  /\ Proper(TravelSpans(request, e))
           /\ \A s \in TravelSpans(request, e) : \A x \in Items(request) :
                x[2].employee = e =>
                  \/ s.end <= Whole(x[2].duration, x[2].start).start
                  \/ Whole(x[2].duration, x[2].start).end <= s.start
           /\ \A s, q \in TravelSpans(request, e) : s = q \/ ~Overlaps(s, q)
<1> DEFINE X == {x \in Items(request) : x[2].employee = e}
           whole(x) == Whole(x[2].duration, x[2].start)
           W == {whole(x) : x \in X}
           A == {w.start : w \in W}
           B == {w.end : w \in W}
           first == Min(A)
           last == Max(B)
           one == Span(first - request.before, first)
           two == Span(last, last + request.after)
<1>1. TravelSpans(request, e) = {r \in {one, two} : r.start < r.end}
    BY DEF TravelSpans
<1>2. \A x \in X : whole(x).start \in Int /\ whole(x).end \in Int /\ whole(x).start < whole(x).end
    BY ItemFieldsOf, WholeIs
<1>3. X # {}
    BY DEF Serving
<1>4. IsFiniteSet(X)
    BY ItemsAreFinite, FS_Subset
<1>5. IsFiniteSet(W)
  <2> DEFINE f == [x \in X |-> whole(x)]
  <2>1. f \in Surjection(X, W)
    BY DEF Surjection
  <2> QED  BY <1>4, <2>1, FS_Surjection
<1>6. W # {} /\ \A w \in W : w.start \in Int /\ w.end \in Int /\ w.start < w.end
    BY <1>2, <1>3
<1>7. \A x \in X : whole(x) \in W
    OBVIOUS
<1> HIDE DEF W, whole, X
<1>8. IsFiniteSet(A) /\ IsFiniteSet(B)
  <2> DEFINE f == [w \in W |-> w.start]
             g == [w \in W |-> w.end]
  <2>1. f \in Surjection(W, A) /\ g \in Surjection(W, B)
    BY DEF Surjection
  <2> QED  BY <1>5, <2>1, FS_Surjection
<1>9. A # {} /\ B # {} /\ A \in SUBSET Int /\ B \in SUBSET Int
    BY <1>6
<1>10. first \in A /\ \A y \in A : first <= y
    BY <1>8, <1>9, MinIsLeast
<1>11. last \in B /\ \A y \in B : last >= y
    BY <1>8, <1>9, MaxIsGreatest
<1>12. \A w \in W : first <= w.start /\ w.end <= last
    BY <1>10, <1>11
<1>13. first \in Int /\ last \in Int
    BY <1>9, <1>10, <1>11
<1> HIDE DEF first, last, A, B
<1>14. first <= last
    BY <1>6, <1>12, <1>13
<1>15. request.before \in Nat /\ request.after \in Nat
    BY RequestsAssumption
<1>16. /\ one.start = first - request.before /\ one.end = first
       /\ two.start = last /\ two.end = last + request.after
    BY DEF Span
<1> HIDE DEF one, two
<1>17. IsFiniteSet({one, two})
  <2>1. IsFiniteSet({one}) /\ {one, two} = {one} \cup {two}
    BY FS_Singleton
  <2> QED  BY <2>1, FS_AddElement
<1>18. Proper(TravelSpans(request, e))
  <2>1. IsFiniteSet(TravelSpans(request, e))
    BY <1>1, <1>17, FS_Subset
  <2> QED  BY <2>1, <1>1, <1>13, <1>15, <1>16 DEF Proper
<1>19. ASSUME NEW s \in TravelSpans(request, e), NEW w \in W
       PROVE  s.end <= w.start \/ w.end <= s.start
    BY <1>1, <1>12, <1>16
<1>20. ASSUME NEW s \in TravelSpans(request, e), NEW q \in TravelSpans(request, e), s # q
       PROVE  ~Overlaps(s, q)
    BY <1>1, <1>13, <1>14, <1>15, <1>16, <1>20 DEF Overlaps
<1> QED  BY <1>7, <1>18, <1>19, <1>20 DEF X, whole

\* What others have reserved, at any instant.
LEMMA OthersAreBlocks ==
    ASSUME Blocks(taken), NEW who, NEW b, NEW R \in SUBSET Of(who, b)
    PROVE  Blocks(R) /\ \A t : Blocks(At(R, t)) /\ Units(At(R, t)) \in Nat
<1>1. R \in SUBSET taken
    BY DEF Of
<1>2. \A t : At(R, t) \in SUBSET taken
    BY <1>1 DEF At
<1>3. Blocks(R) /\ \A t : Blocks(At(R, t))
    BY <1>1, <1>2, BlocksOf
<1> QED  BY <1>3, UnitsType DEF Blocks

\* The check of an item alone: it fits beside what others have reserved.
LEMMA OwnCheck ==
    ASSUME Blocks(taken), NEW b, NEW request \in Requests, NEW x \in Items(request),
           Reason(x[2].employee, x[2].duration, x[2].start, b) = "AVAILABLE",
           NEW r \in ItemTakes(b, x), NEW t \in Int, r.start <= t, t < r.end
    PROVE  Units(At(Of(r.who, b), t)) + 1 <= Limit(r.who)
<1> DEFINE d == x[2].duration
           s == x[2].start
           who == r.who
<1>0. d \in Durations /\ s \in Int /\ x[2].employee \in Employee
    BY ItemFieldsOf
<1>1. /\ CanAllocate({y \in Of(x[2].employee, b) : \E p \in Phases(d, s) : Overlaps(y, p)},
                     Take(Phases(d, s), x[2].employee, Asking, 1), Capacity[x[2].employee])
      /\ \A k \in Type : Resources[k] # <<>> => Find(k, Whole(d, s), b) # 0
    BY WhenAvailable
<1>2. /\ r.who \in Employee \cup AllResources
      /\ r.who \in Employee =>
           /\ r.who = x[2].employee
           /\ \E p \in Phases(d, s) : r.start = p.start /\ r.end = p.end
      /\ r.who \notin Employee =>
           /\ r.start = Whole(d, s).start /\ r.end = Whole(d, s).end
           /\ \E k \in Type : Resources[k] # <<>> /\ r.who = Resources[k][Find(k, Whole(d, s), b)]
  <2>1. TakenFor(b, x, r)
    BY <1>1, ItemTakesAre
  <2> QED  BY <2>1 DEF TakenFor
<1>3. PICK R : /\ Proper(R)
               /\ \E p \in R : r.start = p.start /\ r.end = p.end
               /\ CanAllocate({y \in Of(who, b) : \E p \in R : Overlaps(y, p)},
                              Take(R, who, Asking, 1), Limit(who))
  <2>1. CASE r.who \in Employee
    <3>1. Proper(Phases(d, s)) /\ Limit(who) = Capacity[who]
        BY <1>0, <2>1, PhasesAre, LimitType
    <3> QED  BY <1>1, <1>2, <2>1, <3>1
  <2>2. CASE r.who \notin Employee
    <3> DEFINE whole == Whole(d, s)
    <3>1. PICK k \in Type : Resources[k] # <<>> /\ who = Resources[k][Find(k, whole, b)]
        BY <1>2, <2>2
    <3>2. Find(k, whole, b) # 0
        BY <1>1, <3>1
    <3>3. /\ who \in AllResources
          /\ CanAllocate({y \in Of(who, b) : Overlaps(y, whole)},
                         Take({whole}, who, Asking, 1), Room[who])
        BY <3>1, <3>2, FoundIs
    <3>4. Proper({whole}) /\ Limit(who) = Room[who]
        BY <1>0, <3>3, WholeIsProper, LimitType
    <3> HIDE DEF whole
    <3>5. {y \in Of(who, b) : Overlaps(y, whole)} =
          {y \in Of(who, b) : \E p \in {whole} : Overlaps(y, p)}
        OBVIOUS
    <3>6. \E p \in {whole} : r.start = p.start /\ r.end = p.end
        BY <1>2, <2>2 DEF whole
    <3> QED  BY <3>3, <3>4, <3>5, <3>6
  <2> QED  BY <2>1, <2>2
<1> DEFINE E == {y \in Of(who, b) : \E p \in R : Overlaps(y, p)}
           Q == Take(R, who, Asking, 1)
<1>4. /\ Blocks(Q) /\ \A y \in Q : y.units = 1
      /\ \A p \in R : \E y \in Q : y.start = p.start /\ y.end = p.end
    BY <1>3, TakeIs
<1>5. PICK y \in Q : y.start = r.start /\ y.end = r.end
    BY <1>3, <1>4
<1>6. Blocks(E) /\ \A y1 \in Of(who, b) : y1.start \in Int /\ y1.end \in Int
    BY OthersAreBlocks DEF Blocks
<1>7. At(E, t) = At(Of(who, b), t)
  <2>1. PICK p \in R : r.start = p.start /\ r.end = p.end
    BY <1>3
  <2>2. p.start \in Int /\ p.end \in Int
    BY <1>3 DEF Proper
  <2>3. \A z \in Of(who, b) : z.start <= t /\ t < z.end => Overlaps(z, p)
    BY <1>6, <2>1, <2>2 DEF Overlaps
  <2> QED  BY <2>3 DEF At
<1> HIDE DEF E, Q
<1>8. y \in At(Q, t) /\ Sized(At(Q, t)) /\ y.units = 1
    BY <1>4, <1>5, SizedParts DEF At, Blocks
<1>9. Units(At(Q, t)) >= 1 /\ Units(At(Q, t)) \in Nat
    BY <1>8, UnitsOfOne, UnitsType
<1>10. Limit(who) \in Int
    BY <1>2, LimitType
<1>11. Units(At(E, t)) + Units(At(Q, t)) <= Limit(who)
    BY <1>3, <1>4, <1>6, <1>9, <1>10, AllocationFits DEF E, Q
<1>12. Units(At(Of(who, b), t)) \in Nat
    BY OthersAreBlocks
<1> QED  BY <1>7, <1>9, <1>10, <1>11, <1>12

-----------------------------------------------------------------------------
(* Travel *)

\* The items of a free booking: each reservation is one of an item, lies inside
\* it, and fits beside what others have reserved.
LEMMA ItemsTaken ==
    ASSUME Blocks(taken), NEW b, NEW request \in Requests, SlotsFree(b, request)
    PROVE  /\ Blocks(Taken(b, request))
           /\ \A r \in Taken(b, request) :
                /\ r.item[1] = b /\ ~IsTravel(r) /\ r.units = 1
                /\ r.who \in Employee \cup AllResources
                /\ \A t \in Int : r.start <= t /\ t < r.end =>
                     Units(At(Of(r.who, b), t)) + 1 <= Limit(r.who)
                /\ r.who \in Employee =>
                     \E x \in Items(request) :
                       /\ x[2].employee = r.who
                       /\ Whole(x[2].duration, x[2].start).start <= r.start
                       /\ r.end <= Whole(x[2].duration, x[2].start).end
<1>1. \A x \in Items(request) :
          /\ Reason(x[2].employee, x[2].duration, x[2].start, b) = "AVAILABLE"
          /\ \A k \in Type : Resources[k] # <<>> =>
               Find(k, Whole(x[2].duration, x[2].start), b) # 0
    BY WhenAvailable DEF SlotsFree
<1>2. ASSUME NEW x \in Items(request)
      PROVE  /\ Blocks(ItemTakes(b, x))
             /\ \A r \in ItemTakes(b, x) :
                  /\ r.item = <<b, x[1]>> /\ r.units = 1
                  /\ Whole(x[2].duration, x[2].start).start <= r.start
                  /\ r.end <= Whole(x[2].duration, x[2].start).end
                  /\ r.who \in Employee \cup AllResources
                  /\ r.who \in Employee => r.who = x[2].employee
  <2>1. Blocks(ItemTakes(b, x)) /\ \A r \in ItemTakes(b, x) : TakenFor(b, x, r)
    BY <1>1, ItemTakesAre
  <2> QED  BY <2>1 DEF TakenFor
<1>3. \A x \in Items(request) : x[1] \in Nat /\ x[1] # 0
  <2> TAKE x \in Items(request)
  <2>1. Len(request.items) \in Nat /\ x[1] \in 1 .. Len(request.items)
    BY ItemFieldsOf
  <2> QED  BY <2>1
<1>4. IsFiniteSet(Taken(b, request))
  <2> DEFINE S == {ItemTakes(b, x) : x \in Items(request)}
             f == [x \in Items(request) |-> ItemTakes(b, x)]
  <2>1. f \in Surjection(Items(request), S)
    BY DEF Surjection
  <2>2. IsFiniteSet(Items(request))
    BY ItemsAreFinite
  <2>3. IsFiniteSet(S)
    BY <2>1, <2>2, FS_Surjection
  <2>4. \A s \in S : IsFiniteSet(s)
    BY <1>2 DEF Blocks, Sized
  <2> QED  BY <2>3, <2>4, FS_UNION DEF Taken
<1>5. \A r \in Taken(b, request) : \E x \in Items(request) : r \in ItemTakes(b, x)
    BY DEF Taken
<1>6. Blocks(Taken(b, request))
  <2>1. \A r \in Taken(b, request) :
          r.units \in Nat /\ r.start \in Int /\ r.end \in Int /\ r.start < r.end
    BY <1>2, <1>5 DEF Blocks, Sized
  <2> QED  BY <1>4, <2>1 DEF Blocks, Sized
<1>7. ASSUME NEW r \in Taken(b, request)
      PROVE  /\ r.item[1] = b /\ ~IsTravel(r) /\ r.units = 1
             /\ r.who \in Employee \cup AllResources
             /\ \A t \in Int : r.start <= t /\ t < r.end =>
                  Units(At(Of(r.who, b), t)) + 1 <= Limit(r.who)
             /\ r.who \in Employee =>
                  \E x \in Items(request) :
                    /\ x[2].employee = r.who
                    /\ Whole(x[2].duration, x[2].start).start <= r.start
                    /\ r.end <= Whole(x[2].duration, x[2].start).end
  <2>1. PICK x \in Items(request) : r \in ItemTakes(b, x)
    BY <1>5
  <2>2. r.item[1] = b /\ ~IsTravel(r)
    BY <1>2, <1>3, <2>1 DEF IsTravel
  <2>3. \A t \in Int : r.start <= t /\ t < r.end =>
          Units(At(Of(r.who, b), t)) + 1 <= Limit(r.who)
    BY <1>1, <2>1, OwnCheck
  <2> QED  BY <1>2, <2>1, <2>2, <2>3
<1> QED  BY <1>6, <1>7

\* Merging leaves ranges of the day.
LEMMA MergedRanges ==
    ASSUME NEW R \in SUBSET Times
    PROVE  Merge(R) \in SUBSET Ranges
    BY MergeKeepsPoints

\* The time for travel lies in the day.
LEMMA TravelTimeIs ==
    ASSUME day \in Days, NEW e \in Employee
    PROVE  TravelTime(e) \in SUBSET Times
<1>1. CASE day.hours = <<>> \/ day.hours[1].closed \/ day.schedule[e] = <<>>
  <2>1. TravelTime(e) = {}
    BY <1>1 DEF TravelTime
  <2> QED  BY <2>1
<1>2. CASE ~(day.hours = <<>> \/ day.hours[1].closed \/ day.schedule[e] = <<>>)
  <2>1. TravelTime(e) = Intersect(day.hours[1].intervals,
                          Subtract(day.schedule[e][1].shifts, day.schedule[e][1].breaks))
    BY <1>2 DEF TravelTime
  <2>2. day.hours \in Seq([closed : BOOLEAN, intervals : SUBSET Times])
    BY DaysAssumption
  <2>3. day.hours[1].intervals \in SUBSET Times
    BY <1>2, <2>2, OneOfThem
  <2>4. Subtract(day.schedule[e][1].shifts, day.schedule[e][1].breaks) \in SUBSET Ranges
    BY <1>2, ScheduleFields, SubtractIsRight
  <2>5. Ranges \in SUBSET Times
    BY DEF Ranges
  <2>6. Subtract(day.schedule[e][1].shifts, day.schedule[e][1].breaks) \in SUBSET Times
    BY <2>4, <2>5
  <2>7. TravelTime(e) \in SUBSET Ranges
    BY <2>1, <2>3, <2>6, IntersectIsRight
  <2> QED  BY <2>5, <2>7
<1> QED  BY <1>1, <1>2

\* The travel of a free booking: on the day, with nothing else, of that booking
\* or of another, at its times.
LEMMA TravelTaken ==
    ASSUME day \in Days, Blocks(taken), NEW b, NEW request \in Requests, Free(b, request)
    PROVE  /\ Blocks(TravelTakes(b, request, TravelUnits))
           /\ \A r \in TravelTakes(b, request, TravelUnits) :
                /\ r.item[1] = b /\ IsTravel(r) /\ r.units = TravelUnits
                /\ r.who \in Employee /\ r.start >= 0
                /\ \A x \in Of(r.who, b) : ~Overlaps(r, x)
                /\ \A x \in Taken(b, request) : x.who = r.who => ~Overlaps(r, x)
                /\ \A x \in TravelTakes(b, request, TravelUnits) :
                     x.who = r.who => x = r \/ ~Overlaps(r, x)
<1> DEFINE spans(e) == TravelSpans(request, e)
           takes(e) == Take(spans(e), e, <<b, 0>>, TravelUnits)
           V == TravelTakes(b, request, TravelUnits)
<1>1. V = UNION {takes(e) : e \in Serving(request)}
    BY DEF TravelTakes
<1>2. IsFiniteSet(Serving(request)) /\ Serving(request) \in SUBSET Employee
    BY ItemsAreFinite
<1>3. TravelUnits \in Nat
    BY DEF TravelUnits
<1>4. ASSUME NEW e \in Serving(request)
      PROVE  /\ Blocks(takes(e))
             /\ \A r \in takes(e) :
                  /\ r.who = e /\ r.item = <<b, 0>> /\ r.units = TravelUnits
                  /\ \E s \in spans(e) : r.start = s.start /\ r.end = s.end
    BY <1>3, TravelSpansAre, TakeIs
<1>5. ASSUME NEW e \in Serving(request), NEW r \in takes(e), NEW x \in takes(e)
      PROVE  x = r \/ ~Overlaps(r, x)
  <2> DEFINE one(s) == [who |-> e, item |-> <<b, 0>>, start |-> s.start, end |-> s.end,
                        units |-> TravelUnits]
  <2>1. PICK s \in spans(e) : r = one(s)
    BY DEF Take
  <2>2. PICK q \in spans(e) : x = one(q)
    BY DEF Take
  <2>3. s = q \/ ~Overlaps(s, q)
    BY TravelSpansAre
  <2>4. r.start = s.start /\ r.end = s.end /\ x.start = q.start /\ x.end = q.end
    BY <2>1, <2>2
  <2> QED  BY <2>1, <2>2, <2>3, <2>4 DEF Overlaps
<1>6. ASSUME NEW e \in Serving(request)
      PROVE  /\ \A s \in spans(e) : s.start >= 0 /\ s.start \in Int /\ s.end \in Int
             /\ \A s \in spans(e) : \A x \in Of(e, b) : ~Overlaps(x, s)
  <2>1. /\ \A s \in spans(e) : \A x \in Of(e, b) : ~Overlaps(x, s)
        /\ Covered(spans(e), TravelTime(e))
    BY DEF Free, TravelFree, TravelClear
  <2>2. Merge(TravelTime(e)) \in SUBSET Ranges
    BY <1>2, TravelTimeIs, MergedRanges
  <2>3. \A s \in spans(e) : s.start \in Int /\ s.end \in Int
    BY TravelSpansAre DEF Proper
  <2>4. \A s \in spans(e) : \E a \in Ranges : a.start <= s.start
    BY <2>1, <2>2 DEF Covered, Holds
  <2>5. \A a \in Ranges : a.start \in Int /\ 0 <= a.start
    BY RangesAre DEF RangeFacts
  <2> QED  BY <2>1, <2>3, <2>4, <2>5
<1> HIDE DEF takes, V
<1>7. \A r \in V : \E e \in Serving(request) : r \in takes(e)
    BY <1>1
<1>8. IsFiniteSet(V)
  <2> DEFINE S == {takes(e) : e \in Serving(request)}
             f == [e \in Serving(request) |-> takes(e)]
  <2>1. f \in Surjection(Serving(request), S)
    BY DEF Surjection
  <2>2. IsFiniteSet(S)
    BY <1>2, <2>1, FS_Surjection
  <2>3. \A s \in S : IsFiniteSet(s)
    BY <1>4 DEF Blocks, Sized
  <2> QED  BY <1>1, <2>2, <2>3, FS_UNION
<1>9. Blocks(V)
  <2>1. \A r \in V : r.units \in Nat /\ r.start \in Int /\ r.end \in Int /\ r.start < r.end
    BY <1>4, <1>7 DEF Blocks, Sized
  <2> QED  BY <1>8, <2>1 DEF Blocks, Sized
<1>10. SlotsFree(b, request)
    BY DEF Free
<1>11. ASSUME NEW r \in V
       PROVE  /\ r.item[1] = b /\ IsTravel(r) /\ r.units = TravelUnits
              /\ r.who \in Employee /\ r.start >= 0
              /\ \A x \in Of(r.who, b) : ~Overlaps(r, x)
              /\ \A x \in Taken(b, request) : x.who = r.who => ~Overlaps(r, x)
              /\ \A x \in V : x.who = r.who => x = r \/ ~Overlaps(r, x)
  <2>1. PICK e \in Serving(request) : r \in takes(e)
    BY <1>7
  <2>2. /\ r.who = e /\ r.item = <<b, 0>> /\ r.units = TravelUnits
        /\ \E s \in spans(e) : r.start = s.start /\ r.end = s.end
    BY <1>4, <2>1
  <2>3. PICK s \in spans(e) : r.start = s.start /\ r.end = s.end
    BY <2>2
  <2>4. r.item[1] = b /\ IsTravel(r)
    BY <2>2 DEF IsTravel
  <2>5. r.who \in Employee /\ r.start >= 0
    BY <1>2, <1>6, <2>2, <2>3
  <2>6. \A x \in Of(r.who, b) : ~Overlaps(r, x)
    BY <1>6, <2>2, <2>3 DEF Overlaps
  <2>7. ASSUME NEW x \in Taken(b, request), x.who = r.who PROVE ~Overlaps(r, x)
    <3>1. PICK y \in Items(request) :
            /\ y[2].employee = e
            /\ Whole(y[2].duration, y[2].start).start <= x.start
            /\ x.end <= Whole(y[2].duration, y[2].start).end
        BY <1>10, <2>2, <2>5, <2>7, ItemsTaken
    <3>2. \/ s.end <= Whole(y[2].duration, y[2].start).start
          \/ Whole(y[2].duration, y[2].start).end <= s.start
        BY <3>1, TravelSpansAre
    <3>3. /\ Whole(y[2].duration, y[2].start).start \in Int
          /\ Whole(y[2].duration, y[2].start).end \in Int
        BY ItemFieldsOf, WholeIs
    <3>4. x.start \in Int /\ x.end \in Int /\ s.start \in Int /\ s.end \in Int
        BY <1>6, <1>10, ItemsTaken DEF Blocks
    <3> QED  BY <2>3, <3>1, <3>2, <3>3, <3>4 DEF Overlaps
  <2>8. ASSUME NEW x \in V, x.who = r.who PROVE x = r \/ ~Overlaps(r, x)
    <3>1. PICK f \in Serving(request) : x \in takes(f)
        BY <1>7
    <3>2. x.who = f
        BY <1>4, <3>1
    <3> QED  BY <1>5, <2>1, <2>2, <2>8, <3>1, <3>2
  <2> QED  BY <2>2, <2>4, <2>5, <2>6, <2>7, <2>8
<1> QED  BY <1>9, <1>11 DEF V

\* A calendar in which travel is exclusive.
Calm(R) ==
    /\ Blocks(R)
    /\ \A r \in R :
         /\ r.item[1] # 0
         /\ ~IsTravel(r) => r.units = 1
         /\ IsTravel(r) =>
              /\ r.who \in Employee /\ r.units = TravelUnits /\ r.start >= 0
              /\ \A x \in R : x.who = r.who => x = r \/ ~Overlaps(r, x)

\* A part of such a calendar is one.
LEMMA CalmParts ==
    ASSUME NEW R, Calm(R), NEW S \in SUBSET R
    PROVE  Calm(S)
    BY BlocksOf DEF Calm

\* An instant that two ranges share.
LEMMA Shared ==
    ASSUME NEW a, NEW b, a.start \in Int, b.start \in Int, a.end \in Int, b.end \in Int,
           a.start < a.end, b.start < b.end, Overlaps(a, b)
    PROVE  \E t \in Int : a.start <= t /\ t < a.end /\ b.start <= t /\ t < b.end
<1>1. CASE a.start <= b.start
    BY <1>1 DEF Overlaps
<1>2. CASE b.start <= a.start
    BY <1>2 DEF Overlaps
<1> QED  BY <1>1, <1>2

\* What a booking takes on top of a calm calendar leaves it calm.
LEMMA GivenIsCalm ==
    ASSUME day \in Days, Calm(taken), NEW b, b # 0, NEW request \in Requests, Free(b, request)
    PROVE  Calm(Calendar(b, request, TravelUnits))
<1> DEFINE K == {r \in taken : r.item[1] # b}
           T == Taken(b, request)
           V == TravelTakes(b, request, TravelUnits)
           R == K \cup T \cup V
<1>1. Calendar(b, request, TravelUnits) = R
    BY DEF Calendar
<1>2. Blocks(taken) /\ SlotsFree(b, request)
    BY DEF Calm, Free
<1>3. Calm(K)
    BY CalmParts
<1>4. /\ Blocks(T)
      /\ \A r \in T :
           /\ r.item[1] = b /\ ~IsTravel(r) /\ r.units = 1
           /\ \A t \in Int : r.start <= t /\ t < r.end =>
                Units(At(Of(r.who, b), t)) + 1 <= Limit(r.who)
    BY <1>2, ItemsTaken
<1>5. /\ Blocks(V)
      /\ \A r \in V :
           /\ r.item[1] = b /\ IsTravel(r) /\ r.units = TravelUnits
           /\ r.who \in Employee /\ r.start >= 0
           /\ \A x \in Of(r.who, b) : ~Overlaps(r, x)
           /\ \A x \in T : x.who = r.who => ~Overlaps(r, x)
           /\ \A x \in V : x.who = r.who => x = r \/ ~Overlaps(r, x)
    BY <1>2, TravelTaken
<1>6. \A r \in K : r \in Of(r.who, b)
    BY DEF Of
<1> HIDE DEF T, V
<1>7. Blocks(R)
  <2>1. Blocks(K)
    BY <1>3 DEF Calm
  <2> HIDE DEF K
  <2>2. Blocks(K \cup T)
    BY <1>4, <2>1, BlocksOfBoth
  <2> QED  BY <1>5, <2>2, BlocksOfBoth
<1>8. ASSUME NEW r \in K, IsTravel(r), NEW x \in T, x.who = r.who PROVE ~Overlaps(r, x)
  <2> SUFFICES ASSUME Overlaps(r, x) PROVE FALSE
    OBVIOUS
  <2>1. /\ r.start \in Int /\ r.end \in Int /\ r.start < r.end
        /\ x.start \in Int /\ x.end \in Int /\ x.start < x.end
    BY <1>3, <1>4 DEF Calm, Blocks
  <2>2. PICK t \in Int : r.start <= t /\ t < r.end /\ x.start <= t /\ t < x.end
    BY <2>1, Shared
  <2>3. Units(At(Of(r.who, b), t)) + 1 <= Limit(r.who)
    BY <1>4, <1>8, <2>2
  <2>4. r \in At(Of(r.who, b), t)
    BY <1>6, <2>2 DEF At
  <2>5. Of(r.who, b) \in SUBSET Of(r.who, b)
    OBVIOUS
  <2>6. Blocks(At(Of(r.who, b), t)) /\ Units(At(Of(r.who, b), t)) \in Nat
    BY <1>2, <2>5, OthersAreBlocks
  <2>7. r.units <= Units(At(Of(r.who, b), t))
    BY <2>4, <2>6, UnitsOfOne DEF Blocks
  <2>8. r.units = 5 /\ r.who \in Employee
    BY <1>3, <1>8 DEF Calm, TravelUnits
  <2>9. Limit(r.who) \in 1 .. 5
    BY <2>8, LimitType
  <2> QED  BY <2>3, <2>6, <2>7, <2>8, <2>9
<1>9. \A r, x \in R : Overlaps(r, x) <=> Overlaps(x, r)
    BY <1>7 DEF Blocks, Overlaps
<1>10. ASSUME NEW r \in R, IsTravel(r), NEW x \in R, x.who = r.who PROVE x = r \/ ~Overlaps(r, x)
  <2>1. CASE r \in K /\ x \in K
    BY <1>3, <1>10, <2>1 DEF Calm
  <2>2. CASE r \in K /\ x \in T
    BY <1>8, <1>10, <2>2
  <2>3. CASE r \in K /\ x \in V
    <3>1. r \in Of(x.who, b)
        BY <1>6, <1>10, <2>3
    <3> QED  BY <1>5, <1>9, <2>3, <3>1
  <2>4. CASE r \in V /\ x \in K
    <3>1. x \in Of(r.who, b)
        BY <1>6, <1>10, <2>4
    <3> QED  BY <1>5, <2>4, <3>1
  <2>5. CASE r \in V /\ x \in T
    BY <1>5, <1>10, <2>5
  <2>6. CASE r \in V /\ x \in V
    BY <1>5, <1>10, <2>6
  <2>7. CASE r \in T
    BY <1>4, <1>10, <2>7
  <2> QED  BY <2>1, <2>2, <2>3, <2>4, <2>5, <2>6, <2>7
<1>11. ASSUME NEW r \in R
       PROVE  /\ r.item[1] # 0
              /\ ~IsTravel(r) => r.units = 1
              /\ IsTravel(r) => r.who \in Employee /\ r.units = TravelUnits /\ r.start >= 0
  <2>1. CASE r \in K
    BY <1>3, <2>1 DEF Calm
  <2>2. CASE r \in T
    BY <1>4, <2>2
  <2>3. CASE r \in V
    BY <1>5, <2>3
  <2> QED  BY <2>1, <2>2, <2>3
<1> HIDE DEF R
<1>12. Calm(R)
    BY <1>7, <1>10, <1>11 DEF Calm
<1> QED  BY <1>1, <1>12

\* Every calendar is one, the inductive invariant of TravelIsExclusive.
LEMMA CalmAlways == Spec => [](day \in Days /\ Calm(taken))
<1>1. Init => day \in Days /\ Calm(taken)
  <2>1. IsFiniteSet({})
    BY FS_EmptySet
  <2> QED  BY <2>1 DEF Init, Calm, Blocks, Sized
<1>2. ASSUME day \in Days, Calm(taken), [Next]_vars
      PROVE  day' \in Days /\ Calm(taken')
  <2>1. CASE UNCHANGED vars
    BY <1>2, <2>1 DEF vars
  <2>2. ASSUME NEW b \in 1 .. Bookings, NEW request \in Requests, Give(b, request, TravelUnits)
        PROVE  day' \in Days /\ Calm(taken')
    <3>1. b # 0
        BY DayAssumption
    <3>2. Calm(Calendar(b, request, TravelUnits))
        BY <1>2, <2>2, <3>1, GivenIsCalm DEF Give
    <3> QED  BY <1>2, <2>2, <3>2 DEF Give
  <2>3. ASSUME NEW b \in 1 .. Bookings, Cancel(b)
        PROVE  day' \in Days /\ Calm(taken')
    <3>1. Calm({r \in taken : r.item[1] # b})
        BY <1>2, CalmParts
    <3> QED  BY <1>2, <2>3, <3>1 DEF Cancel
  <2>4. CASE Next
    <3>1. PICK b \in 1 .. Bookings :
            \/ \E request \in Requests : Book(b, request) \/ Reschedule(b, request)
            \/ Cancel(b)
        BY <2>4 DEF Next
    <3>2. \/ \E request \in Requests : Give(b, request, TravelUnits)
          \/ Cancel(b)
        BY <3>1 DEF Book, Reschedule
    <3> QED  BY <2>2, <2>3, <3>2
  <2> QED  BY <1>2, <2>1, <2>4
<1>3. day \in Days /\ Calm(taken) /\ [Next]_vars => (day \in Days /\ Calm(taken))'
    BY <1>2
<1> QED  BY <1>1, <1>3, PTL DEF Spec

\* In such a calendar travel is exclusive.
LEMMA CalmIsExclusive == Calm(taken) => TravelIsExclusive
<1> SUFFICES ASSUME Calm(taken), NEW r \in taken, IsTravel(r)
             PROVE  r.start >= 0 /\ \A x \in Of(r.who, 0) \ {r} : ~Overlaps(r, x)
    BY DEF TravelIsExclusive
<1> QED  BY DEF Calm, Of

\* Whatever is asked for and in whatever order bookings come, move and go, nothing is
\* booked with an employee who travels, and travel is on the day (TravelIsExclusive).
THEOREM TravelHolds == Spec => []TravelIsExclusive
    BY CalmAlways, CalmIsExclusive, PTL

-----------------------------------------------------------------------------
(* Nobody is overbooked *)

\* What is booked with someone at an instant, without travel.
Working(R, who, t) == {r \in R : r.who = who /\ ~IsTravel(r) /\ r.start <= t /\ t < r.end}

\* Two services of one request that overlap do not share an employee or a room
\* that takes several clients.
Separate ==
    \A request \in Requests : \A x, y \in Items(request) :
        x # y /\ Overlaps(Whole(x[2].duration, x[2].start), Whole(y[2].duration, y[2].start)) =>
            /\ x[2].employee = y[2].employee => Capacity[x[2].employee] = 1
            /\ \A room \in AllResources : Room[room] = 1

\* One record is what its fields say.
LEMMA ItemShape ==
    ASSUME NEW b, NEW x, NEW r \in ItemTakes(b, x)
    PROVE  r = [who |-> r.who, item |-> r.item, start |-> r.start, end |-> r.end, units |-> r.units]
<1> DEFINE S(R, who, item, units) == Take(R, who, item, units)
<1>1. \A R, who, item, units : \A y \in S(R, who, item, units) :
          y = [who |-> y.who, item |-> y.item, start |-> y.start, end |-> y.end, units |-> y.units]
  <2> TAKE R, who, item, units
  <2> TAKE y \in S(R, who, item, units)
  <2>1. PICK p \in R : y = [who |-> who, item |-> item, start |-> p.start, end |-> p.end, units |-> units]
    BY DEF Take
  <2> QED  BY <2>1
<1>2. \/ r \in S(Phases(x[2].duration, x[2].start), x[2].employee, <<b, x[1]>>, 1)
      \/ \E k \in {k \in Type : Resources[k] # <<>>} :
           r \in S({Whole(x[2].duration, x[2].start)},
                   Resources[k][Find(k, Whole(x[2].duration, x[2].start), b)], <<b, x[1]>>, 1)
    BY DEF ItemTakes
<1> HIDE DEF S
<1> QED  BY <1>1, <1>2

\* An item takes nobody twice at a time.
LEMMA ItemOnce ==
    ASSUME NEW b, NEW request \in Requests, NEW x \in Items(request),
           \A k \in Type : Resources[k] # <<>> =>
               Find(k, Whole(x[2].duration, x[2].start), b) # 0,
           NEW r \in ItemTakes(b, x), NEW q \in ItemTakes(b, x), r.who = q.who,
           NEW t \in Int, r.start <= t, t < r.end, q.start <= t, t < q.end
    PROVE  r = q
<1> DEFINE d == x[2].duration
           s == x[2].start
<1>0. d \in Durations /\ s \in Int
    BY ItemFieldsOf
<1>1. \A y \in ItemTakes(b, x) :
        /\ y.item = <<b, x[1]>> /\ y.units = 1
        /\ y.who \in Employee =>
             \E p \in Phases(x[2].duration, x[2].start) : y.start = p.start /\ y.end = p.end
        /\ y.who \notin Employee =>
             /\ y.start = Whole(x[2].duration, x[2].start).start
             /\ y.end = Whole(x[2].duration, x[2].start).end
  <2> TAKE y \in ItemTakes(b, x)
  <2>1. TakenFor(b, x, y)
    BY ItemTakesAre
  <2> QED  BY <2>1 DEF TakenFor
<1>2. r.start = q.start /\ r.end = q.end
  <2>1. CASE r.who \in Employee
    <3>1. PICK p \in Phases(d, s) : r.start = p.start /\ r.end = p.end
        BY <1>1, <2>1
    <3>2. PICK u \in Phases(d, s) : q.start = u.start /\ q.end = u.end
        BY <1>1, <2>1
    <3>3. p = u \/ ~Overlaps(p, u)
        BY <1>0, PhasesAre
    <3>4. p.start \in Int /\ p.end \in Int /\ u.start \in Int /\ u.end \in Int
        BY <1>0, PhasesAre DEF Proper
    <3> QED  BY <3>1, <3>2, <3>3, <3>4 DEF Overlaps
  <2>2. CASE r.who \notin Employee
    BY <1>1, <2>2
  <2> QED  BY <2>1, <2>2
<1>3. /\ r = [who |-> r.who, item |-> r.item, start |-> r.start, end |-> r.end, units |-> r.units]
      /\ q = [who |-> q.who, item |-> q.item, start |-> q.start, end |-> q.end, units |-> q.units]
    BY ItemShape
<1>4. r.item = q.item /\ r.units = q.units
    BY <1>1
<1> QED  BY <1>2, <1>3, <1>4

\* Of the services of one request nobody takes more than they serve at a time.
LEMMA RequestFits ==
    ASSUME Blocks(taken), NEW b, NEW request \in Requests, Free(b, request),
           NEW who \in Employee \cup AllResources, NEW t \in Int
    PROVE  Units(Working(Taken(b, request), who, t)) <= Limit(who)
<1> DEFINE T == Taken(b, request)
           N == Working(T, who, t)
<1>0. SlotsFree(b, request) /\ InRequest(b, request)
    BY DEF Free
<1>1. Blocks(T) /\ \A r \in T : r.who \in Employee =>
          \E x \in Items(request) : x[2].employee = r.who
    BY <1>0, ItemsTaken
<1>2. N \in SUBSET T
    BY DEF Working
<1>3. Blocks(N) /\ Units(N) \in Nat
    BY <1>1, <1>2, BlocksOf, UnitsType DEF Blocks
<1>4. Limit(who) \in Nat
    BY LimitType
<1>5. Blocks({})
  <2>1. IsFiniteSet({})
    BY FS_EmptySet
  <2> QED  BY <2>1 DEF Blocks, Sized
<1>6. CASE N = {}
    BY <1>4, <1>6, <1>5, UnitsType DEF Blocks
<1>7. ASSUME NEW Q, Blocks(Q), CanAllocate({}, Q, Limit(who)), N \in SUBSET At(Q, t), N # {}
      PROVE  Units(N) <= Limit(who)
  <2>1. At(Q, t) \in SUBSET Q
    BY DEF At
  <2>2. Sized(At(Q, t)) /\ Units(At(Q, t)) \in Nat
    BY <1>7, <2>1, SizedParts, UnitsType DEF Blocks
  <2>3. Units(N) <= Units(At(Q, t))
    BY <1>7, <2>2, UnitsOfPart
  <2>4. CASE Units(At(Q, t)) > 0
    <3>1. Units(At({}, t)) + Units(At(Q, t)) <= Limit(who)
        BY <1>4, <1>5, <1>7, <2>4, AllocationFits
    <3>2. At({}, t) = {} /\ Units({}) = 0
        BY <2>2, UnitsType DEF At
    <3> QED  BY <1>3, <1>4, <2>2, <2>3, <3>1, <3>2
  <2>5. CASE ~(Units(At(Q, t)) > 0)
    BY <1>3, <1>4, <2>2, <2>3, <2>5
  <2> QED  BY <2>4, <2>5
<1>8. CASE who \in Employee /\ N # {}
  <2> DEFINE A == {r \in T : r.who = who}
             V == Take(TravelSpans(request, who), who, Asking, Capacity[who])
  <2>1. PICK r \in T : r.who = who
    BY <1>8 DEF Working
  <2>2. PICK x \in Items(request) : x[2].employee = who
    BY <1>1, <1>8, <2>1
  <2>3. who \in Serving(request)
    BY <2>2 DEF Serving
  <2>4. CanAllocate({}, A \cup V, Capacity[who])
    BY <1>0, <2>3 DEF InRequest, InRequestEmployees
  <2>5. Capacity[who] = Limit(who)
    BY <1>8, LimitType
  <2>6. Blocks(V)
    BY <1>4, <2>3, <2>5, TravelSpansAre, TakeIs
  <2>7. Blocks(A)
    BY <1>1, BlocksOf
  <2>8. N \in SUBSET At(A \cup V, t)
    BY DEF Working, At
  <2> HIDE DEF A, V, N
  <2>9. Blocks(A \cup V)
    BY <2>6, <2>7, BlocksOfBoth
  <2>10. Units(N) <= Limit(who)
    BY <1>7, <1>8, <2>4, <2>5, <2>8, <2>9
  <2> QED  BY <2>10 DEF N
<1>9. CASE who \notin Employee /\ N # {}
  <2> DEFINE A == {r \in T : r.who = who}
  <2>1. who \in AllResources
    BY <1>9
  <2>2. PICK k \in Type : who \in ToSet(Resources[k])
    BY <2>1 DEF AllResources
  <2>3. CanAllocate({}, A, Room[who])
    BY <1>0, <2>2 DEF InRequest
  <2>4. Room[who] = Limit(who)
    BY <2>1, LimitType
  <2>5. Blocks(A)
    BY <1>1, BlocksOf
  <2>6. N \in SUBSET At(A, t)
    BY DEF Working, At
  <2> HIDE DEF A, N
  <2>7. Units(N) <= Limit(who)
    BY <1>7, <1>9, <2>3, <2>4, <2>5, <2>6
  <2> QED  BY <2>7 DEF N
<1> QED  BY <1>6, <1>8, <1>9

\* Where no services of a request share, it takes nobody twice at a time who
\* serves more than one.
LEMMA RequestOnce ==
    ASSUME Separate, Blocks(taken), NEW b, NEW request \in Requests, Free(b, request),
           NEW who \in Employee \cup AllResources, NEW t \in Int
    PROVE  Units(Working(Taken(b, request), who, t)) <= 1
<1> DEFINE T == Taken(b, request)
           N == Working(T, who, t)
<1>0. /\ SlotsFree(b, request)
      /\ \A x \in Items(request) : \A k \in Type : Resources[k] # <<>> =>
           Find(k, Whole(x[2].duration, x[2].start), b) # 0
    BY WhenAvailable DEF Free, SlotsFree
<1>1. Blocks(T) /\ \A r \in T : r.units = 1
    BY <1>0, ItemsTaken
<1>2. CASE Limit(who) = 1
    BY <1>2, RequestFits
<1>3. ASSUME Limit(who) # 1, NEW r \in N, NEW q \in N PROVE r = q
  <2>1. /\ r \in T /\ q \in T /\ r.who = who /\ q.who = who
        /\ r.start <= t /\ t < r.end /\ q.start <= t /\ t < q.end
    BY <1>3 DEF Working
  <2>2. PICK x \in Items(request) : r \in ItemTakes(b, x)
    BY <2>1 DEF Taken
  <2>3. PICK y \in Items(request) : q \in ItemTakes(b, y)
    BY <2>1 DEF Taken
  <2>4. CASE x = y
    BY <1>0, <2>1, <2>2, <2>3, <2>4, ItemOnce
  <2>5. CASE x # y
    <3>1. /\ Whole(x[2].duration, x[2].start).start <= r.start
          /\ r.end <= Whole(x[2].duration, x[2].start).end
          /\ who \in Employee => who = x[2].employee
      <4>1. TakenFor(b, x, r)
        BY <1>0, <2>2, ItemTakesAre
      <4> QED  BY <2>1, <4>1 DEF TakenFor
    <3>2. /\ Whole(y[2].duration, y[2].start).start <= q.start
          /\ q.end <= Whole(y[2].duration, y[2].start).end
          /\ who \in Employee => who = y[2].employee
      <4>1. TakenFor(b, y, q)
        BY <1>0, <2>3, ItemTakesAre
      <4> QED  BY <2>1, <4>1 DEF TakenFor
    <3>3. /\ Whole(x[2].duration, x[2].start).start \in Int
          /\ Whole(x[2].duration, x[2].start).end \in Int
          /\ Whole(y[2].duration, y[2].start).start \in Int
          /\ Whole(y[2].duration, y[2].start).end \in Int
        BY ItemFieldsOf, WholeIs
    <3>4. r.start \in Int /\ r.end \in Int /\ q.start \in Int /\ q.end \in Int
        BY <1>1, <2>1 DEF Blocks
    <3>5. Overlaps(Whole(x[2].duration, x[2].start), Whole(y[2].duration, y[2].start))
        BY <2>1, <3>1, <3>2, <3>3, <3>4 DEF Overlaps
    <3>6. /\ x[2].employee = y[2].employee => Capacity[x[2].employee] = 1
          /\ \A room \in AllResources : Room[room] = 1
        BY <2>5, <3>5 DEF Separate
    <3>7. Limit(who) = 1
        BY <3>1, <3>2, <3>6, LimitType
    <3> QED  BY <1>3, <3>7
  <2> QED  BY <2>4, <2>5
<1>4. N \in SUBSET T
    BY DEF Working
<1> HIDE DEF N
<1>5. Blocks(N) /\ \A r \in N : r.units = 1
    BY <1>1, <1>4, BlocksOf
<1>6. CASE N = {}
  <2>1. Units(N) <= 1
    BY <1>5, <1>6, UnitsType DEF Blocks
  <2> QED  BY <2>1 DEF N
<1>7. CASE Limit(who) # 1 /\ N # {}
  <2>1. PICK r \in N : N = {r}
    BY <1>3, <1>7
  <2>2. Units({r}) = 1
    BY <1>5, UnitsOfOne DEF Blocks
  <2>3. Units(N) <= 1
    BY <2>1, <2>2
  <2> QED  BY <2>3 DEF N
<1> QED  BY <1>2, <1>6, <1>7 DEF N

\* How many clients of an employee or in a room there can be at a time.
Bound(who) == IF Separate THEN Limit(who) ELSE 2 * Limit(who) - 1

\* No load is above its bound, the inductive invariant of the two theorems below.
Within(R) ==
    \A who \in Employee \cup AllResources : \A t \in Int :
        Units(Working(R, who, t)) <= Bound(who)

\* The bound lies below two times the limit.
LEMMA BoundType ==
    ASSUME NEW who \in Employee \cup AllResources
    PROVE  Bound(who) \in Nat /\ Limit(who) \in Nat /\ Bound(who) <= 2 * Limit(who) - 1
    BY LimitType DEF Bound

\* A part of such a calendar is one.
LEMMA WithinParts ==
    ASSUME NEW R, Blocks(R), Within(R), NEW S \in SUBSET R
    PROVE  Within(S)
<1> SUFFICES ASSUME NEW who \in Employee \cup AllResources, NEW t \in Int
             PROVE  Units(Working(S, who, t)) <= Bound(who)
    BY DEF Within
<1>1. Working(R, who, t) \in SUBSET R /\ Working(S, who, t) \in SUBSET Working(R, who, t)
    BY DEF Working
<1>2. Sized(Working(R, who, t)) /\ Sized(Working(S, who, t))
    BY <1>1, SizedParts DEF Blocks
<1>3. Units(Working(S, who, t)) <= Units(Working(R, who, t))
    BY <1>1, <1>2, UnitsOfPart
<1>4. Units(Working(S, who, t)) \in Nat /\ Units(Working(R, who, t)) \in Nat
    BY <1>2, UnitsType
<1>5. Units(Working(R, who, t)) <= Bound(who)
    BY DEF Within
<1> QED  BY <1>3, <1>4, <1>5, BoundType

\* What a free booking takes keeps to the bounds: where it takes something, what others have
\* reserved leaves room for one.
LEMMA GivenIsWithin ==
    ASSUME day \in Days, Calm(taken), Within(taken), NEW b, NEW request \in Requests, Free(b, request)
    PROVE  Within(Calendar(b, request, TravelUnits))
<1> DEFINE K == {r \in taken : r.item[1] # b}
           T == Taken(b, request)
           V == TravelTakes(b, request, TravelUnits)
<1>1. Calendar(b, request, TravelUnits) = K \cup T \cup V
    BY DEF Calendar
<1>2. Blocks(taken) /\ SlotsFree(b, request)
    BY DEF Calm, Free
<1>3. \A r \in T :
          /\ r.item[1] = b
          /\ \A t \in Int : r.start <= t /\ t < r.end =>
               Units(At(Of(r.who, b), t)) + 1 <= Limit(r.who)
    BY <1>2, ItemsTaken
<1>4. \A r \in V : IsTravel(r)
    BY <1>2, TravelTaken
<1>5. Blocks(T) /\ K \in SUBSET taken /\ Within(K)
    BY <1>2, ItemsTaken, WithinParts
<1> SUFFICES ASSUME NEW who \in Employee \cup AllResources, NEW t \in Int
             PROVE  Units(Working(K \cup T \cup V, who, t)) <= Bound(who)
    BY <1>1 DEF Within
<1> DEFINE O == Working(K, who, t)
           N == Working(T, who, t)
<1>6. Working(K \cup T \cup V, who, t) = O \cup N
    BY <1>4 DEF Working
<1>7. O \cap N = {}
    BY <1>3 DEF Working
<1>8. /\ O \in SUBSET At(Of(who, b), t) /\ O \in SUBSET K
      /\ N \in SUBSET T
      /\ \A r \in N : r.who = who /\ r.start <= t /\ t < r.end
    BY DEF Working, At, Of
<1>9. Units(N) <= Limit(who) /\ (Separate => Units(N) <= 1)
    BY <1>2, RequestFits, RequestOnce
<1>10. Units(O) <= Bound(who)
    BY <1>5 DEF Within
<1> HIDE DEF T, K, V, O, N
<1>11. Blocks(O) /\ Blocks(N)
    BY <1>2, <1>5, <1>8, BlocksOf
<1>12. Blocks(O \cup N)
    BY <1>11, BlocksOfBoth
<1>13. Units(O \cup N) = Units(O) + Units(N)
    BY <1>7, <1>12, UnitsOfBoth DEF Blocks
<1>14. Units(O) \in Nat /\ Units(N) \in Nat /\ Units({}) = 0
    BY <1>11, UnitsType DEF Blocks
<1>15. CASE N = {}
    BY <1>6, <1>10, <1>13, <1>14, <1>15, BoundType
<1>16. CASE N # {}
  <2>1. PICK r \in N : TRUE
    BY <1>16
  <2>2. Units(At(Of(who, b), t)) + 1 <= Limit(who)
    BY <1>3, <1>8, <2>1
  <2>3. Of(who, b) \in SUBSET Of(who, b)
    OBVIOUS
  <2>4. Blocks(At(Of(who, b), t)) /\ Units(At(Of(who, b), t)) \in Nat
    BY <1>2, <2>3, OthersAreBlocks
  <2>5. Units(O) <= Units(At(Of(who, b), t))
    BY <1>8, <2>4, UnitsOfPart DEF Blocks
  <2>6. Limit(who) \in Nat
    BY BoundType
  <2>7. Units(O) + 1 <= Limit(who)
    BY <1>14, <2>2, <2>4, <2>5, <2>6
  <2>8. CASE Separate
    <3>1. Bound(who) = Limit(who)
        BY <2>8, Zenon DEF Bound
    <3>2. Units(N) <= 1
        BY <1>9, <2>8, Zenon
    <3> QED  BY <1>6, <1>13, <1>14, <2>6, <2>7, <3>1, <3>2
  <2>9. CASE ~Separate
    <3>1. Bound(who) = 2 * Limit(who) - 1
        BY <2>9, Zenon DEF Bound
    <3>2. Units(N) <= Limit(who)
        BY <1>9, Zenon
    <3>3. Units(O) + Units(N) <= 2 * Limit(who) - 1
        BY <1>14, <2>6, <2>7, <3>2
    <3> QED  BY <1>6, <1>13, <3>1, <3>3
  <2> QED  BY <2>8, <2>9
<1> QED  BY <1>15, <1>16

\* Every calendar keeps to the bounds.
LEMMA WithinAlways == Spec => [](Calm(taken) /\ Within(taken))
<1>1. Init => Within(taken)
  <2>1. \A who, t : Working({}, who, t) = {}
    BY DEF Working
  <2>2. Sized({})
    BY FS_EmptySet DEF Sized
  <2>3. Units({}) = 0
    BY <2>2, UnitsType
  <2>4. Within({})
    BY <2>1, <2>3, BoundType DEF Within
  <2> QED  BY <2>4 DEF Init
<1>2. ASSUME day \in Days, Calm(taken), Within(taken), [Next]_vars
      PROVE  Within(taken')
  <2>0. Blocks(taken)
    BY <1>2 DEF Calm
  <2>1. CASE UNCHANGED vars
    BY <1>2, <2>1 DEF vars
  <2>2. ASSUME NEW b, NEW request \in Requests, Give(b, request, TravelUnits)
        PROVE  Within(taken')
    <3>1. Within(Calendar(b, request, TravelUnits))
        BY <1>2, <2>2, GivenIsWithin DEF Give
    <3> QED  BY <2>2, <3>1 DEF Give
  <2>3. ASSUME NEW b, Cancel(b) PROVE Within(taken')
    <3>1. Within({r \in taken : r.item[1] # b})
        BY <1>2, <2>0, WithinParts
    <3> QED  BY <2>3, <3>1 DEF Cancel
  <2>4. CASE Next
    <3>1. PICK b \in 1 .. Bookings :
            \/ \E request \in Requests : Book(b, request) \/ Reschedule(b, request)
            \/ Cancel(b)
        BY <2>4 DEF Next
    <3>2. \/ \E request \in Requests : Give(b, request, TravelUnits)
          \/ Cancel(b)
        BY <3>1 DEF Book, Reschedule
    <3> QED  BY <2>2, <2>3, <3>2
  <2> QED  BY <1>2, <2>1, <2>4
<1>3. day \in Days /\ Calm(taken) /\ Within(taken) /\ [Next]_vars => Within(taken)'
    BY <1>2 DEF Within
<1> QED  BY <1>1, <1>3, CalmAlways, PTL DEF Spec

\* What Within says of the loads of the properties.
LEMMA LoadsAre ==
    ASSUME Calm(taken), Within(taken), NEW t \in Instant
    PROVE  /\ \A e \in Employee :
                Units({r \in Of(e, 0) : ~IsTravel(r) /\ r.start <= t /\ t < r.end}) <= Bound(e)
           /\ \A x \in AllResources : Load(x, t) <= Bound(x)
<1>0. t \in Int /\ \A x \in AllResources : x \notin Employee
    BY ResourcesAssumption DEF Instant
<1>1. \A r \in taken : r.item[1] # 0 /\ (IsTravel(r) => r.who \in Employee)
    BY DEF Calm
<1>2. ASSUME NEW e \in Employee
      PROVE  Units({r \in Of(e, 0) : ~IsTravel(r) /\ r.start <= t /\ t < r.end}) <= Bound(e)
  <2>1. {r \in Of(e, 0) : ~IsTravel(r) /\ r.start <= t /\ t < r.end} = Working(taken, e, t)
    BY <1>1 DEF Of, Working
  <2> QED  BY <1>0, <2>1 DEF Within
<1>3. ASSUME NEW x \in AllResources PROVE Load(x, t) <= Bound(x)
  <2>1. {r \in Of(x, 0) : r.start <= t /\ t < r.end} = Working(taken, x, t)
    BY <1>0, <1>1 DEF Of, Working
  <2> QED  BY <1>0, <2>1 DEF Within, Load
<1> QED  BY <1>2, <1>3

\* Less than two times as many as there should be at most.
NeverTwice ==
    \A t \in Instant :
        /\ \A e \in Employee :
             Units({r \in Of(e, 0) : ~IsTravel(r) /\ r.start <= t /\ t < r.end}) < 2 * Capacity[e]
        /\ \A x \in AllResources : Load(x, t) < 2 * Room[x]

\* Whatever is asked for, no employee has two times as many clients as they serve at a
\* time, and no room two times as many as it takes.  The services of a request are each
\* checked beside what others have reserved and then with each other, but never with
\* both: so it can be more than the limit, as run siblings shows, but never by that
\* much.  Who serves one client at a time never has two, whatever is asked for.
THEOREM NeverTwiceHolds == Spec => []NeverTwice
<1>1. Calm(taken) /\ Within(taken) => NeverTwice
  <2> SUFFICES ASSUME Calm(taken), Within(taken), NEW t \in Instant
               PROVE  /\ \A e \in Employee :
                           Units({r \in Of(e, 0) : ~IsTravel(r) /\ r.start <= t /\ t < r.end})
                             < 2 * Capacity[e]
                      /\ \A x \in AllResources : Load(x, t) < 2 * Room[x]
    BY DEF NeverTwice
  <2>1. ASSUME NEW e \in Employee
        PROVE  Units({r \in Of(e, 0) : ~IsTravel(r) /\ r.start <= t /\ t < r.end}) < 2 * Capacity[e]
    <3> DEFINE u == Units({r \in Of(e, 0) : ~IsTravel(r) /\ r.start <= t /\ t < r.end})
    <3>1. u <= Bound(e)
        BY LoadsAre
    <3>2. u \in Nat
      <4>1. {r \in Of(e, 0) : ~IsTravel(r) /\ r.start <= t /\ t < r.end} \in SUBSET taken
        BY DEF Of
      <4> QED  BY <4>1, SizedParts, UnitsType DEF Calm, Blocks
    <3> HIDE DEF u
    <3>3. u < 2 * Capacity[e]
        BY <3>1, <3>2, BoundType, LimitType
    <3> QED  BY <3>3 DEF u
  <2>2. ASSUME NEW x \in AllResources PROVE Load(x, t) < 2 * Room[x]
    <3>1. Load(x, t) <= Bound(x)
        BY LoadsAre
    <3>2. Load(x, t) \in Nat
      <4>1. {r \in Of(x, 0) : r.start <= t /\ t < r.end} \in SUBSET taken
        BY DEF Of
      <4> QED  BY <4>1, SizedParts, UnitsType DEF Calm, Blocks, Load
    <3> QED  BY <3>1, <3>2, BoundType, LimitType
  <2> QED  BY <2>1, <2>2
<1> QED  BY <1>1, WithinAlways, PTL

\* Where no services of a request share an employee or a room that takes several clients
\* at a time, nobody is overbooked, over all bookings and their items (NobodyOverbooked).
THEOREM NobodyOverbookedHolds == Separate => (Spec => []NobodyOverbooked)
<1> SUFFICES ASSUME Separate PROVE Spec => []NobodyOverbooked
    OBVIOUS
<1>1. Calm(taken) /\ Within(taken) => NobodyOverbooked
  <2> SUFFICES ASSUME Calm(taken), Within(taken) PROVE NobodyOverbooked
    OBVIOUS
  <2>1. \A e \in Employee : Bound(e) = Capacity[e]
    BY LimitType DEF Bound
  <2>2. \A x \in AllResources : Bound(x) = Room[x]
    BY LimitType DEF Bound
  <2> QED  BY <2>1, <2>2, LoadsAre DEF NobodyOverbooked
<1> QED  BY <1>1, WithinAlways, PTL

=============================================================================
