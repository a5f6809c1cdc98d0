------------------------ MODULE MCBookingLifecycle ------------------------
(***************************************************************************)
(* One booking for TLC, with an advance of two units or one, up to two     *)
(* checkout requests, two advances and two refunds recorded by staff.      *)
(***************************************************************************)
EXTENDS BookingLifecycle, TLC

CONSTANTS c1, c2, a1, a2, r1, r2,   \* requests
          none

\* Each request has a key of its own, named like the request.
OwnKeys == [r \in Request |-> r]

\* Staff use the key of one of the customer's requests.
SharedKey == [r \in Request |-> IF r = a1 THEN c1 ELSE r]

\* The second checkout and its charge are of two units, all else of one.
Pairs == [r \in Request |-> IF r \in {a1, c2} THEN 2 ELSE 1]

\* A checkout of all that is left; staff pay single units.
Rest == [r \in Request |-> IF r \in Checkout THEN 0 ELSE 1]

\* The refunds differ in nothing but their name.
RefundsAlike == Permutations(Refund)

Cash == [a \in Advance |-> none]

\* Staff record what the customer has paid at the provider.
SameCharge == [a \in Advance |-> IF a = a1 THEN c2 ELSE c1]
=============================================================================
