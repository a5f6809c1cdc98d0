--------------------------- MODULE MCSlotBooking ---------------------------
(***************************************************************************)
(* Small salons for TLC: one branch, one employee and at most two chairs,  *)
(* two instants on two days, and at most three requests at a time.         *)
(***************************************************************************)
EXTENDS SlotBooking

CONSTANTS
    north,                   \* a branch
    ana, chair, bench,       \* an employee and two chairs
    c1, c2, c3, m1, k1,      \* requests to book, to move and to block
    w1, w2, w3,              \* requests that change the configuration
    key1, key2,              \* Idempotency-Key headers
    none

MCDay == [t \in Instant |-> t]

\* Keys in order: the first day before the second, and of a day the
\* branch, then the employee, then the chairs.
MCKeyRank ==
    [k \in ({north, ana, chair, bench} \X {1, 2}) |->
        4 * k[2] + CASE k[1] = north -> 0 [] k[1] = ana -> 1
                     [] k[1] = chair -> 2 [] OTHER -> 3]

One == [r \in Resource |-> 1]
TwoForAna == [r \in Resource |-> IF r = ana THEN 2 ELSE 1]

AllNorth == [p \in Alloc |-> north]
OnlyNorth == [p \in Block \cup Writer |-> {north}]

\* c1 and c3 want the first day; c2 and the move of c1 want the second.
MoveOptions ==
    [p \in Alloc |-> IF p \in {c1, c3} THEN << {<<ana, 1>>} >> ELSE << {<<ana, 2>>} >>]

\* All want the first day.
Day1Options == [p \in Alloc |-> << {<<ana, 1>>} >>]

\* With ana goes the chair or, when it is taken, the bench.
ChairOptions ==
    [p \in Alloc |-> << {<<ana, 1>>, <<chair, 1>>}, {<<ana, 1>>, <<bench, 1>>} >>]

MoveTarget == [m \in Move |-> c1]

PairKeys == [c \in Create |-> IF c = c1 THEN key1 ELSE key2]
SameKeys == [c \in Create |-> key1]

Held == [c \in Create |-> c = c1]
AllHeld == [c \in Create |-> TRUE]

NoOne == [k \in Block |-> none]
Day1Only == [k \in Block |-> {1}]

TwoTicks == [p \in Proc |-> 2]
OneTick == [p \in Proc |-> 1]

\* Next to transactions of two ticks (60 s): the locks of a block live half
\* as long (30 s), those of a booking (90 s) no shorter.
LockTimes == [p \in Proc |-> IF p \in Block THEN 1 ELSE 2]

\* Two bookings and a move; or a booking and a block; or a booking and one
\* of the three kinds of configuration change.
Encounters == {{c1, c2, m1}, {c3, k1}, {c3, w1}, {c3, w2}, {c3, w3}}
AllTogether == {Proc}
=============================================================================
