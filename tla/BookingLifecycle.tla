-------------------------- MODULE BookingLifecycle --------------------------
(***************************************************************************)
(* One booking after it has its slot: its status and the advance paid on   *)
(* it.                                                                     *)
(*                                                                         *)
(* Customers ask for a checkout (createAdvanceCheckout), pay it at the     *)
(* provider, and the provider reports the payment by a webhook             *)
(* (applyVerifiedAdvanceSettlement).  Staff record advances and refunds,   *)
(* move the booking along its statuses and cancel it; the lifecycle worker *)
(* cancels it when the hold runs out unpaid.                               *)
(*                                                                         *)
(* Everything that writes the booking is one MongoDB transaction that      *)
(* reads and writes the booking document: two of them conflict and one is  *)
(* run again, so each is one action.  A checkout is many steps: reads, a   *)
(* Redis lock with a heartbeat, a call of the provider and a transaction   *)
(* that writes no booking and so conflicts with none of the others.        *)
(*                                                                         *)
(* A refused request changes nothing and may be sent again, so refusals    *)
(* are steps only where a request has begun.  Horizon bounds the clock.    *)
(***************************************************************************)
EXTENDS Integers, FiniteSets

CONSTANTS
    Checkout,     \* requests of the customer for an advance checkout
    Advance,      \* advances staff record
    Refund,       \* refunds staff record
    Key,          \* provider and Idempotency-Key of a payment
    KeyOf,        \* KeyOf[r]: the key request r is sent with
    Amount,       \* Amount[r]: what r asks for, 0 for a checkout of the rest
    ChargeOf,     \* ChargeOf[a]: the charge staff record as a, NoOne if cash
    Requirement,  \* pricingSnapshot.advanceRequirement
    Due,          \* pricingSnapshot.advanceDueMinor
    HoldUntil,    \* expiresAt of the booking and of its reservations
    StartsAt,     \* startAt
    LockTtl,      \* lifetime of the checkout lock
    Horizon,      \* the last instant
    NoOne         \* nobody holds the lock, no charge, no original payment

Request == Checkout \cup Advance \cup Refund
Time    == 0 .. Horizon
Money   == 0 .. Due

ASSUME RequestAssumption ==
    /\ KeyOf \in [Request -> Key]
    /\ Amount \in [Request -> Nat]
    /\ \A r \in Advance \cup Refund : Amount[r] > 0
    /\ ChargeOf \in [Advance -> Key \cup {NoOne}]
    /\ NoOne \notin Request \cup Key

\* A key belongs to a provider, and no checkout is made with cash.
ASSUME ProviderAssumption ==
    \A c \in Checkout, a \in Advance : KeyOf[a] = KeyOf[c] => ChargeOf[a] # NoOne

\* The pre-validate hook of Booking ties the amount due to the requirement.
ASSUME PolicyAssumption ==
    /\ Requirement \in {"none", "optional", "required"}
    /\ Due \in Nat
    /\ Requirement = "none" => Due = 0
    /\ Requirement = "required" => Due > 0

ASSUME TimeAssumption ==
    /\ Horizon \in Nat
    /\ HoldUntil \in 1 .. Horizon
    /\ StartsAt \in Time
    /\ LockTtl \in Nat \ {0}

VARIABLES
    now,      \* the clock
    booking,  \* the Booking document and its reservations
    pay,      \* pay[k]: the BookingPayment with key k
    charge,   \* charge[k]: what the provider knows under key k
    lock,     \* the Redis lock advance-checkout:<booking>
    req,      \* req[c]: how far Checkout request c has come
    lapsed,   \* history: the requests whose lock ran out while they were under it
    stalled   \* history: the checkouts such requests stored

vars == <<now, booking, pay, charge, lock, req, lapsed, stalled>>

-----------------------------------------------------------------------------
(* Records *)

Active   == {"requested", "pending_advance", "confirmed", "checked_in",
             "in_progress"}
Terminal == {"completed", "cancelled", "no_show"}

Transitions ==
    [s \in Active \cup Terminal |->
        CASE s = "requested"       -> {"confirmed", "cancelled"}
          [] s = "pending_advance" -> {"confirmed", "cancelled"}
          [] s = "confirmed"       -> {"checked_in", "cancelled", "no_show"}
          [] s = "checked_in"      -> {"in_progress", "cancelled", "no_show"}
          [] s = "in_progress"     -> {"completed", "cancelled"}
          [] OTHER                 -> {}]

BookingRecord ==
    [status    : Active \cup Terminal,
     paid      : Money,
     expiresAt : Time,                            \* 0 is undefined
     slot      : {"held", "confirmed", "released"},
     reason    : {"none", "expired", "asked"}]    \* of the cancellation

Payment ==
    [purpose : {"none", "advance", "advance_refund"},
     status  : {"none", "pending", "succeeded", "cancelled", "refunded"},
     amount  : Money,
     until   : Time,                 \* checkoutExpiresAt, 0 if no checkout
     txn     : Key \cup {NoOne},     \* providerTransactionId
     of      : Key \cup {NoOne}]     \* relatedPaymentId

NoPayment == [purpose |-> "none", status |-> "none", amount |-> 0,
              until |-> 0, txn |-> NoOne, of |-> NoOne]

Charge == [state : {"none", "open", "paid"}, amount : Money,
           until : Time, at : Time]

UnderLock == {"locked", "swept", "checked", "billed", "open"}

Progress == [pc : {"idle", "begun", "closing", "dead"} \cup UnderLock,
             amount : Money,       \* amountMinor
             at : Time]            \* guardedNow

NotBegun == [pc |-> "idle", amount |-> 0, at |-> 0]

\* The units of money of the payments p[k] with k in K, and their number.
Units(p, K) == UNION {{k} \X (1 .. p[k].amount) : k \in K}
Total(K)    == Cardinality(Units(pay, K))

Advances     == {k \in Key : /\ pay[k].purpose = "advance"
                             /\ pay[k].status \in {"succeeded", "refunded"}}
RefundsOf(o) == {k \in Key : /\ pay[k].purpose = "advance_refund"
                             /\ pay[k].of = o}

\* The checkouts a customer could pay at instant t.
ActiveAt(t) == {k \in Key : pay[k].status = "pending" /\ pay[k].until > t}

Init ==
    /\ now = 0
    /\ booking = IF Requirement = "required"
                 THEN [status |-> "pending_advance", paid |-> 0,
                       expiresAt |-> HoldUntil, slot |-> "held",
                       reason |-> "none"]
                 ELSE [status |-> "confirmed", paid |-> 0, expiresAt |-> 0,
                       slot |-> "confirmed", reason |-> "none"]
    /\ pay = [k \in Key |-> NoPayment]
    /\ charge = [k \in Key |-> [state |-> "none", amount |-> 0,
                                until |-> 0, at |-> 0]]
    /\ lock = [holder |-> NoOne, until |-> 0]
    /\ req = [c \in Checkout |-> NotBegun]
    /\ lapsed = {}
    /\ stalled = {}

-----------------------------------------------------------------------------
(* What every payment asks of the booking *)

Remaining == Due - booking.paid

\* The status in which an advance of this booking can be collected.
Eligible == \/ Requirement = "required" /\ booking.status = "pending_advance"
            \/ Requirement = "optional" /\ booking.status = "confirmed"

\* All reservations of a required advance are held beyond instant t.
HoldComplete(t) ==
    Requirement = "required" => booking.slot = "held" /\ booking.expiresAt > t

Collectible(a) == /\ a <= Remaining
                  /\ Requirement = "required" => a = Remaining

Confirmed(b) == [b EXCEPT !.status = "confirmed", !.slot = "confirmed",
                          !.expiresAt = 0]

\* Mutant of Creditable: the hold is not looked at again.
CreditableLate(a) == TRUE

\* Paying a confirms a pending booking that is then paid in full, and is
\* undone as a whole when the hold has run out meanwhile.
PaidUp(a)   == booking.status = "pending_advance" /\ booking.paid + a >= Due
Creditable(a) == PaidUp(a) => HoldComplete(now)
Credited(a) == LET b == [booking EXCEPT !.paid = @ + a]
               IN  IF PaidUp(a) THEN Confirmed(b) ELSE b

\* Mutant of Unrecorded: no unique index.
UnrecordedAnyhow(t) == TRUE

\* The unique index on the provider's transaction.
Unrecorded(t) == t = NoOne \/ \A k \in Key : pay[k].txn # t

-----------------------------------------------------------------------------
(* createAdvanceCheckout *)

Go(c, pc) == req' = [req EXCEPT ![c].pc = pc]

\* The key is new and a first look finds a checkout possible.
Begin(c) ==
    /\ req[c].pc = "idle"
    /\ pay[KeyOf[c]] = NoPayment
    /\ now < StartsAt
    /\ Eligible
    /\ Remaining > 0
    /\ HoldComplete(now)
    /\ LET a == IF Amount[c] = 0 THEN Remaining ELSE Amount[c]
       IN  /\ Collectible(a)
           /\ req' = [req EXCEPT ![c].pc = "begun", ![c].amount = a]
    /\ UNCHANGED <<now, booking, pay, charge, lock, lapsed, stalled>>

\* Mutant of LockFree: the lock is written without NX.
LockFreeAlways == TRUE

LockFree == lock.holder = NoOne \/ lock.until <= now

LockedBy(c) == [holder |-> c, until |-> now + LockTtl]

TakeLock(c) ==
    /\ req[c].pc = "begun"
    /\ now + LockTtl <= Horizon
    /\ LockFree
    /\ lock' = LockedBy(c)
    /\ lapsed' = lapsed \ {c}
    /\ Go(c, "locked")
    /\ UNCHANGED <<now, booking, pay, charge, stalled>>

\* ADVANCE_CHECKOUT_BUSY
Busy(c) ==
    /\ req[c].pc = "begun"
    /\ ~LockFree
    /\ req' = [req EXCEPT ![c] = NotBegun]
    /\ UNCHANGED <<now, booking, pay, charge, lock, lapsed, stalled>>

\* The heartbeat pushes the expiry of a lock that is still the request's own.
\* It may come late or never: the request learns of it after its last step.
Heartbeat(c) ==
    /\ req[c].pc \in UnderLock
    /\ lock.holder = c /\ now < lock.until
    /\ lock.until < now + LockTtl
    /\ now + LockTtl <= Horizon
    /\ lock' = [lock EXCEPT !.until = now + LockTtl]
    /\ UNCHANGED <<now, booking, pay, charge, req, lapsed, stalled>>

\* Mutant of RunOut: a checkout that was paid runs out too.
RunOutPaid(p) == p.status # "none" /\ p.until > 0 /\ p.until <= now

RunOut(p) == p.status = "pending" /\ p.until <= now

\* Checkouts that have run out are cancelled, outside any transaction.
Sweep(c) ==
    /\ req[c].pc = "locked"
    /\ pay' = [k \in Key |->
                  IF RunOut(pay[k])
                  THEN [pay[k] EXCEPT !.status = "cancelled"]
                  ELSE pay[k]]
    /\ req' = [req EXCEPT ![c].pc = "swept", ![c].at = now]
    /\ UNCHANGED <<now, booking, charge, lock, lapsed, stalled>>

StillPossible(c) ==
    /\ req[c].at < StartsAt
    /\ Eligible
    /\ Collectible(req[c].amount)
    /\ HoldComplete(req[c].at)
    /\ ActiveAt(req[c].at) = {}

Recheck(c) ==
    /\ req[c].pc = "swept"
    /\ Go(c, IF StillPossible(c) THEN "checked" ELSE "closing")
    /\ UNCHANGED <<now, booking, pay, charge, lock, lapsed, stalled>>

\* Mutant of Usable: the checkout may outlive the hold.
UsableLong(ch) == ch.until > now

\* The checkout the provider answered with may be stored.
Usable(ch) == /\ ch.until > now
              /\ Requirement = "required" => ch.until <= HoldUntil

\* The provider opens a checkout, one for all requests with the same key; its
\* answer may be lost or refused, and the checkout stays open at the provider.
AskProvider(c) ==
    LET k == KeyOf[c]
    IN  /\ req[c].pc = "checked"
        /\ \E u \in {t \in Time : t > now}, next \in {"billed", "closing"} :
              LET ch == IF charge[k].state = "none"
                        THEN [state |-> "open", amount |-> req[c].amount,
                              until |-> u, at |-> 0]
                        ELSE charge[k]
              IN  /\ next = "billed" => Usable(ch)
                  /\ charge' = [charge EXCEPT ![k] = ch]
                  /\ Go(c, next)
        /\ UNCHANGED <<now, booking, pay, lock, lapsed, stalled>>

\* The provider cannot be reached.
ProviderFails(c) ==
    /\ req[c].pc = "checked"
    /\ Go(c, "closing")
    /\ UNCHANGED <<now, booking, pay, charge, lock, lapsed, stalled>>

\* What the transaction asks of the snapshot it reads.
StorePossible(c) ==
    /\ pay[KeyOf[c]] = NoPayment
    /\ req[c].amount <= Remaining
    /\ HoldComplete(now)
    /\ ActiveAt(now) = {}

OpenStore(c) ==
    /\ req[c].pc = "billed"
    /\ Go(c, IF StorePossible(c) THEN "open" ELSE "closing")
    /\ UNCHANGED <<now, booking, pay, charge, lock, lapsed, stalled>>

CommitStore(c) ==
    LET k == KeyOf[c]
    IN  /\ req[c].pc = "open"
        /\ pay[k] = NoPayment
        /\ pay' = [pay EXCEPT ![k] =
                      [purpose |-> "advance", status |-> "pending",
                       amount |-> req[c].amount, until |-> charge[k].until,
                       txn |-> NoOne, of |-> NoOne]]
        /\ stalled' = IF c \in lapsed THEN stalled \cup {k} ELSE stalled
        /\ Go(c, "closing")
        /\ UNCHANGED <<now, booking, charge, lock, lapsed>>

\* The unique index on the key refuses the insert; the transaction runs again.
RetryStore(c) ==
    /\ req[c].pc = "open"
    /\ pay[KeyOf[c]] # NoPayment
    /\ Go(c, "billed")
    /\ UNCHANGED <<now, booking, pay, charge, lock, lapsed, stalled>>

\* Only the holder's own lock is released.
Release(c) ==
    /\ req[c].pc = "closing"
    /\ lock' = IF lock.holder = c THEN [holder |-> NoOne, until |-> 0]
                                  ELSE lock
    /\ req' = [req EXCEPT ![c] = NotBegun]
    /\ UNCHANGED <<now, booking, pay, charge, lapsed, stalled>>

\* The API process dies and leaves the lock to expire.
Crash(c) ==
    /\ req[c].pc \notin {"idle", "dead"}
    /\ Go(c, "dead")
    /\ UNCHANGED <<now, booking, pay, charge, lock, lapsed, stalled>>

CheckoutStep(c) ==
    \/ TakeLock(c) \/ Busy(c) \/ Sweep(c) \/ Recheck(c)
    \/ AskProvider(c) \/ ProviderFails(c)
    \/ OpenStore(c) \/ CommitStore(c) \/ RetryStore(c) \/ Release(c)

-----------------------------------------------------------------------------
(* The provider *)

\* A customer who has been answered with an open checkout pays it.
CustomerPays(k) ==
    /\ charge[k].state = "open"
    /\ pay[k].until > 0
    /\ now <= charge[k].until
    /\ charge' = [charge EXCEPT ![k].state = "paid", ![k].at = now]
    /\ UNCHANGED <<now, booking, pay, lock, req, lapsed, stalled>>

\* What applyVerifiedAdvanceSettlement asks itself, by the time of payment.
Acceptable(k) ==
    /\ charge[k].state = "paid"
    /\ pay[k].status = "pending"
    /\ pay[k].amount = charge[k].amount
    /\ Eligible
    /\ charge[k].at <= pay[k].until
    /\ Collectible(charge[k].amount)
    /\ HoldComplete(charge[k].at)

Settleable(k) == /\ Acceptable(k)
                 /\ Unrecorded(k)
                 /\ Creditable(charge[k].amount)

\* applyVerifiedAdvanceSettlement, for a webhook that may come late and again.
Settle(k) ==
    /\ Settleable(k)
    /\ pay' = [pay EXCEPT ![k].status = "succeeded", ![k].txn = k]
    /\ booking' = Credited(charge[k].amount)
    /\ UNCHANGED <<now, charge, lock, req, lapsed, stalled>>

-----------------------------------------------------------------------------
(* Staff *)

\* recordAdvance: cash, or a transaction the provider vouches for.
RecordAdvance(a) ==
    LET k == KeyOf[a]
        t == ChargeOf[a]
    IN  /\ t # NoOne => charge[t].state = "paid" /\ charge[t].amount = Amount[a]
        /\ pay[k] = NoPayment
        /\ booking.status \notin Terminal
        /\ Amount[a] <= Remaining
        /\ Unrecorded(t)
        /\ Creditable(Amount[a])
        /\ pay' = [pay EXCEPT ![k] =
                      [purpose |-> "advance", status |-> "succeeded",
                       amount |-> Amount[a], until |-> 0,
                       txn |-> t, of |-> NoOne]]
        /\ booking' = Credited(Amount[a])
        /\ UNCHANGED <<now, charge, lock, req, lapsed, stalled>>

Refundable(r, o) == Amount[r] <= pay[o].amount - Total(RefundsOf(o))

\* recordRefund of the advance with key o.
RecordRefund(r, o) ==
    LET k == KeyOf[r]
    IN  /\ o \in Advances
        /\ pay[k] = NoPayment
        /\ Refundable(r, o)
        /\ Amount[r] <= booking.paid
        /\ pay' = [pay EXCEPT
                     ![k] = [purpose |-> "advance_refund",
                             status |-> "succeeded", amount |-> Amount[r],
                             until |-> 0, txn |-> NoOne, of |-> o],
                     ![o].status = IF Total(RefundsOf(o)) + Amount[r] = pay[o].amount
                                   THEN "refunded" ELSE @]
        /\ booking' = [booking EXCEPT !.paid = @ - Amount[r]]
        /\ UNCHANGED <<now, charge, lock, req, lapsed, stalled>>

\* transition, but for cancellations.
Transition(s) ==
    /\ s \in Transitions[booking.status] \ {"cancelled"}
    /\ IF s = "confirmed"
       THEN /\ booking.status = "pending_advance" =>
                   booking.paid >= Due /\ HoldComplete(now)
            /\ booking.expiresAt > 0 => booking.expiresAt > now
            /\ booking' = Confirmed(booking)
       ELSE booking' = [booking EXCEPT
                          !.status = s,
                          !.slot = IF s \in Terminal THEN "released" ELSE @]
    /\ UNCHANGED <<now, pay, charge, lock, req, lapsed, stalled>>

\* cancel, and transition to cancelled.
Cancel ==
    /\ booking.status \in Active
    /\ booking' = [booking EXCEPT !.status = "cancelled", !.slot = "released",
                                  !.reason = "asked"]
    /\ UNCHANGED <<now, pay, charge, lock, req, lapsed, stalled>>

-----------------------------------------------------------------------------
(* The lifecycle worker and the clock *)

\* Mutant of ExpireHold: bookings on which a part was paid are left alone.
ExpireUnpaidHold ==
    /\ booking.status = "pending_advance"
    /\ booking.expiresAt <= now
    /\ booking.paid = 0
    /\ booking' = [booking EXCEPT !.status = "cancelled", !.slot = "released",
                                  !.reason = "expired"]
    /\ UNCHANGED <<now, pay, charge, lock, req, lapsed, stalled>>

\* expireDueHoldsCore, for one booking.
ExpireHold ==
    /\ booking.status = "pending_advance"
    /\ booking.expiresAt <= now
    /\ booking' = [booking EXCEPT !.status = "cancelled", !.slot = "released",
                                  !.reason = "expired"]
    /\ UNCHANGED <<now, pay, charge, lock, req, lapsed, stalled>>

\* The TTL index on holdExpiresAt deletes the reservations of a lapsed hold.
PurgeHold ==
    /\ booking.slot = "held"
    /\ booking.expiresAt <= now
    /\ booking' = [booking EXCEPT !.slot = "released"]
    /\ UNCHANGED <<now, pay, charge, lock, req, lapsed, stalled>>

Tick ==
    /\ now < Horizon
    /\ now' = now + 1
    /\ lapsed' = lapsed \cup {c \in Checkout : /\ req[c].pc \in UnderLock
                                             /\ lock.holder = c
                                             /\ lock.until <= now'}
    /\ UNCHANGED <<booking, pay, charge, lock, req, stalled>>

Next ==
    \/ \E c \in Checkout : Begin(c) \/ CheckoutStep(c) \/ Heartbeat(c) \/ Crash(c)
    \/ \E k \in Key : CustomerPays(k) \/ Settle(k)
    \/ \E a \in Advance : RecordAdvance(a)
    \/ \E r \in Refund, o \in Key : RecordRefund(r, o)
    \/ \E s \in Active \cup Terminal : Transition(s)
    \/ Cancel
    \/ ExpireHold
    \/ PurgeHold
    \/ Tick

Spec == Init /\ [][Next]_vars

\* Requests that have begun go on, the worker loops, and time passes.
Fairness == /\ \A c \in Checkout : WF_vars(CheckoutStep(c))
            /\ WF_vars(ExpireHold)
            /\ WF_vars(Tick)

FairSpec == Spec /\ Fairness

-----------------------------------------------------------------------------
(* Properties *)

\* Every document keeps its type; in particular the advance paid stays
\* between zero and the advance due, which the pre-validate hook of Booking
\* would otherwise turn into a failed save.
TypeOK ==
    /\ now \in Time
    /\ booking \in BookingRecord
    /\ pay \in [Key -> Payment]
    /\ charge \in [Key -> Charge]
    /\ lock \in [holder : Checkout \cup {NoOne}, until : Time]
    /\ req \in [Checkout -> Progress]
    /\ lapsed \in SUBSET Checkout
    /\ stalled \in SUBSET Key

\* The books agree: advancePaidMinor, which settlements, staff and refunds
\* each add to or take from, is always the advances that succeeded less the
\* refunds, however often a webhook or a request is repeated.
\* No advance is refunded beyond its amount, however many refunds are
\* recorded, and it is marked refunded exactly when nothing of it is left.
BooksBalance ==
    /\ booking.paid = Total(Advances) -
                      Total({k \in Key : pay[k].purpose = "advance_refund"})
    /\ \A o \in Advances :
         LET back == Total(RefundsOf(o))
         IN  /\ back <= pay[o].amount
             /\ pay[o].status = "refunded" <=> back = pay[o].amount

\* A charge of the provider is credited once, whether its webhook or staff
\* come first.
ChargesCreditedOnce ==
    \A t \in Key : Cardinality({k \in Advances : pay[k].txn = t}) <= 1

\* A customer never has two checkouts of one booking to pay, whatever else
\* is stored: those of requests whose lock ran out before they stored them
\* are left out, and no other request adds one of its own.
OneActiveCheckout == Cardinality(ActiveAt(now) \ stalled) <= 1

\* A customer who pays an open checkout of a pending booking pays the right
\* amount in time: the settlement, if it came at once, would be accepted,
\* unless staff have recorded an advance of the same booking.
OpenCheckoutSettles ==
    (\A a \in Advance : pay[KeyOf[a]] = NoPayment) =>
    \A k \in ActiveAt(now) :
        /\ booking.status = "pending_advance" /\ booking.slot = "held"
        /\ charge[k].state = "paid" /\ charge[k].at = now
        => Settleable(k)

Contract == INSTANCE BookingContract WITH
                status <- booking.status,
                slot <- booking.slot,
                paid <- booking.paid

\* The booking keeps its contract: all the operations that write it, in any
\* order, follow the diagram of statuses, keep the reservations in step with
\* the status, and confirm a required advance with the payment that
\* completes it and not otherwise.
ContractKept == Contract!Spec

\* A booking does not wait for its advance for ever, and a checkout that dies does
\* not lock it for ever.
HoldEnds ==
    /\ booking.status = "pending_advance" ~> booking.status # "pending_advance"
    /\ lock.holder # NoOne ~> lock.holder = NoOne \/ lock.until <= now
=============================================================================
