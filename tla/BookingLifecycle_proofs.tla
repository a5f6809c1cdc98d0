---------------------- MODULE BookingLifecycle_proofs ----------------------
(***************************************************************************)
(* Proofs about BookingLifecycle, for every set of requests, every advance *)
(* and every timing.                                                       *)
(***************************************************************************)
EXTENDS BookingLifecycle, FiniteSetTheorems, TLAPS

(***************************************************************************)
(* Types                                                                   *)
(***************************************************************************)

\* What the actions need of the types of the documents they write.
LEMMA BookingFields ==
    ASSUME TypeOK
    PROVE  /\ booking \in BookingRecord
           /\ booking.status \in Active \cup Terminal
           /\ booking.paid \in 0 .. Due
           /\ booking.paid \in Nat /\ Due \in Nat
           /\ booking.expiresAt \in Time
    BY PolicyAssumption DEF TypeOK, BookingRecord, Money

\* A credit within what is left keeps the type of the booking.
LEMMA CreditedType ==
    ASSUME TypeOK, NEW a \in Nat, a <= Remaining
    PROVE  Credited(a) \in BookingRecord
<1> DEFINE b == [booking EXCEPT !.paid = @ + a]
<1>1. booking.paid + a \in Money
    BY BookingFields DEF Remaining, Money
<1>2. b \in BookingRecord
    BY <1>1, BookingFields DEF BookingRecord
<1>3. [b EXCEPT !.status = "confirmed", !.slot = "confirmed", !.expiresAt = 0]
          \in BookingRecord
    <2>1. 0 \in Time
        BY TimeAssumption DEF Time
    <2> HIDE DEF b
    <2> QED  BY <1>2, <2>1 DEF BookingRecord, Active
<1> QED  BY <1>2, <1>3 DEF Credited, Confirmed

LEMMA TypeInit == Init => TypeOK
<1> SUFFICES ASSUME Init PROVE TypeOK
    OBVIOUS
<1>1. 0 \in Time /\ 0 \in Money /\ HoldUntil \in Time
    BY TimeAssumption, PolicyAssumption DEF Time, Money
<1>2. booking \in BookingRecord
    <2>1. CASE Requirement = "required"
        BY <1>1, <2>1 DEF Init, BookingRecord, Active
    <2>2. CASE Requirement # "required"
        BY <1>1, <2>2 DEF Init, BookingRecord, Active
    <2> QED  BY <2>1, <2>2
<1>3. pay \in [Key -> Payment]
    BY <1>1 DEF Init, NoPayment, Payment
<1>4. charge \in [Key -> Charge]
    BY <1>1 DEF Init, Charge
<1>5. req \in [Checkout -> Progress]
    BY <1>1 DEF Init, NotBegun, Progress
<1>6. lock \in [holder : Checkout \cup {NoOne}, until : Time] /\ now \in Time
    BY <1>1 DEF Init
<1>7. lapsed \in SUBSET Checkout /\ stalled \in SUBSET Key
    BY DEF Init
<1> QED  BY <1>2, <1>3, <1>4, <1>5, <1>6, <1>7 DEF TypeOK

\* A step of a request that only moves it on.
LEMMA GoType ==
    ASSUME TypeOK, NEW c \in Checkout, NEW p \in {"idle", "begun", "closing",
               "dead", "locked", "swept", "checked", "billed", "open"},
           Go(c, p)
    PROVE  req' \in [Checkout -> Progress]
    BY DEF TypeOK, Go, Progress, UnderLock

\* Every operation, every step of a checkout and the clock keep the types.
THEOREM TypeStep == TypeOK /\ [Next]_vars => TypeOK'
<1> SUFFICES ASSUME TypeOK, [Next]_vars PROVE TypeOK'
    OBVIOUS
<1>a. /\ now \in Time /\ booking \in BookingRecord
      /\ pay \in [Key -> Payment] /\ charge \in [Key -> Charge]
      /\ lock \in [holder : Checkout \cup {NoOne}, until : Time]
      /\ req \in [Checkout -> Progress]
      /\ lapsed \in SUBSET Checkout /\ stalled \in SUBSET Key
    BY DEF TypeOK
<1>b. 0 \in Time /\ 0 \in Money /\ Time \subseteq Nat /\ Money \subseteq Nat
      /\ Horizon \in Nat /\ LockTtl \in Nat /\ Due \in Nat
    BY TimeAssumption, PolicyAssumption DEF Time, Money
<1>c. \A r \in Request : KeyOf[r] \in Key /\ Amount[r] \in Nat
    BY RequestAssumption
<1>d. Checkout \subseteq Request /\ Advance \subseteq Request /\ Refund \subseteq Request
    BY DEF Request
<1>1. ASSUME NEW c \in Checkout, Begin(c) PROVE TypeOK'
    <2> DEFINE a == IF Amount[c] = 0 THEN Remaining ELSE Amount[c]
    <2>1. Remaining \in Nat
        BY BookingFields, <1>1 DEF Remaining, Begin
    <2>2. a \in Nat /\ a <= Remaining
        BY <2>1, <1>1, <1>c, <1>d DEF Begin, Collectible
    <2>3. a \in Money
        BY <2>1, <2>2, BookingFields DEF Money, Remaining
    <2>4. req' = [req EXCEPT ![c].pc = "begun", ![c].amount = a]
        BY <1>1 DEF Begin
    <2> HIDE DEF a
    <2>5. req' \in [Checkout -> Progress]
        BY <1>a, <2>3, <2>4 DEF Progress
    <2> QED  BY <1>a, <1>1, <2>5 DEF Begin, TypeOK
<1>2. ASSUME NEW c \in Checkout, TakeLock(c) PROVE TypeOK'
    <2>1. req' \in [Checkout -> Progress]
        BY <1>2, GoType DEF TakeLock
    <2>2. now + LockTtl \in Time
        BY <1>a, <1>b, <1>2 DEF TakeLock, Time
    <2> QED  BY <1>a, <1>2, <2>1, <2>2 DEF TakeLock, LockedBy, TypeOK
<1>3. ASSUME NEW c \in Checkout, Busy(c) PROVE TypeOK'
    BY <1>a, <1>b, <1>3 DEF Busy, NotBegun, Progress, TypeOK
<1>4. ASSUME NEW c \in Checkout, Heartbeat(c) PROVE TypeOK'
    <2>1. now + LockTtl \in Time
        BY <1>a, <1>b, <1>4 DEF Heartbeat, Time
    <2> QED  BY <1>a, <1>4, <2>1 DEF Heartbeat, TypeOK
<1>5. ASSUME NEW c \in Checkout, Sweep(c) PROVE TypeOK'
    <2>1. pay' \in [Key -> Payment]
        BY <1>a, <1>5 DEF Sweep, Payment
    <2>2. req' \in [Checkout -> Progress]
        BY <1>a, <1>5 DEF Sweep, Progress, UnderLock
    <2> QED  BY <1>a, <1>5, <2>1, <2>2 DEF Sweep, TypeOK
<1>6. ASSUME NEW c \in Checkout, Recheck(c) PROVE TypeOK'
    <2>1. req' \in [Checkout -> Progress]
        BY <1>6, GoType DEF Recheck
    <2> QED  BY <1>a, <1>6, <2>1 DEF Recheck, TypeOK
<1>7. ASSUME NEW c \in Checkout, AskProvider(c) PROVE TypeOK'
    <2>1. PICK u \in {t \in Time : t > now}, next \in {"billed", "closing"} :
              /\ charge' = [charge EXCEPT ![KeyOf[c]] =
                     IF charge[KeyOf[c]].state = "none"
                     THEN [state |-> "open", amount |-> req[c].amount,
                           until |-> u, at |-> 0]
                     ELSE charge[KeyOf[c]]]
              /\ Go(c, next)
        BY <1>7 DEF AskProvider
    <2>2. req' \in [Checkout -> Progress]
        BY <2>1, GoType
    <2>3. req[c].amount \in Money
        BY <1>a DEF Progress
    <2>4. charge' \in [Key -> Charge]
        BY <1>a, <1>b, <1>c, <1>d, <2>1, <2>3 DEF Charge
    <2> QED  BY <1>a, <1>7, <2>2, <2>4 DEF AskProvider, TypeOK
<1>8. ASSUME NEW c \in Checkout, ProviderFails(c) PROVE TypeOK'
    <2>1. req' \in [Checkout -> Progress]
        BY <1>8, GoType DEF ProviderFails
    <2> QED  BY <1>a, <1>8, <2>1 DEF ProviderFails, TypeOK
<1>9. ASSUME NEW c \in Checkout, OpenStore(c) PROVE TypeOK'
    <2>1. req' \in [Checkout -> Progress]
        BY <1>9, GoType DEF OpenStore
    <2> QED  BY <1>a, <1>9, <2>1 DEF OpenStore, TypeOK
<1>10. ASSUME NEW c \in Checkout, CommitStore(c) PROVE TypeOK'
    <2>1. req' \in [Checkout -> Progress]
        BY <1>10, GoType DEF CommitStore
    <2>2. req[c].amount \in Money /\ charge[KeyOf[c]].until \in Time
        BY <1>a, <1>c, <1>d DEF Progress, Charge
    <2>3. pay' \in [Key -> Payment]
        BY <1>a, <1>c, <1>d, <1>10, <2>2 DEF CommitStore, Payment
    <2> QED  BY <1>a, <1>10, <2>1, <2>3 DEF CommitStore, TypeOK
<1>11. ASSUME NEW c \in Checkout, RetryStore(c) PROVE TypeOK'
    <2>1. req' \in [Checkout -> Progress]
        BY <1>11, GoType DEF RetryStore
    <2> QED  BY <1>a, <1>11, <2>1 DEF RetryStore, TypeOK
<1>12. ASSUME NEW c \in Checkout, Release(c) PROVE TypeOK'
    <2>1. req' \in [Checkout -> Progress]
        BY <1>a, <1>b, <1>12 DEF Release, NotBegun, Progress
    <2>2. lock' \in [holder : Checkout \cup {NoOne}, until : Time]
        BY <1>a, <1>b, <1>12 DEF Release
    <2> QED  BY <1>a, <1>12, <2>1, <2>2 DEF Release, TypeOK
<1>13. ASSUME NEW c \in Checkout, Crash(c) PROVE TypeOK'
    <2>1. req' \in [Checkout -> Progress]
        BY <1>13, GoType DEF Crash
    <2> QED  BY <1>a, <1>13, <2>1 DEF Crash, TypeOK
<1>14. ASSUME NEW k \in Key, CustomerPays(k) PROVE TypeOK'
    <2>1. charge' \in [Key -> Charge]
        BY <1>a, <1>14 DEF CustomerPays, Charge
    <2> QED  BY <1>a, <1>14, <2>1 DEF CustomerPays, TypeOK
<1>15. ASSUME NEW k \in Key, Settle(k) PROVE TypeOK'
    <2>1. charge[k].amount \in Nat /\ charge[k].amount <= Remaining
        BY <1>a, <1>b, <1>15 DEF Settle, Settleable, Acceptable, Collectible, Charge
    <2>2. booking' \in BookingRecord
        BY <1>15, <2>1, CreditedType DEF Settle
    <2>3. pay' \in [Key -> Payment]
        <3>1. pay[k] \in Payment
            BY <1>a
        <3>2. [pay[k] EXCEPT !.status = "succeeded", !.txn = k] \in Payment
            BY <3>1 DEF Payment
        <3>3. pay' = [pay EXCEPT ![k] = [pay[k] EXCEPT !.status = "succeeded", !.txn = k]]
            BY <1>15 DEF Settle
        <3> QED  BY <1>a, <3>2, <3>3
    <2> QED  BY <1>a, <1>15, <2>2, <2>3 DEF Settle, TypeOK
<1>16. ASSUME NEW a \in Advance, RecordAdvance(a) PROVE TypeOK'
    <2>1. Amount[a] \in Nat /\ Amount[a] <= Remaining
        BY <1>c, <1>d, <1>16 DEF RecordAdvance
    <2>2. booking' \in BookingRecord
        BY <1>16, <2>1, CreditedType DEF RecordAdvance
    <2>3. Amount[a] \in Money
        BY <2>1, BookingFields DEF Remaining, Money
    <2>4. pay' \in [Key -> Payment]
        <3>1. KeyOf[a] \in Key /\ ChargeOf[a] \in Key \cup {NoOne}
            BY RequestAssumption, <1>d
        <3> QED  BY <1>a, <1>b, <1>16, <2>3, <3>1 DEF RecordAdvance, Payment
    <2> QED  BY <1>a, <1>16, <2>2, <2>4 DEF RecordAdvance, TypeOK
<1>17. ASSUME NEW r \in Refund, NEW o \in Key, RecordRefund(r, o) PROVE TypeOK'
    <2>1. Amount[r] \in Nat /\ Amount[r] <= booking.paid
        BY <1>c, <1>d, <1>17 DEF RecordRefund
    <2>2. Amount[r] \in Money /\ booking.paid - Amount[r] \in Money
        BY <2>1, BookingFields DEF Money
    <2>3. booking' \in BookingRecord
        BY <1>a, <1>17, <2>2 DEF RecordRefund, BookingRecord
    <2>4. pay' \in [Key -> Payment]
        <3> DEFINE p == [purpose |-> "advance_refund", status |-> "succeeded",
                         amount |-> Amount[r], until |-> 0, txn |-> NoOne, of |-> o]
        <3>1. p \in Payment
            BY <1>b, <2>2 DEF Payment
        <3>2. PICK z \in {"refunded", pay[o].status} :
                  pay' = [pay EXCEPT ![KeyOf[r]] = p, ![o].status = z]
            BY <1>17 DEF RecordRefund
        <3>3. \A x \in Payment : [x EXCEPT !.status = "refunded"] \in Payment
            BY DEF Payment
        <3> HIDE DEF p
        <3>4. pay' = [[pay EXCEPT ![KeyOf[r]] = p] EXCEPT ![o].status = z]
            BY <3>2
        <3> QED  BY <1>a, <1>c, <1>d, <3>1, <3>3, <3>4 DEF Payment
    <2> QED  BY <1>a, <1>17, <2>3, <2>4 DEF RecordRefund, TypeOK
<1>18. ASSUME NEW t \in Active \cup Terminal, Transition(t) PROVE TypeOK'
    <2>1. booking' \in BookingRecord
        <3>1. CASE t = "confirmed"
            BY <1>a, <1>b, <1>18, <3>1 DEF Transition, Confirmed, BookingRecord
        <3>2. CASE t # "confirmed"
            BY <1>a, <1>18, <3>2 DEF Transition, BookingRecord
        <3> QED  BY <3>1, <3>2
    <2> QED  BY <1>a, <1>18, <2>1 DEF Transition, TypeOK
<1>19. ASSUME Cancel PROVE TypeOK'
    <2>1. booking' \in BookingRecord
        BY <1>a, <1>19 DEF Cancel, BookingRecord, Terminal
    <2> QED  BY <1>a, <1>19, <2>1 DEF Cancel, TypeOK
<1>20. ASSUME ExpireHold PROVE TypeOK'
    <2>1. booking' \in BookingRecord
        BY <1>a, <1>20 DEF ExpireHold, BookingRecord, Terminal
    <2> QED  BY <1>a, <1>20, <2>1 DEF ExpireHold, TypeOK
<1>21. ASSUME PurgeHold PROVE TypeOK'
    <2>1. booking' \in BookingRecord
        BY <1>a, <1>21 DEF PurgeHold, BookingRecord
    <2> QED  BY <1>a, <1>21, <2>1 DEF PurgeHold, TypeOK
<1>22. ASSUME Tick PROVE TypeOK'
    BY <1>a, <1>b, <1>22 DEF Tick, Time, TypeOK
<1>23. CASE UNCHANGED vars
    BY <1>a, <1>23 DEF vars, TypeOK
<1> QED
    BY <1>1, <1>2, <1>3, <1>4, <1>5, <1>6, <1>7, <1>8, <1>9, <1>10, <1>11, <1>12,
       <1>13, <1>14, <1>15, <1>16, <1>17, <1>18, <1>19, <1>20, <1>21, <1>22, <1>23
    DEF Next, CheckoutStep

\* Type correctness.
THEOREM TypeCorrect == Spec => []TypeOK
    BY TypeInit, TypeStep, PTL DEF Spec

(***************************************************************************)
(* The contract                                                            *)
(***************************************************************************)

\* What ties the status, the reservations and the advance together between
\* two operations: a pending booking is one whose required advance is not
\* complete, the slot is held exactly while the booking is pending, and it
\* is the customer's until the end of the visit.
InStep ==
    /\ booking.status # "requested"
    /\ booking.status = "pending_advance" =>
           /\ Requirement = "required"
           /\ booking.paid < Due
           /\ booking.slot \in {"held", "released"}
    /\ booking.status \in {"confirmed", "checked_in", "in_progress"} =>
           booking.slot = "confirmed"
    /\ booking.status \in Terminal => booking.slot = "released"

\* The refinement is proved from these two.
ContractInv == TypeOK /\ InStep

LEMMA ContractInit == Init => InStep /\ Contract!Init
<1> SUFFICES ASSUME Init PROVE InStep /\ Contract!Init
    OBVIOUS
<1>1. CASE Requirement = "required"
    BY <1>1, PolicyAssumption DEF Init, InStep, Contract!Init, Terminal
<1>2. CASE Requirement # "required"
    BY <1>2, PolicyAssumption DEF Init, InStep, Contract!Init, Terminal
<1> QED  BY <1>1, <1>2

\* What a payment within the remaining advance does to the booking.
LEMMA CreditKeepsContract ==
    ASSUME ContractInv,
           NEW a \in Nat, a <= Remaining, Creditable(a),
           booking.status \notin Terminal,
           booking' = Credited(a)
    PROVE  InStep' /\ [Contract!Next]_(Contract!contractVars)
<1>1. /\ booking \in BookingRecord /\ booking.paid \in Nat /\ Due \in Nat
      /\ booking.paid + a <= Due
      /\ booking.status \in Active \ {"requested"}
    BY BookingFields DEF ContractInv, InStep, Remaining
<1>2. CASE PaidUp(a)
    <2>1. /\ booking.status = "pending_advance" /\ booking.slot = "held"
          /\ booking.paid < Due /\ booking.paid + a = Due
        BY <1>1, <1>2 DEF ContractInv, InStep, PaidUp, Creditable, HoldComplete
    <2>2. /\ booking'.status = "confirmed" /\ booking'.slot = "confirmed"
          /\ booking'.paid = booking.paid + a
        BY <1>1, <1>2 DEF Credited, Confirmed, BookingRecord
    <2>3. Contract!PayAndConfirm
        BY <2>1, <2>2 DEF Contract!PayAndConfirm
    <2>4. InStep'
        BY <2>2 DEF InStep, Terminal
    <2> QED  BY <2>3, <2>4 DEF Contract!Next
<1>3. CASE ~PaidUp(a)
    <2>1. /\ booking'.status = booking.status /\ booking'.slot = booking.slot
          /\ booking'.paid = booking.paid + a
        BY <1>1, <1>3 DEF Credited, BookingRecord
    <2>2. booking.status = "pending_advance" => booking.paid + a < Due
        BY <1>1, <1>3 DEF PaidUp
    <2>3. InStep'
        BY <2>1, <2>2 DEF ContractInv, InStep
    <2>4. CASE a = 0
        BY <1>1, <2>1, <2>3, <2>4 DEF Contract!contractVars
    <2>5. CASE a > 0
        <3>1. Contract!PayPart
            BY <1>1, <2>1, <2>2, <2>5 DEF Contract!PayPart, Contract!Over, Terminal, Active
        <3> QED  BY <2>3, <3>1 DEF Contract!Next
    <2> QED  BY <2>4, <2>5
<1> QED  BY <1>2, <1>3

\* The status diagram of the code, one line for each status the contract has.
LEMMA Diagram ==
    ASSUME NEW t \in Active \cup Terminal, NEW f \in (Active \cup Terminal) \ {"requested"},
           t \in Transitions[f] \ {"cancelled"}
    PROVE  \/ f = "pending_advance" /\ t = "confirmed"
           \/ f = "confirmed" /\ t \in {"checked_in", "no_show"}
           \/ f = "checked_in" /\ t \in {"in_progress", "no_show"}
           \/ f = "in_progress" /\ t = "completed"
    BY DEF Transitions, Active, Terminal

\* Staff move the booking along the diagram and never out of step.
LEMMA TransitionKeepsContract ==
    ASSUME ContractInv, NEW t \in Active \cup Terminal, Transition(t)
    PROVE  InStep' /\ [Contract!Next]_(Contract!contractVars)
<1>1. booking \in BookingRecord /\ booking.paid \in Nat /\ Due \in Nat
    BY BookingFields DEF ContractInv
<1>2. /\ booking.status \in (Active \cup Terminal) \ {"requested"}
      /\ t \in Transitions[booking.status] \ {"cancelled"}
    BY BookingFields DEF ContractInv, InStep, Transition
<1>3. ~(booking.status = "pending_advance" /\ t = "confirmed")
    BY <1>1 DEF ContractInv, InStep, Transition
<1>4. \/ booking.status = "confirmed" /\ t \in {"checked_in", "no_show"}
      \/ booking.status = "checked_in" /\ t \in {"in_progress", "no_show"}
      \/ booking.status = "in_progress" /\ t = "completed"
    BY <1>2, <1>3, Diagram
<1>5. /\ booking'.status = t /\ booking'.paid = booking.paid
      /\ booking'.slot = IF t \in Terminal THEN "released" ELSE booking.slot
    BY <1>1, <1>4 DEF Transition, BookingRecord
<1>6. booking.slot = "confirmed"
    BY <1>4 DEF ContractInv, InStep
<1>7. InStep'
    BY <1>4, <1>5, <1>6 DEF InStep, Terminal
<1>8. CASE t \in Terminal
    <2>1. Contract!End
        BY <1>4, <1>5, <1>8 DEF Contract!End, Contract!Over, Terminal
    <2> QED  BY <1>7, <2>1 DEF Contract!Next
<1>9. CASE t \notin Terminal
    <2>1. Contract!Proceed
        BY <1>4, <1>5, <1>6, <1>9 DEF Contract!Proceed, Terminal
    <2> QED  BY <1>7, <2>1 DEF Contract!Next
<1> QED  BY <1>8, <1>9

\* Cancellations, whoever asks for them.
LEMMA EndKeepsContract ==
    ASSUME ContractInv, Cancel \/ ExpireHold
    PROVE  InStep' /\ [Contract!Next]_(Contract!contractVars)
<1>1. booking \in BookingRecord
    BY BookingFields DEF ContractInv
<1>2. /\ booking'.status = "cancelled" /\ booking'.slot = "released"
      /\ booking'.paid = booking.paid
    BY <1>1 DEF Cancel, ExpireHold, BookingRecord
<1>3. booking.status \notin Terminal
    BY DEF Cancel, ExpireHold, Active, Terminal
<1>4. InStep'
    BY <1>2 DEF InStep, Terminal
<1>5. Contract!End
    BY <1>2, <1>3 DEF Contract!End, Contract!Over, Terminal
<1> QED  BY <1>4, <1>5 DEF Contract!Next

\* Refunds take back some of the advance and leave the status alone.
LEMMA RefundKeepsContract ==
    ASSUME ContractInv, NEW r \in Refund, NEW o \in Key, RecordRefund(r, o)
    PROVE  InStep' /\ [Contract!Next]_(Contract!contractVars)
<1>1. booking \in BookingRecord /\ booking.paid \in Nat /\ Due \in Nat
    BY BookingFields DEF ContractInv
<1>2. Amount[r] \in Nat \ {0} /\ Amount[r] <= booking.paid
    BY RequestAssumption DEF RecordRefund, Request
<1>3. /\ booking'.status = booking.status /\ booking'.slot = booking.slot
      /\ booking'.paid = booking.paid - Amount[r]
    BY <1>1 DEF RecordRefund, BookingRecord
<1>4. booking'.paid \in 0 .. booking.paid - 1
    BY <1>1, <1>2, <1>3
<1>5. InStep'
    BY <1>1, <1>2, <1>3 DEF ContractInv, InStep
<1>6. Contract!PayBack
    BY <1>3, <1>4 DEF Contract!PayBack
<1> QED  BY <1>5, <1>6 DEF Contract!Next

\* The TTL index frees the slot of a pending booking only.
LEMMA PurgeKeepsContract ==
    ASSUME ContractInv, PurgeHold
    PROVE  InStep' /\ [Contract!Next]_(Contract!contractVars)
<1>1. booking \in BookingRecord /\ booking.status \in Active \cup Terminal
    BY BookingFields DEF ContractInv
<1>2. /\ booking'.status = booking.status /\ booking'.slot = "released"
      /\ booking'.paid = booking.paid /\ booking.slot = "held"
    BY <1>1 DEF PurgeHold, BookingRecord
<1>3. booking.status = "pending_advance"
    BY <1>1, <1>2 DEF ContractInv, InStep, Active, Terminal
<1>4. InStep'
    BY <1>2, <1>3 DEF ContractInv, InStep, Terminal
<1>5. Contract!Lapse
    BY <1>2, <1>3 DEF Contract!Lapse
<1> QED  BY <1>4, <1>5 DEF Contract!Next

\* Every step of the program is a step of the contract or leaves it alone.
THEOREM ContractStep ==
    ContractInv /\ [Next]_vars => InStep' /\ [Contract!Next]_(Contract!contractVars)
<1> SUFFICES ASSUME ContractInv, [Next]_vars
             PROVE  InStep' /\ [Contract!Next]_(Contract!contractVars)
    OBVIOUS
<1>1. CASE UNCHANGED booking
    BY <1>1 DEF ContractInv, InStep, Contract!contractVars
<1>2. ASSUME NEW c \in Checkout, Begin(c) \/ CheckoutStep(c) \/ Heartbeat(c) \/ Crash(c)
      PROVE  UNCHANGED booking
    BY <1>2 DEF Begin, CheckoutStep, Heartbeat, Crash, TakeLock, Busy, Sweep, Recheck,
                AskProvider, ProviderFails, OpenStore, CommitStore, RetryStore, Release
<1>3. ASSUME NEW k \in Key, CustomerPays(k) PROVE UNCHANGED booking
    BY <1>3 DEF CustomerPays
<1>4. ASSUME NEW k \in Key, Settle(k)
      PROVE  InStep' /\ [Contract!Next]_(Contract!contractVars)
    <2>1. charge[k].amount \in Nat
        BY PolicyAssumption DEF ContractInv, TypeOK, Charge, Money
    <2>2. booking.status \notin Terminal
        BY <1>4 DEF Settle, Settleable, Acceptable, Eligible, Terminal
    <2> QED
        BY <1>4, <2>1, <2>2, CreditKeepsContract
        DEF Settle, Settleable, Acceptable, Collectible
<1>5. ASSUME NEW a \in Advance, RecordAdvance(a)
      PROVE  InStep' /\ [Contract!Next]_(Contract!contractVars)
    <2>1. Amount[a] \in Nat
        BY RequestAssumption DEF Request
    <2> QED
        BY <1>5, <2>1, CreditKeepsContract DEF RecordAdvance
<1>6. CASE UNCHANGED vars \/ Tick
    BY <1>1, <1>6 DEF vars, Tick
<1> QED
    BY <1>1, <1>2, <1>3, <1>4, <1>5, <1>6, RefundKeepsContract,
       TransitionKeepsContract, EndKeepsContract, PurgeKeepsContract
    DEF Next

\* The program implements the contract: whatever order checkouts, webhooks,
\* staff, refunds, the worker and the TTL index act in, the status follows
\* the diagram, the reservations follow the status, and a required advance
\* is confirmed by the payment that completes it.
THEOREM KeepsContract == Spec => ContractKept
<1>1. Init => ContractInv /\ Contract!Init
    BY TypeInit, ContractInit DEF ContractInv
<1>2. ContractInv /\ [Next]_vars => ContractInv' /\ [Contract!Next]_(Contract!contractVars)
    BY TypeStep, ContractStep DEF ContractInv
<1> QED
    BY <1>1, <1>2, PTL DEF Spec, ContractKept, Contract!Spec

(***************************************************************************)
(* Charges are credited once                                               *)
(***************************************************************************)

\* No two payments carry the same transaction of the provider.
DistinctTransactions ==
    \A k, l \in Key : pay[k].txn = pay[l].txn /\ pay[k].txn # NoOne => k = l

\* The payments either keep their transaction or get one nobody has.
LEMMA TransactionsStep ==
    ASSUME TypeOK, DistinctTransactions, [Next]_vars
    PROVE  DistinctTransactions'
<1>1. pay \in [Key -> Payment]
    BY DEF TypeOK
<1>2. ASSUME \A k \in Key : pay'[k].txn = pay[k].txn PROVE DistinctTransactions'
    BY <1>2 DEF DistinctTransactions
<1>3. CASE UNCHANGED pay
    BY <1>2, <1>3
<1>4. ASSUME NEW c \in Checkout, Sweep(c) PROVE DistinctTransactions'
    <2>1. \A k \in Key : pay'[k].txn = pay[k].txn
        BY <1>1, <1>4 DEF Sweep, Payment
    <2> QED  BY <1>2, <2>1
<1>5. ASSUME NEW c \in Checkout, CommitStore(c) PROVE DistinctTransactions'
    <2>1. \A k \in Key : pay'[k].txn = pay[k].txn
        BY <1>1, <1>5 DEF CommitStore, Payment, NoPayment
    <2> QED  BY <1>2, <2>1
<1>6. ASSUME NEW k \in Key, Settle(k) PROVE DistinctTransactions'
    <2>1. \A l \in Key : pay'[l].txn = IF l = k THEN k ELSE pay[l].txn
        BY <1>1, <1>6 DEF Settle, Payment
    <2>2. \A l \in Key : pay[l].txn # k
        BY <1>6, RequestAssumption DEF Settle, Settleable, Unrecorded
    <2> QED  BY <2>1, <2>2 DEF DistinctTransactions
<1>7. ASSUME NEW a \in Advance, RecordAdvance(a) PROVE DistinctTransactions'
    <2>1. \A l \in Key : pay'[l].txn = IF l = KeyOf[a] THEN ChargeOf[a] ELSE pay[l].txn
        BY <1>1, <1>7 DEF RecordAdvance, Payment
    <2>2. ChargeOf[a] = NoOne \/ \A l \in Key : pay[l].txn # ChargeOf[a]
        BY <1>7 DEF RecordAdvance, Unrecorded
    <2> QED  BY <2>1, <2>2 DEF DistinctTransactions
<1>8. ASSUME NEW r \in Refund, NEW o \in Key, RecordRefund(r, o)
      PROVE  DistinctTransactions'
    <2>1. \A l \in Key : pay'[l].txn = pay[l].txn
        BY <1>1, <1>8 DEF RecordRefund, Payment, NoPayment
    <2> QED  BY <1>2, <2>1
<1>9. ASSUME NEW c \in Checkout,
             \/ Begin(c) \/ TakeLock(c) \/ Busy(c) \/ Heartbeat(c) \/ Recheck(c)
             \/ AskProvider(c) \/ ProviderFails(c) \/ OpenStore(c)
             \/ RetryStore(c) \/ Release(c) \/ Crash(c)
      PROVE  UNCHANGED pay
    BY <1>9 DEF Begin, TakeLock, Busy, Heartbeat, Recheck, AskProvider, ProviderFails,
                OpenStore, RetryStore, Release, Crash
<1>10. ASSUME \/ \E k \in Key : CustomerPays(k)
              \/ \E t \in Active \cup Terminal : Transition(t)
              \/ Cancel \/ ExpireHold \/ PurgeHold \/ Tick \/ UNCHANGED vars
       PROVE  UNCHANGED pay
    BY <1>10 DEF CustomerPays, Transition, Cancel, ExpireHold, PurgeHold, Tick, vars
<1> QED
    BY <1>3, <1>4, <1>5, <1>6, <1>7, <1>8, <1>9, <1>10 DEF Next, CheckoutStep

\* A set without two different elements has at most one.
LEMMA AtMostOne ==
    ASSUME NEW S, \A x, y \in S : x = y
    PROVE  Cardinality(S) <= 1
<1>1. CASE S = {}
    BY <1>1, FS_EmptySet
<1>2. CASE S # {}
    <2>1. PICK x \in S : TRUE
        BY <1>2
    <2>2. S = {x}
        BY <2>1
    <2> QED  BY <2>2, FS_Singleton
<1> QED  BY <1>1, <1>2

\* Webhooks and staff credit a charge at most once between them.
THEOREM CreditedOnce == Spec => []ChargesCreditedOnce
<1>1. Init => DistinctTransactions
    BY DEF Init, NoPayment, DistinctTransactions
<1>2. DistinctTransactions => ChargesCreditedOnce
    <2> SUFFICES ASSUME DistinctTransactions, NEW t \in Key
                 PROVE  Cardinality({k \in Advances : pay[k].txn = t}) <= 1
        BY DEF ChargesCreditedOnce
    <2>1. \A x, y \in {k \in Advances : pay[k].txn = t} : x = y
        BY RequestAssumption DEF Advances, DistinctTransactions
    <2> QED  BY <2>1, AtMostOne
<1>3. TypeOK /\ DistinctTransactions /\ [Next]_vars => DistinctTransactions'
    BY TransactionsStep
<1> QED
    BY <1>1, <1>2, <1>3, TypeInit, TypeStep, PTL DEF Spec

(***************************************************************************)
(* One checkout at a time                                                  *)
(***************************************************************************)

\* Between taking the lock and releasing it a request holds it, unless its
\* time has run out.
Exclusive ==
    \A c \in Checkout : req[c].pc \in UnderLock /\ c \notin lapsed =>
        lock.holder = c /\ lock.until > now

\* The checkouts to pay that were stored under a lock.
Guarded == ActiveAt(now) \ stalled

\* A request about to store its checkout under its lock has no such one to
\* fear.
StoresAlone ==
    \A c \in Checkout : req[c].pc = "open" /\ c \notin lapsed => Guarded = {}

AtMostOneActive == \A k, l \in Guarded : k = l

LockInv == TypeOK /\ Exclusive /\ StoresAlone /\ AtMostOneActive

\* The steps that change nothing of a request but where it has come.
LEMMA GoesOn ==
    ASSUME NEW c \in Checkout,
           Recheck(c) \/ AskProvider(c) \/ ProviderFails(c) \/ OpenStore(c)
           \/ CommitStore(c) \/ RetryStore(c) \/ Crash(c)
    PROVE  /\ \E p \in {"checked", "billed", "open", "closing", "dead"} :
                  /\ Go(c, p)
                  /\ p \in UnderLock => req[c].pc \in UnderLock
                  /\ p = "open" => OpenStore(c)
           /\ UNCHANGED <<lock, now, lapsed>>
<1>1. CASE Recheck(c)
    BY <1>1 DEF Recheck, UnderLock
<1>2. CASE AskProvider(c)
    <2>1. PICK next \in {"billed", "closing"} : Go(c, next)
        BY <1>2 DEF AskProvider
    <2> QED  BY <1>2, <2>1 DEF AskProvider, UnderLock
<1>3. CASE ProviderFails(c)
    BY <1>3 DEF ProviderFails, UnderLock
<1>4. CASE OpenStore(c)
    <2>1. req[c].pc \in UnderLock /\ UNCHANGED <<lock, now, lapsed>>
        BY <1>4 DEF OpenStore, UnderLock
    <2>2. Go(c, "open") \/ Go(c, "closing")
        BY <1>4 DEF OpenStore
    <2> QED  BY <1>4, <2>1, <2>2
<1>5. CASE CommitStore(c)
    BY <1>5 DEF CommitStore, UnderLock
<1>6. CASE RetryStore(c)
    BY <1>6 DEF RetryStore, UnderLock
<1>7. CASE Crash(c)
    BY <1>7 DEF Crash, UnderLock
<1> QED  BY <1>1, <1>2, <1>3, <1>4, <1>5, <1>6, <1>7

\* The lock passes on only when nobody works under it, or its time is up.
LEMMA ExclusiveStep ==
    ASSUME LockInv, [Next]_vars
    PROVE  Exclusive'
<1>a. /\ now \in Nat /\ lock.until \in Nat /\ LockTtl \in Nat \ {0}
      /\ req \in [Checkout -> Progress]
      /\ lock \in [holder : Checkout \cup {NoOne}, until : Time]
      /\ NoOne \notin Checkout
    BY TimeAssumption, RequestAssumption DEF LockInv, TypeOK, Time, Request
<1>1. ASSUME NEW c \in Checkout, NEW p, Go(c, p), UNCHANGED <<lock, now, lapsed>>,
             p \in UnderLock => req[c].pc \in UnderLock
      PROVE  Exclusive'
    BY <1>a, <1>1 DEF Go, LockInv, Exclusive, Progress
<1>2. ASSUME NEW c \in Checkout, TakeLock(c) PROVE Exclusive'
    <2>1. \A d \in Checkout : req[d].pc \in UnderLock => d \in lapsed
        BY <1>a, <1>2 DEF TakeLock, LockFree, LockInv, Exclusive
    <2> QED
        BY <1>a, <1>2, <2>1 DEF TakeLock, LockedBy, Go, Exclusive, Progress
<1>3. ASSUME NEW c \in Checkout, Release(c) PROVE Exclusive'
    <2>1. \A d \in Checkout : req'[d].pc \in UnderLock => d # c /\ req[d].pc \in UnderLock
        BY <1>a, <1>3 DEF Release, NotBegun, UnderLock, Progress
    <2> QED
        BY <1>a, <1>3, <2>1 DEF Release, LockInv, Exclusive
<1>4. ASSUME NEW c \in Checkout, Heartbeat(c) PROVE Exclusive'
    BY <1>a, <1>4 DEF Heartbeat, LockInv, Exclusive
<1>5. CASE Tick
    BY <1>a, <1>5 DEF Tick, LockInv, Exclusive
<1>6. ASSUME NEW c \in Checkout, Begin(c) PROVE Exclusive'
    <2>1. \A d \in Checkout : req'[d].pc \in UnderLock => req[d].pc \in UnderLock
        BY <1>a, <1>6 DEF Begin, UnderLock, Progress
    <2> QED  BY <1>6, <2>1 DEF Begin, LockInv, Exclusive
<1>7. ASSUME NEW c \in Checkout, Busy(c) PROVE Exclusive'
    <2>1. \A d \in Checkout : req'[d].pc \in UnderLock => req[d].pc \in UnderLock
        BY <1>a, <1>7 DEF Busy, NotBegun, UnderLock, Progress
    <2> QED  BY <1>7, <2>1 DEF Busy, LockInv, Exclusive
<1>8. ASSUME NEW c \in Checkout, Sweep(c) PROVE Exclusive'
    <2>1. \A d \in Checkout : req'[d].pc \in UnderLock => req[d].pc \in UnderLock
        BY <1>a, <1>8 DEF Sweep, UnderLock, Progress
    <2> QED  BY <1>8, <2>1 DEF Sweep, LockInv, Exclusive
<1>9. ASSUME NEW c \in Checkout,
             Recheck(c) \/ AskProvider(c) \/ ProviderFails(c) \/ OpenStore(c)
             \/ CommitStore(c) \/ RetryStore(c) \/ Crash(c)
      PROVE  Exclusive'
    <2>1. PICK p : /\ Go(c, p) /\ UNCHANGED <<lock, now, lapsed>>
                   /\ p \in UnderLock => req[c].pc \in UnderLock
        BY <1>9, GoesOn
    <2> QED  BY <1>1, <2>1
<1>10. CASE UNCHANGED <<req, lock, now, lapsed>>
    BY <1>10 DEF LockInv, Exclusive
<1>11. ASSUME \/ \E k \in Key : CustomerPays(k) \/ Settle(k)
              \/ \E x \in Advance : RecordAdvance(x)
              \/ \E r \in Refund, o \in Key : RecordRefund(r, o)
              \/ \E t \in Active \cup Terminal : Transition(t)
              \/ Cancel \/ ExpireHold \/ PurgeHold \/ UNCHANGED vars
       PROVE  UNCHANGED <<req, lock, now, lapsed>>
    BY <1>11 DEF CustomerPays, Settle, RecordAdvance, RecordRefund, Transition,
                 Cancel, ExpireHold, PurgeHold, vars
<1> QED
    BY <1>2, <1>3, <1>4, <1>5, <1>6, <1>7, <1>8, <1>9, <1>10, <1>11
    DEF Next, CheckoutStep

\* Every step but CommitStore leaves no checkout active that was not.
LEMMA ActiveShrinks ==
    ASSUME LockInv, [Next]_vars, ~ \E c \in Checkout : CommitStore(c)
    PROVE  ActiveAt(now)' \subseteq ActiveAt(now)
<1>a. now \in Nat /\ pay \in [Key -> Payment] /\ \A k \in Key : pay[k].until \in Nat
    BY DEF LockInv, TypeOK, Time, Payment
<1>1. ASSUME now' = now \/ now' = now + 1,
             \A k \in Key : pay'[k].status = "pending" =>
                 pay[k].status = "pending" /\ pay'[k].until = pay[k].until
      PROVE  ActiveAt(now)' \subseteq ActiveAt(now)
    BY <1>a, <1>1 DEF ActiveAt
<1>2. CASE UNCHANGED pay /\ (UNCHANGED now \/ now' = now + 1)
    BY <1>1, <1>2
<1>3. ASSUME NEW c \in Checkout, Sweep(c)
      PROVE  ActiveAt(now)' \subseteq ActiveAt(now)
    <2>1. \A k \in Key : pay'[k].status = "pending" =>
                 pay[k].status = "pending" /\ pay'[k].until = pay[k].until
        BY <1>a, <1>3 DEF Sweep, Payment
    <2> QED  BY <1>1, <1>3, <2>1 DEF Sweep
<1>4. ASSUME NEW k \in Key, Settle(k)
      PROVE  ActiveAt(now)' \subseteq ActiveAt(now)
    <2>1. \A l \in Key : pay'[l].status = "pending" =>
                 pay[l].status = "pending" /\ pay'[l].until = pay[l].until
        BY <1>a, <1>4 DEF Settle, Payment
    <2> QED  BY <1>1, <1>4, <2>1 DEF Settle
<1>5. ASSUME NEW x \in Advance, RecordAdvance(x)
      PROVE  ActiveAt(now)' \subseteq ActiveAt(now)
    <2>1. \A l \in Key : pay'[l].status = "pending" =>
                 pay[l].status = "pending" /\ pay'[l].until = pay[l].until
        BY <1>a, <1>5 DEF RecordAdvance, Payment
    <2> QED  BY <1>1, <1>5, <2>1 DEF RecordAdvance
<1>6. ASSUME NEW r \in Refund, NEW o \in Key, RecordRefund(r, o)
      PROVE  ActiveAt(now)' \subseteq ActiveAt(now)
    <2>1. \A l \in Key : pay'[l].status = "pending" =>
                 pay[l].status = "pending" /\ pay'[l].until = pay[l].until
        <3>1. pay[o].status \in {"succeeded", "refunded"}
            BY <1>6 DEF RecordRefund, Advances
        <3> QED  BY <1>a, <1>6, <3>1 DEF RecordRefund, Payment
    <2> QED  BY <1>1, <1>6, <2>1 DEF RecordRefund
<1>7. ASSUME NEW c \in Checkout,
             \/ Begin(c) \/ TakeLock(c) \/ Busy(c) \/ Heartbeat(c) \/ Recheck(c)
             \/ AskProvider(c) \/ ProviderFails(c) \/ OpenStore(c)
             \/ RetryStore(c) \/ Release(c) \/ Crash(c)
      PROVE  UNCHANGED <<pay, now>>
    BY <1>7 DEF Begin, TakeLock, Busy, Heartbeat, Recheck, AskProvider, ProviderFails,
                OpenStore, RetryStore, Release, Crash
<1>8. ASSUME \/ \E k \in Key : CustomerPays(k)
             \/ \E t \in Active \cup Terminal : Transition(t)
             \/ Cancel \/ ExpireHold \/ PurgeHold \/ Tick \/ UNCHANGED vars
      PROVE  UNCHANGED pay /\ (UNCHANGED now \/ now' = now + 1)
    BY <1>8 DEF CustomerPays, Transition, Cancel, ExpireHold, PurgeHold, Tick, vars
<1> QED
    BY <1>2, <1>3, <1>4, <1>5, <1>6, <1>7, <1>8 DEF Next, CheckoutStep

\* A request gets to its insert only by finding no active checkout.
LEMMA OnlyOpenStoreOpens ==
    ASSUME TypeOK, [Next]_vars, NEW c \in Checkout, req'[c].pc = "open"
    PROVE  \/ req[c].pc = "open"
           \/ ActiveAt(now) = {} /\ UNCHANGED <<pay, now>>
<1>a. req \in [Checkout -> Progress]
    BY DEF TypeOK
<1>1. ASSUME NEW d \in Checkout, OpenStore(d)
      PROVE  \/ req[c].pc = "open"
             \/ ActiveAt(now) = {} /\ UNCHANGED <<pay, now>>
    BY <1>a, <1>1 DEF OpenStore, StorePossible, Go, Progress
<1>2. ASSUME NEW d \in Checkout,
             \/ Recheck(d) \/ AskProvider(d) \/ ProviderFails(d)
             \/ CommitStore(d) \/ RetryStore(d) \/ Crash(d)
      PROVE  \/ req[c].pc = "open"
             \/ ActiveAt(now) = {} /\ UNCHANGED <<pay, now>>
    <2>1. PICK p : Go(d, p) /\ (p = "open" => OpenStore(d))
        BY <1>2, GoesOn
    <2>2. CASE p = "open"
        BY <1>1, <2>1, <2>2
    <2>3. CASE p # "open"
        BY <1>a, <2>1, <2>3 DEF Go, Progress
    <2> QED  BY <2>2, <2>3
<1>3. ASSUME NEW d \in Checkout,
             \/ Begin(d) \/ TakeLock(d) \/ Busy(d) \/ Sweep(d) \/ Release(d)
             \/ Heartbeat(d)
      PROVE  req[c].pc = "open"
    BY <1>a, <1>3 DEF Begin, TakeLock, Go, Busy, Sweep, Release, Heartbeat, NotBegun, Progress
<1>4. ASSUME \/ \E k \in Key : CustomerPays(k) \/ Settle(k)
             \/ \E x \in Advance : RecordAdvance(x)
             \/ \E r \in Refund, o \in Key : RecordRefund(r, o)
             \/ \E t \in Active \cup Terminal : Transition(t)
             \/ Cancel \/ ExpireHold \/ PurgeHold \/ Tick \/ UNCHANGED vars
      PROVE  req[c].pc = "open"
    BY <1>4 DEF CustomerPays, Settle, RecordAdvance, RecordRefund, Transition,
                Cancel, ExpireHold, PurgeHold, Tick, vars
<1> QED
    BY <1>1, <1>2, <1>3, <1>4 DEF Next, CheckoutStep

\* A request whose lock has run out stays so until it takes the lock again,
\* and only CommitStore tells of it.
LEMMA LapsedStays ==
    ASSUME TypeOK, [Next]_vars
    PROVE  /\ \A c \in Checkout : req'[c].pc = "open" /\ c \notin lapsed' => c \notin lapsed
           /\ stalled \subseteq stalled'
<1>a. req \in [Checkout -> Progress]
    BY DEF TypeOK
<1>1. ASSUME NEW c \in Checkout, TakeLock(c)
      PROVE  /\ UNCHANGED stalled
             /\ \A d \in Checkout : req'[d].pc = "open" /\ d \notin lapsed' => d \notin lapsed
    BY <1>a, <1>1 DEF TakeLock, Go, Progress
<1>2. ASSUME NEW c \in Checkout, CommitStore(c)
      PROVE  UNCHANGED lapsed /\ stalled \subseteq stalled'
    BY <1>2 DEF CommitStore
<1>3. ASSUME Tick PROVE lapsed \subseteq lapsed' /\ UNCHANGED stalled
    BY <1>3 DEF Tick
<1>4. ASSUME NEW c \in Checkout,
             \/ Begin(c) \/ Busy(c) \/ Heartbeat(c) \/ Sweep(c) \/ Recheck(c)
             \/ AskProvider(c) \/ ProviderFails(c) \/ OpenStore(c)
             \/ RetryStore(c) \/ Release(c) \/ Crash(c)
      PROVE  UNCHANGED <<lapsed, stalled>>
    BY <1>4 DEF Begin, Busy, Heartbeat, Sweep, Recheck, AskProvider, ProviderFails,
                OpenStore, RetryStore, Release, Crash
<1>5. ASSUME \/ \E k \in Key : CustomerPays(k) \/ Settle(k)
             \/ \E x \in Advance : RecordAdvance(x)
             \/ \E r \in Refund, o \in Key : RecordRefund(r, o)
             \/ \E t \in Active \cup Terminal : Transition(t)
             \/ Cancel \/ ExpireHold \/ PurgeHold \/ UNCHANGED vars
      PROVE  UNCHANGED <<lapsed, stalled>>
    BY <1>5 DEF CustomerPays, Settle, RecordAdvance, RecordRefund, Transition,
                Cancel, ExpireHold, PurgeHold, vars
<1> QED
    BY <1>1, <1>2, <1>3, <1>4, <1>5 DEF Next, CheckoutStep

\* The invariant behind OneActiveCheckout.
LEMMA LockStep ==
    ASSUME LockInv, [Next]_vars
    PROVE  LockInv'
<1>1. TypeOK' /\ Exclusive'
    BY TypeStep, ExclusiveStep DEF LockInv
<1>0. /\ \A c \in Checkout : req'[c].pc = "open" /\ c \notin lapsed' => c \notin lapsed
      /\ stalled \subseteq stalled'
    BY LapsedStays DEF LockInv
<1>2. CASE ~ \E c \in Checkout : CommitStore(c)
    <2>1. Guarded' \subseteq Guarded
        BY <1>0, <1>2, ActiveShrinks DEF Guarded
    <2>2. AtMostOneActive'
        BY <2>1 DEF LockInv, AtMostOneActive
    <2>3. StoresAlone'
        <3> SUFFICES ASSUME NEW c \in Checkout, req'[c].pc = "open", c \notin lapsed'
                     PROVE  Guarded' = {}
            BY DEF StoresAlone
        <3>1. Guarded = {}
            BY <1>0, OnlyOpenStoreOpens DEF LockInv, StoresAlone, Guarded
        <3> QED  BY <2>1, <3>1
    <2> QED  BY <1>1, <2>2, <2>3 DEF LockInv
<1>3. ASSUME NEW c \in Checkout, CommitStore(c) PROVE LockInv'
    <2>0. ActiveAt(now)' \subseteq ActiveAt(now) \cup {KeyOf[c]}
        BY <1>3 DEF CommitStore, ActiveAt, LockInv, TypeOK
    <2>1. CASE c \in lapsed
        <3>1. stalled' = stalled \cup {KeyOf[c]}
            BY <1>3, <2>1 DEF CommitStore
        <3>2. Guarded' \subseteq Guarded
            BY <2>0, <3>1 DEF Guarded
        <3>3. \A d \in Checkout : req'[d].pc = "open" /\ d \notin lapsed' =>
                  req[d].pc = "open" /\ d \notin lapsed
            BY <1>3 DEF CommitStore, Go, LockInv, TypeOK, Progress
        <3>4. StoresAlone' /\ AtMostOneActive'
            BY <3>2, <3>3 DEF LockInv, StoresAlone, AtMostOneActive
        <3> QED  BY <1>1, <3>4 DEF LockInv
    <2>2. CASE c \notin lapsed
        <3>1. Guarded = {}
            BY <1>3, <2>2 DEF CommitStore, LockInv, StoresAlone
        <3>2. Guarded' \subseteq {KeyOf[c]}
            BY <1>0, <2>0, <3>1 DEF Guarded
        <3>3. AtMostOneActive'
            BY <3>2 DEF AtMostOneActive
        <3>4. \A d \in Checkout : req'[d].pc = "open" => d \in lapsed'
            <4>1. \A d \in Checkout \ {c} : req[d].pc = "open" => d \in lapsed
                BY <1>3, <2>2 DEF CommitStore, LockInv, Exclusive, UnderLock
            <4> QED  BY <1>3, <4>1 DEF CommitStore, Go, LockInv, TypeOK, Progress
        <3>5. StoresAlone'
            BY <3>4 DEF StoresAlone
        <3> QED  BY <1>1, <3>3, <3>5 DEF LockInv
    <2> QED  BY <2>1, <2>2
<1> QED  BY <1>2, <1>3

\* A customer never has two checkouts of one booking to pay but by a request
\* that stored its own after its lock had run out.
THEOREM OneCheckoutAtATime == Spec => []OneActiveCheckout
<1>1. Init => LockInv
    <2> SUFFICES ASSUME Init PROVE LockInv
        OBVIOUS
    <2>1. TypeOK
        BY TypeInit
    <2>2. Exclusive /\ StoresAlone
        BY DEF Init, NotBegun, Exclusive, StoresAlone, UnderLock
    <2>3. AtMostOneActive
        BY DEF Init, NoPayment, ActiveAt, Guarded, AtMostOneActive
    <2> QED  BY <2>1, <2>2, <2>3 DEF LockInv
<1>2. LockInv /\ [Next]_vars => LockInv'
    BY LockStep
<1>3. LockInv => OneActiveCheckout
    BY AtMostOne DEF LockInv, AtMostOneActive, Guarded, OneActiveCheckout
<1> QED
    BY <1>1, <1>2, <1>3, PTL DEF Spec

(***************************************************************************)
(* The books balance                                                       *)
(***************************************************************************)

Refunds == {k \in Key : pay[k].purpose = "advance_refund"}

\* The keys under which a payment is recorded.
Recorded == {k \in Key : pay[k] # NoPayment}

\* A checkout asks for something.
Asked == \A c \in Checkout : req[c].pc # "idle" => req[c].amount > 0

\* Payments are of something, and a refund is of an advance that was made.
Entries ==
    \A k \in Key :
        /\ pay[k].purpose = "advance" => pay[k].amount > 0
        /\ pay[k].status = "pending" => pay[k].purpose = "advance"
        /\ pay[k].purpose = "advance_refund" =>
              pay[k].status = "succeeded" /\ pay[k].of \in Advances

\* Finitely many payments have been made: sums are of finite sets.
Ledger ==
    /\ TypeOK
    /\ IsFiniteSet(Recorded)
    /\ Asked
    /\ Entries
    /\ BooksBalance

LEMMA UpTo ==
    ASSUME NEW n \in Nat
    PROVE  IsFiniteSet(1 .. n) /\ Cardinality(1 .. n) = n
<1>1. 1 \in Int /\ n \in Int /\ (IF 1 > n THEN 0 ELSE n - 1 + 1) = n
    OBVIOUS
<1>2. IsFiniteSet(1 .. n) /\ Cardinality(1 .. n) = IF 1 > n THEN 0 ELSE n - 1 + 1
    BY <1>1, FS_Interval
<1> QED  BY <1>1, <1>2

\* A sum of finitely many payments is a number.
LEMMA SumType ==
    ASSUME NEW p, NEW K, IsFiniteSet(K), \A k \in K : p[k].amount \in Nat
    PROVE  IsFiniteSet(Units(p, K)) /\ Cardinality(Units(p, K)) \in Nat
<1> DEFINE S == {{k} \X (1 .. p[k].amount) : k \in K}
<1>1. IsFiniteSet(S)
    <2> DEFINE f == [k \in K |-> {k} \X (1 .. p[k].amount)]
    <2>1. f \in Surjection(K, S)
        BY DEF Surjection
    <2> HIDE DEF S, f
    <2> QED  BY <2>1, FS_Surjection
<1>2. ASSUME NEW T \in S PROVE IsFiniteSet(T)
    <2>1. PICK k \in K : T = {k} \X (1 .. p[k].amount)
        OBVIOUS
    <2>2. IsFiniteSet({k}) /\ IsFiniteSet(1 .. p[k].amount)
        BY FS_Singleton, UpTo
    <2> QED  BY <2>1, <2>2, FS_Product
<1>3. IsFiniteSet(UNION S)
    <2> HIDE DEF S
    <2> QED  BY <1>1, <1>2, FS_UNION
<1> QED  BY <1>3, FS_CardinalityType DEF Units

\* A sum depends on the amounts only.
LEMMA SumSame ==
    ASSUME NEW p, NEW q, NEW K, \A k \in K : q[k].amount = p[k].amount
    PROVE  Units(q, K) = Units(p, K)
BY DEF Units

\* Another payment adds its amount.
LEMMA SumAdd ==
    ASSUME NEW p, NEW q, NEW K, IsFiniteSet(K), NEW x, x \notin K,
           \A k \in K : p[k].amount \in Nat /\ q[k].amount = p[k].amount,
           q[x].amount \in Nat
    PROVE  Cardinality(Units(q, K \cup {x})) = Cardinality(Units(p, K)) + q[x].amount
<1> DEFINE A == Units(p, K)
           B == {x} \X (1 .. q[x].amount)
<1>1. Units(q, K \cup {x}) = A \cup B
    <2>1. Units(q, K \cup {x}) = Units(q, K) \cup B
        BY DEF Units
    <2> QED  BY <2>1, SumSame
<1>2. A \cap B = {}
    BY DEF Units
<1>3. IsFiniteSet(A) /\ Cardinality(A) \in Nat
    BY SumType
<1>4. IsFiniteSet(B) /\ Cardinality(B) = q[x].amount
    <2> DEFINE T == 1 .. q[x].amount
    <2>1. IsFiniteSet({x}) /\ Cardinality({x}) = 1
        BY FS_Singleton
    <2>2. IsFiniteSet(T) /\ Cardinality(T) = q[x].amount
        BY UpTo
    <2> HIDE DEF T
    <2>3. /\ IsFiniteSet({x} \X T)
          /\ Cardinality({x} \X T) = Cardinality({x}) * Cardinality(T)
        BY <2>1, <2>2, FS_Product
    <2>4. 1 * q[x].amount = q[x].amount
        OBVIOUS
    <2>5. Cardinality({x} \X T) = q[x].amount
        BY <2>1, <2>2, <2>3, <2>4
    <2> QED  BY <2>3, <2>5 DEF T
<1>5. Cardinality(A \cap B) = 0
    BY <1>2, FS_EmptySet
<1> HIDE DEF A, B
<1>6. Cardinality(A \cup B) = Cardinality(A) + Cardinality(B) - Cardinality(A \cap B)
    BY <1>3, <1>4, FS_Union
<1>7. Cardinality(A \cup B) = Cardinality(A) + q[x].amount
    BY <1>3, <1>4, <1>5, <1>6
<1> QED  BY <1>1, <1>7 DEF A

\* The sums of the books are of finite sets of amounts.
LEMMA Books ==
    ASSUME TypeOK, IsFiniteSet(Recorded)
    PROVE  /\ \A k \in Key : pay[k].amount \in Nat
           /\ IsFiniteSet(Advances) /\ IsFiniteSet(Refunds)
           /\ Total(Advances) \in Nat /\ Total(Refunds) \in Nat
           /\ \A o \in Key : IsFiniteSet(RefundsOf(o)) /\ Total(RefundsOf(o)) \in Nat
<1>1. \A k \in Key : pay[k].amount \in Nat
    BY PolicyAssumption DEF TypeOK, Payment, Money
<1>2. ASSUME NEW K \in SUBSET Recorded
      PROVE  IsFiniteSet(K) /\ Total(K) \in Nat
    <2>1. IsFiniteSet(K)
        BY FS_Subset
    <2>2. \A k \in K : pay[k].amount \in Nat
        BY <1>1 DEF Recorded
    <2> QED  BY <2>1, <2>2, SumType DEF Total
<1>3. Advances \subseteq Recorded /\ Refunds \subseteq Recorded
    BY DEF Advances, Refunds, Recorded, NoPayment
<1>4. \A o \in Key : RefundsOf(o) \subseteq Recorded
    BY DEF RefundsOf, Recorded, NoPayment
<1> QED  BY <1>1, <1>2, <1>3, <1>4

\* The balance of the whole and of one advance.
Balance      == booking.paid = Total(Advances) - Total(Refunds)
BalanceOf(o) == /\ Total(RefundsOf(o)) <= pay[o].amount
                /\ pay[o].status = "refunded" <=> Total(RefundsOf(o)) = pay[o].amount

LEMMA Balances ==
    /\ BooksBalance <=> Balance /\ \A o \in Advances : BalanceOf(o)
    /\ BooksBalance' <=> Balance' /\ \A o \in Advances' : BalanceOf(o)'
BY DEF BooksBalance, Balance, BalanceOf, Refunds, Advances, Total, RefundsOf

\* A step that records neither an advance nor a refund.
LEMMA BalanceKept ==
    ASSUME BooksBalance, booking'.paid = booking.paid,
           Advances' = Advances, Refunds' = Refunds,
           \A k \in Advances \cup Refunds : pay'[k] = pay[k]
    PROVE  BooksBalance'
<1>1. Total(Advances)' = Total(Advances) /\ Total(Refunds)' = Total(Refunds)
    BY SumSame DEF Total
<1>2. ASSUME NEW o \in Advances PROVE BalanceOf(o)'
    <2>1. RefundsOf(o)' = RefundsOf(o) /\ RefundsOf(o) \subseteq Refunds
        BY DEF RefundsOf, Refunds
    <2>2. Total(RefundsOf(o))' = Total(RefundsOf(o))
        BY <2>1, SumSame DEF Total
    <2> QED  BY <2>2, Balances DEF BalanceOf
<1> QED  BY <1>1, <1>2, Balances DEF Balance

\* A new advance k, which nobody can have refunded yet.
LEMMA BalanceAdvance ==
    ASSUME Ledger, TypeOK', NEW k \in Key, k \notin Advances,
           booking'.paid = booking.paid + pay'[k].amount,
           Advances' = Advances \cup {k}, Refunds' = Refunds,
           \A l \in Advances \cup Refunds : pay'[l] = pay[l],
           pay'[k].amount > 0, pay'[k].status = "succeeded"
    PROVE  BooksBalance'
<1> USE DEF Ledger
<1>1. Total(Refunds)' = Total(Refunds)
    BY SumSame DEF Total
<1>2. pay'[k].amount \in Nat
    BY PolicyAssumption DEF TypeOK, Payment, Money
<1>3. \A l \in Advances : pay[l].amount \in Nat /\ pay'[l].amount = pay[l].amount
    BY Books DEF Advances
<1>4. Total(Advances)' = Total(Advances) + pay'[k].amount
    BY <1>2, <1>3, Books, SumAdd DEF Total
<1>5. Balance'
    <2>1. booking.paid = Total(Advances) - Total(Refunds)
        BY Balances DEF Balance
    <2> QED  BY <1>1, <1>2, <1>4, <2>1, Books DEF Balance
<1>6. ASSUME NEW o \in Advances PROVE BalanceOf(o)'
    <2>1. RefundsOf(o)' = RefundsOf(o) /\ RefundsOf(o) \subseteq Refunds
        BY DEF RefundsOf, Refunds
    <2>2. Total(RefundsOf(o))' = Total(RefundsOf(o))
        BY <2>1, SumSame DEF Total
    <2> QED  BY <2>2, Balances DEF BalanceOf
<1>7. BalanceOf(k)'
    <2>1. RefundsOf(k)' = {}
        BY DEF RefundsOf, Refunds, Entries
    <2>2. Total(RefundsOf(k))' = 0
        BY <2>1, FS_EmptySet DEF Total, Units
    <2> QED  BY <1>2, <2>2 DEF BalanceOf
<1> QED  BY <1>5, <1>6, <1>7, Balances

\* A new refund k of the advance o.
LEMMA BalanceRefund ==
    ASSUME Ledger, TypeOK', NEW k \in Key, pay[k] = NoPayment, NEW o \in Advances,
           NEW a \in Nat, a <= pay[o].amount - Total(RefundsOf(o)),
           pay'[k].amount = a, pay'[k].of = o,
           booking'.paid = booking.paid - a,
           Advances' = Advances, Refunds' = Refunds \cup {k},
           \A l \in (Advances \cup Refunds) \ {o} : pay'[l] = pay[l],
           pay'[o].amount = pay[o].amount,
           pay'[o].status = IF Total(RefundsOf(o)) + a = pay[o].amount
                            THEN "refunded" ELSE pay[o].status
    PROVE  BooksBalance'
<1> USE DEF Ledger
<1>1. /\ \A l \in Advances \cup Refunds : l \in Key /\ pay'[l].amount = pay[l].amount
      /\ o \notin Refunds /\ k \notin Refunds /\ k \notin Advances
    BY DEF Advances, Refunds, NoPayment
<1>2. Total(Advances)' = Total(Advances)
    BY <1>1, SumSame DEF Total
<1>3. Total(Refunds)' = Total(Refunds) + a
    <2>1. \A l \in Refunds : pay[l].amount \in Nat /\ pay'[l].amount = pay[l].amount
        BY <1>1, Books
    <2> QED  BY <1>1, <2>1, Books, SumAdd DEF Total
<1>4. Balance'
    <2>1. booking.paid = Total(Advances) - Total(Refunds)
        BY Balances DEF Balance
    <2> QED  BY <1>2, <1>3, <2>1, Books DEF Balance
<1>5. ASSUME NEW q \in Advances, q # o PROVE BalanceOf(q)'
    <2>1. RefundsOf(q)' = RefundsOf(q) /\ RefundsOf(q) \subseteq Refunds
        BY <1>1, <1>5 DEF RefundsOf, Refunds
    <2>2. Total(RefundsOf(q))' = Total(RefundsOf(q))
        BY <1>1, <2>1, SumSame DEF Total
    <2> QED  BY <1>5, <2>2, Balances DEF BalanceOf
<1>6. BalanceOf(o)'
    <2>1. RefundsOf(o)' = RefundsOf(o) \cup {k} /\ RefundsOf(o) \subseteq Refunds
        BY <1>1 DEF RefundsOf, Refunds
    <2>2. \A l \in RefundsOf(o) : pay[l].amount \in Nat /\ pay'[l].amount = pay[l].amount
        BY <1>1, <2>1, Books
    <2>3. o \in Key /\ k \notin RefundsOf(o)
        BY <1>1, <2>1 DEF Advances
    <2>4. Total(RefundsOf(o))' = Total(RefundsOf(o)) + a
        BY <2>1, <2>2, <2>3, Books, SumAdd DEF Total
    <2>5. /\ Total(RefundsOf(o)) <= pay[o].amount
          /\ pay[o].status = "refunded" <=> Total(RefundsOf(o)) = pay[o].amount
        BY Balances DEF BalanceOf
    <2>6. pay[o].amount \in Nat /\ Total(RefundsOf(o)) \in Nat
        BY <2>3, Books
    <2> QED  BY <2>4, <2>5, <2>6 DEF BalanceOf
<1> QED  BY <1>4, <1>5, <1>6, Balances

\* No step makes a checkout request ask for nothing.
LEMMA AskedStep ==
    ASSUME TypeOK, Asked, [Next]_vars
    PROVE  Asked'
<1> USE DEF TypeOK, Asked
<1>1. ASSUME NEW c \in Checkout, Begin(c) PROVE Asked'
    <2>1. Amount[c] \in Nat
        BY RequestAssumption DEF Request
    <2> QED  BY <1>1, <2>1 DEF Begin
<1>2. ASSUME NEW c \in Checkout, CheckoutStep(c) \/ Heartbeat(c) \/ Crash(c)
      PROVE  Asked'
    <2>1. ASSUME req[c].pc # "idle", NEW s, Go(c, s) PROVE Asked'
        BY <2>1 DEF Go, Progress
    <2>2. ASSUME req' = [req EXCEPT ![c] = NotBegun] PROVE Asked'
        BY <2>2 DEF NotBegun
    <2>3. CASE Sweep(c)
        BY <2>3 DEF Sweep, Progress
    <2>4. CASE OpenStore(c)
        BY <2>1, <2>4 DEF OpenStore
    <2>5. CASE Recheck(c)
        BY <2>1, <2>5 DEF Recheck
    <2>6. CASE AskProvider(c)
        <3>1. PICK next \in {"billed", "closing"} : Go(c, next)
            BY <2>6 DEF AskProvider
        <3> QED  BY <2>1, <2>6, <3>1 DEF AskProvider
    <2> QED
        BY <1>2, <2>1, <2>2, <2>3, <2>4, <2>5, <2>6
        DEF CheckoutStep, TakeLock, Busy, ProviderFails, CommitStore, RetryStore, Release,
            Heartbeat, Crash
<1>3. ASSUME UNCHANGED req PROVE Asked'
    BY <1>3
<1>4. ASSUME NEW k \in Key, CustomerPays(k) \/ Settle(k) PROVE UNCHANGED req
    BY <1>4 DEF CustomerPays, Settle
<1>5. ASSUME \/ \E a \in Advance : RecordAdvance(a)
             \/ \E r \in Refund, o \in Key : RecordRefund(r, o)
             \/ \E t \in Active \cup Terminal : Transition(t)
             \/ Cancel \/ ExpireHold \/ PurgeHold \/ Tick \/ UNCHANGED vars
      PROVE  UNCHANGED req
    BY <1>5 DEF RecordAdvance, RecordRefund, Transition, Cancel, ExpireHold, PurgeHold,
                Tick, vars
<1> QED
    BY <1>1, <1>2, <1>3, <1>4, <1>5 DEF Next

\* What a step does to a payment, if it records no new advance or refund:
\* nothing, or it cancels or stores a checkout.
QuietPayments ==
    \A k \in Key :
        \/ pay'[k] = pay[k]
        \/ /\ pay[k].status = "pending" /\ pay'[k].status = "cancelled"
           /\ pay'[k].purpose = pay[k].purpose /\ pay'[k].amount = pay[k].amount
        \/ /\ pay[k] = NoPayment /\ pay'[k].status = "pending"
           /\ pay'[k].purpose = "advance" /\ pay'[k].amount > 0

LEMMA QuietLedger ==
    ASSUME Ledger, TypeOK', Asked', QuietPayments, IsFiniteSet(Recorded'),
           booking'.paid = booking.paid
    PROVE  Ledger'
<1> USE DEF Ledger, QuietPayments
<1>1. /\ Advances' = Advances /\ Refunds' = Refunds
      /\ \A k \in Advances \cup Refunds : pay'[k] = pay[k]
    BY DEF Advances, Refunds, Entries, NoPayment
<1>2. BooksBalance'
    BY <1>1, BalanceKept
<1>3. Entries'
    BY <1>1 DEF Entries, NoPayment
<1> QED  BY <1>2, <1>3

\* One more payment is recorded, or none.
LEMMA RecordedStep ==
    ASSUME IsFiniteSet(Recorded), NEW k,
           \A l \in Key \ {k} : pay'[l] # NoPayment => pay[l] # NoPayment
    PROVE  IsFiniteSet(Recorded')
<1>1. Recorded' \subseteq Recorded \cup {k}
    BY DEF Recorded
<1> QED  BY <1>1, FS_AddElement, FS_Subset

LEMMA CreditedPaid ==
    ASSUME TypeOK, NEW a \in Nat, a <= Remaining
    PROVE  Credited(a).paid = booking.paid + a
BY BookingFields DEF Credited, Confirmed, BookingRecord

\* A webhook adds the advance it settles.
LEMMA SettledLedger ==
    ASSUME Ledger, TypeOK', Asked', NEW k \in Key, Settle(k)
    PROVE  Ledger'
<1> USE DEF Ledger
<1>1. /\ pay[k].status = "pending" /\ pay[k].purpose = "advance" /\ pay[k].amount > 0
      /\ pay[k].amount = charge[k].amount /\ charge[k].amount <= Remaining
      /\ pay[k].amount \in Nat /\ k \notin Advances
    BY Books DEF Settle, Settleable, Acceptable, Collectible, Entries, Advances
<1>2. /\ pay' = [pay EXCEPT ![k].status = "succeeded", ![k].txn = k]
      /\ pay \in [Key -> Payment]
    BY DEF Settle, TypeOK
<1>3. booking'.paid = booking.paid + pay[k].amount
    BY <1>1, CreditedPaid DEF Settle
<1>4. /\ \A l \in Key \ {k} : pay'[l] = pay[l]
      /\ pay'[k].status = "succeeded" /\ pay'[k].purpose = "advance"
      /\ pay'[k].amount = pay[k].amount
    BY <1>1, <1>2 DEF Payment
<1>5. Advances' = Advances \cup {k} /\ Refunds' = Refunds /\ k \notin Refunds
    BY <1>1, <1>4 DEF Advances, Refunds
<1>6. \A l \in Advances \cup Refunds : pay'[l] = pay[l]
    BY <1>1, <1>4, <1>5 DEF Advances, Refunds
<1>7. BooksBalance'
    BY <1>1, <1>3, <1>4, <1>5, <1>6, BalanceAdvance
<1>8. Entries'
    BY <1>1, <1>4, <1>5 DEF Entries
<1>9. IsFiniteSet(Recorded')
    BY <1>4, RecordedStep
<1> QED  BY <1>7, <1>8, <1>9

\* Staff record an advance under a new key.
LEMMA AdvanceLedger ==
    ASSUME Ledger, TypeOK', Asked', NEW a \in Advance, RecordAdvance(a)
    PROVE  Ledger'
<1> USE DEF Ledger
<1> DEFINE k == KeyOf[a]
           new == [purpose |-> "advance", status |-> "succeeded",
                   amount |-> Amount[a], until |-> 0,
                   txn |-> ChargeOf[a], of |-> NoOne]
<1>1. k \in Key /\ Amount[a] \in Nat /\ Amount[a] > 0 /\ pay \in [Key -> Payment]
    BY RequestAssumption DEF Request, TypeOK
<1>2. /\ pay[k] = NoPayment /\ Amount[a] <= Remaining
      /\ pay' = [pay EXCEPT ![k] = new] /\ booking' = Credited(Amount[a])
    BY DEF RecordAdvance
<1>3. booking'.paid = booking.paid + Amount[a]
    BY <1>1, <1>2, CreditedPaid
<1>4. /\ \A l \in Key \ {k} : pay'[l] = pay[l]
      /\ pay'[k].status = "succeeded" /\ pay'[k].purpose = "advance"
      /\ pay'[k].amount = Amount[a]
      /\ k \notin Advances /\ k \notin Refunds
    BY <1>1, <1>2 DEF Advances, Refunds, NoPayment
<1> HIDE DEF k, new
<1>5. Advances' = Advances \cup {k} /\ Refunds' = Refunds
    BY <1>1, <1>4 DEF Advances, Refunds
<1>6. \A l \in Advances \cup Refunds : pay'[l] = pay[l]
    BY <1>4 DEF Advances, Refunds
<1>7. BooksBalance'
    BY <1>1, <1>3, <1>4, <1>5, <1>6, BalanceAdvance
<1>8. Entries'
    BY <1>1, <1>4, <1>5 DEF Entries
<1>9. IsFiniteSet(Recorded')
    BY <1>4, RecordedStep
<1> QED  BY <1>7, <1>8, <1>9

\* Staff record a refund of what is left of an advance.
LEMMA RefundLedger ==
    ASSUME Ledger, TypeOK', Asked', NEW r \in Refund, NEW o \in Key, RecordRefund(r, o)
    PROVE  Ledger'
<1> USE DEF Ledger
<1> DEFINE k == KeyOf[r]
           back == Total(RefundsOf(o)) + Amount[r] = pay[o].amount
<1>1. /\ k \in Key /\ Amount[r] \in Nat /\ o \in Advances /\ pay[k] = NoPayment /\ k # o
      /\ Amount[r] <= pay[o].amount - Total(RefundsOf(o))
      /\ pay \in [Key -> Payment]
    BY RequestAssumption DEF Request, TypeOK, RecordRefund, Refundable, Advances, NoPayment
<1>2. /\ pay'[k].purpose = "advance_refund" /\ pay'[k].status = "succeeded"
      /\ pay'[k].amount = Amount[r] /\ pay'[k].of = o
      /\ pay'[o].purpose = pay[o].purpose /\ pay'[o].amount = pay[o].amount
      /\ pay'[o].status = IF back THEN "refunded" ELSE pay[o].status
      /\ \A l \in Key \ {k, o} : pay'[l] = pay[l]
    BY <1>1 DEF RecordRefund, Payment
<1>3. booking'.paid = booking.paid - Amount[r]
    BY BookingFields DEF RecordRefund, BookingRecord
<1>4. /\ k \notin Advances /\ k \notin Refunds
      /\ pay[o].purpose = "advance" /\ pay[o].status \in {"succeeded", "refunded"}
      /\ pay[o].amount > 0
    BY <1>1 DEF Advances, Refunds, NoPayment, Entries
<1> HIDE DEF k
<1>5. Advances' = Advances /\ Refunds' = Refunds \cup {k}
    BY <1>1, <1>2, <1>4 DEF Advances, Refunds
<1>6. \A l \in (Advances \cup Refunds) \ {o} : pay'[l] = pay[l]
    BY <1>2, <1>4 DEF Advances, Refunds
<1>7. BooksBalance'
    BY <1>1, <1>2, <1>3, <1>5, <1>6, BalanceRefund
<1>8. Entries'
    BY <1>1, <1>2, <1>4, <1>5 DEF Entries
<1>9. IsFiniteSet(Recorded')
    <2>1. pay[o] # NoPayment
        BY <1>4 DEF NoPayment
    <2> QED  BY <1>2, <2>1, RecordedStep
<1> QED  BY <1>7, <1>8, <1>9

THEOREM LedgerStep == Ledger /\ [Next]_vars => Ledger'
<1> SUFFICES ASSUME Ledger, [Next]_vars PROVE Ledger'
    OBVIOUS
<1> USE DEF Ledger
<1>1. TypeOK' /\ Asked'
    BY TypeStep, AskedStep
<1>2. ASSUME UNCHANGED pay, booking'.paid = booking.paid PROVE Ledger'
    BY <1>1, <1>2, QuietLedger DEF QuietPayments, Recorded
<1>3. ASSUME NEW c \in Checkout, Sweep(c) PROVE Ledger'
    <2>1. QuietPayments
        BY <1>3 DEF Sweep, RunOut, QuietPayments, TypeOK, Payment
    <2>2. \A l \in Key \ {NoOne} : pay'[l] # NoPayment => pay[l] # NoPayment
        BY <1>3 DEF Sweep, RunOut, NoPayment
    <2> QED  BY <1>1, <1>3, <2>1, <2>2, RecordedStep, QuietLedger DEF Sweep
<1>4. ASSUME NEW c \in Checkout, CommitStore(c) PROVE Ledger'
    <2>1. /\ KeyOf[c] \in Key /\ req[c].amount > 0
          /\ \A l \in Key \ {KeyOf[c]} : pay'[l] = pay[l]
        BY <1>4, RequestAssumption DEF CommitStore, Request, TypeOK, Asked
    <2>2. QuietPayments
        BY <1>4, <2>1 DEF CommitStore, QuietPayments, TypeOK
    <2> QED  BY <1>1, <1>4, <2>1, <2>2, RecordedStep, QuietLedger DEF CommitStore
<1>5. ASSUME NEW k \in Key, Settle(k) PROVE Ledger'
    BY <1>1, <1>5, SettledLedger
<1>6. ASSUME NEW a \in Advance, RecordAdvance(a) PROVE Ledger'
    BY <1>1, <1>6, AdvanceLedger
<1>7. ASSUME NEW r \in Refund, NEW o \in Key, RecordRefund(r, o) PROVE Ledger'
    BY <1>1, <1>7, RefundLedger
<1>8. ASSUME NEW c \in Checkout,
             \/ Begin(c) \/ TakeLock(c) \/ Busy(c) \/ Heartbeat(c) \/ Recheck(c)
             \/ AskProvider(c) \/ ProviderFails(c) \/ OpenStore(c)
             \/ RetryStore(c) \/ Release(c) \/ Crash(c)
      PROVE  UNCHANGED <<pay, booking>>
    BY <1>8 DEF Begin, TakeLock, Busy, Heartbeat, Recheck, AskProvider, ProviderFails,
                OpenStore, RetryStore, Release, Crash
<1>9. ASSUME \/ \E k \in Key : CustomerPays(k)
             \/ \E t \in Active \cup Terminal : Transition(t)
             \/ Cancel \/ ExpireHold \/ PurgeHold \/ Tick \/ UNCHANGED vars
      PROVE  UNCHANGED pay /\ booking'.paid = booking.paid
    BY <1>9, BookingFields
    DEF CustomerPays, Transition, Confirmed, Cancel, ExpireHold, PurgeHold, Tick, vars,
        BookingRecord
<1> QED
    BY <1>2, <1>3, <1>4, <1>5, <1>6, <1>7, <1>8, <1>9 DEF Next, CheckoutStep

\* The books balance, for every advance and any number of payments, refunds
\* and repetitions: what the booking says was paid is the advances less the
\* refunds, and no advance is refunded beyond its amount.
THEOREM BooksAgree == Spec => []BooksBalance
<1>1. Init => Ledger
    <2> SUFFICES ASSUME Init PROVE Ledger
        OBVIOUS
    <2>1. TypeOK
        BY TypeInit
    <2>2. /\ \A k \in Key : pay[k] = NoPayment
          /\ Recorded = {} /\ Advances = {} /\ Refunds = {} /\ booking.paid = 0
        BY DEF Init, Recorded, Advances, Refunds, NoPayment
    <2>3. IsFiniteSet(Recorded) /\ Total(Advances) = 0 /\ Total(Refunds) = 0
        BY <2>2, FS_EmptySet DEF Total, Units
    <2>4. BooksBalance
        BY <2>2, <2>3, Balances DEF Balance
    <2> QED  BY <2>1, <2>2, <2>3, <2>4 DEF Ledger, Asked, Entries, Init, NotBegun, NoPayment
<1>2. Ledger => BooksBalance
    BY DEF Ledger
<1> QED  BY <1>1, <1>2, LedgerStep, PTL DEF Spec

(***************************************************************************)
(* An open checkout settles                                                *)
(***************************************************************************)

\* A required advance is waited for, and staff have recorded none of it.
NoneByStaff == \A a \in Advance : pay[KeyOf[a]] = NoPayment
Waits       == NoneByStaff /\ booking.status = "pending_advance"

\* A checkout the provider has opened for all of the advance, within the hold.
InHold(k) == charge[k].state # "none" /\ charge[k].until <= HoldUntil

\* While it is waited for, nothing has been paid, and every checkout, asked
\* for, open at the provider or stored, is of all of it and within the hold.
AllOrNothing ==
    /\ Requirement = "required" /\ booking.paid = 0 /\ booking.expiresAt = HoldUntil
    /\ \A c \in Checkout :
          /\ req[c].pc # "idle" => req[c].amount = Due
          /\ req[c].pc \in {"billed", "open"} => InHold(KeyOf[c])
    /\ \A k \in Key :
          /\ pay[k].status \in {"none", "pending", "cancelled"} /\ pay[k].txn = NoOne
          /\ charge[k].state # "none" => charge[k].amount = Due
          /\ pay[k].status = "pending" =>
                pay[k].amount = Due /\ InHold(k) /\ pay[k].until = charge[k].until

WaitInv == ContractInv /\ (Waits => AllOrNothing)

\* Nobody begins to wait: a payment stays recorded, and no booking becomes
\* pending again.
LEMMA WaitsNoMore ==
    ASSUME ContractInv, [Next]_vars, Waits'
    PROVE  Waits
<1> USE RequestAssumption DEF Waits, ContractInv
<1>1. \A k \in Key : pay'[k] = NoPayment => pay[k] = NoPayment
    <2>1. pay \in [Key -> Payment]
        BY DEF TypeOK
    <2>2. ASSUME NEW c \in Checkout, Sweep(c), NEW k \in Key, pay'[k] = NoPayment
          PROVE  pay[k] = NoPayment
        BY <2>1, <2>2 DEF Sweep, NoPayment, Payment
    <2>3. ASSUME NEW c \in Checkout, CommitStore(c) \/ Begin(c) \/ TakeLock(c) \/ Busy(c)
                    \/ Heartbeat(c) \/ Recheck(c) \/ AskProvider(c) \/ ProviderFails(c)
                    \/ OpenStore(c) \/ RetryStore(c) \/ Release(c) \/ Crash(c),
                 NEW k \in Key, pay'[k] = NoPayment
          PROVE  pay[k] = NoPayment
        BY <2>1, <2>3 DEF CommitStore, Begin, TakeLock, Busy, Heartbeat, Recheck, AskProvider,
                          ProviderFails, OpenStore, RetryStore, Release, Crash, NoPayment
    <2>4. ASSUME NEW l \in Key, CustomerPays(l) \/ Settle(l), NEW k \in Key, pay'[k] = NoPayment
          PROVE  pay[k] = NoPayment
        BY <2>1, <2>4 DEF CustomerPays, Settle, NoPayment, Payment
    <2>5. ASSUME NEW a \in Advance, RecordAdvance(a), NEW k \in Key, pay'[k] = NoPayment
          PROVE  pay[k] = NoPayment
        BY <2>1, <2>5 DEF RecordAdvance, NoPayment
    <2>6. ASSUME NEW r \in Refund, NEW o \in Key, RecordRefund(r, o), NEW k \in Key,
                 pay'[k] = NoPayment
          PROVE  pay[k] = NoPayment
        BY <2>1, <2>6 DEF RecordRefund, NoPayment, Payment, Advances
    <2>7. ASSUME \/ \E t \in Active \cup Terminal : Transition(t)
                 \/ Cancel \/ ExpireHold \/ PurgeHold \/ Tick \/ UNCHANGED vars
          PROVE  UNCHANGED pay
        BY <2>7 DEF Transition, Cancel, ExpireHold, PurgeHold, Tick, vars
    <2> QED
        BY <2>2, <2>3, <2>4, <2>5, <2>6, <2>7 DEF Next, CheckoutStep
<1>2. NoneByStaff' => NoneByStaff
    BY <1>1 DEF NoneByStaff, Request
<1>3. booking'.status = "pending_advance" => booking.status = "pending_advance"
    BY ContractStep DEF Contract!Next, Contract!contractVars, Contract!PayPart,
        Contract!PayAndConfirm, Contract!PayBack, Contract!Proceed, Contract!End,
        Contract!Lapse
<1> QED  BY <1>2, <1>3

LEMMA WaitFields ==
    ASSUME TypeOK
    PROVE  /\ pay \in [Key -> Payment] /\ charge \in [Key -> Charge]
           /\ req \in [Checkout -> Progress] /\ booking \in BookingRecord
           /\ booking.paid \in Nat /\ Due \in Nat /\ now \in Nat /\ HoldUntil \in Nat
           /\ \A c \in Checkout : KeyOf[c] \in Key
BY BookingFields, TimeAssumption, RequestAssumption DEF TypeOK, Time, Request

\* The steps of a checkout request.
LEMMA CheckoutWaits ==
    ASSUME ContractInv, Waits, AllOrNothing, NEW c \in Checkout,
           Begin(c) \/ CheckoutStep(c) \/ Heartbeat(c) \/ Crash(c)
    PROVE  AllOrNothing'
<1> USE WaitFields DEF ContractInv, AllOrNothing
<1>1. UNCHANGED booking
    BY DEF Begin, CheckoutStep, Heartbeat, Crash, TakeLock, Busy, Sweep, Recheck,
           AskProvider, ProviderFails, OpenStore, CommitStore, RetryStore, Release
<1>2. CASE Begin(c)
    <2> DEFINE a == IF Amount[c] = 0 THEN Remaining ELSE Amount[c]
    <2>1. Remaining = Due
        BY DEF Remaining
    <2>2. Collectible(a) /\ req' = [req EXCEPT ![c].pc = "begun", ![c].amount = a]
        BY <1>2 DEF Begin
    <2>3. a = Due
        BY <2>1, <2>2 DEF Collectible
    <2> HIDE DEF a
    <2> QED  BY <1>1, <1>2, <2>2, <2>3 DEF Begin, InHold, Progress
<1>3. CASE Busy(c) \/ Release(c)
    BY <1>1, <1>3 DEF Busy, Release, NotBegun, InHold
<1>4. CASE Heartbeat(c)
    BY <1>1, <1>4 DEF Heartbeat, InHold
<1>5. ASSUME NEW s, Go(c, s), req[c].pc # "idle", UNCHANGED <<pay, charge>>,
             s \in {"billed", "open"} => req[c].pc \in {"billed", "open"}
      PROVE  AllOrNothing'
    BY <1>1, <1>5 DEF Go, InHold, Progress
<1>6. CASE TakeLock(c) \/ ProviderFails(c) \/ RetryStore(c) \/ Crash(c)
    BY <1>5, <1>6 DEF TakeLock, ProviderFails, RetryStore, Crash
<1>7. CASE Recheck(c) \/ OpenStore(c)
    BY <1>5, <1>7 DEF Recheck, OpenStore
<1>8. CASE Sweep(c)
    <2>1. /\ req' = [req EXCEPT ![c].pc = "swept", ![c].at = now] /\ req[c].pc = "locked"
          /\ charge' = charge
          /\ \A k \in Key : \/ pay'[k] = pay[k]
                            \/ pay'[k].status = "cancelled" /\ pay'[k].txn = pay[k].txn
        BY <1>8 DEF Sweep, Payment
    <2> QED  BY <1>1, <2>1 DEF InHold, Progress
<1>9. CASE AskProvider(c)
    <2> DEFINE k == KeyOf[c]
    <2>1. PICK u \in Time, next \in {"billed", "closing"} :
               LET ch == IF charge[k].state = "none"
                         THEN [state |-> "open", amount |-> req[c].amount,
                               until |-> u, at |-> 0]
                         ELSE charge[k]
               IN  /\ next = "billed" => Usable(ch)
                   /\ charge' = [charge EXCEPT ![k] = ch]
                   /\ Go(c, next)
        BY <1>9 DEF AskProvider
    <2>2. k \in Key /\ pay' = pay /\ req[c].pc = "checked" /\ req[c].amount = Due
        BY <1>9 DEF AskProvider
    <2>3. /\ charge'[k].state # "none" /\ charge'[k].amount = Due
          /\ charge[k].state # "none" => charge'[k] = charge[k]
          /\ \A l \in Key \ {k} : charge'[l] = charge[l]
          /\ next = "billed" => charge'[k].until <= HoldUntil
        BY <2>1, <2>2 DEF Usable
    <2>4. req'[c].amount = req[c].amount /\ req'[c].pc = next
          /\ \A d \in Checkout \ {c} : req'[d] = req[d]
        BY <2>1 DEF Go, Progress
    <2> HIDE DEF k
    <2>5. \A l \in Key : InHold(l) => InHold(l)' /\ charge'[l].until = charge[l].until
        BY <2>3 DEF InHold
    <2>6. next = "billed" => InHold(k)'
        BY <2>3 DEF InHold
    <2>7. \A l \in Key : charge'[l].state # "none" => charge'[l].amount = Due
        BY <2>3
    <2>8. \A l \in Key : /\ pay'[l].status \in {"none", "pending", "cancelled"}
                         /\ pay'[l].txn = NoOne
                         /\ pay'[l].status = "pending" =>
                              pay'[l].amount = Due /\ InHold(l)' /\ pay'[l].until = charge'[l].until
        BY <2>2, <2>5
    <2>9. \A d \in Checkout :
              /\ req'[d].pc # "idle" => req'[d].amount = Due
              /\ req'[d].pc \in {"billed", "open"} => InHold(KeyOf[d])'
        BY <2>2, <2>4, <2>5, <2>6 DEF k
    <2> QED  BY <1>1, <2>7, <2>8, <2>9
<1>10. CASE CommitStore(c)
    <2>1. /\ \A l \in Key \ {KeyOf[c]} : pay'[l] = pay[l]
          /\ pay'[KeyOf[c]].status = "pending" /\ pay'[KeyOf[c]].txn = NoOne
          /\ pay'[KeyOf[c]].amount = Due
          /\ pay'[KeyOf[c]].until = charge[KeyOf[c]].until
          /\ InHold(KeyOf[c]) /\ charge' = charge
        BY <1>10 DEF CommitStore
    <2>2. req[c].pc = "open" /\ Go(c, "closing")
        BY <1>10 DEF CommitStore
    <2> QED  BY <1>1, <2>1, <2>2 DEF Go, InHold, Progress
<1> QED
    BY <1>2, <1>3, <1>4, <1>6, <1>7, <1>8, <1>9, <1>10 DEF CheckoutStep

LEMMA WaitStep == WaitInv /\ [Next]_vars => WaitInv'
<1> SUFFICES ASSUME WaitInv, [Next]_vars, Waits' PROVE AllOrNothing'
    BY TypeStep, ContractStep DEF WaitInv, ContractInv
<1> USE WaitFields DEF WaitInv, ContractInv
<1>1. Waits /\ AllOrNothing
    BY WaitsNoMore
<1>2. ASSUME NEW c \in Checkout, Begin(c) \/ CheckoutStep(c) \/ Heartbeat(c) \/ Crash(c)
      PROVE  AllOrNothing'
    BY <1>1, <1>2, CheckoutWaits
<1>3. ASSUME NEW k \in Key, CustomerPays(k) PROVE AllOrNothing'
    <2>1. /\ UNCHANGED <<pay, req, booking>> /\ charge[k].state # "none"
          /\ \A l \in Key : charge'[l].amount = charge[l].amount
                            /\ charge'[l].until = charge[l].until
                            /\ (charge'[l].state = "none" <=> charge[l].state = "none")
        BY <1>3 DEF CustomerPays, Charge
    <2> QED  BY <1>1, <2>1 DEF AllOrNothing, InHold
<1>4. ASSUME NEW k \in Key, Settle(k) PROVE FALSE
    <2>1. charge[k].amount = Due /\ PaidUp(charge[k].amount)
        BY <1>1, <1>4 DEF Settle, Settleable, Acceptable, Waits, AllOrNothing, PaidUp
    <2>2. booking'.status = "confirmed"
        BY <1>4, <2>1 DEF Settle, Credited, Confirmed, BookingRecord
    <2> QED  BY <2>2 DEF Waits
<1>5. ASSUME NEW a \in Advance, RecordAdvance(a) PROVE FALSE
    <2>1. KeyOf[a] \in Key /\ pay'[KeyOf[a]].status = "succeeded"
        BY <1>5, RequestAssumption DEF RecordAdvance, Request
    <2> QED  BY <2>1 DEF Waits, NoneByStaff, NoPayment
<1>6. ASSUME NEW r \in Refund, NEW o \in Key, RecordRefund(r, o) PROVE FALSE
    BY <1>1, <1>6 DEF RecordRefund, Advances, AllOrNothing
<1>7. ASSUME \/ \E t \in Active \cup Terminal : Transition(t)
             \/ Cancel \/ ExpireHold
      PROVE  booking'.status # "pending_advance"
    BY <1>7 DEF Transition, Transitions, Confirmed, Cancel, ExpireHold, BookingRecord, Active, Terminal
<1>8. ASSUME PurgeHold \/ Tick \/ UNCHANGED vars PROVE AllOrNothing'
    <2>1. /\ UNCHANGED <<pay, charge, req>>
          /\ booking'.paid = booking.paid /\ booking'.expiresAt = booking.expiresAt
        BY <1>8 DEF PurgeHold, Tick, vars, BookingRecord
    <2> QED  BY <1>1, <2>1 DEF AllOrNothing, InHold
<1> QED
    BY <1>2, <1>3, <1>4, <1>5, <1>6, <1>7, <1>8 DEF Next, Waits

\* Whoever pays an open checkout of a booking that waits for its advance
\* pays all of it within the hold: as long as staff have recorded nothing,
\* the settlement would be accepted at once.
THEOREM PaymentsSettle == Spec => []OpenCheckoutSettles
<1>1. Init => WaitInv
    BY TypeInit, ContractInit
    DEF WaitInv, ContractInv, Init, Waits, AllOrNothing, NotBegun, NoPayment
<1>2. ASSUME WaitInv PROVE OpenCheckoutSettles
    <2> SUFFICES ASSUME NoneByStaff, NEW k \in ActiveAt(now),
                        booking.status = "pending_advance", booking.slot = "held",
                        charge[k].state = "paid", charge[k].at = now
                 PROVE  Settleable(k)
        BY DEF OpenCheckoutSettles, NoneByStaff
    <2>1. TypeOK /\ AllOrNothing /\ k \in Key /\ pay[k].status = "pending" /\ pay[k].until > now
        BY <1>2 DEF WaitInv, ContractInv, Waits, ActiveAt
    <2>2. /\ pay[k].amount = Due /\ charge[k].amount = Due /\ Remaining = Due
          /\ pay[k].until \in Nat /\ pay[k].until <= HoldUntil /\ booking.expiresAt = HoldUntil
          /\ Requirement = "required"
        BY <2>1, WaitFields DEF AllOrNothing, InHold, Remaining, Payment, Time
    <2>3. HoldComplete(now)
        BY <2>1, <2>2, WaitFields DEF HoldComplete
    <2>4. Acceptable(k)
        BY <2>1, <2>2, <2>3, WaitFields DEF Acceptable, Eligible, Collectible
    <2>5. Unrecorded(k)
        BY <2>1, RequestAssumption DEF AllOrNothing, Unrecorded
    <2> QED  BY <2>3, <2>4, <2>5 DEF Settleable, Creditable
<1> QED  BY <1>1, <1>2, WaitStep, PTL DEF Spec
=============================================================================
