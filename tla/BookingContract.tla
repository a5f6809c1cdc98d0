--------------------------- MODULE BookingContract ---------------------------
(***************************************************************************)
(* What a booking promises: the diagram of its statuses, and with it       *)
(* - the slot stays the customer's in every status between confirmation    *)
(*   and the end of the visit, and is given back at the end;               *)
(* - a required advance is collected before the booking is confirmed, and  *)
(*   the payment that completes it is the one that confirms;               *)
(* - no payment is taken beyond what is due, and none after the end.       *)
(* Refunds are possible at any time and change no status.                  *)
(***************************************************************************)
EXTENDS Integers

CONSTANTS Requirement, Due

VARIABLES status, slot, paid

contractVars == <<status, slot, paid>>

Over == {"completed", "cancelled", "no_show"}

Init ==
    /\ paid = 0
    /\ \/ Requirement = "required" /\ status = "pending_advance" /\ slot = "held"
       \/ Requirement # "required" /\ status = "confirmed" /\ slot = "confirmed"

\* A part of the advance, which leaves a pending booking pending.
PayPart ==
    /\ status \notin Over
    /\ paid < paid' /\ paid' <= Due
    /\ status = "pending_advance" => paid' < Due
    /\ UNCHANGED <<status, slot>>

\* The payment that completes a required advance, while the slot is held.
PayAndConfirm ==
    /\ status = "pending_advance" /\ slot = "held"
    /\ paid < Due /\ paid' = Due
    /\ status' = "confirmed" /\ slot' = "confirmed"

PayBack == paid' \in 0 .. paid - 1 /\ UNCHANGED <<status, slot>>

\* The visit goes on in the customer's slot.
Proceed ==
    /\ <<status, status'>> \in {<<"confirmed", "checked_in">>,
                                <<"checked_in", "in_progress">>}
    /\ slot = "confirmed"
    /\ UNCHANGED <<slot, paid>>

End ==
    /\ \/ status \notin Over /\ status' = "cancelled"
       \/ status = "in_progress" /\ status' = "completed"
       \/ status \in {"confirmed", "checked_in"} /\ status' = "no_show"
    /\ slot' = "released"
    /\ UNCHANGED paid

\* An unpaid hold runs out.
Lapse == /\ status = "pending_advance" /\ slot = "held"
         /\ slot' = "released"
         /\ UNCHANGED <<status, paid>>

Next == PayPart \/ PayAndConfirm \/ PayBack \/ Proceed \/ End \/ Lapse

Spec == Init /\ [][Next]_contractVars
=============================================================================
