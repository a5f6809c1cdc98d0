------------------------------- MODULE Roster -------------------------------
(***************************************************************************)
(* When the employee of Personnel works at which branch, and what chairs   *)
(* and rooms there are for it.                                             *)
(*                                                                         *)
(* Staff plan versions of the employee's working hours at a branch, of     *)
(* which the active ones are of different dates.  The employee asks for    *)
(* time off, at some of their branches or at all, and withdraws it; staff  *)
(* approve it, reject it, or call it off.  Working hours are written under *)
(* the lease of the branch, but the lease is not looked at again before    *)
(* they are; so are chairs and rooms.  Time off only reads the branches,   *)
(* and so shares their leases with bookings; a lock on the employee keeps  *)
(* two requests apart.                                                     *)
(*                                                                         *)
(* The hours of a day, the bookings an approval has to keep clear of and   *)
(* the locks on their days (SlotBooking has both) are left out.            *)
(***************************************************************************)
EXTENDS Personnel

CONSTANTS
    Shift,    \* versions of the employee's working hours
    Leave,    \* times off
    Resource  \* chairs, rooms, equipment

LeaveStatus == {"requested", "approved", "rejected", "cancelled"}

NoLeave == [status |-> "absent", everywhere |-> FALSE, branches |-> {}, from |-> 0,
            until |-> Forever]

NoResource == [status |-> "absent", at |-> {}, serves |-> FALSE]

-----------------------------------------------------------------------------
(* Who may ask, and under which leases *)

\* The branches of a time off are read on arrival; its lock is the employee's.
RosterAffected(r) ==
    CASE r.op = "create shift" -> {r.branch}
      [] r.op \in {"update shift", "archive shift"} -> doc[r.shift].at
      [] r.op \in {"create resource", "update resource", "delete resource"} -> {r.branch}
      [] r.op = "take off"     ->
           {"time off"} \cup IF r.everywhere THEN Branches ELSE r.branches
      [] OTHER ->
           {"time off"} \cup IF doc[r.leave].everywhere THEN Branches ELSE doc[r.leave].branches

RosterAdmitted(c, r) ==
    CASE r.op = "create shift" -> c \in Admin \/ (c \in Manager /\ r.branch \in Granted[c])
      [] r.op \in {"update shift", "archive shift"} ->
           doc[r.shift] # NoVersion /\ (c \in Admin \/ doc[r.shift].at \subseteq Granted[c])
      [] r.op \in {"create resource", "update resource", "delete resource"} ->
           c \in Admin \/ (c \in Manager /\ r.branch \in Granted[c])
      [] r.op = "take off" -> c \in Own /\ LoggedIn /\ Employed
      [] r.op = "withdraw" -> c \in Own /\ LoggedIn /\ Employed /\ doc[r.leave] # NoLeave
      [] OTHER             -> c \notin Own /\ doc[r.leave] # NoLeave

-----------------------------------------------------------------------------
(* Working hours *)

CreateShift(c, r) ==
    LET new == [status |-> r.status, at |-> {r.branch}, from |-> r.from, until |-> r.until] IN
    /\ r.op = "create shift"
    /\ doc[r.shift] = NoVersion
    /\ Employed
    /\ r.branch \in employee.branches
    /\ Versionable(Shift, new)
    /\ Open(c, Put(r.shift, new))

UpdateShift(c, r) ==
    LET new == [doc[r.shift] EXCEPT !.status = r.status, !.from = r.from, !.until = r.until] IN
    /\ r.op = "update shift"
    /\ doc[r.shift].status \in {"draft", "active"}
    /\ Employed
    /\ new.at \subseteq employee.branches
    /\ Versionable(Shift \ {r.shift}, new)
    /\ Open(c, Save(r.shift, new))

ArchiveShift(c, r) ==
    /\ r.op = "archive shift"
    /\ doc[r.shift] # NoVersion
    /\ Open(c, Save(r.shift, [status |-> "archived"]))

-----------------------------------------------------------------------------
(* Chairs, rooms, equipment *)

\* validateResourceServices: the service is offered at b, in force or not.
ServiceAt(b) == There("service") /\ \E o \in Offer : doc[o].at = {b}

CreateResource(c, r) ==
    /\ r.op = "create resource"
    /\ doc[r.resource] = NoResource
    /\ doc[r.branch] # NoBranch
    /\ r.serves => ServiceAt(r.branch)
    /\ Open(c, Put(r.resource, [status |-> Status(Given(r.active, TRUE)), at |-> {r.branch},
                                serves |-> r.serves]))

\* With r.keep the service is not mentioned, and not looked at.
UpdateResource(c, r) ==
    LET old == doc[r.resource] IN
    /\ r.op = "update resource"
    /\ There(r.resource)
    /\ old.at = {r.branch}
    /\ ~r.keep /\ r.serves => ServiceAt(r.branch)
    /\ Open(c, Save(r.resource, [status |-> Status(Given(r.active, old.status = "active")),
                                 serves |-> IF r.keep THEN old.serves ELSE r.serves]))

DeleteResource(c, r) ==
    /\ r.op = "delete resource"
    /\ There(r.resource)
    /\ doc[r.resource].at = {r.branch}
    /\ Open(c, Put(r.resource, [status |-> "gone"]))

-----------------------------------------------------------------------------
(* Time off *)

\* Times off that stand or may come to stand.
Pending(vs) == {v \in vs : doc[v].status \in {"requested", "approved"}}

Meeting(v, from, until) == doc[v].from < until /\ from < doc[v].until

\* The times off at which the request looks: only those decided.
Approved(vs) == {v \in vs : doc[v].status = "approved"}

\* Different branches or not, no two times off of an employee meet.
TakeOff(c, r) ==
    /\ r.op = "take off"
    /\ doc[r.leave] = NoLeave
    /\ Employed /\ employee.linked
    /\ r.everywhere \/ (r.branches # {} /\ r.branches \subseteq employee.branches)
    /\ \A v \in Pending(Leave) : ~Meeting(v, r.from, r.until)
    /\ Open(c, Put(r.leave, [status |-> "requested", everywhere |-> r.everywhere,
                             branches |-> IF r.everywhere THEN {} ELSE r.branches,
                             from |-> r.from, until |-> r.until]))

Withdraw(c, r) ==
    /\ r.op = "withdraw"
    /\ doc[r.leave].status \in {"requested", "approved", "cancelled"}
    /\ Open(c, Save(r.leave, [status |-> "cancelled"]))

\* Whoever does not see every branch decides on time off of branches they see.
Decides(c, v) ==
    \/ c \in Admin
    \/ doc[v].everywhere /\ Employed /\ employee.branches \subseteq Granted[c]
    \/ ~doc[v].everywhere /\ doc[v].branches \subseteq Granted[c]

Decision == [op \in {"approve", "reject", "call off"} |->
    CASE op = "approve" -> "approved" [] op = "reject" -> "rejected" [] OTHER -> "cancelled"]

\* What has been cancelled can be approved.
DecideAgain(c, r) ==
    /\ r.op \in DOMAIN Decision
    /\ Decides(c, r.leave)
    /\ Open(c, Save(r.leave, [status |-> Decision[r.op]]))

\* Deciding once more what has been decided changes nothing.
DecideTimeOff(c, r) ==
    LET status == doc[r.leave].status IN
    /\ r.op \in DOMAIN Decision
    /\ Decides(c, r.leave)
    /\ \/ status \in {"requested", Decision[r.op]}
       \/ r.op = "call off" /\ status = "approved"
    /\ Open(c, Save(r.leave, [status |-> Decision[r.op]]))

RosterOperation(c, r) ==
    \/ CreateShift(c, r)
    \/ UpdateShift(c, r)
    \/ ArchiveShift(c, r)
    \/ CreateResource(c, r)
    \/ UpdateResource(c, r)
    \/ DeleteResource(c, r)
    \/ TakeOff(c, r)
    \/ Withdraw(c, r)
    \/ DecideTimeOff(c, r)
=============================================================================
