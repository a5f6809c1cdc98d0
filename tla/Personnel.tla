----------------------------- MODULE Personnel ------------------------------
(***************************************************************************)
(* An employee, the account they log in with, and what it gives access to. *)
(*                                                                         *)
(* Administrators, and managers who see some branches only, hire and       *)
(* dismiss the employee, move them between branches, give them an account, *)
(* decide where it is good for, and say at which branches they perform the *)
(* service.  Administrators disable one another.                           *)
(*                                                                         *)
(* Skills and levels are there to be referred to.  The employee has the    *)
(* skill by a document of its own.                                         *)
(*                                                                         *)
(* One employee, one skill and one level are enough: nothing relates two   *)
(* of them.  Names, dates and permissions are left out, and so is the      *)
(* employee's level; a reference to one that is not active is one of the   *)
(* reasons for which a request fails.                                      *)
(***************************************************************************)
EXTENDS Catalog

CONSTANT Duty   \* documents that say that the employee performs the service at a branch

EmployeeStatus == {"invited", "active", "on_leave", "inactive", "terminated"}
AccessStatus   == {"invited", "active", "suspended", "revoked"}

-----------------------------------------------------------------------------
(* Documents *)

NoEmployee == [status |-> "absent", branches |-> {}, bookable |-> FALSE, linked |-> FALSE]
NoUser     == [standing |-> "none", made |-> 0]
NoAccess   == [status |-> "none", everywhere |-> FALSE, branches |-> {}]
NoDuty     == [status |-> "absent", at |-> {}]
NoTerm     == [status |-> "absent"]
NoAdmin    == [standing |-> "none", access |-> "none"]

employee == doc.employee
user     == doc.user
access   == doc.access
Employed == employee.status \in EmployeeStatus

\* The administrators whose account and access are active.
Working == {a \in Admin : doc[a] = [standing |-> "on", access |-> "active"]}

\* The employee can work.
LoggedIn == user.standing = "on" /\ access.status = "active"

Manages(c, branches)   == c \in Admin \/ (branches # {} /\ branches \subseteq Granted[c])
Sees(c, branches)      == c \in Admin \/ branches \cap Granted[c] # {}
MayUse(c, branches)    == c \in Admin \/ branches \subseteq Granted[c]
MayGrant(c, r)         == c \in Admin \/ (~r.everywhere /\ r.branches \subseteq Granted[c])
StatusFits(emp, given) == given = "active" => emp \in {"active", "on_leave"}
BranchesFit(r, branches) == r.everywhere \/ (r.branches # {} /\ r.branches \subseteq branches \cap Active)

\* The access a request asks for.
Access(r) == [status |-> r.status, everywhere |-> r.everywhere,
              branches |-> IF r.everywhere THEN {} ELSE r.branches]

-----------------------------------------------------------------------------
(* Who may ask, and under which leases *)

\* Of an update, status "keep": the status stays, and everywhere: the branches do.
PersonnelAffected(r) ==
    CASE r.op \in {"hire", "employ", "assign", "unassign"}      -> r.branches
      [] r.op = "update" /\ ~r.everywhere                       -> employee.branches \cup r.branches
      [] r.op = "update" /\ r.everywhere /\ r.status # "keep"   -> employee.branches
      [] r.op \in {"activate", "terminate", "learn", "unlearn"} -> employee.branches
      [] OTHER                                                  -> {}

PersonnelAdmitted(c, r) ==
    CASE r.op \in {"hire", "employ"} ->
           (c \in Admin \/ r.branches # {}) /\ MayUse(c, r.branches)
      [] r.op \in {"update", "provision", "activate", "terminate", "learn", "unlearn"} ->
           Employed /\ Manages(c, employee.branches)
      [] r.op \in {"assign", "unassign"} ->
           Employed /\ Sees(c, employee.branches) /\ MayUse(c, r.branches)
      [] r.op = "access"  -> c \notin Own
      [] r.op = "profile" -> c \in Own /\ user.standing = "on"
      [] OTHER -> c \in Admin

\* assertEmployeeReferences: an employee works at active branches.
MayJoin(branches) == branches \subseteq Active

-----------------------------------------------------------------------------
(* The operations *)

NewUser == Put("user", [standing |-> "on", made |-> user.made + 1])

\* A new employee, with an account ("employ") or without; the account is good
\* for the employee's branches, or for all when there are none.
Hire(c, r) ==
    LET hired == [status |-> r.status, branches |-> r.branches,
                  bookable |-> r.status = "active", linked |-> r.op = "employ"]
        given == Access([status |-> IF r.status = "active" THEN "active" ELSE "invited",
                         everywhere |-> r.branches = {}, branches |-> r.branches])
    IN
    /\ r.op \in {"hire", "employ"}
    /\ employee = NoEmployee
    /\ MayJoin(r.branches)
    /\ Open(c, Both(Put("employee", hired),
                    IF hired.linked THEN Both(NewUser, Put("access", given)) ELSE Nothing))

\* The account follows the employee's status, by the access alone.
UserIgnoring(status) == IF status = "active" THEN "on" ELSE user.standing

\* applyAccountStatusForEmployee: the account and the access that go with a status.
User(status) ==
    CASE status = "active"                     -> "on"
      [] status \in {"terminated", "inactive"} -> "off"
      [] OTHER                                 -> user.standing

Standing(status) ==
    CASE status = "active"     -> "active"
      [] status = "terminated" -> "revoked"
      [] status = "inactive"   -> "suspended"
      [] status = "invited"    -> "invited"
      [] OTHER                 -> access.status

\* When the account is disabled its sessions end too, which writes the user.
Account(status) ==
    IF status \in {"terminated", "inactive"} THEN Put("user", [standing |-> User(status)])
    ELSE Save("user", [standing |-> User(status)])

\* Access is cut down to the employee's new branches, even to none.
TrimAll(a, branches) ==
    IF a = NoAccess \/ a.everywhere THEN a ELSE [a EXCEPT !.branches = @ \cap branches]

\* Access is cut down to the employee's new branches; when none remains it is
\* suspended and keeps the old ones.
Trim(a, branches) ==
    IF a = NoAccess \/ a.everywhere THEN a
    ELSE IF a.branches \cap branches = {} THEN [a EXCEPT !.status = "suspended"]
    ELSE [a EXCEPT !.branches = @ \cap branches]

\* The access changes with the status first, then with the branches.
Updated(r) ==
    LET status   == IF r.status = "keep" THEN employee.status ELSE r.status
        branches == IF r.everywhere THEN employee.branches ELSE r.branches
        new      == [employee EXCEPT !.status = status, !.branches = branches,
                                     !.bookable = @ /\ status = "active"]
        changing == employee.linked /\ r.status # "keep"
        before   == IF changing /\ access # NoAccess
                    THEN [access EXCEPT !.status = Standing(status)] ELSE access
        after    == IF employee.linked /\ ~r.everywhere THEN Trim(before, branches) ELSE before
        touched  == r.status = "keep" /\ r.everywhere
    IN  Both(IF touched THEN Put("employee", new) ELSE Save("employee", new),
             Both(IF access = before /\ before = after THEN Nothing ELSE Put("access", after),
                  IF changing THEN Account(status) ELSE Nothing))

\* An update as the checks before the transaction leave it.
UpdateUnchecked(c, r) ==
    /\ r.op = "update"
    /\ Employed
    /\ Open(c, Updated(r))

\* Status, branches, or neither: then some other field of the employee.
Update(c, r) ==
    /\ r.op = "update"
    /\ Employed
    /\ Manages(c, employee.branches)
    /\ r.everywhere \/ MayUse(c, r.branches)
    /\ MayJoin(IF r.everywhere THEN employee.branches ELSE r.branches)
    /\ Open(c, Updated(r))

\* The employee's first account; it may make them active.
Provision(c, r) ==
    LET status == IF r.op = "activate" THEN "active" ELSE employee.status IN
    /\ r.op \in {"provision", "activate"}
    /\ Employed
    /\ Manages(c, employee.branches)
    /\ MayGrant(c, r)
    /\ ~employee.linked
    /\ r.op = "activate" => employee.branches # {}
    /\ StatusFits(status, r.status)
    /\ BranchesFit(r, employee.branches)
    /\ Open(c, Both(Put("employee", [employee EXCEPT !.status = status, !.linked = TRUE]),
                    Both(NewUser, Put("access", Access(r)))))

\* The employee is deleted; the account stays, disabled.
Terminate(c, r) ==
    /\ r.op = "terminate"
    /\ Employed
    /\ Manages(c, employee.branches)
    /\ Open(c, Both(Put("employee", [NoEmployee EXCEPT !.status = "gone"]),
                    IF ~employee.linked THEN Nothing
                    ELSE Both(Account("terminated"),
                              IF access = NoAccess THEN Nothing
                              ELSE Save("access", [status |-> Standing("terminated")]))))

UpdateAccess(c, r) ==
    /\ r.op = "access"
    /\ Employed
    /\ Manages(c, employee.branches)
    /\ MayGrant(c, r)
    /\ StatusFits(employee.status, r.status)
    /\ employee.linked
    /\ BranchesFit(r, employee.branches)
    /\ Open(c, Save("access", Access(r)))

\* Active offers of the service at the branches bs.
Offered(bs) == {o \in Offer : doc[o].status = "active" /\ doc[o].at = bs}

\* Of a branch where the service is not offered any more.
AssignAnyway(c, r) ==
    /\ r.op = "assign"
    /\ Employed
    /\ service.status = "active"
    /\ \E d \in Duty : Open(c, Save(d, [status |-> "active", at |-> r.branches]))

\* Of a service that is active, offered at a branch where the employee works.
Assign(c, r) ==
    LET known == {d \in Duty : doc[d].at = r.branches} IN
    /\ r.op = "assign"
    /\ Employed
    /\ r.branches \subseteq employee.branches
    /\ service.status = "active"
    /\ Offered(r.branches) # {}
    /\ \E d \in IF known # {} THEN known ELSE {x \in Duty : doc[x] = NoDuty} :
         Open(c, Save(d, [status |-> "active", at |-> r.branches]))

Unassign(c, r) ==
    /\ r.op = "unassign"
    /\ \E d \in Duty :
         /\ doc[d].at = r.branches
         /\ Open(c, Save(d, [status |-> "inactive"]))

\* Skills and levels come and go without a lease, whoever refers to them.
CreateTerm(c, r) ==
    /\ r.op = "create term"
    /\ doc[r.term] = NoTerm
    /\ Open(c, Put(r.term, [status |-> Status(r.active = "on")]))

\* Deactivating one is an update to off.
UpdateTerm(c, r) ==
    /\ r.op = "update term"
    /\ doc[r.term] # NoTerm
    /\ Open(c, Save(r.term, [status |-> Status(r.active = "on")]))

\* The employee is not looked at again, and may have been deleted.
UpsertSkill(c, r) ==
    /\ r.op = "learn"
    /\ doc.skill.status = "active"
    /\ Open(c, Save("talent", [status |-> Status(r.active = "on")]))

RemoveSkill(c, r) ==
    /\ r.op = "unlearn"
    /\ doc.talent # NoTerm
    /\ Open(c, Save("talent", [status |-> "inactive"]))

\* The employee changes fields of their own that are left out here.
UpdateMyProfile(c, r) ==
    /\ r.op = "profile"
    /\ Employed
    /\ Open(c, Put("employee", Nothing))

CreateAdmin(c, r) ==
    /\ r.op = "create admin"
    /\ \E a \in Admin :
         /\ doc[a] = NoAdmin
         /\ Open(c, Put(a, [standing |-> "on", access |-> r.status]))

\* Of another administrator: an administrator cannot disable their own account.
\* Disabling suspends the access, which enabling does not bring back.
UpdateAdmin(c, r) ==
    /\ r.op \in {"enable", "disable"}
    /\ \E a \in Admin \ {c} :
         /\ doc[a] # NoAdmin
         /\ Open(c, IF r.op = "enable" THEN Save(a, [standing |-> "on"])
                    ELSE IF doc[a].standing = "off" THEN Nothing
                    ELSE Save(a, [standing |-> "off", access |-> "suspended"]))

UpdateAdminAccess(c, r) ==
    /\ r.op = "admin access"
    /\ \E a \in Admin \ {c} :
         /\ doc[a] # NoAdmin
         /\ Open(c, Save(a, [access |-> r.status]))

PersonnelOperation(c, r) ==
    \/ Hire(c, r)
    \/ Update(c, r)
    \/ Provision(c, r)
    \/ Terminate(c, r)
    \/ UpdateAccess(c, r)
    \/ Assign(c, r)
    \/ Unassign(c, r)
    \/ CreateTerm(c, r)
    \/ UpdateTerm(c, r)
    \/ UpsertSkill(c, r)
    \/ RemoveSkill(c, r)
    \/ UpdateMyProfile(c, r)
    \/ CreateAdmin(c, r)
    \/ UpdateAdmin(c, r)
    \/ UpdateAdminAccess(c, r)
=============================================================================
