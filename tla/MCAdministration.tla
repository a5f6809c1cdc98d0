-------------------------- MODULE MCAdministration --------------------------
(* Instances of Administration for TLC: one part of the back office at a time. *)
EXTENDS Administration, TLC

CONSTANTS a1, a2, m, me, A, B, o1, o2, h1, h2, d1, s1, s2, l1, l2, x1,
          k1, k2, k3

MCGranted == a1 :> {A, B} @@ a2 :> {A, B} @@ m :> {A} @@ me :> {}

-----------------------------------------------------------------------------
(* What there is at the start *)

Works == [standing |-> "on", access |-> "active"]

\* Two administrators and nothing else.
Bare ==
    [b \in Branch |-> NoBranch] @@ [o \in Offer |-> NoOffer] @@ [v \in Hours |-> NoVersion] @@
    [d \in Duty |-> NoDuty] @@ [v \in Shift |-> NoVersion] @@ [v \in Leave |-> NoLeave] @@
    [a \in Admin |-> Works] @@
    [x \in Resource |-> NoResource] @@ [k \in Category |-> NoCategory] @@
    "settings" :> NoSettings @@ "service" :> NoService @@ "employee" :> NoEmployee @@
    "user" :> NoUser @@ "access" :> NoAccess @@ "product" :> NoProduct @@
    "package" :> NoPackage @@ "skill" :> NoTerm @@ "level" :> NoTerm @@ "talent" :> NoTerm

Open1(primary) == [status |-> "active", primary |-> primary, bookings |-> TRUE]

\* A is the primary branch; B is as given.
Salon(mode, b) ==
    A :> Open1(TRUE) @@ B :> b @@
    "settings" :> [mode |-> mode, primary |-> {A}] @@ Bare

Both2 == Salon("multiple", Open1(FALSE))
Shut  == [status |-> "inactive", primary |-> FALSE, bookings |-> FALSE]

\* The service is offered at both branches.
Menu ==
    "service" :> [status |-> "active", online |-> TRUE] @@
    o1 :> [status |-> "active", at |-> {A}, online |-> TRUE] @@
    o2 :> [status |-> "active", at |-> {B}, online |-> FALSE] @@ Both2

\* The employee works at both branches and has an account for them.
Staffed ==
    "employee" :> [status |-> "active", branches |-> {A, B}, bookable |-> TRUE,
                   linked |-> TRUE] @@
    "user" :> [standing |-> "on", made |-> 1] @@
    "access" :> [status |-> "active", everywhere |-> TRUE, branches |-> {}] @@ Menu

-----------------------------------------------------------------------------
(* Who asks what *)

Agenda(start, as, bs, ms, mine) ==
    [doc |-> start, asks |-> a1 :> as @@ a2 :> bs @@ m :> ms @@ me :> mine]

Foundation == Agenda(Bare,
    {[op |-> "bootstrap", branch |-> B, mode |-> "multiple"], [op |-> "read settings"],
     [op |-> "create branch", branch |-> A, active |-> "off", bookings |-> "keep",
      primary |-> "on"]},
    {[op |-> "settings", mode |-> "single", primary |-> {}],
     [op |-> "create branch", branch |-> B, active |-> "on", bookings |-> "keep",
      primary |-> "keep"]},
    {[op |-> "list branches"], [op |-> "read settings"]}, {})

Change(b, active, bookings, primary) ==
    [op |-> "update branch", branch |-> b, active |-> active, bookings |-> bookings,
     primary |-> primary]

\* Of a salon with one branch, or with one active.
Modes(start) == Agenda(start,
    {[op |-> "settings", mode |-> mode, primary |-> {}] : mode \in Mode} \cup
    {[op |-> "settings", mode |-> "keep", primary |-> {B}], Change(A, "keep", "keep", "on")},
    {[op |-> "create branch", branch |-> B, active |-> active, bookings |-> "keep",
      primary |-> "keep"] : active \in {"off", "on"}} \cup
    {Change(B, "on", "keep", "keep"), Change(B, "off", "keep", "keep"),
     Change(B, "keep", "on", "on"), [op |-> "archive branch", branch |-> A]},
    {}, {})

Offering(o, active, online, branches) ==
    [op |-> "update offer", offer |-> o, active |-> active, online |-> online,
     branches |-> branches]

Ask1(op, status, branches, everywhere) ==
    [op |-> op, status |-> status, branches |-> branches, everywhere |-> everywhere]

Serving(active, online) == [op |-> "update service", active |-> active, online |-> online]

Withdrawing == Agenda(Menu,
    {Serving("on", "keep"), Serving("off", "keep"), Serving("keep", "off"),
     [op |-> "archive service"]},
    {Offering(o2, "on", "on", {}), Offering(o2, "on", "keep", {A}), Change(B, "off", "keep", "keep")},
    {Offering(o1, "on", "on", {})}, {})

\* The service goes and comes back while an offer is put online, or the employee given
\* it.
Returning == Agenda(Staffed,
    {Serving("off", "keep")}, {Serving("on", "on")},
    {Offering(o1, "on", "on", {}), Offering(o1, "on", "off", {}),
     Ask1("assign", "keep", {A}, FALSE)}, {})

\* An offer moves away from a branch that is archived, and back.
Moving == Agenda(o1 :> NoOffer @@ Menu,
    {[op |-> "archive branch", branch |-> B]},
    {Offering(o2, "keep", "keep", {b}) : b \in {A, B}},
    {Offering(o2, "on", "on", {})}, {})

NewOffer(o, b, online) ==
    [op |-> "create offer", offer |-> o, branch |-> b, active |-> "on", online |-> online]

\* There is no service yet.
Introducing == Agenda("service" :> NoService @@ o1 :> NoOffer @@ o2 :> NoOffer @@ Menu,
    {[op |-> "create service", active |-> "keep", online |-> "keep"], Serving("off", "keep"),
     NewOffer(o2, B, "keep")},
    {[op |-> "archive branch", branch |-> B], Offering(o2, "on", "keep", {A})},
    {NewOffer(o1, A, "off")}, {})

Version(op, v, status, from, until) ==
    [op |-> op, version |-> v, branch |-> A, status |-> status, from |-> from, until |-> until]

Opening == Agenda(Salon("multiple", Open1(FALSE)),
    {Version("create hours", h1, "active", 1, 3), Version("update hours", h1, "draft", 1, Forever),
     Version("update hours", h2, "active", 1, 2), [op |-> "archive hours", version |-> h1]},
    {Change(B, "keep", "keep", "on"), Change(A, "off", "keep", "keep")},
    {Version("create hours", h2, "active", 2, Forever),
     Version("update hours", h1, "active", 2, 3)}, {})

-----------------------------------------------------------------------------

Hires    == {Ask1("hire", "active", {A, B}, FALSE), Ask1("employ", "invited", {A}, FALSE),
             Ask1("employ", "active", {}, FALSE)}
Statuses == {Ask1("update", s, {}, TRUE) : s \in EmployeeStatus}
Moves    == {Ask1("update", "keep", bs, FALSE) : bs \in {{A}, {B}, {A, B}}}

\* An administrator and a manager of one branch.
Staff == Agenda(Both2,
    Hires \cup Statuses \cup Moves \cup
    {Ask1("activate", "invited", {A}, FALSE), Ask1("terminate", "keep", {}, FALSE),
     Ask1("access", "active", {A, B}, FALSE)},
    {},
    {Ask1("update", "keep", {}, TRUE), Ask1("update", "inactive", {A}, FALSE),
     Ask1("provision", "active", {A}, FALSE), Ask1("access", "active", {A}, FALSE),
     Ask1("terminate", "keep", {}, FALSE)},
    {})

\* The administrators, one of whom makes the other, and the employee.
Admins == Agenda(a2 :> NoAdmin @@ Staffed,
    {Ask1("create admin", "active", {}, TRUE), Ask1("disable", "keep", {}, TRUE),
     Ask1("enable", "keep", {}, TRUE), Ask1("admin access", "active", {}, TRUE)},
    {Ask1("disable", "keep", {}, TRUE), Ask1("admin access", "suspended", {}, TRUE),
     Ask1("update", "inactive", {}, TRUE)},
    {}, {[op |-> "profile"]})

Joining == Agenda("service" :> [status |-> "active", online |-> TRUE] @@ Menu,
    {Ask1("hire", "active", {A, B}, FALSE), Ask1("update", "keep", {B}, FALSE),
     Ask1("update", "on_leave", {}, TRUE),
     Ask1("assign", "keep", {B}, FALSE), Ask1("unassign", "keep", {B}, FALSE)},
    {Change(B, "off", "keep", "keep"), Change(B, "on", "keep", "keep"),
     [op |-> "archive branch", branch |-> B],
     Offering(o2, "off", "off", {}), Offering(o2, "on", "keep", {})},
    {}, {})

Shifting(op, s, status, from, until) ==
    [op |-> op, shift |-> s, branch |-> A, status |-> status, from |-> from, until |-> until]

Planning == Agenda(Staffed,
    {Shifting("create shift", s1, "active", 1, 3), Shifting("update shift", s1, "active", 1, 2),
     Shifting("archive shift", s1, "active", 1, 2)},
    {Ask1("update", "keep", {B}, FALSE), Ask1("update", "keep", {A, B}, FALSE)},
    {Shifting("create shift", s2, "draft", 2, Forever),
     Shifting("update shift", s2, "active", 2, Forever)}, {})

TakingOff(l, branches, everywhere, from, until) ==
    [op |-> "take off", leave |-> l, branches |-> branches, everywhere |-> everywhere,
     from |-> from, until |-> until]

Leaving == Agenda(Staffed,
    {[op |-> "approve", leave |-> l1], [op |-> "call off", leave |-> l1],
     [op |-> "reject", leave |-> l2]},
    {Ask1("update", "keep", {B}, FALSE)},
    {[op |-> "reject", leave |-> l1], [op |-> "approve", leave |-> l2]},
    {TakingOff(l1, {A}, FALSE, 1, 3), TakingOff(l2, {}, TRUE, 2, 4),
     [op |-> "withdraw", leave |-> l1]})

-----------------------------------------------------------------------------

Sorted(parent, types) == [status |-> "active", parent |-> parent, types |-> types]

\* Where the category k is put, for what, and whether it is active.
Sorting(op, k, keep, parent, types, active) ==
    [op |-> op, category |-> k, keep |-> keep, parent |-> parent, types |-> types,
     active |-> active]

\* k2 is below k1, and everything moves.
Trees == Agenda(k1 :> Sorted({}, {"service"}) @@ k2 :> Sorted({k1}, {"product"}) @@ Both2,
    {Sorting("update category", k1, FALSE, {p}, {}, "keep") : p \in {k2, k3}} \cup
    {Sorting("create category", k3, FALSE, {k2}, {"package"}, "keep"),
     Sorting("update category", k2, FALSE, {}, {}, "off")},
    {Sorting("create category", k3, FALSE, {}, {"package"}, "keep"),
     Sorting("update category", k2, FALSE, {k3}, {}, "on"),
     [op |-> "archive category", category |-> k1]},
    {}, {})

Item(op, k, active, everywhere, branches) ==
    [op |-> op, category |-> k, active |-> active, everywhere |-> everywhere,
     branches |-> branches, with |-> {"product"}]

Stocking == Agenda(k1 :> Sorted({}, {"service", "product"}) @@
                   k2 :> Sorted({}, {"service"}) @@ Menu,
    {Item("create product", {k1}, "keep", TRUE, {}), Item("update product", {k2}, "on", FALSE, {B}),
     Item("create package", {k2}, "keep", TRUE, {}), Item("update package", {}, "on", FALSE, {A}),
     [op |-> "archive product"]},
    {Item("update product", {}, "off", FALSE, {}),
     Sorting("update category", k1, TRUE, {}, {"service"}, "keep"),
     Sorting("update category", k2, TRUE, {}, {"package"}, "keep"),
     [op |-> "switch package", active |-> "on"], [op |-> "archive package"]},
    {}, {})

Furnishing(op, b, serves, keep, active) ==
    [op |-> op, resource |-> x1, branch |-> b, serves |-> serves, keep |-> keep,
     active |-> active]

\* The service is offered at B only.
Chairs == Agenda(o1 :> NoOffer @@ Menu,
    {Furnishing("create resource", B, TRUE, FALSE, "keep"),
     Furnishing("create resource", A, FALSE, FALSE, "off"),
     Furnishing("delete resource", B, FALSE, FALSE, "keep")},
    {Offering(o2, "keep", "keep", {A}), Offering(o2, "keep", "keep", {B}),
     [op |-> "archive service"]},
    {Furnishing("update resource", A, TRUE, FALSE, "keep"),
     Furnishing("update resource", A, TRUE, TRUE, "on"),
     Furnishing("update resource", A, FALSE, FALSE, "keep")}, {})

Term(op, d, active) == [op |-> op, term |-> d, active |-> active]

Skills == Agenda(Staffed,
    {Term("create term", "skill", "on"), Term("create term", "level", "on"),
     Term("update term", "skill", "off"), Ask1("terminate", "keep", {}, FALSE)},
    {[op |-> "learn", active |-> "on"], [op |-> "unlearn"]},
    {[op |-> "learn", active |-> "off"]}, {})

MCAgendas ==
    {Foundation, Modes(Salon("multiple", Shut)), Modes(Salon("single", NoBranch)),
     Withdrawing, Returning, Moving, Introducing, Opening, Staff, Admins, Joining, Planning, Leaving,
     Trees, Stocking, Chairs, Skills}
=============================================================================
