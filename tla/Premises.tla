------------------------------ MODULE Premises ------------------------------
(***************************************************************************)
(* The salon's branches and what they offer.                               *)
(*                                                                         *)
(* One branch is the primary one, which the business settings name; the    *)
(* settings also say whether more than one branch may be active.  A        *)
(* service is offered at a branch by a document of its own, and switched   *)
(* off everywhere when the service is.  A branch has versions of its       *)
(* opening hours, the active ones of different dates.                      *)
(*                                                                         *)
(* One service is enough: nothing relates two of them.  Names, prices,     *)
(* durations, categories and the hours of a day are left out.              *)
(***************************************************************************)
EXTENDS Backoffice

CONSTANTS
    Main,   \* the branch made when there is none: its code is fixed
    Offer,  \* documents that offer the service at a branch
    Hours,  \* versions of opening hours
    Forever \* the end of a version without one

ASSUME PremisesAssumption == Main \in Branch /\ Forever \in Nat

Mode == {"single", "multiple"}

NoSettings == [mode |-> "none", primary |-> {}]
NoBranch   == [status |-> "absent", primary |-> FALSE, bookings |-> FALSE]
NoService  == [status |-> "absent", online |-> FALSE]
NoOffer    == [status |-> "absent", at |-> {}, online |-> FALSE]
NoVersion  == [status |-> "absent", at |-> {}, from |-> 0, until |-> Forever]

settings == doc.settings
service  == doc.service

Branches  == {b \in Branch : doc[b].status # "absent"}
Active    == {b \in Branch : doc[b].status = "active"}
Primaries == {b \in Branch : doc[b].primary}

\* A flag of an input: given on or off, or not given.
Given(flag, old) == flag = "on" \/ (flag = "keep" /\ old)
Status(on)       == IF on THEN "active" ELSE "inactive"

-----------------------------------------------------------------------------
(* Who may ask, and under which leases *)

PremisesAffected(r) ==
    CASE r.op \in {"settings", "update service"} -> Branches
      [] r.op = "create branch" -> Branches \cup {r.branch}
      [] r.op = "update branch" -> IF r.active # "keep" \/ r.bookings # "keep"
                                   THEN {r.branch} ELSE {}
      [] r.op \in {"archive branch", "create offer", "create hours"} -> {r.branch}
      [] r.op = "update offer"   -> doc[r.offer].at \cup r.branches
      [] r.op \in {"update hours", "archive hours"} -> doc[r.version].at
      [] OTHER -> {}

\* Anyone lists the branches and staff read the settings.  Whoever does not see
\* every branch changes offers and hours only, of branches they see.
PremisesAdmitted(c, r) ==
    CASE r.op \in {"list branches", "read settings"} -> TRUE
      [] r.op \in {"create offer", "create hours"} ->
           c \in Admin \/ r.branch \in Granted[c]
      [] r.op = "update offer" ->
           /\ doc[r.offer] # NoOffer
           /\ c \in Admin \/ doc[r.offer].at \cup r.branches \subseteq Granted[c]
      [] r.op \in {"update hours", "archive hours"} ->
           /\ doc[r.version] # NoVersion
           /\ c \in Admin \/ doc[r.version].at \subseteq Granted[c]
      [] OTHER -> c \in Admin

-----------------------------------------------------------------------------
(* Settings and branches *)

MainBranch == [status |-> "active", primary |-> TRUE, bookings |-> TRUE]

\* A list of the branches of a salon that has none makes one.
ListBranches(c, r) ==
    /\ r.op = "list branches"
    /\ Branches = {}
    /\ Open(c, Put(Main, MainBranch))

\* The primary branch when nothing names another.
Usual ==
    CASE settings # NoSettings                   -> settings.primary
      [] settings = NoSettings /\ Branches = {}  -> {Main}
      [] settings = NoSettings /\ Primaries # {} -> Primaries
      [] OTHER                                   -> Branches

\* The settings are made when they are first read, for the primary branch; when
\* there is no branch one is made first, by a write of its own.
ReadSettings(c, r) ==
    /\ r.op = "read settings"
    /\ settings = NoSettings
    /\ IF Branches = {} THEN Open(c, Put(Main, MainBranch))
       ELSE \E b \in Usual : Open(c, Put("settings", [mode |-> "single", primary |-> {b}]))

Bootstrap(c, r) ==
    /\ r.op = "bootstrap"
    /\ settings = NoSettings
    /\ Branches = {}
    /\ Open(c, Both(Put(r.branch, MainBranch),
                    Put("settings", [mode |-> r.mode, primary |-> {r.branch}])))

\* The other branches are primary no longer.
Demoted(b) == [o \in Primaries \ {b} |-> [primary |-> FALSE]]

\* The settings name b, and are made if need be.
Naming(b) ==
    IF settings = NoSettings THEN Put("settings", [mode |-> "single", primary |-> {b}])
    ELSE Save("settings", [settings EXCEPT !.primary = {b}])

\* An input may name the mode and the primary branch; otherwise they stay.
UpdateSettings(c, r) ==
    LET mode == IF r.mode # "keep" THEN r.mode
                ELSE IF settings = NoSettings THEN "single" ELSE settings.mode
        active == IF Branches = {} /\ r.primary = {} THEN {Main} ELSE Active
    IN
    /\ r.op = "settings"
    /\ mode = "single" => Cardinality(active) <= 1
    /\ \E b \in active \cap (IF r.primary # {} THEN r.primary ELSE Usual) :
         Open(c, Both(Save("settings", [mode |-> mode, primary |-> {b}]),
                      Both(Demoted(b),
                           IF Branches = {} THEN Put(b, MainBranch)
                           ELSE Save(b, [doc[b] EXCEPT !.primary = TRUE]))))

\* The first branch is primary whatever the input says.
CreateBranch(c, r) ==
    LET active  == Given(r.active, TRUE)
        primary == Branches = {} \/ r.primary = "on"
    IN
    /\ r.op = "create branch"
    /\ doc[r.branch] = NoBranch
    /\ ~(settings.mode = "single" /\ Active # {} /\ active)
    /\ primary => active
    /\ Open(c, Both(Put(r.branch, [status |-> Status(active), primary |-> primary,
                                   bookings |-> active /\ Given(r.bookings, TRUE)]),
                    IF primary THEN Both(Demoted(r.branch), Naming(r.branch)) ELSE Nothing))

\* Branches can be activated in single mode, the settings unread.
UpdateBranchInAnyMode(c, r) ==
    LET old     == doc[r.branch]
        active  == Given(r.active, old.status = "active")
        promote == r.primary = "on" /\ ~old.primary
        new     == [status |-> Status(active), primary |-> old.primary \/ promote,
                    bookings |-> active /\ Given(r.bookings, old.bookings)]
    IN
    /\ r.op = "update branch"
    /\ old # NoBranch
    /\ old.primary => r.primary # "off" /\ r.active # "off"
    /\ r.bookings = "on" => active
    /\ promote => active
    /\ Open(c, Both(Save(r.branch, new),
                    IF promote THEN Both(Demoted(r.branch), Naming(r.branch)) ELSE Nothing))

\* Takes the branch's lease only when the input says whether the branch is active
\* or takes bookings.  What the branch offers stays as it is.
UpdateBranch(c, r) ==
    /\ r.op = "update branch" /\ r.active = "on" /\ doc[r.branch].status = "inactive" =>
         ~(settings.mode = "single" /\ Active # {})
    /\ UpdateBranchInAnyMode(c, r)

ArchiveBranch(c, r) ==
    /\ r.op = "archive branch"
    /\ doc[r.branch] # NoBranch
    /\ ~doc[r.branch].primary
    /\ Open(c, Both(Save(r.branch, [doc[r.branch] EXCEPT !.status = "inactive",
                                                         !.bookings = FALSE]),
                    [o \in {x \in Offer : doc[x].at = {r.branch}} |->
                        [status |-> "inactive", online |-> FALSE]]))

-----------------------------------------------------------------------------
(* The service and its offers *)

CreateService(c, r) ==
    /\ r.op = "create service"
    /\ service = NoService
    /\ Open(c, Put("service", [status |-> Status(Given(r.active, TRUE)),
                               online |-> Given(r.online, TRUE)]))

\* A service that is inactive or not online is withdrawn from the offers by
\* another write: Cascade.
UpdateService(c, r) ==
    /\ r.op = "update service"
    /\ service.status \in {"active", "inactive"}
    /\ Open(c, Save("service",
                    [status |-> Status(Given(r.active, service.status = "active")),
                     online |-> Given(r.online, service.online)]))

\* Offers that are withdrawn cannot be booked online, but by staff.
WithdrawnOnline(s) ==
    IF s.online THEN Nothing ELSE [online |-> FALSE]

\* What becomes of the offers of the service s; Nothing: they stay.
Withdrawn(s) ==
    CASE s.status = "inactive"            -> [status |-> "inactive", online |-> FALSE]
      [] s.status = "active" /\ ~s.online -> [online |-> FALSE]
      [] OTHER                            -> Nothing

\* Deletes the service, without a lease; its offers stay.
ArchiveService(c, r) ==
    /\ r.op = "archive service"
    /\ service.status \in {"active", "inactive"}
    /\ Open(c, Put("service", [status |-> "gone"]))

\* The branch is not looked at.
OfferableAnywhere(b, active, online) ==
    /\ doc[b] # NoBranch
    /\ service.status \in {"active", "inactive"}
    /\ active => service.status = "active"
    /\ online => active /\ service.online

\* validateBranchServiceInput: an offer that is to be active, online, at branch b.
Offerable(b, active, online) ==
    /\ doc[b] # NoBranch
    /\ service.status \in {"active", "inactive"}
    /\ active => b \in Active /\ service.status = "active"
    /\ online => active /\ doc[b].bookings /\ service.online

CreateOffer(c, r) ==
    LET active == Given(r.active, TRUE)
        online == Given(r.online, TRUE)
    IN
    /\ r.op = "create offer"
    /\ doc[r.offer] = NoOffer
    /\ Offerable(r.branch, active, online)
    /\ Open(c, Put(r.offer, [status |-> Status(active), at |-> {r.branch}, online |-> online]))

\* The offer may move to another branch.  Archiving it is an update to off and off.
UpdateOffer(c, r) ==
    LET old    == doc[r.offer]
        active == Given(r.active, old.status = "active")
        online == Given(r.online, old.online)
    IN
    /\ r.op = "update offer"
    /\ \E b \in IF r.branches = {} THEN old.at ELSE r.branches :
         /\ Offerable(b, active, online)
         /\ Open(c, Save(r.offer, [status |-> Status(active), at |-> {b}, online |-> online]))

-----------------------------------------------------------------------------
(* Opening hours, and versions in general *)

\* Only versions that begin within x are seen.
OverlappingStarts(vs, x) ==
    {v \in vs : /\ doc[v].status = "active"
                /\ doc[v].at = x.at
                /\ doc[v].from < x.until
                /\ x.from <= doc[v].from}

\* The versions among vs that are in force at the same branch on days of x.
Overlapping(vs, x) ==
    {v \in vs : /\ doc[v].status = "active"
                /\ doc[v].at = x.at
                /\ doc[v].from < x.until
                /\ x.from < doc[v].until}

\* An active version is of dates of its own.
Versionable(vs, x) == x.status = "active" => Overlapping(vs, x) = {}

CreateHours(c, r) ==
    LET new == [status |-> r.status, at |-> {r.branch}, from |-> r.from, until |-> r.until] IN
    /\ r.op = "create hours"
    /\ doc[r.version] = NoVersion
    /\ doc[r.branch] # NoBranch
    /\ r.status = "active" => r.branch \in Active
    /\ Versionable(Hours, new)
    /\ Open(c, Put(r.version, new))

\* Even an archived version can be changed.
UpdateHours(c, r) ==
    LET new == [doc[r.version] EXCEPT !.status = r.status, !.from = r.from, !.until = r.until] IN
    /\ r.op = "update hours"
    /\ doc[r.version] # NoVersion
    /\ new.status = "active" => new.at \subseteq Active
    /\ Versionable(Hours \ {r.version}, new)
    /\ Open(c, Save(r.version, new))

ArchiveHours(c, r) ==
    /\ r.op = "archive hours"
    /\ doc[r.version] # NoVersion
    /\ Open(c, Save(r.version, [doc[r.version] EXCEPT !.status = "archived"]))

PremisesOperation(c, r) ==
    \/ ListBranches(c, r)
    \/ ReadSettings(c, r)
    \/ Bootstrap(c, r)
    \/ UpdateSettings(c, r)
    \/ CreateBranch(c, r)
    \/ UpdateBranch(c, r)
    \/ ArchiveBranch(c, r)
    \/ CreateService(c, r)
    \/ UpdateService(c, r)
    \/ ArchiveService(c, r)
    \/ CreateOffer(c, r)
    \/ UpdateOffer(c, r)
    \/ CreateHours(c, r)
    \/ UpdateHours(c, r)
    \/ ArchiveHours(c, r)
=============================================================================
