--------------------------- MODULE Administration ---------------------------
(***************************************************************************)
(* The back office as a whole: the requests of Premises, Catalog,          *)
(* Personnel and Roster against the same documents and leases.             *)
(***************************************************************************)
EXTENDS Roster

CONSTANT Agendas  \* what there is at the start and what everybody asks

-----------------------------------------------------------------------------
(* Documents *)

Singles == {"settings", "service", "employee", "user", "access", "product", "package",
            "skill", "level", "talent"}

Names == Singles \cup Branch \cup Offer \cup Hours \cup Duty \cup Shift \cup Leave
                 \cup Resource \cup Category \cup Admin

ASSUME NamesAssumption ==
    /\ "time off" \notin Branch
    /\ Singles  \cap (Branch \cup Offer \cup Hours \cup Duty \cup Shift \cup Leave
                             \cup Resource \cup Category \cup Admin) = {}
    /\ Branch   \cap (Offer \cup Hours \cup Duty \cup Shift \cup Leave \cup Resource
                            \cup Category \cup Admin) = {}
    /\ Offer    \cap (Hours \cup Duty \cup Shift \cup Leave \cup Resource \cup Category
                            \cup Admin) = {}
    /\ Hours    \cap (Duty \cup Shift \cup Leave \cup Resource \cup Category \cup Admin) = {}
    /\ Duty     \cap (Shift \cup Leave \cup Resource \cup Category \cup Admin) = {}
    /\ Shift    \cap (Leave \cup Resource \cup Category \cup Admin) = {}
    /\ Leave    \cap (Resource \cup Category \cup Admin) = {}
    /\ Resource \cap (Category \cup Admin) = {}
    /\ Category \cap Admin = {}

One(S) == {{x} : x \in S}

SettingsDoc == {NoSettings} \cup [mode : Mode, primary : One(Branch)]

\* An inactive branch takes no bookings.
BranchDoc ==
    {v \in [status : {"absent", "active", "inactive"}, primary : BOOLEAN, bookings : BOOLEAN] :
        v.primary \/ v.bookings => v.status = "active"}

ServiceDoc == [status : {"absent", "active", "inactive", "gone"}, online : BOOLEAN]
OfferDoc   == {NoOffer} \cup [status : {"active", "inactive"}, at : One(Branch), online : BOOLEAN]
VersionDoc == {NoVersion} \cup [status : {"draft", "active", "archived"}, at : One(Branch),
                                from : Nat, until : Nat]

\* An employee who is not active is not bookable.
EmployeeDoc ==
    {v \in {NoEmployee} \cup [status : EmployeeStatus \cup {"gone"}, branches : SUBSET Branch,
                              bookable : BOOLEAN, linked : BOOLEAN] :
        v.bookable => v.status = "active"}

UserDoc == [standing : {"none", "on", "off"}, made : Nat]

\* Access that is not to all branches names one, whatever has become of the employee's
\* branches.
AccessDoc ==
    {NoAccess} \cup
    {v \in [status : AccessStatus, everywhere : BOOLEAN, branches : SUBSET Branch] :
        v.everywhere <=> v.branches = {}}

DutyDoc  == {NoDuty} \cup [status : {"active", "inactive"}, at : One(Branch)]
LeaveDoc == {NoLeave} \cup [status : LeaveStatus, everywhere : BOOLEAN,
                            branches : SUBSET Branch, from : Nat, until : Nat]

ResourceDoc == [status : {"absent", "active", "inactive", "gone"}, at : {{}} \cup One(Branch),
                serves : BOOLEAN]

CategoryDoc ==
    {v \in [status : {"absent", "active", "inactive", "gone"},
            parent : {{}} \cup One(Category), types : SUBSET Type] :
        v.status \in {"active", "inactive"} => v.types # {}}

\* Whatever is sold is in one category.
ProductDoc ==
    {v \in [status : {"absent", "active", "inactive", "gone"}, in : SUBSET Category,
            at : SUBSET Branch] :
        v.status \in {"active", "inactive"} => v.in \in One(Category)}
PackageDoc ==
    {v \in [status : {"absent", "active", "inactive", "gone"}, in : SUBSET Category,
            at : SUBSET Branch, with : SUBSET {"product"}] :
        v.status \in {"active", "inactive"} => v.in \in One(Category)}

TermDoc  == [status : {"absent", "active", "inactive"}]
AdminDoc == [standing : {"none", "on", "off"}, access : {"none"} \cup AccessStatus]

\* What the schemas let document d be, and the code keeps up.
Schema(d) ==
    CASE d \in Branch -> BranchDoc
      [] d \in Offer -> OfferDoc
      [] d \in Hours \cup Shift -> VersionDoc
      [] d \in Duty -> DutyDoc
      [] d \in Leave -> LeaveDoc
      [] d \in Resource -> ResourceDoc
      [] d \in Category -> CategoryDoc
      [] d \in Admin -> AdminDoc
      [] d \in {"skill", "level", "talent"} -> TermDoc
      [] d = "settings" -> SettingsDoc
      [] d = "service" -> ServiceDoc
      [] d = "employee" -> EmployeeDoc
      [] d = "user" -> UserDoc
      [] d = "access" -> AccessDoc
      [] d = "product" -> ProductDoc
      [] d = "package" -> PackageDoc

\* What the validators and the paths of the routes let a request ask.
RequestFits(r) ==
    /\ r.op \in {"bootstrap", "create branch", "update branch", "archive branch", "create offer",
                 "create hours", "create shift", "create resource", "update resource",
                 "delete resource"} => r.branch \in Branch
    /\ r.op \in {"create branch", "update branch"} =>
         {r.active, r.bookings, r.primary} \subseteq {"on", "off", "keep"}
    /\ r.op = "bootstrap" => r.mode \in Mode
    /\ r.op = "settings"  => r.mode \in Mode \cup {"keep"} /\ r.primary \subseteq Branch
    /\ r.op \in {"create offer", "update offer"} => r.offer \in Offer
    /\ r.op = "update offer" => r.branches \in {{}} \cup One(Branch)
    /\ r.op \in {"create hours", "update hours", "archive hours"} => r.version \in Hours
    /\ r.op \in {"create hours", "update hours", "create shift", "update shift"} =>
         r.status \in {"draft", "active", "archived"} /\ r.from \in Nat /\ r.until \in Nat
    /\ r.op \in {"create shift", "update shift", "archive shift"} => r.shift \in Shift
    /\ r.op \in {"hire", "employ"} => r.status \in EmployeeStatus
    /\ r.op = "update" => r.status \in EmployeeStatus \cup {"keep"} /\ r.everywhere \in BOOLEAN
    /\ r.op \in {"hire", "employ", "update", "provision", "activate", "access", "take off"} =>
         r.branches \subseteq Branch
    /\ r.op \in {"provision", "activate", "access"} =>
         r.status \in AccessStatus /\ r.everywhere \in BOOLEAN
    /\ r.op \in {"create admin", "admin access"} => r.status \in AccessStatus
    /\ r.op \in {"assign", "unassign"} => r.branches \in One(Branch)
    /\ r.op \in {"create term", "update term"} => r.term \in {"skill", "level"}
    /\ r.op \in {"take off", "withdraw", "approve", "reject", "call off"} => r.leave \in Leave
    /\ r.op = "take off" =>
         r.everywhere \in BOOLEAN /\ r.from \in Nat /\ r.until \in Nat
    /\ r.op \in {"create resource", "update resource", "delete resource"} =>
         r.resource \in Resource
    /\ r.op \in {"create resource", "update resource"} => r.serves \in BOOLEAN
    /\ r.op \in {"create category", "update category", "archive category"} =>
         r.category \in Category
    /\ r.op \in {"create category", "update category"} =>
         r.parent \in {{}} \cup One(Category) /\ r.types \subseteq Type
    /\ r.op = "create category" => r.types # {}
    /\ r.op \in {"create product", "create package"} => r.category \in One(Category)
    /\ r.op \in {"update product", "update package"} => r.category \in {{}} \cup One(Category)
    /\ r.op \in {"create product", "update product", "create package", "update package"} =>
         r.branches \subseteq Branch
    /\ r.op \in {"create package", "update package"} => r.with \subseteq {"product"}

\* Nothing is wrong with the documents at the start.
InOrder(docs) ==
    LET there == {b \in Branch : docs[b].status # "absent"}
        first == {b \in Branch : docs[b].primary}
        apart(vs) ==
            \A v, w \in vs : v # w /\ docs[v].status = "active" /\ docs[w].status = "active" =>
                docs[v].at # docs[w].at \/ docs[v].until <= docs[w].from
                                        \/ docs[w].until <= docs[v].from
        emp == docs.employee
    IN
    /\ DOMAIN docs = Names
    /\ \A d \in Names : docs[d] \in Schema(d)
    /\ first \in IF there = {} THEN {{}} ELSE One(Branch)
    /\ docs.settings # NoSettings => docs.settings.primary = first
    /\ docs.settings.mode = "single" =>
         \A a, b \in Branch : docs[a].status = "active" /\ docs[b].status = "active" => a = b
    /\ \A o \in Offer :
         /\ docs[o].at \subseteq there
         /\ docs[o].online => docs[o].status = "active"
         /\ docs[o].status = "active" => docs.service.status \in {"active", "gone"}
    /\ docs.service = NoService => \A o \in Offer : docs[o] = NoOffer
    /\ apart(Hours) /\ apart(Shift)
    /\ \A v, w \in Leave :
         v # w /\ {docs[v].status, docs[w].status} \subseteq {"requested", "approved"} =>
             docs[v].until <= docs[w].from \/ docs[w].until <= docs[v].from
    /\ \A k \in Category : \E S \in SUBSET (Category \ {k}) :
         \A a \in S \cup {k} : docs[a].parent \subseteq S
    /\ \A k \in docs.product.in :
         /\ docs[k].status # "absent"
         /\ docs.product.status = "active" /\ docs[k].status # "gone" =>
              "product" \in docs[k].types
    /\ docs.user.made = IF emp.linked THEN 1 ELSE 0
    /\ IF emp.linked THEN /\ emp.status \in EmployeeStatus /\ docs.user.standing # "none"
                          /\ emp.status = "active" => docs.user.standing = "on"
                          /\ emp.status \in {"inactive", "terminated"} => docs.user.standing = "off"
       ELSE docs.user = NoUser /\ docs.access = NoAccess

ASSUME AgendaAssumption ==
    \A g \in Agendas :
        /\ DOMAIN g.asks = Client
        /\ \A c \in Client : \A r \in g.asks[c] : RequestFits(r)
        /\ InOrder(g.doc)

-----------------------------------------------------------------------------
(* Requests *)

PersonnelOps == {"hire", "employ", "update", "provision", "activate", "terminate", "access",
                 "assign", "unassign", "create term", "update term", "learn", "unlearn",
                 "profile", "create admin", "enable", "disable", "admin access"}
RosterOps    == Sharing \cup Careless

\* The leases a request needs, as things are now.
Affected(r) ==
    CASE r.op \in PersonnelOps -> PersonnelAffected(r)
      [] r.op \in RosterOps    -> RosterAffected(r)
      [] r.op \in CatalogOps   -> {}
      [] OTHER                 -> PremisesAffected(r)

Admitted(c, r) ==
    CASE r.op \in PersonnelOps -> PersonnelAdmitted(c, r)
      [] r.op \in RosterOps    -> RosterAdmitted(c, r)
      [] r.op \in CatalogOps   -> CatalogAdmitted(c, r)
      [] OTHER                 -> PremisesAdmitted(c, r)

\* The middleware lets in administrators whose account and access are active.
Ask(c, r) ==
    /\ c \in Admin => c \in Working
    /\ Admitted(c, r)
    /\ Arrive(c, r, Affected(r))

Operation(c, r) ==
    \/ PremisesOperation(c, r)
    \/ CatalogOperation(c, r)
    \/ PersonnelOperation(c, r)
    \/ RosterOperation(c, r)

\* The unique indexes: one primary branch, one offer of the service at a branch,
\* one duty of the employee there.
IndexesHold(docs) ==
    /\ \A a, b \in Branch : docs[a].primary /\ docs[b].primary => a = b
    /\ \A o, p \in Offer : docs[o].at = docs[p].at => o = p \/ docs[o].at = {}
    /\ \A d, e \in Duty : docs[d].at = docs[e].at => d = e \/ docs[d].at = {}

\* Updates of many documents at once do not count as saves.
Bulk(r) == IF r.op = "archive branch" THEN Offer ELSE {}

\* The write needs leases that the request did not know it needs, comes after one
\* has lapsed, makes the settings, which begin in single mode whatever there is, or
\* changes the catalog while another request, of another document, is about to.
Mishaps(c) ==
    LET r == job[c][1] IN
    {m \in {"blind", "late", "default", "crossed"} :
        \/ m = "blind"   /\ ~(Affected(r) \subseteq keys[c])
        \/ m = "late"    /\ ~Valid(c)
        \/ m = "default" /\ settings = NoSettings /\ "settings" \in DOMAIN writes[c]
                         /\ r.op \notin {"settings", "bootstrap"}
        \/ m = "crossed" /\ r.op \in CatalogOps
                         /\ \E o \in Client \ {c} :
                              job[o] # <<>> /\ job[o][1].op \in CatalogOps /\ writes[o] # Nothing}

\* A service that is withdrawn, settings for which a branch had to be made, and an
\* item whose category had to be extended take a second write.
Commit(c) ==
    LET r     == job[c][1]
        after == After(writes[c])
    IN
    /\ pc[c] = "open"
    /\ ~stale[c] \/ r.op \in Erasing
    /\ Valid(c) \/ r.op \in Careless
    /\ IndexesHold(after)
    /\ doc' = after
    /\ stale' = Conflicts(c, DOMAIN writes[c], Bulk(r))
    /\ mishap' = mishap \cup Mishaps(c)
    /\ CASE r.op = "update service" /\ Withdrawn(after.service) # Nothing ->
               Continue(c, "cascading", Put("service", Withdrawn(after.service)))
         [] r.op = "read settings" /\ after.settings = NoSettings ->
               Continue(c, "ready", Nothing)
         [] r.op \in ItemOps /\ DOMAIN writes[c] \cap Category # {} ->
               Continue(c, "ready", writes[c])
         [] OTHER -> Over(c)
    /\ UNCHANGED asks

\* Whatever the service is offered at by now, in one update.  Nobody looks at the
\* leases again, nor whether a branch has come since.
Cascade(c) ==
    LET offers == {o \in Offer : doc[o] # NoOffer} IN
    /\ pc[c] = "cascading"
    /\ doc' = After([o \in offers |-> writes[c]["service"]])
    /\ stale' = Conflicts(c, offers, offers)
    /\ mishap' = mishap \cup IF Valid(c) /\ Branches \subseteq keys[c] THEN {} ELSE {"unguarded"}
    /\ Over(c)
    /\ UNCHANGED asks

-----------------------------------------------------------------------------
Init ==
    /\ \E g \in Agendas : asks = g.asks /\ doc = g.doc
    /\ InitRequests

Next ==
    \/ \E c \in Client :
         \/ \E r \in asks[c] : Ask(c, r)
         \/ Lease(c)
         \/ job[c] # <<>> /\ Operation(c, job[c][1])
         \/ Commit(c)
         \/ Cascade(c)
         \/ Retry(c)
         \/ Fail(c)
    \/ \E k \in Key : Lapse(k)

Spec == Init /\ [][Next]_vars

-----------------------------------------------------------------------------
(* Properties *)

\* Every document is what it may be.  An offer that is booked online is active, unless
\* it is switched off by an update of many offers that the lease of its branch does not
\* keep apart from a change of it.
TypeOK ==
    /\ DOMAIN doc = Names
    /\ \A d \in Names : doc[d] \in Schema(d)
    /\ mishap \cap {"blind", "unguarded"} = {} =>
         \A o \in Offer : doc[o].online => doc[o].status = "active"
    /\ lease \in [Key -> SUBSET Client]
    /\ keys \in [Client -> SUBSET Key]
    /\ stale \in [Client -> BOOLEAN]
    /\ pc \in [Client -> {"idle", "asked", "ready", "open", "cascading"}]

\* The settings agree with the branches.  Once there are any they name the primary
\* branch, however branches are made and promoted while they are being changed, with
\* a lease on the branches or without.  In single mode no two branches are active:
\* neither is the mode turned to single beside a request that activates a branch, nor
\* the other way round.  The code does not prevent it when a branch has come since
\* the branches to lease were listed, and does not count the branches when it makes
\* the settings itself.
SettingsFitBranches ==
    /\ settings # NoSettings => settings.primary = Primaries
    /\ settings.mode = "single" /\ mishap \cap {"blind", "default"} = {} =>
           Cardinality(Active) <= 1

\* A service is offered, and a chair or room is given it, only where that is allowed
\* when it takes effect and not only when the request looked: an offer is put in
\* force at a branch and of a service that are active, although either may be
\* withdrawn meanwhile, and a resource serves a branch that has an offer, although
\* offers move; not when the lease of the branch had run out.
ServedWhereAllowed ==
    [][/\ "blind" \notin mishap' =>
            \A o \in Offer :
                doc'[o].status = "active" /\ (doc[o].status # "active" \/ doc[o].at # doc'[o].at)
                => doc'[o].at \subseteq Active /\ service.status \in {"active", "gone"}
       /\ mishap' \cap {"blind", "late"} = {} =>
            \A x \in Resource :
                doc'[x].serves /\ ~doc[x].serves =>
                    \E o \in Offer : doc'[o].at = doc'[x].at]_vars

\* Once an inactive service has been withdrawn it is offered nowhere: an offer made
\* or put in force meanwhile does not escape the withdrawal.  A process that dies
\* between the two writes leaves offers behind.
WithdrawnServiceIsNotOffered ==
    /\ service.status = "inactive"
    /\ \A c \in Client : pc[c] # "cascading"
    /\ mishap \cap {"torn", "blind"} = {}
    => \A o \in Offer : doc[o].status # "active"

\* No booking finds two plans of one date: active versions of a branch's opening
\* hours, and of the employee's working hours there, are of different dates, and no
\* two times off of the employee that are approved or may be overlap, in whatever
\* order they are asked for, approved and rejected.  Working hours written after
\* their lease ran out are the exception.
PlansNeverOverlap ==
    /\ \A v \in Hours : Versionable(Hours \ {v}, doc[v])
    /\ "late" \notin mishap => \A v \in Shift : Versionable(Shift \ {v}, doc[v])
    /\ \A v, w \in Pending(Leave) : v # w => ~Meeting(v, doc[w].from, doc[w].until)

\* Staff belong where they are put, at the time it takes effect: the employee joins
\* only branches that are active, is given the service only where it is offered, and
\* working hours are planned and time off asked for only at the employee's branches,
\* though all of these may change meanwhile.
StaffPlacedWhereAllowed ==
    [][/\ mishap' \cap {"blind", "unguarded"} = {} =>
            /\ doc'.employee.branches \subseteq employee.branches \cup Active
            /\ \A d \in Duty :
                 doc'[d].status = "active" /\ doc[d].status # "active" =>
                     doc'[d].at \subseteq employee.branches /\ Offered(doc'[d].at) # {}
       /\ mishap' \cap {"blind", "late"} = {} =>
            /\ \A v \in Shift : doc[v] = NoVersion => doc'[v].at \subseteq employee.branches
            /\ \A v \in Leave : doc[v] = NoLeave =>
                 doc'[v].branches \subseteq employee.branches]_vars

\* The catalogue is in order, whichever way categories and products change, one at a
\* time: no category is above itself, and the category of an active product is one
\* for products.  Two moves at once that cross, or types that change while a product
\* moves, are the exception.  (Packages can be activated without a look at theirs.)
CatalogInOrder ==
    "crossed" \notin mishap =>
        /\ \A k \in Category : There(k) => k \notin Above(k)
        /\ doc.product.status = "active" =>
             \A k \in doc.product.in : There(k) => "product" \in doc[k].types

\* Whoever has been made inactive, terminated or deleted cannot work: not both
\* their account and their access are active, although an access request, which
\* writes the access only, may have looked at them before; and of several requests
\* for an account, which could each be used to work, only one makes one.
DismissedCannotWork ==
    /\ employee.status \in {"inactive", "terminated", "gone"} => ~LoggedIn
    /\ user.made <= 1

\* A manager changes, moves and dismisses only employees all of whose branches
\* the manager sees, at the time it takes effect and not only when it was asked.
ManagersKeepToTheirBranches ==
    [][\A c \in Manager :
         pc[c] = "open" /\ pc'[c] = "idle" /\ doc' # doc /\ "employee" \in DOMAIN writes[c] =>
             /\ employee # NoEmployee => Manages(c, employee.branches)
             /\ MayUse(c, doc'.employee.branches)]_vars
=============================================================================
