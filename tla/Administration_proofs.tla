------------------------ MODULE Administration_proofs ------------------------
(***************************************************************************)
(* Proofs about Administration.                                            *)
(***************************************************************************)
EXTENDS Administration, FiniteSetTheorems, TLAPS

-----------------------------------------------------------------------------
(* What a request will have done *)

\* Document d with the fields of v.
Merge(d, v) == [f \in DOMAIN doc[d] |-> IF f \in DOMAIN v THEN v[f] ELSE doc[d][f]]

\* Document d once w is written, and once request c is done.
Then(w, d)  == IF d \in DOMAIN w THEN Merge(d, w[d]) ELSE doc[d]
Would(c, d) == Then(writes[c], d)

\* A document is a function.
Whole(d) == doc[d] = [f \in DOMAIN doc[d] |-> doc[d][f]]

LEMMA NothingWritten == DOMAIN Nothing = {} /\ \A e : Then(Nothing, e) = doc[e]
BY DEF Nothing, Then

LEMMA PutWritten ==
    ASSUME NEW d, NEW v
    PROVE  /\ DOMAIN Put(d, v) = {d} /\ Put(d, v)[d] = v
           /\ \A e : Then(Put(d, v), e) = IF e = d THEN Merge(d, v) ELSE doc[e]
BY DEF Put, Then

LEMMA BothWritten ==
    ASSUME NEW v, NEW w
    PROVE  /\ DOMAIN Both(v, w) = DOMAIN v \cup DOMAIN w
           /\ \A e : Then(Both(v, w), e) = IF e \in DOMAIN v THEN Then(v, e) ELSE Then(w, e)
BY DEF Both, Then

\* To save the fields that change is to save them all.
LEMMA SaveWritten ==
    ASSUME NEW d, NEW v, Whole(d)
    PROVE  /\ DOMAIN Save(d, v) \subseteq {d}
           /\ \A e : Then(Save(d, v), e) = IF e = d THEN Merge(d, v) ELSE doc[e]
<1> DEFINE changed == {f \in DOMAIN v : v[f] # doc[d][f]}
<1>1. CASE changed = {}
  <2>1. Save(d, v) = Nothing
    BY <1>1 DEF Save
  <2>2. Merge(d, v) = doc[d]
    BY <1>1 DEF Merge, Whole
  <2> QED  BY <2>1, <2>2, NothingWritten
<1>2. CASE changed # {}
  <2> DEFINE w == [f \in changed |-> v[f]]
  <2>1. Save(d, v) = Put(d, w)
    BY <1>2 DEF Save
  <2>2. Merge(d, w) = Merge(d, v)
    BY DEF Merge, Whole
  <2> HIDE DEF w
  <2>3. DOMAIN Put(d, w) = {d} /\ \A e : Then(Put(d, w), e) = IF e = d THEN Merge(d, w) ELSE doc[e]
    BY PutWritten
  <2>4. DOMAIN Put(d, w) \subseteq {d}
    BY <2>3
  <2> QED  BY <2>1, <2>2, <2>3, <2>4
<1> QED  BY <1>1, <1>2

\* The schema of each kind of document.
LEMMA Schemas ==
    /\ \A d \in Branch : Schema(d) = BranchDoc
    /\ \A d \in Offer : Schema(d) = OfferDoc
    /\ \A d \in Hours : Schema(d) = VersionDoc
    /\ \A d \in Shift : Schema(d) = VersionDoc
    /\ \A d \in Duty : Schema(d) = DutyDoc
    /\ \A d \in Leave : Schema(d) = LeaveDoc
    /\ \A d \in Resource : Schema(d) = ResourceDoc
    /\ \A d \in Category : Schema(d) = CategoryDoc
    /\ \A d \in Admin : Schema(d) = AdminDoc
    /\ \A d \in {"skill", "level", "talent"} : Schema(d) = TermDoc
    /\ Schema("settings") = SettingsDoc
    /\ Schema("service") = ServiceDoc
    /\ Schema("employee") = EmployeeDoc
    /\ Schema("user") = UserDoc
    /\ Schema("access") = AccessDoc
    /\ Schema("product") = ProductDoc
    /\ Schema("package") = PackageDoc
<1>1. \A d \in Branch : Schema(d) = BranchDoc
    BY NamesAssumption DEF Schema, Singles
<1>2. \A d \in Offer : Schema(d) = OfferDoc
    BY NamesAssumption DEF Schema, Singles
<1>3. \A d \in Hours \cup Shift : Schema(d) = VersionDoc
    BY NamesAssumption DEF Schema, Singles
<1>4. \A d \in Duty : Schema(d) = DutyDoc
    BY NamesAssumption DEF Schema, Singles
<1>5. \A d \in Leave : Schema(d) = LeaveDoc
    BY NamesAssumption DEF Schema, Singles
<1>6. \A d \in Resource : Schema(d) = ResourceDoc
    BY NamesAssumption DEF Schema, Singles
<1>7. \A d \in Category : Schema(d) = CategoryDoc
    BY NamesAssumption DEF Schema, Singles
<1>8. \A d \in Admin : Schema(d) = AdminDoc
    BY NamesAssumption DEF Schema, Singles
<1>9. \A d \in Singles :
        d \notin Branch \cup Offer \cup Hours \cup Duty \cup Shift \cup Leave \cup Resource
                        \cup Category \cup Admin
    BY NamesAssumption
<1>10. /\ \A d \in {"skill", "level", "talent"} : Schema(d) = TermDoc
       /\ Schema("settings") = SettingsDoc
       /\ Schema("service") = ServiceDoc
    BY <1>9 DEF Schema, Singles
<1>11. /\ Schema("employee") = EmployeeDoc
       /\ Schema("user") = UserDoc
       /\ Schema("access") = AccessDoc
    BY <1>9 DEF Schema, Singles
<1>12. /\ Schema("product") = ProductDoc
       /\ Schema("package") = PackageDoc
    BY <1>9 DEF Schema, Singles
<1> QED  BY <1>1, <1>2, <1>3, <1>4, <1>5, <1>6, <1>7, <1>8, <1>10, <1>11, <1>12

-----------------------------------------------------------------------------
(* Documents and who writes them *)

Documents ==
    /\ DOMAIN doc = Names
    /\ \A d \in Names : doc[d] \in Schema(d)

\* A request for op may write document d.
MayWrite(op, d) ==
    /\ d \in Names
    /\ d \in Branch =>
         op \in {"list branches", "read settings", "bootstrap", "settings", "create branch",
                 "update branch", "archive branch"}
    /\ d = "settings" =>
         op \in {"read settings", "bootstrap", "settings", "create branch", "update branch"}
    /\ d = "service" => op \in {"create service", "update service", "archive service"}
    /\ d \in Offer => op \in {"create offer", "update offer", "archive branch"}
    /\ d \in Hours => op \in {"create hours", "update hours", "archive hours"}
    /\ d = "employee" =>
         op \in {"hire", "employ", "update", "provision", "activate", "terminate", "profile"}
    /\ d = "user" => op \in {"employ", "update", "provision", "activate", "terminate"}
    /\ d = "access" => op \in {"employ", "update", "provision", "activate", "terminate", "access"}
    /\ d \in Duty => op \in {"assign", "unassign"}
    /\ d \in {"skill", "level"} => op \in {"create term", "update term"}
    /\ d = "talent" => op \in {"learn", "unlearn"}
    /\ d \in Admin => op \in {"create admin", "enable", "disable", "admin access"}
    /\ d \in Category => op \in CatalogOps
    /\ d = "product" => op \in {"create product", "update product", "archive product"}
    /\ d = "package" =>
         op \in {"create package", "update package", "switch package", "archive package"}
    /\ d \in Shift => op \in {"create shift", "update shift", "archive shift"}
    /\ d \in Resource => op \in {"create resource", "update resource", "delete resource"}
    /\ d \in Leave => op \in Sharing

\* What w writes is for op to write, and leaves its documents as they may be.
Fine(op, w) == \A d \in DOMAIN w : MayWrite(op, d) /\ Then(w, d) \in Schema(d)

\* The documents of one kind are of no other.
LEMMA Writers ==
    ASSUME NEW op
    PROVE
    /\ \A d \in Branch :
         op \in {"list branches", "read settings", "bootstrap", "settings", "create branch",
                 "update branch", "archive branch"} => MayWrite(op, d)
    /\ op \in {"read settings", "bootstrap", "settings", "create branch", "update branch"} =>
         MayWrite(op, "settings")
    /\ op \in {"create service", "update service", "archive service"} => MayWrite(op, "service")
    /\ \A d \in Offer :
         op \in {"create offer", "update offer", "archive branch"} => MayWrite(op, d)
    /\ \A d \in Hours : op \in {"create hours", "update hours", "archive hours"} => MayWrite(op, d)
    /\ op \in {"hire", "employ", "update", "provision", "activate", "terminate", "profile"} =>
         MayWrite(op, "employee")
    /\ op \in {"employ", "update", "provision", "activate", "terminate"} => MayWrite(op, "user")
    /\ op \in {"employ", "update", "provision", "activate", "terminate", "access"} =>
         MayWrite(op, "access")
    /\ \A d \in Duty : op \in {"assign", "unassign"} => MayWrite(op, d)
    /\ \A d \in {"skill", "level"} : op \in {"create term", "update term"} => MayWrite(op, d)
    /\ op \in {"learn", "unlearn"} => MayWrite(op, "talent")
    /\ \A d \in Admin :
         op \in {"create admin", "enable", "disable", "admin access"} => MayWrite(op, d)
    /\ \A d \in Category : op \in CatalogOps => MayWrite(op, d)
    /\ op \in {"create product", "update product", "archive product"} => MayWrite(op, "product")
    /\ op \in {"create package", "update package", "switch package", "archive package"} =>
         MayWrite(op, "package")
    /\ \A d \in Shift : op \in {"create shift", "update shift", "archive shift"} => MayWrite(op, d)
    /\ \A d \in Resource :
         op \in {"create resource", "update resource", "delete resource"} => MayWrite(op, d)
    /\ \A d \in Leave : op \in Sharing => MayWrite(op, d)
BY ZenonT(40), NamesAssumption DEF MayWrite, Names, Singles

LEMMA FineNothing == ASSUME NEW op PROVE Fine(op, Nothing)
BY NothingWritten DEF Fine

LEMMA FinePut ==
    ASSUME NEW op, NEW d, NEW v, MayWrite(op, d), Merge(d, v) \in Schema(d)
    PROVE  Fine(op, Put(d, v))
<1>1. DOMAIN Put(d, v) = {d} /\ Then(Put(d, v), d) = Merge(d, v)
    BY DEF Put, Then
<1> QED  BY <1>1 DEF Fine

LEMMA FineSave ==
    ASSUME NEW op, NEW d, NEW v, MayWrite(op, d), Merge(d, v) \in Schema(d), Whole(d)
    PROVE  Fine(op, Save(d, v))
BY SaveWritten DEF Fine

LEMMA FineBoth ==
    ASSUME NEW op, NEW v, NEW w, Fine(op, v), Fine(op, w)
    PROVE  Fine(op, Both(v, w))
<1>1. DOMAIN Both(v, w) = DOMAIN v \cup DOMAIN w
    BY BothWritten
<1>2. ASSUME NEW e PROVE Then(Both(v, w), e) = IF e \in DOMAIN v THEN Then(v, e) ELSE Then(w, e)
    BY BothWritten
<1> QED  BY <1>1, <1>2 DEF Fine

\* Of each kind of document.
LEMMA Typed ==
    ASSUME Documents
    PROVE
    /\ \A d \in Branch : doc[d] \in BranchDoc
    /\ \A d \in Offer : doc[d] \in OfferDoc
    /\ \A d \in Hours : doc[d] \in VersionDoc
    /\ \A d \in Shift : doc[d] \in VersionDoc
    /\ \A d \in Duty : doc[d] \in DutyDoc
    /\ \A d \in Leave : doc[d] \in LeaveDoc
    /\ \A d \in Resource : doc[d] \in ResourceDoc
    /\ \A d \in Category : doc[d] \in CategoryDoc
    /\ \A d \in Admin : doc[d] \in AdminDoc
    /\ \A d \in {"skill", "level", "talent"} : doc[d] \in TermDoc
    /\ doc["settings"] \in SettingsDoc
    /\ doc["service"] \in ServiceDoc
    /\ doc["employee"] \in EmployeeDoc
    /\ doc["user"] \in UserDoc
    /\ doc["access"] \in AccessDoc
    /\ doc["product"] \in ProductDoc
    /\ doc["package"] \in PackageDoc
<1>1. \A d \in Names : doc[d] \in Schema(d)
    BY DEF Documents
<1> QED  BY <1>1, Schemas DEF Names, Singles

\* Every document is a function of its fields.
LEMMA Wholeness ==
    ASSUME Documents
    PROVE  \A d \in Names : Whole(d)
<1>1. ASSUME NEW d \in Branch PROVE Whole(d)
  <2>1. doc[d] \in BranchDoc
    BY Typed
  <2> QED  BY <2>1 DEF Whole, BranchDoc
<1>2. ASSUME NEW d \in Offer PROVE Whole(d)
  <2>1. doc[d] \in OfferDoc
    BY Typed
  <2> QED  BY <2>1 DEF Whole, OfferDoc, NoOffer
<1>3. ASSUME NEW d \in Hours PROVE Whole(d)
  <2>1. doc[d] \in VersionDoc
    BY Typed
  <2> QED  BY <2>1 DEF Whole, VersionDoc, NoVersion
<1>4. ASSUME NEW d \in Shift PROVE Whole(d)
  <2>1. doc[d] \in VersionDoc
    BY Typed
  <2> QED  BY <2>1 DEF Whole, VersionDoc, NoVersion
<1>5. ASSUME NEW d \in Duty PROVE Whole(d)
  <2>1. doc[d] \in DutyDoc
    BY Typed
  <2> QED  BY <2>1 DEF Whole, DutyDoc, NoDuty
<1>6. ASSUME NEW d \in Leave PROVE Whole(d)
  <2>1. doc[d] \in LeaveDoc
    BY Typed
  <2> QED  BY <2>1 DEF Whole, LeaveDoc, NoLeave
<1>7. ASSUME NEW d \in Resource PROVE Whole(d)
  <2>1. doc[d] \in ResourceDoc
    BY Typed
  <2> QED  BY <2>1 DEF Whole, ResourceDoc
<1>8. ASSUME NEW d \in Category PROVE Whole(d)
  <2>1. doc[d] \in CategoryDoc
    BY Typed
  <2> QED  BY <2>1 DEF Whole, CategoryDoc
<1>9. ASSUME NEW d \in Admin PROVE Whole(d)
  <2>1. doc[d] \in AdminDoc
    BY Typed
  <2> QED  BY <2>1 DEF Whole, AdminDoc
<1>10. ASSUME NEW d \in {"skill", "level", "talent"} PROVE Whole(d)
  <2>1. doc[d] \in TermDoc
    BY Typed
  <2> QED  BY <2>1 DEF Whole, TermDoc
<1>11. Whole("settings")
  <2>1. doc["settings"] \in SettingsDoc
    BY Typed
  <2> QED  BY <2>1 DEF Whole, SettingsDoc, NoSettings
<1>12. Whole("service")
  <2>1. doc["service"] \in ServiceDoc
    BY Typed
  <2> QED  BY <2>1 DEF Whole, ServiceDoc
<1>13. Whole("employee")
  <2>1. doc["employee"] \in EmployeeDoc
    BY Typed
  <2> QED  BY <2>1 DEF Whole, EmployeeDoc, NoEmployee
<1>14. Whole("user")
  <2>1. doc["user"] \in UserDoc
    BY Typed
  <2> QED  BY <2>1 DEF Whole, UserDoc
<1>15. Whole("access")
  <2>1. doc["access"] \in AccessDoc
    BY Typed
  <2> QED  BY <2>1 DEF Whole, AccessDoc, NoAccess
<1>16. Whole("product")
  <2>1. doc["product"] \in ProductDoc
    BY Typed
  <2> QED  BY <2>1 DEF Whole, ProductDoc
<1>17. Whole("package")
  <2>1. doc["package"] \in PackageDoc
    BY Typed
  <2> QED  BY <2>1 DEF Whole, PackageDoc
<1> QED
    BY <1>1, <1>2, <1>3, <1>4, <1>5, <1>6, <1>7, <1>8, <1>9,
       <1>10, <1>11, <1>12, <1>13, <1>14, <1>15, <1>16, <1>17 DEF Names, Singles
-----------------------------------------------------------------------------
(* What the operations write *)

\* What archiving deletes.
Gone(w) ==
    \A d \in DOMAIN w :
        w[d] = IF d \in Category THEN [status |-> "gone", parent |-> {}] ELSE [status |-> "gone"]

\* Some writes that are fine and, of an erasing request, say only that something is gone.
OpensFine(c, r) ==
    \E w : Open(c, w) /\ Fine(r.op, w) /\ (r.op \in Erasing => Gone(w))

BranchOps == {"list branches", "read settings", "bootstrap", "settings", "create branch",
              "update branch", "archive branch"}

LEMMA MainFine ==
    ASSUME Documents, NEW b \in Branch
    PROVE  Merge(b, MainBranch) \in Schema(b)
<1>1. doc[b] \in BranchDoc
    BY Typed
<1>2. Merge(b, MainBranch) \in BranchDoc
    BY <1>1 DEF Merge, MainBranch, BranchDoc
<1> QED  BY <1>2, Schemas

LEMMA DemotedFine ==
    ASSUME Documents, NEW b, NEW op \in BranchOps
    PROVE  Fine(op, Demoted(b))
<1> SUFFICES ASSUME NEW o \in DOMAIN Demoted(b)
             PROVE  MayWrite(op, o) /\ Then(Demoted(b), o) \in Schema(o)
    BY DEF Fine
<1>1. o \in Branch /\ Demoted(b)[o] = [primary |-> FALSE]
    BY DEF Demoted, Primaries
<1>2. doc[o] \in BranchDoc
    BY <1>1, Typed
<1>3. Merge(o, [primary |-> FALSE]) \in BranchDoc
    BY <1>2 DEF Merge, BranchDoc
<1>4. Then(Demoted(b), o) = Merge(o, [primary |-> FALSE])
    BY <1>1 DEF Then
<1>5. MayWrite(op, o)
    BY <1>1, Writers DEF BranchOps
<1>6. Schema(o) = BranchDoc
    BY <1>1, Schemas
<1> QED  BY <1>3, <1>4, <1>5, <1>6

LEMMA SettingsFine ==
    ASSUME Documents, NEW mode \in Mode, NEW b \in Branch
    PROVE  Merge("settings", [mode |-> mode, primary |-> {b}]) \in Schema("settings")
<1>1. doc["settings"] \in SettingsDoc
    BY Typed
<1>2. Merge("settings", [mode |-> mode, primary |-> {b}]) = [mode |-> mode, primary |-> {b}]
    BY <1>1 DEF Merge, SettingsDoc, NoSettings
<1>3. [mode |-> mode, primary |-> {b}] \in SettingsDoc
    BY DEF SettingsDoc, One
<1> QED  BY <1>2, <1>3, Schemas

LEMMA NamingFine ==
    ASSUME Documents, NEW b \in Branch,
           NEW op \in {"read settings", "bootstrap", "settings", "create branch", "update branch"}
    PROVE  Fine(op, Naming(b))
<1>a. MayWrite(op, "settings")
    BY Writers
<1>1. CASE settings = NoSettings
  <2>1. Naming(b) = Put("settings", [mode |-> "single", primary |-> {b}])
    BY <1>1 DEF Naming
  <2>2. "single" \in Mode
    BY DEF Mode
  <2> QED  BY <2>1, <2>2, <1>a, SettingsFine, FinePut
<1>2. CASE settings # NoSettings
  <2>1. settings \in [mode : Mode, primary : One(Branch)]
    BY <1>2, Typed DEF SettingsDoc, settings
  <2> DEFINE new == [settings EXCEPT !.primary = {b}]
  <2>2. Merge("settings", new) \in SettingsDoc
    BY <2>1 DEF Merge, settings, SettingsDoc, One
  <2>3. Naming(b) = Save("settings", new)
    BY <1>2 DEF Naming
  <2> HIDE DEF new
  <2>4. Merge("settings", new) \in Schema("settings")
    BY <2>2, Schemas
  <2>5. Whole("settings")
    BY Wholeness DEF Names, Singles
  <2> QED  BY <2>3, <2>4, <2>5, <1>a, FineSave
<1> QED  BY <1>1, <1>2

LEMMA PremisesFine ==
    ASSUME Documents, NEW c \in Client, NEW r, RequestFits(r), PremisesOperation(c, r)
    PROVE  OpensFine(c, r)
<1>1. CASE ListBranches(c, r)
  <2>1. Open(c, Put(Main, MainBranch)) /\ r.op = "list branches"
    BY <1>1 DEF ListBranches
  <2>2. Main \in Branch
    BY PremisesAssumption
  <2>3. Fine(r.op, Put(Main, MainBranch))
    <3>1. MayWrite(r.op, Main)
        BY <2>1, <2>2, Writers
    <3> QED  BY <2>2, <3>1, MainFine, FinePut
  <2> QED  BY <2>1, <2>3 DEF OpensFine, Erasing
<1>2. CASE ReadSettings(c, r)
  <2>0. r.op = "read settings"
    BY <1>2 DEF ReadSettings
  <2>1. CASE Branches = {}
    <3>1. Open(c, Put(Main, MainBranch))
        BY <1>2, <2>1 DEF ReadSettings
    <3>2. Main \in Branch
        BY PremisesAssumption
    <3>3. MayWrite(r.op, Main)
        BY <2>0, <3>2, Writers
    <3>4. Fine(r.op, Put(Main, MainBranch))
        BY <3>2, <3>3, MainFine, FinePut
    <3> QED  BY <2>0, <3>1, <3>4 DEF OpensFine, Erasing
  <2>2. CASE Branches # {}
    <3>1. PICK b \in Usual : Open(c, Put("settings", [mode |-> "single", primary |-> {b}]))
        BY <1>2, <2>2 DEF ReadSettings
    <3>2. b \in Branch /\ settings = NoSettings
        BY <1>2, <2>2 DEF ReadSettings, Usual, Primaries, Branches
    <3> DEFINE new == [mode |-> "single", primary |-> {b}]
    <3>3. Merge("settings", new) \in Schema("settings")
        BY <3>2, SettingsFine DEF Mode
    <3> HIDE DEF new
    <3>4. MayWrite(r.op, "settings")
        BY <2>0, Writers
    <3>5. Fine(r.op, Put("settings", new))
        BY <3>3, <3>4, FinePut
    <3> QED  BY <2>0, <3>1, <3>5 DEF OpensFine, Erasing, new
  <2> QED  BY <2>1, <2>2
<1>3. CASE Bootstrap(c, r)
  <2> DEFINE new == [mode |-> r.mode, primary |-> {r.branch}]
  <2>1. Open(c, Both(Put(r.branch, MainBranch), Put("settings", new))) /\ r.op = "bootstrap"
    BY <1>3 DEF Bootstrap
  <2>2. r.branch \in Branch /\ r.mode \in Mode
    BY <2>1 DEF RequestFits
  <2>3. Merge("settings", new) \in Schema("settings")
    BY <2>2, SettingsFine
  <2> HIDE DEF new
  <2>4. MayWrite(r.op, "settings") /\ MayWrite(r.op, r.branch)
    BY <2>1, <2>2, Writers
  <2>5. Fine(r.op, Put("settings", new))
    BY <2>3, <2>4, FinePut
  <2>6. Fine(r.op, Put(r.branch, MainBranch))
    BY <2>2, <2>4, MainFine, FinePut
  <2>7. Fine(r.op, Both(Put(r.branch, MainBranch), Put("settings", new)))
    BY <2>5, <2>6, FineBoth
  <2> QED  BY <2>1, <2>7 DEF OpensFine, Erasing
<1>4. CASE UpdateSettings(c, r)
  <2> DEFINE mode == IF r.mode # "keep" THEN r.mode
                     ELSE IF settings = NoSettings THEN "single" ELSE settings.mode
             active == IF Branches = {} /\ r.primary = {} THEN {Main} ELSE Active
  <2>0. r.op = "settings"
    BY <1>4 DEF UpdateSettings
  <2>1. PICK b \in active \cap (IF r.primary # {} THEN r.primary ELSE Usual) :
          Open(c, Both(Save("settings", [mode |-> mode, primary |-> {b}]),
                       Both(Demoted(b),
                            IF Branches = {} THEN Put(b, MainBranch)
                            ELSE Save(b, [doc[b] EXCEPT !.primary = TRUE]))))
    BY <1>4 DEF UpdateSettings
  <2>2. b \in Branch /\ (Branches # {} => doc[b].status = "active")
    BY <2>1, PremisesAssumption DEF Active, Branches
  <2>3. mode \in Mode
    <3>1. r.mode \in Mode \cup {"keep"}
        BY <2>0 DEF RequestFits
    <3>2. settings # NoSettings => settings.mode \in Mode
        BY Typed DEF settings, SettingsDoc
    <3>3. CASE r.mode # "keep"
        BY <3>1, <3>3
    <3>4. CASE r.mode = "keep" /\ settings = NoSettings
        BY <3>4 DEF Mode
    <3>5. CASE r.mode = "keep" /\ settings # NoSettings
        BY <3>2, <3>5
    <3> QED  BY <3>3, <3>4, <3>5
  <2> DEFINE new  == [mode |-> mode, primary |-> {b}]
             this == IF Branches = {} THEN Put(b, MainBranch)
                     ELSE Save(b, [doc[b] EXCEPT !.primary = TRUE])
  <2>4. Open(c, Both(Save("settings", new), Both(Demoted(b), this)))
    BY <2>1
  <2> HIDE DEF mode
  <2>5. Merge("settings", new) \in Schema("settings")
    BY <2>2, <2>3, SettingsFine
  <2> HIDE DEF new
  <2>6. MayWrite(r.op, "settings") /\ MayWrite(r.op, b)
    BY <2>0, <2>2, Writers
  <2>7. Fine(r.op, Save("settings", new))
    <3>1. Whole("settings")
        BY Wholeness DEF Names, Singles
    <3> QED  BY <2>5, <2>6, <3>1, FineSave
  <2>8. Fine(r.op, this)
    <3>1. CASE Branches = {}
        BY <2>2, <2>6, <3>1, MainFine, FinePut
    <3>2. CASE Branches # {}
      <4> DEFINE v == [doc[b] EXCEPT !.primary = TRUE]
      <4>1. doc[b] \in BranchDoc
        BY <2>2, Typed
      <4>2. Merge(b, v) \in BranchDoc
        BY <2>2, <3>2, <4>1 DEF Merge, BranchDoc
      <4>3. this = Save(b, v)
        BY <3>2
      <4> HIDE DEF v
      <4>4. Merge(b, v) \in Schema(b) /\ Whole(b)
        BY <2>2, <4>2, Schemas, Wholeness DEF Names
      <4> QED  BY <2>6, <4>3, <4>4, FineSave
    <3> QED  BY <3>1, <3>2
  <2> HIDE DEF this
  <2>9. Fine(r.op, Demoted(b))
    BY <2>0, DemotedFine DEF BranchOps
  <2>10. Fine(r.op, Both(Demoted(b), this))
    BY <2>8, <2>9, FineBoth
  <2>11. Fine(r.op, Both(Save("settings", new), Both(Demoted(b), this)))
    BY <2>7, <2>10, FineBoth
  <2> QED  BY <2>0, <2>4, <2>11 DEF OpensFine, Erasing
<1>5. CASE CreateBranch(c, r)
  <2> DEFINE active  == Given(r.active, TRUE)
             primary == Branches = {} \/ r.primary = "on"
             new     == [status |-> Status(active), primary |-> primary,
                         bookings |-> active /\ Given(r.bookings, TRUE)]
             rest    == IF primary THEN Both(Demoted(r.branch), Naming(r.branch)) ELSE Nothing
  <2>1. Open(c, Both(Put(r.branch, new), rest)) /\ r.op = "create branch" /\ (primary => active)
    BY <1>5 DEF CreateBranch
  <2>2. r.branch \in Branch /\ doc[r.branch] \in BranchDoc
    BY <2>1, Typed DEF RequestFits
  <2>3. Merge(r.branch, new) \in BranchDoc
    BY <2>1, <2>2 DEF Merge, BranchDoc, Status, Given
  <2>4. Fine(r.op, rest)
    <3>1. Fine(r.op, Demoted(r.branch)) /\ Fine(r.op, Naming(r.branch))
        BY <2>1, <2>2, DemotedFine, NamingFine DEF BranchOps
    <3> QED  BY <3>1, FineBoth, FineNothing
  <2> HIDE DEF new, rest
  <2>5. MayWrite(r.op, r.branch)
    BY <2>1, <2>2, Writers
  <2>6. Merge(r.branch, new) \in Schema(r.branch)
    BY <2>2, <2>3, Schemas
  <2>7. Fine(r.op, Put(r.branch, new))
    BY <2>5, <2>6, FinePut
  <2>8. Fine(r.op, Both(Put(r.branch, new), rest))
    BY <2>4, <2>7, FineBoth
  <2> QED  BY <2>1, <2>8 DEF OpensFine, Erasing
<1>6. CASE UpdateBranch(c, r)
  <2> DEFINE old     == doc[r.branch]
             active  == Given(r.active, old.status = "active")
             promote == r.primary = "on" /\ ~old.primary
             new     == [status |-> Status(active), primary |-> old.primary \/ promote,
                         bookings |-> active /\ Given(r.bookings, old.bookings)]
             rest    == IF promote THEN Both(Demoted(r.branch), Naming(r.branch)) ELSE Nothing
  <2>1. /\ Open(c, Both(Save(r.branch, new), rest)) /\ r.op = "update branch"
        /\ old.primary => r.active # "off"
        /\ promote => active
    BY <1>6 DEF UpdateBranch, UpdateBranchInAnyMode
  <2>2. r.branch \in Branch /\ doc[r.branch] \in BranchDoc
    BY <2>1, Typed DEF RequestFits
  <2>3. Merge(r.branch, new) \in BranchDoc
    <3>1. (old.primary => old.status = "active") /\ r.active \in {"on", "off", "keep"}
        BY <2>1, <2>2 DEF BranchDoc, RequestFits
    <3>2. new.primary \/ new.bookings => new.status = "active"
        BY <2>1, <2>2, <3>1 DEF BranchDoc, Status, Given
    <3>3. new \in [status : {"absent", "active", "inactive"}, primary : BOOLEAN, bookings : BOOLEAN]
        BY <2>2 DEF BranchDoc, Status
    <3> HIDE DEF new
    <3> QED  BY <2>2, <3>2, <3>3 DEF Merge, BranchDoc
  <2>4. Fine(r.op, rest)
    <3>1. Fine(r.op, Demoted(r.branch)) /\ Fine(r.op, Naming(r.branch))
        BY <2>1, <2>2, DemotedFine, NamingFine DEF BranchOps
    <3> QED  BY <3>1, FineBoth, FineNothing
  <2> HIDE DEF new, rest
  <2>5. MayWrite(r.op, r.branch)
    BY <2>1, <2>2, Writers
  <2>6. Merge(r.branch, new) \in Schema(r.branch) /\ Whole(r.branch)
    BY <2>2, <2>3, Schemas, Wholeness DEF Names
  <2>7. Fine(r.op, Save(r.branch, new))
    BY <2>5, <2>6, FineSave
  <2>8. Fine(r.op, Both(Save(r.branch, new), rest))
    BY <2>4, <2>7, FineBoth
  <2> QED  BY <2>1, <2>8 DEF OpensFine, Erasing
<1>7. CASE ArchiveBranch(c, r)
  <2> DEFINE new  == [doc[r.branch] EXCEPT !.status = "inactive", !.bookings = FALSE]
             rest == [o \in {x \in Offer : doc[x].at = {r.branch}} |->
                        [status |-> "inactive", online |-> FALSE]]
  <2>1. Open(c, Both(Save(r.branch, new), rest)) /\ r.op = "archive branch" /\ ~doc[r.branch].primary
    BY <1>7 DEF ArchiveBranch
  <2>2. r.branch \in Branch /\ doc[r.branch] \in BranchDoc
    BY <2>1, Typed DEF RequestFits
  <2>3. Merge(r.branch, new) \in BranchDoc
    BY <2>1, <2>2 DEF Merge, BranchDoc
  <2>4. Fine(r.op, rest)
    <3> SUFFICES ASSUME NEW o \in DOMAIN rest
                 PROVE  MayWrite(r.op, o) /\ Then(rest, o) \in Schema(o)
        BY DEF Fine
    <3>1. o \in Offer /\ doc[o].at = {r.branch}
        OBVIOUS
    <3>2. doc[o] \in OfferDoc
        BY <3>1, Typed
    <3>3. doc[o] # NoOffer
        BY <3>1 DEF NoOffer
    <3>4. Merge(o, [status |-> "inactive", online |-> FALSE]) \in OfferDoc
        BY <3>2, <3>3 DEF Merge, OfferDoc
    <3>5. Then(rest, o) = Merge(o, [status |-> "inactive", online |-> FALSE])
        BY DEF Then
    <3>6. MayWrite(r.op, o)
        BY <2>1, <3>1, Writers
    <3>7. Schema(o) = OfferDoc
        BY <3>1, Schemas
    <3> HIDE DEF rest
    <3> QED  BY <3>4, <3>5, <3>6, <3>7
  <2> HIDE DEF new, rest
  <2>5. MayWrite(r.op, r.branch)
    BY <2>1, <2>2, Writers
  <2>6. Merge(r.branch, new) \in Schema(r.branch) /\ Whole(r.branch)
    BY <2>2, <2>3, Schemas, Wholeness DEF Names
  <2>7. Fine(r.op, Save(r.branch, new))
    BY <2>5, <2>6, FineSave
  <2>8. Fine(r.op, Both(Save(r.branch, new), rest))
    BY <2>4, <2>7, FineBoth
  <2> QED  BY <2>1, <2>8 DEF OpensFine, Erasing
<1>8. CASE CreateService(c, r)
  <2> DEFINE new == [status |-> Status(Given(r.active, TRUE)), online |-> Given(r.online, TRUE)]
  <2>1. Open(c, Put("service", new)) /\ r.op \in {"create service"}
    BY <1>8 DEF CreateService
  <2>2. doc["service"] \in ServiceDoc
    BY Typed
  <2>3. Merge("service", new) \in ServiceDoc
    BY <1>8, <2>1, <2>2 DEF CreateService, RequestFits, Merge, ServiceDoc, Status, Given
  <2>4. r.op \notin Erasing
    BY <2>1 DEF Erasing
  <2> HIDE DEF new
  <2>5. MayWrite(r.op, "service")
    BY <2>1, Writers
  <2>6. Merge("service", new) \in Schema("service")
    BY <2>3, Schemas
  <2>8. Fine(r.op, Put("service", new))
    BY <2>5, <2>6, FinePut
  <2> QED  BY <2>1, <2>4, <2>8 DEF OpensFine
<1>9. CASE UpdateService(c, r)
  <2> DEFINE new == [status |-> Status(Given(r.active, service.status = "active")),
                     online |-> Given(r.online, service.online)]
  <2>1. Open(c, Save("service", new)) /\ r.op \in {"update service"}
    BY <1>9 DEF UpdateService
  <2>2. doc["service"] \in ServiceDoc
    BY Typed
  <2>3. Merge("service", new) \in ServiceDoc
    BY <1>9, <2>1, <2>2 DEF UpdateService, RequestFits, Merge, ServiceDoc, Status, Given, service
  <2>4. r.op \notin Erasing
    BY <2>1 DEF Erasing
  <2> HIDE DEF new
  <2>5. MayWrite(r.op, "service")
    BY <2>1, Writers
  <2>6. Merge("service", new) \in Schema("service")
    BY <2>3, Schemas
  <2>7. Whole("service")
    BY Wholeness DEF Names, Singles
  <2>8. Fine(r.op, Save("service", new))
    BY <2>5, <2>6, <2>7, FineSave
  <2> QED  BY <2>1, <2>4, <2>8 DEF OpensFine
<1>10. CASE ArchiveService(c, r)
  <2> DEFINE new == [status |-> "gone"]
  <2>1. Open(c, Put("service", new)) /\ r.op \in {"archive service"}
    BY <1>10 DEF ArchiveService
  <2>2. doc["service"] \in ServiceDoc
    BY Typed
  <2>3. Merge("service", new) \in ServiceDoc
    BY <1>10, <2>1, <2>2 DEF ArchiveService, RequestFits, Merge, ServiceDoc
  <2>4. Gone(Put("service", new))
    BY NamesAssumption DEF Gone, Singles, Put
  <2> HIDE DEF new
  <2>5. MayWrite(r.op, "service")
    BY <2>1, Writers
  <2>6. Merge("service", new) \in Schema("service")
    BY <2>3, Schemas
  <2>8. Fine(r.op, Put("service", new))
    BY <2>5, <2>6, FinePut
  <2> QED  BY <2>1, <2>4, <2>8 DEF OpensFine
<1>11. CASE CreateOffer(c, r)
  <2> DEFINE new == [status |-> Status(Given(r.active, TRUE)), at |-> {r.branch},
                     online |-> Given(r.online, TRUE)]
  <2>1. Open(c, Put(r.offer, new)) /\ r.op \in {"create offer"}
    BY <1>11 DEF CreateOffer
  <2>2. r.offer \in Offer /\ doc[r.offer] \in OfferDoc
    BY <2>1, Typed DEF RequestFits
  <2>3. Merge(r.offer, new) \in OfferDoc
    BY <1>11, <2>1, <2>2 DEF CreateOffer, RequestFits, Merge, OfferDoc, Status, Given, NoOffer, One
  <2>4. r.op \notin Erasing
    BY <2>1 DEF Erasing
  <2> HIDE DEF new
  <2>5. MayWrite(r.op, r.offer)
    BY <2>1, <2>2, Writers
  <2>6. Merge(r.offer, new) \in Schema(r.offer)
    BY <2>2, <2>3, Schemas
  <2>8. Fine(r.op, Put(r.offer, new))
    BY <2>5, <2>6, FinePut
  <2> QED  BY <2>1, <2>4, <2>8 DEF OpensFine
<1>12. CASE UpdateOffer(c, r)
  <2>0. PICK b : b \in (IF r.branches = {} THEN doc[r.offer].at ELSE r.branches) /\ Open(c, Save(r.offer, [status |-> Status(Given(r.active, doc[r.offer].status = "active")), at |-> {b},
                     online |-> Given(r.online, doc[r.offer].online)]))
    BY <1>12 DEF UpdateOffer
  <2> DEFINE new == [status |-> Status(Given(r.active, doc[r.offer].status = "active")), at |-> {b},
                     online |-> Given(r.online, doc[r.offer].online)]
  <2>1. Open(c, Save(r.offer, new)) /\ r.op \in {"update offer"}
    BY <1>12, <2>0 DEF UpdateOffer
  <2>2. r.offer \in Offer /\ doc[r.offer] \in OfferDoc
    BY <2>0, <2>1, Typed DEF RequestFits
  <2>10. r.branches \subseteq Branch
    BY <2>1 DEF RequestFits, One
  <2>11. doc[r.offer].at \subseteq Branch
    BY <2>2 DEF OfferDoc, NoOffer, One
  <2>12. b \in Branch
    BY <2>0, <2>10, <2>11
  <2>3. Merge(r.offer, new) \in OfferDoc
    BY <1>12, <2>0, <2>1, <2>2, <2>10, <2>11, <2>12 DEF UpdateOffer, RequestFits, Merge, OfferDoc, Status, Given, NoOffer, One
  <2>4. r.op \notin Erasing
    BY <2>1 DEF Erasing
  <2> HIDE DEF new
  <2>5. MayWrite(r.op, r.offer)
    BY <2>1, <2>2, Writers
  <2>6. Merge(r.offer, new) \in Schema(r.offer)
    BY <2>2, <2>3, Schemas
  <2>7. Whole(r.offer)
    BY <2>2, Wholeness DEF Names, Singles
  <2>8. Fine(r.op, Save(r.offer, new))
    BY <2>5, <2>6, <2>7, FineSave
  <2> QED  BY <2>1, <2>4, <2>8 DEF OpensFine
<1>13. CASE CreateHours(c, r)
  <2> DEFINE new == [status |-> r.status, at |-> {r.branch}, from |-> r.from, until |-> r.until]
  <2>1. Open(c, Put(r.version, new)) /\ r.op \in {"create hours"}
    BY <1>13 DEF CreateHours
  <2>2. r.version \in Hours /\ doc[r.version] \in VersionDoc
    BY <2>1, Typed DEF RequestFits
  <2>3. Merge(r.version, new) \in VersionDoc
    BY <1>13, <2>1, <2>2 DEF CreateHours, RequestFits, Merge, VersionDoc, NoVersion, One
  <2>4. r.op \notin Erasing
    BY <2>1 DEF Erasing
  <2> HIDE DEF new
  <2>5. MayWrite(r.op, r.version)
    BY <2>1, <2>2, Writers
  <2>6. Merge(r.version, new) \in Schema(r.version)
    BY <2>2, <2>3, Schemas
  <2>8. Fine(r.op, Put(r.version, new))
    BY <2>5, <2>6, FinePut
  <2> QED  BY <2>1, <2>4, <2>8 DEF OpensFine
<1>14. CASE UpdateHours(c, r)
  <2> DEFINE new == [doc[r.version] EXCEPT !.status = r.status, !.from = r.from, !.until = r.until]
  <2>1. Open(c, Save(r.version, new)) /\ r.op \in {"update hours"}
    BY <1>14 DEF UpdateHours
  <2>2. r.version \in Hours /\ doc[r.version] \in VersionDoc
    BY <2>1, Typed DEF RequestFits
  <2>3. Merge(r.version, new) \in VersionDoc
    BY <1>14, <2>1, <2>2 DEF UpdateHours, RequestFits, Merge, VersionDoc, NoVersion, One
  <2>4. r.op \notin Erasing
    BY <2>1 DEF Erasing
  <2> HIDE DEF new
  <2>5. MayWrite(r.op, r.version)
    BY <2>1, <2>2, Writers
  <2>6. Merge(r.version, new) \in Schema(r.version)
    BY <2>2, <2>3, Schemas
  <2>7. Whole(r.version)
    BY <2>2, Wholeness DEF Names, Singles
  <2>8. Fine(r.op, Save(r.version, new))
    BY <2>5, <2>6, <2>7, FineSave
  <2> QED  BY <2>1, <2>4, <2>8 DEF OpensFine
<1>15. CASE ArchiveHours(c, r)
  <2> DEFINE new == [doc[r.version] EXCEPT !.status = "archived"]
  <2>1. Open(c, Save(r.version, new)) /\ r.op \in {"archive hours"}
    BY <1>15 DEF ArchiveHours
  <2>2. r.version \in Hours /\ doc[r.version] \in VersionDoc
    BY <2>1, Typed DEF RequestFits
  <2>3. Merge(r.version, new) \in VersionDoc
    BY <1>15, <2>1, <2>2 DEF ArchiveHours, RequestFits, Merge, VersionDoc, NoVersion, One
  <2>4. r.op \notin Erasing
    BY <2>1 DEF Erasing
  <2> HIDE DEF new
  <2>5. MayWrite(r.op, r.version)
    BY <2>1, <2>2, Writers
  <2>6. Merge(r.version, new) \in Schema(r.version)
    BY <2>2, <2>3, Schemas
  <2>7. Whole(r.version)
    BY <2>2, Wholeness DEF Names, Singles
  <2>8. Fine(r.op, Save(r.version, new))
    BY <2>5, <2>6, <2>7, FineSave
  <2> QED  BY <2>1, <2>4, <2>8 DEF OpensFine
<1> QED
    BY <1>1, <1>2, <1>3, <1>4, <1>5, <1>6, <1>7, <1>8,
       <1>9, <1>10, <1>11, <1>12, <1>13, <1>14, <1>15 DEF PremisesOperation


LEMMA CatalogFine ==
    ASSUME Documents, NEW c \in Client, NEW r, RequestFits(r), CatalogOperation(c, r)
    PROVE  OpensFine(c, r)
<1>1. CASE CreateCategory(c, r)
  <2> DEFINE new == [status |-> Status(Given(r.active, TRUE)), parent |-> r.parent,
                     types |-> r.types]
  <2>1. Open(c, Put(r.category, new)) /\ r.op \in {"create category"}
    BY <1>1 DEF CreateCategory
  <2>2. r.category \in Category /\ doc[r.category] \in CategoryDoc
    BY <2>1, Typed DEF RequestFits
  <2>3. Merge(r.category, new) \in CategoryDoc
    BY <1>1, <2>1, <2>2 DEF CreateCategory, RequestFits, Merge, CategoryDoc, NoCategory, Status, Given
  <2>4. r.op \notin Erasing
    BY <2>1 DEF Erasing
  <2> HIDE DEF new
  <2>5. MayWrite(r.op, r.category)
    BY <2>1, <2>2, Writers DEF CatalogOps, CategoryOps, ItemOps
  <2>6. Merge(r.category, new) \in Schema(r.category)
    BY <2>2, <2>3, Schemas
  <2>8. Fine(r.op, Put(r.category, new))
    BY <2>5, <2>6, FinePut
  <2> QED  BY <2>1, <2>4, <2>8 DEF OpensFine
<1>2. CASE UpdateCategory(c, r)
  <2> DEFINE new == [status |-> Status(Given(r.active, doc[r.category].status = "active")),
                     parent |-> IF r.keep THEN doc[r.category].parent ELSE r.parent,
                     types |-> IF r.types = {} THEN doc[r.category].types ELSE r.types]
  <2>1. Open(c, Save(r.category, new)) /\ r.op \in {"update category"}
    BY <1>2 DEF UpdateCategory
  <2>2. r.category \in Category /\ doc[r.category] \in CategoryDoc
    BY <2>1, Typed DEF RequestFits
  <2>3. Merge(r.category, new) \in CategoryDoc
    BY <1>2, <2>1, <2>2 DEF UpdateCategory, RequestFits, Merge, CategoryDoc, There, Status, Given
  <2>4. r.op \notin Erasing
    BY <2>1 DEF Erasing
  <2> HIDE DEF new
  <2>5. MayWrite(r.op, r.category)
    BY <2>1, <2>2, Writers DEF CatalogOps, CategoryOps, ItemOps
  <2>6. Merge(r.category, new) \in Schema(r.category)
    BY <2>2, <2>3, Schemas
  <2>7. Whole(r.category)
    BY <2>2, Wholeness DEF Names, Singles
  <2>8. Fine(r.op, Save(r.category, new))
    BY <2>5, <2>6, <2>7, FineSave
  <2> QED  BY <2>1, <2>4, <2>8 DEF OpensFine
<1>3. CASE ArchiveCategory(c, r)
  <2> DEFINE new == [status |-> "gone", parent |-> {}]
  <2>1. Open(c, Put(r.category, new)) /\ r.op \in {"archive category"}
    BY <1>3 DEF ArchiveCategory
  <2>2. r.category \in Category /\ doc[r.category] \in CategoryDoc
    BY <2>1, Typed DEF RequestFits
  <2>3. Merge(r.category, new) \in CategoryDoc
    BY <1>3, <2>1, <2>2 DEF ArchiveCategory, RequestFits, Merge, CategoryDoc, There
  <2>4. Gone(Put(r.category, new))
    BY <2>2, NamesAssumption DEF Gone, Singles, Put
  <2> HIDE DEF new
  <2>5. MayWrite(r.op, r.category)
    BY <2>1, <2>2, Writers DEF CatalogOps, CategoryOps, ItemOps
  <2>6. Merge(r.category, new) \in Schema(r.category)
    BY <2>2, <2>3, Schemas
  <2>8. Fine(r.op, Put(r.category, new))
    BY <2>5, <2>6, FinePut
  <2> QED  BY <2>1, <2>4, <2>8 DEF OpensFine
<1>4. CASE Extend(c, r)
  <2>1. PICK d \in DOMAIN Saving : /\ r.op \in Saving[d]
                                  /\ \E k \in Left(d, r).in :
                                       There(k) /\ Open(c, Put(k, [types |-> doc[k].types \cup {d}]))
    BY <1>4 DEF Extend
  <2>2. PICK k \in Left(d, r).in : There(k) /\ Open(c, Put(k, [types |-> doc[k].types \cup {d}]))
    BY <2>1
  <2>3. /\ d \in {"product", "package"}
        /\ r.op \in {"create product", "update product", "create package", "update package"}
    <3>1. DOMAIN Saving = {"product", "package"}
        BY DEF Saving
    <3>2. /\ Saving["product"] = {"create product", "update product"}
          /\ Saving["package"] = {"create package", "update package"}
        BY DEF Saving
    <3> HIDE DEF Saving
    <3>3. CASE d = "product"
        BY <2>1, <3>2, <3>3
    <3>4. CASE d = "package"
        BY <2>1, <3>2, <3>4
    <3> QED  BY <3>1, <3>3, <3>4
  <2>4. k \in Category
    <3>1. r.category \subseteq Category
        BY <2>3 DEF RequestFits, One
    <3>2. doc["product"].in \subseteq Category /\ doc["package"].in \subseteq Category
        BY Typed DEF ProductDoc, PackageDoc
    <3> QED  BY <2>2, <2>3, <3>1, <3>2 DEF Left
  <2> DEFINE new == [types |-> doc[k].types \cup {d}]
  <2>5. doc[k] \in CategoryDoc
    BY <2>4, Typed
  <2>6. Merge(k, new) \in CategoryDoc
    BY <2>3, <2>5 DEF Merge, CategoryDoc, Type
  <2>7. Open(c, Put(k, new))
    BY <2>2
  <2> HIDE DEF new
  <2>8. MayWrite(r.op, k) /\ Merge(k, new) \in Schema(k)
    <3>1. r.op \in CatalogOps
        BY <2>3 DEF CatalogOps, ItemOps
    <3> QED  BY <2>4, <2>6, <3>1, Writers, Schemas
  <2>9. Fine(r.op, Put(k, new))
    BY <2>8, FinePut
  <2> QED  BY <2>3, <2>7, <2>9 DEF OpensFine, Erasing
<1>5. CASE CreateProduct(c, r)
  <2> DEFINE new == Left("product", r)
  <2>1. Open(c, Put("product", new)) /\ r.op \in {"create product"}
    BY <1>5 DEF CreateProduct
  <2>2. doc["product"] \in ProductDoc
    BY Typed
  <2>10. r.branches \subseteq Branch /\ r.category \in {{}} \cup One(Category)
    BY <2>1 DEF RequestFits
  <2>11. Left("product", r).in \in One(Category)
    BY <1>5, <2>1, <2>2, <2>10 DEF CreateProduct, Left, NoProduct, Status, Given, ProductDoc, RequestFits, One
  <2>12. doc["product"].at \subseteq Branch
    BY <2>2 DEF ProductDoc
  <2>13. new \in [status : {"active", "inactive"}, in : One(Category), at : SUBSET Branch]
    BY <2>1, <2>10, <2>11, <2>12 DEF Left, Status
  <2>14. new.in \in SUBSET Category
    BY <2>13 DEF One
  <2> HIDE DEF new
  <2>3. Merge("product", new) \in ProductDoc
    BY <2>2, <2>13, <2>14 DEF Merge, ProductDoc
  <2>4. r.op \notin Erasing
    BY <2>1 DEF Erasing
  <2>5. MayWrite(r.op, "product")
    BY <2>1, Writers
  <2>6. Merge("product", new) \in Schema("product")
    BY <2>3, Schemas
  <2>8. Fine(r.op, Put("product", new))
    BY <2>5, <2>6, FinePut
  <2> QED  BY <2>1, <2>4, <2>8 DEF OpensFine
<1>6. CASE UpdateProduct(c, r)
  <2> DEFINE new == Left("product", r)
  <2>1. Open(c, Save("product", new)) /\ r.op \in {"update product"}
    BY <1>6 DEF UpdateProduct
  <2>2. doc["product"] \in ProductDoc
    BY Typed
  <2>10. r.branches \subseteq Branch /\ r.category \in {{}} \cup One(Category)
    BY <2>1 DEF RequestFits
  <2>11. Left("product", r).in \in One(Category)
    BY <1>6, <2>1, <2>2, <2>10 DEF UpdateProduct, Left, There, Status, Given, ProductDoc, RequestFits, One
  <2>12. doc["product"].at \subseteq Branch
    BY <2>2 DEF ProductDoc
  <2>13. new \in [status : {"active", "inactive"}, in : One(Category), at : SUBSET Branch]
    BY <2>1, <2>10, <2>11, <2>12 DEF Left, Status
  <2>14. new.in \in SUBSET Category
    BY <2>13 DEF One
  <2> HIDE DEF new
  <2>3. Merge("product", new) \in ProductDoc
    BY <2>2, <2>13, <2>14 DEF Merge, ProductDoc
  <2>4. r.op \notin Erasing
    BY <2>1 DEF Erasing
  <2>5. MayWrite(r.op, "product")
    BY <2>1, Writers
  <2>6. Merge("product", new) \in Schema("product")
    BY <2>3, Schemas
  <2>7. Whole("product")
    BY Wholeness DEF Names, Singles
  <2>8. Fine(r.op, Save("product", new))
    BY <2>5, <2>6, <2>7, FineSave
  <2> QED  BY <2>1, <2>4, <2>8 DEF OpensFine
<1>7. CASE ArchiveProduct(c, r)
  <2> DEFINE new == [status |-> "gone"]
  <2>1. Open(c, Put("product", new)) /\ r.op \in {"archive product"}
    BY <1>7 DEF ArchiveProduct
  <2>2. doc["product"] \in ProductDoc
    BY Typed
  <2>3. Merge("product", new) \in ProductDoc
    BY <1>7, <2>1, <2>2 DEF ArchiveProduct, RequestFits, Merge, ProductDoc
  <2>4. Gone(Put("product", new))
    BY NamesAssumption DEF Gone, Singles, Put
  <2> HIDE DEF new
  <2>5. MayWrite(r.op, "product")
    BY <2>1, Writers
  <2>6. Merge("product", new) \in Schema("product")
    BY <2>3, Schemas
  <2>8. Fine(r.op, Put("product", new))
    BY <2>5, <2>6, FinePut
  <2> QED  BY <2>1, <2>4, <2>8 DEF OpensFine
<1>8. CASE CreatePackage(c, r)
  <2> DEFINE new == Packed(r)
  <2>1. Open(c, Put("package", new)) /\ r.op \in {"create package"}
    BY <1>8 DEF CreatePackage
  <2>2. doc["package"] \in PackageDoc
    BY Typed
  <2>10. r.branches \subseteq Branch /\ r.category \in {{}} \cup One(Category)
    BY <2>1 DEF RequestFits
  <2>11. Packed(r).in \in One(Category)
    BY ZenonT(40), <1>8, <2>1, <2>2, <2>10 DEF CreatePackage, Packed, Left, NoPackage, Status, Given, PackageDoc, RequestFits, One
  <2>12. doc["package"].at \subseteq Branch
    BY <2>2 DEF PackageDoc
  <2>13. new \in [status : {"active", "inactive"}, in : One(Category), at : SUBSET Branch, with : SUBSET {"product"}]
    BY <2>1, <2>10, <2>11, <2>12 DEF Packed, Left, Status, RequestFits
  <2>14. new.in \in SUBSET Category
    BY <2>13 DEF One
  <2> HIDE DEF new
  <2>3. Merge("package", new) \in PackageDoc
    BY <2>2, <2>13, <2>14 DEF Merge, PackageDoc
  <2>4. r.op \notin Erasing
    BY <2>1 DEF Erasing
  <2>5. MayWrite(r.op, "package")
    BY <2>1, Writers
  <2>6. Merge("package", new) \in Schema("package")
    BY <2>3, Schemas
  <2>8. Fine(r.op, Put("package", new))
    BY <2>5, <2>6, FinePut
  <2> QED  BY <2>1, <2>4, <2>8 DEF OpensFine
<1>9. CASE UpdatePackage(c, r)
  <2> DEFINE new == Packed(r)
  <2>1. Open(c, Save("package", new)) /\ r.op \in {"update package"}
    BY <1>9 DEF UpdatePackage
  <2>2. doc["package"] \in PackageDoc
    BY Typed
  <2>10. r.branches \subseteq Branch /\ r.category \in {{}} \cup One(Category)
    BY <2>1 DEF RequestFits
  <2>11. Packed(r).in \in One(Category)
    BY <1>9, <2>1, <2>2, <2>10 DEF UpdatePackage, Packed, Left, There, Status, Given, PackageDoc, RequestFits, One
  <2>12. doc["package"].at \subseteq Branch
    BY <2>2 DEF PackageDoc
  <2>13. new \in [status : {"active", "inactive"}, in : One(Category), at : SUBSET Branch, with : SUBSET {"product"}]
    BY <2>1, <2>10, <2>11, <2>12 DEF Packed, Left, Status, RequestFits
  <2>14. new.in \in SUBSET Category
    BY <2>13 DEF One
  <2> HIDE DEF new
  <2>3. Merge("package", new) \in PackageDoc
    BY <2>2, <2>13, <2>14 DEF Merge, PackageDoc
  <2>4. r.op \notin Erasing
    BY <2>1 DEF Erasing
  <2>5. MayWrite(r.op, "package")
    BY <2>1, Writers
  <2>6. Merge("package", new) \in Schema("package")
    BY <2>3, Schemas
  <2>7. Whole("package")
    BY Wholeness DEF Names, Singles
  <2>8. Fine(r.op, Save("package", new))
    BY <2>5, <2>6, <2>7, FineSave
  <2> QED  BY <2>1, <2>4, <2>8 DEF OpensFine
<1>10. CASE SwitchPackage(c, r)
  <2> DEFINE new == [status |-> Status(r.active = "on")]
  <2>1. Open(c, Save("package", new)) /\ r.op \in {"switch package"}
    BY <1>10 DEF SwitchPackage
  <2>2. doc["package"] \in PackageDoc
    BY Typed
  <2>3. Merge("package", new) \in PackageDoc
    BY <1>10, <2>1, <2>2 DEF SwitchPackage, RequestFits, Merge, PackageDoc, There, Status
  <2>4. r.op \notin Erasing
    BY <2>1 DEF Erasing
  <2> HIDE DEF new
  <2>5. MayWrite(r.op, "package")
    BY <2>1, Writers
  <2>6. Merge("package", new) \in Schema("package")
    BY <2>3, Schemas
  <2>7. Whole("package")
    BY Wholeness DEF Names, Singles
  <2>8. Fine(r.op, Save("package", new))
    BY <2>5, <2>6, <2>7, FineSave
  <2> QED  BY <2>1, <2>4, <2>8 DEF OpensFine
<1>11. CASE ArchivePackage(c, r)
  <2> DEFINE new == [status |-> "gone"]
  <2>1. Open(c, Put("package", new)) /\ r.op \in {"archive package"}
    BY <1>11 DEF ArchivePackage
  <2>2. doc["package"] \in PackageDoc
    BY Typed
  <2>3. Merge("package", new) \in PackageDoc
    BY <1>11, <2>1, <2>2 DEF ArchivePackage, RequestFits, Merge, PackageDoc
  <2>4. Gone(Put("package", new))
    BY NamesAssumption DEF Gone, Singles, Put
  <2> HIDE DEF new
  <2>5. MayWrite(r.op, "package")
    BY <2>1, Writers
  <2>6. Merge("package", new) \in Schema("package")
    BY <2>3, Schemas
  <2>8. Fine(r.op, Put("package", new))
    BY <2>5, <2>6, FinePut
  <2> QED  BY <2>1, <2>4, <2>8 DEF OpensFine
<1> QED
    BY <1>1, <1>2, <1>3, <1>4, <1>5, <1>6, <1>7, <1>8, <1>9,
       <1>10, <1>11 DEF CatalogOperation

LEMMA RosterFine ==
    ASSUME Documents, NEW c \in Client, NEW r, RequestFits(r), RosterOperation(c, r)
    PROVE  OpensFine(c, r)
<1>1. CASE CreateShift(c, r)
  <2> DEFINE new == [status |-> r.status, at |-> {r.branch}, from |-> r.from, until |-> r.until]
  <2>1. Open(c, Put(r.shift, new)) /\ r.op \in {"create shift"}
    BY <1>1 DEF CreateShift
  <2>2. r.shift \in Shift /\ doc[r.shift] \in VersionDoc
    BY <2>1, Typed DEF RequestFits
  <2>3. Merge(r.shift, new) \in VersionDoc
    BY <1>1, <2>1, <2>2 DEF CreateShift, RequestFits, Merge, VersionDoc, NoVersion, One
  <2>4. r.op \notin Erasing
    BY <2>1 DEF Erasing
  <2> HIDE DEF new
  <2>5. MayWrite(r.op, r.shift)
    BY <2>1, <2>2, Writers
  <2>6. Merge(r.shift, new) \in Schema(r.shift)
    BY <2>2, <2>3, Schemas
  <2>8. Fine(r.op, Put(r.shift, new))
    BY <2>5, <2>6, FinePut
  <2> QED  BY <2>1, <2>4, <2>8 DEF OpensFine
<1>2. CASE UpdateShift(c, r)
  <2> DEFINE new == [doc[r.shift] EXCEPT !.status = r.status, !.from = r.from, !.until = r.until]
  <2>1. Open(c, Save(r.shift, new)) /\ r.op \in {"update shift"}
    BY <1>2 DEF UpdateShift
  <2>2. r.shift \in Shift /\ doc[r.shift] \in VersionDoc
    BY <2>1, Typed DEF RequestFits
  <2>10. doc[r.shift].status # "absent"
    BY <1>2 DEF UpdateShift
  <2>11. doc[r.shift] # NoVersion
    BY <2>10 DEF NoVersion
  <2>12. doc[r.shift] \in [status : {"draft", "active", "archived"}, at : One(Branch),
                           from : Nat, until : Nat]
    BY <2>2, <2>11 DEF VersionDoc
  <2>3. Merge(r.shift, new) \in VersionDoc
    BY <1>2, <2>1, <2>2, <2>10, <2>11, <2>12 DEF UpdateShift, RequestFits, Merge, VersionDoc, NoVersion, One
  <2>4. r.op \notin Erasing
    BY <2>1 DEF Erasing
  <2> HIDE DEF new
  <2>5. MayWrite(r.op, r.shift)
    BY <2>1, <2>2, Writers
  <2>6. Merge(r.shift, new) \in Schema(r.shift)
    BY <2>2, <2>3, Schemas
  <2>7. Whole(r.shift)
    BY <2>2, Wholeness DEF Names, Singles
  <2>8. Fine(r.op, Save(r.shift, new))
    BY <2>5, <2>6, <2>7, FineSave
  <2> QED  BY <2>1, <2>4, <2>8 DEF OpensFine
<1>3. CASE ArchiveShift(c, r)
  <2> DEFINE new == [status |-> "archived"]
  <2>1. Open(c, Save(r.shift, new)) /\ r.op \in {"archive shift"}
    BY <1>3 DEF ArchiveShift
  <2>2. r.shift \in Shift /\ doc[r.shift] \in VersionDoc
    BY <2>1, Typed DEF RequestFits
  <2>3. Merge(r.shift, new) \in VersionDoc
    BY <1>3, <2>1, <2>2 DEF ArchiveShift, RequestFits, Merge, VersionDoc, NoVersion, One
  <2>4. r.op \notin Erasing
    BY <2>1 DEF Erasing
  <2> HIDE DEF new
  <2>5. MayWrite(r.op, r.shift)
    BY <2>1, <2>2, Writers
  <2>6. Merge(r.shift, new) \in Schema(r.shift)
    BY <2>2, <2>3, Schemas
  <2>7. Whole(r.shift)
    BY <2>2, Wholeness DEF Names, Singles
  <2>8. Fine(r.op, Save(r.shift, new))
    BY <2>5, <2>6, <2>7, FineSave
  <2> QED  BY <2>1, <2>4, <2>8 DEF OpensFine
<1>4. CASE CreateResource(c, r)
  <2> DEFINE new == [status |-> Status(Given(r.active, TRUE)), at |-> {r.branch},
                     serves |-> r.serves]
  <2>1. Open(c, Put(r.resource, new)) /\ r.op \in {"create resource"}
    BY <1>4 DEF CreateResource
  <2>2. r.resource \in Resource /\ doc[r.resource] \in ResourceDoc
    BY <2>1, Typed DEF RequestFits
  <2>3. Merge(r.resource, new) \in ResourceDoc
    BY <1>4, <2>1, <2>2 DEF CreateResource, RequestFits, Merge, ResourceDoc, NoResource, One, Status
  <2>4. r.op \notin Erasing
    BY <2>1 DEF Erasing
  <2> HIDE DEF new
  <2>5. MayWrite(r.op, r.resource)
    BY <2>1, <2>2, Writers
  <2>6. Merge(r.resource, new) \in Schema(r.resource)
    BY <2>2, <2>3, Schemas
  <2>8. Fine(r.op, Put(r.resource, new))
    BY <2>5, <2>6, FinePut
  <2> QED  BY <2>1, <2>4, <2>8 DEF OpensFine
<1>5. CASE UpdateResource(c, r)
  <2> DEFINE new == [status |-> Status(Given(r.active, doc[r.resource].status = "active")),
                     serves |-> IF r.keep THEN doc[r.resource].serves ELSE r.serves]
  <2>1. Open(c, Save(r.resource, new)) /\ r.op \in {"update resource"}
    BY <1>5 DEF UpdateResource
  <2>2. r.resource \in Resource /\ doc[r.resource] \in ResourceDoc
    BY <2>1, Typed DEF RequestFits
  <2>3. Merge(r.resource, new) \in ResourceDoc
    BY <1>5, <2>1, <2>2 DEF UpdateResource, RequestFits, Merge, ResourceDoc, Status
  <2>4. r.op \notin Erasing
    BY <2>1 DEF Erasing
  <2> HIDE DEF new
  <2>5. MayWrite(r.op, r.resource)
    BY <2>1, <2>2, Writers
  <2>6. Merge(r.resource, new) \in Schema(r.resource)
    BY <2>2, <2>3, Schemas
  <2>7. Whole(r.resource)
    BY <2>2, Wholeness DEF Names, Singles
  <2>8. Fine(r.op, Save(r.resource, new))
    BY <2>5, <2>6, <2>7, FineSave
  <2> QED  BY <2>1, <2>4, <2>8 DEF OpensFine
<1>6. CASE DeleteResource(c, r)
  <2> DEFINE new == [status |-> "gone"]
  <2>1. Open(c, Put(r.resource, new)) /\ r.op \in {"delete resource"}
    BY <1>6 DEF DeleteResource
  <2>2. r.resource \in Resource /\ doc[r.resource] \in ResourceDoc
    BY <2>1, Typed DEF RequestFits
  <2>3. Merge(r.resource, new) \in ResourceDoc
    BY <1>6, <2>1, <2>2 DEF DeleteResource, RequestFits, Merge, ResourceDoc
  <2>4. r.op \notin Erasing
    BY <2>1 DEF Erasing
  <2> HIDE DEF new
  <2>5. MayWrite(r.op, r.resource)
    BY <2>1, <2>2, Writers
  <2>6. Merge(r.resource, new) \in Schema(r.resource)
    BY <2>2, <2>3, Schemas
  <2>8. Fine(r.op, Put(r.resource, new))
    BY <2>5, <2>6, FinePut
  <2> QED  BY <2>1, <2>4, <2>8 DEF OpensFine
<1>7. CASE TakeOff(c, r)
  <2> DEFINE new == [status |-> "requested", everywhere |-> r.everywhere,
                     branches |-> IF r.everywhere THEN {} ELSE r.branches,
                     from |-> r.from, until |-> r.until]
  <2>1. Open(c, Put(r.leave, new)) /\ r.op \in {"take off"}
    BY <1>7 DEF TakeOff
  <2>2. r.leave \in Leave /\ doc[r.leave] \in LeaveDoc
    BY <2>1, Typed DEF RequestFits
  <2>3. Merge(r.leave, new) \in LeaveDoc
    BY <1>7, <2>1, <2>2 DEF TakeOff, RequestFits, Merge, LeaveDoc, NoLeave, LeaveStatus
  <2>4. r.op \notin Erasing
    BY <2>1 DEF Erasing
  <2> HIDE DEF new
  <2>5. MayWrite(r.op, r.leave)
    BY <2>1, <2>2, Writers DEF Sharing
  <2>6. Merge(r.leave, new) \in Schema(r.leave)
    BY <2>2, <2>3, Schemas
  <2>8. Fine(r.op, Put(r.leave, new))
    BY <2>5, <2>6, FinePut
  <2> QED  BY <2>1, <2>4, <2>8 DEF OpensFine
<1>8. CASE Withdraw(c, r)
  <2> DEFINE new == [status |-> "cancelled"]
  <2>1. Open(c, Save(r.leave, new)) /\ r.op \in {"withdraw"}
    BY <1>8 DEF Withdraw
  <2>2. r.leave \in Leave /\ doc[r.leave] \in LeaveDoc
    BY <2>1, Typed DEF RequestFits
  <2>3. Merge(r.leave, new) \in LeaveDoc
    BY <1>8, <2>1, <2>2 DEF Withdraw, RequestFits, Merge, LeaveDoc, NoLeave, LeaveStatus
  <2>4. r.op \notin Erasing
    BY <2>1 DEF Erasing
  <2> HIDE DEF new
  <2>5. MayWrite(r.op, r.leave)
    BY <2>1, <2>2, Writers DEF Sharing
  <2>6. Merge(r.leave, new) \in Schema(r.leave)
    BY <2>2, <2>3, Schemas
  <2>7. Whole(r.leave)
    BY <2>2, Wholeness DEF Names, Singles
  <2>8. Fine(r.op, Save(r.leave, new))
    BY <2>5, <2>6, <2>7, FineSave
  <2> QED  BY <2>1, <2>4, <2>8 DEF OpensFine
<1>9. CASE DecideTimeOff(c, r)
  <2> DEFINE new == [status |-> Decision[r.op]]
  <2>1. Open(c, Save(r.leave, new)) /\ r.op \in {"approve", "reject", "call off"}
    BY <1>9 DEF DecideTimeOff, Decision
  <2>2. r.leave \in Leave /\ doc[r.leave] \in LeaveDoc
    BY <2>1, Typed DEF RequestFits
  <2>10. Decision[r.op] \in {"approved", "rejected", "cancelled"}
    BY <2>1 DEF Decision
  <2>11. doc[r.leave].status # "absent"
    BY <1>9, <2>10 DEF DecideTimeOff
  <2>12. doc[r.leave] # NoLeave
    BY <2>11 DEF NoLeave
  <2>13. Decision[r.op] \in LeaveStatus
    BY <2>10 DEF LeaveStatus
  <2>3. Merge(r.leave, new) \in LeaveDoc
    BY <1>9, <2>1, <2>2, <2>10, <2>11, <2>12, <2>13 DEF DecideTimeOff, RequestFits, Merge, LeaveDoc, NoLeave
  <2>4. r.op \notin Erasing
    BY <2>1 DEF Erasing
  <2> HIDE DEF new
  <2>5. MayWrite(r.op, r.leave)
    BY <2>1, <2>2, Writers DEF Sharing
  <2>6. Merge(r.leave, new) \in Schema(r.leave)
    BY <2>2, <2>3, Schemas
  <2>7. Whole(r.leave)
    BY <2>2, Wholeness DEF Names, Singles
  <2>8. Fine(r.op, Save(r.leave, new))
    BY <2>5, <2>6, <2>7, FineSave
  <2> QED  BY <2>1, <2>4, <2>8 DEF OpensFine
<1> QED
    BY <1>1, <1>2, <1>3, <1>4, <1>5, <1>6, <1>7, <1>8, <1>9 DEF RosterOperation

\* To write all the fields is to replace the document.
LEMMA MergeAll ==
    ASSUME NEW d, NEW v, v = [f \in DOMAIN doc[d] |-> v[f]]
    PROVE  Merge(d, v) = v
BY DEF Merge

LEMMA EmployeeFine ==
    ASSUME Documents, NEW v \in EmployeeDoc,
           NEW op \in {"hire", "employ", "update", "provision", "activate", "terminate", "profile"}
    PROVE  Fine(op, Put("employee", v)) /\ Fine(op, Save("employee", v))
<1>1. doc["employee"] \in EmployeeDoc
    BY Typed
<1>2. Merge("employee", v) = v
    BY <1>1, MergeAll DEF EmployeeDoc, NoEmployee
<1>3. Merge("employee", v) \in Schema("employee") /\ MayWrite(op, "employee")
    BY <1>2, Schemas, Writers
<1>4. Whole("employee")
    BY Wholeness DEF Names, Singles
<1> QED  BY <1>3, <1>4, FinePut, FineSave

LEMMA AccessFine ==
    ASSUME Documents, NEW v \in AccessDoc,
           NEW op \in {"employ", "update", "provision", "activate", "terminate", "access"}
    PROVE  Fine(op, Put("access", v)) /\ Fine(op, Save("access", v))
<1>1. doc["access"] \in AccessDoc
    BY Typed
<1>2. Merge("access", v) = v
    BY <1>1, MergeAll DEF AccessDoc, NoAccess
<1>3. Merge("access", v) \in Schema("access") /\ MayWrite(op, "access")
    BY <1>2, Schemas, Writers
<1>4. Whole("access")
    BY Wholeness DEF Names, Singles
<1> QED  BY <1>3, <1>4, FinePut, FineSave

LEMMA NewUserFine ==
    ASSUME Documents, NEW op \in {"employ", "update", "provision", "activate", "terminate"}
    PROVE  Fine(op, NewUser)
<1> DEFINE new == [standing |-> "on", made |-> user.made + 1]
<1>1. doc["user"] \in UserDoc
    BY Typed
<1>2. Merge("user", new) \in UserDoc
    BY <1>1 DEF Merge, UserDoc, user
<1>3. NewUser = Put("user", new)
    BY DEF NewUser
<1> HIDE DEF new
<1>4. Merge("user", new) \in Schema("user") /\ MayWrite(op, "user")
    BY <1>2, Schemas, Writers
<1> QED  BY <1>3, <1>4, FinePut

LEMMA AccountFine ==
    ASSUME Documents, NEW status,
           NEW op \in {"employ", "update", "provision", "activate", "terminate"}
    PROVE  Fine(op, Account(status))
<1> DEFINE new == [standing |-> User(status)]
<1>1. doc["user"] \in UserDoc
    BY Typed
<1>2. User(status) \in {"none", "on", "off"}
    BY <1>1 DEF User, UserDoc, user
<1>3. Merge("user", new) \in UserDoc
    BY <1>1, <1>2 DEF Merge, UserDoc
<1>4. Account(status) = Put("user", new) \/ Account(status) = Save("user", new)
    BY DEF Account
<1> HIDE DEF new
<1>5. Merge("user", new) \in Schema("user") /\ MayWrite(op, "user")
    BY <1>3, Schemas, Writers
<1>6. Whole("user")
    BY Wholeness DEF Names, Singles
<1> QED  BY <1>4, <1>5, <1>6, FinePut, FineSave

LEMMA TrimFine ==
    ASSUME NEW a \in AccessDoc, NEW bs \in SUBSET Branch
    PROVE  Trim(a, bs) \in AccessDoc
<1>1. CASE a = NoAccess \/ a.everywhere
    BY <1>1 DEF Trim
<1>2. CASE a # NoAccess /\ ~a.everywhere
    BY <1>2 DEF Trim, AccessDoc, AccessStatus
<1> QED  BY <1>1, <1>2

LEMMA UpdatedFine ==
    ASSUME Documents, NEW r, RequestFits(r), r.op = "update", Employed
    PROVE  Fine(r.op, Updated(r))
<1> DEFINE status   == IF r.status = "keep" THEN employee.status ELSE r.status
           branches == IF r.everywhere THEN employee.branches ELSE r.branches
           new      == [employee EXCEPT !.status = status, !.branches = branches,
                                        !.bookable = @ /\ status = "active"]
           changing == employee.linked /\ r.status # "keep"
           before   == IF changing /\ access # NoAccess
                       THEN [access EXCEPT !.status = Standing(status)] ELSE access
           after    == IF employee.linked /\ ~r.everywhere THEN Trim(before, branches) ELSE before
           touched  == r.status = "keep" /\ r.everywhere
           emp      == IF touched THEN Put("employee", new) ELSE Save("employee", new)
           acc      == IF access = before /\ before = after THEN Nothing ELSE Put("access", after)
           use      == IF changing THEN Account(status) ELSE Nothing
<1>1. Updated(r) = Both(emp, Both(acc, use))
    BY DEF Updated
<1>2. employee \in [status : EmployeeStatus, branches : SUBSET Branch,
                    bookable : BOOLEAN, linked : BOOLEAN]
  <2>1. doc["employee"] \in EmployeeDoc
    BY Typed
  <2> QED  BY <2>1 DEF EmployeeDoc, Employed, employee, NoEmployee, EmployeeStatus
<1>3. access \in AccessDoc
    BY Typed DEF access
<1>4. status \in EmployeeStatus /\ branches \subseteq Branch
    BY <1>2 DEF RequestFits
<1>5. new \in EmployeeDoc
    BY <1>2, <1>4 DEF EmployeeDoc
<1>6. before \in AccessDoc
  <2>1. CASE changing /\ access # NoAccess
    <3>1. access.status \in AccessStatus
        BY <1>3, <2>1 DEF AccessDoc
    <3>2. Standing(status) \in AccessStatus
        BY <3>1 DEF Standing, AccessStatus
    <3>3. [access EXCEPT !.status = Standing(status)] \in AccessDoc
        BY <1>3, <2>1, <3>2 DEF AccessDoc
    <3> QED  BY <2>1, <3>3
  <2>2. CASE ~(changing /\ access # NoAccess)
    BY <1>3, <2>2
  <2> QED  BY <2>1, <2>2
<1> HIDE DEF status, branches, new, before
<1>7. after \in AccessDoc
    BY <1>4, <1>6, TrimFine
<1> HIDE DEF after
<1>8. Fine(r.op, emp)
    BY <1>5, EmployeeFine
<1>9. Fine(r.op, acc)
    BY <1>7, AccessFine, FineNothing
<1>10. Fine(r.op, use)
    BY AccountFine, FineNothing
<1> HIDE DEF emp, acc, use
<1>11. Fine(r.op, Both(acc, use))
    BY <1>9, <1>10, FineBoth
<1> QED  BY <1>1, <1>8, <1>11, FineBoth

LEMMA PersonnelFine ==
    ASSUME Documents, NEW c \in Client, NEW r, RequestFits(r), PersonnelOperation(c, r)
    PROVE  OpensFine(c, r)
<1>1. CASE Hire(c, r)
  <2> DEFINE hired == [status |-> r.status, branches |-> r.branches,
                       bookable |-> r.status = "active", linked |-> r.op = "employ"]
             given == Access([status |-> IF r.status = "active" THEN "active" ELSE "invited",
                              everywhere |-> r.branches = {}, branches |-> r.branches])
             rest  == IF hired.linked THEN Both(NewUser, Put("access", given)) ELSE Nothing
  <2>1. r.op \in {"hire", "employ"} /\ Open(c, Both(Put("employee", hired), rest))
    BY <1>1 DEF Hire
  <2>2. r.status \in EmployeeStatus /\ r.branches \subseteq Branch
    BY <2>1 DEF RequestFits
  <2>3. hired \in EmployeeDoc
    BY <2>2 DEF EmployeeDoc
  <2>4. given \in AccessDoc
    BY <2>2 DEF Access, AccessDoc, AccessStatus
  <2>5. hired.linked => r.op = "employ"
    OBVIOUS
  <2> HIDE DEF hired, given
  <2>6. Fine(r.op, rest)
    <3>1. CASE hired.linked
      <4>1. r.op \in {"employ", "update", "provision", "activate", "terminate"}
        BY <2>5, <3>1
      <4>2. Fine(r.op, NewUser) /\ Fine(r.op, Put("access", given))
        BY <2>4, <4>1, NewUserFine, AccessFine
      <4> QED  BY <3>1, <4>2, FineBoth
    <3>2. CASE ~hired.linked
        BY <3>2, FineNothing
    <3> QED  BY <3>1, <3>2
  <2>7. Fine(r.op, Put("employee", hired))
    BY <2>1, <2>3, EmployeeFine
  <2> HIDE DEF rest
  <2>8. Fine(r.op, Both(Put("employee", hired), rest))
    BY <2>6, <2>7, FineBoth
  <2> QED  BY <2>1, <2>8 DEF OpensFine, Erasing
<1>2. CASE Update(c, r)
  <2>1. r.op = "update" /\ Employed /\ Open(c, Updated(r))
    BY <1>2 DEF Update
  <2> QED  BY <2>1, UpdatedFine DEF OpensFine, Erasing
<1>3. CASE Provision(c, r)
  <2> DEFINE status == IF r.op = "activate" THEN "active" ELSE employee.status
             new    == [employee EXCEPT !.status = status, !.linked = TRUE]
  <2>1. /\ r.op \in {"provision", "activate"} /\ Employed
        /\ BranchesFit(r, employee.branches)
        /\ Open(c, Both(Put("employee", new), Both(NewUser, Put("access", Access(r)))))
    BY <1>3 DEF Provision
  <2>2. doc["employee"] \in EmployeeDoc
    BY Typed
  <2>3. new \in EmployeeDoc
    <3>1. /\ employee \in [status : EmployeeStatus, branches : SUBSET Branch,
                           bookable : BOOLEAN, linked : BOOLEAN]
          /\ employee.bookable => employee.status = "active"
        BY <2>1, <2>2 DEF EmployeeDoc, Employed, employee, NoEmployee, EmployeeStatus
    <3>2. status \in EmployeeStatus /\ (employee.bookable => status = "active")
        BY <3>1 DEF EmployeeStatus
    <3> HIDE DEF status
    <3> QED  BY <3>1, <3>2 DEF EmployeeDoc
  <2>4. Access(r) \in AccessDoc
    BY <2>1 DEF Access, AccessDoc, RequestFits, BranchesFit
  <2> HIDE DEF new
  <2>5. Fine(r.op, Put("employee", new)) /\ Fine(r.op, NewUser) /\ Fine(r.op, Put("access", Access(r)))
    BY <2>1, <2>3, <2>4, EmployeeFine, NewUserFine, AccessFine
  <2>6. Fine(r.op, Both(NewUser, Put("access", Access(r))))
    BY <2>5, FineBoth
  <2>7. Fine(r.op, Both(Put("employee", new), Both(NewUser, Put("access", Access(r)))))
    BY <2>5, <2>6, FineBoth
  <2> QED  BY <2>1, <2>7 DEF OpensFine, Erasing
<1>4. CASE Terminate(c, r)
  <2> DEFINE new  == [NoEmployee EXCEPT !.status = "gone"]
             off  == [status |-> Standing("terminated")]
             acc  == IF access = NoAccess THEN Nothing ELSE Save("access", off)
             rest == IF ~employee.linked THEN Nothing ELSE Both(Account("terminated"), acc)
  <2>1. r.op = "terminate" /\ Open(c, Both(Put("employee", new), rest))
    BY <1>4 DEF Terminate
  <2>2. new \in EmployeeDoc
    BY DEF EmployeeDoc, NoEmployee
  <2>3. Fine(r.op, acc)
    <3>1. CASE access = NoAccess
        BY <3>1, FineNothing
    <3>2. CASE access # NoAccess
      <4>1. doc["access"] \in AccessDoc /\ doc["access"] # NoAccess
        BY <3>2, Typed DEF access
      <4>2. Standing("terminated") \in AccessStatus
        BY DEF Standing, AccessStatus
      <4>3. Merge("access", off) \in AccessDoc
        BY <4>1, <4>2 DEF Merge, AccessDoc
      <4> HIDE DEF off
      <4>4. Merge("access", off) \in Schema("access") /\ MayWrite(r.op, "access")
        BY <2>1, <4>3, Schemas, Writers
      <4>5. Whole("access")
        BY Wholeness DEF Names, Singles
      <4> QED  BY <3>2, <4>4, <4>5, FineSave
    <3> QED  BY <3>1, <3>2
  <2> HIDE DEF new, acc
  <2>4. Fine(r.op, rest)
    BY <2>1, <2>3, AccountFine, FineNothing, FineBoth
  <2> HIDE DEF rest
  <2>5. Fine(r.op, Both(Put("employee", new), rest))
    BY <2>1, <2>2, <2>4, EmployeeFine, FineBoth
  <2> QED  BY <2>1, <2>5 DEF OpensFine, Erasing
<1>5. CASE UpdateAccess(c, r)
  <2>1. r.op = "access" /\ BranchesFit(r, employee.branches) /\ Open(c, Save("access", Access(r)))
    BY <1>5 DEF UpdateAccess
  <2>2. Access(r) \in AccessDoc
    BY <2>1 DEF Access, AccessDoc, RequestFits, BranchesFit
  <2> QED  BY <2>1, <2>2, AccessFine DEF OpensFine, Erasing
<1>6. CASE Assign(c, r)
  <2>0. PICK d : d \in Duty /\ Open(c, Save(d, [status |-> "active", at |-> r.branches]))
    BY <1>6 DEF Assign
  <2> DEFINE new == [status |-> "active", at |-> r.branches]
  <2>1. Open(c, Save(d, new)) /\ r.op \in {"assign"}
    BY <1>6, <2>0 DEF Assign
  <2>2. d \in Duty /\ doc[d] \in DutyDoc
    BY <2>0, <2>1, Typed DEF RequestFits
  <2>3. Merge(d, new) \in DutyDoc
    BY <1>6, <2>0, <2>1, <2>2 DEF Assign, RequestFits, Merge, DutyDoc, NoDuty, One
  <2>4. r.op \notin Erasing
    BY <2>1 DEF Erasing
  <2> HIDE DEF new
  <2>5. MayWrite(r.op, d)
    BY <2>1, <2>2, Writers
  <2>6. Merge(d, new) \in Schema(d)
    BY <2>2, <2>3, Schemas
  <2>7. Whole(d)
    BY <2>2, Wholeness DEF Names, Singles
  <2>8. Fine(r.op, Save(d, new))
    BY <2>5, <2>6, <2>7, FineSave
  <2> QED  BY <2>1, <2>4, <2>8 DEF OpensFine
<1>7. CASE Unassign(c, r)
  <2>0. PICK d : d \in Duty /\ doc[d].at = r.branches /\ Open(c, Save(d, [status |-> "inactive"]))
    BY <1>7 DEF Unassign
  <2> DEFINE new == [status |-> "inactive"]
  <2>1. Open(c, Save(d, new)) /\ r.op \in {"unassign"}
    BY <1>7, <2>0 DEF Unassign
  <2>2. d \in Duty /\ doc[d] \in DutyDoc
    BY <2>0, <2>1, Typed DEF RequestFits
  <2>3. Merge(d, new) \in DutyDoc
    BY <1>7, <2>0, <2>1, <2>2 DEF Unassign, RequestFits, Merge, DutyDoc, NoDuty, One
  <2>4. r.op \notin Erasing
    BY <2>1 DEF Erasing
  <2> HIDE DEF new
  <2>5. MayWrite(r.op, d)
    BY <2>1, <2>2, Writers
  <2>6. Merge(d, new) \in Schema(d)
    BY <2>2, <2>3, Schemas
  <2>7. Whole(d)
    BY <2>2, Wholeness DEF Names, Singles
  <2>8. Fine(r.op, Save(d, new))
    BY <2>5, <2>6, <2>7, FineSave
  <2> QED  BY <2>1, <2>4, <2>8 DEF OpensFine
<1>8. CASE CreateTerm(c, r)
  <2> DEFINE new == [status |-> Status(r.active = "on")]
  <2>1. Open(c, Put(r.term, new)) /\ r.op \in {"create term"}
    BY <1>8 DEF CreateTerm
  <2>2. r.term \in {"skill", "level"} /\ doc[r.term] \in TermDoc
    BY <2>1, Typed DEF RequestFits
  <2>3. Merge(r.term, new) \in TermDoc
    BY <1>8, <2>1, <2>2 DEF CreateTerm, RequestFits, Merge, TermDoc, Status
  <2>4. r.op \notin Erasing
    BY <2>1 DEF Erasing
  <2> HIDE DEF new
  <2>5. MayWrite(r.op, r.term)
    BY <2>1, <2>2, Writers
  <2>6. Merge(r.term, new) \in Schema(r.term)
    BY <2>2, <2>3, Schemas
  <2>8. Fine(r.op, Put(r.term, new))
    BY <2>5, <2>6, FinePut
  <2> QED  BY <2>1, <2>4, <2>8 DEF OpensFine
<1>9. CASE UpdateTerm(c, r)
  <2> DEFINE new == [status |-> Status(r.active = "on")]
  <2>1. Open(c, Save(r.term, new)) /\ r.op \in {"update term"}
    BY <1>9 DEF UpdateTerm
  <2>2. r.term \in {"skill", "level"} /\ doc[r.term] \in TermDoc
    BY <2>1, Typed DEF RequestFits
  <2>3. Merge(r.term, new) \in TermDoc
    BY <1>9, <2>1, <2>2 DEF UpdateTerm, RequestFits, Merge, TermDoc, Status
  <2>4. r.op \notin Erasing
    BY <2>1 DEF Erasing
  <2> HIDE DEF new
  <2>5. MayWrite(r.op, r.term)
    BY <2>1, <2>2, Writers
  <2>6. Merge(r.term, new) \in Schema(r.term)
    BY <2>2, <2>3, Schemas
  <2>7. Whole(r.term)
    BY <2>2, Wholeness DEF Names, Singles
  <2>8. Fine(r.op, Save(r.term, new))
    BY <2>5, <2>6, <2>7, FineSave
  <2> QED  BY <2>1, <2>4, <2>8 DEF OpensFine
<1>10. CASE UpsertSkill(c, r)
  <2> DEFINE new == [status |-> Status(r.active = "on")]
  <2>1. Open(c, Save("talent", new)) /\ r.op \in {"learn"}
    BY <1>10 DEF UpsertSkill
  <2>2. "talent" \in {"talent"} /\ doc["talent"] \in TermDoc
    BY <2>1, Typed DEF RequestFits
  <2>3. Merge("talent", new) \in TermDoc
    BY <1>10, <2>1, <2>2 DEF UpsertSkill, RequestFits, Merge, TermDoc, Status
  <2>4. r.op \notin Erasing
    BY <2>1 DEF Erasing
  <2> HIDE DEF new
  <2>5. MayWrite(r.op, "talent")
    BY <2>1, <2>2, Writers
  <2>6. Merge("talent", new) \in Schema("talent")
    BY <2>2, <2>3, Schemas
  <2>7. Whole("talent")
    BY <2>2, Wholeness DEF Names, Singles
  <2>8. Fine(r.op, Save("talent", new))
    BY <2>5, <2>6, <2>7, FineSave
  <2> QED  BY <2>1, <2>4, <2>8 DEF OpensFine
<1>11. CASE RemoveSkill(c, r)
  <2> DEFINE new == [status |-> "inactive"]
  <2>1. Open(c, Save("talent", new)) /\ r.op \in {"unlearn"}
    BY <1>11 DEF RemoveSkill
  <2>2. "talent" \in {"talent"} /\ doc["talent"] \in TermDoc
    BY <2>1, Typed DEF RequestFits
  <2>3. Merge("talent", new) \in TermDoc
    BY <1>11, <2>1, <2>2 DEF RemoveSkill, RequestFits, Merge, TermDoc
  <2>4. r.op \notin Erasing
    BY <2>1 DEF Erasing
  <2> HIDE DEF new
  <2>5. MayWrite(r.op, "talent")
    BY <2>1, <2>2, Writers
  <2>6. Merge("talent", new) \in Schema("talent")
    BY <2>2, <2>3, Schemas
  <2>7. Whole("talent")
    BY <2>2, Wholeness DEF Names, Singles
  <2>8. Fine(r.op, Save("talent", new))
    BY <2>5, <2>6, <2>7, FineSave
  <2> QED  BY <2>1, <2>4, <2>8 DEF OpensFine
<1>12. CASE UpdateMyProfile(c, r)
  <2>1. r.op = "profile" /\ Open(c, Put("employee", Nothing))
    BY <1>12 DEF UpdateMyProfile
  <2>2. doc["employee"] \in EmployeeDoc /\ Whole("employee")
    BY Typed, Wholeness DEF Names, Singles
  <2>3. Merge("employee", Nothing) = doc["employee"]
    BY <2>2 DEF Merge, Whole, Nothing
  <2>4. Merge("employee", Nothing) \in Schema("employee") /\ MayWrite(r.op, "employee")
    BY <2>1, <2>2, <2>3, Schemas, Writers
  <2>5. Fine(r.op, Put("employee", Nothing))
    BY <2>4, FinePut
  <2> QED  BY <2>1, <2>5 DEF OpensFine, Erasing
<1>13. CASE CreateAdmin(c, r)
  <2>0. PICK a : a \in Admin /\ Open(c, Put(a, [standing |-> "on", access |-> r.status]))
    BY <1>13 DEF CreateAdmin
  <2> DEFINE new == [standing |-> "on", access |-> r.status]
  <2>1. Open(c, Put(a, new)) /\ r.op \in {"create admin"}
    BY <1>13, <2>0 DEF CreateAdmin
  <2>2. a \in Admin /\ doc[a] \in AdminDoc
    BY <2>0, <2>1, Typed DEF RequestFits
  <2>3. Merge(a, new) \in AdminDoc
    BY <1>13, <2>0, <2>1, <2>2 DEF CreateAdmin, RequestFits, Merge, AdminDoc
  <2>4. r.op \notin Erasing
    BY <2>1 DEF Erasing
  <2> HIDE DEF new
  <2>5. MayWrite(r.op, a)
    BY <2>1, <2>2, Writers
  <2>6. Merge(a, new) \in Schema(a)
    BY <2>2, <2>3, Schemas
  <2>8. Fine(r.op, Put(a, new))
    BY <2>5, <2>6, FinePut
  <2> QED  BY <2>1, <2>4, <2>8 DEF OpensFine
<1>14. CASE UpdateAdmin(c, r)
  <2>1. r.op \in {"enable", "disable"}
    BY <1>14 DEF UpdateAdmin
  <2>2. PICK a \in Admin \ {c} :
          Open(c, IF r.op = "enable" THEN Save(a, [standing |-> "on"])
                  ELSE IF doc[a].standing = "off" THEN Nothing
                  ELSE Save(a, [standing |-> "off", access |-> "suspended"]))
    BY <1>14 DEF UpdateAdmin
  <2>3. doc[a] \in AdminDoc /\ Whole(a)
    BY Typed, Wholeness DEF Names
  <2>4. Merge(a, [standing |-> "on"]) \in AdminDoc
    BY <2>3 DEF Merge, AdminDoc
  <2>5. Merge(a, [standing |-> "off", access |-> "suspended"]) \in AdminDoc
    BY <2>3 DEF Merge, AdminDoc, AccessStatus
  <2>6. MayWrite(r.op, a) /\ Schema(a) = AdminDoc
    BY <2>1, Writers, Schemas
  <2>7. /\ Fine(r.op, Save(a, [standing |-> "on"]))
        /\ Fine(r.op, Save(a, [standing |-> "off", access |-> "suspended"]))
    BY <2>3, <2>4, <2>5, <2>6, FineSave
  <2> QED  BY <2>1, <2>2, <2>7, FineNothing DEF OpensFine, Erasing
<1>15. CASE UpdateAdminAccess(c, r)
  <2>0. PICK a : a \in Admin /\ Open(c, Save(a, [access |-> r.status]))
    BY <1>15 DEF UpdateAdminAccess
  <2> DEFINE new == [access |-> r.status]
  <2>1. Open(c, Save(a, new)) /\ r.op \in {"admin access"}
    BY <1>15, <2>0 DEF UpdateAdminAccess
  <2>2. a \in Admin /\ doc[a] \in AdminDoc
    BY <2>0, <2>1, Typed DEF RequestFits
  <2>3. Merge(a, new) \in AdminDoc
    BY <1>15, <2>0, <2>1, <2>2 DEF UpdateAdminAccess, RequestFits, Merge, AdminDoc
  <2>4. r.op \notin Erasing
    BY <2>1 DEF Erasing
  <2> HIDE DEF new
  <2>5. MayWrite(r.op, a)
    BY <2>1, <2>2, Writers
  <2>6. Merge(a, new) \in Schema(a)
    BY <2>2, <2>3, Schemas
  <2>7. Whole(a)
    BY <2>2, Wholeness DEF Names, Singles
  <2>8. Fine(r.op, Save(a, new))
    BY <2>5, <2>6, <2>7, FineSave
  <2> QED  BY <2>1, <2>4, <2>8 DEF OpensFine
<1> QED
    BY <1>1, <1>2, <1>3, <1>4, <1>5, <1>6, <1>7, <1>8, <1>9,
       <1>10, <1>11, <1>12, <1>13, <1>14, <1>15 DEF PersonnelOperation

-----------------------------------------------------------------------------
(* Requests and leases *)

Op(c) == job[c][1].op

\* Request c has its writes and nobody has come between.
Sure(c) == pc[c] = "open" /\ ~stale[c]

\* It knows its leases, and has them.
Leased(c) == Valid(c) /\ Affected(job[c][1]) \subseteq keys[c]

\* Every request is one of those it may be.
Shape ==
    /\ lease \in [Key -> SUBSET Client]
    /\ keys \in [Client -> SUBSET Key]
    /\ stale \in [Client -> BOOLEAN]
    /\ pc \in [Client -> {"idle", "asked", "ready", "open", "cascading"}]
    /\ DOMAIN job = Client /\ DOMAIN writes = Client
    /\ \A c \in Client : \A r \in asks[c] : RequestFits(r)
    /\ \A c \in Client : pc[c] # "idle" => \E r \in asks[c] : job[c] = <<r>>

\* Whoever holds a lease needs it, and shares it only with readers.
Leases ==
    \A k \in Key : \A c \in lease[k] :
        /\ k \in keys[c]
        /\ pc[c] \notin {"idle", "asked"}
        /\ \A o \in lease[k] : o = c \/ Compatible(c, o, k)

\* Request o goes on as it was, perhaps no longer sure of its writes, or is not about
\* to write.
Kept(o) ==
    /\ pc'[o] \in {"open", "cascading"} =>
         pc[o] = pc'[o] /\ job'[o] = job[o] /\ keys'[o] = keys[o] /\ writes'[o] = writes[o]
    /\ Sure(o)' => Sure(o) /\ (Valid(o)' => Valid(o))

\* A step that changes no document and finds no writes.
Quiet ==
    /\ doc' = doc /\ mishap \subseteq mishap'
    /\ \A o \in Client : Kept(o)

\* Request c finds what it will write.
Opening(c) ==
    /\ pc[c] = "ready" /\ RequestFits(job[c][1]) /\ Operation(c, job[c][1])
    /\ UNCHANGED <<doc, job, keys, lease, stale, mishap>>
    /\ \A o \in Client \ {c} : Kept(o)

\* Request c writes the documents ds, and whoever is sure afterwards writes no other
\* documents, or bulk beside them.
Apart(c, ds, bulk) ==
    /\ pc'[c] # "open"
    /\ \A o \in Client \ {c} :
         /\ Kept(o)
         /\ Sure(o)' => \A d \in DOMAIN writes[o] \cap ds : Op(o) \in Plain /\ d \in bulk

Committing(c) == Commit(c) /\ Apart(c, DOMAIN writes[c], Bulk(job[c][1]))

Withdrawable == {o \in Offer : doc[o] # NoOffer}

Cascading(c) == Cascade(c) /\ Apart(c, Withdrawable, Withdrawable)

LEMMA Conflicting ==
    ASSUME Shape, NEW c \in Client, NEW ds, NEW bulk,
           stale' = Conflicts(c, ds, bulk),
           \A o \in Client \ {c} : /\ pc'[o] = pc[o] /\ job'[o] = job[o] /\ keys'[o] = keys[o]
                                   /\ writes'[o] = writes[o]
                                   /\ \A k \in Key : o \in lease'[k] => o \in lease[k],
           pc'[c] # "open"
    PROVE  Apart(c, ds, bulk)
<1> SUFFICES ASSUME NEW o \in Client \ {c}
             PROVE  /\ Kept(o)
                    /\ Sure(o)' => \A d \in DOMAIN writes[o] \cap ds : Op(o) \in Plain /\ d \in bulk
    BY DEF Apart
<1>1. Sure(o)' =>
        /\ Sure(o)
        /\ DOMAIN writes[o] \cap (IF job[o][1].op \in Plain THEN ds \ bulk ELSE ds) = {}
    BY DEF Sure, Conflicts
<1>2. Valid(o)' => Valid(o)
  <2>1. keys[o] \subseteq Key
    BY DEF Shape
  <2> QED  BY <2>1 DEF Valid
<1>3. Kept(o)
    BY <1>1, <1>2 DEF Kept
<1> QED  BY <1>1, <1>3 DEF Op

\* An operation ends in writes.
LEMMA OpensReady ==
    ASSUME NEW c \in Client, NEW r, Operation(c, r)
    PROVE  \E w : Open(c, w)
BY DEF Operation, PremisesOperation, CatalogOperation, PersonnelOperation,
       RosterOperation, ListBranches, ReadSettings, Bootstrap, UpdateSettings, CreateBranch,
       UpdateBranch, UpdateBranchInAnyMode, ArchiveBranch, CreateService, UpdateService,
       ArchiveService, CreateOffer, UpdateOffer, CreateHours, UpdateHours, ArchiveHours,
       CreateCategory, UpdateCategory, ArchiveCategory, Extend, CreateProduct, UpdateProduct,
       ArchiveProduct, CreatePackage, UpdatePackage, SwitchPackage, ArchivePackage,
       Hire, Update, Provision, Terminate, UpdateAccess, Assign, Unassign, CreateTerm,
       UpdateTerm, UpsertSkill, RemoveSkill, UpdateMyProfile, CreateAdmin, UpdateAdmin,
       UpdateAdminAccess, CreateShift, UpdateShift, ArchiveShift, CreateResource,
       UpdateResource, DeleteResource, TakeOff, Withdraw, DecideTimeOff

\* What the rest of the proof needs to know of a step.
LEMMA Steps ==
    ASSUME Shape, [Next]_vars
    PROVE  \/ Quiet
           \/ \E c \in Client : Opening(c) \/ Committing(c) \/ Cascading(c)
<1>1. CASE UNCHANGED vars
    BY <1>1 DEF vars, Quiet, Kept, Sure, Valid
<1>2. ASSUME NEW c \in Client, NEW r \in asks[c], Ask(c, r) PROVE Quiet
    BY <1>2 DEF Ask, Arrive, Shape, Quiet, Kept, Sure, Valid
<1>3. ASSUME NEW c \in Client, Lease(c) PROVE Quiet
    BY <1>3 DEF Lease, Shape, Quiet, Kept, Sure, Valid
<1>4. ASSUME NEW c \in Client, job[c] # <<>>, Operation(c, job[c][1]) PROVE Opening(c)
  <2>1. PICK w : Open(c, w)
    BY <1>4, OpensReady
  <2>2. /\ pc[c] = "ready" /\ UNCHANGED <<doc, job, keys, lease, stale, mishap>>
        /\ \A o \in Client \ {c} : pc'[o] = pc[o] /\ writes'[o] = writes[o]
    BY <2>1 DEF Open, Shape
  <2>3. RequestFits(job[c][1])
    BY <2>2 DEF Shape
  <2>4. ASSUME NEW o \in Client \ {c} PROVE Kept(o)
    BY <2>2 DEF Kept, Sure, Valid
  <2> QED  BY <1>4, <2>2, <2>3, <2>4 DEF Opening
<1>5. ASSUME NEW c \in Client, Commit(c) PROVE Committing(c)
  <2>1. /\ stale' = Conflicts(c, DOMAIN writes[c], Bulk(job[c][1]))
        /\ Over(c) \/ (\E w : Continue(c, "cascading", w)) \/ (\E w : Continue(c, "ready", w))
    BY <1>5 DEF Commit
  <2>2. /\ pc'[c] # "open"
        /\ \A o \in Client \ {c} : /\ pc'[o] = pc[o] /\ job'[o] = job[o] /\ keys'[o] = keys[o]
                                   /\ writes'[o] = writes[o]
                                   /\ \A k \in Key : o \in lease'[k] => o \in lease[k]
    BY <2>1 DEF Over, Continue, Shape
  <2> QED  BY <1>5, <2>1, <2>2, Conflicting DEF Committing
<1>6. ASSUME NEW c \in Client, Cascade(c) PROVE Cascading(c)
  <2>1. stale' = Conflicts(c, Withdrawable, Withdrawable) /\ Over(c)
    BY <1>6 DEF Cascade, Withdrawable
  <2>2. /\ pc'[c] # "open"
        /\ \A o \in Client \ {c} : /\ pc'[o] = pc[o] /\ job'[o] = job[o] /\ keys'[o] = keys[o]
                                   /\ writes'[o] = writes[o]
                                   /\ \A k \in Key : o \in lease'[k] => o \in lease[k]
    BY <2>1 DEF Over, Shape
  <2> QED  BY <1>6, <2>1, <2>2, Conflicting DEF Cascading
<1>7. ASSUME NEW c \in Client, Retry(c) PROVE Quiet
    BY <1>7 DEF Retry, Shape, Quiet, Kept, Sure, Valid
<1>8. ASSUME NEW c \in Client, Fail(c) PROVE Quiet
  <2>1. doc' = doc /\ mishap \subseteq mishap' /\ Over(c) /\ stale' = [stale EXCEPT ![c] = FALSE]
    BY <1>8 DEF Fail
  <2> QED  BY <2>1 DEF Over, Shape, Quiet, Kept, Sure, Valid
<1>9. ASSUME NEW k \in Key, Lapse(k) PROVE Quiet
    BY <1>9 DEF Lapse, requests, Shape, Quiet, Kept, Sure, Valid
<1> QED  BY <1>1, <1>2, <1>3, <1>4, <1>5, <1>6, <1>7, <1>8, <1>9 DEF Next


\* The leases each request needs.
LEMMA LeasesNeeded ==
    ASSUME NEW r
    PROVE  /\ r.op \in {"settings", "update service"} => Affected(r) = Branches
           /\ r.op = "create branch" => Affected(r) = Branches \cup {r.branch}
           /\ r.op = "update branch" =>
                Affected(r) = IF r.active # "keep" \/ r.bookings # "keep" THEN {r.branch} ELSE {}
           /\ r.op \in {"archive branch", "create offer", "create hours"} =>
                Affected(r) = {r.branch}
           /\ r.op = "update offer" => Affected(r) = doc[r.offer].at \cup r.branches
           /\ r.op \in {"update hours", "archive hours"} => Affected(r) = doc[r.version].at
           /\ r.op \in {"hire", "employ", "assign", "unassign"} => Affected(r) = r.branches
           /\ r.op = "update" =>
                Affected(r) = IF ~r.everywhere THEN employee.branches \cup r.branches
                              ELSE IF r.status # "keep" THEN employee.branches ELSE {}
           /\ r.op \in {"activate", "terminate", "learn", "unlearn"} =>
                Affected(r) = employee.branches
           /\ r.op \in {"create shift", "create resource", "update resource", "delete resource"} =>
                Affected(r) = {r.branch}
           /\ r.op \in {"update shift", "archive shift"} => Affected(r) = doc[r.shift].at
           /\ r.op = "take off" =>
                Affected(r) = {"time off"} \cup IF r.everywhere THEN Branches ELSE r.branches
           /\ r.op \in {"withdraw", "approve", "reject", "call off"} =>
                Affected(r) = {"time off"} \cup IF doc[r.leave].everywhere THEN Branches
                                                ELSE doc[r.leave].branches
<1>1. /\ r.op \in {"settings", "update service"} => Affected(r) = Branches
      /\ r.op = "create branch" => Affected(r) = Branches \cup {r.branch}
      /\ r.op = "update branch" =>
           Affected(r) = IF r.active # "keep" \/ r.bookings # "keep" THEN {r.branch} ELSE {}
      /\ r.op \in {"archive branch", "create offer", "create hours"} =>
           Affected(r) = {r.branch}
      /\ r.op = "update offer" => Affected(r) = doc[r.offer].at \cup r.branches
      /\ r.op \in {"update hours", "archive hours"} => Affected(r) = doc[r.version].at
  <2>1. r.op \in BranchOps \cup {"update service", "create offer", "update offer", "create hours",
                                 "update hours", "archive hours"} =>
          Affected(r) = PremisesAffected(r)
    BY DEF Affected, PersonnelOps, RosterOps, CatalogOps, CategoryOps, ItemOps, Sharing, Careless,
           BranchOps
  <2> QED  BY <2>1 DEF PremisesAffected, BranchOps
<1>2. /\ r.op \in {"hire", "employ", "assign", "unassign"} => Affected(r) = r.branches
      /\ r.op = "update" =>
           Affected(r) = IF ~r.everywhere THEN employee.branches \cup r.branches
                         ELSE IF r.status # "keep" THEN employee.branches ELSE {}
      /\ r.op \in {"activate", "terminate", "learn", "unlearn"} => Affected(r) = employee.branches
  <2>1. r.op \in {"hire", "employ", "assign", "unassign", "update", "activate", "terminate",
                  "learn", "unlearn"} =>
          Affected(r) = PersonnelAffected(r)
    BY DEF Affected, PersonnelOps, RosterOps, CatalogOps, CategoryOps, ItemOps, Sharing, Careless
  <2> QED  BY <2>1 DEF PersonnelAffected
<1>3. /\ r.op \in {"create shift", "create resource", "update resource", "delete resource"} =>
           Affected(r) = {r.branch}
      /\ r.op \in {"update shift", "archive shift"} => Affected(r) = doc[r.shift].at
      /\ r.op = "take off" =>
           Affected(r) = {"time off"} \cup IF r.everywhere THEN Branches ELSE r.branches
      /\ r.op \in {"withdraw", "approve", "reject", "call off"} =>
           Affected(r) = {"time off"} \cup IF doc[r.leave].everywhere THEN Branches
                                           ELSE doc[r.leave].branches
  <2>1. r.op \in RosterOps => Affected(r) = RosterAffected(r)
    BY DEF Affected, PersonnelOps, RosterOps, CatalogOps, CategoryOps, ItemOps, Sharing, Careless
  <2> QED  BY <2>1 DEF RosterAffected, RosterOps, Sharing, Careless
<1> QED  BY <1>1, <1>2, <1>3

LEMMA LeasesAreKeys ==
    ASSUME Documents, NEW r, RequestFits(r)
    PROVE  Affected(r) \subseteq Key
<1>1. Branches \subseteq Branch /\ employee.branches \subseteq Branch
  <2>1. employee \in EmployeeDoc
    BY Typed DEF employee
  <2> QED  BY <2>1 DEF Branches, EmployeeDoc, NoEmployee
<1>2. /\ \A o \in Offer : doc[o].at \subseteq Branch
      /\ \A v \in Hours \cup Shift : doc[v].at \subseteq Branch
      /\ \A v \in Leave : doc[v].branches \subseteq Branch
  <2>1. /\ \A o \in Offer : doc[o] \in OfferDoc
        /\ \A v \in Hours \cup Shift : doc[v] \in VersionDoc
        /\ \A v \in Leave : doc[v] \in LeaveDoc
    BY Typed
  <2> QED  BY <2>1 DEF OfferDoc, NoOffer, VersionDoc, NoVersion, LeaveDoc, NoLeave, One
<1>3. CASE r.op \in PersonnelOps
  <2>1. PersonnelAffected(r) \subseteq Branch
    <3>1. r.op \in {"hire", "employ", "update"} => r.branches \subseteq Branch
        BY DEF RequestFits
    <3>2. r.op \in {"assign", "unassign"} => r.branches \subseteq Branch
        BY DEF RequestFits, One
    <3>3. PersonnelAffected(r) \in {r.branches, employee.branches \cup r.branches,
                                    employee.branches, {}}
        BY DEF PersonnelAffected
    <3>4. r.op \notin {"hire", "employ", "assign", "unassign", "update"} =>
            PersonnelAffected(r) \in {employee.branches, {}}
        BY DEF PersonnelAffected
    <3>5. CASE r.op \in {"hire", "employ", "assign", "unassign", "update"}
      <4>1. r.branches \subseteq Branch
        BY <3>1, <3>2, <3>5
      <4> QED  BY <1>1, <3>3, <4>1
    <3>6. CASE r.op \notin {"hire", "employ", "assign", "unassign", "update"}
        BY <1>1, <3>4, <3>6
    <3> QED  BY <3>5, <3>6
  <2>2. r.op \notin RosterOps \cup CatalogOps
    BY <1>3 DEF PersonnelOps, RosterOps, Sharing, Careless, CatalogOps, CategoryOps, ItemOps
  <2> QED  BY <1>3, <2>1, <2>2 DEF Affected, Key
<1>4. CASE r.op \in RosterOps
  <2>1. RosterAffected(r) \subseteq Key
    <3>1. CASE r.op \in {"create shift", "create resource", "update resource", "delete resource"}
        BY <3>1 DEF RosterAffected, RequestFits, Key
    <3>2. CASE r.op \in {"update shift", "archive shift"}
        BY <1>2, <3>2 DEF RosterAffected, RequestFits, Key
    <3>3. CASE r.op = "take off"
        BY <1>1, <3>3 DEF RosterAffected, RequestFits, Key
    <3>4. CASE r.op \in {"withdraw", "approve", "reject", "call off"}
        BY <1>1, <1>2, <3>4 DEF RosterAffected, RequestFits, Key
    <3> QED  BY <1>4, <3>1, <3>2, <3>3, <3>4 DEF RosterOps, Sharing, Careless
  <2>2. r.op \notin PersonnelOps \cup CatalogOps
    BY <1>4 DEF PersonnelOps, RosterOps, Sharing, Careless, CatalogOps, CategoryOps, ItemOps
  <2> QED  BY <1>4, <2>1, <2>2 DEF Affected
<1>5. CASE r.op \in CatalogOps
  <2>1. r.op \notin PersonnelOps \cup RosterOps
    BY <1>5 DEF PersonnelOps, RosterOps, Sharing, Careless, CatalogOps, CategoryOps, ItemOps
  <2> QED  BY <1>5, <2>1 DEF Affected
<1>6. CASE r.op \notin PersonnelOps \cup RosterOps \cup CatalogOps
  <2>1. PremisesAffected(r) \subseteq Branch
    <3>1. CASE r.op \in {"settings", "update service"}
        BY <1>1, <3>1 DEF PremisesAffected
    <3>2. CASE r.op = "create branch"
        BY <1>1, <3>2 DEF PremisesAffected, RequestFits
    <3>3. CASE r.op = "update branch"
        BY <3>3 DEF PremisesAffected, RequestFits
    <3>4. CASE r.op \in {"archive branch", "create offer", "create hours"}
        BY <3>4 DEF PremisesAffected, RequestFits
    <3>5. CASE r.op = "update offer"
        BY <1>2, <3>5 DEF PremisesAffected, RequestFits, One
    <3>6. CASE r.op \in {"update hours", "archive hours"}
        BY <1>2, <3>6 DEF PremisesAffected, RequestFits
    <3>7. CASE r.op \notin {"settings", "update service", "create branch", "update branch",
                            "archive branch", "create offer", "create hours", "update offer",
                            "update hours", "archive hours"}
        BY <3>7 DEF PremisesAffected
    <3> QED  BY <3>1, <3>2, <3>3, <3>4, <3>5, <3>6, <3>7
  <2> QED  BY <1>6, <2>1 DEF Affected, Key
<1> QED  BY <1>3, <1>4, <1>5, <1>6

LEMMA ShapeAtFirst == ASSUME Init PROVE Shape /\ Leases /\ Documents
<1>1. PICK g \in Agendas : asks = g.asks /\ doc = g.doc
    BY DEF Init
<1>2. Shape /\ Leases
  <2>1. \A c \in Client : \A r \in asks[c] : RequestFits(r)
    BY <1>1, AgendaAssumption
  <2> QED  BY <2>1 DEF Init, InitRequests, Shape, Leases
<1>3. Documents
    BY <1>1, AgendaAssumption DEF Documents, InOrder
<1> QED  BY <1>2, <1>3

LEMMA ShapeKept ==
    ASSUME Shape, Leases, Documents, [Next]_vars
    PROVE  Shape' /\ Leases'
<1>1. CASE UNCHANGED vars
    BY <1>1 DEF vars, Shape, Leases, Compatible
<1>2. ASSUME NEW c \in Client, NEW r \in asks[c], Ask(c, r) PROVE Shape' /\ Leases'
  <2>1. Affected(r) \subseteq Key
    BY LeasesAreKeys DEF Shape
  <2>2. /\ pc[c] = "idle" /\ UNCHANGED <<asks, lease, writes, stale>>
        /\ pc' = [pc EXCEPT ![c] = IF Affected(r) = {} THEN "ready" ELSE "asked"]
        /\ job' = [job EXCEPT ![c] = <<r>>]
        /\ keys' = [keys EXCEPT ![c] = Affected(r)]
    BY <1>2 DEF Ask, Arrive
  <2> HIDE DEF Affected
  <2>3. Shape'
    BY <2>1, <2>2 DEF Shape
  <2>4. Leases'
    BY <2>2 DEF Shape, Leases, Compatible
  <2> QED  BY <2>3, <2>4
<1>3. ASSUME NEW c \in Client, Lease(c) PROVE Shape' /\ Leases'
  <2>1. Shape'
    BY <1>3 DEF Lease, Shape
  <2>2. Leases'
    BY <1>3 DEF Lease, Shape, Leases, Compatible
  <2> QED  BY <2>1, <2>2
<1>4. ASSUME NEW c \in Client, job[c] # <<>>, Operation(c, job[c][1]) PROVE Shape' /\ Leases'
  <2>1. PICK w : Open(c, w)
    BY <1>4, OpensReady
  <2> QED  BY <2>1 DEF Open, Shape, Leases, Compatible
<1>5. ASSUME NEW c \in Client, UNCHANGED asks, stale' \in [Client -> BOOLEAN],
             \/ Over(c)
             \/ pc[c] = "open" /\ \E w : Continue(c, "cascading", w) \/ Continue(c, "ready", w)
      PROVE  Shape' /\ Leases'
  <2>1. CASE Over(c)
    <3>1. Shape'
        BY <1>5, <2>1 DEF Over, Shape
    <3>2. Leases'
        BY <2>1 DEF Over, Shape, Leases, Compatible
    <3> QED  BY <3>1, <3>2
  <2>2. ASSUME pc[c] = "open", NEW w, Continue(c, "cascading", w) \/ Continue(c, "ready", w)
        PROVE  Shape' /\ Leases'
    BY <1>5, <2>2 DEF Continue, Shape, Leases, Compatible
  <2> QED  BY <1>5, <2>1, <2>2
<1>6. ASSUME NEW c \in Client, Commit(c) PROVE Shape' /\ Leases'
  <2>1. stale' \in [Client -> BOOLEAN]
    BY <1>6 DEF Commit, Conflicts, Shape
  <2>2. /\ UNCHANGED asks /\ pc[c] = "open"
        /\ Over(c) \/ \E w : Continue(c, "cascading", w) \/ Continue(c, "ready", w)
    BY <1>6 DEF Commit
  <2> QED  BY <1>5, <2>1, <2>2
<1>7. ASSUME NEW c \in Client, Cascade(c) PROVE Shape' /\ Leases'
  <2>1. stale' \in [Client -> BOOLEAN]
    BY <1>7 DEF Cascade, Conflicts, Shape
  <2>2. UNCHANGED asks /\ Over(c)
    BY <1>7 DEF Cascade
  <2> QED  BY <1>5, <2>1, <2>2
<1>8. ASSUME NEW c \in Client, Retry(c) PROVE Shape' /\ Leases'
    BY <1>8 DEF Retry, Shape, Leases, Compatible
<1>9. ASSUME NEW c \in Client, Fail(c) PROVE Shape' /\ Leases'
  <2>1. UNCHANGED asks /\ Over(c) /\ stale' \in [Client -> BOOLEAN]
    BY <1>9 DEF Fail, Shape
  <2> QED  BY <1>5, <2>1
<1>10. ASSUME NEW k \in Key, Lapse(k) PROVE Shape' /\ Leases'
    BY <1>10 DEF Lapse, requests, Shape, Leases, Compatible
<1> QED  BY <1>1, <1>2, <1>3, <1>4, <1>6, <1>7, <1>8, <1>9, <1>10 DEF Next


\* Which operation it is, the request says.
LEMMA Acts ==
    ASSUME NEW c, NEW r, Operation(c, r)
    PROVE  /\ r.op = "list branches" => ListBranches(c, r)
           /\ r.op = "read settings" => ReadSettings(c, r)
           /\ r.op = "bootstrap" => Bootstrap(c, r)
           /\ r.op = "settings" => UpdateSettings(c, r)
           /\ r.op = "create branch" => CreateBranch(c, r)
           /\ r.op = "update branch" => UpdateBranch(c, r)
           /\ r.op = "archive branch" => ArchiveBranch(c, r)
           /\ r.op = "create service" => CreateService(c, r)
           /\ r.op = "update service" => UpdateService(c, r)
           /\ r.op = "archive service" => ArchiveService(c, r)
           /\ r.op = "create offer" => CreateOffer(c, r)
           /\ r.op = "update offer" => UpdateOffer(c, r)
           /\ r.op = "create hours" => CreateHours(c, r)
           /\ r.op = "update hours" => UpdateHours(c, r)
           /\ r.op = "archive hours" => ArchiveHours(c, r)
           /\ r.op \in {"hire", "employ"} => Hire(c, r)
           /\ r.op = "update" => Update(c, r)
           /\ r.op \in {"provision", "activate"} => Provision(c, r)
           /\ r.op = "terminate" => Terminate(c, r)
           /\ r.op = "access" => UpdateAccess(c, r)
           /\ r.op = "assign" => Assign(c, r)
           /\ r.op = "unassign" => Unassign(c, r)
           /\ r.op = "create term" => CreateTerm(c, r)
           /\ r.op = "update term" => UpdateTerm(c, r)
           /\ r.op = "learn" => UpsertSkill(c, r)
           /\ r.op = "unlearn" => RemoveSkill(c, r)
           /\ r.op = "profile" => UpdateMyProfile(c, r)
           /\ r.op = "create admin" => CreateAdmin(c, r)
           /\ r.op \in {"enable", "disable"} => UpdateAdmin(c, r)
           /\ r.op = "admin access" => UpdateAdminAccess(c, r)
           /\ r.op = "create shift" => CreateShift(c, r)
           /\ r.op = "update shift" => UpdateShift(c, r)
           /\ r.op = "archive shift" => ArchiveShift(c, r)
           /\ r.op = "create resource" => CreateResource(c, r)
           /\ r.op = "update resource" => UpdateResource(c, r)
           /\ r.op = "delete resource" => DeleteResource(c, r)
           /\ r.op = "take off" => TakeOff(c, r)
           /\ r.op = "withdraw" => Withdraw(c, r)
           /\ r.op \in {"approve", "reject", "call off"} => DecideTimeOff(c, r)
           /\ r.op \in CatalogOps => CatalogOperation(c, r)
<1>1. CASE PremisesOperation(c, r)
  <2>1. /\ ListBranches(c, r) => r.op = "list branches"
        /\ ReadSettings(c, r) => r.op = "read settings"
        /\ Bootstrap(c, r) => r.op = "bootstrap"
        /\ UpdateSettings(c, r) => r.op = "settings"
        /\ CreateBranch(c, r) => r.op = "create branch"
        /\ UpdateBranch(c, r) => r.op = "update branch"
        /\ ArchiveBranch(c, r) => r.op = "archive branch"
        /\ CreateService(c, r) => r.op = "create service"
        /\ UpdateService(c, r) => r.op = "update service"
        /\ ArchiveService(c, r) => r.op = "archive service"
        /\ CreateOffer(c, r) => r.op = "create offer"
        /\ UpdateOffer(c, r) => r.op = "update offer"
        /\ CreateHours(c, r) => r.op = "create hours"
        /\ UpdateHours(c, r) => r.op = "update hours"
        /\ ArchiveHours(c, r) => r.op = "archive hours"
    BY DEF ListBranches, ReadSettings, Bootstrap, UpdateSettings, CreateBranch, UpdateBranch,
       ArchiveBranch, CreateService, UpdateService, ArchiveService, CreateOffer,
       UpdateOffer, CreateHours, UpdateHours, ArchiveHours, UpdateBranchInAnyMode
  <2> QED  BY <1>1, <2>1 DEF PremisesOperation, CatalogOps, CategoryOps, ItemOps
<1>2. CASE PersonnelOperation(c, r)
  <2>1. /\ Hire(c, r) => r.op \in {"hire", "employ"}
        /\ Update(c, r) => r.op = "update"
        /\ Provision(c, r) => r.op \in {"provision", "activate"}
        /\ Terminate(c, r) => r.op = "terminate"
        /\ UpdateAccess(c, r) => r.op = "access"
        /\ Assign(c, r) => r.op = "assign"
        /\ Unassign(c, r) => r.op = "unassign"
        /\ CreateTerm(c, r) => r.op = "create term"
        /\ UpdateTerm(c, r) => r.op = "update term"
        /\ UpsertSkill(c, r) => r.op = "learn"
        /\ RemoveSkill(c, r) => r.op = "unlearn"
        /\ UpdateMyProfile(c, r) => r.op = "profile"
        /\ CreateAdmin(c, r) => r.op = "create admin"
        /\ UpdateAdmin(c, r) => r.op \in {"enable", "disable"}
        /\ UpdateAdminAccess(c, r) => r.op = "admin access"
    BY DEF Hire, Update, Provision, Terminate, UpdateAccess, Assign, Unassign, CreateTerm,
       UpdateTerm, UpsertSkill, RemoveSkill, UpdateMyProfile, CreateAdmin, UpdateAdmin,
       UpdateAdminAccess
  <2> QED  BY <1>2, <2>1 DEF PersonnelOperation, CatalogOps, CategoryOps, ItemOps
<1>3. CASE RosterOperation(c, r)
  <2>1. /\ CreateShift(c, r) => r.op = "create shift"
        /\ UpdateShift(c, r) => r.op = "update shift"
        /\ ArchiveShift(c, r) => r.op = "archive shift"
        /\ CreateResource(c, r) => r.op = "create resource"
        /\ UpdateResource(c, r) => r.op = "update resource"
        /\ DeleteResource(c, r) => r.op = "delete resource"
        /\ TakeOff(c, r) => r.op = "take off"
        /\ Withdraw(c, r) => r.op = "withdraw"
        /\ DecideTimeOff(c, r) => r.op \in {"approve", "reject", "call off"}
    BY DEF CreateShift, UpdateShift, ArchiveShift, CreateResource, UpdateResource,
       DeleteResource, TakeOff, Withdraw, DecideTimeOff, Decision
  <2> QED  BY <1>3, <2>1 DEF RosterOperation, CatalogOps, CategoryOps, ItemOps
<1>4. CASE CatalogOperation(c, r)
  <2>1. Extend(c, r) => r.op \in CatalogOps
    <3>1. SUFFICES ASSUME NEW d \in DOMAIN Saving, r.op \in Saving[d]
                 PROVE  r.op \in CatalogOps
        BY DEF Extend
    <3>2. /\ DOMAIN Saving = {"product", "package"}
          /\ Saving["product"] = {"create product", "update product"}
          /\ Saving["package"] = {"create package", "update package"}
        BY DEF Saving
    <3> HIDE DEF Saving
    <3> QED  BY <3>1, <3>2 DEF CatalogOps, ItemOps
  <2>2. ~Extend(c, r) => r.op \in CatalogOps
    BY <1>4 DEF CatalogOperation, CreateCategory, UpdateCategory, ArchiveCategory, CreateProduct, UpdateProduct,
       ArchiveProduct, CreatePackage, UpdatePackage, SwitchPackage, ArchivePackage,
       CatalogOps, CategoryOps, ItemOps
  <2> QED  BY <1>4, <2>1, <2>2 DEF CatalogOps, CategoryOps, ItemOps
<1> QED  BY <1>1, <1>2, <1>3, <1>4 DEF Operation


LEMMA OperationFine ==
    ASSUME Documents, NEW c \in Client, NEW r, RequestFits(r), Operation(c, r)
    PROVE  OpensFine(c, r)
BY PremisesFine, CatalogFine, PersonnelFine, RosterFine DEF Operation

LEMMA Opened ==
    ASSUME Shape, NEW c \in Client, NEW w, Open(c, w)
    PROVE  /\ pc'[c] = "open" /\ job' = job /\ keys' = keys /\ stale' = stale /\ doc' = doc
           /\ writes'[c] = w /\ \A d : Would(c, d)' = Then(w, d)
BY DEF Open, Shape, Would, Then, Merge

-----------------------------------------------------------------------------
(* What is to be written, and what it makes of the documents *)

Withdrawals == {[status |-> "inactive", online |-> FALSE], [online |-> FALSE]}
WrittenOff  == [status |-> "inactive", online |-> FALSE]

\* Offers are never unmade.
Drafts ==
    \A c \in Client :
        /\ pc[c] = "open" =>
             /\ \A d \in DOMAIN writes[c] : MayWrite(Op(c), d)
             /\ Op(c) \in Erasing => Gone(writes[c])
             /\ Op(c) = "archive branch" =>
                  \A o \in Offer \cap DOMAIN writes[c] : writes[c][o] = WrittenOff
        /\ Sure(c) =>
             /\ \A d \in DOMAIN writes[c] : Would(c, d) \in Schema(d)
             /\ \A o \in Offer \cap DOMAIN writes[c] :
                  /\ Would(c, o) # NoOffer
                  /\ Op(c) = "archive branch" => doc[o].at = {job[c][1].branch}
        /\ pc[c] = "cascading" => \E v \in Withdrawals : writes[c] = Put("service", v)

\* What is deleted is as it may be, whatever it was.
LEMMA GoneFine ==
    ASSUME Documents, NEW op \in Erasing, NEW w, Gone(w), NEW d \in DOMAIN w, MayWrite(op, d)
    PROVE  Merge(d, w[d]) \in Schema(d)
<1>1. d \in {"service", "product", "package"} \cup Category
    BY DEF MayWrite, Names, Singles, Erasing, CatalogOps, Sharing
<1>2. CASE d \in Category
  <2>1. doc[d] \in CategoryDoc /\ w[d] = [status |-> "gone", parent |-> {}]
    BY <1>2, Typed DEF Gone
  <2>2. Merge(d, [status |-> "gone", parent |-> {}]) \in CategoryDoc
    BY <2>1 DEF Merge, CategoryDoc
  <2> QED  BY <1>2, <2>1, <2>2, Schemas
<1>3. CASE d \in {"service", "product", "package"}
  <2>1. d \notin Category
    BY <1>3, NamesAssumption DEF Singles
  <2>2. w[d] = [status |-> "gone"]
    BY <2>1 DEF Gone
  <2>3. CASE d = "service"
    <3>1. doc["service"] \in ServiceDoc
        BY Typed
    <3>2. Merge("service", [status |-> "gone"]) \in ServiceDoc
        BY <3>1 DEF Merge, ServiceDoc
    <3> QED  BY <2>2, <2>3, <3>2, Schemas
  <2>4. CASE d = "product"
    <3>1. doc["product"] \in ProductDoc
        BY Typed
    <3>2. Merge("product", [status |-> "gone"]) \in ProductDoc
        BY <3>1 DEF Merge, ProductDoc
    <3> QED  BY <2>2, <2>4, <3>2, Schemas
  <2>5. CASE d = "package"
    <3>1. doc["package"] \in PackageDoc
        BY Typed
    <3>2. Merge("package", [status |-> "gone"]) \in PackageDoc
        BY <3>1 DEF Merge, PackageDoc
    <3> QED  BY <2>2, <2>5, <3>2, Schemas
  <2> QED  BY <1>3, <2>3, <2>4, <2>5
<1> QED  BY <1>1, <1>2, <1>3

\* What a request leaves behind.
LEMMA Committed ==
    ASSUME Documents, NEW c \in Client, Commit(c)
    PROVE  /\ DOMAIN doc' = Names /\ \A d \in Names : doc'[d] = Would(c, d)
           /\ pc[c] = "open"
           /\ Op(c) \notin Erasing => Sure(c)
           /\ Op(c) \notin Careless => Valid(c)
           /\ mishap \subseteq mishap'
           /\ "blind" \notin mishap' => Affected(job[c][1]) \subseteq keys[c]
           /\ "late" \notin mishap' => Valid(c)
<1>1. /\ pc[c] = "open" /\ doc' = After(writes[c])
      /\ ~stale[c] \/ Op(c) \in Erasing
      /\ Valid(c) \/ Op(c) \in Careless
      /\ mishap' = mishap \cup Mishaps(c)
    BY DEF Commit, Op
<1>2. DOMAIN doc' = Names /\ \A d \in Names : doc'[d] = Would(c, d)
    BY <1>1 DEF After, Would, Then, Merge, Documents
<1>3. /\ ~(Affected(job[c][1]) \subseteq keys[c]) => "blind" \in Mishaps(c)
      /\ ~Valid(c) => "late" \in Mishaps(c)
    BY DEF Mishaps
<1> QED  BY <1>1, <1>2, <1>3 DEF Sure

LEMMA Cascaded ==
    ASSUME Shape, Documents, Drafts, NEW c \in Client, Cascade(c)
    PROVE  /\ DOMAIN doc' = Names
           /\ \A d \in Names \ Withdrawable : doc'[d] = doc[d]
           /\ \E v \in Withdrawals : /\ writes[c] = Put("service", v)
                                     /\ \A o \in Withdrawable : doc'[o] = Merge(o, v)
           /\ mishap \subseteq mishap' /\ pc'[c] = "idle"
           /\ "unguarded" \notin mishap' => Valid(c) /\ Branches \subseteq keys[c]
<1>1. PICK v \in Withdrawals : writes[c] = Put("service", v)
    BY DEF Cascade, Drafts
<1>2. writes[c]["service"] = v
    BY <1>1 DEF Put
<1>3. doc' = After([o \in Withdrawable |-> v])
    BY <1>2 DEF Cascade, Withdrawable
<1>4. /\ DOMAIN doc' = Names
      /\ \A d \in Names \ Withdrawable : doc'[d] = doc[d]
      /\ \A o \in Withdrawable : doc'[o] = Merge(o, v)
    BY <1>3 DEF After, Merge, Documents, Withdrawable, Names
<1>5. /\ mishap \subseteq mishap'
      /\ "unguarded" \notin mishap' => Valid(c) /\ Branches \subseteq keys[c]
    BY DEF Cascade
<1>6. pc'[c] = "idle"
    BY DEF Cascade, Over, Shape
<1> QED  BY <1>1, <1>4, <1>5, <1>6


\* An offer that is to be written is made, changed, or of a branch that is archived.
OfferDraft(r, w, o) ==
    \/ /\ r.op \in {"create offer", "update offer"} /\ o = r.offer
       /\ \E b \in Branch : \E active, online \in BOOLEAN :
            /\ Then(w, o) = [status |-> Status(active), at |-> {b}, online |-> online]
            /\ Offerable(b, active, online)
            /\ r.op = "create offer" => b = r.branch /\ doc[o] = NoOffer
            /\ r.op = "update offer" => b \in doc[o].at \cup r.branches
    \/ r.op = "archive branch" /\ w[o] = WrittenOff /\ doc[o].at = {r.branch}

LEMMA OfferDrafts ==
    ASSUME Shape, Documents, NEW c \in Client, NEW r, RequestFits(r), Operation(c, r),
           NEW w, Open(c, w), NEW o \in Offer \cap DOMAIN w, MayWrite(r.op, o)
    PROVE  OfferDraft(r, w, o)
<1>1. o \in Offer /\ doc[o] \in OfferDoc
    BY Typed
<1>2. writes'[c] = w
    BY Opened
<1>3. CASE r.op = "create offer"
  <2> DEFINE active == Given(r.active, TRUE)
             online == Given(r.online, TRUE)
             new    == [status |-> Status(active), at |-> {r.branch}, online |-> online]
  <2>1. Offerable(r.branch, active, online) /\ Open(c, Put(r.offer, new)) /\ doc[r.offer] = NoOffer
    BY <1>3, Acts DEF CreateOffer
  <2>2. w = Put(r.offer, new)
    BY <1>2, <2>1, Opened
  <2>3. r.branch \in Branch /\ active \in BOOLEAN /\ online \in BOOLEAN
    BY <1>3 DEF RequestFits, Given
  <2>4. Merge(o, new) = new
    BY <1>1, MergeAll DEF OfferDoc, NoOffer
  <2> HIDE DEF new
  <2>5. o = r.offer /\ Then(w, o) = new
    BY <2>2, <2>4 DEF Put, Then
  <2> QED  BY <1>3, <2>1, <2>3, <2>5 DEF OfferDraft, new
<1>4. CASE r.op = "update offer"
  <2> DEFINE active == Given(r.active, doc[r.offer].status = "active")
             online == Given(r.online, doc[r.offer].online)
  <2>1. PICK b \in (IF r.branches = {} THEN doc[r.offer].at ELSE r.branches) :
          /\ Offerable(b, active, online)
          /\ Open(c, Save(r.offer, [status |-> Status(active), at |-> {b}, online |-> online]))
    BY <1>4, Acts DEF UpdateOffer
  <2> DEFINE new == [status |-> Status(active), at |-> {b}, online |-> online]
  <2>2. r.offer \in Offer /\ r.branches \subseteq Branch
    BY <1>4 DEF RequestFits, One
  <2>3. doc[r.offer] \in OfferDoc /\ Whole(r.offer)
    BY <2>2, Typed, Wholeness DEF Names
  <2>4. b \in Branch /\ active \in BOOLEAN /\ online \in BOOLEAN
    BY <2>1, <2>2, <2>3 DEF OfferDoc, NoOffer, One, Given
  <2>5. Merge(r.offer, new) = new
    BY <2>3, MergeAll DEF OfferDoc, NoOffer
  <2>6. w = Save(r.offer, new)
    BY <1>2, <2>1, Opened
  <2> HIDE DEF new
  <2>7. o = r.offer /\ Then(w, o) = new
    BY <2>3, <2>5, <2>6, SaveWritten
  <2>8. b \in doc[o].at \cup r.branches
    BY <2>1, <2>7
  <2> QED  BY <1>4, <2>1, <2>4, <2>7, <2>8 DEF OfferDraft, new
<1>5. CASE r.op = "archive branch"
  <2> DEFINE new  == [doc[r.branch] EXCEPT !.status = "inactive", !.bookings = FALSE]
             rest == [p \in {x \in Offer : doc[x].at = {r.branch}} |->
                        [status |-> "inactive", online |-> FALSE]]
  <2>1. Open(c, Both(Save(r.branch, new), rest))
    BY <1>5, Acts DEF ArchiveBranch
  <2>2. w = Both(Save(r.branch, new), rest)
    BY <1>2, <2>1, Opened
  <2>3. r.branch \in Branch /\ r.branch \notin Offer
    BY <1>5, NamesAssumption DEF RequestFits
  <2>4. DOMAIN Save(r.branch, new) \subseteq {r.branch}
    BY <2>3, SaveWritten, Wholeness DEF Names
  <2> HIDE DEF new
  <2>5. o \notin DOMAIN Save(r.branch, new) /\ o \in DOMAIN rest /\ w[o] = rest[o]
    BY <2>2, <2>3, <2>4 DEF Both
  <2> QED  BY <1>5, <2>5 DEF OfferDraft, WrittenOff
<1>6. r.op \in {"create offer", "update offer", "archive branch"}
    BY DEF MayWrite
<1> QED  BY <1>3, <1>4, <1>5, <1>6

\* What becomes of an offer.
LEMMA OfferDraftFine ==
    ASSUME Documents, NEW r, NEW w, NEW o \in Offer \cap DOMAIN w, OfferDraft(r, w, o)
    PROVE  Then(w, o) # NoOffer
<1>1. CASE r.op \in {"create offer", "update offer"}
  <2>1. PICK b, active, online :
          Then(w, o) = [status |-> Status(active), at |-> {b}, online |-> online]
    BY <1>1 DEF OfferDraft
  <2>2. Then(w, o).at = {b} /\ NoOffer.at = {}
    BY <2>1 DEF NoOffer
  <2> QED  BY <2>2
<1>2. CASE r.op = "archive branch"
  <2>1. doc[o] \in OfferDoc /\ doc[o].at # {}
    BY <1>2, Typed DEF OfferDraft
  <2>2. Merge(o, WrittenOff).at = doc[o].at
    BY <2>1 DEF Merge, WrittenOff, OfferDoc, NoOffer
  <2>3. Then(w, o) = Merge(o, WrittenOff)
    BY <1>2 DEF OfferDraft, Then
  <2>4. NoOffer.at = {}
    BY DEF NoOffer
  <2> QED  BY <2>1, <2>2, <2>3, <2>4
<1> QED  BY <1>1, <1>2 DEF OfferDraft

\* Offers that are written off, whatever happens to them besides.
LEMMA WrittenOffFine ==
    ASSUME Documents, NEW o \in Offer, doc[o] # NoOffer, NEW v \in Withdrawals
    PROVE  /\ Merge(o, v) \in OfferDoc \ {NoOffer}
           /\ Merge(o, v).at = doc[o].at /\ ~Merge(o, v).online
           /\ Merge(o, v).status \in {doc[o].status, "inactive"}
<1>1. doc[o] \in [status : {"active", "inactive"}, at : One(Branch), online : BOOLEAN]
    BY Typed DEF OfferDoc
<1>2. CASE v = [status |-> "inactive", online |-> FALSE]
    BY <1>1, <1>2 DEF Merge, OfferDoc, NoOffer
<1>3. CASE v = [online |-> FALSE]
    BY <1>1, <1>3 DEF Merge, OfferDoc, NoOffer
<1> QED  BY <1>2, <1>3 DEF Withdrawals

\* A sure request's view of a document that somebody else writes.
Beside(o, d) ==
    \/ d \notin DOMAIN writes[o] /\ Would(o, d)' = doc'[d]
    \/ d \in DOMAIN writes[o] /\ doc'[d] = doc[d] /\ Would(o, d)' = Would(o, d)
    \/ /\ d \in Offer \cap DOMAIN writes[o] /\ doc[d] # NoOffer /\ Op(o) \in {"create offer", "update offer"}
       /\ \E v \in Withdrawals : doc'[d] = Merge(d, v)
       /\ Would(o, d)' \in OfferDoc \ {NoOffer}
       /\ Would(o, d)'.at = Would(o, d).at
       /\ Would(o, d)'.status \in {Would(o, d).status, "inactive"}
       /\ Would(o, d)'.online \in {Would(o, d).online, FALSE}

LEMMA BulkFine ==
    ASSUME Documents, NEW o \in Client, NEW d \in Offer \cap DOMAIN writes[o], doc[d] # NoOffer,
           Would(o, d) \in OfferDoc \ {NoOffer}, NEW v \in Withdrawals, doc'[d] = Merge(d, v),
           writes'[o] = writes[o]
    PROVE  /\ Would(o, d)' \in OfferDoc \ {NoOffer}
           /\ Would(o, d)'.at = Would(o, d).at
           /\ Would(o, d)'.status \in {Would(o, d).status, "inactive"}
           /\ Would(o, d)'.online \in {Would(o, d).online, FALSE}
<1> DEFINE T == [status : {"active", "inactive"}, at : One(Branch), online : BOOLEAN]
           new == writes[o][d]
<1>1. doc[d] \in T
    BY Typed DEF OfferDoc
<1>2. /\ doc'[d] \in T /\ doc'[d].at = doc[d].at /\ ~doc'[d].online
      /\ doc'[d].status \in {doc[d].status, "inactive"}
    BY <1>1, WrittenOffFine DEF OfferDoc
<1>3. /\ Would(o, d) \in T
      /\ Would(o, d) = [f \in DOMAIN doc[d] |-> IF f \in DOMAIN new THEN new[f] ELSE doc[d][f]]
    BY DEF Would, Then, Merge, OfferDoc
<1>4. Would(o, d)' = [f \in DOMAIN doc'[d] |-> IF f \in DOMAIN new THEN new[f] ELSE doc'[d][f]]
    BY DEF Would, Then, Merge
<1> HIDE DEF new
<1>5. /\ Would(o, d)' \in T
      /\ Would(o, d)'.at = Would(o, d).at
      /\ Would(o, d)'.status \in {Would(o, d).status, "inactive"}
      /\ Would(o, d)'.online \in {Would(o, d).online, FALSE}
  <2>1. DOMAIN doc[d] = {"status", "at", "online"} /\ DOMAIN doc'[d] = {"status", "at", "online"}
    BY <1>1, <1>2
  <2>2. /\ Would(o, d)'.status = IF "status" \in DOMAIN new THEN new["status"] ELSE doc'[d].status
        /\ Would(o, d)'.at = IF "at" \in DOMAIN new THEN new["at"] ELSE doc'[d].at
        /\ Would(o, d)'.online = IF "online" \in DOMAIN new THEN new["online"] ELSE doc'[d].online
    BY <1>4, <2>1
  <2>3. /\ Would(o, d).status = IF "status" \in DOMAIN new THEN new["status"] ELSE doc[d].status
        /\ Would(o, d).at = IF "at" \in DOMAIN new THEN new["at"] ELSE doc[d].at
        /\ Would(o, d).online = IF "online" \in DOMAIN new THEN new["online"] ELSE doc[d].online
    BY <1>3, <2>1
  <2>4. /\ Would(o, d)'.at = Would(o, d).at
        /\ Would(o, d)'.status \in {Would(o, d).status, "inactive"}
        /\ Would(o, d)'.online \in {Would(o, d).online, FALSE}
    BY <1>2, <2>2, <2>3
  <2>5. /\ Would(o, d).status \in {"active", "inactive"} /\ Would(o, d).at \in One(Branch)
        /\ Would(o, d).online \in BOOLEAN
    BY <1>3
  <2>6. Would(o, d)' = [status |-> Would(o, d)'.status, at |-> Would(o, d)'.at,
                        online |-> Would(o, d)'.online]
    BY <1>4, <2>1
  <2>7. /\ Would(o, d)'.status \in {"active", "inactive"} /\ Would(o, d)'.at \in One(Branch)
        /\ Would(o, d)'.online \in BOOLEAN
    BY <2>4, <2>5
  <2> QED  BY <2>4, <2>6, <2>7
<1>6. OfferDoc = {NoOffer} \cup T /\ NoOffer \notin T
    BY DEF OfferDoc, NoOffer
<1> HIDE DEF T
<1> QED  BY <1>5, <1>6


LEMMA Alongside ==
    ASSUME Shape, Documents, Drafts, NEW c \in Client, Committing(c) \/ Cascading(c),
           NEW o \in Client, Sure(o)', NEW d \in Names
    PROVE  o # c /\ Sure(o) /\ Kept(o) /\ Beside(o, d)
<1>1. pc'[c] # "open" /\ o # c
    BY DEF Committing, Cascading, Apart, Sure
<1>2. Kept(o)
    BY <1>1 DEF Committing, Cascading, Apart
<1>3. Sure(o) /\ writes'[o] = writes[o] /\ job'[o] = job[o]
    BY <1>2 DEF Kept, Sure
<1>4. CASE d \notin DOMAIN writes[o]
    BY <1>1, <1>2, <1>3, <1>4 DEF Beside, Would, Then
<1>5. CASE d \in DOMAIN writes[o] /\ doc'[d] = doc[d]
    BY <1>1, <1>2, <1>3, <1>5 DEF Beside, Would, Then, Merge
<1>6. CASE d \in DOMAIN writes[o] /\ doc'[d] # doc[d]
  <2>1. /\ d \in Offer /\ doc[d] # NoOffer /\ Op(o) \in Plain
        /\ \E v \in Withdrawals : doc'[d] = Merge(d, v)
    <3>1. CASE Committing(c)
      <4>1. doc'[d] = Would(c, d) /\ (Op(c) \notin Erasing => Sure(c)) /\ pc[c] = "open"
        BY <3>1, Committed DEF Committing
      <4>2. d \in DOMAIN writes[c]
        BY <1>6, <4>1 DEF Would, Then
      <4>3. Op(o) \in Plain /\ d \in Bulk(job[c][1])
        BY <1>1, <1>6, <3>1, <4>2 DEF Committing, Apart
      <4>4. Op(c) = "archive branch" /\ d \in Offer
        BY <4>3 DEF Bulk, Op
      <4>5. writes[c][d] = WrittenOff /\ doc[d].at = {job[c][1].branch}
        BY <4>1, <4>2, <4>4 DEF Drafts, Erasing
      <4>6. NoOffer.at = {}
        BY DEF NoOffer
      <4>7. doc'[d] = Merge(d, WrittenOff) /\ WrittenOff \in Withdrawals
        BY <4>1, <4>2, <4>5 DEF Would, Then, Withdrawals, WrittenOff
      <4> QED  BY <4>3, <4>4, <4>5, <4>6, <4>7
    <3>2. CASE Cascading(c)
      <4>1. /\ doc'[d] # doc[d] => d \in Withdrawable
            /\ \E v \in Withdrawals : \A e \in Withdrawable : doc'[e] = Merge(e, v)
        BY <3>2, Cascaded DEF Cascading
      <4>2. d \in Withdrawable
        BY <1>6, <4>1
      <4>3. Op(o) \in Plain
        BY <1>1, <1>6, <3>2, <4>2 DEF Cascading, Apart
      <4> QED  BY <4>1, <4>2, <4>3 DEF Withdrawable
    <3> QED  BY <3>1, <3>2
  <2>2. PICK v \in Withdrawals : doc'[d] = Merge(d, v)
    BY <2>1
  <2>3. Op(o) \in {"create offer", "update offer"}
    <3>1. MayWrite(Op(o), d)
        BY <1>3, <1>6 DEF Drafts, Sure
    <3> QED  BY <2>1, <3>1 DEF MayWrite, Plain
  <2>4. Would(o, d) \in OfferDoc \ {NoOffer}
    <3>1. Would(o, d) \in Schema(d) /\ Would(o, d) # NoOffer
        BY <1>3, <1>6, <2>1 DEF Drafts
    <3> QED  BY <2>1, <3>1, Schemas
  <2>5. /\ Would(o, d)' \in OfferDoc \ {NoOffer}
        /\ Would(o, d)'.at = Would(o, d).at
        /\ Would(o, d)'.status \in {Would(o, d).status, "inactive"}
        /\ Would(o, d)'.online \in {Would(o, d).online, FALSE}
    BY <1>3, <1>6, <2>1, <2>2, <2>4, BulkFine
  <2> QED  BY <1>1, <1>2, <1>3, <1>6, <2>1, <2>2, <2>3, <2>5 DEF Beside
<1> QED  BY <1>4, <1>5, <1>6

LEMMA DocumentsKept ==
    ASSUME Shape, Documents, Drafts, [Next]_vars
    PROVE  Documents'
<1>1. CASE Quiet
    BY <1>1 DEF Quiet, Documents
<1>2. ASSUME NEW c \in Client, Opening(c) PROVE Documents'
    BY <1>2 DEF Opening, Documents
<1>3. ASSUME NEW c \in Client, Committing(c) PROVE Documents'
  <2>1. /\ DOMAIN doc' = Names /\ \A d \in Names : doc'[d] = Would(c, d)
        /\ pc[c] = "open" /\ (Op(c) \notin Erasing => Sure(c))
    BY <1>3, Committed DEF Committing
  <2>2. ASSUME NEW d \in Names PROVE Would(c, d) \in Schema(d)
    <3>1. CASE d \notin DOMAIN writes[c]
        BY <3>1 DEF Would, Then, Documents
    <3>2. CASE d \in DOMAIN writes[c] /\ Op(c) \notin Erasing
        BY <2>1, <3>2 DEF Drafts
    <3>3. CASE d \in DOMAIN writes[c] /\ Op(c) \in Erasing
      <4>1. MayWrite(Op(c), d) /\ Gone(writes[c])
        BY <2>1, <3>3 DEF Drafts
      <4> QED  BY <3>3, <4>1, GoneFine DEF Would, Then
    <3> QED  BY <3>1, <3>2, <3>3
  <2> QED  BY <2>1, <2>2 DEF Documents
<1>4. ASSUME NEW c \in Client, Cascading(c) PROVE Documents'
  <2>1. /\ DOMAIN doc' = Names
        /\ \A d \in Names \ Withdrawable : doc'[d] = doc[d]
        /\ \E v \in Withdrawals : \A o \in Withdrawable : doc'[o] = Merge(o, v)
    BY <1>4, Cascaded DEF Cascading
  <2>2. ASSUME NEW o \in Withdrawable PROVE doc'[o] \in Schema(o)
    BY <2>1, WrittenOffFine, Schemas DEF Withdrawable
  <2> QED  BY <2>1, <2>2 DEF Documents
<1> QED  BY <1>1, <1>2, <1>3, <1>4, Steps

LEMMA DraftsKept ==
    ASSUME Shape, Documents, Drafts, [Next]_vars
    PROVE  Drafts'
<1> DEFINE Writing(o) ==
             /\ \A d \in DOMAIN writes[o] : MayWrite(Op(o), d)
             /\ Op(o) \in Erasing => Gone(writes[o])
             /\ Op(o) = "archive branch" =>
                  \A d \in Offer \cap DOMAIN writes[o] : writes[o][d] = WrittenOff
           Surely(o) ==
             /\ \A d \in DOMAIN writes[o] : Would(o, d) \in Schema(d)
             /\ \A d \in Offer \cap DOMAIN writes[o] :
                  /\ Would(o, d) # NoOffer
                  /\ Op(o) = "archive branch" => doc[d].at = {job[o][1].branch}
           Casc(o) == \E v \in Withdrawals : writes[o] = Put("service", v)
           Drafted(o) == /\ pc[o] = "open" => Writing(o)
                         /\ Sure(o) => Surely(o)
                         /\ pc[o] = "cascading" => Casc(o)
<1>0. Drafts = \A o \in Client : Drafted(o)
    BY DEF Drafts
<1>1. ASSUME NEW o \in Client, Kept(o) PROVE /\ pc'[o] = "open" => Writing(o)'
                                             /\ pc'[o] = "cascading" => Casc(o)'
  <2>1. pc'[o] \in {"open", "cascading"} =>
          pc[o] = pc'[o] /\ writes'[o] = writes[o] /\ Op(o)' = Op(o)
    BY <1>1 DEF Kept, Op
  <2> QED  BY <1>0, <2>1 DEF Gone
<1>2. ASSUME NEW o \in Client, Kept(o), doc' = doc PROVE Drafted(o)'
  <2>1. Sure(o)' => Surely(o)'
    BY <1>0, <1>2 DEF Kept, Sure, Op, Would, Then, Merge
  <2> QED  BY <1>1, <1>2, <2>1
<1>3. CASE Quiet
    BY <1>2, <1>3 DEF Quiet, Drafts
<1>4. ASSUME NEW c \in Client, Opening(c) PROVE Drafts'
  <2> DEFINE r == job[c][1]
  <2>1. Operation(c, r) /\ RequestFits(r) /\ doc' = doc
    BY <1>4 DEF Opening
  <2>2. PICK w : Open(c, w) /\ Fine(r.op, w) /\ (r.op \in Erasing => Gone(w))
    BY <2>1, OperationFine DEF OpensFine
  <2>3. /\ pc'[c] = "open" /\ job' = job /\ writes'[c] = w
        /\ \A d : Would(c, d)' = Then(w, d)
    BY <2>2, Opened
  <2>4. ASSUME NEW o \in Offer \cap DOMAIN w PROVE OfferDraft(r, w, o) /\ Then(w, o) # NoOffer
    <3>1. MayWrite(r.op, o)
        BY <2>2 DEF Fine
    <3>2. OfferDraft(r, w, o)
        BY <2>1, <2>2, <3>1, OfferDrafts
    <3> QED  BY <3>2, OfferDraftFine
  <2>5. Writing(c)'
    BY <2>2, <2>3, <2>4 DEF Fine, OfferDraft, Op, MayWrite, Gone
  <2>6. Surely(c)'
    BY <2>1, <2>2, <2>3, <2>4 DEF Fine, OfferDraft, Op
  <2>7. Drafted(c)'
    BY <2>3, <2>5, <2>6
  <2>8. ASSUME NEW o \in Client \ {c} PROVE Drafted(o)'
    BY <1>2, <1>4 DEF Opening
  <2> QED  BY <2>7, <2>8 DEF Drafts
<1>5. ASSUME NEW c \in Client, Committing(c) \/ Cascading(c), NEW o \in Client, Sure(o)'
      PROVE  Surely(o)'
  <2>1. Kept(o) /\ Sure(o) /\ \A d \in Names : Beside(o, d)
    <3>1. Names # {}
        BY DEF Names, Singles
    <3> QED  BY <1>5, <3>1, Alongside
  <2>2. job'[o] = job[o] /\ writes'[o] = writes[o] /\ DOMAIN writes[o] \subseteq Names
    <3>1. \A d \in DOMAIN writes[o] : MayWrite(Op(o), d)
        BY <2>1 DEF Drafts, Sure
    <3>2. \A d \in DOMAIN writes[o] : d \in Names
        BY <3>1 DEF MayWrite
    <3> QED  BY <1>5, <2>1, <3>2 DEF Kept, Sure
  <2>3. ASSUME NEW d \in DOMAIN writes[o]
        PROVE  /\ Would(o, d)' \in Schema(d)
               /\ d \in Offer => /\ Would(o, d)' # NoOffer
                                 /\ Op(o) = "archive branch" => doc'[d].at = {job[o][1].branch}
    <3>1. CASE doc'[d] = doc[d] /\ Would(o, d)' = Would(o, d)
        BY <1>0, <2>1, <3>1
    <3>2. CASE /\ d \in Offer /\ Op(o) \in {"create offer", "update offer"}
               /\ Would(o, d)' \in OfferDoc \ {NoOffer}
        BY <3>2, Schemas
    <3> QED  BY <2>1, <2>2, <3>1, <3>2 DEF Beside
  <2> QED  BY <2>2, <2>3 DEF Op, Schema
<1>6. ASSUME NEW c \in Client, Committing(c) PROVE Drafts'
  <2>1. /\ \A o \in Client \ {c} : Kept(o)
        /\ pc'[c] # "open"
    BY <1>6 DEF Committing, Apart
  <2>2. pc'[c] = "cascading" => Casc(c)'
    <3>1. SUFFICES ASSUME pc'[c] = "cascading" PROVE Casc(c)'
        OBVIOUS
    <3>2. PICK s : /\ Withdrawn(s) # Nothing
                   /\ Continue(c, "cascading", Put("service", Withdrawn(s)))
      <4> DEFINE r     == job[c][1]
                 after == After(writes[c])
      <4>1. CASE r.op = "update service" /\ Withdrawn(after.service) # Nothing
        <5>1. Continue(c, "cascading", Put("service", Withdrawn(after.service)))
            BY <1>6, <4>1 DEF Committing, Commit, ItemOps
        <5> QED  BY <4>1, <5>1
      <4>2. CASE ~(r.op = "update service" /\ Withdrawn(after.service) # Nothing)
        <5>1. Over(c) \/ \E w : Continue(c, "ready", w)
            BY <1>6, <4>2 DEF Committing, Commit
        <5> QED  BY <3>1, <5>1 DEF Over, Continue, Shape
      <4> QED  BY <4>1, <4>2
    <3>3. Withdrawn(s) \in Withdrawals
        BY <3>2 DEF Withdrawn, Withdrawals
    <3> QED  BY <3>2, <3>3 DEF Continue, Shape
  <2>3. ASSUME NEW o \in Client PROVE Drafted(o)'
    <3>1. pc'[o] = "open" => Writing(o)'
        BY <1>1, <2>1
    <3>2. Sure(o)' => Surely(o)'
        BY <1>5, <1>6
    <3>3. pc'[o] = "cascading" => Casc(o)'
        BY <1>1, <2>1, <2>2
    <3> QED  BY <3>1, <3>2, <3>3
  <2> QED  BY <2>3 DEF Drafts
<1>7. ASSUME NEW c \in Client, Cascading(c) PROVE Drafts'
  <2>1. /\ \A o \in Client \ {c} : Kept(o)
        /\ pc'[c] = "idle"
    BY <1>7, Cascaded DEF Cascading, Apart
  <2>2. ASSUME NEW o \in Client PROVE Drafted(o)'
    <3>1. pc'[o] = "open" => Writing(o)'
        BY <1>1, <2>1
    <3>2. Sure(o)' => Surely(o)'
        BY <1>5, <1>7
    <3>3. pc'[o] = "cascading" => Casc(o)'
        BY <1>1, <2>1
    <3> QED  BY <3>1, <3>2, <3>3
  <2> QED  BY <2>2 DEF Drafts
<1> QED  BY <1>3, <1>4, <1>6, <1>7, Steps


-----------------------------------------------------------------------------
(* Branches stay *)

\* What a request for settings or branches writes, other than the settings.
BranchDraft(r, w, b) ==
    \/ /\ r.op \in {"list branches", "read settings", "bootstrap", "settings"}
       /\ Branches = {} /\ w[b] = MainBranch /\ Then(w, b) = MainBranch
    \/ /\ r.op \in {"settings", "create branch", "update branch"}
       /\ b \in Primaries /\ w[b] = [primary |-> FALSE]
    \/ r.op = "settings" /\ b \in Active /\ Then(w, b) = [doc[b] EXCEPT !.primary = TRUE]
    \/ /\ r.op = "create branch" /\ b = r.branch /\ doc[b] = NoBranch
       /\ Then(w, b).status = Status(Given(r.active, TRUE))
       /\ Then(w, b).primary = (Branches = {} \/ r.primary = "on")
    \/ /\ r.op = "update branch" /\ b = r.branch /\ doc[b] # NoBranch
       /\ Then(w, b).status = Status(Given(r.active, doc[b].status = "active"))
       /\ Then(w, b).primary = (doc[b].primary \/ r.primary = "on")
    \/ /\ r.op = "archive branch" /\ b = r.branch /\ doc[b] # NoBranch /\ ~doc[b].primary
       /\ Then(w, b).status = "inactive" /\ ~Then(w, b).primary

\* Of the branches named by other writes.
LEMMA DemotedDraft ==
    ASSUME NEW r, NEW w, NEW a, NEW b \in DOMAIN Demoted(a), w[b] = Demoted(a)[b],
           r.op \in {"settings", "create branch", "update branch"}
    PROVE  BranchDraft(r, w, b)
BY DEF Demoted, BranchDraft

LEMMA NamingWrites ==
    ASSUME Documents, NEW a
    PROVE  DOMAIN Naming(a) \subseteq {"settings"}
<1>1. Whole("settings")
    BY Wholeness DEF Names, Singles
<1> QED  BY <1>1, SaveWritten, PutWritten DEF Naming

LEMMA MainWritten ==
    ASSUME Documents, NEW b \in Branch
    PROVE  Merge(b, MainBranch) = MainBranch
<1>1. doc[b] \in BranchDoc
    BY Typed
<1> QED  BY <1>1, MergeAll DEF MainBranch, BranchDoc

LEMMA AllWritten ==
    ASSUME Documents, NEW b \in Branch, NEW status, NEW primary, NEW bookings
    PROVE  LET new == [status |-> status, primary |-> primary, bookings |-> bookings]
           IN  Merge(b, new) = new
<1>1. doc[b] \in BranchDoc
    BY Typed
<1> QED  BY <1>1, MergeAll DEF BranchDoc

LEMMA BranchDrafts ==
    ASSUME Shape, Documents, NEW c \in Client, NEW r, RequestFits(r), Operation(c, r),
           NEW w, Open(c, w), NEW b \in Branch \cap DOMAIN w, MayWrite(r.op, b)
    PROVE  BranchDraft(r, w, b)
<1>1. b \in Branch /\ b # "settings" /\ b \notin Offer /\ doc[b] \in BranchDoc /\ Whole(b)
    BY Typed, Wholeness, NamesAssumption DEF Names, Singles
<1>2. writes'[c] = w
    BY Opened
<1>3. CASE r.op = "list branches"
  <2>1. Branches = {} /\ Open(c, Put(Main, MainBranch))
    BY <1>3, Acts DEF ListBranches
  <2>2. w = Put(Main, MainBranch)
    BY <1>2, <2>1, Opened
  <2>3. w[b] = MainBranch /\ Then(w, b) = Merge(b, MainBranch)
    BY <2>2 DEF Put, Then
  <2> QED  BY <1>3, <2>1, <2>3, MainWritten DEF BranchDraft
<1>4. CASE r.op = "read settings"
  <2>1. CASE Branches = {}
    <3>1. Open(c, Put(Main, MainBranch))
        BY <1>4, <2>1, Acts DEF ReadSettings
    <3>2. w = Put(Main, MainBranch)
        BY <1>2, <3>1, Opened
    <3>3. w[b] = MainBranch /\ Then(w, b) = Merge(b, MainBranch)
        BY <3>2 DEF Put, Then
    <3> QED  BY <1>4, <2>1, <3>3, MainWritten DEF BranchDraft
  <2>2. CASE Branches # {}
    <3>1. PICK a \in Usual : Open(c, Put("settings", [mode |-> "single", primary |-> {a}]))
        BY <1>4, <2>2, Acts DEF ReadSettings
    <3> DEFINE new == [mode |-> "single", primary |-> {a}]
    <3>2. w = Put("settings", new)
        BY <1>2, <3>1, Opened
    <3> HIDE DEF new
    <3> QED  BY <1>1, <3>2 DEF Put
  <2> QED  BY <2>1, <2>2
<1>5. CASE r.op = "bootstrap"
  <2> DEFINE new == [mode |-> r.mode, primary |-> {r.branch}]
  <2>1. Branches = {} /\ Open(c, Both(Put(r.branch, MainBranch), Put("settings", new)))
    BY <1>5, Acts DEF Bootstrap
  <2>2. w = Both(Put(r.branch, MainBranch), Put("settings", new))
    BY <1>2, <2>1, Opened
  <2> HIDE DEF new
  <2>3. b = r.branch /\ w[b] = MainBranch
    BY <1>1, <2>2 DEF Both, Put
  <2>4. Then(w, b) = Merge(b, MainBranch)
    BY <2>3 DEF Then
  <2> QED  BY <1>5, <2>1, <2>3, <2>4, MainWritten DEF BranchDraft
<1>6. CASE r.op = "settings"
  <2> DEFINE mode == IF r.mode # "keep" THEN r.mode
                     ELSE IF settings = NoSettings THEN "single" ELSE settings.mode
             active == IF Branches = {} /\ r.primary = {} THEN {Main} ELSE Active
  <2>1. PICK a \in active \cap (IF r.primary # {} THEN r.primary ELSE Usual) :
          Open(c, Both(Save("settings", [mode |-> mode, primary |-> {a}]),
                       Both(Demoted(a),
                            IF Branches = {} THEN Put(a, MainBranch)
                            ELSE Save(a, [doc[a] EXCEPT !.primary = TRUE]))))
    BY <1>6, Acts DEF UpdateSettings
  <2> DEFINE new  == [mode |-> mode, primary |-> {a}]
             this == IF Branches = {} THEN Put(a, MainBranch)
                     ELSE Save(a, [doc[a] EXCEPT !.primary = TRUE])
  <2>2. w = Both(Save("settings", new), Both(Demoted(a), this))
    BY <1>2, <2>1, Opened
  <2>3. a \in Branch /\ (Branches # {} => a \in Active)
    BY <2>1, PremisesAssumption DEF Active, Branches
  <2> HIDE DEF mode, new
  <2>4. DOMAIN Save("settings", new) \subseteq {"settings"}
    BY SaveWritten, Wholeness DEF Names, Singles
  <2>5. CASE b \in DOMAIN Demoted(a)
    <3>1. w[b] = Demoted(a)[b]
        BY <1>1, <2>2, <2>4, <2>5 DEF Both
    <3> QED  BY <1>6, <2>5, <3>1, DemotedDraft
  <2>6. CASE b \notin DOMAIN Demoted(a)
    <3>1. b \in DOMAIN this /\ w[b] = this[b]
        BY <1>1, <2>2, <2>4, <2>6 DEF Both
    <3>2. Then(w, b) = Then(this, b)
        BY <3>1 DEF Then
    <3>3. CASE Branches = {}
      <4>1. this[b] = MainBranch /\ Then(this, b) = Merge(b, MainBranch)
        BY <3>1, <3>3 DEF Put, Then
      <4> QED  BY <1>6, <3>1, <3>2, <3>3, <4>1, MainWritten DEF BranchDraft
    <3>4. CASE Branches # {}
      <4> DEFINE v == [doc[a] EXCEPT !.primary = TRUE]
      <4>1. this = Save(a, v)
        BY <3>4
      <4>2. Whole(a) /\ doc[a] \in BranchDoc
        BY <2>3, Typed, Wholeness DEF Names
      <4>3. Merge(a, v) = v
        BY <4>2, MergeAll DEF BranchDoc
      <4> HIDE DEF v
      <4>4. b = a /\ Then(this, b) = v
        BY <3>1, <4>1, <4>2, <4>3, SaveWritten
      <4> QED  BY <1>6, <2>3, <3>2, <3>4, <4>4 DEF BranchDraft, v
    <3> QED  BY <3>3, <3>4
  <2> QED  BY <2>5, <2>6
<1>7. CASE r.op = "create branch"
  <2> DEFINE active  == Given(r.active, TRUE)
             primary == Branches = {} \/ r.primary = "on"
             new     == [status |-> Status(active), primary |-> primary,
                         bookings |-> active /\ Given(r.bookings, TRUE)]
             rest    == IF primary THEN Both(Demoted(r.branch), Naming(r.branch)) ELSE Nothing
  <2>1. Open(c, Both(Put(r.branch, new), rest)) /\ doc[r.branch] = NoBranch
    BY <1>7, Acts DEF CreateBranch
  <2>2. w = Both(Put(r.branch, new), rest)
    BY <1>2, <2>1, Opened
  <2>3. CASE b = r.branch
    <3>1. w[b] = new /\ Then(w, b) = Merge(b, new)
        BY <2>2, <2>3 DEF Both, Put, Then
    <3>2. Merge(b, new) = new
      <4> DEFINE taken == active /\ Given(r.bookings, TRUE)
      <4>1. new = [status |-> Status(active), primary |-> primary, bookings |-> taken]
        OBVIOUS
      <4> HIDE DEF active, primary, taken, new
      <4> QED  BY <2>3, <4>1, AllWritten
    <3>3. new.status = Status(Given(r.active, TRUE))
        OBVIOUS
    <3>4. new.primary = (Branches = {} \/ r.primary = "on")
        OBVIOUS
    <3> HIDE DEF new
    <3> QED  BY <1>7, <2>1, <2>3, <3>1, <3>2, <3>3, <3>4 DEF BranchDraft
  <2>4. CASE b # r.branch
    <3> HIDE DEF new
    <3>1. primary
        BY <1>1, <2>2, <2>4 DEF Both, Put, Nothing
    <3>2. rest = Both(Demoted(r.branch), Naming(r.branch))
        BY <3>1
    <3> HIDE DEF primary, rest
    <3>3. b \in DOMAIN Demoted(r.branch) /\ w[b] = Demoted(r.branch)[b]
        BY <1>1, <2>2, <2>4, <3>2, NamingWrites DEF Both, Put
    <3> QED  BY <1>7, <3>3, DemotedDraft
  <2> QED  BY <2>3, <2>4
<1>8. CASE r.op = "update branch"
  <2> DEFINE old     == doc[r.branch]
             active  == Given(r.active, old.status = "active")
             promote == r.primary = "on" /\ ~old.primary
             new     == [status |-> Status(active), primary |-> old.primary \/ promote,
                         bookings |-> active /\ Given(r.bookings, old.bookings)]
             rest    == IF promote THEN Both(Demoted(r.branch), Naming(r.branch)) ELSE Nothing
  <2>1. Open(c, Both(Save(r.branch, new), rest)) /\ old # NoBranch
    BY <1>8, Acts DEF UpdateBranch, UpdateBranchInAnyMode
  <2>2. w = Both(Save(r.branch, new), rest)
    BY <1>2, <2>1, Opened
  <2>3. r.branch \in Branch /\ old \in BranchDoc /\ Whole(r.branch)
    BY <1>8, Typed, Wholeness DEF RequestFits, Names
  <2>4. Merge(r.branch, new) = new
    <3> DEFINE first == old.primary \/ promote
               taken == active /\ Given(r.bookings, old.bookings)
    <3>1. new = [status |-> Status(active), primary |-> first, bookings |-> taken]
        OBVIOUS
    <3> HIDE DEF active, first, taken, new
    <3> QED  BY <2>3, <3>1, AllWritten
  <2>5. DOMAIN Save(r.branch, new) \subseteq {r.branch}
    BY <2>3, SaveWritten
  <2>6. Then(Save(r.branch, new), r.branch) = Merge(r.branch, new)
    BY <2>3, SaveWritten
  <2>7. r.branch \notin DOMAIN rest
    <3>1. r.branch # "settings"
        BY <2>3, NamesAssumption DEF Singles
    <3> HIDE DEF promote
    <3> QED  BY <3>1, NamingWrites DEF Both, Nothing, Demoted
  <2>8. CASE b = r.branch
    <3> HIDE DEF rest, new
    <3>1. Then(w, b) = Then(Save(r.branch, new), b)
        BY <2>2, <2>7, <2>8 DEF Both, Then
    <3>2. Then(w, b) = new
        BY <2>4, <2>6, <2>8, <3>1
    <3>3. new.primary = (doc[b].primary \/ r.primary = "on")
        BY <2>8 DEF new
    <3>4. new.status = Status(Given(r.active, doc[b].status = "active"))
        BY <2>8 DEF new
    <3> QED  BY <1>8, <2>1, <2>8, <3>2, <3>3, <3>4 DEF BranchDraft
  <2>9. CASE b # r.branch
    <3> HIDE DEF new
    <3>1. promote
        BY <2>2, <2>5, <2>9 DEF Both, Nothing
    <3>2. rest = Both(Demoted(r.branch), Naming(r.branch))
        BY <3>1
    <3> HIDE DEF promote, rest
    <3>3. b \in DOMAIN Demoted(r.branch) /\ w[b] = Demoted(r.branch)[b]
        BY <1>1, <2>2, <2>5, <2>9, <3>2, NamingWrites DEF Both
    <3> QED  BY <1>8, <3>3, DemotedDraft
  <2> QED  BY <2>8, <2>9
<1>9. CASE r.op = "archive branch"
  <2> DEFINE new  == [doc[r.branch] EXCEPT !.status = "inactive", !.bookings = FALSE]
             rest == [o \in {x \in Offer : doc[x].at = {r.branch}} |->
                        [status |-> "inactive", online |-> FALSE]]
  <2>1. /\ Open(c, Both(Save(r.branch, new), rest))
        /\ doc[r.branch] # NoBranch /\ ~doc[r.branch].primary
    BY <1>9, Acts DEF ArchiveBranch
  <2>2. w = Both(Save(r.branch, new), rest)
    BY <1>2, <2>1, Opened
  <2>3. r.branch \in Branch /\ doc[r.branch] \in BranchDoc /\ Whole(r.branch)
    BY <1>9, Typed, Wholeness DEF RequestFits, Names
  <2>4. Merge(r.branch, new) = new
    <3>1. new = [f \in DOMAIN doc[r.branch] |-> new[f]]
        BY <2>3 DEF BranchDoc
    <3> HIDE DEF new
    <3> QED  BY <3>1, MergeAll
  <2>5. new.status = "inactive" /\ ~new.primary
    BY <2>1, <2>3 DEF BranchDoc
  <2> HIDE DEF new
  <2>6. DOMAIN Save(r.branch, new) \subseteq {r.branch}
    BY <2>3, SaveWritten
  <2>7. Then(Save(r.branch, new), r.branch) = new
    BY <2>3, <2>4, SaveWritten
  <2>8. b \notin DOMAIN rest
    BY <1>1
  <2> HIDE DEF rest
  <2>9. b = r.branch /\ Then(w, b) = Then(Save(r.branch, new), b)
    BY <2>2, <2>6, <2>8 DEF Both, Then
  <2> QED  BY <1>9, <2>1, <2>5, <2>7, <2>9 DEF BranchDraft
<1>10. r.op \in BranchOps
    BY DEF MayWrite, BranchOps
<1> QED  BY <1>3, <1>4, <1>5, <1>6, <1>7, <1>8, <1>9, <1>10 DEF BranchOps

\* No branch vanishes.
LEMMA BranchDraftStays ==
    ASSUME Documents, NEW r, NEW w, NEW b \in Branch \cap DOMAIN w, BranchDraft(r, w, b)
    PROVE  Then(w, b).status # "absent"
<1>1. doc[b] \in BranchDoc
    BY Typed
<1>2. CASE Branches = {} /\ w[b] = MainBranch /\ Then(w, b) = MainBranch
    BY <1>2 DEF MainBranch
<1>3. CASE b \in Primaries /\ w[b] = [primary |-> FALSE]
  <2>1. Then(w, b) = Merge(b, [primary |-> FALSE])
    BY <1>3 DEF Then
  <2>2. Merge(b, [primary |-> FALSE]).status = doc[b].status
    BY <1>1 DEF Merge, BranchDoc
  <2> QED  BY <1>1, <1>3, <2>1, <2>2 DEF Primaries, BranchDoc
<1>4. CASE r.op = "settings" /\ b \in Active /\ Then(w, b) = [doc[b] EXCEPT !.primary = TRUE]
    BY <1>1, <1>4 DEF Active, BranchDoc
<1>5. CASE Then(w, b).status \in {"active", "inactive"}
    BY <1>5
<1>6. \A on : Status(on) \in {"active", "inactive"}
    BY DEF Status
<1> QED  BY <1>2, <1>3, <1>4, <1>5, <1>6 DEF BranchDraft


-----------------------------------------------------------------------------
(* Offers are made at branches that there are *)

Erased == {"service", "product", "package"} \cup Category

\* Whoever writes anything that is not erased is sure.
LEMMA Surely ==
    ASSUME Documents, Drafts, NEW c \in Client, Committing(c), NEW d \in Names \ Erased
    PROVE  /\ doc'[d] = Would(c, d)
           /\ d \in DOMAIN writes[c] => Sure(c)
           /\ d \notin DOMAIN writes[c] => doc'[d] = doc[d]
<1>1. /\ doc'[d] = Would(c, d) /\ pc[c] = "open"
      /\ Op(c) \notin Erasing => Sure(c)
    BY Committed DEF Committing
<1>2. ASSUME d \in DOMAIN writes[c] PROVE Op(c) \notin Erasing
  <2>1. MayWrite(Op(c), d)
    BY <1>1, <1>2 DEF Drafts
  <2> QED  BY <2>1 DEF MayWrite, Names, Singles, Erased, Erasing, CatalogOps, Sharing
<1> QED  BY <1>1, <1>2 DEF Would, Then

Offering ==
    /\ \A o \in Offer : doc[o].at \subseteq Branches
    /\ \A c \in Client : Sure(c) =>
         /\ \A b \in Branch \cap DOMAIN writes[c] : Would(c, b).status # "absent"
         /\ \A o \in Offer \cap DOMAIN writes[c] :
              /\ Would(c, o).at \subseteq Branches
              /\ Op(c) \in {"create offer", "update offer"} => o = job[c][1].offer
              /\ Op(c) = "create offer" => doc[o] = NoOffer

\* Branches and offers are none of what is erased.
LEMMA KindsApart ==
    /\ Branch \cup Offer \cup Hours \cup Shift \cup Leave \cup Duty \cup Resource \cup Admin
         \cup {"settings", "employee", "user", "access"} \subseteq Names \ Erased
    /\ Branch \cap Offer = {}
BY NamesAssumption DEF Names, Singles, Erased

LEMMA BranchesStay ==
    ASSUME Shape, Documents, Drafts, Offering, NEW c \in Client, Committing(c) \/ Cascading(c)
    PROVE  Branches \subseteq Branches'
<1> SUFFICES ASSUME NEW b \in Branch, doc[b].status # "absent"
             PROVE  doc'[b].status # "absent"
    BY DEF Branches
<1>1. CASE Committing(c)
  <2>1. /\ doc'[b] = Would(c, b)
        /\ b \in DOMAIN writes[c] => Sure(c)
        /\ b \notin DOMAIN writes[c] => doc'[b] = doc[b]
    BY <1>1, Surely, KindsApart
  <2> QED  BY <2>1 DEF Offering
<1>2. CASE Cascading(c)
  <2>1. b \in Names \ Withdrawable
    BY KindsApart DEF Withdrawable
  <2> QED  BY <1>2, <2>1, Cascaded DEF Cascading
<1> QED  BY <1>1, <1>2

LEMMA ThereIs ==
    ASSUME Documents, NEW b \in Branch, doc[b] # NoBranch
    PROVE  b \in Branches
<1>1. doc[b] \in BranchDoc
    BY Typed
<1> QED  BY <1>1 DEF Branches, BranchDoc, NoBranch

LEMMA OfferingKept ==
    ASSUME Shape, Documents, Drafts, Offering, [Next]_vars
    PROVE  Offering'
<1> DEFINE Offers(o) ==
             /\ \A b \in Branch \cap DOMAIN writes[o] : Would(o, b).status # "absent"
             /\ \A d \in Offer \cap DOMAIN writes[o] :
                  /\ Would(o, d).at \subseteq Branches
                  /\ Op(o) \in {"create offer", "update offer"} => d = job[o][1].offer
                  /\ Op(o) = "create offer" => doc[d] = NoOffer
<1>1. ASSUME NEW o \in Client, Kept(o), doc' = doc PROVE Sure(o)' => Offers(o)'
    BY <1>1 DEF Offering, Kept, Sure, Op, Would, Then, Merge, Branches
<1>2. CASE Quiet
  <2>1. \A o \in Client : Sure(o)' => Offers(o)'
    BY <1>1, <1>2 DEF Quiet
  <2>2. \A o \in Offer : doc'[o].at \subseteq Branches'
    BY <1>2 DEF Quiet, Offering, Branches
  <2> QED  BY <2>1, <2>2 DEF Offering
<1>3. ASSUME NEW c \in Client, Opening(c) PROVE Offering'
  <2> DEFINE r == job[c][1]
  <2>1. Operation(c, r) /\ RequestFits(r) /\ doc' = doc
    BY <1>3 DEF Opening
  <2>2. PICK w : Open(c, w) /\ Fine(r.op, w)
    BY <2>1, OperationFine DEF OpensFine
  <2>3. /\ pc'[c] = "open" /\ job' = job /\ writes'[c] = w
        /\ \A d : Would(c, d)' = Then(w, d)
    BY <2>2, Opened
  <2>4. ASSUME NEW b \in Branch \cap DOMAIN w PROVE Then(w, b).status # "absent"
    <3>1. MayWrite(r.op, b)
        BY <2>2 DEF Fine
    <3>2. BranchDraft(r, w, b)
        BY <2>1, <2>2, <3>1, BranchDrafts
    <3> QED  BY <3>2, BranchDraftStays
  <2>5. ASSUME NEW o \in Offer \cap DOMAIN w
        PROVE  /\ Then(w, o).at \subseteq Branches
               /\ r.op \in {"create offer", "update offer"} => o = r.offer
               /\ r.op = "create offer" => doc[o] = NoOffer
    <3>1. MayWrite(r.op, o)
        BY <2>2 DEF Fine
    <3>2. OfferDraft(r, w, o)
        BY <2>1, <2>2, <3>1, OfferDrafts
    <3>3. CASE r.op = "archive branch"
      <4>1. doc[o].at = {r.branch} /\ Then(w, o) = Merge(o, WrittenOff)
        BY <3>2, <3>3 DEF OfferDraft, Then
      <4>2. doc[o] # NoOffer /\ WrittenOff \in Withdrawals
        BY <4>1 DEF NoOffer, WrittenOff, Withdrawals
      <4>3. Merge(o, WrittenOff).at = doc[o].at
        BY <4>2, WrittenOffFine
      <4> QED  BY <3>3, <4>1, <4>3 DEF Offering
    <3>4. CASE r.op \in {"create offer", "update offer"}
      <4>1. PICK b \in Branch : \E active, online \in BOOLEAN :
              /\ Then(w, o) = [status |-> Status(active), at |-> {b}, online |-> online]
              /\ Offerable(b, active, online)
        BY <3>2, <3>4 DEF OfferDraft
      <4>2. Then(w, o).at = {b}
        BY <4>1
      <4>3. b \in Branches
        BY <4>1, ThereIs DEF Offerable
      <4> QED  BY <3>2, <3>4, <4>2, <4>3 DEF OfferDraft
    <3> QED  BY <3>2, <3>3, <3>4 DEF OfferDraft
  <2>6. Offers(c)'
    BY <2>1, <2>3, <2>4, <2>5 DEF Op, Branches
  <2>7. ASSUME NEW o \in Client \ {c} PROVE Sure(o)' => Offers(o)'
    BY <1>1, <1>3 DEF Opening
  <2>8. \A o \in Offer : doc'[o].at \subseteq Branches'
    BY <2>1 DEF Offering, Branches
  <2> QED  BY <2>6, <2>7, <2>8 DEF Offering
<1>4. ASSUME NEW c \in Client, Committing(c) \/ Cascading(c), NEW o \in Client, Sure(o)'
      PROVE  Offers(o)'
  <2>1. Sure(o) /\ Kept(o) /\ \A d \in Names : Beside(o, d)
    <3>1. Names # {}
        BY DEF Names, Singles
    <3> QED  BY <1>4, <3>1, Alongside
  <2>2. job'[o] = job[o] /\ writes'[o] = writes[o] /\ Branches \subseteq Branches'
    BY <1>4, <2>1, BranchesStay DEF Kept, Sure
  <2>3. ASSUME NEW b \in Branch \cap DOMAIN writes[o] PROVE Would(o, b)'.status # "absent"
    <3>1. Would(o, b)' = Would(o, b)
        BY <2>1, KindsApart DEF Beside
    <3> QED  BY <2>1, <3>1 DEF Offering
  <2>4. ASSUME NEW d \in Offer \cap DOMAIN writes[o]
        PROVE  /\ Would(o, d)'.at \subseteq Branches'
               /\ Op(o) \in {"create offer", "update offer"} => d = job[o][1].offer
               /\ Op(o) = "create offer" => doc'[d] = NoOffer
    <3>1. Beside(o, d)
        BY <2>1, KindsApart
    <3>2. Would(o, d)'.at = Would(o, d).at /\ (doc'[d] = doc[d] \/ doc[d] # NoOffer)
        BY <3>1 DEF Beside
    <3> QED  BY <2>1, <2>2, <3>2 DEF Offering
  <2> QED  BY <2>2, <2>3, <2>4 DEF Op
<1>5. ASSUME NEW c \in Client, Committing(c) \/ Cascading(c), NEW o \in Offer
      PROVE  doc'[o].at \subseteq Branches'
  <2>1. Branches \subseteq Branches'
    BY <1>5, BranchesStay
  <2>2. CASE Committing(c)
    <3>1. /\ doc'[o] = Would(c, o)
          /\ o \in DOMAIN writes[c] => Sure(c)
          /\ o \notin DOMAIN writes[c] => doc'[o] = doc[o]
        BY <2>2, Surely, KindsApart
    <3> QED  BY <2>1, <3>1 DEF Offering
  <2>3. CASE Cascading(c)
    <3>1. CASE o \in Withdrawable
      <4>1. PICK v \in Withdrawals : doc'[o] = Merge(o, v)
        BY <2>3, <3>1, Cascaded DEF Cascading
      <4>2. doc'[o].at = doc[o].at
        BY <3>1, <4>1, WrittenOffFine DEF Withdrawable
      <4> QED  BY <2>1, <4>2 DEF Offering
    <3>2. CASE o \notin Withdrawable
      <4>1. doc'[o] = doc[o]
        BY <2>3, <3>2, Cascaded, KindsApart DEF Cascading
      <4> QED  BY <2>1, <4>1 DEF Offering
    <3> QED  BY <3>1, <3>2
  <2> QED  BY <1>5, <2>2, <2>3
<1>6. ASSUME NEW c \in Client, Committing(c) \/ Cascading(c) PROVE Offering'
    BY <1>4, <1>5, <1>6 DEF Offering
<1> QED  BY <1>2, <1>3, <1>6, Steps


-----------------------------------------------------------------------------
(* What is booked online *)

LEMMA LeasedAgain ==
    ASSUME NEW o, doc' = doc, Kept(o), Sure(o)', Leased(o)'
    PROVE  Leased(o)
<1>1. job'[o] = job[o] /\ keys'[o] = keys[o] /\ (Valid(o)' => Valid(o))
    BY DEF Kept, Sure
<1>2. Affected(job[o][1])' = Affected(job[o][1])
    BY <1>1 DEF Affected, PremisesAffected, PersonnelAffected, RosterAffected, Branches, employee
<1> QED  BY <1>1, <1>2 DEF Leased

\* The lease of an offer that is to be written is in force as long as the request is sure.
LEMMA OfferLeased ==
    ASSUME Shape, Documents, Drafts, Offering, NEW o \in Client, Kept(o), Sure(o)', Leased(o)',
           NEW d \in Offer \cap DOMAIN writes[o], Beside(o, d)
    PROVE  Leased(o)
<1> DEFINE r == job[o][1]
<1>1. /\ job'[o] = job[o] /\ keys'[o] = keys[o] /\ (Valid(o)' => Valid(o)) /\ Sure(o)
    BY DEF Kept, Sure
<1>2. r.op \in {"create offer", "update offer", "archive branch"}
  <2>1. MayWrite(r.op, d)
    BY <1>1 DEF Drafts, Sure, Op
  <2> QED  BY <2>1 DEF MayWrite
<1>3. r.op = "update offer" => d = r.offer
    BY <1>1 DEF Offering, Op
<1>4. doc'[d].at = doc[d].at
    BY WrittenOffFine DEF Beside
<1>5. /\ r.op \in {"archive branch", "create offer"} => Affected(r)' = {r.branch}
      /\ r.op = "update offer" => Affected(r)' = doc'[r.offer].at \cup r.branches
    BY <1>1 DEF Affected, PersonnelOps, RosterOps, CatalogOps, CategoryOps, ItemOps, Sharing,
       Careless, PremisesAffected
<1>6. /\ r.op \in {"archive branch", "create offer"} => Affected(r) = {r.branch}
      /\ r.op = "update offer" => Affected(r) = doc[r.offer].at \cup r.branches
    BY LeasesNeeded
<1>7. Affected(r)' = Affected(r)
    BY <1>2, <1>3, <1>4, <1>5, <1>6
<1> QED  BY <1>1, <1>7 DEF Leased

\* Nobody shares a lease with a writer.
LEMMA Exclusive ==
    ASSUME Leases, NEW c \in Client, NEW o \in Client, c # o, Valid(c), Valid(o),
           NEW k \in Key, k \in keys[c], k \in keys[o]
    PROVE  k \in Branch /\ Op(c) \in Sharing /\ Op(o) \in Sharing
BY DEF Leases, Valid, Compatible, Op

Online ==
    mishap \cap {"blind", "unguarded"} = {} =>
        /\ \A o \in Offer : doc[o].online => doc[o].status = "active"
        /\ \A c \in Client : Sure(c) /\ Leased(c) =>
             \A o \in Offer \cap DOMAIN writes[c] :
                 Would(c, o).online => Would(c, o).status = "active"

LEMMA OnlineKept ==
    ASSUME Shape, Leases, Documents, Drafts, Offering, Online, [Next]_vars
    PROVE  Online'
<1> DEFINE Fits(o) ==
             \A d \in Offer \cap DOMAIN writes[o] :
                 Would(o, d).online => Would(o, d).status = "active"
           Calm == mishap \cap {"blind", "unguarded"} = {}
<1>1. ASSUME NEW o \in Client, Kept(o), doc' = doc, Calm, Sure(o)', Leased(o)' PROVE Fits(o)'
  <2>1. Sure(o) /\ Leased(o) /\ writes'[o] = writes[o]
    BY <1>1, LeasedAgain DEF Kept, Sure
  <2> QED  BY <1>1, <2>1 DEF Online, Would, Then, Merge
<1>2. CASE Quiet
    BY <1>1, <1>2 DEF Quiet, Online
<1>3. ASSUME NEW c \in Client, Opening(c) PROVE Online'
  <2> DEFINE r == job[c][1]
  <2>1. Operation(c, r) /\ RequestFits(r) /\ doc' = doc /\ mishap' = mishap
    BY <1>3 DEF Opening
  <2>2. PICK w : Open(c, w) /\ Fine(r.op, w)
    BY <2>1, OperationFine DEF OpensFine
  <2>3. writes'[c] = w /\ \A d : Would(c, d)' = Then(w, d)
    BY <2>2, Opened
  <2>4. ASSUME NEW o \in Offer \cap DOMAIN w, Then(w, o).online PROVE Then(w, o).status = "active"
    <3>1. MayWrite(r.op, o)
        BY <2>2 DEF Fine
    <3>2. OfferDraft(r, w, o)
        BY <2>1, <2>2, <3>1, OfferDrafts
    <3>3. r.op # "archive branch"
      <4>1. SUFFICES ASSUME doc[o].at = {r.branch}, Then(w, o) = Merge(o, WrittenOff) PROVE FALSE
        BY <3>2 DEF OfferDraft, Then
      <4>2. doc[o] # NoOffer /\ WrittenOff \in Withdrawals
        BY <4>1 DEF NoOffer, WrittenOff, Withdrawals
      <4> QED  BY <2>4, <4>1, <4>2, WrittenOffFine
    <3>4. PICK b \in Branch, active \in BOOLEAN, online \in BOOLEAN :
            /\ Then(w, o) = [status |-> Status(active), at |-> {b}, online |-> online]
            /\ Offerable(b, active, online)
        BY <3>2, <3>3 DEF OfferDraft
    <3> QED  BY <2>4, <3>4 DEF Offerable, Status
  <2>5. Fits(c)'
    BY <2>3, <2>4
  <2>6. ASSUME NEW o \in Client \ {c}, Calm, Sure(o)', Leased(o)' PROVE Fits(o)'
    BY <1>1, <1>3, <2>1, <2>6 DEF Opening
  <2> QED  BY <2>1, <2>5, <2>6 DEF Online
<1>4. ASSUME NEW c \in Client, Committing(c) \/ Cascading(c), Calm', Calm, NEW o \in Client,
             Sure(o)', Leased(o)'
      PROVE  Fits(o)'
  <2>1. o # c /\ Sure(o) /\ Kept(o) /\ writes'[o] = writes[o] /\ \A d \in Names : Beside(o, d)
    <3>1. Names # {}
        BY DEF Names, Singles
    <3> QED  BY <1>4, <3>1, Alongside DEF Kept, Sure
  <2>2. SUFFICES ASSUME NEW d \in Offer \cap DOMAIN writes[o], Would(o, d)'.online
                 PROVE  Would(o, d)'.status = "active"
    BY <2>1
  <2>3. Beside(o, d) /\ Leased(o)
    BY <1>4, <2>1, KindsApart, OfferLeased
  <2>4. Would(o, d).online => Would(o, d).status = "active"
    BY <1>4, <2>1, <2>3 DEF Online
  <2>5. CASE Would(o, d)' = Would(o, d)
    BY <2>2, <2>4, <2>5
  <2>6. CASE Would(o, d)' # Would(o, d)
    <3>1. /\ doc[d] # NoOffer /\ Op(o) \in {"create offer", "update offer"}
          /\ \E v \in Withdrawals : doc'[d] = Merge(d, v)
        BY <2>3, <2>6 DEF Beside
    <3>2. Op(o) = "update offer" /\ d = job[o][1].offer
        BY <2>1, <3>1 DEF Offering
    <3>3. doc[d].at \subseteq keys[o] /\ Valid(o)
        BY <2>3, <3>2, LeasesNeeded DEF Leased, Op
    <3>4. PICK b \in Branch : doc[d].at = {b}
        BY <3>1, Typed DEF OfferDoc, One
    <3>5. Valid(c) /\ b \in keys[c]
      <4>1. CASE Committing(c)
        <5>1. doc'[d] # doc[d]
            BY <2>1, <2>2, <2>6 DEF Would, Then, Merge
        <5>2. d \in DOMAIN writes[c] /\ Sure(c)
            BY <4>1, <5>1, Surely, KindsApart
        <5>3. Op(c) = "archive branch" /\ doc[d].at = {job[c][1].branch}
          <6>1. d \in Bulk(job[c][1])
            BY <1>4, <2>1, <4>1, <5>2 DEF Committing, Apart
          <6> QED  BY <5>2, <6>1 DEF Bulk, Drafts, Op
        <5>4. Valid(c) /\ Affected(job[c][1]) \subseteq keys[c]
            BY <1>4, <4>1, <5>3, Committed DEF Committing, Careless
        <5> QED  BY <3>4, <5>3, <5>4, LeasesNeeded DEF Op
      <4>2. CASE Cascading(c)
        <5>1. Valid(c) /\ Branches \subseteq keys[c]
            BY <1>4, <4>2, Cascaded DEF Cascading
        <5> QED  BY <3>4, <5>1 DEF Offering
      <4> QED  BY <1>4, <4>1, <4>2
    <3>6. Op(o) \in Sharing
        BY <2>1, <3>3, <3>4, <3>5, Exclusive DEF Key
    <3> QED  BY <3>2, <3>6 DEF Sharing
  <2> QED  BY <2>5, <2>6
<1>5. ASSUME NEW c \in Client, Committing(c), Calm', Calm, NEW o \in Offer, doc'[o].online
      PROVE  doc'[o].status = "active"
  <2>1. /\ doc'[o] = Would(c, o)
        /\ o \in DOMAIN writes[c] => Sure(c)
        /\ o \notin DOMAIN writes[c] => doc'[o] = doc[o]
    BY <1>5, Surely, KindsApart
  <2>2. CASE o \in DOMAIN writes[c]
    <3>1. MayWrite(Op(c), o)
        BY <2>1, <2>2 DEF Drafts, Sure
    <3>2. Op(c) \notin Careless
        BY <3>1 DEF MayWrite, Careless
    <3>3. Leased(c)
        BY <1>5, <3>2, Committed DEF Committing, Leased
    <3> QED  BY <1>5, <2>1, <2>2, <3>3 DEF Online
  <2>3. CASE o \notin DOMAIN writes[c]
    BY <1>5, <2>1, <2>3 DEF Online
  <2> QED  BY <2>2, <2>3
<1>6. ASSUME NEW c \in Client, Cascading(c), Calm', Calm, NEW o \in Offer, doc'[o].online
      PROVE  doc'[o].status = "active"
  <2>1. CASE o \in Withdrawable
    <3>1. PICK v \in Withdrawals : doc'[o] = Merge(o, v)
        BY <1>6, <2>1, Cascaded DEF Cascading
    <3> QED  BY <1>6, <2>1, <3>1, WrittenOffFine DEF Withdrawable
  <2>2. CASE o \notin Withdrawable
    <3>1. doc'[o] = doc[o]
        BY <1>6, <2>2, Cascaded, KindsApart DEF Cascading
    <3> QED  BY <1>6, <3>1 DEF Online
  <2> QED  BY <2>1, <2>2
<1>7. ASSUME NEW c \in Client, Committing(c) \/ Cascading(c) PROVE Online'
  <2>1. mishap \subseteq mishap'
    BY <1>7, Committed, Cascaded DEF Committing, Cascading
  <2> QED  BY <1>4, <1>5, <1>6, <1>7, <2>1 DEF Online
<1> QED  BY <1>2, <1>3, <1>7, Steps

-----------------------------------------------------------------------------
(* Every document is what it may be *)

Sane == Shape /\ Leases /\ Documents /\ Drafts /\ Offering /\ Online

LEMMA SaneAtFirst == ASSUME Init PROVE Sane
<1>1. PICK g \in Agendas : doc = g.doc
    BY DEF Init
<1>2. InOrder(g.doc)
    BY AgendaAssumption
<1>3. /\ \A o \in Offer : doc[o].at \subseteq {b \in Branch : doc[b].status # "absent"}
      /\ \A o \in Offer : doc[o].online => doc[o].status = "active"
    BY <1>1, <1>2 DEF InOrder
<1>4. \A c \in Client : pc[c] = "idle"
    BY DEF Init, InitRequests
<1> QED  BY <1>3, <1>4, ShapeAtFirst DEF Sane, Drafts, Offering, Online, Sure, Branches

LEMMA SaneKept == ASSUME Sane, [Next]_vars PROVE Sane'
BY ShapeKept, DocumentsKept, DraftsKept, OfferingKept, OnlineKept DEF Sane

\* Whatever the back office is asked, by whomever and in whatever order, every document
\* stays one that the schemas allow, and what is booked online is active.
THEOREM TypeCorrect == Spec => []TypeOK
<1>1. Init => Sane
    BY SaneAtFirst
<1>2. Sane /\ [Next]_vars => Sane'
    BY SaneKept
<1>3. Sane => TypeOK
    BY DEF Sane, Shape, Documents, Online, TypeOK
<1> QED  BY <1>1, <1>2, <1>3, PTL DEF Spec


-----------------------------------------------------------------------------
(* Whoever is dismissed *)

Ended == {"inactive", "terminated", "gone"}

\* The account of an employee who has been made inactive is still on.
Lingering(e, u) == e.linked /\ e.status \in Ended /\ u.standing = "on"

\* The employee, the user and the access go together: no account lingers but without
\* its access, which is why an access request must not bring it back.
Sound(e, u, a) ==
    /\ u.made \in {0, 1}
    /\ e.linked => e.status # "gone" /\ u.made = 1
    /\ ~e.linked /\ e.status # "gone" => u.standing = "none" /\ u.made = 0
    /\ e.status = "gone" => u.standing # "on"
    /\ Lingering(e, u) => a.status # "active"

\* A request makes e, u and a into f, v and b, and writes the employee if ce, the user
\* if cu and the access if ca.  Whichever of the three it does not write another may.
Handles(e, u, a, f, v, b, ce, cu, ca) ==
    /\ Sound(f, v, b)
    /\ ce => e.status # "gone"
    /\ ce /\ cu /\ e.linked => ~Lingering(f, v)
    /\ ~ce /\ (cu \/ ca) => e.linked \/ e.status = "gone"
    /\ ~ce /\ cu => /\ v.made = u.made
                    /\ v.standing = "off" \/ (v.standing = "on" /\ e.status \notin Ended)
    /\ e.linked /\ ~cu /\ f.status \in Ended => f.status = e.status
    /\ ~ca /\ Lingering(f, v) => Lingering(e, u)
    /\ ~ce /\ ~cu /\ b.status = "active" /\ ca => ~Lingering(e, u)
    /\ e.linked /\ f.status # "gone" => f.linked
    /\ ~e.linked /\ f.linked => cu /\ ca

\* Two requests that write none of the same documents do not mind each other.
LEMMA HandlesBeside ==
    ASSUME NEW e, NEW u, NEW a, Sound(e, u, a),
           NEW f, NEW v, NEW b, NEW ce \in BOOLEAN, NEW cu \in BOOLEAN, NEW ca \in BOOLEAN,
           Handles(e, u, a, f, v, b, ce, cu, ca),
           ~ce => f = e, ~cu => v = u, ~ca => b = a,
           NEW g, NEW w, NEW d, NEW oe \in BOOLEAN, NEW ou \in BOOLEAN, NEW oa \in BOOLEAN,
           Handles(e, u, a, g, w, d, oe, ou, oa),
           ~oe => g = e, ~ou => w = u, ~oa => d = a,
           ~(ce /\ oe), ~(cu /\ ou), ~(ca /\ oa)
    PROVE  Handles(f, v, b, IF oe THEN g ELSE f, IF ou THEN w ELSE v, IF oa THEN d ELSE b,
                   oe, ou, oa)
<1>1. CASE oe /\ ou
    BY <1>1 DEF Handles, Sound, Lingering
<1>2. CASE oe /\ ~ou /\ cu
  <2> DEFINE n == IF oa THEN d ELSE b
  <2>1. f = e /\ w = u
    BY <1>2
  <2> HIDE DEF n
  <2>2. ~Lingering(g, v) /\ (g.status \in Ended => v.standing = "off")
    BY <1>2, <2>1 DEF Handles, Lingering
  <2>3. /\ e.status # "gone" /\ e.linked /\ v.made = u.made
        /\ g.status # "gone" => g.linked
    BY <1>2, <2>1 DEF Handles
  <2>4. Sound(g, v, n)
    BY <1>2, <2>1, <2>2, <2>3 DEF Handles, Sound, Ended
  <2>5. Handles(f, v, b, g, v, n, oe, ou, oa)
    BY <1>2, <2>1, <2>2, <2>3, <2>4 DEF Handles
  <2> QED  BY <1>2, <2>5 DEF n
<1>3. CASE ~oe /\ ou /\ ce
  <2> DEFINE n == IF oa THEN d ELSE b
  <2>1. g = e /\ v = u
    BY <1>3
  <2> HIDE DEF n
  <2>2. ~Lingering(f, w) /\ (f.status \in Ended => w.standing = "off")
    BY <1>3, <2>1 DEF Handles, Lingering
  <2>3. /\ e.status # "gone" /\ e.linked /\ w.made = u.made
        /\ f.status # "gone" => f.linked
    BY <1>3, <2>1 DEF Handles
  <2>4. Sound(f, w, n)
    BY <1>3, <2>1, <2>2, <2>3 DEF Handles, Sound, Ended
  <2>5. Handles(f, v, b, f, w, n, oe, ou, oa)
    BY <1>3, <2>1, <2>2, <2>3, <2>4 DEF Handles
  <2> QED  BY <1>3, <2>5 DEF n
<1>4. CASE oe /\ ~ou /\ ~cu
    BY <1>4 DEF Handles, Sound, Lingering
<1>5. CASE ~oe /\ ou /\ ~ce
    BY <1>5 DEF Handles, Sound, Lingering
<1>6. CASE ~oe /\ ~ou
    BY <1>6 DEF Handles, Sound, Lingering
<1> QED  BY <1>1, <1>2, <1>3, <1>4, <1>5, <1>6

LEMMA HandlesNothing ==
    ASSUME NEW e, NEW u, NEW a, Sound(e, u, a)
    PROVE  Handles(e, u, a, e, u, a, FALSE, FALSE, FALSE)
BY DEF Handles

\* What w makes of the three.
Handled(w) ==
    Handles(employee, user, access, Then(w, "employee"), Then(w, "user"), Then(w, "access"),
            "employee" \in DOMAIN w, "user" \in DOMAIN w, "access" \in DOMAIN w)

Accounts ==
    /\ Sound(employee, user, access)
    /\ \A c \in Client : Sure(c) => Handled(writes[c])

\* A request whose writes are of other documents.
LEMMA HandledElsewhere ==
    ASSUME Sound(employee, user, access), NEW w,
           DOMAIN w \cap {"employee", "user", "access"} = {}
    PROVE  Handled(w)
<1>1. Then(w, "employee") = employee /\ Then(w, "user") = user /\ Then(w, "access") = access
    BY DEF Then, employee, user, access
<1>2. /\ ("employee" \in DOMAIN w) = FALSE
      /\ ("user" \in DOMAIN w) = FALSE
      /\ ("access" \in DOMAIN w) = FALSE
    OBVIOUS
<1>3. Handles(employee, user, access, employee, user, access, FALSE, FALSE, FALSE)
    BY HandlesNothing
<1> QED  BY <1>1, <1>2, <1>3 DEF Handled

LEMMA UpdatedHandled ==
    ASSUME Documents, Sound(employee, user, access), NEW r, RequestFits(r), r.op = "update", Employed
    PROVE  Handled(Updated(r))
<1> DEFINE status   == IF r.status = "keep" THEN employee.status ELSE r.status
           branches == IF r.everywhere THEN employee.branches ELSE r.branches
           new      == [employee EXCEPT !.status = status, !.branches = branches,
                                        !.bookable = @ /\ status = "active"]
           changing == employee.linked /\ r.status # "keep"
           before   == IF changing /\ access # NoAccess
                       THEN [access EXCEPT !.status = Standing(status)] ELSE access
           after    == IF employee.linked /\ ~r.everywhere THEN Trim(before, branches) ELSE before
           touched  == r.status = "keep" /\ r.everywhere
           emp      == IF touched THEN Put("employee", new) ELSE Save("employee", new)
           acc      == IF access = before /\ before = after THEN Nothing ELSE Put("access", after)
           use      == IF changing THEN Account(status) ELSE Nothing
           w        == Updated(r)
           v        == IF changing THEN [user EXCEPT !.standing = User(status)] ELSE user
<1>1. w = Both(emp, Both(acc, use))
    BY DEF Updated
<1>2. /\ doc["employee"] \in EmployeeDoc /\ doc["user"] \in UserDoc /\ doc["access"] \in AccessDoc
      /\ Whole("employee") /\ Whole("user") /\ Whole("access")
    BY Typed, Wholeness DEF Names, Singles
<1>3. employee \in [status : EmployeeStatus, branches : SUBSET Branch,
                    bookable : BOOLEAN, linked : BOOLEAN]
    BY <1>2 DEF EmployeeDoc, Employed, employee, NoEmployee, EmployeeStatus
<1>4. status \in EmployeeStatus /\ new.status = status /\ new.linked = employee.linked
    BY <1>3 DEF RequestFits
<1>5. Merge("employee", new) = new
  <2>1. new = [f \in DOMAIN doc["employee"] |-> new[f]]
    BY <1>3 DEF employee
  <2> HIDE DEF new
  <2> QED  BY <2>1, MergeAll
<1>6. DOMAIN emp \subseteq {"employee"} /\ \A d : Then(emp, d) = IF d = "employee" THEN new ELSE doc[d]
  <2> HIDE DEF new
  <2>1. CASE touched
    <3>1. /\ DOMAIN Put("employee", new) = {"employee"}
          /\ \A d : Then(Put("employee", new), d) =
                      IF d = "employee" THEN Merge("employee", new) ELSE doc[d]
        BY DEF Put, Then
    <3> QED  BY <1>5, <2>1, <3>1
  <2>2. CASE ~touched
    BY <1>2, <1>5, <2>2, SaveWritten
  <2> QED  BY <2>1, <2>2
<1>7. /\ DOMAIN use \subseteq {"user"} /\ \A d : Then(use, d) = IF d = "user" THEN v ELSE doc[d]
      /\ changing /\ status \in {"terminated", "inactive"} => "user" \in DOMAIN use
      /\ changing /\ status \in {"invited", "on_leave"} => "user" \notin DOMAIN use
  <2> DEFINE to == [standing |-> User(status)]
  <2>1. Merge("user", to) = [user EXCEPT !.standing = User(status)]
    BY <1>2 DEF Merge, UserDoc, user
  <2>2. CASE ~changing
    BY <2>2, NothingWritten DEF user
  <2>3. CASE changing /\ status \in {"terminated", "inactive"}
    <3>1. use = Put("user", to)
        BY <2>3 DEF Account
    <3>2. v = [user EXCEPT !.standing = User(status)]
        BY <2>3
    <3> HIDE DEF to, use, status, v
    <3>3. /\ DOMAIN Put("user", to) = {"user"}
          /\ \A d : Then(Put("user", to), d) = IF d = "user" THEN Merge("user", to) ELSE doc[d]
        BY DEF Put, Then
    <3>4. Merge("user", to) = v
        BY <2>1, <3>2 DEF to
    <3> QED  BY <2>3, <3>1, <3>3, <3>4
  <2>4. CASE changing /\ status \notin {"terminated", "inactive"}
    <3>1. use = Save("user", to)
        BY <2>4 DEF Account
    <3>2. status \in {"invited", "on_leave"} => Save("user", to) = Nothing
        BY DEF Save, User, user
    <3> HIDE DEF to, use, status
    <3> QED  BY <1>2, <2>1, <2>4, <3>1, <3>2, SaveWritten, NothingWritten
  <2> QED  BY <2>2, <2>3, <2>4
<1>8. /\ DOMAIN acc \subseteq {"access"}
      /\ \A d : Then(acc, d) = IF d = "access" THEN after ELSE doc[d]
      /\ ~employee.linked => "access" \notin DOMAIN acc
      /\ ~changing => after.status \in {access.status, "suspended"}
  <2>1. after \in AccessDoc
    <3>1. branches \subseteq Branch
        BY <1>3 DEF RequestFits
    <3>2. before \in AccessDoc
      <4>1. Standing(status) \in AccessStatus \cup {"none"}
        BY <1>2 DEF Standing, AccessDoc, NoAccess, AccessStatus, access
      <4>2. access # NoAccess => Standing(status) \in AccessStatus
        BY <1>2 DEF Standing, AccessDoc, AccessStatus, access
      <4> HIDE DEF status
      <4> QED  BY <1>2, <4>2 DEF AccessDoc, access
    <3> HIDE DEF before, branches
    <3> QED  BY <3>1, <3>2, TrimFine
  <2>2. Merge("access", after) = after
    BY <1>2, <2>1, MergeAll DEF AccessDoc, NoAccess
  <2>3. ~employee.linked => acc = Nothing
    OBVIOUS
  <2>4. ~changing => after.status \in {access.status, "suspended"}
    BY <1>2 DEF Trim, AccessDoc, NoAccess, access
  <2>5. (acc = Nothing /\ after = access) \/ acc = Put("access", after)
    OBVIOUS
  <2> HIDE DEF after, acc, changing
  <2>6. CASE acc = Nothing /\ after = access
    BY <2>4, <2>6, NothingWritten DEF access
  <2>7. CASE acc = Put("access", after)
    <3>1. /\ DOMAIN Put("access", after) = {"access"}
          /\ \A d : Then(Put("access", after), d) =
                      IF d = "access" THEN Merge("access", after) ELSE doc[d]
        BY DEF Put, Then
    <3>2. DOMAIN Nothing = {}
        BY NothingWritten
    <3> QED  BY <2>2, <2>3, <2>4, <2>7, <3>1, <3>2
  <2> QED  BY <2>5, <2>6, <2>7
<1>9. /\ v.made = user.made
      /\ changing /\ status = "active" => v.standing = "on"
      /\ changing /\ status \in {"terminated", "inactive"} => v.standing = "off"
    BY <1>2 DEF UserDoc, user, User
<1>10. /\ employee.linked /\ ~changing => status = employee.status
       /\ changing \in BOOLEAN /\ (changing => employee.linked)
       /\ ~changing => "user" \notin DOMAIN use
    BY NothingWritten
<1> HIDE DEF new, v, after, emp, use, acc, changing, status, w
<1>11. /\ Then(w, "employee") = new /\ Then(w, "user") = v /\ Then(w, "access") = after
       /\ "employee" \in DOMAIN w <=> "employee" \in DOMAIN emp
       /\ "user" \in DOMAIN w <=> "user" \in DOMAIN use
       /\ "access" \in DOMAIN w <=> "access" \in DOMAIN acc
  <2>1. /\ "employee" \in DOMAIN w <=> "employee" \in DOMAIN emp
        /\ "user" \in DOMAIN w <=> "user" \in DOMAIN use
        /\ "access" \in DOMAIN w <=> "access" \in DOMAIN acc
        /\ Then(w, "employee") = Then(emp, "employee") /\ Then(w, "user") = Then(use, "user")
        /\ Then(w, "access") = Then(acc, "access")
    BY <1>1, <1>6, <1>7, <1>8 DEF Both, Then
  <2> QED  BY <1>6, <1>7, <1>8, <2>1
<1>12. /\ "employee" \notin DOMAIN w => new = employee
       /\ "user" \notin DOMAIN w => v = user
       /\ "access" \notin DOMAIN w => after = access
    BY <1>11 DEF Then, employee, user, access
<1> DEFINE ce == "employee" \in DOMAIN w
           cu == "user" \in DOMAIN w
           ca == "access" \in DOMAIN w
<1>13. Handles(employee, user, access, new, v, after, ce, cu, ca)
  <2>1. ce \in BOOLEAN /\ cu \in BOOLEAN /\ ca \in BOOLEAN
    OBVIOUS
  <2>2. /\ ~ce => new = employee
        /\ ~cu => v = user
        /\ ~ca => after = access
    BY <1>12
  <2>3. /\ ~employee.linked => ~ca
        /\ ~changing => ~cu
        /\ changing /\ status \in {"terminated", "inactive"} => cu
        /\ changing /\ status \in {"invited", "on_leave"} => ~cu
    BY <1>7, <1>8, <1>10, <1>11
  <2>4. /\ employee.status \in EmployeeStatus /\ new.status \in EmployeeStatus
        /\ new.linked = employee.linked /\ v.made = user.made
        /\ employee.linked /\ ~changing => new.status = employee.status
        /\ ~changing => ~cu /\ after.status \in {access.status, "suspended"}
        /\ changing /\ new.status = "active" => v.standing = "on"
        /\ changing /\ new.status \in {"terminated", "inactive"} => cu /\ v.standing = "off"
        /\ changing /\ new.status \in {"invited", "on_leave"} => ~cu
    BY <1>3, <1>4, <1>8, <1>9, <1>10, <2>3
  <2> HIDE DEF ce, cu, ca
  <2>5. changing \in BOOLEAN /\ (changing => employee.linked) /\ (~employee.linked => ~ca)
    BY <1>10, <2>3
  <2> DEFINE e == employee
             u == user
             a == access
  <2>6. /\ Sound(e, u, a)
        /\ e.status \in EmployeeStatus /\ new.status \in EmployeeStatus
        /\ new.linked = e.linked /\ v.made = u.made
        /\ e.linked /\ ~changing => new.status = e.status
        /\ ~changing => ~cu /\ after.status \in {a.status, "suspended"}
        /\ (changing => e.linked) /\ (~e.linked => ~ca)
        /\ ~ce => new = e
        /\ ~cu => v = u
        /\ ~ca => after = a
    BY <2>2, <2>4, <2>5
  <2>7. /\ changing /\ new.status = "active" => v.standing = "on"
        /\ changing /\ new.status \in {"terminated", "inactive"} => cu /\ v.standing = "off"
        /\ changing /\ new.status \in {"invited", "on_leave"} => ~cu
    BY <2>4
  <2> HIDE DEF e, u, a
  <2>8. Handles(e, u, a, new, v, after, ce, cu, ca)
    <3> USE DEF EmployeeStatus, Ended, Sound, Lingering
    <3>1. CASE ~e.linked
        BY <2>6, <3>1 DEF Handles
    <3>2. CASE e.linked /\ ~changing
        BY <2>6, <3>2 DEF Handles
    <3>3. CASE changing /\ new.status = "active"
        BY <2>6, <2>7, <3>3 DEF Handles
    <3>4. CASE changing /\ new.status \in {"terminated", "inactive"}
        BY <2>6, <2>7, <3>4 DEF Handles
    <3>5. CASE changing /\ new.status \in {"invited", "on_leave"}
        BY <2>6, <2>7, <3>5 DEF Handles
    <3> QED  BY <2>6, <3>1, <3>2, <3>3, <3>4, <3>5
  <2> QED  BY <2>8 DEF e, u, a
<1> QED  BY <1>11, <1>13 DEF Handled, w

\* What goes together when the account is made, with the employee or later.
LEMMA MadeHandled ==
    ASSUME Documents, Sound(employee, user, access), NEW f, NEW b,
           ~employee.linked, employee.status # "gone",
           f = [x \in DOMAIN employee |-> f[x]], b = [x \in DOMAIN access |-> b[x]],
           f.linked, f.status # "gone", f.status \in Ended => b.status # "active"
    PROVE  Handled(Both(Put("employee", f), Both(NewUser, Put("access", b))))
<1> DEFINE v == [standing |-> "on", made |-> 1]
           x == Put("employee", f)
           y == Put("user", v)
           z == Put("access", b)
           w == Both(x, Both(y, z))
<1>1. doc["user"] \in UserDoc /\ user.made = 0
    BY Typed DEF Sound, user
<1>2. NewUser = y
    BY <1>1 DEF NewUser
<1>3. Merge("employee", f) = f /\ Merge("access", b) = b
    BY MergeAll DEF employee, access
<1>4. Merge("user", v) = v
  <2>1. v = [g \in DOMAIN doc["user"] |-> v[g]]
    BY <1>1 DEF UserDoc
  <2> HIDE DEF v
  <2> QED  BY <2>1, MergeAll
<1>5. /\ DOMAIN x = {"employee"} /\ Then(x, "employee") = f
      /\ DOMAIN z = {"access"} /\ Then(z, "access") = b
    BY <1>3 DEF Put, Then
<1>6. DOMAIN y = {"user"} /\ Then(y, "user") = v
  <2> HIDE DEF v
  <2> QED  BY <1>4 DEF Put, Then
<1> HIDE DEF x, y, z, w
<1>w. w = Both(x, Both(y, z))
    BY DEF w
<1>7. /\ Then(w, "employee") = f /\ Then(w, "user") = v /\ Then(w, "access") = b
      /\ ("employee" \in DOMAIN w) = TRUE /\ ("user" \in DOMAIN w) = TRUE
      /\ ("access" \in DOMAIN w) = TRUE
  <2>1. /\ DOMAIN x \subseteq {"employee"} /\ DOMAIN y \subseteq {"user"}
        /\ DOMAIN z \subseteq {"access"}
    BY <1>5, <1>6
  <2>2. /\ "employee" \in DOMAIN w <=> "employee" \in DOMAIN x
        /\ "user" \in DOMAIN w <=> "user" \in DOMAIN y
        /\ "access" \in DOMAIN w <=> "access" \in DOMAIN z
        /\ Then(w, "employee") = Then(x, "employee") /\ Then(w, "user") = Then(y, "user")
        /\ Then(w, "access") = Then(z, "access")
    BY <1>w, <2>1 DEF Both, Then
  <2> QED  BY <1>5, <1>6, <2>2
<1>8. Handles(employee, user, access, f, v, b, TRUE, TRUE, TRUE)
    BY DEF Handles, Sound, Lingering
<1>9. Handled(w)
    BY <1>7, <1>8 DEF Handled
<1> QED  BY <1>2, <1>9 DEF w, x, z

LEMMA AccountsOpened ==
    ASSUME Shape, Documents, Sound(employee, user, access), NEW c \in Client, NEW r,
           RequestFits(r), Operation(c, r), NEW w, Open(c, w), Fine(r.op, w)
    PROVE  Handled(w)
<1>0. \A x : Open(c, x) => x = w
    BY Opened
<1>1. doc["employee"] \in EmployeeDoc /\ doc["user"] \in UserDoc /\ doc["access"] \in AccessDoc
    BY Typed
<1>2. DOMAIN employee = {"status", "branches", "bookable", "linked"}
      /\ DOMAIN access = {"status", "everywhere", "branches"}
    BY <1>1 DEF EmployeeDoc, NoEmployee, AccessDoc, NoAccess, employee, access
<1>3. CASE r.op \in {"hire", "employ"}
  <2> DEFINE hired == [status |-> r.status, branches |-> r.branches,
                       bookable |-> r.status = "active", linked |-> r.op = "employ"]
             given == Access([status |-> IF r.status = "active" THEN "active" ELSE "invited",
                              everywhere |-> r.branches = {}, branches |-> r.branches])
             rest  == IF hired.linked THEN Both(NewUser, Put("access", given)) ELSE Nothing
  <2>1. Hire(c, r)
    BY <1>3, Acts
  <2>2. employee = NoEmployee /\ Open(c, Both(Put("employee", hired), rest))
    BY <2>1 DEF Hire
  <2>3. w = Both(Put("employee", hired), rest)
    BY <1>0, <2>2
  <2>4. ~employee.linked /\ employee.status # "gone"
    BY <2>2 DEF NoEmployee
  <2>5. /\ hired.status # "gone" /\ (hired.linked <=> r.op = "employ")
        /\ hired.status = "active" \/ given.status # "active"
        /\ hired = [x \in DOMAIN employee |-> hired[x]]
        /\ given = [x \in DOMAIN access |-> given[x]]
    BY <1>2, <1>3 DEF RequestFits, EmployeeStatus, Access
  <2>6. CASE r.op = "employ"
    <3>1. w = Both(Put("employee", hired), Both(NewUser, Put("access", given)))
        BY <2>3, <2>6
    <3> HIDE DEF hired, given
    <3>2. hired.status \in Ended => given.status # "active"
        BY <2>5 DEF Ended
    <3> QED  BY <2>4, <2>5, <2>6, <3>1, <3>2, MadeHandled
  <2>7. CASE r.op = "hire"
    <3>1. w = Both(Put("employee", hired), Nothing)
        BY <2>3, <2>7
    <3> HIDE DEF hired, given
    <3>2. Merge("employee", hired) = hired
        BY <2>5, MergeAll DEF employee
    <3>3. /\ Then(w, "employee") = hired /\ Then(w, "user") = user /\ Then(w, "access") = access
          /\ ("employee" \in DOMAIN w) = TRUE /\ ("user" \in DOMAIN w) = FALSE
          /\ ("access" \in DOMAIN w) = FALSE
        BY <3>1, <3>2 DEF Both, Nothing, Put, Then, user, access
    <3>4. Handles(employee, user, access, hired, user, access, TRUE, FALSE, FALSE)
        BY <2>4, <2>5, <2>7 DEF Handles, Sound, Lingering
    <3> QED  BY <3>3, <3>4 DEF Handled
  <2> QED  BY <1>3, <2>6, <2>7
<1>4. CASE r.op = "update"
  <2>1. Update(c, r)
    BY <1>4, Acts
  <2>2. Employed /\ Open(c, Updated(r))
    BY <2>1 DEF Update
  <2> QED  BY <1>0, <1>4, <2>2, UpdatedHandled
<1>5. CASE r.op \in {"provision", "activate"}
  <2> DEFINE status == IF r.op = "activate" THEN "active" ELSE employee.status
             new    == [employee EXCEPT !.status = status, !.linked = TRUE]
             given  == Access(r)
  <2>1. Provision(c, r)
    BY <1>5, Acts
  <2>2. /\ Employed /\ ~employee.linked /\ StatusFits(status, r.status)
        /\ Open(c, Both(Put("employee", new), Both(NewUser, Put("access", given))))
    BY <2>1 DEF Provision
  <2>3. w = Both(Put("employee", new), Both(NewUser, Put("access", given)))
    BY <1>0, <2>2
  <2>4. /\ new.status = status /\ new.linked /\ given.status = r.status
        /\ new = [x \in DOMAIN employee |-> new[x]]
        /\ given = [x \in DOMAIN access |-> given[x]]
    BY <1>2 DEF Access
  <2>5. employee.status # "gone" /\ status # "gone"
    BY <2>2 DEF Employed, EmployeeStatus
  <2>6. status \in Ended => r.status # "active"
    BY <2>2 DEF StatusFits, Ended
  <2> HIDE DEF new, given, status
  <2> QED  BY <2>2, <2>3, <2>4, <2>5, <2>6, MadeHandled
<1>6. CASE r.op = "terminate"
  <2> DEFINE new  == [NoEmployee EXCEPT !.status = "gone"]
             off  == [status |-> Standing("terminated")]
             acc  == IF access = NoAccess THEN Nothing ELSE Save("access", off)
             rest == IF ~employee.linked THEN Nothing ELSE Both(Account("terminated"), acc)
             to   == [standing |-> "off"]
             v    == [user EXCEPT !.standing = "off"]
  <2>1. Terminate(c, r)
    BY <1>6, Acts
  <2>2. Employed /\ Open(c, Both(Put("employee", new), rest))
    BY <2>1 DEF Terminate
  <2>3. w = Both(Put("employee", new), rest) /\ employee.status # "gone"
    BY <1>0, <2>2 DEF Employed, EmployeeStatus
  <2>4. new.status = "gone" /\ ~new.linked /\ new = [x \in DOMAIN employee |-> new[x]]
    BY <1>2 DEF NoEmployee
  <2> HIDE DEF new
  <2>5. Merge("employee", new) = new
    BY <2>4, MergeAll DEF employee
  <2>6. CASE ~employee.linked
    <3>1. w = Both(Put("employee", new), Nothing)
        BY <2>3, <2>6
    <3>2. /\ Then(w, "employee") = new /\ Then(w, "user") = user /\ Then(w, "access") = access
          /\ ("employee" \in DOMAIN w) = TRUE /\ ("user" \in DOMAIN w) = FALSE
          /\ ("access" \in DOMAIN w) = FALSE
        BY <2>5, <3>1 DEF Both, Nothing, Put, Then, user, access
    <3>3. Handles(employee, user, access, new, user, access, TRUE, FALSE, FALSE)
        BY <2>3, <2>4, <2>6 DEF Handles, Sound, Lingering
    <3> QED  BY <3>2, <3>3 DEF Handled
  <2>7. CASE employee.linked
    <3>1. w = Both(Put("employee", new), Both(Account("terminated"), acc))
        BY <2>3, <2>7
    <3>2. Account("terminated") = Put("user", to)
        BY DEF Account, User
    <3>3. Merge("user", to) = v
        BY <1>1 DEF Merge, UserDoc, user
    <3>4. v.standing = "off" /\ v.made = user.made
        BY <1>1 DEF UserDoc, user
    <3>5. DOMAIN acc \subseteq {"access"}
      <4>1. Whole("access")
        BY Wholeness, <1>1 DEF Names, Singles
      <4> HIDE DEF off
      <4> QED  BY <4>1, SaveWritten, NothingWritten
    <3> DEFINE x == Put("employee", new)
               y == Put("user", to)
               b == Then(w, "access")
    <3> HIDE DEF to, v, acc
    <3>6. DOMAIN x = {"employee"} /\ Then(x, "employee") = new
        BY <2>5 DEF Put, Then
    <3>7. DOMAIN y = {"user"} /\ Then(y, "user") = v
        BY <3>3 DEF Put, Then
    <3> HIDE DEF x, y
    <3>8. w = Both(x, Both(y, acc))
        BY <3>1, <3>2 DEF x, y
    <3>9. /\ Then(w, "employee") = new /\ Then(w, "user") = v
          /\ ("employee" \in DOMAIN w) = TRUE /\ ("user" \in DOMAIN w) = TRUE
      <4>1. DOMAIN x \subseteq {"employee"} /\ DOMAIN y \subseteq {"user"}
        BY <3>6, <3>7
      <4>2. /\ "employee" \in DOMAIN w <=> "employee" \in DOMAIN x
            /\ "user" \in DOMAIN w <=> "user" \in DOMAIN y
            /\ Then(w, "employee") = Then(x, "employee") /\ Then(w, "user") = Then(y, "user")
        BY <3>5, <3>8, <4>1 DEF Both, Then
      <4> QED  BY <3>6, <3>7, <4>2
    <3> DEFINE ca == "access" \in DOMAIN w
    <3>10. (~ca => b = access) /\ ca \in BOOLEAN
        BY DEF Then, access
    <3> HIDE DEF b, ca
    <3>11. Handles(employee, user, access, new, v, b, TRUE, TRUE, ca)
        BY <2>3, <2>4, <2>7, <3>4, <3>10 DEF Handles, Sound, Lingering
    <3> QED  BY <3>9, <3>11 DEF Handled, b, ca
  <2> QED  BY <2>6, <2>7
<1>7. CASE r.op = "access"
  <2> DEFINE given == Access(r)
  <2>1. UpdateAccess(c, r)
    BY <1>7, Acts
  <2>2. employee.linked /\ StatusFits(employee.status, r.status) /\ Open(c, Save("access", given))
    BY <2>1 DEF UpdateAccess
  <2>3. w = Save("access", given)
    BY <1>0, <2>2
  <2>4. given.status = r.status /\ given = [x \in DOMAIN access |-> given[x]]
    BY <1>2 DEF Access
  <2> HIDE DEF given
  <2>5. Merge("access", given) = given /\ Whole("access")
    BY <2>4, MergeAll, Wholeness DEF access, Names, Singles
  <2>6. DOMAIN w \subseteq {"access"} /\ \A d : Then(w, d) = IF d = "access" THEN given ELSE doc[d]
    BY <2>3, <2>5, SaveWritten
  <2> DEFINE ca == "access" \in DOMAIN w
  <2>7. /\ Then(w, "employee") = employee /\ Then(w, "user") = user /\ Then(w, "access") = given
        /\ ("employee" \in DOMAIN w) = FALSE /\ ("user" \in DOMAIN w) = FALSE
        /\ (~ca => given = access)
    BY <2>6 DEF Then, employee, user, access
  <2>8. ca \in BOOLEAN
    OBVIOUS
  <2> HIDE DEF ca
  <2>9. employee.status \in Ended => given.status # "active"
    BY <2>2, <2>4 DEF StatusFits, Ended
  <2>10. Handles(employee, user, access, employee, user, given, FALSE, FALSE, ca)
    BY <2>2, <2>7, <2>8, <2>9 DEF Handles, Sound, Lingering
  <2> QED  BY <2>7, <2>10 DEF Handled, ca
<1>8. CASE r.op = "profile"
  <2>1. UpdateMyProfile(c, r)
    BY <1>8, Acts
  <2>2. w = Put("employee", Nothing) /\ employee.status # "gone"
    BY <1>0, <2>1 DEF UpdateMyProfile, Employed, EmployeeStatus
  <2>3. Merge("employee", Nothing) = employee
    BY <1>1, Wholeness DEF Merge, Whole, Nothing, Names, Singles, employee
  <2>4. /\ Then(w, "employee") = employee /\ Then(w, "user") = user /\ Then(w, "access") = access
        /\ ("employee" \in DOMAIN w) = TRUE /\ ("user" \in DOMAIN w) = FALSE
        /\ ("access" \in DOMAIN w) = FALSE
    BY <2>2, <2>3 DEF Put, Then, user, access
  <2>5. Handles(employee, user, access, employee, user, access, TRUE, FALSE, FALSE)
    BY <2>2 DEF Handles, Sound, Lingering
  <2> QED  BY <2>4, <2>5 DEF Handled
<1>9. CASE r.op \notin {"hire", "employ", "update", "provision", "activate", "terminate", "access",
                        "profile"}
  <2>1. DOMAIN w \cap {"employee", "user", "access"} = {}
    BY <1>9 DEF Fine, MayWrite
  <2> QED  BY <2>1, HandledElsewhere
<1> QED  BY <1>3, <1>4, <1>5, <1>6, <1>7, <1>8, <1>9


\* What was to be made of the three still will be, unless one of them is written.
LEMMA HandledStill ==
    ASSUME Accounts, NEW o \in Client, Kept(o), Sure(o)', doc' = doc
    PROVE  Handled(writes[o])'
<1>1. Sure(o) /\ writes'[o] = writes[o]
    BY DEF Kept, Sure
<1>2. Handled(writes[o])
    BY <1>1 DEF Accounts
<1> QED  BY <1>1, <1>2 DEF Handled, Then, Merge, employee, user, access

LEMMA AccountsKept ==
    ASSUME Shape, Documents, Drafts, Accounts, [Next]_vars
    PROVE  Accounts'
<1> DEFINE three == {"employee", "user", "access"}
<1>0. three \subseteq Names \ Erased /\ three \cap Offer = {}
    BY NamesAssumption DEF Names, Singles, Erased
<1>1. CASE Quiet
  <2>1. \A o \in Client : Sure(o)' => Handled(writes[o])'
    BY <1>1, HandledStill DEF Quiet
  <2> QED  BY <1>1, <2>1 DEF Quiet, Accounts, employee, user, access
<1>2. ASSUME NEW c \in Client, Opening(c) PROVE Accounts'
  <2> DEFINE r == job[c][1]
  <2>1. Operation(c, r) /\ RequestFits(r) /\ doc' = doc
    BY <1>2 DEF Opening
  <2>2. PICK w : Open(c, w) /\ Fine(r.op, w)
    BY <2>1, OperationFine DEF OpensFine
  <2>3. Handled(w)
    BY <2>1, <2>2, AccountsOpened DEF Accounts
  <2>4. writes'[c] = w
    BY <2>2, Opened
  <2>5. Handled(writes[c])'
    BY <2>1, <2>3, <2>4 DEF Handled, Then, Merge, employee, user, access
  <2>6. \A o \in Client \ {c} : Sure(o)' => Handled(writes[o])'
    BY <1>2, <2>1, HandledStill DEF Opening
  <2>7. Sound(employee, user, access)'
    BY <2>1 DEF Accounts, employee, user, access
  <2> QED  BY <2>5, <2>6, <2>7 DEF Accounts
<1>3. ASSUME NEW c \in Client, Committing(c) \/ Cascading(c),
             \A d \in three : doc'[d] = doc[d]
      PROVE  Accounts'
  <2>1. employee' = employee /\ user' = user /\ access' = access
    BY <1>3 DEF employee, user, access
  <2>2. ASSUME NEW o \in Client, Sure(o)' PROVE Handled(writes[o])'
    <3>1. Sure(o) /\ Kept(o)
      <4>1. "employee" \in Names
        BY <1>0
      <4> QED  BY <1>3, <2>2, <4>1, Alongside
    <3>2. writes'[o] = writes[o] /\ Handled(writes[o])
        BY <2>2, <3>1 DEF Kept, Sure, Accounts
    <3>3. ASSUME NEW d \in three PROVE Then(writes[o], d)' = Then(writes[o], d)
        BY <1>3, <3>2 DEF Then, Merge
    <3> QED  BY <2>1, <3>2, <3>3 DEF Handled
  <2>3. Sound(employee, user, access)'
    BY <2>1 DEF Accounts
  <2> QED  BY <2>2, <2>3 DEF Accounts
<1>4. ASSUME NEW c \in Client, Cascading(c) PROVE Accounts'
  <2>1. \A d \in three : doc'[d] = doc[d]
    BY <1>0, <1>4, Cascaded DEF Cascading, Withdrawable
  <2> QED  BY <1>3, <1>4, <2>1
<1>5. ASSUME NEW c \in Client, Committing(c) PROVE Accounts'
  <2>1. CASE \A d \in three : doc'[d] = doc[d]
    BY <1>3, <1>5, <2>1
  <2>2. CASE \E d \in three : doc'[d] # doc[d]
    <3>1. /\ \A d \in three : doc'[d] = Would(c, d)
          /\ Sure(c)
        BY <1>0, <1>5, <2>2, Surely
    <3>2. Handled(writes[c])
        BY <3>1 DEF Accounts
    <3> DEFINE f == Then(writes[c], "employee")
               v == Then(writes[c], "user")
               b == Then(writes[c], "access")
               ce == "employee" \in DOMAIN writes[c]
               cu == "user" \in DOMAIN writes[c]
               ca == "access" \in DOMAIN writes[c]
    <3>3. employee' = f /\ user' = v /\ access' = b
        BY <3>1 DEF Would, employee, user, access
    <3>4. Handles(employee, user, access, f, v, b, ce, cu, ca)
        BY <3>2 DEF Handled
    <3>5. /\ ce \in BOOLEAN /\ cu \in BOOLEAN /\ ca \in BOOLEAN
          /\ ~ce => f = employee
          /\ ~cu => v = user
          /\ ~ca => b = access
        BY DEF Then, employee, user, access
    <3>6. Sound(employee, user, access)
        BY DEF Accounts
    <3>7. Sound(employee, user, access)'
      <4> HIDE DEF f, v, b, ce, cu, ca
      <4>1. Sound(f, v, b)
        BY <3>4 DEF Handles
      <4> QED  BY <3>3, <4>1
    <3>8. ASSUME NEW o \in Client, Sure(o)' PROVE Handled(writes[o])'
      <4>1. Sure(o) /\ Kept(o) /\ o # c
        <5>1. "employee" \in Names
            BY <1>0
        <5> QED  BY <1>5, <3>8, <5>1, Alongside
      <4>2. writes'[o] = writes[o] /\ Handled(writes[o])
        BY <3>8, <4>1 DEF Kept, Sure, Accounts
      <4>3. \A d \in three : ~(d \in DOMAIN writes[c] /\ d \in DOMAIN writes[o])
        BY <1>0, <1>5, <3>8, <4>1 DEF Committing, Apart, Bulk
      <4> DEFINE g == Then(writes[o], "employee")
                 w == Then(writes[o], "user")
                 d == Then(writes[o], "access")
                 oe == "employee" \in DOMAIN writes[o]
                 ou == "user" \in DOMAIN writes[o]
                 oa == "access" \in DOMAIN writes[o]
      <4>4. Handles(employee, user, access, g, w, d, oe, ou, oa)
        BY <4>2 DEF Handled
      <4>5. /\ oe \in BOOLEAN /\ ou \in BOOLEAN /\ oa \in BOOLEAN
            /\ ~oe => g = employee
            /\ ~ou => w = user
            /\ ~oa => d = access
        BY DEF Then, employee, user, access
      <4>6. ~(ce /\ oe) /\ ~(cu /\ ou) /\ ~(ca /\ oa)
        BY <4>3
      <4>7. ASSUME NEW x \in three
            PROVE  Then(writes[o], x)' = IF x \in DOMAIN writes[o] THEN Then(writes[o], x) ELSE doc'[x]
        <5>1. x \in DOMAIN writes[o] => doc'[x] = doc[x]
            BY <1>0, <1>5, <4>3, Surely
        <5> QED  BY <4>2, <5>1 DEF Then, Merge
      <4>8. /\ Then(writes[o], "employee")' = IF oe THEN g ELSE f
            /\ Then(writes[o], "user")' = IF ou THEN w ELSE v
            /\ Then(writes[o], "access")' = IF oa THEN d ELSE b
        BY <3>3, <4>7 DEF employee, user, access
      <4> DEFINE g2 == IF oe THEN g ELSE f
                 w2 == IF ou THEN w ELSE v
                 d2 == IF oa THEN d ELSE b
      <4>9. Handled(writes[o])' <=> Handles(f, v, b, g2, w2, d2, oe, ou, oa)
        BY <3>3, <4>2, <4>8 DEF Handled
      <4> HIDE DEF f, v, b, ce, cu, ca, g, w, d, oe, ou, oa
      <4>10. Handles(f, v, b, g2, w2, d2, oe, ou, oa)
        BY <3>4, <3>5, <3>6, <4>4, <4>5, <4>6, HandlesBeside
      <4> QED  BY <4>9, <4>10
    <3> QED  BY <3>7, <3>8 DEF Accounts
  <2> QED  BY <2>1, <2>2
<1> QED  BY <1>1, <1>2, <1>4, <1>5, Steps

LEMMA AccountsAtFirst == ASSUME Init PROVE Accounts
<1>1. PICK g \in Agendas : doc = g.doc
    BY DEF Init
<1>2. InOrder(doc)
    BY <1>1, AgendaAssumption
<1>3. Documents /\ \A c \in Client : ~Sure(c)
    BY ShapeAtFirst DEF Init, InitRequests, Sure
<1>4. doc["employee"] \in EmployeeDoc
    BY <1>3, Typed
<1>5. /\ user.made = (IF employee.linked THEN 1 ELSE 0)
      /\ IF employee.linked
         THEN /\ employee.status \in EmployeeStatus /\ user.standing # "none"
              /\ employee.status = "active" => user.standing = "on"
              /\ employee.status \in {"inactive", "terminated"} => user.standing = "off"
         ELSE user = NoUser /\ access = NoAccess
    BY <1>2 DEF InOrder, employee, user, access
<1>6. Sound(employee, user, access)
    BY <1>4, <1>5 DEF Sound, Lingering, Ended, EmployeeDoc, EmployeeStatus, NoEmployee, NoUser,
       NoAccess, employee
<1> QED  BY <1>3, <1>6 DEF Accounts

\* Whoever is made inactive, terminated or deleted cannot work, whatever is asked for
\* their account at the same time, and one account is made of several asked for.
THEOREM TheDismissedAreLockedOut == Spec => []DismissedCannotWork
<1>1. Init => Sane /\ Accounts
    BY SaneAtFirst, AccountsAtFirst
<1>2. Sane /\ Accounts /\ [Next]_vars => (Sane /\ Accounts)'
    BY SaneKept, AccountsKept DEF Sane
<1>3. Accounts => DismissedCannotWork
    BY DEF Accounts, Sound, Lingering, Ended, LoggedIn, DismissedCannotWork
<1> QED  BY <1>1, <1>2, <1>3, PTL DEF Spec

-----------------------------------------------------------------------------
(* What managers do with employees *)

\* What was asked of a request when it came in, and does not change meanwhile.
Permitted(c, r) ==
    /\ r.op \in {"hire", "employ"} => MayUse(c, r.branches)
    /\ r.op = "profile" => c \in Own

Asked == \A c \in Client : pc[c] # "idle" => Permitted(c, job[c][1])

\* A request goes on with what it has been asked, under the leases it needed, or comes in.
LEMMA OldOrNew ==
    ASSUME Shape, [Next]_vars, NEW o \in Client, pc'[o] # "idle"
    PROVE  \/ pc[o] # "idle" /\ job'[o] = job[o] /\ keys'[o] = keys[o]
           \/ \E r \in asks[o] : /\ Admitted(o, r) /\ job'[o] = <<r>>
                                /\ keys'[o] = Affected(r) /\ doc' = doc
<1> DEFINE Goes(q) == pc[q] # "idle" /\ job'[q] = job[q] /\ keys'[q] = keys[q]
<1>1. CASE UNCHANGED vars
    BY <1>1 DEF vars
<1>2. ASSUME NEW c \in Client, NEW r \in asks[c], Ask(c, r)
      PROVE  Goes(o) \/ \E q \in asks[o] : /\ Admitted(o, q) /\ job'[o] = <<q>>
                                         /\ keys'[o] = Affected(q) /\ doc' = doc
  <2>1. /\ job' = [job EXCEPT ![c] = <<r>>] /\ keys' = [keys EXCEPT ![c] = Affected(r)]
        /\ doc' = doc /\ Admitted(c, r)
        /\ \A q \in Client \ {c} : pc'[q] = pc[q]
    BY <1>2 DEF Ask, Arrive, Shape
  <2> HIDE DEF Affected, Admitted
  <2> QED  BY <2>1 DEF Shape
<1>3. ASSUME NEW c \in Client, Over(c) PROVE Goes(o)
    BY <1>3 DEF Over, Shape
<1>4. ASSUME NEW c \in Client, job' = job, keys' = keys, pc[c] # "idle",
             \A q \in Client \ {c} : pc'[q] = pc[q]
      PROVE  Goes(o)
    BY <1>4
<1>5. ASSUME NEW c \in Client, Lease(c) \/ Retry(c) PROVE Goes(o)
  <2>1. job' = job /\ keys' = keys /\ pc[c] # "idle" /\ \A q \in Client \ {c} : pc'[q] = pc[q]
    BY <1>5 DEF Lease, Retry, Shape
  <2> QED  BY <1>4, <2>1
<1>6. ASSUME NEW c \in Client, job[c] # <<>>, Operation(c, job[c][1]) PROVE Goes(o)
  <2>1. PICK w : Open(c, w)
    BY <1>6, OpensReady
  <2>2. job' = job /\ keys' = keys /\ pc[c] # "idle" /\ \A q \in Client \ {c} : pc'[q] = pc[q]
    BY <2>1 DEF Open, Shape
  <2> QED  BY <1>4, <2>2
<1>7. ASSUME NEW c \in Client, Commit(c) PROVE Goes(o)
  <2>1. /\ pc[c] = "open"
        /\ Over(c) \/ \E w : Continue(c, "cascading", w) \/ Continue(c, "ready", w)
    BY <1>7 DEF Commit
  <2>2. CASE Over(c)
    BY <1>3, <2>2
  <2>3. CASE ~Over(c)
    <3>1. job' = job /\ keys' = keys /\ \A q \in Client \ {c} : pc'[q] = pc[q]
        BY <2>1, <2>3 DEF Continue, Shape
    <3> QED  BY <1>4, <2>1, <3>1
  <2> QED  BY <2>2, <2>3
<1>8. ASSUME NEW c \in Client, Cascade(c) \/ Fail(c) PROVE Goes(o)
    BY <1>3, <1>8 DEF Cascade, Fail
<1>9. ASSUME NEW k \in Key, Lapse(k) PROVE Goes(o)
    BY <1>9 DEF Lapse, requests
<1> QED  BY <1>1, <1>2, <1>5, <1>6, <1>7, <1>8, <1>9 DEF Next

LEMMA AskedKept ==
    ASSUME Shape, Asked, [Next]_vars
    PROVE  Asked'
<1> SUFFICES ASSUME NEW o \in Client, pc'[o] # "idle" PROVE Permitted(o, job'[o][1])
    BY DEF Asked, Permitted
<1>1. CASE pc[o] # "idle" /\ job'[o] = job[o]
    BY <1>1 DEF Asked
<1>2. ASSUME NEW r \in asks[o], Admitted(o, r), job'[o] = <<r>> PROVE Permitted(o, job'[o][1])
  <2>1. r.op \in {"hire", "employ", "profile"} => PersonnelAdmitted(o, r)
    BY <1>2 DEF Admitted, PersonnelOps, RosterOps, Sharing, Careless, CatalogOps, CategoryOps,
       ItemOps
  <2>2. job'[o][1] = r
    BY <1>2
  <2> QED  BY <2>1, <2>2 DEF Permitted, PersonnelAdmitted
<1> QED  BY <1>1, <1>2, OldOrNew

\* A manager about to write the employee may.
Manageable(c, w) ==
    "employee" \in DOMAIN w =>
        /\ employee # NoEmployee => Manages(c, employee.branches)
        /\ MayUse(c, Then(w, "employee").branches)

Managed == \A c \in Manager : Sure(c) => Manageable(c, writes[c])

LEMMA ManagedOpened ==
    ASSUME Shape, Documents, NEW c \in Manager, NEW r, RequestFits(r), Permitted(c, r),
           Operation(c, r), NEW w, Open(c, w), Fine(r.op, w)
    PROVE  Manageable(c, w)
<1> USE DEF Client
<1>0. \A x : Open(c, x) => x = w
    BY Opened
<1>1. employee \in EmployeeDoc /\ DOMAIN employee = {"status", "branches", "bookable", "linked"}
  <2>1. doc["employee"] \in EmployeeDoc
    BY Typed
  <2> QED  BY <2>1 DEF EmployeeDoc, NoEmployee, employee
<1>2. ASSUME NEW f, NEW x, w = Both(x, Put("employee", f)) \/ w = Both(Put("employee", f), x),
             "employee" \notin DOMAIN x
      PROVE  Then(w, "employee") = Merge("employee", f)
    BY <1>2 DEF Both, Put, Then
<1>3. ASSUME NEW bs, Manages(c, bs) PROVE MayUse(c, bs)
    BY <1>3 DEF Manages, MayUse
<1>4. CASE r.op \in {"hire", "employ"}
  <2> DEFINE hired == [status |-> r.status, branches |-> r.branches,
                       bookable |-> r.status = "active", linked |-> r.op = "employ"]
             given == Access([status |-> IF r.status = "active" THEN "active" ELSE "invited",
                              everywhere |-> r.branches = {}, branches |-> r.branches])
             rest  == IF hired.linked THEN Both(NewUser, Put("access", given)) ELSE Nothing
  <2>1. Hire(c, r)
    BY <1>4, Acts
  <2>2. employee = NoEmployee /\ Open(c, Both(Put("employee", hired), rest))
    BY <2>1 DEF Hire
  <2>3. hired.branches = r.branches
    OBVIOUS
  <2> HIDE DEF hired, rest
  <2>4. Then(w, "employee").branches = Merge("employee", hired).branches
    BY <1>0, <2>2 DEF Both, Put, Then
  <2>5. Merge("employee", hired).branches = r.branches
    BY <1>1, <2>3 DEF Merge, employee, hired
  <2> QED  BY <1>4, <2>2, <2>4, <2>5 DEF Manageable, Permitted
<1>5. CASE r.op = "update"
  <2> DEFINE status   == IF r.status = "keep" THEN employee.status ELSE r.status
             branches == IF r.everywhere THEN employee.branches ELSE r.branches
             new      == [employee EXCEPT !.status = status, !.branches = branches,
                                          !.bookable = @ /\ status = "active"]
             touched  == r.status = "keep" /\ r.everywhere
             emp      == IF touched THEN Put("employee", new) ELSE Save("employee", new)
  <2>1. Update(c, r)
    BY <1>5, Acts
  <2>2. /\ Open(c, Updated(r)) /\ Manages(c, employee.branches)
        /\ r.everywhere \/ MayUse(c, r.branches)
    BY <2>1 DEF Update
  <2>3. PICK x : w = Both(emp, x)
    BY <1>0, <2>2 DEF Updated
  <2>4. MayUse(c, branches)
    BY <1>3, <2>2
  <2>5. new.branches = branches /\ new = [x1 \in DOMAIN employee |-> new[x1]]
    BY <1>1
  <2> HIDE DEF new
  <2>6. Merge("employee", new) = new /\ Whole("employee")
    BY <2>5, MergeAll, Wholeness DEF employee, Names, Singles
  <2>7. DOMAIN emp \subseteq {"employee"} /\ Then(emp, "employee") = new
    <3>1. Put("employee", new) = emp \/ Save("employee", new) = emp
        OBVIOUS
    <3>2. /\ DOMAIN Put("employee", new) = {"employee"}
          /\ Then(Put("employee", new), "employee") = new
        BY <2>6 DEF Put, Then
    <3>3. /\ DOMAIN Save("employee", new) \subseteq {"employee"}
          /\ Then(Save("employee", new), "employee") = new
        BY <2>6, SaveWritten
    <3> QED  BY <3>1, <3>2, <3>3
  <2> HIDE DEF emp, branches
  <2>8. CASE "employee" \in DOMAIN emp
    <3>1. Then(w, "employee") = new
        BY <2>3, <2>7, <2>8 DEF Both, Then
    <3> QED  BY <2>2, <2>4, <2>5, <3>1 DEF Manageable
  <2>9. CASE "employee" \notin DOMAIN emp
    <3>1. SUFFICES "employee" \notin DOMAIN w
        BY DEF Manageable
    <3> DEFINE changing == employee.linked /\ r.status # "keep"
               before   == IF changing /\ access # NoAccess
                           THEN [access EXCEPT !.status = Standing(status)] ELSE access
               after    == IF employee.linked /\ ~r.everywhere THEN Trim(before, branches) ELSE before
               acc      == IF access = before /\ before = after THEN Nothing ELSE Put("access", after)
               use      == IF changing THEN Account(status) ELSE Nothing
    <3>2. w = Both(emp, Both(acc, use))
        BY <1>0, <2>2 DEF Updated, emp, branches, new
    <3> HIDE DEF changing, before, after, status
    <3>3. "employee" \notin DOMAIN acc
        BY DEF Put, Nothing
    <3>4. "employee" \notin DOMAIN use
        BY DEF Account, Put, Save, Nothing
    <3> HIDE DEF acc, use
    <3> QED  BY <2>9, <3>2, <3>3, <3>4 DEF Both
  <2> QED  BY <2>8, <2>9
<1>6. CASE r.op \in {"provision", "activate"}
  <2> DEFINE status == IF r.op = "activate" THEN "active" ELSE employee.status
             new    == [employee EXCEPT !.status = status, !.linked = TRUE]
             rest   == Both(NewUser, Put("access", Access(r)))
  <2>1. Provision(c, r)
    BY <1>6, Acts
  <2>2. Manages(c, employee.branches) /\ Open(c, Both(Put("employee", new), rest))
    BY <2>1 DEF Provision
  <2>3. new.branches = employee.branches /\ new = [x \in DOMAIN employee |-> new[x]]
    BY <1>1
  <2> HIDE DEF new, rest
  <2>4. Merge("employee", new) = new
    BY <2>3, MergeAll DEF employee
  <2>5. Then(w, "employee") = new
    BY <1>0, <2>2, <2>4 DEF Both, Put, Then
  <2> QED  BY <1>3, <2>2, <2>3, <2>5 DEF Manageable
<1>7. CASE r.op = "terminate"
  <2> DEFINE new  == [NoEmployee EXCEPT !.status = "gone"]
             acc  == IF access = NoAccess THEN Nothing
                     ELSE Save("access", [status |-> Standing("terminated")])
             rest == IF ~employee.linked THEN Nothing ELSE Both(Account("terminated"), acc)
  <2>1. Terminate(c, r)
    BY <1>7, Acts
  <2>2. Manages(c, employee.branches) /\ Open(c, Both(Put("employee", new), rest))
    BY <2>1 DEF Terminate
  <2>3. new.branches = {} /\ new = [x \in DOMAIN employee |-> new[x]]
    BY <1>1 DEF NoEmployee
  <2> HIDE DEF new, rest
  <2>4. Merge("employee", new) = new
    BY <2>3, MergeAll DEF employee
  <2>5. Then(w, "employee") = new
    BY <1>0, <2>2, <2>4 DEF Both, Put, Then
  <2> QED  BY <2>2, <2>3, <2>5 DEF Manageable, MayUse
<1>8. CASE r.op = "profile"
    BY <1>8, BackofficeAssumption DEF Permitted
<1>9. CASE r.op \notin {"hire", "employ", "update", "provision", "activate", "terminate", "profile"}
    BY <1>9 DEF Fine, MayWrite, Manageable
<1> QED  BY <1>4, <1>5, <1>6, <1>7, <1>8, <1>9

LEMMA ManagedStill ==
    ASSUME Managed, NEW o \in Manager, Kept(o), Sure(o)', doc'["employee"] = doc["employee"]
    PROVE  Manageable(o, writes[o])'
<1>1. Sure(o) /\ writes'[o] = writes[o]
    BY DEF Kept, Sure
<1>2. Manageable(o, writes[o])
    BY <1>1 DEF Managed
<1> QED  BY <1>1, <1>2 DEF Manageable, Then, Merge, employee

LEMMA ManagedKept ==
    ASSUME Shape, Documents, Drafts, Asked, Managed, [Next]_vars
    PROVE  Managed'
<1> USE DEF Client
<1>0. "employee" \in Names \ Erased /\ "employee" \notin Offer
    BY NamesAssumption DEF Names, Singles, Erased
<1>1. CASE Quiet
    BY <1>1, ManagedStill DEF Quiet, Managed
<1>2. ASSUME NEW c \in Client, Opening(c) PROVE Managed'
  <2> DEFINE r == job[c][1]
  <2>1. Operation(c, r) /\ RequestFits(r) /\ doc' = doc /\ pc[c] = "ready"
    BY <1>2 DEF Opening
  <2>2. PICK w : Open(c, w) /\ Fine(r.op, w)
    BY <2>1, OperationFine DEF OpensFine
  <2>3. c \in Manager => Manageable(c, w)
    BY <2>1, <2>2, ManagedOpened DEF Asked
  <2>4. writes'[c] = w
    BY <2>2, Opened
  <2>5. c \in Manager => Manageable(c, writes[c])'
    BY <2>1, <2>3, <2>4 DEF Manageable, Then, Merge, employee
  <2>6. \A o \in Manager \ {c} : Sure(o)' => Manageable(o, writes[o])'
    BY <1>2, <2>1, ManagedStill DEF Opening
  <2> QED  BY <2>5, <2>6 DEF Managed
<1>3. ASSUME NEW c \in Client, Committing(c) \/ Cascading(c), NEW o \in Manager, Sure(o)'
      PROVE  Manageable(o, writes[o])'
  <2>1. Sure(o) /\ Kept(o) /\ Beside(o, "employee")
    BY <1>0, <1>3, Alongside
  <2>2. writes'[o] = writes[o]
    BY <1>3, <2>1 DEF Kept, Sure
  <2>3. CASE "employee" \notin DOMAIN writes[o]
    BY <2>2, <2>3 DEF Manageable
  <2>4. CASE "employee" \in DOMAIN writes[o]
    <3>1. doc'["employee"] = doc["employee"]
        BY <1>0, <2>1, <2>4 DEF Beside
    <3> QED  BY <1>3, <2>1, <3>1, ManagedStill
  <2> QED  BY <2>3, <2>4
<1>4. ASSUME NEW c \in Client, Committing(c) \/ Cascading(c) PROVE Managed'
    BY <1>3, <1>4 DEF Managed
<1> QED  BY <1>1, <1>2, <1>4, Steps

\* Managers change only employees all of whose branches they see, and leave them only at
\* branches they see, when the change takes effect, whatever has changed since it was asked.
THEOREM ManagersStayAtTheirBranches == Spec => ManagersKeepToTheirBranches
<1> DEFINE Keeps(c) ==
             pc[c] = "open" /\ pc'[c] = "idle" /\ doc' # doc /\ "employee" \in DOMAIN writes[c] =>
                 /\ employee # NoEmployee => Manages(c, employee.branches)
                 /\ MayUse(c, doc'.employee.branches)
<1>1. Init => Sane /\ Asked /\ Managed
  <2> SUFFICES ASSUME Init PROVE Sane /\ Asked /\ Managed
    OBVIOUS
  <2>1. \A c \in Client : pc[c] = "idle"
    BY DEF Init, InitRequests
  <2> QED  BY <2>1, SaneAtFirst DEF Asked, Managed, Sure, Client
<1>2. Sane /\ Asked /\ Managed /\ [Next]_vars => (Sane /\ Asked /\ Managed)'
    BY SaneKept, AskedKept, ManagedKept DEF Sane
<1>3. ASSUME Sane, Managed, Next, NEW c \in Manager PROVE Keeps(c)
  <2> SUFFICES ASSUME pc[c] = "open", pc'[c] = "idle", doc' # doc, "employee" \in DOMAIN writes[c]
               PROVE  /\ employee # NoEmployee => Manages(c, employee.branches)
                      /\ MayUse(c, doc'.employee.branches)
    OBVIOUS
  <2>1. c \in Client /\ "employee" \in Names \ Erased
    BY KindsApart DEF Client
  <2>2. Committing(c)
    <3>1. PICK o \in Client : Committing(o) \/ Cascading(o)
      <4>1. [Next]_vars
        BY <1>3
      <4>2. Quiet \/ \E o \in Client : Opening(o) \/ Committing(o) \/ Cascading(o)
        BY <1>3, <4>1, Steps DEF Sane
      <4> QED  BY <4>2 DEF Quiet, Opening
    <3>2. ASSUME NEW k \in Client, Over(k) \/ \E s, w : Continue(k, s, w) PROVE c = k \/ pc'[c] = pc[c]
        BY <1>3, <2>1, <3>2 DEF Over, Continue, Sane, Shape
    <3>3. Over(o) \/ \E s, w : Continue(o, s, w)
        BY <3>1 DEF Committing, Cascading, Commit, Cascade
    <3>4. c = o
        BY <3>2, <3>3
    <3>5. Cascading(o) => pc[o] = "cascading"
        BY DEF Cascading, Cascade
    <3> QED  BY <3>1, <3>4, <3>5
  <2>3. doc'["employee"] = Would(c, "employee") /\ Sure(c)
    BY <1>3, <2>1, <2>2, Surely DEF Sane
  <2>4. Manageable(c, writes[c])
    BY <1>3, <2>3 DEF Managed
  <2> QED  BY <2>3, <2>4 DEF Manageable, Would
<1>4. Sane /\ Managed /\ [Next]_vars => [\A c \in Manager : Keeps(c)]_vars
    BY <1>3
<1> QED  BY <1>1, <1>2, <1>4, PTL DEF Spec, ManagersKeepToTheirBranches

-----------------------------------------------------------------------------
(* Versions and times off *)

Kinds == {"hours", "shift"}
Versions(k) == IF k = "hours" THEN Hours ELSE Shift

\* Working hours may be written after their lease ran out.
Orderly(k) == k = "shift" => "late" \notin mishap

Clear(x, y) ==
    ~ /\ x.status = "active" /\ y.status = "active" /\ x.at = y.at
      /\ x.from < y.until /\ y.from < x.until

Free(x, y) ==
    ~ /\ {x.status, y.status} \subseteq {"requested", "approved"}
      /\ x.from < y.until /\ y.from < x.until

\* A request about a version has the lease of the branch the version is of.
Located(c, v) == doc[v] # NoVersion /\ doc[v].at = keys[c]

Locked(c, r) ==
    /\ r.op \in {"create hours", "create shift"} => keys[c] = {r.branch}
    /\ r.op \in {"update hours", "archive hours"} => Located(c, r.version)
    /\ r.op \in {"update shift", "archive shift"} => Located(c, r.shift)
    /\ r.op \in Sharing => "time off" \in keys[c]

Keyed == \A c \in Client : pc[c] # "idle" => Locked(c, job[c][1])

\* The one version that w makes or changes is of the branch leased and stays there,
Drawn(ks, vs, w) ==
    \A v \in vs \cap DOMAIN w :
        /\ Then(w, v) # NoVersion /\ Then(w, v).at = ks /\ ks # {}
        /\ doc[v] # NoVersion => Then(w, v).at = doc[v].at
        /\ \A x \in vs \cap DOMAIN w : x = v

\* and as long as the lease is in force no other is in its way.
Cleared(vs, w) ==
    \A v \in vs \cap DOMAIN w : \A x \in vs \ {v} : Clear(Then(w, v), doc[x])

Planning ==
    \A k \in Kinds :
        /\ Orderly(k) => \A v, x \in Versions(k) : v # x => Clear(doc[v], doc[x])
        /\ \A c \in Client : Sure(c) =>
             /\ Drawn(keys[c], Versions(k), writes[c])
             /\ Valid(c) /\ Orderly(k) => Cleared(Versions(k), writes[c])

LEMMA KindsOfVersions ==
    ASSUME NEW k \in Kinds
    PROVE  /\ Versions(k) \subseteq Names \ Erased /\ Versions(k) \cap Offer = {}
           /\ \A op : \A v \in Versions(k) : MayWrite(op, v) =>
                op \in {"create hours", "update hours", "archive hours"} \cup Careless
           /\ Orderly(k) => (\A op : \A v \in Versions(k) :
                MayWrite(op, v) => op \notin Careless \/ "late" \notin mishap)
<1>1. Versions(k) = Hours \/ (Versions(k) = Shift /\ k = "shift")
    BY DEF Kinds, Versions
<1>2. Versions(k) \subseteq Names \ Erased /\ Versions(k) \cap Offer = {}
    BY <1>1, NamesAssumption DEF Names, Singles, Erased
<1>3. /\ \A op : \A v \in Hours : MayWrite(op, v) =>
            op \in {"create hours", "update hours", "archive hours"}
      /\ \A op : \A v \in Shift : MayWrite(op, v) =>
            op \in {"create shift", "update shift", "archive shift"}
    BY ZenonT(40) DEF MayWrite
<1>4. /\ {"create hours", "update hours", "archive hours"} \cap Careless = {}
      /\ {"create shift", "update shift", "archive shift"} \subseteq Careless
    BY DEF Careless
<1> QED  BY <1>1, <1>2, <1>3, <1>4 DEF Orderly

\* Versions are never unmade, and stay at their branches.
LEMMA VersionsStay ==
    ASSUME Shape, Documents, Drafts, Planning, NEW c \in Client, Committing(c) \/ Cascading(c),
           NEW k \in Kinds, NEW v \in Versions(k), doc[v] # NoVersion
    PROVE  doc'[v] # NoVersion /\ doc'[v].at = doc[v].at
<1>1. CASE Committing(c)
  <2>1. /\ doc'[v] = Would(c, v)
        /\ v \in DOMAIN writes[c] => Sure(c)
        /\ v \notin DOMAIN writes[c] => doc'[v] = doc[v]
    BY <1>1, Surely, KindsOfVersions
  <2> QED  BY <2>1 DEF Planning, Drawn, Would
<1>2. CASE Cascading(c)
  <2>1. v \in Names \ Withdrawable
    BY KindsOfVersions DEF Withdrawable
  <2> QED  BY <1>2, <2>1, Cascaded DEF Cascading
<1> QED  BY <1>1, <1>2

LEMMA KeyedKept ==
    ASSUME Shape, Documents, Drafts, Keyed, Planning, [Next]_vars
    PROVE  Keyed'
<1>0. ASSUME NEW v \in Hours \cup Shift, doc[v] # NoVersion
      PROVE  doc'[v] # NoVersion /\ doc'[v].at = doc[v].at
  <2>1. PICK k \in Kinds : v \in Versions(k)
    BY DEF Kinds, Versions
  <2>2. doc' = doc \/ \E c \in Client : Committing(c) \/ Cascading(c)
    BY Steps DEF Quiet, Opening
  <2> QED  BY <1>0, <2>1, <2>2, VersionsStay
<1>1. ASSUME NEW o \in Client, pc[o] # "idle", NEW r, r = job[o][1], keys'[o] = keys[o]
      PROVE  Locked(o, r)'
  <2>1. RequestFits(r) /\ Locked(o, r)
    BY <1>1 DEF Shape, Keyed
  <2>2. /\ r.op \in {"update hours", "archive hours"} => r.version \in Hours
        /\ r.op \in {"update shift", "archive shift"} => r.shift \in Shift
    BY <2>1 DEF RequestFits
  <2>3. ASSUME NEW v \in Hours \cup Shift, Located(o, v)
        PROVE  Located(o, v)'
    BY <2>3, <1>0, <1>1 DEF Located
  <2>4. /\ r.op \in {"update hours", "archive hours"} => Located(o, r.version)'
        /\ r.op \in {"update shift", "archive shift"} => Located(o, r.shift)'
    BY <2>1, <2>2, <2>3 DEF Locked
  <2> QED  BY <1>1, <2>1, <2>4 DEF Locked
<1>2. ASSUME NEW o \in Client, NEW r \in asks[o], Admitted(o, r), job'[o] = <<r>>,
             keys'[o] = Affected(r), doc' = doc
      PROVE  Locked(o, job[o][1])'
  <2>1. r.op \in {"create hours", "create shift"} => keys'[o] = {r.branch}
    BY <1>2, LeasesNeeded
  <2>2. /\ r.op \in {"update hours", "archive hours"} => doc[r.version] # NoVersion
        /\ r.op \in {"update shift", "archive shift"} => doc[r.shift] # NoVersion
    <3>1. r.op \in {"update hours", "archive hours"} => PremisesAdmitted(o, r)
        BY <1>2 DEF Admitted, PersonnelOps, RosterOps, Sharing, Careless, CatalogOps, CategoryOps,
           ItemOps
    <3>2. r.op \in {"update shift", "archive shift"} => RosterAdmitted(o, r)
        BY <1>2 DEF Admitted, PersonnelOps, RosterOps, Sharing, Careless, CatalogOps, CategoryOps,
           ItemOps
    <3> QED  BY <3>1, <3>2 DEF PremisesAdmitted, RosterAdmitted
  <2>3. /\ r.op \in {"update hours", "archive hours"} => keys'[o] = doc[r.version].at
        /\ r.op \in {"update shift", "archive shift"} => keys'[o] = doc[r.shift].at
    BY <1>2, LeasesNeeded
  <2>4. r.op \in Sharing => "time off" \in keys'[o]
    <3>1. r.op \in Sharing => RosterAffected(r) = Affected(r)
        BY DEF Affected, PersonnelOps, RosterOps, CatalogOps, CategoryOps, ItemOps, Sharing, Careless
    <3>2. r.op \in Sharing => "time off" \in RosterAffected(r)
        BY DEF RosterAffected, Sharing
    <3> QED  BY <1>2, <3>1, <3>2
  <2>5. job'[o][1] = r
    BY <1>2
  <2> QED  BY <1>2, <2>1, <2>2, <2>3, <2>4, <2>5 DEF Locked, Located
<1>3. ASSUME NEW o \in Client, pc'[o] # "idle" PROVE Locked(o, job[o][1])'
  <2>1. CASE pc[o] # "idle" /\ job'[o] = job[o] /\ keys'[o] = keys[o]
    BY <1>1, <2>1
  <2>2. CASE \E r \in asks[o] : Admitted(o, r) /\ job'[o] = <<r>> /\ keys'[o] = Affected(r) /\ doc' = doc
    BY <1>2, <2>2
  <2> QED  BY <1>3, <2>1, <2>2, OldOrNew
<1> QED  BY <1>3 DEF Keyed


\* A version that may be made or changed so is in nobody's way.
LEMMA VersionDrawn ==
    ASSUME NEW k \in Kinds, NEW v \in Versions(k), NEW new, new # NoVersion, NEW ks, ks # {},
           new.at = ks, doc[v] # NoVersion => new.at = doc[v].at,
           Versionable(Versions(k) \ {v}, new),
           NEW w, DOMAIN w \subseteq {v}, Then(w, v) = new
    PROVE  Drawn(ks, Versions(k), w) /\ Cleared(Versions(k), w)
<1>1. Drawn(ks, Versions(k), w)
    BY DEF Drawn
<1>2. \A x \in Versions(k) \ {v} : Clear(new, doc[x])
    BY DEF Versionable, Overlapping, Clear
<1> QED  BY <1>1, <1>2 DEF Cleared

LEMMA HoursOpened ==
    ASSUME Shape, Documents, NEW c \in Client, NEW r, RequestFits(r), Locked(c, r),
           Operation(c, r), NEW w, Open(c, w),
           r.op \in {"create hours", "update hours", "archive hours"}
    PROVE  Drawn(keys[c], Hours, w) /\ Cleared(Hours, w)
<1> DEFINE v == r.version
<1>0. v \in Hours /\ doc[v] \in VersionDoc /\ "hours" \in Kinds /\ Versions("hours") = Hours
    BY Typed DEF RequestFits, Kinds, Versions
<1>1. ASSUME NEW x, Open(c, x) PROVE x = w
  <2>1. writes'[c] = w
    BY Opened
  <2>2. writes'[c] = x
    BY <1>1, Opened
  <2> QED  BY <2>1, <2>2
<1>2. Whole(v)
    BY <1>0, Wholeness DEF Names
<1>3. CASE r.op = "create hours"
  <2> DEFINE new == [status |-> r.status, at |-> {r.branch}, from |-> r.from, until |-> r.until]
  <2>1. doc[v] = NoVersion /\ Versionable(Hours, new) /\ Open(c, Put(v, new))
    BY <1>3, Acts DEF CreateHours
  <2>2. w = Put(v, new) /\ keys[c] = {r.branch} /\ new.at = {r.branch} /\ new.at # {}
    BY <1>1, <1>3, <2>1 DEF Locked
  <2>3. new # NoVersion
    BY DEF NoVersion
  <2>4. Merge(v, new) = new
    BY <2>1 DEF Merge, NoVersion
  <2>5. Versionable(Hours \ {v}, new)
    BY <2>1 DEF Versionable, Overlapping
  <2> HIDE DEF new, v
  <2>6. DOMAIN w \subseteq {v} /\ Then(w, v) = new
    BY <2>2, <2>4 DEF Put, Then
  <2> QED  BY <1>0, <2>1, <2>2, <2>3, <2>5, <2>6, VersionDrawn
<1>4. CASE r.op = "update hours"
  <2> DEFINE new == [doc[v] EXCEPT !.status = r.status, !.from = r.from, !.until = r.until]
  <2>1. Versionable(Hours \ {v}, new) /\ Open(c, Save(v, new)) /\ doc[v] # NoVersion
    BY <1>4, Acts DEF UpdateHours
  <2>2. doc[v].at = keys[c] /\ doc[v].at # {}
    BY <1>0, <1>4, <2>1 DEF Locked, Located, VersionDoc, One
  <2>3. new.at = doc[v].at /\ DOMAIN new = DOMAIN doc[v] /\ Merge(v, new) = new
    BY <1>0 DEF Merge, VersionDoc, NoVersion
  <2>4. new # NoVersion
    BY <2>2, <2>3 DEF NoVersion
  <2> HIDE DEF new, v
  <2>5. DOMAIN w \subseteq {v} /\ Then(w, v) = new
    <3>1. w = Save(v, new)
        BY <1>1, <2>1
    <3> QED  BY <1>2, <2>3, <3>1, SaveWritten
  <2> QED  BY <1>0, <2>1, <2>2, <2>3, <2>4, <2>5, VersionDrawn
<1>5. CASE r.op = "archive hours"
  <2> DEFINE new == [doc[v] EXCEPT !.status = "archived"]
  <2>1. Open(c, Save(v, new))
    BY <1>5, Acts DEF ArchiveHours
  <2>2. doc[v] # NoVersion /\ doc[v].at = keys[c] /\ doc[v].at # {}
    BY <1>0, <1>5 DEF Locked, Located, VersionDoc, One
  <2>3. /\ new.at = doc[v].at /\ new.status = "archived"
        /\ Merge(v, new) = new
    BY <1>0 DEF Merge, VersionDoc, NoVersion
  <2>4. new # NoVersion
    BY <2>2, <2>3 DEF NoVersion
  <2> HIDE DEF new, v
  <2>5. DOMAIN w \subseteq {v} /\ Then(w, v) = new
    <3>1. w = Save(v, new)
        BY <1>1, <2>1
    <3>2. DOMAIN Save(v, new) \subseteq {v} /\ Then(Save(v, new), v) = Merge(v, new)
        BY <1>2, SaveWritten
    <3> QED  BY <2>3, <3>1, <3>2
  <2>6. Versionable(Hours \ {v}, new)
    BY <2>3 DEF Versionable
  <2> QED  BY <1>0, <2>1, <2>2, <2>3, <2>4, <2>5, <2>6, VersionDrawn
<1> QED  BY <1>3, <1>4, <1>5

LEMMA ShiftOpened ==
    ASSUME Shape, Documents, NEW c \in Client, NEW r, RequestFits(r), Locked(c, r),
           Operation(c, r), NEW w, Open(c, w),
           r.op \in {"create shift", "update shift", "archive shift"}
    PROVE  Drawn(keys[c], Shift, w) /\ Cleared(Shift, w)
<1> DEFINE v == r.shift
<1>0. v \in Shift /\ doc[v] \in VersionDoc /\ "shift" \in Kinds /\ Versions("shift") = Shift
    BY Typed DEF RequestFits, Kinds, Versions
<1>1. ASSUME NEW x, Open(c, x) PROVE x = w
  <2>1. writes'[c] = w
    BY Opened
  <2>2. writes'[c] = x
    BY <1>1, Opened
  <2> QED  BY <2>1, <2>2
<1>2. Whole(v)
    BY <1>0, Wholeness DEF Names
<1>3. CASE r.op = "create shift"
  <2> DEFINE new == [status |-> r.status, at |-> {r.branch}, from |-> r.from, until |-> r.until]
  <2>1. doc[v] = NoVersion /\ Versionable(Shift, new) /\ Open(c, Put(v, new))
    BY <1>3, Acts DEF CreateShift
  <2>2. w = Put(v, new) /\ keys[c] = {r.branch} /\ new.at = {r.branch} /\ new.at # {}
    BY <1>1, <1>3, <2>1 DEF Locked
  <2>3. new # NoVersion
    BY DEF NoVersion
  <2>4. Merge(v, new) = new
    BY <2>1 DEF Merge, NoVersion
  <2>5. Versionable(Shift \ {v}, new)
    BY <2>1 DEF Versionable, Overlapping
  <2> HIDE DEF new, v
  <2>6. DOMAIN w \subseteq {v} /\ Then(w, v) = new
    BY <2>2, <2>4 DEF Put, Then
  <2> QED  BY <1>0, <2>1, <2>2, <2>3, <2>5, <2>6, VersionDrawn
<1>4. CASE r.op = "update shift"
  <2> DEFINE new == [doc[v] EXCEPT !.status = r.status, !.from = r.from, !.until = r.until]
  <2>1. Versionable(Shift \ {v}, new) /\ Open(c, Save(v, new))
    BY <1>4, Acts DEF UpdateShift
  <2>2. doc[v] # NoVersion /\ doc[v].at = keys[c] /\ doc[v].at # {}
    BY <1>0, <1>4 DEF Locked, Located, VersionDoc, One
  <2>3. new.at = doc[v].at /\ DOMAIN new = DOMAIN doc[v] /\ Merge(v, new) = new
    BY <1>0 DEF Merge, VersionDoc, NoVersion
  <2>4. new # NoVersion
    BY <2>2, <2>3 DEF NoVersion
  <2> HIDE DEF new, v
  <2>5. DOMAIN w \subseteq {v} /\ Then(w, v) = new
    <3>1. w = Save(v, new)
        BY <1>1, <2>1
    <3> QED  BY <1>2, <2>3, <3>1, SaveWritten
  <2> QED  BY <1>0, <2>1, <2>2, <2>3, <2>4, <2>5, VersionDrawn
<1>5. CASE r.op = "archive shift"
  <2> DEFINE new == [doc[v] EXCEPT !.status = "archived"]
  <2>1. Open(c, Save(v, [status |-> "archived"]))
    BY <1>5, Acts DEF ArchiveShift
  <2>2. doc[v] # NoVersion /\ doc[v].at = keys[c] /\ doc[v].at # {}
    BY <1>0, <1>5 DEF Locked, Located, VersionDoc, One
  <2>a. doc[v] \in [status : {"draft", "active", "archived"}, at : One(Branch), from : Nat, until : Nat]
    BY <1>0, <2>2 DEF VersionDoc
  <2>3. /\ new.at = doc[v].at /\ new.status = "archived"
        /\ Merge(v, [status |-> "archived"]) = new
    <3> DEFINE change == [status |-> "archived"]
    <3>1. DOMAIN change = {"status"} /\ change["status"] = "archived"
        OBVIOUS
    <3> HIDE DEF change, v
    <3>2. Merge(v, change) = [doc[v] EXCEPT !.status = "archived"]
        BY <2>a, <3>1 DEF Merge
    <3> QED  BY <2>a, <3>2 DEF change
  <2>4. new # NoVersion
    BY <2>2, <2>3 DEF NoVersion
  <2>5. DOMAIN w \subseteq {v} /\ Then(w, v) = new
    <3>1. w = Save(v, [status |-> "archived"])
        BY <1>1, <2>1
    <3> DEFINE change == [status |-> "archived"]
    <3> HIDE DEF change, new, v
    <3> QED  BY ZenonT(40), <1>2, <2>3, <3>1, SaveWritten DEF change
  <2> HIDE DEF new, v
  <2>6. Versionable(Shift \ {v}, new)
    BY <2>3 DEF Versionable
  <2> QED  BY <1>0, <2>1, <2>2, <2>3, <2>4, <2>5, <2>6, VersionDrawn
<1> QED  BY <1>3, <1>4, <1>5

LEMMA PlanningOpened ==
    ASSUME Shape, Documents, NEW c \in Client, NEW r, RequestFits(r), Locked(c, r),
           Operation(c, r), NEW w, Open(c, w), Fine(r.op, w), NEW k \in Kinds
    PROVE  Drawn(keys[c], Versions(k), w) /\ Cleared(Versions(k), w)
<1>1. CASE Versions(k) \cap DOMAIN w = {}
    BY <1>1 DEF Drawn, Cleared
<1>2. CASE Versions(k) \cap DOMAIN w # {}
  <2>1. PICK v \in Versions(k) : MayWrite(r.op, v)
    BY <1>2 DEF Fine
  <2>2. CASE k = "hours"
    <3>1. r.op \in {"create hours", "update hours", "archive hours"}
        BY <2>1, <2>2 DEF MayWrite, Versions
    <3> QED  BY <2>2, <3>1, HoursOpened DEF Versions
  <2>3. CASE k = "shift"
    <3>1. r.op \in {"create shift", "update shift", "archive shift"}
        BY <2>1, <2>3 DEF MayWrite, Versions
    <3> QED  BY <2>3, <3>1, ShiftOpened DEF Versions
  <2> QED  BY <2>2, <2>3 DEF Kinds
<1> QED  BY <1>1, <1>2

LEMMA PlanningKept ==
    ASSUME Shape, Leases, Documents, Drafts, Keyed, Planning, [Next]_vars
    PROVE  Planning'
<1> DEFINE Distinct(k)   == \A v, x \in Versions(k) : v # x => Clear(doc[v], doc[x])
           Planned(k, o) ==
             /\ Drawn(keys[o], Versions(k), writes[o])
             /\ Valid(o) /\ Orderly(k) => Cleared(Versions(k), writes[o])
<1>0. ASSUME NEW k \in Kinds
      PROVE  /\ Orderly(k) => Distinct(k)
             /\ \A c \in Client : Sure(c) => Planned(k, c)
    BY DEF Planning
<1>1. ASSUME mishap \subseteq mishap', NEW k \in Kinds, Orderly(k)' PROVE Orderly(k)
    BY <1>1 DEF Orderly
<1>2. ASSUME NEW o \in Client, Kept(o), doc' = doc, mishap \subseteq mishap', NEW k \in Kinds, Sure(o)'
      PROVE  Planned(k, o)'
  <2>1. Sure(o) /\ writes'[o] = writes[o] /\ keys'[o] = keys[o] /\ (Valid(o)' => Valid(o))
    BY <1>2 DEF Kept, Sure
  <2>2. Planned(k, o)
    BY <1>0, <2>1
  <2>3. Drawn(keys[o], Versions(k), writes[o])'
    BY <1>2, <2>1, <2>2 DEF Drawn, Then, Merge
  <2>4. Cleared(Versions(k), writes[o]) => Cleared(Versions(k), writes[o])'
    BY <1>2, <2>1 DEF Cleared, Then, Merge
  <2> QED  BY <1>1, <1>2, <2>1, <2>2, <2>3, <2>4
<1>3. ASSUME doc' = doc, mishap \subseteq mishap', NEW k \in Kinds, Orderly(k)' PROVE Distinct(k)'
    BY <1>0, <1>1, <1>3
<1>4. CASE Quiet
    BY <1>2, <1>3, <1>4 DEF Quiet, Planning
<1>5. ASSUME NEW c \in Client, Opening(c) PROVE Planning'
  <2> DEFINE r == job[c][1]
  <2>1. /\ Operation(c, r) /\ RequestFits(r) /\ doc' = doc /\ mishap' = mishap
        /\ keys' = keys /\ pc[c] # "idle" /\ Locked(c, r)
    BY <1>5 DEF Opening, Keyed
  <2>2. PICK w : Open(c, w) /\ Fine(r.op, w)
    BY <2>1, OperationFine DEF OpensFine
  <2>3. writes'[c] = w
    BY <2>2, Opened
  <2>4. ASSUME NEW k \in Kinds PROVE Planned(k, c)'
    <3>1. Drawn(keys[c], Versions(k), w) /\ Cleared(Versions(k), w)
        BY <2>1, <2>2, PlanningOpened
    <3> QED  BY <2>1, <2>3, <3>1 DEF Drawn, Cleared, Then, Merge
  <2>5. \A k \in Kinds : \A o \in Client : Sure(o)' => Planned(k, o)'
    BY <1>2, <1>5, <2>1, <2>4 DEF Opening
  <2> QED  BY <1>3, <2>1, <2>5 DEF Planning
<1>6. ASSUME NEW c \in Client, Committing(c) \/ Cascading(c), NEW k \in Kinds, NEW x \in Versions(k),
             doc'[x] # doc[x]
      PROVE  /\ Committing(c) /\ Sure(c) /\ x \in DOMAIN writes[c] /\ doc'[x] = Would(c, x)
             /\ Orderly(k)' => Valid(c)
  <2>1. x \in Names \ Erased /\ x \in Names \ Withdrawable
    BY KindsOfVersions DEF Withdrawable
  <2>2. Committing(c)
    BY <1>6, <2>1, Cascaded DEF Cascading
  <2>3. x \in DOMAIN writes[c] /\ Sure(c) /\ doc'[x] = Would(c, x)
    BY <1>6, <2>1, <2>2, Surely
  <2>4. MayWrite(Op(c), x)
    BY <2>3 DEF Drafts, Sure
  <2>5. /\ Op(c) \notin Careless => Valid(c)
        /\ "late" \notin mishap' => Valid(c)
    BY <2>2, Committed DEF Committing
  <2>6. Orderly(k)' => Op(c) \notin Careless \/ "late" \notin mishap'
    <3>1. k = "hours" => Op(c) \notin Careless
        BY <2>4 DEF MayWrite, Versions, Careless
    <3> QED  BY <3>1 DEF Kinds, Orderly
  <2> QED  BY <2>2, <2>3, <2>5, <2>6
<1>7. ASSUME NEW c \in Client, Committing(c) \/ Cascading(c), NEW k \in Kinds, Orderly(k)'
      PROVE  Distinct(k)'
  <2>0. Orderly(k)
    <3>1. mishap \subseteq mishap'
        BY <1>7, Committed, Cascaded DEF Committing, Cascading
    <3> QED  BY <1>1, <1>7, <3>1
  <2>1. ASSUME NEW v \in Versions(k), NEW x \in Versions(k), v # x, doc'[v] # doc[v]
        PROVE  Clear(doc'[v], doc'[x])
    <3>1. Sure(c) /\ v \in DOMAIN writes[c] /\ doc'[v] = Would(c, v) /\ Valid(c)
        BY <1>6, <1>7, <2>1
    <3>2. Planned(k, c)
        BY <1>0, <3>1
    <3>3. x \notin DOMAIN writes[c]
        BY <2>1, <3>1, <3>2 DEF Drawn
    <3>4. doc'[x] = doc[x]
        BY <1>6, <1>7, <3>3
    <3>5. Cleared(Versions(k), writes[c])
        BY <2>0, <3>1, <3>2
    <3>6. Clear(Then(writes[c], v), doc[x])
        BY <2>1, <3>1, <3>5 DEF Cleared
    <3> QED  BY <3>1, <3>4, <3>6 DEF Would
  <2>2. \A y, z : Clear(y, z) => Clear(z, y)
    BY DEF Clear
  <2>3. ASSUME NEW v \in Versions(k), NEW x \in Versions(k), v # x PROVE Clear(doc'[v], doc'[x])
    <3>1. CASE doc'[v] # doc[v]
        BY <2>1, <2>3, <3>1
    <3>2. CASE doc'[x] # doc[x]
      <4>1. Clear(doc'[x], doc'[v])
        BY <2>1, <2>3, <3>2
      <4> QED  BY <2>2, <4>1
    <3>3. CASE doc'[v] = doc[v] /\ doc'[x] = doc[x]
        BY <1>0, <2>0, <2>3, <3>3
    <3> QED  BY <3>1, <3>2, <3>3
  <2> QED  BY <2>3 DEF Clear
<1>8. ASSUME NEW c \in Client, Committing(c) \/ Cascading(c), NEW k \in Kinds, NEW o \in Client,
             Sure(o)'
      PROVE  Planned(k, o)'
  <2>1. /\ Sure(o) /\ o # c /\ writes'[o] = writes[o] /\ keys'[o] = keys[o]
        /\ (Valid(o)' => Valid(o)) /\ \A d \in Names : Beside(o, d)
    <3>1. Names # {}
        BY DEF Names, Singles
    <3> QED  BY <1>8, <3>1, Alongside DEF Kept, Sure
  <2>2. Planned(k, o)
    BY <1>0, <2>1
  <2>3. ASSUME NEW v \in Versions(k) \cap DOMAIN writes[o]
        PROVE  doc'[v] = doc[v] /\ Would(o, v)' = Would(o, v)
    <3>1. Beside(o, v) /\ v \notin Offer
        BY <2>1, KindsOfVersions
    <3> QED  BY <3>1 DEF Beside
  <2>4. Drawn(keys[o], Versions(k), writes[o])'
    BY <2>1, <2>2, <2>3 DEF Drawn, Would
  <2>5. ASSUME Valid(o)', Orderly(k)', NEW v \in Versions(k) \cap DOMAIN writes[o],
               NEW x \in Versions(k) \ {v}
        PROVE  Clear(Would(o, v), doc'[x])
    <3>0. Valid(o) /\ Orderly(k)
      <4>1. mishap \subseteq mishap'
        BY <1>8, Committed, Cascaded DEF Committing, Cascading
      <4> QED  BY <1>1, <2>1, <2>5, <4>1
    <3>1. Clear(Would(o, v), doc[x])
        BY <2>2, <2>5, <3>0 DEF Cleared, Would
    <3>2. CASE doc'[x] = doc[x]
        BY <3>1, <3>2
    <3>3. CASE doc'[x] # doc[x]
      <4>1. Sure(c) /\ x \in DOMAIN writes[c] /\ doc'[x] = Would(c, x) /\ Valid(c)
        BY <1>6, <1>8, <2>5, <3>3
      <4>2. Planned(k, c)
        BY <1>0, <4>1
      <4>3. Would(c, x).at = keys[c] /\ keys[c] # {} /\ Would(o, v).at = keys[o]
        BY <2>2, <4>1, <4>2 DEF Drawn, Would
      <4>4. CASE Would(c, x).at # Would(o, v).at
        BY <4>1, <4>4 DEF Clear
      <4>5. CASE Would(c, x).at = Would(o, v).at
        <5>1. PICK key \in keys[c] : key \in keys[o] /\ key \in Key
            BY <4>3, <4>5 DEF Shape
        <5>2. Op(o) \in Sharing
            BY <2>1, <3>0, <4>1, <5>1, Exclusive
        <5>3. MayWrite(Op(o), v)
            BY <2>1 DEF Drafts, Sure
        <5>4. Op(o) \in {"create hours", "update hours", "archive hours"} \cup Careless
            BY <5>3, KindsOfVersions
        <5> QED  BY <5>2, <5>4 DEF Sharing, Careless
      <4> QED  BY <4>4, <4>5
    <3> QED  BY <3>2, <3>3
  <2>6. Valid(o)' /\ Orderly(k)' => Cleared(Versions(k), writes[o])'
    BY <2>1, <2>3, <2>5 DEF Cleared, Would
  <2> QED  BY <2>4, <2>6
<1>9. ASSUME NEW c \in Client, Committing(c) \/ Cascading(c) PROVE Planning'
    BY <1>7, <1>8, <1>9 DEF Planning
<1> QED  BY <1>4, <1>5, <1>9, Steps


\* The one time off that w asks for or decides,
Single(w) == \A v, x \in Leave \cap DOMAIN w : v = x

\* and as long as the lock on the employee is in force no other is in its way.
Leaving(w) == \A v \in Leave \cap DOMAIN w : \A x \in Leave \ {v} : Free(Then(w, v), doc[x])

Absences ==
    /\ \A v, x \in Leave : v # x => Free(doc[v], doc[x])
    /\ \A c \in Client : Sure(c) => Single(writes[c]) /\ (Valid(c) => Leaving(writes[c]))

LEMMA LeaveMerged ==
    ASSUME Documents, NEW v \in Leave, NEW s
    PROVE  /\ Merge(v, [status |-> s]).status = s
           /\ Merge(v, [status |-> s]).from = doc[v].from
           /\ Merge(v, [status |-> s]).until = doc[v].until
<1>1. doc[v] \in LeaveDoc
    BY Typed
<1>2. {"status", "from", "until"} \subseteq DOMAIN doc[v]
    BY <1>1 DEF LeaveDoc, NoLeave
<1> QED  BY <1>2 DEF Merge

LEMMA LeaveOpened ==
    ASSUME Shape, Documents, \A v, x \in Leave : v # x => Free(doc[v], doc[x]),
           NEW c \in Client, NEW r, RequestFits(r), Operation(c, r), NEW w, Open(c, w),
           r.op \in Sharing
    PROVE  Single(w) /\ Leaving(w)
<1> DEFINE v == r.leave
<1>0. v \in Leave /\ doc[v] \in LeaveDoc /\ v \in Names
    BY Typed DEF RequestFits, Sharing, Names
<1>1. ASSUME NEW x, Open(c, x) PROVE x = w
  <2>1. writes'[c] = w
    BY Opened
  <2>2. writes'[c] = x
    BY <1>1, Opened
  <2> QED  BY <2>1, <2>2
<1>2. Whole(v)
    BY <1>0, Wholeness
<1>3. ASSUME DOMAIN w \subseteq {v}, \A x \in Leave \ {v} : Free(Then(w, v), doc[x])
      PROVE  Single(w) /\ Leaving(w)
    BY <1>3 DEF Single, Leaving
<1>4. ASSUME NEW s, Open(c, Save(v, [status |-> s]))
      PROVE  /\ DOMAIN w \subseteq {v} /\ Then(w, v).status = s
             /\ Then(w, v).from = doc[v].from /\ Then(w, v).until = doc[v].until
  <2> DEFINE change == [status |-> s]
  <2> HIDE DEF change
  <2>1. w = Save(v, change)
    BY <1>1, <1>4 DEF change
  <2>2. DOMAIN Save(v, change) \subseteq {v} /\ Then(Save(v, change), v) = Merge(v, change)
    BY <1>2, SaveWritten
  <2>3. /\ Merge(v, change).status = s
        /\ Merge(v, change).from = doc[v].from /\ Merge(v, change).until = doc[v].until
    BY <1>0, LeaveMerged DEF change
  <2> QED  BY <2>1, <2>2, <2>3
<1>5. ASSUME NEW s \in {"rejected", "cancelled"}, Open(c, Save(v, [status |-> s]))
      PROVE  Single(w) /\ Leaving(w)
  <2>1. DOMAIN w \subseteq {v} /\ Then(w, v).status = s
    BY <1>4, <1>5
  <2>2. \A x \in Leave \ {v} : Free(Then(w, v), doc[x])
    BY <1>5, <2>1 DEF Free
  <2> QED  BY <1>3, <2>1, <2>2
<1>6. CASE r.op = "take off"
  <2> DEFINE new == [status |-> "requested", everywhere |-> r.everywhere,
                     branches |-> IF r.everywhere THEN {} ELSE r.branches,
                     from |-> r.from, until |-> r.until]
  <2>1. /\ doc[v] = NoLeave /\ Open(c, Put(v, new))
        /\ \A x \in Pending(Leave) : ~Meeting(x, r.from, r.until)
    BY <1>6, Acts DEF TakeOff
  <2>2. Merge(v, new) = new
    BY <2>1 DEF Merge, NoLeave
  <2>3. new.status = "requested" /\ new.from = r.from /\ new.until = r.until
    OBVIOUS
  <2> HIDE DEF new, v
  <2>4. w = Put(v, new)
    BY <1>1, <2>1
  <2>5. DOMAIN w \subseteq {v} /\ Then(w, v) = new
    BY <2>2, <2>4 DEF Put, Then
  <2>6. \A x \in Leave \ {v} : Free(new, doc[x])
    BY <2>1, <2>3 DEF Pending, Meeting, Free
  <2> QED  BY <1>3, <2>5, <2>6
<1>7. CASE r.op = "withdraw"
  <2>1. Open(c, Save(v, [status |-> "cancelled"]))
    BY <1>7, Acts DEF Withdraw
  <2> QED  BY <1>5, <2>1
<1>8. CASE r.op \in {"approve", "reject", "call off"}
  <2>1. /\ Open(c, Save(v, [status |-> Decision[r.op]]))
        /\ \/ doc[v].status \in {"requested", Decision[r.op]}
           \/ r.op = "call off" /\ doc[v].status = "approved"
    BY <1>8, Acts DEF DecideTimeOff
  <2>2. /\ Decision["approve"] = "approved" /\ Decision["reject"] = "rejected"
        /\ Decision["call off"] = "cancelled"
    BY DEF Decision
  <2>3. CASE r.op # "approve"
    BY <1>5, <1>8, <2>1, <2>2, <2>3
  <2>4. CASE r.op = "approve"
    <3>1. doc[v].status \in {"requested", "approved"}
        BY <2>1, <2>2, <2>4
    <3>2. /\ DOMAIN w \subseteq {v} /\ Then(w, v).status = "approved"
          /\ Then(w, v).from = doc[v].from /\ Then(w, v).until = doc[v].until
        BY <1>4, <2>1, <2>2, <2>4
    <3>3. \A x \in Leave \ {v} : Free(doc[v], doc[x])
        BY <1>0
    <3>4. \A x \in Leave \ {v} : Free(Then(w, v), doc[x])
        BY <3>1, <3>2, <3>3 DEF Free
    <3> QED  BY <1>3, <3>2, <3>4
  <2> QED  BY <2>3, <2>4
<1> QED  BY <1>6, <1>7, <1>8 DEF Sharing

LEMMA AbsencesKept ==
    ASSUME Shape, Leases, Documents, Drafts, Keyed, Absences, [Next]_vars
    PROVE  Absences'
<1> DEFINE Absent(o) == Single(writes[o]) /\ (Valid(o) => Leaving(writes[o]))
           Distinct  == \A v, x \in Leave : v # x => Free(doc[v], doc[x])
<1>0. Distinct /\ \A o \in Client : Sure(o) => Absent(o)
    BY DEF Absences
<1>1. ASSUME NEW v \in Leave PROVE v \in Names \ Erased /\ v \in Names \ Withdrawable /\ v \notin Offer
    BY NamesAssumption, KindsApart DEF Withdrawable
<1>2. ASSUME NEW o \in Client, Kept(o), doc' = doc, Sure(o)' PROVE Absent(o)'
  <2>1. Sure(o) /\ writes'[o] = writes[o] /\ (Valid(o)' => Valid(o))
    BY <1>2 DEF Kept, Sure
  <2>2. Absent(o)
    BY <1>0, <2>1
  <2>3. Leaving(writes[o]) => Leaving(writes[o])'
    BY <1>2, <2>1 DEF Leaving, Then, Merge
  <2> QED  BY <2>1, <2>2, <2>3 DEF Single
<1>3. ASSUME doc' = doc PROVE Distinct'
    BY <1>0, <1>3
<1>4. CASE Quiet
    BY <1>2, <1>3, <1>4 DEF Quiet, Absences
<1>5. ASSUME NEW c \in Client, Opening(c) PROVE Absences'
  <2> DEFINE r == job[c][1]
  <2>1. Operation(c, r) /\ RequestFits(r) /\ doc' = doc
    BY <1>5 DEF Opening
  <2>2. PICK w : Open(c, w) /\ Fine(r.op, w)
    BY <2>1, OperationFine DEF OpensFine
  <2>3. writes'[c] = w
    BY <2>2, Opened
  <2>4. Absent(c)'
    <3>1. CASE Leave \cap DOMAIN w = {}
        BY <2>3, <3>1 DEF Single, Leaving
    <3>2. CASE Leave \cap DOMAIN w # {}
      <4>1. r.op \in Sharing
        BY <2>2, <3>2 DEF Fine, MayWrite
      <4>2. Single(w) /\ Leaving(w)
        BY <1>0, <2>1, <2>2, <4>1, LeaveOpened
      <4> QED  BY <2>1, <2>3, <4>2 DEF Single, Leaving, Then, Merge
    <3> QED  BY <3>1, <3>2
  <2>5. \A o \in Client : Sure(o)' => Absent(o)'
    BY <1>2, <1>5, <2>1, <2>4 DEF Opening
  <2> QED  BY <1>3, <2>1, <2>5 DEF Absences
<1>6. ASSUME NEW c \in Client, Committing(c) \/ Cascading(c), NEW x \in Leave, doc'[x] # doc[x]
      PROVE  Sure(c) /\ x \in DOMAIN writes[c] /\ doc'[x] = Would(c, x) /\ Valid(c)
  <2>1. Committing(c)
    BY <1>1, <1>6, Cascaded DEF Cascading
  <2>2. x \in DOMAIN writes[c] /\ Sure(c) /\ doc'[x] = Would(c, x)
    BY <1>1, <1>6, <2>1, Surely
  <2>3. MayWrite(Op(c), x)
    BY <2>2 DEF Drafts, Sure
  <2>4. Op(c) \notin Careless
    BY <2>3 DEF MayWrite, Sharing, Careless
  <2> QED  BY <2>1, <2>2, <2>4, Committed DEF Committing
<1>7. ASSUME NEW c \in Client, Committing(c) \/ Cascading(c) PROVE Distinct'
  <2>1. ASSUME NEW v \in Leave, NEW x \in Leave, v # x, doc'[v] # doc[v]
        PROVE  Free(doc'[v], doc'[x])
    <3>1. Sure(c) /\ v \in DOMAIN writes[c] /\ doc'[v] = Would(c, v) /\ Valid(c)
        BY <1>6, <1>7, <2>1
    <3>2. Single(writes[c]) /\ Leaving(writes[c])
        BY <1>0, <3>1
    <3>3. x \notin DOMAIN writes[c]
        BY <2>1, <3>1, <3>2 DEF Single
    <3>4. doc'[x] = doc[x]
        BY <1>6, <1>7, <3>3
    <3>5. Free(Then(writes[c], v), doc[x])
        BY <2>1, <3>1, <3>2 DEF Leaving
    <3> QED  BY <3>1, <3>4, <3>5 DEF Would
  <2>2. \A y, z : Free(y, z) => Free(z, y)
    BY DEF Free
  <2>3. ASSUME NEW v \in Leave, NEW x \in Leave, v # x PROVE Free(doc'[v], doc'[x])
    <3>1. CASE doc'[v] # doc[v]
        BY <2>1, <2>3, <3>1
    <3>2. CASE doc'[x] # doc[x]
      <4>1. Free(doc'[x], doc'[v])
        BY <2>1, <2>3, <3>2
      <4> QED  BY <2>2, <4>1
    <3>3. CASE doc'[v] = doc[v] /\ doc'[x] = doc[x]
        BY <1>0, <2>3, <3>3
    <3> QED  BY <3>1, <3>2, <3>3
  <2> QED  BY <2>3 DEF Free
<1>8. ASSUME NEW c \in Client, Committing(c) \/ Cascading(c), NEW o \in Client, Sure(o)'
      PROVE  Absent(o)'
  <2>1. /\ Sure(o) /\ o # c /\ writes'[o] = writes[o]
        /\ (Valid(o)' => Valid(o)) /\ \A d \in Names : Beside(o, d)
    <3>1. Names # {}
        BY DEF Names, Singles
    <3> QED  BY <1>8, <3>1, Alongside DEF Kept, Sure
  <2>2. Absent(o)
    BY <1>0, <2>1
  <2>3. ASSUME NEW v \in Leave \cap DOMAIN writes[o]
        PROVE  Would(o, v)' = Would(o, v) /\ Op(o) \in Sharing
    <3>1. Beside(o, v) /\ MayWrite(Op(o), v)
        BY <1>1, <2>1 DEF Drafts, Sure
    <3> QED  BY <1>1, <3>1 DEF Beside, MayWrite
  <2>4. ASSUME Valid(o)', NEW v \in Leave \cap DOMAIN writes[o], NEW x \in Leave \ {v}
        PROVE  Free(Would(o, v), doc'[x])
    <3>1. Free(Would(o, v), doc[x])
        BY <2>1, <2>2, <2>4 DEF Leaving, Would
    <3>2. CASE doc'[x] = doc[x]
        BY <3>1, <3>2
    <3>3. CASE doc'[x] # doc[x]
      <4>1. Sure(c) /\ x \in DOMAIN writes[c] /\ Valid(c)
        BY <1>6, <1>8, <2>4, <3>3
      <4>2. Op(c) \in Sharing
        <5>1. MayWrite(Op(c), x)
            BY <4>1 DEF Drafts, Sure
        <5> QED  BY <5>1 DEF MayWrite
      <4>3. "time off" \in keys[c] /\ "time off" \in keys[o]
        <5>1. pc[c] # "idle" /\ pc[o] # "idle"
            BY <2>1, <4>1 DEF Sure
        <5> QED  BY <2>3, <2>4, <4>2, <5>1 DEF Keyed, Locked, Op
      <4>4. "time off" \in Branch
        BY <2>1, <2>4, <4>1, <4>3, Exclusive DEF Key
      <4> QED  BY <4>4, NamesAssumption
    <3> QED  BY <3>2, <3>3
  <2>5. Valid(o)' => Leaving(writes[o])'
    BY <2>1, <2>3, <2>4 DEF Leaving, Would
  <2> QED  BY <2>1, <2>2, <2>5 DEF Single
<1>9. ASSUME NEW c \in Client, Committing(c) \/ Cascading(c) PROVE Absences'
    BY <1>7, <1>8, <1>9 DEF Absences
<1> QED  BY <1>4, <1>5, <1>9, Steps

LEMMA PlansAtFirst == ASSUME Init PROVE Keyed /\ Planning /\ Absences
<1>1. PICK g \in Agendas : doc = g.doc
    BY DEF Init
<1>2. InOrder(doc)
    BY <1>1, AgendaAssumption
<1>3. \A c \in Client : pc[c] = "idle"
    BY DEF Init, InitRequests
<1>4. Documents
    BY <1>2 DEF InOrder, Documents
<1>5. ASSUME NEW v \in Hours \cup Shift
      PROVE  doc[v].from \in Nat /\ doc[v].until \in Nat
  <2>1. doc[v] \in VersionDoc
    BY <1>4, Typed
  <2> QED  BY <2>1, PremisesAssumption DEF VersionDoc, NoVersion
<1>6. ASSUME NEW v \in Leave
      PROVE  doc[v].from \in Nat /\ doc[v].until \in Nat
  <2>1. doc[v] \in LeaveDoc
    BY <1>4, Typed
  <2> QED  BY <2>1, PremisesAssumption DEF LeaveDoc, NoLeave
<1>7. ASSUME NEW k \in Kinds, NEW v \in Versions(k), NEW x \in Versions(k), v # x
      PROVE  Clear(doc[v], doc[x])
  <2>1. doc[v].status = "active" /\ doc[x].status = "active" =>
          doc[v].at # doc[x].at \/ doc[v].until <= doc[x].from \/ doc[x].until <= doc[v].from
    <3>1. CASE k = "hours"
        BY <1>2, <1>7, <3>1 DEF InOrder, Versions
    <3>2. CASE k = "shift"
        BY <1>2, <1>7, <3>2 DEF InOrder, Versions
    <3> QED  BY <3>1, <3>2 DEF Kinds
  <2>2. v \in Hours \cup Shift /\ x \in Hours \cup Shift
    BY <1>7 DEF Kinds, Versions
  <2>3. doc[v].from \in Nat /\ doc[v].until \in Nat /\ doc[x].from \in Nat /\ doc[x].until \in Nat
    BY <1>5, <2>2
  <2> QED  BY <2>1, <2>3 DEF Clear
<1>8. ASSUME NEW v \in Leave, NEW x \in Leave, v # x PROVE Free(doc[v], doc[x])
  <2>1. {doc[v].status, doc[x].status} \subseteq {"requested", "approved"} =>
          doc[v].until <= doc[x].from \/ doc[x].until <= doc[v].from
    BY <1>2, <1>8 DEF InOrder
  <2>2. doc[v].from \in Nat /\ doc[v].until \in Nat /\ doc[x].from \in Nat /\ doc[x].until \in Nat
    BY <1>6
  <2> QED  BY <2>1, <2>2 DEF Free
<1> QED  BY <1>3, <1>7, <1>8 DEF Keyed, Planning, Absences, Sure

\* Active versions of one plan at a branch are of different dates, and no two times off that
\* are approved or may be meet, whoever makes, changes or decides them and in whatever order,
\* as long as no working hours were written after their lease ran out.
THEOREM PlansStayApart == Spec => []PlansNeverOverlap
<1>1. Init => Sane /\ Keyed /\ Planning /\ Absences
    BY SaneAtFirst, PlansAtFirst
<1>2. Sane /\ Keyed /\ Planning /\ Absences /\ [Next]_vars =>
        (Sane /\ Keyed /\ Planning /\ Absences)'
    BY SaneKept, KeyedKept, PlanningKept, AbsencesKept DEF Sane
<1>3. ASSUME Planning, Absences PROVE PlansNeverOverlap
  <2>1. ASSUME NEW k \in Kinds, Orderly(k), NEW v \in Versions(k)
        PROVE  Versionable(Versions(k) \ {v}, doc[v])
    <3>1. \A x \in Versions(k) \ {v} : Clear(doc[v], doc[x])
        BY <1>3, <2>1 DEF Planning
    <3> QED  BY <3>1 DEF Clear, Versionable, Overlapping
  <2>2. \A v \in Hours : Versionable(Hours \ {v}, doc[v])
    <3>1. "hours" \in Kinds /\ Orderly("hours") /\ Versions("hours") = Hours
        BY DEF Kinds, Orderly, Versions
    <3> QED  BY <2>1, <3>1
  <2>3. "late" \notin mishap => \A v \in Shift : Versionable(Shift \ {v}, doc[v])
    <3>1. /\ "shift" \in Kinds /\ Versions("shift") = Shift
          /\ "late" \notin mishap => Orderly("shift")
        BY DEF Kinds, Orderly, Versions
    <3> QED  BY <2>1, <3>1
  <2>4. \A v, w \in Pending(Leave) : v # w => ~Meeting(v, doc[w].from, doc[w].until)
    BY <1>3 DEF Absences, Pending, Meeting, Free
  <2> QED  BY <2>2, <2>3, <2>4 DEF PlansNeverOverlap
<1> QED  BY <1>1, <1>2, <1>3, PTL DEF Spec


-----------------------------------------------------------------------------
(* Offers and the service *)

\* The service is made, changed or deleted.
ServiceDraft(r, w) ==
    \/ /\ r.op = "create service" /\ service = NoService
       /\ Then(w, "service").status \in {"active", "inactive"}
    \/ /\ r.op = "update service" /\ service.status \in {"active", "inactive"}
       /\ Then(w, "service").status \in {"active", "inactive"}
    \/ r.op = "archive service" /\ Then(w, "service").status = "gone"

\* An offer is made or goes only to a branch whose lease the request needs.
Leads(r, w, o) ==
    /\ service # NoService
    /\ r.op = "create offer" => Then(w, o).at = {r.branch}
    /\ r.op = "update offer" => Then(w, o).at \subseteq doc[o].at \cup r.branches
    /\ r.op = "archive branch" => Then(w, o).status = "inactive"

\* A branch is switched off only under its own lease.
Closes(r, w, b) ==
    doc[b].status = "active" /\ Then(w, b).status # "active" =>
        b = r.branch /\ (r.op = "archive branch" \/ (r.op = "update branch" /\ r.active # "keep"))

Serving ==
    /\ service = NoService => \A o \in Offer : doc[o] = NoOffer
    /\ \A c \in Client : Sure(c) =>
         /\ "service" \in DOMAIN writes[c] => ServiceDraft(job[c][1], writes[c])
         /\ \A o \in Offer \cap DOMAIN writes[c] : Leads(job[c][1], writes[c], o)
         /\ \A b \in Branch \cap DOMAIN writes[c] : Closes(job[c][1], writes[c], b)

LEMMA ServiceDrafts ==
    ASSUME Shape, Documents, NEW c \in Client, NEW r, Operation(c, r), NEW w, Open(c, w),
           MayWrite(r.op, "service")
    PROVE  ServiceDraft(r, w)
<1>1. doc["service"] \in ServiceDoc /\ Whole("service")
    BY Typed, Wholeness DEF Names, Singles
<1>2. writes'[c] = w
    BY Opened
<1>3. \A on : Status(on) \in {"active", "inactive"}
    BY DEF Status
<1>4. ASSUME NEW status, NEW online
      PROVE  Merge("service", [status |-> status, online |-> online]).status = status
    BY <1>1 DEF Merge, ServiceDoc
<1>5. CASE r.op = "create service"
  <2> DEFINE new == [status |-> Status(Given(r.active, TRUE)), online |-> Given(r.online, TRUE)]
  <2>1. service = NoService /\ Open(c, Put("service", new))
    BY <1>5, Acts DEF CreateService
  <2>2. w = Put("service", new)
    BY <1>2, <2>1, Opened
  <2>3. Merge("service", new).status \in {"active", "inactive"}
    BY <1>3, <1>4
  <2> HIDE DEF new
  <2>4. Then(w, "service") = Merge("service", new)
    BY <2>2 DEF Put, Then
  <2> QED  BY <1>5, <2>1, <2>3, <2>4 DEF ServiceDraft
<1>6. CASE r.op = "update service"
  <2> DEFINE new == [status |-> Status(Given(r.active, service.status = "active")),
                     online |-> Given(r.online, service.online)]
  <2>1. service.status \in {"active", "inactive"} /\ Open(c, Save("service", new))
    BY <1>6, Acts DEF UpdateService
  <2>2. w = Save("service", new)
    BY <1>2, <2>1, Opened
  <2>3. Merge("service", new).status \in {"active", "inactive"}
    BY <1>3, <1>4
  <2> HIDE DEF new
  <2>4. Then(w, "service") = Merge("service", new)
    BY <1>1, <2>2, SaveWritten
  <2> QED  BY <1>6, <2>1, <2>3, <2>4 DEF ServiceDraft
<1>7. CASE r.op = "archive service"
  <2> DEFINE new == [status |-> "gone"]
  <2>1. Open(c, Put("service", new))
    BY <1>7, Acts DEF ArchiveService
  <2>2. w = Put("service", new)
    BY <1>2, <2>1, Opened
  <2>3. Merge("service", new).status = "gone"
    BY <1>1 DEF Merge, ServiceDoc
  <2> HIDE DEF new
  <2>4. Then(w, "service") = Merge("service", new)
    BY <2>2 DEF Put, Then
  <2> QED  BY <1>7, <2>3, <2>4 DEF ServiceDraft
<1>8. r.op \in {"create service", "update service", "archive service"}
    BY DEF MayWrite
<1> QED  BY <1>5, <1>6, <1>7, <1>8

\* What is written off is inactive.
LEMMA WrittenOffInactive ==
    ASSUME Documents, NEW o \in Offer, doc[o] # NoOffer
    PROVE  Merge(o, WrittenOff).status = "inactive"
<1>1. doc[o] \in OfferDoc
    BY Typed
<1> QED  BY <1>1 DEF Merge, OfferDoc, WrittenOff

LEMMA OfferLeads ==
    ASSUME Documents, service = NoService => \A o \in Offer : doc[o] = NoOffer,
           NEW r, NEW w, NEW o \in Offer \cap DOMAIN w, OfferDraft(r, w, o)
    PROVE  /\ Leads(r, w, o)
           /\ Then(w, o).status = "active" =>
                Then(w, o).at \subseteq Active /\ service.status \in {"active", "gone"}
<1>1. CASE r.op \in {"create offer", "update offer"}
  <2>1. PICK b \in Branch, active \in BOOLEAN, online \in BOOLEAN :
          /\ Then(w, o) = [status |-> Status(active), at |-> {b}, online |-> online]
          /\ Offerable(b, active, online)
          /\ r.op = "create offer" => b = r.branch /\ doc[o] = NoOffer
          /\ r.op = "update offer" => b \in doc[o].at \cup r.branches
    BY <1>1 DEF OfferDraft
  <2>2. Then(w, o).at = {b} /\ Then(w, o).status = Status(active)
    <3> HIDE DEF Status, Then
    <3>1. Then(w, o) = [status |-> Status(active), at |-> {b}, online |-> online]
        BY <2>1
    <3> QED  BY <3>1
  <2>3. service.status \in {"active", "inactive"} /\ NoService.status = "absent"
    BY <2>1 DEF Offerable, NoService
  <2>4. service # NoService
    BY <2>3
  <2>5. Status(active) = "active" => b \in Active /\ service.status = "active"
    BY <2>1 DEF Offerable, Status
  <2> QED  BY <1>1, <2>1, <2>2, <2>4, <2>5 DEF Leads
<1>2. CASE r.op = "archive branch"
  <2>1. w[o] = WrittenOff /\ doc[o].at # {} /\ NoOffer.at = {}
    BY <1>2 DEF OfferDraft, NoOffer
  <2>2. Then(w, o) = Merge(o, WrittenOff) /\ doc[o] # NoOffer
    BY <2>1 DEF Then
  <2>3. Then(w, o).status = "inactive"
    BY <2>2, WrittenOffInactive
  <2> QED  BY <1>2, <2>2, <2>3 DEF Leads
<1> QED  BY <1>1, <1>2 DEF OfferDraft

LEMMA BranchCloses ==
    ASSUME Documents, NEW r, NEW w, NEW b \in Branch \cap DOMAIN w, BranchDraft(r, w, b)
    PROVE  Closes(r, w, b)
<1>1. doc[b] \in BranchDoc
    BY Typed
<1>2. SUFFICES ASSUME doc[b].status = "active", Then(w, b).status # "active"
               PROVE  b = r.branch /\ (r.op = "archive branch" \/ (r.op = "update branch" /\ r.active # "keep"))
    BY DEF Closes
<1>3. CASE Branches = {} /\ w[b] = MainBranch /\ Then(w, b) = MainBranch
  <2>1. Then(w, b).status = "active"
    BY <1>3 DEF MainBranch
  <2> QED  BY <1>2, <2>1
<1>4. CASE b \in Primaries /\ w[b] = [primary |-> FALSE]
  <2>1. Then(w, b) = Merge(b, [primary |-> FALSE])
    BY <1>4 DEF Then
  <2>2. Merge(b, [primary |-> FALSE]).status = doc[b].status
    BY <1>1 DEF Merge, BranchDoc
  <2> QED  BY <1>2, <2>1, <2>2
<1>5. CASE r.op = "settings" /\ b \in Active /\ Then(w, b) = [doc[b] EXCEPT !.primary = TRUE]
    BY <1>1, <1>2, <1>5 DEF BranchDoc
<1>6. CASE r.op = "create branch" /\ b = r.branch /\ doc[b] = NoBranch
  <2>1. NoBranch.status = "absent"
    BY DEF NoBranch
  <2> QED  BY <1>2, <1>6, <2>1
<1>7. CASE /\ r.op = "update branch" /\ b = r.branch
           /\ Then(w, b).status = Status(Given(r.active, doc[b].status = "active"))
  <2>1. ~Given(r.active, TRUE)
    BY <1>2, <1>7 DEF Status
  <2> QED  BY <1>7, <2>1 DEF Given
<1>8. CASE r.op = "archive branch" /\ b = r.branch
    BY <1>8
<1> QED  BY <1>3, <1>4, <1>5, <1>6, <1>7, <1>8 DEF BranchDraft


\* A request that is sure keeps its writes beside those of another.
LEMMA StaysSure ==
    ASSUME Shape, Documents, Drafts, NEW c \in Client, Committing(c) \/ Cascading(c),
           NEW o \in Client, Sure(o)'
    PROVE  /\ o # c /\ Sure(o) /\ Kept(o)
           /\ job'[o] = job[o] /\ keys'[o] = keys[o] /\ writes'[o] = writes[o]
           /\ Valid(o)' => Valid(o)
           /\ \A d \in Names : Beside(o, d)
           /\ \A d \in (Names \ Offer) \cap DOMAIN writes[o] :
                doc'[d] = doc[d] /\ Would(o, d)' = Would(o, d)
<1>1. Names # {}
    BY DEF Names, Singles
<1>2. o # c /\ Sure(o) /\ Kept(o) /\ \A d \in Names : Beside(o, d)
    BY <1>1, Alongside
<1>3. \A d \in (Names \ Offer) \cap DOMAIN writes[o] : doc'[d] = doc[d] /\ Would(o, d)' = Would(o, d)
    BY <1>2 DEF Beside
<1> QED  BY <1>2, <1>3 DEF Kept, Sure

\* What the commit of a request that touches the service makes of it.
LEMMA ServiceCommitted ==
    ASSUME Documents, Drafts, Serving, NEW c \in Client, Committing(c), doc'["service"] # service
    PROVE  \/ Op(c) = "archive service" /\ doc'["service"].status = "gone"
           \/ /\ Op(c) \in {"create service", "update service"}
              /\ ServiceDraft(job[c][1], writes[c])
              /\ doc'["service"] = Would(c, "service")
<1>1. /\ doc'["service"] = Would(c, "service") /\ pc[c] = "open"
      /\ Op(c) \notin Erasing => Sure(c)
    BY Committed DEF Committing, Names, Singles
<1>2. "service" \in DOMAIN writes[c]
    BY <1>1 DEF Would, Then, service
<1>3. Op(c) \in {"create service", "update service", "archive service"}
  <2>1. MayWrite(Op(c), "service")
    BY <1>1, <1>2 DEF Drafts
  <2> QED  BY <2>1 DEF MayWrite
<1>4. CASE Op(c) = "archive service"
  <2>1. Gone(writes[c]) /\ "service" \notin Category
    BY <1>1, <1>4, NamesAssumption DEF Drafts, Erasing, Singles
  <2>2. writes[c]["service"] = [status |-> "gone"]
    BY <1>2, <2>1 DEF Gone
  <2>3. doc["service"] \in ServiceDoc
    BY Typed
  <2>4. Merge("service", [status |-> "gone"]).status = "gone"
    BY <2>3 DEF Merge, ServiceDoc
  <2> QED  BY <1>1, <1>2, <1>4, <2>2, <2>4 DEF Would, Then
<1>5. CASE Op(c) \in {"create service", "update service"}
    BY <1>1, <1>2, <1>5 DEF Serving, Erasing
<1> QED  BY <1>3, <1>4, <1>5

\* The service is never unmade.
LEMMA ServiceStays ==
    ASSUME Shape, Documents, Drafts, Serving, NEW c \in Client, Committing(c) \/ Cascading(c),
           service # NoService
    PROVE  doc'["service"] # NoService
<1>1. NoService.status = "absent"
    BY DEF NoService
<1>2. CASE doc'["service"] = service
    BY <1>2
<1>3. CASE doc'["service"] # service
  <2>1. Committing(c)
    <3>1. "service" \in Names \ Withdrawable
        BY NamesAssumption DEF Names, Singles, Withdrawable
    <3> QED  BY <1>3, <3>1, Cascaded DEF Cascading, service
  <2>2. doc'["service"].status \in {"active", "inactive", "gone"}
    BY <1>3, <2>1, ServiceCommitted DEF ServiceDraft, Op, Would
  <2> QED  BY <1>1, <2>2
<1> QED  BY <1>2, <1>3

LEMMA ServingKept ==
    ASSUME Shape, Documents, Drafts, Offering, Serving, [Next]_vars
    PROVE  Serving'
<1> DEFINE Serves(o) ==
             /\ "service" \in DOMAIN writes[o] => ServiceDraft(job[o][1], writes[o])
             /\ \A d \in Offer \cap DOMAIN writes[o] : Leads(job[o][1], writes[o], d)
             /\ \A b \in Branch \cap DOMAIN writes[o] : Closes(job[o][1], writes[o], b)
           First == service = NoService => \A o \in Offer : doc[o] = NoOffer
<1>0. First /\ \A o \in Client : Sure(o) => Serves(o)
    BY DEF Serving
<1>1. ASSUME NEW o \in Client, Kept(o), doc' = doc, Sure(o)' PROVE Serves(o)'
  <2>1. Serves(o) /\ job'[o] = job[o] /\ writes'[o] = writes[o]
    BY <1>0, <1>1 DEF Kept, Sure
  <2> QED
    BY <1>1, <2>1 DEF ServiceDraft, Leads, Closes, Then, Merge, service
<1>2. CASE Quiet
  <2>1. \A o \in Client : Sure(o)' => Serves(o)'
    BY <1>1, <1>2 DEF Quiet
  <2> QED  BY <1>0, <1>2, <2>1 DEF Quiet, Serving, service
<1>3. ASSUME NEW c \in Client, Opening(c) PROVE Serving'
  <2>1. PICK r : r = job[c][1]
    OBVIOUS
  <2>2. Operation(c, r) /\ RequestFits(r) /\ doc' = doc /\ job' = job
    BY <1>3, <2>1 DEF Opening
  <2>3. PICK w : Open(c, w) /\ Fine(r.op, w)
    BY <2>2, OperationFine DEF OpensFine
  <2>4. writes'[c] = w
    BY <2>3, Opened
  <2>5. "service" \in DOMAIN w => ServiceDraft(r, w)
    BY <2>2, <2>3, ServiceDrafts DEF Fine
  <2>6. ASSUME NEW d \in Offer \cap DOMAIN w PROVE Leads(r, w, d)
    <3>1. MayWrite(r.op, d)
        BY <2>3 DEF Fine
    <3>2. OfferDraft(r, w, d)
        BY <2>2, <2>3, <3>1, OfferDrafts
    <3> QED  BY <1>0, <3>2, OfferLeads
  <2>7. ASSUME NEW b \in Branch \cap DOMAIN w PROVE Closes(r, w, b)
    <3>1. MayWrite(r.op, b)
        BY <2>3 DEF Fine
    <3>2. BranchDraft(r, w, b)
        BY <2>2, <2>3, <3>1, BranchDrafts
    <3> QED  BY <3>2, BranchCloses
  <2>8. Serves(c)'
    BY ZenonT(40), <2>1, <2>2, <2>4, <2>5, <2>6, <2>7 DEF ServiceDraft, Leads, Closes, Then, Merge, service
  <2>9. \A o \in Client \ {c} : Sure(o)' => Serves(o)'
    BY <1>1, <1>3, <2>2 DEF Opening
  <2> QED  BY <1>0, <2>2, <2>8, <2>9 DEF Serving, service
<1>4. ASSUME NEW c \in Client, Committing(c) \/ Cascading(c), NEW o \in Client, Sure(o)'
      PROVE  Serves(o)'
  <2>1. PICK r : r = job[o][1]
    OBVIOUS
  <2>2. PICK w : w = writes[o]
    OBVIOUS
  <2>3. /\ Sure(o) /\ job'[o][1] = r /\ writes'[o] = w
        /\ \A d \in Names : Beside(o, d)
        /\ \A d \in (Names \ Offer) \cap DOMAIN w : doc'[d] = doc[d] /\ Would(o, d)' = Would(o, d)
    BY <1>4, <2>1, <2>2, StaysSure
  <2>4. Serves(o)
    BY <1>0, <2>3
  <2>5. "service" \in DOMAIN w => ServiceDraft(r, w)'
    <3>1. "service" \in Names \ Offer
        BY NamesAssumption DEF Names, Singles
    <3>2. SUFFICES ASSUME "service" \in DOMAIN w PROVE ServiceDraft(r, w)'
        OBVIOUS
    <3>3. doc'["service"] = doc["service"] /\ Then(w, "service")' = Then(w, "service")
        BY <2>2, <2>3, <3>1, <3>2 DEF Would
    <3>4. ServiceDraft(r, w)
        BY <2>1, <2>2, <2>4, <3>2
    <3> QED  BY <3>3, <3>4 DEF ServiceDraft, service
  <2>6. ASSUME NEW d \in Offer \cap DOMAIN w PROVE Leads(r, w, d)'
    <3>1. Beside(o, d)
        BY <2>3, KindsApart
    <3>2. Leads(r, w, d)
        BY <2>1, <2>2, <2>4
    <3>3. service # NoService /\ doc'["service"] # NoService
        BY <1>4, <3>2, ServiceStays DEF Leads
    <3>4. /\ Then(w, d)'.at = Then(w, d).at
          /\ Then(w, d)'.status \in {Then(w, d).status, "inactive"}
        BY <2>2, <2>3, <3>1 DEF Beside, Would
    <3>5. doc'[d].at = doc[d].at
        BY <2>2, <3>1, WrittenOffFine DEF Beside
    <3> QED  BY <3>2, <3>3, <3>4, <3>5 DEF Leads, service
  <2>7. ASSUME NEW b \in Branch \cap DOMAIN w PROVE Closes(r, w, b)'
    <3>1. doc'[b] = doc[b] /\ Then(w, b)' = Then(w, b)
        BY <2>2, <2>3, KindsApart DEF Would
    <3>2. Closes(r, w, b)
        BY <2>1, <2>2, <2>4
    <3> QED  BY <3>1, <3>2 DEF Closes
  <2> QED  BY <2>3, <2>5, <2>6, <2>7
<1>5. ASSUME NEW c \in Client, Committing(c) \/ Cascading(c) PROVE First'
  <2>1. SUFFICES ASSUME doc'["service"] = NoService, NEW o \in Offer PROVE doc'[o] = NoOffer
    BY DEF service
  <2>2. service = NoService
    BY <1>5, <2>1, ServiceStays
  <2>3. doc[o] = NoOffer
    BY <1>0, <2>2
  <2>4. CASE Cascading(c)
    <3>1. o \in Names \ Withdrawable
        BY <2>3, KindsApart DEF Withdrawable
    <3> QED  BY <2>3, <2>4, <3>1, Cascaded DEF Cascading
  <2>5. CASE Committing(c)
    <3>1. /\ o \in DOMAIN writes[c] => Sure(c)
          /\ o \notin DOMAIN writes[c] => doc'[o] = doc[o]
        BY <2>5, Surely, KindsApart
    <3>2. o \notin DOMAIN writes[c]
        BY <1>0, <2>2, <3>1 DEF Leads
    <3> QED  BY <2>3, <3>1, <3>2
  <2> QED  BY <1>5, <2>4, <2>5
<1>6. ASSUME NEW c \in Client, Committing(c) \/ Cascading(c) PROVE Serving'
  <2>1. \A o \in Client : Sure(o)' => Serves(o)'
    BY <1>4, <1>6
  <2> QED  BY <1>5, <1>6, <2>1 DEF Serving
<1> QED  BY <1>2, <1>3, <1>6, Steps


-----------------------------------------------------------------------------
(* Offers are put in force only where they may be *)

\* While its leases are in force nothing an offer rests on is taken away before it
\* is written.
OffersFit ==
    "blind" \notin mishap =>
      \A c \in Client : Sure(c) /\ Leased(c) =>
        \A o \in Offer \cap DOMAIN writes[c] : Would(c, o).status = "active" =>
            Would(c, o).at \subseteq Active /\ service.status \in {"active", "gone"}

\* Who is about to put an offer in force holds the lease of its branch.
LEMMA OfferHeld ==
    ASSUME Documents, Drafts, Offering, Serving, NEW c \in Client, Sure(c), Leased(c),
           NEW o \in Offer \cap DOMAIN writes[c], Would(c, o).status = "active"
    PROVE  /\ Op(c) \in {"create offer", "update offer"}
           /\ \E b \in Branch : Would(c, o).at = {b} /\ b \in Branches /\ b \in keys[c]
<1>1. Would(c, o) \in OfferDoc /\ Would(c, o) # NoOffer
    BY Schemas DEF Drafts
<1>2. PICK b \in Branch : Would(c, o).at = {b}
    BY <1>1 DEF OfferDoc, One
<1>3. Op(c) \in {"create offer", "update offer", "archive branch"}
  <2>1. MayWrite(Op(c), o)
    BY DEF Drafts, Sure
  <2> QED  BY <2>1 DEF MayWrite
<1>4. PICK r : r = job[c][1]
    OBVIOUS
<1>5. Leads(r, writes[c], o) /\ Then(writes[c], o) = Would(c, o) /\ Op(c) = r.op
    BY <1>4 DEF Serving, Would, Op
<1>6. r.op # "archive branch"
    BY <1>5 DEF Leads
<1>7. /\ r.op = "create offer" => b = r.branch
      /\ r.op = "update offer" => b \in doc[o].at \cup r.branches /\ o = r.offer
    BY <1>2, <1>4, <1>5 DEF Leads, Offering, Op
<1>8. b \in Affected(r)
    BY <1>3, <1>5, <1>6, <1>7, LeasesNeeded
<1> QED  BY <1>2, <1>3, <1>4, <1>5, <1>6, <1>8 DEF Leased, Offering

\* A branch is switched off under its lease.
LEMMA Deactivated ==
    ASSUME Documents, Drafts, Serving, NEW c \in Client, Committing(c), "blind" \notin mishap',
           NEW b \in Active, doc'[b].status # "active"
    PROVE  Valid(c) /\ b \in keys[c] /\ Op(c) \in {"archive branch", "update branch"}
<1>1. b \in Branch /\ doc[b].status = "active"
    BY DEF Active
<1>2. /\ doc'[b] = Would(c, b)
      /\ b \in DOMAIN writes[c] => Sure(c)
      /\ b \notin DOMAIN writes[c] => doc'[b] = doc[b]
    BY <1>1, Surely, KindsApart
<1>3. b \in DOMAIN writes[c] /\ Sure(c)
    BY <1>1, <1>2
<1>4. PICK r : r = job[c][1]
    OBVIOUS
<1>5. Closes(r, writes[c], b) /\ Then(writes[c], b) = doc'[b] /\ Op(c) = r.op
    BY <1>1, <1>2, <1>3, <1>4 DEF Serving, Would, Op
<1>6. b = r.branch /\ (r.op = "archive branch" \/ (r.op = "update branch" /\ r.active # "keep"))
    BY <1>1, <1>5 DEF Closes
<1>7. b \in Affected(r)
    BY <1>6, LeasesNeeded
<1>8. Op(c) \notin Careless
    BY <1>5, <1>6 DEF Careless
<1> QED  BY <1>4, <1>5, <1>6, <1>7, <1>8, Committed DEF Committing

\* The service is withdrawn under the leases of all branches.
LEMMA Withdrawal ==
    ASSUME Documents, Drafts, Serving, NEW c \in Client, Committing(c), "blind" \notin mishap',
           service # NoService, doc'["service"].status = "inactive", service.status # "inactive"
    PROVE  Valid(c) /\ Branches \subseteq keys[c] /\ Op(c) = "update service"
<1>1. doc'["service"] # service
    OBVIOUS
<1>2. Op(c) # "create service"
    <2>1. Op(c) = "create service" => ServiceDraft(job[c][1], writes[c])
        BY <1>1, ServiceCommitted
    <2> QED  BY <2>1 DEF ServiceDraft, Op
<1>3. Op(c) = "update service"
    BY <1>1, <1>2, ServiceCommitted
<1>4. Affected(job[c][1]) = Branches
    BY <1>3, LeasesNeeded DEF Op
<1>5. Op(c) \notin Careless
    BY <1>3 DEF Careless
<1> QED  BY <1>3, <1>4, <1>5, Committed DEF Committing

\* Of two who hold one lease both share it.
LEMMA Rivals ==
    ASSUME Leases, NEW c \in Client, NEW o \in Client, c # o, Valid(c), Valid(o),
           NEW b \in Branch, b \in keys[c], b \in keys[o]
    PROVE  Op(c) \in Sharing /\ Op(o) \in Sharing
BY Exclusive DEF Key

LEMMA OffersFitKept ==
    ASSUME Shape, Leases, Documents, Drafts, Offering, Serving, OffersFit, [Next]_vars
    PROVE  OffersFit'
<1> DEFINE Fits(o) ==
             \A d \in Offer \cap DOMAIN writes[o] : Would(o, d).status = "active" =>
                 Would(o, d).at \subseteq Active /\ service.status \in {"active", "gone"}
           Calm == "blind" \notin mishap
<1>1. ASSUME NEW o \in Client, Kept(o), doc' = doc, Calm, Sure(o)', Leased(o)' PROVE Fits(o)'
  <2>1. Sure(o) /\ Leased(o) /\ writes'[o] = writes[o]
    BY <1>1, LeasedAgain DEF Kept, Sure
  <2> QED  BY <1>1, <2>1 DEF OffersFit, Would, Then, Merge, Active, service
<1>2. CASE Quiet
    BY <1>1, <1>2 DEF Quiet, OffersFit
<1>3. ASSUME NEW c \in Client, Opening(c) PROVE OffersFit'
  <2>1. PICK r : r = job[c][1]
    OBVIOUS
  <2>2. Operation(c, r) /\ RequestFits(r) /\ doc' = doc /\ mishap' = mishap
    BY <1>3, <2>1 DEF Opening
  <2>3. PICK w : Open(c, w) /\ Fine(r.op, w)
    BY <2>2, OperationFine DEF OpensFine
  <2>4. writes'[c] = w /\ \A d : Would(c, d)' = Then(w, d)
    BY <2>3, Opened
  <2>5. ASSUME NEW d \in Offer \cap DOMAIN w, Then(w, d).status = "active"
        PROVE  Then(w, d).at \subseteq Active /\ service.status \in {"active", "gone"}
    <3>1. MayWrite(r.op, d)
        BY <2>3 DEF Fine
    <3>2. OfferDraft(r, w, d)
        BY <2>2, <2>3, <3>1, OfferDrafts
    <3>3. service = NoService => \A o \in Offer : doc[o] = NoOffer
        BY DEF Serving
    <3> QED  BY <2>5, <3>2, <3>3, OfferLeads
  <2>6. Active' = Active /\ service' = service
    BY <2>2 DEF Active, service
  <2>7. Fits(c)'
    BY <2>4, <2>5, <2>6
  <2>8. ASSUME NEW o \in Client \ {c}, Calm, Sure(o)', Leased(o)' PROVE Fits(o)'
    BY <1>1, <1>3, <2>2, <2>8 DEF Opening
  <2> QED  BY <2>2, <2>7, <2>8 DEF OffersFit
<1>4. ASSUME NEW c \in Client, Committing(c) \/ Cascading(c), Calm', Calm, NEW o \in Client,
             Sure(o)', Leased(o)', NEW d \in Offer \cap DOMAIN writes'[o],
             Would(o, d)'.status = "active"
      PROVE  Would(o, d)'.at \subseteq Active' /\ service'.status \in {"active", "gone"}
  <2>1. o # c /\ Sure(o) /\ Kept(o) /\ writes'[o] = writes[o] /\ Beside(o, d)
    BY <1>4, KindsApart, StaysSure
  <2>2. Leased(o)
    BY <1>4, <2>1, OfferLeased
  <2>3. Would(o, d).status = "active" /\ Would(o, d)'.at = Would(o, d).at
    BY <1>4, <2>1 DEF Beside
  <2>4. Would(o, d).at \subseteq Active /\ service.status \in {"active", "gone"}
    BY <1>4, <2>1, <2>2, <2>3 DEF OffersFit
  <2>5. PICK b \in Branch : /\ Would(o, d).at = {b} /\ b \in Branches /\ b \in keys[o]
                            /\ Op(o) \in {"create offer", "update offer"}
    BY <1>4, <2>1, <2>2, <2>3, OfferHeld
  <2>6. ~(Valid(c) /\ b \in keys[c])
    BY <2>1, <2>2, <2>5, Rivals DEF Leased, Sharing
  <2>7. CASE Committing(c)
    <3>1. doc'[b].status = "active"
        BY <1>4, <2>4, <2>5, <2>6, <2>7, Deactivated
    <3>2. service # NoService
        BY <2>4 DEF NoService
    <3>3. doc'["service"].status # "inactive"
        BY <1>4, <2>4, <2>5, <2>6, <2>7, <3>2, Withdrawal
    <3>4. doc'["service"].status \in {"active", "gone"}
      <4>1. CASE doc'["service"] = service
        BY <2>4, <4>1
      <4>2. CASE doc'["service"] # service
        BY <2>7, <3>3, <4>2, ServiceCommitted DEF ServiceDraft, Would
      <4> QED  BY <4>1, <4>2
    <3> QED  BY <2>3, <2>5, <3>1, <3>4 DEF Active, service
  <2>8. CASE Cascading(c)
    <3>1. b \in Names \ Withdrawable /\ "service" \in Names \ Withdrawable
        BY KindsApart, NamesAssumption DEF Withdrawable, Names, Singles
    <3>2. doc'[b] = doc[b] /\ doc'["service"] = doc["service"]
        BY <2>8, <3>1, Cascaded DEF Cascading
    <3> QED  BY <2>3, <2>4, <2>5, <3>2 DEF Active, service
  <2> QED  BY <1>4, <2>7, <2>8
<1>5. ASSUME NEW c \in Client, Committing(c) \/ Cascading(c) PROVE OffersFit'
  <2>1. mishap \subseteq mishap'
    BY <1>5, Committed, Cascaded DEF Committing, Cascading
  <2> QED  BY <1>4, <1>5, <2>1 DEF OffersFit
<1> QED  BY <1>2, <1>3, <1>5, Steps


-----------------------------------------------------------------------------
(* Resources are given the service only where it is offered *)

\* A resource that is about to serve is at a leased branch that has an offer.
Stocked(r, w, x) ==
    Then(w, x).serves /\ ~doc[x].serves =>
        /\ Then(w, x).at = {r.branch} /\ r.branch \in Branch
        /\ \E o \in Offer : doc[o].at = {r.branch}

Stocks ==
    mishap \cap {"blind", "late"} = {} =>
      \A c \in Client : Sure(c) /\ Leased(c) =>
        \A x \in Resource \cap DOMAIN writes[c] : Stocked(job[c][1], writes[c], x)

LEMMA ResourceStocked ==
    ASSUME Shape, Documents, NEW c \in Client, NEW r, RequestFits(r), Operation(c, r),
           NEW w, Open(c, w), NEW x \in Resource \cap DOMAIN w, MayWrite(r.op, x)
    PROVE  Stocked(r, w, x)
<1>1. x \in Resource /\ doc[x] \in ResourceDoc /\ Whole(x)
    BY Typed, Wholeness DEF Names
<1>2. writes'[c] = w
    BY Opened
<1>3. CASE r.op = "create resource"
  <2> DEFINE new == [status |-> Status(Given(r.active, TRUE)), at |-> {r.branch},
                     serves |-> r.serves]
  <2>1. /\ Open(c, Put(r.resource, new)) /\ r.branch \in Branch
        /\ r.serves => \E o \in Offer : doc[o].at = {r.branch}
    BY <1>3, Acts DEF CreateResource, ServiceAt, RequestFits
  <2>2. w = Put(r.resource, new)
    BY <1>2, <2>1, Opened
  <2>3. Merge(x, new).serves = r.serves /\ Merge(x, new).at = {r.branch}
    BY <1>1 DEF Merge, ResourceDoc
  <2> HIDE DEF new
  <2>4. Then(w, x) = Merge(x, new)
    BY <2>2 DEF Put, Then
  <2> QED  BY <2>1, <2>3, <2>4 DEF Stocked
<1>4. CASE r.op = "update resource"
  <2> DEFINE old == doc[r.resource]
             new == [status |-> Status(Given(r.active, old.status = "active")),
                     serves |-> IF r.keep THEN old.serves ELSE r.serves]
  <2>1. /\ Open(c, Save(r.resource, new)) /\ r.branch \in Branch /\ old.at = {r.branch}
        /\ ~r.keep /\ r.serves => \E o \in Offer : doc[o].at = {r.branch}
        /\ r.resource \in Resource
    BY <1>4, Acts DEF UpdateResource, ServiceAt, RequestFits
  <2>2. w = Save(r.resource, new)
    BY <1>2, <2>1, Opened
  <2>3. Whole(r.resource) /\ doc[r.resource] \in ResourceDoc
    BY <2>1, Typed, Wholeness DEF Names
  <2>4. /\ Merge(r.resource, new).serves = (IF r.keep THEN old.serves ELSE r.serves)
        /\ Merge(r.resource, new).at = old.at
    BY <2>3 DEF Merge, ResourceDoc
  <2> HIDE DEF new
  <2>5. x = r.resource /\ Then(w, x) = Merge(x, new)
    BY <2>2, <2>3, SaveWritten
  <2> QED  BY <2>1, <2>4, <2>5 DEF Stocked
<1>5. CASE r.op = "delete resource"
  <2> DEFINE new == [status |-> "gone"]
  <2>1. Open(c, Put(r.resource, new))
    BY <1>5, Acts DEF DeleteResource
  <2>2. w = Put(r.resource, new)
    BY <1>2, <2>1, Opened
  <2>3. Merge(x, new).serves = doc[x].serves
    BY <1>1 DEF Merge, ResourceDoc
  <2> HIDE DEF new
  <2>4. Then(w, x) = Merge(x, new)
    BY <2>2 DEF Put, Then
  <2> QED  BY <2>3, <2>4 DEF Stocked
<1>6. r.op \in {"create resource", "update resource", "delete resource"}
    BY DEF MayWrite
<1> QED  BY <1>3, <1>4, <1>5, <1>6

\* An offer leaves its branch under the lease of the branch.
LEMMA OfferMoved ==
    ASSUME Shape, Documents, Drafts, Offering, NEW c \in Client, Committing(c) \/ Cascading(c),
           "blind" \notin mishap', NEW o \in Offer, NEW b \in Branch, doc[o].at = {b},
           doc'[o].at # {b}
    PROVE  Valid(c) /\ b \in keys[c] /\ Op(c) = "update offer"
<1>1. doc[o] # NoOffer
    BY DEF NoOffer
<1>2. Committing(c)
  <2>1. CASE Cascading(c)
    <3>1. PICK v \in Withdrawals : doc'[o] = Merge(o, v)
        BY <1>1, <2>1, Cascaded DEF Cascading, Withdrawable
    <3> QED  BY <1>1, <3>1, WrittenOffFine
  <2> QED  BY <2>1
<1>3. /\ doc'[o] = Would(c, o)
      /\ o \in DOMAIN writes[c] => Sure(c)
      /\ o \notin DOMAIN writes[c] => doc'[o] = doc[o]
    BY <1>2, Surely, KindsApart
<1>4. o \in DOMAIN writes[c] /\ Sure(c)
    BY <1>3
<1>5. Op(c) \in {"create offer", "update offer", "archive branch"}
  <2>1. MayWrite(Op(c), o)
    BY <1>4 DEF Drafts, Sure
  <2> QED  BY <2>1 DEF MayWrite
<1>6. Op(c) # "archive branch"
  <2>1. SUFFICES ASSUME Op(c) = "archive branch" PROVE FALSE
    OBVIOUS
  <2>2. writes[c][o] = WrittenOff
    BY <1>4, <2>1 DEF Drafts, Sure
  <2>3. doc'[o] = Merge(o, WrittenOff) /\ WrittenOff \in Withdrawals
    BY <1>3, <1>4, <2>2 DEF Would, Then, WrittenOff, Withdrawals
  <2> QED  BY <1>1, <2>3, WrittenOffFine
<1>7. Op(c) = "update offer" /\ o = job[c][1].offer
    BY <1>1, <1>4, <1>5, <1>6 DEF Offering
<1>8. Valid(c) /\ Affected(job[c][1]) \subseteq keys[c]
    BY <1>2, <1>7, Committed DEF Committing, Careless
<1> QED  BY <1>7, <1>8, LeasesNeeded DEF Op

LEMMA StocksKept ==
    ASSUME Shape, Leases, Documents, Drafts, Offering, Stocks, [Next]_vars
    PROVE  Stocks'
<1> DEFINE Fits(o) == \A x \in Resource \cap DOMAIN writes[o] : Stocked(job[o][1], writes[o], x)
           Calm == mishap \cap {"blind", "late"} = {}
<1>1. ASSUME NEW o \in Client, Kept(o), doc' = doc, Calm, Sure(o)', Leased(o)' PROVE Fits(o)'
  <2>1. Sure(o) /\ Leased(o) /\ writes'[o] = writes[o] /\ job'[o] = job[o]
    BY <1>1, LeasedAgain DEF Kept, Sure
  <2> QED  BY <1>1, <2>1 DEF Stocks, Stocked, Then, Merge
<1>2. CASE Quiet
    BY <1>1, <1>2 DEF Quiet, Stocks
<1>3. ASSUME NEW c \in Client, Opening(c) PROVE Stocks'
  <2>1. PICK r : r = job[c][1]
    OBVIOUS
  <2>2. Operation(c, r) /\ RequestFits(r) /\ doc' = doc /\ mishap' = mishap /\ job' = job
    BY <1>3, <2>1 DEF Opening
  <2>3. PICK w : Open(c, w) /\ Fine(r.op, w)
    BY <2>2, OperationFine DEF OpensFine
  <2>4. writes'[c] = w
    BY <2>3, Opened
  <2>5. ASSUME NEW x \in Resource \cap DOMAIN w PROVE Stocked(r, w, x)
    <3>1. MayWrite(r.op, x)
        BY <2>3 DEF Fine
    <3> QED  BY <2>2, <2>3, <3>1, ResourceStocked
  <2>6. Fits(c)'
    BY <2>1, <2>2, <2>4, <2>5 DEF Stocked, Then, Merge
  <2>7. ASSUME NEW o \in Client \ {c}, Calm, Sure(o)', Leased(o)' PROVE Fits(o)'
    BY <1>1, <1>3, <2>2, <2>7 DEF Opening
  <2> QED  BY <2>2, <2>6, <2>7 DEF Stocks
<1>4. ASSUME NEW c \in Client, Committing(c) \/ Cascading(c), Calm', Calm, NEW o \in Client,
             Sure(o)', Leased(o)', NEW x \in Resource \cap DOMAIN writes'[o]
      PROVE  Stocked(job[o][1], writes[o], x)'
  <2>1. PICK r : r = job[o][1]
    OBVIOUS
  <2>2. /\ o # c /\ Sure(o) /\ job'[o] = job[o] /\ keys'[o] = keys[o]
        /\ writes'[o] = writes[o] /\ (Valid(o)' => Valid(o))
    BY <1>4, StaysSure
  <2>3. x \in (Names \ Offer) \cap DOMAIN writes[o]
    BY <2>2, KindsApart, NamesAssumption
  <2>4. doc'[x] = doc[x] /\ Then(writes[o], x)' = Then(writes[o], x)
    BY <1>4, <2>2, <2>3, StaysSure DEF Would, Then, Merge
  <2>5. r.op \in {"create resource", "update resource", "delete resource"}
    <3>1. MayWrite(r.op, x)
        BY <2>1, <2>2, <2>3 DEF Drafts, Sure, Op
    <3> QED  BY <3>1 DEF MayWrite
  <2>6. Affected(r) = {r.branch} /\ Affected(r)' = {r.branch}
    <3>1. Affected(r)' = RosterAffected(r)'
        BY <2>5 DEF Affected, PersonnelOps, RosterOps, CatalogOps, CategoryOps, ItemOps, Sharing,
           Careless
    <3>2. RosterAffected(r)' = {r.branch}
        BY <2>5 DEF RosterAffected
    <3> QED  BY <2>5, <3>1, <3>2, LeasesNeeded
  <2>7. Leased(o) /\ Valid(o) /\ r.branch \in keys[o]
    BY <1>4, <2>1, <2>2, <2>6 DEF Leased
  <2>8. Stocked(r, writes[o], x)
    BY <1>4, <2>1, <2>2, <2>7 DEF Stocks
  <2>9. SUFFICES ASSUME Then(writes[o], x).serves, ~doc[x].serves
                 PROVE  /\ Then(writes[o], x).at = {r.branch} /\ r.branch \in Branch
                        /\ \E p \in Offer : doc'[p].at = {r.branch}
    BY <2>1, <2>2, <2>4 DEF Stocked
  <2>10. PICK p \in Offer : doc[p].at = {r.branch}
    BY <2>8, <2>9 DEF Stocked
  <2>11. Then(writes[o], x).at = {r.branch} /\ r.branch \in Branch
    BY <2>8, <2>9 DEF Stocked
  <2>12. doc'[p].at = {r.branch}
    <3>1. SUFFICES ASSUME doc'[p].at # {r.branch} PROVE FALSE
        OBVIOUS
    <3>2. Valid(c) /\ r.branch \in keys[c]
        BY <1>4, <2>10, <2>11, <3>1, OfferMoved
    <3>3. Op(o) \in Sharing
        BY <2>2, <2>7, <2>11, <3>2, Rivals
    <3> QED  BY <2>1, <2>5, <3>3 DEF Sharing, Op
  <2> QED  BY <2>10, <2>11, <2>12
<1>5. ASSUME NEW c \in Client, Committing(c) \/ Cascading(c) PROVE Stocks'
  <2>1. mishap \subseteq mishap'
    BY <1>5, Committed, Cascaded DEF Committing, Cascading
  <2> QED  BY <1>4, <1>5, <2>1 DEF Stocks
<1> QED  BY <1>2, <1>3, <1>5, Steps


-----------------------------------------------------------------------------
(* Whatever serves, serves where it is allowed *)

Served == Sane /\ Serving /\ OffersFit /\ Stocks

LEMMA ServedAtFirst == ASSUME Init PROVE Served
<1>1. PICK g \in Agendas : doc = g.doc
    BY DEF Init
<1>2. InOrder(g.doc)
    BY AgendaAssumption
<1>3. service = NoService => \A o \in Offer : doc[o] = NoOffer
    BY <1>1, <1>2 DEF InOrder, service
<1>4. \A c \in Client : ~Sure(c)
    BY DEF Init, InitRequests, Sure
<1> QED  BY <1>3, <1>4, SaneAtFirst DEF Served, Serving, OffersFit, Stocks

LEMMA ServedKept == ASSUME Served, [Next]_vars PROVE Served'
BY SaneKept, ServingKept, OffersFitKept, StocksKept DEF Served, Sane

\* What a commit or a cascade puts in force.
LEMMA ServesThere ==
    ASSUME Served, NEW c \in Client, Committing(c) \/ Cascading(c)
    PROVE  /\ "blind" \notin mishap' =>
                \A o \in Offer :
                    doc'[o].status = "active" /\ (doc[o].status # "active" \/ doc[o].at # doc'[o].at)
                    => doc'[o].at \subseteq Active /\ service.status \in {"active", "gone"}
           /\ mishap' \cap {"blind", "late"} = {} =>
                \A x \in Resource :
                    doc'[x].serves /\ ~doc[x].serves => \E o \in Offer : doc'[o].at = doc'[x].at
<1> USE DEF Served, Sane
<1>1. mishap \subseteq mishap'
    BY Committed, Cascaded DEF Committing, Cascading
<1>2. ASSUME "blind" \notin mishap', NEW o \in Offer, doc'[o].status = "active",
             doc[o].status # "active" \/ doc[o].at # doc'[o].at
      PROVE  doc'[o].at \subseteq Active /\ service.status \in {"active", "gone"}
  <2>1. Committing(c)
    <3>1. SUFFICES ASSUME Cascading(c) PROVE FALSE
        OBVIOUS
    <3>2. CASE o \in Withdrawable
      <4>1. PICK v \in Withdrawals : doc'[o] = Merge(o, v)
        BY <3>1, <3>2, Cascaded DEF Cascading
      <4> QED  BY <1>2, <3>2, <4>1, WrittenOffFine DEF Withdrawable
    <3>3. CASE o \notin Withdrawable
        BY <1>2, <3>1, <3>3, Cascaded, KindsApart DEF Cascading
    <3> QED  BY <3>2, <3>3
  <2>2. /\ doc'[o] = Would(c, o)
        /\ o \in DOMAIN writes[c] => Sure(c)
        /\ o \notin DOMAIN writes[c] => doc'[o] = doc[o]
    BY <2>1, Surely, KindsApart
  <2>3. o \in DOMAIN writes[c] /\ Sure(c)
    BY <1>2, <2>2
  <2>4. Op(c) \notin Careless
    <3>1. MayWrite(Op(c), o)
        BY <2>3 DEF Drafts, Sure
    <3> QED  BY <3>1 DEF MayWrite, Careless
  <2>5. Leased(c)
    BY <1>2, <2>1, <2>4, Committed DEF Committing, Leased
  <2> QED  BY <1>1, <1>2, <2>2, <2>3, <2>5 DEF OffersFit
<1>3. ASSUME mishap' \cap {"blind", "late"} = {}, NEW x \in Resource, doc'[x].serves, ~doc[x].serves
      PROVE  \E o \in Offer : doc'[o].at = doc'[x].at
  <2>1. Committing(c)
    <3>1. x \in Names \ Withdrawable
        BY KindsApart, NamesAssumption DEF Withdrawable
    <3> QED  BY <1>3, <3>1, Cascaded DEF Cascading
  <2>2. /\ doc'[x] = Would(c, x)
        /\ x \in DOMAIN writes[c] => Sure(c)
        /\ x \notin DOMAIN writes[c] => doc'[x] = doc[x]
    BY <2>1, Surely, KindsApart
  <2>3. x \in DOMAIN writes[c] /\ Sure(c)
    BY <1>3, <2>2
  <2>4. Leased(c)
    BY <1>3, <2>1, Committed DEF Committing, Leased
  <2>5. PICK r : r = job[c][1]
    OBVIOUS
  <2>6. Stocked(r, writes[c], x) /\ Then(writes[c], x) = doc'[x]
    BY <1>1, <1>3, <2>2, <2>3, <2>4, <2>5 DEF Stocks, Would
  <2>7. PICK o \in Offer : doc[o].at = {r.branch}
    BY <1>3, <2>6 DEF Stocked
  <2>8. doc'[x].at = {r.branch} /\ r.branch \in Branch
    BY <1>3, <2>6 DEF Stocked
  <2>9. Op(c) \in {"create resource", "update resource", "delete resource"}
    <3>1. MayWrite(Op(c), x)
        BY <2>3 DEF Drafts, Sure
    <3> QED  BY <3>1 DEF MayWrite
  <2>10. doc'[o].at = {r.branch}
    BY <1>3, <2>7, <2>8, <2>9, OfferMoved
  <2> QED  BY <2>8, <2>10
<1> QED  BY <1>2, <1>3

\* An offer is put in force at a branch and of a service that are active then, and a
\* resource serves where there is an offer then: both are checked under leases that
\* whoever would take the ground away needs as well.
THEOREM OnlyWhereItIsAllowed == Spec => ServedWhereAllowed
<1> DEFINE InForce ==
             /\ "blind" \notin mishap' =>
                  \A o \in Offer :
                      doc'[o].status = "active" /\ (doc[o].status # "active" \/ doc[o].at # doc'[o].at)
                      => doc'[o].at \subseteq Active /\ service.status \in {"active", "gone"}
             /\ mishap' \cap {"blind", "late"} = {} =>
                  \A x \in Resource :
                      doc'[x].serves /\ ~doc[x].serves =>
                          \E o \in Offer : doc'[o].at = doc'[x].at
<1>1. Init => Served
    BY ServedAtFirst
<1>2. Served /\ [Next]_vars => Served'
    BY ServedKept
<1>3. ASSUME Served, Next PROVE InForce
  <2>1. CASE doc' = doc
    BY <2>1
  <2>2. ASSUME NEW c \in Client, Committing(c) \/ Cascading(c) PROVE InForce
    BY <1>3, <2>2, ServesThere
  <2> QED  BY <1>3, <2>1, <2>2, Steps DEF Quiet, Opening, Served, Sane
<1>4. Served /\ [Next]_vars => [InForce]_vars
    BY <1>3
<1> QED  BY <1>1, <1>2, <1>4, PTL DEF Spec, ServedWhereAllowed


-----------------------------------------------------------------------------
(* A withdrawn service is offered nowhere *)

\* Request c is about to switch off what an inactive service is offered at.
Withdraws(c) == pc[c] = "cascading" /\ writes[c] = Put("service", WrittenOff)

Withdrawing ==
    mishap \cap {"torn", "blind"} = {} /\ service.status = "inactive" =>
        \/ \E c \in Client : Withdraws(c)
        \/ \A o \in Offer : doc[o].status # "active"

\* A withdrawal is carried out, unless the process dies.
LEMMA Unfinished ==
    ASSUME Shape, [Next]_vars, NEW c \in Client, Withdraws(c), ~Withdraws(c)',
           "torn" \notin mishap'
    PROVE  Cascade(c)
<1>1. CASE UNCHANGED vars
    BY <1>1 DEF vars, Withdraws, WrittenOff, Put
<1>2. ASSUME NEW k \in Key, Lapse(k) PROVE FALSE
    BY <1>2 DEF Lapse, requests, Withdraws, WrittenOff, Put
<1>3. ASSUME NEW o \in Client, o = c \/ (pc'[c] = pc[c] /\ writes'[c] = writes[c]) PROVE o = c
    BY <1>3 DEF Withdraws, WrittenOff, Put
<1>4. ASSUME NEW o \in Client, NEW r \in asks[o], Ask(o, r) PROVE FALSE
    BY <1>3, <1>4 DEF Ask, Arrive, Shape, Withdraws
<1>5. ASSUME NEW o \in Client, Lease(o) PROVE FALSE
    BY <1>3, <1>5 DEF Lease, Shape, Withdraws
<1>6. ASSUME NEW o \in Client, Operation(o, job[o][1]) PROVE FALSE
  <2>1. PICK w : Open(o, w)
    BY <1>6, OpensReady
  <2> QED  BY <1>3, <2>1 DEF Open, Shape, Withdraws
<1>7. ASSUME NEW o \in Client, Over(o) \/ \E s, w : Continue(o, s, w) PROVE o = c
    BY <1>3, <1>7 DEF Over, Continue, Shape
<1>8. ASSUME NEW o \in Client, Commit(o) PROVE FALSE
    BY <1>7, <1>8 DEF Commit, Withdraws
<1>9. ASSUME NEW o \in Client, Retry(o) PROVE FALSE
    BY <1>3, <1>9 DEF Retry, Shape, Withdraws
<1>10. ASSUME NEW o \in Client, Fail(o) PROVE FALSE
    BY <1>7, <1>10 DEF Fail, Withdraws
<1>11. ASSUME NEW o \in Client, Cascade(o) PROVE Cascade(c)
    BY <1>7, <1>11 DEF Cascade
<1> QED  BY <1>1, <1>2, <1>4, <1>5, <1>6, <1>8, <1>9, <1>10, <1>11 DEF Next

\* What an inactive service is offered at is switched off after it.
LEMMA WithdrawnNext ==
    ASSUME Shape, Documents, NEW c \in Client, Commit(c), Op(c) = "update service",
           doc'["service"].status = "inactive"
    PROVE  Withdraws(c)'
<1>1. doc' = After(writes[c])
    BY DEF Commit
<1>2. Withdrawn(After(writes[c]).service) = WrittenOff
    BY <1>1 DEF Withdrawn, WrittenOff
<1>3. WrittenOff # Nothing
    BY DEF WrittenOff, Nothing
<1>4. Continue(c, "cascading", Put("service", WrittenOff))
    BY <1>2, <1>3 DEF Commit, Op, ItemOps
<1> QED  BY <1>4 DEF Continue, Shape, Withdraws, WrittenOff, Put

LEMMA WithdrawingKept ==
    ASSUME Shape, Leases, Documents, Drafts, Offering, Serving, OffersFit, Withdrawing, [Next]_vars
    PROVE  Withdrawing'
<1> SUFFICES ASSUME mishap' \cap {"torn", "blind"} = {}, doc'["service"].status = "inactive",
                    \A c \in Client : ~Withdraws(c)', NEW o \in Offer
             PROVE  doc'[o].status # "active"
    BY DEF Withdrawing, service
<1>1. mishap \subseteq mishap'
    BY Steps, Committed, Cascaded DEF Quiet, Opening, Committing, Cascading
<1>2. NoOffer.status # "active" /\ NoService.status # "active"
    BY DEF NoOffer, NoService
<1>3. CASE \E c \in Client : Withdraws(c)
  <2>1. PICK c \in Client : Withdraws(c) /\ Cascade(c)
    BY <1>3, Unfinished
  <2>2. PICK v : /\ writes[c] = Put("service", v)
                 /\ \A p \in Withdrawable : doc'[p] = Merge(p, v)
    BY <2>1, Cascaded
  <2>3. v = WrittenOff
    <3>1. Put("service", v)["service"] = v /\ Put("service", WrittenOff)["service"] = WrittenOff
        BY DEF Put
    <3> QED  BY <2>1, <2>2, <3>1 DEF Withdraws
  <2>4. CASE o \in Withdrawable
    <3>1. doc'[o].status = "inactive"
        BY <2>2, <2>3, <2>4, WrittenOffInactive DEF Withdrawable
    <3> QED  BY <3>1
  <2>5. CASE o \notin Withdrawable
    <3>1. doc'[o] = NoOffer
        BY <2>1, <2>5, Cascaded, KindsApart DEF Withdrawable
    <3> QED  BY <1>2, <3>1
  <2> QED  BY <2>4, <2>5
<1>4. CASE service.status = "inactive" /\ ~ \E c \in Client : Withdraws(c)
  <2>1. doc[o].status # "active"
    BY <1>1, <1>4 DEF Withdrawing
  <2>2. ASSUME NEW c \in Client, Committing(c) PROVE doc'[o].status # "active"
    <3>1. /\ doc'[o] = Would(c, o)
          /\ o \in DOMAIN writes[c] => Sure(c)
          /\ o \notin DOMAIN writes[c] => doc'[o] = doc[o]
        BY <2>2, Surely, KindsApart
    <3>2. ASSUME o \in DOMAIN writes[c] PROVE Leased(c)
      <4>1. MayWrite(Op(c), o)
        BY <3>1, <3>2 DEF Drafts, Sure
      <4>2. Op(c) \notin Careless
        BY <4>1 DEF MayWrite, Careless
      <4> QED  BY <2>2, <4>2, Committed DEF Committing, Leased
    <3> QED  BY <1>1, <1>4, <2>1, <3>1, <3>2 DEF OffersFit
  <2>3. ASSUME NEW c \in Client, Cascading(c) PROVE doc'[o].status # "active"
    <3>1. CASE o \in Withdrawable
      <4>1. PICK v \in Withdrawals : doc'[o] = Merge(o, v)
        BY <2>3, <3>1, Cascaded DEF Cascading
      <4> QED  BY <2>1, <3>1, <4>1, WrittenOffFine DEF Withdrawable
    <3>2. CASE o \notin Withdrawable
        BY <2>1, <2>3, <3>2, Cascaded, KindsApart DEF Cascading
    <3> QED  BY <3>1, <3>2
  <2> QED  BY <2>1, <2>2, <2>3, Steps DEF Quiet, Opening
<1>5. CASE service.status # "inactive"
  <2>1. doc'["service"] # service
    BY <1>5
  <2>2. PICK c \in Client : Committing(c)
    <3>1. "service" \in Names \ Withdrawable
        BY NamesAssumption DEF Withdrawable, Names, Singles
    <3>2. ASSUME NEW c \in Client PROVE ~Cascading(c)
        BY <2>1, <3>1, Cascaded DEF Cascading, service
    <3> QED  BY <2>1, <3>2, Steps DEF Quiet, Opening, service
  <2>3. Op(c) # "update service"
    BY <2>2, WithdrawnNext DEF Committing
  <2>4. Op(c) = "create service" /\ ServiceDraft(job[c][1], writes[c])
    BY <2>1, <2>2, <2>3, ServiceCommitted
  <2>5. service = NoService
    BY <2>4 DEF ServiceDraft, Op
  <2>6. doc[o] = NoOffer
    BY <2>5 DEF Serving
  <2>7. o \notin DOMAIN writes[c]
    <3>1. o \in DOMAIN writes[c] => MayWrite(Op(c), o)
        BY <2>2, Committed DEF Drafts, Committing
    <3> QED  BY <2>4, <3>1 DEF MayWrite
  <2>8. doc'[o] = doc[o]
    BY <2>2, <2>7, Surely, KindsApart
  <2> QED  BY <1>2, <2>6, <2>8
<1> QED  BY <1>3, <1>4, <1>5

LEMMA WithdrawingAtFirst == ASSUME Init PROVE Withdrawing
<1>1. PICK g \in Agendas : doc = g.doc
    BY DEF Init
<1>2. InOrder(g.doc)
    BY AgendaAssumption
<1>3. \A o \in Offer : doc[o].status = "active" => service.status \in {"active", "gone"}
    BY <1>1, <1>2 DEF InOrder, service
<1> QED  BY <1>3 DEF Withdrawing

\* Once the withdrawal of an inactive service is over no offer of it is in force, made
\* or put in force however late; unless the process died in between.
THEOREM WithdrawnForGood == Spec => []WithdrawnServiceIsNotOffered
<1>1. Init => Served /\ Withdrawing
    BY ServedAtFirst, WithdrawingAtFirst
<1>2. Served /\ Withdrawing /\ [Next]_vars => (Served /\ Withdrawing)'
    BY ServedKept, WithdrawingKept DEF Served, Sane
<1>3. Withdrawing => WithdrawnServiceIsNotOffered
    BY DEF Withdrawing, Withdraws, WithdrawnServiceIsNotOffered
<1> QED  BY <1>1, <1>2, <1>3, PTL DEF Spec


-----------------------------------------------------------------------------
(* Staff are put only where they belong *)

\* Branches of the employee come by a request that names them and leases them, and
\* go by one that leases them all.
Joins(r, w) ==
    LET bs == Then(w, "employee").branches IN
    /\ \/ bs \subseteq employee.branches
       \/ /\ r.op \in {"hire", "employ"} \/ (r.op = "update" /\ ~r.everywhere)
          /\ bs \subseteq Active \cap r.branches
    /\ \/ employee.branches \subseteq bs
       \/ r.op = "terminate" \/ (r.op = "update" /\ ~r.everywhere)

\* The employee is given the service where they work and where it is offered.
Assigned(r, w, d) ==
    Then(w, d).status = "active" /\ doc[d].status # "active" =>
        /\ r.op = "assign" /\ r.branches \in One(Branch)
        /\ Then(w, d).at = r.branches /\ r.branches \subseteq employee.branches
        /\ Offered(r.branches) # {}

\* Hours are planned, and time off is asked for, at branches of the employee.
Planned(r, w, v) ==
    doc[v] = NoVersion =>
        /\ r.op = "create shift" /\ r.branch \in Branch
        /\ Then(w, v).at = {r.branch} /\ r.branch \in employee.branches

Away(r, w, v) ==
    doc[v] = NoLeave =>
        /\ r.op = "take off" /\ r.branches \subseteq Branch
        /\ Then(w, v).branches \subseteq employee.branches
        /\ Then(w, v).branches \subseteq IF r.everywhere THEN {} ELSE r.branches

Placing ==
    \A c \in Client : Sure(c) =>
      /\ \A v \in Shift \cap DOMAIN writes[c] : doc[v] = NoVersion => Op(c) = "create shift"
      /\ \A v \in Leave \cap DOMAIN writes[c] : doc[v] = NoLeave => Op(c) = "take off"
      /\ "blind" \notin mishap /\ Leased(c) =>
           /\ "employee" \in DOMAIN writes[c] => Joins(job[c][1], writes[c])
           /\ \A v \in Shift \cap DOMAIN writes[c] : Planned(job[c][1], writes[c], v)
           /\ \A v \in Leave \cap DOMAIN writes[c] : Away(job[c][1], writes[c], v)
           /\ "unguarded" \notin mishap =>
                \A d \in Duty \cap DOMAIN writes[c] : Assigned(job[c][1], writes[c], d)

LEMMA UpdatedBranches ==
    ASSUME Documents, NEW r
    PROVE  Then(Updated(r), "employee").branches =
             IF r.everywhere THEN employee.branches ELSE r.branches
<1> DEFINE status   == IF r.status = "keep" THEN employee.status ELSE r.status
           branches == IF r.everywhere THEN employee.branches ELSE r.branches
           new      == [employee EXCEPT !.status = status, !.branches = branches,
                                        !.bookable = @ /\ status = "active"]
           changing == employee.linked /\ r.status # "keep"
           before   == IF changing /\ access # NoAccess
                       THEN [access EXCEPT !.status = Standing(status)] ELSE access
           after    == IF employee.linked /\ ~r.everywhere THEN Trim(before, branches) ELSE before
           touched  == r.status = "keep" /\ r.everywhere
           emp      == IF touched THEN Put("employee", new) ELSE Save("employee", new)
           acc      == IF access = before /\ before = after THEN Nothing ELSE Put("access", after)
           use      == IF changing THEN Account(status) ELSE Nothing
<1>1. Updated(r) = Both(emp, Both(acc, use))
    BY DEF Updated
<1>2. DOMAIN employee = {"status", "branches", "bookable", "linked"}
  <2>1. doc["employee"] \in EmployeeDoc
    BY Typed
  <2> QED  BY <2>1 DEF EmployeeDoc, NoEmployee, employee
<1>3. new.branches = branches /\ new = [f \in DOMAIN employee |-> new[f]]
    BY <1>2
<1> HIDE DEF changing, before, after, status, new
<1>4. Merge("employee", new) = new /\ Whole("employee")
    BY <1>3, MergeAll, Wholeness DEF employee, Names, Singles
<1>5. Then(emp, "employee") = new
  <2>1. Put("employee", new) = emp \/ Save("employee", new) = emp
    OBVIOUS
  <2>2. Then(Put("employee", new), "employee") = new
    BY <1>4 DEF Put, Then
  <2>3. Then(Save("employee", new), "employee") = new
    BY <1>4, SaveWritten
  <2> QED  BY <2>1, <2>2, <2>3
<1>6. "employee" \notin DOMAIN acc
    BY DEF Put, Nothing
<1>7. "employee" \notin DOMAIN use
    BY DEF Account, Put, Save, Nothing
<1> HIDE DEF emp, acc, use
<1>8. Then(Both(emp, Both(acc, use)), "employee") = Then(emp, "employee")
    BY <1>6, <1>7 DEF Both, Then
<1> QED  BY <1>1, <1>3, <1>5, <1>8

LEMMA EmployeeJoins ==
    ASSUME Shape, Documents, NEW c \in Client, NEW r, RequestFits(r), Operation(c, r),
           NEW w, Open(c, w), MayWrite(r.op, "employee")
    PROVE  Joins(r, w)
<1>0. \A x : Open(c, x) => x = w
    BY Opened
<1>1. employee \in EmployeeDoc /\ DOMAIN employee = {"status", "branches", "bookable", "linked"}
  <2>1. doc["employee"] \in EmployeeDoc
    BY Typed
  <2> QED  BY <2>1 DEF EmployeeDoc, NoEmployee, employee
<1>2. ASSUME NEW f, NEW x, w = Both(Put("employee", f), x)
      PROVE  Then(w, "employee") = Merge("employee", f)
    BY <1>2 DEF Both, Put, Then
<1>3. CASE r.op \in {"hire", "employ"}
  <2> DEFINE hired == [status |-> r.status, branches |-> r.branches,
                       bookable |-> r.status = "active", linked |-> r.op = "employ"]
             given == Access([status |-> IF r.status = "active" THEN "active" ELSE "invited",
                              everywhere |-> r.branches = {}, branches |-> r.branches])
             rest  == IF hired.linked THEN Both(NewUser, Put("access", given)) ELSE Nothing
  <2>1. Hire(c, r)
    BY <1>3, Acts
  <2>2. /\ employee = NoEmployee /\ Open(c, Both(Put("employee", hired), rest))
        /\ r.branches \subseteq Active
    BY <2>1 DEF Hire, MayJoin
  <2>3. Merge("employee", hired).branches = r.branches
    BY <1>1 DEF Merge, employee
  <2> HIDE DEF hired, rest
  <2>4. Then(w, "employee").branches = r.branches
    BY <1>0, <1>2, <2>2, <2>3
  <2>5. employee.branches = {}
    BY <2>2 DEF NoEmployee
  <2> QED  BY <1>3, <2>2, <2>4, <2>5 DEF Joins
<1>4. CASE r.op = "update"
  <2>1. Update(c, r)
    BY <1>4, Acts
  <2>2. Open(c, Updated(r)) /\ (~r.everywhere => r.branches \subseteq Active)
    BY <2>1 DEF Update, MayJoin
  <2>3. Then(w, "employee").branches = IF r.everywhere THEN employee.branches ELSE r.branches
    BY <1>0, <2>2, UpdatedBranches
  <2> QED  BY <1>4, <2>2, <2>3 DEF Joins
<1>5. CASE r.op \in {"provision", "activate"}
  <2> DEFINE status == IF r.op = "activate" THEN "active" ELSE employee.status
             new    == [employee EXCEPT !.status = status, !.linked = TRUE]
             rest   == Both(NewUser, Put("access", Access(r)))
  <2>1. Provision(c, r)
    BY <1>5, Acts
  <2>2. Open(c, Both(Put("employee", new), rest))
    BY <2>1 DEF Provision
  <2>3. new.branches = employee.branches /\ new = [x \in DOMAIN employee |-> new[x]]
    BY <1>1
  <2> HIDE DEF new, rest
  <2>4. Merge("employee", new) = new
    BY <2>3, MergeAll DEF employee
  <2>5. Then(w, "employee") = new
    BY <1>0, <1>2, <2>2, <2>4
  <2> QED  BY <2>3, <2>5 DEF Joins
<1>6. CASE r.op = "terminate"
  <2> DEFINE new  == [NoEmployee EXCEPT !.status = "gone"]
             acc  == IF access = NoAccess THEN Nothing
                     ELSE Save("access", [status |-> Standing("terminated")])
             rest == IF ~employee.linked THEN Nothing ELSE Both(Account("terminated"), acc)
  <2>1. Terminate(c, r)
    BY <1>6, Acts
  <2>2. Open(c, Both(Put("employee", new), rest))
    BY <2>1 DEF Terminate
  <2>3. new.branches = {} /\ new = [x \in DOMAIN employee |-> new[x]]
    BY <1>1 DEF NoEmployee
  <2> HIDE DEF new, rest
  <2>4. Merge("employee", new) = new
    BY <2>3, MergeAll DEF employee
  <2>5. Then(w, "employee") = new
    BY <1>0, <1>2, <2>2, <2>4
  <2> QED  BY <1>6, <2>3, <2>5 DEF Joins
<1>7. CASE r.op = "profile"
  <2>1. Open(c, Put("employee", Nothing))
    BY <1>7, Acts DEF UpdateMyProfile
  <2>2. w = Put("employee", Nothing)
    BY <1>0, <2>1
  <2>3. Merge("employee", Nothing).branches = employee.branches
    BY <1>1 DEF Merge, Nothing, employee
  <2>4. Then(w, "employee") = Merge("employee", Nothing)
    BY <2>2 DEF Put, Then
  <2> QED  BY <2>3, <2>4 DEF Joins
<1>8. r.op \in {"hire", "employ", "update", "provision", "activate", "terminate", "profile"}
    BY DEF MayWrite
<1> QED  BY <1>3, <1>4, <1>5, <1>6, <1>7, <1>8

LEMMA DutyAssigned ==
    ASSUME Shape, Documents, NEW c \in Client, NEW r, RequestFits(r), Operation(c, r),
           NEW w, Open(c, w), NEW d \in Duty \cap DOMAIN w, MayWrite(r.op, d)
    PROVE  Assigned(r, w, d)
<1>0. \A x : Open(c, x) => x = w
    BY Opened
<1>1. \A e \in Duty : doc[e] \in DutyDoc /\ Whole(e)
    BY Typed, Wholeness DEF Names
<1>2. CASE r.op = "assign"
  <2> DEFINE new == [status |-> "active", at |-> r.branches]
  <2>1. /\ r.branches \subseteq employee.branches /\ Offered(r.branches) # {}
        /\ \E e \in Duty : Open(c, Save(e, new))
    BY <1>2, Acts DEF Assign
  <2>2. PICK e \in Duty : Open(c, Save(e, new))
    BY <2>1
  <2>3. Merge(e, new).at = r.branches
    BY <1>1 DEF Merge, DutyDoc, NoDuty
  <2> HIDE DEF new
  <2>4. w = Save(e, new)
    BY <1>0, <2>2
  <2>5. d = e /\ Then(w, d) = Merge(e, new)
    BY <1>1, <2>4, SaveWritten
  <2>6. r.branches \in One(Branch)
    BY <1>2 DEF RequestFits
  <2> QED  BY <1>2, <2>1, <2>3, <2>5, <2>6 DEF Assigned
<1>3. CASE r.op = "unassign"
  <2> DEFINE new == [status |-> "inactive"]
  <2>1. PICK e \in Duty : Open(c, Save(e, new))
    BY <1>3, Acts DEF Unassign
  <2>2. Merge(e, new).status = "inactive"
    BY <1>1 DEF Merge, DutyDoc, NoDuty
  <2> HIDE DEF new
  <2>3. w = Save(e, new)
    BY <1>0, <2>1
  <2>4. d = e /\ Then(w, d) = Merge(e, new)
    BY <1>1, <2>3, SaveWritten
  <2> QED  BY <2>2, <2>4 DEF Assigned
<1>4. r.op \in {"assign", "unassign"}
    BY DEF MayWrite
<1> QED  BY <1>2, <1>3, <1>4

LEMMA ShiftPlanned ==
    ASSUME Shape, Documents, NEW c \in Client, NEW r, RequestFits(r), Operation(c, r),
           NEW w, Open(c, w), NEW v \in Shift \cap DOMAIN w, MayWrite(r.op, v)
    PROVE  Planned(r, w, v)
<1>0. \A x : Open(c, x) => x = w
    BY Opened
<1>1. /\ \A x \in Shift : doc[x] \in VersionDoc /\ Whole(x)
      /\ NoVersion.status = "absent"
    BY Typed, Wholeness DEF Names, NoVersion
<1>2. CASE r.op = "create shift"
  <2> DEFINE new == [status |-> r.status, at |-> {r.branch}, from |-> r.from, until |-> r.until]
  <2>1. r.branch \in employee.branches /\ Open(c, Put(r.shift, new)) /\ r.branch \in Branch
    BY <1>2, Acts DEF CreateShift, RequestFits
  <2>2. w = Put(r.shift, new)
    BY <1>0, <2>1
  <2>3. Merge(v, new).at = {r.branch}
    BY <1>1 DEF Merge, VersionDoc, NoVersion
  <2> HIDE DEF new
  <2>4. Then(w, v) = Merge(v, new)
    BY <2>2 DEF Put, Then
  <2> QED  BY <1>2, <2>1, <2>3, <2>4 DEF Planned
<1>3. CASE r.op \in {"update shift", "archive shift"}
  <2>1. PICK new : Open(c, Save(r.shift, new)) /\ r.shift \in Shift /\ doc[r.shift] # NoVersion
    <3>1. r.shift \in Shift
        BY <1>3 DEF RequestFits
    <3> QED  BY <1>1, <1>3, <3>1, Acts DEF UpdateShift, ArchiveShift
  <2>2. w = Save(r.shift, new)
    BY <1>0, <2>1
  <2>3. v = r.shift
    BY <1>1, <2>1, <2>2, SaveWritten
  <2> QED  BY <2>1, <2>3 DEF Planned
<1>4. r.op \in {"create shift", "update shift", "archive shift"}
    BY DEF MayWrite
<1> QED  BY <1>2, <1>3, <1>4

LEMMA LeaveAway ==
    ASSUME Shape, Documents, NEW c \in Client, NEW r, RequestFits(r), Operation(c, r),
           NEW w, Open(c, w), NEW v \in Leave \cap DOMAIN w, MayWrite(r.op, v)
    PROVE  Away(r, w, v)
<1>0. \A x : Open(c, x) => x = w
    BY Opened
<1>1. /\ \A x \in Leave : doc[x] \in LeaveDoc /\ Whole(x)
      /\ NoLeave.status = "absent"
    BY Typed, Wholeness DEF Names, NoLeave
<1>2. r.op \in Sharing
    BY DEF MayWrite
<1>3. r.leave \in Leave
    BY <1>2 DEF RequestFits, Sharing
<1>4. CASE r.op = "take off"
  <2> DEFINE bs  == IF r.everywhere THEN {} ELSE r.branches
             new == [status |-> "requested", everywhere |-> r.everywhere, branches |-> bs,
                     from |-> r.from, until |-> r.until]
  <2>1. /\ Open(c, Put(r.leave, new)) /\ r.branches \subseteq Branch
        /\ bs \subseteq employee.branches
    BY <1>4, Acts DEF TakeOff, RequestFits
  <2>2. w = Put(r.leave, new)
    BY <1>0, <2>1
  <2>3. Merge(v, new).branches = bs
    BY <1>1 DEF Merge, LeaveDoc, NoLeave
  <2> HIDE DEF new
  <2>4. Then(w, v) = Merge(v, new)
    BY <2>2 DEF Put, Then
  <2> QED  BY <1>4, <2>1, <2>3, <2>4 DEF Away
<1>5. ASSUME NEW new, Open(c, Save(r.leave, new)), doc[r.leave] # NoLeave PROVE Away(r, w, v)
  <2>1. w = Save(r.leave, new)
    BY <1>0, <1>5
  <2>2. v = r.leave
    BY <1>1, <1>3, <2>1, SaveWritten
  <2> QED  BY <1>5, <2>2 DEF Away
<1>6. CASE r.op = "withdraw"
  <2>1. /\ Open(c, Save(r.leave, [status |-> "cancelled"]))
        /\ doc[r.leave].status \in {"requested", "approved", "cancelled"}
    BY <1>6, Acts DEF Withdraw
  <2> QED  BY <1>1, <1>5, <2>1
<1>7. CASE r.op \in {"approve", "reject", "call off"}
  <2>1. /\ Open(c, Save(r.leave, [status |-> Decision[r.op]]))
        /\ \/ doc[r.leave].status \in {"requested", Decision[r.op]}
           \/ doc[r.leave].status = "approved"
    BY <1>7, Acts DEF DecideTimeOff
  <2>2. Decision[r.op] \in {"approved", "rejected", "cancelled"}
    BY <1>7 DEF Decision
  <2> QED  BY <1>1, <1>5, <2>1, <2>2
<1> QED  BY <1>2, <1>4, <1>6, <1>7 DEF Sharing


\* An employee leaves a branch under its lease.
LEMMA BranchLeft ==
    ASSUME Documents, Drafts, Placing, NEW c \in Client, Committing(c), "blind" \notin mishap',
           "blind" \notin mishap, NEW b \in employee.branches, b \notin doc'["employee"].branches
    PROVE  b \in Branch /\ Valid(c) /\ b \in keys[c] /\ Op(c) \in {"terminate", "update"}
<1>1. b \in Branch
  <2>1. doc["employee"] \in EmployeeDoc
    BY Typed
  <2> QED  BY <2>1 DEF EmployeeDoc, NoEmployee, employee
<1>2. /\ doc'["employee"] = Would(c, "employee")
      /\ "employee" \in DOMAIN writes[c] => Sure(c)
      /\ "employee" \notin DOMAIN writes[c] => doc'["employee"] = doc["employee"]
    BY Surely, KindsApart
<1>3. "employee" \in DOMAIN writes[c] /\ Sure(c)
    BY <1>2 DEF employee
<1>4. Op(c) \notin Careless
  <2>1. MayWrite(Op(c), "employee")
    BY <1>3 DEF Drafts, Sure
  <2> QED  BY <2>1 DEF MayWrite, Careless
<1>5. Leased(c)
    BY <1>4, Committed DEF Committing, Leased
<1>6. PICK r : r = job[c][1]
    OBVIOUS
<1>7. Joins(r, writes[c]) /\ Then(writes[c], "employee") = doc'["employee"]
    BY <1>2, <1>3, <1>5, <1>6 DEF Placing, Would
<1>8. r.op = "terminate" \/ (r.op = "update" /\ ~r.everywhere)
    BY <1>7 DEF Joins
<1>9. b \in Affected(r)
    BY <1>8, LeasesNeeded
<1> QED  BY <1>1, <1>5, <1>6, <1>8, <1>9 DEF Leased, Op

\* An offer changes under the lease of its branch.
LEMMA OfferTouched ==
    ASSUME Shape, Documents, Drafts, Offering, NEW c \in Client, Committing(c) \/ Cascading(c),
           mishap' \cap {"blind", "unguarded"} = {}, NEW o \in Offer, NEW b \in Branch,
           doc[o].at = {b}, doc'[o] # doc[o]
    PROVE  Valid(c) /\ b \in keys[c]
<1>1. doc[o] # NoOffer /\ NoOffer.at = {}
    BY DEF NoOffer
<1>2. CASE Cascading(c)
    BY <1>2, Cascaded DEF Cascading, Offering
<1>3. CASE Committing(c)
  <2>1. /\ o \in DOMAIN writes[c] => Sure(c)
        /\ o \notin DOMAIN writes[c] => doc'[o] = doc[o]
    BY <1>3, Surely, KindsApart
  <2>2. o \in DOMAIN writes[c] /\ Sure(c)
    BY <2>1
  <2>3. Op(c) \in {"create offer", "update offer", "archive branch"}
    <3>1. MayWrite(Op(c), o)
        BY <2>2 DEF Drafts, Sure
    <3> QED  BY <3>1 DEF MayWrite
  <2>4. Valid(c) /\ Affected(job[c][1]) \subseteq keys[c]
    BY <1>3, <2>3, Committed DEF Committing, Careless
  <2>5. CASE Op(c) = "archive branch"
    <3>1. doc[o].at = {job[c][1].branch}
        BY <2>2, <2>5 DEF Drafts
    <3> QED  BY <2>4, <2>5, <3>1, LeasesNeeded DEF Op
  <2>6. CASE Op(c) # "archive branch"
    <3>1. Op(c) = "update offer" /\ o = job[c][1].offer
        BY <1>1, <2>2, <2>3, <2>6 DEF Offering
    <3> QED  BY <2>4, <3>1, LeasesNeeded DEF Op
  <2> QED  BY <2>5, <2>6
<1> QED  BY <1>2, <1>3

\* Who is to put staff somewhere has had its leases since they were taken.
LEMMA PlacedLeased ==
    ASSUME Shape, Documents, Drafts, Offering, NEW c \in Client, Committing(c) \/ Cascading(c),
           NEW o \in Client, Sure(o)', Leased(o)',
           \/ Op(o) \in PersonnelOps /\ doc'["employee"] = doc["employee"]
           \/ Op(o) \in {"assign", "unassign", "create shift", "take off"}
    PROVE  Leased(o)
<1>1. PICK r : r = job[o][1]
    OBVIOUS
<1>2. /\ job'[o] = job[o] /\ keys'[o] = keys[o] /\ (Valid(o)' => Valid(o))
    BY StaysSure
<1>3. Branches \subseteq Branches'
    BY BranchesStay
<1>4. Affected(r) \subseteq Affected(r)'
  <2>1. CASE r.op \in PersonnelOps /\ doc'["employee"] = doc["employee"]
    <3>1. Affected(r) = PersonnelAffected(r) /\ Affected(r)' = PersonnelAffected(r)'
        BY <2>1 DEF Affected, PersonnelOps, RosterOps, CatalogOps, CategoryOps, ItemOps, Sharing,
           Careless
    <3>2. PersonnelAffected(r)' = PersonnelAffected(r)
        BY <2>1 DEF PersonnelAffected, employee
    <3> QED  BY <3>1, <3>2
  <2>2. CASE r.op \in {"assign", "unassign"}
    <3>1. Affected(r)' = PersonnelAffected(r)'
        BY <2>2 DEF Affected, PersonnelOps, RosterOps, CatalogOps, CategoryOps, ItemOps, Sharing,
           Careless
    <3>2. PersonnelAffected(r)' = r.branches
        BY <2>2 DEF PersonnelAffected
    <3> QED  BY <2>2, <3>1, <3>2, LeasesNeeded
  <2>3. CASE r.op \in {"create shift", "take off"}
    <3>1. Affected(r)' = RosterAffected(r)'
        BY <2>3 DEF Affected, PersonnelOps, RosterOps, CatalogOps, CategoryOps, ItemOps, Sharing,
           Careless
    <3>2. RosterAffected(r)' = IF r.op = "create shift" THEN {r.branch}
                               ELSE {"time off"} \cup IF r.everywhere THEN Branches' ELSE r.branches
        BY <2>3 DEF RosterAffected
    <3>3. CASE r.op = "create shift"
        BY <3>1, <3>2, <3>3, LeasesNeeded
    <3>4. CASE r.op = "take off"
      <4>1. Affected(r) = {"time off"} \cup IF r.everywhere THEN Branches ELSE r.branches
        BY <3>4, LeasesNeeded
      <4>2. Affected(r)' = {"time off"} \cup IF r.everywhere THEN Branches' ELSE r.branches
        BY <3>1, <3>2, <3>4
      <4> QED  BY <1>3, <4>1, <4>2
    <3> QED  BY <2>3, <3>3, <3>4
  <2> QED  BY <1>1, <2>1, <2>2, <2>3 DEF Op
<1> QED  BY <1>1, <1>2, <1>4 DEF Leased


LEMMA PlacingKept ==
    ASSUME Shape, Leases, Documents, Drafts, Offering, Serving, Placing, [Next]_vars
    PROVE  Placing'
<1> DEFINE Begins(o) ==
             /\ \A v \in Shift \cap DOMAIN writes[o] : doc[v] = NoVersion => Op(o) = "create shift"
             /\ \A v \in Leave \cap DOMAIN writes[o] : doc[v] = NoLeave => Op(o) = "take off"
           Fits(o) ==
             /\ "employee" \in DOMAIN writes[o] => Joins(job[o][1], writes[o])
             /\ \A v \in Shift \cap DOMAIN writes[o] : Planned(job[o][1], writes[o], v)
             /\ \A v \in Leave \cap DOMAIN writes[o] : Away(job[o][1], writes[o], v)
             /\ "unguarded" \notin mishap =>
                  \A d \in Duty \cap DOMAIN writes[o] : Assigned(job[o][1], writes[o], d)
           Calm == "blind" \notin mishap
<1>0. /\ \A o \in Client : Sure(o) => Begins(o) /\ (Calm /\ Leased(o) => Fits(o))
      /\ (\A o \in Client : Sure(o)' => Begins(o)' /\ (Calm' /\ Leased(o)' => Fits(o)')) => Placing'
    BY DEF Placing
<1>1. ASSUME NEW o \in Client, Kept(o), doc' = doc, mishap \subseteq mishap', Sure(o)'
      PROVE  Begins(o)' /\ (Calm' /\ Leased(o)' => Fits(o)')
  <2>1. Sure(o) /\ writes'[o] = writes[o] /\ job'[o] = job[o]
    BY <1>1 DEF Kept, Sure
  <2>2. Begins(o)'
    BY <1>0, <1>1, <2>1 DEF Op
  <2>3. ASSUME Calm', Leased(o)' PROVE Fits(o)'
    <3>1. Leased(o) /\ Calm /\ ("unguarded" \notin mishap' => "unguarded" \notin mishap)
        BY <1>1, <2>3, LeasedAgain
    <3>2. Fits(o)
        BY <1>0, <2>1, <3>1
    <3> QED
        BY <1>1, <2>1, <3>1, <3>2
        DEF Joins, Planned, Away, Assigned, Offered, Then, Merge, employee, Active
  <2> QED  BY <2>2, <2>3
<1>2. CASE Quiet
    BY <1>0, <1>1, <1>2 DEF Quiet
<1>3. ASSUME NEW c \in Client, Opening(c) PROVE Placing'
  <2>1. PICK r : r = job[c][1]
    OBVIOUS
  <2>2. Operation(c, r) /\ RequestFits(r) /\ doc' = doc /\ mishap' = mishap /\ job' = job
    BY <1>3, <2>1 DEF Opening
  <2>3. PICK w : Open(c, w) /\ Fine(r.op, w)
    BY <2>2, OperationFine DEF OpensFine
  <2>4. writes'[c] = w
    BY <2>3, Opened
  <2>5. \A d \in DOMAIN w : MayWrite(r.op, d)
    BY <2>3 DEF Fine
  <2>6. /\ "employee" \in DOMAIN w => Joins(r, w)
        /\ \A v \in Shift \cap DOMAIN w : Planned(r, w, v)
        /\ \A v \in Leave \cap DOMAIN w : Away(r, w, v)
        /\ \A d \in Duty \cap DOMAIN w : Assigned(r, w, d)
    BY <2>2, <2>3, <2>5, EmployeeJoins, ShiftPlanned, LeaveAway, DutyAssigned
  <2>7. Begins(c)'
    BY <2>1, <2>2, <2>4, <2>6 DEF Planned, Away, Op
  <2>8. Fits(c)'
    BY <2>1, <2>2, <2>4, <2>6
    DEF Joins, Planned, Away, Assigned, Offered, Then, Merge, employee, Active
  <2>9. ASSUME NEW o \in Client \ {c}, Sure(o)' PROVE Begins(o)' /\ (Calm' /\ Leased(o)' => Fits(o)')
    BY <1>1, <1>3, <2>2, <2>9 DEF Opening
  <2> QED  BY <1>0, <2>7, <2>8, <2>9
<1>4. ASSUME NEW c \in Client, Committing(c) \/ Cascading(c), NEW o \in Client, Sure(o)'
      PROVE  Begins(o)' /\ (Calm' /\ Leased(o)' => Fits(o)')
  <2>1. PICK r : r = job[o][1]
    OBVIOUS
  <2>2. PICK w : w = writes[o]
    OBVIOUS
  <2>3. /\ o # c /\ Sure(o) /\ job'[o] = job[o] /\ keys'[o] = keys[o]
        /\ writes'[o] = w /\ (Valid(o)' => Valid(o))
        /\ \A d \in (Names \ Offer) \cap DOMAIN w : doc'[d] = doc[d] /\ Then(w, d)' = Then(w, d)
    BY <1>4, <2>2, StaysSure DEF Would, Then, Merge
  <2>4. /\ {"employee"} \cup Shift \cup Leave \cup Duty \subseteq Names \ Offer
        /\ \A d \in DOMAIN w : MayWrite(r.op, d)
    BY <2>1, <2>2, <2>3, KindsApart, NamesAssumption DEF Singles, Drafts, Sure, Op
  <2>5. mishap \subseteq mishap'
    BY <1>4, Committed, Cascaded DEF Committing, Cascading
  <2>6. Begins(o)'
    <3>1. Begins(o)
        BY <1>0, <2>3
    <3> QED  BY <2>2, <2>3, <2>4, <3>1 DEF Op
  <2>7. ASSUME NEW b \in Branch, "blind" \notin mishap', Leased(o), b \in keys[o],
               r.op \notin Sharing \/ b \in employee.branches \ doc'["employee"].branches
        PROVE  /\ b \in Active => b \in Active'
               /\ b \in employee.branches => b \in doc'["employee"].branches
               /\ "unguarded" \notin mishap' =>
                    \A p \in Offer : doc[p].at = {b} /\ r.op \notin Sharing => doc'[p] = doc[p]
    <3>1. ~(Valid(c) /\ b \in keys[c] /\ (Op(c) \notin Sharing \/ r.op \notin Sharing))
        BY <2>1, <2>3, <2>7, Rivals DEF Leased, Op
    <3>2. ASSUME Cascading(c) PROVE doc'[b] = doc[b] /\ doc'["employee"] = doc["employee"]
      <4>1. b \in Names \ Withdrawable /\ "employee" \in Names \ Withdrawable
        BY <2>4, KindsApart DEF Withdrawable
      <4> QED  BY <3>2, <4>1, Cascaded DEF Cascading
    <3>3. b \in employee.branches => b \in doc'["employee"].branches
      <4>1. SUFFICES ASSUME b \in employee.branches, b \notin doc'["employee"].branches PROVE FALSE
        OBVIOUS
      <4>2. Committing(c)
        BY <1>4, <3>2, <4>1 DEF employee
      <4>3. Valid(c) /\ b \in keys[c] /\ Op(c) \in {"terminate", "update"}
        BY <2>5, <2>7, <4>1, <4>2, BranchLeft
      <4> QED  BY <3>1, <4>3 DEF Sharing
    <3>4. b \in Active => b \in Active'
      <4>1. SUFFICES ASSUME b \in Active, doc'[b].status # "active" PROVE FALSE
        BY DEF Active
      <4>2. Committing(c)
        BY <1>4, <3>2, <4>1 DEF Active
      <4>3. Valid(c) /\ b \in keys[c] /\ Op(c) \in {"archive branch", "update branch"}
        BY <2>7, <4>1, <4>2, Deactivated
      <4> QED  BY <3>1, <4>3 DEF Sharing
    <3>5. ASSUME "unguarded" \notin mishap', NEW p \in Offer, doc[p].at = {b}, r.op \notin Sharing
          PROVE  doc'[p] = doc[p]
      <4>1. SUFFICES ASSUME doc'[p] # doc[p] PROVE FALSE
        OBVIOUS
      <4>2. Valid(c) /\ b \in keys[c]
        BY <1>4, <2>7, <3>5, <4>1, OfferTouched
      <4> QED  BY <3>1, <3>5, <4>2
    <3> QED  BY <3>3, <3>4, <3>5
  <2>8. SUFFICES ASSUME Calm', Leased(o)' PROVE Fits(o)'
    BY <2>6
  <2>9. Calm /\ ("unguarded" \notin mishap' => "unguarded" \notin mishap)
    BY <2>5, <2>8
  <2>10. ASSUME Leased(o) PROVE Fits(o)
    BY <1>0, <2>3, <2>9, <2>10
  <2>11. ASSUME "employee" \in DOMAIN w PROVE Joins(r, w)'
    <3>1. r.op \in {"hire", "employ", "update", "provision", "activate", "terminate", "profile"}
        BY <2>4, <2>11 DEF MayWrite
    <3>2. doc'["employee"] = doc["employee"] /\ Then(w, "employee")' = Then(w, "employee")
        BY <2>3, <2>4, <2>11
    <3>3. Leased(o)
        BY <1>4, <2>1, <2>8, <3>1, <3>2, PlacedLeased DEF Op, PersonnelOps
    <3>4. Joins(r, w)
        BY <2>1, <2>2, <2>10, <2>11, <3>3
    <3>5. ASSUME r.op \in {"hire", "employ"} \/ (r.op = "update" /\ ~r.everywhere),
                 NEW b \in Active \cap r.branches
          PROVE  b \in Active'
      <4>1. b \in Branch /\ b \in Affected(r)
        BY <3>5, LeasesNeeded DEF Active
      <4>2. b \in keys[o]
        BY <2>1, <3>3, <4>1 DEF Leased
      <4>3. r.op \notin Sharing
        BY <3>1 DEF Sharing
      <4> QED  BY <2>7, <2>8, <3>3, <3>5, <4>1, <4>2, <4>3
    <3> QED  BY <3>2, <3>4, <3>5 DEF Joins, employee
  <2>12. ASSUME NEW v \in Shift \cap DOMAIN w PROVE Planned(r, w, v)'
    <3>1. doc'[v] = doc[v] /\ Then(w, v)' = Then(w, v)
        BY <2>3, <2>4
    <3>2. SUFFICES ASSUME doc[v] = NoVersion
                   PROVE  /\ r.op = "create shift" /\ r.branch \in Branch
                          /\ Then(w, v).at = {r.branch} /\ r.branch \in doc'["employee"].branches
        BY <3>1 DEF Planned, employee
    <3>3. r.op = "create shift"
        BY <1>0, <2>1, <2>2, <2>3, <3>2 DEF Op
    <3>4. Leased(o)
        BY <1>4, <2>1, <2>8, <3>3, PlacedLeased DEF Op
    <3>5. /\ r.branch \in Branch /\ Then(w, v).at = {r.branch} /\ r.branch \in employee.branches
        BY <2>1, <2>2, <2>10, <3>2, <3>4 DEF Planned
    <3>6. r.branch \in keys[o] /\ r.op \notin Sharing
        BY ZenonT(40), <2>1, <3>3, <3>4, LeasesNeeded DEF Leased, Sharing
    <3> QED  BY <2>7, <2>8, <3>3, <3>4, <3>5, <3>6
  <2>13. ASSUME NEW v \in Leave \cap DOMAIN w PROVE Away(r, w, v)'
    <3>1. doc'[v] = doc[v] /\ Then(w, v)' = Then(w, v)
        BY <2>3, <2>4
    <3>2. SUFFICES ASSUME doc[v] = NoLeave
                   PROVE  /\ r.op = "take off" /\ r.branches \subseteq Branch
                          /\ Then(w, v).branches \subseteq doc'["employee"].branches
                          /\ Then(w, v).branches \subseteq IF r.everywhere THEN {} ELSE r.branches
        BY <3>1 DEF Away, employee
    <3>3. r.op = "take off"
        BY <1>0, <2>1, <2>2, <2>3, <3>2 DEF Op
    <3>4. Leased(o)
        BY <1>4, <2>1, <2>8, <3>3, PlacedLeased DEF Op
    <3>5. /\ r.branches \subseteq Branch
          /\ Then(w, v).branches \subseteq employee.branches
          /\ Then(w, v).branches \subseteq IF r.everywhere THEN {} ELSE r.branches
        BY <2>1, <2>2, <2>10, <3>2, <3>4 DEF Away
    <3>6. ASSUME NEW b \in Then(w, v).branches PROVE b \in doc'["employee"].branches
      <4>1. b \in Branch /\ b \in employee.branches /\ b \in r.branches /\ ~r.everywhere
        BY <3>5
      <4>2. b \in Affected(r)
        BY <3>3, <4>1, LeasesNeeded
      <4>3. b \in keys[o]
        BY <2>1, <3>4, <4>2 DEF Leased
      <4> QED  BY <2>7, <2>8, <3>4, <4>1, <4>3
    <3> QED  BY <3>3, <3>5, <3>6
  <2>14. ASSUME "unguarded" \notin mishap', NEW d \in Duty \cap DOMAIN w PROVE Assigned(r, w, d)'
    <3>1. doc'[d] = doc[d] /\ Then(w, d)' = Then(w, d)
        BY <2>3, <2>4
    <3>2. r.op \in {"assign", "unassign"}
        BY <2>4 DEF MayWrite
    <3>3. Leased(o)
        BY <1>4, <2>1, <2>8, <3>2, PlacedLeased DEF Op
    <3>4. SUFFICES ASSUME Then(w, d).status = "active", doc[d].status # "active"
                   PROVE  /\ r.op = "assign" /\ r.branches \in One(Branch)
                          /\ Then(w, d).at = r.branches
                          /\ r.branches \subseteq doc'["employee"].branches
                          /\ \E p \in Offer : doc'[p].status = "active" /\ doc'[p].at = r.branches
        BY <3>1 DEF Assigned, employee, Offered
    <3>5. /\ r.op = "assign" /\ r.branches \in One(Branch)
          /\ Then(w, d).at = r.branches /\ r.branches \subseteq employee.branches
          /\ Offered(r.branches) # {}
        BY <2>1, <2>2, <2>9, <2>10, <2>14, <3>3, <3>4 DEF Assigned
    <3>6. PICK b \in Branch : r.branches = {b}
        BY <3>5 DEF One
    <3>7. b \in keys[o] /\ r.op \notin Sharing
        BY <2>1, <3>3, <3>5, <3>6, LeasesNeeded DEF Leased, Sharing
    <3>8. PICK p \in Offer : doc[p].status = "active" /\ doc[p].at = r.branches
        BY <3>5 DEF Offered
    <3>9. b \in doc'["employee"].branches /\ doc'[p] = doc[p]
        BY <2>7, <2>8, <2>14, <3>3, <3>5, <3>6, <3>7, <3>8
    <3> QED  BY <3>5, <3>6, <3>8, <3>9
  <2> QED  BY <2>1, <2>2, <2>3, <2>11, <2>12, <2>13, <2>14
<1> QED  BY <1>0, <1>2, <1>3, <1>4, Steps


Ordered == Served /\ Placing

LEMMA PlacedAtFirst == ASSUME Init PROVE Ordered
<1>1. \A c \in Client : ~Sure(c)
    BY DEF Init, InitRequests, Sure
<1> QED  BY <1>1, ServedAtFirst DEF Ordered, Placing

LEMMA PlacedKept == ASSUME Ordered, [Next]_vars PROVE Ordered'
BY ServedKept, PlacingKept DEF Ordered, Served, Sane

\* Where a commit or a cascade puts staff.
LEMMA PlacedThere ==
    ASSUME Ordered, NEW c \in Client, Committing(c) \/ Cascading(c)
    PROVE  /\ mishap' \cap {"blind", "unguarded"} = {} =>
                /\ doc'.employee.branches \subseteq employee.branches \cup Active
                /\ \A d \in Duty :
                     doc'[d].status = "active" /\ doc[d].status # "active" =>
                         doc'[d].at \subseteq employee.branches /\ Offered(doc'[d].at) # {}
           /\ mishap' \cap {"blind", "late"} = {} =>
                /\ \A v \in Shift : doc[v] = NoVersion => doc'[v].at \subseteq employee.branches
                /\ \A v \in Leave : doc[v] = NoLeave =>
                     doc'[v].branches \subseteq employee.branches
<1> USE DEF Ordered, Served, Sane
<1>1. mishap \subseteq mishap'
    BY Committed, Cascaded DEF Committing, Cascading
<1>2. PICK r : r = job[c][1]
    OBVIOUS
<1>3. ASSUME NEW d \in {"employee"} \cup Duty \cup Shift \cup Leave, doc'[d] # doc[d]
      PROVE  /\ d \in DOMAIN writes[c] /\ Sure(c) /\ doc'[d] = Then(writes[c], d)
             /\ "blind" \notin mishap' /\ (d \in Shift => "late" \notin mishap') => Leased(c)
  <2>1. d \in Names \ Offer /\ d \in Names \ Erased
    BY KindsApart, NamesAssumption DEF Singles
  <2>2. Committing(c)
    <3>1. d \in Names \ Withdrawable
        BY <2>1 DEF Withdrawable
    <3> QED  BY <1>3, <3>1, Cascaded DEF Cascading
  <2>3. d \in DOMAIN writes[c] /\ Sure(c) /\ doc'[d] = Then(writes[c], d)
    BY <1>3, <2>1, <2>2, Surely DEF Would
  <2>4. d \notin Shift => Op(c) \notin Careless
    <3>1. MayWrite(Op(c), d)
        BY <2>3 DEF Drafts, Sure
    <3>2. d \in Duty \/ d \in Leave \/ d = "employee" \/ d \in Shift
        BY <1>3
    <3> QED  BY <3>1, <3>2 DEF MayWrite, Careless, Sharing
  <2> QED  BY <2>2, <2>3, <2>4, Committed DEF Committing, Leased
<1>4. ASSUME mishap' \cap {"blind", "unguarded"} = {}
      PROVE  doc'["employee"].branches \subseteq employee.branches \cup Active
  <2>1. CASE doc'["employee"] = doc["employee"]
    BY <2>1 DEF employee
  <2>2. CASE doc'["employee"] # doc["employee"]
    <3>1. Joins(r, writes[c])
        BY <1>1, <1>2, <1>3, <1>4, <2>2, NamesAssumption DEF Placing, Singles
    <3> QED  BY <1>3, <2>2, <3>1 DEF Joins
  <2> QED  BY <2>1, <2>2
<1>5. ASSUME mishap' \cap {"blind", "unguarded"} = {}, NEW d \in Duty,
             doc'[d].status = "active", doc[d].status # "active"
      PROVE  doc'[d].at \subseteq employee.branches /\ Offered(doc'[d].at) # {}
  <2>1. doc'[d] # doc[d] /\ d \notin Shift
    BY <1>5, NamesAssumption
  <2>2. d \in DOMAIN writes[c] /\ Sure(c) /\ Leased(c)
    BY <1>3, <1>5, <2>1
  <2>3. mishap \cap {"blind", "unguarded"} = {}
    BY <1>1, <1>5
  <2>4. Assigned(r, writes[c], d)
    BY <1>2, <2>2, <2>3 DEF Placing
  <2>5. doc'[d] = Then(writes[c], d)
    BY <1>3, <2>1
  <2> QED  BY <1>5, <2>4, <2>5 DEF Assigned
<1>6. ASSUME mishap' \cap {"blind", "late"} = {}, NEW v \in Shift, doc[v] = NoVersion
      PROVE  doc'[v].at \subseteq employee.branches
  <2>1. CASE doc'[v] = doc[v]
    BY <1>6, <2>1 DEF NoVersion
  <2>2. CASE doc'[v] # doc[v]
    <3>1. Planned(r, writes[c], v)
        BY <1>1, <1>2, <1>3, <1>6, <2>2 DEF Placing
    <3> QED  BY <1>3, <1>6, <2>2, <3>1 DEF Planned
  <2> QED  BY <2>1, <2>2
<1>7. ASSUME mishap' \cap {"blind", "late"} = {}, NEW v \in Leave, doc[v] = NoLeave
      PROVE  doc'[v].branches \subseteq employee.branches
  <2>1. CASE doc'[v] = doc[v]
    BY <1>7, <2>1 DEF NoLeave
  <2>2. CASE doc'[v] # doc[v]
    <3>1. Away(r, writes[c], v)
        BY <1>1, <1>2, <1>3, <1>7, <2>2 DEF Placing
    <3> QED  BY <1>3, <1>7, <2>2, <3>1 DEF Away
  <2> QED  BY <2>1, <2>2
<1> QED  BY <1>4, <1>5, <1>6, <1>7

\* Staff join branches that are active, get the service where it is offered, and are
\* planned and away where they work, when it takes effect: whoever changes branches,
\* offers or staff needs a lease that the request has.
THEOREM StaffBelongWhereTheyAre == Spec => StaffPlacedWhereAllowed
<1> DEFINE InPlace ==
             /\ mishap' \cap {"blind", "unguarded"} = {} =>
                  /\ doc'.employee.branches \subseteq employee.branches \cup Active
                  /\ \A d \in Duty :
                       doc'[d].status = "active" /\ doc[d].status # "active" =>
                           doc'[d].at \subseteq employee.branches /\ Offered(doc'[d].at) # {}
             /\ mishap' \cap {"blind", "late"} = {} =>
                  /\ \A v \in Shift : doc[v] = NoVersion => doc'[v].at \subseteq employee.branches
                  /\ \A v \in Leave : doc[v] = NoLeave =>
                       doc'[v].branches \subseteq employee.branches
<1>1. Init => Ordered
    BY PlacedAtFirst
<1>2. Ordered /\ [Next]_vars => Ordered'
    BY PlacedKept
<1>3. ASSUME Ordered, Next PROVE InPlace
  <2>1. CASE doc' = doc
    <3>1. NoVersion.at = {} /\ NoLeave.branches = {}
        BY DEF NoVersion, NoLeave
    <3> QED  BY <2>1, <3>1 DEF employee
  <2>2. ASSUME NEW c \in Client, Committing(c) \/ Cascading(c) PROVE InPlace
    BY <1>3, <2>2, PlacedThere
  <2> QED  BY <1>3, <2>1, <2>2, Steps DEF Quiet, Opening, Ordered, Served, Sane
<1>4. Ordered /\ [Next]_vars => [InPlace]_vars
    BY <1>3
<1> QED  BY <1>1, <1>2, <1>4, PTL DEF Spec, StaffPlacedWhereAllowed



-----------------------------------------------------------------------------
(* Settings and branches *)

\* The branches that w writes.
Those(w) == Branch \cap DOMAIN w

\* There is one primary branch, when there is any, and the settings name it.
Crowned ==
    /\ Branches # {} => Primaries # {}
    /\ \A a, b \in Primaries : a = b
    /\ settings # NoSettings => settings.primary = Primaries

\* Settings are written for the branch that becomes primary; with the settings left
\* alone none that is primary ceases to be.
Crowns(w) ==
    /\ "settings" \in DOMAIN w =>
         \E b \in Branch : Then(w, "settings").primary = {b} /\ Then(w, b).primary
    /\ "settings" \notin DOMAIN w => \A b \in Those(w) : doc[b].primary => Then(w, b).primary
    /\ Branches = {} => \A b \in Those(w) : Then(w, b).primary

\* Every branch that w writes is made by it, and primary.
Founds(w) == \A b \in Those(w) : doc[b] = NoBranch /\ Then(w, b).primary

\* A branch becomes primary together with the settings, and active by a request that
\* names it.
Turns(r, w, b) ==
    /\ Then(w, b).primary /\ ~doc[b].primary => "settings" \in DOMAIN w
    /\ Then(w, b).status = "active" /\ doc[b].status # "active" =>
         b = r.branch /\ (r.op = "update branch" => r.active = "on" /\ doc[b] # NoBranch)

\* What the requests for settings and branches do.
Arranges(r, w) ==
    /\ r.op \in {"list branches", "read settings"} => Founds(w)
    /\ r.op = "bootstrap" => Founds(w) /\ Those(w) # {}
    /\ r.op = "settings" => Founds(w) \/ \A b \in Those(w) : Then(w, b).status = doc[b].status
    /\ r.op \in {"create branch", "update branch"} => \A b \in Those(w) : Turns(r, w, b)
    /\ r.op = "archive branch" => \A b \in Those(w) : Then(w, b).status = "inactive"
    /\ "settings" \in DOMAIN w =>
         \/ r.op \in {"settings", "bootstrap"}
         \/ r.op \in {"read settings", "create branch", "update branch"} /\ settings = NoSettings
         \/ /\ r.op \in {"create branch", "update branch"}
            /\ Then(w, "settings").mode = settings.mode

LEMMA PrimaryActive ==
    ASSUME Documents
    PROVE  Primaries \subseteq Active /\ Active \subseteq Branches
<1> SUFFICES ASSUME NEW b \in Branch
             PROVE  /\ b \in Primaries => b \in Active
                    /\ b \in Active => b \in Branches
    BY DEF Primaries, Active
<1>1. doc[b] \in BranchDoc
    BY Typed
<1> QED  BY <1>1 DEF Primaries, Active, Branches, BranchDoc

\* The first branches are made, and primary.
LEMMA FirstFounded ==
    ASSUME Documents, NEW r, NEW w, NEW b \in Those(w), BranchDraft(r, w, b), Branches = {}
    PROVE  doc[b] = NoBranch /\ Then(w, b).primary
<1>1. b \in Branch /\ b \in DOMAIN w /\ doc[b] = NoBranch
    BY ThereIs DEF Those
<1>2. b \notin Primaries /\ b \notin Active
    BY PrimaryActive
<1>3. MainBranch.primary
    BY DEF MainBranch
<1> QED  BY <1>1, <1>2, <1>3 DEF BranchDraft

\* Nobody's status changes with who is primary.
LEMMA DemotedStatus ==
    ASSUME Documents, NEW w, NEW b \in Those(w), w[b] = [primary |-> FALSE]
    PROVE  Then(w, b).status = doc[b].status /\ ~Then(w, b).primary
<1>1. doc[b] \in BranchDoc /\ b \in DOMAIN w
    BY Typed DEF Those
<1>2. Then(w, b) = Merge(b, [primary |-> FALSE])
    BY <1>1 DEF Then
<1>3. /\ Merge(b, [primary |-> FALSE]).status = doc[b].status
      /\ ~Merge(b, [primary |-> FALSE]).primary
    BY <1>1 DEF Merge, BranchDoc
<1> QED  BY <1>2, <1>3

LEMMA BranchTurned ==
    ASSUME Documents, NEW r, NEW w, NEW b \in Those(w), BranchDraft(r, w, b)
    PROVE  /\ r.op \in {"list branches", "read settings", "bootstrap"} => Branches = {}
           /\ r.op \in {"create branch", "update branch"} =>
                (Then(w, b).status = "active" /\ doc[b].status # "active" =>
                   b = r.branch /\ (r.op = "update branch" => r.active = "on" /\ doc[b] # NoBranch))
           /\ r.op = "archive branch" => Then(w, b).status = "inactive"
<1>1. doc[b] \in BranchDoc
    BY Typed DEF Those
<1>2. CASE Branches = {} /\ r.op \in {"list branches", "read settings", "bootstrap", "settings"}
    BY <1>2
<1>3. CASE /\ r.op \in {"settings", "create branch", "update branch"}
           /\ b \in Primaries /\ w[b] = [primary |-> FALSE]
    BY <1>3, DemotedStatus
<1>4. CASE r.op = "settings"
    BY <1>4
<1>5. CASE r.op = "create branch" /\ b = r.branch
    BY <1>5
<1>6. CASE /\ r.op = "update branch" /\ b = r.branch /\ doc[b] # NoBranch
           /\ Then(w, b).status = Status(Given(r.active, doc[b].status = "active"))
  <2>1. SUFFICES ASSUME doc[b].status # "active", Then(w, b).status = "active"
                 PROVE  r.active = "on"
    BY <1>6
  <2>2. CASE ~Given(r.active, FALSE)
    <3>1. Then(w, b).status = "inactive"
        BY <1>6, <2>1, <2>2 DEF Status
    <3> QED  BY <2>1, <3>1
  <2> QED  BY <2>2 DEF Given
<1>7. CASE r.op = "archive branch" /\ Then(w, b).status = "inactive"
    BY <1>7
<1> QED  BY <1>2, <1>3, <1>4, <1>5, <1>6, <1>7 DEF BranchDraft


\* To name another branch than the primary one is to write the settings.
LEMMA NamingNew ==
    ASSUME Documents, Crowned, NEW a \in Branch, ~doc[a].primary
    PROVE  /\ DOMAIN Naming(a) = {"settings"}
           /\ Then(Naming(a), "settings").primary = {a}
           /\ settings = NoSettings \/ Then(Naming(a), "settings").mode = settings.mode
<1>1. Whole("settings") /\ settings \in SettingsDoc
    BY Typed, Wholeness DEF Names, Singles, settings
<1>2. CASE settings = NoSettings
  <2> DEFINE new == [mode |-> "single", primary |-> {a}]
  <2>1. Naming(a) = Put("settings", new)
    BY <1>2 DEF Naming
  <2>2. DOMAIN doc["settings"] = {"mode", "primary"}
    BY <1>2 DEF NoSettings, settings
  <2>3. Merge("settings", new).primary = {a}
    BY <2>2 DEF Merge
  <2> HIDE DEF new
  <2>4. DOMAIN Naming(a) = {"settings"} /\ Then(Naming(a), "settings") = Merge("settings", new)
    BY <2>1 DEF Put, Then
  <2> QED  BY <1>2, <2>3, <2>4
<1>3. CASE settings # NoSettings
  <2> DEFINE new == [settings EXCEPT !.primary = {a}]
  <2>1. Naming(a) = Save("settings", new)
    BY <1>3 DEF Naming
  <2>2. settings \in [mode : Mode, primary : One(Branch)]
    BY <1>1, <1>3 DEF SettingsDoc
  <2>3. new.primary = {a} /\ new.mode = settings.mode
    BY <2>2
  <2>4. new = [f \in DOMAIN doc["settings"] |-> new[f]]
    BY <2>2 DEF settings
  <2>5. new # doc["settings"]
    BY <1>3, <2>3 DEF Crowned, Primaries, settings
  <2> HIDE DEF new
  <2>6. Merge("settings", new) = new
    BY <2>4, MergeAll
  <2>7. /\ DOMAIN Save("settings", new) \subseteq {"settings"}
        /\ Then(Save("settings", new), "settings") = new
    BY <1>1, <2>6, SaveWritten
  <2>8. "settings" \in DOMAIN Save("settings", new)
    BY <2>5, <2>7 DEF Then
  <2> QED  BY <2>1, <2>3, <2>7, <2>8
<1> QED  BY <1>2, <1>3

\* What a request does to the settings, and to who is primary without them.
Settles(r, w) ==
    /\ "settings" \in DOMAIN w =>
         /\ \E b \in Branch : Then(w, "settings").primary = {b} /\ Then(w, b).primary
         /\ \/ r.op \in {"settings", "bootstrap"}
            \/ r.op \in {"read settings", "create branch", "update branch"} /\ settings = NoSettings
            \/ /\ r.op \in {"create branch", "update branch"}
               /\ Then(w, "settings").mode = settings.mode
    /\ "settings" \notin DOMAIN w =>
         \A b \in Those(w) :
             /\ doc[b].primary => Then(w, b).primary
             /\ r.op \in {"create branch", "update branch"} /\ Then(w, b).primary => doc[b].primary
    /\ r.op = "bootstrap" => Those(w) # {}
    /\ r.op = "settings" /\ "settings" \in DOMAIN w
         /\ Then(w, "settings").mode = "single" /\ Branches # {} => Cardinality(Active) <= 1

LEMMA FirstSettled ==
    ASSUME Documents, Crowned, NEW c \in Client, NEW r, RequestFits(r), Operation(c, r),
           Shape, NEW w, Open(c, w), r.op \in {"list branches", "read settings", "bootstrap"}
    PROVE  Settles(r, w)
<1>1. writes'[c] = w
    BY Opened
<1>2. "settings" \notin Branch /\ Main \in Branch
    BY NamesAssumption, PremisesAssumption DEF Singles
<1>3. Branches = {} => \A b \in Branch : ~doc[b].primary
    BY PrimaryActive DEF Primaries
<1>4. DOMAIN doc["settings"] = {"mode", "primary"}
  <2>1. doc["settings"] \in SettingsDoc
    BY Typed
  <2> QED  BY <2>1 DEF SettingsDoc, NoSettings
<1>5. CASE Branches = {} /\ w = Put(Main, MainBranch) /\ r.op \in {"list branches", "read settings"}
  <2>1. DOMAIN w = {Main}
    BY <1>5 DEF Put
  <2> QED  BY <1>2, <1>3, <1>5, <2>1 DEF Settles, Those
<1>6. CASE r.op = "list branches"
  <2>1. Branches = {} /\ Open(c, Put(Main, MainBranch))
    BY <1>6, Acts DEF ListBranches
  <2>2. w = Put(Main, MainBranch)
    BY <1>1, <2>1, Opened
  <2> QED  BY <1>5, <1>6, <2>1, <2>2
<1>7. CASE r.op = "read settings"
  <2>1. settings = NoSettings
    BY <1>7, Acts DEF ReadSettings
  <2>2. CASE Branches = {}
    <3>1. Open(c, Put(Main, MainBranch))
        BY <1>7, <2>2, Acts DEF ReadSettings
    <3>2. w = Put(Main, MainBranch)
        BY <1>1, <3>1, Opened
    <3> QED  BY <1>5, <1>7, <2>2, <3>2
  <2>3. CASE Branches # {}
    <3>1. PICK b \in Usual : Open(c, Put("settings", [mode |-> "single", primary |-> {b}]))
        BY <1>7, <2>3, Acts DEF ReadSettings
    <3> DEFINE new == [mode |-> "single", primary |-> {b}]
    <3>2. b \in Branch /\ doc[b].primary
        BY <2>1, <2>3, <3>1 DEF Usual, Crowned, Primaries
    <3>3. w = Put("settings", new)
        BY <1>1, <3>1, Opened
    <3>4. Merge("settings", new).primary = {b}
        BY <1>4 DEF Merge
    <3> HIDE DEF new
    <3>5. DOMAIN w = {"settings"} /\ Then(w, "settings") = Merge("settings", new)
        BY <3>3 DEF Put, Then
    <3>6. Then(w, b).primary /\ Those(w) = {}
        BY <1>2, <3>2, <3>5 DEF Then, Those
    <3> QED  BY <1>7, <2>1, <3>2, <3>4, <3>5, <3>6 DEF Settles
  <2> QED  BY <2>2, <2>3
<1>8. CASE r.op = "bootstrap"
  <2> DEFINE new == [mode |-> r.mode, primary |-> {r.branch}]
             this == Put(r.branch, MainBranch)
             that == Put("settings", new)
  <2>1. Open(c, Both(this, that))
    BY <1>8, Acts DEF Bootstrap
  <2>2. w = Both(this, that) /\ r.branch \in Branch
    BY <1>1, <1>8, <2>1, Opened DEF RequestFits
  <2>3. Merge("settings", new).primary = {r.branch}
    BY <1>4 DEF Merge
  <2>4. Merge(r.branch, MainBranch).primary
    <3>1. Merge(r.branch, MainBranch) = MainBranch
        BY <2>2, MainWritten
    <3>2. MainBranch.primary
        BY DEF MainBranch
    <3> QED  BY <3>1, <3>2
  <2> HIDE DEF new
  <2>5. DOMAIN this = {r.branch} /\ DOMAIN that = {"settings"}
    BY DEF Put
  <2>6. /\ Then(this, r.branch) = Merge(r.branch, MainBranch)
        /\ Then(that, "settings") = Merge("settings", new)
    BY DEF Put, Then
  <2> HIDE DEF this, that
  <2>7. "settings" \in DOMAIN w /\ r.branch \in Those(w)
    BY <2>2, <2>5 DEF Both, Those
  <2>8. Then(w, r.branch) = Then(this, r.branch) /\ Then(w, "settings") = Then(that, "settings")
    BY <1>2, <2>2, <2>5 DEF Both, Then
  <2>9. Then(w, r.branch).primary /\ Then(w, "settings").primary = {r.branch}
    BY <2>3, <2>4, <2>6, <2>8
  <2> QED  BY <1>8, <2>2, <2>7, <2>9 DEF Settles
<1> QED  BY <1>6, <1>7, <1>8


LEMMA SettingsSettled ==
    ASSUME Documents, Crowned, NEW c \in Client, NEW r, RequestFits(r), Operation(c, r),
           Shape, NEW w, Open(c, w), r.op = "settings"
    PROVE  Settles(r, w)
<1> DEFINE mode == IF r.mode # "keep" THEN r.mode
                   ELSE IF settings = NoSettings THEN "single" ELSE settings.mode
           active == IF Branches = {} /\ r.primary = {} THEN {Main} ELSE Active
<1>1. mode = "single" => Cardinality(active) <= 1
    BY Acts DEF UpdateSettings
<1>2. PICK a \in active \cap (IF r.primary # {} THEN r.primary ELSE Usual) :
          Open(c, Both(Save("settings", [mode |-> mode, primary |-> {a}]),
                       Both(Demoted(a),
                            IF Branches = {} THEN Put(a, MainBranch)
                            ELSE Save(a, [doc[a] EXCEPT !.primary = TRUE]))))
    BY Acts DEF UpdateSettings
<1> DEFINE new  == [mode |-> mode, primary |-> {a}]
           this == IF Branches = {} THEN Put(a, MainBranch)
                   ELSE Save(a, [doc[a] EXCEPT !.primary = TRUE])
           name == Save("settings", new)
<1>3. w = Both(name, Both(Demoted(a), this))
    BY <1>2, Opened
<1>4. a \in Branch /\ "settings" \notin Branch
    BY <1>2, NamesAssumption, PremisesAssumption DEF Active, Singles
<1>5. Branches # {} => active = Active
    OBVIOUS
<1> HIDE DEF mode, active
<1>6. new.primary = {a} /\ new.mode = mode
    OBVIOUS
<1>7. Merge("settings", new) = new
  <2>1. doc["settings"] \in SettingsDoc
    BY Typed
  <2>2. DOMAIN doc["settings"] = {"mode", "primary"}
    BY <2>1 DEF SettingsDoc, NoSettings
  <2>3. new = [f \in DOMAIN doc["settings"] |-> new[f]]
    BY <2>2
  <2> HIDE DEF new
  <2> QED  BY <2>3, MergeAll
<1> HIDE DEF new
<1>8. DOMAIN name \subseteq {"settings"} /\ Then(name, "settings") = new
    BY <1>7, SaveWritten, Wholeness DEF Names, Singles
<1>9. a \in DOMAIN this => Then(this, a).primary
  <2>1. CASE Branches = {}
    <3>1. this = Put(a, MainBranch)
        BY <2>1
    <3>2. Then(this, a) = Merge(a, MainBranch)
        BY <3>1 DEF Put, Then
    <3>3. Merge(a, MainBranch) = MainBranch
        BY <1>4, MainWritten
    <3> QED  BY <3>2, <3>3 DEF MainBranch
  <2>2. CASE Branches # {}
    <3> DEFINE v == [doc[a] EXCEPT !.primary = TRUE]
    <3>1. this = Save(a, v)
        BY <2>2
    <3>2. Whole(a) /\ doc[a] \in BranchDoc
        BY <1>4, Typed, Wholeness DEF Names
    <3>3. Merge(a, v) = v /\ v.primary
        BY <3>2, MergeAll DEF BranchDoc
    <3> HIDE DEF v
    <3> QED  BY <3>1, <3>2, <3>3, SaveWritten
  <2> QED  BY <2>1, <2>2
<1>10. a \notin DOMAIN this => doc[a].primary
  <2>1. SUFFICES ASSUME a \notin DOMAIN this PROVE doc[a].primary
    OBVIOUS
  <2>2. Branches # {}
    BY <2>1 DEF Put
  <2> DEFINE v == [doc[a] EXCEPT !.primary = TRUE]
  <2>3. this = Save(a, v)
    BY <2>2
  <2>4. Whole(a) /\ doc[a] \in BranchDoc
    BY <1>4, Typed, Wholeness DEF Names
  <2>5. Merge(a, v) = v /\ v.primary
    BY <2>4, MergeAll DEF BranchDoc
  <2> HIDE DEF v
  <2>6. Then(this, a) = v
    BY <2>3, <2>4, <2>5, SaveWritten
  <2> QED  BY <2>1, <2>5, <2>6 DEF Then
<1>11. DOMAIN this \subseteq {a}
  <2>1. Whole(a)
    BY <1>4, Wholeness DEF Names
  <2> QED  BY <2>1, SaveWritten DEF Put
<1> HIDE DEF this, name
<1>12. DOMAIN Demoted(a) = Primaries \ {a}
    BY DEF Demoted
<1>13. /\ DOMAIN w = DOMAIN name \cup DOMAIN Demoted(a) \cup DOMAIN this
       /\ "settings" \in DOMAIN name => Then(w, "settings") = Then(name, "settings")
       /\ Then(w, a) = Then(this, a)
    BY <1>3, <1>4, <1>8, <1>12 DEF Both, Then
<1>14. Then(w, a).primary
    BY <1>9, <1>10, <1>13 DEF Then
<1>15. "settings" \in DOMAIN w <=> "settings" \in DOMAIN name
    BY <1>4, <1>11, <1>12, <1>13 DEF Primaries
<1>16. CASE "settings" \in DOMAIN w
  <2>1. Then(w, "settings") = new
    BY <1>8, <1>13, <1>15, <1>16
  <2> QED  BY <1>1, <1>4, <1>5, <1>6, <1>14, <1>16, <2>1 DEF Settles
<1>17. CASE "settings" \notin DOMAIN w
  <2>1. settings = new
    BY <1>8, <1>15, <1>17 DEF Then, settings
  <2>2. Primaries \ {a} = {}
    <3>1. settings # NoSettings
        BY <1>6, <2>1 DEF NoSettings
    <3> QED  BY <1>6, <2>1, <3>1 DEF Crowned
  <2>3. Those(w) \subseteq {a}
    BY <1>8, <1>4, <1>11, <1>12, <1>13, <2>2 DEF Those
  <2> QED  BY <1>14, <1>17, <2>3 DEF Settles
<1> QED  BY <1>16, <1>17


LEMMA CreationSettled ==
    ASSUME Documents, Crowned, NEW c \in Client, NEW r, RequestFits(r), Operation(c, r),
           Shape, NEW w, Open(c, w), r.op = "create branch"
    PROVE  Settles(r, w)
<1> DEFINE active  == Given(r.active, TRUE)
           primary == Branches = {} \/ r.primary = "on"
           new     == [status |-> Status(active), primary |-> primary,
                       bookings |-> active /\ Given(r.bookings, TRUE)]
           rest    == IF primary THEN Both(Demoted(r.branch), Naming(r.branch)) ELSE Nothing
           this    == Put(r.branch, new)
<1>1. Open(c, Both(this, rest)) /\ doc[r.branch] = NoBranch
    BY Acts DEF CreateBranch
<1> HIDE DEF this, rest
<1>2. w = Both(this, rest)
  <2>1. writes'[c] = w
    BY Opened
  <2> QED  BY <1>1, <2>1, Opened
<1> USE DEF this, rest
<1>3. r.branch \in Branch /\ r.branch # "settings" /\ ~doc[r.branch].primary
  <2>1. r.branch \in Branch
    BY DEF RequestFits
  <2>2. ~NoBranch.primary
    BY DEF NoBranch
  <2> QED  BY <1>1, <2>1, <2>2, NamesAssumption DEF Singles
<1>4. Merge(r.branch, new) = new
  <2> DEFINE taken == active /\ Given(r.bookings, TRUE)
  <2>1. new = [status |-> Status(active), primary |-> primary, bookings |-> taken]
    OBVIOUS
  <2> HIDE DEF active, primary, taken, new
  <2> QED  BY <1>3, <2>1, AllWritten
<1>5. new.primary = primary
    OBVIOUS
<1> HIDE DEF new
<1>6. DOMAIN this = {r.branch} /\ Then(this, r.branch) = new
    BY <1>4 DEF Put, Then
<1> HIDE DEF this
<1>7. DOMAIN w = {r.branch} \cup DOMAIN rest /\ Then(w, r.branch) = new
    BY <1>2, <1>6 DEF Both, Then
<1>8. CASE primary
  <2>1. rest = Both(Demoted(r.branch), Naming(r.branch))
    BY <1>8
  <2> HIDE DEF rest, primary
  <2>2. /\ DOMAIN Naming(r.branch) = {"settings"}
        /\ Then(Naming(r.branch), "settings").primary = {r.branch}
        /\ settings = NoSettings \/ Then(Naming(r.branch), "settings").mode = settings.mode
    BY <1>3, NamingNew
  <2>3. "settings" \notin DOMAIN Demoted(r.branch)
    BY NamesAssumption DEF Demoted, Primaries, Singles
  <2>4. "settings" \in DOMAIN w /\ Then(w, "settings") = Then(Naming(r.branch), "settings")
    BY <1>2, <1>3, <1>6, <2>1, <2>2, <2>3 DEF Both, Then
  <2>5. Then(w, r.branch).primary
    BY <1>5, <1>7, <1>8
  <2> QED  BY <1>3, <2>2, <2>4, <2>5 DEF Settles
<1>9. CASE ~primary
  <2>1. DOMAIN rest = {}
    BY <1>9 DEF Nothing
  <2> HIDE DEF rest, primary
  <2>2. DOMAIN w = {r.branch} /\ ~Then(w, r.branch).primary
    BY <1>5, <1>7, <1>9, <2>1
  <2> QED  BY <1>3, <2>2 DEF Settles, Those
<1> QED  BY <1>8, <1>9

LEMMA UpdateSettled ==
    ASSUME Documents, Crowned, NEW c \in Client, NEW r, RequestFits(r), Operation(c, r),
           Shape, NEW w, Open(c, w), r.op = "update branch"
    PROVE  Settles(r, w)
<1> DEFINE old     == doc[r.branch]
           active  == Given(r.active, old.status = "active")
           promote == r.primary = "on" /\ ~old.primary
           new     == [status |-> Status(active), primary |-> old.primary \/ promote,
                       bookings |-> active /\ Given(r.bookings, old.bookings)]
           rest    == IF promote THEN Both(Demoted(r.branch), Naming(r.branch)) ELSE Nothing
           this    == Save(r.branch, new)
<1>1. Open(c, Both(this, rest))
    BY Acts DEF UpdateBranch, UpdateBranchInAnyMode
<1> HIDE DEF this, rest
<1>2. w = Both(this, rest)
  <2>1. writes'[c] = w
    BY Opened
  <2> QED  BY <1>1, <2>1, Opened
<1> USE DEF this, rest
<1>3. r.branch \in Branch /\ r.branch # "settings" /\ Whole(r.branch)
    BY Wholeness, NamesAssumption DEF RequestFits, Singles, Names
<1>4. Merge(r.branch, new) = new
  <2> DEFINE first == old.primary \/ promote
             taken == active /\ Given(r.bookings, old.bookings)
  <2>1. new = [status |-> Status(active), primary |-> first, bookings |-> taken]
    OBVIOUS
  <2> HIDE DEF active, first, taken, new
  <2> QED  BY <1>3, <2>1, AllWritten
<1>5. new.primary = (old.primary \/ promote)
    OBVIOUS
<1> HIDE DEF new
<1>6. DOMAIN this \subseteq {r.branch} /\ Then(this, r.branch) = new
    BY ZenonT(40), <1>3, <1>4, SaveWritten
<1> HIDE DEF this
<1>7. CASE promote
  <2>1. rest = Both(Demoted(r.branch), Naming(r.branch)) /\ ~old.primary
    BY <1>7
  <2> HIDE DEF rest, promote
  <2>2. /\ DOMAIN Naming(r.branch) = {"settings"}
        /\ Then(Naming(r.branch), "settings").primary = {r.branch}
        /\ settings = NoSettings \/ Then(Naming(r.branch), "settings").mode = settings.mode
    BY <1>3, <2>1, NamingNew
  <2>3. "settings" \notin DOMAIN Demoted(r.branch) /\ r.branch \notin DOMAIN Demoted(r.branch)
    BY NamesAssumption DEF Demoted, Primaries, Singles
  <2>4. "settings" \in DOMAIN w /\ Then(w, "settings") = Then(Naming(r.branch), "settings")
    BY <1>2, <1>3, <1>6, <2>1, <2>2, <2>3 DEF Both, Then
  <2>5. r.branch \notin DOMAIN rest
    BY <1>3, <2>1, <2>2, <2>3 DEF Both
  <2>6. Then(w, r.branch) = new
    BY <1>2, <1>6, <2>5 DEF Both, Then
  <2>7. Then(w, r.branch).primary
    BY <1>5, <1>7, <2>6
  <2> QED  BY <1>3, <2>2, <2>4, <2>7 DEF Settles
<1>8. CASE ~promote
  <2>1. rest = Nothing
    BY <1>8
  <2> HIDE DEF rest, promote
  <2>2. DOMAIN w \subseteq {r.branch} /\ Then(w, r.branch) = new
    BY <1>2, <1>6, <2>1 DEF Both, Nothing, Then
  <2>3. new.primary = old.primary
    <3>1. old \in BranchDoc
        BY <1>3, Typed
    <3>2. old.primary \in BOOLEAN
        BY <3>1 DEF BranchDoc
    <3> HIDE DEF old, promote
    <3> QED  BY <1>5, <1>8, <3>2
  <2> QED  BY <1>3, <2>2, <2>3 DEF Settles, Those
<1> QED  BY <1>7, <1>8

\* Whatever a request for settings or branches finds, it leaves one primary branch.
LEMMA CrownsOpened ==
    ASSUME Shape, Documents, Crowned, NEW c \in Client, NEW r, RequestFits(r), Operation(c, r),
           NEW w, Open(c, w), Fine(r.op, w)
    PROVE  Crowns(w) /\ Arranges(r, w)
<1>1. \A b \in Those(w) : BranchDraft(r, w, b)
  <2> SUFFICES ASSUME NEW b \in Those(w) PROVE BranchDraft(r, w, b)
    OBVIOUS
  <2>1. b \in Branch \cap DOMAIN w /\ MayWrite(r.op, b)
    BY DEF Fine, Those
  <2> QED  BY <2>1, BranchDrafts
<1>2. CASE r.op \notin BranchOps
  <2>1. ASSUME NEW d \in DOMAIN w PROVE d \notin Branch /\ d # "settings"
    <3>1. MayWrite(r.op, d)
        BY <2>1 DEF Fine
    <3> QED  BY <1>2, <3>1 DEF MayWrite, BranchOps
  <2> QED  BY <1>2, <2>1 DEF Crowns, Arranges, Those, BranchOps
<1>3. CASE r.op = "archive branch"
  <2>1. "settings" \notin DOMAIN w
    <3>1. ~MayWrite("archive branch", "settings")
        BY DEF MayWrite
    <3> QED  BY <1>3, <3>1 DEF Fine
  <2>2. ASSUME NEW b \in Those(w) PROVE b = r.branch /\ doc[b] # NoBranch /\ ~doc[b].primary
    BY <1>1, <1>3, <2>2 DEF BranchDraft
  <2>3. \A b \in Those(w) : Then(w, b).status = "inactive"
    BY <1>1, <1>3, BranchTurned
  <2>4. Those(w) # {} => Branches # {}
    BY <2>2, ThereIs DEF Those
  <2> QED  BY <1>3, <2>1, <2>2, <2>3, <2>4 DEF Crowns, Arranges
<1>4. CASE r.op \in BranchOps \ {"archive branch"}
  <2>1. Settles(r, w)
    BY <1>4, FirstSettled, SettingsSettled, CreationSettled, UpdateSettled DEF BranchOps
  <2>2. Branches = {} => Founds(w)
    BY <1>1, FirstFounded DEF Founds
  <2>3. r.op \in {"list branches", "read settings", "bootstrap"} => Founds(w)
    BY <1>1, <2>2, BranchTurned DEF Founds
  <2>4. r.op = "settings" => Founds(w) \/ \A b \in Those(w) : Then(w, b).status = doc[b].status
    <3>1. ASSUME r.op = "settings", Branches # {}, NEW b \in Those(w)
          PROVE  Then(w, b).status = doc[b].status
      <4>1. BranchDraft(r, w, b) /\ doc[b] \in BranchDoc
        BY <1>1, <3>1, Typed DEF Those
      <4>2. CASE w[b] = [primary |-> FALSE]
        BY <3>1, <4>2, DemotedStatus
      <4>3. CASE Then(w, b) = [doc[b] EXCEPT !.primary = TRUE]
        BY <4>1, <4>3 DEF BranchDoc
      <4> QED  BY <3>1, <4>1, <4>2, <4>3 DEF BranchDraft
    <3> QED  BY <2>2, <3>1
  <2>5. r.op \in {"create branch", "update branch"} => \A b \in Those(w) : Turns(r, w, b)
    BY <1>1, <2>1, BranchTurned DEF Settles, Turns
  <2>6. Crowns(w)
    BY <2>1, <2>2 DEF Settles, Crowns, Founds
  <2> QED  BY <1>4, <2>1, <2>3, <2>4, <2>5, <2>6 DEF Settles, Arranges
<1> QED  BY <1>2, <1>3, <1>4


\* So it stays while requests are at it, whoever is first.
Ruled ==
    /\ Crowned
    /\ \A c \in Client : Sure(c) => Crowns(writes[c]) /\ Arranges(job[c][1], writes[c])

LEMMA StillArranged ==
    ASSUME NEW r, NEW w, Arranges(r, w),
           \A b \in Those(w) : doc'[b] = doc[b] /\ Then(w, b)' = Then(w, b),
           "settings" \in DOMAIN w =>
             settings' = settings /\ Then(w, "settings")' = Then(w, "settings")
    PROVE  Arranges(r, w)'
<1>1. Founds(w)' <=> Founds(w)
    BY DEF Founds
<1>2. ASSUME NEW b \in Those(w) PROVE Turns(r, w, b)' <=> Turns(r, w, b)
    BY <1>2 DEF Turns
<1>3. Those(w)' = Those(w)
    BY DEF Those
<1> QED  BY <1>1, <1>2, <1>3 DEF Arranges

\* A commit leaves one primary branch, and does not take the crown from the branch
\* that the settings name without them.
LEMMA CrownPassed ==
    ASSUME Documents, Drafts, Ruled, NEW c \in Client, Committing(c)
    PROVE  /\ \A a, b \in Branch : doc'[a].primary /\ doc'[b].primary => a = b
           /\ "settings" \in DOMAIN writes[c] =>
                \E b \in Branch : doc'["settings"].primary = {b} /\ doc'[b].primary
           /\ "settings" \notin DOMAIN writes[c] =>
                /\ doc'["settings"] = settings
                /\ \A b \in Branch : doc[b].primary => doc'[b].primary
           /\ Branches = {} => \A b \in Branch : doc'[b] # doc[b] => doc'[b].primary
<1>1. IndexesHold(doc')
    BY DEF Committing, Commit
<1>2. /\ doc'["settings"] = Would(c, "settings")
      /\ "settings" \in DOMAIN writes[c] => Sure(c)
      /\ "settings" \notin DOMAIN writes[c] => doc'["settings"] = doc["settings"]
    BY Surely, KindsApart
<1>3. ASSUME NEW b \in Branch
      PROVE  /\ doc'[b] = Would(c, b)
             /\ b \in DOMAIN writes[c] => Sure(c)
             /\ b \notin DOMAIN writes[c] => doc'[b] = doc[b]
    BY Surely, KindsApart
<1>4. Sure(c) => Crowns(writes[c])
    BY DEF Ruled
<1>5. "settings" \in DOMAIN writes[c] =>
        \E b \in Branch : doc'["settings"].primary = {b} /\ doc'[b].primary
    BY <1>2, <1>3, <1>4 DEF Crowns, Would
<1>6. ASSUME "settings" \notin DOMAIN writes[c], NEW b \in Branch, doc[b].primary
      PROVE  doc'[b].primary
    BY <1>3, <1>4, <1>6 DEF Crowns, Would, Those
<1>7. ASSUME Branches = {}, NEW b \in Branch, doc'[b] # doc[b] PROVE doc'[b].primary
    BY <1>3, <1>4, <1>7 DEF Crowns, Would, Those
<1>8. \A a, b \in Branch : doc'[a].primary /\ doc'[b].primary => a = b
    BY <1>1 DEF IndexesHold
<1> QED  BY <1>2, <1>5, <1>6, <1>7, <1>8 DEF settings

LEMMA CrownedNext ==
    ASSUME Shape, Documents, Drafts, Offering, Ruled, NEW c \in Client,
           Committing(c) \/ Cascading(c)
    PROVE  Crowned'
<1>0. Crowned
    BY DEF Ruled
<1>1. CASE Cascading(c)
  <2>1. ASSUME NEW d \in Branch \cup {"settings"} PROVE doc'[d] = doc[d]
    <3>1. d \in Names \ Withdrawable
        BY <2>1, KindsApart, NamesAssumption DEF Withdrawable, Singles
    <3> QED  BY <1>1, <3>1, Cascaded DEF Cascading
  <2>2. Branches' = Branches /\ Primaries' = Primaries /\ settings' = settings
    BY <2>1 DEF Branches, Primaries, settings
  <2> QED  BY <1>0, <2>2 DEF Crowned
<1>2. CASE Committing(c)
  <2>1. \A a, b \in Primaries' : a = b
    BY <1>2, CrownPassed DEF Primaries
  <2>2. CASE "settings" \in DOMAIN writes[c]
    <3>1. PICK b \in Branch : doc'["settings"].primary = {b} /\ doc'[b].primary
        BY <1>2, <2>2, CrownPassed
    <3>2. b \in Primaries'
        BY <3>1 DEF Primaries
    <3> QED  BY <2>1, <3>1, <3>2 DEF Crowned, settings
  <2>3. CASE "settings" \notin DOMAIN writes[c]
    <3>1. settings' = settings /\ Primaries \subseteq Primaries'
        BY <1>2, <2>3, CrownPassed DEF Primaries, settings
    <3>2. settings # NoSettings => Primaries # {}
      <4>1. settings \in SettingsDoc
        BY Typed DEF settings
      <4>2. settings # NoSettings => settings.primary \in One(Branch)
        BY <4>1 DEF SettingsDoc
      <4> QED  BY <1>0, <4>2 DEF Crowned, One
    <3>3. Branches' # {} => Primaries' # {}
      <4>1. CASE Branches # {}
        BY <1>0, <3>1, <4>1 DEF Crowned
      <4>2. CASE Branches = {}
        <5>1. SUFFICES ASSUME NEW b \in Branch, doc'[b].status # "absent" PROVE b \in Primaries'
            BY DEF Branches
        <5>2. doc[b].status = "absent"
            BY <4>2 DEF Branches
        <5>3. doc'[b].primary
            BY <1>2, <4>2, <5>1, <5>2, CrownPassed
        <5> QED  BY <5>3 DEF Primaries
      <4> QED  BY <4>1, <4>2
    <3>4. settings # NoSettings => settings.primary = Primaries'
        BY <1>0, <2>1, <3>1, <3>2 DEF Crowned
    <3> QED  BY <2>1, <3>1, <3>3, <3>4 DEF Crowned
  <2> QED  BY <2>2, <2>3
<1> QED  BY <1>1, <1>2

LEMMA RuledKept ==
    ASSUME Shape, Documents, Drafts, Offering, Ruled, [Next]_vars
    PROVE  Ruled'
<1> DEFINE Rules(o) == Crowns(writes[o]) /\ Arranges(job[o][1], writes[o])
<1>0. Crowned /\ \A o \in Client : Sure(o) => Rules(o)
    BY DEF Ruled
<1>1. ASSUME NEW o \in Client, Kept(o), doc' = doc, Sure(o)' PROVE Rules(o)'
  <2>1. Rules(o) /\ job'[o] = job[o] /\ writes'[o] = writes[o]
    BY <1>0, <1>1 DEF Kept, Sure
  <2>2. Arranges(job[o][1], writes[o])'
    BY <1>1, <2>1, StillArranged DEF Then, Merge, settings
  <2> QED  BY <1>1, <2>1, <2>2 DEF Crowns, Those, Then, Merge, Branches
<1>2. ASSUME doc' = doc PROVE Crowned'
    BY <1>0, <1>2 DEF Crowned, Branches, Primaries, settings
<1>3. CASE Quiet
  <2>1. \A o \in Client : Sure(o)' => Rules(o)'
    BY <1>1, <1>3 DEF Quiet
  <2> QED  BY <1>2, <1>3, <2>1 DEF Quiet, Ruled
<1>4. ASSUME NEW c \in Client, Opening(c) PROVE Ruled'
  <2>1. PICK r : r = job[c][1]
    OBVIOUS
  <2>2. Operation(c, r) /\ RequestFits(r) /\ doc' = doc /\ job' = job
    BY <1>4, <2>1 DEF Opening
  <2>3. PICK w : Open(c, w) /\ Fine(r.op, w)
    BY <2>2, OperationFine DEF OpensFine
  <2>4. writes'[c] = w
    BY <2>3, Opened
  <2>5. Crowns(w) /\ Arranges(r, w)
    BY <1>0, <2>2, <2>3, CrownsOpened
  <2>6. Crowns(w)' /\ Arranges(r, w)'
    <3>1. Arranges(r, w)'
        BY <2>2, <2>5, StillArranged DEF Then, Merge, settings
    <3> QED  BY <2>2, <2>5, <3>1 DEF Crowns, Those, Then, Merge, Branches
  <2>7. Rules(c)'
    BY <2>1, <2>2, <2>4, <2>6
  <2>8. \A o \in Client \ {c} : Sure(o)' => Rules(o)'
    BY <1>1, <1>4, <2>2 DEF Opening
  <2> QED  BY <1>2, <2>2, <2>7, <2>8 DEF Ruled
<1>5. ASSUME NEW c \in Client, Committing(c) \/ Cascading(c), NEW o \in Client, Sure(o)'
      PROVE  Rules(o)'
  <2>1. PICK r : r = job[o][1]
    OBVIOUS
  <2>2. PICK w : w = writes[o]
    OBVIOUS
  <2>3. /\ Sure(o) /\ o # c /\ job'[o][1] = r /\ writes'[o] = w
        /\ \A d \in (Names \ Offer) \cap DOMAIN w : doc'[d] = doc[d] /\ Then(w, d)' = Then(w, d)
    BY <1>5, <2>1, <2>2, StaysSure DEF Would
  <2>4. Crowns(w) /\ Arranges(r, w)
    BY <1>0, <2>1, <2>2, <2>3
  <2>5. /\ \A b \in Those(w) : doc'[b] = doc[b] /\ Then(w, b)' = Then(w, b)
        /\ "settings" \in DOMAIN w =>
             settings' = settings /\ Then(w, "settings")' = Then(w, "settings")
    BY <2>3, KindsApart, NamesAssumption DEF Those, settings, Singles
  <2>6. Arranges(r, w)'
    BY <2>4, <2>5, StillArranged
  <2>7. Branches \subseteq Branches'
    BY <1>5, BranchesStay
  <2>8. ASSUME "settings" \in DOMAIN w, NEW b \in Branch, doc[b].primary PROVE doc'[b].primary
    <3>1. CASE Cascading(c)
      <4>1. b \in Names \ Withdrawable
        BY KindsApart DEF Withdrawable
      <4> QED  BY <2>8, <3>1, <4>1, Cascaded DEF Cascading
    <3>2. CASE Committing(c)
      <4>1. "settings" \notin DOMAIN writes[c]
        BY <1>5, <2>2, <2>3, <2>8, <3>2, NamesAssumption DEF Committing, Apart, Bulk, Singles
      <4> QED  BY <2>8, <3>2, <4>1, CrownPassed
    <3> QED  BY <1>5, <3>1, <3>2
  <2>9. ASSUME "settings" \in DOMAIN w
        PROVE  \E b \in Branch : Then(w, "settings")'.primary = {b} /\ Then(w, b)'.primary
    <3>1. PICK b \in Branch : Then(w, "settings").primary = {b} /\ Then(w, b).primary
        BY <2>4, <2>9 DEF Crowns
    <3>2. CASE b \in DOMAIN w
        BY <2>5, <2>9, <3>1, <3>2 DEF Those
    <3>3. CASE b \notin DOMAIN w
      <4>1. Then(w, b) = doc[b] /\ Then(w, b)' = doc'[b]
        BY <3>3 DEF Then
      <4> QED  BY <2>5, <2>8, <2>9, <3>1, <4>1
    <3> QED  BY <3>2, <3>3
  <2>10. Crowns(w)'
    BY <2>4, <2>5, <2>7, <2>9 DEF Crowns, Those
  <2> QED  BY <2>3, <2>6, <2>10
<1>6. ASSUME NEW c \in Client, Committing(c) \/ Cascading(c) PROVE Ruled'
    BY <1>5, <1>6, CrownedNext DEF Ruled
<1> QED  BY <1>3, <1>4, <1>6, Steps



-----------------------------------------------------------------------------
(* In single mode one branch is active *)

Alone(bs) == \A a, b \in bs : a = b

\* While its leases are in force nobody activates a branch beside a request that turns
\* the mode to single, nor turns it beside one that activates a branch.
Moded ==
    mishap \cap {"blind", "default"} = {} =>
      /\ settings.mode = "single" => Alone(Active)
      /\ \A c \in Client : Sure(c) /\ Leased(c) /\ Branches # {} =>
           /\ Op(c) \in {"create branch", "update branch"} /\ settings.mode = "single" =>
                \A b \in Those(writes[c]) :
                    Then(writes[c], b).status = "active" => doc[b].status = "active"
           /\ Op(c) = "settings" /\ "settings" \in DOMAIN writes[c]
                /\ Then(writes[c], "settings").mode = "single" => Alone(Active)

LEMMA AloneCounted == Cardinality(Active) <= 1 <=> Alone(Active)
<1>1. IsFiniteSet(Active) /\ Active \subseteq Branch
  <2>1. Active \subseteq Branch /\ IsFiniteSet(Branch)
    BY BackofficeAssumption DEF Active
  <2> QED  BY <2>1, FS_Subset
<1>2. ASSUME Cardinality(Active) <= 1, NEW a \in Active, NEW b \in Active, a # b PROVE FALSE
  <2>1. IsFiniteSet({a}) /\ Cardinality({a}) = 1
    BY FS_Singleton
  <2>2. Cardinality({a} \cup {b}) = 2
    BY <1>2, <2>1, FS_AddElement
  <2>3. Cardinality({a} \cup {b}) <= Cardinality(Active)
    BY <1>1, <1>2, FS_Subset
  <2>4. Cardinality(Active) \in Nat
    BY <1>1, FS_CardinalityType
  <2> QED  BY <1>2, <2>2, <2>3, <2>4
<1>3. ASSUME Alone(Active) PROVE Cardinality(Active) <= 1
  <2>1. CASE Active = {}
    BY <2>1, FS_EmptySet
  <2>2. ASSUME NEW a \in Active PROVE Cardinality(Active) <= 1
    <3>1. Active = {a}
        BY <1>3, <2>2 DEF Alone
    <3>2. Cardinality({a}) = 1
        BY FS_Singleton
    <3> QED  BY <3>1, <3>2
  <2> QED  BY <2>1, <2>2
<1> QED  BY <1>2, <1>3 DEF Alone

\* Whoever makes its branches as the first ones writes while there are none.
LEMMA Founding ==
    ASSUME Documents, Drafts, Ruled, NEW c \in Client, Committing(c), Sure(c),
           Founds(writes[c]), Those(writes[c]) # {}
    PROVE  Branches = {}
<1>1. SUFFICES ASSUME Branches # {} PROVE FALSE
    OBVIOUS
<1>2. PICK b : b \in Those(writes[c])
    OBVIOUS
<1>3. PICK p : p \in Branch /\ doc[p].primary
    BY <1>1 DEF Ruled, Crowned, Primaries
<1>4. p \notin Those(writes[c])
    BY <1>3 DEF Founds, NoBranch
<1>5. doc'[b].primary
    BY <1>2, Surely, KindsApart DEF Founds, Those, Would
<1>6. doc'[p] = doc[p]
    BY <1>3, <1>4, Surely, KindsApart DEF Those
<1>7. p = b
    BY <1>2, <1>3, <1>5, <1>6, CrownPassed DEF Those
<1> QED  BY <1>2, <1>4, <1>7

LEMMA FirstAlone ==
    ASSUME Documents, Drafts, Ruled, NEW c \in Client, Committing(c), Branches = {}
    PROVE  Alone(Active')
<1>1. ASSUME NEW b \in Active' PROVE b \in Branch /\ doc'[b].primary
  <2>1. b \in Branch /\ doc'[b].status = "active"
    BY <1>1 DEF Active
  <2>2. doc[b].status = "absent"
    BY <2>1 DEF Branches
  <2> QED  BY <2>1, <2>2, CrownPassed
<1> QED  BY <1>1, CrownPassed DEF Alone

\* A branch, not the first, is activated under a lease of it.
LEMMA Activation ==
    ASSUME Documents, Drafts, Ruled, NEW c \in Client, Committing(c), Branches # {},
           NEW b \in Branch, doc'[b].status = "active", doc[b].status # "active"
    PROVE  /\ Sure(c) /\ b \in Those(writes[c]) /\ Then(writes[c], b).status = "active"
           /\ Op(c) \in {"create branch", "update branch"} /\ b \in Affected(job[c][1])
<1>1. /\ doc'[b] = Then(writes[c], b)
      /\ b \in DOMAIN writes[c] => Sure(c)
      /\ b \notin DOMAIN writes[c] => doc'[b] = doc[b]
    BY Surely, KindsApart DEF Would
<1>2. Sure(c) /\ b \in Those(writes[c])
    BY <1>1 DEF Those
<1>3. Op(c) \in BranchOps
  <2>1. MayWrite(Op(c), b)
    BY <1>2 DEF Drafts, Sure, Those
  <2> QED  BY <2>1 DEF MayWrite, BranchOps
<1>4. ~Founds(writes[c])
    BY <1>2, Founding
<1>5. Arranges(job[c][1], writes[c])
    BY <1>2 DEF Ruled
<1>6. Op(c) \in {"create branch", "update branch"} /\ Turns(job[c][1], writes[c], b)
    BY <1>1, <1>2, <1>3, <1>4, <1>5 DEF Arranges, BranchOps, Op
<1>7. b \in Affected(job[c][1])
    BY <1>1, <1>6, LeasesNeeded DEF Turns, Op
<1> QED  BY <1>1, <1>2, <1>6, <1>7

\* The mode of settings that there are is only turned by who updates them.
LEMMA Remoded ==
    ASSUME Documents, Drafts, Ruled, NEW c \in Client, Committing(c), Branches # {},
           "default" \notin mishap', doc'["settings"].mode # settings.mode
    PROVE  Sure(c) /\ Op(c) = "settings" /\ "settings" \in DOMAIN writes[c]
<1>1. /\ doc'["settings"] = Then(writes[c], "settings")
      /\ "settings" \in DOMAIN writes[c] => Sure(c)
      /\ "settings" \notin DOMAIN writes[c] => doc'["settings"] = doc["settings"]
    BY Surely, KindsApart DEF Would
<1>2. Sure(c) /\ "settings" \in DOMAIN writes[c]
    BY <1>1 DEF settings
<1>3. Arranges(job[c][1], writes[c])
    BY <1>2 DEF Ruled
<1>4. Op(c) # "bootstrap"
    BY <1>2, <1>3, Founding DEF Arranges, Op
<1>5. settings = NoSettings => Op(c) \in {"settings", "bootstrap"}
  <2>1. mishap' = mishap \cup Mishaps(c)
    BY DEF Committing, Commit
  <2> QED  BY <1>2, <2>1 DEF Mishaps, Op
<1> QED  BY <1>1, <1>2, <1>3, <1>4, <1>5 DEF Arranges, Op


LEMMA ModedOpened ==
    ASSUME Shape, Documents, Ruled, NEW c \in Client, NEW r, RequestFits(r), Operation(c, r),
           NEW w, Open(c, w), Fine(r.op, w), Branches # {}
    PROVE  /\ r.op \in {"create branch", "update branch"} /\ settings.mode = "single" =>
                \A b \in Those(w) : Then(w, b).status = "active" => doc[b].status = "active"
           /\ r.op = "settings" /\ "settings" \in DOMAIN w
                /\ Then(w, "settings").mode = "single" => Alone(Active)
<1>1. Active # {}
    BY PrimaryActive DEF Ruled, Crowned
<1>2. Crowned
    BY DEF Ruled
<1>3. Arranges(r, w)
    BY <1>2, CrownsOpened
<1>4. ASSUME r.op = "create branch", settings.mode = "single", NEW b \in Those(w),
             Then(w, b).status = "active", doc[b].status # "active"
      PROVE  FALSE
  <2>1. ~Given(r.active, TRUE)
    BY <1>1, <1>4, Acts DEF CreateBranch
  <2>2. Status(Given(r.active, TRUE)) # "active"
    BY <2>1 DEF Status
  <2>3. BranchDraft(r, w, b)
    <3>1. b \in Branch \cap DOMAIN w /\ MayWrite(r.op, b)
        BY <1>4 DEF Fine, Those
    <3> QED  BY <3>1, BranchDrafts
  <2>4. CASE w[b] = [primary |-> FALSE]
    BY <1>4, <2>4, DemotedStatus
  <2> QED  BY <1>4, <2>2, <2>3, <2>4 DEF BranchDraft
<1>5. ASSUME r.op = "update branch", settings.mode = "single", NEW b \in Those(w),
             Then(w, b).status = "active", doc[b].status # "active"
      PROVE  FALSE
  <2>1. b = r.branch /\ r.active = "on" /\ doc[b] # NoBranch
    BY <1>3, <1>5 DEF Arranges, Turns
  <2>2. doc[b].status = "inactive"
    <3>1. doc[b] \in BranchDoc
        BY <1>5, Typed DEF Those
    <3> QED  BY <1>5, <2>1, <3>1 DEF BranchDoc, NoBranch
  <2> QED  BY <1>1, <1>5, <2>1, <2>2, Acts DEF UpdateBranch
<1>6. ASSUME r.op = "settings", "settings" \in DOMAIN w, Then(w, "settings").mode = "single"
      PROVE  Alone(Active)
  <2>1. Settles(r, w)
    BY <1>2, <1>6, SettingsSettled
  <2>2. Cardinality(Active) <= 1
    BY <1>6, <2>1 DEF Settles
  <2> QED  BY <2>2, AloneCounted
<1> QED  BY <1>4, <1>5, <1>6

\* Who has the leases still has had them before.
LEMMA HeldOn ==
    ASSUME Shape, Documents, Drafts, Offering, NEW c \in Client, Committing(c) \/ Cascading(c),
           NEW o \in Client, Sure(o)', Leased(o)',
           Op(o) \in {"settings", "create branch", "update branch"}
    PROVE  /\ Leased(o)
           /\ Op(o) \in {"settings", "create branch"} => Branches' \subseteq keys[o]
<1>1. PICK r : r = job[o][1]
    OBVIOUS
<1>2. /\ job'[o][1] = r /\ keys'[o] = keys[o] /\ (Valid(o)' => Valid(o))
      /\ r.op \in {"settings", "create branch", "update branch"}
    BY <1>1, StaysSure DEF Op
<1>3. Branches \subseteq Branches'
    BY BranchesStay
<1>4. Affected(r)' \subseteq keys[o]
    BY <1>1, <1>2 DEF Leased
<1>5. /\ r.op = "settings" => Affected(r)' = Branches'
      /\ r.op = "create branch" => Affected(r)' = Branches' \cup {r.branch}
      /\ r.op = "update branch" =>
           Affected(r)' = IF r.active # "keep" \/ r.bookings # "keep" THEN {r.branch} ELSE {}
    BY DEF Affected, PersonnelOps, RosterOps, CatalogOps, CategoryOps, ItemOps, Sharing,
           Careless, PremisesAffected
<1>6. /\ r.op = "settings" => Affected(r) = Branches
      /\ r.op = "create branch" => Affected(r) = Branches \cup {r.branch}
      /\ r.op = "update branch" =>
           Affected(r) = IF r.active # "keep" \/ r.bookings # "keep" THEN {r.branch} ELSE {}
    BY LeasesNeeded
<1>7. Affected(r) \subseteq Affected(r)'
    BY <1>2, <1>3, <1>5, <1>6
<1>8. Leased(o)
    BY <1>1, <1>2, <1>4, <1>7 DEF Leased
<1> QED  BY <1>1, <1>4, <1>5, <1>8 DEF Op

\* A request that commits knows its leases and has them.
LEMMA CommitsLeased ==
    ASSUME Documents, NEW c \in Client, Committing(c), "blind" \notin mishap',
           Op(c) \in {"settings", "create branch", "update branch"}
    PROVE  Leased(c)
BY Committed DEF Committing, Leased, Careless

\* The branches and settings of a cascade stay.
LEMMA CascadeElsewhere ==
    ASSUME Shape, Documents, Drafts, NEW c \in Client, Cascading(c)
    PROVE  Branches' = Branches /\ Active' = Active /\ settings' = settings
<1>1. ASSUME NEW d \in Branch \cup {"settings"} PROVE doc'[d] = doc[d]
  <2>1. d \in Names \ Withdrawable
    BY <1>1, KindsApart, NamesAssumption DEF Withdrawable, Singles
  <2> QED  BY <2>1, Cascaded DEF Cascading
<1> QED  BY <1>1 DEF Branches, Active, settings

\* Nobody activates a branch while another needs the leases of all.
LEMMA NoneActivated ==
    ASSUME Shape, Leases, Documents, Drafts, Offering, Ruled, "blind" \notin mishap',
           NEW c \in Client, Committing(c) \/ Cascading(c), Branches # {},
           NEW o \in Client, Sure(o)', Leased(o)', Op(o) = "settings"
    PROVE  Active' \subseteq Active
<1>1. CASE Cascading(c)
    BY <1>1, CascadeElsewhere
<1>2. CASE Committing(c)
  <2>1. SUFFICES ASSUME NEW b \in Branch, doc'[b].status = "active", doc[b].status # "active"
                 PROVE  FALSE
    BY DEF Active
  <2>2. Op(c) \in {"create branch", "update branch"} /\ b \in Affected(job[c][1])
    BY <1>2, <2>1, Activation
  <2>3. Valid(c) /\ b \in keys[c]
    BY <1>2, <2>2, CommitsLeased DEF Leased
  <2>4. Valid(o) /\ b \in keys[o] /\ o # c
    <3>1. b \in Branches'
        BY <2>1 DEF Branches
    <3> QED  BY <3>1, HeldOn, StaysSure DEF Leased
  <2>5. b \in Key
    BY DEF Key
  <2> QED  BY <2>2, <2>3, <2>4, <2>5, Exclusive DEF Sharing
<1> QED  BY <1>1, <1>2


\* What becomes of the branches in single mode.
LEMMA AloneNext ==
    ASSUME Shape, Documents, Drafts, Ruled, Moded, NEW c \in Client,
           Committing(c) \/ Cascading(c), mishap' \cap {"blind", "default"} = {},
           doc'["settings"].mode = "single"
    PROVE  Alone(Active')
<1>1. mishap \cap {"blind", "default"} = {}
    BY Committed, Cascaded DEF Committing, Cascading
<1>2. CASE Cascading(c)
    BY <1>1, <1>2, CascadeElsewhere DEF Moded, settings
<1>3. CASE Committing(c) /\ Branches = {}
    BY <1>3, FirstAlone
<1>4. CASE Committing(c) /\ Branches # {}
  <2>1. CASE Sure(c) /\ Op(c) = "settings" /\ "settings" \in DOMAIN writes[c]
    <3>1. Leased(c)
        BY <1>4, <2>1, CommitsLeased
    <3>2. Then(writes[c], "settings").mode = "single"
        BY <1>4, Surely, KindsApart DEF Would
    <3>3. Alone(Active)
        BY <1>1, <1>4, <2>1, <3>1, <3>2 DEF Moded
    <3>4. Active' \subseteq Active
      <4>1. SUFFICES ASSUME NEW b \in Branch, doc'[b].status = "active", doc[b].status # "active"
                     PROVE  FALSE
        BY DEF Active
      <4> QED  BY <1>4, <2>1, <4>1, Activation
    <3> QED  BY <3>3, <3>4 DEF Alone
  <2>2. CASE settings.mode = "single"
    <3>1. Alone(Active)
        BY <1>1, <2>2 DEF Moded
    <3>2. Active' \subseteq Active
      <4>1. SUFFICES ASSUME NEW b \in Branch, doc'[b].status = "active", doc[b].status # "active"
                     PROVE  FALSE
        BY DEF Active
      <4>2. /\ Sure(c) /\ b \in Those(writes[c]) /\ Then(writes[c], b).status = "active"
            /\ Op(c) \in {"create branch", "update branch"}
        BY <1>4, <4>1, Activation
      <4>3. Leased(c)
        BY <1>4, <4>2, CommitsLeased
      <4> QED  BY <1>1, <1>4, <2>2, <4>1, <4>2, <4>3 DEF Moded
    <3> QED  BY <3>1, <3>2 DEF Alone
  <2> QED  BY <1>4, <2>1, <2>2, Remoded
<1> QED  BY <1>2, <1>3, <1>4

\* Who is about to activate a branch has kept another from turning the mode to single.
LEMMA ActivatesStill ==
    ASSUME Shape, Leases, Documents, Drafts, Offering, Ruled, Moded, NEW c \in Client,
           Committing(c) \/ Cascading(c), mishap' \cap {"blind", "default"} = {},
           NEW o \in Client, Sure(o)', Leased(o)', Op(o) \in {"create branch", "update branch"},
           doc'["settings"].mode = "single", NEW b \in Those(writes[o]),
           Then(writes[o], b)'.status = "active", doc'[b].status # "active"
    PROVE  FALSE
<1>1. mishap \cap {"blind", "default"} = {}
    BY Committed, Cascaded DEF Committing, Cascading
<1>2. b \in Branch \cap DOMAIN writes[o]
    BY DEF Those
<1>3. /\ o # c /\ Sure(o) /\ (Valid(o)' => Valid(o))
      /\ doc'[b] = doc[b] /\ Then(writes[o], b)' = Then(writes[o], b)
      /\ "settings" \in DOMAIN writes[o] => doc'["settings"] = doc["settings"]
    BY <1>2, StaysSure, KindsApart, NamesAssumption DEF Would, Singles
<1>4. Crowns(writes[o]) /\ Turns(job[o][1], writes[o], b) /\ Crowned
    BY <1>3 DEF Ruled, Arranges, Op
<1>5. CASE Branches = {}
  <2>1. Primaries = {}
    BY <1>5, PrimaryActive
  <2>2. settings = NoSettings
    <3>1. settings \in SettingsDoc
        BY Typed DEF settings
    <3> QED  BY <1>4, <2>1, <3>1 DEF Crowned, SettingsDoc, One
  <2>3. Then(writes[o], b).primary /\ ~doc[b].primary
    BY <1>2, <1>4, <1>5, <2>1 DEF Crowns, Primaries
  <2>4. doc'["settings"] = NoSettings
    BY <1>3, <1>4, <2>2, <2>3 DEF Turns, settings
  <2>5. NoSettings.mode # "single"
    BY DEF NoSettings
  <2> QED  BY <2>4, <2>5
<1>6. CASE Branches # {}
  <2>1. Leased(o)
    BY HeldOn
  <2>2. settings.mode # "single"
    BY <1>1, <1>3, <1>6, <2>1 DEF Moded
  <2>3. Committing(c)
    BY <2>2, CascadeElsewhere DEF settings
  <2>4. Op(c) = "settings"
    BY <1>6, <2>2, <2>3, Remoded
  <2>5. Valid(c) /\ Branches \subseteq keys[c]
    BY <2>3, <2>4, CommitsLeased, LeasesNeeded DEF Leased, Op
  <2>6. PICK k \in Branches : k \in keys[o]
    <3>1. CASE Op(o) = "create branch"
        BY <1>6, <2>1, <3>1, LeasesNeeded DEF Leased, Op
    <3>2. CASE Op(o) = "update branch"
      <4>1. b = job[o][1].branch /\ job[o][1].active = "on" /\ doc[b] # NoBranch
        BY <1>3, <1>4, <3>2 DEF Turns, Op
      <4>2. b \in Branches
        BY <1>2, <4>1, ThereIs
      <4>3. b \in keys[o]
        BY ZenonT(40), <2>1, <3>2, <4>1, LeasesNeeded DEF Leased, Op
      <4> QED  BY <4>2, <4>3
    <3> QED  BY <3>1, <3>2
  <2>7. k \in Key
    BY DEF Branches, Key
  <2>8. Valid(o)
    BY <2>1 DEF Leased
  <2> QED  BY <1>3, <2>4, <2>5, <2>6, <2>7, <2>8, Exclusive DEF Sharing
<1> QED  BY <1>5, <1>6

LEMMA ModedKept ==
    ASSUME Shape, Leases, Documents, Drafts, Offering, Ruled, Moded, [Next]_vars
    PROVE  Moded'
<1> DEFINE Keeps(o) ==
             /\ Op(o) \in {"create branch", "update branch"} /\ settings.mode = "single" =>
                  \A b \in Those(writes[o]) :
                      Then(writes[o], b).status = "active" => doc[b].status = "active"
             /\ Op(o) = "settings" /\ "settings" \in DOMAIN writes[o]
                  /\ Then(writes[o], "settings").mode = "single" => Alone(Active)
           Bound(o) == Sure(o) /\ Leased(o) /\ Branches # {}
<1> SUFFICES ASSUME mishap' \cap {"blind", "default"} = {}
             PROVE  /\ doc'["settings"].mode = "single" => Alone(Active')
                    /\ \A o \in Client : Bound(o)' => Keeps(o)'
    BY DEF Moded, settings, Alone
<1>1. mishap \cap {"blind", "default"} = {}
    BY Steps, Committed, Cascaded DEF Quiet, Opening, Committing, Cascading
<1>2. /\ settings.mode = "single" => Alone(Active)
      /\ \A o \in Client : Bound(o) => Keeps(o)
    BY <1>1 DEF Moded
<1>3. ASSUME doc' = doc PROVE doc'["settings"].mode = "single" => Alone(Active')
    BY <1>2, <1>3 DEF settings, Alone, Active
<1>4. ASSUME NEW o \in Client, Kept(o), doc' = doc, Bound(o)' PROVE Keeps(o)'
  <2>1. Sure(o) /\ job'[o] = job[o] /\ writes'[o] = writes[o]
    BY <1>4 DEF Kept, Sure
  <2>2. Leased(o) /\ Branches # {}
    BY <1>4, LeasedAgain DEF Branches
  <2>3. Keeps(o)
    BY <1>2, <2>1, <2>2
  <2> QED  BY <1>4, <2>1, <2>3 DEF Op, Those, Then, Merge, Alone, Active, settings
<1>5. CASE Quiet
    BY <1>3, <1>4, <1>5 DEF Quiet
<1>6. ASSUME NEW c \in Client, Opening(c)
      PROVE  /\ doc'["settings"].mode = "single" => Alone(Active')
             /\ \A o \in Client : Bound(o)' => Keeps(o)'
  <2>1. PICK r : r = job[c][1]
    OBVIOUS
  <2>2. Operation(c, r) /\ RequestFits(r) /\ doc' = doc /\ job' = job
    BY <1>6, <2>1 DEF Opening
  <2>3. PICK w : Open(c, w) /\ Fine(r.op, w)
    BY <2>2, OperationFine DEF OpensFine
  <2>4. writes'[c] = w
    BY <2>3, Opened
  <2>5. ASSUME Branches # {} PROVE Keeps(c)'
    <3>1. /\ r.op \in {"create branch", "update branch"} /\ settings.mode = "single" =>
                \A b \in Those(w) : Then(w, b).status = "active" => doc[b].status = "active"
          /\ r.op = "settings" /\ "settings" \in DOMAIN w
                /\ Then(w, "settings").mode = "single" => Alone(Active)
        BY <2>2, <2>3, <2>5, ModedOpened
    <3> QED  BY <2>1, <2>2, <2>4, <3>1 DEF Op, Those, Then, Merge, Alone, Active, settings
  <2>6. Branches' = Branches
    BY <2>2 DEF Branches
  <2> QED  BY <1>3, <1>4, <1>6, <2>2, <2>5, <2>6 DEF Opening
<1>7. ASSUME NEW c \in Client, Committing(c) \/ Cascading(c), NEW o \in Client, Bound(o)'
      PROVE  Keeps(o)'
  <2>1. Sure(o)' /\ Leased(o)' /\ Branches' # {}
    BY <1>7
  <2>2. job'[o] = job[o] /\ writes'[o] = writes[o]
    BY <1>7, <2>1, StaysSure
  <2>3. ASSUME Op(o) \in {"create branch", "update branch"}, doc'["settings"].mode = "single",
               NEW b \in Those(writes[o]), Then(writes[o], b)'.status = "active"
        PROVE  doc'[b].status = "active"
    BY <1>7, <2>1, <2>3, ActivatesStill
  <2>4. ASSUME Op(o) = "settings", "settings" \in DOMAIN writes[o],
               Then(writes[o], "settings")'.mode = "single"
        PROVE  Alone(Active')
    <3>1. CASE Branches = {}
      <4>1. Committing(c)
        BY <1>7, <2>1, <3>1, CascadeElsewhere
      <4> QED  BY <3>1, <4>1, FirstAlone
    <3>2. CASE Branches # {}
      <4>1. Leased(o) /\ Sure(o)
        BY <1>7, <2>1, <2>4, HeldOn, StaysSure
      <4>2. Then(writes[o], "settings").mode = "single"
        BY <1>7, <2>1, <2>4, StaysSure, KindsApart, NamesAssumption DEF Would, Singles
      <4>3. Alone(Active)
        BY <1>2, <2>4, <3>2, <4>1, <4>2
      <4>4. Active' \subseteq Active
        BY <1>7, <2>1, <2>4, <3>2, NoneActivated
      <4> QED  BY <4>3, <4>4 DEF Alone
    <3> QED  BY <3>1, <3>2
  <2> QED  BY <2>2, <2>3, <2>4 DEF Op, Those, Then, Merge, Alone, settings
<1>8. ASSUME NEW c \in Client, Committing(c) \/ Cascading(c)
      PROVE  /\ doc'["settings"].mode = "single" => Alone(Active')
             /\ \A o \in Client : Bound(o)' => Keeps(o)'
    BY <1>7, <1>8, AloneNext
<1> QED  BY <1>5, <1>6, <1>8, Steps

Reigned == Sane /\ Ruled /\ Moded

LEMMA ReignedAtFirst == ASSUME Init PROVE Reigned
<1>1. PICK g \in Agendas : doc = g.doc
    BY DEF Init
<1>2. InOrder(g.doc)
    BY AgendaAssumption
<1>3. /\ Primaries \in IF Branches = {} THEN {{}} ELSE One(Branch)
      /\ settings # NoSettings => settings.primary = Primaries
      /\ settings.mode = "single" => Alone(Active)
    BY <1>1, <1>2 DEF InOrder, Branches, Primaries, Active, Alone, settings
<1>4. \A c \in Client : ~Sure(c)
    BY DEF Init, InitRequests, Sure
<1>5. Branches # {} => Primaries # {}
    BY <1>3 DEF One
<1>6. \A a, b \in Primaries : a = b
    BY <1>3 DEF One
<1> QED  BY <1>3, <1>4, <1>5, <1>6, SaneAtFirst DEF Reigned, Ruled, Crowned, Moded

LEMMA ReignedKept == ASSUME Reigned, [Next]_vars PROVE Reigned'
BY SaneKept, RuledKept, ModedKept DEF Reigned, Sane

\* The settings name the primary branch however branches are made and promoted at
\* once; and in single mode one branch is active, unless one is activated or the mode
\* turned without the leases of the branches there are by then, or the code makes
\* settings of its own.
THEOREM SettingsNameTheBranches == Spec => []SettingsFitBranches
<1>1. Init => Reigned
    BY ReignedAtFirst
<1>2. Reigned /\ [Next]_vars => Reigned'
    BY ReignedKept
<1>3. Reigned => SettingsFitBranches
    BY AloneCounted DEF Reigned, Ruled, Crowned, Moded, SettingsFitBranches
<1> QED  BY <1>1, <1>2, <1>3, PTL DEF Spec


-----------------------------------------------------------------------------
(* The catalogue *)

\* Whatever has the parents of k and of all in it has all above k,
LEMMA AboveLeast ==
    ASSUME NEW k \in Category, NEW S \in SUBSET Category,
           \A a \in S \cup {k} : doc[a].parent \subseteq S
    PROVE  Above(k) \subseteq S
BY DEF Above

\* and so have they.
LEMMA AboveClosed ==
    ASSUME Documents, NEW k \in Category
    PROVE  /\ Above(k) \in SUBSET Category
           /\ \A a \in Above(k) \cup {k} : doc[a].parent \subseteq Above(k)
<1>1. ASSUME NEW a \in Category PROVE doc[a].parent \subseteq Category
  <2>1. doc[a] \in CategoryDoc
    BY Typed
  <2> QED  BY <2>1 DEF CategoryDoc, One
<1>2. Above(k) \in SUBSET Category
    BY DEF Above
<1>3. ASSUME NEW a \in Above(k) \cup {k}, NEW b \in doc[a].parent PROVE b \in Above(k)
  <2>1. b \in Category
    BY <1>1, <1>2
  <2>2. ASSUME NEW S \in SUBSET Category, \A x \in S \cup {k} : doc[x].parent \subseteq S
        PROVE  b \in S
    <3>1. Above(k) \subseteq S
        BY <2>2, AboveLeast
    <3> QED  BY <1>3, <2>2, <3>1
  <2> QED  BY <2>1, <2>2 DEF Above
<1> QED  BY <1>2, <1>3

\* Nothing is above itself, and an active product is where products belong.
Rooted == \A k \in Category : There(k) => k \notin Above(k)

Filed ==
    \A k \in doc["product"].in :
        /\ doc[k].status # "absent"
        /\ doc["product"].status = "active" /\ There(k) => "product" \in doc[k].types

\* Where category k may be put: at the top, where it is, or under categories that it
\* is not above.
Raises(k, parent) ==
    \/ parent = {}
    \/ parent = doc[k].parent /\ There(k)
    \/ \E S \in SUBSET (Category \ {k}) :
         parent \subseteq S /\ \A a \in S : There(a) /\ doc[a].parent \subseteq S

\* One category is moved.
LEMMA StaysRooted ==
    ASSUME Documents, Rooted, NEW k \in Category, Raises(k, doc'[k].parent),
           \A a \in Category \ {k} : doc'[a] = doc[a]
    PROVE  Rooted'
<1> SUFFICES ASSUME NEW j \in Category, There(j)' PROVE j \notin Above(j)'
  BY DEF Rooted
<1>0. ASSUME NEW S \in SUBSET Category, j \notin S,
             \A a \in S \cup {j} : doc'[a].parent \subseteq S
      PROVE  j \notin Above(j)'
  BY <1>0 DEF Above
<1>1. /\ Above(j) \in SUBSET Category
      /\ \A a \in Above(j) \cup {j} : doc[a].parent \subseteq Above(j)
    BY AboveClosed
<1>2. j # k => j \notin Above(j)
    BY DEF Rooted, There
<1>3. CASE doc'[k].parent = {}
  <2>1. CASE j = k
    BY <1>0, <1>3, <2>1
  <2>2. CASE j # k
    BY <1>0, <1>1, <1>2, <1>3, <2>2
  <2> QED  BY <2>1, <2>2
<1>4. CASE doc'[k].parent = doc[k].parent /\ There(k)
  <2>1. j \notin Above(j)
    BY <1>4 DEF Rooted, There
  <2> QED  BY <1>0, <1>1, <1>4, <2>1
<1>5. ASSUME NEW S \in SUBSET (Category \ {k}), doc'[k].parent \subseteq S,
             \A a \in S : There(a) /\ doc[a].parent \subseteq S
      PROVE  j \notin Above(j)'
  <2>1. CASE j = k
    BY <1>0, <1>5, <2>1
  <2>2. CASE j \in S
    <3>1. Above(j) \subseteq S
        BY <1>5, <2>2, AboveLeast
    <3> QED  BY <1>0, <1>1, <1>2, <1>5, <2>2, <3>1
  <2>3. CASE j \notin S /\ j # k
    <3> DEFINE T == Above(j) \cup S
    <3>1. T \in SUBSET Category /\ j \notin T
        BY <1>1, <1>2, <1>5, <2>3
    <3>2. ASSUME NEW a \in T \cup {j} PROVE doc'[a].parent \subseteq T
        BY <1>1, <1>5, <2>3, <3>1, <3>2
    <3> HIDE DEF T
    <3> QED  BY <1>0, <3>1, <3>2
  <2> QED  BY <2>1, <2>2, <2>3
<1> QED  BY <1>3, <1>4, <1>5 DEF Raises

\* What request c is about to write of category k, and of the product.
FilesCategory(c, k) ==
    /\ DOMAIN writes[c] = {k}
    /\ Would(c, k).status # "absent"
    /\ Raises(k, Would(c, k).parent)
    /\ doc["product"].status = "active" /\ k \in doc["product"].in
         /\ Would(c, k).status \in {"active", "inactive"} => "product" \in Would(c, k).types
    /\ Op(c) \in {"create product", "update product"} => "product" \in Would(c, k).types

FilesProduct(c) ==
    LET new == Would(c, "product") IN
    \A k \in new.in :
        /\ k \in Category /\ doc[k].status # "absent"
        /\ new.status = "active" /\ There(k) => "product" \in doc[k].types

Files(c) ==
    /\ \A k \in Category \cap DOMAIN writes[c] : FilesCategory(c, k)
    /\ "product" \in DOMAIN writes[c] => FilesProduct(c)

\* What a request remembers to have extended is so, and nobody else remembers anything.
Recalls(c) ==
    Op(c) \in {"create product", "update product"} =>
        \A k \in Category \cap DOMAIN writes[c] : "product" \in doc[k].types

Resting == \A c \in Client : pc[c] \in {"idle", "asked"} => writes[c] = Nothing

Cataloguing ==
    "crossed" \notin mishap =>
        /\ Rooted /\ Filed
        /\ \A c \in Client : /\ pc[c] = "open" => Files(c)
                             /\ pc[c] = "ready" => Recalls(c)

\* What becomes of the writes of request o.
Lasts(o) ==
    \/ writes'[o] = Nothing
    \/ /\ writes'[o] = writes[o]
       /\ \/ pc'[o] = pc[o] /\ job'[o] = job[o]
          \/ pc[o] \in {"idle", "asked"}
          \/ Commit(o) /\ pc'[o] = "ready" /\ job'[o] = job[o]
    \/ pc'[o] \in {"open", "cascading"}

LEMMA Lasting ==
    ASSUME Shape, [Next]_vars, NEW o \in Client
    PROVE  Lasts(o)
<1>1. CASE UNCHANGED vars
  BY <1>1 DEF vars, Lasts
<1>2. ASSUME NEW c \in Client, NEW r \in asks[c], Ask(c, r) PROVE Lasts(o)
  BY <1>2 DEF Ask, Arrive, Shape, Lasts
<1>3. ASSUME NEW c \in Client, Lease(c) PROVE Lasts(o)
  BY <1>3 DEF Lease, Shape, Lasts
<1>4. ASSUME NEW c \in Client, Operation(c, job[c][1]) PROVE Lasts(o)
  <2>1. PICK w : Open(c, w)
    BY <1>4, OpensReady
  <2> QED  BY <2>1 DEF Open, Shape, Lasts
<1>5. ASSUME NEW c \in Client, Commit(c) PROVE Lasts(o)
  <2>1. CASE o # c
    BY <1>5, <2>1 DEF Commit, Continue, Over, Shape, Lasts
  <2>2. CASE o = c
    <3>1. \/ Over(c)
          \/ Continue(c, "ready", Nothing)
          \/ Continue(c, "ready", writes[c])
          \/ \E w : Continue(c, "cascading", w)
        BY <1>5 DEF Commit
    <3> QED  BY <1>5, <2>2, <3>1 DEF Continue, Over, Shape, Lasts
  <2> QED  BY <2>1, <2>2
<1>6. ASSUME NEW c \in Client, Cascade(c) PROVE Lasts(o)
  BY <1>6 DEF Cascade, Over, Shape, Lasts
<1>7. ASSUME NEW c \in Client, Retry(c) PROVE Lasts(o)
  BY <1>7 DEF Retry, Shape, Lasts
<1>8. ASSUME NEW c \in Client, Fail(c) PROVE Lasts(o)
  BY <1>8 DEF Fail, Over, Shape, Lasts
<1>9. ASSUME NEW k \in Key, Lapse(k) PROVE Lasts(o)
  BY <1>9 DEF Lapse, requests, Lasts
<1> QED  BY <1>1, <1>2, <1>3, <1>4, <1>5, <1>6, <1>7, <1>8, <1>9 DEF Next

LEMMA RestingKept ==
    ASSUME Shape, Resting, [Next]_vars
    PROVE  Resting'
<1> SUFFICES ASSUME NEW o \in Client, pc'[o] \in {"idle", "asked"}
             PROVE  writes'[o] = Nothing
    BY DEF Resting
<1> QED  BY Lasting DEF Lasts, Resting


LEMMA CategoryFields ==
    ASSUME Documents, NEW k \in Category
    PROVE  DOMAIN doc[k] = {"status", "parent", "types"}
<1>1. doc[k] \in CategoryDoc
  BY Typed
<1> QED  BY <1>1 DEF CategoryDoc

LEMMA CategoryMerged ==
    ASSUME Documents, NEW k \in Category, NEW s, NEW p, NEW t
    PROVE  LET new == [status |-> s, parent |-> p, types |-> t]
           IN  /\ Merge(k, new).status = s
               /\ Merge(k, new).parent = p
               /\ Merge(k, new).types = t
BY CategoryFields DEF Merge

\* A request is about to write a category as it may be, or a product.
LEMMA CategoryFiled ==
    ASSUME Shape, Documents, NEW c \in Client, NEW w, Open(c, w),
           NEW k \in Category, DOMAIN w \subseteq {k},
           Then(w, k).status # "absent", Raises(k, Then(w, k).parent),
           doc["product"].status = "active" /\ k \in doc["product"].in
             /\ Then(w, k).status \in {"active", "inactive"} => "product" \in Then(w, k).types,
           Op(c) \in {"create product", "update product"} => "product" \in Then(w, k).types
    PROVE  Files(c)'
<1>1. "product" # k
  BY NamesAssumption DEF Singles
<1>2. /\ writes'[c] = w /\ doc' = doc /\ Op(c)' = Op(c) /\ Would(c, k)' = Then(w, k)
  BY Opened DEF Op
<1>3. Raises(k, Would(c, k).parent)'
  BY <1>2 DEF Raises, There
<1>4. ASSUME NEW j \in Category, j \in DOMAIN writes'[c] PROVE FilesCategory(c, j)'
  <2>1. j = k /\ DOMAIN writes'[c] = {k}
    BY <1>2, <1>4
  <2> QED  BY <1>2, <1>3, <2>1 DEF FilesCategory
<1>5. "product" \notin DOMAIN writes'[c]
  BY <1>1, <1>2
<1> QED  BY <1>4, <1>5 DEF Files

LEMMA ProductFiled ==
    ASSUME Shape, Documents, NEW c \in Client, NEW w, Open(c, w), DOMAIN w \subseteq {"product"},
           \A k \in Then(w, "product").in :
               /\ k \in Category /\ doc[k].status # "absent"
               /\ Then(w, "product").status = "active" /\ There(k) => "product" \in doc[k].types
    PROVE  Files(c)'
<1>1. "product" \notin Category
  BY NamesAssumption DEF Singles
<1>2. writes'[c] = w /\ doc' = doc /\ Would(c, "product")' = Then(w, "product")
  BY Opened
<1>3. FilesProduct(c)'
  BY <1>2 DEF FilesProduct, There
<1> QED  BY <1>1, <1>2, <1>3 DEF Files

LEMMA CategoryChecked ==
    ASSUME Documents, NEW k \in Category, NEW parent \in {{}} \cup One(Category),
           NEW ks, ks = {k} \/ doc[k].status = "absent",
           \A p \in parent : Parent(ks, p)
    PROVE  Raises(k, parent)
<1>1. ASSUME NEW p \in Category, parent = {p} PROVE Raises(k, parent)
  <2> DEFINE S == {p} \cup Above(p)
  <2>1. /\ Above(p) \in SUBSET Category
        /\ \A a \in Above(p) \cup {p} : doc[a].parent \subseteq Above(p)
    BY AboveClosed
  <2>2. S \cap ks = {} /\ \A a \in S : There(a)
    BY <1>1 DEF Parent
  <2>3. k \notin S
    BY <2>2 DEF There
  <2> QED  BY <1>1, <2>1, <2>2, <2>3 DEF Raises
<1>2. parent = {} => Raises(k, parent)
  BY DEF Raises
<1> QED  BY <1>1, <1>2 DEF One

LEMMA FiledOpened ==
    ASSUME Shape, Documents, Filed, NEW c \in Client, Opening(c), Recalls(c)
    PROVE  Files(c)'
<1>1. PICK r : r = job[c][1]
  OBVIOUS
<1>2. RequestFits(r) /\ Operation(c, r) /\ doc' = doc /\ Op(c) = r.op
  BY <1>1 DEF Opening, Op
<1>3. PICK w : Open(c, w) /\ Fine(r.op, w) /\ (r.op \in Erasing => Gone(w))
  BY <1>2, OperationFine DEF OpensFine
<1>4. writes'[c] = w
  BY <1>3, Opened
<1>5. CASE r.op \notin CatalogOps
  <2>1. \A d \in DOMAIN w : MayWrite(r.op, d)
    BY <1>3 DEF Fine
  <2>2. DOMAIN w \cap (Category \cup {"product"}) = {}
    BY <1>5, <2>1 DEF MayWrite, CatalogOps, ItemOps
  <2> QED  BY <1>4, <2>2 DEF Files
<1>6. CASE CreateCategory(c, r)
  <2> DEFINE k      == r.category
             status == Status(Given(r.active, TRUE))
             parent == r.parent
             types  == r.types
             new    == [status |-> status, parent |-> parent, types |-> types]
  <2>1. /\ r.op = "create category" /\ doc[k] = NoCategory /\ Open(c, Put(k, new))
        /\ \A p \in r.parent : Parent({}, p)
    BY <1>6 DEF CreateCategory
  <2>2. k \in Category /\ r.parent \in {{}} \cup One(Category)
    BY <1>2, <2>1 DEF RequestFits
  <2>3. DOMAIN Put(k, new) = {k} /\ Then(Put(k, new), k) = Merge(k, new)
    BY DEF Put, Then
  <2>4. doc[k].status = "absent"
    <3>1. NoCategory.status = "absent"
        BY DEF NoCategory
    <3> QED  BY <2>1, <3>1
  <2>8. Merge(k, new).status = status /\ Merge(k, new).parent = parent
    <3> HIDE DEF status, parent, types
    <3> QED  BY <2>2, CategoryMerged
  <2>5. Raises(k, r.parent)
    BY <2>1, <2>2, <2>4, CategoryChecked
  <2>6. k \notin doc["product"].in
    BY <2>4 DEF Filed
  <2>7. status # "absent"
    BY DEF Status
  <2> HIDE DEF status
  <2> QED  BY <1>2, <2>1, <2>2, <2>3, <2>4, <2>5, <2>6, <2>7, <2>8, CategoryFiled
<1>7. CASE UpdateCategory(c, r)
  <2> DEFINE k      == r.category
             status == Status(Given(r.active, doc[k].status = "active"))
             parent == IF r.keep THEN doc[k].parent ELSE r.parent
             types  == IF r.types = {} THEN doc[k].types ELSE r.types
             new    == [status |-> status, parent |-> parent, types |-> types]
  <2>1. /\ r.op = "update category" /\ There(k) /\ Open(c, Save(k, new))
        /\ ~r.keep => \A p \in r.parent : Parent({k}, p)
        /\ r.types # {} => TypesMayChange(k, r.types)
    BY <1>7 DEF UpdateCategory
  <2>2. k \in Category /\ r.parent \in {{}} \cup One(Category)
    BY <1>2, <2>1 DEF RequestFits
  <2>3. Whole(k)
    BY <2>2, Wholeness DEF Names
  <2>4. DOMAIN Save(k, new) \subseteq {k} /\ Then(Save(k, new), k) = Merge(k, new)
    BY <2>3, SaveWritten
  <2>5. /\ Merge(k, new).status = status /\ Merge(k, new).parent = parent
        /\ Merge(k, new).types = types
    BY <2>2, CategoryMerged
  <2>6. Raises(k, parent)
    <3>1. CASE r.keep
        BY <2>1, <3>1 DEF Raises
    <3>2. CASE ~r.keep
        BY <2>1, <2>2, <3>2, CategoryChecked
    <3> QED  BY <3>1, <3>2
  <2>7. doc["product"].status = "active" /\ k \in doc["product"].in => "product" \in types
    <3>1. CASE r.types = {}
        BY <2>1, <3>1 DEF Filed
    <3>2. CASE r.types # {}
        BY <2>1, <3>2 DEF TypesMayChange
    <3> QED  BY <3>1, <3>2
  <2>8. status # "absent"
    BY DEF Status
  <2> HIDE DEF status, parent, types
  <2> QED  BY <1>2, <2>1, <2>2, <2>4, <2>5, <2>6, <2>7, <2>8, CategoryFiled
<1>8. CASE ArchiveCategory(c, r)
  <2> DEFINE k   == r.category
             new == [status |-> "gone", parent |-> {}]
  <2>1. r.op = "archive category" /\ Open(c, Put(k, new))
    BY <1>8 DEF ArchiveCategory
  <2>2. k \in Category
    BY <1>2, <2>1 DEF RequestFits
  <2>3. DOMAIN Put(k, new) = {k} /\ Then(Put(k, new), k) = Merge(k, new)
    BY DEF Put, Then
  <2>5. Merge(k, new).status = "gone" /\ Merge(k, new).parent = {}
    BY <2>2, CategoryFields DEF Merge
  <2>6. Raises(k, {})
    BY DEF Raises
  <2> QED  BY <1>2, <2>1, <2>2, <2>3, <2>5, <2>6, CategoryFiled
<1>9. CASE Extend(c, r)
  <2>1. PICK d \in DOMAIN Saving : /\ r.op \in Saving[d]
                                  /\ \E k \in Left(d, r).in :
                                       There(k) /\ Open(c, Put(k, [types |-> doc[k].types \cup {d}]))
    BY <1>9 DEF Extend
  <2>2. PICK k \in Left(d, r).in : There(k) /\ Open(c, Put(k, [types |-> doc[k].types \cup {d}]))
    BY <2>1
  <2>3. /\ d \in {"product", "package"}
        /\ r.op \in {"create product", "update product", "create package", "update package"}
        /\ r.op \in {"create product", "update product"} => d = "product"
    <3>1. DOMAIN Saving = {"product", "package"}
        BY DEF Saving
    <3>2. /\ Saving["product"] = {"create product", "update product"}
          /\ Saving["package"] = {"create package", "update package"}
        BY DEF Saving
    <3> HIDE DEF Saving
    <3>3. CASE d = "product"
        BY <2>1, <3>2, <3>3
    <3>4. CASE d = "package"
        BY <2>1, <3>2, <3>4
    <3> QED  BY <3>1, <3>3, <3>4
  <2>4. k \in Category
    <3>1. r.category \subseteq Category
        BY <1>2, <2>3 DEF RequestFits, One
    <3>2. doc["product"].in \subseteq Category /\ doc["package"].in \subseteq Category
        BY Typed DEF ProductDoc, PackageDoc
    <3> QED  BY <2>2, <2>3, <3>1, <3>2 DEF Left
  <2> DEFINE types == doc[k].types \cup {d}
  <2>5. DOMAIN Put(k, [types |-> types]) = {k}
        /\ Then(Put(k, [types |-> types]), k) = Merge(k, [types |-> types])
    BY DEF Put, Then
  <2>7. LET new == [types |-> types]
        IN  /\ Merge(k, new).status = doc[k].status /\ Merge(k, new).parent = doc[k].parent
            /\ Merge(k, new).types = types
    BY <2>4, CategoryFields DEF Merge
  <2>8. Raises(k, doc[k].parent) /\ doc[k].status # "absent"
    BY <2>2 DEF Raises, There
  <2>9. doc["product"].status = "active" /\ k \in doc["product"].in => "product" \in types
    BY <2>2 DEF Filed
  <2>10. r.op \in {"create product", "update product"} => "product" \in types
    BY <2>3
  <2>11. Open(c, Put(k, [types |-> types]))
    BY <2>2
  <2> HIDE DEF types
  <2> QED  BY <1>2, <2>4, <2>5, <2>7, <2>8, <2>9, <2>10, <2>11, CategoryFiled
<1>10. CASE CreateProduct(c, r) \/ UpdateProduct(c, r)
  <2> DEFINE new == Left("product", r)
  <2>1. /\ r.op \in {"create product", "update product"} /\ Placed(c, "product", new)
        /\ Open(c, Put("product", new)) \/ Open(c, Save("product", new))
    BY <1>10 DEF CreateProduct, UpdateProduct
  <2>2. Whole("product") /\ doc["product"] \in ProductDoc
    BY Wholeness, Typed DEF Names, Singles
  <2>3. /\ DOMAIN Put("product", new) \subseteq {"product"}
        /\ Then(Put("product", new), "product") = Merge("product", new)
    BY DEF Put, Then
  <2>4. /\ DOMAIN Save("product", new) \subseteq {"product"}
        /\ Then(Save("product", new), "product") = Merge("product", new)
    BY <2>2, SaveWritten
  <2>5. Merge("product", new).in = new.in /\ Merge("product", new).status = new.status
    BY <2>2 DEF Merge, ProductDoc, Left
  <2>6. ASSUME NEW k \in new.in PROVE k \in Category /\ There(k) /\ "product" \in doc[k].types
    <3>1. k \in Category
      <4>1. r.category \subseteq Category
        BY <1>2, <2>1 DEF RequestFits, One
      <4>2. doc["product"].in \subseteq Category
        BY <2>2 DEF ProductDoc
      <4>3. new.in = IF r.category = {} THEN doc["product"].in ELSE r.category
        BY DEF Left
      <4> QED  BY <2>6, <4>1, <4>2, <4>3
    <3>2. There(k) /\ ("product" \in doc[k].types \/ k \in DOMAIN writes[c])
        BY <2>1, <2>6 DEF Placed
    <3>3. k \in DOMAIN writes[c] => "product" \in doc[k].types
      <4>1. Op(c) \in {"create product", "update product"}
        BY <1>2, <2>1
      <4> QED  BY <3>1, <4>1 DEF Recalls
    <3> QED  BY <3>1, <3>2, <3>3
  <2>7. \A k \in new.in : k \in Category /\ doc[k].status # "absent"
    BY <2>6 DEF There
  <2> HIDE DEF new
  <2> QED  BY <2>1, <2>3, <2>4, <2>5, <2>6, <2>7, ProductFiled
<1>11. CASE ArchiveProduct(c, r)
  <2> DEFINE new == [status |-> "gone"]
  <2>1. Open(c, Put("product", new))
    BY <1>11 DEF ArchiveProduct
  <2>2. doc["product"] \in ProductDoc
    BY Typed
  <2>3. /\ DOMAIN Put("product", new) \subseteq {"product"}
        /\ Then(Put("product", new), "product") = Merge("product", new)
    BY DEF Put, Then
  <2>4. Merge("product", new).in = doc["product"].in /\ Merge("product", new).status = "gone"
    BY <2>2 DEF Merge, ProductDoc
  <2>5. \A k \in doc["product"].in : k \in Category
    BY <2>2 DEF ProductDoc
  <2> QED  BY <2>1, <2>3, <2>4, <2>5, ProductFiled DEF Filed
<1>12. CASE CreatePackage(c, r) \/ UpdatePackage(c, r) \/ SwitchPackage(c, r) \/ ArchivePackage(c, r)
  <2>1. r.op \in {"create package", "update package", "switch package", "archive package"}
    BY <1>12 DEF CreatePackage, UpdatePackage, SwitchPackage, ArchivePackage
  <2>2. PICK v : Open(c, Put("package", v)) \/ Open(c, Save("package", v))
    BY <1>12 DEF CreatePackage, UpdatePackage, SwitchPackage, ArchivePackage
  <2>3. Whole("package")
    BY Wholeness DEF Names, Singles
  <2>4. DOMAIN Put("package", v) \subseteq {"package"} /\ DOMAIN Save("package", v) \subseteq {"package"}
    BY <2>3, SaveWritten DEF Put
  <2>5. DOMAIN writes'[c] \subseteq {"package"}
    BY <2>2, <2>4, Opened
  <2>6. "package" \notin Category
    BY NamesAssumption DEF Singles
  <2> QED  BY <2>5, <2>6 DEF Files
<1>13. r.op \in CatalogOps => CatalogOperation(c, r)
  BY <1>2, Acts
<1> QED
  BY <1>5, <1>6, <1>7, <1>8, <1>9, <1>10, <1>11, <1>12, <1>13 DEF CatalogOperation

\* Nothing changes in the catalogue.
Uncatalogued == \A d \in Category \cup {"product"} : doc'[d] = doc[d]

LEMMA CatalogSame ==
    ASSUME Documents, Uncatalogued, NEW o, writes'[o] = writes[o], job'[o] = job[o]
    PROVE  (Files(o) => Files(o)') /\ (Recalls(o) => Recalls(o)')
<1>1. \A d \in Category \cup {"product"} : doc'[d] = doc[d] /\ Would(o, d)' = Would(o, d)
    BY DEF Uncatalogued, Would, Then, Merge
<1>2. ASSUME Files(o) PROVE Files(o)'
  <2>1. ASSUME NEW k \in Category \cap DOMAIN writes[o] PROVE FilesCategory(o, k)'
    <3>1. FilesCategory(o, k)
        BY <1>2, <2>1 DEF Files
    <3>2. Raises(k, Would(o, k).parent)'
        BY <1>1, <3>1 DEF FilesCategory, Raises, There
    <3> QED  BY <1>1, <3>1, <3>2 DEF FilesCategory, Op
  <2>2. ASSUME "product" \in DOMAIN writes[o] PROVE FilesProduct(o)'
    <3>1. FilesProduct(o)
        BY <1>2, <2>2 DEF Files
    <3> QED  BY <1>1, <3>1 DEF FilesProduct, There
  <2> QED  BY <2>1, <2>2 DEF Files
<1>3. Recalls(o) => Recalls(o)'
    BY <1>1 DEF Recalls, Op
<1> QED  BY <1>2, <1>3

LEMMA OrderSame ==
    ASSUME Documents, \A k \in Category : doc'[k] = doc[k]
    PROVE  /\ Rooted => Rooted'
           /\ doc'["product"] = doc["product"] /\ Filed => Filed'
<1>1. ASSUME NEW j \in Category PROVE Above(j)' = Above(j)
    BY DEF Above
<1>2. doc["product"].in \subseteq Category
    BY Typed DEF ProductDoc
<1> QED  BY <1>1, <1>2 DEF Rooted, Filed, There

\* A request that leaves the catalogue alone goes on as before.
LEMMA FilesStay ==
    ASSUME Documents, Resting, Uncatalogued, NEW o \in Client, ~Commit(o), Lasts(o), Kept(o),
           pc[o] = "open" => Files(o), pc[o] = "ready" => Recalls(o)
    PROVE  (pc'[o] = "open" => Files(o)') /\ (pc'[o] = "ready" => Recalls(o)')
<1>1. ASSUME pc'[o] = "open" PROVE Files(o)'
  <2>1. pc[o] = "open" /\ job'[o] = job[o] /\ writes'[o] = writes[o]
    BY <1>1 DEF Kept
  <2> QED  BY <2>1, CatalogSame
<1>2. ASSUME pc'[o] = "ready" PROVE Recalls(o)'
  <2>1. CASE writes'[o] = Nothing
    BY <2>1, NothingWritten DEF Recalls
  <2>2. CASE writes'[o] = writes[o] /\ pc'[o] = pc[o] /\ job'[o] = job[o]
    BY <1>2, <2>2, CatalogSame
  <2>3. CASE writes'[o] = writes[o] /\ pc[o] \in {"idle", "asked"}
    BY <2>1, <2>3 DEF Resting
  <2> QED  BY <1>2, <2>1, <2>2, <2>3 DEF Lasts
<1> QED  BY <1>1, <1>2

\* The writes of a request in the catalogue keep it in order.
LEMMA OrderCommitted ==
    ASSUME Documents, Rooted, Filed, NEW c \in Client, Commit(c), Files(c)
    PROVE  Rooted' /\ Filed'
<1>1. \A d \in Names : doc'[d] = Would(c, d)
    BY Committed
<1>2. \A d \in Names \ DOMAIN writes[c] : doc'[d] = doc[d]
    BY <1>1 DEF Would, Then
<1>3. Category \subseteq Names /\ "product" \in Names /\ "product" \notin Category
    BY NamesAssumption DEF Names, Singles
<1>4. doc["product"].in \subseteq Category
    BY Typed DEF ProductDoc
<1>5. ASSUME NEW k \in Category \cap DOMAIN writes[c] PROVE Rooted' /\ Filed'
  <2>1. FilesCategory(c, k)
    BY <1>5 DEF Files
  <2>2. /\ doc'[k] = Would(c, k) /\ doc'["product"] = doc["product"]
        /\ \A a \in Category \ {k} : doc'[a] = doc[a]
    BY <1>1, <1>2, <1>3, <2>1 DEF FilesCategory
  <2>3. Rooted'
    BY <2>1, <2>2, StaysRooted DEF FilesCategory
  <2>4. ASSUME NEW j \in doc["product"].in
        PROVE  /\ doc'[j].status # "absent"
               /\ doc["product"].status = "active" /\ There(j)' => "product" \in doc'[j].types
    <3>1. CASE j = k
        BY <2>1, <2>2, <2>4, <3>1 DEF FilesCategory, There
    <3>2. CASE j # k
        BY <1>4, <2>2, <2>4, <3>2 DEF Filed, There
    <3> QED  BY <3>1, <3>2
  <2> QED  BY <2>2, <2>3, <2>4 DEF Filed
<1>6. CASE Category \cap DOMAIN writes[c] = {}
  <2>1. \A k \in Category : doc'[k] = doc[k]
    BY <1>2, <1>3, <1>6
  <2>2. CASE "product" \notin DOMAIN writes[c]
    BY <1>2, <1>3, <2>1, <2>2, OrderSame
  <2>3. CASE "product" \in DOMAIN writes[c]
    <3>1. FilesProduct(c) /\ doc'["product"] = Would(c, "product")
        BY <1>1, <1>3, <2>3 DEF Files
    <3>2. Filed'
        BY <2>1, <3>1 DEF FilesProduct, Filed, There
    <3> QED  BY <2>1, <3>2, OrderSame
  <2> QED  BY <2>2, <2>3
<1> QED  BY <1>5, <1>6

LEMMA CataloguingKept ==
    ASSUME Shape, Documents, Drafts, Resting, Cataloguing, [Next]_vars
    PROVE  Cataloguing'
<1> DEFINE Fits(o) == (pc[o] = "open" => Files(o)) /\ (pc[o] = "ready" => Recalls(o))
           Order == Rooted /\ Filed /\ \A o \in Client : Fits(o)
<1>1. "crossed" \notin mishap => Order
    BY DEF Cataloguing
<1>2. ASSUME "crossed" \notin mishap' => Order' PROVE Cataloguing'
    BY <1>2 DEF Cataloguing
<1>3. ASSUME Uncatalogued, \A k \in Client : ~Commit(k), Order,
             \A o \in Client : Kept(o) \/ Fits(o)'
      PROVE  Order'
  <2>1. Rooted' /\ Filed'
    BY <1>3, OrderSame DEF Uncatalogued
  <2>2. ASSUME NEW o \in Client, Kept(o) PROVE Fits(o)'
    BY <1>3, <2>2, Lasting, FilesStay
  <2> QED  BY <1>3, <2>1, <2>2
<1>4. CASE Quiet /\ \A k \in Client : ~Commit(k)
  <2>1. mishap \subseteq mishap' /\ Uncatalogued /\ \A o \in Client : Kept(o)
    BY <1>4 DEF Quiet, Uncatalogued
  <2> HIDE DEF Order, Fits
  <2> QED  BY <1>1, <1>2, <1>3, <1>4, <2>1
<1>5. ASSUME NEW c \in Client, Opening(c), \A k \in Client : ~Commit(k) PROVE Cataloguing'
  <2>1. /\ mishap' = mishap /\ Uncatalogued /\ \A o \in Client \ {c} : Kept(o)
        /\ pc[c] = "ready"
    BY <1>5 DEF Opening, Uncatalogued
  <2>2. PICK w : Open(c, w)
    BY <1>5, OpensReady DEF Opening
  <2>3. pc'[c] = "open"
    BY <2>2, Opened
  <2>4. Order => Fits(c)'
    BY <1>5, <2>1, <2>3, FiledOpened
  <2> HIDE DEF Order, Fits
  <2> QED  BY <1>1, <1>2, <1>3, <1>5, <2>1, <2>4
<1>6. ASSUME NEW c \in Client, Cascading(c), \A k \in Client : ~Commit(k) PROVE Cataloguing'
  <2>1. /\ \A d \in Names \ Withdrawable : doc'[d] = doc[d]
        /\ mishap \subseteq mishap' /\ pc'[c] = "idle" /\ \A o \in Client \ {c} : Kept(o)
    BY <1>6, Cascaded DEF Cascading, Apart
  <2>2. Uncatalogued
    BY <2>1, NamesAssumption DEF Uncatalogued, Withdrawable, Names, Singles
  <2>3. Fits(c)'
    BY <2>1
  <2> HIDE DEF Order, Fits
  <2> QED  BY <1>1, <1>2, <1>3, <1>6, <2>1, <2>2, <2>3
<1>7. ASSUME NEW c \in Client, Commit(c), "crossed" \notin mishap' PROVE Order'
  <2>1. /\ \A d \in Names : doc'[d] = Would(c, d)
        /\ pc[c] = "open" /\ mishap \subseteq mishap'
    BY <1>7, Committed
  <2>2. Order /\ Files(c)
    BY <1>1, <1>7, <2>1
  <2>3. Rooted' /\ Filed'
    BY <1>7, <2>2, OrderCommitted
  <2>4. \A o \in Client \ {c} : pc'[o] = pc[o] /\ job'[o] = job[o] /\ writes'[o] = writes[o]
    <3>1. \/ Over(c)
          \/ \E w : Continue(c, "cascading", w) \/ Continue(c, "ready", w)
        BY <1>7 DEF Commit
    <3> QED  BY <3>1 DEF Over, Continue, Shape
  <2>5. ASSUME NEW o \in Client \ {c} PROVE Fits(o)'
    <3>1. CASE Op(c) \in CatalogOps
      <4>1. CASE pc[o] \notin {"open", "ready"}
        BY <2>4, <2>5, <4>1
      <4>2. CASE pc[o] \in {"open", "ready"} /\ Op(o) \in CatalogOps
        <5>1. job[o] # <<>>
            BY <4>2 DEF Shape
        <5>2. mishap' = mishap \cup Mishaps(c)
            BY <1>7 DEF Commit
        <5>3. writes[o] = Nothing
            BY <1>7, <2>5, <3>1, <4>2, <5>1, <5>2 DEF Mishaps, Op
        <5>4. DOMAIN writes'[o] = {}
            BY <2>4, <2>5, <5>3, NothingWritten
        <5> QED  BY <5>4 DEF Files, Recalls
      <4>3. CASE pc[o] \in {"open", "ready"} /\ Op(o) \notin CatalogOps
        <5>1. Op(o)' = Op(o)
            BY <2>4, <2>5 DEF Op
        <5>2. Recalls(o)'
            BY <4>3, <5>1 DEF Recalls, CatalogOps, ItemOps
        <5>3. ASSUME pc[o] = "open" PROVE Files(o)'
          <6>1. \A d \in DOMAIN writes[o] : MayWrite(Op(o), d)
            BY <5>3 DEF Drafts
          <6>2. DOMAIN writes[o] \cap (Category \cup {"product"}) = {}
            BY <4>3, <6>1 DEF MayWrite, CatalogOps, ItemOps
          <6> QED  BY <2>4, <2>5, <6>2 DEF Files
        <5> QED  BY <2>4, <2>5, <5>2, <5>3
      <4> QED  BY <4>1, <4>2, <4>3
    <3>2. CASE Op(c) \notin CatalogOps
      <4>1. \A d \in DOMAIN writes[c] : MayWrite(Op(c), d)
        BY <2>1 DEF Drafts
      <4>2. DOMAIN writes[c] \cap (Category \cup {"product"}) = {}
        BY <3>2, <4>1 DEF MayWrite, CatalogOps, ItemOps
      <4>3. Uncatalogued
        BY <2>1, <4>2 DEF Uncatalogued, Would, Then, Names, Singles
      <4> QED  BY <2>2, <2>4, <2>5, <4>3, CatalogSame
    <3> QED  BY <3>1, <3>2
  <2>6. Fits(c)'
    <3>1. \/ pc'[c] \notin {"open", "ready"}
          \/ pc'[c] = "ready" /\ writes'[c] = Nothing
          \/ pc'[c] = "ready" /\ writes'[c] = writes[c] /\ job'[c] = job[c]
      <4>1. \/ Over(c)
            \/ \E w : Continue(c, "cascading", w)
            \/ Continue(c, "ready", Nothing)
            \/ Continue(c, "ready", writes[c])
        BY <1>7 DEF Commit
      <4> QED  BY <4>1 DEF Over, Continue, Shape
    <3>2. CASE pc'[c] = "ready" /\ writes'[c] = Nothing
        BY <3>2, NothingWritten DEF Recalls
    <3>3. CASE pc'[c] = "ready" /\ writes'[c] = writes[c] /\ job'[c] = job[c]
      <4>1. ASSUME NEW k \in Category \cap DOMAIN writes[c],
                   Op(c) \in {"create product", "update product"}
            PROVE  "product" \in doc'[k].types
        <5>1. FilesCategory(c, k) /\ k \in Names
            BY <2>2, <4>1 DEF Files, Names
        <5> QED  BY <2>1, <4>1, <5>1 DEF FilesCategory
      <4> QED  BY <3>3, <4>1 DEF Recalls, Op
    <3> QED  BY <3>1, <3>2, <3>3
  <2> QED  BY <2>3, <2>5, <2>6
<1> HIDE DEF Order
<1>8. ASSUME NEW c \in Client, Commit(c) PROVE Cataloguing'
    BY <1>2, <1>7, <1>8
<1> QED  BY <1>4, <1>5, <1>6, <1>8, Steps DEF Committing

LEMMA CataloguingAtFirst == ASSUME Init PROVE Resting /\ Cataloguing
<1>1. PICK g \in Agendas : doc = g.doc
    BY DEF Init
<1>2. InOrder(doc)
    BY <1>1, AgendaAssumption
<1>3. \A c \in Client : pc[c] = "idle" /\ writes[c] = Nothing
    BY DEF Init, InitRequests
<1>4. ASSUME NEW k \in Category PROVE k \notin Above(k)
  <2>1. PICK S \in SUBSET (Category \ {k}) : \A a \in S \cup {k} : doc[a].parent \subseteq S
    BY <1>2 DEF InOrder
  <2> QED  BY <2>1, AboveLeast
<1>5. Filed
    BY <1>2 DEF InOrder, Filed, There
<1> QED  BY <1>3, <1>4, <1>5 DEF Resting, Cataloguing, Rooted

\* One change of a category, a product or a package at a time, or several of which none
\* is written while another is about to be, leave no category above itself and every
\* active product in a category for products, whatever moves are asked for.
THEOREM CatalogStaysInOrder == Spec => []CatalogInOrder
<1>1. Init => Sane /\ Resting /\ Cataloguing
    BY SaneAtFirst, CataloguingAtFirst
<1>2. Sane /\ Resting /\ Cataloguing /\ [Next]_vars => (Sane /\ Resting /\ Cataloguing)'
    BY SaneKept, RestingKept, CataloguingKept DEF Sane
<1>3. Cataloguing => CatalogInOrder
    BY DEF Cataloguing, Rooted, Filed, CatalogInOrder
<1> QED  BY <1>1, <1>2, <1>3, PTL DEF Spec
=============================================================================
