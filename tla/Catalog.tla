------------------------------ MODULE Catalog -------------------------------
(***************************************************************************)
(* What the salon sells besides services: products, and packages of        *)
(* services and products, both in categories that form trees.              *)
(*                                                                         *)
(* Nothing here is leased, nothing is in a transaction, and what is        *)
(* archived is deleted.  A category says which types of items it is for; an *)
(* item of another type adds its type to the category, by a write of its   *)
(* own, before it is checked and saved.                                    *)
(*                                                                         *)
(* One product and one package are enough.  The service is in a category   *)
(* as they are, which is left out, and so are names, prices, quantities    *)
(* and the limit of a hundred categories above one another.                *)
(***************************************************************************)
EXTENDS Premises

CONSTANT Category

Type == {"service", "product", "package"}

NoCategory == [status |-> "absent", parent |-> {}, types |-> {}]
NoProduct  == [status |-> "absent", in |-> {}, at |-> {}]
NoPackage  == [status |-> "absent", in |-> {}, at |-> {}, with |-> {}]

There(d) == doc[d].status \in {"active", "inactive"}

CategoryOps == {"create category", "update category", "archive category"}
ItemOps     == {"create product", "update product", "archive product",
                "create package", "update package", "switch package", "archive package"}
CatalogOps  == CategoryOps \cup ItemOps

\* Only those who see every branch change the catalog.
CatalogAdmitted(c, r) == c \in Admin

-----------------------------------------------------------------------------
(* Categories *)

\* The categories above k: the least set with the parents of k and of all in it.
Above(k) ==
    LET uppers == {S \in SUBSET Category : \A a \in S \cup {k} : doc[a].parent \subseteq S}
    IN  {a \in Category : \A S \in uppers : a \in S}

\* The parent is looked at, but not those above it.
ParentNearby(ks, p) == p \notin ks /\ There(p)

\* assertCategoryParent: p, all the way up, for the category ks (none: a new one).
Parent(ks, p) ==
    LET chain == {p} \cup Above(p) IN
    /\ chain \cap ks = {}
    /\ \A a \in chain : There(a) /\ a \notin Above(a)

\* assertCategoryTypesMayChange: no active item of another type is in k.
TypesMayChange(k, types) ==
    \A t \in {"product", "package"} \ types : ~(doc[t].status = "active" /\ k \in doc[t].in)

CreateCategory(c, r) ==
    LET active == Given(r.active, TRUE) IN
    /\ r.op = "create category"
    /\ doc[r.category] = NoCategory
    /\ \A p \in r.parent : Parent({}, p) /\ (active => doc[p].status = "active")
    /\ Open(c, Put(r.category, [status |-> Status(active), parent |-> r.parent,
                                types |-> r.types]))

\* The parent stays when r.keep; no types: they stay.  When the parent is taken
\* away or the category is not active, nobody looks whether one is active.
UpdateCategory(c, r) ==
    LET old    == doc[r.category]
        active == Given(r.active, old.status = "active")
        parent == IF r.keep THEN old.parent ELSE r.parent
        types  == IF r.types = {} THEN old.types ELSE r.types
    IN
    /\ r.op = "update category"
    /\ There(r.category)
    /\ ~r.keep => \A p \in r.parent : Parent({r.category}, p)
    /\ r.types # {} => TypesMayChange(r.category, r.types)
    /\ active => \A p \in parent : doc[p].status = "active"
    /\ Open(c, Save(r.category, [status |-> Status(active), parent |-> parent, types |-> types]))

\* What is in the category stays, and the categories below it.
ArchiveCategory(c, r) ==
    /\ r.op = "archive category"
    /\ There(r.category)
    /\ Open(c, Put(r.category, [status |-> "gone", parent |-> {}]))

-----------------------------------------------------------------------------
(* Products and packages *)

\* The item d as the request leaves it: in another category and at other branches
\* if it names some; at none stands for all.
Left(d, r) ==
    [status |-> Status(Given(r.active, doc[d].status # "inactive")),
     in |-> IF r.category = {} THEN doc[d].in ELSE r.category,
     at |-> IF r.everywhere THEN {} ELSE IF r.branches = {} THEN doc[d].at ELSE r.branches]

Saving == [product |-> {"create product", "update product"},
           package |-> {"create package", "update package"}]

\* requireCategory, first: the category is extended by the type, even when the
\* request is refused then.  The request remembers it.
Extend(c, r) ==
    \E d \in DOMAIN Saving :
        /\ r.op \in Saving[d]
        /\ writes[c] = Nothing
        /\ \E k \in Left(d, r).in :
             /\ There(k)
             /\ d \notin doc[k].types
             /\ Open(c, Put(k, [types |-> doc[k].types \cup {d}]))

\* requireCategory, then, and requireBranches: the item new is of type d.
Placed(c, d, new) ==
    /\ \A k \in new.in :
         /\ There(k)
         /\ d \in doc[k].types \/ k \in DOMAIN writes[c]
         /\ new.status = "active" => doc[k].status = "active"
    /\ new.at \subseteq IF new.status = "active" THEN Active ELSE Branches

CreateProduct(c, r) ==
    LET new == Left("product", r) IN
    /\ r.op = "create product"
    /\ doc.product = NoProduct
    /\ Placed(c, "product", new)
    /\ Open(c, Put("product", new))

UpdateProduct(c, r) ==
    LET new == Left("product", r) IN
    /\ r.op = "update product"
    /\ There("product")
    /\ Placed(c, "product", new)
    /\ Open(c, Save("product", new))

ArchiveProduct(c, r) ==
    /\ r.op = "archive product"
    /\ There("product")
    /\ Open(c, Put("product", [status |-> "gone"]))

\* validatePackageInput: a package is of the service and perhaps the product.
Packable(c, new) ==
    /\ Placed(c, "package", new)
    /\ \A d \in {"service"} \cup new.with :
         There(d) /\ (new.status = "active" => doc[d].status = "active")

\* The package as the request leaves it.
Packed(r) ==
    LET new == Left("package", r) IN
    [status |-> new.status, in |-> new.in, at |-> new.at, with |-> r.with]

CreatePackage(c, r) ==
    /\ r.op = "create package"
    /\ doc.package = NoPackage
    /\ Packable(c, Packed(r))
    /\ Open(c, Put("package", Packed(r)))

UpdatePackage(c, r) ==
    /\ r.op = "update package"
    /\ There("package")
    /\ Packable(c, Packed(r))
    /\ Open(c, Save("package", Packed(r)))

\* When the request says only whether the package is active, nothing is checked.
SwitchPackage(c, r) ==
    /\ r.op = "switch package"
    /\ There("package")
    /\ Open(c, Save("package", [status |-> Status(r.active = "on")]))

ArchivePackage(c, r) ==
    /\ r.op = "archive package"
    /\ There("package")
    /\ Open(c, Put("package", [status |-> "gone"]))

CatalogOperation(c, r) ==
    \/ CreateCategory(c, r)
    \/ UpdateCategory(c, r)
    \/ ArchiveCategory(c, r)
    \/ Extend(c, r)
    \/ CreateProduct(c, r)
    \/ UpdateProduct(c, r)
    \/ ArchiveProduct(c, r)
    \/ CreatePackage(c, r)
    \/ UpdatePackage(c, r)
    \/ SwitchPackage(c, r)
    \/ ArchivePackage(c, r)
=============================================================================
