----------------------------- MODULE Backoffice -----------------------------
(***************************************************************************)
(* How a request of the back office changes MongoDB.                       *)
(*                                                                         *)
(* A change that matters for bookings is made under the configuration      *)
(* leases of the branches it touches; which those are is read before the   *)
(* leases are taken.  Under them the request reads, checks and fixes what  *)
(* it will write (Open), and writes it (Commit, in Administration).        *)
(*   - Most requests do so in a transaction on a snapshot; when one of     *)
(*     its documents has been written meanwhile, the driver runs the       *)
(*     transaction again.                                                  *)
(*   - Plain requests save one document, which fails when another save of  *)
(*     it came first.  Updates of many documents do not count as saves,    *)
(*     and Erasing requests delete it however it has changed.              *)
(*   - Some transactions do not look at their leases again before they     *)
(*     commit.                                                             *)
(*   - Requests about time off share the leases of the branches.           *)
(* A save writes the fields that changed and no others.  The last look at  *)
(* the leases and the write that follows it at once are one step.          *)
(***************************************************************************)
EXTENDS Integers, FiniteSets

CONSTANTS
    Admin,    \* administrators: they see every branch,
    Manager,  \* staff who see some,
    Own,      \* and the account of the employee themselves
    Granted,  \* Granted[c]: the branches c sees
    Branch    \* branches

Client == Admin \cup Manager \cup Own

Plain    == {"list branches", "read settings", "create service", "update service",
             "archive service", "create offer", "update offer", "create hours",
             "update hours", "archive hours", "assign", "unassign", "profile",
             "create category", "update category", "archive category",
             "create product", "update product", "archive product",
             "create package", "update package", "switch package", "archive package",
             "create term", "update term", "learn", "unlearn"}
Erasing  == {"archive service", "archive category", "archive product", "archive package"}
Careless == {"create shift", "update shift", "archive shift",
             "create resource", "update resource", "delete resource"}
Sharing  == {"take off", "withdraw", "approve", "reject", "call off"}

\* What is leased: branches and, for time off, the employee.
Key == Branch \cup {"time off"}

ASSUME BackofficeAssumption ==
    /\ Admin \cap Manager = {} /\ Admin \cap Own = {} /\ Manager \cap Own = {}
    /\ IsFiniteSet(Branch)
    /\ Granted \in [Client -> SUBSET Branch]

VARIABLES
    asks,    \* asks[c]: the requests c makes, chosen at the start
    doc,     \* MongoDB: every document, by name
    lease,   \* Redis: the holders of every lease
    pc,      \* where each request is: idle, asked, ready, open, cascading
    job,     \* its input
    keys,    \* the leases it needs
    writes,  \* what its transaction will write: some fields of some documents
    stale,   \* another write has come between it and what it read
    mishap   \* history: what has gone wrong that the code does not prevent

vars == <<asks, doc, lease, pc, job, keys, writes, stale, mishap>>
requests == <<pc, job, keys, writes, stale>>

-----------------------------------------------------------------------------
(* Writes *)

Nothing   == [d \in {} |-> 0]
Put(d, v) == [x \in {d} |-> v]

\* Two sets of writes of different documents.
Both(f, g) == [d \in DOMAIN f \cup DOMAIN g |-> IF d \in DOMAIN f THEN f[d] ELSE g[d]]

\* Saving a document none of whose fields changes sends no write.
Save(d, v) ==
    LET changed == {f \in DOMAIN v : v[f] # doc[d][f]} IN
    IF changed = {} THEN Nothing ELSE Put(d, [f \in changed |-> v[f]])

\* The documents once w is written.
After(w) ==
    [d \in DOMAIN doc |->
        IF d \notin DOMAIN w THEN doc[d]
        ELSE [f \in DOMAIN doc[d] |-> IF f \in DOMAIN w[d] THEN w[d][f] ELSE doc[d][f]]]

\* Whom the writes of the documents ds conflict with, all but bulk being saves.
Conflicts(c, ds, bulk) ==
    [o \in Client |->
        \/ o # c /\ stale[o]
        \/ /\ o # c
           /\ pc[o] = "open"
           /\ DOMAIN writes[o] \cap (IF job[o][1].op \in Plain THEN ds \ bulk ELSE ds) # {}]

-----------------------------------------------------------------------------
(* Steps of a request *)

Arrive(c, r, affected) ==
    /\ pc[c] = "idle"
    /\ pc' = [pc EXCEPT ![c] = IF affected = {} THEN "ready" ELSE "asked"]
    /\ job' = [job EXCEPT ![c] = <<r>>]
    /\ keys' = [keys EXCEPT ![c] = affected]
    /\ UNCHANGED <<asks, doc, lease, writes, stale, mishap>>

\* Readers share the lease of a branch; nobody shares with a writer.
Compatible(c, o, k) ==
    k \in Branch /\ job[c][1].op \in Sharing /\ job[o][1].op \in Sharing

\* All leases or, when one is taken, none: see Fail.
Lease(c) ==
    /\ pc[c] = "asked"
    /\ \A k \in keys[c] : \A o \in lease[k] : Compatible(c, o, k)
    /\ lease' = [k \in Key |-> IF k \in keys[c] THEN lease[k] \cup {c} ELSE lease[k]]
    /\ pc' = [pc EXCEPT ![c] = "ready"]
    /\ UNCHANGED <<asks, doc, job, keys, writes, stale, mishap>>

\* The holder is slow or its process died: the lease runs out.
Lapse(k) ==
    \E c \in lease[k] :
        /\ lease' = [lease EXCEPT ![k] = @ \ {c}]
        /\ UNCHANGED <<asks, doc, requests, mishap>>

\* Request c has passed its checks and will write w.
Open(c, w) ==
    /\ pc[c] = "ready"
    /\ pc' = [pc EXCEPT ![c] = "open"]
    /\ writes' = [writes EXCEPT ![c] = w]
    /\ UNCHANGED <<asks, doc, job, keys, stale, lease, mishap>>

\* assertValid, the last thing under leases before the write.
Valid(c) == \A k \in keys[c] : c \in lease[k]

Over(c) ==
    /\ pc' = [pc EXCEPT ![c] = "idle"]
    /\ job' = [job EXCEPT ![c] = <<>>]
    /\ keys' = [keys EXCEPT ![c] = {}]
    /\ writes' = [writes EXCEPT ![c] = Nothing]
    /\ lease' = [k \in Key |-> lease[k] \ {c}]

\* The request goes on after its first write; w is what it remembers.
Continue(c, step, w) ==
    /\ pc' = [pc EXCEPT ![c] = step]
    /\ writes' = [writes EXCEPT ![c] = w]
    /\ UNCHANGED <<job, keys, lease>>

\* A write conflict: the driver runs the transaction again, under the same leases.
Retry(c) ==
    /\ pc[c] = "open"
    /\ stale[c]
    /\ job[c][1].op \notin Plain
    /\ pc' = [pc EXCEPT ![c] = "ready"]
    /\ writes' = [writes EXCEPT ![c] = Nothing]
    /\ stale' = [stale EXCEPT ![c] = FALSE]
    /\ UNCHANGED <<asks, doc, job, keys, lease, mishap>>

\* The request is refused or fails: a lease, a check, an index, the database.
Fail(c) ==
    /\ pc[c] # "idle"
    /\ stale' = [stale EXCEPT ![c] = FALSE]
    /\ mishap' = mishap \cup IF pc[c] = "cascading" THEN {"torn"} ELSE {}
    /\ Over(c)
    /\ UNCHANGED <<asks, doc>>

InitRequests ==
    /\ lease = [k \in Key |-> {}]
    /\ pc = [c \in Client |-> "idle"]
    /\ job = [c \in Client |-> <<>>]
    /\ keys = [c \in Client |-> {}]
    /\ writes = [c \in Client |-> Nothing]
    /\ stale = [c \in Client |-> FALSE]
    /\ mishap = {}
=============================================================================
