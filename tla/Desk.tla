-------------------------------- MODULE Desk --------------------------------
(***************************************************************************)
(* The front desk: inquiries with their quotes, and the waitlist.          *)
(*                                                                         *)
(* Customers ask for an offer and staff answer with quotes, each revision  *)
(* replacing the one before; the customer accepts one, which books the     *)
(* appointment at once or leaves the scheduling to staff.  A customer who  *)
(* finds no slot waits; staff offer an opening for some time and the       *)
(* customer books it.  The lifecycle worker closes what has run out.       *)
(*                                                                         *)
(* Each operation is one MongoDB transaction on a snapshot: its action     *)
(* here reads the documents, checks them and fixes what it will write      *)
(* (Open); Commit writes it unless another transaction has written one of  *)
(* the same documents meanwhile, which makes the driver run the operation  *)
(* again.  Mongoose sends no write for a document that is saved unchanged, *)
(* so such a save takes part in no conflict.                               *)
(*                                                                         *)
(* Requests come without end: a client whose request is over makes another *)
(* one.  The branch, the lines and the money of a quote are left out, as   *)
(* are the notes, events and audit records, which ride on the same         *)
(* transactions; what a refused request does is nothing.                   *)
(***************************************************************************)
EXTENDS Integers, FiniteSets, FiniteSetsExt

CONSTANTS
    Customer,     \* processes that serve requests of customers,
    Staff,        \*   and requests of staff
    QuoteWorker,  \* the lifecycle worker, expiring quotes
    EntryWorker,  \* the lifecycle worker, expiring waitlist entries
    Inquiry,      \* the documents of the three collections: inquiries,
    Quote,        \*   the quotes createQuote can make,
    Entry,        \*   waitlist entries
    Of,           \* Of[q]: the inquiry of quote q
    ByHand,       \* the statuses staff set an inquiry to by hand
    Drafted,      \* the quotes kept as a draft first, not sent at once
    Schedulable,  \* the quotes that propose one service, employee, start, end
    Validity,     \* how long a quote is valid
    WindowEnd,    \* WindowEnd[e]: windowEndAt of a waitlist entry
    Past,         \* what may have been closed already: sets of documents
    Horizon,      \* the last instant
    NoOne         \* owner of a free lock

Doc  == Inquiry \cup Quote \cup Entry
Client == Customer \cup Staff
Proc == Client \cup {QuoteWorker, EntryWorker}
Time == 0 .. Horizon

InquiryStatus == {"absent", "new", "reviewing", "quoted", "accepted",
                  "declined", "expired", "cancelled", "removed"}
QuoteStatus   == {"absent", "draft", "sent", "accepted", "rejected", "expired",
                  "superseded", "removed"}
EntryStatus   == {"absent", "waiting", "offered", "booked", "expired", "cancelled"}

\* The operations that hold a Redis lock, and the locks: createQuote locks the
\* inquiry, acceptQuote and scheduleAcceptedQuote the quote, each for itself.
Locking == {"quote", "accept", "schedule"}
LockKey == ({"quote"} \X Inquiry) \cup ({"accept", "schedule"} \X Quote)

ASSUME DocumentAssumption ==
    /\ Inquiry \cap Quote = {} /\ Inquiry \cap Entry = {} /\ Quote \cap Entry = {}
    /\ IsFiniteSet(Quote)
    /\ Of \in [Quote -> Inquiry]
    /\ Drafted \subseteq Quote
    /\ Schedulable \subseteq Quote
    /\ Past \subseteq SUBSET (Inquiry \cup Entry)
    /\ ByHand \subseteq InquiryStatus \ {"absent", "removed"}

ASSUME ProcessAssumption ==
    /\ QuoteWorker # EntryWorker
    /\ Client \cap {QuoteWorker, EntryWorker} = {}
    /\ NoOne \notin Client

ASSUME TimeAssumption ==
    /\ Horizon \in Nat
    /\ Validity \in Nat \ {0}
    /\ WindowEnd \in [Entry -> Time]

VARIABLES
    now,     \* the clock
    doc,     \* MongoDB: the documents
    booked,  \* MongoDB: the bookings made of every quote and entry
    lock,    \* Redis: the owner of every lock
    pc,      \* where each process is: idle, ready for a transaction, in one
    job,     \* its operation and the document it is about
    writes,  \* what its transaction will write
    stale,   \* its transaction conflicts with one that has committed
    began,   \* history: when its transaction began, if a deadline matters to it
    edited,  \* history: inquiries whose status staff have set by hand
    purged   \* history: inquiries some quote of which staff have deleted

vars == <<now, doc, booked, lock, pc, job, writes, stale, began, edited, purged>>

-----------------------------------------------------------------------------
(* Documents *)

Record == [status : InquiryStatus \cup QuoteStatus \cup EntryStatus,
           rev    : Nat,
           until  : Nat]

Closed(s) == [status |-> s, rev |-> 0, until |-> 0]
Absent    == Closed("absent")

QuotesOf(i) == {q \in Quote : Of[q] = i}
Stored(q)   == doc[q].status \notin {"absent", "removed"}
Alive(q)    == doc[q].status \in {"draft", "sent"}
InTime(d)   == doc[d].until > now

\* inquiry.status of an inquiry that may still be quoted or declined.
Quotable(i) == doc[i].status \in {"new", "reviewing", "quoted"}

Nothing      == [d \in {} |-> Absent]
\* The new status s of document d; a deadline matters while an offer is open.
Turned(d, s) == [doc[d] EXCEPT !.status = s, !.until = IF s = "sent" THEN @ ELSE 0]
Put(d, s)    == [x \in {d} |-> Turned(d, s)]
Drop(D)      == [x \in D |-> Closed("removed")]
PutAll(D, s) == [x \in D |-> Turned(x, s)]

\* Two sets of writes of one transaction, of different documents.
Both(f, g) == [d \in DOMAIN f \cup DOMAIN g |-> IF d \in DOMAIN f THEN f[d] ELSE g[d]]

\* What saving inquiry i with status s sends: nothing when no field changes,
\* and the assignee or a note may change when the status does not.
Saves(i, s) == {Put(i, s)} \cup (IF doc[i].status = s THEN {Nothing} ELSE {})

\* updateMany of the drafts and sent quotes of an inquiry.
Superseded(i, but) == PutAll({q \in QuotesOf(i) \ but : Alive(q)}, "superseded")

-----------------------------------------------------------------------------
(* Transactions *)

NoJob == <<"none", NoOne>>

\* The operations that look at a deadline of the customer's.
Timed == {"send", "accept", "book"}

Free(p) ==
    /\ pc' = [pc EXCEPT ![p] = "idle"]
    /\ job' = [job EXCEPT ![p] = NoJob]

\* Process p opens a transaction of operation o on document d that has
\* passed its checks and will write w.
Open(p, o, d, w) ==
    /\ \/ pc[p] = "idle" /\ o \notin Locking
       \/ pc[p] = "ready" /\ job[p] = <<o, d>>
    /\ pc' = [pc EXCEPT ![p] = "open"]
    /\ job' = [job EXCEPT ![p] = <<o, d>>]
    /\ writes' = [writes EXCEPT ![p] = w]
    /\ stale' = [stale EXCEPT ![p] = FALSE]
    /\ began' = [began EXCEPT ![p] = IF o \in Timed THEN now ELSE 0]
    /\ UNCHANGED <<now, doc, booked, lock, edited, purged>>

\* The operations that create a booking.
Books(p) == \/ job[p][1] = "accept" /\ job[p][2] \in Schedulable
            \/ job[p][1] \in {"schedule", "book"}

\* The unique indexes without the one on the quote of a booking.
QuoteIndexesHold(p) ==
    \A q \in DOMAIN writes[p] \cap Quote, r \in Quote \ DOMAIN writes[p] :
        Of[q] = Of[r] /\ Stored(r) /\ writes[p][q].status # "removed" =>
            /\ writes[p][q].rev # doc[r].rev
            /\ ~(writes[p][q].status = "accepted" /\ doc[r].status = "accepted")

\* The unique indexes: one revision number per inquiry, one accepted quote
\* per inquiry, one booking per quote.
IndexesHold(p) ==
    /\ \A q \in DOMAIN writes[p] \cap Quote, r \in Quote \ DOMAIN writes[p] :
         Of[q] = Of[r] /\ Stored(r) /\ writes[p][q].status # "removed" =>
            /\ writes[p][q].rev # doc[r].rev
            /\ ~(writes[p][q].status = "accepted" /\ doc[r].status = "accepted")
    /\ Books(p) /\ job[p][2] \in Quote => booked[job[p][2]] = 0

Unlock(p) == lock' = [k \in LockKey |-> IF lock[k] = p THEN NoOne ELSE lock[k]]

Commit(p) ==
    /\ pc[p] = "open"
    /\ ~stale[p]
    /\ IndexesHold(p)
    /\ doc' = [d \in Doc |-> IF d \in DOMAIN writes[p] THEN writes[p][d] ELSE doc[d]]
    /\ booked' = IF Books(p) THEN [booked EXCEPT ![job[p][2]] = @ + 1] ELSE booked
    /\ stale' = [r \in Proc |->
         \/ stale[r]
         \/ pc[r] = "open" /\ r # p /\ DOMAIN writes[r] \cap DOMAIN writes[p] # {}]
    /\ edited' = edited \cup {i \in Inquiry : job[p] = <<"edit", i>>}
    /\ purged' = purged \cup {Of[q] : q \in {r \in Quote \cap DOMAIN writes[p] :
                                               writes[p][r].status = "removed"}}
    /\ writes' = [writes EXCEPT ![p] = Nothing]
    /\ began' = [began EXCEPT ![p] = 0]
    /\ Free(p)
    /\ Unlock(p)
    /\ UNCHANGED now

\* A write conflict or a duplicate key: the driver runs the operation again,
\* which without a lock is to begin anew.
Retry(p) ==
    /\ pc[p] = "open"
    /\ stale[p] \/ ~IndexesHold(p)
    /\ writes' = [writes EXCEPT ![p] = Nothing]
    /\ began' = [began EXCEPT ![p] = 0]
    /\ stale' = [stale EXCEPT ![p] = FALSE]
    /\ IF job[p][1] \in Locking
       THEN pc' = [pc EXCEPT ![p] = "ready"] /\ UNCHANGED job
       ELSE Free(p)
    /\ UNCHANGED <<now, doc, booked, lock, edited, purged>>

\* The operation is refused or fails: a check, the slots, the database.
Fail(p) ==
    /\ pc[p] # "idle"
    /\ writes' = [writes EXCEPT ![p] = Nothing]
    /\ began' = [began EXCEPT ![p] = 0]
    /\ stale' = [stale EXCEPT ![p] = FALSE]
    /\ Free(p)
    /\ Unlock(p)
    /\ UNCHANGED <<now, doc, booked, edited, purged>>

\* A request that holds a lock is slow or its process died: the lock runs out.
Lapse(k) ==
    /\ lock[k] # NoOne
    /\ lock' = [lock EXCEPT ![k] = NoOne]
    /\ UNCHANGED <<now, doc, booked, pc, job, writes, stale, began, edited, purged>>

\* Request p of operation o on document d takes the lock of document x.
Take(p, o, d, x) ==
    /\ pc[p] = "idle"
    /\ lock[<<o, x>>] = NoOne
    /\ lock' = [lock EXCEPT ![<<o, x>>] = p]
    /\ pc' = [pc EXCEPT ![p] = "ready"]
    /\ job' = [job EXCEPT ![p] = <<o, d>>]
    /\ UNCHANGED <<now, doc, booked, writes, stale, began, edited, purged>>

-----------------------------------------------------------------------------
(* Inquiries *)

CreateInquiry(p, i) ==
    /\ doc[i].status = "absent"
    /\ Open(p, "create", i, Put(i, "new"))

\* The customer withdraws; offers still open go with the inquiry.
CancelInquiry(p, i) ==
    /\ Quotable(i)
    /\ Open(p, "cancel", i, Both(Put(i, "cancelled"), Superseded(i, {})))

RejectInquiry(p, i) ==
    /\ Quotable(i)
    /\ Open(p, "reject", i, Both(Put(i, "declined"), Superseded(i, {})))

ReviewInquiry(p, i) ==
    /\ Quotable(i)
    /\ \E w \in Saves(i, "reviewing") : Open(p, "review", i, w)

\* Staff may set any status of the schema at any time.
UpdateInquiry(p, i) ==
    /\ doc[i].status \notin {"absent", "removed"}
    /\ \E s \in ByHand :
         \E w \in Saves(i, s) : Open(p, "edit", i, w)

RemoveInquiry(p, i) ==
    /\ doc[i].status \notin {"absent", "removed"}
    /\ Open(p, "remove", i,
            Drop({i} \cup {q \in QuotesOf(i) : Stored(q)}))

-----------------------------------------------------------------------------
(* Quotes *)

\* Every request makes a document of its own.
LockInquiry(p, q) ==
    /\ doc[q].status = "absent"
    /\ \A r \in Client : job[r] # <<"quote", q>>
    /\ Take(p, "quote", q, Of[q])

NextRevision(i) == 1 + Max({0} \cup {doc[r].rev : r \in {r \in QuotesOf(i) : Stored(r)}})

\* Quote q of inquiry i, sent at once or kept as a draft; w saves the inquiry.
NewQuote(i, q, w) ==
    Both([x \in {q} |-> [status |-> IF q \in Drafted THEN "draft" ELSE "sent",
                         rev |-> NextRevision(i), until |-> now + Validity]],
         w)

InquiryWithQuote(q) == IF q \in Drafted THEN "reviewing" ELSE "quoted"

\* A quote beside the offers before it.
CreateQuoteBeside(p, q) ==
    /\ Quotable(Of[q])
    /\ \E w \in Saves(Of[q], InquiryWithQuote(q)) :
         Open(p, "quote", q, NewQuote(Of[q], q, w))

\* A quote replaces the offers before it; sent at once it makes the inquiry
\* quoted, kept as a draft it leaves it in review.
CreateQuote(p, q) ==
    /\ Quotable(Of[q])
    /\ \E w \in Saves(Of[q], InquiryWithQuote(q)) :
         Open(p, "quote", q, NewQuote(Of[q], q, Both(Superseded(Of[q], {q}), w)))

\* On a draft that has run out sendQuote saves the expiry and then throws,
\* which takes the expiry back: nothing is written.
SendQuote(p, q) ==
    LET i == Of[q] IN
    /\ doc[q].status = "draft"
    /\ InTime(q)
    /\ Quotable(i)
    /\ \E w \in Saves(i, "quoted") : Open(p, "send", q, Both(Put(q, "sent"), w))

BackToReview(i) == IF doc[i].status = "quoted" THEN Put(i, "reviewing") ELSE Nothing

ExpireQuote(p, q) ==
    /\ Alive(q)
    /\ Open(p, "expire", q, Both(Put(q, "expired"), BackToReview(Of[q])))

RejectQuote(p, q) ==
    /\ doc[q].status = "sent"
    /\ doc[Of[q]].status \notin {"absent", "removed"}
    /\ \E w \in Saves(Of[q], "reviewing") :
         Open(p, "rejectQuote", q, Both(Put(q, "rejected"), w))

RemoveQuote(p, q) ==
    /\ Stored(q)
    /\ Open(p, "removeQuote", q, Drop({q}))

\* Before the lock and again under it the quote must be sent and in time.
LockAcceptance(p, q) ==
    /\ doc[q].status = "sent"
    /\ InTime(q)
    /\ Take(p, "accept", q, q)

\* The slots of a schedulable quote have been locked and checked by now.
AcceptQuote(p, q) ==
    LET i == Of[q] IN
    /\ doc[q].status = "sent"
    /\ InTime(q)
    /\ doc[i].status \in {"quoted", "reviewing"}
    /\ \A r \in QuotesOf(i) \ {q} : doc[r].status # "accepted"
    /\ Open(p, "accept", q,
            Both(Put(q, "accepted"), Both(Put(i, "accepted"), Superseded(i, {q}))))

Schedulability(q) ==
    /\ booked[q] = 0
    /\ doc[q].status = "accepted"
    /\ doc[Of[q]].status = "accepted"

\* Checked under the lock; a booking found then is returned again.
LockScheduling(p, q) == Schedulability(q) /\ Take(p, "schedule", q, q)

\* The transaction reads quote and inquiry and writes neither.
ScheduleQuote(p, q) == Schedulability(q) /\ Open(p, "schedule", q, Nothing)

-----------------------------------------------------------------------------
(* The waitlist *)

Join(p, e) ==
    /\ doc[e].status = "absent"
    /\ WindowEnd[e] > now
    /\ Open(p, "join", e, Put(e, "waiting"))

Leave(p, e) ==
    /\ doc[e].status \in {"waiting", "offered"}
    /\ Open(p, "leave", e, [x \in {e} |-> Closed("cancelled")])

Offered(e, until) ==
    [x \in {e} |-> [doc[e] EXCEPT !.status = "offered", !.until = until]]

\* An offer that may outlast the window.
OfferBeyond(p, e) ==
    /\ doc[e].status = "waiting"
    /\ WindowEnd[e] > now
    /\ \E until \in now + 1 .. Horizon + 1 : Open(p, "offer", e, Offered(e, until))

\* The offer ends with the window at the latest.
Offer(p, e) ==
    /\ doc[e].status = "waiting"
    /\ WindowEnd[e] > now
    /\ \E until \in now + 1 .. Horizon + 1 :
         until <= WindowEnd[e] /\ Open(p, "offer", e, Offered(e, until))

\* A booking that does not ask whether the offer still runs.
BookEntryAnyTime(p, e) ==
    /\ doc[e].status \in {"waiting", "offered"}
    /\ Open(p, "book", e, [x \in {e} |-> Closed("booked")])

\* bookingService.create with a waitlistEntryId, its slots locked.  An offer
\* must still run; nobody asks for the window of a waiting entry.
BookEntry(p, e) ==
    /\ \/ doc[e].status = "waiting"
       \/ doc[e].status = "offered" /\ InTime(e)
    /\ Open(p, "book", e, [x \in {e} |-> Closed("booked")])

-----------------------------------------------------------------------------
(* The lifecycle worker *)

DueQuote(q) == Alive(q) /\ ~InTime(q)

DueEntry(e) ==
    \/ doc[e].status = "offered" /\ ~InTime(e)
    \/ doc[e].status \in {"waiting", "offered"} /\ WindowEnd[e] <= now

\* Drafts are left alone.
LapseQuoteSent(p, q) ==
    /\ DueQuote(q)
    /\ doc[q].status = "sent"
    /\ Open(p, "lapse", q, Both(Put(q, "expired"), BackToReview(Of[q])))

\* The inquiry goes back to review unless another offer is open.
LapseQuote(p, q) ==
    /\ DueQuote(q)
    /\ Open(p, "lapse", q,
            Both(Put(q, "expired"),
                 IF \E r \in QuotesOf(Of[q]) \ {q} : doc[r].status = "sent" /\ InTime(r)
                 THEN Nothing
                 ELSE BackToReview(Of[q])))

LapseEntry(p, e) ==
    /\ DueEntry(e)
    /\ Open(p, "lapse", e, [x \in {e} |-> Closed("expired")])

-----------------------------------------------------------------------------
(* The specification *)

Tick ==
    /\ now < Horizon
    /\ now' = now + 1
    /\ UNCHANGED <<doc, booked, lock, pc, job, writes, stale, began, edited, purged>>

Init ==
    /\ now = 0
    /\ \E past \in Past :
         doc = [d \in Doc |-> IF d \notin past THEN Absent
                              ELSE IF d \in Entry THEN Closed("cancelled")
                              ELSE Closed("removed")]
    /\ booked = [d \in Quote \cup Entry |-> 0]
    /\ lock = [k \in LockKey |-> NoOne]
    /\ pc = [p \in Proc |-> "idle"]
    /\ job = [p \in Proc |-> NoJob]
    /\ writes = [p \in Proc |-> Nothing]
    /\ stale = [p \in Proc |-> FALSE]
    /\ began = [p \in Proc |-> 0]
    /\ edited = {}
    /\ purged = {}

\* Staff ask for a customer too, cancel and decline for nobody but the salon.
CustomerStep(p) ==
    \/ \E i \in Inquiry : CreateInquiry(p, i) \/ CancelInquiry(p, i)
    \/ \E q \in Quote : RejectQuote(p, q) \/ LockAcceptance(p, q) \/ AcceptQuote(p, q)
    \/ \E e \in Entry : Join(p, e) \/ Leave(p, e) \/ BookEntry(p, e)

StaffStep(p) ==
    \/ \E i \in Inquiry :
         \/ CreateInquiry(p, i)
         \/ RejectInquiry(p, i)
         \/ ReviewInquiry(p, i)
         \/ UpdateInquiry(p, i)
         \/ RemoveInquiry(p, i)
    \/ \E q \in Quote :
         \/ LockInquiry(p, q)
         \/ CreateQuote(p, q)
         \/ SendQuote(p, q)
         \/ ExpireQuote(p, q)
         \/ RemoveQuote(p, q)
         \/ LockScheduling(p, q)
         \/ ScheduleQuote(p, q)
    \/ \E e \in Entry : Join(p, e) \/ Leave(p, e) \/ BookEntry(p, e) \/ Offer(p, e)

Sweep ==
    \/ \E q \in Quote : LapseQuote(QuoteWorker, q)
    \/ \E e \in Entry : LapseEntry(EntryWorker, e)

Next ==
    \/ Tick
    \/ \E p \in Customer : CustomerStep(p)
    \/ \E p \in Staff : StaffStep(p)
    \/ Sweep
    \/ \E p \in Proc : Commit(p) \/ Retry(p) \/ Fail(p)
    \/ \E k \in LockKey : Lapse(k)

Spec == Init /\ [][Next]_vars

\* The worker keeps sweeping, and a transaction it runs again and again is
\* not beaten by the same clients for ever.
FairSpec ==
    /\ Spec
    /\ WF_vars(\E q \in Quote : LapseQuote(QuoteWorker, q))
    /\ WF_vars(\E e \in Entry : LapseEntry(EntryWorker, e))
    /\ \A p \in {QuoteWorker, EntryWorker} : WF_vars(Retry(p)) /\ SF_vars(Commit(p))

-----------------------------------------------------------------------------
(* Properties *)

\* Every document has a status of its schema, and an offer to a waiting customer
\* never outlasts the window the customer asked for.
TypeOK ==
    /\ now \in Time
    /\ doc \in [Doc -> Record]
    /\ \A i \in Inquiry : doc[i].status \in InquiryStatus
    /\ \A q \in Quote : doc[q].status \in QuoteStatus
    /\ \A e \in Entry : doc[e].status \in EntryStatus /\ doc[e].until <= WindowEnd[e]
    /\ booked \in [Quote \cup Entry -> Nat]
    /\ lock \in [LockKey -> Client \cup {NoOne}]
    /\ pc \in [Proc -> {"idle", "ready", "open"}]
    /\ \A p \in Proc : writes[p] \in [DOMAIN writes[p] -> Record] /\ DOMAIN writes[p] \subseteq Doc
    /\ stale \in [Proc -> BOOLEAN]
    /\ began \in [Proc -> Time]
    /\ edited \subseteq Inquiry
    /\ purged \subseteq Inquiry

\* A customer never has two offers of one inquiry to choose from, and an offer is
\* open only while its inquiry is, whoever rejects, cancels or books it meanwhile.
OneOpenOffer ==
    /\ \A q, r \in Quote : Alive(q) /\ Alive(r) /\ Of[q] = Of[r] =>
         q = r \/ Of[q] \in purged
    /\ \A q \in Quote : doc[q].status = "sent" =>
         \/ doc[Of[q]].status \in {"reviewing", "quoted"}
         \/ Of[q] \in edited \cup purged

\* One inquiry leads to one booking, whichever of its quotes is accepted and however
\* often, and a waitlist entry leads to one booking, exactly when it says so.
BookedOnce ==
    /\ \A q, r \in Quote :
         booked[q] > 0 /\ booked[r] > 0 /\ Of[q] = Of[r] =>
             \/ q = r /\ booked[q] = 1
             \/ Of[q] \in purged
    /\ \A e \in Entry : booked[e] = IF doc[e].status = "booked" THEN 1 ELSE 0

\* The ways a quote and a waitlist entry may go.
QuoteLife ==
    {<<"absent", "draft">>, <<"absent", "sent">>, <<"draft", "sent">>,
     <<"sent", "accepted">>, <<"sent", "rejected">>}
      \cup {"draft", "sent"} \X {"expired", "superseded"}
      \cup (QuoteStatus \ {"absent", "removed"}) \X {"removed"}

EntryLife ==
    {<<"absent", "waiting">>, <<"waiting", "offered">>}
      \cup {"waiting", "offered"} \X {"booked", "expired", "cancelled"}

Moves(d) == <<doc[d].status, doc'[d].status>>

\* Document d is written by a transaction of operation o, begun before the
\* deadline that d has now.
BegunInTime(o, d) ==
    \E p \in Proc : /\ job[p] = <<o, d>> /\ pc[p] = "open" /\ pc'[p] # "open"
                   /\ began[p] < doc[d].until

\* Whatever staff, the customer and the worker do at once to a quote or an entry, it
\* is decided once: a rejected, expired or superseded quote is never accepted, an
\* accepted one never expires, and none comes back; an entry that was left or swept
\* is never booked, nor is a booked one offered again.  And it is decided in time: a
\* draft is sent, a sent quote accepted and an offered entry booked only by a
\* transaction that began before the deadline, which nobody has moved since.  (A
\* waiting entry may be booked past its window until the sweep has closed it.)
DecidedOnce ==
    [][/\ \A q \in Quote : doc'[q].status # doc[q].status => Moves(q) \in QuoteLife
       /\ \A e \in Entry : doc'[e].status # doc[e].status => Moves(e) \in EntryLife
       /\ \A q \in Quote : Moves(q) = <<"draft", "sent">> => BegunInTime("send", q)
       /\ \A q \in Quote : Moves(q) = <<"sent", "accepted">> => BegunInTime("accept", q)
       /\ \A e \in Entry : Moves(e) = <<"offered", "booked">> => BegunInTime("book", e)]_vars

\* A quote or an entry whose time has run out does not stay open: the sweep, or
\* someone else, settles it.
DueRecordsLapse ==
    /\ \A q \in Quote : DueQuote(q) ~> ~DueQuote(q)
    /\ \A e \in Entry : DueEntry(e) ~> ~DueEntry(e)
=============================================================================
