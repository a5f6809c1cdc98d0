---------------------------- MODULE Desk_proofs ----------------------------
(***************************************************************************)
(* Proofs about Desk, for any number of clients, inquiries, quotes and     *)
(* waitlist entries, any deadlines and whatever staff set by hand.         *)
(***************************************************************************)
EXTENDS Desk, FiniteSetTheorems, TLAPS

(***************************************************************************)
(* The inductive invariant                                                 *)
(***************************************************************************)

\* The operations on inquiries, quotes and entries.
Operations == {"create", "cancel", "reject", "review", "edit", "remove", "quote",
               "send", "expire", "rejectQuote", "removeQuote", "accept", "schedule",
               "join", "leave", "offer", "book", "lapse"}

StatusOf(d) == IF d \in Inquiry THEN InquiryStatus
               ELSE IF d \in Quote THEN QuoteStatus ELSE EntryStatus

\* A record that document d may be.
Record1(d, r) ==
    /\ r \in Record
    /\ r.status \in StatusOf(d)
    /\ d \in Entry => r.until <= WindowEnd[d]

\* What a transaction may write.
WellTyped(w) ==
    /\ w \in [DOMAIN w -> Record]
    /\ DOMAIN w \subseteq Doc
    /\ \A d \in DOMAIN w : Record1(d, w[d])

\* An inquiry whose offers staff have not changed by hand.
Kept(i)    == i \notin purged
Regular(i) == i \notin purged \cup edited

Types ==
    /\ TypeOK
    /\ job \in [Proc -> {NoJob} \cup Operations \X Doc]
    /\ writes = [p \in Proc |-> writes[p]]
    /\ \A p \in Proc : WellTyped(writes[p])

\* The revisions of an inquiry are numbered from 1, each once.
Numbered ==
    \A i \in Inquiry : Kept(i) =>
        /\ \A q \in QuotesOf(i) : Stored(q) =>
             /\ doc[q].rev >= 1
             /\ \A k \in 1 .. doc[q].rev : \E r \in QuotesOf(i) : Stored(r) /\ doc[r].rev = k
        /\ \A q, r \in QuotesOf(i) :
             Stored(q) /\ Stored(r) /\ doc[q].rev = doc[r].rev => q = r

\* An inquiry is quoted only while an offer has been sent.
QuotedBySent ==
    \A i \in Inquiry : Regular(i) /\ doc[i].status = "quoted" =>
        \E q \in QuotesOf(i) : doc[q].status = "sent"

\* One quote of an inquiry is accepted, and what is booked is the accepted one.
OneAccepted ==
    /\ \A q, r \in Quote :
         doc[q].status = "accepted" /\ doc[r].status = "accepted" /\ Of[q] = Of[r]
           => q = r \/ ~Kept(Of[q])
    /\ \A q \in Quote : booked[q] > 0 => doc[q].status = "accepted" \/ ~Kept(Of[q])
    /\ \A q \in Quote : booked[q] <= 1 \/ ~Kept(Of[q])

\* A quote that is about to be made is nobody else's.
NewQuotes ==
    \A p \in Proc, q \in Quote : job[p] = <<"quote", q>> =>
        /\ doc[q].status = "absent"
        /\ p \in Client
        /\ \A r \in Proc : job[r] = <<"quote", q>> => r = p

(***************************************************************************)
(* What a transaction writes, of operation o on document d, fits the       *)
(* documents as long as no other has written one of them.                  *)
(***************************************************************************)

\* Every write is a step of the life of its document.
Follows(o, d, w) ==
    /\ \A q \in Quote \cap DOMAIN w :
         /\ <<doc[q].status, w[q].status>> \in QuoteLife
         /\ doc[q].status = "absent" => o = "quote" /\ d = q
         /\ \/ o = "quote" /\ d = q
            \/ w[q].status = "removed"
            \/ w[q].rev = doc[q].rev
         /\ w[q].status = "accepted" => o = "accept" /\ d = q
         /\ w[q].status = "sent" => o \in {"quote", "send"} /\ d = q
    /\ \A e \in Entry \cap DOMAIN w :
         /\ <<doc[e].status, w[e].status>> \in EntryLife
         /\ w[e].status = "booked" <=> o = "book"
         /\ d = e

\* A new quote has the revision after the last, and replaces all offers before it.
Revises(o, d, w) ==
    o = "quote" =>
        /\ d \in Quote \cap DOMAIN w
        /\ w[d].status \in {"draft", "sent"}
        /\ w[d].rev >= 1
        /\ \A q \in (Quote \cap DOMAIN w) \ {d} :
             Of[q] = Of[d] /\ w[q].status = "superseded" /\ doc[q].rev < w[d].rev
        /\ Kept(Of[d]) =>
             /\ \A k \in 1 .. w[d].rev - 1 :
                  \E r \in QuotesOf(Of[d]) : Stored(r) /\ doc[r].rev = k
             /\ \A r \in QuotesOf(Of[d]) :
                  Alive(r) /\ doc[r].rev < w[d].rev => r \in DOMAIN w

\* Who sends a quote saves the inquiry as quoted, or replaces an offer sent before.
Sends(o, d, w) ==
    /\ o = "send" => d \in Quote \cap DOMAIN w /\ (Of[d] \in DOMAIN w \/ ~Regular(Of[d]))
    /\ o = "quote" /\ w[d].status = "sent" =>
         \/ Of[d] \in DOMAIN w
         \/ ~Regular(Of[d])
         \/ \E q \in DOMAIN w : q \in QuotesOf(Of[d]) /\ doc[q].status = "sent"
    /\ \A q \in Quote \cap DOMAIN w :
         w[q].status = "sent" /\ Of[q] \in DOMAIN w => w[Of[q]].status = "quoted"
    /\ \A i \in Inquiry \cap DOMAIN w :
         w[i].status = "quoted" =>
             \/ o = "edit" /\ d = i
             \/ /\ o \in {"quote", "send"}
                /\ d \in QuotesOf(i) \cap DOMAIN w
                /\ w[d].status = "sent"

\* Who closes an inquiry closes the offers sent.
Closes(o, d, w) ==
    \A i \in Inquiry \cap DOMAIN w :
        \/ w[i].status \in {"reviewing", "quoted"}
        \/ o = "edit" /\ d = i
        \/ ~Regular(i)
        \/ \A q \in QuotesOf(i) : doc[q].status = "sent" => q \in DOMAIN w

\* Who takes back the offer sent leaves the inquiry not quoted, or sends another.
TakesBack(o, d, w) ==
    \A q \in Quote \cap DOMAIN w :
        doc[q].status = "sent" =>
            \/ Of[q] \in DOMAIN w
            \/ ~Regular(Of[q])
            \/ w[q].status = "removed"
            \/ o = "quote" /\ w[d].status = "sent"
            \/ doc[Of[q]].status # "quoted"

\* What is booked: a quote being accepted or accepted before, an entry.
Settles(o, d, w) ==
    /\ o = "accept" => d \in Quote \cap DOMAIN w /\ w[d].status = "accepted"
    /\ o = "schedule" => d \in Quote /\ (doc[d].status = "accepted" \/ ~Kept(Of[d]))
    /\ o = "book" => d \in Entry \cap DOMAIN w

Fits(o, d, w) ==
    /\ Follows(o, d, w)
    /\ Revises(o, d, w)
    /\ Sends(o, d, w)
    /\ Closes(o, d, w)
    /\ TakesBack(o, d, w)
    /\ Settles(o, d, w)

Running(p) == pc[p] = "open" /\ ~stale[p]

\* What a running transaction is about to write fits; the others write nothing.
Transaction(p) ==
    /\ Running(p) => Fits(job[p][1], job[p][2], writes[p])
    /\ pc[p] # "open" => writes[p] = Nothing

\* What holds of the documents and bookings alone.
Documents ==
    /\ Numbered
    /\ OneOpenOffer
    /\ QuotedBySent
    /\ OneAccepted
    /\ BookedOnce

IInv ==
    /\ Types
    /\ Documents
    /\ NewQuotes
    /\ \A p \in Proc : Transaction(p)

(***************************************************************************)
(* Documents and writes                                                    *)
(***************************************************************************)

LEMMA DocRecord ==
    ASSUME Types, NEW x \in Doc
    PROVE  Record1(x, doc[x])
    BY DocumentAssumption DEF Types, TypeOK, Record1, StatusOf, Doc

LEMMA NothingIs == DOMAIN Nothing = {} /\ WellTyped(Nothing)
    BY DEF Nothing, WellTyped

LEMMA BothTypes ==
    ASSUME NEW f, NEW g, WellTyped(f), WellTyped(g)
    PROVE  WellTyped(Both(f, g))
    BY DEF Both, WellTyped, Record1

LEMMA TurnedIs ==
    ASSUME Types, NEW x \in Doc, NEW s \in StatusOf(x)
    PROVE  /\ Turned(x, s).status = s
           /\ Turned(x, s).rev = doc[x].rev
           /\ Record1(x, Turned(x, s))
<1>1. Record1(x, doc[x])
    BY DocRecord
<1>2. s \in InquiryStatus \cup QuoteStatus \cup EntryStatus
    BY DEF StatusOf
<1>3. x \in Entry => 0 <= WindowEnd[x] /\ s # "sent"
    BY TimeAssumption, DocumentAssumption DEF Time, StatusOf, EntryStatus
<1>4. PICK r : r = doc[x]
    OBVIOUS
<1>5. r \in Record /\ (x \in Entry => r.until <= WindowEnd[x])
    BY <1>1, <1>4 DEF Record1
<1>6. Turned(x, s) = [r EXCEPT !.status = s, !.until = IF s = "sent" THEN r.until ELSE 0]
    BY <1>4, <1>5 DEF Turned, Record
<1>7. Turned(x, s) = [status |-> s, rev |-> r.rev,
                       until |-> IF s = "sent" THEN r.until ELSE 0]
    BY <1>5, <1>6 DEF Record
<1>8. Turned(x, s) \in Record
    BY <1>2, <1>5, <1>7 DEF Record
<1>9. x \in Entry => Turned(x, s).until <= WindowEnd[x]
    BY <1>3, <1>7
<1> QED  BY <1>4, <1>7, <1>8, <1>9 DEF Record1

LEMMA PutIs ==
    ASSUME Types, NEW x \in Doc, NEW s \in StatusOf(x)
    PROVE  /\ DOMAIN Put(x, s) = {x}
           /\ Put(x, s)[x].status = s
           /\ Put(x, s)[x].rev = doc[x].rev
           /\ WellTyped(Put(x, s))
<1>1. Record1(x, Turned(x, s)) /\ Turned(x, s).status = s /\ Turned(x, s).rev = doc[x].rev
    BY TurnedIs
<1> HIDE DEF Turned
<1> QED  BY <1>1 DEF Put, WellTyped, Record1

LEMMA SupersededIs ==
    ASSUME Types, NEW i \in Inquiry, NEW but
    PROVE  /\ DOMAIN Superseded(i, but) = {q \in QuotesOf(i) \ but : Alive(q)}
           /\ \A q \in DOMAIN Superseded(i, but) :
                /\ Superseded(i, but)[q].status = "superseded"
                /\ Superseded(i, but)[q].rev = doc[q].rev
           /\ WellTyped(Superseded(i, but))
<1> DEFINE D == {q \in QuotesOf(i) \ but : Alive(q)}
<1>1. D \subseteq Doc
    BY DEF QuotesOf, Doc
<1>2. \A q \in D : "superseded" \in StatusOf(q)
    BY DocumentAssumption DEF QuotesOf, StatusOf, QuoteStatus
<1>3. \A q \in D : /\ Turned(q, "superseded").status = "superseded"
                   /\ Turned(q, "superseded").rev = doc[q].rev
                   /\ Record1(q, Turned(q, "superseded"))
    BY <1>1, <1>2, TurnedIs
<1>4. Superseded(i, but) = [q \in D |-> Turned(q, "superseded")]
    BY DEF Superseded, PutAll
<1> HIDE DEF D
<1>5. DOMAIN Superseded(i, but) = D
    BY <1>4
<1> QED  BY <1>1, <1>3, <1>4, <1>5 DEF WellTyped, Record1, D

LEMMA ClosedIs ==
    ASSUME NEW s \in InquiryStatus \cup QuoteStatus \cup EntryStatus
    PROVE  Closed(s) \in Record /\ Closed(s).status = s /\ Closed(s).until = 0
    BY DEF Closed, Record

LEMMA DropIs ==
    ASSUME NEW D \in SUBSET (Inquiry \cup Quote)
    PROVE  /\ DOMAIN Drop(D) = D
           /\ \A x \in D : Drop(D)[x].status = "removed"
           /\ WellTyped(Drop(D))
<1>1. Closed("removed") \in Record /\ Closed("removed").status = "removed"
    BY ClosedIs DEF QuoteStatus
<1>2. \A x \in D : Record1(x, Closed("removed"))
    BY <1>1, DocumentAssumption DEF Record1, StatusOf, InquiryStatus, QuoteStatus
<1> QED  BY <1>1, <1>2 DEF Drop, WellTyped, Record1, Doc

LEMMA SavesIs ==
    ASSUME Types, NEW i \in Inquiry, NEW s \in InquiryStatus, NEW w \in Saves(i, s)
    PROVE  /\ WellTyped(w)
           /\ DOMAIN w \subseteq {i}
           /\ IF i \in DOMAIN w THEN w[i].status = s ELSE doc[i].status = s
<1>1. i \in Doc /\ s \in StatusOf(i)
    BY DEF Doc, StatusOf
<1>2. w = Put(i, s) \/ (w = Nothing /\ doc[i].status = s)
    BY DEF Saves
<1> QED  BY <1>1, <1>2, PutIs, NothingIs

LEMMA BackIs ==
    ASSUME Types, NEW i \in Inquiry
    PROVE  /\ WellTyped(BackToReview(i))
           /\ DOMAIN BackToReview(i) \subseteq {i}
           /\ i \in DOMAIN BackToReview(i) => BackToReview(i)[i].status = "reviewing"
           /\ i \notin DOMAIN BackToReview(i) => doc[i].status # "quoted"
<1>1. i \in Doc /\ "reviewing" \in StatusOf(i)
    BY DEF Doc, StatusOf, InquiryStatus
<1> QED  BY <1>1, PutIs, NothingIs DEF BackToReview

(***************************************************************************)
(* What each operation is about to write fits                              *)
(***************************************************************************)

LEMMA Kinds ==
    /\ \A i \in Inquiry : i \in Doc /\ i \notin Quote /\ i \notin Entry
    /\ \A q \in Quote : q \in Doc /\ q \notin Inquiry /\ q \notin Entry /\ Of[q] \in Inquiry
    /\ \A e \in Entry : e \in Doc /\ e \notin Inquiry /\ e \notin Quote
    BY DocumentAssumption DEF Doc

LEMMA Statuses ==
    ASSUME Types
    PROVE  /\ \A i \in Inquiry : doc[i].status \in InquiryStatus
           /\ \A q \in Quote : doc[q].status \in QuoteStatus
           /\ \A e \in Entry : doc[e].status \in EntryStatus
    BY DEF Types, TypeOK

\* An inquiry with a sent offer is open, if staff have not interfered.
LEMMA SentIsOpen ==
    ASSUME Documents, NEW q \in Quote, doc[q].status = "sent", Regular(Of[q])
    PROVE  doc[Of[q]].status \in {"reviewing", "quoted"}
    BY DEF Documents, OneOpenOffer, Regular

\* Of an inquiry there is one open offer.
LEMMA OneAlive ==
    ASSUME Documents, NEW q \in Quote, NEW r \in Quote, Alive(q), Alive(r), Of[q] = Of[r],
           Kept(Of[q])
    PROVE  q = r
    BY DEF Documents, OneOpenOffer, Kept

\* The ways a quote and an entry may go.
LEMMA Ways ==
    /\ \A s \in {"draft", "sent"} : /\ <<s, "superseded">> \in QuoteLife
                                   /\ <<s, "expired">> \in QuoteLife
    /\ \A s \in QuoteStatus \ {"absent", "removed"} : <<s, "removed">> \in QuoteLife
    /\ \A s \in {"draft", "sent"} : <<"absent", s>> \in QuoteLife
    /\ <<"draft", "sent">> \in QuoteLife
    /\ \A s \in {"accepted", "rejected"} : <<"sent", s>> \in QuoteLife
    BY DEF QuoteLife

LEMMA WaysOfEntries ==
    /\ <<"absent", "waiting">> \in EntryLife
    /\ <<"waiting", "offered">> \in EntryLife
    /\ \A s \in {"waiting", "offered"}, t \in {"booked", "expired", "cancelled"} :
         <<s, t>> \in EntryLife
    BY DEF EntryLife

LEMMA NoWayBack ==
    ASSUME NEW s, NEW t, <<s, t>> \in QuoteLife
    PROVE  /\ s # "removed" /\ t # "absent"
           /\ t = "accepted" => s = "sent"
           /\ t \in {"draft", "sent"} => s \in {"absent", "draft"}
           /\ s = "absent" => t \in {"draft", "sent"}
           /\ s \notin {"absent", "draft", "sent"} => t = "removed"
    BY DEF QuoteLife

LEMMA NoEntryBack ==
    ASSUME NEW s, NEW t, <<s, t>> \in EntryLife
    PROVE  s # "booked"
    BY DEF EntryLife

LEMMA RegularIsKept ==
    ASSUME NEW i, Regular(i)
    PROVE  Kept(i)
    BY DEF Regular, Kept

LEMMA CreateFits ==
    ASSUME Types, Documents, NEW i \in Inquiry, doc[i].status = "absent"
    PROVE  WellTyped(Put(i, "new")) /\ Fits("create", i, Put(i, "new"))
<1>1. PICK w : w = Put(i, "new")
    OBVIOUS
<1>2. WellTyped(w) /\ DOMAIN w = {i} /\ w[i].status = "new"
    BY <1>1, PutIs, Kinds DEF StatusOf, InquiryStatus
<1>3. Follows("create", i, w)
    BY <1>2, SentIsOpen, Kinds DEF Follows
<1>4. Revises("create", i, w)
    BY <1>2, SentIsOpen, Kinds DEF Revises
<1>5. Sends("create", i, w)
    BY <1>2, SentIsOpen, Kinds DEF Sends
<1>6. Closes("create", i, w)
    BY <1>2, SentIsOpen, Kinds DEF Closes, QuotesOf
<1>7. TakesBack("create", i, w)
    BY <1>2, SentIsOpen, Kinds DEF TakesBack
<1>8. Settles("create", i, w)
    BY <1>2, SentIsOpen, Kinds DEF Settles
<1> QED  BY <1>1, <1>2, <1>3, <1>4, <1>5, <1>6, <1>7, <1>8 DEF Fits

\* An inquiry is closed together with its open offers.
LEMMA ClosingWrites ==
    ASSUME Types, NEW i \in Inquiry, NEW s \in InquiryStatus,
           NEW w, w = Both(Put(i, s), Superseded(i, {}))
    PROVE  /\ WellTyped(w)
           /\ \A x \in Inquiry : x \in DOMAIN w <=> x = i
           /\ \A q \in Quote : q \in DOMAIN w <=> Of[q] = i /\ Alive(q)
           /\ \A e \in Entry : e \notin DOMAIN w
           /\ w[i].status = s
           /\ \A q \in Quote \cap DOMAIN w : /\ w[q].status = "superseded"
                                         /\ w[q].rev = doc[q].rev
<1>1. PICK f, g : f = Put(i, s) /\ g = Superseded(i, {})
    OBVIOUS
<1>2. DOMAIN f = {i} /\ f[i].status = s /\ WellTyped(f)
    BY <1>1, PutIs, Kinds DEF StatusOf
<1>3. /\ DOMAIN g = {q \in QuotesOf(i) \ {} : Alive(q)}
      /\ \A q \in DOMAIN g : g[q].status = "superseded" /\ g[q].rev = doc[q].rev
      /\ WellTyped(g)
  <2>1. /\ DOMAIN Superseded(i, {}) = {q \in QuotesOf(i) \ {} : Alive(q)}
        /\ \A q \in DOMAIN Superseded(i, {}) :
             /\ Superseded(i, {})[q].status = "superseded"
             /\ Superseded(i, {})[q].rev = doc[q].rev
        /\ WellTyped(Superseded(i, {}))
    BY SupersededIs
  <2> QED  BY <1>1, <2>1
<1>4. DOMAIN g = {q \in Quote : Of[q] = i /\ Alive(q)}
    BY <1>3 DEF QuotesOf
<1>5. /\ DOMAIN w = {i} \cup DOMAIN g /\ w[i] = f[i]
      /\ \A q \in DOMAIN g \ {i} : w[q] = g[q]
  <2>1. w = Both(f, g)
    BY <1>1
  <2>2. /\ DOMAIN w = DOMAIN f \cup DOMAIN g
        /\ \A x \in DOMAIN f : w[x] = f[x]
        /\ \A x \in DOMAIN g \ DOMAIN f : w[x] = g[x]
    BY <2>1 DEF Both
  <2> QED  BY <1>2, <2>2
<1>6. WellTyped(w)
    BY <1>1, <1>2, <1>3, BothTypes
<1> QED  BY <1>2, <1>3, <1>4, <1>5, <1>6, Kinds

LEMMA CancelFits ==
    ASSUME Types, Documents, NEW i \in Inquiry
    PROVE  LET W == Both(Put(i, "cancelled"), Superseded(i, {})) IN
           WellTyped(W) /\ Fits("cancel", i, W)
<1>1. PICK w : w = Both(Put(i, "cancelled"), Superseded(i, {}))
    OBVIOUS
<1>2. /\ WellTyped(w)
      /\ \A x \in Inquiry : x \in DOMAIN w <=> x = i
      /\ \A q \in Quote : q \in DOMAIN w <=> Of[q] = i /\ Alive(q)
      /\ \A e \in Entry : e \notin DOMAIN w
      /\ w[i].status = "cancelled"
      /\ \A q \in Quote \cap DOMAIN w : w[q].status = "superseded" /\ w[q].rev = doc[q].rev
    BY <1>1, ClosingWrites DEF InquiryStatus
<1>3. Follows("cancel", i, w)
    BY <1>2, Ways, Kinds DEF Follows, Alive
<1>4. Revises("cancel", i, w)
    BY <1>2, Kinds DEF Revises
<1>5. Sends("cancel", i, w)
    BY <1>2, Kinds DEF Sends
<1>6. Closes("cancel", i, w)
    BY <1>2, Kinds DEF Closes, Alive, QuotesOf
<1>7. TakesBack("cancel", i, w)
    BY <1>2, Kinds DEF TakesBack
<1>8. Settles("cancel", i, w)
    BY <1>2, Kinds DEF Settles
<1> QED  BY <1>1, <1>2, <1>3, <1>4, <1>5, <1>6, <1>7, <1>8 DEF Fits

LEMMA RejectFits ==
    ASSUME Types, Documents, NEW i \in Inquiry
    PROVE  LET W == Both(Put(i, "declined"), Superseded(i, {})) IN
           WellTyped(W) /\ Fits("reject", i, W)
<1>1. PICK w : w = Both(Put(i, "declined"), Superseded(i, {}))
    OBVIOUS
<1>2. /\ WellTyped(w)
      /\ \A x \in Inquiry : x \in DOMAIN w <=> x = i
      /\ \A q \in Quote : q \in DOMAIN w <=> Of[q] = i /\ Alive(q)
      /\ \A e \in Entry : e \notin DOMAIN w
      /\ w[i].status = "declined"
      /\ \A q \in Quote \cap DOMAIN w : w[q].status = "superseded" /\ w[q].rev = doc[q].rev
    BY <1>1, ClosingWrites DEF InquiryStatus
<1>3. Follows("reject", i, w)
    BY <1>2, Ways, Kinds DEF Follows, Alive
<1>4. Revises("reject", i, w)
    BY <1>2, Kinds DEF Revises
<1>5. Sends("reject", i, w)
    BY <1>2, Kinds DEF Sends
<1>6. Closes("reject", i, w)
    BY <1>2, Kinds DEF Closes, Alive, QuotesOf
<1>7. TakesBack("reject", i, w)
    BY <1>2, Kinds DEF TakesBack
<1>8. Settles("reject", i, w)
    BY <1>2, Kinds DEF Settles
<1> QED  BY <1>1, <1>2, <1>3, <1>4, <1>5, <1>6, <1>7, <1>8 DEF Fits

LEMMA ReviewFits ==
    ASSUME Types, Documents, NEW i \in Inquiry, NEW w0 \in Saves(i, "reviewing")
    PROVE  WellTyped(w0) /\ Fits("review", i, w0)
<1>1. PICK w : w = w0
    OBVIOUS
<1>2. /\ WellTyped(w)
      /\ DOMAIN w \subseteq {i}
      /\ i \in DOMAIN w => w[i].status = "reviewing"
    BY <1>1, SavesIs DEF InquiryStatus
<1>3. Follows("review", i, w)
    BY <1>2, Kinds DEF Follows
<1>4. Revises("review", i, w)
    BY <1>2, Kinds DEF Revises
<1>5. Sends("review", i, w)
    BY <1>2, Kinds DEF Sends
<1>6. Closes("review", i, w)
    BY <1>2, Kinds DEF Closes
<1>7. TakesBack("review", i, w)
    BY <1>2, Kinds DEF TakesBack
<1>8. Settles("review", i, w)
    BY <1>2, Kinds DEF Settles
<1> QED  BY <1>1, <1>2, <1>3, <1>4, <1>5, <1>6, <1>7, <1>8 DEF Fits

LEMMA UpdateFits ==
    ASSUME Types, Documents, NEW i \in Inquiry, NEW s \in ByHand, NEW w0 \in Saves(i, s)
    PROVE  WellTyped(w0) /\ Fits("edit", i, w0)
<1>1. PICK w : w = w0
    OBVIOUS
<1>2. /\ WellTyped(w)
      /\ DOMAIN w \subseteq {i}
    BY <1>1, SavesIs, DocumentAssumption
<1>3. Follows("edit", i, w)
    BY <1>2, Kinds DEF Follows
<1>4. Revises("edit", i, w)
    BY <1>2, Kinds DEF Revises
<1>5. Sends("edit", i, w)
    BY <1>2, Kinds DEF Sends
<1>6. Closes("edit", i, w)
    BY <1>2, Kinds DEF Closes
<1>7. TakesBack("edit", i, w)
    BY <1>2, Kinds DEF TakesBack
<1>8. Settles("edit", i, w)
    BY <1>2, Kinds DEF Settles
<1> QED  BY <1>1, <1>2, <1>3, <1>4, <1>5, <1>6, <1>7, <1>8 DEF Fits

LEMMA RemoveFits ==
    ASSUME Types, Documents, NEW i \in Inquiry
    PROVE  LET W == Drop({i} \cup {q \in QuotesOf(i) : Stored(q)}) IN
           WellTyped(W) /\ Fits("remove", i, W)
<1>1. PICK w : w = Drop({i} \cup {q \in QuotesOf(i) : Stored(q)})
    OBVIOUS
<1>2. /\ WellTyped(w)
      /\ DOMAIN w = {i} \cup {q \in QuotesOf(i) : Stored(q)}
      /\ \A x \in DOMAIN w : w[x].status = "removed"
    BY <1>1, DropIs DEF QuotesOf
<1>3. \A q \in Quote \cap DOMAIN w : Of[q] = i /\ Stored(q) /\ doc[q].status \in QuoteStatus
    BY <1>2, Kinds, Statuses DEF QuotesOf
<1>4. Follows("remove", i, w)
    BY <1>2, <1>3, Ways, Kinds DEF Follows, Stored, QuotesOf
<1>5. Revises("remove", i, w)
    BY <1>2, <1>3, Kinds DEF Revises
<1>6. Sends("remove", i, w)
    BY <1>2, <1>3, Kinds DEF Sends
<1>7. Closes("remove", i, w)
    BY <1>2, <1>3, Kinds DEF Closes, Stored, QuotesOf
<1>8. TakesBack("remove", i, w)
    BY <1>2, <1>3, Kinds DEF TakesBack
<1>9. Settles("remove", i, w)
    BY <1>2, <1>3, Kinds DEF Settles
<1> QED  BY <1>1, <1>2, <1>3, <1>4, <1>5, <1>6, <1>7, <1>8, <1>9 DEF Fits

\* One quote is written, and perhaps its inquiry saved.
LEMMA QuoteWrites ==
    ASSUME Types, NEW q \in Quote, NEW s \in QuoteStatus, NEW v, WellTyped(v),
           DOMAIN v \subseteq {Of[q]}, NEW w, w = Both(Put(q, s), v)
    PROVE  /\ WellTyped(w)
           /\ \A x \in Quote : x \in DOMAIN w <=> x = q
           /\ w[q].status = s /\ w[q].rev = doc[q].rev
           /\ \A i \in Inquiry : i \in DOMAIN w => i = Of[q]
           /\ Of[q] \in DOMAIN w <=> Of[q] \in DOMAIN v
           /\ Of[q] \in DOMAIN w => w[Of[q]] = v[Of[q]]
           /\ \A e \in Entry : e \notin DOMAIN w
<1>1. PICK f : f = Put(q, s)
    OBVIOUS
<1>2. DOMAIN f = {q} /\ f[q].status = s /\ f[q].rev = doc[q].rev /\ WellTyped(f)
    BY <1>1, PutIs, Kinds DEF StatusOf
<1>3. /\ DOMAIN w = DOMAIN f \cup DOMAIN v
      /\ \A x \in DOMAIN f : w[x] = f[x]
      /\ \A x \in DOMAIN v \ DOMAIN f : w[x] = v[x]
    BY <1>1 DEF Both
<1>4. WellTyped(w)
    BY <1>1, <1>2, BothTypes
<1> QED  BY <1>2, <1>3, <1>4, Kinds

LEMMA SendFits ==
    ASSUME Types, Documents, NEW q \in Quote, doc[q].status = "draft",
           NEW v \in Saves(Of[q], "quoted")
    PROVE  LET W == Both(Put(q, "sent"), v) IN
           WellTyped(W) /\ Fits("send", q, W)
<1>1. PICK w : w = Both(Put(q, "sent"), v)
    OBVIOUS
<1>2. /\ WellTyped(v) /\ DOMAIN v \subseteq {Of[q]}
      /\ IF Of[q] \in DOMAIN v THEN v[Of[q]].status = "quoted"
         ELSE doc[Of[q]].status = "quoted"
    BY SavesIs, Kinds DEF InquiryStatus
<1>3. /\ WellTyped(w)
      /\ \A x \in Quote : x \in DOMAIN w <=> x = q
      /\ w[q].status = "sent" /\ w[q].rev = doc[q].rev
      /\ \A i \in Inquiry : i \in DOMAIN w => i = Of[q]
      /\ Of[q] \in DOMAIN w <=> Of[q] \in DOMAIN v
      /\ Of[q] \in DOMAIN w => w[Of[q]] = v[Of[q]]
      /\ \A e \in Entry : e \notin DOMAIN w
    BY <1>1, <1>2, QuoteWrites DEF QuoteStatus
<1>4. Of[q] \in DOMAIN w \/ ~Regular(Of[q])
  <2>1. SUFFICES ASSUME Of[q] \notin DOMAIN v, Regular(Of[q])  PROVE FALSE
    BY <1>3
  <2>2. PICK r \in Quote : Of[r] = Of[q] /\ doc[r].status = "sent"
    BY <1>2, <2>1, Kinds DEF Documents, QuotedBySent, QuotesOf
  <2>3. q = r
    BY <2>1, <2>2, OneAlive, RegularIsKept DEF Alive
  <2> QED  BY <2>2, <2>3
<1>5. Follows("send", q, w)
    BY <1>3, Ways, Kinds DEF Follows
<1>6. Revises("send", q, w)
    BY <1>2, <1>3, <1>4, Kinds DEF Revises
<1>7. Sends("send", q, w)
    BY <1>2, <1>3, <1>4, Kinds DEF Sends, QuotesOf
<1>8. Closes("send", q, w)
    BY <1>2, <1>3, <1>4, Kinds DEF Closes
<1>9. TakesBack("send", q, w)
    BY <1>2, <1>3, <1>4, Kinds DEF TakesBack
<1>10. Settles("send", q, w)
    BY <1>2, <1>3, <1>4, Kinds DEF Settles
<1> QED  BY <1>1, <1>2, <1>3, <1>4, <1>5, <1>6, <1>7, <1>8, <1>9, <1>10 DEF Fits

LEMMA ExpireFits ==
    ASSUME Types, Documents, NEW q \in Quote, Alive(q)
    PROVE  LET W == Both(Put(q, "expired"), BackToReview(Of[q])) IN
           WellTyped(W) /\ Fits("expire", q, W)
<1>1. PICK w : w = Both(Put(q, "expired"), BackToReview(Of[q]))
    OBVIOUS
<1>2. PICK v : v = BackToReview(Of[q])
    OBVIOUS
<1>3. /\ WellTyped(v) /\ DOMAIN v \subseteq {Of[q]}
      /\ Of[q] \in DOMAIN v => v[Of[q]].status = "reviewing"
      /\ Of[q] \notin DOMAIN v => doc[Of[q]].status # "quoted" \/ ~Regular(Of[q])
    BY <1>2, BackIs, Kinds
<1>4. /\ WellTyped(w)
      /\ \A x \in Quote : x \in DOMAIN w <=> x = q
      /\ w[q].status = "expired" /\ w[q].rev = doc[q].rev
      /\ \A i \in Inquiry : i \in DOMAIN w => i = Of[q]
      /\ Of[q] \in DOMAIN w <=> Of[q] \in DOMAIN v
      /\ Of[q] \in DOMAIN w => w[Of[q]] = v[Of[q]]
      /\ \A e \in Entry : e \notin DOMAIN w
    BY <1>1, <1>2, <1>3, QuoteWrites DEF QuoteStatus
<1>5. Follows("expire", q, w)
    BY <1>4, Ways, Kinds DEF Follows, Alive
<1>6. Revises("expire", q, w)
    BY <1>3, <1>4, Kinds DEF Revises
<1>7. Sends("expire", q, w)
    BY <1>3, <1>4, Kinds DEF Sends
<1>8. Closes("expire", q, w)
    BY <1>3, <1>4, Kinds DEF Closes
<1>9. TakesBack("expire", q, w)
    BY <1>3, <1>4, Kinds DEF TakesBack
<1>10. Settles("expire", q, w)
    BY <1>3, <1>4, Kinds DEF Settles
<1> QED  BY <1>1, <1>3, <1>4, <1>5, <1>6, <1>7, <1>8, <1>9, <1>10 DEF Fits

LEMMA LapseFits ==
    ASSUME Types, Documents, NEW q \in Quote, Alive(q)
    PROVE  LET W == Both(Put(q, "expired"),
                 IF \E r \in QuotesOf(Of[q]) \ {q} : doc[r].status = "sent" /\ InTime(r)
                 THEN Nothing
                 ELSE BackToReview(Of[q])) IN
           WellTyped(W) /\ Fits("lapse", q, W)
<1>1. PICK w : w = Both(Put(q, "expired"),
                 IF \E r \in QuotesOf(Of[q]) \ {q} : doc[r].status = "sent" /\ InTime(r)
                 THEN Nothing
                 ELSE BackToReview(Of[q]))
    OBVIOUS
<1>2. PICK v : v = IF \E r \in QuotesOf(Of[q]) \ {q} : doc[r].status = "sent" /\ InTime(r)
               THEN Nothing
               ELSE BackToReview(Of[q])
    OBVIOUS
<1>3. /\ WellTyped(v) /\ DOMAIN v \subseteq {Of[q]}
      /\ Of[q] \in DOMAIN v => v[Of[q]].status = "reviewing"
      /\ Of[q] \notin DOMAIN v => doc[Of[q]].status # "quoted" \/ ~Regular(Of[q])
  <2>1. CASE v = BackToReview(Of[q])
    BY <2>1, BackIs, Kinds
  <2>2. CASE v = Nothing /\ \E r \in QuotesOf(Of[q]) \ {q} : doc[r].status = "sent"
    BY <2>2, NothingIs, OneAlive, RegularIsKept DEF QuotesOf, Alive
  <2> QED  BY <1>2, <2>1, <2>2
<1>4. /\ WellTyped(w)
      /\ \A x \in Quote : x \in DOMAIN w <=> x = q
      /\ w[q].status = "expired" /\ w[q].rev = doc[q].rev
      /\ \A i \in Inquiry : i \in DOMAIN w => i = Of[q]
      /\ Of[q] \in DOMAIN w <=> Of[q] \in DOMAIN v
      /\ Of[q] \in DOMAIN w => w[Of[q]] = v[Of[q]]
      /\ \A e \in Entry : e \notin DOMAIN w
    BY <1>1, <1>2, <1>3, QuoteWrites DEF QuoteStatus
<1>5. Follows("lapse", q, w)
    BY <1>4, Ways, Kinds DEF Follows, Alive
<1>6. Revises("lapse", q, w)
    BY <1>3, <1>4, Kinds DEF Revises
<1>7. Sends("lapse", q, w)
    BY <1>3, <1>4, Kinds DEF Sends
<1>8. Closes("lapse", q, w)
    BY <1>3, <1>4, Kinds DEF Closes
<1>9. TakesBack("lapse", q, w)
    BY <1>3, <1>4, Kinds DEF TakesBack
<1>10. Settles("lapse", q, w)
    BY <1>3, <1>4, Kinds DEF Settles
<1> QED  BY <1>1, <1>3, <1>4, <1>5, <1>6, <1>7, <1>8, <1>9, <1>10 DEF Fits

LEMMA RejectQuoteFits ==
    ASSUME Types, Documents, NEW q \in Quote, doc[q].status = "sent",
           NEW v \in Saves(Of[q], "reviewing")
    PROVE  LET W == Both(Put(q, "rejected"), v) IN
           WellTyped(W) /\ Fits("rejectQuote", q, W)
<1>1. PICK w : w = Both(Put(q, "rejected"), v)
    OBVIOUS
<1>2. /\ WellTyped(v) /\ DOMAIN v \subseteq {Of[q]}
      /\ Of[q] \in DOMAIN v => v[Of[q]].status = "reviewing"
      /\ Of[q] \notin DOMAIN v => doc[Of[q]].status = "reviewing"
    BY SavesIs, Kinds DEF InquiryStatus
<1>3. /\ WellTyped(w)
      /\ \A x \in Quote : x \in DOMAIN w <=> x = q
      /\ w[q].status = "rejected" /\ w[q].rev = doc[q].rev
      /\ \A i \in Inquiry : i \in DOMAIN w => i = Of[q]
      /\ Of[q] \in DOMAIN w <=> Of[q] \in DOMAIN v
      /\ Of[q] \in DOMAIN w => w[Of[q]] = v[Of[q]]
      /\ \A e \in Entry : e \notin DOMAIN w
    BY <1>1, <1>2, QuoteWrites DEF QuoteStatus
<1>4. Follows("rejectQuote", q, w)
    BY <1>3, Ways, Kinds DEF Follows
<1>5. Revises("rejectQuote", q, w)
    BY <1>2, <1>3, Kinds DEF Revises
<1>6. Sends("rejectQuote", q, w)
    BY <1>2, <1>3, Kinds DEF Sends
<1>7. Closes("rejectQuote", q, w)
    BY <1>2, <1>3, Kinds DEF Closes
<1>8. TakesBack("rejectQuote", q, w)
    BY <1>2, <1>3, Kinds DEF TakesBack
<1>9. Settles("rejectQuote", q, w)
    BY <1>2, <1>3, Kinds DEF Settles
<1> QED  BY <1>1, <1>2, <1>3, <1>4, <1>5, <1>6, <1>7, <1>8, <1>9 DEF Fits

LEMMA RemoveQuoteFits ==
    ASSUME Types, Documents, NEW q \in Quote, Stored(q)
    PROVE  LET W == Drop({q}) IN
           WellTyped(W) /\ Fits("removeQuote", q, W)
<1>1. PICK w : w = Drop({q})
    OBVIOUS
<1>2. WellTyped(w) /\ DOMAIN w = {q} /\ w[q].status = "removed"
    BY <1>1, DropIs
<1>3. Follows("removeQuote", q, w)
    BY <1>2, Ways, Statuses, Kinds DEF Follows, Stored
<1>4. Revises("removeQuote", q, w)
    BY <1>2, Kinds DEF Revises
<1>5. Sends("removeQuote", q, w)
    BY <1>2, Kinds DEF Sends
<1>6. Closes("removeQuote", q, w)
    BY <1>2, Kinds DEF Closes
<1>7. TakesBack("removeQuote", q, w)
    BY <1>2, Kinds DEF TakesBack
<1>8. Settles("removeQuote", q, w)
    BY <1>2, Kinds DEF Settles
<1> QED  BY <1>1, <1>2, <1>3, <1>4, <1>5, <1>6, <1>7, <1>8 DEF Fits

LEMMA ScheduleFits ==
    ASSUME Types, Documents, NEW q \in Quote, doc[q].status = "accepted"
    PROVE  LET W == Nothing IN
           WellTyped(W) /\ Fits("schedule", q, W)
<1>1. PICK w : w = Nothing
    OBVIOUS
<1>2. WellTyped(w) /\ DOMAIN w = {}
    BY <1>1, NothingIs
<1>3. Follows("schedule", q, w)
    BY <1>2, Kinds DEF Follows
<1>4. Revises("schedule", q, w)
    BY <1>2, Kinds DEF Revises
<1>5. Sends("schedule", q, w)
    BY <1>2, Kinds DEF Sends
<1>6. Closes("schedule", q, w)
    BY <1>2, Kinds DEF Closes
<1>7. TakesBack("schedule", q, w)
    BY <1>2, Kinds DEF TakesBack
<1>8. Settles("schedule", q, w)
    BY <1>2, Kinds DEF Settles
<1> QED  BY <1>1, <1>2, <1>3, <1>4, <1>5, <1>6, <1>7, <1>8 DEF Fits

\* A quote is accepted with its inquiry, and the other offers are closed.
LEMMA AcceptWrites ==
    ASSUME Types, NEW q \in Quote,
           NEW w, w = Both(Put(q, "accepted"),
                           Both(Put(Of[q], "accepted"), Superseded(Of[q], {q})))
    PROVE  /\ WellTyped(w)
           /\ \A x \in Inquiry : x \in DOMAIN w <=> x = Of[q]
           /\ \A r \in Quote : r \in DOMAIN w <=> r = q \/ (Of[r] = Of[q] /\ Alive(r))
           /\ \A e \in Entry : e \notin DOMAIN w
           /\ w[q].status = "accepted" /\ w[q].rev = doc[q].rev
           /\ w[Of[q]].status = "accepted"
           /\ \A r \in Quote \cap DOMAIN w :
                r # q => w[r].status = "superseded" /\ w[r].rev = doc[r].rev
<1>1. PICK f, g, h, v : /\ f = Put(q, "accepted") /\ g = Put(Of[q], "accepted")
                        /\ h = Superseded(Of[q], {q}) /\ v = Both(g, h)
    OBVIOUS
<1>2. DOMAIN f = {q} /\ f[q].status = "accepted" /\ f[q].rev = doc[q].rev /\ WellTyped(f)
    BY <1>1, PutIs, Kinds DEF StatusOf, QuoteStatus
<1>3. DOMAIN g = {Of[q]} /\ g[Of[q]].status = "accepted" /\ WellTyped(g)
    BY <1>1, PutIs, Kinds DEF StatusOf, InquiryStatus
<1>4. /\ DOMAIN h = {r \in QuotesOf(Of[q]) \ {q} : Alive(r)}
      /\ \A r \in DOMAIN h : h[r].status = "superseded" /\ h[r].rev = doc[r].rev
      /\ WellTyped(h)
  <2>1. /\ DOMAIN Superseded(Of[q], {q}) = {r \in QuotesOf(Of[q]) \ {q} : Alive(r)}
        /\ \A r \in DOMAIN Superseded(Of[q], {q}) :
             /\ Superseded(Of[q], {q})[r].status = "superseded"
             /\ Superseded(Of[q], {q})[r].rev = doc[r].rev
        /\ WellTyped(Superseded(Of[q], {q}))
    BY SupersededIs, Kinds
  <2> QED  BY <1>1, <2>1
<1>5. \A r : r \in DOMAIN h <=> r \in Quote /\ Of[r] = Of[q] /\ r # q /\ Alive(r)
    BY <1>4 DEF QuotesOf
<1>6. /\ DOMAIN v = DOMAIN g \cup DOMAIN h
      /\ \A x \in DOMAIN g : v[x] = g[x]
      /\ \A x \in DOMAIN h \ DOMAIN g : v[x] = h[x]
    BY <1>1 DEF Both
<1>7. w = Both(f, v)
    BY <1>1
<1>8. /\ DOMAIN w = DOMAIN f \cup DOMAIN v
      /\ \A x \in DOMAIN f : w[x] = f[x]
      /\ \A x \in DOMAIN v \ DOMAIN f : w[x] = v[x]
    BY <1>7 DEF Both
<1>9. WellTyped(w)
    BY <1>1, <1>2, <1>3, <1>4, BothTypes
<1>10. \A x \in Inquiry : x \in DOMAIN w <=> x = Of[q]
    BY <1>2, <1>3, <1>5, <1>6, <1>8, Kinds
<1>11. \A r \in Quote : r \in DOMAIN w <=> r = q \/ (Of[r] = Of[q] /\ Alive(r))
    BY <1>2, <1>3, <1>5, <1>6, <1>8, Kinds
<1>12. \A e \in Entry : e \notin DOMAIN w
    BY <1>2, <1>3, <1>5, <1>6, <1>8, Kinds
<1>13. w[q] = f[q] /\ w[Of[q]] = g[Of[q]]
    BY <1>2, <1>3, <1>6, <1>8, Kinds
<1>14. \A r \in Quote \cap DOMAIN w : r # q => w[r] = h[r] /\ r \in DOMAIN h
    BY <1>2, <1>3, <1>5, <1>6, <1>8, Kinds
<1> QED  BY ZenonT(40), <1>2, <1>3, <1>4, <1>9, <1>10, <1>11, <1>12, <1>13, <1>14

LEMMA AcceptFits ==
    ASSUME Types, Documents, NEW q \in Quote, doc[q].status = "sent"
    PROVE  LET W == Both(Put(q, "accepted"),
                     Both(Put(Of[q], "accepted"), Superseded(Of[q], {q}))) IN
           WellTyped(W) /\ Fits("accept", q, W)
<1>1. PICK w : w = Both(Put(q, "accepted"),
                     Both(Put(Of[q], "accepted"), Superseded(Of[q], {q})))
    OBVIOUS
<1>2. /\ WellTyped(w)
      /\ \A x \in Inquiry : x \in DOMAIN w <=> x = Of[q]
      /\ \A r \in Quote : r \in DOMAIN w <=> r = q \/ (Of[r] = Of[q] /\ Alive(r))
      /\ \A e \in Entry : e \notin DOMAIN w
      /\ w[q].status = "accepted" /\ w[q].rev = doc[q].rev
      /\ w[Of[q]].status = "accepted"
      /\ \A r \in Quote \cap DOMAIN w :
           r # q => w[r].status = "superseded" /\ w[r].rev = doc[r].rev
    BY <1>1, AcceptWrites
<1>3. Follows("accept", q, w)
    BY <1>2, Ways, Kinds DEF Follows, Alive
<1>4. Revises("accept", q, w)
    BY <1>2, Kinds DEF Revises
<1>5. Sends("accept", q, w)
    BY <1>2, Kinds DEF Sends
<1>6. Closes("accept", q, w)
    BY <1>2, Kinds DEF Closes, Alive, QuotesOf
<1>7. TakesBack("accept", q, w)
    BY <1>2, Kinds DEF TakesBack
<1>8. Settles("accept", q, w)
    BY <1>2, Kinds DEF Settles
<1> QED  BY <1>1, <1>2, <1>3, <1>4, <1>5, <1>6, <1>7, <1>8 DEF Fits

\* One entry is written.
LEMMA EntryFits ==
    ASSUME NEW e \in Entry, NEW o \in {"join", "leave", "offer", "book", "lapse"},
           NEW w, DOMAIN w = {e}, <<doc[e].status, w[e].status>> \in EntryLife,
           w[e].status = "booked" <=> o = "book"
    PROVE  Fits(o, e, w)
<1>1. Follows(o, e, w)
    BY Kinds DEF Follows
<1>2. Revises(o, e, w)
    BY Kinds DEF Revises
<1>3. Sends(o, e, w)
    BY Kinds DEF Sends
<1>4. Closes(o, e, w)
    BY Kinds DEF Closes
<1>5. TakesBack(o, e, w)
    BY Kinds DEF TakesBack
<1>6. Settles(o, e, w)
    BY Kinds DEF Settles
<1> QED  BY <1>1, <1>2, <1>3, <1>4, <1>5, <1>6 DEF Fits

(***************************************************************************)
(* Revisions                                                               *)
(***************************************************************************)

LEMMA MaxIs ==
    ASSUME NEW S \in SUBSET Nat, IsFiniteSet(S), S # {}
    PROVE  Max(S) \in S /\ \A y \in S : Max(S) >= y
<1> DEFINE F == {{y \in S : y > x} : x \in S}
<1>1. F \subseteq FiniteSubsetsOf(S) /\ F # {}
  <2>1. \A x \in S : {y \in S : y > x} \in SUBSET S
    OBVIOUS
  <2>2. \A x \in S : IsFiniteSet({y \in S : y > x})
    BY <2>1, FS_Subset
  <2> QED  BY <2>1, <2>2 DEF FiniteSubsetsOf
<1>2. IsWellFoundedOn(StrictSubsetOrdering(S), FiniteSubsetsOf(S))
    BY FS_StrictSubsetOrderingWellFounded
<1>3. PICK X \in F : \A Y \in F : <<Y, X>> \notin StrictSubsetOrdering(S)
  <2> HIDE DEF F
  <2> QED  BY <1>1, <1>2, WFMin
<1>4. PICK m \in S : X = {y \in S : y > m}
    BY <1>3
<1>5. ASSUME NEW z \in S, z > m  PROVE FALSE
  <2>1. PICK Y : Y = {y \in S : y > z}
    OBVIOUS
  <2>2. Y \in F
    BY <2>1
  <2>3. Y \subseteq X /\ z \in X /\ z \notin Y
    <3>1. m \in Nat /\ z \in Nat
        OBVIOUS
    <3>2. ASSUME NEW y \in Y  PROVE y \in X
        <4>1. y \in Nat /\ y > z /\ y \in S
            BY <2>1
        <4>2. y > m
            BY <1>5, <3>1, <4>1
        <4> QED  BY <1>4, <4>1, <4>2
    <3>3. z \in X
        BY <1>4, <1>5
    <3>4. z \notin Y
        BY <2>1, <3>1
    <3> QED  BY <3>2, <3>3, <3>4
  <2>4. X \subseteq S /\ Y \subseteq S
    BY <1>4, <2>1
  <2>5. <<Y, X>> \in StrictSubsetOrdering(S)
    BY <2>3, <2>4 DEF StrictSubsetOrdering
  <2> QED  BY <1>3, <2>2, <2>5
<1>6. m \in S /\ \A y \in S : m >= y
    BY <1>5
<1> QED  BY <1>6 DEF Max

\* The next revision is after all before, and the last before is a stored one.
LEMMA RevisionIs ==
    ASSUME Types, NEW i \in Inquiry
    PROVE  LET n == NextRevision(i) IN
           /\ n \in Nat \ {0}
           /\ \A r \in QuotesOf(i) : Stored(r) => doc[r].rev \in Nat /\ doc[r].rev < n
           /\ n = 1 \/ \E r \in QuotesOf(i) : Stored(r) /\ doc[r].rev = n - 1
<1> DEFINE D == {r \in QuotesOf(i) : Stored(r)}
           R == {doc[r].rev : r \in D}
           f == [r \in D |-> doc[r].rev]
           m == Max({0} \cup R)
<1>1. \A r \in D : doc[r].rev \in Nat
    BY DocRecord, Kinds DEF Record1, Record, QuotesOf
<1>2. IsFiniteSet(D)
    BY FS_Subset, DocumentAssumption DEF QuotesOf
<1>3. f \in Surjection(D, R)
    BY DEF Surjection
<1>4. IsFiniteSet(R)
  <2> HIDE DEF D, R, f
  <2> QED  BY <1>2, <1>3, FS_Surjection
<1>5. IsFiniteSet({0} \cup R)
  <2> HIDE DEF R
  <2>1. {0} \cup R = R \cup {0}
    OBVIOUS
  <2> QED  BY <1>4, <2>1, FS_AddElement
<1>6. {0} \cup R \in SUBSET Nat /\ {0} \cup R # {}
    BY <1>1
<1>7. m \in {0} \cup R /\ \A y \in {0} \cup R : m >= y
  <2> HIDE DEF R
  <2> QED  BY <1>5, <1>6, MaxIs
<1>8. m \in Nat
  <2> HIDE DEF R, m
  <2> QED  BY <1>6, <1>7
<1>9. NextRevision(i) = 1 + m
    BY DEF NextRevision
<1>10. \A r \in D : m >= doc[r].rev
    BY <1>7
<1>11. m = 0 \/ \E r \in D : doc[r].rev = m
    BY <1>7
<1> HIDE DEF m, R, f
<1> QED  BY <1>1, <1>8, <1>9, <1>10, <1>11

\* A new quote comes with the inquiry saved and the offers before it replaced.
LEMMA NewQuoteWrites ==
    ASSUME Types, NEW q \in Quote, NEW v \in Saves(Of[q], InquiryWithQuote(q)),
           NEW w, w = NewQuote(Of[q], q, Both(Superseded(Of[q], {q}), v))
    PROVE  /\ WellTyped(w)
           /\ \A x \in Inquiry : x \in DOMAIN w => x = Of[q]
           /\ IF Of[q] \in DOMAIN w THEN w[Of[q]].status = InquiryWithQuote(q)
              ELSE doc[Of[q]].status = InquiryWithQuote(q)
           /\ \A r \in Quote : r \in DOMAIN w <=> r = q \/ (Of[r] = Of[q] /\ Alive(r))
           /\ \A e \in Entry : e \notin DOMAIN w
           /\ w[q].status = (IF q \in Drafted THEN "draft" ELSE "sent")
           /\ w[q].rev = NextRevision(Of[q])
           /\ \A r \in Quote \cap DOMAIN w :
                r # q => w[r].status = "superseded" /\ w[r].rev = doc[r].rev
<1> DEFINE s == IF q \in Drafted THEN "draft" ELSE "sent"
           new == [status |-> s, rev |-> NextRevision(Of[q]), until |-> now + Validity]
<1>1. PICK f, h, g : /\ f = [x \in {q} |-> new]
                     /\ h = Superseded(Of[q], {q}) /\ g = Both(h, v)
    OBVIOUS
<1>2. DOMAIN f = {q} /\ f[q].status = s /\ f[q].rev = NextRevision(Of[q]) /\ WellTyped(f)
  <2>1. NextRevision(Of[q]) \in Nat
    BY RevisionIs, Kinds
  <2>2. now + Validity \in Nat
    BY TimeAssumption DEF Types, TypeOK, Time
  <2>3. s \in {"draft", "sent"}
    OBVIOUS
  <2> HIDE DEF s
  <2>4. new \in Record /\ new.status = s /\ new.rev = NextRevision(Of[q])
    BY <2>1, <2>2, <2>3 DEF Record, QuoteStatus
  <2>5. Record1(q, new)
    BY <2>3, <2>4, Kinds DEF Record1, StatusOf, QuoteStatus
  <2> HIDE DEF new
  <2> QED  BY <1>1, <2>4, <2>5, Kinds DEF WellTyped, Record1
<1> HIDE DEF new, s
<1>3. /\ DOMAIN h = {r \in QuotesOf(Of[q]) \ {q} : Alive(r)}
      /\ \A r \in DOMAIN h : h[r].status = "superseded" /\ h[r].rev = doc[r].rev
      /\ WellTyped(h)
  <2>1. /\ DOMAIN Superseded(Of[q], {q}) = {r \in QuotesOf(Of[q]) \ {q} : Alive(r)}
        /\ \A r \in DOMAIN Superseded(Of[q], {q}) :
             /\ Superseded(Of[q], {q})[r].status = "superseded"
             /\ Superseded(Of[q], {q})[r].rev = doc[r].rev
        /\ WellTyped(Superseded(Of[q], {q}))
    BY SupersededIs, Kinds
  <2> QED  BY <1>1, <2>1
<1>4. \A r : r \in DOMAIN h <=> r \in Quote /\ Of[r] = Of[q] /\ r # q /\ Alive(r)
    BY <1>3 DEF QuotesOf
<1>5. /\ WellTyped(v) /\ DOMAIN v \subseteq {Of[q]}
      /\ IF Of[q] \in DOMAIN v THEN v[Of[q]].status = InquiryWithQuote(q)
         ELSE doc[Of[q]].status = InquiryWithQuote(q)
    BY SavesIs, Kinds DEF InquiryWithQuote, InquiryStatus
<1>6. /\ DOMAIN g = DOMAIN h \cup DOMAIN v
      /\ \A x \in DOMAIN h : g[x] = h[x]
      /\ \A x \in DOMAIN v \ DOMAIN h : g[x] = v[x]
    BY <1>1 DEF Both
<1>7. w = Both(f, g)
    BY <1>1 DEF NewQuote, new, s
<1>8. /\ DOMAIN w = DOMAIN f \cup DOMAIN g
      /\ \A x \in DOMAIN f : w[x] = f[x]
      /\ \A x \in DOMAIN g \ DOMAIN f : w[x] = g[x]
    BY <1>7 DEF Both
<1>9. WellTyped(w)
    BY <1>1, <1>2, <1>3, <1>5, <1>7, BothTypes
<1>10. /\ \A x \in Inquiry : x \in DOMAIN w => x = Of[q]
       /\ Of[q] \in DOMAIN w <=> Of[q] \in DOMAIN v
    BY <1>2, <1>4, <1>5, <1>6, <1>8, Kinds
<1>11. \A r \in Quote : r \in DOMAIN w <=> r = q \/ (Of[r] = Of[q] /\ Alive(r))
    BY <1>2, <1>4, <1>5, <1>6, <1>8, Kinds
<1>12. \A e \in Entry : e \notin DOMAIN w
    BY <1>2, <1>4, <1>5, <1>6, <1>8, Kinds
<1>13. w[q] = f[q] /\ (Of[q] \in DOMAIN v => w[Of[q]] = v[Of[q]])
    BY <1>2, <1>4, <1>6, <1>8, Kinds
<1>14. \A r \in Quote \cap DOMAIN w : r # q => w[r] = h[r] /\ r \in DOMAIN h
    BY <1>2, <1>4, <1>5, <1>6, <1>8, Kinds
<1>15. IF Of[q] \in DOMAIN w THEN w[Of[q]].status = InquiryWithQuote(q)
       ELSE doc[Of[q]].status = InquiryWithQuote(q)
    BY <1>5, <1>10, <1>13
<1>16. \A r \in Quote \cap DOMAIN w :
           r # q => w[r].status = "superseded" /\ w[r].rev = doc[r].rev
    BY <1>3, <1>14
<1> QED  BY <1>2, <1>9, <1>10, <1>11, <1>12, <1>13, <1>15, <1>16 DEF s

LEMMA QuoteFits ==
    ASSUME Types, Documents, NEW q \in Quote, doc[q].status = "absent",
           NEW v \in Saves(Of[q], InquiryWithQuote(q))
    PROVE  LET W == NewQuote(Of[q], q, Both(Superseded(Of[q], {q}), v)) IN
           WellTyped(W) /\ Fits("quote", q, W)
<1>1. PICK w : w = NewQuote(Of[q], q, Both(Superseded(Of[q], {q}), v))
    OBVIOUS
<1>2. PICK i, n : i = Of[q] /\ n = NextRevision(i)
    OBVIOUS
<1>3. /\ WellTyped(w)
      /\ \A x \in Inquiry : x \in DOMAIN w => x = i
      /\ IF i \in DOMAIN w THEN w[i].status = InquiryWithQuote(q)
         ELSE doc[i].status = InquiryWithQuote(q)
      /\ \A r \in Quote : r \in DOMAIN w <=> r = q \/ (Of[r] = i /\ Alive(r))
      /\ \A e \in Entry : e \notin DOMAIN w
      /\ w[q].status = (IF q \in Drafted THEN "draft" ELSE "sent")
      /\ w[q].rev = n
      /\ \A r \in Quote \cap DOMAIN w :
           r # q => w[r].status = "superseded" /\ w[r].rev = doc[r].rev
  <2>1. /\ WellTyped(w)
        /\ \A x \in Inquiry : x \in DOMAIN w => x = Of[q]
        /\ IF Of[q] \in DOMAIN w THEN w[Of[q]].status = InquiryWithQuote(q)
           ELSE doc[Of[q]].status = InquiryWithQuote(q)
        /\ \A r \in Quote : r \in DOMAIN w <=> r = q \/ (Of[r] = Of[q] /\ Alive(r))
        /\ \A e \in Entry : e \notin DOMAIN w
        /\ w[q].status = (IF q \in Drafted THEN "draft" ELSE "sent")
        /\ w[q].rev = NextRevision(Of[q])
        /\ \A r \in Quote \cap DOMAIN w :
             r # q => w[r].status = "superseded" /\ w[r].rev = doc[r].rev
    BY <1>1, NewQuoteWrites, Z3
  <2> QED  BY <1>2, <2>1
<1>4. /\ n \in Nat \ {0}
      /\ \A r \in QuotesOf(i) : Stored(r) => doc[r].rev \in Nat /\ doc[r].rev < n
      /\ n = 1 \/ \E r \in QuotesOf(i) : Stored(r) /\ doc[r].rev = n - 1
    BY <1>2, RevisionIs, Kinds
<1>5. InquiryWithQuote(q) = IF q \in Drafted THEN "reviewing" ELSE "quoted"
    BY DEF InquiryWithQuote
<1>6. \A r \in Quote : Alive(r) => Stored(r)
    BY DEF Alive, Stored
<1>7. Follows("quote", q, w)
    BY <1>3, Ways, Kinds DEF Follows, Alive
<1>8. Revises("quote", q, w)
  <2>1. \A r \in (Quote \cap DOMAIN w) \ {q} :
            Of[r] = Of[q] /\ w[r].status = "superseded" /\ doc[r].rev < w[q].rev
    BY <1>2, <1>3, <1>4, <1>6 DEF QuotesOf
  <2>2. Kept(i) => \A k \in 1 .. n - 1 : \E r \in QuotesOf(i) : Stored(r) /\ doc[r].rev = k
    BY <1>2, <1>4, Kinds DEF Documents, Numbered
  <2>3. \A r \in QuotesOf(i) : Alive(r) /\ doc[r].rev < n => r \in DOMAIN w
    BY <1>3 DEF QuotesOf
  <2> QED  BY <1>2, <1>3, <1>4, <2>1, <2>2, <2>3 DEF Revises
<1>9. Sends("quote", q, w)
  <2>1. \/ Of[q] \in DOMAIN w
        \/ ~Regular(Of[q])
        \/ w[q].status # "sent"
        \/ \E r \in DOMAIN w : r \in QuotesOf(Of[q]) /\ doc[r].status = "sent"
    <3>1. SUFFICES ASSUME i \notin DOMAIN w, Regular(i), w[q].status = "sent"
                   PROVE  \E r \in DOMAIN w : r \in QuotesOf(i) /\ doc[r].status = "sent"
        BY <1>2
    <3>2. doc[i].status = "quoted"
        BY <1>3, <1>5, <3>1
    <3>3. PICK r \in QuotesOf(i) : doc[r].status = "sent"
        BY <1>2, <3>1, <3>2, Kinds DEF Documents, QuotedBySent
    <3> QED  BY <1>3, <3>3 DEF QuotesOf, Alive
  <2>2. \A r \in Quote \cap DOMAIN w :
            w[r].status = "sent" /\ Of[r] \in DOMAIN w => w[Of[r]].status = "quoted"
    BY <1>2, <1>3, <1>5
  <2>3. \A x \in Inquiry \cap DOMAIN w : w[x].status = "quoted" =>
            q \in QuotesOf(x) \cap DOMAIN w /\ w[q].status = "sent"
    BY <1>2, <1>3, <1>5 DEF QuotesOf
  <2> QED  BY <2>1, <2>2, <2>3 DEF Sends
<1>10. Closes("quote", q, w)
    BY <1>3, <1>5 DEF Closes
<1>11. TakesBack("quote", q, w)
    BY <1>2, <1>3, <1>5 DEF TakesBack
<1>12. Settles("quote", q, w)
    BY DEF Settles
<1> QED  BY <1>1, <1>3, <1>7, <1>8, <1>9, <1>10, <1>11, <1>12 DEF Fits

(***************************************************************************)
(* Steps that leave the documents alone                                    *)
(***************************************************************************)

LEMMA DocumentsKept ==
    ASSUME Documents, UNCHANGED <<doc, booked, edited, purged>>
    PROVE  Documents'
<1>1. Numbered'
    BY DEF Documents, Numbered, Kept, Stored
<1>2. OneOpenOffer'
    BY DEF Documents, OneOpenOffer, Alive
<1>3. QuotedBySent'
    BY DEF Documents, QuotedBySent, Regular
<1>4. OneAccepted'
    BY DEF Documents, OneAccepted, Kept
<1>5. BookedOnce'
    BY DEF Documents, BookedOnce
<1> QED  BY <1>1, <1>2, <1>3, <1>4, <1>5 DEF Documents

LEMMA FitsKept ==
    ASSUME NEW o, NEW d, NEW w, Fits(o, d, w), UNCHANGED <<doc, edited, purged>>
    PROVE  Fits(o, d, w)'
<1>1. Follows(o, d, w)'
    BY DEF Fits, Follows
<1>2. Revises(o, d, w)'
    BY DEF Fits, Revises, Kept, Stored, Alive
<1>3. Sends(o, d, w)'
    BY DEF Fits, Sends, Regular
<1>4. Closes(o, d, w)'
    BY DEF Fits, Closes, Regular
<1>5. TakesBack(o, d, w)'
    BY DEF Fits, TakesBack, Regular
<1>6. Settles(o, d, w)'
    BY DEF Fits, Settles, Kept
<1> QED  BY <1>1, <1>2, <1>3, <1>4, <1>5, <1>6 DEF Fits

\* A transaction that nothing happens to.
LEMMA OtherTransaction ==
    ASSUME NEW r \in Proc, Transaction(r), UNCHANGED <<doc, edited, purged>>,
           pc'[r] = pc[r], job'[r] = job[r], writes'[r] = writes[r], stale'[r] = stale[r]
    PROVE  Transaction(r)'
<1>1. PICK o, d, w : o = job[r][1] /\ d = job[r][2] /\ w = writes[r]
    OBVIOUS
<1>2. Running(r) => Fits(o, d, w)
    BY <1>1 DEF Transaction
<1>3. Running(r)' => Fits(o, d, w)'
    BY <1>2, FitsKept DEF Running
<1>4. job'[r][1] = o /\ job'[r][2] = d /\ writes'[r] = w
    BY <1>1
<1>5. Running(r)' => Fits(job[r][1], job[r][2], writes[r])'
    BY <1>3, <1>4
<1>6. pc'[r] # "open" => writes'[r] = Nothing
    BY DEF Transaction
<1> QED  BY <1>5, <1>6 DEF Transaction

LEMMA NoTransaction ==
    ASSUME NEW p \in Proc, pc'[p] # "open", writes'[p] = Nothing
    PROVE  Transaction(p)'
    BY DEF Transaction, Running

LEMMA WritesType ==
    ASSUME NEW w, WellTyped(w)
    PROVE  w \in [DOMAIN w -> Record] /\ DOMAIN w \subseteq Doc
    BY DEF WellTyped

\* The types, of a step that leaves the documents alone.
LEMMA TypesKept ==
    ASSUME Types, UNCHANGED <<doc, booked, edited, purged>>,
           now' \in Time,
           lock' \in [LockKey -> Client \cup {NoOne}],
           pc' \in [Proc -> {"idle", "ready", "open"}],
           job' \in [Proc -> {NoJob} \cup Operations \X Doc],
           writes' = [p \in Proc |-> writes'[p]],
           \A p \in Proc : WellTyped(writes'[p]),
           stale' \in [Proc -> BOOLEAN],
           began' \in [Proc -> Time]
    PROVE  Types'
<1>1. TypeOK'
    BY WritesType DEF Types, TypeOK
<1>2. \A p \in Proc : WellTyped(writes[p])'
    BY DEF WellTyped, Record1
<1> QED  BY <1>1, <1>2 DEF Types

LEMMA StartIsTime == 0 \in Time
    BY TimeAssumption DEF Time

LEMMA OpenStep ==
    ASSUME IInv, NEW p \in Proc, NEW o \in Operations, NEW d \in Doc, NEW w, WellTyped(w),
           Fits(o, d, w), Open(p, o, d, w)
    PROVE  IInv'
<1> USE DEF IInv
<1>1. /\ UNCHANGED <<now, doc, booked, lock, edited, purged>>
      /\ pc' = [pc EXCEPT ![p] = "open"]
      /\ job' = [job EXCEPT ![p] = <<o, d>>]
      /\ writes' = [writes EXCEPT ![p] = w]
      /\ stale' = [stale EXCEPT ![p] = FALSE]
      /\ began' = [began EXCEPT ![p] = IF o \in Timed THEN now ELSE 0]
    BY DEF Open
<1>2. /\ pc' \in [Proc -> {"idle", "ready", "open"}] /\ pc'[p] = "open"
      /\ job' \in [Proc -> {NoJob} \cup Operations \X Doc] /\ job'[p] = <<o, d>>
      /\ writes' = [r \in Proc |-> writes'[r]] /\ writes'[p] = w
      /\ stale' \in [Proc -> BOOLEAN] /\ stale'[p] = FALSE
      /\ \A r \in Proc \ {p} : /\ pc'[r] = pc[r] /\ job'[r] = job[r]
                               /\ writes'[r] = writes[r] /\ stale'[r] = stale[r]
    BY <1>1 DEF Types, TypeOK
<1>3. Types'
  <2>1. \A r \in Proc : WellTyped(writes'[r])
    BY <1>2 DEF Types
  <2>2. now' \in Time /\ lock' \in [LockKey -> Client \cup {NoOne}]
    BY <1>1 DEF Types, TypeOK
  <2>3. began' \in [Proc -> Time]
    BY <1>1, StartIsTime DEF Types, TypeOK
  <2> QED  BY <1>1, <1>2, <2>1, <2>2, <2>3, TypesKept
<1>4. Documents'
    BY <1>1, DocumentsKept
<1>5. NewQuotes'
  <2>1. o = "quote" => job'[p] = job[p]
    BY <1>2 DEF Open, Locking
  <2>2. \A r \in Proc, q \in Quote : job'[r] = <<"quote", q>> => job[r] = <<"quote", q>>
    BY <1>2, <2>1
  <2>3. \A q \in Quote : doc'[q] = doc[q]
    BY <1>1
  <2> QED  BY <2>2, <2>3 DEF NewQuotes
<1>6. \A r \in Proc : Transaction(r)'
  <2>1. ASSUME NEW r \in Proc, r # p  PROVE Transaction(r)'
    BY <1>1, <1>2, <2>1, OtherTransaction
  <2>2. Transaction(p)'
    <3>1. Fits(o, d, w)'
        BY <1>1, FitsKept
    <3>2. job'[p][1] = o /\ job'[p][2] = d
        BY <1>2
    <3>3. Fits(job[p][1], job[p][2], writes[p])'
        BY <1>2, <3>1, <3>2
    <3> QED  BY <1>2, <3>3 DEF Transaction
  <2> QED  BY <2>1, <2>2
<1> QED  BY <1>3, <1>4, <1>5, <1>6

LEMMA TakeStep ==
    ASSUME IInv, NEW p \in Client, NEW o \in Operations, NEW d \in Doc, NEW x,
           <<o, x>> \in LockKey, Take(p, o, d, x),
           o = "quote" => /\ d \in Quote => doc[d].status = "absent"
                          /\ \A r \in Client : job[r] # <<"quote", d>>
    PROVE  IInv'
<1> USE DEF IInv
<1>1. /\ UNCHANGED <<now, doc, booked, writes, stale, began, edited, purged>>
      /\ pc[p] = "idle"
      /\ pc' = [pc EXCEPT ![p] = "ready"]
      /\ job' = [job EXCEPT ![p] = <<o, d>>]
      /\ lock' = [lock EXCEPT ![<<o, x>>] = p]
    BY DEF Take
<1>2. p \in Proc
    BY DEF Proc
<1>3. /\ pc' \in [Proc -> {"idle", "ready", "open"}] /\ pc'[p] = "ready"
      /\ job' \in [Proc -> {NoJob} \cup Operations \X Doc] /\ job'[p] = <<o, d>>
      /\ \A r \in Proc \ {p} : pc'[r] = pc[r] /\ job'[r] = job[r]
    BY <1>1, <1>2 DEF Types, TypeOK
<1>4. Types'
  <2>1. \A r \in Proc : WellTyped(writes'[r])
    BY <1>1 DEF Types
  <2>2. /\ now' \in Time /\ stale' \in [Proc -> BOOLEAN] /\ began' \in [Proc -> Time]
        /\ writes' = [r \in Proc |-> writes'[r]]
    BY <1>1 DEF Types, TypeOK
  <2>3. lock' \in [LockKey -> Client \cup {NoOne}]
    BY <1>1 DEF Types, TypeOK
  <2> QED  BY <1>1, <1>3, <2>1, <2>2, <2>3, TypesKept
<1>5. Documents'
    BY <1>1, DocumentsKept
<1>6. NewQuotes'
  <2>1. \A q \in Quote : doc'[q] = doc[q]
    BY <1>1
  <2>2. \A r \in Proc, q \in Quote : job'[r] = <<"quote", q>> =>
            IF r = p THEN o = "quote" /\ q = d ELSE job[r] = <<"quote", q>>
    BY <1>3
  <2>3. \A r \in Proc, q \in Quote : job[r] = <<"quote", q>> => r \in Client
    BY DEF NewQuotes
  <2> QED  BY <2>1, <2>2, <2>3 DEF NewQuotes
<1>7. \A r \in Proc : Transaction(r)'
  <2>1. ASSUME NEW r \in Proc, r # p  PROVE Transaction(r)'
    BY <1>1, <1>3, <2>1, OtherTransaction
  <2>2. Transaction(p)'
    BY <1>1, <1>2, <1>3, NoTransaction DEF Transaction
  <2> QED  BY <2>1, <2>2
<1> QED  BY <1>4, <1>5, <1>6, <1>7

\* A transaction ends without having written.
LEMMA GiveUpStep ==
    ASSUME IInv, NEW p \in Proc, UNCHANGED <<now, doc, booked, edited, purged>>,
           lock' \in [LockKey -> Client \cup {NoOne}],
           writes' = [writes EXCEPT ![p] = Nothing], stale' = [stale EXCEPT ![p] = FALSE],
           began' = [began EXCEPT ![p] = 0],
           \/ pc' = [pc EXCEPT ![p] = "ready"] /\ UNCHANGED job
           \/ Free(p)
    PROVE  IInv'
<1> USE DEF IInv
<1>1. /\ pc' \in [Proc -> {"idle", "ready", "open"}] /\ pc'[p] # "open"
      /\ job' \in [Proc -> {NoJob} \cup Operations \X Doc] /\ job'[p] \in {NoJob, job[p]}
      /\ writes' = [r \in Proc |-> writes'[r]] /\ writes'[p] = Nothing
      /\ stale' \in [Proc -> BOOLEAN]
      /\ \A r \in Proc \ {p} : /\ pc'[r] = pc[r] /\ job'[r] = job[r]
                               /\ writes'[r] = writes[r] /\ stale'[r] = stale[r]
    BY DEF Types, TypeOK, Free
<1>2. Types'
  <2>1. \A r \in Proc : WellTyped(writes'[r])
    BY <1>1, NothingIs DEF Types
  <2>2. now' \in Time /\ began' \in [Proc -> Time]
    BY StartIsTime DEF Types, TypeOK
  <2> QED  BY <1>1, <2>1, <2>2, TypesKept
<1>3. Documents'
    BY DocumentsKept
<1>4. NewQuotes'
  <2>1. \A r \in Proc, q \in Quote : job'[r] = <<"quote", q>> => job[r] = <<"quote", q>>
    BY <1>1 DEF NoJob
  <2> QED  BY <2>1 DEF NewQuotes
<1>5. \A r \in Proc : Transaction(r)'
  <2>1. ASSUME NEW r \in Proc, r # p  PROVE Transaction(r)'
    BY <1>1, <2>1, OtherTransaction
  <2>2. Transaction(p)'
    BY <1>1, NoTransaction
  <2> QED  BY <2>1, <2>2
<1> QED  BY <1>2, <1>3, <1>4, <1>5

LEMMA UnlockType ==
    ASSUME Types, NEW p, Unlock(p)
    PROVE  lock' \in [LockKey -> Client \cup {NoOne}]
    BY DEF Types, TypeOK, Unlock

LEMMA RetryStep ==
    ASSUME IInv, NEW p \in Proc, Retry(p)
    PROVE  IInv'
<1>1. lock' \in [LockKey -> Client \cup {NoOne}]
    BY DEF Retry, IInv, Types, TypeOK
<1>2. \/ pc' = [pc EXCEPT ![p] = "ready"] /\ UNCHANGED job
      \/ Free(p)
    BY DEF Retry
<1> QED  BY <1>1, <1>2, GiveUpStep DEF Retry

LEMMA FailStep ==
    ASSUME IInv, NEW p \in Proc, Fail(p)
    PROVE  IInv'
<1>1. lock' \in [LockKey -> Client \cup {NoOne}]
    BY UnlockType DEF Fail, IInv
<1> QED  BY <1>1, GiveUpStep DEF Fail

\* The clock, and a lock that runs out.
LEMMA QuietStep ==
    ASSUME IInv, Tick \/ \E k \in LockKey : Lapse(k)
    PROVE  IInv'
<1>1. UNCHANGED <<doc, booked, pc, job, writes, stale, began, edited, purged>>
    BY DEF Tick, Lapse
<1>2. now' \in Time /\ lock' \in [LockKey -> Client \cup {NoOne}]
    BY TimeAssumption DEF IInv, Types, TypeOK, Time, Tick, Lapse
<1>3. Types'
    BY <1>1, <1>2, TypesKept DEF IInv, Types, TypeOK
<1>4. Documents'
    BY <1>1, DocumentsKept DEF IInv
<1>5. NewQuotes'
    BY <1>1 DEF IInv, NewQuotes
<1>6. \A r \in Proc : Transaction(r)'
    BY <1>1, OtherTransaction DEF IInv
<1> QED  BY <1>3, <1>4, <1>5, <1>6 DEF IInv

(***************************************************************************)
(* A transaction commits                                                   *)
(***************************************************************************)

\* What a commit of operation o on d with the writes w does to the documents.
Committed(o, d, w) ==
    /\ WellTyped(w)
    /\ Fits(o, d, w)
    /\ o = "quote" => doc[d].status = "absent"
    /\ \A x \in Doc : doc'[x] = IF x \in DOMAIN w THEN w[x] ELSE doc[x]
    /\ \A i \in Inquiry \ purged' :
         i \notin purged /\ \A q \in QuotesOf(i) \cap DOMAIN w : w[q].status # "removed"
    /\ \A i \in Inquiry \ edited' : i \notin edited /\ ~(o = "edit" /\ d = i)
    /\ \A q \in Quote \cap DOMAIN w, r \in Quote \ DOMAIN w :
         Of[q] = Of[r] /\ Stored(r) /\ w[q].status # "removed" =>
            /\ w[q].rev # doc[r].rev
            /\ ~(w[q].status = "accepted" /\ doc[r].status = "accepted")

\* A quote that is written goes one step of its life.
LEMMA QuoteStep ==
    ASSUME NEW o, NEW d, NEW w, Committed(o, d, w), NEW q \in Quote, q \in DOMAIN w
    PROVE  /\ doc'[q] = w[q]
           /\ doc[q].status # "removed" /\ w[q].status # "absent"
           /\ w[q].status \in {"draft", "sent"} => doc[q].status \in {"absent", "draft"}
           /\ doc[q].status \notin {"absent", "draft", "sent"} => w[q].status = "removed"
           /\ doc[q].status = "absent" => o = "quote" /\ d = q
           /\ \/ o = "quote" /\ d = q
              \/ w[q].status = "removed"
              \/ w[q].rev = doc[q].rev
           /\ w[q].status = "accepted" => o = "accept" /\ d = q
           /\ w[q].status = "sent" => o \in {"quote", "send"} /\ d = q
           /\ Kept(Of[q])' => w[q].status # "removed"
<1>1. <<doc[q].status, w[q].status>> \in QuoteLife
    BY DEF Committed, Fits, Follows
<1>2. /\ doc[q].status # "removed" /\ w[q].status # "absent"
      /\ w[q].status \in {"draft", "sent"} => doc[q].status \in {"absent", "draft"}
      /\ doc[q].status \notin {"absent", "draft", "sent"} => w[q].status = "removed"
    BY <1>1, NoWayBack
<1> QED  BY <1>2, Kinds DEF Committed, Fits, Follows, Kept, QuotesOf

LEMMA NotWritten ==
    ASSUME NEW o, NEW d, NEW w, Committed(o, d, w), NEW x \in Doc, x \notin DOMAIN w
    PROVE  doc'[x] = doc[x]
    BY DEF Committed

LEMMA KeptBefore ==
    ASSUME NEW o, NEW d, NEW w, Committed(o, d, w), NEW i \in Inquiry
    PROVE  /\ Kept(i)' => Kept(i)
           /\ Regular(i)' => Regular(i) /\ Kept(i)' /\ ~(o = "edit" /\ d = i)
    BY DEF Committed, Kept, Regular

\* Only a new quote is stored that was not before, and none loses its number.
LEMMA StoredKept ==
    ASSUME NEW o, NEW d, NEW w, Committed(o, d, w), NEW q \in Quote, Kept(Of[q])',
           ~(o = "quote" /\ d = q)
    PROVE  /\ Stored(q)' <=> Stored(q)
           /\ Stored(q) => doc'[q].rev = doc[q].rev
           /\ Alive(q)' => Alive(q)
<1>1. CASE q \notin DOMAIN w
    BY <1>1, NotWritten, Kinds DEF Stored, Alive
<1>2. CASE q \in DOMAIN w
  <2>1. /\ doc'[q] = w[q] /\ doc[q].status \notin {"absent", "removed"}
        /\ w[q].status \notin {"absent", "removed"} /\ w[q].rev = doc[q].rev
        /\ w[q].status \in {"draft", "sent"} => doc[q].status = "draft"
    BY <1>2, QuoteStep
  <2> QED  BY <2>1 DEF Stored, Alive
<1> QED  BY <1>1, <1>2

\* The revision of a new quote is after all before: the unique index has refused
\* the commit if it had been taken meanwhile.
LEMMA LastRevision ==
    ASSUME Types, Documents, NEW o, NEW d, NEW w, Committed(o, d, w),
           o = "quote", Kept(Of[d])'
    PROVE  /\ d \in Quote \cap DOMAIN w /\ w[d].rev \in Nat \ {0}
           /\ w[d].status \in {"draft", "sent"}
           /\ \A q \in QuotesOf(Of[d]) :
                Stored(q) => doc[q].rev \in Nat /\ doc[q].rev < w[d].rev
           /\ \A k \in 1 .. w[d].rev - 1 :
                \E r \in QuotesOf(Of[d]) : Stored(r) /\ doc[r].rev = k
           /\ \A r \in Quote \ {d} : Alive(r) /\ Of[r] = Of[d] =>
                r \in DOMAIN w /\ w[r].status = "superseded"
<1>1. /\ d \in Quote \cap DOMAIN w /\ w[d].status \in {"draft", "sent"} /\ w[d].rev >= 1
      /\ \A q \in (Quote \cap DOMAIN w) \ {d} :
           Of[q] = Of[d] /\ w[q].status = "superseded" /\ doc[q].rev < w[d].rev
    BY DEF Committed, Fits, Revises
<1>2. PICK n, i : n = w[d].rev /\ i = Of[d]
    OBVIOUS
<1>3. i \in Inquiry /\ Kept(i)
    BY <1>1, <1>2, Kinds, KeptBefore
<1>4. /\ \A k \in 1 .. n - 1 : \E r \in QuotesOf(i) : Stored(r) /\ doc[r].rev = k
      /\ \A r \in QuotesOf(i) : Alive(r) /\ doc[r].rev < n => r \in DOMAIN w
    BY <1>2, <1>3 DEF Committed, Fits, Revises
<1>5. n \in Nat
    BY <1>1, <1>2 DEF Committed, WellTyped, Record1, Record
<1>6. \A q \in QuotesOf(i) : doc[q].rev \in Nat
    BY DocRecord, Kinds DEF Record1, Record, QuotesOf
<1>7. ~Stored(d)
    BY DEF Committed, Stored
<1>8. \A q \in QuotesOf(i) : Stored(q) => doc[q].rev # n
  <2>1. SUFFICES ASSUME NEW q \in QuotesOf(i), Stored(q)  PROVE doc[q].rev # n
    OBVIOUS
  <2>2. q \in Quote /\ Of[q] = i /\ q # d
    BY <1>7, <2>1 DEF QuotesOf
  <2>3. CASE q \in DOMAIN w
    BY <1>1, <1>2, <1>5, <1>6, <2>2, <2>3
  <2>4. CASE q \notin DOMAIN w
    BY <1>1, <1>2, <2>1, <2>2, <2>4 DEF Committed
  <2> QED  BY <2>3, <2>4
<1>9. \A q \in QuotesOf(i) : Stored(q) => doc[q].rev < n
  <2>1. SUFFICES ASSUME NEW q \in QuotesOf(i), Stored(q), doc[q].rev >= n  PROVE FALSE
    BY <1>5, <1>6
  <2>2. n \in 1 .. doc[q].rev
    BY <1>1, <1>2, <1>5, <1>6, <2>1
  <2>3. PICK r \in QuotesOf(i) : Stored(r) /\ doc[r].rev = n
    BY <1>3, <2>1, <2>2 DEF Documents, Numbered
  <2> QED  BY <1>8, <2>3
<1>10. ASSUME NEW r \in Quote \ {d}, Alive(r), Of[r] = Of[d]
       PROVE  r \in DOMAIN w /\ w[r].status = "superseded"
  <2>1. r \in QuotesOf(i) /\ Stored(r)
    BY <1>2, <1>10 DEF QuotesOf, Alive, Stored
  <2>2. r \in DOMAIN w
    BY <1>4, <1>9, <1>10, <2>1
  <2> QED  BY <1>1, <1>10, <2>2
<1> QED  BY <1>1, <1>2, <1>4, <1>5, <1>6, <1>9, <1>10

LEMMA NumberedStep ==
    ASSUME Types, Documents, NEW o, NEW d, NEW w, Committed(o, d, w)
    PROVE  Numbered'
<1>1. SUFFICES ASSUME NEW i \in Inquiry, Kept(i)'
               PROVE  /\ \A q \in QuotesOf(i) : Stored(q)' =>
                           /\ doc'[q].rev >= 1
                           /\ \A k \in 1 .. doc'[q].rev :
                                \E r \in QuotesOf(i) : Stored(r)' /\ doc'[r].rev = k
                      /\ \A q, r \in QuotesOf(i) :
                           Stored(q)' /\ Stored(r)' /\ doc'[q].rev = doc'[r].rev => q = r
    BY DEF Numbered, QuotesOf
<1>2. Kept(i)
    BY <1>1, KeptBefore
<1>3. /\ \A q \in QuotesOf(i) : Stored(q) =>
           /\ doc[q].rev >= 1
           /\ \A k \in 1 .. doc[q].rev : \E r \in QuotesOf(i) : Stored(r) /\ doc[r].rev = k
      /\ \A q, r \in QuotesOf(i) : Stored(q) /\ Stored(r) /\ doc[q].rev = doc[r].rev => q = r
    BY <1>2 DEF Documents, Numbered
<1>4. \A q \in QuotesOf(i) : ~(o = "quote" /\ d = q) =>
           (Stored(q)' <=> Stored(q)) /\ (Stored(q) => doc'[q].rev = doc[q].rev)
    BY <1>1, StoredKept DEF QuotesOf
<1>5. CASE ~(o = "quote" /\ d \in QuotesOf(i))
  <2>1. \A q \in QuotesOf(i) :
           (Stored(q)' <=> Stored(q)) /\ (Stored(q) => doc'[q].rev = doc[q].rev)
    BY <1>4, <1>5
  <2> QED  BY <1>3, <2>1
<1>6. CASE o = "quote" /\ d \in QuotesOf(i)
  <2>1. Of[d] = i
    BY <1>6 DEF QuotesOf
  <2>2. PICK n : n = w[d].rev
    OBVIOUS
  <2>3. /\ d \in Quote \cap DOMAIN w /\ n \in Nat \ {0}
        /\ w[d].status \in {"draft", "sent"}
        /\ \A q \in QuotesOf(i) : Stored(q) => doc[q].rev \in Nat /\ doc[q].rev < n
        /\ \A k \in 1 .. n - 1 : \E r \in QuotesOf(i) : Stored(r) /\ doc[r].rev = k
    BY <1>1, <1>6, <2>1, <2>2, LastRevision
  <2>4. Stored(d)' /\ doc'[d].rev = n /\ ~Stored(d)
    BY <1>6, <2>2, <2>3, Kinds DEF Committed, Stored
  <2>5. \A q \in QuotesOf(i) \ {d} :
           (Stored(q)' <=> Stored(q)) /\ (Stored(q) => doc'[q].rev = doc[q].rev)
    BY <1>4
  <2>6. \A k \in 1 .. n - 1 : \E r \in QuotesOf(i) : Stored(r)' /\ doc'[r].rev = k
    BY <2>3, <2>4, <2>5
  <2>7. \A k \in 1 .. n : \E r \in QuotesOf(i) : Stored(r)' /\ doc'[r].rev = k
    <3>1. \A k \in 1 .. n : k = n \/ k \in 1 .. n - 1
        BY <2>3
    <3> QED  BY <1>6, <2>4, <2>6, <3>1
  <2>8. \A q \in QuotesOf(i) :
           Stored(q)' => doc'[q].rev >= 1 /\ doc'[q].rev \in Nat /\ doc'[q].rev <= n
    BY <1>3, <2>3, <2>4, <2>5
  <2>9. \A q \in QuotesOf(i) : Stored(q)' => \A k \in 1 .. doc'[q].rev : k \in 1 .. n
    BY <2>3, <2>8
  <2>10. \A q, r \in QuotesOf(i) :
             Stored(q)' /\ Stored(r)' /\ doc'[q].rev = doc'[r].rev => q = r
    BY <1>3, <2>3, <2>4, <2>5
  <2> QED  BY <2>7, <2>8, <2>9, <2>10
<1> QED  BY <1>5, <1>6

LEMMA OpenOfferStep ==
    ASSUME Types, Documents, NEW o, NEW d, NEW w, Committed(o, d, w)
    PROVE  OneOpenOffer'
<1>1. ASSUME NEW q \in Quote, NEW r \in Quote, Alive(q)', Alive(r)', Of[q] = Of[r],
             Kept(Of[q])'
      PROVE  q = r
  <2>1. Kept(Of[q])
    BY <1>1, KeptBefore, Kinds
  <2>2. CASE o = "quote" /\ d \in {q, r}
    <3>1. SUFFICES ASSUME q # r  PROVE FALSE
        OBVIOUS
    <3>2. PICK x \in {q, r} : x # d
        BY <3>1
    <3>3. Alive(x) /\ Of[x] = Of[d] /\ x \in Quote /\ Kept(Of[d])'
        BY <1>1, <2>2, <3>2, StoredKept
    <3>4. x \in DOMAIN w /\ w[x].status = "superseded"
        BY <2>2, <3>2, <3>3, LastRevision
    <3>5. doc'[x].status = "superseded"
        BY <3>3, <3>4, QuoteStep
    <3>6. Alive(x)'
        BY <1>1, <3>2
    <3> QED  BY <3>5, <3>6 DEF Alive
  <2>3. CASE ~(o = "quote" /\ d \in {q, r})
    <3>1. Alive(q) /\ Alive(r)
        BY <1>1, <2>3, StoredKept
    <3> QED  BY <1>1, <2>1, <3>1, OneAlive
  <2> QED  BY <2>2, <2>3
<1>2. ASSUME NEW q \in Quote, doc'[q].status = "sent", Regular(Of[q])'
      PROVE  doc'[Of[q]].status \in {"reviewing", "quoted"}
  <2>1. PICK i \in Inquiry : i = Of[q]
    BY Kinds
  <2>2. Regular(i) /\ Kept(i)' /\ ~(o = "edit" /\ d = i)
    BY <1>2, <2>1, KeptBefore
  <2>3. i \notin DOMAIN w => doc'[i] = doc[i]
    BY NotWritten, Kinds
  <2>4. i \in DOMAIN w => doc'[i] = w[i]
    BY Kinds DEF Committed
  <2>5. CASE q \in DOMAIN w
    <3>1. w[q].status = "sent" /\ o \in {"quote", "send"} /\ d = q
        BY <1>2, <2>5, QuoteStep
    <3>2. CASE i \in DOMAIN w
        BY <2>1, <2>4, <2>5, <3>1, <3>2 DEF Committed, Fits, Sends
    <3>3. CASE i \notin DOMAIN w
        <4>1. PICK r \in DOMAIN w : r \in QuotesOf(i) /\ doc[r].status = "sent"
            BY <2>1, <2>2, <3>1, <3>3 DEF Committed, Fits, Sends
        <4>2. doc[i].status \in {"reviewing", "quoted"}
            BY <2>2, <4>1, SentIsOpen DEF QuotesOf
        <4> QED  BY <2>1, <2>3, <3>3, <4>2
    <3> QED  BY <3>2, <3>3
  <2>6. CASE q \notin DOMAIN w
    <3>1. doc[q].status = "sent"
        BY <1>2, <2>6, NotWritten, Kinds
    <3>2. doc[i].status \in {"reviewing", "quoted"}
        BY <2>1, <2>2, <3>1, SentIsOpen
    <3>3. i \in DOMAIN w => w[i].status \in {"reviewing", "quoted"}
        BY <2>1, <2>2, <2>6, <3>1 DEF Committed, Fits, Closes, QuotesOf
    <3> QED  BY <2>1, <2>3, <2>4, <3>2, <3>3
  <2> QED  BY <2>5, <2>6
<1> QED  BY <1>1, <1>2 DEF OneOpenOffer, Kept, Regular

LEMMA QuotedStep ==
    ASSUME Types, Documents, NEW o, NEW d, NEW w, Committed(o, d, w)
    PROVE  QuotedBySent'
<1>1. SUFFICES ASSUME NEW i \in Inquiry, Regular(i)', doc'[i].status = "quoted"
               PROVE  \E q \in QuotesOf(i) : doc'[q].status = "sent"
    BY DEF QuotedBySent, QuotesOf
<1>2. Regular(i) /\ Kept(i)' /\ ~(o = "edit" /\ d = i)
    BY <1>1, KeptBefore
<1>3. CASE i \in DOMAIN w
  <2>1. w[i].status = "quoted"
    BY <1>1, <1>3, Kinds DEF Committed
  <2>2. d \in QuotesOf(i) \cap DOMAIN w /\ w[d].status = "sent"
    BY <1>2, <1>3, <2>1 DEF Committed, Fits, Sends
  <2> QED  BY <2>2, QuoteStep DEF QuotesOf
<1>4. CASE i \notin DOMAIN w
  <2>1. doc[i].status = "quoted"
    BY <1>1, <1>4, NotWritten, Kinds
  <2>2. PICK q \in QuotesOf(i) : doc[q].status = "sent"
    BY <1>2, <2>1 DEF Documents, QuotedBySent
  <2>3. q \in Quote /\ Of[q] = i
    BY <2>2 DEF QuotesOf
  <2>4. CASE q \notin DOMAIN w
    BY <2>2, <2>3, <2>4, NotWritten, Kinds
  <2>5. CASE q \in DOMAIN w
    <3>1. w[q].status # "removed"
        BY <1>2, <2>3, <2>5, QuoteStep
    <3>2. o = "quote" /\ w[d].status = "sent"
        BY <1>2, <1>4, <2>1, <2>2, <2>3, <2>5, <3>1 DEF Committed, Fits, TakesBack
    <3>3. q # d
        BY <2>2, <3>2 DEF Committed
    <3>4. d \in Quote \cap DOMAIN w /\ Of[d] = i
        BY <2>3, <2>5, <3>2, <3>3 DEF Committed, Fits, Revises
    <3> QED  BY <3>2, <3>4, QuoteStep DEF QuotesOf
  <2> QED  BY <2>4, <2>5
<1> QED  BY <1>3, <1>4

\* The bookings of a commit.
Counted(o, d) ==
    LET books == (o = "accept" /\ d \in Schedulable) \/ o \in {"schedule", "book"} IN
    /\ \A x \in Quote \cup Entry :
         booked'[x] = IF books /\ x = d THEN booked[x] + 1 ELSE booked[x]
    /\ books /\ d \in Quote => booked[d] = 0

\* An accepted quote stays accepted until it is deleted.
LEMMA AcceptedStays ==
    ASSUME NEW o, NEW d, NEW w, Committed(o, d, w), NEW q \in Quote, Kept(Of[q])',
           doc[q].status = "accepted"
    PROVE  doc'[q].status = "accepted"
<1>1. CASE q \in DOMAIN w
    BY <1>1, QuoteStep
<1>2. CASE q \notin DOMAIN w
    BY <1>2, NotWritten, Kinds
<1> QED  BY <1>1, <1>2

LEMMA AcceptedStep ==
    ASSUME Types, Documents, NEW o, NEW d, NEW w, Committed(o, d, w), Counted(o, d)
    PROVE  OneAccepted'
<1>1. ASSUME NEW q \in Quote, NEW r \in Quote, doc'[q].status = "accepted",
             doc'[r].status = "accepted", Of[q] = Of[r], Kept(Of[q])'
      PROVE  q = r
  <2>1. Kept(Of[q])
    BY <1>1, KeptBefore, Kinds
  <2>2. \A x \in {q, r} : IF x \in DOMAIN w
                          THEN d = x /\ w[x].status = "accepted"
                          ELSE doc[x].status = "accepted"
    BY <1>1, QuoteStep, NotWritten, Kinds
  <2>3. CASE q \in DOMAIN w /\ r \in DOMAIN w
    BY <2>2, <2>3
  <2>4. CASE q \notin DOMAIN w /\ r \notin DOMAIN w
    BY <1>1, <2>1, <2>2, <2>4 DEF Documents, OneAccepted
  <2>5. \A x \in {q, r}, y \in {q, r} : ~(x \in DOMAIN w /\ y \notin DOMAIN w)
    <3>1. SUFFICES ASSUME NEW x \in {q, r}, NEW y \in {q, r}, x \in DOMAIN w, y \notin DOMAIN w
                   PROVE  FALSE
        OBVIOUS
    <3>2. w[x].status = "accepted" /\ doc[y].status = "accepted" /\ Stored(y)
        BY <2>2, <3>1 DEF Stored
    <3> QED  BY <1>1, <3>1, <3>2 DEF Committed
  <2> QED  BY <2>3, <2>4, <2>5
<1>2. ASSUME NEW q \in Quote, Kept(Of[q])'
      PROVE  /\ booked'[q] > 0 => doc'[q].status = "accepted"
             /\ booked'[q] <= 1
  <2>1. Kept(Of[q]) /\ booked[q] \in Nat
    BY <1>2, KeptBefore, Kinds DEF Types, TypeOK
  <2>2. booked[q] > 0 => doc'[q].status = "accepted"
    BY <1>2, <2>1, AcceptedStays DEF Documents, OneAccepted
  <2>3. booked[q] <= 1
    BY <2>1 DEF Documents, OneAccepted
  <2>4. CASE booked'[q] = booked[q]
    BY <2>2, <2>3, <2>4
  <2>5. CASE booked'[q] # booked[q]
    <3>1. d = q /\ o \in {"accept", "schedule", "book"} /\ booked[q] = 0 /\ booked'[q] = 1
        BY <2>1, <2>5 DEF Counted
    <3>2. o # "book"
        BY <3>1, Kinds DEF Committed, Fits, Settles
    <3>3. CASE o = "accept"
        BY <3>1, <3>3, QuoteStep DEF Committed, Fits, Settles
    <3>4. CASE o = "schedule"
        BY <1>2, <2>1, <3>1, <3>4, AcceptedStays DEF Committed, Fits, Settles
    <3> QED  BY <3>1, <3>2, <3>3, <3>4
  <2> QED  BY <2>4, <2>5
<1> QED  BY <1>1, <1>2 DEF OneAccepted

LEMMA BookedStep ==
    ASSUME Types, Documents, NEW o, NEW d, NEW w, Committed(o, d, w), Counted(o, d),
           OneAccepted', booked' \in [Quote \cup Entry -> Nat]
    PROVE  BookedOnce'
<1>1. ASSUME NEW q \in Quote, NEW r \in Quote, booked'[q] > 0, booked'[r] > 0, Of[q] = Of[r],
             Kept(Of[q])'
      PROVE  q = r /\ booked'[q] = 1
    BY <1>1 DEF OneAccepted
<1>2. ASSUME NEW e \in Entry
      PROVE  booked'[e] = IF doc'[e].status = "booked" THEN 1 ELSE 0
  <2>1. booked[e] = IF doc[e].status = "booked" THEN 1 ELSE 0
    BY DEF Documents, BookedOnce
  <2>2. o \in {"accept", "schedule"} => d # e
    BY Kinds DEF Committed, Fits, Settles
  <2>3. CASE e \in DOMAIN w
    <3>1. /\ <<doc[e].status, w[e].status>> \in EntryLife
          /\ w[e].status = "booked" <=> o = "book"
          /\ d = e
        BY <2>3 DEF Committed, Fits, Follows
    <3>2. doc[e].status # "booked" /\ doc'[e] = w[e]
        BY <2>3, <3>1, NoEntryBack, Kinds DEF Committed
    <3> QED  BY <2>1, <2>2, <3>1, <3>2 DEF Counted
  <2>4. CASE e \notin DOMAIN w
    <3>1. ~(o = "book" /\ d = e)
        BY <2>4 DEF Committed, Fits, Settles
    <3>2. doc'[e] = doc[e]
        BY <2>4, NotWritten, Kinds
    <3> QED  BY <2>1, <2>2, <3>1, <3>2 DEF Counted
  <2> QED  BY <2>3, <2>4
<1> QED  BY <1>1, <1>2 DEF BookedOnce, Kept

(***************************************************************************)
(* What another transaction is about to write still fits                   *)
(***************************************************************************)

\* The commit of w leaves the documents of v alone.
Apart(w, v) == DOMAIN v \cap DOMAIN w = {} /\ DOMAIN v \subseteq Doc

LEMMA FollowsAcross ==
    ASSUME NEW o, NEW d, NEW w, Committed(o, d, w), NEW a, NEW x, NEW v, Apart(w, v),
           Follows(a, x, v)
    PROVE  Follows(a, x, v)'
<1>1. \A y \in DOMAIN v : doc'[y] = doc[y]
    BY DEF Apart, Committed
<1> QED  BY <1>1 DEF Follows

LEMMA RevisesAcross ==
    ASSUME Types, Documents, NEW o, NEW d, NEW w, Committed(o, d, w), NEW a, NEW x, NEW v,
           Apart(w, v), WellTyped(v), Revises(a, x, v), a = "quote" => doc[x].status = "absent"
    PROVE  Revises(a, x, v)'
<1>1. SUFFICES ASSUME a = "quote"  PROVE Revises(a, x, v)'
    BY DEF Revises
<1>2. \A y \in DOMAIN v : doc'[y] = doc[y]
    BY DEF Apart, Committed
<1>3. /\ x \in Quote \cap DOMAIN v /\ v[x].status \in {"draft", "sent"} /\ v[x].rev >= 1
      /\ \A q \in (Quote \cap DOMAIN v) \ {x} :
           Of[q] = Of[x] /\ v[q].status = "superseded" /\ doc[q].rev < v[x].rev
    BY <1>1 DEF Revises
<1>4. ASSUME Kept(Of[x])'
      PROVE  /\ \A k \in 1 .. v[x].rev - 1 :
                  \E r \in QuotesOf(Of[x]) : Stored(r)' /\ doc'[r].rev = k
             /\ \A r \in QuotesOf(Of[x]) :
                  Alive(r)' /\ doc'[r].rev < v[x].rev => r \in DOMAIN v
  <2>1. PICK i, n : i = Of[x] /\ n = v[x].rev /\ i \in Inquiry
    BY <1>3, Kinds
  <2>2. Kept(i)' /\ Kept(i) /\ n \in Nat
    BY <1>3, <1>4, <2>1, KeptBefore DEF WellTyped, Record1, Record
  <2>3. /\ \A k \in 1 .. n - 1 : \E r \in QuotesOf(i) : Stored(r) /\ doc[r].rev = k
        /\ \A r \in QuotesOf(i) : Alive(r) /\ doc[r].rev < n => r \in DOMAIN v
    BY <1>1, <2>1, <2>2 DEF Revises
  <2>4. \A r \in QuotesOf(i) : ~(o = "quote" /\ d = r) =>
           /\ Stored(r) => Stored(r)' /\ doc'[r].rev = doc[r].rev
           /\ Alive(r)' => Alive(r) /\ Stored(r)
    BY <2>2, StoredKept DEF QuotesOf, Alive, Stored
  <2>5. o = "quote" => ~Stored(d)
    BY DEF Committed, Stored
  <2>6. \A k \in 1 .. n - 1 : \E r \in QuotesOf(i) : Stored(r)' /\ doc'[r].rev = k
    BY <2>3, <2>4, <2>5
  <2>7. ASSUME NEW r \in QuotesOf(i), Alive(r)', doc'[r].rev < n  PROVE r \in DOMAIN v
    <3>1. CASE ~(o = "quote" /\ d = r)
        BY <2>3, <2>4, <2>7, <3>1
    <3>2. CASE o = "quote" /\ d = r
        <4>1. Of[d] = i
            BY <3>2 DEF QuotesOf
        <4>2. PICK m : m = w[d].rev
            OBVIOUS
        <4>3. /\ d \in Quote \cap DOMAIN w /\ m \in Nat \ {0}
              /\ \A q \in QuotesOf(i) : Stored(q) => doc[q].rev \in Nat /\ doc[q].rev < m
            BY <2>2, <3>2, <4>1, <4>2, LastRevision
        <4>4. doc'[d].rev = m
            BY <4>2, <4>3, QuoteStep
        <4>5. m \in 1 .. n - 1
            BY <2>2, <2>7, <3>2, <4>3, <4>4
        <4>6. PICK q \in QuotesOf(i) : Stored(q) /\ doc[q].rev = m
            BY <2>3, <4>5
        <4> QED  BY <4>3, <4>6
    <3> QED  BY <3>1, <3>2
  <2> QED  BY <2>1, <2>6, <2>7
<1> QED  BY <1>2, <1>3, <1>4 DEF Revises, QuotesOf

LEMMA SendsAcross ==
    ASSUME NEW o, NEW d, NEW w, Committed(o, d, w), NEW a, NEW x, NEW v, Apart(w, v),
           Sends(a, x, v), a = "quote" => x \in Quote
    PROVE  Sends(a, x, v)'
<1>1. \A y \in DOMAIN v : doc'[y] = doc[y]
    BY DEF Apart, Committed
<1>2. \A i \in Inquiry : Regular(i)' => Regular(i)
    BY KeptBefore
<1>3. a \in {"send", "quote"} => Of[x] \in Inquiry
    BY Kinds DEF Sends
<1> QED  BY <1>1, <1>2, <1>3 DEF Sends, QuotesOf

LEMMA ClosesAcross ==
    ASSUME Documents, NEW o, NEW d, NEW w, Committed(o, d, w), NEW a, NEW x, NEW v,
           Apart(w, v), Closes(a, x, v)
    PROVE  Closes(a, x, v)'
<1>1. SUFFICES ASSUME NEW i \in Inquiry \cap DOMAIN v, Regular(i)',
                      v[i].status \notin {"reviewing", "quoted"}, ~(a = "edit" /\ x = i),
                      NEW q \in QuotesOf(i), doc'[q].status = "sent"
               PROVE  q \in DOMAIN v
    BY DEF Closes, QuotesOf
<1>2. Regular(i) /\ Kept(i)' /\ i \notin DOMAIN w
    BY <1>1, KeptBefore DEF Apart
<1>3. \A r \in QuotesOf(i) : doc[r].status = "sent" => r \in DOMAIN v
    BY <1>1, <1>2 DEF Closes
<1>4. q \in Quote /\ Of[q] = i
    BY <1>1 DEF QuotesOf
<1>5. CASE q \notin DOMAIN w
    BY <1>1, <1>3, <1>4, <1>5, NotWritten, Kinds
<1>6. CASE q \in DOMAIN w
  <2>1. w[q].status = "sent" /\ o \in {"quote", "send"} /\ d = q
    BY <1>1, <1>4, <1>6, QuoteStep
  <2>2. PICK r \in DOMAIN w : r \in QuotesOf(i) /\ doc[r].status = "sent"
    BY <1>2, <1>4, <2>1 DEF Committed, Fits, Sends
  <2>3. r \in DOMAIN v
    BY <1>3, <2>2
  <2> QED  BY <2>2, <2>3 DEF Apart
<1> QED  BY <1>5, <1>6

LEMMA TakesBackAcross ==
    ASSUME Types, Documents, NEW o, NEW d, NEW w, Committed(o, d, w), NEW a, NEW x, NEW v,
           Apart(w, v), TakesBack(a, x, v)
    PROVE  TakesBack(a, x, v)'
<1>1. \A y \in DOMAIN v : doc'[y] = doc[y]
    BY DEF Apart, Committed
<1>2. SUFFICES ASSUME NEW q \in Quote \cap DOMAIN v, doc[q].status = "sent",
                      Of[q] \notin DOMAIN v, Regular(Of[q])', v[q].status # "removed",
                      ~(a = "quote" /\ v[x].status = "sent")
               PROVE  doc'[Of[q]].status # "quoted"
    BY <1>1 DEF TakesBack
<1>3. PICK i \in Inquiry : i = Of[q]
    BY Kinds
<1>4. Regular(i) /\ Kept(i)' /\ ~(o = "edit" /\ d = i)
    BY <1>2, <1>3, KeptBefore
<1>5. doc[i].status # "quoted"
    BY <1>2, <1>3, <1>4 DEF TakesBack
<1>6. q \notin DOMAIN w
    BY <1>2 DEF Apart
<1>7. ASSUME i \in DOMAIN w, w[i].status = "quoted"  PROVE FALSE
  <2>1. /\ o \in {"quote", "send"}
        /\ d \in Quote \cap DOMAIN w /\ Of[d] = i /\ w[d].status = "sent"
    BY <1>4, <1>7 DEF Committed, Fits, Sends, QuotesOf
  <2>2. Alive(q) /\ d # q
    BY <1>2, <1>6, <2>1 DEF Alive
  <2>3. CASE o = "quote"
    BY <1>3, <1>4, <1>6, <2>1, <2>2, <2>3, LastRevision
  <2>4. CASE o = "send"
    <3>1. doc[d].status = "draft"
        BY <2>1, <2>4, QuoteStep
    <3>2. Alive(d)
        BY <3>1 DEF Alive
    <3> QED  BY <1>3, <1>4, <2>1, <2>2, <3>2, OneAlive, RegularIsKept
  <2> QED  BY <2>1, <2>3, <2>4
<1>8. CASE i \in DOMAIN w
    BY <1>3, <1>7, <1>8, Kinds DEF Committed
<1>9. CASE i \notin DOMAIN w
    BY <1>3, <1>5, <1>9, NotWritten, Kinds
<1> QED  BY <1>8, <1>9

LEMMA SettlesAcross ==
    ASSUME NEW o, NEW d, NEW w, Committed(o, d, w), NEW a, NEW x, NEW v,
           Settles(a, x, v)
    PROVE  Settles(a, x, v)'
<1>1. ASSUME a = "schedule", Kept(Of[x])'  PROVE doc'[x].status = "accepted"
  <2>1. x \in Quote /\ Kept(Of[x])
    BY <1>1, KeptBefore, Kinds DEF Settles
  <2>2. doc[x].status = "accepted"
    BY <1>1, <2>1 DEF Settles
  <2> QED  BY <1>1, <2>1, <2>2, AcceptedStays
<1> QED  BY <1>1 DEF Settles

LEMMA FitsAcross ==
    ASSUME Types, Documents, NEW o, NEW d, NEW w, Committed(o, d, w), NEW a, NEW x, NEW v,
           Apart(w, v), WellTyped(v), Fits(a, x, v), a = "quote" => doc[x].status = "absent"
    PROVE  Fits(a, x, v)'
<1>1. a = "quote" => x \in Quote
    BY DEF Fits, Revises
<1> QED  BY <1>1, FollowsAcross, RevisesAcross, SendsAcross, ClosesAcross,
            TakesBackAcross,
            SettlesAcross DEF Fits

(***************************************************************************)
(* The commit                                                              *)
(***************************************************************************)

LEMMA JobIs ==
    ASSUME Types, NEW p \in Proc
    PROVE  job[p] = <<job[p][1], job[p][2]>>
<1>1. job[p] \in {NoJob} \cup Operations \X Doc
    BY DEF Types
<1> QED  BY <1>1 DEF NoJob

LEMMA CommitIs ==
    ASSUME IInv, NEW p \in Proc, NEW o, NEW d, NEW w,
           job[p][1] = o, job[p][2] = d, writes[p] = w, Commit(p)
    PROVE  Committed(o, d, w) /\ Counted(o, d) /\ booked' \in [Quote \cup Entry -> Nat]
<1> USE DEF IInv
<1>1. Running(p) /\ WellTyped(w) /\ Fits(o, d, w)
    BY DEF Commit, Running, Types, Transaction
<1>3. job[p] = <<o, d>>
    BY JobIs
<1>4. o = "quote" => doc[d].status = "absent"
  <2>1. o = "quote" => d \in Quote
    BY <1>1 DEF Fits, Revises
  <2> QED  BY <1>3, <2>1 DEF NewQuotes
<1>5. \A x \in Doc : doc'[x] = IF x \in DOMAIN w THEN w[x] ELSE doc[x]
    BY DEF Commit
<1>6. ASSUME NEW i \in Inquiry \ purged'
      PROVE  i \notin purged /\ \A q \in QuotesOf(i) \cap DOMAIN w : w[q].status # "removed"
  <2>1. purged' = purged \cup {Of[q] : q \in {r \in Quote \cap DOMAIN w :
                                                w[r].status = "removed"}}
    BY DEF Commit
  <2> QED  BY <1>6, <2>1 DEF QuotesOf
<1>7. \A i \in Inquiry \ edited' : i \notin edited /\ ~(o = "edit" /\ d = i)
    BY <1>3 DEF Commit
<1>8. \A q \in Quote \cap DOMAIN w, r \in Quote \ DOMAIN w :
         Of[q] = Of[r] /\ Stored(r) /\ w[q].status # "removed" =>
            /\ w[q].rev # doc[r].rev
            /\ ~(w[q].status = "accepted" /\ doc[r].status = "accepted")
    BY DEF Commit, IndexesHold
<1>9. Committed(o, d, w)
    BY <1>1, <1>4, <1>5, <1>6, <1>7, <1>8 DEF Committed
<1>10. PICK b : b = Books(p)
    OBVIOUS
<1>11. b <=> (o = "accept" /\ d \in Schedulable) \/ o \in {"schedule", "book"}
    BY <1>10 DEF Books
<1>12. b => d \in Quote \cup Entry
    BY <1>1, <1>11 DEF Fits, Settles
<1>13. booked \in [Quote \cup Entry -> Nat]
    BY DEF Types, TypeOK
<1>14. booked' = IF b THEN [booked EXCEPT ![d] = @ + 1] ELSE booked
    BY <1>10 DEF Commit
<1>15. b /\ d \in Quote => booked[d] = 0
    BY <1>10 DEF Commit, IndexesHold
<1>16. booked' \in [Quote \cup Entry -> Nat]
    BY <1>12, <1>13, <1>14
<1>17. Counted(o, d)
  <2>1. \A x \in Quote \cup Entry : booked'[x] = IF b /\ x = d THEN booked[x] + 1 ELSE booked[x]
    BY <1>12, <1>13, <1>14
  <2> QED  BY <1>11, <1>15, <2>1 DEF Counted
<1> QED  BY <1>9, <1>16, <1>17

LEMMA CommitStep ==
    ASSUME IInv, NEW p \in Proc, Commit(p)
    PROVE  IInv'
<1> USE DEF IInv
<1>1. PICK o, d, w : o = job[p][1] /\ d = job[p][2] /\ w = writes[p]
    OBVIOUS
<1>2. Committed(o, d, w) /\ Counted(o, d) /\ booked' \in [Quote \cup Entry -> Nat]
    BY <1>1, CommitIs
<1>3. /\ pc' \in [Proc -> {"idle", "ready", "open"}] /\ pc'[p] = "idle"
      /\ job' \in [Proc -> {NoJob} \cup Operations \X Doc] /\ job'[p] = NoJob
      /\ writes' = [r \in Proc |-> writes'[r]] /\ writes'[p] = Nothing
      /\ \A r \in Proc \ {p} : /\ pc'[r] = pc[r] /\ job'[r] = job[r]
                               /\ writes'[r] = writes[r]
    BY DEF Commit, Free, Types, TypeOK
<1>4. /\ stale' = [r \in Proc |->
            \/ stale[r]
            \/ pc[r] = "open" /\ r # p /\ DOMAIN writes[r] \cap DOMAIN w # {}]
      /\ now' = now
    BY <1>1 DEF Commit
<1>5. \A x \in Doc : Record1(x, doc'[x])
  <2>1. \A x \in Doc : doc'[x] = IF x \in DOMAIN w THEN w[x] ELSE doc[x]
    BY <1>2 DEF Committed
  <2>2. \A x \in DOMAIN w : Record1(x, w[x])
    BY <1>2 DEF Committed, WellTyped
  <2>3. \A x \in Doc : Record1(x, doc[x])
    BY DocRecord
  <2> QED  BY <2>1, <2>2, <2>3
<1>6. Types'
  <2>1. doc' \in [Doc -> Record]
    <3>1. doc' = [x \in Doc |-> doc'[x]]
        BY DEF Commit
    <3>2. \A x \in Doc : doc'[x] \in Record
        BY <1>5 DEF Record1
    <3> QED  BY <3>1, <3>2
  <2>2. /\ \A i \in Inquiry : doc'[i].status \in InquiryStatus
        /\ \A q \in Quote : doc'[q].status \in QuoteStatus
        /\ \A e \in Entry : doc'[e].status \in EntryStatus /\ doc'[e].until <= WindowEnd[e]
    BY <1>5, Kinds DEF Record1, StatusOf
  <2>3. lock' \in [LockKey -> Client \cup {NoOne}]
    BY UnlockType DEF Commit
  <2>4. stale' \in [Proc -> BOOLEAN]
    BY <1>4 DEF Types, TypeOK
  <2>5. edited' \subseteq Inquiry /\ purged' \subseteq Inquiry
    BY Kinds DEF Commit, Types, TypeOK
  <2>6. \A r \in Proc : WellTyped(writes'[r])
    BY <1>3, NothingIs DEF Types
  <2>7. now' \in Time /\ began' \in [Proc -> Time]
    BY <1>4, StartIsTime DEF Commit, Types, TypeOK
  <2>8. TypeOK'
    BY <1>2, <1>3, <2>1, <2>2, <2>3, <2>4, <2>5, <2>6, <2>7, WritesType DEF TypeOK
  <2>9. \A r \in Proc : WellTyped(writes[r])'
    BY <2>6 DEF WellTyped, Record1
  <2> QED  BY <1>3, <2>8, <2>9 DEF Types
<1>7. Documents'
  <2>1. OneAccepted'
    BY <1>2, AcceptedStep
  <2> QED  BY <1>2, <2>1, NumberedStep, OpenOfferStep, QuotedStep, BookedStep DEF
              Documents
<1>8. NewQuotes'
  <2>1. \A r \in Proc, q \in Quote :
           job'[r] = <<"quote", q>> => r # p /\ job[r] = <<"quote", q>>
    BY <1>3 DEF NoJob
  <2>2. ASSUME NEW r \in Proc, NEW q \in Quote, job'[r] = <<"quote", q>>
        PROVE  doc'[q] = doc[q]
    <3>1. r # p /\ job[r] = <<"quote", q>> /\ doc[q].status = "absent"
        BY <2>1, <2>2 DEF NewQuotes
    <3>2. q \in DOMAIN w => o = "quote" /\ d = q
        BY <1>2, <3>1, QuoteStep
    <3>3. job[p] = <<o, d>>
        BY <1>1, JobIs
    <3>4. q \notin DOMAIN w
        BY <3>1, <3>2, <3>3 DEF NewQuotes
    <3> QED  BY <1>2, <3>4, NotWritten, Kinds
  <2> QED  BY <2>1, <2>2 DEF NewQuotes
<1>9. ASSUME NEW r \in Proc  PROVE Transaction(r)'
  <2>1. CASE r = p
    BY <1>3, <2>1, NoTransaction
  <2>2. CASE r # p /\ Running(r)'
    <3>1. PICK a, x, v : a = job[r][1] /\ x = job[r][2] /\ v = writes[r]
        OBVIOUS
    <3>2. pc[r] = "open" /\ ~stale[r] /\ DOMAIN v \cap DOMAIN w = {}
        BY <1>3, <1>4, <2>2, <3>1 DEF Running
    <3>3. Fits(a, x, v) /\ WellTyped(v)
        BY <3>1, <3>2 DEF Transaction, Running, Types
    <3>4. a = "quote" => doc[x].status = "absent"
      <4>1. a = "quote" => x \in Quote
        BY <3>3 DEF Fits, Revises
      <4>2. job[r] = <<a, x>>
        BY <3>1, JobIs
      <4> QED  BY <4>1, <4>2 DEF NewQuotes
    <3>5. Apart(w, v)
        BY <3>2, <3>3 DEF Apart, WellTyped
    <3>6. Fits(a, x, v)'
        BY <1>2, <3>3, <3>4, <3>5, FitsAcross
    <3>7. job'[r][1] = a /\ job'[r][2] = x /\ writes'[r] = v
        BY <1>3, <2>2, <3>1
    <3>8. Fits(job[r][1], job[r][2], writes[r])'
        BY <3>6, <3>7
    <3>9. pc'[r] = "open"
        BY <1>3, <2>2, <3>2
    <3> QED  BY <3>8, <3>9 DEF Transaction
  <2>3. CASE r # p /\ ~Running(r)'
    BY <1>3, <2>3 DEF Transaction
  <2> QED  BY <2>1, <2>2, <2>3
<1> QED  BY <1>6, <1>7, <1>8, <1>9

(***************************************************************************)
(* The theorems                                                            *)
(***************************************************************************)

LEMMA InitIInv == Init => IInv
<1> SUFFICES ASSUME Init  PROVE IInv
    OBVIOUS
<1>1. \A x \in Doc : /\ doc[x] \in Record /\ doc[x].until = 0
                     /\ doc[x].status \in {"absent", "removed", "cancelled"}
                     /\ x \in Quote => doc[x].status = "absent"
                     /\ x \in Entry => doc[x].status \in {"absent", "cancelled"}
                     /\ x \in Inquiry => doc[x].status \in {"absent", "removed"}
  <2>1. PICK past \in Past :
           doc = [x \in Doc |-> IF x \notin past THEN Absent
                                ELSE IF x \in Entry THEN Closed("cancelled")
                                ELSE Closed("removed")]
    BY DEF Init
  <2>2. \A s \in {"absent", "removed", "cancelled"} :
           Closed(s) \in Record /\ Closed(s).until = 0 /\ Closed(s).status = s
    BY ClosedIs DEF InquiryStatus
  <2>3. past \subseteq Inquiry \cup Entry
    BY DocumentAssumption
  <2> QED  BY <2>1, <2>2, <2>3, Kinds DEF Absent
<1>2. Types
  <2>1. doc \in [Doc -> Record]
    <3>1. doc = [x \in Doc |-> doc[x]]
        BY DEF Init
    <3> QED  BY <1>1, <3>1
  <2>2. /\ \A i \in Inquiry : doc[i].status \in InquiryStatus
        /\ \A q \in Quote : doc[q].status \in QuoteStatus
        /\ \A e \in Entry : doc[e].status \in EntryStatus /\ doc[e].until <= WindowEnd[e]
    BY <1>1, Kinds, TimeAssumption DEF InquiryStatus, QuoteStatus, EntryStatus, Time
  <2>3. /\ writes = [p \in Proc |-> writes[p]]
        /\ \A p \in Proc : WellTyped(writes[p])
    BY NothingIs DEF Init
  <2>4. now \in Time /\ began \in [Proc -> Time]
    BY TimeAssumption DEF Init, Time
  <2>5. /\ booked \in [Quote \cup Entry -> Nat]
        /\ lock \in [LockKey -> Client \cup {NoOne}]
        /\ pc \in [Proc -> {"idle", "ready", "open"}]
        /\ job \in [Proc -> {NoJob} \cup Operations \X Doc]
        /\ stale \in [Proc -> BOOLEAN]
        /\ edited \subseteq Inquiry /\ purged \subseteq Inquiry
    BY DEF Init
  <2> QED  BY <2>1, <2>2, <2>3, <2>4, <2>5, WritesType DEF Types, TypeOK
<1>3. \A q \in Quote : doc[q].status = "absent" /\ booked[q] = 0
    BY <1>1, Kinds DEF Init
<1>4. Documents
  <2>1. Numbered
    BY <1>3 DEF Numbered, QuotesOf, Stored
  <2>2. OneOpenOffer
    BY <1>3 DEF OneOpenOffer, Alive
  <2>3. QuotedBySent
    BY <1>1, Kinds DEF QuotedBySent
  <2>4. OneAccepted
    BY <1>3 DEF OneAccepted
  <2>5. BookedOnce
    BY <1>1, <1>3, Kinds DEF BookedOnce, Init
  <2> QED  BY <2>1, <2>2, <2>3, <2>4, <2>5 DEF Documents
<1>5. NewQuotes
    BY DEF Init, NewQuotes, NoJob
<1>6. \A p \in Proc : Transaction(p)
    BY DEF Init, Transaction, Running
<1> QED  BY <1>2, <1>4, <1>5, <1>6 DEF IInv

LEMMA Clients ==
    /\ \A p \in Client : p \in Proc
    /\ QuoteWorker \in Proc /\ EntryWorker \in Proc
    BY DEF Proc

LEMMA InquiryOpens ==
    ASSUME IInv, NEW p \in Proc, NEW i \in Inquiry,
           \/ CreateInquiry(p, i) \/ CancelInquiry(p, i) \/ RejectInquiry(p, i)
           \/ ReviewInquiry(p, i) \/ UpdateInquiry(p, i) \/ RemoveInquiry(p, i)
    PROVE  IInv'
<1>1. Types /\ Documents /\ i \in Doc
    BY Kinds DEF IInv
<1>2. CASE CreateInquiry(p, i)
  <2>1. PICK w : w = Put(i, "new")
    OBVIOUS
  <2>2. doc[i].status = "absent" /\ Open(p, "create", i, w)
    BY <1>2, <2>1 DEF CreateInquiry
  <2>3. WellTyped(w) /\ Fits("create", i, w)
    BY <1>1, <2>1, <2>2, CreateFits
  <2> QED  BY <1>1, <2>2, <2>3, OpenStep DEF Operations
<1>3. CASE CancelInquiry(p, i)
  <2>1. PICK w : w = Both(Put(i, "cancelled"), Superseded(i, {}))
    OBVIOUS
  <2>2. Open(p, "cancel", i, w)
    BY <1>3, <2>1 DEF CancelInquiry
  <2>3. WellTyped(w) /\ Fits("cancel", i, w)
    BY <1>1, <2>1, CancelFits
  <2> QED  BY <1>1, <2>2, <2>3, OpenStep DEF Operations
<1>4. CASE RejectInquiry(p, i)
  <2>1. PICK w : w = Both(Put(i, "declined"), Superseded(i, {}))
    OBVIOUS
  <2>2. Open(p, "reject", i, w)
    BY <1>4, <2>1 DEF RejectInquiry
  <2>3. WellTyped(w) /\ Fits("reject", i, w)
    BY <1>1, <2>1, RejectFits
  <2> QED  BY <1>1, <2>2, <2>3, OpenStep DEF Operations
<1>5. CASE ReviewInquiry(p, i)
  <2>1. PICK w \in Saves(i, "reviewing") : Open(p, "review", i, w)
    BY <1>5 DEF ReviewInquiry
  <2>2. WellTyped(w) /\ Fits("review", i, w)
    BY <1>1, <2>1, ReviewFits
  <2> QED  BY <1>1, <2>1, <2>2, OpenStep DEF Operations
<1>6. CASE UpdateInquiry(p, i)
  <2>1. PICK s \in ByHand : \E w \in Saves(i, s) : Open(p, "edit", i, w)
    BY <1>6 DEF UpdateInquiry
  <2>2. PICK w \in Saves(i, s) : Open(p, "edit", i, w)
    BY <2>1
  <2>3. WellTyped(w) /\ Fits("edit", i, w)
    BY <1>1, <2>1, <2>2, UpdateFits
  <2> QED  BY <1>1, <2>2, <2>3, OpenStep DEF Operations
<1>7. CASE RemoveInquiry(p, i)
  <2>1. PICK w : w = Drop({i} \cup {q \in QuotesOf(i) : Stored(q)})
    OBVIOUS
  <2>2. Open(p, "remove", i, w)
    BY <1>7, <2>1 DEF RemoveInquiry
  <2>3. WellTyped(w) /\ Fits("remove", i, w)
    BY <1>1, <2>1, RemoveFits
  <2> QED  BY <1>1, <2>2, <2>3, OpenStep DEF Operations
<1> QED  BY <1>2, <1>3, <1>4, <1>5, <1>6, <1>7

LEMMA QuoteOpens ==
    ASSUME IInv, NEW p \in Proc, NEW q \in Quote,
           \/ CreateQuote(p, q) \/ SendQuote(p, q) \/ ExpireQuote(p, q) \/ LapseQuote(p, q)
           \/ RejectQuote(p, q) \/ RemoveQuote(p, q) \/ AcceptQuote(p, q) \/ ScheduleQuote(p, q)
    PROVE  IInv'
<1>1. Types /\ Documents /\ q \in Doc
    BY Kinds DEF IInv
<1>2. CASE CreateQuote(p, q)
  <2>1. PICK v \in Saves(Of[q], InquiryWithQuote(q)) :
           Open(p, "quote", q, NewQuote(Of[q], q, Both(Superseded(Of[q], {q}), v)))
    BY <1>2 DEF CreateQuote
  <2>2. PICK w : w = NewQuote(Of[q], q, Both(Superseded(Of[q], {q}), v))
    OBVIOUS
  <2>3. Open(p, "quote", q, w)
    BY <2>1, <2>2
  <2>4. doc[q].status = "absent"
    BY <2>3 DEF Open, Locking, IInv, NewQuotes
  <2>5. WellTyped(w) /\ Fits("quote", q, w)
    BY <1>1, <2>2, <2>4, QuoteFits
  <2> QED  BY <1>1, <2>3, <2>5, OpenStep DEF Operations
<1>3. CASE SendQuote(p, q)
  <2>1. PICK v \in Saves(Of[q], "quoted") : Open(p, "send", q, Both(Put(q, "sent"), v))
    BY <1>3 DEF SendQuote
  <2>2. PICK w : w = Both(Put(q, "sent"), v)
    OBVIOUS
  <2>3. Open(p, "send", q, w) /\ doc[q].status = "draft"
    BY <1>3, <2>1, <2>2 DEF SendQuote
  <2>4. WellTyped(w) /\ Fits("send", q, w)
    BY <1>1, <2>2, <2>3, SendFits
  <2> QED  BY <1>1, <2>3, <2>4, OpenStep DEF Operations
<1>4. CASE ExpireQuote(p, q)
  <2>1. PICK w : w = Both(Put(q, "expired"), BackToReview(Of[q]))
    OBVIOUS
  <2>2. Open(p, "expire", q, w) /\ Alive(q)
    BY <1>4, <2>1 DEF ExpireQuote
  <2>3. WellTyped(w) /\ Fits("expire", q, w)
    BY <1>1, <2>1, <2>2, ExpireFits
  <2> QED  BY <1>1, <2>2, <2>3, OpenStep DEF Operations
<1>5. CASE LapseQuote(p, q)
  <2>1. PICK w : w = Both(Put(q, "expired"),
                          IF \E r \in QuotesOf(Of[q]) \ {q} : doc[r].status = "sent" /\ InTime(r)
                          THEN Nothing
                          ELSE BackToReview(Of[q]))
    OBVIOUS
  <2>2. Open(p, "lapse", q, w) /\ Alive(q)
    BY <1>5, <2>1 DEF LapseQuote, DueQuote
  <2>3. WellTyped(w) /\ Fits("lapse", q, w)
    BY <1>1, <2>1, <2>2, LapseFits
  <2> QED  BY <1>1, <2>2, <2>3, OpenStep DEF Operations
<1>6. CASE RejectQuote(p, q)
  <2>1. PICK v \in Saves(Of[q], "reviewing") :
           Open(p, "rejectQuote", q, Both(Put(q, "rejected"), v))
    BY <1>6 DEF RejectQuote
  <2>2. PICK w : w = Both(Put(q, "rejected"), v)
    OBVIOUS
  <2>3. Open(p, "rejectQuote", q, w) /\ doc[q].status = "sent"
    BY <1>6, <2>1, <2>2 DEF RejectQuote
  <2>4. WellTyped(w) /\ Fits("rejectQuote", q, w)
    BY <1>1, <2>2, <2>3, RejectQuoteFits
  <2> QED  BY <1>1, <2>3, <2>4, OpenStep DEF Operations
<1>7. CASE RemoveQuote(p, q)
  <2>1. PICK w : w = Drop({q})
    OBVIOUS
  <2>2. Open(p, "removeQuote", q, w) /\ Stored(q)
    BY <1>7, <2>1 DEF RemoveQuote
  <2>3. WellTyped(w) /\ Fits("removeQuote", q, w)
    BY <1>1, <2>1, <2>2, RemoveQuoteFits
  <2> QED  BY <1>1, <2>2, <2>3, OpenStep DEF Operations
<1>8. CASE AcceptQuote(p, q)
  <2>1. PICK w : w = Both(Put(q, "accepted"),
                          Both(Put(Of[q], "accepted"), Superseded(Of[q], {q})))
    OBVIOUS
  <2>2. Open(p, "accept", q, w) /\ doc[q].status = "sent"
    BY <1>8, <2>1 DEF AcceptQuote
  <2>3. WellTyped(w) /\ Fits("accept", q, w)
    BY <1>1, <2>1, <2>2, AcceptFits
  <2> QED  BY <1>1, <2>2, <2>3, OpenStep DEF Operations
<1>9. CASE ScheduleQuote(p, q)
  <2>1. PICK w : w = Nothing
    OBVIOUS
  <2>2. Open(p, "schedule", q, w) /\ doc[q].status = "accepted"
    BY <1>9, <2>1 DEF ScheduleQuote, Schedulability
  <2>3. WellTyped(w) /\ Fits("schedule", q, w)
    BY <1>1, <2>1, <2>2, ScheduleFits
  <2> QED  BY <1>1, <2>2, <2>3, OpenStep DEF Operations
<1> QED  BY <1>2, <1>3, <1>4, <1>5, <1>6, <1>7, <1>8, <1>9

LEMMA EntryOpens ==
    ASSUME IInv, NEW p \in Proc, NEW e \in Entry,
           \/ Join(p, e) \/ Leave(p, e) \/ BookEntry(p, e) \/ Offer(p, e) \/ LapseEntry(p, e)
    PROVE  IInv'
<1>1. Types /\ e \in Doc
    BY Kinds DEF IInv
<1>2. /\ WindowEnd[e] \in Nat
      /\ \A s \in {"booked", "expired", "cancelled"} :
           LET w == [x \in {e} |-> Closed(s)] IN
           WellTyped(w) /\ DOMAIN w = {e} /\ w[e].status = s
  <2>1. WindowEnd[e] \in Nat
    BY TimeAssumption DEF Time
  <2>2. ASSUME NEW s \in {"booked", "expired", "cancelled"}
        PROVE  Closed(s) \in Record /\ Closed(s).status = s /\ Record1(e, Closed(s))
    BY <2>1, ClosedIs, Kinds DEF EntryStatus, Record1, StatusOf
  <2> QED  BY <1>1, <2>1, <2>2 DEF WellTyped
<1>3. ASSUME NEW o \in {"leave", "book", "lapse"},
             NEW s \in {"booked", "expired", "cancelled"}, s = "booked" <=> o = "book",
             Open(p, o, e, [x \in {e} |-> Closed(s)]), doc[e].status \in {"waiting", "offered"}
      PROVE  IInv'
  <2>1. PICK w : w = [x \in {e} |-> Closed(s)]
    OBVIOUS
  <2>2. WellTyped(w) /\ DOMAIN w = {e} /\ w[e].status = s
    BY <1>2, <2>1
  <2>3. Fits(o, e, w)
    BY <1>3, <2>2, EntryFits, WaysOfEntries
  <2>4. Open(p, o, e, w) /\ o \in Operations
    BY <1>3, <2>1 DEF Operations
  <2> QED  BY <1>1, <2>2, <2>3, <2>4, OpenStep
<1>4. CASE Join(p, e)
  <2>1. PICK w : w = Put(e, "waiting")
    OBVIOUS
  <2>2. Open(p, "join", e, w) /\ doc[e].status = "absent"
    BY <1>4, <2>1 DEF Join
  <2>3. WellTyped(w) /\ DOMAIN w = {e} /\ w[e].status = "waiting"
    BY <1>1, <2>1, PutIs, Kinds DEF StatusOf, EntryStatus
  <2>4. Fits("join", e, w)
    BY <2>2, <2>3, EntryFits, WaysOfEntries
  <2> QED  BY <1>1, <2>2, <2>3, <2>4, OpenStep DEF Operations
<1>5. CASE Offer(p, e)
  <2>1. PICK until \in now + 1 .. Horizon + 1 :
           until <= WindowEnd[e] /\ Open(p, "offer", e, Offered(e, until))
    BY <1>5 DEF Offer
  <2>2. PICK w : w = Offered(e, until)
    OBVIOUS
  <2>3. Open(p, "offer", e, w) /\ doc[e].status = "waiting"
    BY <1>5, <2>1, <2>2 DEF Offer
  <2>4. PICK r : r = [doc[e] EXCEPT !.status = "offered", !.until = until]
    OBVIOUS
  <2>5. doc[e] \in Record /\ until \in Nat
    BY <1>1, DocRecord, TimeAssumption DEF Record1, Types, TypeOK, Time
  <2>6. r = [status |-> "offered", rev |-> doc[e].rev, until |-> until]
    BY <2>4, <2>5 DEF Record
  <2>7. r \in Record /\ r.status = "offered" /\ Record1(e, r)
    BY <2>1, <2>5, <2>6, Kinds DEF Record, Record1, StatusOf, EntryStatus
  <2>8. w = [x \in {e} |-> r]
    BY <2>2, <2>4 DEF Offered
  <2>9. WellTyped(w) /\ DOMAIN w = {e} /\ w[e].status = "offered"
    BY <1>1, <2>7, <2>8 DEF WellTyped
  <2>10. Fits("offer", e, w)
    BY <2>3, <2>9, EntryFits, WaysOfEntries
  <2> QED  BY <1>1, <2>3, <2>9, <2>10, OpenStep DEF Operations
<1>6. CASE Leave(p, e)
    BY <1>3, <1>6 DEF Leave
<1>7. CASE BookEntry(p, e)
    BY <1>3, <1>7 DEF BookEntry
<1>8. CASE LapseEntry(p, e)
    BY <1>3, <1>8 DEF LapseEntry, DueEntry
<1> QED  BY <1>4, <1>5, <1>6, <1>7, <1>8

LEMMA LocksTaken ==
    ASSUME IInv, NEW p \in Client, NEW q \in Quote,
           LockInquiry(p, q) \/ LockAcceptance(p, q) \/ LockScheduling(p, q)
    PROVE  IInv'
<1>1. q \in Doc /\ Of[q] \in Inquiry
    BY Kinds
<1>2. CASE LockInquiry(p, q)
  <2>1. /\ doc[q].status = "absent" /\ Take(p, "quote", q, Of[q])
        /\ \A r \in Client : job[r] # <<"quote", q>>
    BY <1>2 DEF LockInquiry
  <2>2. <<"quote", Of[q]>> \in LockKey
    BY <1>1 DEF LockKey
  <2> QED  BY <1>1, <2>1, <2>2, TakeStep DEF Operations
<1>3. CASE LockAcceptance(p, q)
  <2>1. Take(p, "accept", q, q) /\ <<"accept", q>> \in LockKey
    BY <1>3 DEF LockAcceptance, LockKey
  <2> QED  BY <1>1, <2>1, TakeStep DEF Operations
<1>4. CASE LockScheduling(p, q)
  <2>1. Take(p, "schedule", q, q) /\ <<"schedule", q>> \in LockKey
    BY <1>4 DEF LockScheduling, LockKey
  <2> QED  BY <1>1, <2>1, TakeStep DEF Operations
<1> QED  BY <1>2, <1>3, <1>4

LEMMA NextIInv ==
    ASSUME IInv, [Next]_vars
    PROVE  IInv'
<1>1. CASE UNCHANGED vars
  <2>1. /\ UNCHANGED <<doc, booked, edited, purged>>
        /\ UNCHANGED <<now, lock, pc, job, writes, stale, began>>
    BY <1>1 DEF vars
  <2>2. Types'
    BY <2>1, TypesKept DEF IInv, Types, TypeOK
  <2>3. Documents'
    BY <2>1, DocumentsKept DEF IInv
  <2>4. NewQuotes'
    BY <2>1 DEF IInv, NewQuotes
  <2>5. \A r \in Proc : Transaction(r)'
    BY <2>1, OtherTransaction DEF IInv
  <2> QED  BY <2>2, <2>3, <2>4, <2>5 DEF IInv
<1>2. CASE Tick \/ \E k \in LockKey : Lapse(k)
    BY <1>2, QuietStep
<1>3. ASSUME NEW p \in Customer, CustomerStep(p)  PROVE IInv'
  <2>1. p \in Client /\ p \in Proc
    BY Clients DEF Client
  <2>2. CASE \E i \in Inquiry : CreateInquiry(p, i) \/ CancelInquiry(p, i)
    BY <2>1, <2>2, InquiryOpens
  <2>3. CASE \E q \in Quote : RejectQuote(p, q) \/ LockAcceptance(p, q) \/ AcceptQuote(p, q)
    BY <2>1, <2>3, QuoteOpens, LocksTaken
  <2>4. CASE \E e \in Entry : Join(p, e) \/ Leave(p, e) \/ BookEntry(p, e)
    BY <2>1, <2>4, EntryOpens
  <2> QED  BY <1>3, <2>2, <2>3, <2>4 DEF CustomerStep
<1>4. ASSUME NEW p \in Staff, StaffStep(p)  PROVE IInv'
  <2>1. p \in Client /\ p \in Proc
    BY Clients DEF Client
  <2>2. CASE \E i \in Inquiry : \/ CreateInquiry(p, i) \/ RejectInquiry(p, i)
                                \/ ReviewInquiry(p, i) \/ UpdateInquiry(p, i)
                                \/ RemoveInquiry(p, i)
    BY <2>1, <2>2, InquiryOpens
  <2>3. CASE \E q \in Quote : \/ LockInquiry(p, q) \/ CreateQuote(p, q) \/ SendQuote(p, q)
                              \/ ExpireQuote(p, q) \/ RemoveQuote(p, q)
                              \/ LockScheduling(p, q) \/ ScheduleQuote(p, q)
    BY <2>1, <2>3, QuoteOpens, LocksTaken
  <2>4. CASE \E e \in Entry : Join(p, e) \/ Leave(p, e) \/ BookEntry(p, e) \/ Offer(p, e)
    BY <2>1, <2>4, EntryOpens
  <2> QED  BY <1>4, <2>2, <2>3, <2>4 DEF StaffStep
<1>5. CASE Sweep
    BY <1>5, Clients, QuoteOpens, EntryOpens DEF Sweep
<1>6. ASSUME NEW p \in Proc, Commit(p) \/ Retry(p) \/ Fail(p)  PROVE IInv'
    BY <1>6, CommitStep, RetryStep, FailStep
<1> QED  BY <1>1, <1>2, <1>3, <1>4, <1>5, <1>6 DEF Next

\* IInv holds in every state.
THEOREM Invariance == Spec => []IInv
<1> QED  BY InitIInv, NextIInv, PTL DEF Spec

\* Documents keep a status of their schema, and an offer to a waiting customer ends with
\* the window the customer asked for.
THEOREM TypeCorrect == Spec => []TypeOK
<1>1. IInv => TypeOK
    BY DEF IInv, Types
<1> QED  BY <1>1, Invariance, PTL

\* A customer never has two offers of one inquiry to choose from, and an offer is open
\* only while its inquiry is, unless staff have set the inquiry by hand or deleted a
\* quote of it.
THEOREM OneOffer == Spec => []OneOpenOffer
<1>1. IInv => OneOpenOffer
    BY DEF IInv, Documents
<1> QED  BY <1>1, Invariance, PTL

\* One inquiry leads to one booking, and a waitlist entry to one, exactly when it is
\* booked, whatever the locks do.
THEOREM OneBooking == Spec => []BookedOnce
<1>1. IInv => BookedOnce
    BY DEF IInv, Documents
<1> QED  BY <1>1, Invariance, PTL

\* A transaction that a deadline matters to began in time, and it runs only as long as
\* nobody writes its document.
Timely(p) ==
    Running(p) =>
        /\ job[p][1] \in {"send", "accept"} => began[p] < doc[job[p][2]].until
        /\ job[p][1] = "book" =>
              doc[job[p][2]].status = "waiting" \/ began[p] < doc[job[p][2]].until

\* What a step must have checked that opens operation o on d.
Punctual(o, d) ==
    /\ o \in {"send", "accept"} => InTime(d)
    /\ o = "book" => doc[d].status = "waiting" \/ InTime(d)

LEMMA OpenTimely ==
    ASSUME IInv, \A r \in Proc : Timely(r), NEW p \in Proc, NEW o, NEW d, NEW w,
           Open(p, o, d, w), Punctual(o, d)
    PROVE  \A r \in Proc : Timely(r)'
<1>1. /\ UNCHANGED <<now, doc>>
      /\ job' = [job EXCEPT ![p] = <<o, d>>]
      /\ pc' = [pc EXCEPT ![p] = "open"]
      /\ stale' = [stale EXCEPT ![p] = FALSE]
      /\ began' = [began EXCEPT ![p] = IF o \in Timed THEN now ELSE 0]
    BY DEF Open
<1>2. /\ pc \in [Proc -> {"idle", "ready", "open"}] /\ stale \in [Proc -> BOOLEAN]
      /\ job \in [Proc -> {NoJob} \cup Operations \X Doc] /\ began \in [Proc -> Time]
    BY DEF IInv, Types, TypeOK
<1>3. job'[p][1] = o /\ job'[p][2] = d /\ (o \in Timed => began'[p] = now)
    BY <1>1, <1>2
<1>4. Timely(p)'
    BY <1>1, <1>3 DEF Timely, Punctual, InTime, Timed
<1>5. ASSUME NEW r \in Proc, r # p  PROVE Timely(r)'
  <2>1. pc'[r] = pc[r] /\ stale'[r] = stale[r] /\ job'[r] = job[r] /\ began'[r] = began[r]
    BY <1>1, <1>2, <1>5
  <2> QED  BY <1>1, <2>1 DEF Timely, Running
<1> QED  BY <1>4, <1>5

\* A process that opens no transaction leaves those of the others alone.
LEMMA ElseTimely ==
    ASSUME \A r \in Proc : Timely(r), UNCHANGED doc,
           \A r \in Proc : \/ pc'[r] # "open"
                           \/ UNCHANGED <<pc[r], stale[r], job[r], began[r]>>
    PROVE  \A r \in Proc : Timely(r)'
    BY DEF Timely, Running

LEMMA CommitTimely ==
    ASSUME IInv, \A r \in Proc : Timely(r), NEW p \in Proc, Commit(p)
    PROVE  \A r \in Proc : Timely(r)'
<1>1. /\ pc' = [pc EXCEPT ![p] = "idle"] /\ job' = [job EXCEPT ![p] = NoJob]
      /\ began' = [began EXCEPT ![p] = 0]
      /\ stale' = [r \in Proc |->
           \/ stale[r]
           \/ pc[r] = "open" /\ r # p /\ DOMAIN writes[r] \cap DOMAIN writes[p] # {}]
      /\ \A x \in Doc : doc'[x] = IF x \in DOMAIN writes[p] THEN writes[p][x] ELSE doc[x]
    BY DEF Commit, Free
<1>2. /\ pc \in [Proc -> {"idle", "ready", "open"}] /\ stale \in [Proc -> BOOLEAN]
      /\ job \in [Proc -> {NoJob} \cup Operations \X Doc] /\ began \in [Proc -> Time]
    BY DEF IInv, Types, TypeOK
<1>3. Timely(p)'
    BY <1>1, <1>2 DEF Timely, Running
<1>4. ASSUME NEW r \in Proc, r # p, Running(r)'  PROVE Timely(r)'
  <2>1. /\ pc'[r] = pc[r] /\ job'[r] = job[r] /\ began'[r] = began[r]
        /\ ~stale[r] /\ pc[r] = "open" /\ DOMAIN writes[r] \cap DOMAIN writes[p] = {}
    BY <1>1, <1>2, <1>4 DEF Running
  <2>2. Running(r) /\ Fits(job[r][1], job[r][2], writes[r])
    BY <2>1 DEF IInv, Transaction, Running
  <2>3. job[r][1] \in {"send", "accept", "book"} =>
            job[r][2] \in (Quote \cup Entry) \cap DOMAIN writes[r]
    BY <2>2 DEF Fits, Sends, Settles
  <2>4. job[r][1] \in {"send", "accept", "book"} => doc'[job[r][2]] = doc[job[r][2]]
    BY <1>1, <2>1, <2>3 DEF Doc
  <2> QED  BY <2>1, <2>2, <2>4 DEF Timely
<1>5. ASSUME NEW r \in Proc, ~Running(r)'  PROVE Timely(r)'
    BY <1>5 DEF Timely
<1> QED  BY <1>3, <1>4, <1>5

\* The operations a deadline does not matter to.
LEMMA Unhurried ==
    ASSUME NEW o, o \notin Timed, NEW d
    PROVE  Punctual(o, d)
    BY DEF Punctual, Timed

LEMMA InquiriesOpen ==
    ASSUME NEW p \in Proc, NEW i \in Inquiry,
           \/ CreateInquiry(p, i) \/ CancelInquiry(p, i) \/ RejectInquiry(p, i)
           \/ ReviewInquiry(p, i) \/ UpdateInquiry(p, i) \/ RemoveInquiry(p, i)
    PROVE  \E o, d, w : Open(p, o, d, w) /\ Punctual(o, d)
<1>1. \A o \in {"create", "cancel", "reject", "review", "edit", "remove"} : Punctual(o, i)
    BY DEF Punctual
<1>2. PICK o \in {"create", "cancel", "reject", "review", "edit", "remove"} :
          \E w : Open(p, o, i, w)
    BY ZenonT(60) DEF CreateInquiry, CancelInquiry, RejectInquiry, ReviewInquiry, UpdateInquiry,
           RemoveInquiry
<1> QED  BY <1>1, <1>2

LEMMA QuotesOpen ==
    ASSUME NEW p \in Proc, NEW q \in Quote,
           \/ CreateQuote(p, q) \/ SendQuote(p, q) \/ ExpireQuote(p, q) \/ LapseQuote(p, q)
           \/ RejectQuote(p, q) \/ RemoveQuote(p, q) \/ AcceptQuote(p, q)
           \/ ScheduleQuote(p, q)
    PROVE  \E o, d, w : Open(p, o, d, w) /\ Punctual(o, d)
<1>1. \A o \in {"quote", "expire", "lapse", "rejectQuote", "removeQuote", "schedule"} :
          Punctual(o, q)
    BY DEF Punctual
<1>2. CASE SendQuote(p, q) \/ AcceptQuote(p, q)
  <2>1. InTime(q) /\ \E o, w : Open(p, o, q, w)
    BY <1>2 DEF SendQuote, AcceptQuote
  <2>2. Punctual("send", q) /\ Punctual("accept", q)
    BY <2>1 DEF Punctual
  <2> QED  BY <1>2, <2>2 DEF SendQuote, AcceptQuote
<1>3. CASE ~(SendQuote(p, q) \/ AcceptQuote(p, q))
  <2>1. PICK o \in {"quote", "expire", "lapse", "rejectQuote", "removeQuote", "schedule"} :
            \E w : Open(p, o, q, w)
    BY <1>3, ZenonT(60) DEF CreateQuote, ExpireQuote, LapseQuote, RejectQuote, RemoveQuote,
                ScheduleQuote
  <2> QED  BY <1>1, <2>1
<1> QED  BY <1>2, <1>3

LEMMA EntriesOpen ==
    ASSUME NEW p \in Proc, NEW e \in Entry,
           \/ Join(p, e) \/ Leave(p, e) \/ BookEntry(p, e) \/ Offer(p, e) \/ LapseEntry(p, e)
    PROVE  \E o, d, w : Open(p, o, d, w) /\ Punctual(o, d)
<1>1. \A o \in {"join", "leave", "offer", "lapse"} : Punctual(o, e)
    BY DEF Punctual
<1>2. CASE BookEntry(p, e)
  <2>1. Punctual("book", e)
    BY <1>2 DEF BookEntry, Punctual
  <2> QED  BY <1>2, <2>1 DEF BookEntry
<1>3. CASE ~BookEntry(p, e)
  <2>1. PICK o \in {"join", "leave", "offer", "lapse"} : \E w : Open(p, o, e, w)
    BY <1>3, ZenonT(60) DEF Join, Leave, Offer, LapseEntry
  <2> QED  BY <1>1, <2>1
<1> QED  BY <1>2, <1>3

\* Every step that neither commits nor opens a transaction: the clock, locks taken and
\* lost, transactions given up.
LEMMA OthersTimely ==
    ASSUME IInv, \A r \in Proc : Timely(r),
           \/ UNCHANGED vars
           \/ Tick
           \/ \E k \in LockKey : Lapse(k)
           \/ \E p \in Proc : Retry(p) \/ Fail(p)
           \/ \E p \in Proc, q \in Quote :
                 LockInquiry(p, q) \/ LockAcceptance(p, q) \/ LockScheduling(p, q)
    PROVE  \A r \in Proc : Timely(r)'
<1>1. pc \in [Proc -> {"idle", "ready", "open"}] /\ stale \in [Proc -> BOOLEAN]
      /\ job \in [Proc -> {NoJob} \cup Operations \X Doc] /\ began \in [Proc -> Time]
    BY DEF IInv, Types, TypeOK
<1>2. CASE UNCHANGED vars \/ Tick \/ \E k \in LockKey : Lapse(k)
  <2>1. UNCHANGED <<doc, pc, stale, job, began>>
    BY <1>2 DEF vars, Tick, Lapse
  <2> QED  BY <2>1, ElseTimely
<1>3. ASSUME NEW p \in Proc, Retry(p) \/ Fail(p)  PROVE \A r \in Proc : Timely(r)'
  <2>1. /\ UNCHANGED doc /\ pc' \in {[pc EXCEPT ![p] = "ready"], [pc EXCEPT ![p] = "idle"]}
        /\ stale' = [stale EXCEPT ![p] = FALSE] /\ began' = [began EXCEPT ![p] = 0]
        /\ job' \in {job, [job EXCEPT ![p] = NoJob]}
    BY <1>3 DEF Retry, Fail, Free
  <2>2. \A r \in Proc : \/ pc'[r] # "open"
                        \/ UNCHANGED <<pc[r], stale[r], job[r], began[r]>>
    BY <1>1, <2>1
  <2> QED  BY <2>1, <2>2, ElseTimely
<1>4. ASSUME NEW p \in Proc, NEW q \in Quote,
             LockInquiry(p, q) \/ LockAcceptance(p, q) \/ LockScheduling(p, q)
      PROVE  \A r \in Proc : Timely(r)'
  <2>1. /\ UNCHANGED <<doc, stale, began>> /\ pc' = [pc EXCEPT ![p] = "ready"]
        /\ \E y : job' = [job EXCEPT ![p] = y]
    BY <1>4 DEF LockInquiry, LockAcceptance, LockScheduling, Take
  <2>2. \A r \in Proc : \/ pc'[r] # "open"
                        \/ UNCHANGED <<pc[r], stale[r], job[r], began[r]>>
    BY <1>1, <2>1
  <2> QED  BY <2>1, <2>2, ElseTimely
<1> QED  BY <1>2, <1>3, <1>4

LEMMA NextTimely ==
    ASSUME IInv, \A r \in Proc : Timely(r), [Next]_vars
    PROVE  \A r \in Proc : Timely(r)'
<1>1. ASSUME NEW p \in Proc, \E o, d, w : Open(p, o, d, w) /\ Punctual(o, d)
      PROVE  \A r \in Proc : Timely(r)'
    BY <1>1, OpenTimely
<1>2. ASSUME NEW p \in Customer, CustomerStep(p)  PROVE \A r \in Proc : Timely(r)'
  <2>1. p \in Proc
    BY Clients DEF Client
  <2>2. CASE \E i \in Inquiry : CreateInquiry(p, i) \/ CancelInquiry(p, i)
    BY <1>1, <2>1, <2>2, InquiriesOpen
  <2>3. CASE \E q \in Quote : RejectQuote(p, q) \/ LockAcceptance(p, q) \/ AcceptQuote(p, q)
    BY <1>1, <2>1, <2>3, QuotesOpen, OthersTimely
  <2>4. CASE \E e \in Entry : Join(p, e) \/ Leave(p, e) \/ BookEntry(p, e)
    BY <1>1, <2>1, <2>4, EntriesOpen
  <2> QED  BY <1>2, <2>2, <2>3, <2>4 DEF CustomerStep
<1>3. ASSUME NEW p \in Staff, StaffStep(p)  PROVE \A r \in Proc : Timely(r)'
  <2>1. p \in Proc
    BY Clients DEF Client
  <2>2. CASE \E i \in Inquiry : \/ CreateInquiry(p, i) \/ RejectInquiry(p, i)
                                \/ ReviewInquiry(p, i) \/ UpdateInquiry(p, i)
                                \/ RemoveInquiry(p, i)
    BY <1>1, <2>1, <2>2, InquiriesOpen
  <2>3. CASE \E q \in Quote : \/ LockInquiry(p, q) \/ CreateQuote(p, q) \/ SendQuote(p, q)
                              \/ ExpireQuote(p, q) \/ RemoveQuote(p, q)
                              \/ LockScheduling(p, q) \/ ScheduleQuote(p, q)
    BY <1>1, <2>1, <2>3, QuotesOpen, OthersTimely
  <2>4. CASE \E e \in Entry : Join(p, e) \/ Leave(p, e) \/ BookEntry(p, e) \/ Offer(p, e)
    BY <1>1, <2>1, <2>4, EntriesOpen
  <2> QED  BY <1>3, <2>2, <2>3, <2>4 DEF StaffStep
<1>4. CASE Sweep
    BY <1>1, <1>4, Clients, QuotesOpen, EntriesOpen DEF Sweep
<1>5. ASSUME NEW p \in Proc, Commit(p) \/ Retry(p) \/ Fail(p)
      PROVE  \A r \in Proc : Timely(r)'
    BY <1>5, CommitTimely, OthersTimely
<1> QED  BY <1>2, <1>3, <1>4, <1>5, OthersTimely DEF Next

\* Only a commit changes a document, and every write of it is a step of the life of
\* its document, begun in time where a deadline matters.
LEMMA NextDecides ==
    ASSUME IInv, \A p \in Proc : Timely(p), [Next]_vars
    PROVE  /\ \A q \in Quote : doc'[q].status # doc[q].status => Moves(q) \in QuoteLife
           /\ \A e \in Entry : doc'[e].status # doc[e].status => Moves(e) \in EntryLife
           /\ \A q \in Quote : Moves(q) = <<"draft", "sent">> => BegunInTime("send", q)
           /\ \A q \in Quote : Moves(q) = <<"sent", "accepted">> => BegunInTime("accept", q)
           /\ \A e \in Entry : Moves(e) = <<"offered", "booked">> => BegunInTime("book", e)
<1>1. CASE UNCHANGED doc
    BY <1>1 DEF Moves
<1>2. ASSUME NEW p \in Proc, Commit(p)
      PROVE  /\ \A q \in Quote : doc'[q].status # doc[q].status => Moves(q) \in QuoteLife
             /\ \A e \in Entry : doc'[e].status # doc[e].status => Moves(e) \in EntryLife
             /\ \A q \in Quote : Moves(q) = <<"draft", "sent">> => BegunInTime("send", q)
             /\ \A q \in Quote : Moves(q) = <<"sent", "accepted">> => BegunInTime("accept", q)
             /\ \A e \in Entry : Moves(e) = <<"offered", "booked">> => BegunInTime("book", e)
  <2>1. PICK o, d, w : o = job[p][1] /\ d = job[p][2] /\ w = writes[p]
    OBVIOUS
  <2>2. Committed(o, d, w)
    BY <1>2, <2>1, CommitIs
  <2>3. \A x \in Doc : doc'[x] = IF x \in DOMAIN w THEN w[x] ELSE doc[x]
    BY <2>2 DEF Committed
  <2>4. /\ \A q \in Quote \cap DOMAIN w : <<doc[q].status, w[q].status>> \in QuoteLife
        /\ \A e \in Entry \cap DOMAIN w : <<doc[e].status, w[e].status>> \in EntryLife
    BY <2>2 DEF Committed, Fits, Follows
  <2>5. /\ \A q \in Quote : doc'[q].status # doc[q].status => Moves(q) \in QuoteLife
        /\ \A e \in Entry : doc'[e].status # doc[e].status => Moves(e) \in EntryLife
    BY <2>3, <2>4, Kinds DEF Moves
  <2>6. /\ job[p] = <<o, d>> /\ pc[p] = "open" /\ pc'[p] # "open"
        /\ o \in {"send", "accept"} => began[p] < doc[d].until
        /\ o = "book" => doc[d].status = "waiting" \/ began[p] < doc[d].until
    <3>1. job[p] = <<o, d>>
        BY <2>1, JobIs DEF IInv
    <3>2. pc[p] = "open" /\ ~stale[p] /\ pc' = [pc EXCEPT ![p] = "idle"]
        BY <1>2 DEF Commit, Free
    <3>3. pc'[p] # "open"
        BY <3>2 DEF IInv, Types, TypeOK
    <3>4. Timely(p) /\ Running(p)
        BY <3>2 DEF Running
    <3> QED  BY <2>1, <3>1, <3>2, <3>3, <3>4 DEF Timely
  <2>7. ASSUME NEW x \in Doc, doc'[x].status # doc[x].status
        PROVE  x \in DOMAIN w /\ doc'[x] = w[x]
    BY <2>3, <2>7
  <2>8. ASSUME NEW q \in Quote, Moves(q) = <<"draft", "sent">>
        PROVE  BegunInTime("send", q)
    <3>1. doc[q].status = "draft" /\ doc'[q].status = "sent"
        BY <2>8 DEF Moves
    <3>2. q \in DOMAIN w /\ w[q].status = "sent"
        BY <2>7, <3>1, Kinds
    <3>3. o \in {"quote", "send"} /\ d = q
        BY <2>2, <3>2 DEF Committed, Fits, Follows
    <3>4. o = "send"
        BY <2>2, <3>1, <3>3 DEF Committed
    <3> QED  BY <2>6, <3>3, <3>4 DEF BegunInTime
  <2>9. ASSUME NEW q \in Quote, Moves(q) = <<"sent", "accepted">>
        PROVE  BegunInTime("accept", q)
    <3>1. doc[q].status = "sent" /\ doc'[q].status = "accepted"
        BY <2>9 DEF Moves
    <3>2. q \in DOMAIN w /\ w[q].status = "accepted"
        BY <2>7, <3>1, Kinds
    <3>3. o = "accept" /\ d = q
        BY <2>2, <3>2 DEF Committed, Fits, Follows
    <3> QED  BY <2>6, <3>3 DEF BegunInTime
  <2>10. ASSUME NEW e \in Entry, Moves(e) = <<"offered", "booked">>
         PROVE  BegunInTime("book", e)
    <3>1. doc[e].status = "offered" /\ doc'[e].status = "booked"
        BY <2>10 DEF Moves
    <3>2. e \in DOMAIN w /\ w[e].status = "booked"
        BY <2>7, <3>1, Kinds
    <3>3. o = "book" /\ d = e
        BY <2>2, <3>2 DEF Committed, Fits, Follows
    <3> QED  BY <2>6, <3>1, <3>3 DEF BegunInTime
  <2> QED  BY <2>5, <2>8, <2>9, <2>10
<1>3. UNCHANGED doc \/ \E p \in Proc : Commit(p)
  <2>1. CASE UNCHANGED vars
    BY <2>1 DEF vars
  <2>2. CASE Tick \/ \E k \in LockKey : Lapse(k)
    BY <2>2 DEF Tick, Lapse
  <2>3. CASE \E p \in Customer : CustomerStep(p)
    BY <2>3 DEF CustomerStep, CreateInquiry, CancelInquiry, RejectQuote,
       LockAcceptance,
                AcceptQuote, Join, Leave, BookEntry, Open, Take
  <2>4. CASE \E p \in Staff : StaffStep(p)
    <3>1. PICK p \in Staff : StaffStep(p)
        BY <2>4
    <3>2. CASE \E i \in Inquiry : \/ CreateInquiry(p, i) \/ RejectInquiry(p, i)
                                  \/ ReviewInquiry(p, i) \/ UpdateInquiry(p, i)
                                  \/ RemoveInquiry(p, i)
        BY <3>2 DEF CreateInquiry, RejectInquiry, ReviewInquiry, UpdateInquiry,
                    RemoveInquiry, Open
    <3>3. CASE \E q \in Quote : \/ LockInquiry(p, q) \/ CreateQuote(p, q) \/ SendQuote(p, q)
                                \/ ExpireQuote(p, q) \/ RemoveQuote(p, q)
                                \/ LockScheduling(p, q) \/ ScheduleQuote(p, q)
        BY <3>3 DEF LockInquiry, CreateQuote, SendQuote, ExpireQuote, RemoveQuote,
                    LockScheduling, ScheduleQuote, Open, Take
    <3>4. CASE \E e \in Entry : Join(p, e) \/ Leave(p, e) \/ BookEntry(p, e) \/ Offer(p, e)
        BY <3>4 DEF Join, Leave, BookEntry, Offer, Open
    <3> QED  BY <3>1, <3>2, <3>3, <3>4 DEF StaffStep
  <2>5. CASE Sweep
    BY <2>5 DEF Sweep, LapseQuote, LapseEntry, Open
  <2>6. CASE \E p \in Proc : Retry(p) \/ Fail(p)
    BY <2>6 DEF Retry, Fail
  <2> QED  BY <2>1, <2>2, <2>3, <2>4, <2>5, <2>6 DEF Next
<1> QED  BY <1>1, <1>2, <1>3

\* A quote or an entry is decided once and in time, whoever acts on it at the same
\* time.
THEOREM Decided == Spec => DecidedOnce
<1>1. Init => \A p \in Proc : Timely(p)
    BY DEF Init, Timely, Running
<1>2. IInv /\ (\A p \in Proc : Timely(p)) /\ [Next]_vars => (\A p \in Proc : Timely(p))'
    BY NextTimely
<1> QED  BY <1>1, <1>2, Invariance, NextDecides, PTL DEF Spec, DecidedOnce
=============================================================================
