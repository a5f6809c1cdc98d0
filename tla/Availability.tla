---------------------------- MODULE Availability ----------------------------
(***************************************************************************)
(* What can be booked on one day at one branch.                            *)
(*                                                                         *)
(* The opening hours, the employees' shifts and breaks, their time off and *)
(* the calendar blocks are combined by a few operations on sets of time    *)
(* ranges; a service occupies its employee in some of its phases and a     *)
(* chair, a room or a piece of equipment from beginning to end.  A booking *)
(* takes several services, each checked by itself, then their sum, then    *)
(* the travel before and after.                                            *)
(*                                                                         *)
(* The day of an instance is one of Days and does not change: SlotBooking  *)
(* is about what happens when it does and when bookings race.  Here a      *)
(* booking is one step, as its locks make it.  Instants are grains of the  *)
(* slot grid, counted from midnight; prices are those of Pricing.          *)
(***************************************************************************)
EXTENDS Integers, FiniteSets, SequencesExt, Pricing

CONSTANTS
    Employee,  \* employees of the branch,
    Capacity,  \*   and how many clients each serves at a time
    Type,      \* chair, room, equipment: a service needs one of every type
    Resources, \* Resources[k]: those of type k, in the order of their codes,
    Room,      \*   and how many clients each takes at a time
    Branch,    \* stands for the branch itself
    Grid,      \* slotIntervalMinutes
    Midnight,  \* the end of the day
    Overlap,   \* allowProcessingOverlap
    Notice,    \* minimumNoticeMinutes
    Days,      \* the days considered
    Requests,  \* the bookings asked for
    Bookings   \* how many bookings there are at a time

ASSUME DayAssumption ==
    /\ Grid \in Nat \ {0}
    /\ {Midnight, Notice} \subseteq Nat
    /\ Bookings \in Nat
    /\ Overlap \in BOOLEAN
    /\ Branch \notin Employee
    /\ Capacity \in [Employee -> 1 .. 5]

Instant == 0 .. Midnight - 1

VARIABLES
    day,    \* the configuration: hours, shifts, what is blocked, who may serve
    booked, \* booked[b]: <<the request>> of booking b, <<>> when there is none
    taken   \* the reservations in the calendar

vars == <<day, booked, taken>>

-----------------------------------------------------------------------------
(* Ranges: sets of records with a start and an end that is not included *)

Span(s, e)   == [start |-> s, end |-> e]
Points(R)    == UNION {r.start .. r.end - 1 : r \in R}
Overlaps(a, b) == a.start < b.end /\ b.start < a.end
Holds(c, a)    == c.start <= a.start /\ a.end <= c.end
Earlier(a, b)  == a.start < b.start \/ (a.start = b.start /\ a.end < b.end)

\* Of ranges apart, the one that begins first; of any ranges, the last in order
\* of start and end.
First(R) == CHOOSE r \in R : \A q \in R : r.start <= q.start
Final(R) == CHOOSE r \in R : \A q \in R : q = r \/ Earlier(q, r)

\* Ranges that overlap or touch become one: they are taken in order, and each is
\* compared with the last so far.
Merge(R) ==
    MapThenFoldSet(
        LAMBDA r, merged :
            LET last == Final(merged) IN
            IF merged = {} \/ last.end < r.start THEN merged \cup {r}
            ELSE (merged \ {last}) \cup {Span(last.start, Max({last.end, r.end}))},
        {}, LAMBDA r : r, Final, {r \in R : r.end > r.start})

\* Both lists are walked at once; both ranges are left behind.
IntersectPairs(A, B) ==
    LET common[p \in (SUBSET Merge(A)) \X (SUBSET Merge(B))] ==
            IF p[1] = {} \/ p[2] = {} THEN {}
            ELSE LET l == First(p[1])
                     r == First(p[2])
                     s == Max({l.start, r.start})
                     e == Min({l.end, r.end})
                 IN  {x \in {Span(s, e)} : s < e} \cup
                       common[<<p[1] \ {l}, p[2] \ {r}>>]
    IN common[<<Merge(A), Merge(B)>>]

\* Both lists are walked at once; the range that ends first is left behind.
Intersect(A, B) ==
    LET common[p \in (SUBSET Merge(A)) \X (SUBSET Merge(B))] ==
            IF p[1] = {} \/ p[2] = {} THEN {}
            ELSE LET l == First(p[1])
                     r == First(p[2])
                     s == Max({l.start, r.start})
                     e == Min({l.end, r.end})
                 IN  {x \in {Span(s, e)} : s < e} \cup
                       common[IF l.end <= r.end THEN <<p[1] \ {l}, p[2]>> ELSE <<p[1], p[2] \ {r}>>]
    IN common[<<Merge(A), Merge(B)>>]

\* What is left of one range: the cursor moves over one exclusion after another.
Cut(source, exclusions) ==
    LET end == MapThenFoldSet(
                 LAMBDA x, acc :
                   IF x.end <= acc.cursor \/ x.start >= source.end THEN acc
                   ELSE [cursor |-> Max({acc.cursor, x.end}),
                         left   |-> acc.left \cup
                            {y \in {Span(acc.cursor, Min({x.start, source.end}))} :
                               acc.cursor < x.start}],
                 [cursor |-> source.start, left |-> {}], LAMBDA x : x, Final, exclusions)
    IN end.left \cup {y \in {Span(end.cursor, source.end)} : end.cursor < source.end}

Subtract(R, exclusions) == UNION {Cut(source, Merge(exclusions)) : source \in Merge(R)}

\* Every range needed lies in one that is available.
Covered(R, available) == \A r \in R : \E a \in Merge(available) : Holds(a, r)

\* The first point of the grid that is not before v.
AlignUp(v) == ((v + Grid - 1) \div Grid) * Grid

\* The starts on the grid that leave time to spare in a window.
StartsInside(windows, length) ==
    UNION {{t \in Instant : \E k \in 0 .. Midnight :
                t = AlignUp(w.start) + k * Grid /\ t + length < w.end} :
           w \in Merge(windows)}

\* The starts on the grid that leave enough time in a window.
Starts(windows, length) ==
    UNION {{t \in Instant : \E k \in 0 .. Midnight :
                t = AlignUp(w.start) + k * Grid /\ t + length <= w.end} :
           w \in Merge(windows)}

-----------------------------------------------------------------------------
(* Capacity *)

Units(R)    == MapThenSumSet(LAMBDA r : r.units, R)
Delta(R, t) == Units({r \in R : r.start = t}) - Units({r \in R : r.end = t})

\* The existing and the requested ranges are swept over together, and wherever
\* something is requested both must fit.
CanAllocate(existing, requested, capacity) ==
    MapThenFoldSet(
        LAMBDA t, acc :
            LET old == acc.old + Delta(existing, t)
                new == acc.new + Delta(requested, t)
            IN  [old |-> old, new |-> new,
                 ok  |-> acc.ok /\ (new > 0 => old + new <= capacity)],
        [old |-> 0, new |-> 0, ok |-> TRUE], LAMBDA t : t, Max,
        {r.start : r \in existing \cup requested} \cup
        {r.end : r \in existing \cup requested}).ok

\* What is reserved with an employee or in a room, but by booking b itself:
\* a booking that moves does not stand in its own way.
Of(who, b) == {r \in taken : r.who = who /\ r.item[1] # b}

-----------------------------------------------------------------------------
(* The context of a day *)

DefaultHours == {Span(Midnight \div 3, Midnight)}

\* Without hours for the weekday the branch is open from nine to six, except on
\* Sundays; open without intervals means the same.
BranchHours ==
    IF day.hours = <<>> THEN IF day.sunday THEN {} ELSE DefaultHours
    ELSE IF day.hours[1].closed THEN {}
    ELSE IF day.hours[1].intervals = {} THEN DefaultHours
    ELSE day.hours[1].intervals

\* An employee without shifts on the day works while the branch is open.
WorkingTime(e) ==
    LET s == day.schedule[e] IN
    Subtract(Intersect(IF s = <<>> \/ s[1].shifts = {} THEN BranchHours ELSE s[1].shifts,
                       BranchHours),
             IF s = <<>> THEN {} ELSE s[1].breaks)

\* For travel hours and schedule must both be there.
TravelTime(e) ==
    LET h == day.hours
        s == day.schedule[e] IN
    IF h = <<>> \/ h[1].closed \/ s = <<>> THEN {}
    ELSE Intersect(h[1].intervals, Subtract(s[1].shifts, s[1].breaks))

Away(who) == {Span(a.start, a.end) : a \in {a \in day.away : a.who = who}}

\* The employees a request may be for, among those it asks for: the ones that
\* are assigned to the service, and all of them when none of those is.
Assigned(asked) ==
    IF day.assigned \cap asked = {} THEN day.active \cap asked ELSE day.assigned \cap asked

\* ... who are active, take this kind of booking, have the skills and serve the
\* customer's gender.
Candidates(asked) == Assigned(asked) \cap day.active \cap day.suited

-----------------------------------------------------------------------------
(* Checking a slot *)

\* The ranges in which service d, begun at t, occupies its employee.
Phases(d, t) ==
    LET finishing == t + d.application + d.processing
        end       == finishing + d.finishing + d.buffer
        phases    ==
            {Span(t, t + d.application),
             Span(finishing, finishing + d.finishing),
             Span(finishing + d.finishing, end)} \cup
            (IF d.blocks \/ ~Overlap THEN {Span(t + d.application, finishing)} ELSE {})
    IN  {r \in phases : r.start < r.end}

Length(d)   == d.application + d.processing + d.finishing + d.buffer
Whole(d, t) == Span(t, t + Length(d))

\* Reservations of the ranges R for an item <<booking, index>>.
Take(R, who, item, units) ==
    {[who |-> who, item |-> item, start |-> r.start, end |-> r.end, units |-> units] : r \in R}

Asking == <<0, 0>>  \* the item of a check, which reserves nothing

\* The first resource of type k that has room from beginning to end: its place
\* in the list, 0 when none has.
Find(k, whole, b) ==
    SelectInSeq(Resources[k], LAMBDA x :
        CanAllocate({r \in Of(x, b) : Overlaps(r, whole)}, Take({whole}, x, Asking, 1), Room[x]))

\* Staff need not book ahead of time.
Earliest == day.now + (IF day.staff THEN 0 ELSE Notice)

\* The first check of booking b that fails.
Reason(e, d, t, b) ==
    LET whole  == Whole(d, t)
        phases == Phases(d, t)
    IN
    IF e \notin Candidates({e}) THEN "EMPLOYEE_NOT_ELIGIBLE"
    ELSE IF ~day.inWindow THEN "DATE_OUTSIDE_BOOKING_WINDOW"
    ELSE IF t < Earliest THEN "MINIMUM_NOTICE_NOT_MET"
    ELSE IF t % Grid # 0 THEN "SLOT_NOT_ALIGNED"
    ELSE IF ~\E h \in BranchHours : Holds(h, whole) THEN "BRANCH_CLOSED"
    ELSE IF \E a \in Away(Branch) : Overlaps(a, whole) THEN "BRANCH_BLOCKED"
    ELSE IF t \notin Points(WorkingTime(e)) \/ ~Covered(phases, WorkingTime(e))
         THEN "EMPLOYEE_NOT_SCHEDULED"
    ELSE IF \E a \in Away(e), r \in phases : Overlaps(a, r) THEN "EMPLOYEE_UNAVAILABLE"
    ELSE IF ~CanAllocate({r \in Of(e, b) : \E p \in phases : Overlaps(r, p)},
                         Take(phases, e, Asking, 1), Capacity[e])
         THEN "EMPLOYEE_CAPACITY_REACHED"
    ELSE IF \E k \in Type : Resources[k] # <<>> /\ Find(k, whole, b) = 0
         THEN "RESOURCE_UNAVAILABLE"
    ELSE "AVAILABLE"

\* The public list of starts for an employee.
Listed(e, d) == {t \in Starts(BranchHours, Length(d)) : Reason(e, d, t, 0) = "AVAILABLE"}

-----------------------------------------------------------------------------
(* Booking *)

Items(request)   == {<<i, request.items[i]>> : i \in 1 .. Len(request.items)}
Serving(request) == {x[2].employee : x \in Items(request)}

\* What item i of booking b takes: its employee in the phases, and from
\* beginning to end a resource of every type there is.  The items of a request
\* are checked side by side: each sees what is reserved, not its siblings.
ItemTakes(b, x) ==
    LET i == x[2] IN
    Take(Phases(i.duration, i.start), i.employee, <<b, x[1]>>, 1) \cup
    UNION {LET whole == Whole(i.duration, i.start)
           IN  Take({whole}, Resources[k][Find(k, whole, b)], <<b, x[1]>>, 1) :
           k \in {k \in Type : Resources[k] # <<>>}}

Taken(b, request) == UNION {ItemTakes(b, x) : x \in Items(request)}

\* Travel is outside the first and the last item of an employee.
TravelSpans(request, e) ==
    LET wholes == {Whole(x[2].duration, x[2].start) :
                     x \in {x \in Items(request) : x[2].employee = e}}
        first  == Min({w.start : w \in wholes})
        last   == Max({w.end : w \in wholes})
    IN  {r \in {Span(first - request.before, first), Span(last, last + request.after)} :
           r.start < r.end}

TravelUnits == 5  \* EXCLUSIVE_EMPLOYEE_RESERVATION_UNITS: the largest capacity

TravelTakes(b, request, units) ==
    UNION {Take(TravelSpans(request, e), e, <<b, 0>>, units) : e \in Serving(request)}

\* What a request takes, summed without what is reserved already.
InRequestEmployees(b, request) ==
    \A e \in Serving(request) :
        CanAllocate({}, {r \in Taken(b, request) : r.who = e} \cup
                        Take(TravelSpans(request, e), e, Asking, Capacity[e]), Capacity[e])

InRequest(b, request) ==
    /\ InRequestEmployees(b, request)
    /\ \A k \in Type : \A x \in ToSet(Resources[k]) :
         CanAllocate({}, {r \in Taken(b, request) : r.who = x}, Room[x])

\* The checks of the travel, but for the one of the working time.
TravelOnShift(request, e) == TravelSpans(request, e) = {} \/ e \in day.active \cap day.bookable
TravelClear(b, request, e) ==
    \A r \in TravelSpans(request, e) :
        /\ r.start >= day.now
        /\ \A a \in Away(Branch) \cup Away(e) : ~Overlaps(a, r)
        /\ \A x \in Of(e, b) : ~Overlaps(x, r)

TravelFree(b, request) ==
    \A e \in Serving(request) :
        /\ TravelOnShift(request, e)
        /\ TravelClear(b, request, e)
        /\ Covered(TravelSpans(request, e), TravelTime(e))

SlotsFree(b, request) ==
    \A x \in Items(request) :
        Reason(x[2].employee, x[2].duration, x[2].start, b) = "AVAILABLE"

Free(b, request) == SlotsFree(b, request) /\ InRequest(b, request) /\ TravelFree(b, request)

\* The calendar once booking b has been given what the request takes.
Calendar(b, request, units) ==
    {r \in taken : r.item[1] # b} \cup Taken(b, request) \cup TravelTakes(b, request, units)

Give(b, request, units) ==
    /\ Free(b, request)
    /\ booked' = [booked EXCEPT ![b] = <<request>>]
    /\ taken' = Calendar(b, request, units)
    /\ UNCHANGED day

BookLight(b, request) == booked[b] = <<>> /\ Give(b, request, 1)
Book(b, request) == booked[b] = <<>> /\ Give(b, request, TravelUnits)

\* The services and the travel of a booking stay as they are; a customer keeps
\* the employees too.
SameServices(old, new) ==
    /\ Len(old.items) = Len(new.items)
    /\ \A i \in 1 .. Len(old.items) :
         /\ old.items[i].duration = new.items[i].duration
         /\ day.staff \/ old.items[i].employee = new.items[i].employee
    /\ old.before = new.before /\ old.after = new.after

\* The old reservations go and the new ones come in one transaction.
Reschedule(b, request) ==
    /\ booked[b] # <<>>
    /\ SameServices(booked[b][1], request)
    /\ Give(b, request, TravelUnits)

\* A booking is cancelled and gives back what it took.
Cancel(b) ==
    /\ booked[b] # <<>>
    /\ booked' = [booked EXCEPT ![b] = <<>>]
    /\ taken' = {r \in taken : r.item[1] # b}
    /\ UNCHANGED day

-----------------------------------------------------------------------------
(* What the schemas promise of the configuration and the requests *)

AllResources == UNION {ToSet(Resources[k]) : k \in Type}

Times     == [start : 0 .. Midnight, end : 0 .. Midnight]
Durations == {d \in [application : Nat, processing : Nat, finishing : Nat, buffer : Nat,
                     blocks : BOOLEAN] : Length(d) > 0}

\* Hours, shifts and breaks are times of the day; absences are any times.
ASSUME DaysAssumption ==
    \A d \in Days :
        /\ d.hours \in Seq([closed : BOOLEAN, intervals : SUBSET Times])
        /\ d.schedule \in [Employee -> Seq([shifts : SUBSET Times, breaks : SUBSET Times])]
        /\ \A a \in d.away : a.start \in Int /\ a.end \in Int
        /\ d.now \in Int

\* A chair, a room or a piece of equipment takes one client or more and is no employee.
ASSUME ResourcesAssumption ==
    /\ IsFiniteSet(Type)
    /\ \A k \in Type : Resources[k] \in Seq(AllResources)
    /\ \A x \in AllResources : Room[x] \in Nat \ {0} /\ x \notin Employee

\* Every service takes some time.
ASSUME RequestsAssumption ==
    \A request \in Requests :
        /\ request.items \in Seq([employee : Employee, start : Int, duration : Durations])
        /\ request.before \in Nat /\ request.after \in Nat

-----------------------------------------------------------------------------
(* The system *)

Init == day \in Days /\ booked = [b \in 1 .. Bookings |-> <<>>] /\ taken = {}

Next ==
    \E b \in 1 .. Bookings :
        \/ \E request \in Requests : Book(b, request) \/ Reschedule(b, request)
        \/ Cancel(b)

Spec == Init /\ [][Next]_vars

-----------------------------------------------------------------------------
(* Properties *)

\* The ranges an employee works are, instant by instant, the shifts inside the
\* opening hours without the breaks, however the three lists overlap or touch.
WorkingTimeIsRight ==
    \A e \in Employee :
        LET s == day.schedule[e] IN
        Points(WorkingTime(e)) =
            (Points(BranchHours) \cap
               (IF s = <<>> \/ s[1].shifts = {} THEN Instant ELSE Points(s[1].shifts)))
            \ (IF s = <<>> THEN {} ELSE Points(s[1].breaks))

\* The list of free slots shows a customer every start a booking would accept,
\* and no other: listing enumerates starts in the opening hours, booking checks
\* the one it is given.
ListingIsComplete ==
    \A d \in {x[2].duration : x \in UNION {Items(request) : request \in Requests}} :
        \A e \in Candidates(Employee) :
            Listed(e, d) = {t \in Instant : Reason(e, d, t, 0) = "AVAILABLE"}

Load(who, t) == Units({r \in Of(who, 0) : r.start <= t /\ t < r.end})

IsTravel(r) == r.item[2] = 0

\* At no instant do the items booked with an employee, or in a room, exceed how
\* many clients it takes, over all bookings and their items.
NobodyOverbooked ==
    \A t \in Instant :
        /\ \A e \in Employee :
             Units({r \in Of(e, 0) : ~IsTravel(r) /\ r.start <= t /\ t < r.end}) <= Capacity[e]
        /\ \A x \in AllResources : Load(x, t) <= Room[x]

\* While an employee travels for one booking nothing else is booked with them,
\* however many clients they serve at a time and whichever booking came first; and
\* travel does not begin on the day before, when nobody checked.
TravelIsExclusive ==
    \A r \in taken : IsTravel(r) =>
        r.start >= 0 /\ \A x \in Of(r.who, 0) \ {r} : ~Overlaps(r, x)

\* Whatever the items of a booking cost and ask in advance, it can be stored: a
\* required advance is never rounded away.  And the price shown to the customer
\* holds, whatever each item turns out to cost within its own price.
PricesHold ==
    /\ \A b \in 1 .. Bookings : booked[b] # <<>> =>
         Len(booked[b][1].items) \notin Mispriced
    /\ QuotesAreStorable
=============================================================================
