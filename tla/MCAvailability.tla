--------------------------- MODULE MCAvailability ---------------------------
(* Instances of Availability for TLC. *)
EXTENDS Availability, TLC

CONSTANTS e1, e2, branch, chair1, chair2, room1

\* e1 serves one client at a time and e2 two; a service needs one of two chairs,
\* and the room, which takes two clients.
MCCapacity  == e1 :> 1 @@ e2 :> 2
MCResources == "chair" :> <<chair1, chair2>> @@ "room" :> <<room1>> @@ "equipment" :> <<>>
NoResources == [k \in {"chair", "room", "equipment"} |-> <<>>]
MCRoom      == chair1 :> 1 @@ chair2 :> 1 @@ room1 :> 2

Shift(shifts, breaks)     == <<[shifts |-> shifts, breaks |-> breaks]>>
Hours(closed, intervals)  == <<[closed |-> closed, intervals |-> intervals]>>
Absent(who, s, e)         == [who |-> who, start |-> s, end |-> e]

\* An ordinary day: the branch is shut around noon, e1 has two breaks that
\* touch, e2 no schedule.
Plain ==
    [hours |-> Hours(FALSE, {Span(3, 7), Span(8, 12)}), sunday |-> FALSE,
     schedule |-> e1 :> Shift({Span(2, 12)}, {Span(5, 6), Span(4, 5)}) @@ e2 :> <<>>,
     away |-> {Absent(e2, 10, 11)},
     assigned |-> {e1, e2}, active |-> {e1, e2}, bookable |-> {e1, e2}, suited |-> {e1, e2},
     inWindow |-> TRUE, now |-> 1, staff |-> FALSE]

\* Shifts that touch and a break at the end of one, booked by staff the day before.
Broken ==
    [Plain EXCEPT !.hours = Hours(FALSE, {Span(0, 11)}), !.staff = TRUE, !.away = {},
                  !.schedule = e1 :> Shift({Span(0, 5), Span(5, 9)}, {Span(8, 9)}) @@
                               e2 :> Shift({Span(0, 12)}, {Span(0, 1)}),
                  !.now = -6]

\* No hours, the branch shut for a while, nobody assigned.
Bare == [Plain EXCEPT !.hours = <<>>, !.assigned = {}, !.away = {Absent(branch, 6, 7)},
                      !.suited = {e1}]

\* Days on which nothing can be had.
Shut == {[Bare EXCEPT !.sunday = TRUE], [Plain EXCEPT !.hours = Hours(TRUE, {})],
         [Plain EXCEPT !.inWindow = FALSE]}

MCDays == {Plain, Broken, Bare} \cup Shut

\* A cut takes two grains; a colour leaves its employee free in the middle.
Cutting == [application |-> 1, processing |-> 0, finishing |-> 0, buffer |-> 1, blocks |-> FALSE]
Colour  == [application |-> 1, processing |-> 1, finishing |-> 1, buffer |-> 0, blocks |-> FALSE]

Item(e, t, d) == [employee |-> e, start |-> t, duration |-> d]
Request(items, before, after) == [items |-> items, before |-> before, after |-> after]

Singles == {Request(<<Item(e, t, d)>>, 0, 0) :
              e \in {e1, e2}, t \in {4, 6, 8}, d \in {Cutting, Colour}}
Visits  == {Request(<<Item(e, t, Cutting)>>, 1, 1) : e \in {e1, e2}, t \in {4, 8}}
Pairs   == {Request(<<Item(e1, 4, Cutting), Item(e, t, Cutting)>>, 0, 0) :
              e \in {e1, e2}, t \in {4, 6}}
Early   == {Request(<<Item(e2, 2, Cutting)>>, 3, 0)}

MCRequests == Singles \cup Visits \cup Pairs \cup Early

\* Two friends come together, to an employee who serves two clients at a time.
Together == {Request(<<Item(e2, 4, Cutting), Item(e2, 4, Cutting)>>, 0, 0),
             Request(<<Item(e2, 4, Cutting)>>, 0, 0)}
=============================================================================
