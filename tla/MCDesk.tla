------------------------------- MODULE MCDesk -------------------------------
EXTENDS Desk
CONSTANTS p1, p2, i1, q1, q2, e1
MCOf == [q \in Quote |-> i1]
MCPast == {{i1}, {e1}}
MCWindowEnd == [e \in Entry |-> 1]
=============================================================================
