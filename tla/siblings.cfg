CONSTANTS
    e1 = e1
    e2 = e2
    branch = branch
    chair1 = chair1
    chair2 = chair2
    room1 = room1
    Employee = {e1, e2}
    Capacity <- MCCapacity
    Type = {"chair", "room", "equipment"}
    Resources <- NoResources
    Room <- MCRoom
    Branch = branch
    Grid = 2
    Midnight = 12
    Overlap = TRUE
    Notice = 2
    Days <- MCDays
    Requests <- Together
    Bookings = 3
    Amounts = {0, 1, 50}
    Percentages = {1, 50, 100}
SPECIFICATION Spec
INVARIANTS NobodyOverbooked
CHECK_DEADLOCK FALSE
