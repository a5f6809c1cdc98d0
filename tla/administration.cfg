CONSTANTS
    a1 = a1
    a2 = a2
    m = m
    me = me
    A = A
    B = B
    o1 = o1
    o2 = o2
    h1 = h1
    h2 = h2
    d1 = d1
    s1 = s1
    s2 = s2
    l1 = l1
    l2 = l2
    x1 = x1
    k1 = k1
    k2 = k2
    k3 = k3
    Admin = {a1, a2}
    Manager = {m}
    Own = {me}
    Granted <- MCGranted
    Branch = {A, B}
    Main = A
    Offer = {o1, o2}
    Hours = {h1, h2}
    Forever = 9
    Duty = {d1}
    Shift = {s1, s2}
    Leave = {l1, l2}
    Resource = {x1}
    Category = {k1, k2, k3}
    Agendas <- MCAgendas
SPECIFICATION Spec
INVARIANTS
    TypeOK
    SettingsFitBranches
    WithdrawnServiceIsNotOffered
    PlansNeverOverlap
    CatalogInOrder
    DismissedCannotWork
PROPERTIES
    ServedWhereAllowed
    StaffPlacedWhereAllowed
    ManagersKeepToTheirBranches
CHECK_DEADLOCK FALSE
