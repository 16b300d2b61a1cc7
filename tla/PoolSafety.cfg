SPECIFICATION Spec
CONSTANTS
    MaxTasks = 3
    c1 = c1
    c2 = c2
    w1 = w1
    w2 = w2
    Clients = {c1}
    Workers = {w1, w2}
    Finders = {c1}
    Priorities = {0, 2, 4}
    Outcomes = {"value", "terminate"}
SYMMETRY Symmetry
INVARIANTS
    TypeOK
    OnePlace
    PromiseKept
    HintCoversUrgentTasks
    CountMissesOnlyLow
PROPERTIES
    SleepsOnlyWhenDrained
    ImplementsTaskBoard
CHECK_DEADLOCK FALSE
