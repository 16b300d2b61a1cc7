SPECIFICATION Spec
CONSTANTS
    MaxTasks = 2
    c1 = c1
    c2 = c2
    w1 = w1
    w2 = w2
    Clients = {c1}
    Workers = {w1, w2}
    Finders = {}
    Priorities = {2, 4}
    Outcomes = {"value"}
INVARIANT
    QueueIndexInRange
CHECK_DEADLOCK FALSE
