SPECIFICATION FairSpec
CONSTANTS
    MaxTasks = 2
    c1 = c1
    c2 = c2
    w1 = w1
    w2 = w2
    Clients = {c1}
    Workers = {w1, w2}
    Finders = {c1}
    Priorities = {2, 4}
    Outcomes = {"value", "exception"}
PROPERTIES
    AwakeWorkersDrain
    ShutdownCompletes
CHECK_DEADLOCK FALSE
