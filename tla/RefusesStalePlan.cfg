SPECIFICATION Spec
CONSTANTS
    Clients = {c1, c2}
    Events = {"task_a", "task_b"}
    Defs = {d1, d2}
    Absent = Absent
    Files <- MCFiles
    Puts <- MCPuts
    d1 = d1
    d2 = d2
    MaxAudit = 3
PROPERTY RefusesStalePlan
CHECK_DEADLOCK FALSE
