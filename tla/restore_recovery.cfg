SPECIFICATION Spec
CONSTANTS
    Procs = {p1, p2, op}
    Requests = {n1}
    Restores = {r1, r2}
    Resumes = {c1, c2}
    Operator = op
    Files = {cfg, logo}
    ProcOf <- MCProcOf
    NoId = NoId  Torn = Torn  Original = Original  Hand = Hand
    MaxCrashes = 2
    MaxStarts = 1
    p1 = p1  p2 = p2  op = op  n1 = n1  r1 = r1  r2 = r2  c1 = c1  c2 = c2
    cfg = cfg  logo = logo
INVARIANTS TypeOK NoWorkWhileRecovering OneOwnerActs OpenMeansWhole
PROPERTIES HandEditsStand ImplementsPromise
CHECK_DEADLOCK FALSE
