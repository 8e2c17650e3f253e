SPECIFICATION Spec
CONSTANTS
    Requests = {r1, r2, r3, r4}
    Txns = {t1, t2}
    Accounts = {sales, fees, suspense}
    Null = Null
    r1 = r1  r2 = r2  r3 = r3  r4 = r4  r5 = r5
    t1 = t1  t2 = t2
    sales = sales  fees = fees  suspense = suspense
    Amount <- MCAmount
    Odd <- MCOdd
    Suspense = suspense
    Workloads <- ReapplyWorkloads
CONSTRAINT Serial
INVARIANT AtMostOnePosting
CHECK_DEADLOCK FALSE
