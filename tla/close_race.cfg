SPECIFICATION Spec
CONSTANTS
    Requests = {r1, r2, r3}
    Entries = {e0, e1, e2, e3, e4, e5}
    Accounts = {cash, sales, fees}
    Contents = {c1, c1r, c2, c2r}
    Keys = {k1}
    Null = Null
    r1 = r1  r2 = r2  r3 = r3
    e0 = e0  e1 = e1  e2 = e2  e3 = e3  e4 = e4  e5 = e5  e6 = e6
    c1 = c1  c1r = c1r  c2 = c2  c2r = c2r
    k1 = k1
    cash = cash  sales = sales  fees = fees
    Touches <- MCTouches
    Reversal <- MCReversal
    Dated = {c1, c2}
    Workloads <- CloseWorkloads
    Starts <- LiveStarts
PROPERTY ClosedPeriodTakesNoPosting
CHECK_DEADLOCK FALSE
