SPECIFICATION Spec
CONSTANTS
    Calls = {c1, c2}
    Editors = {e1}
    Entered = {0}
    BankAccounts = {a1, a2}
    Numbers = {"unknown", "n1"}
    FirstNumber <- MCFirstNumber
    Lines = {"fee", "sale", "note"}
    Amount <- MCAmount
    Day <- MCDay
    Expected <- MCExpected
    Files <- MCFiles
SYMMETRY MCSymmetry
INVARIANTS
    TypeOK
    OneRowPerLine
    LinesAreAccountedFor
    BalanceIsNewestClosing
    DeadlocksAreOfOneDay
CHECK_DEADLOCK FALSE
