SPECIFICATION Spec
CONSTANTS
    Tokens = {"pay", "fee", "a", "b", "c", "d"}
    AnyToken = "any"
    Calls = {c1, c2, c3}
    Entities = {"e1", "e2"}
    Accounts = {"x", "y"}
    Txs = {"t1", "t3"}
    Text <- MCTexts
    Payee <- MCPayee
    Shared = {"t1"}
    Starts <- MCStarts
SYMMETRY MCSymmetry
INVARIANTS
    TypeOK
    OneVoice
    ContestedIsNotCertain
    
    ContradictionsAreRecorded
CHECK_DEADLOCK FALSE
