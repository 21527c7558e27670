\* The bounds of MCLedger; the one invariant is what the adjustment service says of a checkpoint.
CONSTANTS
    Accounts = {cash, bank}
    ActiveAccounts = {cash, bank}
    TxnIds = {t1, t2, t3}
    Sources = {s1, s2}
    Refs = {r1}
    Dates = {d1}
    MaxPaise = 2
    Openings <- MCOpenings
    Statements <- MCStatements
    NoTxn = NoTxn
    NoSource = NoSource
    NoRef = NoRef
    NoRecord = NoRecord
SYMMETRY Symmetry
SPECIFICATION Spec
INVARIANT ResolvedStatementStands
CHECK_DEADLOCK FALSE
