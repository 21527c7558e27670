CONSTANTS
    Accounts = {cash, bank}
    ActiveAccounts = {cash, bank}
    Counter = cash
    TxnIds = {t1, t2, t3}
    Requests = {p, q, s}
    Kinds <- MCKinds
    Sources <- MCSources
    Refs = {r1}
    Dates = {d1}
    MaxPaise = 1
    Openings <- MCOpenings
    Statements <- MCStatements
    NoTxn = NoTxn
    NoSource = NoSource
    NoRef = NoRef
    NoRecord = NoRecord
SYMMETRY Symmetry
SPECIFICATION MCSessionsSpec
CHECK_DEADLOCK FALSE
INVARIANT SessionsTypeOK
INVARIANT PostedOnce
INVARIANT DeadlockOnlyByUpgrade
INVARIANT ReversalPairing
PROPERTY LockedImplementsLedger
PROPERTY ReconciliationsStand
