CONSTANTS
    Accounts = {cash}
    ActiveAccounts = {cash}
    Counter = cash
    TxnIds = {t1, t2}
    Requests = {p, q}
    Kinds <- PaymentKinds
    Sources <- PaymentSources
    Refs = {r1}
    Dates = {d1}
    MaxPaise = 1
    Openings <- OneOpening
    Statements <- MCStatements
    NoTxn = NoTxn
    NoSource = NoSource
    NoRef = NoRef
    NoRecord = NoRecord
SYMMETRY Symmetry
SPECIFICATION MCSessionsSpec
CHECK_DEADLOCK FALSE
INVARIANT BooksBalance
