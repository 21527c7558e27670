\* Two accounts and three rows: a posting, its reversal and a second posting, or a
\* second posting on the other account.  Two donations, three payments, two requests.
CONSTANTS
    Desks = {"ledger", "donations"}
    Accounts = {cash, bank}
    ActiveAccounts = {cash, bank}
    TxnIds = {t1, t2, t3}
    Sources = {s1, s2}
    Refs = {r1}
    Dates = {day}
    MaxPaise = 2
    Openings <- MCOpenings
    Statements <- MCStatements
    NoTxn = NoTxn
    NoSource = NoSource
    NoRef = NoRef
    NoRecord = NoRecord
    Donations = {s1, s2}
    Payments = {t1, t2, t3}
    Requests = {p, q}
    Creators = {NoUser, treasurer}
    NoUser = NoUser
    NoDonation = NoDonation
    NoPayment = NoPayment
    NoCall = NoCall
SYMMETRY BooksSymmetry
SPECIFICATION BooksSpec
CHECK_DEADLOCK FALSE
INVARIANTS
    BooksTypeOK
    ReversalPairing BooksBalance DerivationsAgree
    PaymentPostedOnce SuccessMeansPosted DroppedOnlyAfterFailure
PROPERTIES
    RowsPermanent
