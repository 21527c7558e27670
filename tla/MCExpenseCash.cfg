CONSTANTS
    Requests = {p}
    Expenses = {e1, e2}
    Users = {u1, u2}
    Vendors = {v1}
    Refs = {r1}
    MaxAmount = 1
    Blank = Blank
    NoUser = NoUser
    NoVendor = NoVendor
    NoRecord = NoRecord
SYMMETRY Symmetry
SPECIFICATION MCWorkflowSpec
CHECK_DEADLOCK FALSE
INVARIANT CashNeedsNoReference
