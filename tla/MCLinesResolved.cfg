SPECIFICATION OfficeSpec
CHECK_DEADLOCK FALSE
CONSTANTS
    Desks = {"lines"}
    Requests = {r1, r2}
    Officers = {u1, u2}
    Nobody = nobody
    NoJob = noJob
    Commitments = {c1}
    MaxTarget = 3
    MaxPaid = 4
    Forms = {i1, i2}
    Rows = {j1, j2, j3}
    NoRow = noRow
    Records = {k1}
    Lines = {i1, i2}
    LedgerRows = {t1, t2}
    Days = {d1}
    BankRefs = {b1}
    NoBankRef = noBankRef
    NoMatch = noMatch
    Events = {e1}
    Limits = {1, 2}
    MaxSpent = 1
    MaxRevision = 2
    Years = {y1}
    Occasions = {i1, i2}
    MaxRecords = 1
    Applicants = {a1}
    Roles = {volunteer, treasurer}
    SystemRoles = {volunteer}
    Volunteer = volunteer
    Permissions = {p1}
    Contents = {i1, i2}
    Corrupt = corrupt
    Paths = {j1, j2, j3}
    Names = {i1, i2}
    NoFile = noFile
    MaxDocs = 1
    MaxPacks = 1
INVARIANT ResolvedLinesMatched
