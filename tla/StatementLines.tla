---------------------------- MODULE StatementLines ----------------------------
(***************************************************************************)
(* The lines of bank statements (reconciliation_service.py): imported into *)
(* a reconciliation record, matched one by one with ledger rows of the     *)
(* same account and amount, and the record finalized when all are matched. *)
(* Nothing is locked; every check is a read of its own before the commit.  *)
(***************************************************************************)
EXTENDS WebRequests

CONSTANTS
    Records, Lines, LedgerRows,
    Days,    \* dates of rows and of lines
    BankRefs,
    NoBankRef, NoMatch

\* NULL is no row.
ASSUME LinesAssumption == NoMatch \notin LedgerRows \cup Records

VARIABLES
    recordState,   \* ReconciliationRecord.status
    balanced,      \* whether the difference computed with the record is zero
    line,          \* the reconciliation_lines table
    row,           \* the ledger rows of the account with the lines' amount
    raced,         \* history: rows that two requests found for two lines at once
    late,          \* history: lines that came while finalize counted, or after it
    reviewed       \* history: records resolved without finalize, by the difference alone

tableVars == <<recordState, balanced, line, row>>
lineHistory == <<raced, late, reviewed>>
lineVars == <<tableVars, lineHistory, requestVars>>

NoLine == [of |-> NoMatch, day |-> NoMatch, ref |-> NoBankRef, match |-> NoMatch]

NotPosted == [life |-> "NONE", day |-> NoMatch, ref |-> NoBankRef]

LinesInit ==
    /\ recordState = [k \in Records |-> "NONE"]
    /\ balanced = [k \in Records |-> FALSE]
    /\ line = [l \in Lines |-> NoLine]
    /\ row = [t \in LedgerRows |-> NotPosted]
    /\ raced = {} /\ late = {} /\ reviewed = {}
    /\ RequestsInit

-----------------------------------------------------------------------------
\* reconcile_account (modelled in LedgerSessions).
MakeRecord(k, b) ==
    /\ recordState[k] = "NONE"
    /\ recordState' = [recordState EXCEPT ![k] = IF b THEN "MATCHED" ELSE "ADJUSTMENT_REQUIRED"]
    /\ balanced' = [balanced EXCEPT ![k] = b]
    /\ UNCHANGED <<line, row, lineHistory, requestVars>>

\* The ledger gets a row, with a reference no other row has.
PostLedgerRow(t, d, x) ==
    /\ row[t].life = "NONE"
    /\ x # NoBankRef => \A q \in LedgerRows : row[q].ref # x
    /\ row' = [row EXCEPT ![t] = [life |-> "LIVE", day |-> d, ref |-> x]]
    /\ UNCHANGED <<recordState, balanced, line, lineHistory, requestVars>>

\* A correction undoes a row by another one, which is a row like any other to match_line.
ReverseLedgerRow(t, new, d) ==
    /\ row[t].life = "LIVE"
    /\ row[new].life = "NONE"
    /\ row' = [row EXCEPT ![t].life = "REVERSED",
                          ![new] = [life |-> "REVERSAL", day |-> d, ref |-> NoBankRef]]
    /\ UNCHANGED <<recordState, balanced, line, lineHistory, requestVars>>

LinesOf(k) == {l \in Lines : line[l].of = k}

IsMatched(l) == line[l].match # NoMatch

-----------------------------------------------------------------------------
Unresolved(k) == recordState[k] \notin {"NONE", "RESOLVED"}

\* import_lines: the record and the references it already has are read first.
LoadImport(r, k, new) ==
    /\ Unresolved(k)
    /\ new # {} /\ \A l \in new : line[l] = NoLine
    /\ Arrive(r, [of |-> k, lines |-> new], "importing", NoJob)
    /\ UNCHANGED <<tableVars, lineHistory>>

Counting(k) ==
    \E q \in Requests : step[q] = "counted" /\ job[q].of = k /\ seen[q] = "FINALIZED"

\* All lines of a statement are one commit; the unique index refuses a repeated line.
CommitImport(r, day, ref) ==
    LET k == job[r].of
        new == job[r].lines
    IN  /\ step[r] = "importing"
        /\ \A l \in new : line[l] = NoLine
        /\ line' = [l \in Lines |->
                       IF l \in new THEN [of |-> k, day |-> day, ref |-> ref[l], match |-> NoMatch] ELSE line[l]]
        /\ late' = IF Counting(k) \/ recordState[k] = "RESOLVED" THEN late \cup new ELSE late
        /\ Finish(r)
        /\ UNCHANGED <<recordState, balanced, row, raced, reviewed>>

\* match_line refuses a line of a resolved record; it does not look at the line's status.
LoadLine(r, l) ==
    /\ line[l] # NoLine
    /\ Unresolved(line[l].of)
    /\ Arrive(r, [of |-> l], "line", line[l])
    /\ UNCHANGED <<tableVars, lineHistory>>

\* Unreversed, and the line's reference, or its date when it has none.
Fits(t, l) ==
    /\ row[t].life \in {"LIVE", "REVERSAL"}
    /\ IF l.ref # NoBankRef THEN row[t].ref = l.ref ELSE row[t].day = l.day

FindRow(r, t) ==
    /\ Advance(r, "line", "found", [was |-> seen[r].match, row |-> t])
    /\ {q \in LedgerRows : Fits(q, seen[r])} = {t}
    /\ UNCHANGED <<tableVars, lineHistory>>

RowTaken(t, l) == \E q \in Lines \ {l} : line[q].match = t

\* Mutant: a row may explain several lines.
CheckUnclaimedBlindly(r) ==
    /\ Advance(r, "found", "unclaimed", seen[r])
    /\ raced' = IF \E q \in Requests \ {r} : step[q] = "unclaimed" /\ seen[q].row = seen[r].row
                THEN raced \cup {seen[r].row} ELSE raced
    /\ UNCHANGED <<tableVars, late, reviewed>>

\* The row must not be another line's.
CheckUnclaimed(r) ==
    /\ step[r] = "found"
    /\ ~RowTaken(seen[r].row, job[r].of)
    /\ Advance(r, "found", "unclaimed", seen[r])
    /\ raced' = IF \E q \in Requests \ {r} : step[q] = "unclaimed" /\ seen[q].row = seen[r].row
                THEN raced \cup {seen[r].row} ELSE raced
    /\ UNCHANGED <<tableVars, late, reviewed>>

\* A line that had this very match when it was loaded is not written.
CommitMatch(r) ==
    /\ step[r] = "unclaimed"
    /\ line' = [line EXCEPT ![job[r].of].match = IF seen[r].row = seen[r].was THEN @ ELSE seen[r].row]
    /\ Finish(r)
    /\ UNCHANGED <<recordState, balanced, row, lineHistory>>

-----------------------------------------------------------------------------
\* Mutant: it is enough that some line is matched.
SomeMatched(k) == \E l \in LinesOf(k) : IsMatched(l)

AllMatched(k) == LinesOf(k) # {} /\ \A l \in LinesOf(k) : IsMatched(l)

\* finalize reads the lines and the stored difference; it does not read the status.
CountLines(r, k) ==
    /\ recordState[k] # "NONE"
    /\ AllMatched(k)
    /\ balanced[k]
    /\ Arrive(r, [of |-> k], "counted", "FINALIZED")
    /\ UNCHANGED <<tableVars, lineHistory>>

\* resolve_reconciliation looks at the difference only, not at the lines.
LoadResolve(r, k) ==
    /\ Unresolved(k)
    /\ balanced[k]
    /\ Arrive(r, [of |-> k], "counted", "REVIEWED")
    /\ UNCHANGED <<tableVars, lineHistory>>

\* Both end in the same write; who resolved the record is left out.
CommitResolved(r) ==
    LET k == job[r].of IN
    /\ step[r] = "counted"
    /\ recordState' = [recordState EXCEPT ![k] = "RESOLVED"]
    /\ reviewed' = IF seen[r] = "FINALIZED" THEN reviewed \ {k}
                   ELSE IF recordState[k] = "RESOLVED" THEN reviewed ELSE reviewed \cup {k}
    /\ Finish(r)
    /\ UNCHANGED <<balanced, line, row, raced, late>>

AbandonLines(r) == Abandon(r) /\ UNCHANGED <<tableVars, lineHistory>>

LinesNext ==
    \/ \E k \in Records, b \in BOOLEAN : MakeRecord(k, b)
    \/ \E t \in LedgerRows, d \in Days :
        \/ \E x \in BankRefs \cup {NoBankRef} : PostLedgerRow(t, d, x)
        \/ \E new \in LedgerRows : ReverseLedgerRow(t, new, d)
    \/ \E r \in Requests :
        \/ \E k \in Records :
            \/ \E new \in SUBSET Lines : LoadImport(r, k, new)
            \/ CountLines(r, k) \/ LoadResolve(r, k)
        \/ \E d \in Days, ref \in [Lines -> BankRefs \cup {NoBankRef}] : CommitImport(r, d, ref)
        \/ \E l \in Lines : LoadLine(r, l)
        \/ \E t \in LedgerRows : FindRow(r, t)
        \/ CheckUnclaimed(r) \/ CommitMatch(r) \/ CommitResolved(r) \/ AbandonLines(r)

LinesSpec == LinesInit /\ [][LinesNext]_lineVars

-----------------------------------------------------------------------------
\* Records, lines and rows have their shape.
LinesTypeOK ==
    /\ recordState \in [Records -> {"NONE", "MATCHED", "ADJUSTMENT_REQUIRED", "RESOLVED"}]
    /\ balanced \in [Records -> BOOLEAN]
    /\ line \in [Lines -> [of : Records \cup {NoMatch}, day : Days \cup {NoMatch},
                           ref : BankRefs \cup {NoBankRef}, match : LedgerRows \cup {NoMatch}]]
    /\ row \in [LedgerRows -> [life : {"NONE", "LIVE", "REVERSED", "REVERSAL"},
                               day : Days \cup {NoMatch}, ref : BankRefs \cup {NoBankRef}]]

\* A ledger row explains one line of one statement, as long as no two requests had
\* found it free at the same time: only the check keeps lines apart.
MatchedApart ==
    \A l, m \in Lines : IsMatched(l) /\ l # m /\ line[l].match = line[m].match => line[l].match \in raced

\* A resolved record balances.  If finalize resolved it, it has lines, and each of
\* them is matched, whatever was matched again or reversed in between, but for lines
\* of an import committed between the count and the write of finalize, or later.
FinalizedIsComplete ==
    \A k \in Records : recordState[k] = "RESOLVED" =>
        /\ balanced[k]
        /\ k \notin reviewed =>
              LinesOf(k) # {} /\ \A l \in LinesOf(k) : IsMatched(l) \/ l \in late

\* docs/PDP_COMPLIANCE_MATRIX.md: "A reconciliation cannot be finalized while
\* statement lines are unmatched or the balance difference is non-zero."
ResolvedLinesMatched ==
    \A k \in Records : recordState[k] = "RESOLVED" =>
        balanced[k] /\ \A l \in LinesOf(k) : IsMatched(l)

=============================================================================
