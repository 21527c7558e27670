----------------------------- MODULE Corrections -----------------------------
(***************************************************************************)
(* Correction requests (financial_controls_service.py): an officer asks    *)
(* for a correction, another one decides, and an approved correction of a  *)
(* ledger row reverses that row in the same commit.  The account side of a *)
(* reversal is in LedgerSessions.                                          *)
(***************************************************************************)
EXTENDS WebRequests

CONSTANTS
    Forms,   \* ids of correction requests
    Rows,    \* ids of ledger rows
    NoRow    \* a correction of something else than a ledger row, or no reversal

ASSUME CorrectionAssumption == NoRow \notin Rows

VARIABLES
    form,      \* the correction_requests table
    rowType,   \* transaction_type of each ledger row
    undoneBy   \* reversed_by_txn_id

formVars == <<form, rowType, undoneBy>>
correctionVars == <<formVars, requestVars>>

NoForm == [status |-> "NONE", row |-> NoRow, by |-> Nobody, reviewer |-> Nobody, reversal |-> NoRow]

CorrectionInit ==
    /\ form = [f \in Forms |-> NoForm]
    /\ rowType = [t \in Rows |-> "NONE"]
    /\ undoneBy = [t \in Rows |-> NoRow]
    /\ RequestsInit

-----------------------------------------------------------------------------
\* Some service posts a row (modelled in LedgerSessions).
PostRow(t, type) ==
    /\ rowType[t] = "NONE"
    /\ rowType' = [rowType EXCEPT ![t] = type]
    /\ UNCHANGED <<form, undoneBy, requestVars>>

Correctable(t) == rowType[t] \in {"INCOME", "EXPENSE"} /\ undoneBy[t] = NoRow

\* request_correction looks at the row without a lock.
CheckRow(r, f, t, u) ==
    /\ form[f].status = "NONE"
    /\ t # NoRow => Correctable(t)
    /\ Arrive(r, [of |-> f, row |-> t, by |-> u, verdict |-> "NONE"], "checked", NoJob)
    /\ Free(r, f, {"checked"})
    /\ UNCHANGED formVars

\* The foreign key waits while the ledger row is locked for its reversal.  The route would
\* then notify the administrators, but asks the type of a proxy for its query, and fails.
CommitRequest(r) ==
    /\ step[r] = "checked"
    /\ \A q \in Requests : step[q] = "reversing" => job[q].row # job[r].row
    /\ form' = [form EXCEPT ![job[r].of] =
                   [NoForm EXCEPT !.status = "PENDING", !.row = job[r].row, !.by = job[r].by]]
    /\ Finish(r)
    /\ UNCHANGED <<rowType, undoneBy>>

\* Mutant: the request is read without FOR UPDATE.
LockFormUnlocked(r, f, u, verdict) ==
    /\ form[f].status = "PENDING"
    /\ form[f].by # u
    /\ Arrive(r, [of |-> f, row |-> form[f].row, by |-> u, verdict |-> verdict], "reviewing", NoJob)
    /\ UNCHANGED formVars

\* review_correction locks the request and decides only on a pending one of someone else.
LockForm(r, f, u, verdict) ==
    /\ form[f].status = "PENDING"
    /\ form[f].by # u
    /\ Free(r, f, {"reviewing", "reversing"})
    /\ Arrive(r, [of |-> f, row |-> form[f].row, by |-> u, verdict |-> verdict], "reviewing", NoJob)
    /\ UNCHANGED formVars

\* A refusal, or an approval that touches no ledger row.
Decide(r) ==
    /\ step[r] = "reviewing"
    /\ job[r].verdict = "REJECTED" \/ job[r].row = NoRow
    /\ form' = [form EXCEPT ![job[r].of].status = job[r].verdict, ![job[r].of].reviewer = job[r].by]
    /\ Finish(r)
    /\ UNCHANGED <<rowType, undoneBy>>

\* Mutant: the row is locked, and taken to be as it was when the correction was asked for.
LockRowBlindly(r) ==
    /\ step[r] = "reviewing"
    /\ job[r].verdict = "APPROVED" /\ job[r].row # NoRow
    /\ \A q \in Requests \ {r} : step[q] = "reversing" => job[q].row # job[r].row
    /\ Advance(r, "reviewing", "reversing", seen[r])
    /\ UNCHANGED formVars

\* reverse_transaction locks the row and tests it as it is by then.
LockRow(r) ==
    /\ step[r] = "reviewing"
    /\ job[r].verdict = "APPROVED" /\ job[r].row # NoRow
    /\ \A q \in Requests \ {r} : step[q] = "reversing" => job[q].row # job[r].row
    /\ Correctable(job[r].row)
    /\ Advance(r, "reviewing", "reversing", seen[r])
    /\ UNCHANGED formVars

\* Mutant: reverse_transaction commits by default, and the worker is lost after it.
ApplyReversalAlone(r, new) ==
    /\ step[r] = "reversing"
    /\ rowType[new] = "NONE"
    /\ rowType' = [rowType EXCEPT ![new] = "REVERSAL"]
    /\ undoneBy' = [undoneBy EXCEPT ![job[r].row] = new]
    /\ Finish(r)
    /\ UNCHANGED form

\* The reversal row, its link and the decision are one commit.
ApplyReversal(r, new) ==
    /\ step[r] = "reversing"
    /\ rowType[new] = "NONE"
    /\ rowType' = [rowType EXCEPT ![new] = "REVERSAL"]
    /\ undoneBy' = [undoneBy EXCEPT ![job[r].row] = new]
    /\ form' = [form EXCEPT ![job[r].of].status = "APPLIED",
                            ![job[r].of].reviewer = job[r].by,
                            ![job[r].of].reversal = new]
    /\ Finish(r)

AbandonForm(r) == Abandon(r) /\ UNCHANGED formVars

CorrectionNext ==
    \/ \E t \in Rows, type \in {"INCOME", "EXPENSE"} : PostRow(t, type)
    \/ \E r \in Requests :
        \/ \E f \in Forms, u \in Officers :
            \/ \E t \in Rows \cup {NoRow} : CheckRow(r, f, t, u)
            \/ \E verdict \in {"APPROVED", "REJECTED"} : LockForm(r, f, u, verdict)
        \/ CommitRequest(r) \/ Decide(r) \/ LockRow(r) \/ AbandonForm(r)
        \/ \E new \in Rows : ApplyReversal(r, new)

CorrectionSpec == CorrectionInit /\ [][CorrectionNext]_correctionVars

-----------------------------------------------------------------------------
\* Requests, rows and links have their shape.
CorrectionTypeOK ==
    /\ form \in [Forms -> [status : {"NONE", "PENDING", "APPROVED", "REJECTED", "APPLIED"},
                           row : Rows \cup {NoRow}, by : Officers \cup {Nobody},
                           reviewer : Officers \cup {Nobody}, reversal : Rows \cup {NoRow}]]
    /\ rowType \in [Rows -> {"NONE", "INCOME", "EXPENSE", "REVERSAL"}]
    /\ undoneBy \in [Rows -> Rows \cup {NoRow}]

AppliedTo(t) == {f \in Forms : form[f].status = "APPLIED" /\ form[f].row = t}

\* However many requests aim at one ledger row and whoever reviews them at once, a row
\* is undone exactly when one request was applied to it, and that request names the
\* reversal the row is linked to.
CorrectionsApplyOnce ==
    \A t \in Rows :
        IF undoneBy[t] = NoRow
        THEN AppliedTo(t) = {}
        ELSE \E f \in Forms : AppliedTo(t) = {f} /\ form[f].reversal = undoneBy[t]

Calls == INSTANCE CorrectionLifecycle WITH
    state <- [f \in Forms |-> form[f].status],
    target <- [f \in Forms |-> form[f].row],
    author <- [f \in Forms |-> form[f].by],
    reviewer <- [f \in Forms |-> form[f].reviewer],
    undone <- {t \in Rows : undoneBy[t] # NoRow}

\* Requests that overlap do what single calls do: the locks on the request and on the
\* ledger row are taken apart from each other and from the write, yet nobody decides
\* twice, nor on a request of their own, and no row is reversed for two requests.
ImplementsCalls == Calls!LifecycleSpec

Decided(f) == form[f].status \in {"APPROVED", "REJECTED", "APPLIED"}

\* A decision stands: two reviewers of one request never overwrite each other, and the
\* one who decides is never the one who asked.
DecisionsStand ==
    [][\A f \in Forms :
        /\ Decided(f) => form'[f] = form[f]
        /\ Decided(f)' => form'[f].reviewer # form'[f].by]_correctionVars

=============================================================================
