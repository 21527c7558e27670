------------------------------- MODULE Budgets -------------------------------
(***************************************************************************)
(* The budget of an event (routes/budgets.py, budget_service.py): entered, *)
(* approved by a second officer, revised, and its actual figure derived    *)
(* from the ledger whenever it is shown or entered.  No handler locks the  *)
(* row before it reads it; two write it in more than one commit.           *)
(***************************************************************************)
EXTENDS WebRequests

CONSTANTS
    Events,
    Limits,        \* limits an officer enters
    MaxSpent,      \* bound on what the ledger rows of an event add up to
    MaxRevision    \* bound on the number of a revision

\* NULL names no user and is not a pair of figures.
ASSUME BudgetAssumption ==
    /\ MaxSpent \in Nat /\ MaxRevision \in Nat
    /\ Nobody \notin Officers
    /\ NoJob \notin [limit : Limits \cup {0}, revision : 0 .. MaxRevision]

VARIABLES
    budget,      \* the budgets table, one row per event
    spent,       \* sum of the event's unreversed ledger rows
    approvedAs,  \* history: the limit and the revision the last approver was shown
    everSpent,   \* history: the sums the ledger has had
    overlapped   \* history: budgets written by a request that had loaded an older row

budgetVars == <<budget, spent, approvedAs, everSpent, overlapped, requestVars>>
historyVars == <<approvedAs, everSpent, overlapped>>

NoBudget == [status |-> "NONE", limit |-> 0, actual |-> 0, revision |-> 0,
             creator |-> Nobody, approver |-> Nobody]

BudgetInit ==
    /\ budget = [e \in Events |-> NoBudget]
    /\ spent = [e \in Events |-> 0]
    /\ approvedAs = [e \in Events |-> NoJob]
    /\ everSpent = [e \in Events |-> {0}]
    /\ overlapped = {}
    /\ RequestsInit

-----------------------------------------------------------------------------
\* Payments and reversals move the sum of the ledger rows (modelled in LedgerSessions).
Spend(e, n) ==
    /\ spent' = [spent EXCEPT ![e] = n]
    /\ everSpent' = [everSpent EXCEPT ![e] = @ \cup {n}]
    /\ UNCHANGED <<budget, approvedAs, overlapped, requestVars>>

Task(e, task, u, n) == [of |-> e, task |-> task, by |-> u, limit |-> n]

View(e) == [row |-> budget[e], total |-> 0]

LoadBudget(r, e, task, u, n) ==
    /\ budget[e].revision < MaxRevision
    /\ Arrive(r, Task(e, task, u, n), "loaded", View(e))
    /\ UNCHANGED <<budget, spent, historyVars>>

\* budgets/manage loads the row, if there is one, and takes the limits of the form.
Manage(r, e, u, n) == LoadBudget(r, e, "MANAGE", u, n)

\* budgets/index recalculates what it is about to show.
Show(r, e) == budget[e].status # "NONE" /\ LoadBudget(r, e, "SHOW", Nobody, 0)

\* Mutant: the creator may approve.
LoadApproveAnyone(r, e, u) ==
    /\ budget[e].status \in {"DRAFT", "REVISED"}
    /\ LoadBudget(r, e, "APPROVE", u, 0)

LoadApprove(r, e, u) ==
    /\ budget[e].status \in {"DRAFT", "REVISED"}
    /\ budget[e].creator # u
    /\ LoadBudget(r, e, "APPROVE", u, 0)

LoadRevise(r, e) == budget[e].status # "NONE" /\ LoadBudget(r, e, "REVISE", Nobody, 0)

\* Mutant: an edit of an approved budget leaves it approved.
ConfiguredKeepsStatus(row, u, n) ==
    IF row.status = "NONE"
    THEN [NoBudget EXCEPT !.status = "DRAFT", !.limit = n, !.revision = 1, !.creator = u]
    ELSE [row EXCEPT !.limit = n, !.revision = IF row.status = "APPROVED" THEN @ + 1 ELSE @]

\* A first entry is a draft; an approved budget becomes the next revision, and keeps
\* the name of its approver.
Configured(row, u, n) ==
    IF row.status = "NONE"
    THEN [NoBudget EXCEPT !.status = "DRAFT", !.limit = n, !.revision = 1, !.creator = u]
    ELSE IF row.status = "APPROVED"
    THEN [row EXCEPT !.status = "REVISED", !.limit = n, !.revision = @ + 1]
    ELSE [row EXCEPT !.limit = n]

\* The first query after the change flushes it: the row is locked until the commit,
\* unless the form changes nothing; a second insert for the event waits for the first
\* and then fails.
Holds(r) ==
    /\ step[r] \in {"flushed", "totalled"}
    /\ Configured(seen[r].row, job[r].by, job[r].limit) # seen[r].row

RowFree(r) == \A q \in Requests \ {r} : Holds(q) => Of(q) # Of(r)

FlushBudget(r) ==
    /\ Advance(r, "loaded", "flushed", seen[r])
    /\ job[r].task = "MANAGE"
    /\ Holds(r)' => RowFree(r)
    /\ (budget[Of(r)].status = "NONE") <=> (seen[r].row.status = "NONE")
    /\ UNCHANGED <<budget, spent, historyVars>>

\* recalculate_event_budget sums the ledger rows.
Recalculate(r) ==
    LET row == [seen[r] EXCEPT !.total = spent[Of(r)]] IN
    /\ \/ Advance(r, "flushed", "totalled", row)
       \/ Advance(r, "loaded", "summed", row) /\ job[r].task = "SHOW"
    /\ UNCHANGED <<budget, spent, historyVars>>

\* Mutant: the sum is added to the figure instead of replacing it.
WithActualAdded(row, total) == [row EXCEPT !.actual = @ + total]

WithActual(row, total) == [row EXCEPT !.actual = total]

\* The row is written over what the request has loaded.
WriteBudget(r, new) ==
    /\ RowFree(r)
    /\ budget' = [budget EXCEPT ![Of(r)] = Written(@, seen[r].row, new)]
    /\ overlapped' = IF [budget[Of(r)] EXCEPT !.actual = 0] = [seen[r].row EXCEPT !.actual = 0]
                     THEN overlapped ELSE overlapped \cup {Of(r)}

\* The recalculation commits, and with it the limits of the form.
CommitManage(r) ==
    /\ Advance(r, "totalled", "configured", NoJob)
    /\ WriteBudget(r, WithActual(Configured(seen[r].row, job[r].by, job[r].limit), seen[r].total))
    /\ UNCHANGED <<spent, approvedAs, everSpent>>

\* The audit entry is a commit of its own, and the last one.
CommitAudit(r) ==
    /\ step[r] = "configured"
    /\ Finish(r)
    /\ UNCHANGED <<budget, spent, historyVars>>

CommitShow(r) ==
    /\ step[r] = "summed"
    /\ WriteBudget(r, WithActual(seen[r].row, seen[r].total))
    /\ Finish(r)
    /\ UNCHANGED <<spent, approvedAs, everSpent>>

CommitApproval(r) ==
    LET row == seen[r].row IN
    /\ step[r] = "loaded" /\ job[r].task = "APPROVE"
    /\ WriteBudget(r, [row EXCEPT !.status = "APPROVED", !.approver = job[r].by])
    /\ approvedAs' = [approvedAs EXCEPT ![Of(r)] = [limit |-> row.limit, revision |-> row.revision]]
    /\ Finish(r)
    /\ UNCHANGED <<spent, everSpent>>

CommitRevision(r) ==
    LET row == seen[r].row IN
    /\ step[r] = "loaded" /\ job[r].task = "REVISE"
    /\ WriteBudget(r, [row EXCEPT !.status = "REVISED", !.revision = @ + 1, !.approver = Nobody])
    /\ Finish(r)
    /\ UNCHANGED <<spent, approvedAs, everSpent>>

\* Also a worker lost between the two commits of manage: the audit entry never comes.
AbandonBudget(r) == Abandon(r) /\ UNCHANGED <<budget, spent, historyVars>>

BudgetNext ==
    \/ \E e \in Events, n \in 0 .. MaxSpent : Spend(e, n)
    \/ \E r \in Requests :
        \/ \E e \in Events, u \in Officers :
            \/ \E n \in Limits : Manage(r, e, u, n)
            \/ LoadApprove(r, e, u)
        \/ \E e \in Events : Show(r, e) \/ LoadRevise(r, e)
        \/ FlushBudget(r) \/ Recalculate(r) \/ CommitManage(r) \/ CommitAudit(r)
        \/ CommitShow(r) \/ CommitApproval(r) \/ CommitRevision(r) \/ AbandonBudget(r)

BudgetSpec == BudgetInit /\ [][BudgetNext]_budgetVars

-----------------------------------------------------------------------------
\* Budgets and their history have their shape.
BudgetTypeOK ==
    /\ budget \in [Events -> [status : {"NONE", "DRAFT", "REVISED", "APPROVED"},
                              limit : Limits \cup {0}, actual : 0 .. MaxSpent, revision : Nat,
                              creator : Officers \cup {Nobody}, approver : Officers \cup {Nobody}]]
    /\ spent \in [Events -> 0 .. MaxSpent]

\* As long as no request has written over a row it had not seen, an approved budget
\* is the one its approver was shown: same limit, same revision, approver on record.
ApprovedAsShown ==
    \A e \in Events \ overlapped : budget[e].status = "APPROVED" =>
        /\ approvedAs[e] = [limit |-> budget[e].limit, revision |-> budget[e].revision]
        /\ budget[e].approver # Nobody

\* Whatever overlaps, who created a budget is never the one on record as its approver,
\* and an approved budget has been approved by someone.
CreatorNeverApproves ==
    \A e \in Events :
        /\ budget[e].status # "NONE" => budget[e].approver # budget[e].creator
        /\ budget[e].status = "APPROVED" => approvedAs[e] # NoJob

\* "Budget actuals are derived from finalized ledger transactions": the figure kept on
\* a budget is a sum the ledger has had, whichever recalculation wrote it last.
ActualsDerived == \A e \in Events : budget[e].actual \in everSpent[e]

=============================================================================
