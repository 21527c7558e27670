--------------------------- MODULE ExpenseWorkflow ---------------------------
(***************************************************************************)
(* Expenses from submission to payment (expense_service.py), with several  *)
(* web requests at work at once.  A handler locks the expense's row, reads *)
(* its status, checks the event, reads the vendor's totals without a lock, *)
(* and writes everything in one commit.                                    *)
(*                                                                         *)
(* The account side of a payment is in LedgerSessions; here the ledger is  *)
(* the sequence of rows that payments have posted.                         *)
(***************************************************************************)
EXTENDS Integers, Sequences, FiniteSetsExt

CONSTANTS
    Requests, Expenses, Users, Vendors,
    Refs,       \* payment references a payer types
    Blank,      \* the empty string the payment form sends when none is typed
    MaxAmount,  \* bound on the amount of an expense
    NoUser, NoVendor, NoRecord

ASSUME WorkflowAssumption ==
    /\ MaxAmount \in Nat
    /\ Blank \notin Refs
    /\ NoVendor \notin Vendors

VARIABLES
    status, creator, vendorOf, amount,  \* the expenses table
    history,      \* the approvals rows of each expense, oldest first
    ledger,       \* rows with source_module EXPENSE, in order of commit
    vendors,      \* Vendor.pending_amount and total_paid
    eventStatus,  \* Event.status of the one event
    job, step,    \* what each request does and how far it is
    was,          \* the status it read from the expense's row
    seen          \* the vendor totals it read

expenseVars == <<status, creator, vendorOf, amount, history, ledger, vendors>>
requestVars == <<job, step, was, seen>>
workflowVars == <<expenseVars, eventStatus, requestVars>>

SubmitJobs == [kind : {"SUBMIT"}, expense : Expenses, user : Users,
               vendor : Vendors \cup {NoVendor}, amount : 1 .. MaxAmount]

ReviewJobs == [kind : {"APPROVE", "REJECT"}, expense : Expenses, user : Users]

\* Any mode but CASH needs a reference; CASH goes with one or without.
PayJobs == [kind : {"PAY"}, expense : Expenses, user : Users, ref : Refs \cup {Blank}]

Jobs == SubmitJobs \cup ReviewJobs \cup PayJobs

Totals == [pending : Nat, paid : Nat]

Statuses == {"SUBMITTED", "APPROVED", "REJECTED", "PAID"}

WorkflowInit ==
    /\ status = [e \in Expenses |-> "NEW"]
    /\ creator = [e \in Expenses |-> NoUser]
    /\ vendorOf = [e \in Expenses |-> NoVendor]
    /\ amount = [e \in Expenses |-> 0]
    /\ history = [e \in Expenses |-> <<>>]
    /\ ledger = <<>>
    /\ vendors = [v \in Vendors |-> [pending |-> 0, paid |-> 0]]
    /\ eventStatus = "OPEN"
    /\ job = [r \in Requests |-> NoRecord]
    /\ step = [r \in Requests |-> "idle"]
    /\ was = [r \in Requests |-> "NEW"]
    /\ seen = [r \in Requests |-> NoRecord]

-----------------------------------------------------------------------------
Target(r) == job[r].expense

HoldsExpense(r) == step[r] \in {"locked", "loaded"}

Others(r) == Requests \ {r}

VendorOf(r) == IF job[r].kind = "SUBMIT" THEN job[r].vendor ELSE vendorOf[Target(r)]

Finish(r) ==
    /\ job' = [job EXCEPT ![r] = NoRecord]
    /\ step' = [step EXCEPT ![r] = "idle"]
    /\ was' = [was EXCEPT ![r] = "NEW"]
    /\ seen' = [seen EXCEPT ![r] = NoRecord]

\* _validate_submission and the insert of a new row, which no one else can see.
BeginSubmit(r, j) ==
    /\ step[r] = "idle"
    /\ status[j.expense] = "NEW"
    /\ \A q \in Requests : step[q] # "idle" => Target(q) # j.expense
    /\ eventStatus = "OPEN"
    /\ job' = [job EXCEPT ![r] = j]
    /\ step' = [step EXCEPT ![r] = "locked"]
    /\ UNCHANGED <<expenseVars, eventStatus, was, seen>>

Begin(r, j) ==
    /\ step[r] = "idle"
    /\ status[j.expense] # "NEW"
    /\ job' = [job EXCEPT ![r] = j]
    /\ step' = [step EXCEPT ![r] = "begun"]
    /\ UNCHANGED <<expenseVars, eventStatus, was, seen>>

\* What each handler checks of the expense it has read.
Allowed(r) ==
    LET e == Target(r) IN
    /\ job[r].kind = "APPROVE" => status[e] = "SUBMITTED"
    /\ job[r].kind = "REJECT" => status[e] \notin {"PAID", "REJECTED"}
    /\ job[r].kind = "PAY" => status[e] = "APPROVED"
    /\ job[r].kind \in {"APPROVE", "REJECT"} => creator[e] # job[r].user

\* Mutant: the row is read without FOR UPDATE.
LockExpenseUnlocked(r) ==
    /\ step[r] = "begun"
    /\ Allowed(r)
    /\ eventStatus = "OPEN"
    /\ was' = [was EXCEPT ![r] = status[Target(r)]]
    /\ step' = [step EXCEPT ![r] = "locked"]
    /\ UNCHANGED <<expenseVars, eventStatus, job, seen>>

\* _lock_expense and the checks that follow it; a failed check rolls back.
LockExpense(r) ==
    /\ step[r] = "begun"
    /\ \A q \in Others(r) : HoldsExpense(q) => Target(q) # Target(r)
    /\ Allowed(r)
    /\ eventStatus = "OPEN"
    /\ was' = [was EXCEPT ![r] = status[Target(r)]]
    /\ step' = [step EXCEPT ![r] = "locked"]
    /\ UNCHANGED <<expenseVars, eventStatus, job, seen>>

LoadVendor(r) ==
    /\ step[r] = "locked"
    /\ job[r].kind # "APPROVE"
    /\ VendorOf(r) # NoVendor
    /\ seen' = [seen EXCEPT ![r] = vendors[VendorOf(r)]]
    /\ step' = [step EXCEPT ![r] = "loaded"]
    /\ UNCHANGED <<expenseVars, eventStatus, job, was>>

\* The handler has read all it needs.
Ready(r, kind) ==
    /\ HoldsExpense(r)
    /\ job[r].kind = kind
    /\ step[r] = "locked" => kind = "APPROVE" \/ VendorOf(r) = NoVendor

SetStatus(r, new) == status' = [status EXCEPT ![Target(r)] = new]

LogApproval(r, new) ==
    history' = [history EXCEPT ![Target(r)] =
        Append(@, [action |-> job[r].kind, by |-> job[r].user, from |-> was[r], to |-> new])]

\* A total is written as a value computed from the one read, and only when the two
\* differ: the mapper leaves a column that has not changed out of its UPDATE.
WriteVendor(r, totals) ==
    vendors' = IF VendorOf(r) = NoVendor THEN vendors ELSE
        [vendors EXCEPT ![VendorOf(r)] =
            [c \in DOMAIN @ |-> IF totals[c] = seen[r][c] THEN @[c] ELSE totals[c]]]

\* Mutant: the difference is not clamped at zero.
LessUnclamped(pending, n) == pending - n

\* max(0, pending - amount).
Less(pending, n) == IF pending > n THEN pending - n ELSE 0

CommitSubmit(r) ==
    LET j == job[r] IN
    /\ Ready(r, "SUBMIT")
    /\ SetStatus(r, "SUBMITTED")
    /\ creator' = [creator EXCEPT ![j.expense] = j.user]
    /\ vendorOf' = [vendorOf EXCEPT ![j.expense] = j.vendor]
    /\ amount' = [amount EXCEPT ![j.expense] = j.amount]
    /\ WriteVendor(r, [pending |-> seen[r].pending + j.amount, paid |-> seen[r].paid])
    /\ LogApproval(r, "SUBMITTED")
    /\ Finish(r)
    /\ UNCHANGED <<ledger, eventStatus>>

CommitApprove(r) ==
    /\ Ready(r, "APPROVE")
    /\ SetStatus(r, "APPROVED")
    /\ LogApproval(r, "APPROVED")
    /\ Finish(r)
    /\ UNCHANGED <<creator, vendorOf, amount, ledger, vendors, eventStatus>>

\* Mutant: a rejected bill stays in what the vendor is owed.
CommitRejectKeepsPending(r) ==
    /\ Ready(r, "REJECT")
    /\ SetStatus(r, "REJECTED")
    /\ LogApproval(r, "REJECTED")
    /\ Finish(r)
    /\ UNCHANGED <<creator, vendorOf, amount, ledger, vendors, eventStatus>>

CommitReject(r) ==
    /\ Ready(r, "REJECT")
    /\ SetStatus(r, "REJECTED")
    /\ WriteVendor(r, [pending |-> Less(seen[r].pending, amount[Target(r)]), paid |-> seen[r].paid])
    /\ LogApproval(r, "REJECTED")
    /\ Finish(r)
    /\ UNCHANGED <<creator, vendorOf, amount, ledger, eventStatus>>

\* The row is posted with external_ref = payment_ref as it came: an empty string is
\* a value to uq_transactions_external_ref, though the checks before it skip it.
CommitPay(r) ==
    LET e == Target(r) IN
    /\ Ready(r, "PAY")
    /\ \A i \in DOMAIN ledger : ledger[i].expense # e /\ ledger[i].ref # job[r].ref
    /\ SetStatus(r, "PAID")
    /\ ledger' = Append(ledger, [expense |-> e, ref |-> job[r].ref])
    /\ WriteVendor(r, [pending |-> Less(seen[r].pending, amount[e]), paid |-> seen[r].paid + amount[e]])
    /\ LogApproval(r, "PAID")
    /\ Finish(r)
    /\ UNCHANGED <<creator, vendorOf, amount, eventStatus>>

\* A failed check, an index, a lost worker: nothing is written.
Rollback(r) ==
    /\ step[r] # "idle"
    /\ Finish(r)
    /\ UNCHANGED <<expenseVars, eventStatus>>

\* close_event and lock_event write the event's row; no expense handler locks it.
CloseEvent ==
    /\ eventStatus = "OPEN"
    /\ eventStatus' = "CLOSED"
    /\ UNCHANGED <<expenseVars, requestVars>>

LockEvent ==
    /\ eventStatus # "LOCKED"
    /\ eventStatus' = "LOCKED"
    /\ UNCHANGED <<expenseVars, requestVars>>

Work(r) ==
    \/ \E j \in SubmitJobs : BeginSubmit(r, j)
    \/ \E j \in ReviewJobs \cup PayJobs : Begin(r, j)
    \/ LockExpense(r) \/ LoadVendor(r)
    \/ CommitSubmit(r) \/ CommitApprove(r) \/ CommitReject(r) \/ CommitPay(r)
    \/ Rollback(r)

WorkflowNext == (\E r \in Requests : Work(r)) \/ CloseEvent \/ LockEvent

WorkflowSpec == WorkflowInit /\ [][WorkflowNext]_workflowVars

-----------------------------------------------------------------------------
Entry == [action : {"SUBMIT", "APPROVE", "REJECT", "PAY"}, by : Users,
          from : Statuses \cup {"NEW"}, to : Statuses]

\* Tables and requests have their shape.
WorkflowTypeOK ==
    /\ status \in [Expenses -> Statuses \cup {"NEW"}]
    /\ creator \in [Expenses -> Users \cup {NoUser}]
    /\ vendorOf \in [Expenses -> Vendors \cup {NoVendor}]
    /\ amount \in [Expenses -> 0 .. MaxAmount]
    /\ history \in [Expenses -> Seq(Entry)]
    /\ ledger \in Seq([expense : Expenses, ref : Refs \cup {Blank}])
    /\ vendors \in [Vendors -> Totals]
    /\ eventStatus \in {"OPEN", "CLOSED", "LOCKED"}
    /\ job \in [Requests -> Jobs \cup {NoRecord}]
    /\ step \in [Requests -> {"idle", "begun", "locked", "loaded"}]
    /\ was \in [Requests -> Statuses \cup {"NEW"}]
    /\ seen \in [Requests -> Totals \cup {NoRecord}]

RowsOf(e) == {i \in DOMAIN ledger : ledger[i].expense = e}

Lifecycle == INSTANCE ExpenseLifecycle WITH posted <- [e \in Expenses |-> Cardinality(RowsOf(e))]

\* Requests for one expense, however they interleave, do what single calls do: the
\* creator never decides, payment follows approval, one ledger row per payment.
ImplementsLifecycle == Lifecycle!LifecycleSpec

\* The approvals rows tell the whole story of an expense: they start at NEW, each
\* takes over the status the one before it left, the last one is the status the
\* expense has, and the approval before a payment is by someone else than the creator.
HistoryChains ==
    \A e \in Expenses :
        LET h == history[e] IN
        /\ (h = <<>>) <=> (status[e] = "NEW")
        /\ \A i \in DOMAIN h :
              /\ h[i].from = (IF i = 1 THEN "NEW" ELSE h[i - 1].to)
              /\ h[i].action = "PAY" => h[i - 1].action = "APPROVE" /\ h[i - 1].by # creator[e]
              /\ i = Len(h) => h[i].to = status[e]

Owed(v) == {e \in Expenses : vendorOf[e] = v /\ status[e] \in {"SUBMITTED", "APPROVED"}}

Settled(v) == {e \in Expenses : vendorOf[e] = v /\ status[e] = "PAID"}

\* What expenses are worth together, rupee by rupee.
Rupees(a, S) == {u \in S \X (1 .. MaxAmount) : u[2] <= a[u[1]]}

Worth(S) == Cardinality(Rupees(amount, S))

TotalsExact(v) ==
    /\ vendors[v].pending = Worth(Owed(v))
    /\ vendors[v].paid = Worth(Settled(v))

\* The payment form asks for a reference "except cash": an approved expense can be
\* paid in cash without one, whatever has been paid before.
CashNeedsNoReference ==
    \A e \in Expenses : status[e] = "APPROVED" => \A i \in DOMAIN ledger : ledger[i].ref # Blank

\* A closed or locked event rejects every change to its expenses.
ClosedEventFrozen == [][eventStatus # "OPEN" => UNCHANGED expenseVars]_workflowVars

=============================================================================
