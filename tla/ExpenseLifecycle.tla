-------------------------- MODULE ExpenseLifecycle --------------------------
(***************************************************************************)
(* What expense_service.py promises about one expense, with every service  *)
(* call a single step: a second person decides, money leaves only for an   *)
(* approved expense, and each payment is one ledger row.  Status           *)
(* UNDER_REVIEW of the table's check constraint is never assigned.         *)
(***************************************************************************)
EXTENDS Naturals

CONSTANTS Expenses, Users, NoUser

VARIABLES
    status,   \* Expense.status, "NEW" before the row exists
    creator,  \* Expense.created_by_id
    posted    \* how many ledger rows stand for the expense

lifecycleVars == <<status, creator, posted>>

LifecycleInit ==
    /\ status = [e \in Expenses |-> "NEW"]
    /\ creator = [e \in Expenses |-> NoUser]
    /\ posted = [e \in Expenses |-> 0]

Submit(e, u) ==
    /\ status[e] = "NEW"
    /\ status' = [status EXCEPT ![e] = "SUBMITTED"]
    /\ creator' = [creator EXCEPT ![e] = u]
    /\ UNCHANGED posted

Approve(e, u) ==
    /\ status[e] = "SUBMITTED"
    /\ u # creator[e]
    /\ status' = [status EXCEPT ![e] = "APPROVED"]
    /\ UNCHANGED <<creator, posted>>

\* An approved expense can still be rejected, as long as it has not been paid.
Reject(e, u) ==
    /\ status[e] \in {"SUBMITTED", "APPROVED"}
    /\ u # creator[e]
    /\ status' = [status EXCEPT ![e] = "REJECTED"]
    /\ UNCHANGED <<creator, posted>>

Pay(e) ==
    /\ status[e] = "APPROVED"
    /\ status' = [status EXCEPT ![e] = "PAID"]
    /\ posted' = [posted EXCEPT ![e] = @ + 1]
    /\ UNCHANGED creator

LifecycleNext ==
    \E e \in Expenses :
        \/ \E u \in Users : Submit(e, u) \/ Approve(e, u) \/ Reject(e, u)
        \/ Pay(e)

LifecycleSpec == LifecycleInit /\ [][LifecycleNext]_lifecycleVars

=============================================================================
