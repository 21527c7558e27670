------------------------- MODULE CorrectionLifecycle -------------------------
(***************************************************************************)
(* What financial_controls_service.py promises about corrections, with     *)
(* every service call a single step: one officer asks, another decides,    *)
(* and a ledger row is undone together with the decision, once.  A request *)
(* may aim at a row that has been undone since it was looked up, but then  *)
(* it can only be rejected.                                                *)
(***************************************************************************)
CONSTANTS Forms, Rows, NoRow, Officers, Nobody

VARIABLES
    state,     \* CorrectionRequest.status, "NONE" before the row exists
    target,    \* its transaction_id
    author,    \* its requested_by_id
    reviewer,  \* its reviewed_by_id
    rowType,   \* transaction_type of each ledger row
    undone     \* the ledger rows that are reversed

requestVars == <<state, target, author, reviewer>>
lifecycleVars == <<requestVars, rowType, undone>>

LifecycleInit ==
    /\ state = [f \in Forms |-> "NONE"]
    /\ target = [f \in Forms |-> NoRow]
    /\ author = [f \in Forms |-> Nobody]
    /\ reviewer = [f \in Forms |-> Nobody]
    /\ rowType = [t \in Rows |-> "NONE"]
    /\ undone = {}

Post(t) ==
    /\ rowType[t] = "NONE"
    /\ \E type \in {"INCOME", "EXPENSE"} : rowType' = [rowType EXCEPT ![t] = type]
    /\ UNCHANGED <<requestVars, undone>>

Request(f, t, u) ==
    /\ state[f] = "NONE"
    /\ t # NoRow => rowType[t] \in {"INCOME", "EXPENSE"}
    /\ state' = [state EXCEPT ![f] = "PENDING"]
    /\ target' = [target EXCEPT ![f] = t]
    /\ author' = [author EXCEPT ![f] = u]
    /\ reviewer' = [reviewer EXCEPT ![f] = Nobody]
    /\ UNCHANGED <<rowType, undone>>

\* The decision, by someone else than who asked.
Review(f, u, verdict) ==
    /\ state[f] = "PENDING"
    /\ author[f] # u
    /\ state' = [state EXCEPT ![f] = verdict]
    /\ reviewer' = [reviewer EXCEPT ![f] = u]
    /\ UNCHANGED <<target, author>>

Reject(f, u) == Review(f, u, "REJECTED") /\ UNCHANGED <<rowType, undone>>

\* An approval of something else than a ledger row.
Approve(f, u) ==
    /\ target[f] = NoRow
    /\ Review(f, u, "APPROVED")
    /\ UNCHANGED <<rowType, undone>>

Apply(f, u, new) ==
    /\ target[f] \in Rows \ undone
    /\ rowType[target[f]] \in {"INCOME", "EXPENSE"}
    /\ rowType[new] = "NONE"
    /\ Review(f, u, "APPLIED")
    /\ rowType' = [rowType EXCEPT ![new] = "REVERSAL"]
    /\ undone' = undone \cup {target[f]}

LifecycleNext ==
    \/ \E t \in Rows : Post(t)
    \/ \E f \in Forms, u \in Officers :
        \/ \E t \in Rows \cup {NoRow} : Request(f, t, u)
        \/ Reject(f, u) \/ Approve(f, u)
        \/ \E new \in Rows : Apply(f, u, new)

LifecycleSpec == LifecycleInit /\ [][LifecycleNext]_lifecycleVars

=============================================================================
