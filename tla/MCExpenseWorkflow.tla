------------------------- MODULE MCExpenseWorkflow -------------------------
(***************************************************************************)
(* ExpenseWorkflow for TLC, with an observer of the one thing that breaks  *)
(* a vendor's totals: two requests that have its row loaded at once.       *)
(***************************************************************************)
EXTENDS ExpenseWorkflow, TLC

VARIABLE overlapped  \* vendors two requests have had loaded at the same time

MCWorkflowInit == WorkflowInit /\ overlapped = {}

LoadedTwice(v) ==
    \E r, q \in Requests :
        r # q /\ step[r] = "loaded" /\ step[q] = "loaded" /\ VendorOf(r) = v /\ VendorOf(q) = v

MCWorkflowNext ==
    /\ WorkflowNext
    /\ overlapped' = overlapped \cup {v \in Vendors : LoadedTwice(v)'}

MCWorkflowSpec == MCWorkflowInit /\ [][MCWorkflowNext]_<<workflowVars, overlapped>>

\* The totals kept on a vendor over submissions, rejections and payments are the sums
\* of its open and of its paid expenses as long as no two requests had its row loaded
\* at once; and whatever overlaps, the vendor is never shown as paid more than it was.
VendorTotals ==
    \A v \in Vendors :
        /\ v \notin overlapped => TotalsExact(v)
        /\ vendors[v].paid <= Worth(Settled(v))

Symmetry == Permutations(Requests) \cup Permutations(Expenses) \cup Permutations(Users)

=============================================================================
