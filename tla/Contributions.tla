---------------------------- MODULE Contributions ----------------------------
(***************************************************************************)
(* Sponsorships and member contributions: a commitment with its received   *)
(* and pending totals, and the two ways to pay towards it, a payment       *)
(* (contribution_service.py) and a receipt (financial_controls_service.py).*)
(* A payment reads the totals without a lock, a receipt under FOR UPDATE.  *)
(***************************************************************************)
EXTENDS WebRequests

CONSTANTS
    Commitments,
    MaxTarget,  \* bound on what is promised
    MaxPaid     \* bound on what has been paid when another entry starts

ASSUME ContribAssumption == MaxTarget \in Nat /\ MaxPaid \in Nat

VARIABLES
    commitment,  \* the sponsorships and member_contributions tables
    posted       \* sums of the payment rows and of the receipt rows of each

contribVars == <<commitment, posted, requestVars>>

Ways == {"PAYMENT", "RECEIPT"}

\* What is promised: a bound on the instance.
Targets == -MaxTarget .. MaxTarget

NoCommitment == [kind |-> "NONE", target |-> 0, received |-> 0, pending |-> 0, status |-> "NONE"]

ContribInit ==
    /\ commitment = [c \in Commitments |-> NoCommitment]
    /\ posted = [c \in Commitments |-> [w \in Ways |-> 0]]
    /\ RequestsInit

-----------------------------------------------------------------------------
Promise(c, kind, n, status) ==
    /\ commitment[c].kind = "NONE"
    /\ commitment' = [commitment EXCEPT ![c] =
            [kind |-> kind, target |-> n, received |-> 0, pending |-> n, status |-> status]]
    /\ UNCHANGED <<posted, requestVars>>

CreateSponsorship(c, n) == n > 0 /\ Promise(c, "SPONSORSHIP", n, "COMMITTED")

\* A member may be entered without a target, and the form does not refuse a negative one.
CreateMember(c, n) == Promise(c, "MEMBER", n, "PENDING")

Paid(c) == posted[c]["PAYMENT"] + posted[c]["RECEIPT"]

Outstanding(c) == commitment[c].target - commitment[c].received

\* Another entry towards c may start: the bound on the instance.
Payable(c) == commitment[c].kind # "NONE" /\ Paid(c) < MaxPaid

Entry(c, way, n) == [of |-> c, way |-> way, amount |-> n]

\* The commitment is loaded and the amount compared with what it leaves to pay.
LoadCommitment(r, c, n) ==
    /\ Payable(c)
    /\ n <= Outstanding(c)
    /\ Arrive(r, Entry(c, "PAYMENT", n), "loaded", commitment[c])
    /\ UNCHANGED <<commitment, posted>>

\* The payment's foreign key takes KEY SHARE on the commitment's row.
InsertPayment(r) ==
    /\ Advance(r, "loaded", "inserted", seen[r])
    /\ Free(r, Of(r), {"locked"})
    /\ UNCHANGED <<commitment, posted>>

\* Mutant: the commitment is read without FOR UPDATE.
LockCommitmentUnlocked(r, c, n) ==
    /\ Payable(c)
    /\ commitment[c].target > 0 => n <= Outstanding(c)
    /\ Arrive(r, Entry(c, "RECEIPT", n), "locked", commitment[c])
    /\ UNCHANGED <<commitment, posted>>

\* _lock_contribution, and the amount compared with the row it returns; a member
\* without a target may give any amount.
LockCommitment(r, c, n) ==
    /\ Payable(c)
    /\ Free(r, c, {"locked", "inserted"})
    /\ commitment[c].target > 0 => n <= Outstanding(c)
    /\ Arrive(r, Entry(c, "RECEIPT", n), "locked", commitment[c])
    /\ UNCHANGED <<commitment, posted>>

\* What is left to pay once total has been received.
Left(target, total) == IF total > target THEN 0 ELSE target - total

\* The row after n more has come in.
After(row, n) ==
    LET left == Left(row.target, row.received + n) IN
    [row EXCEPT !.received = @ + n, !.pending = left,
                !.status = IF left = 0 THEN "RECEIVED" ELSE "PARTIAL"]

\* Mutant: the pending amount is reduced in the table, the received one is written.
WriteTotalsApart(r) ==
    LET after == After(seen[r], job[r].amount) IN
    commitment' = [commitment EXCEPT ![Of(r)] =
        [Written(@, seen[r], after) EXCEPT !.pending = Left(commitment[Of(r)].pending, job[r].amount)]]

WriteTotals(r) ==
    commitment' = [commitment EXCEPT ![Of(r)] = Written(@, seen[r], After(seen[r], job[r].amount))]

Post(r) == posted' = [posted EXCEPT ![Of(r)][job[r].way] = @ + job[r].amount]

CommitPayment(r) == step[r] = "inserted" /\ WriteTotals(r) /\ Post(r) /\ Finish(r)

CommitReceipt(r) == step[r] = "locked" /\ WriteTotals(r) /\ Post(r) /\ Finish(r)

\* Mutant: the totals were committed before the entry failed.
AbandonEntryKeepsTotals(r) == Abandon(r) /\ WriteTotals(r) /\ UNCHANGED posted

AbandonEntry(r) == Abandon(r) /\ UNCHANGED <<commitment, posted>>

ContribNext ==
    \/ \E c \in Commitments, n \in Targets : CreateSponsorship(c, n) \/ CreateMember(c, n)
    \/ \E r \in Requests :
        \/ \E c \in Commitments, n \in 1 .. MaxTarget : LoadCommitment(r, c, n) \/ LockCommitment(r, c, n)
        \/ InsertPayment(r) \/ CommitPayment(r) \/ CommitReceipt(r) \/ AbandonEntry(r)

ContribSpec == ContribInit /\ [][ContribNext]_contribVars

-----------------------------------------------------------------------------
\* The tables of commitments, payments and receipts have their shape.
ContribTypeOK ==
    /\ commitment \in [Commitments ->
            [kind : {"NONE", "SPONSORSHIP", "MEMBER"}, target : Targets,
             received : Nat, pending : Targets,
             status : {"NONE", "COMMITTED", "PENDING", "PARTIAL", "RECEIVED"}]]
    /\ posted \in [Commitments -> [Ways -> Nat]]

\* The two totals of a commitment add up to its target whatever payments and receipts
\* overlap, because both are written from one read; without a target nothing is pending
\* once something has come in.
TotalsAddUp ==
    \A c \in Commitments :
        LET row == commitment[c] IN
        IF row.target > 0 \/ row.received = 0
        THEN row.received + row.pending = row.target ELSE row.pending = 0

\* Two requests that read one total lose an update, never invent money: a commitment
\* shows at most what payments and receipts have brought.
NeverOverstated == \A c \in Commitments : commitment[c].received <= Paid(c)

\* Where only receipts are entered, the lock makes the totals exact: they are the sum
\* of the receipts, never above the target, and the status says whether it is reached.
ReceiptsExact ==
    \A c \in Commitments : posted[c]["PAYMENT"] = 0 =>
        LET row == commitment[c] IN
        /\ row.received = posted[c]["RECEIPT"]
        /\ row.target > 0 => row.received <= row.target
        /\ row.received > 0 => row.status = (IF row.pending = 0 THEN "RECEIVED" ELSE "PARTIAL")

\* "Payment cannot exceed the outstanding commitment/target": what has been paid
\* towards a commitment with a target never exceeds it.
NeverOverpaid == \A c \in Commitments : commitment[c].target > 0 => Paid(c) <= commitment[c].target

=============================================================================
