--------------------------- MODULE PostingsProofs ---------------------------
(***************************************************************************)
(* Theorems about what is entered around the ledger: payments towards      *)
(* sponsorships and member contributions, requests for correction, and the *)
(* lines of bank statements; for any number of rows and of requests at     *)
(* once.                                                                   *)
(***************************************************************************)
EXTENDS Contributions, Corrections, StatementLines, TLAPS

-----------------------------------------------------------------------------
(***************************************************************************)
(* Contributions: any number of commitments and any amounts.               *)
(***************************************************************************)
ContribSteps == {"idle", "loaded", "inserted", "locked"}

CommitmentRow ==
    [kind : {"NONE", "SPONSORSHIP", "MEMBER"}, target : Targets, received : Nat, pending : Targets,
     status : {"NONE", "COMMITTED", "PENDING", "PARTIAL", "RECEIVED"}]

\* What TotalsAddUp says of one row.
AddsUp(due) ==
    IF due.target > 0 \/ due.received = 0
    THEN due.received + due.pending = due.target ELSE due.pending = 0

\* What ReceiptsExact says of one row.
Exact(due) ==
    /\ due.target > 0 => due.received <= due.target
    /\ due.received > 0 => due.status = (IF due.pending = 0 THEN "RECEIVED" ELSE "PARTIAL")

ContribRequestsOK ==
    /\ step \in [Requests -> ContribSteps]
    /\ DOMAIN job = Requests
    /\ DOMAIN seen = Requests

\* What a request has loaded was the commitment once: its totals add up, money has only
\* come in since, and its amount fits.  Under the lock it is the commitment still.
LoadedCommitment(r) ==
    /\ job[r] \in [of : Commitments, way : Ways, amount : 1 .. MaxTarget]
    /\ seen[r] \in CommitmentRow
    /\ commitment[Of(r)].kind # "NONE"
    /\ seen[r].target = commitment[Of(r)].target
    /\ AddsUp(seen[r])
    /\ seen[r].received <= Paid(Of(r))
    /\ seen[r].target > 0 => job[r].amount <= seen[r].target - seen[r].received
    /\ step[r] \in {"loaded", "inserted"} =>
          job[r].way = "PAYMENT" /\ job[r].amount <= seen[r].target - seen[r].received
    /\ step[r] = "locked" => job[r].way = "RECEIPT" /\ seen[r] = commitment[Of(r)]

\* The row lock and the foreign key's lock of one commitment exclude each other.
LocksApart ==
    \A q, r \in Requests : q # r /\ step[q] = "locked" /\ step[r] \in {"locked", "inserted"} => Of(q) # Of(r)

\* Nothing has come in for what nobody has promised.
Unpromised == \A c \in Commitments : commitment[c].kind = "NONE" => commitment[c].received = 0

\* The inductive invariant.
ContribInv ==
    /\ ContribTypeOK
    /\ ContribRequestsOK
    /\ Unpromised
    /\ TotalsAddUp
    /\ NeverOverstated
    /\ ReceiptsExact
    /\ \A r \in Requests : step[r] # "idle" => LoadedCommitment(r)
    /\ LocksApart

-----------------------------------------------------------------------------
(***************************************************************************)
(* Facts about rows.                                                       *)
(***************************************************************************)
\* The row a commit leaves behind, column by column.
LEMMA WrittenCommitment ==
    ASSUME NEW now \in CommitmentRow, NEW old \in CommitmentRow, NEW new \in CommitmentRow
    PROVE  /\ Written(now, old, new) \in CommitmentRow
           /\ Written(now, old, new).kind = IF new.kind = old.kind THEN now.kind ELSE new.kind
           /\ Written(now, old, new).target = IF new.target = old.target THEN now.target ELSE new.target
           /\ Written(now, old, new).received = IF new.received = old.received THEN now.received ELSE new.received
           /\ Written(now, old, new).pending = IF new.pending = old.pending THEN now.pending ELSE new.pending
           /\ Written(now, old, new).status = IF new.status = old.status THEN now.status ELSE new.status
<1>1. Written(now, old, new) =
        [kind |-> IF new.kind = old.kind THEN now.kind ELSE new.kind,
         target |-> IF new.target = old.target THEN now.target ELSE new.target,
         received |-> IF new.received = old.received THEN now.received ELSE new.received,
         pending |-> IF new.pending = old.pending THEN now.pending ELSE new.pending,
         status |-> IF new.status = old.status THEN now.status ELSE new.status]
    BY DEF Written, CommitmentRow
<1>. QED BY <1>1 DEF CommitmentRow

\* Written over the very row that was loaded, the new row is what is left.
LEMMA WrittenOverLoaded ==
    ASSUME NEW now \in CommitmentRow, NEW new \in CommitmentRow
    PROVE  Written(now, now, new) = new
BY DEF Written, CommitmentRow

\* An amount that fits leaves a row whose totals add up.
LEMMA AfterRow ==
    ASSUME NEW due \in CommitmentRow, NEW n \in 1 .. MaxTarget, AddsUp(due),
           due.target > 0 => n <= due.target - due.received
    PROVE  /\ After(due, n) \in CommitmentRow
           /\ AddsUp(After(due, n))
           /\ After(due, n).kind = due.kind
           /\ After(due, n).target = due.target
           /\ After(due, n).received = due.received + n
           /\ due.target > 0 => After(due, n).pending = due.target - due.received - n
           /\ due.target <= 0 => After(due, n).pending = 0
           /\ Exact(After(due, n))
<1>. DEFINE left == Left(due.target, due.received + n)
<1>1. due.received \in Nat /\ due.target \in Int /\ due.pending \in Int /\ n \in Nat /\ n > 0
    BY ContribAssumption DEF CommitmentRow, Targets
<1>2. left \in Targets /\ (due.target > 0 => left = due.target - due.received - n) /\ (due.target <= 0 => left = 0)
    BY <1>1, ContribAssumption DEF Left, Targets, CommitmentRow
<1>. HIDE DEF left
<1>3. After(due, n) = [kind |-> due.kind, target |-> due.target,
                       received |-> due.received + n, pending |-> left,
                       status |-> IF left = 0 THEN "RECEIVED" ELSE "PARTIAL"]
  <2>1. due = [kind |-> due.kind, target |-> due.target, received |-> due.received,
               pending |-> due.pending, status |-> due.status]
      BY DEF CommitmentRow
  <2>2. After(due, n) = [due EXCEPT !.received = due.received + n, !.pending = left,
                                    !.status = IF left = 0 THEN "RECEIVED" ELSE "PARTIAL"]
      BY DEF After, left
  <2>. QED BY <2>1, <2>2
<1>4. due.received + n \in Nat
    BY <1>1
<1>5. After(due, n) \in CommitmentRow
    BY <1>2, <1>3, <1>4 DEF CommitmentRow
<1>. QED BY <1>1, <1>2, <1>3, <1>5 DEF AddsUp, Exact

-----------------------------------------------------------------------------
(***************************************************************************)
(* Every step keeps the inductive invariant.                               *)
(***************************************************************************)
LEMMA ContribInitInv == ContribInit => ContribInv
<1>. SUFFICES ASSUME ContribInit PROVE ContribInv
    OBVIOUS
<1>. USE DEF ContribInit, RequestsInit
<1>1. 0 \in Targets
    BY ContribAssumption DEF Targets
<1>2. ContribTypeOK
    BY <1>1 DEF ContribTypeOK, NoCommitment, Ways
<1>3. ContribRequestsOK
    BY DEF ContribRequestsOK, ContribSteps
<1>4. TotalsAddUp
    BY DEF TotalsAddUp, NoCommitment
<1>5. NeverOverstated /\ ReceiptsExact
    BY DEF NeverOverstated, ReceiptsExact, NoCommitment, Paid, Ways
<1>. QED BY <1>2, <1>3, <1>4, <1>5 DEF ContribInv, LocksApart, Unpromised, NoCommitment

\* What the type invariant says of one commitment.
LEMMA CommitmentFacts ==
    ASSUME ContribInv, NEW c \in Commitments
    PROVE  /\ commitment[c] \in CommitmentRow
           /\ commitment[c].received \in Nat /\ commitment[c].target \in Int /\ commitment[c].pending \in Int
           /\ AddsUp(commitment[c])
           /\ commitment[c].received <= Paid(c)
           /\ posted[c]["PAYMENT"] \in Nat /\ posted[c]["RECEIPT"] \in Nat
           /\ Paid(c) \in Nat
<1>1. commitment[c] \in CommitmentRow
    BY DEF ContribInv, ContribTypeOK, CommitmentRow
<1>2. posted[c]["PAYMENT"] \in Nat /\ posted[c]["RECEIPT"] \in Nat
    BY DEF ContribInv, ContribTypeOK, Ways
<1>. QED BY <1>1, <1>2, ContribAssumption
         DEF ContribInv, TotalsAddUp, NeverOverstated, AddsUp, Paid, CommitmentRow, Targets

\* A step that leaves the tables alone only has to keep the requests in order.
LEMMA ContribUnchanged ==
    ASSUME ContribInv, UNCHANGED <<commitment, posted>>,
           ContribRequestsOK', \A r \in Requests : step'[r] # "idle" => LoadedCommitment(r)', LocksApart'
    PROVE  ContribInv'
BY DEF ContribInv, ContribTypeOK, Unpromised, TotalsAddUp, NeverOverstated, ReceiptsExact, Paid

LEMMA PromiseInv ==
    ASSUME ContribInv, NEW c \in Commitments, NEW n \in Targets,
           NEW kind \in {"SPONSORSHIP", "MEMBER"}, NEW status \in {"COMMITTED", "PENDING"},
           Promise(c, kind, n, status)
    PROVE  ContribInv'
<1>. DEFINE new == [kind |-> kind, target |-> n, received |-> 0, pending |-> n, status |-> status]
<1>1. /\ commitment' = [commitment EXCEPT ![c] = new]
      /\ commitment[c].kind = "NONE"
      /\ UNCHANGED <<posted, job, step, seen>>
    BY DEF Promise, requestVars
<1>2. new \in CommitmentRow /\ new.received = 0 /\ new.pending = new.target /\ new.target \in Int
    BY ContribAssumption DEF CommitmentRow, Targets
<1>. HIDE DEF new
<1>3. ContribTypeOK'
    BY <1>1, <1>2 DEF ContribInv, ContribTypeOK, CommitmentRow
<1>4. DOMAIN commitment = Commitments
    BY DEF ContribInv, ContribTypeOK
<1>5. TotalsAddUp'
    BY <1>1, <1>2, <1>4 DEF ContribInv, TotalsAddUp
<1>6. NeverOverstated'
  <2>1. Paid(c) \in Nat
      BY CommitmentFacts
  <2>. QED BY <1>1, <1>2, <1>4, <2>1 DEF ContribInv, NeverOverstated, Paid
<1>7. ReceiptsExact'
    BY <1>1, <1>2, <1>4 DEF ContribInv, ReceiptsExact, Unpromised
<1>8. Unpromised'
    BY <1>1, <1>2, <1>4 DEF ContribInv, Unpromised
<1>9. ASSUME NEW r \in Requests, step'[r] # "idle" PROVE LoadedCommitment(r)'
  <2>1. step[r] # "idle" /\ LoadedCommitment(r) /\ Of(r) \in Commitments /\ Of(r) # c
      BY <1>1, <1>9 DEF ContribInv, LoadedCommitment, Of
  <2>2. commitment'[Of(r)] = commitment[Of(r)]
      BY <1>1, <1>4, <2>1
  <2>. QED BY <1>1, <2>1, <2>2 DEF LoadedCommitment, Of, Paid
<1>10. ContribRequestsOK' /\ LocksApart'
    BY <1>1 DEF ContribInv, ContribRequestsOK, LocksApart, Of
<1>. QED BY <1>3, <1>5, <1>6, <1>7, <1>8, <1>9, <1>10 DEF ContribInv

LEMMA LoadCommitmentInv ==
    ASSUME ContribInv, NEW r \in Requests, NEW c \in Commitments, NEW n \in 1 .. MaxTarget,
           LoadCommitment(r, c, n) \/ LockCommitment(r, c, n)
    PROVE  ContribInv'
<1>1. PICK way \in Ways, s \in {"loaded", "locked"} :
        /\ Arrive(r, Entry(c, way, n), s, commitment[c])
        /\ commitment[c].target > 0 => n <= Outstanding(c)
        /\ s = "loaded" => way = "PAYMENT" /\ n <= Outstanding(c)
        /\ s = "locked" => way = "RECEIPT" /\ Free(r, c, {"locked", "inserted"})
    BY DEF LoadCommitment, LockCommitment, Ways
<1>2. UNCHANGED <<commitment, posted>> /\ commitment[c].kind # "NONE"
    BY DEF LoadCommitment, LockCommitment, Payable
<1>3. /\ step[r] = "idle"
      /\ job' = [job EXCEPT ![r] = Entry(c, way, n)]
      /\ step' = [step EXCEPT ![r] = s]
      /\ seen' = [seen EXCEPT ![r] = commitment[c]]
    BY <1>1 DEF Arrive
<1>4. ContribRequestsOK /\ ContribRequestsOK'
    BY <1>3 DEF ContribInv, ContribRequestsOK, ContribSteps
<1>5. ASSUME NEW q \in Requests, step'[q] # "idle" PROVE LoadedCommitment(q)'
  <2>1. CASE q # r
      BY <1>2, <1>3, <1>4, <1>5, <2>1 DEF ContribInv, ContribRequestsOK, LoadedCommitment, Of, Paid
  <2>2. CASE q = r
    <3>1. job'[r] = Entry(c, way, n) /\ step'[r] = s /\ seen'[r] = commitment[c]
        BY <1>3, <1>4 DEF ContribRequestsOK
    <3>2. Entry(c, way, n) \in [of : Commitments, way : Ways, amount : 1 .. MaxTarget]
        BY DEF Entry
    <3>3. Of(r)' = c /\ job'[r].way = way /\ job'[r].amount = n
        BY <3>1 DEF Of, Entry
    <3>. QED BY <1>1, <1>2, <2>2, <3>1, <3>2, <3>3, CommitmentFacts
                DEF LoadedCommitment, Outstanding, Paid
  <2>. QED BY <2>1, <2>2
<1>6. LocksApart'
  <2>. SUFFICES ASSUME NEW q \in Requests, NEW t \in Requests, q # t,
                       step'[q] = "locked", step'[t] \in {"locked", "inserted"}
                PROVE  Of(q)' # Of(t)'
      BY DEF LocksApart
  <2>1. CASE q # r /\ t # r
      BY <1>3, <1>4, <2>1 DEF ContribInv, LocksApart, ContribRequestsOK, Of
  <2>2. CASE q = r
      BY <1>1, <1>3, <1>4, <2>2 DEF ContribRequestsOK, Of, Entry, Free
  <2>3. CASE t = r
      BY <1>1, <1>3, <1>4, <2>3 DEF ContribRequestsOK, Of, Entry, Free
  <2>. QED BY <2>1, <2>2, <2>3
<1>. QED BY <1>2, <1>4, <1>5, <1>6, ContribUnchanged

LEMMA InsertReceiptInv ==
    ASSUME ContribInv, NEW r \in Requests, InsertPayment(r)
    PROVE  ContribInv'
<1>1. /\ step[r] = "loaded"
      /\ step' = [step EXCEPT ![r] = "inserted"]
      /\ job' = job
      /\ seen' = [seen EXCEPT ![r] = seen[r]]
      /\ Free(r, Of(r), {"locked"})
      /\ UNCHANGED <<commitment, posted>>
    BY DEF InsertPayment, Advance
<1>2. ContribRequestsOK /\ ContribRequestsOK'
    BY <1>1 DEF ContribInv, ContribRequestsOK, ContribSteps
<1>3. ASSUME NEW q \in Requests, step'[q] # "idle" PROVE LoadedCommitment(q)'
    BY <1>1, <1>2, <1>3 DEF ContribInv, ContribRequestsOK, LoadedCommitment, Of, Paid
<1>4. LocksApart'
    BY <1>1, <1>2 DEF ContribInv, LocksApart, ContribRequestsOK, Of, Free
<1>. QED BY <1>1, <1>2, <1>3, <1>4, ContribUnchanged

LEMMA AbandonContribInv ==
    ASSUME ContribInv, NEW r \in Requests, AbandonEntry(r)
    PROVE  ContribInv'
<1>1. /\ step' = [step EXCEPT ![r] = "idle"]
      /\ job' = [job EXCEPT ![r] = NoJob]
      /\ seen' = [seen EXCEPT ![r] = NoJob]
      /\ UNCHANGED <<commitment, posted>>
    BY DEF AbandonEntry, Abandon, Finish
<1>2. ContribRequestsOK /\ ContribRequestsOK'
    BY <1>1 DEF ContribInv, ContribRequestsOK, ContribSteps
<1>3. ASSUME NEW q \in Requests, step'[q] # "idle" PROVE LoadedCommitment(q)'
    BY <1>1, <1>2, <1>3 DEF ContribInv, ContribRequestsOK, LoadedCommitment, Of, Paid
<1>4. LocksApart'
    BY <1>1, <1>2 DEF ContribInv, LocksApart, ContribRequestsOK, Of
<1>. QED BY <1>1, <1>2, <1>3, <1>4, ContribUnchanged

\* The commit of a payment or of a receipt.
LEMMA CommitContribInv ==
    ASSUME ContribInv, NEW r \in Requests, step[r] \in {"inserted", "locked"},
           WriteTotals(r), Post(r), Finish(r)
    PROVE  ContribInv'
<1>1. LoadedCommitment(r)
    BY DEF ContribInv
<1>. PICK c \in Commitments : c = Of(r)
    BY <1>1 DEF LoadedCommitment, Of
<1>. DEFINE n == job[r].amount
            now == commitment[c]
            new == After(seen[r], n)
            after == Written(now, seen[r], new)
<1>2. c \in Commitments /\ n \in 1 .. MaxTarget /\ n \in Nat /\ n > 0 /\ job[r].way \in Ways
    BY <1>1, ContribAssumption DEF LoadedCommitment, Of
<1>3. seen[r] \in CommitmentRow /\ seen[r].received \in Nat /\ seen[r].target \in Int /\ seen[r].pending \in Int
    BY <1>1, ContribAssumption DEF LoadedCommitment, CommitmentRow, Targets
<1>4. /\ new \in CommitmentRow /\ AddsUp(new) /\ new.kind = seen[r].kind /\ new.target = seen[r].target
      /\ new.received = seen[r].received + n
      /\ seen[r].target > 0 => new.pending = seen[r].target - seen[r].received - n
      /\ Exact(new)
  <2>1. AddsUp(seen[r]) /\ (seen[r].target > 0 => n <= seen[r].target - seen[r].received)
      BY <1>1 DEF LoadedCommitment
  <2>. QED BY <1>2, <1>3, <2>1, AfterRow
<1>5. now \in CommitmentRow /\ now.received <= Paid(c) /\ Paid(c) \in Nat
    BY <1>2, CommitmentFacts
<1>. HIDE DEF new
<1>6. /\ after \in CommitmentRow /\ after.kind = now.kind /\ after.target = now.target
      /\ after.received = seen[r].received + n
      /\ after.pending = IF new.pending = seen[r].pending THEN now.pending ELSE new.pending
    BY <1>2, <1>3, <1>4, <1>5, WrittenCommitment
<1>7. step[r] = "locked" => job[r].way = "RECEIPT" /\ seen[r] = now /\ after = new
    BY <1>1, <1>4, <1>5, WrittenOverLoaded DEF LoadedCommitment
<1>8. step[r] = "inserted" => job[r].way = "PAYMENT" /\ seen[r].target > 0
    BY <1>1, <1>2, <1>3 DEF LoadedCommitment
<1>9. AddsUp(after)
  <2>1. CASE seen[r].target > 0
    <3>1. seen[r].received + seen[r].pending = seen[r].target /\ now.target = seen[r].target
        BY <1>1, <2>1 DEF LoadedCommitment, AddsUp
    <3>2. new.pending # seen[r].pending
        BY <1>2, <1>3, <1>4, <2>1, <3>1
    <3>. QED BY <1>2, <1>3, <1>4, <1>6, <2>1, <3>1, <3>2 DEF AddsUp
  <2>2. CASE ~(seen[r].target > 0)
      BY <1>4, <1>7, <1>8, <2>2
  <2>. QED BY <2>1, <2>2
<1>. HIDE DEF after
<1>10. /\ commitment' = [commitment EXCEPT ![c] = after]
       /\ posted' = [posted EXCEPT ![c][job[r].way] = posted[c][job[r].way] + n]
    BY DEF WriteTotals, Post, after, new
<1>11. /\ step' = [step EXCEPT ![r] = "idle"]
       /\ job' = [job EXCEPT ![r] = NoJob]
       /\ seen' = [seen EXCEPT ![r] = NoJob]
    BY DEF Finish
<1>12. /\ commitment \in [Commitments -> CommitmentRow]
       /\ posted \in [Commitments -> [Ways -> Nat]]
       /\ ContribRequestsOK
    BY DEF ContribInv, ContribTypeOK, CommitmentRow
<1>13. /\ commitment'[c] = after
       /\ \A d \in Commitments \ {c} : commitment'[d] = commitment[d]
    BY <1>2, <1>10, <1>12
<1>14. /\ posted' \in [Commitments -> [Ways -> Nat]]
       /\ posted'[c][job[r].way] = posted[c][job[r].way] + n
       /\ \A w \in Ways \ {job[r].way} : posted'[c][w] = posted[c][w]
       /\ \A d \in Commitments \ {c} : posted'[d] = posted[d]
    BY <1>2, <1>10, <1>12
<1>. HIDE DEF n, now
<1>15. Paid(c)' = Paid(c) + n /\ \A d \in Commitments \ {c} : Paid(d)' = Paid(d)
    BY <1>2, <1>12, <1>14 DEF Paid, Ways
<1>16. ContribTypeOK'
  <2>1. commitment' \in [Commitments -> CommitmentRow]
      BY <1>2, <1>6, <1>10, <1>12
  <2>. QED BY <1>14, <2>1 DEF ContribTypeOK, CommitmentRow
<1>17. TotalsAddUp'
    BY <1>9, <1>13 DEF ContribInv, TotalsAddUp, AddsUp
<1>18. NeverOverstated'
  <2>1. seen[r].received <= Paid(c)
      BY <1>1 DEF LoadedCommitment
  <2>2. after.received <= Paid(c)'
      BY <1>2, <1>3, <1>5, <1>6, <1>15, <2>1
  <2>3. ASSUME NEW d \in Commitments PROVE commitment'[d].received <= Paid(d)'
      BY <1>13, <1>15, <2>2 DEF ContribInv, NeverOverstated
  <2>. QED BY <2>3 DEF NeverOverstated
<1>19. ReceiptsExact'
  <2>. SUFFICES ASSUME NEW d \in Commitments, posted'[d]["PAYMENT"] = 0
                PROVE  commitment'[d].received = posted'[d]["RECEIPT"] /\ Exact(commitment'[d])
      BY DEF ReceiptsExact, Exact
  <2>1. CASE d # c
      BY <1>13, <1>14, <2>1 DEF ContribInv, ReceiptsExact, Exact
  <2>2. CASE d = c
    <3>1. job[r].way # "PAYMENT"
        BY <1>2, <1>12, <1>14, <2>2 DEF Ways
    <3>2. step[r] = "locked"
        BY <1>8, <3>1
    <3>3. posted[c]["PAYMENT"] = 0 /\ posted'[c]["RECEIPT"] = posted[c]["RECEIPT"] + n
        BY <1>7, <1>14, <2>2, <3>2 DEF Ways
    <3>4. now.received = posted[c]["RECEIPT"]
        BY <1>2, <3>3 DEF ContribInv, ReceiptsExact, now
    <3>. QED BY <1>4, <1>6, <1>7, <1>13, <2>2, <3>2, <3>3, <3>4
  <2>. QED BY <2>1, <2>2
<1>20. commitment[c].kind # "NONE"
    BY <1>1 DEF LoadedCommitment
<1>21. Unpromised'
    BY <1>6, <1>13, <1>20 DEF ContribInv, Unpromised, now
<1>22. ContribRequestsOK'
    BY <1>11, <1>12 DEF ContribRequestsOK, ContribSteps
<1>23. ASSUME NEW q \in Requests, step'[q] # "idle" PROVE LoadedCommitment(q)'
  <2>1. q # r /\ job'[q] = job[q] /\ step'[q] = step[q] /\ seen'[q] = seen[q]
      BY <1>11, <1>12, <1>23 DEF ContribRequestsOK
  <2>2. LoadedCommitment(q) /\ Of(q) \in Commitments /\ Of(q)' = Of(q) /\ seen[q].received \in Nat
      BY <1>23, <2>1 DEF ContribInv, LoadedCommitment, Of, CommitmentRow
  <2>3. step[q] = "locked" => Of(q) # c
      BY <2>1 DEF ContribInv, LocksApart
  <2>. PICK d \in Commitments : d = Of(q)
      BY <2>2
  <2>4. seen[q].received <= Paid(d)'
      BY <1>2, <1>5, <1>15, <2>2 DEF LoadedCommitment
  <2>5. /\ commitment'[d].kind # "NONE" /\ seen[q].target = commitment'[d].target
        /\ step[q] = "locked" => seen[q] = commitment'[d]
      BY <1>6, <1>13, <2>2, <2>3 DEF LoadedCommitment, now
  <2>. QED BY <2>1, <2>2, <2>4, <2>5 DEF LoadedCommitment, Paid
<1>24. LocksApart'
    BY <1>11, <1>12 DEF ContribInv, LocksApart, ContribRequestsOK, Of
<1>. QED BY <1>16, <1>17, <1>18, <1>19, <1>21, <1>22, <1>23, <1>24 DEF ContribInv

LEMMA ContribNextInv ==
    ASSUME ContribInv, [ContribNext]_contribVars
    PROVE  ContribInv'
<1>1. CASE UNCHANGED contribVars
  <2>1. UNCHANGED <<commitment, posted, job, step, seen>>
      BY <1>1 DEF contribVars, requestVars
  <2>. QED BY <2>1, ContribUnchanged
              DEF ContribInv, ContribRequestsOK, LoadedCommitment, LocksApart, Of, Paid
<1>2. ASSUME NEW c \in Commitments, NEW n \in Targets, CreateSponsorship(c, n) \/ CreateMember(c, n)
      PROVE  ContribInv'
    BY <1>2, PromiseInv DEF CreateSponsorship, CreateMember
<1>3. ASSUME NEW r \in Requests, NEW c \in Commitments, NEW n \in 1 .. MaxTarget,
             LoadCommitment(r, c, n) \/ LockCommitment(r, c, n)
      PROVE  ContribInv'
    BY <1>3, LoadCommitmentInv
<1>4. ASSUME NEW r \in Requests, InsertPayment(r) PROVE ContribInv'
    BY <1>4, InsertReceiptInv
<1>5. ASSUME NEW r \in Requests, CommitPayment(r) \/ CommitReceipt(r) PROVE ContribInv'
    BY <1>5, CommitContribInv DEF CommitPayment, CommitReceipt
<1>6. ASSUME NEW r \in Requests, AbandonEntry(r) PROVE ContribInv'
    BY <1>6, AbandonContribInv
<1>. QED BY <1>1, <1>2, <1>3, <1>4, <1>5, <1>6 DEF ContribNext

\* Sessions, locks and tables of the specification fit together in every reachable state.
THEOREM EntriesSerialize == ContribSpec => []ContribInv
BY ContribInitInv, ContribNextInv, PTL DEF ContribSpec

\* The tables keep their shape: pending amounts never leave the range of the targets.
THEOREM ContribTypeCorrect == ContribSpec => []ContribTypeOK
<1>1. ContribInv => ContribTypeOK
    BY DEF ContribInv
<1>. QED BY <1>1, EntriesSerialize, PTL

\* Received and pending add up to the target however payments and receipts overlap.
THEOREM TotalsAlwaysAddUp == ContribSpec => []TotalsAddUp
<1>1. ContribInv => TotalsAddUp
    BY DEF ContribInv
<1>. QED BY <1>1, EntriesSerialize, PTL

\* A commitment never shows more than payments and receipts have brought.
THEOREM NothingInvented == ContribSpec => []NeverOverstated
<1>1. ContribInv => NeverOverstated
    BY DEF ContribInv
<1>. QED BY <1>1, EntriesSerialize, PTL

\* Among receipts alone the lock makes the received amount their sum, within the target.
THEOREM ReceiptsAreExact == ContribSpec => []ReceiptsExact
<1>1. ContribInv => ReceiptsExact
    BY DEF ContribInv
<1>. QED BY <1>1, EntriesSerialize, PTL

-----------------------------------------------------------------------------
(***************************************************************************)
(* Corrections: any number of requests for correction, ledger rows and     *)
(* officers.                                                               *)
(***************************************************************************)
CorrectionJobs ==
    [of : Forms, row : Rows \cup {NoRow}, by : Officers, verdict : {"NONE", "APPROVED", "REJECTED"}]

FormTable ==
    [Forms -> [status : {"NONE", "PENDING", "APPROVED", "REJECTED", "APPLIED"},
               row : Rows \cup {NoRow}, by : Officers \cup {Nobody},
               reviewer : Officers \cup {Nobody}, reversal : Rows \cup {NoRow}]]

Reviewing == {"reviewing", "reversing"}

CorrectionRequestsOK ==
    /\ step \in [Requests -> {"idle", "checked", "reviewing", "reversing"}]
    /\ DOMAIN job = Requests

\* What a request has found out about its form and its ledger row stays true.
CorrectionWork(r) ==
    /\ job[r] \in CorrectionJobs
    /\ step[r] = "checked" =>
          /\ form[Of(r)].status = "NONE"
          /\ job[r].row # NoRow => rowType[job[r].row] \in {"INCOME", "EXPENSE"}
    /\ step[r] \in Reviewing =>
          /\ form[Of(r)].status = "PENDING"
          /\ form[Of(r)].row = job[r].row
          /\ form[Of(r)].by # job[r].by
          /\ job[r].verdict # "NONE"
    /\ step[r] = "reversing" => job[r].row # NoRow /\ Correctable(job[r].row)

\* Requests at work on one form or on one row exclude each other.
CorrectionsApart ==
    \A q, r \in Requests : q # r =>
        /\ step[q] = "checked" /\ step[r] = "checked" => Of(q) # Of(r)
        /\ step[q] \in Reviewing /\ step[r] \in Reviewing => Of(q) # Of(r)
        /\ step[q] = "reversing" /\ step[r] = "reversing" => job[q].row # job[r].row

ReviewedByAnother == \A f \in Forms : Decided(f) => form[f].reviewer # form[f].by

\* The inductive invariant.
CorrectionInv ==
    /\ CorrectionTypeOK
    /\ CorrectionRequestsOK
    /\ \A r \in Requests : step[r] # "idle" => CorrectionWork(r)
    /\ CorrectionsApart
    /\ CorrectionsApplyOnce
    /\ ReviewedByAnother

-----------------------------------------------------------------------------
(***************************************************************************)
(* Every step keeps the inductive invariant.                               *)
(***************************************************************************)
LEMMA CorrectionInitInv == CorrectionInit => CorrectionInv
<1>. SUFFICES ASSUME CorrectionInit PROVE CorrectionInv
    OBVIOUS
<1>. USE DEF CorrectionInit, RequestsInit
<1>1. CorrectionTypeOK
    BY DEF CorrectionTypeOK, NoForm
<1>2. CorrectionRequestsOK /\ CorrectionsApart /\ \A r \in Requests : step[r] = "idle"
    BY DEF CorrectionRequestsOK, CorrectionsApart, Reviewing
<1>3. CorrectionsApplyOnce /\ ReviewedByAnother
    BY DEF CorrectionsApplyOnce, AppliedTo, ReviewedByAnother, Decided, NoForm
<1>. QED BY <1>1, <1>2, <1>3 DEF CorrectionInv

\* A step that leaves the tables alone only has to keep the requests in order.
LEMMA FormsUnchanged ==
    ASSUME CorrectionInv, UNCHANGED <<form, rowType, undoneBy>>,
           CorrectionRequestsOK', CorrectionsApart',
           \A r \in Requests : step'[r] # "idle" => CorrectionWork(r)'
    PROVE  CorrectionInv'
BY DEF CorrectionInv, CorrectionTypeOK, CorrectionsApplyOnce, AppliedTo, ReviewedByAnother, Decided

LEMMA PostRowInv ==
    ASSUME CorrectionInv, NEW t \in Rows, NEW type \in {"INCOME", "EXPENSE"}, PostRow(t, type)
    PROVE  CorrectionInv'
<1>1. /\ rowType[t] = "NONE"
      /\ rowType' = [rowType EXCEPT ![t] = type]
      /\ UNCHANGED <<form, undoneBy, job, step, seen>>
    BY DEF PostRow, requestVars
<1>2. CorrectionTypeOK'
    BY <1>1 DEF CorrectionInv, CorrectionTypeOK
<1>3. ASSUME NEW r \in Requests, step'[r] # "idle" PROVE CorrectionWork(r)'
  <2>1. CorrectionWork(r) /\ step' = step /\ job' = job
      BY <1>1, <1>3 DEF CorrectionInv
  <2>2. ASSUME step[r] = "reversing" PROVE Correctable(job[r].row)'
    <3>1. job[r].row \in Rows /\ rowType[job[r].row] # "NONE" /\ job[r].row # t
        BY <1>1, <2>1, <2>2 DEF CorrectionWork, CorrectionJobs, Correctable
    <3>. QED BY <1>1, <2>1, <2>2, <3>1
                DEF CorrectionWork, Correctable, CorrectionInv, CorrectionTypeOK
  <2>. QED BY <1>1, <2>1, <2>2 DEF CorrectionWork, Of
<1>4. CorrectionRequestsOK' /\ CorrectionsApart' /\ CorrectionsApplyOnce' /\ ReviewedByAnother'
    BY <1>1
       DEF CorrectionInv, CorrectionRequestsOK, CorrectionsApart, Of, CorrectionsApplyOnce,
           AppliedTo, ReviewedByAnother, Decided
<1>. QED BY <1>2, <1>3, <1>4 DEF CorrectionInv

LEMMA ArriveInv ==
    ASSUME CorrectionInv, NEW r \in Requests, NEW f \in Forms, NEW u \in Officers,
           \/ \E t \in Rows \cup {NoRow} : CheckRow(r, f, t, u)
           \/ \E verdict \in {"APPROVED", "REJECTED"} : LockForm(r, f, u, verdict)
    PROVE  CorrectionInv'
<1>1. PICK t \in Rows \cup {NoRow}, verdict \in {"NONE", "APPROVED", "REJECTED"},
           s \in {"checked", "reviewing"} :
        /\ Arrive(r, [of |-> f, row |-> t, by |-> u, verdict |-> verdict], s, NoJob)
        /\ s = "checked" =>
              /\ form[f].status = "NONE" /\ (t # NoRow => Correctable(t))
              /\ Free(r, f, {"checked"})
        /\ s = "reviewing" =>
              /\ form[f].status = "PENDING" /\ form[f].by # u /\ t = form[f].row /\ verdict # "NONE"
              /\ Free(r, f, {"reviewing", "reversing"})
  <2>1. CASE \E t \in Rows \cup {NoRow} : CheckRow(r, f, t, u)
    <3>1. PICK t \in Rows \cup {NoRow} : CheckRow(r, f, t, u)
        BY <2>1
    <3>. QED BY <3>1 DEF CheckRow
  <2>2. CASE \E verdict \in {"APPROVED", "REJECTED"} : LockForm(r, f, u, verdict)
    <3>1. PICK verdict \in {"APPROVED", "REJECTED"} : LockForm(r, f, u, verdict)
        BY <2>2
    <3>2. form[f].row \in Rows \cup {NoRow}
        BY DEF CorrectionInv, CorrectionTypeOK
    <3>. QED BY <3>1, <3>2 DEF LockForm
  <2>. QED BY <2>1, <2>2
<1>2. /\ step[r] = "idle"
      /\ job' = [job EXCEPT ![r] = [of |-> f, row |-> t, by |-> u, verdict |-> verdict]]
      /\ step' = [step EXCEPT ![r] = s]
    BY <1>1 DEF Arrive
<1>3. UNCHANGED <<form, rowType, undoneBy>>
    BY DEF CheckRow, LockForm, formVars
<1>4. CorrectionRequestsOK /\ CorrectionRequestsOK'
    BY <1>2 DEF CorrectionInv, CorrectionRequestsOK
<1>5. /\ job'[r] = [of |-> f, row |-> t, by |-> u, verdict |-> verdict] /\ step'[r] = s
      /\ \A q \in Requests \ {r} : job'[q] = job[q] /\ step'[q] = step[q]
    BY <1>2, <1>4 DEF CorrectionRequestsOK
<1>6. ASSUME NEW q \in Requests, step'[q] # "idle" PROVE CorrectionWork(q)'
  <2>1. CASE q # r
      BY <1>3, <1>5, <1>6, <2>1 DEF CorrectionInv, CorrectionWork, Of, Correctable
  <2>2. CASE q = r
      BY <1>1, <1>3, <1>5, <2>2 DEF CorrectionWork, Of, CorrectionJobs, Reviewing, Correctable
  <2>. QED BY <2>1, <2>2
<1>7. CorrectionsApart'
  <2>. SUFFICES ASSUME NEW q \in Requests, NEW p \in Requests, q # p
                PROVE  /\ step'[q] = "checked" /\ step'[p] = "checked" => Of(q)' # Of(p)'
                       /\ step'[q] \in Reviewing /\ step'[p] \in Reviewing => Of(q)' # Of(p)'
                       /\ step'[q] = "reversing" /\ step'[p] = "reversing" => job'[q].row # job'[p].row
      BY DEF CorrectionsApart
  <2>1. CASE q # r /\ p # r
      BY <1>5, <2>1 DEF CorrectionInv, CorrectionsApart, Of
  <2>2. CASE q = r
      BY <1>1, <1>5, <2>2 DEF Free, Of, Reviewing
  <2>3. CASE p = r
      BY <1>1, <1>5, <2>3 DEF Free, Of, Reviewing
  <2>. QED BY <2>1, <2>2, <2>3
<1>. QED BY <1>3, <1>4, <1>6, <1>7, FormsUnchanged

LEMMA LockRowInv ==
    ASSUME CorrectionInv, NEW r \in Requests, LockRow(r)
    PROVE  CorrectionInv'
<1>1. /\ step[r] = "reviewing"
      /\ step' = [step EXCEPT ![r] = "reversing"]
      /\ job' = job
      /\ job[r].row # NoRow /\ Correctable(job[r].row)
      /\ \A q \in Requests \ {r} : step[q] = "reversing" => job[q].row # job[r].row
      /\ UNCHANGED <<form, rowType, undoneBy>>
    BY DEF LockRow, Advance, formVars
<1>2. CorrectionRequestsOK /\ CorrectionRequestsOK'
    BY <1>1 DEF CorrectionInv, CorrectionRequestsOK
<1>3. step'[r] = "reversing" /\ \A q \in Requests \ {r} : step'[q] = step[q]
    BY <1>1, <1>2 DEF CorrectionRequestsOK
<1>4. ASSUME NEW q \in Requests, step'[q] # "idle" PROVE CorrectionWork(q)'
    BY <1>1, <1>3, <1>4 DEF CorrectionInv, CorrectionWork, Of, Correctable, Reviewing
<1>5. CorrectionsApart'
    BY <1>1, <1>3 DEF CorrectionInv, CorrectionsApart, Of, Reviewing
<1>. QED BY <1>1, <1>2, <1>4, <1>5, FormsUnchanged

\* A request that ends without touching the tables.
LEMMA LeaveInv ==
    ASSUME CorrectionInv, NEW r \in Requests, AbandonForm(r)
    PROVE  CorrectionInv'
<1>1. /\ step' = [step EXCEPT ![r] = "idle"]
      /\ job' = [job EXCEPT ![r] = NoJob]
      /\ UNCHANGED <<form, rowType, undoneBy>>
    BY DEF AbandonForm, Abandon, Finish, formVars
<1>2. CorrectionRequestsOK /\ CorrectionRequestsOK'
    BY <1>1 DEF CorrectionInv, CorrectionRequestsOK
<1>3. step'[r] = "idle" /\ \A q \in Requests \ {r} : job'[q] = job[q] /\ step'[q] = step[q]
    BY <1>1, <1>2 DEF CorrectionRequestsOK
<1>4. ASSUME NEW q \in Requests, step'[q] # "idle" PROVE CorrectionWork(q)'
    BY <1>1, <1>3, <1>4 DEF CorrectionInv, CorrectionWork, Of, Correctable
<1>5. CorrectionsApart'
    BY <1>3 DEF CorrectionInv, CorrectionsApart, Of, Reviewing
<1>. QED BY <1>1, <1>2, <1>4, <1>5, FormsUnchanged

LEMMA RequestInv ==
    ASSUME CorrectionInv, NEW r \in Requests, CommitRequest(r)
    PROVE  CorrectionInv'
<1>1. CorrectionWork(r) /\ step[r] = "checked"
    BY DEF CommitRequest, CorrectionInv
<1>. PICK f \in Forms : f = Of(r)
    BY <1>1 DEF CorrectionWork, CorrectionJobs, Of
<1>. DEFINE new == [NoForm EXCEPT !.status = "PENDING", !.row = job[r].row, !.by = job[r].by]
<1>2. /\ step' = [step EXCEPT ![r] = "idle"]
      /\ job' = [job EXCEPT ![r] = NoJob]
      /\ form' = [form EXCEPT ![f] = new]
      /\ UNCHANGED <<rowType, undoneBy>>
    BY DEF CommitRequest, Finish, Of
<1>3. new = [status |-> "PENDING", row |-> job[r].row, by |-> job[r].by, reviewer |-> Nobody, reversal |-> NoRow]
  <2>. DEFINE pending == [NoForm EXCEPT !.status = "PENDING"]
              aimed == [pending EXCEPT !.row = job[r].row]
  <2>1. pending = [status |-> "PENDING", row |-> NoRow, by |-> Nobody, reviewer |-> Nobody, reversal |-> NoRow]
      BY DEF NoForm
  <2>. HIDE DEF pending
  <2>2. aimed = [status |-> "PENDING", row |-> job[r].row, by |-> Nobody, reviewer |-> Nobody, reversal |-> NoRow]
      BY <2>1
  <2>. HIDE DEF aimed
  <2>3. [aimed EXCEPT !.by = job[r].by] =
          [status |-> "PENDING", row |-> job[r].row, by |-> job[r].by, reviewer |-> Nobody, reversal |-> NoRow]
      BY <2>2
  <2>. QED BY <2>3 DEF aimed, pending
<1>4. form[f].status = "NONE" /\ new.status = "PENDING"
    BY <1>1, <1>3 DEF CorrectionWork
<1>. HIDE DEF new
<1>5. DOMAIN form = Forms
    BY DEF CorrectionInv, CorrectionTypeOK
<1>6. form'[f] = new /\ \A g \in Forms \ {f} : form'[g] = form[g]
    BY <1>2, <1>5
<1>7. CorrectionTypeOK'
    BY <1>1, <1>2, <1>3 DEF CorrectionInv, CorrectionTypeOK, CorrectionWork, CorrectionJobs
<1>8. CorrectionRequestsOK /\ CorrectionRequestsOK'
    BY <1>2 DEF CorrectionInv, CorrectionRequestsOK
<1>9. step'[r] = "idle" /\ \A q \in Requests \ {r} : job'[q] = job[q] /\ step'[q] = step[q]
    BY <1>2, <1>8 DEF CorrectionRequestsOK
<1>10. ASSUME NEW q \in Requests, step'[q] # "idle" PROVE CorrectionWork(q)'
  <2>1. /\ q # r /\ CorrectionWork(q) /\ Of(q) \in Forms
        /\ step'[q] = step[q] /\ job'[q] = job[q]
      BY <1>9, <1>10 DEF CorrectionInv, CorrectionWork, CorrectionJobs, Of
  <2>2. step[q] = "checked" \/ step[q] \in Reviewing => Of(q) # f
      BY <1>1, <1>4, <2>1 DEF CorrectionInv, CorrectionsApart, CorrectionWork
  <2>. QED BY <1>2, <1>6, <2>1, <2>2 DEF CorrectionWork, Of, Correctable, Reviewing
<1>11. CorrectionsApart'
    BY <1>2, <1>9 DEF CorrectionInv, CorrectionsApart, Of, Reviewing
<1>12. CorrectionsApplyOnce'
  <2>1. ASSUME NEW t \in Rows PROVE AppliedTo(t)' = AppliedTo(t)
      BY <1>4, <1>6 DEF AppliedTo
  <2>2. ASSUME NEW t \in Rows, NEW g \in AppliedTo(t) PROVE form'[g] = form[g]
      BY <1>4, <1>6 DEF AppliedTo
  <2>. QED BY <1>2, <2>1, <2>2 DEF CorrectionInv, CorrectionsApplyOnce
<1>13. ReviewedByAnother'
    BY <1>4, <1>6 DEF CorrectionInv, ReviewedByAnother, Decided
<1>. QED BY <1>7, <1>8, <1>10, <1>11, <1>12, <1>13 DEF CorrectionInv

\* Setting two columns of one row keeps the shape of the table.
LEMMA TwoColumns ==
    ASSUME NEW table \in FormTable, NEW f \in Forms, NEW u \in Officers,
           NEW status \in {"APPROVED", "REJECTED", "APPLIED"}
    PROVE  [table EXCEPT ![f].status = status, ![f].reviewer = u] \in FormTable
<1>. DEFINE first == [table EXCEPT ![f].status = status]
<1>1. first \in FormTable
    BY DEF FormTable
<1>. HIDE DEF first
<1>2. [first EXCEPT ![f].reviewer = u] \in FormTable
    BY <1>1 DEF FormTable
<1>. QED BY <1>2 DEF first

\* A decision, with or without the reversal of a ledger row.
LEMMA DecisionInv ==
    ASSUME CorrectionInv, NEW r \in Requests, Decide(r) \/ \E new \in Rows : ApplyReversal(r, new)
    PROVE  CorrectionInv'
<1>1. CorrectionWork(r) /\ step[r] \in Reviewing
    BY DEF Decide, ApplyReversal, CorrectionInv, Reviewing
<1>. PICK f \in Forms : f = Of(r)
    BY <1>1 DEF CorrectionWork, CorrectionJobs, Of
<1>2. /\ form[f].status = "PENDING" /\ form[f].by # job[r].by /\ form[f].row = job[r].row
      /\ job[r].by \in Officers /\ job[r].verdict \in {"APPROVED", "REJECTED"}
    BY <1>1 DEF CorrectionWork, CorrectionJobs
<1>3. form \in FormTable
    BY DEF CorrectionInv, CorrectionTypeOK, FormTable
<1>4. /\ step' = [step EXCEPT ![r] = "idle"]
      /\ job' = [job EXCEPT ![r] = NoJob]
    BY DEF Decide, ApplyReversal, Finish
<1>5. CorrectionRequestsOK /\ CorrectionRequestsOK'
    BY <1>4 DEF CorrectionInv, CorrectionRequestsOK
<1>6. step'[r] = "idle" /\ \A q \in Requests \ {r} : job'[q] = job[q] /\ step'[q] = step[q]
    BY <1>4, <1>5 DEF CorrectionRequestsOK
<1>7. CorrectionsApart'
    BY <1>6 DEF CorrectionInv, CorrectionsApart, Of, Reviewing
<1>8. ASSUME NEW q \in Requests \ {r}, step[q] # "idle"
      PROVE  CorrectionWork(q) /\ Of(q) \in Forms /\ (step[q] = "checked" \/ step[q] \in Reviewing => Of(q) # f)
  <2>1. CorrectionWork(q) /\ Of(q) \in Forms
      BY <1>8 DEF CorrectionInv, CorrectionWork, CorrectionJobs, Of
  <2>. QED BY <1>1, <1>2, <2>1 DEF CorrectionInv, CorrectionsApart, CorrectionWork
<1>9. CASE Decide(r)
  <2>1. /\ form' = [form EXCEPT ![f].status = job[r].verdict, ![f].reviewer = job[r].by]
        /\ UNCHANGED <<rowType, undoneBy>>
      BY <1>9 DEF Decide, Of
  <2>2. CorrectionTypeOK'
    <3>1. form' \in FormTable
        BY <1>2, <1>3, <2>1, TwoColumns
    <3>. QED BY <1>4, <2>1, <3>1 DEF CorrectionInv, CorrectionTypeOK, FormTable
  <2>3. /\ form'[f].status = job[r].verdict /\ form'[f].reviewer = job[r].by /\ form'[f].by = form[f].by
        /\ \A g \in Forms \ {f} : form'[g] = form[g]
      BY <1>3, <2>1 DEF FormTable
  <2>4. ASSUME NEW q \in Requests, step'[q] # "idle" PROVE CorrectionWork(q)'
    <3>1. q # r /\ step'[q] = step[q] /\ job'[q] = job[q] /\ CorrectionWork(q) /\ Of(q)' = Of(q)
        BY <1>6, <1>8, <2>4 DEF Of
    <3>2. Correctable(job[q].row)' <=> Correctable(job[q].row)
        BY <2>1, <3>1 DEF Correctable
    <3>3. step[q] = "checked" /\ job[q].row # NoRow => rowType'[job[q].row] \in {"INCOME", "EXPENSE"}
        BY <2>1, <3>1 DEF CorrectionWork
    <3>. QED BY <1>6, <1>8, <2>3, <3>1, <3>2, <3>3 DEF CorrectionWork, Reviewing
  <2>5. CorrectionsApplyOnce'
    <3>1. ASSUME NEW t \in Rows PROVE AppliedTo(t)' = AppliedTo(t)
        BY <1>2, <2>3 DEF AppliedTo
    <3>2. ASSUME NEW t \in Rows, NEW g \in AppliedTo(t) PROVE form'[g] = form[g]
        BY <1>2, <2>3 DEF AppliedTo
    <3>. QED BY <2>1, <3>1, <3>2 DEF CorrectionInv, CorrectionsApplyOnce
  <2>6. ReviewedByAnother'
      BY <1>2, <2>3 DEF CorrectionInv, ReviewedByAnother, Decided
  <2>. QED BY <1>5, <1>7, <2>2, <2>4, <2>5, <2>6 DEF CorrectionInv
<1>10. CASE \E new \in Rows : ApplyReversal(r, new)
  <2>. PICK new \in Rows : ApplyReversal(r, new)
      BY <1>10
  <2>. PICK t \in Rows : t = job[r].row
      BY <1>1 DEF ApplyReversal, CorrectionWork, CorrectionJobs
  <2>1. /\ rowType[new] = "NONE" /\ Correctable(t) /\ step[r] = "reversing"
        /\ rowType' = [rowType EXCEPT ![new] = "REVERSAL"]
        /\ undoneBy' = [undoneBy EXCEPT ![t] = new]
        /\ form' = [form EXCEPT ![f].status = "APPLIED", ![f].reviewer = job[r].by, ![f].reversal = new]
      BY <1>1 DEF ApplyReversal, Of, CorrectionWork
  <2>2. CorrectionTypeOK'
    <3>. DEFINE decided == [form EXCEPT ![f].status = "APPLIED", ![f].reviewer = job[r].by]
    <3>1. decided \in FormTable
        BY <1>2, <1>3, TwoColumns
    <3>. HIDE DEF decided
    <3>2. [decided EXCEPT ![f].reversal = new] \in FormTable
        BY <3>1 DEF FormTable
    <3>3. form' \in FormTable
        BY <2>1, <3>2 DEF decided
    <3>. QED BY <1>4, <2>1, <3>3 DEF CorrectionInv, CorrectionTypeOK, FormTable
  <2>3. /\ form'[f].status = "APPLIED" /\ form'[f].reviewer = job[r].by /\ form'[f].by = form[f].by
        /\ form'[f].row = t /\ form'[f].reversal = new
        /\ \A g \in Forms \ {f} : form'[g] = form[g]
      BY <1>2, <1>3, <2>1 DEF FormTable
  <2>4. /\ undoneBy'[t] = new /\ \A s \in Rows \ {t} : undoneBy'[s] = undoneBy[s]
        /\ \A s \in Rows \ {new} : rowType'[s] = rowType[s]
      BY <2>1 DEF CorrectionInv, CorrectionTypeOK
  <2>5. ASSUME NEW q \in Requests, step'[q] # "idle" PROVE CorrectionWork(q)'
    <3>1. q # r /\ step'[q] = step[q] /\ job'[q] = job[q] /\ CorrectionWork(q) /\ Of(q)' = Of(q)
        BY <1>6, <1>8, <2>5 DEF Of
    <3>2. ASSUME step[q] = "reversing" PROVE Correctable(job[q].row)'
      <4>1. job[q].row \in Rows \ {t, new} /\ Correctable(job[q].row)
          BY <2>1, <3>1, <3>2
             DEF CorrectionInv, CorrectionsApart, CorrectionWork, CorrectionJobs, Correctable
      <4>. QED BY <2>4, <3>1, <4>1 DEF Correctable
    <3>3. ASSUME step[q] = "checked", job[q].row # NoRow
          PROVE  rowType'[job[q].row] \in {"INCOME", "EXPENSE"}
      <4>1. job[q].row \in Rows \ {new} /\ rowType[job[q].row] \in {"INCOME", "EXPENSE"}
          BY <2>1, <3>1, <3>3 DEF CorrectionWork, CorrectionJobs
      <4>. QED BY <2>4, <4>1
    <3>. QED BY <1>6, <1>8, <2>3, <3>1, <3>2, <3>3 DEF CorrectionWork, Reviewing
  <2>6. CorrectionsApplyOnce'
    <3>1. AppliedTo(t) = {}
        BY <2>1 DEF CorrectionInv, CorrectionsApplyOnce, Correctable
    <3>2. AppliedTo(t)' = {f}
        BY <2>3, <3>1 DEF AppliedTo
    <3>3. ASSUME NEW s \in Rows \ {t} PROVE AppliedTo(s)' = AppliedTo(s)
        BY <1>2, <2>3 DEF AppliedTo
    <3>4. ASSUME NEW s \in Rows, NEW g \in AppliedTo(s) PROVE form'[g] = form[g]
        BY <1>2, <2>3 DEF AppliedTo
    <3>. QED BY <2>3, <2>4, <3>2, <3>3, <3>4, CorrectionAssumption
                DEF CorrectionInv, CorrectionsApplyOnce
  <2>7. ReviewedByAnother'
      BY <1>2, <2>3 DEF CorrectionInv, ReviewedByAnother, Decided
  <2>. QED BY <1>5, <1>7, <2>2, <2>5, <2>6, <2>7 DEF CorrectionInv
<1>. QED BY <1>9, <1>10

LEMMA CorrectionNextInv ==
    ASSUME CorrectionInv, [CorrectionNext]_correctionVars
    PROVE  CorrectionInv'
<1>1. CASE UNCHANGED correctionVars
  <2>1. UNCHANGED <<form, rowType, undoneBy, job, step, seen>>
      BY <1>1 DEF correctionVars, formVars, requestVars
  <2>. QED BY <2>1, FormsUnchanged
           DEF CorrectionInv, CorrectionTypeOK, CorrectionRequestsOK, CorrectionWork, CorrectionsApart, Of, Correctable
<1>2. ASSUME NEW t \in Rows, NEW type \in {"INCOME", "EXPENSE"}, PostRow(t, type) PROVE CorrectionInv'
    BY <1>2, PostRowInv
<1>3. ASSUME NEW r \in Requests, NEW f \in Forms, NEW u \in Officers,
             \/ \E t \in Rows \cup {NoRow} : CheckRow(r, f, t, u)
             \/ \E verdict \in {"APPROVED", "REJECTED"} : LockForm(r, f, u, verdict)
      PROVE  CorrectionInv'
    BY <1>3, ArriveInv
<1>4. ASSUME NEW r \in Requests, CommitRequest(r) PROVE CorrectionInv'
    BY <1>4, RequestInv
<1>5. ASSUME NEW r \in Requests, AbandonForm(r) PROVE CorrectionInv'
    BY <1>5, LeaveInv
<1>6. ASSUME NEW r \in Requests, LockRow(r) PROVE CorrectionInv'
    BY <1>6, LockRowInv
<1>7. ASSUME NEW r \in Requests, Decide(r) \/ \E new \in Rows : ApplyReversal(r, new) PROVE CorrectionInv'
    BY <1>7, DecisionInv
<1>. QED BY <1>1, <1>2, <1>3, <1>4, <1>5, <1>6, <1>7 DEF CorrectionNext

\* A step changes a request for correction only while it is new or pending, and whoever
\* decides is not who asked.
LEMMA StepDecides ==
    ASSUME CorrectionInv, CorrectionInv', CorrectionNext, NEW f \in Forms
    PROVE  /\ Decided(f) => form'[f] = form[f]
           /\ Decided(f)' => form'[f].reviewer # form'[f].by
<1>1. Decided(f)' => form'[f].reviewer # form'[f].by
    BY DEF CorrectionInv, ReviewedByAnother
<1>2. ASSUME Decided(f) PROVE form'[f] = form[f]
  <2>1. ASSUME NEW r \in Requests, CommitRequest(r) PROVE form'[f] = form[f]
    <3>1. step[r] = "checked" /\ CorrectionWork(r)
        BY <2>1 DEF CommitRequest, CorrectionInv
    <3>2. f # Of(r)
        BY <1>2, <3>1 DEF CorrectionWork, Decided
    <3>. QED BY <2>1, <3>2 DEF CommitRequest, Of, CorrectionInv, CorrectionTypeOK
  <2>2. ASSUME NEW r \in Requests, Decide(r) \/ \E new \in Rows : ApplyReversal(r, new)
        PROVE  form'[f] = form[f]
    <3>1. step[r] \in Reviewing /\ step[r] # "idle" /\ CorrectionWork(r)
        BY <2>2 DEF Decide, ApplyReversal, Reviewing, CorrectionInv
    <3>2. f # Of(r)
        BY <1>2, <3>1 DEF CorrectionWork, Decided
    <3>. QED BY <2>2, <3>2 DEF Decide, ApplyReversal, Of, CorrectionInv, CorrectionTypeOK
  <2>. QED BY <2>1, <2>2
           DEF CorrectionNext, PostRow, CheckRow, LockForm, LockRow, AbandonForm, formVars
<1>. QED BY <1>1, <1>2

\* Requests for correction, their reviews and the reversals fit together in every state.
THEOREM ReviewsSerialize == CorrectionSpec => []CorrectionInv
BY CorrectionInitInv, CorrectionNextInv, PTL DEF CorrectionSpec

\* The tables keep their shape for any number of requests.
THEOREM CorrectionTypeCorrect == CorrectionSpec => []CorrectionTypeOK
<1>1. CorrectionInv => CorrectionTypeOK
    BY DEF CorrectionInv
<1>. QED BY <1>1, ReviewsSerialize, PTL

\* A ledger row is undone exactly by the one correction applied to it.
THEOREM RowsAreUndoneOnce == CorrectionSpec => []CorrectionsApplyOnce
<1>1. CorrectionInv => CorrectionsApplyOnce
    BY DEF CorrectionInv
<1>. QED BY <1>1, ReviewsSerialize, PTL

\* Decisions are never overwritten and never made by who asked.
THEOREM DecisionsAlwaysStand == CorrectionSpec => DecisionsStand
<1>1. CorrectionInv /\ CorrectionInv' /\ [CorrectionNext]_correctionVars
      => [\A f \in Forms :
            /\ Decided(f) => form'[f] = form[f]
            /\ Decided(f)' => form'[f].reviewer # form'[f].by]_correctionVars
    BY StepDecides
<1>. QED BY <1>1, ReviewsSerialize, PTL DEF CorrectionSpec, DecisionsStand

-----------------------------------------------------------------------------
(***************************************************************************)
(* Every commit is the call of the same name, every other step a stutter.  *)
(***************************************************************************)
Statuses == [f \in Forms |-> form[f].status]
Targeted == [f \in Forms |-> form[f].row]
Authors == [f \in Forms |-> form[f].by]
Reviewers == [f \in Forms |-> form[f].reviewer]
Undone == {t \in Rows : undoneBy[t] # NoRow}

\* What is left of the columns when one request for correction is written.
LEMMA ColumnsWritten ==
    ASSUME NEW f \in Forms, \A g \in Forms \ {f} : form'[g] = form[g]
    PROVE  /\ Statuses' = [Statuses EXCEPT ![f] = form'[f].status]
           /\ Targeted' = [Targeted EXCEPT ![f] = form'[f].row]
           /\ Authors' = [Authors EXCEPT ![f] = form'[f].by]
           /\ Reviewers' = [Reviewers EXCEPT ![f] = form'[f].reviewer]
BY DEF Statuses, Targeted, Authors, Reviewers

\* A decision changes the status and the reviewer of one pending request of another officer.
LEMMA DecisionReviews ==
    ASSUME CorrectionInv, NEW r \in Requests, Decide(r) \/ \E new \in Rows : ApplyReversal(r, new)
    PROVE  \E f \in Forms, u \in Officers :
           /\ f = Of(r) /\ u = job[r].by /\ job[r].row = form[f].row
           /\ \A verdict : form'[f].status = verdict => Calls!Review(f, u, verdict)
<1>. DEFINE f == Of(r)
<1>1. step[r] \in Reviewing /\ CorrectionWork(r) /\ f \in Forms /\ form \in FormTable
    BY DEF Decide, ApplyReversal, Reviewing, CorrectionInv, CorrectionTypeOK, FormTable,
           CorrectionWork, CorrectionJobs, Of
<1>2. /\ form[f].status = "PENDING" /\ form[f].by # job[r].by /\ form[f].row = job[r].row
      /\ job[r].by \in Officers
    BY <1>1 DEF CorrectionWork, CorrectionJobs
<1>3. /\ form'[f].row = form[f].row /\ form'[f].by = form[f].by /\ form'[f].reviewer = job[r].by
      /\ \A g \in Forms \ {f} : form'[g] = form[g]
  <2>1. CASE Decide(r)
      BY <1>1, <2>1 DEF Decide, Of, FormTable
  <2>2. CASE \E new \in Rows : ApplyReversal(r, new)
    <3>1. PICK new \in Rows : ApplyReversal(r, new)
        BY <2>2
    <3>2. form' = [form EXCEPT ![f].status = "APPLIED", ![f].reviewer = job[r].by, ![f].reversal = new]
        BY <3>1 DEF ApplyReversal, Of
    <3>. HIDE DEF f
    <3>. QED BY <1>1, <3>2 DEF FormTable
  <2>. QED BY <2>1, <2>2
<1>4. /\ Statuses' = [Statuses EXCEPT ![f] = form'[f].status]
      /\ Reviewers' = [Reviewers EXCEPT ![f] = job[r].by]
      /\ Targeted' = Targeted /\ Authors' = Authors
    BY <1>1, <1>3, ColumnsWritten DEF Targeted, Authors
<1>5. Statuses[f] = "PENDING" /\ Authors[f] # job[r].by
    BY <1>1, <1>2 DEF Statuses, Authors
<1>6. PICK g \in Forms, u \in Officers : g = f /\ u = job[r].by
    BY <1>1, <1>2
<1>. SUFFICES ASSUME NEW verdict, form'[g].status = verdict PROVE Calls!Review(g, u, verdict)
    BY <1>2, <1>6
<1>. QED BY <1>4, <1>5, <1>6 DEF Calls!Review, Statuses, Targeted, Authors, Reviewers

LEMMA RequestIsCall ==
    ASSUME CorrectionInv, NEW r \in Requests, CommitRequest(r)
    PROVE  Calls!LifecycleNext
<1>1. step[r] = "checked" /\ CorrectionWork(r) /\ Of(r) \in Forms /\ form \in FormTable
    BY DEF CommitRequest, CorrectionInv, CorrectionTypeOK, FormTable,
           CorrectionWork, CorrectionJobs, Of
<1>2. PICK f \in Forms, t \in Rows \cup {NoRow}, u \in Officers :
           f = Of(r) /\ t = job[r].row /\ u = job[r].by
    BY <1>1 DEF CorrectionWork, CorrectionJobs
<1>3. /\ form[f].status = "NONE" /\ (t # NoRow => rowType[t] \in {"INCOME", "EXPENSE"})
      /\ form'[f].status = "PENDING" /\ form'[f].row = t /\ form'[f].by = u
      /\ form'[f].reviewer = Nobody
      /\ \A g \in Forms \ {f} : form'[g] = form[g]
      /\ UNCHANGED <<rowType, undoneBy>>
    BY <1>1, <1>2 DEF CommitRequest, Of, FormTable, NoForm, CorrectionWork
<1>4. /\ Statuses' = [Statuses EXCEPT ![f] = "PENDING"]
      /\ Targeted' = [Targeted EXCEPT ![f] = t]
      /\ Authors' = [Authors EXCEPT ![f] = u]
      /\ Reviewers' = [Reviewers EXCEPT ![f] = Nobody]
    BY <1>3, ColumnsWritten
<1>5. Calls!Request(f, t, u)
    BY <1>3, <1>4 DEF Calls!Request, Statuses, Targeted, Authors, Reviewers
<1>. QED BY <1>5 DEF Calls!LifecycleNext

LEMMA DecisionIsCall ==
    ASSUME CorrectionInv, NEW r \in Requests, Decide(r)
    PROVE  Calls!LifecycleNext
<1>1. PICK f \in Forms, u \in Officers :
        /\ f = Of(r) /\ u = job[r].by /\ job[r].row = form[f].row
        /\ \A verdict : form'[f].status = verdict => Calls!Review(f, u, verdict)
    BY DecisionReviews
<1>2. /\ step[r] = "reviewing" /\ CorrectionWork(r) /\ form \in FormTable
      /\ UNCHANGED <<rowType, undoneBy>>
    BY DEF Decide, CorrectionInv, CorrectionTypeOK, FormTable
<1>3. /\ form'[f].status = job[r].verdict
      /\ job[r].verdict \in {"APPROVED", "REJECTED"}
      /\ job[r].verdict = "REJECTED" \/ form[f].row = NoRow
    BY <1>1, <1>2 DEF Decide, Reviewing, Of, FormTable, CorrectionWork, CorrectionJobs
<1>4. CASE job[r].verdict = "REJECTED"
  <2>1. Calls!Reject(f, u)
      BY <1>1, <1>2, <1>3, <1>4 DEF Calls!Reject
  <2>. QED BY <2>1 DEF Calls!LifecycleNext
<1>5. CASE job[r].verdict = "APPROVED"
  <2>1. Calls!Approve(f, u)
      BY <1>1, <1>2, <1>3, <1>5 DEF Calls!Approve
  <2>. QED BY <2>1 DEF Calls!LifecycleNext
<1>. QED BY <1>3, <1>4, <1>5

LEMMA ReversalIsCall ==
    ASSUME CorrectionInv, NEW r \in Requests, NEW new \in Rows, ApplyReversal(r, new)
    PROVE  Calls!LifecycleNext
<1>1. PICK f \in Forms, u \in Officers :
        /\ f = Of(r) /\ u = job[r].by /\ job[r].row = form[f].row
        /\ \A verdict : form'[f].status = verdict => Calls!Review(f, u, verdict)
    BY DecisionReviews
<1>2. /\ form[f].row \in Rows /\ Correctable(form[f].row)
      /\ rowType[new] = "NONE" /\ rowType' = [rowType EXCEPT ![new] = "REVERSAL"]
      /\ undoneBy' = [undoneBy EXCEPT ![form[f].row] = new]
    BY <1>1 DEF ApplyReversal, CorrectionInv, CorrectionWork, CorrectionJobs
<1>3. form'[f].status = "APPLIED"
    BY <1>1 DEF ApplyReversal, Of, CorrectionInv, CorrectionTypeOK
<1>4. Undone' = Undone \cup {form[f].row} /\ form[f].row \notin Undone
    BY <1>2, CorrectionAssumption DEF Undone, Correctable, CorrectionInv, CorrectionTypeOK
<1>5. Targeted[f] = form[f].row
    BY DEF Targeted
<1>6. Calls!Review(f, u, "APPLIED")
    BY <1>1, <1>3
<1>7. Calls!Apply(f, u, new)
    BY <1>2, <1>4, <1>5, <1>6 DEF Calls!Apply, Undone, Targeted, Correctable
<1>. QED BY <1>7 DEF Calls!LifecycleNext

LEMMA CorrectionInitIsCalls == CorrectionInit => Calls!LifecycleInit
BY DEF CorrectionInit, NoForm, Calls!LifecycleInit

LEMMA CorrectionStepIsCall ==
    ASSUME CorrectionInv, [CorrectionNext]_correctionVars
    PROVE  [Calls!LifecycleNext]_(Calls!lifecycleVars)
<1>1. ASSUME UNCHANGED <<form, rowType, undoneBy>> PROVE UNCHANGED Calls!lifecycleVars
    BY <1>1 DEF Calls!lifecycleVars, Calls!requestVars
<1>2. ASSUME NEW t \in Rows, NEW type \in {"INCOME", "EXPENSE"}, PostRow(t, type)
      PROVE  Calls!LifecycleNext
  <2>1. Calls!Post(t)
      BY <1>2 DEF PostRow, Calls!Post, Calls!requestVars
  <2>. QED BY <2>1 DEF Calls!LifecycleNext
<1>3. \/ UNCHANGED <<form, rowType, undoneBy>>
      \/ \E t \in Rows, type \in {"INCOME", "EXPENSE"} : PostRow(t, type)
      \/ \E r \in Requests : CommitRequest(r) \/ Decide(r) \/ \E new \in Rows : ApplyReversal(r, new)
    BY DEF CorrectionNext, correctionVars, formVars, CheckRow, LockForm, LockRow,
       AbandonForm
<1>. QED BY <1>1, <1>2, <1>3, RequestIsCall, DecisionIsCall, ReversalIsCall

\* However many officers ask and decide at once, they do only what single calls do: nobody
\* decides twice nor for themselves, and no ledger row is undone for two requests.
THEOREM CorrectionsRefineCalls == CorrectionSpec => ImplementsCalls
<1>1. CorrectionInv /\ [CorrectionNext]_correctionVars => [Calls!LifecycleNext]_(Calls!lifecycleVars)
    BY CorrectionStepIsCall
<1>. QED BY <1>1, CorrectionInitIsCalls, ReviewsSerialize, PTL
         DEF CorrectionSpec, ImplementsCalls, Calls!LifecycleSpec

-----------------------------------------------------------------------------
(***************************************************************************)
(* Statement lines: any number of records, lines and ledger rows.          *)
(***************************************************************************)
LinesSteps == {"idle", "importing", "line", "found", "unclaimed", "counted"}

LinesRequestsOK ==
    /\ step \in [Requests -> LinesSteps]
    /\ DOMAIN job = Requests
    /\ DOMAIN seen = Requests

Complete(k) == LinesOf(k) # {} /\ \A l \in LinesOf(k) : IsMatched(l) \/ l \in late

\* A counted record balances, and the lines it had when finalize counted them are matched.
Counted(r) ==
    /\ job[r] \in [of : Records]
    /\ recordState[Of(r)] # "NONE" /\ balanced[Of(r)]
    /\ seen[r] = "FINALIZED" => Complete(Of(r))

LineWork(r) ==
    /\ step[r] = "importing" => job[r] \in [of : Records, lines : SUBSET Lines]
    /\ step[r] \in {"line", "found", "unclaimed"} => Of(r) \in Lines
    /\ step[r] \in {"found", "unclaimed"} => seen[r].row \in LedgerRows
    /\ step[r] = "counted" => Counted(r)

\* A row one request has found free is no other line's, nor has another request found
\* it free, unless the two raced for it.
FoundFree ==
    \A r \in Requests : step[r] = "unclaimed" =>
        /\ \A m \in Lines \ {Of(r)} : line[m].match = seen[r].row => seen[r].row \in raced
        /\ \A q \in Requests \ {r} :
              step[q] = "unclaimed" /\ seen[q].row = seen[r].row => seen[r].row \in raced

\* The inductive invariant.
LinesInv ==
    /\ LinesTypeOK
    /\ LinesRequestsOK
    /\ \A r \in Requests : LineWork(r)
    /\ FoundFree
    /\ MatchedApart /\ FinalizedIsComplete

-----------------------------------------------------------------------------
LEMMA LinesInitInv == LinesInit => LinesInv
<1>. SUFFICES ASSUME LinesInit PROVE LinesInv
    OBVIOUS
<1>1. LinesTypeOK
    BY DEF LinesInit, LinesTypeOK, NoLine, NotPosted
<1>2. LinesRequestsOK /\ \A r \in Requests : step[r] = "idle"
    BY DEF LinesInit, RequestsInit, LinesRequestsOK, LinesSteps
<1>3. \A r \in Requests : LineWork(r)
    BY <1>2 DEF LineWork
<1>4. (\A l \in Lines : line[l].match = NoMatch) /\ (\A k \in Records : recordState[k] = "NONE")
    BY DEF LinesInit, NoLine
<1>. QED BY <1>1, <1>2, <1>3, <1>4
            DEF LinesInv, FoundFree, MatchedApart, FinalizedIsComplete, IsMatched

-----------------------------------------------------------------------------
(***************************************************************************)
(* Requests.                                                               *)
(***************************************************************************)
\* One request takes a step, and the others stay where they are.
LinesStepOf(r) ==
    /\ LinesRequestsOK'
    /\ \A q \in Requests \ {r} : step'[q] = step[q] /\ job'[q] = job[q] /\ seen'[q] = seen[q]

LEMMA LinesArrival ==
    ASSUME LinesInv, NEW r \in Requests, NEW j, NEW s \in LinesSteps, NEW x, Arrive(r, j, s, x)
    PROVE  LinesStepOf(r) /\ step'[r] = s /\ job'[r] = j /\ seen'[r] = x
BY DEF Arrive, LinesInv, LinesRequestsOK, LinesStepOf

LEMMA LinesAdvance ==
    ASSUME LinesInv, NEW r \in Requests, NEW from, NEW s \in LinesSteps, NEW x, Advance(r, from, s, x)
    PROVE  LinesStepOf(r) /\ step[r] = from /\ step'[r] = s /\ job'[r] = job[r] /\ seen'[r] = x
BY DEF Advance, LinesInv, LinesRequestsOK, LinesStepOf

LEMMA LinesFinish ==
    ASSUME LinesInv, NEW r \in Requests, Finish(r)
    PROVE  LinesStepOf(r) /\ step'[r] = "idle"
BY DEF Finish, LinesInv, LinesRequestsOK, LinesSteps, LinesStepOf

\* What the tables must keep for a counted record to stay as it was counted: the record
\* itself, the matches, and new lines come late.
CountsGoOn ==
    /\ \A k \in Records : recordState[k] # "NONE" => recordState'[k] # "NONE" /\ balanced'[k] = balanced[k]
    /\ late \subseteq late'
    /\ \A l \in Lines : IsMatched(l) => IsMatched(l)'
    /\ \A l \in Lines, k \in Records : line[l].of = k => line'[l].of = k
    /\ \A l \in Lines, k \in Records :
          line'[l].of = k => line[l].of = k \/ (Counting(k) \/ recordState[k] = "RESOLVED" => l \in late')

LEMMA CompleteStays ==
    ASSUME CountsGoOn, NEW k \in Records, Complete(k), Counting(k) \/ recordState[k] = "RESOLVED"
    PROVE  Complete(k)'
<1>1. \A l \in Lines : line[l].of = k => line'[l].of = k
    BY DEF CountsGoOn
<1>2. \A l \in Lines : line'[l].of = k => line[l].of = k \/ l \in late'
    BY DEF CountsGoOn
<1>3. \A l \in Lines : line[l].of = k => IsMatched(l)' \/ l \in late'
    BY DEF CountsGoOn, Complete, LinesOf
<1>. QED BY <1>1, <1>2, <1>3 DEF Complete, LinesOf

LEMMA OthersWorkOnLines ==
    ASSUME LinesInv, NEW r \in Requests, LinesStepOf(r), CountsGoOn, LineWork(r)'
    PROVE  \A q \in Requests : LineWork(q)'
<1>1. ASSUME NEW q \in Requests \ {r} PROVE LineWork(q)'
  <2>1. LineWork(q) /\ step'[q] = step[q] /\ job'[q] = job[q] /\ seen'[q] = seen[q] /\ Of(q)' = Of(q)
      BY DEF LinesInv, LinesStepOf, Of
  <2>2. ASSUME step[q] = "counted" PROVE Counted(q)'
    <3>1. Counted(q) /\ Of(q) \in Records
        BY <2>1, <2>2 DEF LineWork, Counted, Of
    <3>2. ASSUME seen[q] = "FINALIZED" PROVE Complete(Of(q))'
      <4>1. Counting(Of(q)) /\ Complete(Of(q))
          BY <2>2, <3>1, <3>2 DEF Counted, Of, Counting
      <4>2. ASSUME NEW k \in Records, Complete(k), Counting(k) PROVE Complete(k)'
          BY <4>2, CompleteStays
      <4>3. PICK k \in Records : k = Of(q)
          BY <3>1
      <4>. QED BY <2>1, <4>1, <4>2, <4>3 DEF Complete, LinesOf
    <3>. QED BY <2>1, <3>1, <3>2 DEF CountsGoOn, Counted
  <2>. QED BY <2>1, <2>2 DEF LineWork
<1>. QED BY <1>1

\* A resolved record that is left alone stays complete.
LEMMA ResolvedStay ==
    ASSUME LinesInv, CountsGoOn, reviewed' = reviewed,
           \A k \in Records : recordState'[k] = "RESOLVED" => recordState[k] = "RESOLVED"
    PROVE  FinalizedIsComplete'
<1>1. ASSUME NEW k \in Records, recordState[k] = "RESOLVED"
      PROVE  balanced'[k] /\ (k \notin reviewed' => Complete(k)')
  <2>1. balanced[k] /\ (k \notin reviewed => Complete(k))
      BY <1>1 DEF LinesInv, FinalizedIsComplete, Complete
  <2>2. balanced'[k] = balanced[k]
      BY <1>1 DEF CountsGoOn
  <2>. QED BY <1>1, <2>1, <2>2, CompleteStays
<1>. QED BY <1>1 DEF FinalizedIsComplete, Complete

\* A request that comes, goes on or leaves, and writes nothing.
LEMMA LinesReadInv ==
    ASSUME LinesInv, NEW r \in Requests, LinesStepOf(r), UNCHANGED <<tableVars, late, reviewed>>,
           raced \subseteq raced', LineWork(r)',
           step'[r] = "unclaimed" =>
              /\ \A m \in Lines \ {Of(r)'} : line[m].match # seen'[r].row
              /\ \A q \in Requests \ {r} : step[q] = "unclaimed" /\ seen[q].row = seen'[r].row => seen'[r].row \in raced'
    PROVE  LinesInv'
<1>1. UNCHANGED <<recordState, balanced, line, row>>
    BY DEF tableVars
<1>2. CountsGoOn
    BY <1>1 DEF CountsGoOn, IsMatched
<1>3. \A q \in Requests : LineWork(q)'
    BY <1>2, OthersWorkOnLines
<1>4. LinesTypeOK' /\ MatchedApart' /\ LinesRequestsOK'
    BY <1>1 DEF LinesInv, LinesTypeOK, MatchedApart, IsMatched, LinesStepOf
<1>5. FinalizedIsComplete'
    BY <1>1, <1>2, ResolvedStay
<1>6. FoundFree'
  <2>1. ASSUME NEW q \in Requests \ {r}, step'[q] = "unclaimed"
        PROVE  /\ \A m \in Lines \ {Of(q)'} : line'[m].match = seen'[q].row => seen'[q].row \in raced'
               /\ \A p \in Requests \ {q} :
                    step'[p] = "unclaimed" /\ seen'[p].row = seen'[q].row => seen'[q].row \in raced'
    <3>1. step[q] = "unclaimed" /\ seen'[q] = seen[q] /\ Of(q)' = Of(q)
        BY <2>1 DEF LinesStepOf, Of
    <3>2. \A m \in Lines \ {Of(q)} : line[m].match = seen[q].row => seen[q].row \in raced
        BY <3>1 DEF LinesInv, FoundFree
    <3>3. ASSUME NEW p \in Requests \ {q}, step'[p] = "unclaimed", seen'[p].row = seen'[q].row
          PROVE  seen'[q].row \in raced'
      <4>1. CASE p = r
          BY <3>1, <3>3, <4>1
      <4>2. CASE p # r
          BY <3>1, <3>3, <4>2 DEF LinesInv, FoundFree, LinesStepOf
      <4>. QED BY <4>1, <4>2
    <3>. QED BY <1>1, <3>1, <3>2, <3>3
  <2>2. ASSUME step'[r] = "unclaimed"
        PROVE  /\ \A m \in Lines \ {Of(r)'} : line'[m].match = seen'[r].row => seen'[r].row \in raced'
               /\ \A p \in Requests \ {r} :
                    step'[p] = "unclaimed" /\ seen'[p].row = seen'[r].row => seen'[r].row \in raced'
      BY <1>1, <2>2 DEF LinesStepOf
  <2>. QED BY <2>1, <2>2 DEF FoundFree
<1>. QED BY <1>3, <1>4, <1>5, <1>6 DEF LinesInv

-----------------------------------------------------------------------------
(***************************************************************************)
(* The actions.                                                            *)
(***************************************************************************)
LEMMA MakeRecordInv ==
    ASSUME LinesInv, NEW k \in Records, NEW b \in BOOLEAN, MakeRecord(k, b)
    PROVE  LinesInv'
<1>1. /\ recordState[k] = "NONE"
      /\ recordState' = [recordState EXCEPT ![k] = IF b THEN "MATCHED" ELSE "ADJUSTMENT_REQUIRED"]
      /\ balanced' = [balanced EXCEPT ![k] = b]
      /\ UNCHANGED <<line, row, raced, late, reviewed, job, step, seen>>
    BY DEF MakeRecord, lineHistory, requestVars
<1>2. LinesTypeOK'
    BY <1>1 DEF LinesInv, LinesTypeOK
<1>3. \A c \in Records : recordState[c] # "NONE" => recordState'[c] = recordState[c] /\ balanced'[c] = balanced[c]
    BY <1>1 DEF LinesInv, LinesTypeOK
<1>4. \A q \in Requests : LineWork(q)'
  <2>1. ASSUME NEW q \in Requests PROVE LineWork(q)'
    <3>1. LineWork(q) /\ Of(q)' = Of(q)
        BY <1>1 DEF LinesInv, Of
    <3>2. ASSUME Counted(q) PROVE Counted(q)'
      <4>1. Of(q) \in Records
          BY <3>2 DEF Counted, Of
      <4>. QED BY <1>1, <1>3, <3>1, <3>2, <4>1 DEF Counted, Complete, LinesOf, IsMatched
    <3>. QED BY <1>1, <3>1, <3>2 DEF LineWork
  <2>. QED BY <2>1
<1>5. FoundFree' /\ MatchedApart' /\ LinesRequestsOK'
    BY <1>1 DEF LinesInv, FoundFree, MatchedApart, IsMatched, LinesRequestsOK, Of
<1>6. FinalizedIsComplete'
  <2>1. recordState'[k] # "RESOLVED"
      BY <1>1 DEF LinesInv, LinesTypeOK
  <2>2. \A c \in Records \ {k} : recordState'[c] = recordState[c] /\ balanced'[c] = balanced[c]
      BY <1>1 DEF LinesInv, LinesTypeOK
  <2>. QED BY <1>1, <2>1, <2>2 DEF LinesInv, FinalizedIsComplete, LinesOf, IsMatched
<1>. QED BY <1>2, <1>4, <1>5, <1>6 DEF LinesInv

\* Rows of the ledger come and are reversed; no line and no request changes with them.
LEMMA LedgerMovesInv ==
    ASSUME LinesInv, UNCHANGED <<recordState, balanced, line, lineHistory, requestVars>>,
           row' \in [LedgerRows -> [life : {"NONE", "LIVE", "REVERSED", "REVERSAL"},
                                    day : Days \cup {NoMatch}, ref : BankRefs \cup {NoBankRef}]]
    PROVE  LinesInv'
<1>1. \A q \in Requests : LineWork(q)'
    BY DEF LinesInv, LineWork, Counted, Complete, Of, LinesOf, IsMatched, lineHistory, requestVars
<1>2. LinesTypeOK' /\ FoundFree' /\ MatchedApart' /\ LinesRequestsOK' /\ FinalizedIsComplete'
    BY DEF LinesInv, LinesTypeOK, FoundFree, MatchedApart, IsMatched, LinesRequestsOK, Of,
           FinalizedIsComplete, LinesOf, lineHistory, requestVars
<1>. QED BY <1>1, <1>2 DEF LinesInv

LEMMA PostLedgerRowInv ==
    ASSUME LinesInv, NEW t \in LedgerRows, NEW d \in Days, NEW x \in BankRefs \cup {NoBankRef},
           PostLedgerRow(t, d, x)
    PROVE  LinesInv'
<1>1. row' \in [LedgerRows -> [life : {"NONE", "LIVE", "REVERSED", "REVERSAL"},
                               day : Days \cup {NoMatch}, ref : BankRefs \cup {NoBankRef}]]
    BY DEF PostLedgerRow, LinesInv, LinesTypeOK
<1>. QED BY <1>1, LedgerMovesInv DEF PostLedgerRow

LEMMA ReverseLedgerRowInv ==
    ASSUME LinesInv, NEW t \in LedgerRows, NEW new \in LedgerRows, NEW d \in Days,
           ReverseLedgerRow(t, new, d)
    PROVE  LinesInv'
<1>1. row' = [row EXCEPT ![t].life = "REVERSED",
                         ![new] = [life |-> "REVERSAL", day |-> d, ref |-> NoBankRef]]
    BY DEF ReverseLedgerRow
<1>2. row' \in [LedgerRows -> [life : {"NONE", "LIVE", "REVERSED", "REVERSAL"},
                               day : Days \cup {NoMatch}, ref : BankRefs \cup {NoBankRef}]]
    BY <1>1 DEF LinesInv, LinesTypeOK
<1>. QED BY <1>2, LedgerMovesInv DEF ReverseLedgerRow

LEMMA LoadImportInv ==
    ASSUME LinesInv, NEW r \in Requests, NEW k \in Records, NEW new \in SUBSET Lines, LoadImport(r, k, new)
    PROVE  LinesInv'
<1>1. LinesStepOf(r) /\ step'[r] = "importing" /\ job'[r] = [of |-> k, lines |-> new]
  <2>1. "importing" \in LinesSteps
      BY DEF LinesSteps
  <2>. QED BY <2>1, LinesArrival DEF LoadImport
<1>2. LineWork(r)'
    BY <1>1 DEF LineWork
<1>3. UNCHANGED <<tableVars, late, reviewed>> /\ raced \subseteq raced'
    BY DEF LoadImport, lineHistory
<1>. QED BY <1>1, <1>2, <1>3, LinesReadInv

LEMMA LoadLineInv ==
    ASSUME LinesInv, NEW r \in Requests, NEW l \in Lines, LoadLine(r, l)
    PROVE  LinesInv'
<1>1. LinesStepOf(r) /\ step'[r] = "line" /\ job'[r] = [of |-> l]
  <2>1. "line" \in LinesSteps
      BY DEF LinesSteps
  <2>. QED BY <2>1, LinesArrival DEF LoadLine
<1>2. LineWork(r)'
    BY <1>1 DEF LineWork, Of
<1>3. UNCHANGED <<tableVars, late, reviewed>> /\ raced \subseteq raced'
    BY DEF LoadLine, lineHistory
<1>. QED BY <1>1, <1>2, <1>3, LinesReadInv

LEMMA FindRowInv ==
    ASSUME LinesInv, NEW r \in Requests, NEW t \in LedgerRows, FindRow(r, t)
    PROVE  LinesInv'
<1>1. LinesStepOf(r) /\ step[r] = "line" /\ step'[r] = "found" /\ job'[r] = job[r] /\ seen'[r].row = t
  <2>1. "found" \in LinesSteps
      BY DEF LinesSteps
  <2>. QED BY <2>1, LinesAdvance DEF FindRow
<1>2. LineWork(r)'
    BY <1>1 DEF LinesInv, LineWork, Of
<1>3. UNCHANGED <<tableVars, late, reviewed>> /\ raced \subseteq raced'
    BY DEF FindRow, lineHistory
<1>. QED BY <1>1, <1>2, <1>3, LinesReadInv

LEMMA CheckUnclaimedInv ==
    ASSUME LinesInv, NEW r \in Requests, CheckUnclaimed(r)
    PROVE  LinesInv'
<1>1. LinesStepOf(r) /\ step[r] = "found" /\ step'[r] = "unclaimed" /\ job'[r] = job[r] /\ seen'[r] = seen[r]
  <2>1. "unclaimed" \in LinesSteps
      BY DEF LinesSteps
  <2>. QED BY <2>1, LinesAdvance DEF CheckUnclaimed
<1>2. LineWork(r)' /\ Of(r)' = Of(r)
    BY <1>1 DEF LinesInv, LineWork, Of
<1>3. UNCHANGED <<tableVars, late, reviewed>> /\ raced \subseteq raced'
    BY DEF CheckUnclaimed
<1>4. \A m \in Lines \ {Of(r)} : line[m].match # seen[r].row
    BY DEF CheckUnclaimed, RowTaken, Of
<1>5. \A q \in Requests \ {r} :
         step[q] = "unclaimed" /\ seen[q].row = seen[r].row => seen[r].row \in raced'
    BY DEF CheckUnclaimed
<1>. QED BY <1>1, <1>2, <1>3, <1>4, <1>5, LinesReadInv

LEMMA CountedInv ==
    ASSUME LinesInv, NEW r \in Requests, NEW k \in Records,
           CountLines(r, k) \/ LoadResolve(r, k)
    PROVE  LinesInv'
<1>1. PICK how \in {"FINALIZED", "REVIEWED"} :
        /\ Arrive(r, [of |-> k], "counted", how)
        /\ how = "FINALIZED" => AllMatched(k)
    BY DEF CountLines, LoadResolve
<1>2. /\ LinesStepOf(r) /\ step'[r] = "counted"
      /\ job'[r] = [of |-> k] /\ seen'[r] = how
  <2>1. "counted" \in LinesSteps
      BY DEF LinesSteps
  <2>. QED BY <1>1, <2>1, LinesArrival
<1>3. /\ UNCHANGED <<tableVars, late, reviewed>> /\ raced \subseteq raced'
      /\ recordState[k] # "NONE" /\ balanced[k]
    BY DEF CountLines, LoadResolve, Unresolved, lineHistory
<1>4. Counted(r)'
    BY <1>1, <1>2, <1>3 DEF Counted, Complete, Of, AllMatched, LinesOf, IsMatched, tableVars
<1>5. LineWork(r)'
    BY <1>2, <1>4 DEF LineWork
<1>. QED BY <1>2, <1>3, <1>5, LinesReadInv

LEMMA AbandonLinesInv ==
    ASSUME LinesInv, NEW r \in Requests, AbandonLines(r)
    PROVE  LinesInv'
<1>1. LinesStepOf(r) /\ step'[r] = "idle" /\ UNCHANGED <<tableVars, raced, late, reviewed>>
    BY LinesFinish DEF AbandonLines, Abandon, lineHistory
<1>2. LineWork(r)'
    BY <1>1 DEF LineWork
<1>. QED BY <1>1, <1>2, LinesReadInv

\* Who is idle is no party to a race.
LEMMA FoundFreeAfter ==
    ASSUME LinesInv, NEW r \in Requests, LinesStepOf(r), step'[r] = "idle", raced' = raced,
           \A q \in Requests \ {r}, m \in Lines :
              step[q] = "unclaimed" /\ m # Of(q) /\ line'[m].match = seen[q].row => seen[q].row \in raced
    PROVE  FoundFree'
<1>1. ASSUME NEW q \in Requests, step'[q] = "unclaimed"
      PROVE  /\ q # r /\ step[q] = "unclaimed" /\ seen'[q] = seen[q] /\ Of(q)' = Of(q)
             /\ \A p \in Requests \ {q} : step'[p] = "unclaimed" /\ seen'[p].row = seen'[q].row => seen[q].row \in raced
  <2>1. q # r /\ step[q] = "unclaimed" /\ seen'[q] = seen[q] /\ Of(q)' = Of(q)
      BY <1>1 DEF LinesStepOf, Of
  <2>2. \A p \in Requests : step'[p] = "unclaimed" => p # r /\ step[p] = "unclaimed" /\ seen'[p] = seen[p]
      BY DEF LinesStepOf
  <2>. QED BY <2>1, <2>2 DEF LinesInv, FoundFree
<1>. QED BY <1>1 DEF FoundFree

LEMMA CommitImportInv ==
    ASSUME LinesInv, NEW r \in Requests, NEW d \in Days, NEW ref \in [Lines -> BankRefs \cup {NoBankRef}],
           CommitImport(r, d, ref)
    PROVE  LinesInv'
<1>. DEFINE k == job[r].of
            new == job[r].lines
<1>1. /\ step[r] = "importing" /\ \A l \in new : line[l] = NoLine
      /\ line' = [l \in Lines |->
                     IF l \in new THEN [of |-> k, day |-> d, ref |-> ref[l], match |-> NoMatch] ELSE line[l]]
      /\ late' = IF Counting(k) \/ recordState[k] = "RESOLVED" THEN late \cup new ELSE late
      /\ Finish(r)
    BY DEF CommitImport
<1>2. UNCHANGED <<recordState, balanced, row, raced, reviewed>>
    BY DEF CommitImport
<1>3. LinesStepOf(r) /\ step'[r] = "idle"
    BY <1>1, LinesFinish
<1>4. k \in Records /\ new \subseteq Lines
    BY <1>1 DEF LinesInv, LineWork
<1>. HIDE DEF k, new
<1>. DEFINE Shape == [of : Records \cup {NoMatch}, day : Days \cup {NoMatch},
                      ref : BankRefs \cup {NoBankRef}, match : LedgerRows \cup {NoMatch}]
<1>5. ASSUME NEW l \in Lines
      PROVE  /\ line'[l] \in Shape
             /\ l \in new => line'[l].of = k
             /\ l \notin new => line'[l].of = line[l].of
             /\ line[l].of \in Records => l \notin new
             /\ line'[l].match = line[l].match
  <2>1. CASE l \in new
    <3>1. line'[l] = [of |-> k, day |-> d, ref |-> ref[l], match |-> NoMatch]
        BY <1>1, <2>1, Zenon
    <3>2. ref[l] \in BankRefs \cup {NoBankRef}
        OBVIOUS
    <3>. HIDE DEF Shape
    <3>3. line[l].match = NoMatch /\ line[l].of \notin Records
        BY <1>1, <2>1, LinesAssumption DEF NoLine
    <3>. QED BY <1>4, <2>1, <3>1, <3>2, <3>3 DEF Shape
  <2>2. CASE l \notin new
    <3>1. line'[l] = line[l]
        BY <1>1, <2>2, Zenon
    <3>2. line[l] \in Shape
        BY DEF LinesInv, LinesTypeOK
    <3>. QED BY <2>2, <3>1, <3>2
  <2>. QED BY <2>1, <2>2
<1>6. \A l \in Lines : line'[l].match = line[l].match
    BY <1>5
<1>7. \A l \in Lines : IsMatched(l)' = IsMatched(l)
    BY <1>6 DEF IsMatched
<1>8. LinesTypeOK'
  <2>1. line' = [l \in Lines |-> line'[l]]
      BY <1>1
  <2>2. line' \in [Lines -> Shape]
    <3>. HIDE DEF Shape
    <3>. QED BY <1>5, <2>1
  <2>. QED BY <1>2, <2>2 DEF LinesInv, LinesTypeOK
<1>9. CountsGoOn
  <2>1. late \subseteq late' /\ (Counting(k) \/ recordState[k] = "RESOLVED" => new \subseteq late')
      BY <1>1
  <2>. HIDE DEF Shape
  <2>2. ASSUME NEW l \in Lines, NEW c \in Records, line'[l].of = c
        PROVE  line[l].of = c \/ (Counting(c) \/ recordState[c] = "RESOLVED" => l \in late')
    <3>1. CASE l \in new
      <4>1. line'[l].of = k
          BY <1>5, <3>1
      <4>. QED BY <2>1, <2>2, <3>1, <4>1
    <3>2. CASE l \notin new
        BY <1>5, <2>2, <3>2
    <3>. QED BY <3>1, <3>2
  <2>3. \A l \in Lines, c \in Records : line[l].of = c => line'[l].of = c
      BY <1>5
  <2>. QED BY <1>2, <1>7, <2>1, <2>2, <2>3 DEF CountsGoOn
<1>10. \A q \in Requests : LineWork(q)'
  <2>1. LineWork(r)'
      BY <1>3 DEF LineWork
  <2>. QED BY <1>3, <1>9, <2>1, OthersWorkOnLines
<1>11. FinalizedIsComplete'
    BY <1>2, <1>9, ResolvedStay
<1>12. MatchedApart'
    BY <1>2, <1>6, <1>7 DEF LinesInv, MatchedApart
<1>13. FoundFree'
  <2>1. raced' = raced
      BY <1>2
  <2>2. \A q \in Requests \ {r}, m \in Lines :
           step[q] = "unclaimed" /\ m # Of(q) /\ line'[m].match = seen[q].row => seen[q].row \in raced
      BY <1>6 DEF LinesInv, FoundFree
  <2>. QED BY <1>3, <2>1, <2>2, FoundFreeAfter
<1>. QED BY <1>3, <1>8, <1>10, <1>11, <1>12, <1>13 DEF LinesInv, LinesStepOf

\* The row was no other line's when it was checked, and who had checked it too since
\* then raced for it.
LEMMA CommitMatchInv ==
    ASSUME LinesInv, NEW r \in Requests, CommitMatch(r)
    PROVE  LinesInv'
<1>. DEFINE l == job[r].of
            t == seen[r].row
            new == IF t = seen[r].was THEN line[l].match ELSE t
<1>1. /\ step[r] = "unclaimed" /\ Finish(r)
      /\ line' = [line EXCEPT ![l].match = new]
      /\ UNCHANGED <<recordState, balanced, row, raced, late, reviewed>>
    BY DEF CommitMatch, lineHistory
<1>2. LinesStepOf(r) /\ step'[r] = "idle"
    BY <1>1, LinesFinish
<1>3. /\ l \in Lines /\ t \in LedgerRows /\ Of(r) = l /\ new \in LedgerRows \cup {NoMatch}
      /\ new = t \/ new = line[l].match
    BY <1>1 DEF LinesInv, LinesTypeOK, LineWork, Of
<1>. HIDE DEF new
<1>4. /\ line'[l].match = new /\ line'[l].of = line[l].of
      /\ \A m \in Lines \ {l} : line'[m] = line[m]
    BY <1>1, <1>3 DEF LinesInv, LinesTypeOK
<1>5. LinesTypeOK'
    BY <1>1, <1>3 DEF LinesInv, LinesTypeOK
<1>6. CountsGoOn
  <2>1. \A m \in Lines : line'[m].of = line[m].of
      BY <1>3, <1>4
  <2>2. \A m \in Lines : line[m].match # NoMatch => line'[m].match # NoMatch
      BY <1>3, <1>4, LinesAssumption
  <2>3. \A m \in Lines : IsMatched(m) => IsMatched(m)'
      BY <2>2 DEF IsMatched
  <2>. QED BY <1>1, <2>1, <2>3 DEF CountsGoOn
<1>7. \A q \in Requests : LineWork(q)'
  <2>1. LineWork(r)'
      BY <1>2 DEF LineWork
  <2>. QED BY <1>2, <1>6, <2>1, OthersWorkOnLines
<1>8. FinalizedIsComplete'
    BY <1>1, <1>6, ResolvedStay
<1>9. \A m \in Lines \ {l} : line[m].match = t => t \in raced
  <2>1. \A m \in Lines \ {Of(r)} : line[m].match = seen[r].row => seen[r].row \in raced
      BY <1>1 DEF LinesInv, FoundFree
  <2>. QED BY <1>3, <2>1
<1>10. MatchedApart'
    BY <1>1, <1>3, <1>4, <1>9 DEF LinesInv, MatchedApart, IsMatched
<1>11. \A q \in Requests \ {r} : step[q] = "unclaimed" /\ seen[q].row = t => t \in raced
    BY <1>1 DEF LinesInv, FoundFree
<1>12. FoundFree'
  <2>1. ASSUME NEW q \in Requests \ {r}, NEW m \in Lines,
               step[q] = "unclaimed", m # Of(q), line'[m].match = seen[q].row
        PROVE  seen[q].row \in raced
    <3>1. CASE m = l
        BY <1>3, <1>4, <1>11, <2>1, <3>1 DEF LinesInv, FoundFree
    <3>2. CASE m # l
        BY <1>4, <2>1, <3>2 DEF LinesInv, FoundFree
    <3>. QED BY <3>1, <3>2
  <2>. QED BY <1>1, <1>2, <2>1, FoundFreeAfter
<1>. QED BY <1>2, <1>5, <1>7, <1>8, <1>10, <1>12 DEF LinesInv, LinesStepOf

LEMMA CommitResolvedInv ==
    ASSUME LinesInv, NEW r \in Requests, CommitResolved(r)
    PROVE  LinesInv'
<1>. DEFINE k == job[r].of
<1>1. /\ step[r] = "counted" /\ Finish(r)
      /\ recordState' = [recordState EXCEPT ![k] = "RESOLVED"]
      /\ reviewed' = IF seen[r] = "FINALIZED" THEN reviewed \ {k}
                     ELSE IF recordState[k] = "RESOLVED" THEN reviewed ELSE reviewed \cup {k}
      /\ UNCHANGED <<balanced, line, row, raced, late>>
    BY DEF CommitResolved
<1>2. LinesStepOf(r) /\ step'[r] = "idle"
    BY <1>1, LinesFinish
<1>3. Counted(r) /\ k \in Records /\ Of(r) = k
    BY <1>1 DEF LinesInv, LineWork, Counted, Of
<1>4. LinesTypeOK'
    BY <1>1, <1>3 DEF LinesInv, LinesTypeOK
<1>5. \A c \in Records : recordState'[c] = IF c = k THEN "RESOLVED" ELSE recordState[c]
    BY <1>1, <1>3 DEF LinesInv, LinesTypeOK
<1>6. CountsGoOn
    BY <1>1, <1>5 DEF CountsGoOn, IsMatched
<1>7. \A q \in Requests : LineWork(q)'
  <2>1. LineWork(r)'
      BY <1>2 DEF LineWork
  <2>. QED BY <1>2, <1>6, <2>1, OthersWorkOnLines
<1>8. \A c \in Records : Complete(c)' = Complete(c)
    BY <1>1 DEF Complete, LinesOf, IsMatched
<1>9. FinalizedIsComplete'
  <2>1. ASSUME NEW c \in Records \ {k}, recordState'[c] = "RESOLVED"
        PROVE  balanced[c] /\ (c \notin reviewed' => Complete(c))
      BY <1>1, <1>5, <2>1 DEF LinesInv, FinalizedIsComplete, Complete
  <2>2. balanced[k] /\ (k \notin reviewed' => Complete(k))
      BY <1>1, <1>3 DEF Counted, LinesInv, FinalizedIsComplete, Complete
  <2>3. \A c \in Records : recordState'[c] = "RESOLVED" =>
            balanced'[c] /\ (c \notin reviewed' => Complete(c)')
      BY <1>1, <1>8, <2>1, <2>2
  <2>. QED BY <2>3 DEF FinalizedIsComplete, Complete
<1>10. MatchedApart'
    BY <1>1 DEF LinesInv, MatchedApart, IsMatched
<1>11. FoundFree'
    BY <1>1, <1>2, FoundFreeAfter DEF LinesInv, FoundFree
<1>. QED BY <1>2, <1>4, <1>7, <1>9, <1>10, <1>11 DEF LinesInv, LinesStepOf

-----------------------------------------------------------------------------
LEMMA LinesNextInv == LinesInv /\ [LinesNext]_lineVars => LinesInv'
<1>. SUFFICES ASSUME LinesInv, [LinesNext]_lineVars PROVE LinesInv'
    OBVIOUS
<1>1. CASE UNCHANGED lineVars
    BY <1>1, LedgerMovesInv DEF lineVars, tableVars, lineHistory, LinesInv, LinesTypeOK
<1>2. ASSUME NEW k \in Records, NEW b \in BOOLEAN, MakeRecord(k, b) PROVE LinesInv'
    BY <1>2, MakeRecordInv
<1>3. ASSUME NEW t \in LedgerRows, NEW d \in Days,
             \/ \E x \in BankRefs \cup {NoBankRef} : PostLedgerRow(t, d, x)
             \/ \E new \in LedgerRows : ReverseLedgerRow(t, new, d)
      PROVE  LinesInv'
    BY <1>3, PostLedgerRowInv, ReverseLedgerRowInv
<1>4. ASSUME NEW r \in Requests, NEW k \in Records, NEW new \in SUBSET Lines, LoadImport(r, k, new)
      PROVE  LinesInv'
    BY <1>4, LoadImportInv
<1>5. ASSUME NEW r \in Requests, NEW k \in Records, CountLines(r, k) \/ LoadResolve(r, k)
      PROVE  LinesInv'
    BY <1>5, CountedInv
<1>6. ASSUME NEW r \in Requests, NEW d \in Days, NEW ref \in [Lines -> BankRefs \cup {NoBankRef}],
             CommitImport(r, d, ref)
      PROVE  LinesInv'
    BY <1>6, CommitImportInv
<1>7. ASSUME NEW r \in Requests, NEW l \in Lines, LoadLine(r, l) PROVE LinesInv'
    BY <1>7, LoadLineInv
<1>8. ASSUME NEW r \in Requests, NEW t \in LedgerRows, FindRow(r, t) PROVE LinesInv'
    BY <1>8, FindRowInv
<1>9. ASSUME NEW r \in Requests, CheckUnclaimed(r) PROVE LinesInv'
    BY <1>9, CheckUnclaimedInv
<1>10. ASSUME NEW r \in Requests, CommitMatch(r) PROVE LinesInv'
    BY <1>10, CommitMatchInv
<1>11. ASSUME NEW r \in Requests, CommitResolved(r) PROVE LinesInv'
    BY <1>11, CommitResolvedInv
<1>12. ASSUME NEW r \in Requests, AbandonLines(r) PROVE LinesInv'
    BY <1>12, AbandonLinesInv
<1>. QED BY <1>1, <1>2, <1>3, <1>4, <1>5, <1>6, <1>7, <1>8, <1>9, <1>10, <1>11, <1>12 DEF LinesNext

\* A row found free by one request only is free until that request commits, and what a
\* count has found stays found: the two facts the matching of statements rests on.
THEOREM LinesInvariant == LinesSpec => []LinesInv
<1>. QED BY LinesInitInv, LinesNextInv, PTL DEF LinesSpec

\* Records, lines and rows keep their shape, for any number of them and of requests.
THEOREM LinesTypeCorrect == LinesSpec => []LinesTypeOK
<1>1. LinesInv => LinesTypeOK
    BY DEF LinesInv
<1>. QED BY <1>1, LinesInvariant, PTL

\* A ledger row explains one line, unless two requests found it free at the same time.
THEOREM RowsExplainOneLine == LinesSpec => []MatchedApart
<1>1. LinesInv => MatchedApart
    BY DEF LinesInv
<1>. QED BY <1>1, LinesInvariant, PTL

\* A resolved record balances, and one that finalize resolved misses no line but those
\* whose import was committed after its count.
THEOREM ResolvedStaysComplete == LinesSpec => []FinalizedIsComplete
<1>1. LinesInv => FinalizedIsComplete
    BY DEF LinesInv
<1>. QED BY <1>1, LinesInvariant, PTL

=============================================================================
