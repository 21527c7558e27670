---------------------------- MODULE ExpenseProofs ----------------------------
(***************************************************************************)
(* Proofs about ExpenseWorkflow: requests that run together on the same    *)
(* expenses implement ExpenseLifecycle, for any number of requests,        *)
(* expenses, users, vendors and references.                                *)
(***************************************************************************)
EXTENDS MCExpenseWorkflow, FiniteSetTheorems, SequenceTheorems, TLAPS

\* The parts of the type invariant the argument needs.
Shape ==
    /\ status \in [Expenses -> Statuses \cup {"NEW"}]
    /\ creator \in [Expenses -> Users \cup {NoUser}]
    /\ ledger \in Seq([expense : Expenses, ref : Refs \cup {Blank}])
    /\ job \in [Requests -> Jobs \cup {NoRecord}]
    /\ step \in [Requests -> {"idle", "begun", "locked", "loaded"}]
    /\ \A r \in Requests : step[r] # "idle" => job[r] \in Jobs

\* A row lock is held by one request.
OneHolder ==
    \A r, q \in Requests :
        HoldsExpense(r) /\ HoldsExpense(q) /\ Target(r) = Target(q) => r = q

\* What a request has checked under the lock stays true until its commit.
ChecksStand ==
    \A r \in Requests : HoldsExpense(r) =>
        IF job[r].kind = "SUBMIT"
        THEN status[Target(r)] = "NEW"
        ELSE status[Target(r)] # "NEW" /\ Allowed(r)

\* Only a submission starts on an expense that does not exist yet.
BegunExists ==
    \A r \in Requests : step[r] = "begun" =>
        job[r].kind # "SUBMIT" /\ status[Target(r)] # "NEW"

WorkflowInv == Shape /\ OneHolder /\ ChecksStand /\ BegunExists

-----------------------------------------------------------------------------
\* A job names an expense, and a user unless it is a payment's reference.
LEMMA JobType ==
    ASSUME NEW j \in Jobs
    PROVE  /\ j.expense \in Expenses /\ j.user \in Users
           /\ j.kind \in {"SUBMIT", "APPROVE", "REJECT", "PAY"}
           /\ j.kind = "PAY" => j.ref \in Refs \cup {Blank}
BY DEF Jobs, SubmitJobs, ReviewJobs, PayJobs

\* A request that has started has a job.
LEMMA Started ==
    ASSUME Shape, NEW r \in Requests, step[r] # "idle"
    PROVE  /\ job[r] \in Jobs
           /\ Target(r) \in Expenses
           /\ job[r].user \in Users
           /\ job[r].kind \in {"SUBMIT", "APPROVE", "REJECT", "PAY"}
           /\ job[r].kind = "PAY" => job[r].ref \in Refs \cup {Blank}
<1>1. job[r] \in Jobs
  BY DEF Shape
<1>2. QED
  BY <1>1, JobType DEF Target

\* The four commits with what they have in common: the request held its expense,
\* gave up its lock, and gave the expense a status.
Commits(r) == CommitSubmit(r) \/ CommitApprove(r) \/ CommitReject(r) \/ CommitPay(r)

LEMMA CommitEffect ==
    ASSUME NEW r \in Requests, Commits(r)
    PROVE  /\ HoldsExpense(r)
           /\ \E s \in Statuses : status' = [status EXCEPT ![Target(r)] = s]
           /\ Finish(r)
BY DEF Commits, CommitSubmit, CommitApprove, CommitReject, CommitPay, Ready, SetStatus, Statuses

\* A commit keeps the shape of the tables.
LEMMA CommitShape ==
    ASSUME Shape, NEW r \in Requests, Commits(r)
    PROVE  Shape'
<1>1. /\ step[r] # "idle"
      /\ \E s \in Statuses : status' = [status EXCEPT ![Target(r)] = s]
      /\ Finish(r)
  BY CommitEffect DEF HoldsExpense
<1>2. /\ job[r] \in Jobs /\ Target(r) \in Expenses /\ job[r].user \in Users
      /\ job[r].kind = "PAY" => job[r].ref \in Refs \cup {Blank}
  BY <1>1, Started
<1>3. status' \in [Expenses -> Statuses \cup {"NEW"}]
  BY <1>1 DEF Shape
<1>4. creator' \in [Expenses -> Users \cup {NoUser}]
  BY <1>2 DEF Commits, CommitSubmit, CommitApprove, CommitReject, CommitPay, Shape
<1>5. ledger' \in Seq([expense : Expenses, ref : Refs \cup {Blank}])
  <2>1. CASE CommitPay(r)
    <3>1. job[r].kind = "PAY"
      BY <2>1 DEF CommitPay, Ready
    <3>2. [expense |-> Target(r), ref |-> job[r].ref] \in [expense : Expenses, ref : Refs \cup {Blank}]
      BY <1>2, <3>1
    <3>3. ledger' = Append(ledger, [expense |-> Target(r), ref |-> job[r].ref])
      BY <2>1 DEF CommitPay
    <3>4. ledger \in Seq([expense : Expenses, ref : Refs \cup {Blank}])
      BY DEF Shape
    <3>5. QED
      BY <3>2, <3>3, <3>4, AppendProperties
  <2>2. CASE ledger' = ledger
    BY <2>2 DEF Shape
  <2>3. QED
    BY <2>1, <2>2 DEF Commits, CommitSubmit, CommitApprove, CommitReject
<1>6. /\ job' \in [Requests -> Jobs \cup {NoRecord}]
      /\ step' \in [Requests -> {"idle", "begun", "locked", "loaded"}]
      /\ \A q \in Requests : step'[q] # "idle" => job'[q] \in Jobs
  BY <1>1 DEF Finish, Shape
<1>7. QED
  BY <1>3, <1>4, <1>5, <1>6 DEF Shape

\* After a commit the other requests still hold what they held.
LEMMA CommitOthers ==
    ASSUME WorkflowInv, NEW r \in Requests, Commits(r)
    PROVE  OneHolder' /\ ChecksStand' /\ BegunExists'
<1>1. /\ HoldsExpense(r)
      /\ Finish(r)
  BY CommitEffect
<1>2. PICK s \in Statuses : status' = [status EXCEPT ![Target(r)] = s]
  BY CommitEffect
<1>3. /\ \A q \in Requests \ {r} : job'[q] = job[q] /\ step'[q] = step[q]
      /\ step'[r] = "idle"
  BY <1>1 DEF Finish, WorkflowInv, Shape
<1>4. \A q \in Requests \ {r} : HoldsExpense(q) => Target(q) # Target(r)
  BY <1>1 DEF WorkflowInv, OneHolder
<1>5. \A e \in Expenses \ {Target(r)} : status'[e] = status[e] /\ creator'[e] = creator[e]
  BY <1>2
     DEF Commits, CommitSubmit, CommitApprove, CommitReject, CommitPay, WorkflowInv, Shape, Target
<1>6. \A q \in Requests : step[q] # "idle" => Target(q) \in Expenses
  BY Started DEF WorkflowInv
<1>7. OneHolder'
  BY <1>3 DEF WorkflowInv, OneHolder, HoldsExpense, Target
<1>8. ChecksStand'
  <2>1. SUFFICES ASSUME NEW q \in Requests, HoldsExpense(q)'
                 PROVE  (IF job[q].kind = "SUBMIT"
                         THEN status[Target(q)] = "NEW"
                         ELSE status[Target(q)] # "NEW" /\ Allowed(q))'
    BY DEF ChecksStand
  <2>2. q # r /\ HoldsExpense(q) /\ job'[q] = job[q]
    BY <1>3, <2>1 DEF HoldsExpense
  <2>3. Target(q) \in Expenses \ {Target(r)} /\ Target(q)' = Target(q)
    BY <1>4, <1>6, <2>2 DEF HoldsExpense, Target
  <2>4. status'[Target(q)] = status[Target(q)] /\ creator'[Target(q)] = creator[Target(q)]
    BY <1>5, <2>3
  <2>5. QED
    BY <2>2, <2>3, <2>4 DEF WorkflowInv, ChecksStand, Allowed
<1>9. BegunExists'
  <2>1. \A e \in Expenses : status[e] # "NEW" => status'[e] # "NEW"
    BY <1>2 DEF WorkflowInv, Shape, Statuses
  <2>2. QED
    BY <1>3, <1>6, <2>1 DEF WorkflowInv, BegunExists, Target
<1>10. QED
  BY <1>7, <1>8, <1>9

\* Starting a job, or taking the row lock, or reading the vendor, touches one request
\* and no table.
LEMMA RequestStep ==
    ASSUME WorkflowInv, NEW r \in Requests,
           \/ \E j \in SubmitJobs : BeginSubmit(r, j)
           \/ \E j \in ReviewJobs \cup PayJobs : Begin(r, j)
           \/ LockExpense(r) \/ LoadVendor(r) \/ Rollback(r)
    PROVE  WorkflowInv' /\ UNCHANGED <<status, creator, ledger>>
<1> USE DEF WorkflowInv
<1>1. ASSUME NEW j \in SubmitJobs, BeginSubmit(r, j)
      PROVE  WorkflowInv' /\ UNCHANGED <<status, creator, ledger>>
  <2>1. /\ j \in Jobs /\ j.kind = "SUBMIT" /\ status[j.expense] = "NEW"
        /\ \A q \in Requests : step[q] # "idle" => Target(q) # j.expense
        /\ job' = [job EXCEPT ![r] = j] /\ step' = [step EXCEPT ![r] = "locked"]
        /\ UNCHANGED <<status, creator, ledger>>
    BY <1>1 DEF BeginSubmit, expenseVars, Jobs, SubmitJobs
  <2>2. Shape'
    BY <2>1 DEF Shape
  <2>3. /\ job'[r] = j /\ step'[r] = "locked"
        /\ \A q \in Requests \ {r} : job'[q] = job[q] /\ step'[q] = step[q]
    BY <2>1 DEF Shape
  <2>4. OneHolder'
    BY <2>1, <2>3 DEF OneHolder, HoldsExpense, Target
  <2>5. ChecksStand'
    BY <2>1, <2>3 DEF ChecksStand, HoldsExpense, Target, Allowed
  <2>6. BegunExists'
    BY <2>1, <2>3 DEF BegunExists, Target
  <2>7. QED
    BY <2>1, <2>2, <2>4, <2>5, <2>6
<1>2. ASSUME NEW j \in ReviewJobs \cup PayJobs, Begin(r, j)
      PROVE  WorkflowInv' /\ UNCHANGED <<status, creator, ledger>>
  <2>1. /\ j \in Jobs /\ j.kind # "SUBMIT" /\ status[j.expense] # "NEW"
        /\ job' = [job EXCEPT ![r] = j] /\ step' = [step EXCEPT ![r] = "begun"]
        /\ UNCHANGED <<status, creator, ledger>>
    BY <1>2 DEF Begin, expenseVars, Jobs, ReviewJobs, PayJobs
  <2>2. Shape'
    BY <2>1 DEF Shape
  <2>3. /\ job'[r] = j /\ step'[r] = "begun"
        /\ \A q \in Requests \ {r} : job'[q] = job[q] /\ step'[q] = step[q]
    BY <2>1 DEF Shape
  <2>4. OneHolder'
    BY <2>3 DEF OneHolder, HoldsExpense, Target
  <2>5. ChecksStand'
    BY <2>1, <2>3 DEF ChecksStand, HoldsExpense, Target, Allowed
  <2>6. BegunExists'
    BY <2>1, <2>3 DEF BegunExists, Target
  <2>7. QED
    BY <2>1, <2>2, <2>4, <2>5, <2>6
<1>3. ASSUME LockExpense(r)
      PROVE  WorkflowInv' /\ UNCHANGED <<status, creator, ledger>>
  <2>1. /\ step[r] = "begun" /\ Allowed(r)
        /\ \A q \in Requests \ {r} : HoldsExpense(q) => Target(q) # Target(r)
        /\ job' = job /\ step' = [step EXCEPT ![r] = "locked"]
        /\ UNCHANGED <<status, creator, ledger>>
    BY <1>3 DEF LockExpense, Others, expenseVars
  <2>2. Shape'
    BY <2>1 DEF Shape
  <2>3. step'[r] = "locked" /\ \A q \in Requests \ {r} : step'[q] = step[q]
    BY <2>1 DEF Shape
  <2>4. OneHolder'
    BY <2>1, <2>3 DEF OneHolder, HoldsExpense, Target
  <2>5. ChecksStand'
    BY <2>1, <2>3 DEF ChecksStand, BegunExists, HoldsExpense, Target, Allowed
  <2>6. BegunExists'
    BY <2>1, <2>3 DEF BegunExists, Target
  <2>7. QED
    BY <2>1, <2>2, <2>4, <2>5, <2>6
<1>4. ASSUME LoadVendor(r)
      PROVE  WorkflowInv' /\ UNCHANGED <<status, creator, ledger>>
  <2>1. /\ step[r] = "locked"
        /\ job' = job /\ step' = [step EXCEPT ![r] = "loaded"]
        /\ UNCHANGED <<status, creator, ledger>>
    BY <1>4 DEF LoadVendor, expenseVars
  <2>2. Shape'
    BY <2>1 DEF Shape
  <2>3. step'[r] = "loaded" /\ \A q \in Requests \ {r} : step'[q] = step[q]
    BY <2>1 DEF Shape
  <2>4. OneHolder'
    BY <2>1, <2>3 DEF OneHolder, HoldsExpense, Target
  <2>5. ChecksStand'
    BY <2>1, <2>3 DEF ChecksStand, HoldsExpense, Target, Allowed
  <2>6. BegunExists'
    BY <2>1, <2>3 DEF BegunExists, Target
  <2>7. QED
    BY <2>1, <2>2, <2>4, <2>5, <2>6
<1>5. ASSUME Rollback(r)
      PROVE  WorkflowInv' /\ UNCHANGED <<status, creator, ledger>>
  <2>1. /\ job' = [job EXCEPT ![r] = NoRecord] /\ step' = [step EXCEPT ![r] = "idle"]
        /\ UNCHANGED <<status, creator, ledger>>
    BY <1>5 DEF Rollback, Finish, expenseVars
  <2>2. Shape'
    BY <2>1 DEF Shape
  <2>3. /\ step'[r] = "idle"
        /\ \A q \in Requests \ {r} : job'[q] = job[q] /\ step'[q] = step[q]
    BY <2>1 DEF Shape
  <2>4. OneHolder'
    BY <2>3 DEF OneHolder, HoldsExpense, Target
  <2>5. ChecksStand'
    BY <2>1, <2>3 DEF ChecksStand, HoldsExpense, Target, Allowed
  <2>6. BegunExists'
    BY <2>1, <2>3 DEF BegunExists, Target
  <2>7. QED
    BY <2>1, <2>2, <2>4, <2>5, <2>6
<1>6. QED
  BY <1>1, <1>2, <1>3, <1>4, <1>5

\* Every step is one of four: a request reads or waits, a request commits, the event
\* changes, or nothing does.
LEMMA WorkflowCases ==
    ASSUME [WorkflowNext]_workflowVars
    PROVE  \/ \E r \in Requests :
                \/ \E j \in SubmitJobs : BeginSubmit(r, j)
                \/ \E j \in ReviewJobs \cup PayJobs : Begin(r, j)
                \/ LockExpense(r) \/ LoadVendor(r) \/ Rollback(r)
           \/ \E r \in Requests : Commits(r)
           \/ UNCHANGED <<expenseVars, requestVars>>
BY DEF WorkflowNext, Work, Commits, CloseEvent, LockEvent, workflowVars

\* Nothing the argument speaks of changes when neither tables nor requests do.
LEMMA WorkflowStutter ==
    ASSUME WorkflowInv, UNCHANGED <<expenseVars, requestVars>>
    PROVE  WorkflowInv' /\ UNCHANGED <<status, creator, ledger>>
<1>1. UNCHANGED <<status, creator, ledger, job, step>>
  BY DEF expenseVars, requestVars
<1>2. QED
  BY <1>1 DEF WorkflowInv, Shape, OneHolder, ChecksStand, BegunExists, HoldsExpense, Target, Allowed

\* What a request checked under its row lock holds until it commits, in every
\* interleaving of any number of requests.
THEOREM LocksProtectChecks == WorkflowSpec => []WorkflowInv
<1>1. WorkflowInit => WorkflowInv
  <2> SUFFICES ASSUME WorkflowInit
               PROVE  WorkflowInv
    OBVIOUS
  <2>1. Shape
    BY DEF WorkflowInit, Shape
  <2>2. \A r \in Requests : step[r] = "idle"
    BY DEF WorkflowInit
  <2>3. QED
    BY <2>1, <2>2 DEF WorkflowInv, OneHolder, ChecksStand, BegunExists, HoldsExpense
<1>2. WorkflowInv /\ [WorkflowNext]_workflowVars => WorkflowInv'
  <2> SUFFICES ASSUME WorkflowInv, [WorkflowNext]_workflowVars
               PROVE  WorkflowInv'
    OBVIOUS
  <2>1. ASSUME NEW r \in Requests, Commits(r)
        PROVE  WorkflowInv'
    BY <2>1, CommitShape, CommitOthers DEF WorkflowInv
  <2>2. QED
    BY <2>1, WorkflowCases, RequestStep, WorkflowStutter
<1>3. QED
  BY <1>1, <1>2, PTL DEF WorkflowSpec

-----------------------------------------------------------------------------
(***************************************************************************)
(* The refinement: how many ledger rows an expense has plays the part of   *)
(* ExpenseLifecycle's posted.                                              *)
(***************************************************************************)
PostedRows == [e \in Expenses |-> Cardinality(RowsOf(e))]

\* The rows of an expense are finitely many.
LEMMA RowsFinite ==
    ASSUME Shape, NEW e
    PROVE  /\ IsFiniteSet(RowsOf(e)) /\ Cardinality(RowsOf(e)) \in Nat
           /\ Len(ledger) + 1 \notin RowsOf(e)
<1>1. Len(ledger) \in Nat /\ DOMAIN ledger = 1 .. Len(ledger)
  BY LenProperties DEF Shape
<1>2. IsFiniteSet(DOMAIN ledger)
  BY <1>1, FS_Interval
<1>3. IsFiniteSet(RowsOf(e))
  BY <1>2, FS_Subset DEF RowsOf
<1>4. Len(ledger) + 1 \notin RowsOf(e)
  BY <1>1 DEF RowsOf
<1>5. QED
  BY <1>3, <1>4, FS_CardinalityType

\* A payment adds one row to its expense and none to another.
LEMMA PayAddsRow ==
    ASSUME Shape, NEW r \in Requests, CommitPay(r)
    PROVE  PostedRows' = [PostedRows EXCEPT ![Target(r)] = @ + 1]
<1>1. /\ step[r] # "idle" /\ job[r].kind = "PAY"
      /\ ledger' = Append(ledger, [expense |-> Target(r), ref |-> job[r].ref])
  BY DEF CommitPay, Ready, HoldsExpense
<1>2. Target(r) \in Expenses /\ job[r].ref \in Refs \cup {Blank}
  BY <1>1, Started
<1>3. /\ [expense |-> Target(r), ref |-> job[r].ref] \in [expense : Expenses, ref : Refs \cup {Blank}]
      /\ ledger \in Seq([expense : Expenses, ref : Refs \cup {Blank}])
  BY <1>2 DEF Shape
<1>4. /\ ledger' \in Seq([expense : Expenses, ref : Refs \cup {Blank}])
      /\ Len(ledger') = Len(ledger) + 1
      /\ \A i \in 1 .. Len(ledger) : ledger'[i] = ledger[i]
      /\ ledger'[Len(ledger) + 1] = [expense |-> Target(r), ref |-> job[r].ref]
  BY <1>1, <1>3, AppendProperties
<1>5. /\ Len(ledger) \in Nat /\ DOMAIN ledger = 1 .. Len(ledger)
      /\ DOMAIN ledger' = 1 .. (Len(ledger) + 1)
  BY <1>3, <1>4, LenProperties
<1>6. /\ \A i \in DOMAIN ledger : i \in DOMAIN ledger' /\ ledger'[i].expense = ledger[i].expense
      /\ DOMAIN ledger' = DOMAIN ledger \cup {Len(ledger) + 1}
      /\ ledger'[Len(ledger) + 1].expense = Target(r)
  BY <1>4, <1>5
<1>7. ASSUME NEW e \in Expenses
      PROVE  Cardinality(RowsOf(e))' = Cardinality(RowsOf(e)) + (IF e = Target(r) THEN 1 ELSE 0)
  <2>1. /\ IsFiniteSet(RowsOf(e)) /\ Cardinality(RowsOf(e)) \in Nat
        /\ Len(ledger) + 1 \notin RowsOf(e)
    BY RowsFinite
  <2>2. CASE e = Target(r)
    <3>1. RowsOf(e)' = RowsOf(e) \cup {Len(ledger) + 1}
      BY <1>6, <2>2 DEF RowsOf
    <3>2. Cardinality(RowsOf(e) \cup {Len(ledger) + 1}) = Cardinality(RowsOf(e)) + 1
      BY <2>1, FS_AddElement
    <3>3. QED
      BY <2>2, <3>1, <3>2
  <2>3. CASE e # Target(r)
    <3>1. RowsOf(e)' = RowsOf(e)
      BY <1>6, <2>3 DEF RowsOf
    <3>2. QED
      BY <2>1, <2>3, <3>1
  <2>4. QED
    BY <2>2, <2>3
<1>8. \A e \in Expenses : Cardinality(RowsOf(e)) \in Nat
  BY RowsFinite
<1>9. ASSUME NEW e \in Expenses
      PROVE  PostedRows'[e] = [PostedRows EXCEPT ![Target(r)] = @ + 1][e]
  <2>1. PostedRows'[e] = PostedRows[e] + (IF e = Target(r) THEN 1 ELSE 0)
    BY <1>7 DEF PostedRows
  <2>2. PostedRows[e] \in Nat /\ PostedRows \in [Expenses -> Nat]
    BY <1>8 DEF PostedRows
  <2>3. QED
    BY <1>2, <2>1, <2>2
<1>10. PostedRows' = [e \in Expenses |-> PostedRows'[e]]
  BY DEF PostedRows
<1>11. [PostedRows EXCEPT ![Target(r)] = @ + 1]
         = [e \in Expenses |-> [PostedRows EXCEPT ![Target(r)] = @ + 1][e]]
  BY DEF PostedRows
<1>12. QED
  BY <1>9, <1>10, <1>11

\* Each commit is the step of the same name of the abstract specification.
LEMMA CommitRefines ==
    ASSUME WorkflowInv, NEW r \in Requests, Commits(r)
    PROVE  Lifecycle!LifecycleNext
<1>1. step[r] # "idle" /\ HoldsExpense(r) /\ Shape
  BY CommitEffect DEF HoldsExpense, WorkflowInv
<1>2. Target(r) \in Expenses /\ job[r].user \in Users /\ Target(r) = job[r].expense
  BY <1>1, Started DEF Target
<1>3. job[r].kind # "SUBMIT" => Allowed(r) /\ status[Target(r)] # "NEW"
  BY <1>1 DEF WorkflowInv, ChecksStand
<1>4. job[r].kind = "SUBMIT" => status[Target(r)] = "NEW"
  BY <1>1 DEF WorkflowInv, ChecksStand
<1>5. ledger' = ledger => PostedRows' = PostedRows
  BY DEF PostedRows, RowsOf
<1>6. CASE CommitSubmit(r)
  <2>1. /\ status[Target(r)] = "NEW"
        /\ status' = [status EXCEPT ![Target(r)] = "SUBMITTED"]
        /\ creator' = [creator EXCEPT ![Target(r)] = job[r].user]
        /\ PostedRows' = PostedRows
    BY <1>2, <1>4, <1>5, <1>6 DEF CommitSubmit, Ready, SetStatus
  <2>2. Lifecycle!Submit(Target(r), job[r].user)
    BY <2>1 DEF Lifecycle!Submit, PostedRows
  <2>3. QED
    BY <1>2, <2>2 DEF Lifecycle!LifecycleNext
<1>7. CASE CommitApprove(r)
  <2>1. /\ status[Target(r)] = "SUBMITTED" /\ job[r].user # creator[Target(r)]
        /\ status' = [status EXCEPT ![Target(r)] = "APPROVED"]
        /\ creator' = creator /\ PostedRows' = PostedRows
    BY <1>3, <1>5, <1>7 DEF CommitApprove, Ready, SetStatus, Allowed
  <2>2. Lifecycle!Approve(Target(r), job[r].user)
    BY <2>1 DEF Lifecycle!Approve, PostedRows
  <2>3. QED
    BY <1>2, <2>2 DEF Lifecycle!LifecycleNext
<1>8. CASE CommitReject(r)
  <2>1. /\ status[Target(r)] \in {"SUBMITTED", "APPROVED"} /\ job[r].user # creator[Target(r)]
        /\ status' = [status EXCEPT ![Target(r)] = "REJECTED"]
        /\ creator' = creator /\ PostedRows' = PostedRows
    BY <1>1, <1>2, <1>3, <1>5, <1>8 DEF CommitReject, Ready, SetStatus, Allowed, Shape, Statuses
  <2>2. Lifecycle!Reject(Target(r), job[r].user)
    BY <2>1 DEF Lifecycle!Reject, PostedRows
  <2>3. QED
    BY <1>2, <2>2 DEF Lifecycle!LifecycleNext
<1>9. CASE CommitPay(r)
  <2>1. /\ status[Target(r)] = "APPROVED"
        /\ status' = [status EXCEPT ![Target(r)] = "PAID"]
        /\ creator' = creator
    BY <1>3, <1>9 DEF CommitPay, Ready, SetStatus, Allowed
  <2>2. PostedRows' = [PostedRows EXCEPT ![Target(r)] = @ + 1]
    BY <1>1, <1>9, PayAddsRow
  <2>3. Lifecycle!Pay(Target(r))
    BY <2>1, <2>2 DEF Lifecycle!Pay, PostedRows
  <2>4. QED
    BY <1>2, <2>3 DEF Lifecycle!LifecycleNext
<1>10. QED
  BY <1>6, <1>7, <1>8, <1>9 DEF Commits

\* However many requests work on the same expenses, they do only what single calls
\* do: no one decides on an expense of their own, money leaves only for an approved
\* expense, and each payment posts one row.
THEOREM WorkflowRefinesLifecycle == WorkflowSpec => ImplementsLifecycle
<1>1. WorkflowInit => Lifecycle!LifecycleInit
  <2> SUFFICES ASSUME WorkflowInit
               PROVE  Lifecycle!LifecycleInit
    OBVIOUS
  <2>1. \A e \in Expenses : RowsOf(e) = {}
    BY DEF WorkflowInit, RowsOf
  <2>2. \A e \in Expenses : Cardinality(RowsOf(e)) = 0
    BY <2>1, FS_EmptySet
  <2>3. QED
    BY <2>2 DEF WorkflowInit, Lifecycle!LifecycleInit
<1>2. WorkflowInv /\ [WorkflowNext]_workflowVars
        => [Lifecycle!LifecycleNext]_(Lifecycle!lifecycleVars)
  <2> SUFFICES ASSUME WorkflowInv, [WorkflowNext]_workflowVars
               PROVE  [Lifecycle!LifecycleNext]_(Lifecycle!lifecycleVars)
    OBVIOUS
  <2>1. ASSUME UNCHANGED <<status, creator, ledger>>
        PROVE  UNCHANGED Lifecycle!lifecycleVars
    BY <2>1 DEF Lifecycle!lifecycleVars, RowsOf
  <2>2. QED
    BY <2>1, WorkflowCases, RequestStep, WorkflowStutter, CommitRefines
<1>3. QED
  BY <1>1, <1>2, LocksProtectChecks, PTL
  DEF WorkflowSpec, ImplementsLifecycle, Lifecycle!LifecycleSpec

-----------------------------------------------------------------------------
(***************************************************************************)
(* Types and history: what a request has read under its lock is what it    *)
(* writes into the approvals rows, so that the rows of an expense chain.   *)
(***************************************************************************)
\* A request has read the status its expense still has, and its vendor's totals.
ReadsCurrent ==
    \A r \in Requests :
        /\ was[r] = (IF HoldsExpense(r) THEN status[Target(r)] ELSE "NEW")
        /\ step[r] = "loaded" => seen[r] \in Totals

\* The rows h are the story of an expense with status s and creator u.
Tells(h, s, u) ==
    /\ Len(h) = 0 <=> s = "NEW"
    /\ \A i \in 1 .. Len(h) :
          /\ h[i].from = (IF i = 1 THEN "NEW" ELSE h[i - 1].to)
          /\ h[i].action = "PAY" => i > 1 /\ h[i - 1].action = "APPROVE" /\ h[i - 1].by # u
    /\ Len(h) > 0 => h[Len(h)].to = s
    /\ s = "APPROVED" => h[Len(h)].action = "APPROVE" /\ h[Len(h)].by # u

Stories == \A e \in Expenses : Tells(history[e], status[e], creator[e])

RecordsInv == WorkflowInv /\ WorkflowTypeOK /\ ReadsCurrent /\ Stories

\* One more row continues the story.  Before the first row there is no creator.
LEMMA StoryGoesOn ==
    ASSUME NEW h \in Seq(Entry), NEW x \in Entry, NEW s, NEW u, NEW v,
           Tells(h, s, u),
           x.from = s,
           s # "NEW" => v = u,
           x.action = "PAY" => s = "APPROVED",
           x.to = "APPROVED" => x.action = "APPROVE" /\ x.by # v
    PROVE  /\ Append(h, x) \in Seq(Entry)
           /\ Tells(Append(h, x), x.to, v)
<1> DEFINE g == Append(h, x)
<1>1. /\ g \in Seq(Entry) /\ Len(g) = Len(h) + 1
      /\ \A i \in 1 .. Len(h) : g[i] = h[i]
      /\ g[Len(h) + 1] = x
    BY AppendProperties
<1>2. Len(h) \in Nat
    BY LenProperties
<1>3. x.to # "NEW"
    BY DEF Entry, Statuses
<1>4. \A i \in 1 .. Len(h) :
        /\ g[i].from = (IF i = 1 THEN "NEW" ELSE g[i - 1].to)
        /\ g[i].action = "PAY" => i > 1 /\ g[i - 1].action = "APPROVE" /\ g[i - 1].by # v
    <2>1. SUFFICES ASSUME NEW i \in 1 .. Len(h)
          PROVE  /\ g[i].from = (IF i = 1 THEN "NEW" ELSE g[i - 1].to)
                 /\ g[i].action = "PAY" => i > 1 /\ g[i - 1].action = "APPROVE" /\ g[i - 1].by # v
        OBVIOUS
    <2>2. v = u
        BY <1>2 DEF Tells
    <2>3. g[i] = h[i] /\ (i # 1 => g[i - 1] = h[i - 1])
        BY <1>1, <1>2
    <2>. QED BY <2>2, <2>3, <1>2 DEF Tells
<1>5. /\ x.from = (IF Len(h) + 1 = 1 THEN "NEW" ELSE g[Len(h)].to)
      /\ x.action = "PAY" => Len(h) + 1 > 1 /\ g[Len(h)].action = "APPROVE" /\ g[Len(h)].by # v
    BY <1>1, <1>2 DEF Tells
<1>6. \A i \in 1 .. Len(g) :
        /\ g[i].from = (IF i = 1 THEN "NEW" ELSE g[i - 1].to)
        /\ g[i].action = "PAY" => i > 1 /\ g[i - 1].action = "APPROVE" /\ g[i - 1].by # v
    <2>1. SUFFICES ASSUME NEW i \in 1 .. Len(g)
          PROVE  /\ g[i].from = (IF i = 1 THEN "NEW" ELSE g[i - 1].to)
                 /\ g[i].action = "PAY" => i > 1 /\ g[i - 1].action = "APPROVE" /\ g[i - 1].by # v
        OBVIOUS
    <2>2. CASE i \in 1 .. Len(h)
        BY <1>4, <2>2
    <2>3. CASE i = Len(h) + 1
        <3>1. i - 1 = Len(h) /\ g[i] = x
            BY <1>1, <1>2, <2>3
        <3>. QED BY <1>5, <2>3, <3>1
    <2>. QED BY <1>1, <1>2, <2>2, <2>3
<1>7. Len(g) > 0 /\ g[Len(g)] = x
    BY <1>1, <1>2
<1>. QED BY <1>1, <1>2, <1>3, <1>6, <1>7 DEF Tells

\* A total a request writes is again an amount.
LEMMA VendorsWritten ==
    ASSUME RecordsInv, NEW r \in Requests, NEW totals, WriteVendor(r, totals),
           step[r] = "loaded" \/ VendorOf(r) = NoVendor,
           seen[r] \in Totals => totals \in Totals
    PROVE  vendors' \in [Vendors -> Totals]
<1>1. vendors \in [Vendors -> Totals]
    BY DEF RecordsInv, WorkflowTypeOK
<1>2. CASE VendorOf(r) = NoVendor
    BY <1>1, <1>2 DEF WriteVendor
<1>3. CASE VendorOf(r) # NoVendor
    <2>1. seen[r] \in Totals /\ totals \in Totals
        BY <1>3 DEF RecordsInv, ReadsCurrent
    <2>2. ASSUME NEW row \in Totals
          PROVE  [c \in DOMAIN row |-> IF totals[c] = seen[r][c] THEN row[c] ELSE totals[c]] \in Totals
        <3>1. [c \in DOMAIN row |-> IF totals[c] = seen[r][c] THEN row[c] ELSE totals[c]]
              = [pending |-> IF totals.pending = seen[r].pending THEN row.pending ELSE totals.pending,
                 paid |-> IF totals.paid = seen[r].paid THEN row.paid ELSE totals.paid]
            BY DEF Totals
        <3>. QED BY <2>1, <3>1 DEF Totals
    <2>3. vendors' = [vendors EXCEPT ![VendorOf(r)] =
                        [c \in DOMAIN @ |-> IF totals[c] = seen[r][c] THEN @[c] ELSE totals[c]]]
        BY <1>3 DEF WriteVendor
    <2>. QED BY <1>1, <2>2, <2>3
<1>. QED BY <1>2, <1>3

\* A commit writes one row of the story of its expense, and leaves the others alone.
LEMMA CommitStories ==
    ASSUME RecordsInv, NEW r \in Requests, Commits(r)
    PROVE  history' \in [Expenses -> Seq(Entry)] /\ Stories'
<1> DEFINE e == Target(r)
<1>1. HoldsExpense(r) /\ step[r] # "idle" /\ Shape
    BY CommitEffect DEF HoldsExpense, RecordsInv, WorkflowInv
<1>2. /\ job[r] \in Jobs /\ e \in Expenses /\ job[r].user \in Users
      /\ job[r].kind \in {"SUBMIT", "APPROVE", "REJECT", "PAY"}
    BY <1>1, Started
<1>3. was[r] = status[e]
    BY <1>1 DEF RecordsInv, ReadsCurrent
<1>4. IF job[r].kind = "SUBMIT" THEN status[e] = "NEW" ELSE status[e] # "NEW" /\ Allowed(r)
    BY <1>1 DEF RecordsInv, WorkflowInv, ChecksStand
<1>5. /\ history \in [Expenses -> Seq(Entry)]
      /\ status \in [Expenses -> Statuses \cup {"NEW"}]
      /\ creator \in [Expenses -> Users \cup {NoUser}]
    BY DEF RecordsInv, WorkflowTypeOK
<1>6. PICK s \in Statuses :
        /\ status' = [status EXCEPT ![e] = s]
        /\ history' = [history EXCEPT ![e] =
              Append(@, [action |-> job[r].kind, by |-> job[r].user, from |-> was[r], to |-> s])]
        /\ creator' = IF job[r].kind = "SUBMIT" THEN [creator EXCEPT ![e] = job[r].user] ELSE creator
        /\ s = "APPROVED" => job[r].kind = "APPROVE"
    BY DEF Commits, CommitSubmit, CommitApprove, CommitReject, CommitPay, Ready, SetStatus,
           LogApproval, Statuses, Target
<1> DEFINE x == [action |-> job[r].kind, by |-> job[r].user, from |-> was[r], to |-> s]
<1>7. x \in Entry /\ x.from = status[e] /\ x.to = s /\ x.action = job[r].kind /\ x.by = job[r].user
    BY <1>2, <1>3, <1>5 DEF Entry
<1>8. status'[e] = s /\ history'[e] = Append(history[e], x) /\ history[e] \in Seq(Entry)
    BY <1>2, <1>5, <1>6
<1>9. status[e] # "NEW" => creator'[e] = creator[e]
    BY <1>4, <1>6
<1>10. /\ x.action = "PAY" => status[e] = "APPROVED"
       /\ x.to = "APPROVED" => x.action = "APPROVE" /\ x.by # creator'[e]
    BY <1>4, <1>6, <1>7, <1>9 DEF Allowed
<1>11. Append(history[e], x) \in Seq(Entry) /\ Tells(history'[e], status'[e], creator'[e])
    <2>1. Tells(history[e], status[e], creator[e])
        BY <1>2 DEF RecordsInv, Stories
    <2>. HIDE DEF x
    <2>2. /\ Append(history[e], x) \in Seq(Entry)
          /\ Tells(Append(history[e], x), x.to, creator'[e])
        BY <1>7, <1>8, <1>9, <1>10, <2>1, StoryGoesOn
    <2>. QED BY <1>7, <1>8, <2>2
<1>12. \A d \in Expenses \ {e} :
          status'[d] = status[d] /\ creator'[d] = creator[d] /\ history'[d] = history[d]
    BY <1>2, <1>5, <1>6
<1>13. Stories'
    <2>1. ASSUME NEW d \in Expenses PROVE Tells(history'[d], status'[d], creator'[d])
        BY <1>11, <1>12 DEF RecordsInv, Stories
    <2>. QED BY <2>1 DEF Stories
<1>. QED BY <1>2, <1>5, <1>6, <1>11, <1>13

\* A commit keeps the tables and the requests in shape.
LEMMA CommitTypes ==
    ASSUME RecordsInv, NEW r \in Requests, Commits(r)
    PROVE  WorkflowTypeOK'
<1>1. HoldsExpense(r) /\ step[r] # "idle" /\ Shape /\ Finish(r)
    BY CommitEffect DEF HoldsExpense, RecordsInv, WorkflowInv
<1>2. job[r] \in Jobs /\ Target(r) \in Expenses
    BY <1>1, Started
<1>3. Shape' /\ history' \in [Expenses -> Seq(Entry)]
    BY <1>1, CommitShape, CommitStories
<1>4. job[r].kind = "SUBMIT" => job[r].vendor \in Vendors \cup {NoVendor} /\ job[r].amount \in 1 .. MaxAmount
    BY <1>2 DEF Jobs, SubmitJobs, ReviewJobs, PayJobs
<1>5. /\ vendorOf \in [Expenses -> Vendors \cup {NoVendor}]
      /\ amount \in [Expenses -> 0 .. MaxAmount]
      /\ vendors \in [Vendors -> Totals]
      /\ eventStatus \in {"OPEN", "CLOSED", "LOCKED"}
      /\ was \in [Requests -> Statuses \cup {"NEW"}]
      /\ seen \in [Requests -> Totals \cup {NoRecord}]
    BY DEF RecordsInv, WorkflowTypeOK
<1>6. vendorOf' \in [Expenses -> Vendors \cup {NoVendor}] /\ amount' \in [Expenses -> 0 .. MaxAmount]
    <2>1. CASE CommitSubmit(r)
        <3>1. /\ vendorOf' = [vendorOf EXCEPT ![job[r].expense] = job[r].vendor]
              /\ amount' = [amount EXCEPT ![job[r].expense] = job[r].amount]
              /\ job[r].kind = "SUBMIT"
            BY <2>1 DEF CommitSubmit, Ready
        <3>2. job[r].amount \in 0 .. MaxAmount
            BY <1>4, <3>1, WorkflowAssumption
        <3>. QED BY <1>4, <1>5, <3>1, <3>2
    <2>2. CASE CommitApprove(r) \/ CommitReject(r) \/ CommitPay(r)
        BY <1>5, <2>2 DEF CommitApprove, CommitReject, CommitPay
    <2>. QED BY <2>1, <2>2 DEF Commits
<1>7. vendors' \in [Vendors -> Totals]
    <2>1. amount[Target(r)] \in Nat
        BY <1>2, <1>5, WorkflowAssumption
    <2>2. ASSUME ~CommitApprove(r) PROVE step[r] = "loaded" \/ VendorOf(r) = NoVendor
        BY <2>2 DEF Commits, CommitSubmit, CommitReject, CommitPay, Ready, HoldsExpense
    <2>3. ASSUME NEW n \in Nat, seen[r] \in Totals
          PROVE  /\ [pending |-> seen[r].pending + n, paid |-> seen[r].paid] \in Totals
                 /\ [pending |-> Less(seen[r].pending, n), paid |-> seen[r].paid] \in Totals
                 /\ [pending |-> Less(seen[r].pending, n), paid |-> seen[r].paid + n] \in Totals
        BY <2>3 DEF Totals, Less
    <2>4. CASE CommitApprove(r)
        BY <1>5, <2>4 DEF CommitApprove
    <2>5. CASE CommitSubmit(r) /\ ~CommitApprove(r)
        <3>1. job[r].amount \in Nat
            BY <1>4, <2>5, WorkflowAssumption DEF CommitSubmit, Ready
        <3>2. WriteVendor(r, [pending |-> seen[r].pending + job[r].amount, paid |-> seen[r].paid])
            BY <2>5 DEF CommitSubmit
        <3>. QED BY <2>2, <2>3, <2>5, <3>1, <3>2, VendorsWritten
    <2>6. CASE CommitReject(r) /\ ~CommitApprove(r)
        <3>1. WriteVendor(r, [pending |-> Less(seen[r].pending, amount[Target(r)]), paid |-> seen[r].paid])
            BY <2>6 DEF CommitReject
        <3>. QED BY <2>1, <2>2, <2>3, <2>6, <3>1, VendorsWritten
    <2>7. CASE CommitPay(r) /\ ~CommitApprove(r)
        <3>1. WriteVendor(r, [pending |-> Less(seen[r].pending, amount[Target(r)]),
                              paid |-> seen[r].paid + amount[Target(r)]])
            BY <2>7 DEF CommitPay
        <3>. QED BY <2>1, <2>2, <2>3, <2>7, <3>1, VendorsWritten
    <2>. QED BY <2>4, <2>5, <2>6, <2>7 DEF Commits
<1>8. was' \in [Requests -> Statuses \cup {"NEW"}] /\ seen' \in [Requests -> Totals \cup {NoRecord}]
    BY <1>1, <1>5 DEF Finish
<1>9. eventStatus' = eventStatus
    BY DEF Commits, CommitSubmit, CommitApprove, CommitReject, CommitPay
<1>. QED BY <1>3, <1>5, <1>6, <1>7, <1>8, <1>9 DEF WorkflowTypeOK, Shape

\* After a commit every other request still knows the status of the expense it holds.
LEMMA CommitReads ==
    ASSUME RecordsInv, NEW r \in Requests, Commits(r)
    PROVE  ReadsCurrent'
<1>1. HoldsExpense(r) /\ Finish(r) /\ \E s \in Statuses : status' = [status EXCEPT ![Target(r)] = s]
    BY CommitEffect
<1>2. /\ \A q \in Requests \ {r} : job'[q] = job[q] /\ step'[q] = step[q] /\ was'[q] = was[q] /\ seen'[q] = seen[q]
      /\ step'[r] = "idle" /\ was'[r] = "NEW"
    BY <1>1 DEF Finish, RecordsInv, WorkflowTypeOK
<1>3. SUFFICES ASSUME NEW q \in Requests
      PROVE  /\ was'[q] = (IF HoldsExpense(q)' THEN status'[Target(q)'] ELSE "NEW")
             /\ step'[q] = "loaded" => seen'[q] \in Totals
    BY DEF ReadsCurrent
<1>4. CASE q = r
    BY <1>2, <1>4 DEF HoldsExpense
<1>5. CASE q # r
    <2>1. HoldsExpense(q)' = HoldsExpense(q) /\ Target(q)' = Target(q)
        BY <1>2, <1>5 DEF HoldsExpense, Target
    <2>2. HoldsExpense(q) => Target(q) \in Expenses /\ Target(q) # Target(r)
        BY <1>1, <1>5, Started DEF RecordsInv, WorkflowInv, OneHolder, HoldsExpense
    <2>3. HoldsExpense(q) => status'[Target(q)] = status[Target(q)]
        BY <1>1, <2>2 DEF RecordsInv, WorkflowTypeOK
    <2>. QED BY <1>2, <1>5, <2>1, <2>3 DEF RecordsInv, ReadsCurrent
<1>. QED BY <1>4, <1>5

\* A step of a request before its commit writes no table, and what it reads is current.
LEMMA RequestRecords ==
    ASSUME RecordsInv, NEW r \in Requests,
           \/ \E j \in SubmitJobs : BeginSubmit(r, j)
           \/ \E j \in ReviewJobs \cup PayJobs : Begin(r, j)
           \/ LockExpense(r) \/ LoadVendor(r) \/ Rollback(r)
    PROVE  RecordsInv'
<1>1. WorkflowInv' /\ UNCHANGED expenseVars /\ eventStatus' = eventStatus
    BY RequestStep DEF RecordsInv, BeginSubmit, Begin, LockExpense, LoadVendor, Rollback
<1>2. UNCHANGED <<status, creator, vendorOf, amount, history, ledger, vendors>>
    BY <1>1 DEF expenseVars
<1>3. /\ was \in [Requests -> Statuses \cup {"NEW"}]
      /\ seen \in [Requests -> Totals \cup {NoRecord}]
      /\ status \in [Expenses -> Statuses \cup {"NEW"}]
      /\ step \in [Requests -> {"idle", "begun", "locked", "loaded"}]
      /\ job \in [Requests -> Jobs \cup {NoRecord}]
      /\ vendors \in [Vendors -> Totals]
    BY DEF RecordsInv, WorkflowTypeOK
<1>4. step[r] # "idle" => Target(r) \in Expenses /\ job[r] \in Jobs
    BY Started DEF RecordsInv, WorkflowInv
<1>5. /\ was' \in [Requests -> Statuses \cup {"NEW"}]
      /\ seen' \in [Requests -> Totals \cup {NoRecord}]
      /\ ReadsCurrent'
    <2>1. ASSUME NEW j, job' = [job EXCEPT ![r] = j], step[r] = "idle", UNCHANGED <<was, seen>>,
                 \/ step' = [step EXCEPT ![r] = "begun"]
                 \/ step' = [step EXCEPT ![r] = "locked"] /\ status[j.expense] = "NEW"
          PROVE  ReadsCurrent'
        <3>1. \A q \in Requests \ {r} : job'[q] = job[q] /\ step'[q] = step[q]
            BY <1>3, <2>1
        <3>2. job'[r] = j /\ was[r] = "NEW"
            BY <1>3, <2>1 DEF RecordsInv, ReadsCurrent, HoldsExpense
        <3>3. step'[r] = "begun" \/ (step'[r] = "locked" /\ status[j.expense] = "NEW")
            BY <1>3, <2>1
        <3>. QED BY <1>2, <2>1, <3>1, <3>2, <3>3 DEF RecordsInv, ReadsCurrent, HoldsExpense, Target
    <2>2. ASSUME NEW j \in SubmitJobs, BeginSubmit(r, j) PROVE <1>5!1 /\ <1>5!2 /\ <1>5!3
        BY <1>3, <2>1, <2>2 DEF BeginSubmit
    <2>3. ASSUME NEW j \in ReviewJobs \cup PayJobs, Begin(r, j) PROVE <1>5!1 /\ <1>5!2 /\ <1>5!3
        BY <1>3, <2>1, <2>3 DEF Begin
    <2>4. CASE LockExpense(r)
        <3>1. /\ was' = [was EXCEPT ![r] = status[Target(r)]]
              /\ step' = [step EXCEPT ![r] = "locked"]
              /\ job' = job /\ seen' = seen /\ step[r] = "begun"
            BY <2>4 DEF LockExpense
        <3>2. was' \in [Requests -> Statuses \cup {"NEW"}]
            BY <1>3, <1>4, <3>1
        <3>3. ReadsCurrent'
            BY <1>2, <1>3, <3>1 DEF RecordsInv, ReadsCurrent, HoldsExpense, Target
        <3>. QED BY <1>3, <3>1, <3>2, <3>3
    <2>5. CASE LoadVendor(r)
        <3>1. /\ seen' = [seen EXCEPT ![r] = vendors[VendorOf(r)]]
              /\ step' = [step EXCEPT ![r] = "loaded"]
              /\ job' = job /\ was' = was /\ step[r] = "locked" /\ VendorOf(r) # NoVendor
            BY <2>5 DEF LoadVendor
        <3>2. VendorOf(r) \in Vendors
            <4>1. job[r].kind = "SUBMIT" => job[r].vendor \in Vendors \cup {NoVendor}
                BY <1>4, <3>1 DEF Jobs, SubmitJobs, ReviewJobs, PayJobs
            <4>2. vendorOf[Target(r)] \in Vendors \cup {NoVendor}
                BY <1>4, <3>1 DEF RecordsInv, WorkflowTypeOK
            <4>. QED BY <3>1, <4>1, <4>2 DEF VendorOf
        <3>3. vendors[VendorOf(r)] \in Totals
            BY <1>3, <3>2
        <3>4. seen' \in [Requests -> Totals \cup {NoRecord}] /\ seen'[r] \in Totals
            BY <1>3, <3>1, <3>3
        <3>5. ReadsCurrent'
            BY <1>2, <1>3, <3>1, <3>4 DEF RecordsInv, ReadsCurrent, HoldsExpense, Target
        <3>. QED BY <1>3, <3>1, <3>4, <3>5
    <2>6. CASE Rollback(r)
        <3>1. Finish(r)
            BY <2>6 DEF Rollback
        <3>2. ReadsCurrent'
            BY <1>2, <1>3, <3>1 DEF Finish, RecordsInv, ReadsCurrent, HoldsExpense, Target
        <3>. QED BY <1>3, <3>1, <3>2 DEF Finish
    <2>. QED BY <2>2, <2>3, <2>4, <2>5, <2>6
<1>6. WorkflowTypeOK'
    BY <1>1, <1>2, <1>5 DEF RecordsInv, WorkflowTypeOK, WorkflowInv, Shape
<1>7. Stories'
    BY <1>2 DEF RecordsInv, Stories
<1>. QED BY <1>1, <1>5, <1>6, <1>7 DEF RecordsInv

\* The tables, the requests and the approvals rows fit together in every reachable state.
THEOREM RecordsInvariant == WorkflowSpec => []RecordsInv
<1>1. WorkflowInit /\ WorkflowInv => RecordsInv
    <2>1. SUFFICES ASSUME WorkflowInit, WorkflowInv PROVE WorkflowTypeOK /\ ReadsCurrent /\ Stories
        BY DEF RecordsInv
    <2>2. WorkflowTypeOK
        BY <2>1, WorkflowAssumption DEF WorkflowInit, WorkflowTypeOK, Totals
    <2>3. ReadsCurrent
        BY <2>1 DEF WorkflowInit, ReadsCurrent, HoldsExpense
    <2>4. Stories
        BY <2>1 DEF WorkflowInit, Stories, Tells
    <2>. QED BY <2>2, <2>3, <2>4
<1>2. RecordsInv /\ WorkflowInv' /\ [WorkflowNext]_workflowVars => RecordsInv'
    <2>1. SUFFICES ASSUME RecordsInv, WorkflowInv', [WorkflowNext]_workflowVars PROVE RecordsInv'
        OBVIOUS
    <2>2. ASSUME NEW r \in Requests, Commits(r) PROVE RecordsInv'
        BY <2>1, <2>2, CommitStories, CommitTypes, CommitReads DEF RecordsInv
    <2>3. CASE UNCHANGED <<expenseVars, requestVars>>
        <3>1. eventStatus' \in {"OPEN", "CLOSED", "LOCKED"}
            BY <2>1, <2>3
               DEF RecordsInv, WorkflowTypeOK, WorkflowNext, Work, workflowVars, CloseEvent,
                   LockEvent, BeginSubmit, Begin, LockExpense, LoadVendor, CommitSubmit,
                   CommitApprove, CommitReject, CommitPay, Rollback
        <3>2. WorkflowTypeOK'
            BY <2>1, <2>3, <3>1 DEF RecordsInv, WorkflowTypeOK, expenseVars, requestVars
        <3>3. ReadsCurrent' /\ Stories'
            BY <2>1, <2>3
               DEF RecordsInv, ReadsCurrent, Stories, HoldsExpense, Target, expenseVars, requestVars
        <3>. QED BY <2>1, <3>2, <3>3 DEF RecordsInv
    <2>. QED BY <2>1, <2>2, <2>3, WorkflowCases, RequestRecords
<1>. QED BY <1>1, <1>2, LocksProtectChecks, PTL DEF WorkflowSpec

\* Expenses, approvals, vendors and requests keep their shape.
THEOREM WorkflowTypeCorrect == WorkflowSpec => []WorkflowTypeOK
<1>1. RecordsInv => WorkflowTypeOK
    BY DEF RecordsInv
<1>. QED BY <1>1, RecordsInvariant, PTL

\* The approvals rows of an expense tell its whole story, whatever overlaps.
THEOREM HistoryAlwaysChains == WorkflowSpec => []HistoryChains
<1>1. RecordsInv => HistoryChains
    <2>1. SUFFICES ASSUME RecordsInv, NEW e \in Expenses
          PROVE  LET h == history[e] IN
                 /\ (h = <<>>) <=> (status[e] = "NEW")
                 /\ \A i \in DOMAIN h :
                       /\ h[i].from = (IF i = 1 THEN "NEW" ELSE h[i - 1].to)
                       /\ h[i].action = "PAY" => h[i - 1].action = "APPROVE" /\ h[i - 1].by # creator[e]
                       /\ i = Len(h) => h[i].to = status[e]
        BY DEF HistoryChains
    <2>2. history[e] \in Seq(Entry) /\ Tells(history[e], status[e], creator[e])
        BY <2>1 DEF RecordsInv, WorkflowTypeOK, Stories
    <2>3. /\ Len(history[e]) \in Nat /\ DOMAIN history[e] = 1 .. Len(history[e])
          /\ history[e] = <<>> <=> Len(history[e]) = 0
        BY <2>2, LenProperties, EmptySeq
    <2>. QED BY <2>2, <2>3 DEF Tells
<1>. QED BY <1>1, RecordsInvariant, PTL

-----------------------------------------------------------------------------
(***************************************************************************)
(* Vendors: the totals kept by hand are sums over the expenses, unless two *)
(* requests had the vendor's row loaded at once.                           *)
(***************************************************************************)
Submitted == {e \in Expenses : status[e] # "NEW"}

LoadedFor(r, v) == step[r] = "loaded" /\ VendorOf(r) = v

\* Who has a vendor's row loaded has seen no more than was paid; and as long as no two
\* had it, who has it has seen what the row still says, the sums of the expenses.
VendorOK(v) ==
    /\ vendors[v].paid <= Worth(Settled(v))
    /\ \A r \in Requests : LoadedFor(r, v) => seen[r].paid <= Worth(Settled(v))
    /\ v \notin overlapped =>
        /\ TotalsExact(v)
        /\ \A r \in Requests : LoadedFor(r, v) => seen[r] = vendors[v]
        /\ \A r, q \in Requests : LoadedFor(r, v) /\ LoadedFor(q, v) => r = q

VendorInv == IsFiniteSet(Submitted) /\ \A v \in Vendors : VendorOK(v)

\* Finitely many expenses have finitely many rupees.
LEMMA WorthFinite ==
    ASSUME NEW a, NEW S, IsFiniteSet(S)
    PROVE  IsFiniteSet(Rupees(a, S)) /\ Cardinality(Rupees(a, S)) \in Nat
<1>1. IsFiniteSet(1 .. MaxAmount)
    BY FS_Interval, WorkflowAssumption
<1>2. IsFiniteSet(S \X (1 .. MaxAmount))
    BY <1>1, FS_Product
<1>3. Rupees(a, S) \in SUBSET (S \X (1 .. MaxAmount))
    BY DEF Rupees
<1>4. IsFiniteSet(Rupees(a, S))
    BY <1>2, <1>3, FS_Subset
<1>. QED BY <1>4, FS_CardinalityType

\* One expense is worth its amount.
LEMMA WorthOfOne ==
    ASSUME NEW a, NEW e, NEW n \in 0 .. MaxAmount, a[e] = n
    PROVE  Cardinality(Rupees(a, {e})) = n
<1>1. n \in Nat /\ n <= MaxAmount
    BY WorkflowAssumption
<1>2. Rupees(a, {e}) = {e} \X (1 .. n)
    BY <1>1, WorkflowAssumption DEF Rupees
<1>3. IsFiniteSet(1 .. n) /\ Cardinality(1 .. n) = n
    BY <1>1, FS_Interval
<1>4. IsFiniteSet({e}) /\ Cardinality({e}) = 1
    BY FS_Singleton
<1>5. Cardinality({e} \X (1 .. n)) = Cardinality({e}) * Cardinality(1 .. n)
    BY <1>3, <1>4, FS_Product, Zenon
<1>6. Cardinality({e}) * Cardinality(1 .. n) = n
    BY <1>1, <1>3, <1>4
<1>. QED BY <1>2, <1>5, <1>6, Zenon

\* One expense more adds its amount.
LEMMA WorthAdd ==
    ASSUME NEW a, NEW S, IsFiniteSet(S), NEW e, e \notin S, a[e] \in 0 .. MaxAmount
    PROVE  Cardinality(Rupees(a, S \cup {e})) = Cardinality(Rupees(a, S)) + a[e]
<1>1. Rupees(a, S \cup {e}) = Rupees(a, S) \cup Rupees(a, {e})
    BY DEF Rupees
<1>2. Rupees(a, S) \cap Rupees(a, {e}) = {}
    BY DEF Rupees
<1>3. IsFiniteSet({e})
    BY FS_Singleton
<1>4. /\ IsFiniteSet(Rupees(a, S)) /\ IsFiniteSet(Rupees(a, {e}))
      /\ Cardinality(Rupees(a, S)) \in Nat /\ Cardinality(Rupees(a, {e})) \in Nat
    BY <1>3, WorthFinite
<1>5. Cardinality(Rupees(a, S) \cap Rupees(a, {e})) = 0
    BY <1>2, FS_EmptySet
<1>6. Cardinality(Rupees(a, S) \cup Rupees(a, {e}))
        = Cardinality(Rupees(a, S)) + Cardinality(Rupees(a, {e})) - 0
    BY <1>4, <1>5, FS_Union
<1>7. Cardinality(Rupees(a, {e})) = a[e]
    BY WorthOfOne
<1>8. Cardinality(Rupees(a, S) \cup Rupees(a, {e})) = Cardinality(Rupees(a, S)) + a[e]
    BY <1>4, <1>6, <1>7
<1>. QED BY <1>1, <1>8, Zenon

\* Only the amounts of the expenses in the set count.
LEMMA WorthSame ==
    ASSUME NEW a, NEW b, NEW S, \A e \in S : a[e] = b[e]
    PROVE  Rupees(a, S) = Rupees(b, S)
BY DEF Rupees

\* The expenses a vendor is owed or has been paid for are finitely many.
LEMMA VendorSets ==
    ASSUME RecordsInv, IsFiniteSet(Submitted), NEW v
    PROVE  /\ Owed(v) \subseteq Submitted /\ Settled(v) \subseteq Submitted
           /\ IsFiniteSet(Owed(v)) /\ IsFiniteSet(Settled(v))
           /\ Worth(Owed(v)) \in Nat /\ Worth(Settled(v)) \in Nat
<1>1. Owed(v) \subseteq Submitted /\ Settled(v) \subseteq Submitted
    BY DEF Owed, Settled, Submitted
<1>2. IsFiniteSet(Owed(v)) /\ IsFiniteSet(Settled(v))
    BY <1>1, FS_Subset
<1>. QED BY <1>1, <1>2, WorthFinite DEF Worth

\* What the four commits do to the sums of a vendor's expenses.
LEMMA CommitSums ==
    ASSUME RecordsInv, IsFiniteSet(Submitted), NEW r \in Requests, Commits(r), NEW v \in Vendors
    PROVE  LET owed == Worth(Owed(v))
               settled == Worth(Settled(v))
           IN  /\ VendorOf(r) # v \/ CommitApprove(r) => owed' = owed /\ settled' = settled
               /\ VendorOf(r) = v /\ CommitSubmit(r) =>
                     owed' = owed + job[r].amount /\ settled' = settled
               /\ VendorOf(r) = v /\ CommitReject(r) =>
                     owed = owed' + amount[Target(r)] /\ owed' \in Nat /\ settled' = settled
               /\ VendorOf(r) = v /\ CommitPay(r) =>
                     /\ owed = owed' + amount[Target(r)] /\ owed' \in Nat
                     /\ settled' = settled + amount[Target(r)]
<1>. DEFINE e == Target(r)
<1>1. HoldsExpense(r) /\ step[r] # "idle" /\ Shape
    BY CommitEffect DEF HoldsExpense, RecordsInv, WorkflowInv
<1>2. e \in Expenses /\ job[r] \in Jobs
    BY <1>1, Started
<1>3. IF job[r].kind = "SUBMIT" THEN status[e] = "NEW" ELSE status[e] # "NEW" /\ Allowed(r)
    BY <1>1 DEF RecordsInv, WorkflowInv, ChecksStand
<1>4. /\ status \in [Expenses -> Statuses \cup {"NEW"}]
      /\ vendorOf \in [Expenses -> Vendors \cup {NoVendor}]
      /\ amount \in [Expenses -> 0 .. MaxAmount]
    BY DEF RecordsInv, WorkflowTypeOK
<1>5. amount[e] \in 0 .. MaxAmount
    BY <1>2, <1>4
<1>6. /\ IsFiniteSet(Owed(v)) /\ IsFiniteSet(Settled(v))
      /\ Worth(Owed(v)) \in Nat /\ Worth(Settled(v)) \in Nat
    BY VendorSets
<1>. HIDE DEF e
<1>7. ASSUME NEW S, NEW T, S = T, \A d \in S : amount'[d] = amount[d]
      PROVE  Cardinality(Rupees(amount', S)) = Cardinality(Rupees(amount, T))
    BY <1>7, WorthSame
<1>8. CASE CommitSubmit(r)
  <2>1. /\ job[r].kind = "SUBMIT" /\ job[r].expense = e /\ VendorOf(r) = job[r].vendor
        /\ status' = [status EXCEPT ![e] = "SUBMITTED"]
        /\ vendorOf' = [vendorOf EXCEPT ![e] = job[r].vendor]
        /\ amount' = [amount EXCEPT ![e] = job[r].amount]
      BY <1>8 DEF CommitSubmit, Ready, SetStatus, VendorOf, Target, e
  <2>2. job[r].amount \in 0 .. MaxAmount
    <3>1. job[r].amount \in 1 .. MaxAmount
        BY <1>2, <2>1 DEF Jobs, SubmitJobs, ReviewJobs, PayJobs
    <3>. QED BY <3>1, WorkflowAssumption
  <2>3. status[e] = "NEW" /\ e \notin Owed(v) /\ e \notin Settled(v)
      BY <1>3, <2>1 DEF Owed, Settled
  <2>4. \A d \in Expenses \ {e} : status'[d] = status[d] /\ vendorOf'[d] = vendorOf[d] /\ amount'[d] = amount[d]
      BY <1>4, <2>1
  <2>5. status'[e] = "SUBMITTED" /\ vendorOf'[e] = VendorOf(r) /\ amount'[e] = job[r].amount
      BY <1>2, <1>4, <2>1
  <2>6. Settled(v)' = Settled(v)
      BY <2>3, <2>4, <2>5 DEF Settled
  <2>7. Owed(v)' = IF VendorOf(r) = v THEN Owed(v) \cup {e} ELSE Owed(v)
      BY <1>2, <2>3, <2>4, <2>5 DEF Owed
  <2>8. \A d \in Owed(v) \cup Settled(v) : amount'[d] = amount[d]
      BY <2>3, <2>4 DEF Owed, Settled
  <2>9. Worth(Settled(v))' = Worth(Settled(v))
      BY <1>7, <2>6, <2>8 DEF Worth
  <2>10. Cardinality(Rupees(amount', Owed(v))) = Worth(Owed(v))
      BY <1>7, <2>8 DEF Worth
  <2>11. Cardinality(Rupees(amount', Owed(v) \cup {e})) = Worth(Owed(v)) + job[r].amount
    <3>. DEFINE a == amount'
    <3>. HIDE DEF a
    <3>1. a[e] \in 0 .. MaxAmount /\ a[e] = job[r].amount
        BY <2>2, <2>5 DEF a
    <3>2. Cardinality(Rupees(a, Owed(v) \cup {e})) = Cardinality(Rupees(a, Owed(v))) + a[e]
        BY <1>6, <2>3, <3>1, WorthAdd
    <3>. QED BY <2>10, <3>1, <3>2 DEF a
  <2>12. Worth(Owed(v))' = IF VendorOf(r) = v THEN Worth(Owed(v)) + job[r].amount ELSE Worth(Owed(v))
      BY <2>7, <2>10, <2>11 DEF Worth
  <2>13. ~CommitApprove(r) /\ ~CommitReject(r) /\ ~CommitPay(r)
      BY <2>1 DEF CommitApprove, CommitReject, CommitPay, Ready
  <2>. QED BY <2>9, <2>12, <2>13 DEF e
<1>9. CASE CommitApprove(r) \/ CommitReject(r) \/ CommitPay(r)
  <2>1. /\ vendorOf' = vendorOf /\ amount' = amount
        /\ job[r].kind = IF CommitApprove(r) THEN "APPROVE" ELSE IF CommitReject(r) THEN "REJECT" ELSE "PAY"
        /\ status' = [status EXCEPT ![e] = IF CommitApprove(r) THEN "APPROVED"
                                           ELSE IF CommitReject(r) THEN "REJECTED" ELSE "PAID"]
      BY <1>9 DEF CommitApprove, CommitReject, CommitPay, Ready, SetStatus, e
  <2>2. VendorOf(r) = vendorOf[e] /\ ~CommitSubmit(r)
      BY <2>1 DEF VendorOf, CommitSubmit, Ready, e
  <2>3. status[e] # "NEW" /\ Allowed(r)
      BY <1>3, <2>1
  <2>4. /\ job[r].kind = "APPROVE" => status[e] = "SUBMITTED"
        /\ job[r].kind = "REJECT" => status[e] \in {"SUBMITTED", "APPROVED"}
        /\ job[r].kind = "PAY" => status[e] = "APPROVED"
      BY <1>2, <1>4, <2>3 DEF Allowed, Statuses, e
  <2>5. \A d \in Expenses \ {e} : status'[d] = status[d]
      BY <1>4, <2>1
  <2>6. \A S : Cardinality(Rupees(amount', S)) = Cardinality(Rupees(amount, S))
      BY <2>1
  <2>7. CASE VendorOf(r) # v \/ CommitApprove(r)
    <3>1. status'[e] = IF CommitApprove(r) THEN "APPROVED" ELSE IF CommitReject(r) THEN "REJECTED" ELSE "PAID"
        BY <1>2, <1>4, <2>1
    <3>2. Owed(v)' = Owed(v) /\ Settled(v)' = Settled(v)
        BY <1>2, <2>1, <2>2, <2>4, <2>5, <2>7, <3>1 DEF Owed, Settled
    <3>3. Worth(Owed(v))' = Worth(Owed(v)) /\ Worth(Settled(v))' = Worth(Settled(v))
        BY <2>1, <3>2 DEF Worth
    <3>4. VendorOf(r) = v => ~CommitReject(r) /\ ~CommitPay(r)
        BY <2>1, <2>7 DEF CommitReject, CommitPay, Ready
    <3>. QED BY <2>2, <3>3, <3>4
  <2>8. CASE VendorOf(r) = v /\ ~CommitApprove(r)
    <3>1. e \in Owed(v) /\ e \notin Settled(v)
        BY <1>2, <1>9, <2>1, <2>2, <2>4, <2>8 DEF Owed, Settled
    <3>2. status'[e] = IF CommitReject(r) THEN "REJECTED" ELSE "PAID"
        BY <1>2, <1>4, <2>1, <2>8
    <3>3. Owed(v)' = Owed(v) \ {e}
      <4>1. status'[e] \notin {"SUBMITTED", "APPROVED"} /\ vendorOf' = vendorOf
          BY <2>1, <3>2
      <4>. QED BY <2>5, <4>1 DEF Owed
    <3>4. Settled(v)' = IF CommitReject(r) THEN Settled(v) ELSE Settled(v) \cup {e}
      <4>1. vendorOf' = vendorOf /\ vendorOf[e] = v
          BY <2>1, <2>2, <2>8
      <4>2. status'[e] = "PAID" <=> ~CommitReject(r)
          BY <3>2
      <4>. QED BY <1>2, <2>5, <3>1, <4>1, <4>2 DEF Settled
    <3>5. IsFiniteSet(Owed(v) \ {e})
        BY <1>6, FS_Subset
    <3>6. Cardinality(Rupees(amount, (Owed(v) \ {e}) \cup {e})) = Cardinality(Rupees(amount, Owed(v) \ {e})) + amount[e]
        BY <1>5, <3>5, WorthAdd
    <3>7. Worth(Owed(v)) = Worth(Owed(v))' + amount[e] /\ Worth(Owed(v))' \in Nat
      <4>1. (Owed(v) \ {e}) \cup {e} = Owed(v)
          BY <3>1
      <4>2. Worth(Owed(v))' = Cardinality(Rupees(amount, Owed(v) \ {e}))
          BY <2>1, <3>3 DEF Worth
      <4>3. Cardinality(Rupees(amount, Owed(v) \ {e})) \in Nat
          BY <3>5, WorthFinite
      <4>. QED BY <3>6, <4>1, <4>2, <4>3 DEF Worth
    <3>8. Cardinality(Rupees(amount, Settled(v) \cup {e})) = Cardinality(Rupees(amount, Settled(v))) + amount[e]
        BY <1>5, <1>6, <3>1, WorthAdd
    <3>9. Worth(Settled(v))' = IF CommitReject(r) THEN Worth(Settled(v)) ELSE Worth(Settled(v)) + amount[e]
        BY <2>1, <3>4, <3>8 DEF Worth
    <3>10. CommitPay(r) => ~CommitReject(r)
        BY DEF CommitPay, CommitReject, Ready
    <3>. QED BY <2>2, <2>8, <3>7, <3>9, <3>10 DEF e
  <2>. QED BY <2>7, <2>8
<1>. QED BY <1>8, <1>9 DEF Commits

\* What WriteVendor makes of a vendor's row the request has loaded, and of the others.
LEMMA TotalsWritten ==
    ASSUME RecordsInv, NEW r \in Requests, NEW totals \in Totals, WriteVendor(r, totals), NEW v \in Vendors
    PROVE  /\ VendorOf(r) # v => vendors'[v] = vendors[v]
           /\ VendorOf(r) = v =>
                /\ vendors'[v].pending = IF totals.pending = seen[r].pending THEN vendors[v].pending ELSE totals.pending
                /\ vendors'[v].paid = IF totals.paid = seen[r].paid THEN vendors[v].paid ELSE totals.paid
<1>1. vendors \in [Vendors -> Totals]
    BY DEF RecordsInv, WorkflowTypeOK
<1>2. CASE VendorOf(r) # v
    BY <1>1, <1>2 DEF WriteVendor
<1>3. CASE VendorOf(r) = v
  <2>1. v # NoVendor
      BY WorkflowAssumption
  <2>2. vendors'[v] = [c \in DOMAIN vendors[v] |-> IF totals[c] = seen[r][c] THEN vendors[v][c] ELSE totals[c]]
      BY <1>1, <1>3, <2>1 DEF WriteVendor
  <2>3. "pending" \in DOMAIN vendors[v] /\ "paid" \in DOMAIN vendors[v]
      BY <1>1 DEF Totals
  <2>. QED BY <1>3, <2>2, <2>3
<1>. QED BY <1>2, <1>3

\* After a commit the others have what they had.
LEMMA OthersLoaded ==
    ASSUME RecordsInv, NEW r \in Requests, Commits(r), NEW v \in Vendors, NEW q \in Requests, LoadedFor(q, v)'
    PROVE  q # r /\ LoadedFor(q, v) /\ seen'[q] = seen[q]
<1>1. HoldsExpense(r) /\ Finish(r) /\ Shape
    BY CommitEffect DEF RecordsInv, WorkflowInv
<1>2. step'[r] = "idle" /\ \A p \in Requests \ {r} : job'[p] = job[p] /\ step'[p] = step[p] /\ seen'[p] = seen[p]
    BY <1>1 DEF Finish, RecordsInv, WorkflowTypeOK
<1>3. q # r /\ step[q] = "loaded"
    BY <1>2 DEF LoadedFor
<1>4. Target(q) # Target(r) /\ Target(q) \in Expenses /\ Target(q)' = Target(q)
    BY <1>1, <1>2, <1>3, Started DEF RecordsInv, WorkflowInv, OneHolder, HoldsExpense, Target
<1>5. vendorOf'[Target(q)] = vendorOf[Target(q)]
    BY <1>4
       DEF Commits, CommitSubmit, CommitApprove, CommitReject, CommitPay, RecordsInv,
           WorkflowTypeOK, Target
<1>6. VendorOf(q)' = VendorOf(q)
    BY <1>2, <1>3, <1>4, <1>5 DEF VendorOf
<1>. QED BY <1>2, <1>3, <1>6 DEF LoadedFor

LEMMA CommitVendor ==
    ASSUME RecordsInv, VendorInv, NEW r \in Requests, Commits(r), NEW v \in Vendors, overlapped \subseteq overlapped'
    PROVE  VendorOK(v)'
<1>. DEFINE owed == Worth(Owed(v))
            settled == Worth(Settled(v))
<1>1. owed \in Nat /\ settled \in Nat
    BY VendorSets DEF VendorInv
<1>2. VendorOK(v) /\ IsFiniteSet(Submitted)
    BY DEF VendorInv
<1>3. \A q \in Requests : LoadedFor(q, v)' => q # r /\ LoadedFor(q, v) /\ seen'[q] = seen[q]
    BY OthersLoaded
<1>4. vendors \in [Vendors -> Totals] /\ vendors[v] \in Totals
    BY DEF RecordsInv, WorkflowTypeOK
<1>5. \A q \in Requests : LoadedFor(q, v) => seen[q] \in Totals
    BY DEF RecordsInv, ReadsCurrent, LoadedFor
<1>6. /\ VendorOf(r) # v \/ CommitApprove(r) => owed' = owed /\ settled' = settled
      /\ VendorOf(r) = v /\ CommitSubmit(r) =>
            owed' = owed + job[r].amount /\ settled' = settled
      /\ VendorOf(r) = v /\ CommitReject(r) =>
            owed = owed' + amount[Target(r)] /\ owed' \in Nat /\ settled' = settled
      /\ VendorOf(r) = v /\ CommitPay(r) =>
            /\ owed = owed' + amount[Target(r)] /\ owed' \in Nat
            /\ settled' = settled + amount[Target(r)]
    BY <1>2, CommitSums
<1>7. Target(r) \in Expenses /\ job[r] \in Jobs
    BY CommitEffect, Started DEF HoldsExpense, RecordsInv, WorkflowInv
<1>8. amount[Target(r)] \in Nat
    BY <1>7, WorkflowAssumption DEF RecordsInv, WorkflowTypeOK
<1>9. job[r].kind = "SUBMIT" => job[r].amount \in Nat
  <2>1. job[r].kind = "SUBMIT" => job[r].amount \in 1 .. MaxAmount
      BY <1>7 DEF Jobs, SubmitJobs, ReviewJobs, PayJobs
  <2>. QED BY <2>1, WorkflowAssumption
<1>10. CASE CommitApprove(r) \/ VendorOf(r) # v
  <2>1. vendors'[v] = vendors[v]
    <3>1. CASE CommitApprove(r)
        BY <3>1 DEF CommitApprove
    <3>2. CASE VendorOf(r) # v /\ ~CommitApprove(r)
      <4>1. \E totals : WriteVendor(r, totals)
          BY <3>2 DEF Commits, CommitSubmit, CommitReject, CommitPay
      <4>. QED BY <1>4, <3>2, <4>1 DEF WriteVendor
    <3>. QED BY <1>10, <3>1, <3>2
  <2>2. owed' = owed /\ settled' = settled
      BY <1>6, <1>10
  <2>. HIDE DEF owed, settled
  <2>. QED BY <1>2, <1>3, <2>1, <2>2 DEF VendorOK, TotalsExact, owed, settled
<1>11. CASE ~CommitApprove(r) /\ VendorOf(r) = v
  <2>1. LoadedFor(r, v)
    <3>1. v # NoVendor
        BY WorkflowAssumption
    <3>. QED BY <1>11, <3>1
                DEF Commits, CommitSubmit, CommitReject, CommitPay, Ready, HoldsExpense, LoadedFor
  <2>2. seen[r] \in Totals
      BY <1>5, <2>1
  <2>3. vendors[v].paid <= settled /\ seen[r].paid <= settled
      BY <1>2, <2>1 DEF VendorOK
  <2>4. ASSUME v \notin overlapped'
        PROVE  /\ v \notin overlapped /\ vendors[v].pending = owed /\ vendors[v].paid = settled
               /\ seen[r] = vendors[v] /\ \A q \in Requests : ~LoadedFor(q, v)'
      BY <1>2, <1>3, <2>1, <2>4 DEF VendorOK, TotalsExact
  <2>. HIDE DEF owed, settled
  <2>5. /\ vendors'[v].paid <= settled' /\ settled <= settled'
        /\ v \notin overlapped' => vendors'[v].pending = owed' /\ vendors'[v].paid = settled'
    <3>1. CASE CommitSubmit(r)
      <4>. DEFINE totals == [pending |-> seen[r].pending + job[r].amount, paid |-> seen[r].paid]
      <4>1. job[r].amount \in Nat
          BY <1>9, <3>1 DEF CommitSubmit, Ready
      <4>2. totals \in Totals /\ totals.pending = seen[r].pending + job[r].amount /\ totals.paid = seen[r].paid
          BY <2>2, <4>1 DEF Totals
      <4>3. WriteVendor(r, totals)
          BY <3>1 DEF CommitSubmit
      <4>. HIDE DEF totals
      <4>4. /\ vendors'[v].pending = IF totals.pending = seen[r].pending THEN vendors[v].pending ELSE totals.pending
            /\ vendors'[v].paid = IF totals.paid = seen[r].paid THEN vendors[v].paid ELSE totals.paid
          BY <1>11, <4>2, <4>3, TotalsWritten
      <4>5. owed' = owed + job[r].amount /\ settled' = settled
          BY <1>6, <1>11, <3>1
      <4>6. v \notin overlapped' => vendors'[v].pending = owed' /\ vendors'[v].paid = settled'
          BY <1>1, <2>2, <2>4, <4>1, <4>2, <4>4, <4>5 DEF Totals
      <4>. QED BY <1>1, <2>3, <4>2, <4>4, <4>5, <4>6
    <3>2. CASE CommitReject(r)
      <4>. DEFINE totals == [pending |-> Less(seen[r].pending, amount[Target(r)]), paid |-> seen[r].paid]
      <4>1. /\ totals \in Totals /\ totals.pending = Less(seen[r].pending, amount[Target(r)])
            /\ totals.paid = seen[r].paid
          BY <1>8, <2>2 DEF Totals, Less
      <4>2. WriteVendor(r, totals)
          BY <3>2 DEF CommitReject
      <4>. HIDE DEF totals
      <4>3. /\ vendors'[v].pending = IF totals.pending = seen[r].pending THEN vendors[v].pending ELSE totals.pending
            /\ vendors'[v].paid = IF totals.paid = seen[r].paid THEN vendors[v].paid ELSE totals.paid
          BY <1>11, <4>1, <4>2, TotalsWritten
      <4>4. owed = owed' + amount[Target(r)] /\ owed' \in Nat /\ settled' = settled
          BY <1>6, <1>11, <3>2
      <4>5. ASSUME v \notin overlapped' PROVE vendors'[v].pending = owed' /\ vendors'[v].paid = settled'
        <5>1. Less(seen[r].pending, amount[Target(r)]) = owed'
            BY <1>8, <2>4, <4>4, <4>5 DEF Less
        <5>2. vendors'[v].pending = totals.pending /\ vendors'[v].paid = totals.paid
            BY <2>4, <4>3, <4>5
        <5>. QED BY <2>4, <4>1, <4>4, <4>5, <5>1, <5>2
      <4>. QED BY <1>1, <2>3, <4>1, <4>3, <4>4, <4>5
    <3>3. CASE CommitPay(r)
      <4>. DEFINE totals == [pending |-> Less(seen[r].pending, amount[Target(r)]),
                             paid |-> seen[r].paid + amount[Target(r)]]
      <4>1. /\ totals \in Totals /\ totals.pending = Less(seen[r].pending, amount[Target(r)])
            /\ totals.paid = seen[r].paid + amount[Target(r)]
          BY <1>8, <2>2 DEF Totals, Less
      <4>2. WriteVendor(r, totals)
          BY <3>3 DEF CommitPay
      <4>. HIDE DEF totals
      <4>3. /\ vendors'[v].pending = IF totals.pending = seen[r].pending THEN vendors[v].pending ELSE totals.pending
            /\ vendors'[v].paid = IF totals.paid = seen[r].paid THEN vendors[v].paid ELSE totals.paid
          BY <1>11, <4>1, <4>2, TotalsWritten
      <4>4. /\ owed = owed' + amount[Target(r)] /\ owed' \in Nat
            /\ settled' = settled + amount[Target(r)]
          BY <1>6, <1>11, <3>3
      <4>5. ASSUME v \notin overlapped' PROVE vendors'[v].pending = owed' /\ vendors'[v].paid = settled'
        <5>1. Less(seen[r].pending, amount[Target(r)]) = owed'
            BY <1>8, <2>4, <4>4, <4>5 DEF Less
        <5>2. vendors'[v].pending = totals.pending /\ vendors'[v].paid = totals.paid
            BY <2>4, <4>3, <4>5
        <5>. QED BY <2>4, <4>1, <4>4, <4>5, <5>1, <5>2
      <4>6. vendors[v].paid \in Nat /\ seen[r].paid \in Nat
          BY <1>4, <2>2 DEF Totals
      <4>. QED BY <1>1, <1>8, <2>3, <4>1, <4>3, <4>4, <4>5, <4>6
    <3>. QED BY <1>11, <3>1, <3>2, <3>3 DEF Commits
  <2>6. ASSUME NEW q \in Requests, LoadedFor(q, v)' PROVE seen'[q].paid <= settled'
    <3>1. seen'[q] = seen[q] /\ seen[q] \in Totals /\ seen[q].paid <= settled
        BY <1>2, <1>3, <1>5, <2>6 DEF VendorOK, settled
    <3>2. settled' \in Nat
        BY <1>1, <1>6, <1>8, <1>11 DEF Commits
    <3>. QED BY <1>1, <2>5, <3>1, <3>2 DEF Totals
  <2>. QED BY <2>4, <2>5, <2>6 DEF VendorOK, TotalsExact, owed, settled
<1>. QED BY <1>10, <1>11

\* A request that loads nothing and writes nothing.
LEMMA VendorKept ==
    ASSUME VendorInv, UNCHANGED <<status, vendorOf, amount, vendors>>, overlapped \subseteq overlapped',
           \A q \in Requests, v \in Vendors : LoadedFor(q, v)' => LoadedFor(q, v) /\ seen'[q] = seen[q]
    PROVE  VendorInv'
<1>1. Submitted' = Submitted
    BY DEF Submitted
<1>2. ASSUME NEW v \in Vendors PROVE VendorOK(v)'
  <2>1. Owed(v)' = Owed(v) /\ Settled(v)' = Settled(v)
      BY DEF Owed, Settled
  <2>2. Worth(Owed(v))' = Worth(Owed(v)) /\ Worth(Settled(v))' = Worth(Settled(v))
      BY <2>1 DEF Worth, Rupees
  <2>. QED BY <2>2 DEF VendorInv, VendorOK, TotalsExact
<1>. QED BY <1>1, <1>2 DEF VendorInv

\* Who loads a vendor's row sees the totals of the moment; an overlap is observed.
LEMMA LoadVendorKept ==
    ASSUME RecordsInv, VendorInv, NEW r \in Requests, LoadVendor(r),
           overlapped' = overlapped \cup {v \in Vendors : LoadedTwice(v)'}
    PROVE  VendorInv'
<1>1. /\ seen' = [seen EXCEPT ![r] = vendors[VendorOf(r)]]
      /\ step' = [step EXCEPT ![r] = "loaded"]
      /\ UNCHANGED <<status, vendorOf, amount, vendors, job>>
    BY DEF LoadVendor, expenseVars
<1>2. /\ \A q \in Requests \ {r} : step'[q] = step[q] /\ seen'[q] = seen[q]
      /\ seen'[r] = vendors[VendorOf(r)]
      /\ vendors \in [Vendors -> Totals]
    BY <1>1 DEF RecordsInv, WorkflowTypeOK
<1>3. \A q \in Requests : VendorOf(q)' = VendorOf(q)
    BY <1>1 DEF VendorOf, Target
<1>4. Submitted' = Submitted
    BY <1>1 DEF Submitted
<1>5. ASSUME NEW v \in Vendors PROVE VendorOK(v)'
  <2>1. Owed(v)' = Owed(v) /\ Settled(v)' = Settled(v)
      BY <1>1 DEF Owed, Settled
  <2>2. Worth(Owed(v))' = Worth(Owed(v)) /\ Worth(Settled(v))' = Worth(Settled(v))
      BY <1>1, <2>1 DEF Worth, Rupees
  <2>3. ASSUME NEW q \in Requests, LoadedFor(q, v)'
        PROVE  seen'[q] = vendors[v] \/ (LoadedFor(q, v) /\ seen'[q] = seen[q])
      BY <1>2, <1>3, <2>3 DEF LoadedFor
  <2>4. VendorOK(v)
      BY DEF VendorInv
  <2>5. ASSUME v \notin overlapped', NEW q \in Requests, NEW p \in Requests, LoadedFor(q, v)', LoadedFor(p, v)'
        PROVE  q = p
      BY <2>5 DEF LoadedFor, LoadedTwice
  <2>6. vendors'[v].paid <= Worth(Settled(v))'
      BY <1>1, <2>2, <2>4 DEF VendorOK
  <2>7. ASSUME NEW q \in Requests, LoadedFor(q, v)' PROVE seen'[q].paid <= Worth(Settled(v))'
      BY <2>2, <2>3, <2>4, <2>7 DEF VendorOK
  <2>8. ASSUME v \notin overlapped'
        PROVE  TotalsExact(v)' /\ \A q \in Requests : LoadedFor(q, v)' => seen'[q] = vendors'[v]
    <3>1. TotalsExact(v) /\ \A q \in Requests : LoadedFor(q, v) => seen[q] = vendors[v]
        BY <2>4, <2>8 DEF VendorOK
    <3>. QED BY <1>1, <2>2, <2>3, <3>1 DEF TotalsExact
  <2>. QED BY <2>5, <2>6, <2>7, <2>8 DEF VendorOK
<1>. QED BY <1>4, <1>5 DEF VendorInv

\* A commit gives at most one expense a status.
LEMMA SubmittedFinite ==
    ASSUME RecordsInv, VendorInv, NEW r \in Requests, Commits(r)
    PROVE  IsFiniteSet(Submitted')
<1>1. PICK s \in Statuses : status' = [status EXCEPT ![Target(r)] = s]
    BY CommitEffect
<1>2. Submitted' \subseteq Submitted \cup {Target(r)}
    BY <1>1 DEF Submitted, RecordsInv, WorkflowTypeOK
<1>3. IsFiniteSet(Submitted \cup {Target(r)})
    BY FS_AddElement DEF VendorInv
<1>. QED BY <1>2, <1>3, FS_Subset

LEMMA VendorStep ==
    ASSUME RecordsInv, VendorInv, [MCWorkflowNext]_<<workflowVars, overlapped>>
    PROVE  VendorInv'
<1>1. overlapped \subseteq overlapped'
    BY DEF MCWorkflowNext
<1>2. [WorkflowNext]_workflowVars
    BY DEF MCWorkflowNext
<1>3. CASE UNCHANGED <<expenseVars, requestVars>>
  <2>1. UNCHANGED <<status, vendorOf, amount, vendors, job, step, seen>>
      BY <1>3 DEF expenseVars, requestVars
  <2>2. \A q \in Requests, v \in Vendors : LoadedFor(q, v)' => LoadedFor(q, v) /\ seen'[q] = seen[q]
      BY <2>1 DEF LoadedFor, VendorOf, Target
  <2>. QED BY <1>1, <2>1, <2>2, VendorKept
<1>4. ASSUME NEW r \in Requests, Commits(r) PROVE VendorInv'
    BY <1>1, <1>4, SubmittedFinite, CommitVendor DEF VendorInv
<1>5. ASSUME NEW r \in Requests, LoadVendor(r) PROVE VendorInv'
  <2>1. step[r] = "locked" /\ step' = [step EXCEPT ![r] = "loaded"]
      BY <1>5 DEF LoadVendor
  <2>2. step'[r] # step[r]
      BY <2>1 DEF RecordsInv, WorkflowTypeOK
  <2>3. overlapped' = overlapped \cup {v \in Vendors : LoadedTwice(v)'}
      BY <2>2 DEF MCWorkflowNext, workflowVars, requestVars
  <2>. QED BY <1>5, <2>3, LoadVendorKept
<1>6. ASSUME NEW r \in Requests,
             \/ \E j \in SubmitJobs : BeginSubmit(r, j)
             \/ \E j \in ReviewJobs \cup PayJobs : Begin(r, j)
             \/ LockExpense(r) \/ Rollback(r)
      PROVE  VendorInv'
  <2>1. /\ UNCHANGED <<status, vendorOf, amount, vendors>>
        /\ \A q \in Requests \ {r} : job'[q] = job[q] /\ step'[q] = step[q] /\ seen'[q] = seen[q]
        /\ step'[r] # "loaded"
      BY <1>6
         DEF BeginSubmit, Begin, LockExpense, Rollback, Finish, expenseVars, RecordsInv,
             WorkflowTypeOK
  <2>2. \A q \in Requests, v \in Vendors : LoadedFor(q, v)' => LoadedFor(q, v) /\ seen'[q] = seen[q]
      BY <2>1 DEF LoadedFor, VendorOf, Target
  <2>. QED BY <1>1, <2>1, <2>2, VendorKept
<1>. QED BY <1>2, <1>3, <1>4, <1>5, <1>6, WorkflowCases

\* The totals kept by hand over submissions, rejections and payments are the sums of a
\* vendor's open and paid expenses unless two requests had its row loaded at once; and
\* no overlap ever shows it as paid more than it was.
THEOREM TotalsAreKept == MCWorkflowSpec => []VendorTotals
<1>1. MCWorkflowSpec => WorkflowSpec
  <2>1. [MCWorkflowNext]_<<workflowVars, overlapped>> => [WorkflowNext]_workflowVars
      BY DEF MCWorkflowNext
  <2>. QED BY <2>1, PTL DEF MCWorkflowSpec, MCWorkflowInit, WorkflowSpec
<1>2. MCWorkflowInit => VendorInv
  <2>. SUFFICES ASSUME MCWorkflowInit PROVE VendorInv
      OBVIOUS
  <2>1. \A v \in Vendors : Owed(v) = {} /\ Settled(v) = {} /\ vendors[v] = [pending |-> 0, paid |-> 0]
      BY DEF MCWorkflowInit, WorkflowInit, Owed, Settled
  <2>2. Worth({}) = 0
    <3>1. Rupees(amount, {}) = {}
        BY DEF Rupees
    <3>. QED BY <3>1, FS_EmptySet DEF Worth
  <2>3. Submitted = {} /\ IsFiniteSet({})
      BY FS_EmptySet DEF MCWorkflowInit, WorkflowInit, Submitted
  <2>4. \A r \in Requests, v \in Vendors : ~LoadedFor(r, v)
      BY DEF MCWorkflowInit, WorkflowInit, LoadedFor
  <2>. QED BY <2>1, <2>2, <2>3, <2>4 DEF VendorInv, VendorOK, TotalsExact
<1>3. RecordsInv /\ VendorInv /\ [MCWorkflowNext]_<<workflowVars, overlapped>> => VendorInv'
    BY VendorStep
<1>4. VendorInv => VendorTotals
    BY DEF VendorInv, VendorOK, VendorTotals
<1>. QED BY <1>1, <1>2, <1>3, <1>4, RecordsInvariant, PTL DEF MCWorkflowSpec

=============================================================================
