--------------------------- MODULE LedgerSessions ---------------------------
(***************************************************************************)
(* The ledger under concurrent web requests.  Ledger takes every service   *)
(* call as one step; here a call is the sequence of statements it sends to *)
(* PostgreSQL at READ COMMITTED, and several requests run at once:         *)
(*                                                                         *)
(*   begin -> lock the source row -> insert a row that references the      *)
(*   account -> lock the account -> insert the transaction -> commit       *)
(*                                                                         *)
(* with the steps a kind of request does not have left out.  The variables *)
(* of Ledger are the committed tables; what a request has read or inserted *)
(* stays in its own variables until its commit, and a rollback (an         *)
(* exception, a deadlock victim, a lost worker) forgets it.                *)
(*                                                                         *)
(* An ORM session keeps the objects it has loaded: a later SELECT ... FOR  *)
(* UPDATE of the same row waits for the lock and leaves the loaded values  *)
(* as they were.  "loaded" is the balance of the request's Account object. *)
(***************************************************************************)
EXTENDS Ledger

CONSTANTS
    Requests,  \* web requests being served
    Kinds      \* the kinds of request that arrive

\* record_income is called with these source modules, each for a new record.
IncomeKinds == {"DONATION", "INCOME", "SPONSORSHIP_PAYMENT", "MEMBER_CONTRIBUTION_PAYMENT",
                "CONTRIBUTION_RECEIPT"}

PostingKinds == IncomeKinds \cup {"EXPENSE"}

\* Handlers that load the Account object before _lock_account does.
PreloadingKinds == {"EXPENSE", "SPONSORSHIP_PAYMENT", "MEMBER_CONTRIBUTION_PAYMENT",
                    "CONTRIBUTION_RECEIPT"}

\* Handlers that first insert a row with a foreign key to the account, which
\* takes a KEY SHARE lock on the account's row.
ReferencingKinds == {"INCOME", "SPONSORSHIP_PAYMENT", "MEMBER_CONTRIBUTION_PAYMENT",
                     "CONTRIBUTION_RECEIPT"}

ASSUME SessionsAssumption ==
    /\ Kinds \subseteq PostingKinds \cup
          {"CORRECTION", "OPENING", "RECONCILIATION", "RESOLUTION"}
    /\ NoRecord \notin Int
    /\ NoRef \notin ReversalRefs
    /\ \A s \in Sources : s[1] \in PostingKinds

VARIABLES
    job,     \* what each request was asked to do
    step,    \* the next statement it sends
    loaded,  \* current_balance of its Account object, NoRecord until it has one; for
             \* a reconciliation, what it has added up so far
    rowId    \* the transaction row it has inserted and not committed

sessionVars == <<opening, current, txns, recs, job, step, loaded, rowId>>

\* A contribution receipt posted without a reference uses its own.
PostingJobs ==
    {j \in [kind : Kinds \cap PostingKinds, account : ActiveAccounts, amount : Amounts,
            source : Sources, ref : Refs \cup {NoRef}] :
        j.source[1] = j.kind /\ (j.kind = "CONTRIBUTION_RECEIPT" => j.ref # NoRef)}

CorrectionJobs == [kind : Kinds \cap {"CORRECTION"}, target : TxnIds]

OpeningJobs == [kind : Kinds \cap {"OPENING"}, account : ActiveAccounts, new : Openings]

Jobs == PostingJobs \cup CorrectionJobs \cup OpeningJobs

ReconciliationJobs == [kind : Kinds \cap {"RECONCILIATION"}, account : ActiveAccounts,
                       date : Dates, statement : Statements]

ResolutionJobs == [kind : Kinds \cap {"RESOLUTION"}, account : Accounts, date : Dates]

\* A row of reconciliation_records.
RecordRows == [book : Int, statement : Statements,
               status : {"MATCHED", "ADJUSTMENT_REQUIRED", "RESOLVED"}]

\* NULL is no job and no row.
ASSUME NullAssumption ==
    /\ NoRecord \notin Jobs \cup ReconciliationJobs \cup ResolutionJobs
    /\ NoRecord \notin RecordRows

TypeOf(kind) == IF kind = "EXPENSE" THEN "EXPENSE" ELSE "INCOME"

AccountOf(r) == IF job[r].kind = "CORRECTION" THEN txns[job[r].target].account ELSE job[r].account

-----------------------------------------------------------------------------
(***************************************************************************)
(* Row locks, read off from how far each request has come.                 *)
(***************************************************************************)
\* Mutant: a request has a share of the source row before it asks to lock it.
AtAccountWithShare(r) == step[r] \in {"source", "account", "locked", "inserted"}

\* The request is past its first lock.
AtAccount(r) == step[r] \in {"account", "locked", "inserted"}

HoldsUpdate(r, a) == step[r] \in {"locked", "inserted"} /\ AccountOf(r) = a

HoldsKeyShare(r, a) == AtAccount(r) /\ job[r].kind \in ReferencingKinds /\ AccountOf(r) = a

Others(r) == Requests \ {r}

\* FOR KEY SHARE waits for FOR UPDATE; FOR UPDATE waits for either.
CanKeyShare(r, a) == \A q \in Others(r) : ~HoldsUpdate(q, a)

CanUpdate(r, a) == \A q \in Others(r) : ~HoldsUpdate(q, a) /\ ~HoldsKeyShare(q, a)

\* Two requests whose first lock is on the same row: the expense being paid, or
\* the transaction being reversed.
SameSource(r, q) ==
    \/ job[r].kind = "EXPENSE" /\ job[q].kind = "EXPENSE" /\ job[r].source = job[q].source
    \/ job[r].kind = "CORRECTION" /\ job[q].kind = "CORRECTION" /\ job[r].target = job[q].target

CanLockSource(r) == \A q \in Others(r) : ~(AtAccount(q) /\ SameSource(r, q))

-----------------------------------------------------------------------------
SessionsInit ==
    /\ Init
    /\ job = [r \in Requests |-> NoRecord]
    /\ step = [r \in Requests |-> "idle"]
    /\ loaded = [r \in Requests |-> NoRecord]
    /\ rowId = [r \in Requests |-> NoTxn]

Load(r, a) == loaded' = [loaded EXCEPT ![r] = current[a]]

GoTo(r, s) == step' = [step EXCEPT ![r] = s]

\* The record an income stands for is created by the request itself; an expense
\* exists already, and so does the row a correction names.
Unused(s) ==
    /\ \A t \in Recorded : txns[t].source # s
    /\ \A q \in Requests : step[q] # "idle" /\ job[q].kind \in PostingKinds => job[q].source # s

\* The first statements of a handler, up to the first lock it asks for.
Begin(r, j) ==
    /\ step[r] = "idle"
    /\ j.kind \in IncomeKinds => Unused(j.source)
    /\ j.kind = "CORRECTION" => j.target \in Recorded
    /\ job' = [job EXCEPT ![r] = j]
    /\ IF j.kind \in IncomeKinds \cap PreloadingKinds
       THEN Load(r, j.account) ELSE UNCHANGED loaded
    /\ GoTo(r, IF j.kind \in {"EXPENSE", "CORRECTION"} THEN "source"
               ELSE IF j.kind \in ReferencingKinds THEN "child" ELSE "account")
    /\ UNCHANGED <<opening, current, txns, recs, rowId>>

\* Mutant: pay_expense reads the expense without FOR UPDATE.
LockSourceUnlocked(r) ==
    /\ step[r] = "source"
    /\ IF job[r].kind = "EXPENSE"
       THEN /\ \A t \in Recorded : txns[t].source # job[r].source
            /\ Load(r, job[r].account)
       ELSE /\ ~IsReversed(job[r].target)
            /\ txns[job[r].target].type \in {"INCOME", "EXPENSE"}
            /\ UNCHANGED loaded
    /\ GoTo(r, "account")
    /\ UNCHANGED <<opening, current, txns, recs, job, rowId>>

\* pay_expense locks the expense, checks that it has not been paid, and loads the
\* account; reverse_transaction locks the row it reverses and checks it.
LockSource(r) ==
    /\ step[r] = "source"
    /\ CanLockSource(r)
    /\ IF job[r].kind = "EXPENSE"
       THEN /\ \A t \in Recorded : txns[t].source # job[r].source
            /\ Load(r, job[r].account)
       ELSE /\ ~IsReversed(job[r].target)
            /\ txns[job[r].target].type \in {"INCOME", "EXPENSE"}
            /\ UNCHANGED loaded
    /\ GoTo(r, "account")
    /\ UNCHANGED <<opening, current, txns, recs, job, rowId>>

\* The Income, payment or receipt row; its foreign key locks the account's row.
InsertChild(r) ==
    /\ step[r] = "child"
    /\ CanKeyShare(r, job[r].account)
    /\ GoTo(r, "account")
    /\ UNCHANGED <<opening, current, txns, recs, job, loaded, rowId>>

\* What the handler checks once it has the account, against committed rows.
Checked(r) ==
    /\ job[r].kind \in PostingKinds => ~IsDuplicate(job[r].source, job[r].ref)
    /\ job[r].kind = "CORRECTION" => \A t \in Recorded : txns[t].ref # ReversalRef(job[r].target)
    /\ job[r].kind = "OPENING" => ~HasResolved(job[r].account) /\ job[r].new # opening[job[r].account]

\* Mutant: the account is read without FOR UPDATE.
LockAccountUnlocked(r) ==
    /\ step[r] = "account"
    /\ AccountOf(r) \in ActiveAccounts
    /\ Checked(r)
    /\ IF loaded[r] = NoRecord THEN Load(r, AccountOf(r)) ELSE UNCHANGED loaded
    /\ GoTo(r, "locked")
    /\ UNCHANGED <<opening, current, txns, recs, job, rowId>>

\* _lock_account: an Account object the session already has is not refreshed.
LockAccount(r) ==
    /\ step[r] = "account"
    /\ CanUpdate(r, AccountOf(r))
    /\ AccountOf(r) \in ActiveAccounts
    /\ Checked(r)
    /\ IF loaded[r] = NoRecord THEN Load(r, AccountOf(r)) ELSE UNCHANGED loaded
    /\ GoTo(r, "locked")
    /\ UNCHANGED <<opening, current, txns, recs, job, rowId>>

RefOf(r) == IF job[r].kind = "CORRECTION" THEN ReversalRef(job[r].target) ELSE job[r].ref

InFlight(q) == step[q] = "inserted"

\* uq_transactions_external_ref and uq_transactions_active_source: an equal
\* committed row fails the insert, an equal row of another request makes it wait.
IndexFree(r) ==
    /\ RefOf(r) # NoRef =>
          /\ \A t \in Recorded : txns[t].ref # RefOf(r)
          /\ \A q \in Others(r) : InFlight(q) => RefOf(q) # RefOf(r)
    /\ job[r].kind \in PostingKinds =>
          /\ \A t \in Recorded : txns[t].source = job[r].source => IsReversed(t)
          /\ \A q \in Others(r) :
                InFlight(q) /\ job[q].kind \in PostingKinds => job[q].source # job[r].source

\* Flush of the new Transaction.
InsertRow(r, t) ==
    /\ step[r] = "locked"
    /\ job[r].kind # "OPENING"
    /\ t \in TxnIds \ Recorded
    /\ \A q \in Requests : rowId[q] # t
    /\ IndexFree(r)
    /\ rowId' = [rowId EXCEPT ![r] = t]
    /\ GoTo(r, "inserted")
    /\ UNCHANGED <<opening, current, txns, recs, job, loaded>>

\* Mutant: a request that ends keeps what it was asked to do.
FinishKeepsJob(r) ==
    /\ job' = job
    /\ loaded' = [loaded EXCEPT ![r] = NoRecord]
    /\ rowId' = [rowId EXCEPT ![r] = NoTxn]
    /\ GoTo(r, "idle")

Finish(r) ==
    /\ job' = [job EXCEPT ![r] = NoRecord]
    /\ loaded' = [loaded EXCEPT ![r] = NoRecord]
    /\ rowId' = [rowId EXCEPT ![r] = NoTxn]
    /\ GoTo(r, "idle")

\* The balance is written as a value computed from the loaded one.
CommitPosting(r) ==
    LET j == job[r] IN
    /\ step[r] = "inserted"
    /\ j.kind \in PostingKinds
    /\ current' = [current EXCEPT ![j.account] = loaded[r] + Signed(TypeOf(j.kind), j.amount)]
    /\ txns' = Insert(txns, rowId[r],
                      NewTransaction(TypeOf(j.kind), j.account, j.amount, j.source, j.ref))
    /\ Finish(r)
    /\ UNCHANGED <<opening, recs>>

CommitCorrection(r) ==
    LET o == txns[job[r].target] IN
    /\ step[r] = "inserted"
    /\ job[r].kind = "CORRECTION"
    /\ current' = [current EXCEPT ![o.account] = loaded[r] - Signed(o.type, o.amount)]
    /\ txns' = WithReversal(txns, job[r].target, rowId[r])
    /\ Finish(r)
    /\ UNCHANGED <<opening, recs>>

\* The opening balance was loaded with the account, under its lock, and nothing
\* else writes it.
CommitOpening(r) ==
    LET j == job[r] IN
    /\ step[r] = "locked"
    /\ j.kind = "OPENING"
    /\ opening' = [opening EXCEPT ![j.account] = j.new]
    /\ current' = [current EXCEPT ![j.account] = loaded[r] + (j.new - opening[j.account])]
    /\ Finish(r)
    /\ UNCHANGED <<txns, recs>>

\* Any exception, a refused check, a deadlock or a lost worker: nothing is written.
Rollback(r) ==
    /\ step[r] # "idle"
    /\ Finish(r)
    /\ UNCHANGED <<opening, current, txns, recs>>

\* reconcile_account reads the account, then the rows, then writes its record, and
\* takes no lock but the KEY SHARE of the record's foreign key.
BeginReconciliation(r, j) ==
    /\ step[r] = "idle"
    /\ recs[j.account][j.date] = NoRecord
    /\ job' = [job EXCEPT ![r] = j]
    /\ loaded' = [loaded EXCEPT ![r] = opening[j.account]]
    /\ GoTo(r, "rows")
    /\ UNCHANGED <<opening, current, txns, recs, rowId>>

AddUpRows(r) ==
    LET a == job[r].account IN
    /\ step[r] = "rows"
    /\ loaded' = [loaded EXCEPT ![r] =
                     @ + Total(Unreversed("INCOME", a)) - Total(Unreversed("EXPENSE", a))]
    /\ GoTo(r, "record")
    /\ UNCHANGED <<opening, current, txns, recs, job, rowId>>

\* Mutant: the unique constraint on account and statement date is missing.
CommitReconciliationTwice(r) ==
    LET j == job[r] IN
    /\ step[r] = "record"
    /\ j.kind = "RECONCILIATION"
    /\ CanKeyShare(r, j.account)
    /\ recs' = [recs EXCEPT ![j.account][j.date] =
                  [book |-> loaded[r], statement |-> j.statement,
                   status |-> IF j.statement = loaded[r] THEN "MATCHED" ELSE "ADJUSTMENT_REQUIRED"]]
    /\ Finish(r)
    /\ UNCHANGED <<opening, current, txns>>

CommitReconciliation(r) ==
    LET j == job[r] IN
    /\ step[r] = "record"
    /\ j.kind = "RECONCILIATION"
    /\ CanKeyShare(r, j.account)
    /\ recs[j.account][j.date] = NoRecord
    /\ recs' = [recs EXCEPT ![j.account][j.date] =
                  [book |-> loaded[r], statement |-> j.statement,
                   status |-> IF j.statement = loaded[r] THEN "MATCHED" ELSE "ADJUSTMENT_REQUIRED"]]
    /\ Finish(r)
    /\ UNCHANGED <<opening, current, txns>>

\* resolve_reconciliation reads the record without a lock and writes its status.
BeginResolution(r, j) ==
    /\ step[r] = "idle"
    /\ recs[j.account][j.date] # NoRecord
    /\ recs[j.account][j.date].status # "RESOLVED"
    /\ recs[j.account][j.date].statement = recs[j.account][j.date].book
    /\ job' = [job EXCEPT ![r] = j]
    /\ GoTo(r, "record")
    /\ UNCHANGED <<opening, current, txns, recs, loaded, rowId>>

CommitResolution(r) ==
    /\ step[r] = "record"
    /\ job[r].kind = "RESOLUTION"
    /\ recs' = [recs EXCEPT ![job[r].account][job[r].date].status = "RESOLVED"]
    /\ Finish(r)
    /\ UNCHANGED <<opening, current, txns>>

Reconciliation(r) ==
    \/ \E j \in ReconciliationJobs : BeginReconciliation(r, j)
    \/ \E j \in ResolutionJobs : BeginResolution(r, j)
    \/ AddUpRows(r) \/ CommitReconciliation(r) \/ CommitResolution(r)

Work(r) ==
    \/ \E j \in Jobs : Begin(r, j)
    \/ LockSource(r) \/ InsertChild(r) \/ LockAccount(r)
    \/ \E t \in TxnIds : InsertRow(r, t)
    \/ CommitPosting(r) \/ CommitCorrection(r) \/ CommitOpening(r)
    \/ Rollback(r)

SessionsNext == \E r \in Requests : Work(r) \/ Reconciliation(r)

SessionsSpec == SessionsInit /\ [][SessionsNext]_sessionVars

-----------------------------------------------------------------------------
\* The committed tables and every request's private state have their shape.
SessionsTypeOK ==
    /\ TypeOK
    /\ job \in [Requests -> Jobs \cup ReconciliationJobs \cup ResolutionJobs \cup {NoRecord}]
    /\ step \in [Requests -> {"idle", "source", "child", "account", "locked", "inserted",
                              "rows", "record"}]
    /\ loaded \in [Requests -> Int \cup {NoRecord}]
    /\ rowId \in [Requests -> TxnIds \cup {NoTxn}]
    /\ \A r \in Requests : (step[r] = "idle" <=> job[r] = NoRecord)

\* As long as every handler takes the account's balance under its lock, requests
\* running together can only do what the same calls do one after the other.
ImplementsLedger == Spec

\* An expense is paid, and an income recorded, by at most one row for all time,
\* even when the first row has been reversed: pay_expense refuses an expense that
\* is no longer APPROVED, and two requests for one expense queue on its row.
PostedOnce ==
    \A t, u \in Recorded :
        txns[t].source # NoSource /\ txns[t].source = txns[u].source => t = u

WaitsForAccount(r, q) ==
    /\ q # r
    /\ \/ step[r] = "child" /\ HoldsUpdate(q, AccountOf(r))
       \/ step[r] = "account" /\ (HoldsUpdate(q, AccountOf(r)) \/ HoldsKeyShare(q, AccountOf(r)))
       \/ step[r] = "record" /\ job[r].kind = "RECONCILIATION" /\ HoldsUpdate(q, AccountOf(r))

WaitsFor(r, q) ==
    \/ WaitsForAccount(r, q)
    \/ q # r /\ step[r] = "source" /\ AtAccount(q) /\ SameSource(r, q)
    \/ /\ q # r
       /\ step[r] = "locked" /\ job[r].kind # "OPENING"
       /\ InFlight(q) /\ RefOf(r) # NoRef /\ RefOf(q) = RefOf(r)

\* Requests can only wait in a circle on one account two of them reference from a
\* row they have inserted, each asking to turn its KEY SHARE lock into FOR UPDATE.
\* Source rows, external references and different accounts never close a circle.
DeadlockOnlyByUpgrade ==
    \A S \in SUBSET Requests :
        S # {} /\ (\A r \in S : \E q \in S : WaitsFor(r, q)) =>
            \E r, q \in S :
                /\ WaitsForAccount(r, q) /\ WaitsForAccount(q, r)
                /\ HoldsKeyShare(r, AccountOf(r)) /\ HoldsKeyShare(q, AccountOf(r))

\* What a reconciliation found is never overwritten, not by a second reconciliation
\* of the same statement running beside it, and a resolved one stays resolved.
ReconciliationsStand ==
    [][\A a \in Accounts, d \in Dates : recs[a][d] # NoRecord =>
          \/ recs'[a][d] = recs[a][d]
          \/ recs'[a][d] = [recs[a][d] EXCEPT !.status = "RESOLVED"]
             /\ recs[a][d].status = "MATCHED"]_sessionVars

=============================================================================
