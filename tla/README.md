# MandalFinance in TLA+

MandalFinance is a Flask application in which the officers of a festival committee (a
mandal) keep its money: donations, other income, sponsorships, expenses, budgets, documents
and reconciliations, all posted to one central ledger. Handlers run in several web workers
against PostgreSQL at its default isolation level, READ COMMITTED; the test suite runs them
one at a time against SQLite, where row locks are switched off. The specifications here are
about what those tests do not reach: requests that overlap, long histories of legal calls,
and the agreement of the several places that keep or compute the same amount.

Paths are relative to the repository; `services/` stands for `app/services/`, and so on.

## 1. Inventory

| Component | State it keeps | Operations | What makes it correct |
|---|---|---|---|
| Central ledger (`services/ledger_service.py`, `models/ledger.py`) | accounts with an opening and a stored balance; transactions, linked to their reversal | record income or expense, reverse, sum up | stored balance = derived balance; rows permanent; reversals paired; no record posted twice |
| Account balances (`services/account_balance_service.py`) | `Account.opening_balance` | adjust an opening balance | moves the stored balance by the difference; not after a resolved reconciliation |
| Reconciliation records (`services/financial_controls_service.py`) | one record per account and statement date | reconcile, resolve | resolved only without a difference, and then final |
| Reconciliation lines (`services/reconciliation_service.py`) | statement lines, each matched to a transaction | import, match, finalize | one line per transaction, none left unmatched when finalized |
| Expenses (`services/expense_service.py`) | expense, its approvals, the vendor's totals | submit, approve, reject, pay | second person decides; paid after approval, once; history complete |
| Corrections (`services/financial_controls_service.py`) | correction requests | request, review | applied once, by a second person, together with the reversal |
| Other income, offline donations | one row and one posting | record | both or neither |
| Online donations (`routes/public.py`, `routes/webhooks.py`, `services/payment_gateway.py`) | donation with gateway order and payment | order, confirm, two webhooks | a captured payment is posted once, whatever the order of messages |
| Sponsorships and member contributions (`services/contribution_service.py`, receipts in `services/financial_controls_service.py`) | commitment, received and pending totals, payments | create, pay, receipt | received = sum of payments, never above the commitment |
| Event and year guard and administration (`services/financial_guard.py`, `routes/admin.py`, `models/mandal.py`) | status of events and years | create, close, lock, activate, check at each flush | nothing changes in a closed event; nothing reopens; one active event |
| Budgets (`services/budget_service.py`, `routes/budgets.py`) | limits, actual figures, revision, approver | manage, approve, revise, recalculate | actuals are sums of the ledger; what is approved is what the approver saw, and the approver is another officer |
| Documents and evidence (`services/document_service.py`) | documents and versions | upload, replace, verify, evidence pack | version chain without gaps or doubles; every row has its file; no alarm without a cause |
| Users and roles (`routes/auth.py`, `routes/admin.py`, `services/rbac_guard.py`) | users, roles, permissions | register, review, log in, assign, edit, delete | only who was approved may act; users hold the roles chosen for them |
| Audit log (`services/audit_service.py`, `models/audit.py`) | append-only rows | log | same transaction as what it records |
| Reports, PDF, dashboards, health, logging, configuration | none | read | print what the ledger says |

How they interact. Every component that moves money calls `LedgerService.record_*` with
`commit=False` inside its own transaction, so that the source record, the posting, the
balance and the audit row stand or fall together. They share three things: the account row
(locked by `_lock_account`), the unique indexes of `transactions`, and the event row, which
everybody reads and nobody locks. Nothing is sent between workers; the only asynchronous
messages come from the payment gateway. Documents are the one component with state outside
the database: the object store takes part in no transaction.

The hard behaviours, each with its line in `PROJECT.json` under `hazards`:

* An ORM session does not refresh an object it already holds. A handler that loads the
  account and then locks it waits for the lock and continues with the old balance.
* A foreign key takes a KEY SHARE lock on its parent, which FOR UPDATE waits for.
* Checks and the writes they protect lie apart (event status, reconciliation, outstanding
  amount, version number).
* The mapper's UPDATE names only the columns whose value differs from the loaded one, so that
  two requests on one row can leave a mixture of what each of them computed.
* Amounts are kept twice: stored and derived balances, vendor totals, contribution totals,
  budget actuals.
* A file is stored before its row is committed and deleted when the commit fails; a worker
  may be lost in between.

## 2. Modules

| Module | What it models |
|---|---|
| `Ledger` | one call at a time of the ledger, opening-balance and reconciliation services; the abstract specification of the next |
| `LedgerSessions` | the same services as statements of concurrent requests; extends `Ledger` and implements it under a condition |
| `ExpenseLifecycle` | what the expense service promises of an expense, one call a step |
| `ExpenseWorkflow` | the expense service as statements of concurrent requests, beside the closing of the event; implements `ExpenseLifecycle` |
| `OnlineDonation` | an online donation from its order to the ledger, with the payment gateway as environment |
| `WebRequests` | what the next seven share: requests with a session, what it has loaded, and the mapper's write |
| `Contributions` | sponsorships and member contributions with their totals, paid by unlocked payments and locked receipts |
| `CorrectionLifecycle` | what the service promises of a correction, one call a step |
| `Corrections` | correction requests from the officer who asks to the reversal; implements `CorrectionLifecycle` |
| `StatementLines` | bank statement lines: import, match, finalize and resolve |
| `Budgets` | the budget of an event: entry, recalculation, approval, revision |
| `FinancialPeriod` | years and events: creation, activation, closing, locking, and the flush guard |
| `Access` | registration and its review, sessions, roles and permissions |
| `Documents` | documents, versions and evidence packs in the database, files in the store |
| `MCLedger`, `MCExpenseWorkflow`, `MCOnlineDonation` | values of the constants, symmetry and observers |
| `MCLedgerSessions` | the same for `LedgerSessions`, and its two regimes: only locking handlers, or preloading ones and reconciliations too |
| `MCBooks` | `Ledger` and `OnlineDonation` in one run, one desk each |
| `MCOffice` | the seven modules built on `WebRequests` in one run, one desk each |
| `LedgerProofs`, `SessionsProofs`, `ExpenseProofs`, `DonationProofs`, `DocumentsProofs` | theorems about the modules they are named for |
| `PostingsProofs` | theorems about `Contributions`, `Corrections` and `StatementLines` |
| `AdministrationProofs` | theorems about `FinancialPeriod`, `Budgets` and `Access` |
| `OfficeProofs` | the same promises in `MCOffice`, whichever desk is at work |

`LedgerSessions` extends `Ledger` and implements it; `ExpenseWorkflow` implements
`ExpenseLifecycle`, and `Corrections` implements `CorrectionLifecycle`; `MCOffice` extends the
seven modules built on `WebRequests`. A component whose handlers also post to the ledger is
modelled twice, each time with the rows that matter: its own rows in its module, the account
in `LedgerSessions`.

**Ledger.** `opening`, `current`, `txns` and `recs` are the columns and tables of the same
names. A row keeps its type, account, amount, source (module and id together), external
reference and reversal link; descriptions, dates and payment modes decide nothing and are
left out. Amounts are whole paise, as `Numeric(15, 2)` is after `_normalize_amount`; its
refusal of zero and negative amounts is `Amounts`. `RecordIncome`, `RecordExpense`,
`ReverseTransaction`, `AdjustOpeningBalance`, `ReconcileAccount` and `ResolveReconciliation`
are the service methods; a guard that fails is an exception, after which nothing has
changed. `Total` writes a sum without recursion, as the number of pairs of a row and a paisa
below its amount, so that it can be reasoned about with the library's theorems on
cardinality. `ExpectedBalance` is `get_account_reconciliation`, `BookBalance` the loop of
`reconcile_account` without a period. Accounts are only created by the seed script, with
equal opening and stored balance (`Init`), and nothing in the application deactivates one.

**LedgerSessions.** A request has a kind, which fixes the statements it sends:

| Kind | Handler | Source row lock | Loads the account | References the account first |
|---|---|---|---|---|
| `EXPENSE` | `pay_expense` | expense | before the lock | no |
| `CORRECTION` | `review_correction` with `reverse_transaction` | transaction | under the lock | no |
| `INCOME` | `IncomeService.record_income` | | under the lock | yes |
| `DONATION` | `record_offline_donation` | | under the lock | no |
| `SPONSORSHIP_PAYMENT`, `MEMBER_CONTRIBUTION_PAYMENT` | `ContributionService` | | before the lock | yes |
| `CONTRIBUTION_RECEIPT` | `create_contribution_receipt` | | before the lock | yes |
| `OPENING` | `adjust_opening_balance` | | under the lock | no |
| `RECONCILIATION`, `RESOLUTION` | `reconcile_account`, `resolve_reconciliation` | | no lock | when it writes its record |

The variables of `Ledger` are the committed tables. `loaded` is the balance of the request's
`Account` object, which `LockAccount` leaves alone when the request already has one. Locks
are read off from how far each request has come; `IndexFree` is the two unique indexes,
which refuse an equal committed row and wait for an equal row in flight. `CommitPosting`,
`CommitCorrection` and `CommitOpening` write a value computed from `loaded`, as the ORM's
UPDATE does. `Rollback` stands for every exception, the victim of a deadlock and a worker
that dies: PostgreSQL then undoes everything. The lock a receipt or sponsorship handler takes
on its commitment, and checks that can only refuse a call (evidence, categories, form
validation), are left out: a refusal is a `Rollback`.

**ExpenseWorkflow.** A handler locks the expense (`LockExpense`, with the checks that follow
it), reads the vendor without a lock (`LoadVendor`) and writes everything in one commit.
`history` is the approvals table, `ledger` the rows a payment posts; the account side of a
payment is `LedgerSessions`. `CloseEvent` and `LockEvent` write the event beside the
requests. Status `UNDER_REVIEW` is in the table's check constraint and never assigned.

**OnlineDonation.** `Create` is `public_donate`. `Attempt`, `FailPayment` and `CapturePayment`
are the gateway: several payments may be tried on one order, one is captured, and every
outcome becomes messages in `sent`, to be delivered any number of times in any order until
`acked`, the set of those answered with 200. `Begin` is the first, unlocked read of a
handler: the donor's confirmation page (`via` is `"browser"`), the capture webhook of
`routes/public.py` or the failure webhook of `routes/webhooks.py`; `Dismiss` is a webhook
that answers 200 at once. `LockDonation` is the `FOR UPDATE` of `confirm_online_donation`,
whose status tests see the object the handler loaded and therefore never fire; what protects
the ledger are the queries for the event id and the reference, the duplicate check of the
ledger service and the unique index (`AlreadyProcessed`). `PostDonation` commits the donation
with its row. `FailDonation` writes what the failure webhook decided on the status it read.
`RecordByHand` and `Reverse` are officers at work meanwhile. The donation's creator, which
`public_donate` leaves NULL and the ledger requires, is the constant `Creators`: `books` and
the theorems let it also be a user, a superset of what the code does under which every other
step is reachable, and the two refutations, `donation_recorded` and `donation_dropped`, take
the code's own value. Of `routes/webhooks.py` only the branch of `payment.failed` is a step:
for `payment.captured` it answers 200, writes an audit row and posts nothing, so a capture
that the gateway reports there and not to `routes/public.py` is, for the ledger, never
reported. The model has every capture message go to `routes/public.py`.

**WebRequests.** `job` is what a request was asked, `step` how far its handler is, `seen` the
rows its session has loaded: a handler writes what it computed from `seen`, not from the
tables of that moment. `Arrive`, `Advance` and `Finish` are the moves of every handler; a
row lock is held from a step to `Finish` and `Free` reads it off the steps of the others.
`Written` is the mapper's UPDATE: a column whose new value is the loaded one is not named,
and keeps what another request has committed. `Abandon` is every failed check, database
error or lost worker: the session is rolled back.

**Contributions.** `LoadCommitment`, `InsertPayment`, `CommitPayment` are
`record_sponsorship_payment` and `record_member_payment`, which lock nothing but the foreign
key of the payment's row; `LockCommitment`, `CommitReceipt` are
`create_contribution_receipt`, which locks the commitment. `posted` is the sum of the
payment and of the receipt rows. A member's target may be zero or negative, as the form
allows.

**Corrections.** `CheckRow`, `CommitRequest` are the request; the notification of the
administrators that should follow in a commit of its own fails before it writes anything,
because the route asks `type(current_user)`, the type of a proxy, for its `query`
(`routes/financial_controls.py:178`), and is left out. `LockForm`, `Decide`, `LockRow`,
`ApplyReversal` are `review_correction` with the locks on the request and on the ledger row,
and the reversal in the same commit as the decision. In `CorrectionLifecycle` each is one step: `Request`, `Reject`, `Approve`, `Apply`. The row is
checked without a lock when a correction is asked for, so `Request` does not promise that the
row still stands; such a request can only be rejected.

**StatementLines.** `import_lines` is `LoadImport` and `CommitImport`, `match_line` is
`LoadLine`, `FindRow`, `CheckUnclaimed`, `CommitMatch`, and `finalize` and
`resolve_reconciliation` are `CountLines` and `LoadResolve` with the write they share. All
lines and rows have one account and one amount. `raced`, `late` and `reviewed` are history:
rows two requests found free at once, lines whose import committed while `finalize` was
between its count and its write or later, and records that `resolve_reconciliation`
resolved, which looks at no line.

**Budgets.** `Manage`, `FlushBudget`, `Recalculate`, `CommitManage`, `CommitAudit` are
`budgets/manage`, whose first query flushes the new limits and so locks the row; `Show` is
`budgets/index`, which writes the actual figure of what it shows; approval and revision load
the row and commit. One limit stands for the limits of a form. `approvedAs`, `everSpent` and
`overlapped` are history.

**FinancialPeriod.** `LoadEvent` with the task is the read of `close_event`, `lock_event`,
`activate_financial_event` and `deactivate_financial_event`, `CommitStatus` and
`CommitActivation` their write; an activation asks for the other active events in a second query (`SeeOthers`).
`LoadForRecord` and `CommitRecord` are any service that writes a record for an event: the
guard before the flush asks `Event.is_editable` of the event the session has loaded.
`crossed` is history: the last activation had not seen every active event.

**Access.** `May` is what the guards let a session do: the session counts while the account
is active, and permissions are asked of the rows of the moment. Assignment, editing and
deletion of roles are the mapper's writes to the association tables (`Fitting`,
`Replaced`), and the database cascades a deletion. `Officers` are the administrators who
review. `approved`, `clashed`, `granted` and `mixed` are history.

**Documents.** `StoreFile` puts a file into the store, `CommitUpload` and `CommitReplacement`
its rows into the database; `FailFile` is the clean-up after a failed commit, `AbandonFile` a
worker lost before it. `store` is the content at each path: a path is fresh for every
upload, since `_object_path` draws a random token, while the same content may be uploaded any
number of times and then has the same hash. A document has its hash, its path and its name as
separate columns, and `CommitReplacement` writes those that differ from the loaded ones
(`Written`): the path always, the hash only if the content is another one than that of the
version the session loaded. `LoadVerify` fetches the file at the path and compares its hash;
where the store returns nothing, nothing is written. `CommitVerify` writes the result to the
row as it was loaded. A pack is stored under its reference
(`StorePack`), which is the number of packs plus one, so that two requests may want one
path. `Damage` is the environment.

## 3. What is checked

| Run | Question | Result |
|---|---|---|
| `books` | Does any history of calls keep stored and derived balances, both derivations, reversals and rows right? However messages are repeated and reordered, is a payment posted once and under its own donation, and when may the gateway stop repeating one that is not posted? | holds; only where the donation had been set FAILED by another attempt |
| `ledger_checkpoint` | Is a resolved statement the balance of its account? | refuted: opening balance adjusted between reconcile and resolve |
| `sessions` | Do overlapping requests that load the balance under its lock act like single calls? With the preloading handlers and overlapping reconciliations too: is a record posted once, are reversals paired, do reconciliations leave each other's records alone, and what can deadlock? | holds; only the KEY SHARE upgrade on one account |
| `sessions_lost_update` | Does a payment beside another posting keep the balance right? | refuted: the loaded balance overwrites that of the posting it waited for |
| `expense_concurrent` | Do overlapping requests act like single calls on an expense, with a complete history, and when are a vendor's totals right? | holds; totals are exact until two requests have the vendor's row loaded at once |
| `expense_cash` | Can an approved expense always be paid in cash without a reference? | refuted: the empty string is unique |
| `expense_closed_event` | Does a closed event freeze its expenses? | refuted: nobody locks the event |
| `donation_dropped` | "Every finalized payment must create exactly one corresponding ledger transaction": is a capture that was answered with 200 posted, and its donation shown as received? | refuted: after a failed attempt the capture of the next one is "not payable" |
| `donation_recorded` | Is a captured payment recorded in the end? | refuted: the posting has no creator and is rolled back each time |
| `office` | Two requests at one of the seven desks: what stays true of commitments, corrections, lines, budgets, events, roles and documents whatever overlaps? | holds, as below |
| `contribution_overpaid` | "Payment cannot exceed the outstanding commitment/target" | refuted: the outstanding amount is read without a lock |
| `lines_resolved` | "A reconciliation cannot be finalized while statement lines are unmatched" | refuted: `resolve_reconciliation` asks for the difference only |

The run `office`, desk by desk, besides the type invariant of all of them (`OfficeTypeOK`):

| Desk | Properties | What they show |
|---|---|---|
| contributions | `TotalsAddUp`, `NeverOverstated`, `ReceiptsExact` | the two totals of a commitment agree with each other and never show money that did not come; the lock makes receipts exact, but only among themselves |
| corrections | `CorrectionsApplyOnce`, `DecisionsStand`, `ImplementsCalls` | many requests for one row and several reviewers still undo it once, a decision is never overwritten, and every commit is one call of `CorrectionLifecycle` |
| lines | `MatchedApart`, `FinalizedIsComplete` | a ledger row explains one line unless two requests found it free at once; a resolved record balances, and one that `finalize` resolved has its lines matched, but for an import that commits between the count and the write, or later. What the other way of resolving leaves open is the refutation `lines_resolved` |
| budgets | `ActualsDerived`, `ApprovedAsShown`, `CreatorNeverApproves` | the actual figure is always one the ledger had; what is approved is what was shown unless a stale row was written back; the creator never is the approver |
| period | `OneActiveEvent`, `NeverReopened`, `FrozenOnceQuiet` | stale writes never reopen anything; a shut event is frozen once the sessions that loaded it before are gone; two activations at once can leave two events active, and nothing else can |
| access | `PowerIsReviewed`, `RolesAsAssigned` | who can act was approved; an approval and a rejection at once can leave a rejected account active, a deletion at once with an assignment can take the role back, and nothing else can |
| documents | `RowsHaveFiles`, `VersionsChain`, `NoFalseAlarm` | no failure of one request takes another's file; the version numbers have no gap, and the document shows the last version unless two share a number; a document is marked unverified only for a changed file, or where overlapping replacements left the hash of one version beside the path of another |

Where a property excepts the behaviours of a history variable, the code gives no more than
that: the property says what else cannot go wrong, and does not catch the race it excepts,
which is listed under `hazards` with a note that says so. Two of the exceptions contradict a
sentence of the repository and have a run that refutes it without the exception
(`donation_dropped` for `DroppedOnlyAfterFailure`, `lines_resolved` for
`FinalizedIsComplete`), besides `contribution_overpaid` and `expense_closed_event`. For the
others (`VendorTotals`, `MatchedApart`, `ApprovedAsShown`, `OneActiveEvent`, `PowerIsReviewed`,
`RolesAsAssigned`, `VersionsChain`, `NoFalseAlarm`) the repository has the check the race
slips through and tests of single calls, and no sentence about requests that overlap.

The exception of `NoFalseAlarm` is a fault of the code. One replacement commits new content
h2 while another, which loaded the document when its content was h1, uploads h1 again: the
second one's UPDATE omits the hash, which it finds unchanged, and writes its own path. The
row then has hash h2 and a path with content h1, and verification marks the document
unverified although nothing in the store has changed. With the exception taken out of
`NoFalseAlarm` TLC finds this in nine steps on the bounds of `office`. `Mixable` is as narrow
as the tables allow: two versions of the document share a number, and two share a content.

The refuted claims quote the repository under `findings` in `PROJECT.json`. The promise that
`ledger_checkpoint` refutes with single calls is also open to a race, in `LedgerSessions`: a
`CommitResolution` between the `Checked` and the `CommitOpening` of an adjustment.

**Bounds.** `MaxPaise`, `MaxAmount` bound amounts; `TxnIds` the rows; `Openings` and
`Statements` the balances a user can type; `sessions` has one statement, which agrees
with some book balances and not with others, and in its second regime one opening balance
and one account, on which a lost update, a double posting and a circle of waits can
happen. Three rows are a posting, its reversal and another posting, the smallest history in which pairing or double counting can go wrong; two
accounts are needed for a reversal on the wrong one and for locks taken in two orders. Two
paise tell an amount from a count. Three requests allow a circle of waits through two
others; two are enough for each lost update. An expense needs two users (a creator and a
reviewer), and two expenses share a vendor. Deadlock is not
checked (`CHECK_DEADLOCK FALSE`) because a finite set of ids is used up; waiting in circles
is the invariant `DeadlockOnlyByUpgrade` instead. Symmetry is over ids, requests, users,
expenses, sources and references, none of which a definition tells apart; the sources of
`MCLedgerSessions` name their module and are not permuted. Two donations, three payments and
two requests give one order a failed and a captured payment beside another donation's, with
a browser and a webhook, or two webhooks, at work on the same payment; repeated delivery
needs no bound, since messages stay in a set. `donation_recorded` needs one of each,
`donation_dropped` two payments. In `books` a behaviour keeps to one of its two desks, which
share no variable, and in `sessions` to one regime.

In `office` a behaviour keeps to one desk (`Desks`), since the seven specifications share no
variable but those of the requests; a product of them would add interleavings of steps that
do not touch. Two requests are enough for a row written over another's. `MaxTarget` 3 and
`MaxPaid` 4 allow a commitment to be overpaid and one payment to come after that;
`MaxRevision` 2 is an approved budget that is changed; three ledger rows are a row, its
reversal and a row to be chosen wrongly; two forms aim at one row; two lines and two rows can
be matched crosswise; two events compete to be active; two contents and three
paths are an upload and two replacements that overlap, one of which brings the first content
again; one damaged file at a time (`Damage`) because each alarm is about one file;
one role is a system role and one is not.
The desks share model values where their sets have the same size (a form is also a line, an
event, a name), so that few permutations serve all; no definition tells the values apart,
and `Symmetry` is used for safety properties only.

**Fairness.** None is assumed in the safety runs: a request may be abandoned at any
statement. `FairSpec` of `OnlineDonation` assumes that the gateway repeats a message until it
is answered with 200 (strong fairness of `Redeliver`, since each delivery disables the next
until the request ends), that a request ends (weak fairness of `Rollback`; web workers have a
time limit), and that a confirmation which can get the lock, or post, again and again does so
once (strong fairness of `LockFor` and `PostFor`, for each payment). Donors and officers owe
nothing. The components of `office` have no fairness and no liveness property: their handlers
are single requests that end or fail, and nothing in the code repeats them. With a creator on
the donation `CapturedIsRecorded` holds for the instance of `donation_recorded`, so that what
refutes it is the missing creator and not a fairness condition left out.

## 4. What is proved

Every invariant and action property that a passing run checks is also a theorem, for any
values of the constants that satisfy the named assumptions; TLC evaluates these on every
run whose module has them. The one temporal property that no theorem states is refuted by its run
(`CapturedIsRecorded`). Each proof has the same shape: an inductive invariant, a lemma that
`Init` implies it, a lemma per action that the step keeps it, and the property as a
consequence. The new inductive invariants were checked by TLC on the bounds of the runs
before they were proved.

*LedgerProofs.* For any accounts, finite set of ids, amounts and histories, and from
`LedgerAssumption` alone: `TypeCorrect`, `ReversalsArePaired`, `StoredBalanceIsDerived`,
`DerivationsAlwaysAgree`, `RowsArePermanent`. Reversal pairing is not inductive without the
types, and the balance needs both: a reversal changes the derived balance through the row it
adds and the link it writes, and only pairing says that the new row takes back exactly the
old one. The argument on sums is that of finite sets: adding a row adds as many paise as its
amount, and taking a row out takes them away; rows left alone keep their totals.

*SessionsProofs.* `SessionsRefineLedger`: if every kind that arrives loads the account under
its lock and the reconciliation services do not run (`Disciplined`), the concurrent
specification implements `Ledger`, for any number of requests. The inductive invariant
`SessionsInv` says what a request knows while it holds its locks: `loaded` is the committed
balance (`LoadedFresh`), what was checked still holds (`CorrectionStands`, `OpeningStands`),
a row in flight is a duplicate of none (`RowFree`), and two requests hold different accounts
and source rows (`Apart`). It fails exactly where `sessions_lost_update` finds the bug: a
preloaded balance is not fresh. `DisciplinedBooksBalance` then inherits the ledger's theorem.
For requests of every kind, preloading ones and the reconciliation services included, a second
inductive invariant, `RunningInv`, gives `SessionsTypeCorrect`, `NothingPostedTwice`,
`ConcurrentReversalsPaired` and `RecordsAlwaysStand`: it drops the freshness of balances and
keeps that no row stands yet for what a request is about to post (`Unposted`), that two
requests never hold one source row nor one id (`RunningApart`), and that a record being
resolved was made without a difference (`ResolutionStands`). So the lost update of
`sessions_lost_update` spoils the stored balance and none of these. `OnlyUpgradesDeadlock` is
the argument of the lock order for any number of requests: sources are locked before the
account and the account before the indexes, so in a set where everyone waits for another of
the set, whoever is waited for is itself waiting for an account, on which it can have no
more than a KEY SHARE lock; two of those wait for each other. It needs no invariant, since
what a request holds and waits for follows from the statement it is at. The proofs use `LedgerAssumption`,
`SessionsAssumption` and `NullAssumption` (NULL is no job and no record).

*ExpenseProofs.* `LocksProtectChecks` is the inductive invariant: a request that holds an
expense has seen its status, and the status still is what the request checked.
`WorkflowRefinesLifecycle` follows: each commit is one call of the life cycle. `RecordsInv`
adds the types and, for the approvals, that the status a request read under its lock is the
status still (`ReadsCurrent`) and that each approval row starts where the one before it
stopped (`Stories`); from it come `WorkflowTypeCorrect` and `HistoryAlwaysChains`.
`TotalsAreKept` is about the vendor's totals, for any number of vendors and of expenses.
A total says nothing of the row a request holds in its session, so `VendorInv` adds it: as
long as no two requests had the vendor's row loaded at once, whoever has it has seen what
the row still says, and is alone; and in every case it has seen no more paid than there is,
which is why a lost update can only leave the paid total too low. The set of submitted
expenses stays finite without `Expenses` being so, which is what makes its sum a number:
`Worth` is a count of rupees, to which the theorems on cardinality apply.

*DonationProofs.* For any donations, payments and requests: `TypeCorrect`,
`PaymentsArePostedOnce`, `SuccessIsPosted`, `DropsAreExplained`. The inductive invariant
`DonationInv` adds to the properties that messages are about payments of an order
(`SentKnown`, `OrdersOpen`), that an order has one captured payment (`OneCapture`), that a
request serves a call that has arrived (`CallsArrived`), and that a stored event id is on the
row of a payment that was posted (`EventsRecorded`): without the last, "already processed"
could acknowledge a payment that is not in the ledger. `DropsAreExplained` says when a capture
is acknowledged and not posted all the same: only where the donation stands FAILED by the
acknowledged report of another attempt at its order.

*PostingsProofs*, for any number of rows and of requests.

* Contributions: `ContribTypeCorrect`, `TotalsAlwaysAddUp`, `NothingInvented`,
  `ReceiptsAreExact`. A handler writes from the row it has loaded, so `ContribInv` speaks of
  that row: its totals add up, it shows no more than what has been paid by now, and under the
  lock it is the row of the table (`LoadedCommitment`); a receipt's lock and a payment's
  foreign key exclude each other (`LocksApart`). From this a stale write still leaves totals
  that add up, and a receipt an exact one.
* Corrections, from `CorrectionAssumption` alone: `CorrectionTypeCorrect`,
  `RowsAreUndoneOnce`, `DecisionsAlwaysStand`. `CorrectionInv` says that what a reviewer has
  found out of the request and of the ledger row stays true (`CorrectionWork`) because no two
  requests hold one of them (`CorrectionsApart`). `CorrectionsRefineCalls` maps each column of
  the requests and the set of reversed rows to `CorrectionLifecycle`: a request's first
  commit, a decision and a reversal are one call each, a lock or a read is none. It needs of
  `CorrectionWork` that the row a reviewer has locked still is an income or an expense that
  nobody has reversed.
* Statement lines, from `LinesAssumption` (NULL is no row): `LinesTypeCorrect`,
  `RowsExplainOneLine`, `ResolvedStaysComplete`. `MatchedApart` alone is not inductive:
  between the query that finds a row unclaimed and the write there is a gap. `FoundFree` is
  what remains true in it: the row is no other line's, nor has another request found it free,
  unless the two raced. `Counted` is the same for a count of lines: the record balances, and
  each line it had is matched or has come late. `ResolvedStaysComplete` is about
  `FinalizedIsComplete`, and so about lines only where `finalize` resolved the record.

*AdministrationProofs*, for any number of rows and of requests.

* Years and events: `PeriodTypeCorrect`, `ActiveEventIsOne`, `NothingReopens`,
  `ShutMeansFrozen`. The two action properties follow from what a step can write: a stale
  request writes a status only by closing or locking.
* Budgets, from `BudgetAssumption` (the bounds are numbers, NULL is no user and no pair of
  figures): `BudgetTypeCorrect`, `ActualsAreDerived`, `ApprovedIsShown`,
  `CreatorsDoNotApprove`. The mapper's write takes columns of two rows, the committed and the
  loaded one, so each property has to hold of the row a session has loaded as well
  (`SeenBudget`): its actual figure is one the ledger had, its creator is the creator of
  today. The last is why nobody approves their own budget although the check is made on a
  stale row: no write names the creator of a budget that exists.
* Access, from `AccessAssumption`: `AccessTypeCorrect`, `ReviewedBeforePower`,
  `AssignmentsStand`. `PowerIsReviewed` asks of sessions only; what is inductive is
  `ActiveIsReviewed`, which asks the same of every active account, together with what a
  handler has loaded (`AccessWork`): a review has loaded a registration that was waiting, a
  deletion a role nobody had.

*DocumentsProofs.* From `DocumentsAssumption`, for any files, documents, packs and requests:
`DocumentsTypeCorrect`, `RecordedFilesStay`, `VersionsAreChained`, `AlarmsAreTrue`.
`DocumentsInv` says that a file between the store and its commit is named by no row and by
no other request (so that the clean-up takes nothing else), that a stored pack under way is
not on record, and that what a request has loaded of a document is on record as well
(`Shown`): its number and path are those of one version; its hash is that of the version with
its path, or the document is `Mixable`; and all of its columns are one version's unless two
versions share a number. A mismatch found by comparing the hash with the file at the path
therefore has one of the two causes that `NoFalseAlarm` names, and keeps it until the result
is written, since versions and damage stay.

*OfficeProofs.* The theorems above are about one specification each; the run `office` checks
`OfficeSpec`, which is made of the seven. `OfficeInv` is the invariant of the desk at work
together with what is promised of the tables of the others (`TablesSafe`): the full invariants
of the others do not hold, since the requests then serve another desk and have jobs of
another shape. From it come `OfficeKeepsPromises` (all the invariants of the run),
`OfficeTypeCorrect`, the action properties `OfficeDecisionsStand`, `OfficeNeverReopens` and
`OfficeStaysFrozen`, and the refinement `OfficeRefinesCalls`.

Only model-checked: liveness and what it needs of fairness and enabledness
(`donation_recorded`), which this prover does not reach, and the seven further refutations,
which are counterexamples and no theorems. No proof uses induction over data: sums are written
as cardinalities, and the chain of approvals is a statement about neighbours.

## 5. What is not modelled, and what is left

Left out for good:

* rendering, PDF, templates, template fallbacks, logging, configuration, rate limits, health:
  nothing here changes a table;
* reports, dashboards and the transparency page: read-only queries over what `Ledger` states;
* expense categories, vendors as such, and the allocations of a budget per category: single
  rows with no relation to others that a sequence of calls could break;
* signatures, the HTTP client of the gateway, file validation, evidence rules, passwords: they
  can only refuse a call, which is a `Rollback` or an `Abandon`;
* migrations: they run offline; the rows they seed are the initial states;
* the period filter of `reconcile_account`, which selects rows by date.

Of online donations the comparison of amounts and signatures is left out, and the account
side of the posting: `_online_donation_account` loads the account before `_lock_account`
does, so that a confirmation would be one more preloading kind of `LedgerSessions` if it
could post.

Left to do, most important first:

1. Liveness of requests in `LedgerSessions` when the database ends a deadlock and workers
   finish what they begin.
2. `Contributions` beside `Corrections`: a reversed payment leaves the received total of its
   commitment.
3. An abstract specification of `Documents` in single calls, as `ExpenseLifecycle` and
   `CorrectionLifecycle` are of their services.
