------------------------------- MODULE Ledger -------------------------------
(***************************************************************************)
(* The central ledger: app/services/ledger_service.py together with the    *)
(* two services that read or move an account outside a posting, the        *)
(* opening-balance adjustment (account_balance_service.py) and the         *)
(* reconciliation records (financial_controls_service.py).                 *)
(*                                                                         *)
(* Here every service call is one step, as if the database ran the calls   *)
(* one after the other.  LedgerSessions splits the calls into the          *)
(* statements they issue and relates the two.                              *)
(*                                                                         *)
(* Money is counted in paise: Numeric(15, 2) with two decimals is an       *)
(* integer number of paise below a bound (MaxPaise).                       *)
(***************************************************************************)
EXTENDS Integers, FiniteSets

CONSTANTS
    Accounts,        \* rows of table accounts
    ActiveAccounts,  \* those with is_active: no operation of the app changes it
    TxnIds,          \* primary keys the transactions table can hand out
    Sources,         \* records a posting stands for: <<source_module, source_id>>
    Refs,            \* external references a user or the gateway supplies
    Dates,           \* statement dates
    MaxPaise,        \* the largest amount a transaction can hold
    Openings,        \* the opening balances a treasurer may set
    Statements,      \* the closing balances a bank statement may show
    NoTxn, NoSource, NoRef, NoRecord    \* SQL NULLs

ASSUME LedgerAssumption ==
    /\ ActiveAccounts \subseteq Accounts
    /\ IsFiniteSet(TxnIds)
    /\ NoTxn \notin TxnIds
    /\ NoSource \notin Sources
    /\ MaxPaise \in Nat
    /\ Openings \subseteq Nat
    /\ Statements \subseteq Int

VARIABLES
    opening,  \* Account.opening_balance
    current,  \* Account.current_balance, the stored balance
    txns,     \* the transactions table: a function on the ids in use
    recs      \* reconciliation_records, unique per account and statement date

vars == <<opening, current, txns, recs>>

Amounts == 1 .. MaxPaise

\* external_ref of the reversal of t: f'REVERSAL-OF-{orig_txn.transaction_ref}'.
ReversalRef(t) == <<"REVERSAL-OF", t>>

ReversalRefs == {ReversalRef(t) : t \in TxnIds}

\* is_reversed is not kept apart from reversedBy: reverse_transaction sets both
\* in one flush and ck_transactions_reversed_has_reversal ties them.
Transaction ==
    [type : {"INCOME", "EXPENSE", "REVERSAL"}, account : Accounts, amount : Amounts,
     source : Sources \cup {NoSource}, ref : Refs \cup {NoRef} \cup ReversalRefs,
     reversedBy : TxnIds \cup {NoTxn}]

Recorded == DOMAIN txns

IsReversed(t) == txns[t].reversedBy # NoTxn

NewTransaction(type, a, amount, source, ref) ==
    [type |-> type, account |-> a, amount |-> amount, source |-> source,
     ref |-> ref, reversedBy |-> NoTxn]

Insert(table, t, row) == [x \in DOMAIN table \cup {t} |-> IF x = t THEN row ELSE table[x]]

-----------------------------------------------------------------------------
(***************************************************************************)
(* Sums of amounts.  A set of transactions is worth as many paise as there *)
(* are pairs <<transaction, paisa>> with the paisa below the amount; this  *)
(* says the sum without recursion.                                         *)
(***************************************************************************)
Paise(table, S) == {u \in S \X Amounts : u[2] <= table[u[1]].amount}

TotalOf(table, S) == Cardinality(Paise(table, S))

Total(S) == TotalOf(txns, S)

Posted(type, a) == {t \in Recorded : txns[t].type = type /\ txns[t].account = a}

\* A REVERSAL row takes back the row whose reversed_by_txn_id names it.
TakenBack(type, a) ==
    {t \in Posted("REVERSAL", a) :
        \E o \in Recorded : txns[o].reversedBy = t /\ txns[o].type = type}

\* _effective_transaction_totals, one component of the pair it returns.
Effective(type, a) == Total(Posted(type, a)) - Total(TakenBack(type, a))

\* expected_balance in get_account_reconciliation.
ExpectedBalance(a) == opening[a] + Effective("INCOME", a) - Effective("EXPENSE", a)

\* Mutant: reconcile_account forgets to skip the rows that were reversed.
UnreversedKeepsReversed(type, a) == Posted(type, a)

\* The rows reconcile_account adds up when no period is given.  A REVERSAL row is
\* always skipped there: the lookup uses the reversal's own reversed_by_txn_id.
Unreversed(type, a) == {t \in Posted(type, a) : ~IsReversed(t)}

BookBalance(a) == opening[a] + Total(Unreversed("INCOME", a)) - Total(Unreversed("EXPENSE", a))

-----------------------------------------------------------------------------
Init ==
    /\ opening \in [Accounts -> Openings]
    /\ current = opening
    /\ txns = [t \in {} |-> NoRecord]
    /\ recs = [a \in Accounts |-> [d \in Dates |-> NoRecord]]

\* _ensure_not_duplicate and the two unique indexes behind it.
IsDuplicate(source, ref) ==
    \E t \in Recorded :
        \/ txns[t].source = source /\ ~IsReversed(t)
        \/ ref # NoRef /\ txns[t].ref = ref

\* What an INCOME or EXPENSE row does to the stored balance.
Signed(type, amount) == IF type = "INCOME" THEN amount ELSE -amount

\* _record: lock the account, refuse a duplicate, move the balance, add the row.
Record(type, t, a, amount, source, ref) ==
    /\ t \in TxnIds \ Recorded
    /\ a \in ActiveAccounts
    /\ ~IsDuplicate(source, ref)
    /\ current' = [current EXCEPT ![a] = @ + Signed(type, amount)]
    /\ txns' = Insert(txns, t, NewTransaction(type, a, amount, source, ref))
    /\ UNCHANGED <<opening, recs>>

RecordIncome(t, a, amount, source, ref) == Record("INCOME", t, a, amount, source, ref)

RecordExpense(t, a, amount, source, ref) == Record("EXPENSE", t, a, amount, source, ref)

\* Mutant: the original row is replaced instead of kept and linked.
WithReversalReplaces(table, t, r) ==
    [x \in (DOMAIN table \ {t}) \cup {r} |->
        IF x = r
        THEN NewTransaction("REVERSAL", table[t].account, table[t].amount, NoSource, ReversalRef(t))
        ELSE table[x]]

\* Mutant: the reversal row carries the opposite amount instead of the same one.
WithReversalNegates(table, t, r) ==
    Insert([table EXCEPT ![t].reversedBy = r], r,
           NewTransaction("REVERSAL", table[t].account, -table[t].amount, NoSource, ReversalRef(t)))

\* The table after t has been reversed by the new row r.
WithReversal(table, t, r) ==
    Insert([table EXCEPT ![t].reversedBy = r], r,
           NewTransaction("REVERSAL", table[t].account, table[t].amount, NoSource, ReversalRef(t)))

\* Mutant: a REVERSAL row can itself be reversed, as if it had been an EXPENSE.
ReverseTransactionOfAnyType(t, r) ==
    /\ t \in Recorded
    /\ r \in TxnIds \ Recorded
    /\ ~IsReversed(t)
    /\ txns[t].account \in ActiveAccounts
    /\ current' = [current EXCEPT ![txns[t].account] = @ - Signed(txns[t].type, txns[t].amount)]
    /\ txns' = WithReversal(txns, t, r)
    /\ UNCHANGED <<opening, recs>>

\* reverse_transaction: an equal and opposite row, linked from the original.
ReverseTransaction(t, r) ==
    /\ t \in Recorded
    /\ r \in TxnIds \ Recorded
    /\ ~IsReversed(t)
    /\ txns[t].type \in {"INCOME", "EXPENSE"}
    /\ txns[t].account \in ActiveAccounts
    /\ \A x \in Recorded : txns[x].ref # ReversalRef(t)
    /\ current' = [current EXCEPT ![txns[t].account] = @ - Signed(txns[t].type, txns[t].amount)]
    /\ txns' = WithReversal(txns, t, r)
    /\ UNCHANGED <<opening, recs>>

HasResolved(a) == \E d \in Dates : recs[a][d] # NoRecord /\ recs[a][d].status = "RESOLVED"

\* Mutant: the new opening balance overwrites the current one.
AdjustOpeningBalanceOverwrites(a, new) ==
    /\ a \in ActiveAccounts
    /\ ~HasResolved(a)
    /\ new # opening[a]
    /\ opening' = [opening EXCEPT ![a] = new]
    /\ current' = [current EXCEPT ![a] = new]
    /\ UNCHANGED <<txns, recs>>

\* adjust_opening_balance: the current balance moves by the same difference.
AdjustOpeningBalance(a, new) ==
    /\ a \in ActiveAccounts
    /\ ~HasResolved(a)
    /\ new # opening[a]
    /\ opening' = [opening EXCEPT ![a] = new]
    /\ current' = [current EXCEPT ![a] = @ + (new - opening[a])]
    /\ UNCHANGED <<txns, recs>>

\* reconcile_account without a period: the statement either equals the book
\* balance or it does not, and the record keeps the book balance it was made from.
ReconcileAccount(a, d, statement) ==
    /\ a \in ActiveAccounts
    /\ recs[a][d] = NoRecord
    /\ recs' = [recs EXCEPT ![a][d] =
                  [book |-> BookBalance(a), statement |-> statement,
                   status |-> IF statement = BookBalance(a) THEN "MATCHED" ELSE "ADJUSTMENT_REQUIRED"]]
    /\ UNCHANGED <<opening, current, txns>>

\* resolve_reconciliation: only a zero difference can be resolved.
ResolveReconciliation(a, d) ==
    /\ recs[a][d] # NoRecord
    /\ recs[a][d].status # "RESOLVED"
    /\ recs[a][d].statement = recs[a][d].book
    /\ recs' = [recs EXCEPT ![a][d].status = "RESOLVED"]
    /\ UNCHANGED <<opening, current, txns>>

Posting ==
    \E t \in TxnIds, a \in Accounts, amount \in Amounts, source \in Sources, ref \in Refs \cup {NoRef} :
        \/ RecordIncome(t, a, amount, source, ref)
        \/ RecordExpense(t, a, amount, source, ref)

Correction == \E t, r \in TxnIds : ReverseTransaction(t, r)

Adjustment == \E a \in Accounts, new \in Openings : AdjustOpeningBalance(a, new)

Reconciling ==
    \E a \in Accounts, d \in Dates :
        \/ \E statement \in Statements : ReconcileAccount(a, d, statement)
        \/ ResolveReconciliation(a, d)

Next == Posting \/ Correction \/ Adjustment \/ Reconciling

Spec == Init /\ [][Next]_vars

-----------------------------------------------------------------------------
\* The state has the shape of the four tables.
TypeOK ==
    /\ opening \in [Accounts -> Openings]
    /\ current \in [Accounts -> Int]
    /\ Recorded \subseteq TxnIds
    /\ txns \in [Recorded -> Transaction]
    /\ recs \in [Accounts -> [Dates ->
                  {NoRecord} \cup [book : Int, statement : Statements,
                                  status : {"MATCHED", "ADJUSTMENT_REQUIRED", "RESOLVED"}]]]

\* Every reversed row is an income or an expense, and its reversal is a REVERSAL
\* row for the same amount on the same account.
ReversedRowsLinked ==
    \A t \in Recorded : IsReversed(t) =>
        LET r == txns[t].reversedBy IN
        /\ txns[t].type \in {"INCOME", "EXPENSE"}
        /\ r \in Recorded
        /\ txns[r].type = "REVERSAL"
        /\ txns[r].account = txns[t].account
        /\ txns[r].amount = txns[t].amount

\* Every REVERSAL row takes back a row, and no two rows share a reversal.
ReversalRowsLinked ==
    /\ \A r \in Recorded : txns[r].type = "REVERSAL" =>
          \E t \in Recorded : txns[t].reversedBy = r
    /\ \A t, u \in Recorded :
          IsReversed(t) /\ txns[t].reversedBy = txns[u].reversedBy => t = u

\* Reversals pair up with the rows they reverse (reverse_transaction): none is
\* left over, none is shared, and a reversal is never itself reversed.
ReversalPairing == ReversedRowsLinked /\ ReversalRowsLinked

\* The stored balance every posting, reversal and opening adjustment moves by hand
\* is the balance get_account_reconciliation derives from the rows.
BooksBalance == \A a \in Accounts : current[a] = ExpectedBalance(a)

\* The two computations of a book balance, get_account_reconciliation (reversed
\* rows counted, then taken back) and reconcile_account (reversed rows and
\* reversals both skipped), agree on every account.
DerivationsAgree == \A a \in Accounts : BookBalance(a) = ExpectedBalance(a)

\* A row is never deleted or changed, but for the link to its one reversal, which
\* is written in the step that adds that reversal and never rewritten.
RowsPermanent ==
    [][ \A t \in Recorded :
          /\ t \in Recorded'
          /\ txns'[t] = [txns[t] EXCEPT !.reversedBy = txns'[t].reversedBy]
          /\ txns'[t].reversedBy # txns[t].reversedBy =>
                ~IsReversed(t) /\ txns'[t].reversedBy \in Recorded' \ Recorded ]_vars

\* adjust_opening_balance calls a resolved reconciliation a checkpoint that an
\* opening balance must not move.  For an account without transactions this says
\* that the statement it was resolved against still is its balance.
ResolvedStatementStands ==
    \A a \in Accounts, d \in Dates :
        /\ recs[a][d] # NoRecord /\ recs[a][d].status = "RESOLVED"
        /\ \A t \in Recorded : txns[t].account # a
        => recs[a][d].statement = ExpectedBalance(a)

=============================================================================
