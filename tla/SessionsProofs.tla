--------------------------- MODULE SessionsProofs ---------------------------
(***************************************************************************)
(* Proofs about LedgerSessions: when every kind of request that arrives    *)
(* takes the account's balance under its lock, any number of requests      *)
(* running together implement Ledger, so that what LedgerProofs proves of  *)
(* single calls holds of concurrent ones.                                  *)
(***************************************************************************)
EXTENDS LedgerSessions, LedgerProofs

Steps == {"idle", "source", "child", "account", "locked", "inserted"}

\* The kinds that arrive load the account under its lock; the reconciliation
\* services, which read the ledger under no lock at all, do not run.
Disciplined ==
    /\ Kinds \cap PreloadingKinds = {}
    /\ "RECONCILIATION" \notin Kinds /\ "RESOLUTION" \notin Kinds

Holds(r) == step[r] \in {"locked", "inserted"}

RequestShape ==
    /\ job \in [Requests -> Jobs \cup {NoRecord}]
    /\ step \in [Requests -> Steps]
    /\ loaded \in [Requests -> Int \cup {NoRecord}]
    /\ rowId \in [Requests -> TxnIds \cup {NoTxn}]

\* A running request has its inputs; a row it is to reverse stays in the table.
JobKnown(r) ==
    step[r] # "idle" =>
        /\ job[r] \in Jobs
        /\ job[r].kind = "CORRECTION" => job[r].target \in Recorded
        /\ step[r] = "child" => job[r].kind \in ReferencingKinds

\* The balance a request has loaded is the committed one as long as it holds the lock.
LoadedFresh(r) ==
    /\ Holds(r) => loaded[r] = current[AccountOf(r)] /\ AccountOf(r) \in ActiveAccounts
    /\ ~Holds(r) => loaded[r] = NoRecord

\* What was checked under a lock still holds.
CorrectionStands(r) ==
    AtAccount(r) /\ job[r].kind = "CORRECTION" =>
        ~IsReversed(job[r].target) /\ txns[job[r].target].type \in {"INCOME", "EXPENSE"}

OpeningStands(r) ==
    Holds(r) /\ job[r].kind = "OPENING" =>
        ~HasResolved(job[r].account) /\ job[r].new # opening[job[r].account]

\* A row that has been inserted is a duplicate of no committed row ...
RowFree(r) ==
    InFlight(r) =>
        /\ job[r].kind # "OPENING"
        /\ rowId[r] \in TxnIds \ Recorded
        /\ job[r].kind \in PostingKinds => ~IsDuplicate(job[r].source, job[r].ref)
        /\ job[r].kind = "CORRECTION" => \A t \in Recorded : txns[t].ref # ReversalRef(job[r].target)

RequestInv(r) ==
    JobKnown(r) /\ LoadedFresh(r) /\ CorrectionStands(r) /\ OpeningStands(r) /\ RowFree(r)

\* ... and of no other inserted row.
RowsApart(r, q) ==
    InFlight(r) /\ InFlight(q) =>
        /\ rowId[r] # rowId[q]
        /\ RefOf(r) # NoRef => RefOf(r) # RefOf(q)
        /\ job[r].kind \in PostingKinds /\ job[q].kind \in PostingKinds => job[r].source # job[q].source

\* Two requests never hold the lock of one account, nor of one source row.
Apart(r, q) ==
    /\ Holds(r) /\ Holds(q) => AccountOf(r) # AccountOf(q)
    /\ AtAccount(r) /\ AtAccount(q) => ~SameSource(r, q)
    /\ RowsApart(r, q)

SessionsInv ==
    /\ TypeOK /\ RequestShape
    /\ \A r \in Requests : RequestInv(r)
    /\ \A r, q \in Requests : r # q => Apart(r, q)

-----------------------------------------------------------------------------
(***************************************************************************)
(* What a commit does.                                                     *)
(***************************************************************************)

\* The inputs a running request was given.
LEMMA JobFacts ==
    ASSUME TypeOK, NEW r \in Requests, JobKnown(r), step[r] # "idle"
    PROVE  /\ job[r] \in Jobs /\ job[r].kind \in Kinds
           /\ job[r].kind \in PostingKinds \cup {"CORRECTION", "OPENING"}
           /\ job[r].kind \in PostingKinds =>
                 /\ job[r].account \in ActiveAccounts /\ job[r].amount \in Amounts
                 /\ job[r].source \in Sources /\ job[r].ref \in Refs \cup {NoRef}
           /\ job[r].kind = "CORRECTION" => job[r].target \in Recorded /\ job[r].target \in TxnIds
           /\ job[r].kind = "OPENING" => job[r].account \in ActiveAccounts /\ job[r].new \in Openings
           /\ AccountOf(r) \in Accounts
<1>1. job[r] \in Jobs /\ (job[r].kind = "CORRECTION" => job[r].target \in Recorded)
  BY DEF JobKnown
<1>2. CASE job[r] \in PostingJobs
  <2>1. job[r].kind \in PostingKinds /\ job[r].kind \in Kinds
    BY <1>2 DEF PostingJobs
  <2>2. job[r].kind # "CORRECTION" /\ job[r].kind # "OPENING"
    BY <2>1 DEF PostingKinds, IncomeKinds
  <2>3. /\ job[r].account \in ActiveAccounts /\ job[r].amount \in Amounts
        /\ job[r].source \in Sources /\ job[r].ref \in Refs \cup {NoRef}
    BY <1>2 DEF PostingJobs
  <2>4. QED
    BY <1>1, <2>1, <2>2, <2>3, LedgerAssumption DEF AccountOf
<1>3. CASE job[r] \in CorrectionJobs
  <2>1. job[r].kind = "CORRECTION" /\ job[r].kind \in Kinds
    BY <1>3 DEF CorrectionJobs
  <2>2. job[r].kind \notin PostingKinds
    BY <2>1 DEF PostingKinds, IncomeKinds
  <2>3. txns[job[r].target].account \in Accounts /\ job[r].target \in TxnIds
    BY <1>1, <2>1 DEF TypeOK, Transaction
  <2>4. QED
    BY <1>1, <2>1, <2>2, <2>3 DEF AccountOf
<1>4. CASE job[r] \in OpeningJobs
  <2>1. job[r].kind = "OPENING" /\ job[r].kind \in Kinds
    BY <1>4 DEF OpeningJobs
  <2>2. job[r].kind \notin PostingKinds
    BY <2>1 DEF PostingKinds, IncomeKinds
  <2>3. job[r].account \in ActiveAccounts /\ job[r].new \in Openings
    BY <1>4 DEF OpeningJobs
  <2>4. QED
    BY <1>1, <2>1, <2>2, <2>3, LedgerAssumption DEF AccountOf
<1>5. QED
  BY <1>1, <1>2, <1>3, <1>4 DEF Jobs

\* A posting's commit is the ledger's Record, because the loaded balance is the
\* committed one and nothing has become a duplicate of its row.
LEMMA PostingIsRecord ==
    ASSUME SessionsInv, NEW r \in Requests, CommitPosting(r)
    PROVE  /\ InFlight(r) /\ job[r].kind \in PostingKinds /\ AccountOf(r) = job[r].account
           /\ TypeOf(job[r].kind) \in {"INCOME", "EXPENSE"}
           /\ Record(TypeOf(job[r].kind), rowId[r], job[r].account, job[r].amount,
                     job[r].source, job[r].ref)
<1>1. /\ InFlight(r) /\ job[r].kind \in PostingKinds /\ step[r] # "idle" /\ Holds(r)
      /\ current' = [current EXCEPT ![job[r].account] =
                        loaded[r] + Signed(TypeOf(job[r].kind), job[r].amount)]
      /\ txns' = Insert(txns, rowId[r],
                        NewTransaction(TypeOf(job[r].kind), job[r].account, job[r].amount,
                                       job[r].source, job[r].ref))
      /\ UNCHANGED <<opening, recs>>
  BY DEF CommitPosting, InFlight, Holds
<1>2. job[r].account \in ActiveAccounts /\ job[r].kind # "CORRECTION"
  BY <1>1, JobFacts DEF SessionsInv, RequestInv, PostingKinds, IncomeKinds
<1>3. AccountOf(r) = job[r].account
  BY <1>2 DEF AccountOf
<1>4. loaded[r] = current[job[r].account]
  BY <1>1, <1>3 DEF SessionsInv, RequestInv, LoadedFresh
<1>5. rowId[r] \in TxnIds \ Recorded /\ ~IsDuplicate(job[r].source, job[r].ref)
  BY <1>1 DEF SessionsInv, RequestInv, RowFree
<1>6. QED
  BY <1>1, <1>2, <1>3, <1>4, <1>5 DEF Record, TypeOf

\* A correction's commit is the ledger's ReverseTransaction.
LEMMA CorrectionIsReverse ==
    ASSUME SessionsInv, NEW r \in Requests, CommitCorrection(r)
    PROVE  /\ InFlight(r) /\ job[r].kind = "CORRECTION" /\ job[r].target \in TxnIds
           /\ AccountOf(r) = txns[job[r].target].account
           /\ rowId[r] \in TxnIds
           /\ ReverseTransaction(job[r].target, rowId[r])
<1>1. /\ InFlight(r) /\ job[r].kind = "CORRECTION" /\ step[r] # "idle" /\ Holds(r) /\ AtAccount(r)
      /\ current' = [current EXCEPT ![txns[job[r].target].account] =
                        loaded[r] - Signed(txns[job[r].target].type, txns[job[r].target].amount)]
      /\ txns' = WithReversal(txns, job[r].target, rowId[r])
      /\ UNCHANGED <<opening, recs>>
  BY DEF CommitCorrection, InFlight, Holds, AtAccount
<1>2. job[r].target \in Recorded /\ job[r].target \in TxnIds
  BY <1>1, JobFacts DEF SessionsInv, RequestInv
<1>3. AccountOf(r) = txns[job[r].target].account
  BY <1>1 DEF AccountOf
<1>4. loaded[r] = current[txns[job[r].target].account] /\ txns[job[r].target].account \in ActiveAccounts
  BY <1>1, <1>3 DEF SessionsInv, RequestInv, LoadedFresh
<1>5. /\ rowId[r] \in TxnIds \ Recorded
      /\ \A t \in Recorded : txns[t].ref # ReversalRef(job[r].target)
  BY <1>1 DEF SessionsInv, RequestInv, RowFree
<1>6. ~IsReversed(job[r].target) /\ txns[job[r].target].type \in {"INCOME", "EXPENSE"}
  BY <1>1 DEF SessionsInv, RequestInv, CorrectionStands
<1>7. QED
  BY <1>1, <1>2, <1>3, <1>4, <1>5, <1>6 DEF ReverseTransaction

\* An opening adjustment's commit is the ledger's AdjustOpeningBalance.
LEMMA OpeningIsAdjust ==
    ASSUME SessionsInv, NEW r \in Requests, CommitOpening(r)
    PROVE  /\ Holds(r) /\ job[r].kind = "OPENING" /\ AccountOf(r) = job[r].account
           /\ job[r].account \in Accounts /\ job[r].new \in Openings
           /\ AdjustOpeningBalance(job[r].account, job[r].new)
<1>1. /\ Holds(r) /\ job[r].kind = "OPENING" /\ step[r] # "idle"
      /\ opening' = [opening EXCEPT ![job[r].account] = job[r].new]
      /\ current' = [current EXCEPT ![job[r].account] =
                        loaded[r] + (job[r].new - opening[job[r].account])]
      /\ UNCHANGED <<txns, recs>>
  BY DEF CommitOpening, Holds
<1>2. job[r].account \in ActiveAccounts /\ job[r].new \in Openings
  BY <1>1, JobFacts DEF SessionsInv, RequestInv
<1>3. AccountOf(r) = job[r].account
  BY <1>1 DEF AccountOf
<1>4. loaded[r] = current[job[r].account]
  BY <1>1, <1>3 DEF SessionsInv, RequestInv, LoadedFresh
<1>5. ~HasResolved(job[r].account) /\ job[r].new # opening[job[r].account]
  BY <1>1 DEF SessionsInv, RequestInv, OpeningStands
<1>6. QED
  BY <1>1, <1>2, <1>3, <1>4, <1>5, LedgerAssumption DEF AdjustOpeningBalance

-----------------------------------------------------------------------------
(***************************************************************************)
(* What a commit means for the other requests.                             *)
(***************************************************************************)

\* A commit keeps every row and never takes a reversal back, adds at most the row
\* the request has inserted, and touches one account.
Effect(r) ==
    /\ Recorded \subseteq Recorded' /\ Recorded' \subseteq Recorded \cup {rowId[r]}
    /\ \A t \in Recorded :
          /\ txns'[t].account = txns[t].account /\ txns'[t].type = txns[t].type
          /\ txns'[t].source = txns[t].source /\ txns'[t].ref = txns[t].ref
          /\ IsReversed(t) => IsReversed(t)'
          /\ (job[r].kind = "CORRECTION" /\ job[r].target = t) \/ (IsReversed(t)' <=> IsReversed(t))
    /\ \A t \in Recorded' \ Recorded :
          /\ InFlight(r)
          /\ txns'[t].ref = RefOf(r)
          /\ txns'[t].source = (IF job[r].kind \in PostingKinds THEN job[r].source ELSE NoSource)
    /\ \A a \in Accounts : a # AccountOf(r) => current'[a] = current[a] /\ opening'[a] = opening[a]
    /\ recs' = recs

\* The rows after a posting and after a reversal, of any transaction.
LEMMA PostingRows ==
    ASSUME TypeOK, NEW u \in TxnIds \ Recorded, NEW row \in Transaction,
           txns' = Insert(txns, u, row)
    PROVE  /\ Recorded' = Recorded \cup {u}
           /\ txns'[u] = row
           /\ \A x \in Recorded : txns'[x] = txns[x]
BY PostingTable DEF Recorded

LEMMA ReversalRows ==
    ASSUME TypeOK, NEW t \in Recorded, NEW u \in TxnIds \ Recorded,
           txns' = WithReversal(txns, t, u)
    PROVE  /\ Recorded' = Recorded \cup {u}
           /\ txns'[u].source = NoSource /\ txns'[u].ref = ReversalRef(t)
           /\ txns'[t].account = txns[t].account /\ txns'[t].type = txns[t].type
           /\ txns'[t].source = txns[t].source /\ txns'[t].ref = txns[t].ref
           /\ \A x \in Recorded \ {t} : txns'[x] = txns[x]
<1> DEFINE row == NewTransaction("REVERSAL", txns[t].account, txns[t].amount,
                                 NoSource, ReversalRef(t))
<1>1. /\ Recorded' = Recorded \cup {u}
      /\ txns'[u] = row
      /\ txns'[t] = [txns[t] EXCEPT !.reversedBy = u]
      /\ \A x \in Recorded \ {t} : txns'[x] = txns[x]
  BY ReversalTable DEF Recorded
<1>2. row.source = NoSource /\ row.ref = ReversalRef(t)
  BY DEF NewTransaction
<1> HIDE DEF row
<1>3. txns[t] \in Transaction
  BY DEF TypeOK
<1>4. /\ txns'[t].account = txns[t].account /\ txns'[t].type = txns[t].type
      /\ txns'[t].source = txns[t].source /\ txns'[t].ref = txns[t].ref
  BY <1>1, <1>3 DEF Transaction
<1>5. QED
  BY <1>1, <1>2, <1>4

\* A posting's commit.
LEMMA PostingEffect ==
    ASSUME SessionsInv, NEW r \in Requests, CommitPosting(r)
    PROVE  Effect(r) /\ Holds(r) /\ AtAccount(r) /\ step[r] # "idle"
<1> DEFINE type == TypeOf(job[r].kind)
           row == NewTransaction(type, job[r].account, job[r].amount, job[r].source, job[r].ref)
<1>1. /\ InFlight(r) /\ job[r].kind \in PostingKinds /\ AccountOf(r) = job[r].account
      /\ type \in {"INCOME", "EXPENSE"}
      /\ Record(type, rowId[r], job[r].account, job[r].amount, job[r].source, job[r].ref)
  BY PostingIsRecord
<1>2. step[r] # "idle" /\ Holds(r) /\ AtAccount(r) /\ job[r].kind # "CORRECTION"
  BY <1>1 DEF InFlight, Holds, AtAccount, PostingKinds, IncomeKinds
<1>3. /\ job[r].account \in Accounts /\ job[r].amount \in Amounts
      /\ job[r].source \in Sources /\ job[r].ref \in Refs \cup {NoRef}
  BY <1>1, <1>2, JobFacts, LedgerAssumption DEF SessionsInv, RequestInv
<1> HIDE DEF type
<1>4. row \in Transaction
  BY <1>1, <1>3, PostingRow
<1>5. row.source = job[r].source /\ row.ref = job[r].ref
  BY DEF NewTransaction
<1> HIDE DEF row
<1>6. /\ rowId[r] \in TxnIds \ Recorded /\ txns' = Insert(txns, rowId[r], row)
      /\ current' = [current EXCEPT ![job[r].account] = @ + Signed(type, job[r].amount)]
      /\ opening' = opening /\ recs' = recs
  BY <1>1 DEF Record, row
<1>7. TypeOK
  BY DEF SessionsInv
<1>8. /\ Recorded' = Recorded \cup {rowId[r]}
      /\ txns'[rowId[r]] = row
      /\ \A x \in Recorded : txns'[x] = txns[x]
  BY <1>4, <1>6, <1>7, PostingRows
<1>9. \A a \in Accounts : a # AccountOf(r) => current'[a] = current[a] /\ opening'[a] = opening[a]
  BY <1>1, <1>6, <1>7 DEF TypeOK
<1>10. \A t \in Recorded : IsReversed(t)' <=> IsReversed(t)
  BY <1>8 DEF IsReversed
<1>11. RefOf(r) = job[r].ref
  BY <1>2 DEF RefOf
<1>12. QED
  BY <1>1, <1>2, <1>5, <1>6, <1>8, <1>9, <1>10, <1>11 DEF Effect

\* A correction's commit.
LEMMA CorrectionEffect ==
    ASSUME SessionsInv, NEW r \in Requests, CommitCorrection(r)
    PROVE  Effect(r) /\ Holds(r) /\ AtAccount(r) /\ step[r] # "idle"
<1> DEFINE t == job[r].target
<1>1. /\ InFlight(r) /\ job[r].kind = "CORRECTION" /\ t \in TxnIds
      /\ AccountOf(r) = txns[t].account /\ rowId[r] \in TxnIds
      /\ ReverseTransaction(t, rowId[r])
  BY CorrectionIsReverse
<1>2. step[r] # "idle" /\ Holds(r) /\ AtAccount(r) /\ job[r].kind \notin PostingKinds
  BY <1>1 DEF InFlight, Holds, AtAccount, PostingKinds, IncomeKinds
<1>3. TypeOK
  BY DEF SessionsInv
<1>4. RefOf(r) = ReversalRef(t)
  BY <1>1 DEF RefOf
<1> HIDE DEF t
<1>5. /\ t \in Recorded /\ rowId[r] \in TxnIds \ Recorded
      /\ txns' = WithReversal(txns, t, rowId[r])
      /\ ~IsReversed(t) /\ recs' = recs /\ opening' = opening
      /\ current' = [current EXCEPT ![txns[t].account] = @ - Signed(txns[t].type, txns[t].amount)]
  BY <1>1 DEF ReverseTransaction
<1>6. /\ Recorded' = Recorded \cup {rowId[r]}
      /\ txns'[rowId[r]].source = NoSource /\ txns'[rowId[r]].ref = ReversalRef(t)
      /\ txns'[t].account = txns[t].account /\ txns'[t].type = txns[t].type
      /\ txns'[t].source = txns[t].source /\ txns'[t].ref = txns[t].ref
      /\ \A x \in Recorded \ {t} : txns'[x] = txns[x]
  BY <1>3, <1>5, ReversalRows
<1>10. \A x \in Recorded :
          /\ txns'[x].account = txns[x].account /\ txns'[x].type = txns[x].type
          /\ txns'[x].source = txns[x].source /\ txns'[x].ref = txns[x].ref
  BY <1>6
<1>11. \A x \in Recorded : x = t \/ (IsReversed(x)' <=> IsReversed(x))
  BY <1>6 DEF IsReversed
<1>12. \A x \in Recorded : IsReversed(x) => IsReversed(x)'
  BY <1>5, <1>11
<1>13. \A a \in Accounts : a # AccountOf(r) => current'[a] = current[a] /\ opening'[a] = opening[a]
  BY <1>1, <1>3, <1>5 DEF TypeOK
<1>14. job[r].target = t
  BY DEF t
<1>15. QED
  BY <1>1, <1>2, <1>4, <1>5, <1>6, <1>10, <1>11, <1>12, <1>13, <1>14 DEF Effect

\* An opening adjustment's commit.
LEMMA OpeningEffect ==
    ASSUME SessionsInv, NEW r \in Requests, CommitOpening(r)
    PROVE  Effect(r) /\ Holds(r) /\ AtAccount(r) /\ step[r] # "idle"
<1>1. /\ Holds(r) /\ job[r].kind = "OPENING" /\ AccountOf(r) = job[r].account
      /\ AdjustOpeningBalance(job[r].account, job[r].new)
  BY OpeningIsAdjust
<1>2. step[r] # "idle" /\ AtAccount(r)
  BY <1>1 DEF Holds, AtAccount
<1>3. /\ txns' = txns /\ recs' = recs
      /\ opening' = [opening EXCEPT ![job[r].account] = job[r].new]
      /\ current' = [current EXCEPT ![job[r].account] = @ + (job[r].new - opening[job[r].account])]
  BY <1>1 DEF AdjustOpeningBalance
<1>4. \A a \in Accounts : a # AccountOf(r) => current'[a] = current[a] /\ opening'[a] = opening[a]
  BY <1>1, <1>3 DEF SessionsInv, TypeOK
<1>5. Recorded' = Recorded /\ \A t \in Recorded : txns'[t] = txns[t] /\ (IsReversed(t)' <=> IsReversed(t))
  BY <1>3 DEF Recorded, IsReversed
<1>6. QED
  BY <1>1, <1>2, <1>3, <1>4, <1>5 DEF Effect

\* A request that ends forgets all it had, and leaves the others as they were.
LEMMA FinishOthers ==
    ASSUME RequestShape, NEW r \in Requests, Finish(r)
    PROVE  /\ RequestShape'
           /\ step'[r] = "idle" /\ loaded'[r] = NoRecord
           /\ \A q \in Requests : q # r =>
                 /\ job'[q] = job[q] /\ step'[q] = step[q]
                 /\ loaded'[q] = loaded[q] /\ rowId'[q] = rowId[q]
BY DEF RequestShape, Finish, GoTo, Steps

\* An idle request satisfies its invariant, alone and with any other.
LEMMA IdleRequest ==
    ASSUME NEW r \in Requests, step'[r] = "idle", loaded'[r] = NoRecord
    PROVE  /\ RequestInv(r)'
           /\ \A q \in Requests : Apart(r, q)' /\ Apart(q, r)'
<1>1. ~Holds(r)' /\ ~AtAccount(r)' /\ ~InFlight(r)'
  BY DEF Holds, AtAccount, InFlight
<1>2. RequestInv(r)'
  BY <1>1 DEF RequestInv, JobKnown, LoadedFresh, CorrectionStands, OpeningStands, RowFree
<1>3. QED
  BY <1>1, <1>2 DEF Apart, RowsApart

\* The account of a running request stays its account when another one commits.
LEMMA CommitKeepsAccount ==
    ASSUME SessionsInv, NEW r \in Requests, NEW q \in Requests, Effect(r),
           job'[q] = job[q], step[q] # "idle"
    PROVE  AccountOf(q)' = AccountOf(q) /\ AccountOf(q) \in Accounts
<1>1. TypeOK /\ JobKnown(q)
  BY DEF SessionsInv, RequestInv
<1>2. AccountOf(q) \in Accounts /\ (job[q].kind = "CORRECTION" => job[q].target \in Recorded)
  BY <1>1, JobFacts
<1>3. QED
  BY <1>2 DEF Effect, AccountOf

\* What a running request knows stays true when another one commits.
LEMMA CommitKeepsRequest ==
    ASSUME SessionsInv, NEW r \in Requests, NEW q \in Requests, q # r,
           Effect(r), Holds(r), AtAccount(r), step[q] # "idle",
           job'[q] = job[q], step'[q] = step[q], loaded'[q] = loaded[q], rowId'[q] = rowId[q]
    PROVE  RequestInv(q)'
<1>1. TypeOK /\ RequestInv(q) /\ Apart(q, r)
  BY DEF SessionsInv
<1>2. AccountOf(q)' = AccountOf(q) /\ AccountOf(q) \in Accounts
  BY CommitKeepsAccount
<1>3. /\ Holds(q)' = Holds(q) /\ AtAccount(q)' = AtAccount(q) /\ InFlight(q)' = InFlight(q)
      /\ Holds(q) => AtAccount(q)
      /\ InFlight(q) => Holds(q)
  BY DEF Holds, AtAccount, InFlight
<1>4. /\ job[q].kind \in PostingKinds \cup {"CORRECTION", "OPENING"}
      /\ job[q].kind \in PostingKinds => job[q].source \in Sources
      /\ job[q].kind = "CORRECTION" => job[q].target \in Recorded /\ job[q].target \in TxnIds
      /\ job[q].kind = "OPENING" => job[q].account \in Accounts
  BY <1>1, JobFacts, LedgerAssumption DEF RequestInv
<1>5. JobKnown(q)'
  BY <1>1 DEF Effect, RequestInv, JobKnown
<1>6. LoadedFresh(q)'
  <2>1. CASE Holds(q)
    <3>1. AccountOf(q) # AccountOf(r)
      BY <1>1, <2>1 DEF Apart
    <3>2. current'[AccountOf(q)] = current[AccountOf(q)]
      BY <1>2, <3>1 DEF Effect
    <3>3. QED
      BY <1>1, <1>2, <1>3, <2>1, <3>2 DEF RequestInv, LoadedFresh
  <2>2. CASE ~Holds(q)
    BY <1>1, <1>3, <2>2 DEF RequestInv, LoadedFresh
  <2>3. QED
    BY <2>1, <2>2
<1>7. CorrectionStands(q)'
  <2>1. SUFFICES ASSUME AtAccount(q), job[q].kind = "CORRECTION"
                 PROVE  /\ ~IsReversed(job[q].target)'
                        /\ txns'[job[q].target].type \in {"INCOME", "EXPENSE"}
    BY <1>3 DEF CorrectionStands, IsReversed
  <2>2. job[r].kind = "CORRECTION" => job[r].target # job[q].target
    BY <1>1, <2>1 DEF Apart, SameSource
  <2>3. ~IsReversed(job[q].target) /\ txns[job[q].target].type \in {"INCOME", "EXPENSE"}
    BY <1>1, <2>1 DEF RequestInv, CorrectionStands
  <2>4. QED
    BY <1>4, <2>1, <2>2, <2>3 DEF Effect
<1>8. OpeningStands(q)'
  <2>1. SUFFICES ASSUME Holds(q), job[q].kind = "OPENING"
                 PROVE  ~HasResolved(job[q].account)' /\ job[q].new # opening'[job[q].account]
    BY <1>3 DEF OpeningStands, HasResolved
  <2>2. job[q].account # AccountOf(r)
    BY <1>1, <2>1 DEF Apart, AccountOf
  <2>3. opening'[job[q].account] = opening[job[q].account]
    BY <1>4, <2>1, <2>2 DEF Effect
  <2>4. ~HasResolved(job[q].account) /\ job[q].new # opening[job[q].account]
    BY <1>1, <2>1 DEF RequestInv, OpeningStands
  <2>5. HasResolved(job[q].account)' = HasResolved(job[q].account)
    BY DEF HasResolved, Effect
  <2>6. QED
    BY <2>3, <2>4, <2>5
<1>9. RowFree(q)'
  <2>1. SUFFICES ASSUME InFlight(q)
                 PROVE  RowFree(q)'
    BY <1>3 DEF RowFree
  <2>2. /\ job[q].kind # "OPENING" /\ rowId[q] \in TxnIds \ Recorded
        /\ job[q].kind \in PostingKinds => ~IsDuplicate(job[q].source, job[q].ref)
        /\ job[q].kind = "CORRECTION" => \A t \in Recorded : txns[t].ref # ReversalRef(job[q].target)
    BY <1>1, <2>1 DEF RequestInv, RowFree
  <2>3. ASSUME NEW t \in Recorded' \ Recorded
        PROVE  /\ t # rowId[q]
               /\ RefOf(q) # NoRef => txns'[t].ref # RefOf(q)
               /\ job[q].kind \in PostingKinds => txns'[t].source # job[q].source
    <3>1. /\ InFlight(r) /\ t = rowId[r] /\ txns'[t].ref = RefOf(r)
          /\ txns'[t].source = (IF job[r].kind \in PostingKinds THEN job[r].source ELSE NoSource)
      BY <2>3 DEF Effect
    <3>2. RowsApart(q, r)
      BY <1>1 DEF Apart
    <3>3. QED
      BY <1>4, <2>1, <3>1, <3>2, LedgerAssumption DEF RowsApart
  <2>4. rowId[q] \notin Recorded'
    BY <2>2, <2>3
  <2>5. job[q].kind \in PostingKinds => ~IsDuplicate(job[q].source, job[q].ref)'
    <3>1. SUFFICES ASSUME job[q].kind \in PostingKinds, NEW t \in Recorded'
                   PROVE  /\ txns'[t].source = job[q].source => IsReversed(t)'
                          /\ job[q].ref # NoRef => txns'[t].ref # job[q].ref
      BY DEF IsDuplicate, IsReversed
    <3>2. RefOf(q) = job[q].ref
      BY <3>1 DEF RefOf, PostingKinds, IncomeKinds
    <3>3. CASE t \in Recorded
      BY <2>2, <3>1, <3>3 DEF Effect, IsDuplicate
    <3>4. QED
      BY <2>3, <3>1, <3>2, <3>3
  <2>6. job[q].kind = "CORRECTION" => \A t \in Recorded' : txns'[t].ref # ReversalRef(job[q].target)
    <3>1. SUFFICES ASSUME job[q].kind = "CORRECTION", NEW t \in Recorded'
                   PROVE  txns'[t].ref # ReversalRef(job[q].target)
      OBVIOUS
    <3>2. RefOf(q) = ReversalRef(job[q].target) /\ RefOf(q) # NoRef
      BY <1>4, <3>1, SessionsAssumption DEF RefOf, ReversalRefs
    <3>3. CASE t \in Recorded
      BY <2>2, <3>1, <3>3 DEF Effect
    <3>4. QED
      BY <2>3, <3>2, <3>3
  <2>7. QED
    BY <2>2, <2>4, <2>5, <2>6 DEF RowFree
<1>10. QED
  BY <1>5, <1>6, <1>7, <1>8, <1>9 DEF RequestInv

\* So does what two other requests hold apart.
LEMMA CommitKeepsApart ==
    ASSUME SessionsInv, NEW r \in Requests, NEW p \in Requests, NEW q \in Requests, p # q,
           Effect(r), step[p] # "idle", step[q] # "idle",
           job'[p] = job[p], step'[p] = step[p], rowId'[p] = rowId[p],
           job'[q] = job[q], step'[q] = step[q], rowId'[q] = rowId[q]
    PROVE  Apart(p, q)'
<1>1. Apart(p, q)
  BY DEF SessionsInv
<1>2. AccountOf(p)' = AccountOf(p) /\ AccountOf(q)' = AccountOf(q)
  BY CommitKeepsAccount
<1>3. /\ Holds(p)' = Holds(p) /\ AtAccount(p)' = AtAccount(p) /\ InFlight(p)' = InFlight(p)
      /\ Holds(q)' = Holds(q) /\ AtAccount(q)' = AtAccount(q) /\ InFlight(q)' = InFlight(q)
  BY DEF Holds, AtAccount, InFlight
<1>4. SameSource(p, q)' = SameSource(p, q) /\ RefOf(p)' = RefOf(p) /\ RefOf(q)' = RefOf(q)
  BY DEF SameSource, RefOf, ReversalRef
<1>5. QED
  BY <1>1, <1>2, <1>3, <1>4 DEF Apart, RowsApart

\* When the tables stay as they are, requests that do nothing keep what they have.
LEMMA QuietRequest ==
    ASSUME NEW q \in Requests, RequestInv(q), UNCHANGED <<opening, current, txns, recs>>,
           job'[q] = job[q], step'[q] = step[q], loaded'[q] = loaded[q], rowId'[q] = rowId[q]
    PROVE  RequestInv(q)'
<1>1. /\ Holds(q)' = Holds(q) /\ AtAccount(q)' = AtAccount(q) /\ InFlight(q)' = InFlight(q)
      /\ AccountOf(q)' = AccountOf(q) /\ Recorded' = Recorded
  BY DEF Holds, AtAccount, InFlight, AccountOf, Recorded
<1>2. JobKnown(q)' /\ LoadedFresh(q)'
  BY <1>1 DEF RequestInv, JobKnown, LoadedFresh
<1>3. CorrectionStands(q)' /\ OpeningStands(q)'
  BY <1>1 DEF RequestInv, CorrectionStands, OpeningStands, IsReversed, HasResolved
<1>4. RowFree(q)'
  BY <1>1 DEF RequestInv, RowFree, IsDuplicate, IsReversed, ReversalRef
<1>5. QED
  BY <1>2, <1>3, <1>4 DEF RequestInv

LEMMA QuietApart ==
    ASSUME NEW p \in Requests, NEW q \in Requests, Apart(p, q), txns' = txns,
           job'[p] = job[p], step'[p] = step[p], rowId'[p] = rowId[p],
           job'[q] = job[q], step'[q] = step[q], rowId'[q] = rowId[q]
    PROVE  Apart(p, q)'
<1>1. /\ Holds(p)' = Holds(p) /\ AtAccount(p)' = AtAccount(p) /\ InFlight(p)' = InFlight(p)
      /\ Holds(q)' = Holds(q) /\ AtAccount(q)' = AtAccount(q) /\ InFlight(q)' = InFlight(q)
      /\ AccountOf(p)' = AccountOf(p) /\ AccountOf(q)' = AccountOf(q)
  BY DEF Holds, AtAccount, InFlight, AccountOf
<1>2. SameSource(p, q)' = SameSource(p, q) /\ RefOf(p)' = RefOf(p) /\ RefOf(q)' = RefOf(q)
  BY DEF SameSource, RefOf, ReversalRef
<1>3. QED
  BY <1>1, <1>2 DEF Apart, RowsApart

\* Whether two requests are apart does not depend on the order they are named in.
LEMMA ApartEitherWay ==
    ASSUME NEW p, NEW q
    PROVE  Apart(p, q)' => Apart(q, p)'
BY DEF Apart, RowsApart, SameSource

\* It is enough to look at the request that moves.
LEMMA OneMoves ==
    ASSUME SessionsInv, NEW r \in Requests, TypeOK', RequestShape',
           RequestInv(r)',
           \A q \in Requests \ {r} : RequestInv(q)' /\ Apart(r, q)',
           \A p, q \in Requests \ {r} : p # q => Apart(p, q)'
    PROVE  SessionsInv'
<1>1. \A q \in Requests : RequestInv(q)'
  OBVIOUS
<1>2. ASSUME NEW p \in Requests, NEW q \in Requests, p # q
      PROVE  Apart(p, q)'
  BY <1>2, ApartEitherWay
<1>3. QED
  BY <1>1, <1>2 DEF SessionsInv

-----------------------------------------------------------------------------
(***************************************************************************)
(* Every step keeps the invariant.                                         *)
(***************************************************************************)

\* A commit is a step of the ledger.
LEMMA CommitIsStep ==
    ASSUME SessionsInv, NEW r \in Requests,
           CommitPosting(r) \/ CommitCorrection(r) \/ CommitOpening(r)
    PROVE  Next /\ Effect(r) /\ Holds(r) /\ AtAccount(r) /\ Finish(r)
<1>1. TypeOK /\ JobKnown(r)
  BY DEF SessionsInv, RequestInv
<1>2. CASE CommitPosting(r)
  <2>1. /\ job[r].kind \in PostingKinds /\ TypeOf(job[r].kind) \in {"INCOME", "EXPENSE"}
        /\ Record(TypeOf(job[r].kind), rowId[r], job[r].account, job[r].amount,
                  job[r].source, job[r].ref)
    BY <1>2, PostingIsRecord
  <2>2. step[r] # "idle"
    BY <1>2, PostingEffect
  <2>3. /\ job[r].account \in Accounts /\ job[r].amount \in Amounts
        /\ job[r].source \in Sources /\ job[r].ref \in Refs \cup {NoRef}
        /\ rowId[r] \in TxnIds
    BY <1>1, <2>1, <2>2, JobFacts, LedgerAssumption DEF Record
  <2>4. Next
    BY <2>1, <2>3 DEF Next, Posting, RecordIncome, RecordExpense
  <2>5. QED
    BY <1>2, <2>4, PostingEffect DEF CommitPosting
<1>3. CASE CommitCorrection(r)
  BY <1>3, CorrectionIsReverse, CorrectionEffect DEF CommitCorrection, Next, Correction
<1>4. CASE CommitOpening(r)
  BY <1>4, OpeningIsAdjust, OpeningEffect DEF CommitOpening, Next, Adjustment
<1>5. QED
  BY <1>2, <1>3, <1>4

\* A request that ends, with a commit or without, leaves the invariant standing.
LEMMA CommitKeepsInv ==
    ASSUME SessionsInv, NEW r \in Requests,
           CommitPosting(r) \/ CommitCorrection(r) \/ CommitOpening(r)
    PROVE  SessionsInv'
<1>1. Next /\ Effect(r) /\ Holds(r) /\ AtAccount(r) /\ Finish(r)
  BY CommitIsStep
<1>2. TypeOK'
  BY <1>1, TypeStep DEF SessionsInv
<1>3. /\ RequestShape'
      /\ step'[r] = "idle" /\ loaded'[r] = NoRecord
      /\ \A q \in Requests : q # r =>
            /\ job'[q] = job[q] /\ step'[q] = step[q]
            /\ loaded'[q] = loaded[q] /\ rowId'[q] = rowId[q]
  BY <1>1, FinishOthers DEF SessionsInv
<1>4. RequestInv(r)' /\ \A q \in Requests : Apart(r, q)'
  BY <1>3, IdleRequest
<1>5. ASSUME NEW q \in Requests, step[q] = "idle", q # r
      PROVE  RequestInv(q)' /\ \A p \in Requests : Apart(p, q)' /\ Apart(q, p)'
  <2>1. loaded[q] = NoRecord
    BY <1>5 DEF SessionsInv, RequestInv, LoadedFresh, Holds
  <2>2. QED
    BY <1>3, <1>5, <2>1, IdleRequest
<1>6. ASSUME NEW q \in Requests \ {r}
      PROVE  RequestInv(q)'
  BY <1>1, <1>3, <1>5, <1>6, CommitKeepsRequest
<1>7. ASSUME NEW p \in Requests \ {r}, NEW q \in Requests \ {r}, p # q
      PROVE  Apart(p, q)'
  BY <1>1, <1>3, <1>5, <1>7, CommitKeepsApart
<1>8. QED
  BY <1>2, <1>3, <1>4, <1>6, <1>7, OneMoves

LEMMA RollbackKeepsInv ==
    ASSUME SessionsInv, NEW r \in Requests, Rollback(r)
    PROVE  SessionsInv'
<1>1. Finish(r) /\ UNCHANGED <<opening, current, txns, recs>>
  BY DEF Rollback
<1>2. TypeOK'
  BY <1>1, TypeStep DEF SessionsInv, vars
<1>3. /\ RequestShape'
      /\ step'[r] = "idle" /\ loaded'[r] = NoRecord
      /\ \A q \in Requests : q # r =>
            /\ job'[q] = job[q] /\ step'[q] = step[q]
            /\ loaded'[q] = loaded[q] /\ rowId'[q] = rowId[q]
  BY <1>1, FinishOthers DEF SessionsInv
<1>4. RequestInv(r)' /\ \A q \in Requests : Apart(r, q)'
  BY <1>3, IdleRequest
<1>5. \A q \in Requests \ {r} : RequestInv(q)'
  BY <1>1, <1>3, QuietRequest DEF SessionsInv
<1>6. \A p, q \in Requests \ {r} : p # q => Apart(p, q)'
  BY <1>1, <1>3, QuietApart DEF SessionsInv
<1>7. QED
  BY <1>2, <1>3, <1>4, <1>5, <1>6, OneMoves

\* A statement of one request that writes no table: only what that request knows
\* and how it stands to the others is left to show.
LEMMA StatementKeepsInv ==
    ASSUME SessionsInv, NEW r \in Requests, UNCHANGED <<opening, current, txns, recs>>,
           RequestShape',
           \A q \in Requests : q # r =>
              /\ job'[q] = job[q] /\ step'[q] = step[q]
              /\ loaded'[q] = loaded[q] /\ rowId'[q] = rowId[q],
           RequestInv(r)',
           \A q \in Requests \ {r} : Apart(r, q)'
    PROVE  SessionsInv'
<1>1. TypeOK'
  BY TypeStep DEF SessionsInv, vars
<1>2. \A q \in Requests \ {r} : RequestInv(q)'
  BY QuietRequest DEF SessionsInv
<1>3. \A p, q \in Requests \ {r} : p # q => Apart(p, q)'
  BY QuietApart DEF SessionsInv
<1>4. QED
  BY <1>1, <1>2, <1>3, OneMoves

LEMMA BeginKeepsInv ==
    ASSUME Disciplined, SessionsInv, NEW r \in Requests, NEW j \in Jobs, Begin(r, j)
    PROVE  SessionsInv'
<1>1. /\ step[r] = "idle" /\ UNCHANGED <<opening, current, txns, recs, rowId>>
      /\ j.kind = "CORRECTION" => j.target \in Recorded
      /\ job' = [job EXCEPT ![r] = j]
      /\ step' = [step EXCEPT ![r] =
                    IF j.kind \in {"EXPENSE", "CORRECTION"} THEN "source"
                    ELSE IF j.kind \in ReferencingKinds THEN "child" ELSE "account"]
  BY DEF Begin, GoTo
<1>2. j.kind \in Kinds
  BY DEF Jobs, PostingJobs, CorrectionJobs, OpeningJobs
<1>3. j.kind \notin PreloadingKinds /\ j.kind # "EXPENSE"
  BY <1>2 DEF Disciplined, PreloadingKinds
<1>4. loaded' = loaded
  BY <1>3 DEF Begin
<1>5. RequestShape'
  BY <1>1, <1>4 DEF SessionsInv, RequestShape, Steps
<1>6. /\ job'[r] = j /\ step'[r] \in {"source", "child", "account"}
      /\ step'[r] = "child" => j.kind \in ReferencingKinds
      /\ j.kind = "CORRECTION" => step'[r] = "source"
      /\ \A q \in Requests : q # r =>
           /\ job'[q] = job[q] /\ step'[q] = step[q]
           /\ loaded'[q] = loaded[q] /\ rowId'[q] = rowId[q]
  BY <1>1, <1>4 DEF SessionsInv, RequestShape
<1>7. ~Holds(r)' /\ ~InFlight(r)' /\ ~Holds(r)
  BY <1>1, <1>6 DEF Holds, InFlight
<1>8. RequestInv(r)'
  <2>1. loaded'[r] = NoRecord
    BY <1>4, <1>7 DEF SessionsInv, RequestInv, LoadedFresh
  <2>2. JobKnown(r)'
    BY <1>1, <1>6 DEF JobKnown, Recorded
  <2>3. LoadedFresh(r)' /\ OpeningStands(r)' /\ RowFree(r)'
    BY <1>7, <2>1 DEF LoadedFresh, OpeningStands, RowFree
  <2>4. CorrectionStands(r)'
    BY <1>6 DEF CorrectionStands, AtAccount
  <2>5. QED
    BY <2>2, <2>3, <2>4 DEF RequestInv
<1>9. ASSUME NEW q \in Requests \ {r}
      PROVE  Apart(r, q)'
  <2>1. AtAccount(r)' => ~SameSource(r, q)'
    BY <1>3, <1>6 DEF AtAccount, SameSource
  <2>2. QED
    BY <1>7, <2>1 DEF Apart, RowsApart
<1>10. QED
  BY <1>1, <1>5, <1>6, <1>8, <1>9, StatementKeepsInv

LEMMA LockSourceKeepsInv ==
    ASSUME Disciplined, SessionsInv, NEW r \in Requests, LockSource(r)
    PROVE  SessionsInv'
<1>1. /\ step[r] = "source" /\ step' = [step EXCEPT ![r] = "account"]
      /\ UNCHANGED <<opening, current, txns, recs, job, rowId>>
      /\ CanLockSource(r)
  BY DEF LockSource, GoTo
<1>2. TypeOK /\ RequestInv(r)
  BY DEF SessionsInv
<1>3. job[r].kind \in Kinds
  BY <1>1, <1>2, JobFacts DEF RequestInv
<1>4. job[r].kind # "EXPENSE"
  BY <1>3 DEF Disciplined, PreloadingKinds
<1>5. /\ ~IsReversed(job[r].target) /\ txns[job[r].target].type \in {"INCOME", "EXPENSE"}
      /\ loaded' = loaded
  BY <1>4 DEF LockSource
<1>6. RequestShape'
  BY <1>1, <1>5 DEF SessionsInv, RequestShape, Steps
<1>7. /\ step'[r] = "account"
      /\ \A q \in Requests : q # r =>
           /\ job'[q] = job[q] /\ step'[q] = step[q]
           /\ loaded'[q] = loaded[q] /\ rowId'[q] = rowId[q]
  BY <1>1, <1>5 DEF SessionsInv, RequestShape
<1>8. ~Holds(r)' /\ ~InFlight(r)' /\ ~Holds(r)
  BY <1>1, <1>7 DEF Holds, InFlight
<1>9. RequestInv(r)'
  <2>1. JobKnown(r)'
    BY <1>1, <1>2, <1>7 DEF RequestInv, JobKnown, Recorded
  <2>2. LoadedFresh(r)' /\ OpeningStands(r)' /\ RowFree(r)'
    BY <1>2, <1>5, <1>8 DEF RequestInv, LoadedFresh, OpeningStands, RowFree
  <2>3. CorrectionStands(r)'
    BY <1>1, <1>5 DEF CorrectionStands, IsReversed
  <2>4. QED
    BY <2>1, <2>2, <2>3 DEF RequestInv
<1>10. ASSUME NEW q \in Requests \ {r}
       PROVE  Apart(r, q)'
  <2>1. AtAccount(q)' => ~SameSource(r, q)'
    BY <1>1, <1>7 DEF CanLockSource, Others, AtAccount, SameSource
  <2>2. QED
    BY <1>8, <2>1 DEF Apart, RowsApart
<1>11. QED
  BY <1>1, <1>6, <1>7, <1>9, <1>10, StatementKeepsInv

LEMMA InsertChildKeepsInv ==
    ASSUME Disciplined, SessionsInv, NEW r \in Requests, InsertChild(r)
    PROVE  SessionsInv'
<1>1. /\ step[r] = "child" /\ step' = [step EXCEPT ![r] = "account"]
      /\ UNCHANGED <<opening, current, txns, recs, job, loaded, rowId>>
  BY DEF InsertChild, GoTo
<1>2. TypeOK /\ RequestInv(r)
  BY DEF SessionsInv
<1>3. job[r].kind # "EXPENSE" /\ job[r].kind # "CORRECTION"
  BY <1>1, <1>2 DEF RequestInv, JobKnown, ReferencingKinds
<1>4. RequestShape'
  BY <1>1 DEF SessionsInv, RequestShape, Steps
<1>5. /\ step'[r] = "account"
      /\ \A q \in Requests : q # r =>
           /\ job'[q] = job[q] /\ step'[q] = step[q]
           /\ loaded'[q] = loaded[q] /\ rowId'[q] = rowId[q]
  BY <1>1 DEF SessionsInv, RequestShape
<1>6. ~Holds(r)' /\ ~InFlight(r)' /\ ~Holds(r)
  BY <1>1, <1>5 DEF Holds, InFlight
<1>7. RequestInv(r)'
  <2>1. JobKnown(r)'
    BY <1>1, <1>2, <1>5 DEF RequestInv, JobKnown, Recorded
  <2>2. LoadedFresh(r)' /\ OpeningStands(r)' /\ RowFree(r)'
    BY <1>1, <1>2, <1>6 DEF RequestInv, LoadedFresh, OpeningStands, RowFree
  <2>3. CorrectionStands(r)'
    BY <1>1, <1>3 DEF CorrectionStands
  <2>4. QED
    BY <2>1, <2>2, <2>3 DEF RequestInv
<1>8. ASSUME NEW q \in Requests \ {r}
      PROVE  Apart(r, q)'
  <2>1. ~SameSource(r, q)'
    BY <1>1, <1>3 DEF SameSource
  <2>2. QED
    BY <1>6, <2>1 DEF Apart, RowsApart
<1>9. QED
  BY <1>1, <1>4, <1>5, <1>7, <1>8, StatementKeepsInv

LEMMA LockAccountKeepsInv ==
    ASSUME SessionsInv, NEW r \in Requests, LockAccount(r)
    PROVE  SessionsInv'
<1>1. /\ step[r] = "account" /\ step' = [step EXCEPT ![r] = "locked"]
      /\ UNCHANGED <<opening, current, txns, recs, job, rowId>>
      /\ CanUpdate(r, AccountOf(r)) /\ AccountOf(r) \in ActiveAccounts /\ Checked(r)
  BY DEF LockAccount, GoTo
<1>2. TypeOK /\ RequestInv(r) /\ RequestShape
  BY DEF SessionsInv
<1>3. loaded[r] = NoRecord
  BY <1>1, <1>2 DEF RequestInv, LoadedFresh, Holds
<1>4. loaded' = [loaded EXCEPT ![r] = current[AccountOf(r)]]
  BY <1>3 DEF LockAccount, Load
<1>5. current[AccountOf(r)] \in Int
  BY <1>1, <1>2, LedgerAssumption DEF TypeOK
<1>6. RequestShape'
  BY <1>1, <1>2, <1>4, <1>5 DEF RequestShape, Steps
<1>7. /\ step'[r] = "locked" /\ loaded'[r] = current[AccountOf(r)]
      /\ \A q \in Requests : q # r =>
           /\ job'[q] = job[q] /\ step'[q] = step[q]
           /\ loaded'[q] = loaded[q] /\ rowId'[q] = rowId[q]
  BY <1>1, <1>2, <1>4 DEF RequestShape
<1>8. AtAccount(r) /\ Holds(r)' /\ ~InFlight(r)' /\ AccountOf(r)' = AccountOf(r)
  BY <1>1, <1>7 DEF AtAccount, Holds, InFlight, AccountOf
<1>9. RequestInv(r)'
  <2>1. JobKnown(r)'
    BY <1>1, <1>2, <1>7 DEF RequestInv, JobKnown, Recorded
  <2>2. LoadedFresh(r)' /\ RowFree(r)'
    BY <1>1, <1>7, <1>8 DEF LoadedFresh, RowFree
  <2>3. CorrectionStands(r)'
    BY <1>1, <1>2, <1>8 DEF RequestInv, CorrectionStands, IsReversed
  <2>4. OpeningStands(r)'
    BY <1>1 DEF OpeningStands, Checked, HasResolved
  <2>5. QED
    BY <2>1, <2>2, <2>3, <2>4 DEF RequestInv
<1>10. ASSUME NEW q \in Requests \ {r}
       PROVE  Apart(r, q)'
  <2>1. AtAccount(q)' = AtAccount(q) /\ Holds(q)' = Holds(q) /\ AccountOf(q)' = AccountOf(q)
    BY <1>1, <1>7 DEF AtAccount, Holds, AccountOf
  <2>2. Holds(q) => AccountOf(q) # AccountOf(r)
    BY <1>1 DEF CanUpdate, Others, HoldsUpdate, Holds
  <2>3. AtAccount(q) => ~SameSource(r, q)
    BY <1>8 DEF SessionsInv, Apart
  <2>4. SameSource(r, q)' = SameSource(r, q)
    BY <1>1 DEF SameSource
  <2>5. QED
    BY <1>8, <2>1, <2>2, <2>3, <2>4 DEF Apart, RowsApart
<1>11. QED
  BY <1>1, <1>6, <1>7, <1>9, <1>10, StatementKeepsInv

\* The checks of the two unique indexes are what makes an inserted row no duplicate.
LEMMA InsertRowKeepsInv ==
    ASSUME SessionsInv, NEW r \in Requests, NEW t \in TxnIds, InsertRow(r, t)
    PROVE  SessionsInv'
<1>1. /\ step[r] = "locked" /\ step' = [step EXCEPT ![r] = "inserted"]
      /\ rowId' = [rowId EXCEPT ![r] = t]
      /\ UNCHANGED <<opening, current, txns, recs, job, loaded>>
      /\ job[r].kind # "OPENING" /\ t \in TxnIds \ Recorded
      /\ \A q \in Requests : rowId[q] # t
      /\ IndexFree(r)
  BY DEF InsertRow, GoTo
<1>2. TypeOK /\ RequestInv(r) /\ RequestShape
  BY DEF SessionsInv
<1>3. RequestShape'
  BY <1>1, <1>2 DEF RequestShape, Steps
<1>4. /\ step'[r] = "inserted" /\ rowId'[r] = t
      /\ \A q \in Requests : q # r =>
           /\ job'[q] = job[q] /\ step'[q] = step[q]
           /\ loaded'[q] = loaded[q] /\ rowId'[q] = rowId[q]
  BY <1>1, <1>2 DEF RequestShape
<1>5. AtAccount(r) /\ Holds(r) /\ Holds(r)' /\ AccountOf(r)' = AccountOf(r)
  BY <1>1, <1>4 DEF AtAccount, Holds, AccountOf
<1>6. job[r].kind = "CORRECTION" => job[r].target \in TxnIds
  BY <1>1, <1>2, JobFacts DEF RequestInv
<1>7. RequestInv(r)'
  <2>1. JobKnown(r)'
    BY <1>1, <1>2, <1>4 DEF RequestInv, JobKnown, Recorded
  <2>2. LoadedFresh(r)'
    BY <1>1, <1>2, <1>5 DEF RequestInv, LoadedFresh
  <2>3. CorrectionStands(r)' /\ OpeningStands(r)'
    BY <1>1, <1>2, <1>5 DEF RequestInv, CorrectionStands, OpeningStands, IsReversed
  <2>4. job[r].kind \in PostingKinds => ~IsDuplicate(job[r].source, job[r].ref)
    <3>1. job[r].kind \in PostingKinds => RefOf(r) = job[r].ref
      BY DEF RefOf, PostingKinds, IncomeKinds
    <3>2. QED
      BY <1>1, <3>1 DEF IndexFree, IsDuplicate
  <2>5. job[r].kind = "CORRECTION" => \A x \in Recorded : txns[x].ref # ReversalRef(job[r].target)
    BY <1>1, <1>6, SessionsAssumption DEF IndexFree, RefOf, ReversalRefs
  <2>6. RowFree(r)'
    BY <1>1, <1>4, <2>4, <2>5 DEF RowFree, Recorded, IsDuplicate, IsReversed, ReversalRef
  <2>7. QED
    BY <2>1, <2>2, <2>3, <2>6 DEF RequestInv
<1>8. ASSUME NEW q \in Requests \ {r}
      PROVE  Apart(r, q)'
  <2>1. /\ AtAccount(q)' = AtAccount(q) /\ Holds(q)' = Holds(q) /\ InFlight(q)' = InFlight(q)
        /\ AccountOf(q)' = AccountOf(q)
    BY <1>1, <1>4 DEF AtAccount, Holds, InFlight, AccountOf
  <2>2. SameSource(r, q)' = SameSource(r, q) /\ RefOf(r)' = RefOf(r) /\ RefOf(q)' = RefOf(q)
    BY <1>1 DEF SameSource, RefOf, ReversalRef
  <2>3. Apart(r, q)
    BY DEF SessionsInv
  <2>4. RowsApart(r, q)'
    <3>1. rowId'[r] # rowId'[q] /\ job' = job
      BY <1>1, <1>4
    <3>2. InFlight(q) /\ RefOf(r) # NoRef => RefOf(q) # RefOf(r)
      BY <1>1 DEF IndexFree, Others
    <3>3. InFlight(q) /\ job[r].kind \in PostingKinds /\ job[q].kind \in PostingKinds =>
             job[r].source # job[q].source
      BY <1>1 DEF IndexFree, Others
    <3>4. QED
      BY <2>1, <2>2, <3>1, <3>2, <3>3 DEF RowsApart
  <2>5. QED
    BY <1>5, <2>1, <2>2, <2>3, <2>4, <1>1, <1>4 DEF Apart, AtAccount
<1>9. QED
  BY <1>1, <1>3, <1>4, <1>7, <1>8, StatementKeepsInv

\* No step of a reconciliation service is taken: none begins.
LEMMA NoReconciliation ==
    ASSUME Disciplined, SessionsInv, NEW r \in Requests, Reconciliation(r)
    PROVE  FALSE
<1>1. ReconciliationJobs = {} /\ ResolutionJobs = {}
  BY DEF Disciplined, ReconciliationJobs, ResolutionJobs
<1>2. step[r] \notin {"rows", "record"}
  BY DEF SessionsInv, RequestShape, Steps
<1>3. QED
  BY <1>1, <1>2 DEF Reconciliation, AddUpRows, CommitReconciliation, CommitResolution

-----------------------------------------------------------------------------
(***************************************************************************)
(* Concurrent requests implement single calls.                             *)
(***************************************************************************)

LEMMA InvInit == SessionsInit => SessionsInv
<1> SUFFICES ASSUME SessionsInit
             PROVE  SessionsInv
  OBVIOUS
<1>1. Init /\ \A r \in Requests : step[r] = "idle" /\ loaded[r] = NoRecord
  BY DEF SessionsInit
<1>2. TypeOK
  BY <1>1, InitTyped
<1>3. RequestShape
  BY DEF SessionsInit, RequestShape, Steps
<1>4. \A r \in Requests : ~Holds(r) /\ ~AtAccount(r) /\ ~InFlight(r)
  BY <1>1 DEF Holds, AtAccount, InFlight
<1>5. \A r \in Requests : RequestInv(r)
  BY <1>1, <1>4 DEF RequestInv, JobKnown, LoadedFresh, CorrectionStands, OpeningStands, RowFree
<1>6. \A r, q \in Requests : Apart(r, q)
  BY <1>4 DEF Apart, RowsApart
<1>7. QED
  BY <1>2, <1>3, <1>5, <1>6 DEF SessionsInv

\* Every step keeps the invariant and is a step of the ledger, or none at all.
LEMMA SessionsStep ==
    ASSUME Disciplined, SessionsInv, [SessionsNext]_sessionVars
    PROVE  SessionsInv' /\ [Next]_vars
<1>1. ASSUME NEW r \in Requests, NEW j \in Jobs, Begin(r, j)
      PROVE  SessionsInv' /\ [Next]_vars
  BY <1>1, BeginKeepsInv DEF Begin, vars
<1>2. ASSUME NEW r \in Requests, LockSource(r)
      PROVE  SessionsInv' /\ [Next]_vars
  BY <1>2, LockSourceKeepsInv DEF LockSource, vars
<1>3. ASSUME NEW r \in Requests, InsertChild(r)
      PROVE  SessionsInv' /\ [Next]_vars
  BY <1>3, InsertChildKeepsInv DEF InsertChild, vars
<1>4. ASSUME NEW r \in Requests, LockAccount(r)
      PROVE  SessionsInv' /\ [Next]_vars
  BY <1>4, LockAccountKeepsInv DEF LockAccount, vars
<1>5. ASSUME NEW r \in Requests, NEW t \in TxnIds, InsertRow(r, t)
      PROVE  SessionsInv' /\ [Next]_vars
  BY <1>5, InsertRowKeepsInv DEF InsertRow, vars
<1>6. ASSUME NEW r \in Requests, CommitPosting(r) \/ CommitCorrection(r) \/ CommitOpening(r)
      PROVE  SessionsInv' /\ [Next]_vars
  BY <1>6, CommitIsStep, CommitKeepsInv
<1>7. ASSUME NEW r \in Requests, Rollback(r)
      PROVE  SessionsInv' /\ [Next]_vars
  BY <1>7, RollbackKeepsInv DEF Rollback, vars
<1>8. ASSUME NEW r \in Requests, Reconciliation(r)
      PROVE  SessionsInv' /\ [Next]_vars
  BY <1>8, NoReconciliation
<1>9. CASE UNCHANGED sessionVars
  <2>1. /\ UNCHANGED <<opening, current, txns, recs>> /\ UNCHANGED <<job, step, loaded, rowId>>
    BY <1>9 DEF sessionVars
  <2>2. TypeOK' /\ RequestShape'
    BY <2>1, TypeStep DEF SessionsInv, RequestShape, vars
  <2>3. \A q \in Requests : RequestInv(q)'
    BY <2>1, QuietRequest DEF SessionsInv
  <2>4. \A p, q \in Requests : p # q => Apart(p, q)'
    BY <2>1, QuietApart DEF SessionsInv
  <2>5. QED
    BY <2>1, <2>2, <2>3, <2>4 DEF SessionsInv, vars
<1>10. QED
  BY <1>1, <1>2, <1>3, <1>4, <1>5, <1>6, <1>7, <1>8, <1>9 DEF SessionsNext, Work

\* Any number of disciplined requests, however their statements interleave, do to
\* the tables what the same calls do one after the other.
THEOREM SessionsRefineLedger ==
    ASSUME Disciplined
    PROVE  SessionsSpec => ImplementsLedger
<1>1. SessionsInit => Init
  BY DEF SessionsInit
<1>2. SessionsInv /\ [SessionsNext]_sessionVars => SessionsInv' /\ [Next]_vars
  BY SessionsStep
<1>3. QED
  BY <1>1, <1>2, InvInit, PTL DEF SessionsSpec, ImplementsLedger, Spec

\* So the stored balance of an account stays the one derived from its rows when
\* disciplined requests run together.
THEOREM DisciplinedBooksBalance ==
    ASSUME Disciplined
    PROVE  SessionsSpec => []BooksBalance
<1>1. SessionsSpec => Spec
  BY SessionsRefineLedger DEF ImplementsLedger
<1>2. QED
  BY <1>1, StoredBalanceIsDerived, PTL

-----------------------------------------------------------------------------
(***************************************************************************)
(* Requests of every kind, the preloading ones and the reconciliation      *)
(* services among them.  The stored balance can go wrong here; what stays  *)
(* right are the types, the pairing of reversals, that nothing is posted   *)
(* twice, and what a reconciliation has found.                             *)
(***************************************************************************)
Posts(r) == step[r] \in Steps \ {"idle"} /\ job[r].kind \in PostingKinds

\* What a running request was asked to do, and what it has at hand.
Running(r) ==
    /\ step[r] \in Steps => JobKnown(r)
    /\ step[r] = "rows" => job[r] \in ReconciliationJobs
    /\ step[r] = "record" => job[r] \in ReconciliationJobs \cup ResolutionJobs
    /\ Holds(r) \/ job[r] \in ReconciliationJobs => loaded[r] \in Int
    /\ InFlight(r) => job[r].kind # "OPENING" /\ rowId[r] \in TxnIds \ Recorded

\* No row yet stands for the record of an income, nor, once the expense is locked
\* and has been found unpaid, for that expense.
Unposted(r) ==
    Posts(r) /\ (job[r].kind = "EXPENSE" => AtAccount(r)) =>
        \A t \in Recorded : txns[t].source # job[r].source

\* A reconciliation that found no difference.
Agreeing(a, d) == recs[a][d] \in RecordRows /\ recs[a][d].statement = recs[a][d].book

ResolutionStands(r) ==
    step[r] = "record" /\ job[r] \in ResolutionJobs => Agreeing(job[r].account, job[r].date)

Knows(r) == Running(r) /\ CorrectionStands(r) /\ Unposted(r) /\ ResolutionStands(r)

\* Two requests never hold one source row, insert one id, or stand for one record
\* that is not an expense.
RunningApart(r, q) ==
    /\ AtAccount(r) /\ AtAccount(q) => ~SameSource(r, q)
    /\ InFlight(r) /\ InFlight(q) => rowId[r] # rowId[q]
    /\ Posts(r) /\ Posts(q) /\ job[r].source = job[q].source =>
          job[r].kind = "EXPENSE" /\ job[q].kind = "EXPENSE"

AgreeingMatched ==
    \A a \in Accounts, d \in Dates :
        Agreeing(a, d) => recs[a][d].status \in {"MATCHED", "RESOLVED"}

TablesSound == ReversalPairing /\ PostedOnce /\ AgreeingMatched

RunningInv ==
    /\ SessionsTypeOK /\ TablesSound
    /\ \A r \in Requests : Knows(r)
    /\ \A r, q \in Requests : r # q => RunningApart(r, q)

\* The private state of every request but r.
OthersKeep(r) ==
    \A q \in Requests : q # r =>
        /\ job'[q] = job[q] /\ step'[q] = step[q]
        /\ loaded'[q] = loaded[q] /\ rowId'[q] = rowId[q]

\* The kinds of the three sorts of job have nothing in common.
LEMMA JobKinds ==
    ASSUME NEW j
    PROVE  /\ j \in Jobs => j.kind \in PostingKinds \cup {"CORRECTION", "OPENING"}
           /\ j \in ReconciliationJobs =>
                 /\ j.kind = "RECONCILIATION" /\ j \notin Jobs /\ j \notin ResolutionJobs
                 /\ j.account \in ActiveAccounts /\ j.date \in Dates /\ j.statement \in Statements
           /\ j \in ResolutionJobs =>
                 /\ j.kind = "RESOLUTION" /\ j \notin Jobs
                 /\ j.account \in Accounts /\ j.date \in Dates
           /\ j \in PostingJobs => j.source[1] = j.kind
<1>1. j \in Jobs => j.kind \in PostingKinds \cup {"CORRECTION", "OPENING"}
  BY DEF Jobs, PostingJobs, CorrectionJobs, OpeningJobs
<1>2. /\ j \in ReconciliationJobs =>
             /\ j.kind = "RECONCILIATION"
             /\ j.account \in ActiveAccounts /\ j.date \in Dates /\ j.statement \in Statements
      /\ j \in ResolutionJobs =>
             j.kind = "RESOLUTION" /\ j.account \in Accounts /\ j.date \in Dates
  BY DEF ReconciliationJobs, ResolutionJobs
<1>3. j \in PostingJobs => j.source[1] = j.kind
  BY DEF PostingJobs
<1>4. QED
  BY <1>1, <1>2, <1>3 DEF PostingKinds, IncomeKinds

\* What the other requests know does not change when the tables do not.
LEMMA QuietKnows ==
    ASSUME NEW q \in Requests, Knows(q), txns' = txns, recs' = recs,
           job'[q] = job[q], step'[q] = step[q], loaded'[q] = loaded[q], rowId'[q] = rowId[q]
    PROVE  Knows(q)'
<1>1. /\ Holds(q)' = Holds(q) /\ AtAccount(q)' = AtAccount(q) /\ InFlight(q)' = InFlight(q)
      /\ Posts(q)' = Posts(q) /\ Recorded' = Recorded
  BY DEF Holds, AtAccount, InFlight, Posts, Recorded
<1>2. Running(q)'
  BY <1>1 DEF Knows, Running, JobKnown
<1>3. CorrectionStands(q)' /\ Unposted(q)'
  BY <1>1 DEF Knows, CorrectionStands, Unposted, IsReversed
<1>4. ResolutionStands(q)'
  BY DEF Knows, ResolutionStands, Agreeing
<1>5. QED
  BY <1>2, <1>3, <1>4 DEF Knows

\* Whether two requests are apart depends on nothing but what is theirs.
LEMMA StillApart ==
    ASSUME NEW p \in Requests, NEW q \in Requests, RunningApart(p, q),
           job'[p] = job[p], step'[p] = step[p], rowId'[p] = rowId[p],
           job'[q] = job[q], step'[q] = step[q], rowId'[q] = rowId[q]
    PROVE  RunningApart(p, q)'
<1>1. /\ AtAccount(p)' = AtAccount(p) /\ InFlight(p)' = InFlight(p) /\ Posts(p)' = Posts(p)
      /\ AtAccount(q)' = AtAccount(q) /\ InFlight(q)' = InFlight(q) /\ Posts(q)' = Posts(q)
      /\ SameSource(p, q)' = SameSource(p, q)
  BY DEF AtAccount, InFlight, Posts, SameSource
<1>2. QED
  BY <1>1 DEF RunningApart

\* It is enough to look at the tables and at the request that moves.
LEMMA OneRuns ==
    ASSUME RunningInv, NEW r \in Requests, SessionsTypeOK', TablesSound', OthersKeep(r),
           Knows(r)', \A q \in Requests \ {r} : Knows(q)' /\ RunningApart(r, q)'
    PROVE  RunningInv'
<1>1. \A p, q \in Requests \ {r} : p # q => RunningApart(p, q)'
  BY StillApart DEF RunningInv, OthersKeep
<1>2. \A q \in Requests \ {r} : RunningApart(q, r)'
  BY DEF RunningApart, SameSource
<1>3. \A p, q \in Requests : p # q => RunningApart(p, q)'
  BY <1>1, <1>2
<1>4. \A q \in Requests : Knows(q)'
  OBVIOUS
<1>5. QED
  BY <1>3, <1>4 DEF RunningInv

\* A statement that writes no table.
LEMMA StatementRuns ==
    ASSUME RunningInv, NEW r \in Requests, UNCHANGED <<opening, current, txns, recs>>,
           SessionsTypeOK', OthersKeep(r), Knows(r)',
           \A q \in Requests \ {r} : RunningApart(r, q)'
    PROVE  RunningInv'
<1>1. TablesSound'
  BY DEF RunningInv, TablesSound, ReversalPairing, ReversedRowsLinked, ReversalRowsLinked,
         IsReversed, PostedOnce, AgreeingMatched, Agreeing, Recorded
<1>2. \A q \in Requests \ {r} : Knows(q)'
  BY QuietKnows DEF RunningInv, OthersKeep
<1>3. QED
  BY <1>1, <1>2, OneRuns

\* The inputs of a request that is to post.
LEMMA PostsFacts ==
    ASSUME NEW q \in Requests, Knows(q), Posts(q)
    PROVE  /\ job[q] \in PostingJobs /\ job[q].source \in Sources
           /\ job[q].source[1] = job[q].kind
           /\ job[q].account \in ActiveAccounts /\ job[q].amount \in Amounts
           /\ job[q].ref \in Refs \cup {NoRef}
<1>1. job[q] \in Jobs /\ job[q].kind \in PostingKinds
  BY DEF Knows, Running, Posts, JobKnown
<1>2. job[q] \notin CorrectionJobs /\ job[q] \notin OpeningJobs
  BY <1>1 DEF CorrectionJobs, OpeningJobs, PostingKinds, IncomeKinds
<1>3. job[q] \in PostingJobs
  BY <1>1, <1>2 DEF Jobs
<1>4. QED
  BY <1>3 DEF PostingJobs

LEMMA BeginRuns ==
    ASSUME RunningInv, NEW r \in Requests, NEW j \in Jobs, Begin(r, j)
    PROVE  RunningInv'
<1>1. /\ step[r] = "idle" /\ UNCHANGED <<opening, current, txns, recs, rowId>>
      /\ j.kind \in IncomeKinds => Unused(j.source)
      /\ j.kind = "CORRECTION" => j.target \in Recorded
      /\ job' = [job EXCEPT ![r] = j]
      /\ step' = [step EXCEPT ![r] =
                    IF j.kind \in {"EXPENSE", "CORRECTION"} THEN "source"
                    ELSE IF j.kind \in ReferencingKinds THEN "child" ELSE "account"]
  BY DEF Begin, GoTo
<1>2. SessionsTypeOK
  BY DEF RunningInv
<1>3. loaded' \in [Requests -> Int \cup {NoRecord}] /\ \A q \in Requests \ {r} : loaded'[q] = loaded[q]
  <2>1. CASE j.kind \in IncomeKinds \cap PreloadingKinds
    <3>1. loaded' = [loaded EXCEPT ![r] = current[j.account]]
      BY <2>1 DEF Begin, Load
    <3>2. j \notin CorrectionJobs /\ j \notin OpeningJobs
      BY <2>1 DEF CorrectionJobs, OpeningJobs, IncomeKinds
    <3>3. j.account \in Accounts
      BY <3>2, LedgerAssumption DEF Jobs, PostingJobs
    <3>4. QED
      BY <1>2, <3>1, <3>3 DEF SessionsTypeOK, TypeOK
  <2>2. CASE loaded' = loaded
    BY <1>2, <2>2 DEF SessionsTypeOK
  <2>3. QED
    BY <2>1, <2>2 DEF Begin
<1>4. /\ job'[r] = j /\ step'[r] \in {"source", "child", "account"} /\ OthersKeep(r)
      /\ step'[r] = "child" => j.kind \in ReferencingKinds
      /\ j.kind \in {"EXPENSE", "CORRECTION"} => step'[r] = "source"
  BY <1>1, <1>2, <1>3 DEF SessionsTypeOK, OthersKeep
<1>5. SessionsTypeOK'
  <2>1. TypeOK'
    BY <1>1, <1>2, TypeStep DEF SessionsTypeOK, vars
  <2>2. \A q \in Requests : step'[q] = "idle" <=> job'[q] = NoRecord
    BY <1>2, <1>4, NullAssumption DEF SessionsTypeOK, OthersKeep
  <2>3. QED
    BY <1>1, <1>2, <1>3, <2>1, <2>2 DEF SessionsTypeOK
<1>6. ~Holds(r)' /\ ~InFlight(r)'
  BY <1>4 DEF Holds, InFlight
<1>7. Knows(r)'
  <2>1. Running(r)'
    <3>1. JobKnown(r)'
      BY <1>1, <1>4 DEF JobKnown, Recorded
    <3>2. j \notin ReconciliationJobs
      BY JobKinds
    <3>3. QED
      BY <1>4, <1>6, <3>1, <3>2 DEF Running
  <2>2. CorrectionStands(r)' /\ ResolutionStands(r)'
    BY <1>4 DEF CorrectionStands, ResolutionStands, AtAccount
  <2>3. Unposted(r)'
    BY <1>1, <1>4 DEF Unposted, Posts, AtAccount, PostingKinds, Unused, Recorded
  <2>4. QED
    BY <2>1, <2>2, <2>3 DEF Knows
<1>8. ASSUME NEW q \in Requests \ {r}
      PROVE  RunningApart(r, q)'
  <2>1. /\ job'[q] = job[q] /\ step'[q] = step[q] /\ Posts(q)' = Posts(q)
        /\ Knows(q)
    BY <1>4 DEF OthersKeep, Posts, RunningInv
  <2>2. AtAccount(r)' => ~SameSource(r, q)'
    BY <1>4 DEF AtAccount, SameSource
  <2>3. ASSUME Posts(r)', Posts(q)', j.source = job[q].source
        PROVE  j.kind = "EXPENSE" /\ job[q].kind = "EXPENSE"
    <3>1. job[q].source[1] = job[q].kind /\ step[q] # "idle" /\ job[q].kind \in PostingKinds
      BY <2>1, <2>3, PostsFacts DEF Posts
    <3>2. j.kind \in PostingKinds
      BY <1>4, <2>3 DEF Posts
    <3>3. j.kind \notin IncomeKinds
      BY <1>1, <2>3, <3>1 DEF Unused
    <3>4. j.kind = "EXPENSE"
      BY <3>2, <3>3 DEF PostingKinds
    <3>5. j \in PostingJobs
      BY <3>4 DEF Jobs, CorrectionJobs, OpeningJobs
    <3>6. QED
      BY <2>3, <3>1, <3>4, <3>5, JobKinds
  <2>4. QED
    BY <1>4, <1>6, <2>1, <2>2, <2>3 DEF RunningApart
<1>9. QED
  BY <1>1, <1>4, <1>5, <1>7, <1>8, StatementRuns

LEMMA LockSourceRuns ==
    ASSUME RunningInv, NEW r \in Requests, LockSource(r)
    PROVE  RunningInv'
<1>1. /\ step[r] = "source" /\ step' = [step EXCEPT ![r] = "account"] /\ CanLockSource(r)
      /\ UNCHANGED <<opening, current, txns, recs, job, rowId>>
      /\ IF job[r].kind = "EXPENSE"
         THEN /\ \A t \in Recorded : txns[t].source # job[r].source
              /\ loaded' = [loaded EXCEPT ![r] = current[job[r].account]]
         ELSE /\ ~IsReversed(job[r].target)
              /\ txns[job[r].target].type \in {"INCOME", "EXPENSE"}
              /\ loaded' = loaded
  BY DEF LockSource, GoTo, Load
<1>2. SessionsTypeOK /\ Knows(r) /\ JobKnown(r)
  BY <1>1 DEF RunningInv, Knows, Running, Steps
<1>3. loaded' \in [Requests -> Int \cup {NoRecord}] /\ \A q \in Requests \ {r} : loaded'[q] = loaded[q]
  <2>1. CASE job[r].kind = "EXPENSE"
    <3>1. job[r].account \in Accounts
      BY <1>1, <1>2, <2>1, PostsFacts, LedgerAssumption DEF Posts, PostingKinds, Steps
    <3>2. QED
      BY <1>1, <1>2, <2>1, <3>1 DEF SessionsTypeOK, TypeOK
  <2>2. CASE job[r].kind # "EXPENSE"
    BY <1>1, <1>2, <2>2 DEF SessionsTypeOK
  <2>3. QED
    BY <2>1, <2>2
<1>4. step'[r] = "account" /\ OthersKeep(r)
  BY <1>1, <1>2, <1>3 DEF SessionsTypeOK, OthersKeep
<1>5. SessionsTypeOK'
  <2>1. TypeOK'
    BY <1>1, <1>2, TypeStep DEF SessionsTypeOK, vars
  <2>2. QED
    BY <1>1, <1>2, <1>3, <1>4, <2>1 DEF SessionsTypeOK
<1>6. ~Holds(r)' /\ ~InFlight(r)'
  BY <1>4 DEF Holds, InFlight
<1>7. Knows(r)'
  <2>1. job[r] \notin ReconciliationJobs
    BY <1>1, <1>2, JobKinds DEF JobKnown
  <2>2. Running(r)'
    BY <1>1, <1>2, <1>4, <1>6, <2>1 DEF Running, JobKnown, Recorded
  <2>3. CorrectionStands(r)' /\ ResolutionStands(r)'
    BY <1>1, <1>4 DEF CorrectionStands, ResolutionStands, IsReversed
  <2>4. Unposted(r)'
    <3>1. Posts(r)' => Posts(r)
      BY <1>1 DEF Posts, Steps
    <3>2. QED
      BY <1>1, <1>2, <3>1 DEF Knows, Unposted, Recorded
  <2>5. QED
    BY <2>2, <2>3, <2>4 DEF Knows
<1>8. ASSUME NEW q \in Requests \ {r}
      PROVE  RunningApart(r, q)'
  <2>1. AtAccount(q)' => ~SameSource(r, q)'
    BY <1>1, <1>4 DEF CanLockSource, Others, AtAccount, SameSource, OthersKeep
  <2>2. Posts(r)' = Posts(r) /\ Posts(q)' = Posts(q) /\ job' = job
    BY <1>1, <1>4 DEF Posts, Steps, OthersKeep
  <2>3. QED
    BY <1>6, <2>1, <2>2 DEF RunningApart, RunningInv
<1>9. QED
  BY <1>1, <1>4, <1>5, <1>7, <1>8, StatementRuns

LEMMA InsertChildRuns ==
    ASSUME RunningInv, NEW r \in Requests, InsertChild(r)
    PROVE  RunningInv'
<1>1. /\ step[r] = "child" /\ step' = [step EXCEPT ![r] = "account"]
      /\ UNCHANGED <<opening, current, txns, recs, job, loaded, rowId>>
  BY DEF InsertChild, GoTo
<1>2. SessionsTypeOK /\ Knows(r) /\ JobKnown(r)
  BY <1>1 DEF RunningInv, Knows, Running, Steps
<1>3. job[r].kind # "EXPENSE" /\ job[r].kind # "CORRECTION" /\ job[r] \notin ReconciliationJobs
  BY <1>1, <1>2, JobKinds DEF JobKnown, ReferencingKinds
<1>4. step'[r] = "account" /\ OthersKeep(r)
  BY <1>1, <1>2 DEF SessionsTypeOK, OthersKeep
<1>5. SessionsTypeOK'
  <2>1. TypeOK'
    BY <1>1, <1>2, TypeStep DEF SessionsTypeOK, vars
  <2>2. QED
    BY <1>1, <1>2, <1>4, <2>1 DEF SessionsTypeOK
<1>6. ~Holds(r)' /\ ~InFlight(r)' /\ Posts(r)' = Posts(r)
  BY <1>1, <1>4 DEF Holds, InFlight, Posts, Steps
<1>7. Knows(r)'
  <2>1. Running(r)'
    BY <1>1, <1>2, <1>3, <1>4, <1>6 DEF Running, JobKnown, Recorded
  <2>2. CorrectionStands(r)' /\ ResolutionStands(r)'
    BY <1>1, <1>3, <1>4 DEF CorrectionStands, ResolutionStands
  <2>3. Unposted(r)'
    BY <1>1, <1>2, <1>3, <1>6 DEF Knows, Unposted, Recorded
  <2>4. QED
    BY <2>1, <2>2, <2>3 DEF Knows
<1>8. ASSUME NEW q \in Requests \ {r}
      PROVE  RunningApart(r, q)'
  <2>1. ~SameSource(r, q)' /\ Posts(q)' = Posts(q)
    BY <1>1, <1>3, <1>4 DEF SameSource, Posts, OthersKeep
  <2>2. QED
    BY <1>1, <1>6, <2>1 DEF RunningApart, RunningInv
<1>9. QED
  BY <1>1, <1>4, <1>5, <1>7, <1>8, StatementRuns

LEMMA LockAccountRuns ==
    ASSUME RunningInv, NEW r \in Requests, LockAccount(r)
    PROVE  RunningInv'
<1>1. /\ step[r] = "account" /\ step' = [step EXCEPT ![r] = "locked"]
      /\ UNCHANGED <<opening, current, txns, recs, job, rowId>>
      /\ AccountOf(r) \in ActiveAccounts
      /\ loaded' = IF loaded[r] = NoRecord THEN [loaded EXCEPT ![r] = current[AccountOf(r)]] ELSE loaded
  BY DEF LockAccount, GoTo, Load
<1>2. SessionsTypeOK /\ Knows(r) /\ JobKnown(r)
  BY <1>1 DEF RunningInv, Knows, Running, Steps
<1>3. current[AccountOf(r)] \in Int
  BY <1>1, <1>2, LedgerAssumption DEF SessionsTypeOK, TypeOK
<1>4. /\ loaded' \in [Requests -> Int \cup {NoRecord}] /\ loaded'[r] \in Int
      /\ \A q \in Requests \ {r} : loaded'[q] = loaded[q]
  BY <1>1, <1>2, <1>3 DEF SessionsTypeOK
<1>5. step'[r] = "locked" /\ OthersKeep(r)
  BY <1>1, <1>2, <1>4 DEF SessionsTypeOK, OthersKeep
<1>6. SessionsTypeOK'
  <2>1. TypeOK'
    BY <1>1, <1>2, TypeStep DEF SessionsTypeOK, vars
  <2>2. QED
    BY <1>1, <1>2, <1>4, <1>5, <2>1 DEF SessionsTypeOK
<1>7. /\ ~InFlight(r)' /\ AtAccount(r)' = AtAccount(r) /\ Posts(r)' = Posts(r)
      /\ AtAccount(r) = TRUE
  BY <1>1, <1>5 DEF InFlight, AtAccount, Posts, Steps
<1>8. Knows(r)'
  <2>1. Running(r)'
    BY <1>1, <1>2, <1>4, <1>5, <1>7 DEF Running, JobKnown, Recorded
  <2>2. CorrectionStands(r)' /\ ResolutionStands(r)'
    BY <1>1, <1>2, <1>5, <1>7 DEF Knows, CorrectionStands, ResolutionStands, IsReversed
  <2>3. Unposted(r)'
    BY <1>1, <1>2, <1>7 DEF Knows, Unposted, Recorded
  <2>4. QED
    BY <2>1, <2>2, <2>3 DEF Knows
<1>9. ASSUME NEW q \in Requests \ {r}
      PROVE  RunningApart(r, q)'
  <2>1. SameSource(r, q)' = SameSource(r, q) /\ AtAccount(q)' = AtAccount(q) /\ Posts(q)' = Posts(q)
    BY <1>1, <1>5 DEF SameSource, AtAccount, Posts, OthersKeep
  <2>2. QED
    BY <1>1, <1>7, <2>1 DEF RunningApart, RunningInv
<1>10. QED
  BY <1>1, <1>5, <1>6, <1>8, <1>9, StatementRuns

LEMMA InsertRowRuns ==
    ASSUME RunningInv, NEW r \in Requests, NEW t \in TxnIds, InsertRow(r, t)
    PROVE  RunningInv'
<1>1. /\ step[r] = "locked" /\ step' = [step EXCEPT ![r] = "inserted"]
      /\ rowId' = [rowId EXCEPT ![r] = t]
      /\ UNCHANGED <<opening, current, txns, recs, job, loaded>>
      /\ job[r].kind # "OPENING" /\ t \in TxnIds \ Recorded
      /\ \A q \in Requests : rowId[q] # t
  BY DEF InsertRow, GoTo
<1>2. SessionsTypeOK /\ Knows(r) /\ JobKnown(r)
  BY <1>1 DEF RunningInv, Knows, Running, Steps
<1>3. step'[r] = "inserted" /\ rowId'[r] = t /\ OthersKeep(r)
  BY <1>1, <1>2 DEF SessionsTypeOK, OthersKeep
<1>4. SessionsTypeOK'
  <2>1. TypeOK'
    BY <1>1, <1>2, TypeStep DEF SessionsTypeOK, vars
  <2>2. QED
    BY <1>1, <1>2, <1>3, <2>1 DEF SessionsTypeOK
<1>5. /\ AtAccount(r)' = AtAccount(r) /\ Posts(r)' = Posts(r) /\ Holds(r)
      /\ AtAccount(r) = TRUE
  BY <1>1, <1>3 DEF Holds, AtAccount, Posts, Steps
<1>6. Knows(r)'
  <2>1. Running(r)'
    BY <1>1, <1>2, <1>3, <1>5 DEF Knows, Running, JobKnown, Recorded
  <2>2. CorrectionStands(r)' /\ ResolutionStands(r)'
    BY <1>1, <1>2, <1>3, <1>5 DEF Knows, CorrectionStands, ResolutionStands, IsReversed
  <2>3. Unposted(r)'
    BY <1>1, <1>2, <1>5 DEF Knows, Unposted, Recorded
  <2>4. QED
    BY <2>1, <2>2, <2>3 DEF Knows
<1>7. ASSUME NEW q \in Requests \ {r}
      PROVE  RunningApart(r, q)'
  <2>1. SameSource(r, q)' = SameSource(r, q) /\ AtAccount(q)' = AtAccount(q) /\ Posts(q)' = Posts(q)
    BY <1>1, <1>3 DEF SameSource, AtAccount, Posts, OthersKeep
  <2>2. rowId'[q] # rowId'[r]
    BY <1>1, <1>3 DEF OthersKeep
  <2>3. QED
    BY <1>1, <1>5, <2>1, <2>2 DEF RunningApart, RunningInv
<1>8. QED
  BY <1>1, <1>3, <1>4, <1>6, <1>7, StatementRuns

\* A request that ends knows nothing and is in nobody's way.
LEMMA Ends ==
    ASSUME SessionsTypeOK, TypeOK', NEW r \in Requests, Finish(r)
    PROVE  /\ SessionsTypeOK' /\ OthersKeep(r) /\ Knows(r)'
           /\ \A q \in Requests : RunningApart(r, q)'
<1>1. /\ job' = [job EXCEPT ![r] = NoRecord] /\ loaded' = [loaded EXCEPT ![r] = NoRecord]
      /\ rowId' = [rowId EXCEPT ![r] = NoTxn] /\ step' = [step EXCEPT ![r] = "idle"]
  BY DEF Finish, GoTo
<1>2. step'[r] = "idle" /\ job'[r] = NoRecord /\ OthersKeep(r)
  BY <1>1 DEF SessionsTypeOK, OthersKeep
<1>3. SessionsTypeOK'
  BY <1>1, <1>2 DEF SessionsTypeOK
<1>4. ~Holds(r)' /\ ~AtAccount(r)' /\ ~InFlight(r)' /\ ~Posts(r)'
  BY <1>2 DEF Holds, AtAccount, InFlight, Posts
<1>5. Knows(r)'
  BY <1>2, <1>4, NullAssumption
  DEF Knows, Running, JobKnown, CorrectionStands, Unposted, ResolutionStands
<1>6. QED
  BY <1>2, <1>3, <1>4, <1>5 DEF RunningApart

LEMMA RollbackRuns ==
    ASSUME RunningInv, NEW r \in Requests, Rollback(r)
    PROVE  RunningInv'
<1>1. Finish(r) /\ UNCHANGED <<opening, current, txns, recs>>
  BY DEF Rollback
<1>2. TypeOK'
  BY <1>1, TypeStep DEF RunningInv, SessionsTypeOK, vars
<1>3. QED
  BY <1>1, <1>2, Ends, StatementRuns DEF RunningInv

\* A request of the reconciliation services is in nobody's way.
LEMMA ReconcilingApart ==
    ASSUME NEW r \in Requests, step'[r] \in {"rows", "record"}
    PROVE  /\ ~Holds(r)' /\ ~AtAccount(r)' /\ ~InFlight(r)' /\ ~Posts(r)'
           /\ \A q \in Requests : RunningApart(r, q)'
<1>1. ~Holds(r)' /\ ~AtAccount(r)' /\ ~InFlight(r)' /\ ~Posts(r)'
  BY DEF Holds, AtAccount, InFlight, Posts, Steps
<1>2. QED
  BY <1>1 DEF RunningApart

LEMMA BeginReconciliationRuns ==
    ASSUME RunningInv, NEW r \in Requests, NEW j \in ReconciliationJobs, BeginReconciliation(r, j)
    PROVE  RunningInv'
<1>1. /\ job' = [job EXCEPT ![r] = j] /\ step' = [step EXCEPT ![r] = "rows"]
      /\ loaded' = [loaded EXCEPT ![r] = opening[j.account]]
      /\ UNCHANGED <<opening, current, txns, recs, rowId>>
  BY DEF BeginReconciliation, GoTo
<1>2. SessionsTypeOK
  BY DEF RunningInv
<1>3. opening[j.account] \in Int
  BY <1>2, OpeningType, JobKinds, LedgerAssumption DEF SessionsTypeOK, TypeOK
<1>4. job'[r] = j /\ step'[r] = "rows" /\ loaded'[r] \in Int /\ OthersKeep(r)
  BY <1>1, <1>2, <1>3 DEF SessionsTypeOK, OthersKeep
<1>5. SessionsTypeOK'
  <2>1. TypeOK'
    BY <1>1, <1>2, TypeStep DEF SessionsTypeOK, vars
  <2>2. \A q \in Requests : step'[q] = "idle" <=> job'[q] = NoRecord
    BY <1>2, <1>4, NullAssumption DEF SessionsTypeOK, OthersKeep
  <2>3. QED
    BY <1>1, <1>2, <1>3, <2>1, <2>2 DEF SessionsTypeOK
<1>6. Knows(r)'
  BY <1>4, ReconcilingApart
  DEF Knows, Running, CorrectionStands, Unposted, ResolutionStands, Steps
<1>7. QED
  BY <1>1, <1>4, <1>5, <1>6, ReconcilingApart, StatementRuns

LEMMA AddUpRowsRuns ==
    ASSUME RunningInv, NEW r \in Requests, AddUpRows(r)
    PROVE  RunningInv'
<1> DEFINE a == job[r].account
           sum == loaded[r] + Total(Unreversed("INCOME", a)) - Total(Unreversed("EXPENSE", a))
<1>1. SessionsTypeOK /\ Knows(r)
  BY DEF RunningInv
<1>2. /\ step[r] = "rows" /\ step' = [step EXCEPT ![r] = "record"]
      /\ loaded' = [loaded EXCEPT ![r] = sum]
      /\ UNCHANGED <<opening, current, txns, recs, job, rowId>>
  BY <1>1 DEF AddUpRows, GoTo, SessionsTypeOK
<1>3. job[r] \in ReconciliationJobs /\ loaded[r] \in Int
  BY <1>1, <1>2 DEF Knows, Running
<1>4. sum \in Int
  <2>1. Total(Unreversed("INCOME", a)) \in Nat /\ Total(Unreversed("EXPENSE", a)) \in Nat
    BY <1>1, PostedTotals DEF SessionsTypeOK
  <2>2. QED
    BY <1>3, <2>1
<1> HIDE DEF sum
<1>5. step'[r] = "record" /\ loaded'[r] \in Int /\ OthersKeep(r)
  BY <1>1, <1>2, <1>4 DEF SessionsTypeOK, OthersKeep
<1>6. SessionsTypeOK'
  <2>1. TypeOK'
    BY <1>1, <1>2, TypeStep DEF SessionsTypeOK, vars
  <2>2. QED
    BY <1>1, <1>2, <1>4, <1>5, <2>1 DEF SessionsTypeOK
<1>7. Knows(r)'
  <2>1. job[r] \notin ResolutionJobs
    BY <1>3, JobKinds
  <2>2. QED
    BY <1>2, <1>3, <1>5, <2>1, ReconcilingApart
    DEF Knows, Running, CorrectionStands, Unposted, ResolutionStands, Steps
<1>8. QED
  BY <1>2, <1>5, <1>6, <1>7, ReconcilingApart, StatementRuns

LEMMA BeginResolutionRuns ==
    ASSUME RunningInv, NEW r \in Requests, NEW j \in ResolutionJobs, BeginResolution(r, j)
    PROVE  RunningInv'
<1>1. /\ job' = [job EXCEPT ![r] = j] /\ step' = [step EXCEPT ![r] = "record"]
      /\ recs[j.account][j.date] # NoRecord
      /\ recs[j.account][j.date].statement = recs[j.account][j.date].book
      /\ UNCHANGED <<opening, current, txns, recs, loaded, rowId>>
  BY DEF BeginResolution, GoTo
<1>2. SessionsTypeOK
  BY DEF RunningInv
<1>3. job'[r] = j /\ step'[r] = "record" /\ OthersKeep(r)
  BY <1>1, <1>2 DEF SessionsTypeOK, OthersKeep
<1>4. SessionsTypeOK'
  <2>1. TypeOK'
    BY <1>1, <1>2, TypeStep DEF SessionsTypeOK, vars
  <2>2. \A q \in Requests : step'[q] = "idle" <=> job'[q] = NoRecord
    BY <1>2, <1>3, NullAssumption DEF SessionsTypeOK, OthersKeep
  <2>3. QED
    BY <1>1, <1>2, <2>1, <2>2 DEF SessionsTypeOK
<1>5. Knows(r)'
  <2>1. recs[j.account][j.date] \in RecordRows
    BY <1>1, <1>2, JobKinds DEF SessionsTypeOK, TypeOK, RecordRows
  <2>2. ResolutionStands(r)'
    BY <1>1, <1>3, <2>1 DEF ResolutionStands, Agreeing
  <2>3. j \notin ReconciliationJobs
    BY JobKinds
  <2>4. QED
    BY <1>3, <2>2, <2>3, ReconcilingApart
    DEF Knows, Running, CorrectionStands, Unposted, Steps
<1>6. QED
  BY <1>1, <1>3, <1>4, <1>5, ReconcilingApart, StatementRuns

\* A commit of the reconciliation services writes one record.
LEMMA RecordWritten ==
    ASSUME RunningInv, NEW r \in Requests, Finish(r), UNCHANGED <<opening, current, txns>>,
           NEW a \in Accounts, NEW d \in Dates, NEW rec \in RecordRows,
           recs' = [recs EXCEPT ![a][d] = rec],
           Agreeing(a, d) => rec.statement = rec.book,
           rec.statement = rec.book => rec.status \in {"MATCHED", "RESOLVED"}
    PROVE  RunningInv'
<1>1. SessionsTypeOK /\ TypeOK
  BY DEF RunningInv, SessionsTypeOK
<1>2. /\ recs'[a][d] = rec
      /\ \A b \in Accounts, e \in Dates : b # a \/ e # d => recs'[b][e] = recs[b][e]
  BY <1>1 DEF TypeOK
<1>3. TypeOK'
  BY <1>1 DEF TypeOK, RecordRows, Recorded
<1>4. \A b \in Accounts, e \in Dates : Agreeing(b, e) => Agreeing(b, e)'
  BY <1>2 DEF Agreeing
<1>5. TablesSound'
  <2>1. ReversalPairing' /\ PostedOnce'
    BY DEF RunningInv, TablesSound, ReversalPairing, ReversedRowsLinked, ReversalRowsLinked,
           IsReversed, PostedOnce, Recorded
  <2>2. AgreeingMatched'
    BY <1>2 DEF RunningInv, TablesSound, AgreeingMatched, Agreeing
  <2>3. QED
    BY <2>1, <2>2 DEF TablesSound
<1>6. /\ SessionsTypeOK' /\ OthersKeep(r) /\ Knows(r)'
      /\ \A q \in Requests : RunningApart(r, q)'
  BY <1>1, <1>3, Ends
<1>7. ASSUME NEW q \in Requests \ {r}
      PROVE  Knows(q)'
  <2>1. /\ job'[q] = job[q] /\ step'[q] = step[q] /\ loaded'[q] = loaded[q] /\ rowId'[q] = rowId[q]
        /\ Knows(q)
    BY <1>6 DEF OthersKeep, RunningInv
  <2>2. /\ Holds(q)' = Holds(q) /\ AtAccount(q)' = AtAccount(q) /\ InFlight(q)' = InFlight(q)
        /\ Posts(q)' = Posts(q) /\ Recorded' = Recorded
    BY <2>1 DEF Holds, AtAccount, InFlight, Posts, Recorded
  <2>3. Running(q)'
    BY <2>1, <2>2 DEF Knows, Running, JobKnown
  <2>4. CorrectionStands(q)' /\ Unposted(q)'
    BY <2>1, <2>2 DEF Knows, CorrectionStands, Unposted, IsReversed
  <2>5. ResolutionStands(q)'
    BY <1>4, <2>1, JobKinds DEF Knows, ResolutionStands
  <2>6. QED
    BY <2>3, <2>4, <2>5 DEF Knows
<1>8. QED
  BY <1>5, <1>6, <1>7, OneRuns

LEMMA CommitReconciliationRuns ==
    ASSUME RunningInv, NEW r \in Requests, CommitReconciliation(r)
    PROVE  RunningInv'
<1> DEFINE a == job[r].account
           d == job[r].date
           statement == job[r].statement
           rec == [book |-> loaded[r], statement |-> statement,
                   status |-> IF statement = loaded[r] THEN "MATCHED" ELSE "ADJUSTMENT_REQUIRED"]
<1>1. /\ step[r] = "record" /\ job[r].kind = "RECONCILIATION" /\ recs[a][d] = NoRecord
      /\ recs' = [recs EXCEPT ![a][d] = rec]
      /\ Finish(r) /\ UNCHANGED <<opening, current, txns>>
  BY DEF CommitReconciliation
<1>2. job[r] \in ReconciliationJobs
  BY <1>1, JobKinds DEF RunningInv, Knows, Running
<1>3. /\ loaded[r] \in Int
      /\ a \in Accounts /\ d \in Dates /\ statement \in Statements
  BY <1>2, JobKinds, LedgerAssumption DEF RunningInv, Knows, Running
<1>4. /\ rec \in RecordRows
      /\ rec.statement = rec.book => rec.status \in {"MATCHED", "RESOLVED"}
  BY <1>3 DEF RecordRows
<1> HIDE DEF rec, a, d
<1>5. ~Agreeing(a, d)
  BY <1>1, NullAssumption DEF Agreeing
<1>6. QED
  BY <1>1, <1>3, <1>4, <1>5, RecordWritten

LEMMA CommitResolutionRuns ==
    ASSUME RunningInv, NEW r \in Requests, CommitResolution(r)
    PROVE  RunningInv'
<1> DEFINE a == job[r].account
           d == job[r].date
           rec == [recs[a][d] EXCEPT !.status = "RESOLVED"]
<1>1. /\ step[r] = "record" /\ job[r].kind = "RESOLUTION"
      /\ recs' = [recs EXCEPT ![a][d] = rec]
      /\ Finish(r) /\ UNCHANGED <<opening, current, txns>>
  BY DEF CommitResolution
<1>2. job[r] \in ResolutionJobs
  BY <1>1, JobKinds DEF RunningInv, Knows, Running
<1>3. a \in Accounts /\ d \in Dates /\ Agreeing(a, d)
  BY <1>1, <1>2, JobKinds DEF RunningInv, Knows, ResolutionStands
<1>4. /\ rec \in RecordRows /\ rec.status = "RESOLVED"
      /\ rec.statement = rec.book
  BY <1>3 DEF Agreeing, RecordRows
<1> HIDE DEF rec, a, d
<1>5. QED
  BY <1>1, <1>3, <1>4, RecordWritten

\* A commit that adds a row leaves what the other requests know.
LEMMA RowWritten ==
    ASSUME RunningInv, NEW r \in Requests, Effect(r), AtAccount(r), Finish(r), TypeOK',
           ReversalPairing'
    PROVE  RunningInv'
<1>1. SessionsTypeOK /\ TypeOK /\ Knows(r) /\ recs' = recs
  BY DEF RunningInv, SessionsTypeOK, Effect
<1>2. /\ SessionsTypeOK' /\ OthersKeep(r) /\ Knows(r)'
      /\ \A q \in Requests : RunningApart(r, q)'
  BY <1>1, Ends
<1>3. job[r].kind \in PostingKinds => Posts(r)
  BY DEF Posts, AtAccount, Steps
<1>4. \A t \in Recorded : job[r].kind \in PostingKinds => txns[t].source # job[r].source
  BY <1>1, <1>3 DEF Knows, Unposted
<1>5. \A t \in Recorded : txns'[t].source = txns[t].source /\ txns'[t].type = txns[t].type
  BY DEF Effect
<1>6. \A t \in Recorded' \ Recorded :
          /\ t = rowId[r] /\ InFlight(r)
          /\ txns'[t].source = (IF job[r].kind \in PostingKinds THEN job[r].source ELSE NoSource)
  BY DEF Effect
<1>7. PostedOnce'
  BY <1>4, <1>5, <1>6 DEF RunningInv, TablesSound, PostedOnce
<1>8. TablesSound'
  BY <1>1, <1>7 DEF RunningInv, TablesSound, AgreeingMatched, Agreeing
<1>9. ASSUME NEW q \in Requests \ {r}
      PROVE  Knows(q)'
  <2>1. /\ job'[q] = job[q] /\ step'[q] = step[q] /\ loaded'[q] = loaded[q] /\ rowId'[q] = rowId[q]
        /\ Knows(q) /\ RunningApart(r, q)
    BY <1>2 DEF OthersKeep, RunningInv
  <2>2. /\ Holds(q)' = Holds(q) /\ AtAccount(q)' = AtAccount(q) /\ InFlight(q)' = InFlight(q)
        /\ Posts(q)' = Posts(q) /\ (AtAccount(q) => step[q] # "idle" /\ step[q] \in Steps)
    BY <2>1 DEF Holds, AtAccount, InFlight, Posts, Steps
  <2>3. Running(q)'
    <3>1. InFlight(q) => rowId[q] \in TxnIds \ Recorded'
      BY <1>6, <2>1 DEF Knows, Running, RunningApart
    <3>2. step[q] \in Steps => JobKnown(q)'
      BY <2>1 DEF Knows, Running, JobKnown, Effect
    <3>3. QED
      BY <2>1, <2>2, <3>1, <3>2 DEF Knows, Running
  <2>4. CorrectionStands(q)'
    <3>1. SUFFICES ASSUME AtAccount(q), job[q].kind = "CORRECTION"
          PROVE  /\ txns'[job[q].target].reversedBy = NoTxn
                 /\ txns'[job[q].target].type \in {"INCOME", "EXPENSE"}
      BY <2>1, <2>2 DEF CorrectionStands, IsReversed
    <3>2. job[q].target \in Recorded
      BY <2>1, <2>2, <3>1 DEF Knows, Running, JobKnown
    <3>3. ~(job[r].kind = "CORRECTION" /\ job[r].target = job[q].target)
      BY <2>1, <3>1 DEF RunningApart, SameSource
    <3>4. ~IsReversed(job[q].target) /\ txns[job[q].target].type \in {"INCOME", "EXPENSE"}
      BY <2>1, <3>1 DEF Knows, CorrectionStands
    <3>5. \A x \in Recorded : (job[r].kind = "CORRECTION" /\ job[r].target = x)
                              \/ (txns'[x].reversedBy = NoTxn <=> txns[x].reversedBy = NoTxn)
      BY DEF Effect, IsReversed
    <3>6. QED
      BY <1>5, <3>2, <3>3, <3>4, <3>5 DEF IsReversed
  <2>5. Unposted(q)'
    <3>1. SUFFICES ASSUME Posts(q), job[q].kind = "EXPENSE" => AtAccount(q), NEW t \in Recorded'
          PROVE  txns'[t].source # job[q].source
      BY <2>1, <2>2 DEF Unposted
    <3>2. CASE t \in Recorded
      BY <1>5, <2>1, <3>1, <3>2 DEF Knows, Unposted
    <3>3. CASE t \notin Recorded /\ job[r].kind \in PostingKinds
      BY <1>3, <1>6, <2>1, <3>1, <3>3 DEF RunningApart, SameSource
    <3>4. CASE t \notin Recorded /\ job[r].kind \notin PostingKinds
      <4>1. txns'[t].source = NoSource
        BY <1>6, <3>4
      <4>2. job[q].source \in Sources
        BY <2>1, <3>1, PostsFacts
      <4>3. QED
        BY <4>1, <4>2, LedgerAssumption
    <3>5. QED
      BY <3>2, <3>3, <3>4
  <2>6. ResolutionStands(q)'
    BY <1>1, <2>1 DEF Knows, ResolutionStands, Agreeing
  <2>7. QED
    BY <2>3, <2>4, <2>5, <2>6 DEF Knows
<1>10. QED
  BY <1>2, <1>8, <1>9, OneRuns

LEMMA CommitPostingRuns ==
    ASSUME RunningInv, NEW r \in Requests, CommitPosting(r)
    PROVE  RunningInv'
<1> DEFINE type == TypeOf(job[r].kind)
           row == NewTransaction(type, job[r].account, job[r].amount, job[r].source, job[r].ref)
           u == rowId[r]
           a == job[r].account
           new == loaded[r] + Signed(type, job[r].amount)
<1>1. /\ InFlight(r) /\ step[r] = "inserted" /\ job[r].kind \in PostingKinds /\ Finish(r)
      /\ current' = [current EXCEPT ![a] = new] /\ txns' = Insert(txns, u, row)
      /\ opening' = opening /\ recs' = recs
  BY DEF CommitPosting, InFlight
<1>2. TypeOK /\ TablesSound /\ Knows(r)
  BY DEF RunningInv, SessionsTypeOK
<1>3. /\ Posts(r) /\ Holds(r) /\ AtAccount(r)
      /\ job[r].kind # "CORRECTION" /\ AccountOf(r) = a /\ RefOf(r) = job[r].ref
  BY <1>1 DEF Posts, Holds, AtAccount, Steps, PostingKinds, IncomeKinds, AccountOf, RefOf
<1>4. /\ a \in Accounts /\ job[r].amount \in Amounts
      /\ job[r].source \in Sources /\ job[r].ref \in Refs \cup {NoRef}
  BY <1>2, <1>3, PostsFacts, LedgerAssumption
<1>5. type \in {"INCOME", "EXPENSE"}
  BY DEF TypeOf
<1>6. new \in Int
  BY <1>2, <1>3, <1>4, AmountType DEF Knows, Running
<1>7. row.source = job[r].source /\ row.ref = job[r].ref
  BY DEF NewTransaction
<1> HIDE DEF type
<1>8. row \in Transaction /\ row.type = type /\ row.reversedBy = NoTxn
  BY <1>4, <1>5, PostingRow
<1> HIDE DEF row, new
<1>9. u \in TxnIds \ Recorded
  BY <1>1, <1>2 DEF Knows, Running
<1>10. /\ Recorded' = Recorded \cup {u} /\ txns' \in [Recorded' -> Transaction]
       /\ txns'[u] = row /\ \A x \in Recorded : txns'[x] = txns[x]
  BY <1>1, <1>2, <1>8, <1>9, PostingTable DEF Recorded
<1>11. TypeOK'
  <2>1. current' \in [Accounts -> Int]
    BY <1>1, <1>2, <1>6 DEF TypeOK
  <2>2. QED
    BY <1>1, <1>2, <1>9, <1>10, <2>1 DEF TypeOK
<1>12. Effect(r)
  <2>1. \A b \in Accounts : b # AccountOf(r) => current'[b] = current[b] /\ opening'[b] = opening[b]
    BY <1>1, <1>2, <1>3 DEF TypeOK
  <2>2. \A t \in Recorded : IsReversed(t)' <=> IsReversed(t)
    BY <1>10 DEF IsReversed
  <2>3. QED
    BY <1>1, <1>3, <1>7, <1>10, <2>1, <2>2 DEF Effect
<1>13. ReversalPairing'
  <2>1. ReversedRowsLinked' /\ ReversalRowsLinked'
    BY <1>2, <1>5, <1>8, <1>9, <1>10
    DEF TablesSound, ReversalPairing, ReversedRowsLinked, ReversalRowsLinked, IsReversed
  <2>2. QED
    BY <2>1 DEF ReversalPairing
<1>14. QED
  BY <1>1, <1>3, <1>11, <1>12, <1>13, RowWritten

\* A new REVERSAL row linked from an unreversed one keeps the rows paired.
LEMMA ReversalPairs ==
    ASSUME ReversalPairing, NEW t \in Recorded, NEW u, u \notin Recorded, u # NoTxn,
           txns[t].reversedBy = NoTxn, txns[t].type \in {"INCOME", "EXPENSE"},
           Recorded' = Recorded \cup {u},
           \A x \in Recorded \ {t} : txns'[x] = txns[x],
           txns'[t].type = txns[t].type, txns'[t].account = txns[t].account,
           txns'[t].amount = txns[t].amount, txns'[t].reversedBy = u,
           txns'[u].type = "REVERSAL", txns'[u].account = txns[t].account,
           txns'[u].amount = txns[t].amount, txns'[u].reversedBy = NoTxn
    PROVE  ReversalPairing'
<1> USE DEF ReversalPairing, ReversedRowsLinked, ReversalRowsLinked, IsReversed
<1>1. \A x \in Recorded : txns[x].reversedBy # u
  OBVIOUS
<1>2. ReversedRowsLinked'
  OBVIOUS
<1>3. ReversalRowsLinked'
  BY <1>1
<1>4. QED
  BY <1>2, <1>3

LEMMA CommitCorrectionRuns ==
    ASSUME RunningInv, NEW r \in Requests, CommitCorrection(r)
    PROVE  RunningInv'
<1> DEFINE t == job[r].target
           u == rowId[r]
           a == txns[t].account
           new == loaded[r] - Signed(txns[t].type, txns[t].amount)
           row == NewTransaction("REVERSAL", txns[t].account, txns[t].amount,
                                 NoSource, ReversalRef(t))
<1>1. /\ InFlight(r) /\ step[r] = "inserted" /\ job[r].kind = "CORRECTION" /\ Finish(r)
      /\ current' = [current EXCEPT ![a] = new] /\ txns' = WithReversal(txns, t, u)
      /\ opening' = opening /\ recs' = recs
  BY DEF CommitCorrection, InFlight
<1>2. TypeOK /\ TablesSound /\ Knows(r)
  BY DEF RunningInv, SessionsTypeOK
<1>3. /\ Holds(r) /\ AtAccount(r) /\ JobKnown(r) /\ t \in Recorded
      /\ job[r].kind \notin PostingKinds /\ AccountOf(r) = a /\ RefOf(r) = ReversalRef(t)
  BY <1>1, <1>2 DEF Knows, Running, JobKnown, Holds, AtAccount, Steps, PostingKinds, IncomeKinds,
                    AccountOf, RefOf
<1>4. txns[t] \in Transaction /\ a \in Accounts /\ txns[t].amount \in Amounts
  BY <1>2, <1>3 DEF TypeOK, Transaction
<1>5. new \in Int
  BY <1>2, <1>3, <1>4, AmountType DEF Knows, Running
<1>6. u \in TxnIds \ Recorded /\ u # t /\ u # NoTxn
  BY <1>1, <1>2, <1>3, LedgerAssumption DEF Knows, Running
<1>7. ~IsReversed(t) /\ txns[t].type \in {"INCOME", "EXPENSE"}
  BY <1>1, <1>2, <1>3 DEF Knows, CorrectionStands
<1>8. /\ Recorded' = Recorded \cup {u} /\ txns' \in [Recorded' -> Transaction]
      /\ txns'[u] = row /\ txns'[t] = [txns[t] EXCEPT !.reversedBy = u]
      /\ \A x \in Recorded \ {t} : txns'[x] = txns[x]
  BY <1>1, <1>2, <1>3, <1>6, ReversalTable DEF Recorded
<1>9. /\ row.type = "REVERSAL" /\ row.account = a /\ row.amount = txns[t].amount
      /\ row.source = NoSource /\ row.ref = ReversalRef(t) /\ row.reversedBy = NoTxn
  BY DEF NewTransaction
<1>10. /\ txns'[t].type = txns[t].type /\ txns'[t].account = a
       /\ txns'[t].amount = txns[t].amount /\ txns'[t].reversedBy = u
       /\ txns'[t].source = txns[t].source /\ txns'[t].ref = txns[t].ref
  BY <1>4, <1>8 DEF Transaction
<1> HIDE DEF row, new
<1>11. TypeOK'
  <2>1. current' \in [Accounts -> Int]
    BY <1>1, <1>2, <1>5 DEF TypeOK
  <2>2. QED
    BY <1>1, <1>2, <1>6, <1>8, <2>1 DEF TypeOK
<1>12. Effect(r)
  <2>1. \A b \in Accounts : b # AccountOf(r) => current'[b] = current[b] /\ opening'[b] = opening[b]
    BY <1>1, <1>2, <1>3 DEF TypeOK
  <2>2. \A x \in Recorded : /\ IsReversed(x) => IsReversed(x)'
                            /\ x = t \/ (IsReversed(x)' <=> IsReversed(x))
    BY <1>7, <1>8 DEF IsReversed
  <2>3. \A x \in Recorded : /\ txns'[x].account = txns[x].account /\ txns'[x].type = txns[x].type
                            /\ txns'[x].source = txns[x].source /\ txns'[x].ref = txns[x].ref
    BY <1>8, <1>10
  <2>4. QED
    BY <1>1, <1>3, <1>8, <1>9, <2>1, <2>2, <2>3 DEF Effect
<1>13. ReversalPairing'
  <2>1. ReversalPairing /\ txns[t].reversedBy = NoTxn
    BY <1>2, <1>7 DEF TablesSound, IsReversed
  <2>2. txns'[u].type = "REVERSAL" /\ txns'[u].account = a /\ txns'[u].amount = txns[t].amount
        /\ txns'[u].reversedBy = NoTxn
    BY <1>8, <1>9
  <2>3. QED
    BY <1>3, <1>6, <1>7, <1>8, <1>10, <2>1, <2>2, ReversalPairs
<1>14. QED
  BY <1>1, <1>3, <1>11, <1>12, <1>13, RowWritten

LEMMA CommitOpeningRuns ==
    ASSUME RunningInv, NEW r \in Requests, CommitOpening(r)
    PROVE  RunningInv'
<1> DEFINE a == job[r].account
           new == loaded[r] + (job[r].new - opening[a])
<1>1. /\ step[r] = "locked" /\ job[r].kind = "OPENING" /\ Finish(r)
      /\ opening' = [opening EXCEPT ![a] = job[r].new]
      /\ current' = [current EXCEPT ![a] = new] /\ txns' = txns /\ recs' = recs
  BY DEF CommitOpening
<1>2. TypeOK /\ TablesSound /\ Knows(r)
  BY DEF RunningInv, SessionsTypeOK
<1>3. Holds(r) /\ AtAccount(r) /\ JobKnown(r) /\ AccountOf(r) = a
  BY <1>1, <1>2 DEF Knows, Running, Holds, AtAccount, Steps, AccountOf
<1>4. a \in Accounts /\ job[r].new \in Openings
  BY <1>1, <1>2, <1>3, JobFacts, LedgerAssumption
<1>5. new \in Int
  <2>1. opening[a] \in Openings
    BY <1>2, <1>4 DEF TypeOK
  <2>2. loaded[r] \in Int
    BY <1>2, <1>3 DEF Knows, Running
  <2>3. Openings \subseteq Int
    BY LedgerAssumption
  <2>4. opening[a] \in Int /\ job[r].new \in Int
    BY <1>4, <2>1, <2>3
  <2>5. QED
    BY <2>2, <2>4
<1> HIDE DEF new
<1>6. TypeOK'
  BY <1>1, <1>2, <1>4, <1>5 DEF TypeOK, Recorded
<1>7. Effect(r)
  <2>1. \A b \in Accounts : b # AccountOf(r) => current'[b] = current[b] /\ opening'[b] = opening[b]
    BY <1>1, <1>2, <1>3 DEF TypeOK
  <2>2. QED
    BY <1>1, <2>1 DEF Effect, Recorded, IsReversed
<1>8. ReversalPairing'
  BY <1>1, <1>2 DEF TablesSound, ReversalPairing, ReversedRowsLinked, ReversalRowsLinked,
                    IsReversed, Recorded
<1>9. QED
  BY <1>1, <1>3, <1>6, <1>7, <1>8, RowWritten

\* What requests of every kind know of each other holds in every reachable state.
THEOREM EveryKindKnows == SessionsSpec => []RunningInv
<1>1. SessionsInit => RunningInv
  <2> SUFFICES ASSUME SessionsInit
               PROVE  RunningInv
    OBVIOUS
  <2>1. /\ Init /\ txns = [t \in {} |-> NoRecord] /\ recs = [a \in Accounts |-> [d \in Dates |-> NoRecord]]
        /\ \A r \in Requests : step[r] = "idle" /\ job[r] = NoRecord
    BY DEF SessionsInit, Init
  <2>2. SessionsTypeOK
    BY <2>1, InitTyped DEF SessionsInit, SessionsTypeOK
  <2>3. TablesSound
    BY <2>1, NullAssumption DEF TablesSound, ReversalPairing, ReversedRowsLinked, ReversalRowsLinked,
       PostedOnce, AgreeingMatched, Agreeing, Recorded
  <2>4. \A r \in Requests : ~Holds(r) /\ ~AtAccount(r) /\ ~InFlight(r) /\ ~Posts(r)
    BY <2>1 DEF Holds, AtAccount, InFlight, Posts
  <2>5. \A r \in Requests : Knows(r)
    BY <2>1, <2>4, NullAssumption
    DEF Knows, Running, JobKnown, CorrectionStands, Unposted, ResolutionStands
  <2>6. \A r, q \in Requests : RunningApart(r, q)
    BY <2>4 DEF RunningApart
  <2>7. QED
    BY <2>2, <2>3, <2>5, <2>6 DEF RunningInv
<1>2. RunningInv /\ [SessionsNext]_sessionVars => RunningInv'
  <2> SUFFICES ASSUME RunningInv, [SessionsNext]_sessionVars
               PROVE  RunningInv'
    OBVIOUS
  <2>1. ASSUME NEW r \in Requests, Work(r)
        PROVE  RunningInv'
    BY <2>1, BeginRuns, LockSourceRuns, InsertChildRuns, LockAccountRuns, InsertRowRuns,
       CommitPostingRuns, CommitCorrectionRuns, CommitOpeningRuns, RollbackRuns DEF Work
  <2>2. ASSUME NEW r \in Requests, Reconciliation(r)
        PROVE  RunningInv'
    BY <2>2, BeginReconciliationRuns, BeginResolutionRuns, AddUpRowsRuns,
       CommitReconciliationRuns, CommitResolutionRuns DEF Reconciliation
  <2>3. CASE UNCHANGED sessionVars
    <3>1. UNCHANGED <<opening, current, txns, recs>> /\ UNCHANGED <<job, step, loaded, rowId>>
      BY <2>3 DEF sessionVars
    <3>2. SessionsTypeOK' /\ TablesSound'
      BY <3>1 DEF RunningInv, SessionsTypeOK, TypeOK, TablesSound, ReversalPairing, ReversedRowsLinked,
         ReversalRowsLinked, IsReversed, PostedOnce, AgreeingMatched, Agreeing, Recorded
    <3>3. \A q \in Requests : Knows(q)'
      BY <3>1, QuietKnows DEF RunningInv
    <3>4. \A p, q \in Requests : p # q => RunningApart(p, q)'
      BY <3>1, StillApart DEF RunningInv
    <3>5. QED
      BY <3>2, <3>3, <3>4 DEF RunningInv
  <2>4. QED
    BY <2>1, <2>2, <2>3 DEF SessionsNext
<1>3. QED
  BY <1>1, <1>2, PTL DEF SessionsSpec

\* Tables and requests keep their shape for any number of requests of any kind.
THEOREM SessionsTypeCorrect == SessionsSpec => []SessionsTypeOK
<1>1. RunningInv => SessionsTypeOK
  BY DEF RunningInv
<1>2. QED
  BY <1>1, EveryKindKnows, PTL

\* No expense is paid and no income recorded twice, however requests overlap and
\* whatever has been reversed in between.
THEOREM NothingPostedTwice == SessionsSpec => []PostedOnce
<1>1. RunningInv => PostedOnce
  BY DEF RunningInv, TablesSound
<1>2. QED
  BY <1>1, EveryKindKnows, PTL

\* Reversals and reversed rows stay paired under requests of every kind.
THEOREM ConcurrentReversalsPaired == SessionsSpec => []ReversalPairing
<1>1. RunningInv => ReversalPairing
  BY DEF RunningInv, TablesSound
<1>2. QED
  BY <1>1, EveryKindKnows, PTL

\* A reconciliation commits only where no record is, and a resolution resolves only
\* a record that was made without a difference.
LEMMA RecordStands ==
    ASSUME RunningInv, [SessionsNext]_sessionVars,
           NEW a \in Accounts, NEW d \in Dates, recs[a][d] # NoRecord
    PROVE  \/ recs'[a][d] = recs[a][d]
           \/ /\ recs'[a][d] = [recs[a][d] EXCEPT !.status = "RESOLVED"]
              /\ recs[a][d].status = "MATCHED"
<1>1. TypeOK
  BY DEF RunningInv, SessionsTypeOK
<1>2. ASSUME NEW r \in Requests, CommitReconciliation(r)
      PROVE  recs'[a][d] = recs[a][d]
  <2>1. /\ recs[job[r].account][job[r].date] = NoRecord
        /\ \E rec : recs' = [recs EXCEPT ![job[r].account][job[r].date] = rec]
    BY <1>2 DEF CommitReconciliation
  <2>2. QED
    BY <1>1, <2>1 DEF TypeOK
<1>3. ASSUME NEW r \in Requests, CommitResolution(r), recs'[a][d] # recs[a][d]
      PROVE  /\ recs'[a][d] = [recs[a][d] EXCEPT !.status = "RESOLVED"]
             /\ recs[a][d].status = "MATCHED"
  <2>1. /\ step[r] = "record" /\ job[r].kind = "RESOLUTION"
        /\ recs' = [recs EXCEPT ![job[r].account][job[r].date].status = "RESOLVED"]
    BY <1>3 DEF CommitResolution
  <2>2. job[r] \in ResolutionJobs
    BY <2>1, JobKinds DEF RunningInv, Knows, Running
  <2>3. Agreeing(job[r].account, job[r].date)
    BY <2>1, <2>2 DEF RunningInv, Knows, ResolutionStands
  <2>4. a = job[r].account /\ d = job[r].date
    BY <1>1, <1>3, <2>1 DEF TypeOK
  <2>5. recs'[a][d] = [recs[a][d] EXCEPT !.status = "RESOLVED"]
    BY <1>1, <2>1, <2>4 DEF TypeOK
  <2>6. recs[a][d] \in RecordRows /\ recs[a][d].status \in {"MATCHED", "RESOLVED"}
    BY <2>3, <2>4 DEF RunningInv, TablesSound, AgreeingMatched, Agreeing
  <2>7. recs[a][d].status # "RESOLVED"
    BY <1>3, <2>5, <2>6 DEF RecordRows
  <2>8. QED
    BY <2>5, <2>6, <2>7
<1>4. \/ recs' = recs
      \/ \E r \in Requests : CommitReconciliation(r) \/ CommitResolution(r)
  BY DEF SessionsNext, Work, Reconciliation, sessionVars, Begin, LockSource, InsertChild, LockAccount,
         InsertRow, CommitPosting, CommitCorrection, CommitOpening, Rollback, BeginReconciliation,
         BeginResolution, AddUpRows
<1>5. QED
  BY <1>2, <1>3, <1>4

\* What a reconciliation has found stays, but for its one way from MATCHED to
\* RESOLVED, whatever else the requests do.
THEOREM RecordsAlwaysStand == SessionsSpec => ReconciliationsStand
<1>1. RunningInv /\ [SessionsNext]_sessionVars =>
        [\A a \in Accounts, d \in Dates : recs[a][d] # NoRecord =>
          \/ recs'[a][d] = recs[a][d]
          \/ recs'[a][d] = [recs[a][d] EXCEPT !.status = "RESOLVED"]
             /\ recs[a][d].status = "MATCHED"]_sessionVars
  BY RecordStands
<1>2. QED
  BY <1>1, EveryKindKnows, PTL DEF SessionsSpec, ReconciliationsStand

-----------------------------------------------------------------------------
(***************************************************************************)
(* Waiting requests.  A wait leads to a request that is further on, but    *)
(* for one that asks to turn its KEY SHARE lock of the account into FOR    *)
(* UPDATE while another holds the same: source rows come before the        *)
(* account, and the account before the unique index.                       *)
(***************************************************************************)
\* In a set of requests each of which waits for one of the set, a member that another
\* one waits for is itself at the account: nobody in it has got the account's lock.
LEMMA AwaitedAtAccount ==
    ASSUME NEW S, \A r \in S : \E q \in S : WaitsFor(r, q),
           NEW r \in S, NEW q \in S, WaitsFor(r, q)
    PROVE  step[q] = "account"
<1>1. \A p \in S : step[p] \in {"child", "account", "record", "source", "locked"}
  BY DEF WaitsFor, WaitsForAccount
<1>2. \A p \in S : step[p] # "locked"
  BY <1>1 DEF WaitsFor, WaitsForAccount, InFlight
<1>3. AtAccount(q)
  BY <1>1, <1>2 DEF WaitsFor, WaitsForAccount, InFlight, HoldsUpdate, HoldsKeyShare, AtAccount
<1>4. QED
  BY <1>1, <1>2, <1>3 DEF AtAccount

\* And if it waits at the account, it waits for a KEY SHARE lock on the same one.
LEMMA AwaitedSharesAccount ==
    ASSUME NEW S, \A r \in S : \E q \in S : WaitsFor(r, q),
           NEW r \in S, NEW q \in S, WaitsFor(r, q), step[r] = "account"
    PROVE  /\ WaitsForAccount(r, q)
           /\ HoldsKeyShare(q, AccountOf(q))
           /\ AccountOf(q) = AccountOf(r)
<1>1. step[q] = "account"
  BY AwaitedAtAccount
<1>2. WaitsForAccount(r, q)
  BY DEF WaitsFor
<1>3. HoldsKeyShare(q, AccountOf(r))
  BY <1>1, <1>2 DEF WaitsForAccount, HoldsUpdate
<1>4. QED
  BY <1>2, <1>3 DEF HoldsKeyShare

\* However many requests wait for each other, of whatever kinds, two of them wait for
\* each other at one account both have a KEY SHARE lock on.
THEOREM OnlyUpgradesDeadlock == SessionsSpec => []DeadlockOnlyByUpgrade
<1>1. ASSUME NEW S \in SUBSET Requests, S # {}, \A r \in S : \E q \in S : WaitsFor(r, q)
      PROVE  \E r, q \in S :
                 /\ WaitsForAccount(r, q) /\ WaitsForAccount(q, r)
                 /\ HoldsKeyShare(r, AccountOf(r)) /\ HoldsKeyShare(q, AccountOf(r))
  <2>1. PICK p \in S, r \in S : WaitsFor(p, r)
    <3>1. PICK p \in S : TRUE
      BY <1>1
    <3>2. \E r \in S : WaitsFor(p, r)
      BY <1>1, <3>1, Zenon
    <3>3. QED
      BY <3>1, <3>2, Zenon
  <2>2. step[r] = "account"
    BY <1>1, <2>1, AwaitedAtAccount
  <2>3. PICK q \in S : WaitsFor(r, q)
    BY <1>1
  <2>4. step[q] = "account" /\ AccountOf(q) = AccountOf(r) /\ HoldsKeyShare(q, AccountOf(q))
    BY <1>1, <2>2, <2>3, AwaitedAtAccount, AwaitedSharesAccount
  <2>5. PICK s \in S : WaitsFor(q, s)
    BY <1>1
  <2>6. /\ step[s] = "account" /\ AccountOf(s) = AccountOf(q)
        /\ HoldsKeyShare(s, AccountOf(s)) /\ WaitsForAccount(q, s)
    BY <1>1, <2>4, <2>5, AwaitedAtAccount, AwaitedSharesAccount
  <2>7. WaitsForAccount(s, q)
    BY <2>4, <2>6 DEF WaitsForAccount
  <2>8. QED
    BY <2>4, <2>6, <2>7
<1>2. DeadlockOnlyByUpgrade
  BY <1>1 DEF DeadlockOnlyByUpgrade
<1>3. QED
  BY <1>2, PTL

=============================================================================
