---------------------------- MODULE LedgerProofs ----------------------------
(***************************************************************************)
(* Proofs about Ledger, for any number of accounts and transactions and    *)
(* any amounts: its type invariant, the pairing of reversals, and that the *)
(* stored balance is the balance derived from the rows.                    *)
(***************************************************************************)
EXTENDS Ledger, FiniteSetTheorems, TLAPS

-----------------------------------------------------------------------------
(***************************************************************************)
(* Sums of amounts.                                                        *)
(***************************************************************************)

\* A set of transactions has finitely many paise.
LEMMA TotalFinite ==
    ASSUME NEW table, NEW S, S \subseteq TxnIds
    PROVE  /\ IsFiniteSet(S)
           /\ IsFiniteSet(Paise(table, S))
           /\ TotalOf(table, S) \in Nat
<1>1. IsFiniteSet(S)
  BY FS_Subset, LedgerAssumption
<1>2. IsFiniteSet(Amounts)
  BY FS_Interval, LedgerAssumption DEF Amounts
<1>3. IsFiniteSet(S \X Amounts)
  BY <1>1, <1>2, FS_Product
<1>4. Paise(table, S) \in SUBSET (S \X Amounts)
  BY DEF Paise
<1>5. IsFiniteSet(Paise(table, S))
  BY <1>3, <1>4, FS_Subset
<1>6. QED
  BY <1>1, <1>5, FS_CardinalityType DEF TotalOf

\* The paise of one transaction are as many as its amount.
LEMMA PaiseOfOne ==
    ASSUME NEW table, NEW t, NEW n \in Amounts, table[t].amount = n
    PROVE  Cardinality(Paise(table, {t})) = n
<1>1. n \in Nat /\ n > 0 /\ n <= MaxPaise
  BY LedgerAssumption DEF Amounts
<1>2. Paise(table, {t}) = {t} \X (1 .. n)
  BY <1>1, LedgerAssumption DEF Paise, Amounts
<1>3. IsFiniteSet(1 .. n) /\ Cardinality(1 .. n) = n
  BY <1>1, FS_Interval
<1>4. IsFiniteSet({t}) /\ Cardinality({t}) = 1
  BY FS_Singleton
<1>5. Cardinality({t} \X (1 .. n)) = Cardinality({t}) * Cardinality(1 .. n)
  BY <1>3, <1>4, FS_Product, Zenon
<1>6. Cardinality({t}) * Cardinality(1 .. n) = n
  BY <1>1, <1>3, <1>4
<1>7. QED
  BY <1>2, <1>5, <1>6, Zenon

\* Adding a transaction to a set adds its amount to the total.
LEMMA TotalAdd ==
    ASSUME NEW table, NEW S, S \subseteq TxnIds,
           NEW t \in TxnIds, t \notin S, table[t].amount \in Amounts
    PROVE  TotalOf(table, S \cup {t}) = TotalOf(table, S) + table[t].amount
<1>1. Paise(table, S \cup {t}) = Paise(table, S) \cup Paise(table, {t})
  BY DEF Paise
<1>2. Paise(table, S) \cap Paise(table, {t}) = {}
  BY DEF Paise
<1>3. IsFiniteSet(Paise(table, S)) /\ IsFiniteSet(Paise(table, {t}))
  BY TotalFinite
<1>4. Cardinality(Paise(table, S) \cap Paise(table, {t})) = 0
  BY <1>2, FS_EmptySet
<1>5. Cardinality(Paise(table, S)) \in Nat /\ Cardinality(Paise(table, {t})) \in Nat
  BY <1>3, FS_CardinalityType
<1>6. Cardinality(Paise(table, S) \cup Paise(table, {t}))
        = Cardinality(Paise(table, S)) + Cardinality(Paise(table, {t})) - 0
  BY <1>3, <1>4, FS_Union
<1>7. Cardinality(Paise(table, {t})) = table[t].amount
  BY PaiseOfOne
<1>8. Cardinality(Paise(table, S) \cup Paise(table, {t}))
        = Cardinality(Paise(table, S)) + table[t].amount
  BY <1>5, <1>6, <1>7
<1>9. QED
  BY <1>1, <1>8, Zenon DEF TotalOf

\* A total depends only on the amounts of the transactions in the set.
LEMMA TotalSame ==
    ASSUME NEW table, NEW other, NEW S, \A t \in S : other[t].amount = table[t].amount
    PROVE  TotalOf(other, S) = TotalOf(table, S)
<1>1. Paise(other, S) = Paise(table, S)
  BY DEF Paise
<1>2. QED
  BY <1>1 DEF TotalOf

\* A one-to-one correspondence that keeps the amounts keeps the total.
LEMMA TotalImage ==
    ASSUME NEW table, NEW S, S \subseteq TxnIds, NEW T,
           NEW f \in Bijection(S, T),
           \A t \in S : table[f[t]].amount = table[t].amount
    PROVE  TotalOf(table, S) = TotalOf(table, T)
<1> DEFINE g == [u \in Paise(table, S) |-> <<f[u[1]], u[2]>>]
<1>1. /\ f \in [S -> T]
      /\ \A t, u \in S : f[t] = f[u] => t = u
      /\ \A x \in T : \E t \in S : f[t] = x
  BY DEF Bijection, Injection, Surjection, IsInjective
<1>2. g \in [Paise(table, S) -> Paise(table, T)]
  BY <1>1 DEF Paise
<1>3. \A u, v \in Paise(table, S) : g[u] = g[v] => u = v
  BY <1>1 DEF Paise
<1>4. \A w \in Paise(table, T) : \E u \in Paise(table, S) : g[u] = w
  <2>1. SUFFICES ASSUME NEW w \in Paise(table, T)
                 PROVE  \E u \in Paise(table, S) : g[u] = w
    OBVIOUS
  <2>2. w \in T \X Amounts /\ w[2] <= table[w[1]].amount
    BY DEF Paise
  <2>3. PICK t \in S : f[t] = w[1]
    BY <1>1, <2>2
  <2>4. <<t, w[2]>> \in Paise(table, S)
    BY <2>2, <2>3 DEF Paise
  <2>5. g[<<t, w[2]>>] = w
    BY <2>2, <2>3, <2>4
  <2>6. QED
    BY <2>4, <2>5
<1>5. g \in Bijection(Paise(table, S), Paise(table, T))
  BY <1>2, <1>3, <1>4 DEF Bijection, Injection, Surjection, IsInjective
<1>6. ExistsBijection(Paise(table, S), Paise(table, T))
  BY <1>5 DEF ExistsBijection
<1>7. QED
  BY <1>6, TotalFinite, FS_Bijection DEF TotalOf

-----------------------------------------------------------------------------
(***************************************************************************)
(* Types.                                                                  *)
(***************************************************************************)

\* Sets of recorded rows have a natural number as their total.
LEMMA PostedTotals ==
    ASSUME TypeOK, NEW type, NEW a
    PROVE  /\ Posted(type, a) \subseteq TxnIds
           /\ TakenBack(type, a) \subseteq TxnIds
           /\ Unreversed(type, a) \subseteq TxnIds
           /\ Total(Posted(type, a)) \in Nat
           /\ Total(TakenBack(type, a)) \in Nat
           /\ Total(Unreversed(type, a)) \in Nat
<1>1. /\ Posted(type, a) \subseteq TxnIds
      /\ TakenBack(type, a) \subseteq TxnIds
      /\ Unreversed(type, a) \subseteq TxnIds
  BY DEF TypeOK, Posted, TakenBack, Unreversed
<1>2. QED
  BY <1>1, TotalFinite DEF Total

\* The table after a posting: the new row added, the others as they were.
LEMMA PostingTable ==
    ASSUME TypeOK, NEW t \in TxnIds \ Recorded, NEW row \in Transaction
    PROVE  /\ DOMAIN Insert(txns, t, row) = Recorded \cup {t}
           /\ Insert(txns, t, row) \in [Recorded \cup {t} -> Transaction]
           /\ Insert(txns, t, row)[t] = row
           /\ \A x \in Recorded : Insert(txns, t, row)[x] = txns[x]
BY DEF Insert, TypeOK, Recorded

\* The table after a reversal: the original linked, the new row added.
LEMMA ReversalTable ==
    ASSUME TypeOK, NEW t \in Recorded, NEW r \in TxnIds \ Recorded
    PROVE  LET table == WithReversal(txns, t, r)
               row   == NewTransaction("REVERSAL", txns[t].account, txns[t].amount,
                                       NoSource, ReversalRef(t))
           IN  /\ DOMAIN table = Recorded \cup {r}
               /\ table \in [Recorded \cup {r} -> Transaction]
               /\ table[r] = row
               /\ table[t] = [txns[t] EXCEPT !.reversedBy = r]
               /\ \A x \in Recorded \ {t} : table[x] = txns[x]
<1> DEFINE linked == [txns EXCEPT ![t].reversedBy = r]
           row == NewTransaction("REVERSAL", txns[t].account, txns[t].amount,
                                 NoSource, ReversalRef(t))
<1>1. txns[t] \in Transaction /\ t \in TxnIds
  BY DEF TypeOK
<1>2. row \in Transaction
  BY <1>1 DEF Transaction, NewTransaction, ReversalRefs
<1>3. [txns[t] EXCEPT !.reversedBy = r] \in Transaction
  BY <1>1 DEF Transaction
<1>4. /\ DOMAIN linked = Recorded
      /\ linked \in [Recorded -> Transaction]
      /\ linked[t] = [txns[t] EXCEPT !.reversedBy = r]
      /\ \A x \in Recorded \ {t} : linked[x] = txns[x]
  BY <1>3 DEF TypeOK, Recorded
<1>5. linked[t].account = txns[t].account /\ linked[t].amount = txns[t].amount
  BY <1>1, <1>4 DEF Transaction
<1>6. WithReversal(txns, t, r) = Insert(linked, r, row)
  BY <1>4 DEF WithReversal, Recorded
<1>7. DOMAIN linked \subseteq TxnIds /\ linked \in [DOMAIN linked -> Transaction]
  BY <1>4 DEF TypeOK
<1> HIDE DEF linked, row
<1>8. /\ DOMAIN Insert(linked, r, row) = DOMAIN linked \cup {r}
      /\ Insert(linked, r, row) \in [DOMAIN linked \cup {r} -> Transaction]
      /\ \A x \in DOMAIN linked \cup {r} :
           Insert(linked, r, row)[x] = IF x = r THEN row ELSE linked[x]
  BY <1>2, <1>7 DEF Insert
<1>9. /\ DOMAIN WithReversal(txns, t, r) = Recorded \cup {r}
      /\ WithReversal(txns, t, r) \in [Recorded \cup {r} -> Transaction]
      /\ WithReversal(txns, t, r)[r] = row
      /\ WithReversal(txns, t, r)[t] = [txns[t] EXCEPT !.reversedBy = r]
      /\ \A x \in Recorded \ {t} : WithReversal(txns, t, r)[x] = txns[x]
  BY <1>4, <1>6, <1>8
<1>10. QED
  BY <1>9 DEF row

\* The shape of a new INCOME or EXPENSE row.
LEMMA PostingRow ==
    ASSUME NEW type \in {"INCOME", "EXPENSE"}, NEW a \in Accounts, NEW amount \in Amounts,
           NEW source \in Sources, NEW ref \in Refs \cup {NoRef}
    PROVE  /\ NewTransaction(type, a, amount, source, ref) \in Transaction
           /\ NewTransaction(type, a, amount, source, ref).type = type
           /\ NewTransaction(type, a, amount, source, ref).account = a
           /\ NewTransaction(type, a, amount, source, ref).amount = amount
           /\ NewTransaction(type, a, amount, source, ref).reversedBy = NoTxn
BY DEF Transaction, NewTransaction

\* Amounts are positive integers, and signing one gives an integer.
LEMMA AmountType ==
    ASSUME NEW type, NEW amount \in Amounts
    PROVE  amount \in Nat /\ Signed(type, amount) \in Int
BY LedgerAssumption DEF Amounts, Signed

\* The next-state relation with the inputs of every operation named once.
LEMMA NextCases ==
    ASSUME Next
    PROVE  \/ \E type \in {"INCOME", "EXPENSE"}, t \in TxnIds, a \in Accounts, amount \in Amounts,
               source \in Sources, ref \in Refs \cup {NoRef} :
                 Record(type, t, a, amount, source, ref)
           \/ \E t, r \in TxnIds : ReverseTransaction(t, r)
           \/ \E a \in Accounts, new \in Openings : AdjustOpeningBalance(a, new)
           \/ \E a \in Accounts, d \in Dates, statement \in Statements :
                 ReconcileAccount(a, d, statement)
           \/ \E a \in Accounts, d \in Dates : ResolveReconciliation(a, d)
BY DEF Next, Posting, Correction, Adjustment, Reconciling, RecordIncome, RecordExpense

\* Opening balances are integers.
LEMMA OpeningType ==
    ASSUME opening \in [Accounts -> Openings]
    PROVE  opening \in [Accounts -> Int] /\ \A a \in Accounts : opening[a] \in Int
<1>1. Openings \subseteq Int
  BY LedgerAssumption
<1>2. \A a \in Accounts : opening[a] \in Openings
  OBVIOUS
<1>3. \A a \in Accounts : opening[a] \in Int
  BY <1>1, <1>2
<1>4. QED
  BY <1>3

\* Every step keeps the shape of the tables.
LEMMA TypeStep == TypeOK /\ [Next]_vars => TypeOK'
<1> SUFFICES ASSUME TypeOK, [Next]_vars
             PROVE  TypeOK'
  OBVIOUS
<1>1. ASSUME NEW type \in {"INCOME", "EXPENSE"}, NEW t \in TxnIds, NEW a \in Accounts,
             NEW amount \in Amounts, NEW source \in Sources, NEW ref \in Refs \cup {NoRef},
             Record(type, t, a, amount, source, ref)
      PROVE  TypeOK'
  <2> DEFINE row == NewTransaction(type, a, amount, source, ref)
  <2>1. row \in Transaction
    BY PostingRow
  <2>2. /\ t \in TxnIds \ Recorded
        /\ txns' = Insert(txns, t, row)
        /\ current' = [current EXCEPT ![a] = @ + Signed(type, amount)]
        /\ UNCHANGED <<opening, recs>>
    BY <1>1 DEF Record
  <2> HIDE DEF row
  <2>3. /\ Recorded' = Recorded \cup {t}
        /\ txns' \in [Recorded' -> Transaction]
    BY <2>1, <2>2, PostingTable DEF Recorded
  <2>4. current' \in [Accounts -> Int]
    BY <2>2, AmountType DEF TypeOK
  <2>5. QED
    BY <2>2, <2>3, <2>4 DEF TypeOK
<1>2. ASSUME NEW t \in TxnIds, NEW r \in TxnIds, ReverseTransaction(t, r)
      PROVE  TypeOK'
  <2>1. /\ t \in Recorded /\ r \in TxnIds \ Recorded
        /\ txns' = WithReversal(txns, t, r)
        /\ current' = [current EXCEPT ![txns[t].account] = @ - Signed(txns[t].type, txns[t].amount)]
        /\ UNCHANGED <<opening, recs>>
    BY <1>2 DEF ReverseTransaction
  <2>2. /\ Recorded' = Recorded \cup {r}
        /\ txns' \in [Recorded' -> Transaction]
    BY <2>1, ReversalTable DEF Recorded
  <2>3. txns[t].amount \in Amounts /\ txns[t].account \in Accounts
    BY <2>1 DEF TypeOK, Transaction
  <2>4. current' \in [Accounts -> Int]
    BY <2>1, <2>3, AmountType DEF TypeOK
  <2>5. QED
    BY <2>1, <2>2, <2>4 DEF TypeOK
<1>3. ASSUME NEW a \in Accounts, NEW new \in Openings, AdjustOpeningBalance(a, new)
      PROVE  TypeOK'
  BY <1>3, LedgerAssumption DEF AdjustOpeningBalance, TypeOK, Recorded
<1>4. ASSUME NEW a \in Accounts, NEW d \in Dates, NEW statement \in Statements,
             ReconcileAccount(a, d, statement)
      PROVE  TypeOK'
  <2>1. BookBalance(a) \in Int
    <3>1. opening[a] \in Int
      BY OpeningType DEF TypeOK
    <3>2. /\ Total(Unreversed("INCOME", a)) \in Int
          /\ Total(Unreversed("EXPENSE", a)) \in Int
      BY PostedTotals
    <3>3. QED
      BY <3>1, <3>2 DEF BookBalance
  <2>2. QED
    BY <1>4, <2>1 DEF ReconcileAccount, TypeOK, Recorded
<1>5. ASSUME NEW a \in Accounts, NEW d \in Dates, ResolveReconciliation(a, d)
      PROVE  TypeOK'
  BY <1>5 DEF ResolveReconciliation, TypeOK, Recorded
<1>6. CASE UNCHANGED vars
  BY <1>6 DEF vars, TypeOK, Recorded
<1>7. QED
  BY <1>1, <1>2, <1>3, <1>4, <1>5, <1>6, NextCases

\* The seeded tables have their shape.
LEMMA InitTyped == Init => TypeOK
<1> SUFFICES ASSUME Init
             PROVE  TypeOK
  OBVIOUS
<1>1. opening \in [Accounts -> Openings] /\ current \in [Accounts -> Int]
  BY OpeningType DEF Init
<1>2. Recorded \subseteq TxnIds /\ txns \in [Recorded -> Transaction]
  BY DEF Init, Recorded
<1>3. QED
  BY <1>1, <1>2 DEF Init, TypeOK

\* The tables keep their shape in every state the operations can reach.
THEOREM TypeCorrect == Spec => []TypeOK
BY InitTyped, TypeStep, PTL DEF Spec

-----------------------------------------------------------------------------
(***************************************************************************)
(* What the two operations that write rows do to the table.                *)
(***************************************************************************)

\* A posting adds one live row and touches no other.
LEMMA RecordStep ==
    ASSUME TypeOK, NEW type \in {"INCOME", "EXPENSE"}, NEW t \in TxnIds, NEW a \in Accounts,
           NEW amount \in Amounts, NEW source \in Sources, NEW ref \in Refs \cup {NoRef},
           Record(type, t, a, amount, source, ref)
    PROVE  /\ t \in TxnIds \ Recorded
           /\ Recorded' = Recorded \cup {t}
           /\ \A x \in Recorded : txns'[x] = txns[x]
           /\ txns'[t].type = type /\ txns'[t].account = a
           /\ txns'[t].amount = amount /\ txns'[t].reversedBy = NoTxn
           /\ current' = [current EXCEPT ![a] = @ + Signed(type, amount)]
           /\ opening' = opening
<1> DEFINE row == NewTransaction(type, a, amount, source, ref)
<1>1. /\ row \in Transaction /\ row.type = type /\ row.account = a
      /\ row.amount = amount /\ row.reversedBy = NoTxn
  BY PostingRow
<1>2. t \in TxnIds \ Recorded /\ txns' = Insert(txns, t, row)
  BY DEF Record
<1> HIDE DEF row
<1>3. /\ Recorded' = Recorded \cup {t}
      /\ txns'[t] = row
      /\ \A x \in Recorded : txns'[x] = txns[x]
  BY <1>1, <1>2, PostingTable DEF Recorded
<1>4. QED
  BY <1>1, <1>2, <1>3 DEF Record

\* A reversal adds one REVERSAL row and links one live row to it.
LEMMA ReverseStep ==
    ASSUME TypeOK, NEW t \in TxnIds, NEW r \in TxnIds, ReverseTransaction(t, r)
    PROVE  /\ t \in Recorded /\ r \in TxnIds \ Recorded /\ t # r
           /\ txns[t].reversedBy = NoTxn /\ txns[t].type \in {"INCOME", "EXPENSE"}
           /\ Recorded' = Recorded \cup {r}
           /\ \A x \in Recorded \ {t} : txns'[x] = txns[x]
           /\ txns'[t].type = txns[t].type /\ txns'[t].account = txns[t].account
           /\ txns'[t].amount = txns[t].amount /\ txns'[t].reversedBy = r
           /\ txns'[r].type = "REVERSAL" /\ txns'[r].account = txns[t].account
           /\ txns'[r].amount = txns[t].amount /\ txns'[r].reversedBy = NoTxn
           /\ current' = [current EXCEPT ![txns[t].account] = @ - Signed(txns[t].type, txns[t].amount)]
           /\ opening' = opening
<1>1. /\ t \in Recorded /\ r \in TxnIds \ Recorded
      /\ txns' = WithReversal(txns, t, r)
      /\ txns[t].reversedBy = NoTxn /\ txns[t].type \in {"INCOME", "EXPENSE"}
  BY DEF ReverseTransaction, IsReversed
<1> DEFINE row == NewTransaction("REVERSAL", txns[t].account, txns[t].amount,
                                 NoSource, ReversalRef(t))
<1>2. /\ Recorded' = Recorded \cup {r}
      /\ txns'[r] = row
      /\ txns'[t] = [txns[t] EXCEPT !.reversedBy = r]
      /\ \A x \in Recorded \ {t} : txns'[x] = txns[x]
  BY <1>1, ReversalTable DEF Recorded
<1>3. /\ row.type = "REVERSAL" /\ row.account = txns[t].account
      /\ row.amount = txns[t].amount /\ row.reversedBy = NoTxn
  BY DEF NewTransaction
<1>4. txns[t] \in Transaction
  BY <1>1 DEF TypeOK
<1> HIDE DEF row
<1>5. /\ txns'[t].type = txns[t].type /\ txns'[t].account = txns[t].account
      /\ txns'[t].amount = txns[t].amount /\ txns'[t].reversedBy = r
  BY <1>2, <1>4 DEF Transaction
<1>6. QED
  BY <1>1, <1>2, <1>3, <1>5 DEF ReverseTransaction

-----------------------------------------------------------------------------
(***************************************************************************)
(* Reversals pair up with the rows they reverse.                           *)
(***************************************************************************)

\* Every step keeps reversals and reversed rows paired.
LEMMA PairingStep == TypeOK /\ ReversalPairing /\ [Next]_vars => ReversalPairing'
<1> SUFFICES ASSUME TypeOK, ReversalPairing, [Next]_vars
             PROVE  ReversalPairing'
  OBVIOUS
<1> USE DEF ReversalPairing, ReversedRowsLinked, ReversalRowsLinked, IsReversed
<1>1. ASSUME NEW type \in {"INCOME", "EXPENSE"}, NEW t \in TxnIds, NEW a \in Accounts,
             NEW amount \in Amounts, NEW source \in Sources, NEW ref \in Refs \cup {NoRef},
             Record(type, t, a, amount, source, ref)
      PROVE  ReversalPairing'
  <2>1. /\ Recorded' = Recorded \cup {t} /\ t \notin Recorded
        /\ \A x \in Recorded : txns'[x] = txns[x]
        /\ txns'[t].type \in {"INCOME", "EXPENSE"} /\ txns'[t].reversedBy = NoTxn
    BY <1>1, RecordStep
  <2>2. ReversedRowsLinked'
    BY <2>1
  <2>3. ReversalRowsLinked'
    BY <2>1
  <2>4. QED
    BY <2>2, <2>3
<1>2. ASSUME NEW t \in TxnIds, NEW r \in TxnIds, ReverseTransaction(t, r)
      PROVE  ReversalPairing'
  <2>1. /\ t \in Recorded /\ r \notin Recorded /\ t # r /\ r # NoTxn
        /\ txns[t].reversedBy = NoTxn /\ txns[t].type \in {"INCOME", "EXPENSE"}
        /\ Recorded' = Recorded \cup {r}
        /\ \A x \in Recorded \ {t} : txns'[x] = txns[x]
        /\ txns'[t].type = txns[t].type /\ txns'[t].account = txns[t].account
        /\ txns'[t].amount = txns[t].amount /\ txns'[t].reversedBy = r
        /\ txns'[r].type = "REVERSAL" /\ txns'[r].account = txns[t].account
        /\ txns'[r].amount = txns[t].amount /\ txns'[r].reversedBy = NoTxn
    BY <1>2, ReverseStep, LedgerAssumption
  <2>2. \A x \in Recorded : txns[x].reversedBy # r
    BY <2>1
  <2>3. ReversedRowsLinked'
    BY <2>1
  <2>4. ReversalRowsLinked'
    BY <2>1, <2>2
  <2>5. QED
    BY <2>3, <2>4
<1>3. CASE txns' = txns
  BY <1>3 DEF Recorded
<1>4. QED
  BY <1>1, <1>2, <1>3, NextCases
  DEF vars, AdjustOpeningBalance, ReconcileAccount, ResolveReconciliation

\* In every reachable state each REVERSAL row takes back exactly one income or
\* expense row of its amount and account, and each row is taken back at most once.
THEOREM ReversalsArePaired == Spec => []ReversalPairing
<1>1. Init => ReversalPairing
  BY DEF Init, ReversalPairing, ReversedRowsLinked, ReversalRowsLinked, Recorded
<1>2. QED
  BY <1>1, PairingStep, TypeCorrect, PTL DEF Spec

-----------------------------------------------------------------------------
(***************************************************************************)
(* The stored balance is the derived one.                                  *)
(***************************************************************************)

\* A posting adds its amount to the effective total of its type and account.
LEMMA RecordEffect ==
    ASSUME TypeOK, NEW type \in {"INCOME", "EXPENSE"}, NEW t \in TxnIds, NEW a \in Accounts,
           NEW amount \in Amounts, NEW source \in Sources, NEW ref \in Refs \cup {NoRef},
           Record(type, t, a, amount, source, ref),
           NEW k \in {"INCOME", "EXPENSE"}, NEW b \in Accounts
    PROVE  Effective(k, b)' = Effective(k, b) + (IF k = type /\ b = a THEN amount ELSE 0)
<1>1. /\ t \in TxnIds \ Recorded
      /\ Recorded' = Recorded \cup {t}
      /\ \A x \in Recorded : txns'[x] = txns[x]
      /\ txns'[t].type = type /\ txns'[t].account = a
      /\ txns'[t].amount = amount /\ txns'[t].reversedBy = NoTxn
  BY RecordStep
<1>2. /\ Posted(k, b) \subseteq TxnIds /\ Posted(k, b) \subseteq Recorded
      /\ TakenBack(k, b) \subseteq TxnIds /\ TakenBack(k, b) \subseteq Recorded
      /\ Total(Posted(k, b)) \in Nat /\ Total(TakenBack(k, b)) \in Nat
  BY PostedTotals DEF Posted, TakenBack
<1>3. TakenBack(k, b)' = TakenBack(k, b)
  BY <1>1, LedgerAssumption DEF TakenBack, Posted, TypeOK
<1>4. Total(TakenBack(k, b))' = Total(TakenBack(k, b))
  <2>1. TotalOf(txns', TakenBack(k, b)) = TotalOf(txns, TakenBack(k, b))
    BY <1>1, <1>2, TotalSame
  <2>2. QED
    BY <1>3, <2>1 DEF Total
<1>5. TotalOf(txns', Posted(k, b)) = Total(Posted(k, b))
  BY <1>1, <1>2, TotalSame DEF Total
<1>6. CASE k = type /\ b = a
  <2>1. Posted(k, b)' = Posted(k, b) \cup {t}
    BY <1>1, <1>6 DEF Posted
  <2>2. t \notin Posted(k, b) /\ txns'[t].amount \in Amounts
    BY <1>1, <1>2
  <2>3. TotalOf(txns', Posted(k, b) \cup {t}) = TotalOf(txns', Posted(k, b)) + txns'[t].amount
    BY <1>2, <2>2, TotalAdd
  <2>4. Total(Posted(k, b))' = Total(Posted(k, b)) + amount
    BY <1>1, <1>5, <2>1, <2>3 DEF Total
  <2>5. amount \in Nat
    BY AmountType
  <2>6. QED
    BY <1>2, <1>4, <1>6, <2>4, <2>5 DEF Effective
<1>7. CASE ~(k = type /\ b = a)
  <2>1. Posted(k, b)' = Posted(k, b)
    BY <1>1, <1>7 DEF Posted
  <2>2. Total(Posted(k, b))' = Total(Posted(k, b))
    BY <1>5, <2>1 DEF Total
  <2>3. QED
    BY <1>2, <1>4, <1>7, <2>2 DEF Effective
<1>8. QED
  BY <1>6, <1>7

\* A reversal takes the amount of the row back from its type and account.
LEMMA ReverseEffect ==
    ASSUME TypeOK, ReversalPairing, NEW t \in TxnIds, NEW r \in TxnIds,
           ReverseTransaction(t, r),
           NEW k \in {"INCOME", "EXPENSE"}, NEW b \in Accounts
    PROVE  Effective(k, b)' = Effective(k, b)
             - (IF k = txns[t].type /\ b = txns[t].account THEN txns[t].amount ELSE 0)
<1>1. /\ t \in Recorded /\ r \in TxnIds \ Recorded /\ t # r
      /\ txns[t].reversedBy = NoTxn /\ txns[t].type \in {"INCOME", "EXPENSE"}
      /\ Recorded' = Recorded \cup {r}
      /\ \A x \in Recorded \ {t} : txns'[x] = txns[x]
      /\ txns'[t].type = txns[t].type /\ txns'[t].account = txns[t].account
      /\ txns'[t].amount = txns[t].amount /\ txns'[t].reversedBy = r
      /\ txns'[r].type = "REVERSAL" /\ txns'[r].account = txns[t].account
      /\ txns'[r].amount = txns[t].amount /\ txns'[r].reversedBy = NoTxn
  BY ReverseStep
<1>2. /\ Posted(k, b) \subseteq TxnIds /\ Posted(k, b) \subseteq Recorded
      /\ TakenBack(k, b) \subseteq TxnIds /\ TakenBack(k, b) \subseteq Recorded
      /\ Total(Posted(k, b)) \in Nat /\ Total(TakenBack(k, b)) \in Nat
  BY PostedTotals DEF Posted, TakenBack
<1>3. txns[t].amount \in Amounts
  BY <1>1 DEF TypeOK, Transaction
<1>4. \A x \in Recorded : txns'[x].amount = txns[x].amount
  BY <1>1
<1>5. Total(Posted(k, b))' = Total(Posted(k, b))
  <2>1. Posted(k, b)' = Posted(k, b)
    BY <1>1 DEF Posted
  <2>2. TotalOf(txns', Posted(k, b)) = TotalOf(txns, Posted(k, b))
    BY <1>2, <1>4, TotalSame
  <2>3. QED
    BY <2>1, <2>2 DEF Total
<1>6. TotalOf(txns', TakenBack(k, b)) = Total(TakenBack(k, b))
  BY <1>2, <1>4, TotalSame DEF Total
<1>7. /\ Posted("REVERSAL", b)' = Posted("REVERSAL", b)
                                  \cup (IF b = txns[t].account THEN {r} ELSE {})
      /\ r \notin TakenBack(k, b)
  BY <1>1, <1>2 DEF Posted
<1>8. \A x \in Recorded, o \in Recorded : txns[o].reversedBy = x => o # t
  BY <1>1, LedgerAssumption DEF TypeOK
<1>9. CASE k = txns[t].type /\ b = txns[t].account
  <2>1. TakenBack(k, b)' = TakenBack(k, b) \cup {r}
    BY <1>1, <1>7, <1>8, <1>9, LedgerAssumption DEF TakenBack, Posted, TypeOK
  <2>2. TotalOf(txns', TakenBack(k, b) \cup {r}) = TotalOf(txns', TakenBack(k, b)) + txns'[r].amount
    BY <1>1, <1>2, <1>3, <1>7, TotalAdd
  <2>3. Total(TakenBack(k, b))' = Total(TakenBack(k, b)) + txns[t].amount
    BY <1>1, <1>6, <2>1, <2>2 DEF Total
  <2>4. txns[t].amount \in Nat
    BY <1>3, AmountType
  <2>5. QED
    BY <1>2, <1>5, <1>9, <2>3, <2>4 DEF Effective
<1>10. CASE ~(k = txns[t].type /\ b = txns[t].account)
  <2>1. TakenBack(k, b)' = TakenBack(k, b)
    BY <1>1, <1>7, <1>8, <1>10, LedgerAssumption
    DEF TakenBack, Posted, TypeOK, ReversalPairing, ReversedRowsLinked, IsReversed
  <2>2. Total(TakenBack(k, b))' = Total(TakenBack(k, b))
    BY <1>6, <2>1 DEF Total
  <2>3. QED
    BY <1>2, <1>5, <1>10, <2>2 DEF Effective
<1>11. QED
  BY <1>9, <1>10

\* What every step does to a derived balance: the stored balance moves with it.
LEMMA BooksStep == TypeOK /\ ReversalPairing /\ BooksBalance /\ [Next]_vars => BooksBalance'
<1> SUFFICES ASSUME TypeOK, ReversalPairing, BooksBalance, [Next]_vars,
                    NEW b \in Accounts
             PROVE  current'[b] = ExpectedBalance(b)'
  BY DEF BooksBalance
<1>1. /\ current \in [Accounts -> Int] /\ opening[b] \in Int
      /\ current[b] = opening[b] + Effective("INCOME", b) - Effective("EXPENSE", b)
      /\ Effective("INCOME", b) \in Int /\ Effective("EXPENSE", b) \in Int
  BY OpeningType, PostedTotals DEF TypeOK, BooksBalance, ExpectedBalance, Effective
<1>2. ASSUME NEW type \in {"INCOME", "EXPENSE"}, NEW t \in TxnIds, NEW a \in Accounts,
             NEW amount \in Amounts, NEW source \in Sources, NEW ref \in Refs \cup {NoRef},
             Record(type, t, a, amount, source, ref)
      PROVE  current'[b] = ExpectedBalance(b)'
  <2>1. /\ current' = [current EXCEPT ![a] = @ + Signed(type, amount)]
        /\ opening' = opening /\ amount \in Nat
    BY <1>2, RecordStep, AmountType
  <2>2. Effective("INCOME", b)' = Effective("INCOME", b)
          + (IF "INCOME" = type /\ b = a THEN amount ELSE 0)
    BY <1>2, RecordEffect
  <2>3. Effective("EXPENSE", b)' = Effective("EXPENSE", b)
          + (IF "EXPENSE" = type /\ b = a THEN amount ELSE 0)
    BY <1>2, RecordEffect
  <2>4. QED
    BY <1>1, <2>1, <2>2, <2>3 DEF ExpectedBalance, Signed
<1>3. ASSUME NEW t \in TxnIds, NEW r \in TxnIds, ReverseTransaction(t, r)
      PROVE  current'[b] = ExpectedBalance(b)'
  <2>1. /\ current' = [current EXCEPT ![txns[t].account] = @ - Signed(txns[t].type, txns[t].amount)]
        /\ opening' = opening /\ txns[t].type \in {"INCOME", "EXPENSE"} /\ t \in Recorded
    BY <1>3, ReverseStep
  <2>2. txns[t].amount \in Nat
    BY <2>1, AmountType DEF TypeOK, Transaction
  <2>3. Effective("INCOME", b)' = Effective("INCOME", b)
          - (IF "INCOME" = txns[t].type /\ b = txns[t].account THEN txns[t].amount ELSE 0)
    BY <1>3, ReverseEffect
  <2>4. Effective("EXPENSE", b)' = Effective("EXPENSE", b)
          - (IF "EXPENSE" = txns[t].type /\ b = txns[t].account THEN txns[t].amount ELSE 0)
    BY <1>3, ReverseEffect
  <2>5. QED
    BY <1>1, <2>1, <2>2, <2>3, <2>4 DEF ExpectedBalance, Signed
<1>4. ASSUME txns' = txns
      PROVE  \A k : Effective(k, b)' = Effective(k, b)
  BY <1>4 DEF Effective, Total, Posted, TakenBack, Recorded
<1>5. ASSUME NEW a \in Accounts, NEW new \in Openings, AdjustOpeningBalance(a, new)
      PROVE  current'[b] = ExpectedBalance(b)'
  <2>1. /\ txns' = txns
        /\ opening' = [opening EXCEPT ![a] = new]
        /\ current' = [current EXCEPT ![a] = @ + (new - opening[a])]
    BY <1>5 DEF AdjustOpeningBalance
  <2>2. new \in Int
    BY LedgerAssumption
  <2>3. opening \in [Accounts -> Openings]
    BY DEF TypeOK
  <2>4. QED
    BY <1>1, <1>4, <2>1, <2>2, <2>3 DEF ExpectedBalance
<1>6. CASE UNCHANGED <<opening, current, txns>>
  BY <1>1, <1>4, <1>6 DEF ExpectedBalance
<1>7. QED
  BY <1>2, <1>3, <1>5, <1>6, NextCases DEF vars, ReconcileAccount, ResolveReconciliation

\* Whatever the accounts, amounts and order of the calls, the stored balance of an
\* account is its opening balance plus effective income less effective expense.
THEOREM StoredBalanceIsDerived == Spec => []BooksBalance
<1>1. Init => BooksBalance
  <2> SUFFICES ASSUME Init, NEW b \in Accounts
               PROVE  current[b] = ExpectedBalance(b)
    BY DEF BooksBalance
  <2>1. \A k : Posted(k, b) = {} /\ TakenBack(k, b) = {}
    BY DEF Init, Posted, TakenBack, Recorded
  <2>2. Total({}) = 0
    <3>1. Paise(txns, {}) = {}
      BY DEF Paise
    <3>2. QED
      BY <3>1, FS_EmptySet DEF Total, TotalOf
  <2>3. \A k : Effective(k, b) = 0
    BY <2>1, <2>2 DEF Effective
  <2>4. opening[b] \in Int /\ current[b] = opening[b]
    BY OpeningType DEF Init
  <2>5. QED
    BY <2>3, <2>4 DEF ExpectedBalance
<1>2. QED
  BY <1>1, BooksStep, TypeCorrect, ReversalsArePaired, PTL DEF Spec

-----------------------------------------------------------------------------
(***************************************************************************)
(* The two derivations of a balance agree.                                 *)
(***************************************************************************)

\* Totals of disjoint sets add up.
LEMMA TotalUnion ==
    ASSUME NEW table, NEW S, S \subseteq TxnIds, NEW T, T \subseteq TxnIds, S \cap T = {}
    PROVE  TotalOf(table, S \cup T) = TotalOf(table, S) + TotalOf(table, T)
<1>1. Paise(table, S \cup T) = Paise(table, S) \cup Paise(table, T)
  BY DEF Paise
<1>2. Paise(table, S) \cap Paise(table, T) = {}
  BY DEF Paise
<1>3. IsFiniteSet(Paise(table, S)) /\ IsFiniteSet(Paise(table, T))
  BY TotalFinite
<1>4. Cardinality(Paise(table, S) \cap Paise(table, T)) = 0
  BY <1>2, FS_EmptySet
<1>5. Cardinality(Paise(table, S)) \in Nat /\ Cardinality(Paise(table, T)) \in Nat
  BY <1>3, FS_CardinalityType
<1>6. Cardinality(Paise(table, S) \cup Paise(table, T))
        = Cardinality(Paise(table, S)) + Cardinality(Paise(table, T)) - 0
  BY <1>3, <1>4, FS_Union
<1>7. Cardinality(Paise(table, S) \cup Paise(table, T))
        = Cardinality(Paise(table, S)) + Cardinality(Paise(table, T))
  BY <1>5, <1>6
<1>8. QED
  BY <1>1, <1>7, Zenon DEF TotalOf

Reversed(type, a) == {t \in Posted(type, a) : IsReversed(t)}

\* The reversals of the reversed rows of an account are worth what those rows are.
LEMMA ReversedWorth ==
    ASSUME TypeOK, ReversalPairing, NEW k \in {"INCOME", "EXPENSE"}, NEW a \in Accounts
    PROVE  Total(Reversed(k, a)) = Total(TakenBack(k, a))
<1> DEFINE f == [t \in Reversed(k, a) |-> txns[t].reversedBy]
<1>1. Reversed(k, a) \subseteq TxnIds /\ Reversed(k, a) \subseteq Recorded
  BY DEF Reversed, Posted, TypeOK
<1>2. \A t \in Reversed(k, a) :
         /\ txns[t].type = k /\ txns[t].account = a /\ IsReversed(t)
         /\ txns[t].reversedBy \in TakenBack(k, a)
         /\ txns[txns[t].reversedBy].amount = txns[t].amount
  <2>1. SUFFICES ASSUME NEW t \in Reversed(k, a)
                 PROVE  /\ txns[t].type = k /\ txns[t].account = a /\ IsReversed(t)
                        /\ txns[t].reversedBy \in TakenBack(k, a)
                        /\ txns[txns[t].reversedBy].amount = txns[t].amount
    OBVIOUS
  <2>2. t \in Recorded /\ txns[t].type = k /\ txns[t].account = a /\ IsReversed(t)
    BY DEF Reversed, Posted
  <2>3. /\ txns[t].reversedBy \in Recorded
        /\ txns[txns[t].reversedBy].type = "REVERSAL"
        /\ txns[txns[t].reversedBy].account = txns[t].account
        /\ txns[txns[t].reversedBy].amount = txns[t].amount
    BY <2>2 DEF ReversalPairing, ReversedRowsLinked
  <2>4. QED
    BY <2>2, <2>3 DEF TakenBack, Posted
<1>3. \A r \in TakenBack(k, a) : \E t \in Reversed(k, a) : txns[t].reversedBy = r
  <2>1. SUFFICES ASSUME NEW r \in TakenBack(k, a)
                 PROVE  \E t \in Reversed(k, a) : txns[t].reversedBy = r
    OBVIOUS
  <2>2. r \in Recorded /\ txns[r].account = a /\ r # NoTxn
    BY LedgerAssumption DEF TakenBack, Posted, TypeOK
  <2>3. PICK t \in Recorded : txns[t].reversedBy = r /\ txns[t].type = k
    BY DEF TakenBack
  <2>4. IsReversed(t)
    BY <2>2, <2>3 DEF IsReversed
  <2>5. txns[t].account = a
    BY <2>2, <2>3, <2>4 DEF ReversalPairing, ReversedRowsLinked
  <2>6. QED
    BY <2>3, <2>4, <2>5 DEF Reversed, Posted
<1>4. f \in [Reversed(k, a) -> TakenBack(k, a)] /\ \A t \in Reversed(k, a) : f[t] = txns[t].reversedBy
  BY <1>2
<1>5. \A t, u \in Reversed(k, a) : f[t] = f[u] => t = u
  BY <1>1, <1>2, <1>4 DEF ReversalPairing, ReversalRowsLinked
<1> HIDE DEF f
<1>6. f \in Bijection(Reversed(k, a), TakenBack(k, a))
  BY <1>3, <1>4, <1>5 DEF Bijection, Injection, Surjection, IsInjective
<1>7. \A t \in Reversed(k, a) : txns[f[t]].amount = txns[t].amount
  BY <1>2, <1>4
<1>8. QED
  BY <1>1, <1>6, <1>7, TotalImage DEF Total

\* Counting reversed rows and taking their reversals back is skipping both.
LEMMA EffectiveIsUnreversed ==
    ASSUME TypeOK, ReversalPairing, NEW k \in {"INCOME", "EXPENSE"}, NEW a \in Accounts
    PROVE  Effective(k, a) = Total(Unreversed(k, a))
<1>1. /\ Posted(k, a) = Unreversed(k, a) \cup Reversed(k, a)
      /\ Unreversed(k, a) \cap Reversed(k, a) = {}
  BY DEF Unreversed, Reversed
<1>2. Unreversed(k, a) \subseteq TxnIds /\ Reversed(k, a) \subseteq TxnIds
  BY DEF Unreversed, Reversed, Posted, TypeOK
<1>3. TotalOf(txns, Unreversed(k, a) \cup Reversed(k, a))
        = TotalOf(txns, Unreversed(k, a)) + TotalOf(txns, Reversed(k, a))
  BY <1>1, <1>2, TotalUnion
<1>4. Total(Posted(k, a)) = Total(Unreversed(k, a)) + Total(Reversed(k, a))
  BY <1>1, <1>3 DEF Total
<1>5. Total(Unreversed(k, a)) \in Nat /\ Total(TakenBack(k, a)) \in Nat
  BY PostedTotals
<1>6. QED
  BY <1>4, <1>5, ReversedWorth DEF Effective

\* reconcile_account and get_account_reconciliation derive the same balance.
THEOREM DerivationsAlwaysAgree == Spec => []DerivationsAgree
<1>1. TypeOK /\ ReversalPairing => DerivationsAgree
  BY EffectiveIsUnreversed DEF DerivationsAgree, BookBalance, ExpectedBalance
<1>2. QED
  BY <1>1, TypeCorrect, ReversalsArePaired, PTL

-----------------------------------------------------------------------------
(***************************************************************************)
(* Rows are permanent.                                                     *)
(***************************************************************************)

\* What one step may do to the row t.
KeepsRow(t) ==
    /\ t \in Recorded'
    /\ txns'[t] = [txns[t] EXCEPT !.reversedBy = txns'[t].reversedBy]
    /\ txns'[t].reversedBy # txns[t].reversedBy =>
          ~IsReversed(t) /\ txns'[t].reversedBy \in Recorded' \ Recorded

\* A record with a field set to the value it has is the same record.
LEMMA SameRow ==
    ASSUME NEW row \in Transaction
    PROVE  row = [row EXCEPT !.reversedBy = row.reversedBy]
BY DEF Transaction

LEMMA RowsStep ==
    ASSUME TypeOK, [Next]_vars
    PROVE  \A t \in Recorded : KeepsRow(t)
<1>1. ASSUME NEW x \in Recorded, x \in Recorded', txns'[x] = txns[x]
      PROVE  KeepsRow(x)
  <2>1. txns[x] \in Transaction
    BY DEF TypeOK
  <2>2. txns[x] = [txns[x] EXCEPT !.reversedBy = txns[x].reversedBy]
    BY <2>1, SameRow
  <2>3. QED
    BY <1>1, <2>2 DEF KeepsRow
<1>2. ASSUME NEW type \in {"INCOME", "EXPENSE"}, NEW t \in TxnIds, NEW a \in Accounts,
             NEW amount \in Amounts, NEW source \in Sources, NEW ref \in Refs \cup {NoRef},
             Record(type, t, a, amount, source, ref)
      PROVE  \A x \in Recorded : KeepsRow(x)
  BY <1>1, <1>2, RecordStep
<1>3. ASSUME NEW t \in TxnIds, NEW r \in TxnIds, ReverseTransaction(t, r)
      PROVE  \A x \in Recorded : KeepsRow(x)
  <2> DEFINE row == NewTransaction("REVERSAL", txns[t].account, txns[t].amount,
                                   NoSource, ReversalRef(t))
  <2>1. /\ t \in Recorded /\ r \in TxnIds \ Recorded /\ ~IsReversed(t)
        /\ txns' = WithReversal(txns, t, r)
    BY <1>3 DEF ReverseTransaction
  <2>2. /\ Recorded' = Recorded \cup {r}
        /\ txns'[r] = row
        /\ txns'[t] = [txns[t] EXCEPT !.reversedBy = r]
        /\ \A x \in Recorded \ {t} : txns'[x] = txns[x]
    BY <2>1, ReversalTable DEF Recorded
  <2>3. txns'[t].reversedBy = r
    BY <1>3, ReverseStep
  <2>4. KeepsRow(t)
    BY <2>1, <2>2, <2>3 DEF KeepsRow
  <2>5. QED
    BY <1>1, <2>2, <2>4
<1>4. CASE txns' = txns
  BY <1>1, <1>4 DEF Recorded
<1>5. QED
  BY <1>2, <1>3, <1>4, NextCases
  DEF vars, AdjustOpeningBalance, ReconcileAccount, ResolveReconciliation

\* No step of any kind deletes or rewrites a row of the ledger.
THEOREM RowsArePermanent == Spec => RowsPermanent
<1>1. TypeOK /\ [Next]_vars =>
        [\A t \in Recorded :
          /\ t \in Recorded'
          /\ txns'[t] = [txns[t] EXCEPT !.reversedBy = txns'[t].reversedBy]
          /\ txns'[t].reversedBy # txns[t].reversedBy =>
                ~IsReversed(t) /\ txns'[t].reversedBy \in Recorded' \ Recorded]_vars
  BY RowsStep DEF KeepsRow
<1>2. QED
  BY <1>1, TypeCorrect, PTL DEF Spec, RowsPermanent

=============================================================================
