------------------------------ MODULE MCLedger ------------------------------
(***************************************************************************)
(* Values for the constants of Ledger: opening balances and statements     *)
(* small enough that a statement is sometimes right and sometimes wrong.   *)
(***************************************************************************)
EXTENDS Ledger, TLC

MCOpenings == 0 .. 1
MCStatements == 0 .. 2
Symmetry == Permutations(TxnIds) \cup Permutations(Sources) \cup Permutations(Refs)

=============================================================================
