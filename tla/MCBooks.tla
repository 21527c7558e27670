------------------------------- MODULE MCBooks -------------------------------
(***************************************************************************)
(* The ledger and the online donations, one desk each: in a behaviour all  *)
(* calls come to one desk, so that the runs of the two specifications are  *)
(* one.  What the other desk would use keeps one initial value.            *)
(***************************************************************************)
EXTENDS Ledger, OnlineDonation, TLC

CONSTANTS Desks

VARIABLES desk

\* Opening balances and statements small enough that a statement is sometimes right
\* and sometimes wrong.
MCOpenings == 0 .. 1
MCStatements == 0 .. 2

BooksVars == <<desk, vars, donationVars>>

BooksInit ==
    /\ desk \in Desks
    /\ Init /\ DonationInit
    /\ desk = "donations" => opening = [a \in Accounts |-> 0]

BooksNext ==
    /\ UNCHANGED desk
    /\ \/ desk = "ledger" /\ Next /\ UNCHANGED donationVars
       \/ desk = "donations" /\ DonationNext /\ UNCHANGED vars

BooksSpec == BooksInit /\ [][BooksNext]_BooksVars

\* Constants of the two desks share model values, so that few permutations serve both.
BooksSymmetry ==
    Permutations(TxnIds) \cup Permutations(Sources) \cup Permutations(Requests)

\* Tables, messages and requests have their shape.
BooksTypeOK == TypeOK /\ DonationTypeOK

=============================================================================
