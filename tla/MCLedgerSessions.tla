-------------------------- MODULE MCLedgerSessions --------------------------
(***************************************************************************)
(* Values for the constants of LedgerSessions, and its two regimes in one  *)
(* run: in a behaviour either only handlers that take the balance under    *)
(* the lock are called ("locking"), or also those that load it before.     *)
(***************************************************************************)
EXTENDS LedgerSessions, TLC

CONSTANTS Counter  \* the account that every request of the second regime is about

VARIABLES locking

MCOpenings == 0 .. 1
MCStatements == {0}
OneOpening == {0}

\* Handlers that take the balance under the lock.
LockedKinds == {"DONATION", "INCOME", "CORRECTION", "OPENING"}

\* An expense, a preloaded payment, an income, and their reversals, beside the two
\* reconciliation services.
PreloadedKinds == {"EXPENSE", "SPONSORSHIP_PAYMENT", "INCOME", "CORRECTION",
                   "RECONCILIATION", "RESOLUTION"}

MCKinds == LockedKinds \cup PreloadedKinds

\* A source is the module and the id of the record a posting stands for.
MCSources == {<<"DONATION", 1>>, <<"EXPENSE", 1>>, <<"SPONSORSHIP_PAYMENT", 1>>, <<"INCOME", 1>>}

\* Two payments, no other request.
PaymentKinds == {"EXPENSE", "INCOME"}
PaymentSources == {<<"EXPENSE", 1>>, <<"INCOME", 1>>}

Called(j) ==
    \/ j = NoRecord
    \/ locking /\ j.kind \in LockedKinds
    \/ ~locking /\ j.kind \in PreloadedKinds /\ (j.kind # "CORRECTION" => j.account = Counter)

MCSessionsInit ==
    /\ locking \in BOOLEAN
    /\ SessionsInit
    /\ ~locking => opening = [a \in Accounts |-> 0]

MCSessionsNext == SessionsNext /\ UNCHANGED locking /\ \A r \in Requests : Called(job'[r])

MCSessionsVars == <<sessionVars, locking>>

MCSessionsSpec == MCSessionsInit /\ [][MCSessionsNext]_MCSessionsVars

\* As long as every handler takes the account's balance under its lock, requests
\* running together can only do what the same calls do one after the other
\* (ImplementsLedger, asked of the first regime).
LockedImplementsLedger == Init /\ [][locking => [Next]_vars]_MCSessionsVars

Symmetry == Permutations(TxnIds) \cup Permutations(Requests)

=============================================================================
