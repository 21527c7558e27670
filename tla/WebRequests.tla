----------------------------- MODULE WebRequests -----------------------------
(***************************************************************************)
(* Web requests at work at once, each with a database session of its own.  *)
(* A handler is a few steps: it loads rows, perhaps under a lock, and then *)
(* writes in one commit what it computed from the rows as it loaded them.  *)
(* The modules of the single components add the tables and the handlers.   *)
(***************************************************************************)
EXTENDS Integers, Sequences, FiniteSetsExt

CONSTANTS
    Requests,
    Officers,  \* users who are logged in
    Nobody,    \* the NULL of a column that names a user
    NoJob      \* what an idle request works on, and has seen

VARIABLES
    job,   \* what a request was asked to do
    step,  \* how far its handler is
    seen   \* the rows its session has loaded

requestVars == <<job, step, seen>>

RequestsInit ==
    /\ job = [r \in Requests |-> NoJob]
    /\ step = [r \in Requests |-> "idle"]
    /\ seen = [r \in Requests |-> NoJob]

\* The row a request is about.
Of(r) == job[r].of

\* A request arrives and its handler makes its first read.
Arrive(r, j, s, row) ==
    /\ step[r] = "idle"
    /\ job' = [job EXCEPT ![r] = j]
    /\ step' = [step EXCEPT ![r] = s]
    /\ seen' = [seen EXCEPT ![r] = row]

\* It goes on from one step to the next, with what it has loaded so far.
Advance(r, from, to, row) ==
    /\ step[r] = from
    /\ step' = [step EXCEPT ![r] = to]
    /\ seen' = [seen EXCEPT ![r] = row]
    /\ UNCHANGED job

\* Commit or rollback: the session is empty again and its row locks are free.
Finish(r) ==
    /\ job' = [job EXCEPT ![r] = NoJob]
    /\ step' = [step EXCEPT ![r] = "idle"]
    /\ seen' = [seen EXCEPT ![r] = NoJob]

\* A failed check, an error of the database or a lost worker.
Abandon(r) == step[r] # "idle" /\ Finish(r)

\* No other request is at a step where it holds the row it works on.
Free(r, row, holding) == \A q \in Requests \ {r} : step[q] \in holding => Of(q) # row

\* The mapper's UPDATE of a row names the columns whose value is not the loaded one.
Written(row, loaded, new) ==
    [c \in DOMAIN row |-> IF new[c] = loaded[c] THEN row[c] ELSE new[c]]

=============================================================================
