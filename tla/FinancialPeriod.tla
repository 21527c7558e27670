--------------------------- MODULE FinancialPeriod ---------------------------
(***************************************************************************)
(* Financial years and events as administrators create, activate, close    *)
(* and lock them (routes/admin.py, financial_controls_service.py), and the *)
(* guard every session applies to the records it writes for an event       *)
(* (financial_guard.py).  Every handler reads without a lock.              *)
(***************************************************************************)
EXTENDS WebRequests

CONSTANTS
    Years, Occasions,  \* ids of financial years and of events
    MaxRecords         \* bound on the records written for an event

ASSUME PeriodAssumption == MaxRecords \in Nat

VARIABLES
    year,       \* the financial_years table
    occasion,   \* the events table
    records,    \* number of donations, expenses, ... of each event
    crossed     \* history: the last activation had not seen all active events

tables == <<year, occasion, records>>
periodVars == <<tables, crossed, requestVars>>

NoYear == [made |-> FALSE, locked |-> FALSE]

NoOccasion == [status |-> "NONE", active |-> FALSE, year |-> NoJob]

PeriodInit ==
    /\ year = [y \in Years |-> NoYear]
    /\ occasion = [e \in Occasions |-> NoOccasion]
    /\ records = [e \in Occasions |-> 0]
    /\ crossed = FALSE
    /\ RequestsInit

-----------------------------------------------------------------------------
CreateYear(y) ==
    /\ ~year[y].made
    /\ year' = [year EXCEPT ![y].made = TRUE]
    /\ UNCHANGED <<occasion, records, crossed, requestVars>>

Exists(e) == occasion[e].status # "NONE"

Active == {e \in Occasions : occasion[e].active}

Work(e, task) == [of |-> e, task |-> task]

Load(r, e, task, row) ==
    /\ Arrive(r, Work(e, task), "loaded", row)
    /\ UNCHANGED <<tables, crossed>>

\* A new event needs a financial year that is not locked.
LoadYearForEvent(r, e, y) ==
    /\ ~Exists(e)
    /\ year[y].made /\ ~year[y].locked
    /\ Load(r, e, "CREATE", y)

CommitEvent(r) ==
    LET e == Of(r) IN
    /\ step[r] = "loaded" /\ job[r].task = "CREATE"
    /\ ~Exists(e)
    /\ occasion' = [occasion EXCEPT ![e] = [status |-> "OPEN", active |-> FALSE, year |-> seen[r]]]
    /\ Finish(r)
    /\ UNCHANGED <<year, records, crossed>>

\* What the session has loaded of the event; it has seen no other one yet.
Snapshot(e) == [row |-> occasion[e], others |-> {}]

\* close_event, lock_event, activate and deactivate look at the status they loaded.
LoadEvent(r, e, task) ==
    /\ Exists(e)
    /\ task \in {"CLOSE", "ACTIVATE", "DEACTIVATE"} => occasion[e].status = "OPEN"
    /\ task = "LOCK" => occasion[e].status # "LOCKED"
    /\ task = "ACTIVATE" => ~year[occasion[e].year].locked
    /\ Load(r, e, task, Snapshot(e))

\* Mutant: the whole row is written back.
ChangedWhole(r, new) == occasion' = [occasion EXCEPT ![Of(r)] = new]

Changed(r, new) == occasion' = [occasion EXCEPT ![Of(r)] = Written(@, seen[r].row, new)]

CommitStatus(r) ==
    /\ step[r] = "loaded"
    /\ \/ job[r].task = "CLOSE" /\ Changed(r, [seen[r].row EXCEPT !.status = "CLOSED"])
       \/ job[r].task = "LOCK" /\ Changed(r, [seen[r].row EXCEPT !.status = "LOCKED"])
       \/ job[r].task = "DEACTIVATE" /\ Changed(r, [seen[r].row EXCEPT !.active = FALSE])
    /\ Finish(r)
    /\ UNCHANGED <<year, records, crossed>>

\* An activation asks for the other active events in a second query.
SeeOthers(r) ==
    /\ step[r] = "loaded" /\ job[r].task = "ACTIVATE"
    /\ Advance(r, "loaded", "listed", [seen[r] EXCEPT !.others = Active \ {Of(r)}])
    /\ UNCHANGED <<tables, crossed>>

\* Mutant: the event that was active before stays so.
DeactivatedNone(row, e, others) == row

\* Every event the session saw active is written inactive.
Deactivated(row, e, others) == IF e \in others THEN [row EXCEPT !.active = FALSE] ELSE row

CommitActivation(r) ==
    LET e == Of(r) IN
    /\ step[r] = "listed"
    /\ occasion' = [o \in Occasions |->
            IF o = e THEN Written(occasion[e], seen[r].row, [seen[r].row EXCEPT !.active = TRUE])
            ELSE Deactivated(occasion[o], o, seen[r].others)]
    /\ crossed' = ~(Active \ {e} \subseteq seen[r].others)
    /\ Finish(r)
    /\ UNCHANGED <<year, records>>

LoadYear(r, y) ==
    /\ year[y].made /\ ~year[y].locked
    /\ Load(r, y, "LOCK_YEAR", year[y])

CommitYearLock(r) ==
    /\ step[r] = "loaded" /\ job[r].task = "LOCK_YEAR"
    /\ year' = [year EXCEPT ![Of(r)].locked = TRUE]
    /\ Finish(r)
    /\ UNCHANGED <<occasion, records, crossed>>

\* Mutant: the guard does not look at the financial year.
EditableByStatus(e) == occasion[e].status = "OPEN"

\* Event.is_editable.
Editable(e) == occasion[e].status = "OPEN" /\ ~year[occasion[e].year].locked

\* A service loads the event and finds it editable.
LoadForRecord(r, e) ==
    /\ Exists(e)
    /\ Editable(e)
    /\ records[e] < MaxRecords
    /\ Load(r, e, "RECORD", Snapshot(e))

\* The guard runs before each flush, on the event the session has loaded.
CommitRecord(r) ==
    /\ step[r] = "loaded" /\ job[r].task = "RECORD"
    /\ records' = [records EXCEPT ![Of(r)] = @ + 1]
    /\ Finish(r)
    /\ UNCHANGED <<year, occasion, crossed>>

AbandonPeriod(r) == Abandon(r) /\ UNCHANGED <<tables, crossed>>

PeriodNext ==
    \/ \E y \in Years : CreateYear(y)
    \/ \E r \in Requests :
        \/ \E e \in Occasions :
            \/ \E y \in Years : LoadYearForEvent(r, e, y)
            \/ \E task \in {"CLOSE", "LOCK", "ACTIVATE", "DEACTIVATE"} : LoadEvent(r, e, task)
            \/ LoadForRecord(r, e)
        \/ \E y \in Years : LoadYear(r, y)
        \/ CommitEvent(r) \/ CommitStatus(r) \/ SeeOthers(r) \/ CommitActivation(r)
        \/ CommitYearLock(r) \/ CommitRecord(r) \/ AbandonPeriod(r)

PeriodSpec == PeriodInit /\ [][PeriodNext]_periodVars

-----------------------------------------------------------------------------
\* Years, events and the counts of their records have their shape.
PeriodTypeOK ==
    /\ year \in [Years -> [made : BOOLEAN, locked : BOOLEAN]]
    /\ occasion \in [Occasions -> [status : {"NONE", "OPEN", "CLOSED", "LOCKED"},
                                   active : BOOLEAN, year : Years \cup {NoJob}]]
    /\ records \in [Occasions -> Nat]

\* At most one event is active, the one the public donation page takes, unless the last
\* activation overlapped another one; the next activation that sees both repairs it.
OneActiveEvent == crossed \/ \A e, o \in Active : e = o

\* No code reopens: whatever administrators do at once, an event that has been closed
\* or locked never is open again, and a locked year never is unlocked.
NeverReopened ==
    [][/\ \A e \in Occasions : occasion[e].status \in {"CLOSED", "LOCKED"} =>
                                   occasion'[e].status \in {"CLOSED", "LOCKED"}
       /\ \A y \in Years : year[y].locked => year'[y].locked]_periodVars

Writing(e) == \E r \in Requests : step[r] = "loaded" /\ job[r] = Work(e, "RECORD")

Shut(e) == occasion[e].status \in {"CLOSED", "LOCKED"} \/ (Exists(e) /\ year[occasion[e].year].locked)

\* Once no session is left that loaded it before, an event that is closed, or whose
\* year is locked, gets no more records.
FrozenOnceQuiet ==
    [][\A e \in Occasions : Shut(e) /\ ~Writing(e) =>
            records'[e] = records[e] /\ ~Writing(e)']_periodVars

=============================================================================
