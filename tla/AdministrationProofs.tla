------------------------ MODULE AdministrationProofs ------------------------
(***************************************************************************)
(* Theorems about what administrators decide: financial years and events,  *)
(* budgets, and who may do what; for any number of rows and of requests at *)
(* once.                                                                   *)
(***************************************************************************)
EXTENDS FinancialPeriod, Budgets, Access, TLAPS

-----------------------------------------------------------------------------
(***************************************************************************)
(* Financial period: any number of financial years, events and records.    *)
(***************************************************************************)
OccasionRow ==
    [status : {"NONE", "OPEN", "CLOSED", "LOCKED"}, active : BOOLEAN, year : Years \cup {NoJob}]

EventTasks == {"CLOSE", "LOCK", "ACTIVATE", "DEACTIVATE", "RECORD"}

PeriodRequestsOK ==
    /\ step \in [Requests -> {"idle", "loaded", "listed"}]
    /\ DOMAIN job = Requests
    /\ DOMAIN seen = Requests

\* What a request works on, and the shape of what it has loaded.
PeriodWork(r) ==
    \/ step[r] = "loaded" /\ job[r] \in [of : Occasions, task : {"CREATE"}] /\ seen[r] \in Years
    \/ /\ job[r] \in [of : Occasions, task : EventTasks]
       /\ seen[r] \in [row : OccasionRow, others : SUBSET Occasions]
    \/ step[r] = "loaded" /\ job[r] \in [of : Years, task : {"LOCK_YEAR"}]

\* The inductive invariant.
PeriodInv ==
    /\ PeriodTypeOK
    /\ PeriodRequestsOK
    /\ \A r \in Requests : step[r] # "idle" => PeriodWork(r)
    /\ OneActiveEvent

-----------------------------------------------------------------------------
(***************************************************************************)
(* Facts about states.                                                     *)
(***************************************************************************)
\* The row of an event a commit leaves behind, column by column.
LEMMA WrittenOccasion ==
    ASSUME NEW row \in OccasionRow, NEW old \in OccasionRow, NEW new \in OccasionRow
    PROVE  /\ Written(row, old, new) \in OccasionRow
           /\ Written(row, old, new).status = IF new.status = old.status THEN row.status ELSE new.status
           /\ Written(row, old, new).active = IF new.active = old.active THEN row.active ELSE new.active
<1>1. Written(row, old, new) =
        [status |-> IF new.status = old.status THEN row.status ELSE new.status,
         active |-> IF new.active = old.active THEN row.active ELSE new.active,
         year |-> IF new.year = old.year THEN row.year ELSE new.year]
    BY DEF Written, OccasionRow
<1>. QED BY <1>1 DEF OccasionRow

\* No step but an activation makes an event active or forgets an overlap.
LEMMA FewerActive ==
    ASSUME PeriodInv, crossed' = crossed,
           \A e \in Occasions : occasion'[e].active => occasion[e].active
    PROVE  OneActiveEvent'
BY DEF PeriodInv, OneActiveEvent, Active

\* A request that begins or ends leaves the others in order.
LEMMA OthersPeriodWork ==
    ASSUME PeriodInv, NEW r \in Requests, NEW j, NEW s \in {"idle", "loaded", "listed"}, NEW x,
           job' = [job EXCEPT ![r] = j], step' = [step EXCEPT ![r] = s], seen' = [seen EXCEPT ![r] = x],
           s # "idle" => PeriodWork(r)'
    PROVE  PeriodRequestsOK' /\ \A q \in Requests : step'[q] # "idle" => PeriodWork(q)'
<1>1. PeriodRequestsOK /\ PeriodRequestsOK'
    BY DEF PeriodInv, PeriodRequestsOK
<1>2. step'[r] = s /\ \A q \in Requests \ {r} : step'[q] = step[q] /\ job'[q] = job[q] /\ seen'[q] = seen[q]
    BY <1>1 DEF PeriodRequestsOK
<1>3. ASSUME NEW q \in Requests, step'[q] # "idle" PROVE PeriodWork(q)'
  <2>1. CASE q = r
      BY <1>2, <1>3, <2>1
  <2>2. CASE q # r
      BY <1>2, <1>3, <2>2 DEF PeriodInv, PeriodWork
  <2>. QED BY <2>1, <2>2
<1>. QED BY <1>1, <1>3

-----------------------------------------------------------------------------
(***************************************************************************)
(* Every step keeps the inductive invariant.                               *)
(***************************************************************************)
LEMMA PeriodInitInv == PeriodInit => PeriodInv
BY DEF PeriodInit, RequestsInit, PeriodInv, PeriodTypeOK, PeriodRequestsOK, OneActiveEvent,
   Active, NoYear, NoOccasion

\* A request loads what it works on; the tables stay as they are.
LEMMA LoadPeriodInv ==
    ASSUME PeriodInv, NEW r \in Requests, NEW j, NEW x,
           Arrive(r, j, "loaded", x), UNCHANGED <<tables, crossed>>,
           \/ j \in [of : Occasions, task : {"CREATE"}] /\ x \in Years
           \/ j \in [of : Occasions, task : EventTasks] /\ x \in [row : OccasionRow, others : SUBSET Occasions]
           \/ j \in [of : Years, task : {"LOCK_YEAR"}]
    PROVE  PeriodInv'
<1>1. /\ job' = [job EXCEPT ![r] = j]
      /\ step' = [step EXCEPT ![r] = "loaded"]
      /\ seen' = [seen EXCEPT ![r] = x]
    BY DEF Arrive
<1>2. job'[r] = j /\ step'[r] = "loaded" /\ seen'[r] = x
    BY <1>1 DEF PeriodInv, PeriodRequestsOK
<1>3. PeriodWork(r)'
    BY <1>2 DEF PeriodWork
<1>4. PeriodRequestsOK' /\ \A q \in Requests : step'[q] # "idle" => PeriodWork(q)'
    BY <1>1, <1>3, OthersPeriodWork
<1>5. PeriodTypeOK' /\ OneActiveEvent'
    BY DEF tables, PeriodInv, PeriodTypeOK, OneActiveEvent, Active
<1>. QED BY <1>4, <1>5 DEF PeriodInv

LEMMA PeriodFinish ==
    ASSUME PeriodInv, NEW r \in Requests, Finish(r)
    PROVE  PeriodRequestsOK' /\ \A q \in Requests : step'[q] # "idle" => PeriodWork(q)'
BY OthersPeriodWork DEF Finish

LEMMA CommitEventInv ==
    ASSUME PeriodInv, NEW r \in Requests, CommitEvent(r)
    PROVE  PeriodInv'
<1>1. PeriodWork(r) /\ job[r].task = "CREATE"
    BY DEF CommitEvent, PeriodInv
<1>2. Of(r) \in Occasions /\ seen[r] \in Years
    BY <1>1 DEF PeriodWork, Of, EventTasks
<1>3. /\ occasion' = [occasion EXCEPT ![Of(r)] = [status |-> "OPEN", active |-> FALSE, year |-> seen[r]]]
      /\ UNCHANGED <<year, records, crossed>>
      /\ Finish(r)
    BY DEF CommitEvent
<1>4. PeriodTypeOK'
    BY <1>2, <1>3 DEF PeriodInv, PeriodTypeOK
<1>5. OneActiveEvent'
    BY <1>2, <1>3, FewerActive DEF PeriodInv, PeriodTypeOK
<1>. QED BY <1>3, <1>4, <1>5, PeriodFinish DEF PeriodInv

\* What closing, locking and deactivating do to the event, and that no other changes.
LEMMA StatusStep ==
    ASSUME PeriodInv, NEW r \in Requests, CommitStatus(r)
    PROVE  /\ occasion' \in [Occasions -> OccasionRow]
           /\ \A e \in Occasions :
                 /\ occasion'[e].active => occasion[e].active
                 /\ occasion'[e].status \in {occasion[e].status, "CLOSED", "LOCKED"}
<1>1. PeriodWork(r) /\ job[r].task \in {"CLOSE", "LOCK", "DEACTIVATE"}
    BY DEF CommitStatus, PeriodInv
<1>2. Of(r) \in Occasions /\ seen[r].row \in OccasionRow
    BY <1>1 DEF PeriodWork, Of
<1>3. occasion \in [Occasions -> OccasionRow]
    BY DEF PeriodInv, PeriodTypeOK, OccasionRow
<1>4. PICK new \in OccasionRow :
        /\ new.status \in {seen[r].row.status, "CLOSED", "LOCKED"}
        /\ new.active \in {seen[r].row.active, FALSE}
        /\ occasion' = [occasion EXCEPT ![Of(r)] = Written(occasion[Of(r)], seen[r].row, new)]
  <2>1. \A s \in {"CLOSED", "LOCKED"} :
          /\ [seen[r].row EXCEPT !.status = s] \in OccasionRow
          /\ [seen[r].row EXCEPT !.status = s].status = s
          /\ [seen[r].row EXCEPT !.status = s].active = seen[r].row.active
      BY <1>2 DEF OccasionRow
  <2>2. /\ [seen[r].row EXCEPT !.active = FALSE] \in OccasionRow
        /\ [seen[r].row EXCEPT !.active = FALSE].status = seen[r].row.status
        /\ [seen[r].row EXCEPT !.active = FALSE].active = FALSE
      BY <1>2 DEF OccasionRow
  <2>. QED BY <2>1, <2>2 DEF CommitStatus, Changed
<1>5. /\ Written(occasion[Of(r)], seen[r].row, new) \in OccasionRow
      /\ Written(occasion[Of(r)], seen[r].row, new).active => occasion[Of(r)].active
      /\ Written(occasion[Of(r)], seen[r].row, new).status \in {occasion[Of(r)].status, "CLOSED", "LOCKED"}
  <2>. DEFINE row == occasion[Of(r)]
              after == Written(row, seen[r].row, new)
  <2>1. row \in OccasionRow
      BY <1>2, <1>3
  <2>2. /\ after \in OccasionRow
        /\ after.status = IF new.status = seen[r].row.status THEN row.status ELSE new.status
        /\ after.active = IF new.active = seen[r].row.active THEN row.active ELSE new.active
      BY <1>2, <2>1, WrittenOccasion
  <2>. HIDE DEF after
  <2>3. after.status \in {row.status, "CLOSED", "LOCKED"}
      BY <1>4, <2>2
  <2>4. CASE new.active = seen[r].row.active
      BY <2>2, <2>3, <2>4 DEF after
  <2>5. CASE new.active # seen[r].row.active
    <3>1. after.active = FALSE
        BY <1>4, <2>2, <2>5
    <3>. QED BY <2>2, <2>3, <3>1 DEF after
  <2>. QED BY <2>4, <2>5
<1>. QED BY <1>2, <1>3, <1>4, <1>5

LEMMA CommitStatusInv ==
    ASSUME PeriodInv, NEW r \in Requests, CommitStatus(r)
    PROVE  PeriodInv'
<1>1. UNCHANGED <<year, records, crossed>> /\ Finish(r)
    BY DEF CommitStatus
<1>2. PeriodTypeOK'
    BY <1>1, StatusStep DEF PeriodInv, PeriodTypeOK, OccasionRow
<1>3. OneActiveEvent'
    BY <1>1, StatusStep, FewerActive
<1>. QED BY <1>1, <1>2, <1>3, PeriodFinish DEF PeriodInv

\* An activation sees which other events are active.
LEMMA SeeOthersInv ==
    ASSUME PeriodInv, NEW r \in Requests, SeeOthers(r)
    PROVE  PeriodInv'
<1>. DEFINE others == Active \ {Of(r)}
            x == [seen[r] EXCEPT !.others = others]
<1>1. /\ step[r] = "loaded" /\ job[r].task = "ACTIVATE"
      /\ UNCHANGED <<year, occasion, records, crossed, job>>
      /\ step' = [step EXCEPT ![r] = "listed"]
      /\ seen' = [seen EXCEPT ![r] = x]
    BY DEF SeeOthers, Advance, tables
<1>2. /\ job[r] \in [of : Occasions, task : EventTasks]
      /\ seen[r] \in [row : OccasionRow, others : SUBSET Occasions]
    BY <1>1 DEF PeriodInv, PeriodWork
<1>3. x \in [row : OccasionRow, others : SUBSET Occasions]
    BY <1>2 DEF Active
<1>. HIDE DEF x
<1>4. PeriodRequestsOK /\ PeriodRequestsOK'
    BY <1>1 DEF PeriodInv, PeriodRequestsOK
<1>5. /\ step'[r] = "listed" /\ seen'[r] = x /\ job' = job
      /\ \A q \in Requests \ {r} : step'[q] = step[q] /\ seen'[q] = seen[q]
    BY <1>1, <1>4 DEF PeriodRequestsOK
<1>6. ASSUME NEW q \in Requests, step'[q] # "idle" PROVE PeriodWork(q)'
  <2>1. CASE q = r
      BY <1>2, <1>3, <1>5, <2>1 DEF PeriodWork
  <2>2. CASE q # r
      BY <1>5, <1>6, <2>2 DEF PeriodInv, PeriodWork
  <2>. QED BY <2>1, <2>2
<1>7. PeriodTypeOK' /\ OneActiveEvent'
    BY <1>1 DEF PeriodInv, PeriodTypeOK, OneActiveEvent, Active
<1>. QED BY <1>4, <1>6, <1>7 DEF PeriodInv

\* What an activation does to each event.
LEMMA ActivationStep ==
    ASSUME PeriodInv, NEW r \in Requests, CommitActivation(r)
    PROVE  /\ occasion' \in [Occasions -> OccasionRow]
           /\ \A e \in Occasions :
                 /\ occasion'[e].status = occasion[e].status
                 /\ occasion'[e].active => e = Of(r) \/ (occasion[e].active /\ e \notin seen[r].others)
<1>1. PeriodWork(r) /\ step[r] = "listed"
    BY DEF CommitActivation, PeriodInv
<1>2. Of(r) \in Occasions /\ seen[r].row \in OccasionRow
    BY <1>1 DEF PeriodWork, Of
<1>3. occasion \in [Occasions -> OccasionRow]
    BY DEF PeriodInv, PeriodTypeOK, OccasionRow
<1>. DEFINE new == [seen[r].row EXCEPT !.active = TRUE]
<1>4. new \in OccasionRow /\ new.status = seen[r].row.status
    BY <1>2 DEF OccasionRow
<1>5. \A e \in Occasions :
        occasion'[e] = IF e = Of(r) THEN Written(occasion[e], seen[r].row, new)
                       ELSE Deactivated(occasion[e], e, seen[r].others)
    BY DEF CommitActivation
<1>. HIDE DEF new
<1>6. /\ Written(occasion[Of(r)], seen[r].row, new) \in OccasionRow
      /\ Written(occasion[Of(r)], seen[r].row, new).status = occasion[Of(r)].status
    BY <1>2, <1>3, <1>4, WrittenOccasion
<1>7. ASSUME NEW e \in Occasions, e # Of(r)
      PROVE  /\ occasion'[e] \in OccasionRow
             /\ occasion'[e].status = occasion[e].status
             /\ occasion'[e].active => occasion[e].active /\ e \notin seen[r].others
    BY <1>3, <1>5, <1>7 DEF Deactivated, OccasionRow
<1>8. occasion' = [e \in Occasions |-> occasion'[e]]
    BY DEF CommitActivation
<1>9. \A e \in Occasions : occasion'[e] \in OccasionRow
    BY <1>2, <1>5, <1>6, <1>7
<1>10. occasion' \in [Occasions -> OccasionRow]
    BY <1>8, <1>9
<1>. QED BY <1>2, <1>5, <1>6, <1>7, <1>10

LEMMA CommitActivationInv ==
    ASSUME PeriodInv, NEW r \in Requests, CommitActivation(r)
    PROVE  PeriodInv'
<1>1. /\ UNCHANGED <<year, records>> /\ Finish(r)
      /\ crossed' = ~(Active \ {Of(r)} \subseteq seen[r].others)
    BY DEF CommitActivation
<1>2. PeriodTypeOK'
    BY <1>1, ActivationStep DEF PeriodInv, PeriodTypeOK, OccasionRow
<1>3. OneActiveEvent'
    BY <1>1, ActivationStep DEF OneActiveEvent, Active
<1>. QED BY <1>1, <1>2, <1>3, PeriodFinish DEF PeriodInv

LEMMA PeriodNextInv ==
    ASSUME PeriodInv, [PeriodNext]_periodVars
    PROVE  PeriodInv'
<1>1. CASE UNCHANGED periodVars
    BY <1>1
       DEF periodVars, tables, requestVars, PeriodInv, PeriodTypeOK, PeriodRequestsOK, PeriodWork,
           OneActiveEvent, Active
<1>2. ASSUME NEW y \in Years, CreateYear(y) PROVE PeriodInv'
  <2>1. /\ UNCHANGED <<occasion, records, crossed, job, step, seen>>
        /\ year' = [year EXCEPT ![y].made = TRUE]
      BY <1>2 DEF CreateYear, requestVars
  <2>2. PeriodTypeOK' /\ OneActiveEvent'
      BY <2>1 DEF PeriodInv, PeriodTypeOK, OneActiveEvent, Active
  <2>3. PeriodRequestsOK' /\ \A q \in Requests : step'[q] # "idle" => PeriodWork(q)'
      BY <2>1 DEF PeriodInv, PeriodRequestsOK, PeriodWork
  <2>. QED BY <2>2, <2>3 DEF PeriodInv
<1>3. ASSUME NEW r \in Requests, NEW e \in Occasions,
             \/ \E y \in Years : LoadYearForEvent(r, e, y)
             \/ \E task \in {"CLOSE", "LOCK", "ACTIVATE", "DEACTIVATE"} : LoadEvent(r, e, task)
             \/ LoadForRecord(r, e)
      PROVE  PeriodInv'
  <2>1. Snapshot(e) \in [row : OccasionRow, others : SUBSET Occasions]
      BY DEF PeriodInv, PeriodTypeOK, OccasionRow, Snapshot
  <2>2. ASSUME NEW y \in Years, LoadYearForEvent(r, e, y) PROVE PeriodInv'
    <3>1. Work(e, "CREATE") \in [of : Occasions, task : {"CREATE"}]
        BY DEF Work
    <3>. QED BY <2>2, <3>1, LoadPeriodInv DEF LoadYearForEvent, Load
  <2>3. ASSUME NEW task \in EventTasks, Load(r, e, task, Snapshot(e)) PROVE PeriodInv'
    <3>1. Work(e, task) \in [of : Occasions, task : EventTasks]
        BY DEF Work
    <3>. QED BY <2>1, <2>3, <3>1, LoadPeriodInv DEF Load
  <2>. QED BY <1>3, <2>2, <2>3 DEF LoadEvent, LoadForRecord, EventTasks
<1>4. ASSUME NEW r \in Requests, NEW y \in Years, LoadYear(r, y) PROVE PeriodInv'
  <2>1. Work(y, "LOCK_YEAR") \in [of : Years, task : {"LOCK_YEAR"}]
      BY DEF Work
  <2>. QED BY <1>4, <2>1, LoadPeriodInv DEF LoadYear, Load
<1>5. ASSUME NEW r \in Requests, CommitYearLock(r) PROVE PeriodInv'
  <2>1. UNCHANGED <<occasion, records, crossed>> /\ Finish(r) /\ year' = [year EXCEPT ![Of(r)].locked = TRUE]
      BY <1>5 DEF CommitYearLock
  <2>2. PeriodTypeOK' /\ OneActiveEvent'
      BY <2>1 DEF PeriodInv, PeriodTypeOK, OneActiveEvent, Active
  <2>. QED BY <2>1, <2>2, PeriodFinish DEF PeriodInv
<1>6. ASSUME NEW r \in Requests, CommitRecord(r) PROVE PeriodInv'
  <2>1. UNCHANGED <<year, occasion, crossed>> /\ Finish(r) /\ records' = [records EXCEPT ![Of(r)] = records[Of(r)] + 1]
      BY <1>6 DEF CommitRecord
  <2>2. Of(r) \in Occasions
      BY <1>6 DEF CommitRecord, PeriodInv, PeriodWork, Of
  <2>3. PeriodTypeOK' /\ OneActiveEvent'
      BY <2>1, <2>2 DEF PeriodInv, PeriodTypeOK, OneActiveEvent, Active
  <2>. QED BY <2>1, <2>3, PeriodFinish DEF PeriodInv
<1>7. ASSUME NEW r \in Requests, AbandonPeriod(r) PROVE PeriodInv'
  <2>1. UNCHANGED <<year, occasion, records, crossed>> /\ Finish(r)
      BY <1>7 DEF AbandonPeriod, Abandon, tables
  <2>2. PeriodTypeOK' /\ OneActiveEvent'
      BY <2>1 DEF PeriodInv, PeriodTypeOK, OneActiveEvent, Active
  <2>. QED BY <2>1, <2>2, PeriodFinish DEF PeriodInv
<1>. QED BY <1>1, <1>2, <1>3, <1>4, <1>5, <1>6, <1>7,
            CommitEventInv, CommitStatusInv, SeeOthersInv, CommitActivationInv DEF PeriodNext

-----------------------------------------------------------------------------
(***************************************************************************)
(* What a step never does.                                                 *)
(***************************************************************************)
LEMMA StepKeepsClosed ==
    ASSUME PeriodInv, PeriodNext
    PROVE  /\ \A e \in Occasions : occasion[e].status \in {"CLOSED", "LOCKED"} =>
                                       occasion'[e].status \in {"CLOSED", "LOCKED"}
           /\ \A y \in Years : year[y].locked => year'[y].locked
<1>1. ASSUME NEW e \in Occasions, occasion[e].status \in {"CLOSED", "LOCKED"}
      PROVE  occasion'[e].status \in {"CLOSED", "LOCKED"}
  <2>1. ASSUME NEW r \in Requests, CommitEvent(r) PROVE occasion'[e] = occasion[e]
    <3>1. e # Of(r)
        BY <1>1, <2>1 DEF CommitEvent, Exists
    <3>. QED BY <2>1, <3>1 DEF CommitEvent, PeriodInv, PeriodTypeOK
  <2>2. ASSUME NEW r \in Requests, CommitStatus(r) PROVE occasion'[e].status \in {"CLOSED", "LOCKED"}
      BY <1>1, <2>2, StatusStep
  <2>3. ASSUME NEW r \in Requests, CommitActivation(r) PROVE occasion'[e].status \in {"CLOSED", "LOCKED"}
      BY <1>1, <2>3, ActivationStep
  <2>4. ASSUME UNCHANGED occasion PROVE occasion'[e].status \in {"CLOSED", "LOCKED"}
      BY <1>1, <2>4
  <2>. QED BY <1>1, <2>1, <2>2, <2>3, <2>4
           DEF PeriodNext, CreateYear, LoadYearForEvent, LoadEvent, LoadForRecord, LoadYear, Load,
               SeeOthers, CommitYearLock, CommitRecord, AbandonPeriod, tables
<1>2. ASSUME NEW y \in Years, year[y].locked PROVE year'[y].locked
  <2>1. year \in [Years -> [made : BOOLEAN, locked : BOOLEAN]]
      BY DEF PeriodInv, PeriodTypeOK
  <2>2. ASSUME NEW z \in Years, CreateYear(z) PROVE year'[y].locked
      BY <1>2, <2>1, <2>2 DEF CreateYear
  <2>3. ASSUME NEW r \in Requests, CommitYearLock(r) PROVE year'[y].locked
      BY <1>2, <2>1, <2>3 DEF CommitYearLock
  <2>4. ASSUME UNCHANGED year PROVE year'[y].locked
      BY <1>2, <2>4
  <2>. QED BY <2>2, <2>3, <2>4
           DEF PeriodNext, LoadYearForEvent, LoadEvent, LoadForRecord, LoadYear, Load,
               CommitEvent, CommitStatus, SeeOthers, CommitActivation, CommitRecord, AbandonPeriod, tables
<1>. QED BY <1>1, <1>2

LEMMA StepKeepsFrozen ==
    ASSUME PeriodInv, [PeriodNext]_periodVars, NEW e \in Occasions, Shut(e), ~Writing(e)
    PROVE  records'[e] = records[e] /\ ~Writing(e)'
<1>1. ~Editable(e)
    BY DEF Shut, Editable, Exists
<1>2. PeriodRequestsOK
    BY DEF PeriodInv
<1>3. records'[e] = records[e]
  <2>1. ASSUME NEW r \in Requests, CommitRecord(r) PROVE records'[e] = records[e]
    <3>1. job[r].task = "RECORD" /\ step[r] = "loaded" /\ PeriodWork(r)
        BY <2>1 DEF CommitRecord, PeriodInv
    <3>2. job[r] = Work(Of(r), "RECORD")
        BY <3>1 DEF PeriodWork, Work, Of, EventTasks
    <3>3. Of(r) # e
        BY <3>1, <3>2 DEF Writing
    <3>. QED BY <2>1, <3>3 DEF CommitRecord, PeriodInv, PeriodTypeOK
  <2>. QED BY <2>1
           DEF PeriodNext, periodVars, tables, CreateYear, LoadYearForEvent, LoadEvent, LoadForRecord, LoadYear,
               Load, CommitEvent, CommitStatus, SeeOthers, CommitActivation, CommitYearLock, AbandonPeriod
<1>4. ~Writing(e)'
  <2>. SUFFICES ASSUME NEW q \in Requests, step'[q] = "loaded", job'[q] = Work(e, "RECORD")
                PROVE  FALSE
      BY DEF Writing, Work
  <2>1. ~(step[q] = "loaded" /\ job[q] = Work(e, "RECORD"))
      BY DEF Writing
  <2>2. ASSUME NEW r \in Requests, Finish(r) PROVE FALSE
      BY <1>2, <2>1, <2>2 DEF Finish, PeriodRequestsOK
  <2>3. ASSUME NEW r \in Requests, NEW o, NEW task, NEW x, Load(r, o, task, x),
               Work(o, task) # Work(e, "RECORD")
        PROVE  FALSE
      BY <1>2, <2>1, <2>3 DEF Load, Arrive, PeriodRequestsOK
  <2>4. ASSUME UNCHANGED <<job, step>> PROVE FALSE
      BY <2>1, <2>4
  <2>5. ASSUME NEW r \in Requests, NEW o \in Occasions, LoadForRecord(r, o) PROVE FALSE
    <3>1. o # e
        BY <1>1, <2>5 DEF LoadForRecord
    <3>. QED BY <2>3, <2>5, <3>1 DEF LoadForRecord, Work
  <2>6. ASSUME NEW r \in Requests, NEW o \in Occasions,
               \/ \E y \in Years : LoadYearForEvent(r, o, y)
               \/ \E task \in {"CLOSE", "LOCK", "ACTIVATE", "DEACTIVATE"} : LoadEvent(r, o, task)
        PROVE  FALSE
    <3>1. \A task \in {"CREATE", "CLOSE", "LOCK", "ACTIVATE", "DEACTIVATE"} : Work(o, task) # Work(e, "RECORD")
        BY DEF Work
    <3>. QED BY <2>3, <2>6, <3>1 DEF LoadYearForEvent, LoadEvent
  <2>7. ASSUME NEW r \in Requests, NEW y \in Years, LoadYear(r, y) PROVE FALSE
    <3>1. Work(y, "LOCK_YEAR") # Work(e, "RECORD")
        BY DEF Work
    <3>. QED BY <2>3, <2>7, <3>1 DEF LoadYear
  <2>8. ASSUME NEW r \in Requests, SeeOthers(r) PROVE FALSE
      BY <1>2, <2>1, <2>8 DEF SeeOthers, Advance, PeriodRequestsOK
  <2>. QED BY <2>2, <2>4, <2>5, <2>6, <2>7, <2>8
           DEF PeriodNext, periodVars, requestVars, CreateYear, CommitEvent, CommitStatus, CommitActivation,
               CommitYearLock, CommitRecord, AbandonPeriod, Abandon
<1>. QED BY <1>3, <1>4

\* Tables and requests fit together in every reachable state.
THEOREM PeriodInvariant == PeriodSpec => []PeriodInv
BY PeriodInitInv, PeriodNextInv, PTL DEF PeriodSpec

\* The tables keep their shape.
THEOREM PeriodTypeCorrect == PeriodSpec => []PeriodTypeOK
<1>1. PeriodInv => PeriodTypeOK
    BY DEF PeriodInv
<1>. QED BY <1>1, PeriodInvariant, PTL

\* One event is active at most, but for an activation that overlapped another.
THEOREM ActiveEventIsOne == PeriodSpec => []OneActiveEvent
<1>1. PeriodInv => OneActiveEvent
    BY DEF PeriodInv
<1>. QED BY <1>1, PeriodInvariant, PTL

\* Closed events and locked years stay so, whatever stale row a request writes back.
THEOREM NothingReopens == PeriodSpec => NeverReopened
<1>1. PeriodInv /\ [PeriodNext]_periodVars
      => [/\ \A e \in Occasions : occasion[e].status \in {"CLOSED", "LOCKED"} =>
                                       occasion'[e].status \in {"CLOSED", "LOCKED"}
          /\ \A y \in Years : year[y].locked => year'[y].locked]_periodVars
    BY StepKeepsClosed
<1>. QED BY <1>1, PeriodInvariant, PTL DEF PeriodSpec, NeverReopened

\* An event that is shut gets no record once the sessions that loaded it before are gone.
THEOREM ShutMeansFrozen == PeriodSpec => FrozenOnceQuiet
<1>1. PeriodInv /\ [PeriodNext]_periodVars
      => [\A e \in Occasions : Shut(e) /\ ~Writing(e) =>
            records'[e] = records[e] /\ ~Writing(e)']_periodVars
    BY StepKeepsFrozen
<1>. QED BY <1>1, PeriodInvariant, PTL DEF PeriodSpec, FrozenOnceQuiet

-----------------------------------------------------------------------------
(***************************************************************************)
(* Budgets: any number of events, any limits and any sums of the ledger.   *)
(***************************************************************************)
BudgetStates == {"NONE", "DRAFT", "REVISED", "APPROVED"}

BudgetRow == [status : BudgetStates, limit : Limits \cup {0}, actual : 0 .. MaxSpent,
              revision : 0 .. MaxRevision,
              creator : Officers \cup {Nobody}, approver : Officers \cup {Nobody}]

BudgetTask == [of : Events, task : {"MANAGE", "SHOW", "APPROVE", "REVISE"},
               by : Officers \cup {Nobody}, limit : Limits \cup {0}]

BudgetRequestsOK ==
    /\ step \in [Requests -> {"idle", "loaded", "flushed", "totalled", "summed", "configured"}]
    /\ DOMAIN job = Requests
    /\ DOMAIN seen = Requests

BudgetTables ==
    /\ budget \in [Events -> BudgetRow]
    /\ spent \in [Events -> 0 .. MaxSpent]
    /\ everSpent \in [Events -> SUBSET (0 .. MaxSpent)]
    /\ \A e \in Events : {0, spent[e]} \subseteq everSpent[e]
    /\ DOMAIN approvedAs = Events
    /\ \A e \in Events :
        /\ budget[e].status = "NONE" => budget[e] = NoBudget
        /\ budget[e].status # "NONE" => budget[e].creator \in Officers

\* A row a request has loaded has the creator the budget has, whatever has been
\* written since; and while a first entry is on its way there is no other.
SeenBudget(r) ==
    LET row == seen[r].row
        now == budget[Of(r)]
    IN  /\ seen[r] \in [row : BudgetRow, total : everSpent[Of(r)]]
        /\ row.actual \in everSpent[Of(r)]
        /\ row.revision < MaxRevision
        /\ row.status = "NONE" => row = NoBudget
        /\ row.status # "NONE" => now.status # "NONE" /\ now.creator = row.creator

BudgetTaskAt(r) ==
    /\ step[r] \in {"flushed", "totalled"} => job[r].task = "MANAGE"
    /\ step[r] = "summed" => job[r].task = "SHOW"
    /\ job[r].task = "MANAGE" =>
        /\ job[r].by \in Officers /\ job[r].limit \in Limits
        /\ step[r] # "loaded" /\ seen[r].row.status = "NONE" => budget[Of(r)].status = "NONE"
    /\ job[r].task # "MANAGE" => seen[r].row.status # "NONE"
    /\ job[r].task = "APPROVE" => job[r].by \in Officers /\ job[r].by # seen[r].row.creator

BudgetWork(r) ==
    /\ job[r] \in BudgetTask
    /\ step[r] # "configured" => SeenBudget(r) /\ BudgetTaskAt(r)

\* The inductive invariant.
BudgetInv ==
    /\ BudgetTables
    /\ BudgetRequestsOK
    /\ \A r \in Requests : step[r] # "idle" => BudgetWork(r)
    /\ ActualsDerived /\ ApprovedAsShown /\ CreatorNeverApproves

-----------------------------------------------------------------------------
(***************************************************************************)
(* Rows.                                                                   *)
(***************************************************************************)
LEMMA NoBudgetRow == NoBudget \in BudgetRow /\ NoBudget.status = "NONE"
BY BudgetAssumption DEF NoBudget, BudgetRow, BudgetStates

\* What the mapper leaves of a row, column by column.
LEMMA WrittenBudget ==
    ASSUME NEW row \in BudgetRow, NEW old \in BudgetRow, NEW new \in BudgetRow
    PROVE  LET w == Written(row, old, new) IN
           /\ w \in BudgetRow
           /\ w.status = IF new.status = old.status THEN row.status ELSE new.status
           /\ w.limit = IF new.limit = old.limit THEN row.limit ELSE new.limit
           /\ w.actual = IF new.actual = old.actual THEN row.actual ELSE new.actual
           /\ w.revision = IF new.revision = old.revision THEN row.revision ELSE new.revision
           /\ w.creator = IF new.creator = old.creator THEN row.creator ELSE new.creator
           /\ w.approver = IF new.approver = old.approver THEN row.approver ELSE new.approver
<1>1. Written(row, old, new) =
        [status |-> IF new.status = old.status THEN row.status ELSE new.status,
         limit |-> IF new.limit = old.limit THEN row.limit ELSE new.limit,
         actual |-> IF new.actual = old.actual THEN row.actual ELSE new.actual,
         revision |-> IF new.revision = old.revision THEN row.revision ELSE new.revision,
         creator |-> IF new.creator = old.creator THEN row.creator ELSE new.creator,
         approver |-> IF new.approver = old.approver THEN row.approver ELSE new.approver]
    BY DEF Written, BudgetRow
<1>. QED BY <1>1 DEF BudgetRow

\* What the form makes of a row.
LEMMA ConfiguredRow ==
    ASSUME NEW row \in BudgetRow, NEW u \in Officers, NEW n \in Limits, row.revision < MaxRevision,
           row.status = "NONE" => row = NoBudget
    PROVE  LET new == Configured(row, u, n) IN
           /\ new \in BudgetRow
           /\ new.status \in BudgetStates \ {"NONE", "APPROVED"}
           /\ row.status = "NONE" => new.creator = u /\ new.approver = Nobody
           /\ row.status # "NONE" => new.creator = row.creator /\ new.approver = row.approver
           /\ new.actual = row.actual
<1>1. row.revision + 1 \in 0 .. MaxRevision
    BY BudgetAssumption DEF BudgetRow
<1>2. CASE row.status = "NONE"
  <2>1. Configured(row, u, n) = [status |-> "DRAFT", limit |-> n, actual |-> 0, revision |-> 1,
                                 creator |-> u, approver |-> Nobody]
      BY <1>2 DEF Configured, NoBudget
  <2>2. 1 \in 0 .. MaxRevision /\ 0 \in 0 .. MaxSpent /\ row.actual = 0
      BY <1>1, <1>2, BudgetAssumption DEF NoBudget, BudgetRow
  <2>. QED BY <1>2, <2>1, <2>2 DEF BudgetRow, BudgetStates
<1>3. CASE row.status = "APPROVED"
  <2>1. Configured(row, u, n) = [row EXCEPT !.status = "REVISED", !.limit = n, !.revision = @ + 1]
      BY <1>3 DEF Configured
  <2>. QED BY <1>1, <1>3, <2>1 DEF BudgetRow, BudgetStates
<1>4. CASE row.status \notin {"NONE", "APPROVED"}
  <2>1. Configured(row, u, n) = [row EXCEPT !.limit = n]
      BY <1>4 DEF Configured
  <2>. QED BY <1>4, <2>1 DEF BudgetRow, BudgetStates
<1>. QED BY <1>2, <1>3, <1>4

LEMMA WithActualRow ==
    ASSUME NEW row \in BudgetRow, NEW n \in 0 .. MaxSpent
    PROVE  LET new == WithActual(row, n) IN
           /\ new \in BudgetRow
           /\ new.actual = n
           /\ new.status = row.status /\ new.limit = row.limit /\ new.revision = row.revision
           /\ new.creator = row.creator /\ new.approver = row.approver
BY DEF WithActual, BudgetRow

-----------------------------------------------------------------------------
(***************************************************************************)
(* Requests.                                                               *)
(***************************************************************************)
LEMMA BudgetInitInv == BudgetInit => BudgetInv
<1>. SUFFICES ASSUME BudgetInit PROVE BudgetInv
    OBVIOUS
<1>1. BudgetTables
    BY NoBudgetRow, BudgetAssumption DEF BudgetInit, BudgetTables
<1>2. BudgetRequestsOK /\ \A r \in Requests : step[r] = "idle"
    BY DEF BudgetInit, RequestsInit, BudgetRequestsOK
<1>3. \A e \in Events : budget[e].status = "NONE" /\ budget[e].actual = 0 /\ everSpent[e] = {0}
    BY DEF BudgetInit, NoBudget
<1>4. ActualsDerived /\ ApprovedAsShown /\ CreatorNeverApproves
    BY <1>3 DEF ActualsDerived, ApprovedAsShown, CreatorNeverApproves
<1>. QED BY <1>1, <1>2, <1>4 DEF BudgetInv

\* What the requests know of a budget stays true when its creator stays and the sums
\* of the ledger only grow in number; a first entry on its way is not crossed.
LEMMA BudgetWorkKept ==
    ASSUME BudgetInv, NEW q \in Requests, step[q] # "idle",
           step'[q] = step[q], job'[q] = job[q], seen'[q] = seen[q],
           \A e \in Events :
              /\ everSpent[e] \subseteq everSpent'[e]
              /\ budget[e].status # "NONE" =>
                    budget'[e].status # "NONE" /\ budget'[e].creator = budget[e].creator
              /\ Holds(q) /\ Of(q) = e => budget'[e] = budget[e]
    PROVE  BudgetWork(q)'
<1>0. BudgetWork(q)
    BY DEF BudgetInv
<1>1. CASE step[q] = "configured"
    BY <1>0, <1>1 DEF BudgetWork
<1>2. CASE step[q] # "configured"
  <2>1. SeenBudget(q) /\ BudgetTaskAt(q) /\ job[q] \in BudgetTask
      BY <1>0, <1>2 DEF BudgetWork
  <2>2. Of(q) \in Events /\ Of(q)' = Of(q)
      BY <2>1 DEF BudgetTask, Of
  <2>3. SeenBudget(q)'
      BY <2>1, <2>2 DEF SeenBudget
  <2>4. ASSUME job[q].task = "MANAGE", step[q] # "loaded", seen[q].row.status = "NONE"
        PROVE  budget'[Of(q)].status = "NONE"
    <3>1. step[q] \in {"flushed", "totalled"}
        BY <1>2, <2>1, <2>4 DEF BudgetInv, BudgetRequestsOK, BudgetTaskAt
    <3>2. seen[q].row \in BudgetRow /\ seen[q].row.revision < MaxRevision /\ seen[q].row = NoBudget
        BY <2>1, <2>4 DEF SeenBudget
    <3>3. job[q].by \in Officers /\ job[q].limit \in Limits /\ budget[Of(q)].status = "NONE"
        BY <2>1, <2>4 DEF BudgetTaskAt
    <3>4. Configured(seen[q].row, job[q].by, job[q].limit).status # "NONE"
        BY <3>2, <3>3, ConfiguredRow
    <3>. QED BY <2>2, <2>4, <3>1, <3>3, <3>4 DEF Holds
  <2>5. BudgetTaskAt(q)'
      BY <2>1, <2>2, <2>4 DEF BudgetTaskAt
  <2>. QED BY <2>1, <2>3, <2>5 DEF BudgetWork
<1>. QED BY <1>1, <1>2

BudgetSteps == {"idle", "loaded", "flushed", "totalled", "summed", "configured"}

\* The creators stay, the ledger's sums are remembered, and the budget of a request
\* that holds it is written by no other.
BudgetsGoOn(r) ==
    \A e \in Events :
        /\ everSpent[e] \subseteq everSpent'[e]
        /\ budget[e].status # "NONE" =>
              budget'[e].status # "NONE" /\ budget'[e].creator = budget[e].creator
        /\ \A q \in Requests \ {r} : Holds(q) /\ Of(q) = e => budget'[e] = budget[e]

\* One request takes a step, and the others stay where they are.
BudgetStepOf(r) ==
    /\ BudgetRequestsOK'
    /\ \A q \in Requests \ {r} : step'[q] = step[q] /\ job'[q] = job[q] /\ seen'[q] = seen[q]

\* They also stay in order.
LEMMA BudgetRequestStep ==
    ASSUME BudgetInv, NEW r \in Requests, BudgetStepOf(r), BudgetsGoOn(r),
           step'[r] # "idle" => BudgetWork(r)'
    PROVE  BudgetRequestsOK' /\ \A q \in Requests : step'[q] # "idle" => BudgetWork(q)'
<1>1. ASSUME NEW q \in Requests \ {r}, step'[q] # "idle" PROVE BudgetWork(q)'
    BY <1>1, BudgetWorkKept DEF BudgetsGoOn, BudgetStepOf
<1>. QED BY <1>1 DEF BudgetStepOf

\* What a request does to its own variables.
LEMMA BudgetArrival ==
    ASSUME BudgetInv, NEW r \in Requests, NEW j, NEW s \in BudgetSteps, NEW x, Arrive(r, j, s, x)
    PROVE  BudgetStepOf(r) /\ step'[r] = s /\ job'[r] = j /\ seen'[r] = x
BY DEF Arrive, BudgetInv, BudgetRequestsOK, BudgetSteps, BudgetStepOf

LEMMA BudgetAdvance ==
    ASSUME BudgetInv, NEW r \in Requests, NEW from, NEW s \in BudgetSteps, NEW x, Advance(r, from, s, x)
    PROVE  BudgetStepOf(r) /\ step[r] = from /\ step'[r] = s /\ job'[r] = job[r] /\ seen'[r] = x
BY DEF Advance, BudgetInv, BudgetRequestsOK, BudgetSteps, BudgetStepOf

LEMMA BudgetFinish ==
    ASSUME BudgetInv, NEW r \in Requests, Finish(r)
    PROVE  BudgetStepOf(r) /\ step'[r] = "idle"
BY DEF Finish, BudgetInv, BudgetRequestsOK, BudgetStepOf

\* A step that leaves the tables as they are.
LEMMA BudgetReadInv ==
    ASSUME BudgetInv, NEW r \in Requests, BudgetStepOf(r),
           UNCHANGED <<budget, spent, historyVars>>,
           step'[r] # "idle" => BudgetWork(r)'
    PROVE  BudgetInv'
<1>1. BudgetsGoOn(r)
    BY DEF BudgetsGoOn, historyVars
<1>2. BudgetTables' /\ ActualsDerived' /\ ApprovedAsShown' /\ CreatorNeverApproves'
    BY DEF BudgetInv, BudgetTables, ActualsDerived, ApprovedAsShown, CreatorNeverApproves,
       historyVars
<1>. QED BY <1>1, <1>2, BudgetRequestStep DEF BudgetInv

LEMMA SpendInv ==
    ASSUME BudgetInv, NEW e \in Events, NEW n \in 0 .. MaxSpent, Spend(e, n)
    PROVE  BudgetInv'
<1>1. UNCHANGED <<budget, approvedAs, overlapped, job, step, seen>>
    BY DEF Spend, requestVars
<1>2. /\ spent' \in [Events -> 0 .. MaxSpent] /\ spent'[e] = n
      /\ everSpent' \in [Events -> SUBSET (0 .. MaxSpent)]
      /\ \A f \in Events : everSpent[f] \subseteq everSpent'[f] /\ (f # e => spent'[f] = spent[f])
      /\ n \in everSpent'[e]
    BY DEF Spend, BudgetInv, BudgetTables
<1>3. BudgetTables'
    BY <1>1, <1>2 DEF BudgetInv, BudgetTables
<1>4. ActualsDerived' /\ ApprovedAsShown' /\ CreatorNeverApproves'
    BY <1>1, <1>2 DEF BudgetInv, ActualsDerived, ApprovedAsShown, CreatorNeverApproves
<1>5. ASSUME NEW q \in Requests, step'[q] # "idle" PROVE BudgetWork(q)'
    BY <1>1, <1>2, <1>5, BudgetWorkKept
<1>. QED BY <1>1, <1>3, <1>4, <1>5 DEF BudgetInv, BudgetRequestsOK

\* A request loads the budget it is about.
LEMMA LoadBudgetInv ==
    ASSUME BudgetInv, NEW r \in Requests, NEW e \in Events,
           NEW task \in {"MANAGE", "SHOW", "APPROVE", "REVISE"},
           NEW u \in Officers \cup {Nobody}, NEW n \in Limits \cup {0},
           LoadBudget(r, e, task, u, n),
           task = "MANAGE" => u \in Officers /\ n \in Limits,
           task # "MANAGE" => budget[e].status # "NONE",
           task = "APPROVE" => u \in Officers /\ budget[e].creator # u
    PROVE  BudgetInv'
<1>1. /\ Arrive(r, Task(e, task, u, n), "loaded", View(e))
      /\ UNCHANGED <<budget, spent, historyVars>>
      /\ budget[e].revision < MaxRevision
    BY DEF LoadBudget
<1>2. BudgetStepOf(r) /\ job'[r] = Task(e, task, u, n) /\ step'[r] = "loaded" /\ seen'[r] = View(e)
    BY <1>1, BudgetArrival DEF BudgetSteps
<1>3. job'[r] \in BudgetTask /\ Of(r)' = e
    BY <1>2 DEF BudgetTask, Task, Of
<1>4. SeenBudget(r)'
  <2>1. View(e) \in [row : BudgetRow, total : everSpent[e]] /\ View(e).row = budget[e]
      BY DEF BudgetInv, BudgetTables, View
  <2>2. budget[e].actual \in everSpent[e]
      BY DEF BudgetInv, ActualsDerived
  <2>. QED BY <1>1, <1>2, <1>3, <2>1, <2>2 DEF SeenBudget, BudgetInv, BudgetTables, historyVars
<1>5. BudgetTaskAt(r)'
    BY <1>1, <1>2, <1>3 DEF BudgetTaskAt, Task, View
<1>6. BudgetWork(r)'
    BY <1>3, <1>4, <1>5 DEF BudgetWork
<1>. QED BY <1>1, <1>2, <1>6, BudgetReadInv

LEMMA FlushBudgetInv ==
    ASSUME BudgetInv, NEW r \in Requests, FlushBudget(r)
    PROVE  BudgetInv'
<1>1. /\ Advance(r, "loaded", "flushed", seen[r])
      /\ UNCHANGED <<budget, spent, historyVars>>
      /\ job[r].task = "MANAGE"
      /\ (budget[Of(r)].status = "NONE") <=> (seen[r].row.status = "NONE")
    BY DEF FlushBudget
<1>2. /\ BudgetStepOf(r)
      /\ step[r] = "loaded" /\ step'[r] = "flushed" /\ job'[r] = job[r] /\ seen'[r] = seen[r]
  <2>1. "flushed" \in BudgetSteps
      BY DEF BudgetSteps
  <2>. QED BY <1>1, <2>1, BudgetAdvance
<1>. Of(r)' = Of(r)
    BY <1>2 DEF Of
<1>3. job[r] \in BudgetTask /\ SeenBudget(r) /\ BudgetTaskAt(r)
    BY <1>2 DEF BudgetInv, BudgetWork
<1>4. SeenBudget(r)' /\ BudgetTaskAt(r)'
    BY <1>1, <1>2, <1>3 DEF SeenBudget, BudgetTaskAt, historyVars
<1>5. BudgetWork(r)'
    BY <1>2, <1>3, <1>4 DEF BudgetWork
<1>. QED BY <1>1, <1>2, <1>5, BudgetReadInv

LEMMA RecalculateInv ==
    ASSUME BudgetInv, NEW r \in Requests, Recalculate(r)
    PROVE  BudgetInv'
<1>. DEFINE row == [seen[r] EXCEPT !.total = spent[Of(r)]]
<1>1. /\ UNCHANGED <<budget, spent, historyVars>>
      /\ \/ Advance(r, "flushed", "totalled", row)
         \/ Advance(r, "loaded", "summed", row) /\ job[r].task = "SHOW"
    BY DEF Recalculate
<1>2. PICK from \in {"flushed", "loaded"}, s \in {"totalled", "summed"} :
        /\ Advance(r, from, s, row)
        /\ s = "totalled" => from = "flushed"
        /\ s = "summed" => from = "loaded" /\ job[r].task = "SHOW"
    BY <1>1
<1>3. /\ BudgetStepOf(r) /\ Of(r)' = Of(r)
      /\ step[r] = from /\ job'[r] = job[r] /\ step'[r] = s /\ seen'[r] = row
    BY <1>2, BudgetAdvance DEF BudgetSteps, Of
<1>4. job[r] \in BudgetTask /\ SeenBudget(r) /\ BudgetTaskAt(r) /\ Of(r) \in Events
    BY <1>3 DEF BudgetInv, BudgetWork, BudgetTask, Of
<1>5. /\ row \in [row : BudgetRow, total : everSpent[Of(r)]]
      /\ row.row = seen[r].row
    BY <1>4 DEF SeenBudget, BudgetInv, BudgetTables
<1>. HIDE DEF row
<1>6. SeenBudget(r)' /\ BudgetTaskAt(r)'
    BY <1>1, <1>2, <1>3, <1>4, <1>5 DEF SeenBudget, BudgetTaskAt, historyVars
<1>7. BudgetWork(r)'
    BY <1>3, <1>4, <1>6 DEF BudgetWork
<1>. QED BY <1>1, <1>3, <1>7, BudgetReadInv

\* The audit entry, and a request that gives up.
LEMMA LeaveBudgetInv ==
    ASSUME BudgetInv, NEW r \in Requests, Finish(r), UNCHANGED <<budget, spent, historyVars>>
    PROVE  BudgetInv'
BY BudgetFinish, BudgetReadInv

-----------------------------------------------------------------------------
(***************************************************************************)
(* Writes.                                                                 *)
(***************************************************************************)
\* What a handler may make of the row it has loaded.
MayBecome(r, new) ==
    LET old == seen[r].row IN
    /\ new \in BudgetRow
    /\ new.status # "NONE"
    /\ new.actual = old.actual \/ new.actual \in everSpent[Of(r)]
    /\ old.status # "NONE" =>
          new.creator = old.creator /\ (new.approver = old.approver \/ new.approver # old.creator)
    /\ old.status = "NONE" =>
          /\ budget[Of(r)].status = "NONE"
          /\ new.creator \in Officers /\ new.approver = Nobody

\* The row it is written over keeps what it must.
LEMMA WrittenOverBudget ==
    ASSUME BudgetInv, NEW r \in Requests, Of(r) \in Events, SeenBudget(r),
           NEW new, MayBecome(r, new), WriteBudget(r, new)
    PROVE  LET e == Of(r)
               w == budget'[e]
           IN  /\ budget' = [budget EXCEPT ![e] = w]
               /\ w = Written(budget[e], seen[r].row, new)
               /\ w \in BudgetRow /\ w.status # "NONE"
               /\ w.creator \in Officers /\ w.approver # w.creator
               /\ budget[e].status # "NONE" => w.creator = budget[e].creator
               /\ w.actual \in everSpent[e]
<1>. DEFINE e == Of(r)
            old == seen[r].row
            row == budget[e]
            w == Written(row, old, new)
<1>1. budget \in [Events -> BudgetRow] /\ row \in BudgetRow /\ old \in BudgetRow /\ new \in BudgetRow
    BY DEF BudgetInv, BudgetTables, SeenBudget, MayBecome
<1>2. budget' = [budget EXCEPT ![e] = w] /\ budget'[e] = w
    BY <1>1 DEF WriteBudget
<1>3. /\ w \in BudgetRow
      /\ w.status = IF new.status = old.status THEN row.status ELSE new.status
      /\ w.actual = IF new.actual = old.actual THEN row.actual ELSE new.actual
      /\ w.creator = IF new.creator = old.creator THEN row.creator ELSE new.creator
      /\ w.approver = IF new.approver = old.approver THEN row.approver ELSE new.approver
    BY <1>1, WrittenBudget
<1>4. /\ row.actual \in everSpent[e]
      /\ row.status = "NONE" => row = NoBudget
      /\ row.status # "NONE" => row.creator \in Officers /\ row.approver # row.creator
    BY DEF BudgetInv, BudgetTables, ActualsDerived, CreatorNeverApproves
<1>5. /\ old.status = "NONE" => old = NoBudget
      /\ old.status # "NONE" => row.status # "NONE" /\ row.creator = old.creator
    BY DEF SeenBudget
<1>. HIDE DEF w
<1>6. w.actual \in everSpent[e]
    BY <1>3, <1>4 DEF MayBecome
<1>7. CASE old.status = "NONE"
  <2>1. row = NoBudget /\ old = NoBudget /\ new.creator \in Officers /\ new.approver = Nobody
      BY <1>4, <1>5, <1>7 DEF MayBecome
  <2>2. w.creator \in Officers /\ w.approver = Nobody
      BY <1>3, <2>1, BudgetAssumption DEF NoBudget
  <2>3. w.status # "NONE"
      BY <1>3, <1>7 DEF MayBecome
  <2>. QED BY <1>2, <1>3, <1>6, <2>1, <2>2, <2>3, BudgetAssumption, NoBudgetRow DEF w
<1>8. CASE old.status # "NONE"
  <2>1. new.creator = old.creator /\ (new.approver = old.approver \/ new.approver # old.creator)
      BY <1>8 DEF MayBecome
  <2>2. w.creator = row.creator /\ w.approver # row.creator /\ row.creator \in Officers
      BY <1>3, <1>4, <1>5, <1>8, <2>1
  <2>3. w.status # "NONE"
      BY <1>3, <1>5, <1>8 DEF MayBecome
  <2>. QED BY <1>2, <1>3, <1>6, <2>2, <2>3 DEF w
<1>. QED BY <1>7, <1>8

\* A write keeps the tables and the requests of others in order.
LEMMA BudgetWriteInv ==
    ASSUME BudgetInv, NEW r \in Requests, Of(r) \in Events, SeenBudget(r),
           NEW new, MayBecome(r, new), WriteBudget(r, new),
           UNCHANGED <<spent, everSpent>>, DOMAIN approvedAs' = Events,
           BudgetStepOf(r), step'[r] # "idle" => BudgetWork(r)'
    PROVE  /\ BudgetTables' /\ ActualsDerived'
           /\ BudgetRequestsOK' /\ \A q \in Requests : step'[q] # "idle" => BudgetWork(q)'
           /\ \A e \in Events : budget'[e].status # "NONE" => budget'[e].approver # budget'[e].creator
<1>. DEFINE e == Of(r)
            w == budget'[e]
<1>1. /\ budget' = [budget EXCEPT ![e] = w]
      /\ w \in BudgetRow /\ w.status # "NONE"
      /\ w.creator \in Officers /\ w.approver # w.creator
      /\ budget[e].status # "NONE" => w.creator = budget[e].creator
      /\ w.actual \in everSpent[e]
    BY WrittenOverBudget
<1>2. budget \in [Events -> BudgetRow]
    BY DEF BudgetInv, BudgetTables
<1>3. budget' \in [Events -> BudgetRow]
    BY <1>1, <1>2
<1>4. \A f \in Events \ {e} : budget'[f] = budget[f]
    BY <1>1, <1>2
<1>. HIDE DEF w
<1>5. BudgetTables'
    BY <1>1, <1>3, <1>4 DEF BudgetInv, BudgetTables, w
<1>6. ActualsDerived'
    BY <1>1, <1>4 DEF BudgetInv, ActualsDerived, w
<1>7. \A f \in Events : budget'[f].status # "NONE" => budget'[f].approver # budget'[f].creator
    BY <1>1, <1>4 DEF BudgetInv, CreatorNeverApproves, w
<1>8. BudgetsGoOn(r)
  <2>1. \A q \in Requests \ {r} : Holds(q) => Of(q) # e
      BY DEF WriteBudget, RowFree
  <2>. QED BY <1>1, <1>4, <2>1 DEF BudgetsGoOn, w
<1>. QED BY <1>5, <1>6, <1>7, <1>8, BudgetRequestStep

\* Two rows that differ in the actual figure at most.
LEMMA SameButActual ==
    ASSUME NEW row \in BudgetRow, NEW old \in BudgetRow,
           [row EXCEPT !.actual = 0] = [old EXCEPT !.actual = 0]
    PROVE  /\ row.status = old.status /\ row.limit = old.limit /\ row.revision = old.revision
           /\ row.approver = old.approver
<1>1. /\ [row EXCEPT !.actual = 0].status = [old EXCEPT !.actual = 0].status
      /\ [row EXCEPT !.actual = 0].limit = [old EXCEPT !.actual = 0].limit
      /\ [row EXCEPT !.actual = 0].revision = [old EXCEPT !.actual = 0].revision
      /\ [row EXCEPT !.actual = 0].approver = [old EXCEPT !.actual = 0].approver
    OBVIOUS
<1>. QED BY <1>1 DEF BudgetRow

\* A write that is no approval approves nothing, and shows nothing else as approved.
LEMMA PlainWriteInv ==
    ASSUME BudgetInv, NEW r \in Requests, Of(r) \in Events, SeenBudget(r),
           NEW new, MayBecome(r, new), WriteBudget(r, new),
           UNCHANGED <<spent, everSpent, approvedAs>>,
           BudgetStepOf(r), step'[r] # "idle" => BudgetWork(r)',
           new.status = "APPROVED" =>
              \E n \in 0 .. MaxSpent : new = WithActual(seen[r].row, n)
    PROVE  BudgetInv'
<1>. DEFINE e == Of(r)
            old == seen[r].row
            row == budget[e]
            w == budget'[e]
<1>1. DOMAIN approvedAs' = Events
    BY DEF BudgetInv, BudgetTables
<1>2. /\ BudgetTables' /\ ActualsDerived'
      /\ BudgetRequestsOK' /\ \A q \in Requests : step'[q] # "idle" => BudgetWork(q)'
      /\ \A f \in Events : budget'[f].status # "NONE" => budget'[f].approver # budget'[f].creator
    BY <1>1, BudgetWriteInv
<1>3. budget' = [budget EXCEPT ![e] = w] /\ w = Written(row, old, new)
    BY WrittenOverBudget
<1>4. budget \in [Events -> BudgetRow] /\ row \in BudgetRow /\ old \in BudgetRow /\ new \in BudgetRow
    BY DEF BudgetInv, BudgetTables, SeenBudget, MayBecome
<1>5. \A f \in Events \ {e} : budget'[f] = budget[f]
    BY <1>3, <1>4
<1>6. w.status = "APPROVED" =>
        /\ row.status = "APPROVED"
        /\ new.status = old.status => w.status = row.status
        /\ new.status = "APPROVED" =>
              w.limit = row.limit /\ w.revision = row.revision /\ w.approver = row.approver
  <2>1. /\ w.status = IF new.status = old.status THEN row.status ELSE new.status
        /\ w.limit = IF new.limit = old.limit THEN row.limit ELSE new.limit
        /\ w.revision = IF new.revision = old.revision THEN row.revision ELSE new.revision
        /\ w.approver = IF new.approver = old.approver THEN row.approver ELSE new.approver
      BY <1>3, <1>4, WrittenBudget
  <2>2. new.status = "APPROVED" =>
          /\ new.status = old.status /\ new.limit = old.limit
          /\ new.revision = old.revision /\ new.approver = old.approver
      BY <1>4, WithActualRow
  <2>. HIDE DEF w
  <2>. QED BY <2>1, <2>2
<1>7. /\ overlapped \subseteq overlapped'
      /\ e \notin overlapped' => [row EXCEPT !.actual = 0] = [old EXCEPT !.actual = 0]
    BY DEF WriteBudget
<1>. HIDE DEF w
<1>8. ASSUME e \notin overlapped', w.status = "APPROVED"
      PROVE  /\ e \notin overlapped /\ row.status = "APPROVED"
             /\ w.limit = row.limit /\ w.revision = row.revision /\ w.approver = row.approver
  <2>1. row.status = old.status
      BY <1>4, <1>7, <1>8, SameButActual
  <2>2. w.status = IF new.status = old.status THEN row.status ELSE new.status
      BY <1>3, <1>4, WrittenBudget DEF w
  <2>3. new.status = "APPROVED"
      BY <1>8, <2>1, <2>2
  <2>. QED BY <1>6, <1>7, <1>8, <2>3
<1>9. ApprovedAsShown'
  <2>1. \A f \in Events \ {e} : f \notin overlapped' => f \notin overlapped
      BY <1>7
  <2>. QED BY <1>5, <1>8, <2>1 DEF BudgetInv, ApprovedAsShown, w
<1>10. CreatorNeverApproves'
    BY <1>2, <1>5, <1>6 DEF BudgetInv, CreatorNeverApproves, w
<1>. QED BY <1>2, <1>9, <1>10 DEF BudgetInv

LEMMA CommitManageInv ==
    ASSUME BudgetInv, NEW r \in Requests, CommitManage(r)
    PROVE  BudgetInv'
<1>. DEFINE old == seen[r].row
            form == Configured(old, job[r].by, job[r].limit)
            new == WithActual(form, seen[r].total)
<1>1. /\ Advance(r, "totalled", "configured", NoJob)
      /\ WriteBudget(r, new)
      /\ UNCHANGED <<spent, approvedAs, everSpent>>
    BY DEF CommitManage
<1>2. "configured" \in BudgetSteps
    BY DEF BudgetSteps
<1>3. BudgetStepOf(r) /\ step[r] = "totalled" /\ step'[r] = "configured" /\ job'[r] = job[r]
    BY <1>1, <1>2, BudgetAdvance
<1>4. job[r] \in BudgetTask /\ SeenBudget(r) /\ BudgetTaskAt(r)
    BY <1>3 DEF BudgetInv, BudgetWork
<1>5. Of(r) \in Events
    BY <1>4 DEF BudgetTask, Of
<1>6. /\ old \in BudgetRow /\ old.revision < MaxRevision
      /\ old.status = "NONE" => old = NoBudget
      /\ seen[r].total \in everSpent[Of(r)] /\ seen[r].total \in 0 .. MaxSpent
    BY <1>4, <1>5 DEF SeenBudget, BudgetInv, BudgetTables
<1>7. /\ job[r].by \in Officers /\ job[r].limit \in Limits
      /\ old.status = "NONE" => budget[Of(r)].status = "NONE"
    BY <1>3, <1>4 DEF BudgetTaskAt
<1>. HIDE DEF old
<1>8. /\ form \in BudgetRow
      /\ form.status \in BudgetStates \ {"NONE", "APPROVED"}
      /\ old.status = "NONE" => form.creator = job[r].by /\ form.approver = Nobody
      /\ old.status # "NONE" => form.creator = old.creator /\ form.approver = old.approver
    BY <1>6, <1>7, ConfiguredRow
<1>. HIDE DEF form
<1>9. /\ new \in BudgetRow /\ new.actual = seen[r].total
      /\ new.status = form.status /\ new.creator = form.creator /\ new.approver = form.approver
    BY <1>6, <1>8, WithActualRow
<1>. HIDE DEF new
<1>10. MayBecome(r, new)
    BY <1>6, <1>7, <1>8, <1>9 DEF MayBecome, old
<1>11. BudgetWork(r)'
    BY <1>3, <1>4 DEF BudgetWork
<1>12. WriteBudget(r, new)
    BY <1>1 DEF new, form, old
<1>. QED BY <1>1, <1>3, <1>4, <1>5, <1>8, <1>9, <1>10, <1>11, <1>12, PlainWriteInv

LEMMA CommitShowInv ==
    ASSUME BudgetInv, NEW r \in Requests, CommitShow(r)
    PROVE  BudgetInv'
<1>. DEFINE new == WithActual(seen[r].row, seen[r].total)
<1>1. /\ step[r] = "summed" /\ Finish(r)
      /\ WriteBudget(r, new)
      /\ UNCHANGED <<spent, approvedAs, everSpent>>
    BY DEF CommitShow
<1>2. BudgetStepOf(r) /\ step'[r] = "idle"
    BY <1>1, BudgetFinish
<1>3. job[r] \in BudgetTask /\ SeenBudget(r) /\ BudgetTaskAt(r)
    BY <1>1 DEF BudgetInv, BudgetWork
<1>4. Of(r) \in Events
    BY <1>3 DEF BudgetTask, Of
<1>5. /\ seen[r].row \in BudgetRow /\ seen[r].row.status # "NONE"
      /\ seen[r].total \in everSpent[Of(r)] /\ seen[r].total \in 0 .. MaxSpent
    BY <1>1, <1>3, <1>4 DEF SeenBudget, BudgetTaskAt, BudgetInv, BudgetTables
<1>6. MayBecome(r, new)
    BY <1>5, WithActualRow DEF MayBecome
<1>7. \E n \in 0 .. MaxSpent : new = WithActual(seen[r].row, n)
    BY <1>5
<1>. HIDE DEF new
<1>. QED BY <1>1, <1>2, <1>3, <1>4, <1>6, <1>7, PlainWriteInv

LEMMA CommitRevisionInv ==
    ASSUME BudgetInv, NEW r \in Requests, CommitRevision(r)
    PROVE  BudgetInv'
<1>. DEFINE old == seen[r].row
            new == [old EXCEPT !.status = "REVISED", !.revision = @ + 1, !.approver = Nobody]
<1>1. /\ step[r] = "loaded" /\ job[r].task = "REVISE" /\ Finish(r)
      /\ WriteBudget(r, new)
      /\ UNCHANGED <<spent, approvedAs, everSpent>>
    BY DEF CommitRevision
<1>2. BudgetStepOf(r) /\ step'[r] = "idle"
    BY <1>1, BudgetFinish
<1>3. job[r] \in BudgetTask /\ SeenBudget(r) /\ BudgetTaskAt(r)
    BY <1>1 DEF BudgetInv, BudgetWork
<1>4. Of(r) \in Events
    BY <1>3 DEF BudgetTask, Of
<1>5. old \in BudgetRow /\ old.status # "NONE" /\ old.revision < MaxRevision /\ old.creator \in Officers
    BY <1>1, <1>3, <1>4 DEF SeenBudget, BudgetTaskAt, BudgetInv, BudgetTables
<1>6. old.revision + 1 \in 0 .. MaxRevision
    BY <1>5, BudgetAssumption DEF BudgetRow
<1>7. /\ new \in BudgetRow /\ new.status = "REVISED" /\ new.actual = old.actual
      /\ new.creator = old.creator /\ new.approver = Nobody
    BY <1>5, <1>6 DEF BudgetRow, BudgetStates
<1>8. MayBecome(r, new)
    BY <1>5, <1>7, BudgetAssumption DEF MayBecome
<1>. HIDE DEF new
<1>. QED BY <1>1, <1>2, <1>3, <1>4, <1>7, <1>8, PlainWriteInv

\* The approver has seen what it approves, unless the row has changed since.
LEMMA CommitApprovalInv ==
    ASSUME BudgetInv, NEW r \in Requests, CommitApproval(r)
    PROVE  BudgetInv'
<1>. DEFINE e == Of(r)
            old == seen[r].row
            row == budget[e]
            new == [old EXCEPT !.status = "APPROVED", !.approver = job[r].by]
            shown == [limit |-> old.limit, revision |-> old.revision]
            w == budget'[e]
<1>1. /\ step[r] = "loaded" /\ job[r].task = "APPROVE" /\ Finish(r)
      /\ WriteBudget(r, new)
      /\ approvedAs' = [approvedAs EXCEPT ![e] = shown]
      /\ UNCHANGED <<spent, everSpent>>
    BY DEF CommitApproval
<1>2. BudgetStepOf(r) /\ step'[r] = "idle"
    BY <1>1, BudgetFinish
<1>3. job[r] \in BudgetTask /\ SeenBudget(r) /\ BudgetTaskAt(r)
    BY <1>1 DEF BudgetInv, BudgetWork
<1>4. e \in Events
    BY <1>3 DEF BudgetTask, Of
<1>5. /\ old \in BudgetRow /\ old.status # "NONE" /\ row \in BudgetRow
      /\ job[r].by \in Officers /\ job[r].by # old.creator
    BY <1>1, <1>3, <1>4 DEF SeenBudget, BudgetTaskAt, BudgetInv, BudgetTables
<1>6. /\ new \in BudgetRow /\ new.status = "APPROVED" /\ new.limit = old.limit
      /\ new.actual = old.actual /\ new.revision = old.revision
      /\ new.creator = old.creator /\ new.approver = job[r].by
    BY <1>5 DEF BudgetRow, BudgetStates
<1>7. MayBecome(r, new)
    BY <1>5, <1>6 DEF MayBecome
<1>. HIDE DEF new
<1>8. /\ DOMAIN approvedAs' = Events /\ approvedAs'[e] = shown /\ shown # NoJob
      /\ \A f \in Events \ {e} : approvedAs'[f] = approvedAs[f]
  <2>1. shown \in [limit : Limits \cup {0}, revision : 0 .. MaxRevision]
      BY <1>5 DEF BudgetRow
  <2>. QED BY <1>1, <1>4, <2>1, BudgetAssumption DEF BudgetInv, BudgetTables
<1>9. /\ BudgetTables' /\ ActualsDerived'
      /\ BudgetRequestsOK' /\ \A q \in Requests : step'[q] # "idle" => BudgetWork(q)'
      /\ \A f \in Events : budget'[f].status # "NONE" => budget'[f].approver # budget'[f].creator
    BY <1>1, <1>2, <1>3, <1>4, <1>7, <1>8, BudgetWriteInv
<1>10. budget' = [budget EXCEPT ![e] = w] /\ w = Written(row, old, new)
    BY <1>1, <1>3, <1>4, <1>7, WrittenOverBudget
<1>11. \A f \in Events \ {e} : budget'[f] = budget[f]
    BY <1>4, <1>10 DEF BudgetInv, BudgetTables
<1>12. CreatorNeverApproves'
    BY <1>8, <1>9, <1>11 DEF BudgetInv, CreatorNeverApproves
<1>13. /\ overlapped \subseteq overlapped'
       /\ e \notin overlapped' => [row EXCEPT !.actual = 0] = [old EXCEPT !.actual = 0]
    BY <1>1 DEF WriteBudget
<1>14. /\ w.limit = IF new.limit = old.limit THEN row.limit ELSE new.limit
       /\ w.revision = IF new.revision = old.revision THEN row.revision ELSE new.revision
       /\ w.approver = IF new.approver = old.approver THEN row.approver ELSE new.approver
    BY <1>5, <1>6, <1>10, WrittenBudget
<1>. HIDE DEF w
<1>15. ASSUME e \notin overlapped'
       PROVE  shown = [limit |-> w.limit, revision |-> w.revision] /\ w.approver # Nobody
  <2>1. row.limit = old.limit /\ row.revision = old.revision /\ row.approver = old.approver
      BY <1>5, <1>13, <1>15, SameButActual
  <2>. QED BY <1>5, <1>6, <1>14, <2>1, BudgetAssumption
<1>16. ApprovedAsShown'
  <2>1. \A f \in Events \ {e} : f \notin overlapped' => f \notin overlapped
      BY <1>13
  <2>. QED BY <1>8, <1>11, <1>15, <2>1 DEF BudgetInv, ApprovedAsShown, w
<1>. QED BY <1>9, <1>12, <1>16 DEF BudgetInv

-----------------------------------------------------------------------------
LEMMA BudgetNextInv == BudgetInv /\ [BudgetNext]_budgetVars => BudgetInv'
<1>. SUFFICES ASSUME BudgetInv, [BudgetNext]_budgetVars PROVE BudgetInv'
    OBVIOUS
<1>1. CASE UNCHANGED budgetVars
  <2>1. /\ UNCHANGED <<budget, spent, historyVars>>
        /\ UNCHANGED <<job, step, seen>>
      BY <1>1 DEF budgetVars, historyVars, requestVars
  <2>2. BudgetTables' /\ BudgetRequestsOK' /\ ActualsDerived' /\ ApprovedAsShown' /\ CreatorNeverApproves'
      BY <2>1 DEF BudgetInv, BudgetTables, BudgetRequestsOK, ActualsDerived, ApprovedAsShown,
                  CreatorNeverApproves, historyVars
  <2>3. \A q \in Requests : step'[q] # "idle" => BudgetWork(q)'
      BY <2>1, BudgetWorkKept DEF historyVars
  <2>. QED BY <2>2, <2>3 DEF BudgetInv
<1>2. ASSUME NEW e \in Events, NEW n \in 0 .. MaxSpent, Spend(e, n) PROVE BudgetInv'
    BY <1>2, SpendInv
<1>3. ASSUME NEW r \in Requests, NEW e \in Events, NEW u \in Officers, NEW n \in Limits, Manage(r, e, u, n)
      PROVE  BudgetInv'
    BY <1>3, LoadBudgetInv DEF Manage
<1>4. ASSUME NEW r \in Requests, NEW e \in Events, NEW u \in Officers, LoadApprove(r, e, u)
      PROVE  BudgetInv'
    BY <1>4, LoadBudgetInv DEF LoadApprove
<1>5. ASSUME NEW r \in Requests, NEW e \in Events, Show(r, e) \/ LoadRevise(r, e)
      PROVE  BudgetInv'
    BY <1>5, LoadBudgetInv DEF Show, LoadRevise
<1>6. ASSUME NEW r \in Requests, FlushBudget(r) PROVE BudgetInv'
    BY <1>6, FlushBudgetInv
<1>7. ASSUME NEW r \in Requests, Recalculate(r) PROVE BudgetInv'
    BY <1>7, RecalculateInv
<1>8. ASSUME NEW r \in Requests, CommitAudit(r) \/ AbandonBudget(r) PROVE BudgetInv'
    BY <1>8, LeaveBudgetInv DEF CommitAudit, AbandonBudget, Abandon
<1>9. ASSUME NEW r \in Requests, CommitManage(r) PROVE BudgetInv'
    BY <1>9, CommitManageInv
<1>10. ASSUME NEW r \in Requests, CommitShow(r) PROVE BudgetInv'
    BY <1>10, CommitShowInv
<1>11. ASSUME NEW r \in Requests, CommitApproval(r) PROVE BudgetInv'
    BY <1>11, CommitApprovalInv
<1>12. ASSUME NEW r \in Requests, CommitRevision(r) PROVE BudgetInv'
    BY <1>12, CommitRevisionInv
<1>. QED BY <1>1, <1>2, <1>3, <1>4, <1>5, <1>6, <1>7, <1>8, <1>9, <1>10, <1>11, <1>12 DEF BudgetNext

\* Whatever overlaps, a request's own copy of a budget agrees with the table on the
\* creator, and an entry on its way is the only one: from it the properties below follow.
THEOREM BudgetInvariant == BudgetSpec => []BudgetInv
<1>. QED BY BudgetInitInv, BudgetNextInv, PTL DEF BudgetSpec

\* The budgets table keeps its shape, for any number of events and of requests.
THEOREM BudgetTypeCorrect == BudgetSpec => []BudgetTypeOK
<1>1. BudgetInv => BudgetTypeOK
    BY BudgetAssumption DEF BudgetInv, BudgetTables, BudgetTypeOK, BudgetRow, BudgetStates
<1>. QED BY <1>1, BudgetInvariant, PTL

\* "Budget actuals are derived from finalized ledger transactions", by every page that
\* recalculates them and in whatever order the requests commit.
THEOREM ActualsAreDerived == BudgetSpec => []ActualsDerived
<1>1. BudgetInv => ActualsDerived
    BY DEF BudgetInv
<1>. QED BY <1>1, BudgetInvariant, PTL

\* An approved budget is the one its approver was shown, as long as no request has
\* written over a row it had not seen.
THEOREM ApprovedIsShown == BudgetSpec => []ApprovedAsShown
<1>1. BudgetInv => ApprovedAsShown
    BY DEF BudgetInv
<1>. QED BY <1>1, BudgetInvariant, PTL

\* Nobody approves the budget they created, whatever overlaps.
THEOREM CreatorsDoNotApprove == BudgetSpec => []CreatorNeverApproves
<1>1. BudgetInv => CreatorNeverApproves
    BY DEF BudgetInv
<1>. QED BY <1>1, BudgetInvariant, PTL

-----------------------------------------------------------------------------
(***************************************************************************)
(* Access: any number of people, roles and permissions.                    *)
(***************************************************************************)
AccountRow == [status : {"NONE", "PENDING", "APPROVED", "REJECTED"},
               active : BOOLEAN, reviewer : Officers \cup {Nobody}]

Waiting == [NoAccount EXCEPT !.status = "PENDING"]

AccessTables ==
    /\ AccessTypeOK
    /\ SystemRoles \subseteq Made
    /\ DOMAIN granted = Applicants
    /\ \A u \in Applicants :
        /\ account[u].status = "NONE" => account[u] = NoAccount
        /\ account[u].status = "PENDING" => account[u] = Waiting

AccessRequestsOK ==
    /\ step \in [Requests -> {"idle", "loaded"}]
    /\ DOMAIN job = Requests
    /\ DOMAIN seen = Requests

\* What a handler has loaded: a review always a registration that waits, a deletion
\* always a role that no user has.
AccessWork(r) ==
    LET task == job[r].task IN
    /\ task \in {"APPROVED", "REJECTED", "ASSIGN", "EDIT", "DELETE"}
    /\ task \in {"APPROVED", "REJECTED"} =>
        /\ Of(r) \in Applicants /\ job[r].by \in Officers
        /\ seen[r] = Waiting
    /\ task = "ASSIGN" => Of(r) \in Applicants /\ seen[r] \subseteq Roles /\ job[r].chosen \subseteq Roles
    /\ task = "EDIT" => Of(r) \in Roles \ SystemRoles /\ job[r].chosen \subseteq Permissions
    /\ task = "DELETE" => Of(r) \in Roles \ SystemRoles /\ job[r].holders = {}

\* Active is who was approved, and a rejection that found the account active came from
\* a review that had loaded it before.
ActiveIsReviewed ==
    \A u \in Applicants : account[u].active =>
        /\ u \in approved
        /\ account[u].status = "APPROVED" \/ u \in clashed

\* The inductive invariant.
AccessInv ==
    /\ AccessTables
    /\ AccessRequestsOK
    /\ \A r \in Requests : step[r] # "idle" => AccessWork(r)
    /\ ActiveIsReviewed
    /\ RolesAsAssigned

-----------------------------------------------------------------------------
LEMMA AccessInitInv == AccessInit => AccessInv
<1>. SUFFICES ASSUME AccessInit PROVE AccessInv
    OBVIOUS
<1>1. \A u \in Applicants : account[u] = NoAccount /\ holds[u] = {} /\ granted[u] = {}
    BY DEF AccessInit
<1>2. \A x \in Roles : role[x].life = "MADE" <=> x \in SystemRoles
    BY DEF AccessInit
<1>3. AccessTables
  <2>1. account \in [Applicants -> AccountRow]
      BY DEF AccessInit, NoAccount, AccountRow
  <2>2. ASSUME NEW x \in Roles
        PROVE  role[x] \in [life : {"NONE", "MADE", "GONE"}, permits : SUBSET Permissions]
    <3>1. CASE x \in SystemRoles
      <4>1. role[x] = [life |-> "MADE", permits |-> Permissions]
          BY <3>1 DEF AccessInit
      <4>. QED BY <4>1
    <3>2. CASE x \notin SystemRoles
      <4>1. role[x] = [life |-> "NONE", permits |-> {}]
          BY <3>2 DEF AccessInit
      <4>. QED BY <4>1
    <3>. QED BY <3>1, <3>2
  <2>3. role \in [Roles -> [life : {"NONE", "MADE", "GONE"}, permits : SUBSET Permissions]]
      BY <2>2 DEF AccessInit
  <2>4. holds \in [Applicants -> SUBSET Made] /\ online = {} /\ DOMAIN granted = Applicants
      BY DEF AccessInit
  <2>5. SystemRoles \subseteq Made
      BY <1>2, AccessAssumption DEF Made
  <2>. QED BY <1>1, <2>1, <2>3, <2>4, <2>5 DEF AccessTables, AccessTypeOK, AccountRow, NoAccount
<1>4. AccessRequestsOK /\ \A r \in Requests : step[r] = "idle"
    BY DEF AccessInit, RequestsInit, AccessRequestsOK
<1>5. \A u \in Applicants : ~account[u].active
  <2>1. ~NoAccount.active
      BY DEF NoAccount
  <2>. QED BY <1>1, <2>1
<1>6. ActiveIsReviewed /\ RolesAsAssigned
    BY <1>1, <1>5 DEF ActiveIsReviewed, RolesAsAssigned
<1>. QED BY <1>3, <1>4, <1>6 DEF AccessInv

-----------------------------------------------------------------------------
(***************************************************************************)
(* Requests.                                                               *)
(***************************************************************************)
\* One request takes a step, and the others stay where they are.  What a request has
\* loaded is its own: no write of another one changes it.
AccessStepOf(r) ==
    /\ AccessRequestsOK'
    /\ \A q \in Requests \ {r} : step'[q] = step[q] /\ job'[q] = job[q] /\ seen'[q] = seen[q]

LEMMA AccessArrival ==
    ASSUME AccessInv, NEW r \in Requests, NEW j, NEW x, Arrive(r, j, "loaded", x)
    PROVE  AccessStepOf(r) /\ step'[r] = "loaded" /\ job'[r] = j /\ seen'[r] = x
BY DEF Arrive, AccessInv, AccessRequestsOK, AccessStepOf

LEMMA AccessFinish ==
    ASSUME AccessInv, NEW r \in Requests, Finish(r)
    PROVE  AccessStepOf(r) /\ step'[r] = "idle"
BY DEF Finish, AccessInv, AccessRequestsOK, AccessStepOf

LEMMA AccessWorkKept ==
    ASSUME AccessInv, NEW r \in Requests, AccessStepOf(r), step'[r] # "idle" => AccessWork(r)'
    PROVE  AccessRequestsOK' /\ \A q \in Requests : step'[q] # "idle" => AccessWork(q)'
<1>1. ASSUME NEW q \in Requests \ {r}, step'[q] # "idle" PROVE AccessWork(q)'
  <2>1. AccessWork(q) /\ job'[q] = job[q] /\ seen'[q] = seen[q]
      BY <1>1 DEF AccessInv, AccessStepOf
  <2>. QED BY <2>1 DEF AccessWork, Of
<1>. QED BY <1>1 DEF AccessStepOf

LEMMA AccessReadInv ==
    ASSUME AccessInv, NEW r \in Requests, AccessStepOf(r), UNCHANGED <<authTables, authHistory>>,
           step'[r] # "idle" => AccessWork(r)'
    PROVE  AccessInv'
<1>1. AccessRequestsOK' /\ \A q \in Requests : step'[q] # "idle" => AccessWork(q)'
    BY AccessWorkKept
<1>2. UNCHANGED <<account, holds, role, online, approved, clashed, granted, mixed>>
    BY DEF authTables, authHistory
<1>3. AccessTables' /\ ActiveIsReviewed' /\ RolesAsAssigned'
    BY <1>2 DEF AccessInv, AccessTables, AccessTypeOK, Made, ActiveIsReviewed, RolesAsAssigned
<1>. QED BY <1>1, <1>3 DEF AccessInv

\* A step without a request.
LEMMA AccessNoRequest ==
    ASSUME AccessInv, UNCHANGED requestVars
    PROVE  AccessRequestsOK' /\ \A q \in Requests : step'[q] # "idle" => AccessWork(q)'
BY DEF requestVars, AccessInv, AccessRequestsOK, AccessWork, Of

LEMMA LoadReviewInv ==
    ASSUME AccessInv, NEW r \in Requests, NEW u \in Applicants, NEW by \in Officers,
           NEW verdict \in {"APPROVED", "REJECTED"}, LoadReview(r, u, by, verdict)
    PROVE  AccessInv'
<1>1. AccessStepOf(r) /\ job'[r] = [of |-> u, task |-> verdict, by |-> by] /\ seen'[r] = account[u]
    BY AccessArrival DEF LoadReview
<1>2. account[u] = Waiting
    BY DEF LoadReview, AccessInv, AccessTables
<1>3. AccessWork(r)'
    BY <1>1, <1>2 DEF AccessWork, Of
<1>. QED BY <1>1, <1>3, AccessReadInv DEF LoadReview

LEMMA LoadAssignInv ==
    ASSUME AccessInv, NEW r \in Requests, NEW u \in Applicants, NEW chosen \in SUBSET Roles,
           LoadAssign(r, u, chosen)
    PROVE  AccessInv'
<1>1. AccessStepOf(r) /\ job'[r] = [of |-> u, task |-> "ASSIGN", chosen |-> chosen] /\ seen'[r] = holds[u]
    BY AccessArrival DEF LoadAssign
<1>2. holds[u] \subseteq Roles
    BY DEF AccessInv, AccessTables, AccessTypeOK, Made
<1>3. AccessWork(r)'
    BY <1>1, <1>2 DEF AccessWork, Of
<1>. QED BY <1>1, <1>3, AccessReadInv DEF LoadAssign

LEMMA LoadEditInv ==
    ASSUME AccessInv, NEW r \in Requests, NEW x \in Roles, NEW permits \in SUBSET Permissions,
           LoadEdit(r, x, permits)
    PROVE  AccessInv'
<1>1. AccessStepOf(r) /\ job'[r] = [of |-> x, task |-> "EDIT", chosen |-> permits]
    BY AccessArrival DEF LoadEdit
<1>2. AccessWork(r)'
    BY <1>1 DEF AccessWork, Of, LoadEdit
<1>. QED BY <1>1, <1>2, AccessReadInv DEF LoadEdit

LEMMA LoadDeleteInv ==
    ASSUME AccessInv, NEW r \in Requests, NEW x \in Roles, LoadDelete(r, x)
    PROVE  AccessInv'
<1>1. AccessStepOf(r) /\ job'[r] = [of |-> x, task |-> "DELETE", holders |-> Holders(x)]
    BY AccessArrival DEF LoadDelete
<1>2. AccessWork(r)'
    BY <1>1 DEF AccessWork, Of, LoadDelete
<1>. QED BY <1>1, <1>2, AccessReadInv DEF LoadDelete

LEMMA AbandonAccessInv ==
    ASSUME AccessInv, NEW r \in Requests, AbandonAccess(r)
    PROVE  AccessInv'
BY AccessFinish, AccessReadInv DEF AbandonAccess, Abandon

-----------------------------------------------------------------------------
(***************************************************************************)
(* Accounts.                                                               *)
(***************************************************************************)
LEMMA WaitingRow ==
    /\ Waiting \in AccountRow
    /\ Waiting.status = "PENDING" /\ ~Waiting.active /\ Waiting.active = FALSE /\ Waiting.reviewer = Nobody
BY DEF Waiting, NoAccount, AccountRow

LEMMA RegisterInv ==
    ASSUME AccessInv, NEW u \in Applicants, Register(u)
    PROVE  AccessInv'
<1>1. /\ account' = [account EXCEPT ![u].status = "PENDING"]
      /\ holds' = [holds EXCEPT ![u] = {Volunteer}]
      /\ granted' = [granted EXCEPT ![u] = {Volunteer}]
      /\ UNCHANGED <<role, online, approved, clashed, mixed, requestVars>>
      /\ account[u] = NoAccount
    BY DEF Register, AccessInv, AccessTables
<1>2. account'[u] = Waiting /\ \A v \in Applicants \ {u} : account'[v] = account[v]
  <2>1. account'[u] = [NoAccount EXCEPT !.status = "PENDING"]
      BY <1>1 DEF AccessInv, AccessTables, AccessTypeOK
  <2>2. [NoAccount EXCEPT !.status = "PENDING"] = Waiting
      BY DEF Waiting
  <2>3. \A v \in Applicants \ {u} : account'[v] = account[v]
      BY <1>1 DEF AccessInv, AccessTables, AccessTypeOK
  <2>. QED BY <2>1, <2>2, <2>3
<1>3. Volunteer \in Made /\ Made' = Made
    BY <1>1, AccessAssumption DEF AccessInv, AccessTables, Made
<1>4. AccessTables'
  <2>1. account' \in [Applicants -> AccountRow]
      BY <1>1 DEF AccessInv, AccessTables, AccessTypeOK, AccountRow
  <2>2. holds' \in [Applicants -> SUBSET Made]
      BY <1>1, <1>3 DEF AccessInv, AccessTables, AccessTypeOK
  <2>. QED BY <1>1, <1>2, <1>3, <2>1, <2>2, WaitingRow
              DEF AccessInv, AccessTables, AccessTypeOK, AccountRow
<1>5. ActiveIsReviewed'
    BY <1>1, <1>2, WaitingRow DEF AccessInv, ActiveIsReviewed
<1>6. RolesAsAssigned'
    BY <1>1 DEF AccessInv, AccessTables, AccessTypeOK, RolesAsAssigned
<1>7. AccessRequestsOK' /\ \A q \in Requests : step'[q] # "idle" => AccessWork(q)'
    BY <1>1, AccessNoRequest
<1>. QED BY <1>4, <1>5, <1>6, <1>7 DEF AccessInv

\* What a review writes: the account is active when this review or an earlier one
\* approved it.
LEMMA ReviewedRow ==
    ASSUME NEW row \in AccountRow, NEW verdict \in {"APPROVED", "REJECTED"}, NEW u \in Officers
    PROVE  LET w == Written(row, Waiting,
                            [status |-> verdict, active |-> verdict = "APPROVED", reviewer |-> u]) IN
           /\ w \in AccountRow
           /\ w.status = verdict
           /\ w.active <=> row.active \/ verdict = "APPROVED"
<1>. DEFINE new == [status |-> verdict, active |-> verdict = "APPROVED", reviewer |-> u]
<1>1. Written(row, Waiting, new) =
        [status |-> IF new.status = Waiting.status THEN row.status ELSE new.status,
         active |-> IF new.active = Waiting.active THEN row.active ELSE new.active,
         reviewer |-> IF new.reviewer = Waiting.reviewer THEN row.reviewer ELSE new.reviewer]
    BY DEF Written, AccountRow
<1>2. CASE verdict = "APPROVED"
  <2>1. (new.active = Waiting.active) = FALSE /\ new.active = TRUE /\ new.status # Waiting.status
      BY <1>2, WaitingRow
  <2>2. Written(row, Waiting, new) = [status |-> "APPROVED", active |-> TRUE,
                                      reviewer |-> IF u = Nobody THEN row.reviewer ELSE u]
      BY <1>1, <1>2, <2>1, WaitingRow
  <2>3. Written(row, Waiting, new).active
      BY <2>2
  <2>4. Written(row, Waiting, new).status = "APPROVED"
      BY <2>2
  <2>5. Written(row, Waiting, new) \in AccountRow
    <3>1. (IF u = Nobody THEN row.reviewer ELSE u) \in Officers \cup {Nobody}
        BY DEF AccountRow
    <3>2. ASSUME NEW x \in Officers \cup {Nobody}
          PROVE  [status |-> "APPROVED", active |-> TRUE, reviewer |-> x] \in AccountRow
        BY DEF AccountRow
    <3>. QED BY <2>2, <3>1, <3>2, Zenon
  <2>. QED BY <1>2, <2>3, <2>4, <2>5
<1>3. CASE verdict = "REJECTED"
  <2>1. new.active = FALSE /\ Waiting.active = FALSE /\ new.status # Waiting.status
      BY <1>3, WaitingRow
  <2>2. Written(row, Waiting, new) = [status |-> "REJECTED", active |-> row.active,
                                      reviewer |-> IF u = Nobody THEN row.reviewer ELSE u]
      BY <1>1, <1>3, <2>1, WaitingRow
  <2>. QED BY <1>3, <2>2 DEF AccountRow
<1>. QED BY <1>2, <1>3

LEMMA CommitReviewInv ==
    ASSUME AccessInv, NEW r \in Requests, CommitReview(r)
    PROVE  AccessInv'
<1>. DEFINE u == Of(r)
            verdict == job[r].task
            w == Written(account[u], Waiting,
                         [status |-> verdict, active |-> verdict = "APPROVED", reviewer |-> job[r].by])
<1>1. /\ step[r] = "loaded" /\ verdict \in {"APPROVED", "REJECTED"}
      /\ Finish(r)
      /\ UNCHANGED <<holds, role, online, granted, mixed>>
    BY DEF CommitReview
<1>2. u \in Applicants /\ job[r].by \in Officers /\ seen[r] = Waiting
    BY <1>1 DEF AccessInv, AccessWork
<1>3. /\ account' = [account EXCEPT ![u] = w]
      /\ approved' = IF verdict = "APPROVED" THEN approved \cup {u} ELSE approved
      /\ clashed' = IF account[u] = Waiting THEN clashed ELSE clashed \cup {u}
    BY <1>2 DEF CommitReview
<1>4. /\ w \in AccountRow /\ w.status = verdict
      /\ w.active <=> account[u].active \/ verdict = "APPROVED"
  <2>1. account[u] \in AccountRow
      BY <1>2 DEF AccessInv, AccessTables, AccessTypeOK, AccountRow
  <2>. QED BY <1>1, <1>2, <2>1, ReviewedRow
<1>. HIDE DEF w
<1>5. account'[u] = w /\ \A v \in Applicants \ {u} : account'[v] = account[v]
    BY <1>2, <1>3 DEF AccessInv, AccessTables, AccessTypeOK
<1>6. AccessTables'
  <2>1. account' \in [Applicants -> AccountRow]
      BY <1>3, <1>4 DEF AccessInv, AccessTables, AccessTypeOK, AccountRow
  <2>2. Made' = Made
      BY <1>1 DEF Made
  <2>. QED BY <1>1, <1>4, <1>5, <2>1, <2>2 DEF AccessInv, AccessTables, AccessTypeOK, AccountRow
<1>7. ActiveIsReviewed'
  <2>1. ASSUME NEW v \in Applicants \ {u}, account'[v].active
        PROVE  v \in approved' /\ (account'[v].status = "APPROVED" \/ v \in clashed')
      BY <1>3, <1>5, <2>1 DEF AccessInv, ActiveIsReviewed
  <2>2. ASSUME account'[u].active
        PROVE  u \in approved' /\ (account'[u].status = "APPROVED" \/ u \in clashed')
    <3>1. CASE verdict = "APPROVED"
        BY <1>3, <1>4, <1>5, <3>1
    <3>2. CASE verdict = "REJECTED"
      <4>1. account[u].active
          BY <1>4, <1>5, <2>2, <3>2
      <4>2. u \in approved /\ account[u] # Waiting
          BY <1>2, <4>1, WaitingRow DEF AccessInv, ActiveIsReviewed
      <4>. QED BY <1>3, <3>2, <4>2
    <3>. QED BY <1>1, <3>1, <3>2
  <2>. QED BY <2>1, <2>2 DEF ActiveIsReviewed
<1>8. RolesAsAssigned'
    BY <1>1 DEF AccessInv, RolesAsAssigned
<1>9. AccessStepOf(r) /\ step'[r] = "idle"
    BY <1>1, AccessFinish
<1>10. AccessRequestsOK' /\ \A q \in Requests : step'[q] # "idle" => AccessWork(q)'
    BY <1>9, AccessWorkKept
<1>. QED BY <1>6, <1>7, <1>8, <1>10 DEF AccessInv

LEMMA SessionInv ==
    ASSUME AccessInv, NEW u \in Applicants, Login(u) \/ Logout(u)
    PROVE  AccessInv'
<1>1. UNCHANGED <<account, holds, role, approved, clashed, granted, mixed, requestVars>>
      /\ online' \subseteq Applicants
    BY DEF Login, Logout, authHistory, AccessInv, AccessTables, AccessTypeOK
<1>2. AccessTables' /\ ActiveIsReviewed' /\ RolesAsAssigned'
    BY <1>1 DEF AccessInv, AccessTables, AccessTypeOK, Made, ActiveIsReviewed, RolesAsAssigned
<1>3. AccessRequestsOK' /\ \A q \in Requests : step'[q] # "idle" => AccessWork(q)'
    BY <1>1, AccessNoRequest
<1>. QED BY <1>2, <1>3 DEF AccessInv

-----------------------------------------------------------------------------
(***************************************************************************)
(* Roles.                                                                  *)
(***************************************************************************)
\* A role that is no role of the seed data changes, and no account and no session does.
LEMMA RoleChangeInv ==
    ASSUME AccessInv, UNCHANGED <<account, online, approved, clashed>>,
           holds' \in [Applicants -> SUBSET Made'],
           role' \in [Roles -> [life : {"NONE", "MADE", "GONE"}, permits : SUBSET Permissions]],
           \A x \in SystemRoles : x \in Made => x \in Made',
           DOMAIN granted' = Applicants, RolesAsAssigned',
           AccessRequestsOK' /\ \A q \in Requests : step'[q] # "idle" => AccessWork(q)'
    PROVE  AccessInv'
<1>1. AccessTables'
    BY DEF AccessInv, AccessTables, AccessTypeOK
<1>2. ActiveIsReviewed'
    BY DEF AccessInv, ActiveIsReviewed
<1>. QED BY <1>1, <1>2 DEF AccessInv

LEMMA CommitAssignInv ==
    ASSUME AccessInv, NEW r \in Requests, CommitAssign(r)
    PROVE  AccessInv'
<1>. DEFINE u == Of(r)
            chosen == job[r].chosen
            replaced == Replaced(holds[u], seen[r], chosen)
<1>1. /\ step[r] = "loaded" /\ job[r].task = "ASSIGN"
      /\ chosen \ seen[r] \subseteq Made
      /\ holds' = [holds EXCEPT ![u] = replaced]
      /\ granted' = [granted EXCEPT ![u] = chosen]
      /\ mixed' = IF holds[u] = seen[r] THEN mixed \ {u} ELSE mixed \cup {u}
      /\ Finish(r)
      /\ UNCHANGED <<account, role, online, approved, clashed>>
    BY DEF CommitAssign
<1>2. u \in Applicants
    BY <1>1 DEF AccessInv, AccessWork
<1>3. /\ holds \in [Applicants -> SUBSET Made] /\ DOMAIN granted = Applicants
      /\ role \in [Roles -> [life : {"NONE", "MADE", "GONE"}, permits : SUBSET Permissions]]
    BY DEF AccessInv, AccessTables, AccessTypeOK
<1>4. Made' = Made
    BY <1>1 DEF Made
<1>5. replaced \subseteq Made /\ (holds[u] = seen[r] => replaced = chosen)
    BY <1>1, <1>2, <1>3 DEF Replaced
<1>. HIDE DEF replaced, u, chosen
<1>6. holds' \in [Applicants -> SUBSET Made']
    BY <1>1, <1>2, <1>3, <1>4, <1>5
<1>7. RolesAsAssigned'
  <2>1. ASSUME NEW v \in Applicants \ {u}, v \notin mixed' PROVE holds'[v] = granted'[v]
      BY <1>1, <1>3, <2>1 DEF AccessInv, RolesAsAssigned
  <2>2. ASSUME u \notin mixed' PROVE holds'[u] = granted'[u]
      BY <1>1, <1>2, <1>3, <1>5, <2>2
  <2>. QED BY <2>1, <2>2 DEF RolesAsAssigned
<1>8. AccessStepOf(r) /\ step'[r] = "idle"
    BY <1>1, AccessFinish
<1>9. AccessRequestsOK' /\ \A q \in Requests : step'[q] # "idle" => AccessWork(q)'
    BY <1>8, AccessWorkKept
<1>. QED BY <1>1, <1>3, <1>4, <1>6, <1>7, <1>9, RoleChangeInv

LEMMA CreateRoleInv ==
    ASSUME AccessInv, NEW x \in Roles, NEW permits \in SUBSET Permissions, CreateRole(x, permits)
    PROVE  AccessInv'
<1>1. /\ role' = [role EXCEPT ![x] = [life |-> "MADE", permits |-> permits]]
      /\ UNCHANGED <<account, holds, online, approved, clashed, granted, mixed, requestVars>>
    BY DEF CreateRole, authHistory
<1>2. /\ holds \in [Applicants -> SUBSET Made] /\ DOMAIN granted = Applicants
      /\ role \in [Roles -> [life : {"NONE", "MADE", "GONE"}, permits : SUBSET Permissions]]
    BY DEF AccessInv, AccessTables, AccessTypeOK
<1>3. role' \in [Roles -> [life : {"NONE", "MADE", "GONE"}, permits : SUBSET Permissions]]
    BY <1>1, <1>2
<1>4. Made \subseteq Made'
    BY <1>1, <1>2 DEF Made
<1>5. holds' \in [Applicants -> SUBSET Made']
    BY <1>1, <1>2, <1>4
<1>6. RolesAsAssigned'
    BY <1>1 DEF AccessInv, RolesAsAssigned
<1>7. AccessRequestsOK' /\ \A q \in Requests : step'[q] # "idle" => AccessWork(q)'
    BY <1>1, AccessNoRequest
<1>. QED BY <1>1, <1>2, <1>3, <1>4, <1>5, <1>6, <1>7, RoleChangeInv

LEMMA CommitEditInv ==
    ASSUME AccessInv, NEW r \in Requests, CommitEdit(r)
    PROVE  AccessInv'
<1>. DEFINE x == Of(r)
            replaced == Replaced(role[x].permits, seen[r], job[r].chosen)
<1>1. /\ step[r] = "loaded" /\ job[r].task = "EDIT"
      /\ role' = [role EXCEPT ![x].permits = replaced]
      /\ Finish(r)
      /\ UNCHANGED <<account, holds, online, approved, clashed, granted, mixed>>
    BY DEF CommitEdit, authHistory
<1>2. x \in Roles /\ job[r].chosen \subseteq Permissions
    BY <1>1 DEF AccessInv, AccessWork
<1>3. /\ holds \in [Applicants -> SUBSET Made] /\ DOMAIN granted = Applicants
      /\ role \in [Roles -> [life : {"NONE", "MADE", "GONE"}, permits : SUBSET Permissions]]
    BY DEF AccessInv, AccessTables, AccessTypeOK
<1>4. replaced \subseteq Permissions
    BY <1>2, <1>3 DEF Replaced
<1>. HIDE DEF replaced, x
<1>5. role' \in [Roles -> [life : {"NONE", "MADE", "GONE"}, permits : SUBSET Permissions]]
    BY <1>1, <1>2, <1>3, <1>4
<1>6. \A y \in Roles : role'[y].life = role[y].life
    BY <1>1, <1>2, <1>3
<1>7. Made' = Made
    BY <1>6 DEF Made
<1>8. RolesAsAssigned'
    BY <1>1 DEF AccessInv, RolesAsAssigned
<1>9. AccessStepOf(r) /\ step'[r] = "idle"
    BY <1>1, AccessFinish
<1>10. AccessRequestsOK' /\ \A q \in Requests : step'[q] # "idle" => AccessWork(q)'
    BY <1>9, AccessWorkKept
<1>. QED BY <1>1, <1>3, <1>5, <1>7, <1>8, <1>10, RoleChangeInv

\* No user had the role when it was looked at, so whoever loses it has got it since.
LEMMA CommitDeleteInv ==
    ASSUME AccessInv, NEW r \in Requests, CommitDelete(r)
    PROVE  AccessInv'
<1>. DEFINE x == Of(r)
<1>1. /\ step[r] = "loaded" /\ job[r].task = "DELETE"
      /\ role' = [role EXCEPT ![x] = [life |-> "GONE", permits |-> {}]]
      /\ holds' = [u \in Applicants |-> holds[u] \ {x}]
      /\ mixed' = mixed \cup (Holders(x) \ job[r].holders)
      /\ Finish(r)
      /\ UNCHANGED <<account, online, approved, clashed, granted>>
    BY DEF CommitDelete
<1>2. x \in Roles \ SystemRoles /\ job[r].holders = {}
    BY <1>1 DEF AccessInv, AccessWork
<1>3. /\ holds \in [Applicants -> SUBSET Made] /\ DOMAIN granted = Applicants
      /\ role \in [Roles -> [life : {"NONE", "MADE", "GONE"}, permits : SUBSET Permissions]]
    BY DEF AccessInv, AccessTables, AccessTypeOK
<1>. HIDE DEF x
<1>4. role' \in [Roles -> [life : {"NONE", "MADE", "GONE"}, permits : SUBSET Permissions]]
    BY <1>1, <1>2, <1>3
<1>5. Made' = Made \ {x}
    BY <1>1, <1>2, <1>3 DEF Made
<1>6. holds' \in [Applicants -> SUBSET Made']
    BY <1>1, <1>3, <1>5
<1>7. RolesAsAssigned'
    BY <1>1, <1>2 DEF AccessInv, RolesAsAssigned, Holders
<1>8. AccessStepOf(r) /\ step'[r] = "idle"
    BY <1>1, AccessFinish
<1>9. AccessRequestsOK' /\ \A q \in Requests : step'[q] # "idle" => AccessWork(q)'
    BY <1>8, AccessWorkKept
<1>. QED BY <1>1, <1>2, <1>3, <1>4, <1>5, <1>6, <1>7, <1>9, RoleChangeInv

-----------------------------------------------------------------------------
LEMMA AccessNextInv == AccessInv /\ [AccessNext]_accessVars => AccessInv'
<1>. SUFFICES ASSUME AccessInv, [AccessNext]_accessVars PROVE AccessInv'
    OBVIOUS
<1>1. CASE UNCHANGED accessVars
  <2>1. UNCHANGED <<account, holds, role, online, approved, clashed, granted, mixed, requestVars>>
      BY <1>1 DEF accessVars, authTables, authHistory
  <2>2. AccessRequestsOK' /\ \A q \in Requests : step'[q] # "idle" => AccessWork(q)'
      BY <2>1, AccessNoRequest
  <2>3. AccessTables' /\ ActiveIsReviewed' /\ RolesAsAssigned'
      BY <2>1 DEF AccessInv, AccessTables, AccessTypeOK, Made, ActiveIsReviewed, RolesAsAssigned
  <2>. QED BY <2>2, <2>3 DEF AccessInv
<1>2. ASSUME NEW u \in Applicants, Register(u) \/ Login(u) \/ Logout(u) PROVE AccessInv'
    BY <1>2, RegisterInv, SessionInv
<1>3. ASSUME NEW x \in Roles, NEW permits \in SUBSET Permissions, CreateRole(x, permits) PROVE AccessInv'
    BY <1>3, CreateRoleInv
<1>4. ASSUME NEW r \in Requests, NEW u \in Applicants, NEW by \in Officers,
             NEW verdict \in {"APPROVED", "REJECTED"}, LoadReview(r, u, by, verdict)
      PROVE  AccessInv'
    BY <1>4, LoadReviewInv
<1>5. ASSUME NEW r \in Requests, NEW u \in Applicants, NEW chosen \in SUBSET Roles, LoadAssign(r, u, chosen)
      PROVE  AccessInv'
    BY <1>5, LoadAssignInv
<1>6. ASSUME NEW r \in Requests, NEW x \in Roles, NEW permits \in SUBSET Permissions, LoadEdit(r, x, permits)
      PROVE  AccessInv'
    BY <1>6, LoadEditInv
<1>7. ASSUME NEW r \in Requests, NEW x \in Roles, LoadDelete(r, x) PROVE AccessInv'
    BY <1>7, LoadDeleteInv
<1>8. ASSUME NEW r \in Requests,
             CommitReview(r) \/ CommitAssign(r) \/ CommitEdit(r) \/ CommitDelete(r) \/ AbandonAccess(r)
      PROVE  AccessInv'
    BY <1>8, CommitReviewInv, CommitAssignInv, CommitEditInv, CommitDeleteInv, AbandonAccessInv
<1>. QED BY <1>1, <1>2, <1>3, <1>4, <1>5, <1>6, <1>7, <1>8 DEF AccessNext

-----------------------------------------------------------------------------
\* The inductive invariant holds in every state.
THEOREM AccessInvariant == AccessSpec => []AccessInv
BY AccessInitInv, AccessNextInv, PTL DEF AccessSpec

\* Accounts and roles keep their shape, and users hold roles that exist, those a
\* deletion overtook included.
THEOREM AccessTypeCorrect == AccessSpec => []AccessTypeOK
<1>1. AccessInv => AccessTypeOK
    BY DEF AccessInv, AccessTables
<1>. QED BY <1>1, AccessInvariant, PTL

\* Who may do anything has been approved by an administrator, and is approved still
\* unless two reviews overlapped.
THEOREM ReviewedBeforePower == AccessSpec => []PowerIsReviewed
<1>1. AccessInv => PowerIsReviewed
    BY DEF AccessInv, ActiveIsReviewed, PowerIsReviewed, May
<1>. QED BY <1>1, AccessInvariant, PTL

\* A user holds the roles the last assignment chose, unless it overlapped another
\* change of them.
THEOREM AssignmentsStand == AccessSpec => []RolesAsAssigned
<1>1. AccessInv => RolesAsAssigned
    BY DEF AccessInv
<1>. QED BY <1>1, AccessInvariant, PTL

=============================================================================
