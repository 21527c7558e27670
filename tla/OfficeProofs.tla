---------------------------- MODULE OfficeProofs ----------------------------
(***************************************************************************)
(* Theorems about MCOffice: what each desk promises on its own it promises *)
(* in the office too, where the requests come to any one of the desks and  *)
(* the tables of the others are left alone.                                *)
(***************************************************************************)
EXTENDS MCOffice, PostingsProofs, AdministrationProofs, DocumentsProofs

ContributionsSafe == ContribTypeOK /\ TotalsAddUp /\ NeverOverstated /\ ReceiptsExact

CorrectionsSafe == CorrectionTypeOK /\ CorrectionsApplyOnce

LinesSafe == LinesTypeOK /\ MatchedApart /\ FinalizedIsComplete

BudgetsSafe == BudgetTypeOK /\ ActualsDerived /\ ApprovedAsShown /\ CreatorNeverApproves

PeriodSafe == PeriodTypeOK /\ OneActiveEvent

AccessSafe == AccessTypeOK /\ PowerIsReviewed /\ RolesAsAssigned

DocumentsSafe == DocumentsTypeOK /\ RowsHaveFiles /\ VersionsChain /\ NoFalseAlarm

\* What the tables of every desk satisfy.
TablesSafe ==
    /\ ContributionsSafe
    /\ CorrectionsSafe
    /\ LinesSafe
    /\ BudgetsSafe
    /\ PeriodSafe
    /\ AccessSafe
    /\ DocumentsSafe

\* The desk at work keeps its inductive invariant, of which the other desks, whose
\* requests have another shape, need the part about their tables only; and where no
\* request has come nothing has been decided.
OfficeInv ==
    /\ TablesSafe
    /\ desk = "contributions" => ContribInv
    /\ desk = "corrections" => CorrectionInv
    /\ desk = "lines" => LinesInv
    /\ desk = "budgets" => BudgetInv
    /\ desk = "period" => PeriodInv
    /\ desk = "access" => AccessInv
    /\ desk = "documents" => DocumentsInv
    /\ desk # "corrections" => \A f \in Forms : form[f].status = "NONE"
    /\ desk # "period" => \A e \in Occasions : occasion[e].status = "NONE"

-----------------------------------------------------------------------------
(***************************************************************************)
(* The invariant of a desk has what is promised of its tables.             *)
(***************************************************************************)
LEMMA ContributionsPromise == ContribInv => ContributionsSafe
BY DEF ContribInv, ContributionsSafe

LEMMA CorrectionsPromise == CorrectionInv => CorrectionsSafe
BY DEF CorrectionInv, CorrectionsSafe

LEMMA LinesPromise == LinesInv => LinesSafe
BY DEF LinesInv, LinesSafe

LEMMA BudgetsPromise == BudgetInv => BudgetsSafe
BY BudgetAssumption DEF BudgetInv, BudgetTables, BudgetTypeOK, BudgetRow, BudgetStates, BudgetsSafe

LEMMA PeriodPromise == PeriodInv => PeriodSafe
BY DEF PeriodInv, PeriodSafe

LEMMA AccessPromise == AccessInv => AccessSafe
BY DEF AccessInv, AccessTables, ActiveIsReviewed, PowerIsReviewed, May, AccessSafe

LEMMA DocumentsPromise == DocumentsInv => DocumentsSafe
BY ChainedDocuments DEF DocumentsInv, DocumentsSafe

LEMMA OfficeInitInv == OfficeInit => OfficeInv
<1>. SUFFICES ASSUME OfficeInit PROVE OfficeInv
    OBVIOUS
<1>1. ContribInv /\ CorrectionInv /\ LinesInv /\ BudgetInv
    BY ContribInitInv, CorrectionInitInv, LinesInitInv, BudgetInitInv DEF OfficeInit
<1>2. PeriodInv /\ AccessInv /\ DocumentsInv
    BY PeriodInitInv, AccessInitInv, DocumentsInitInv DEF OfficeInit
<1>3. TablesSafe
    BY <1>1, <1>2, ContributionsPromise, CorrectionsPromise, LinesPromise, BudgetsPromise,
       PeriodPromise, AccessPromise, DocumentsPromise DEF TablesSafe
<1>4. /\ \A f \in Forms : form[f].status = "NONE"
      /\ \A e \in Occasions : occasion[e].status = "NONE"
    BY DEF OfficeInit, CorrectionInit, NoForm, PeriodInit, NoOccasion
<1>. QED BY <1>1, <1>2, <1>3, <1>4 DEF OfficeInv

-----------------------------------------------------------------------------
(***************************************************************************)
(* One lemma per desk: its own steps keep its invariant, and the steps of  *)
(* the others leave its tables alone.                                      *)
(***************************************************************************)
\* A step is one of the desk at work.
LEMMA OfficeStep ==
    ASSUME [OfficeNext]_OfficeVars
    PROVE  /\ desk' = desk
           /\ IF desk = "contributions" THEN [ContribNext]_contribVars
              ELSE UNCHANGED restOfContributions
           /\ IF desk = "corrections" THEN [CorrectionNext]_correctionVars
              ELSE UNCHANGED restOfCorrections
           /\ IF desk = "lines" THEN [LinesNext]_lineVars
              ELSE UNCHANGED restOfLines
           /\ IF desk = "budgets" THEN [BudgetNext]_budgetVars
              ELSE UNCHANGED restOfBudgets
           /\ IF desk = "period" THEN [PeriodNext]_periodVars
              ELSE UNCHANGED restOfPeriod
           /\ IF desk = "access" THEN [AccessNext]_accessVars
              ELSE UNCHANGED restOfAccess
           /\ IF desk = "documents" THEN [DocumentsNext]_documentVars
              ELSE UNCHANGED restOfDocuments
<1>1. CASE UNCHANGED OfficeVars
  <2>1. UNCHANGED <<desk, restOfContributions, restOfCorrections, restOfLines, restOfBudgets,
                    restOfPeriod, restOfAccess, restOfDocuments, requestVars>>
      BY <1>1 DEF OfficeVars
  <2>2. UNCHANGED contribVars
      BY <2>1 DEF restOfContributions, contribVars
  <2>3. UNCHANGED correctionVars
      BY <2>1 DEF restOfCorrections, correctionVars
  <2>4. UNCHANGED lineVars
      BY <2>1 DEF restOfLines, lineVars
  <2>5. UNCHANGED budgetVars
      BY <2>1 DEF restOfBudgets, budgetVars, historyVars
  <2>6. UNCHANGED periodVars
      BY <2>1 DEF restOfPeriod, periodVars
  <2>7. UNCHANGED accessVars
      BY <2>1 DEF restOfAccess, accessVars
  <2>8. UNCHANGED documentVars
      BY <2>1 DEF restOfDocuments, documentVars
  <2>. QED BY <2>1, <2>2, <2>3, <2>4, <2>5, <2>6, <2>7, <2>8
<1>2. CASE OfficeNext
  <2>1. IF desk = "contributions" THEN ContribNext ELSE UNCHANGED restOfContributions
      BY <1>2 DEF OfficeNext
  <2>2. IF desk = "corrections" THEN CorrectionNext ELSE UNCHANGED restOfCorrections
      BY <1>2 DEF OfficeNext
  <2>3. IF desk = "lines" THEN LinesNext ELSE UNCHANGED restOfLines
      BY <1>2 DEF OfficeNext
  <2>4. IF desk = "budgets" THEN BudgetNext ELSE UNCHANGED restOfBudgets
      BY <1>2 DEF OfficeNext
  <2>5. IF desk = "period" THEN PeriodNext ELSE UNCHANGED restOfPeriod
      BY <1>2 DEF OfficeNext
  <2>6. IF desk = "access" THEN AccessNext ELSE UNCHANGED restOfAccess
      BY <1>2 DEF OfficeNext
  <2>7. IF desk = "documents" THEN DocumentsNext ELSE UNCHANGED restOfDocuments
      BY <1>2 DEF OfficeNext
  <2>8. desk' = desk
      BY <1>2 DEF OfficeNext
  <2>. QED BY <2>1, <2>2, <2>3, <2>4, <2>5, <2>6, <2>7, <2>8
<1>. QED BY <1>1, <1>2

LEMMA ContributionsDesk ==
    ASSUME OfficeInv, [OfficeNext]_OfficeVars
    PROVE  ContributionsSafe' /\ (desk' = "contributions" => ContribInv')
<1>1. CASE desk = "contributions"
  <2>1. [ContribNext]_contribVars /\ ContribInv
      BY <1>1, OfficeStep DEF OfficeInv
  <2>2. ContribInv'
      BY <2>1, ContribNextInv
  <2>3. ContributionsSafe'
      BY <2>2, ContributionsPromise, PTL
  <2>. QED BY <2>2, <2>3
<1>2. CASE desk # "contributions"
  <2>1. UNCHANGED restOfContributions /\ desk' = desk /\ ContributionsSafe
      BY <1>2, OfficeStep DEF OfficeInv, TablesSafe
  <2>2. ContributionsSafe'
      BY <2>1
         DEF restOfContributions, ContributionsSafe, ContribTypeOK, TotalsAddUp, NeverOverstated,
             ReceiptsExact, Paid
  <2>. QED BY <1>2, <2>1, <2>2
<1>. QED BY <1>1, <1>2

LEMMA CorrectionsDesk ==
    ASSUME OfficeInv, [OfficeNext]_OfficeVars
    PROVE  CorrectionsSafe' /\ (desk' = "corrections" => CorrectionInv')
<1>1. CASE desk = "corrections"
  <2>1. [CorrectionNext]_correctionVars /\ CorrectionInv
      BY <1>1, OfficeStep DEF OfficeInv
  <2>2. CorrectionInv'
      BY <2>1, CorrectionNextInv
  <2>3. CorrectionsSafe'
      BY <2>2, CorrectionsPromise, PTL
  <2>. QED BY <2>2, <2>3
<1>2. CASE desk # "corrections"
  <2>1. UNCHANGED restOfCorrections /\ desk' = desk /\ CorrectionsSafe
      BY <1>2, OfficeStep DEF OfficeInv, TablesSafe
  <2>2. CorrectionsSafe'
      BY <2>1
         DEF restOfCorrections, CorrectionsSafe, CorrectionTypeOK, CorrectionsApplyOnce,
             AppliedTo, formVars
  <2>. QED BY <1>2, <2>1, <2>2
<1>. QED BY <1>1, <1>2

LEMMA LinesDesk ==
    ASSUME OfficeInv, [OfficeNext]_OfficeVars
    PROVE  LinesSafe' /\ (desk' = "lines" => LinesInv')
<1>1. CASE desk = "lines"
  <2>1. [LinesNext]_lineVars /\ LinesInv
      BY <1>1, OfficeStep DEF OfficeInv
  <2>2. LinesInv'
      BY <2>1, LinesNextInv
  <2>3. LinesSafe'
      BY <2>2, LinesPromise, PTL
  <2>. QED BY <2>2, <2>3
<1>2. CASE desk # "lines"
  <2>1. UNCHANGED restOfLines /\ desk' = desk /\ LinesSafe
      BY <1>2, OfficeStep DEF OfficeInv, TablesSafe
  <2>2. LinesSafe'
      BY <2>1
         DEF restOfLines, LinesSafe, LinesTypeOK, MatchedApart, FinalizedIsComplete, LinesOf,
             IsMatched, tableVars, lineHistory
  <2>. QED BY <1>2, <2>1, <2>2
<1>. QED BY <1>1, <1>2

LEMMA BudgetsDesk ==
    ASSUME OfficeInv, [OfficeNext]_OfficeVars
    PROVE  BudgetsSafe' /\ (desk' = "budgets" => BudgetInv')
<1>1. CASE desk = "budgets"
  <2>1. [BudgetNext]_budgetVars /\ BudgetInv
      BY <1>1, OfficeStep DEF OfficeInv
  <2>2. BudgetInv'
      BY <2>1, BudgetNextInv
  <2>3. BudgetsSafe'
      BY <2>2, BudgetsPromise, PTL
  <2>. QED BY <2>2, <2>3
<1>2. CASE desk # "budgets"
  <2>1. UNCHANGED restOfBudgets /\ desk' = desk /\ BudgetsSafe
      BY <1>2, OfficeStep DEF OfficeInv, TablesSafe
  <2>2. BudgetsSafe'
      BY <2>1
         DEF restOfBudgets, BudgetsSafe, BudgetTypeOK, ActualsDerived, ApprovedAsShown,
             CreatorNeverApproves, historyVars
  <2>. QED BY <1>2, <2>1, <2>2
<1>. QED BY <1>1, <1>2

LEMMA PeriodDesk ==
    ASSUME OfficeInv, [OfficeNext]_OfficeVars
    PROVE  PeriodSafe' /\ (desk' = "period" => PeriodInv')
<1>1. CASE desk = "period"
  <2>1. [PeriodNext]_periodVars /\ PeriodInv
      BY <1>1, OfficeStep DEF OfficeInv
  <2>2. PeriodInv'
      BY <2>1, PeriodNextInv
  <2>3. PeriodSafe'
      BY <2>2, PeriodPromise, PTL
  <2>. QED BY <2>2, <2>3
<1>2. CASE desk # "period"
  <2>1. UNCHANGED restOfPeriod /\ desk' = desk /\ PeriodSafe
      BY <1>2, OfficeStep DEF OfficeInv, TablesSafe
  <2>2. PeriodSafe'
      BY <2>1 DEF restOfPeriod, PeriodSafe, PeriodTypeOK, OneActiveEvent, Active, tables
  <2>. QED BY <1>2, <2>1, <2>2
<1>. QED BY <1>1, <1>2

LEMMA AccessDesk ==
    ASSUME OfficeInv, [OfficeNext]_OfficeVars
    PROVE  AccessSafe' /\ (desk' = "access" => AccessInv')
<1>1. CASE desk = "access"
  <2>1. [AccessNext]_accessVars /\ AccessInv
      BY <1>1, OfficeStep DEF OfficeInv
  <2>2. AccessInv'
      BY <2>1, AccessNextInv
  <2>3. AccessSafe'
      BY <2>2, AccessPromise, PTL
  <2>. QED BY <2>2, <2>3
<1>2. CASE desk # "access"
  <2>1. UNCHANGED restOfAccess /\ desk' = desk /\ AccessSafe
      BY <1>2, OfficeStep DEF OfficeInv, TablesSafe
  <2>2. AccessSafe'
      BY <2>1
         DEF restOfAccess, AccessSafe, AccessTypeOK, PowerIsReviewed, RolesAsAssigned, May, Made,
             authTables, authHistory
  <2>. QED BY <1>2, <2>1, <2>2
<1>. QED BY <1>1, <1>2

LEMMA DocumentsDesk ==
    ASSUME OfficeInv, [OfficeNext]_OfficeVars
    PROVE  DocumentsSafe' /\ (desk' = "documents" => DocumentsInv')
<1>1. CASE desk = "documents"
  <2>1. [DocumentsNext]_documentVars /\ DocumentsInv
      BY <1>1, OfficeStep DEF OfficeInv
  <2>2. DocumentsInv'
      BY <2>1, DocumentsNextInv
  <2>3. DocumentsSafe'
      BY <2>2, DocumentsPromise, PTL
  <2>. QED BY <2>2, <2>3
<1>2. CASE desk # "documents"
  <2>1. UNCHANGED restOfDocuments /\ desk' = desk /\ DocumentsSafe
      BY <1>2, OfficeStep DEF OfficeInv, TablesSafe
  <2>2. DocumentsSafe'
      BY <2>1
         DEF restOfDocuments, DocumentsSafe, DocumentsTypeOK, RowsHaveFiles, VersionsChain,
             NoFalseAlarm, VersionsOf, NumbersOf, Forked, Mixable, Documented, Version, docTables,
             storeVars
  <2>. QED BY <1>2, <2>1, <2>2
<1>. QED BY <1>1, <1>2

LEMMA OfficeNextInv == OfficeInv /\ [OfficeNext]_OfficeVars => OfficeInv'
<1>. SUFFICES ASSUME OfficeInv, [OfficeNext]_OfficeVars PROVE OfficeInv'
    OBVIOUS
<1>1. desk' # "corrections" => \A f \in Forms : form'[f].status = "NONE"
  <2>1. desk # "corrections" => form' = form
      BY OfficeStep DEF restOfCorrections, formVars
  <2>. QED BY <2>1, OfficeStep DEF OfficeInv
<1>2. desk' # "period" => \A e \in Occasions : occasion'[e].status = "NONE"
  <2>1. desk # "period" => occasion' = occasion
      BY OfficeStep DEF restOfPeriod, tables
  <2>. QED BY <2>1, OfficeStep DEF OfficeInv
<1>3. TablesSafe'
    BY ContributionsDesk, CorrectionsDesk, LinesDesk, BudgetsDesk,
       PeriodDesk, AccessDesk, DocumentsDesk DEF TablesSafe
<1>. QED BY <1>1, <1>2, <1>3, ContributionsDesk, CorrectionsDesk, LinesDesk, BudgetsDesk,
            PeriodDesk, AccessDesk, DocumentsDesk DEF OfficeInv

-----------------------------------------------------------------------------
\* Whichever desk the requests come to, its inductive invariant holds and the tables of
\* the others stay as they should be.
THEOREM OfficeInvariant == OfficeSpec => []OfficeInv
BY OfficeInitInv, OfficeNextInv, PTL DEF OfficeSpec

\* The tables of every desk keep their shape, and users hold roles that exist.
THEOREM OfficeTypeCorrect == OfficeSpec => []OfficeTypeOK
<1>1. OfficeInv => OfficeTypeOK
    BY DEF OfficeInv, TablesSafe, OfficeTypeOK, ContributionsSafe, CorrectionsSafe, LinesSafe,
       BudgetsSafe,
           PeriodSafe, AccessSafe, DocumentsSafe
<1>. QED BY <1>1, OfficeInvariant, PTL

\* Whichever desk the requests come to, the tables of all seven satisfy what is promised of
\* them: totals, corrections, matches, budgets, the active event, roles and files.
THEOREM OfficeKeepsPromises == OfficeSpec => []TablesSafe
<1>1. OfficeInv => TablesSafe
    BY DEF OfficeInv
<1>. QED BY <1>1, OfficeInvariant, PTL

-----------------------------------------------------------------------------
(***************************************************************************)
(* The action properties.  At another desk there is nothing to break: no   *)
(* form has been written, and no event exists that could reopen.           *)
(***************************************************************************)
\* In the office a decided correction stands, and its reviewer is not its author.
THEOREM OfficeDecisionsStand == OfficeSpec => DecisionsStand
<1>1. OfficeInv /\ OfficeInv' /\ [OfficeNext]_OfficeVars
      => [\A f \in Forms :
            /\ Decided(f) => form'[f] = form[f]
            /\ Decided(f)' => form'[f].reviewer # form'[f].by]_correctionVars
  <2>. SUFFICES ASSUME OfficeInv, OfficeInv', [OfficeNext]_OfficeVars,
                       ~ UNCHANGED correctionVars, NEW f \in Forms
                PROVE  /\ Decided(f) => form'[f] = form[f]
                       /\ Decided(f)' => form'[f].reviewer # form'[f].by
      OBVIOUS
  <2>1. CASE desk = "corrections"
    <3>1. CorrectionNext /\ CorrectionInv /\ CorrectionInv'
        BY <2>1, OfficeStep DEF OfficeInv
    <3>. QED BY <3>1, StepDecides
  <2>2. CASE desk # "corrections"
    <3>1. form[f].status = "NONE" /\ form'[f].status = "NONE"
        BY <2>2, OfficeStep DEF OfficeInv
    <3>. QED BY <3>1 DEF Decided
  <2>. QED BY <2>1, <2>2
<1>. QED BY <1>1, OfficeInvariant, PTL DEF OfficeSpec, DecisionsStand

\* In the office corrections that overlap do what single calls do.
THEOREM OfficeRefinesCalls == OfficeSpec => ImplementsCalls
<1>1. OfficeInit => Calls!LifecycleInit
    BY CorrectionInitIsCalls DEF OfficeInit
<1>2. OfficeInv /\ [OfficeNext]_OfficeVars => [Calls!LifecycleNext]_(Calls!lifecycleVars)
  <2>. SUFFICES ASSUME OfficeInv, [OfficeNext]_OfficeVars
                PROVE  [Calls!LifecycleNext]_(Calls!lifecycleVars)
      OBVIOUS
  <2>1. CASE desk = "corrections"
    <3>1. [CorrectionNext]_correctionVars /\ CorrectionInv
        BY <2>1, OfficeStep DEF OfficeInv
    <3>. QED BY <3>1, CorrectionStepIsCall
  <2>2. CASE desk # "corrections"
    <3>1. UNCHANGED <<form, rowType, undoneBy>>
        BY <2>2, OfficeStep DEF restOfCorrections, formVars
    <3>. QED BY <3>1 DEF Calls!lifecycleVars, Calls!requestVars
  <2>. QED BY <2>1, <2>2
<1>. QED BY <1>1, <1>2, OfficeInvariant, PTL DEF OfficeSpec, ImplementsCalls, Calls!LifecycleSpec

\* In the office no closed or locked event reopens, and no locked year is unlocked.
THEOREM OfficeNeverReopens == OfficeSpec => NeverReopened
<1>1. OfficeInv /\ [OfficeNext]_OfficeVars
      => [/\ \A e \in Occasions : occasion[e].status \in {"CLOSED", "LOCKED"} =>
                                       occasion'[e].status \in {"CLOSED", "LOCKED"}
          /\ \A y \in Years : year[y].locked => year'[y].locked]_periodVars
  <2>. SUFFICES ASSUME OfficeInv, [OfficeNext]_OfficeVars, ~ UNCHANGED periodVars
                PROVE  /\ \A e \in Occasions : occasion[e].status \in {"CLOSED", "LOCKED"} =>
                                                   occasion'[e].status \in {"CLOSED", "LOCKED"}
                       /\ \A y \in Years : year[y].locked => year'[y].locked
      OBVIOUS
  <2>1. CASE desk = "period"
    <3>1. PeriodNext /\ PeriodInv
        BY <2>1, OfficeStep DEF OfficeInv
    <3>. QED BY <3>1, StepKeepsClosed
  <2>2. CASE desk # "period"
      BY <2>2, OfficeStep DEF restOfPeriod, tables
  <2>. QED BY <2>1, <2>2
<1>. QED BY <1>1, OfficeInvariant, PTL DEF OfficeSpec, NeverReopened

\* In the office an event that is shut gets no record once the sessions that loaded it
\* before are gone.
THEOREM OfficeStaysFrozen == OfficeSpec => FrozenOnceQuiet
<1>1. OfficeInv /\ [OfficeNext]_OfficeVars
      => [\A e \in Occasions : Shut(e) /\ ~Writing(e) =>
            records'[e] = records[e] /\ ~Writing(e)']_periodVars
  <2>. SUFFICES ASSUME OfficeInv, [OfficeNext]_OfficeVars, ~ UNCHANGED periodVars,
                       NEW e \in Occasions, Shut(e), ~Writing(e)
                PROVE  records'[e] = records[e] /\ ~Writing(e)'
      OBVIOUS
  <2>1. CASE desk = "period"
    <3>1. [PeriodNext]_periodVars /\ PeriodInv
        BY <2>1, OfficeStep DEF OfficeInv
    <3>. QED BY <3>1, StepKeepsFrozen
  <2>2. CASE desk # "period"
    <3>1. occasion[e].status = "NONE"
        BY <2>2 DEF OfficeInv
    <3>. QED BY <3>1 DEF Shut, Exists
  <2>. QED BY <2>1, <2>2
<1>. QED BY <1>1, OfficeInvariant, PTL DEF OfficeSpec, FrozenOnceQuiet

=============================================================================
