------------------------------- MODULE MCOffice -------------------------------
(***************************************************************************)
(* The components around the money, one desk each: in a behaviour all      *)
(* requests come to one desk, so that the runs of the seven specifications *)
(* are one.  What a desk does not use keeps its initial value.             *)
(***************************************************************************)
EXTENDS Contributions, Corrections, StatementLines, Budgets, FinancialPeriod, Access, Documents, TLC

CONSTANTS Desks

VARIABLES desk

restOfContributions == <<commitment, posted>>
restOfCorrections == formVars
restOfLines == <<tableVars, lineHistory>>
restOfBudgets == <<budget, spent, historyVars>>
restOfPeriod == <<tables, crossed>>
restOfAccess == <<authTables, authHistory>>
restOfDocuments == <<docTables, storeVars>>

OfficeInit ==
    /\ desk \in Desks
    /\ ContribInit /\ CorrectionInit /\ LinesInit /\ BudgetInit
    /\ PeriodInit /\ AccessInit /\ DocumentsInit

OfficeVars == <<desk, restOfContributions, restOfCorrections, restOfLines, restOfBudgets,
                restOfPeriod, restOfAccess, restOfDocuments, requestVars>>

OfficeNext ==
    /\ UNCHANGED desk
    /\ desk # "contributions" => UNCHANGED restOfContributions
    /\ desk # "corrections" => UNCHANGED restOfCorrections
    /\ desk # "lines" => UNCHANGED restOfLines
    /\ desk # "budgets" => UNCHANGED restOfBudgets
    /\ desk # "period" => UNCHANGED restOfPeriod
    /\ desk # "access" => UNCHANGED restOfAccess
    /\ desk # "documents" => UNCHANGED restOfDocuments
    /\ \/ desk = "contributions" /\ ContribNext
       \/ desk = "corrections" /\ CorrectionNext
       \/ desk = "lines" /\ LinesNext
       \/ desk = "budgets" /\ BudgetNext
       \/ desk = "period" /\ PeriodNext
       \/ desk = "access" /\ AccessNext
       \/ desk = "documents" /\ DocumentsNext

OfficeSpec == OfficeInit /\ [][OfficeNext]_OfficeVars

\* Constants of different desks share model values, so that few permutations serve all.
OfficeSymmetry ==
    Permutations(Requests) \cup Permutations(Officers) \cup Permutations(Forms) \cup Permutations(Rows)

\* The tables of every desk have their shape, and users hold roles that exist.
OfficeTypeOK ==
    /\ ContribTypeOK /\ CorrectionTypeOK /\ LinesTypeOK /\ BudgetTypeOK
    /\ PeriodTypeOK /\ AccessTypeOK /\ DocumentsTypeOK

=============================================================================
