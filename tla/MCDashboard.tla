---------------------------- MODULE MCDashboard ----------------------------
(* Small instances of Dashboard for TLC. *)
EXTENDS Dashboard

\* A budget with the given numbers of clicks, tab changes, failures and changes.
MCBudget(click, tb, fail, change) ==
    [b \in BudgetKinds |-> CASE b = "click" -> click [] b = "tab" -> tb
                             [] b = "fail" -> fail [] b = "change" -> change]

PageBudgets == {MCBudget(2, 1, 1, 0), MCBudget(1, 2, 1, 0), MCBudget(1, 1, 1, 1)}
=============================================================================
