---------------------------- MODULE MCMigration ----------------------------
(* Small instances of Migration for TLC. *)
EXTENDS Migration, TLC

CONSTANTS a, n    \* a plain row, and one with a user_id below -8

\* n comes out as another row, which a stands for.
MCDecoded == [r \in MaybeRow |-> IF r = n THEN a ELSE r]

\* The migration's source is empty or holds one row; the other database holds one.
OneOf(r) == {t \in [Keys -> {r, NoRow}] : Cardinality({k \in Keys : t[k] = r}) = 1}
MCSeed == [d \in Databases |-> IF d = MigrationDb THEN OneOf(n) \cup {EmptyTable} ELSE OneOf(a)]
OneChange == [d \in Databases |-> 1]

\* A budget with the given numbers of starts, connection losses, SQL failures and
\* clearings of the target.
MCBudget(start, loss, sql, clear) ==
    [b \in BudgetKinds |-> CASE b = "start" -> start [] b = "loss" -> loss
                             [] b = "sql" -> sql [] b = "clear" -> clear [] b = "reset" -> 0]

WorkflowBudget == MCBudget(2, 0, 0, 1)

Symmetries == Permutations(Keys) \cup Permutations(Threads)

\* The counters and the text on the page feed back into nothing but themselves, and no
\* property of this run says more of them than their types.
WithoutDisplay == <<wal, hist, job, batch, counted, target, reset, damaged, budget,
                     step, setup, disabled, clears, answer, mine, copying, kept, events>>
=============================================================================
