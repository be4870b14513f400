--------------------------- MODULE MCCDCPipeline ---------------------------
(* Small instances of CDCPipeline for TLC. *)
EXTENDS CDCPipeline, TLC

CONSTANTS a, e, z, n    \* a plain row, an empty status, user_id 0, a user_id below -8

\* Only n comes out as another row, which the rows at hand must stand for.
MCDecoded == [r \in MaybeRow |-> IF r = n THEN a ELSE r]

\* The first database changes, the second has one table and does not.
First == CHOOSE d \in Databases : TRUE
MCMaxWal == [d \in Databases |-> IF d = First THEN 2 ELSE 0]
OneChange == [d \in Databases |-> IF d = First THEN 1 ELSE 0]
Mixed == {t \in [Keys -> {a, z}] : {t[k] : k \in Keys} = {a, z}}
OneRow == {t \in [Keys -> {n, NoRow}] : Cardinality({k \in Keys : t[k] = n}) = 1}
MCSeed == [d \in Databases |-> IF d = First THEN Mixed \cup {EmptyTable} ELSE OneRow]
AnyTable == [d \in Databases |-> Table]

\* A budget with the given numbers of starts, connection losses, SQL failures,
\* clearings of the target and resets of the statistics.
MCBudget(start, loss, sql, clear, rst) ==
    [b \in BudgetKinds |-> CASE b = "start" -> start [] b = "loss" -> loss
                             [] b = "sql" -> sql [] b = "clear" -> clear [] b = "reset" -> rst]

FaultBudget == MCBudget(2, 1, 0, 1, 0)
LivenessBudget == MCBudget(1, 1, 1, 0, 1)
StartBudget == MCBudget(1, 0, 0, 0, 0)

\* The counters feed back into nothing but themselves: runs whose properties do not
\* mention them identify states that differ only there.
WithoutCounters == <<wal, hist, job, batch, counted, target, reset, damaged, budget>>

KeySymmetry == Permutations(Keys)
=============================================================================
