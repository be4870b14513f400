------------------------ MODULE MCReplicationService ------------------------
(* Small instances of ReplicationService for TLC. *)
EXTENDS ReplicationService, TLC

\* A budget with the given numbers of enables, disables, manual syncs, switches,
\* inserts, changes through the proxy and SQL failures.
MCBudget(en, dis, sync, sw, ins, proxy, sql) ==
    [b \in BudgetKinds |-> CASE b = "enable" -> en [] b = "disable" -> dis
                             [] b = "sync" -> sync [] b = "switch" -> sw
                             [] b = "insert" -> ins [] b = "proxy" -> proxy
                             [] b = "sql" -> sql]

SerialBudget == MCBudget(2, 1, 1, 1, 1, 0, 1)
ConcurrentBudget == MCBudget(1, 1, 0, 1, 1, 1, 0)
LossBudget == MCBudget(1, 0, 0, 1, 1, 0, 0)
RestartBudget == MCBudget(2, 1, 0, 0, 1, 0, 0)

Symmetry == Permutations(Timers)
=============================================================================
