-------------------------- MODULE MCStreamControl --------------------------
(* Small instances of StreamControl for TLC. *)
EXTENDS StreamControl, TLC

\* A budget with the given numbers of starts, stops, failed calls, lost answers and
\* lost connections.
MCBudget(start, stop, fail, answer, link) ==
    [b \in BudgetKinds |-> CASE b = "start" -> start [] b = "stop" -> stop
                             [] b = "fail" -> fail [] b = "answer" -> answer
                             [] b = "link" -> link]

SerialBudget == MCBudget(4, 4, 3, 2, 1)
ConcurrentBudget == MCBudget(2, 1, 0, 0, 0)
=============================================================================
