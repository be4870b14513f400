---------------------------- MODULE MCEventFeed ----------------------------
(* Small instances of EventFeed for TLC. *)
EXTENDS EventFeed, TLC

\* A budget with the given numbers of refused handshakes and broken connections.
MCBudget(refuse, break) == [b \in BudgetKinds |-> IF b = "refuse" THEN refuse ELSE break]

FeedBudget == MCBudget(1, 2)
=============================================================================
