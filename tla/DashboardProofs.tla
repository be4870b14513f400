-------------------------- MODULE DashboardProofs --------------------------
(***************************************************************************)
(* Proofs about Dashboard for any number of calls in flight and every set  *)
(* of budgets: the page's intervals and the buttons of the stream.         *)
(***************************************************************************)
EXTENDS Dashboard, TLAPS

\* What a call in flight can be.
CallStates == Nat \cup {Failed, Asking, Rest}

\* What a poll for the state of the stream can have in hand.
Polled == {Disconnected, Connected, Streaming, Asking}

\* A command in flight concerns the element, ...
CommandsFit == \A q \in Requests : cmd[q] # "none" => Item \in Changes[q[1]]
\* ... a start is lost or succeeds, ...
StartsFit == \A q \in Requests : q[1] = "startStreaming" =>
                 cmd[q] # "refused" /\ (cmd[q] = "lost" => startFailed)
\* ... and the server and the polls in flight know three states of the stream.
StreamStates ==
    Item = "cdc" => server \in ServerStates("cdc") /\ calls["pollStatus"] \in Seq(Polled)

IInv == /\ TypeOK /\ IntervalsAreHeld
        /\ CommandsFit /\ StartsFit /\ StreamStates /\ StreamButtonsExclude

-----------------------------------------------------------------------------
(* Calls in flight.                                                        *)

\* Without the n-th call the others are left.
LEMMA RemoveAtType ==
    ASSUME NEW S, NEW s \in Seq(S), NEW n \in 1..Len(s)
    PROVE  RemoveAt(s, n) \in Seq(S)
  <1>1. /\ SubSeq(s, 1, n - 1) \in Seq(S)
        /\ SubSeq(s, n + 1, Len(s)) \in Seq(S)
    OBVIOUS
  <1> QED
    BY <1>1 DEF RemoveAt

\* A function that is called waits for its first answer.
LEMMA LaunchEffect ==
    ASSUME NEW R, Launch(R), calls \in [Refreshers -> Seq(CallStates)], NEW r \in Refreshers
    PROVE  /\ calls' \in [Refreshers -> Seq(CallStates)]
           /\ \/ calls'[r] = calls[r]
              \/ calls'[r] = Append(calls[r], Asking)
  <1>1. Asking \in CallStates
    BY DEF CallStates
  <1>2. \A q \in Refreshers : /\ calls[q] \in Seq(CallStates)
                             /\ Append(calls[q], Asking) \in Seq(CallStates)
    BY <1>1
  <1> QED
    BY <1>2 DEF Launch

\* An answer takes the place of the question.
LEMMA AnswerEffect ==
    ASSUME calls \in [Refreshers -> Seq(CallStates)], NEW q \in Refreshers,
           NEW n \in DOMAIN calls[q], NEW v \in CallStates,
           calls' = [calls EXCEPT ![q][n] = v]
    PROVE  /\ calls' \in [Refreshers -> Seq(CallStates)]
           /\ \A r \in Refreshers \ {q} : calls'[r] = calls[r]
           /\ calls'[q] = [calls[q] EXCEPT ![n] = v]
  <1>1. [calls[q] EXCEPT ![n] = v] \in Seq(CallStates)
    OBVIOUS
  <1>2. calls' = [calls EXCEPT ![q] = [calls[q] EXCEPT ![n] = v]]
    OBVIOUS
  <1> QED
    BY <1>1, <1>2

\* A call that has ended is gone.
LEMMA FinishedEffect ==
    ASSUME calls \in [Refreshers -> Seq(CallStates)], NEW q \in Refreshers,
           NEW n \in DOMAIN calls[q], Finished(q, n)
    PROVE  /\ calls' \in [Refreshers -> Seq(CallStates)]
           /\ \A r \in Refreshers \ {q} : calls'[r] = calls[r]
           /\ calls'[q] = RemoveAt(calls[q], n)
  <1>1. RemoveAt(calls[q], n) \in Seq(CallStates)
    <2>1. calls[q] \in Seq(CallStates) /\ n \in 1..Len(calls[q])
      OBVIOUS
    <2> QED
      BY <2>1, RemoveAtType
  <1>2. calls' = [calls EXCEPT ![q] = RemoveAt(calls[q], n)]
    BY DEF Finished
  <1> QED
    BY <1>1, <1>2

-----------------------------------------------------------------------------
(* Intervals.                                                              *)

\* Tabs, ticks and migrations are what touches the intervals.
LEMMA IntervalsStep ==
    ASSUME TypeOK, IntervalsAreHeld, [Next]_vars
    PROVE  /\ IntervalsAreHeld' /\ tab' \in Tabs /\ held' \in SUBSET Intervals
           /\ timers' \in [Intervals -> Nat]
  <1>1. /\ tab \in Tabs /\ held \in SUBSET Intervals /\ timers \in [Intervals -> Nat]
        /\ \A i \in Intervals : timers[i] = (IF i \in held THEN 1 ELSE 0)
        /\ held \ {"migrationRefreshInterval"} = IntervalOf(tab)
    BY DEF TypeOK, IntervalsAreHeld
  <1>2. CASE UNCHANGED <<tab, held, timers>>
    BY <1>1, <1>2 DEF IntervalsAreHeld
  <1>3. ASSUME NEW t \in Tabs, SwitchTab(t)
        PROVE  /\ IntervalsAreHeld' /\ tab' \in Tabs /\ held' \in SUBSET Intervals
               /\ timers' \in [Intervals -> Nat]
    <2>1. /\ tab' = t /\ held' = IntervalOf(t)
          /\ timers' = [i \in Intervals |-> timers[i] - (IF i \in held THEN 1 ELSE 0)
                                              + (IF i \in IntervalOf(t) THEN 1 ELSE 0)]
      BY <1>3 DEF SwitchTab
    <2>2. IntervalOf(t) \subseteq Intervals \ {"migrationRefreshInterval"}
      BY DEF IntervalOf, Tabs, Intervals
    <2>3. \A i \in Intervals : timers'[i] = (IF i \in held' THEN 1 ELSE 0)
      BY <1>1, <2>1
    <2>4. timers' \in [Intervals -> Nat]
      <3>1. timers' = [i \in Intervals |-> IF i \in held' THEN 1 ELSE 0]
        BY <2>1, <2>3
      <3> QED
        BY <3>1
    <2> QED
      BY <2>1, <2>2, <2>3, <2>4 DEF IntervalsAreHeld
  <1>4. CASE MigrationStarted
    <2>1. /\ tab' = tab /\ held' = held \cup {"migrationRefreshInterval"}
          /\ timers' = [timers EXCEPT !["migrationRefreshInterval"] =
                           @ - (IF "migrationRefreshInterval" \in held THEN 1 ELSE 0) + 1]
      BY <1>4 DEF MigrationStarted
    <2>2. "migrationRefreshInterval" \in Intervals
      BY DEF Intervals
    <2>3. \A i \in Intervals : timers'[i] = (IF i \in held' THEN 1 ELSE 0)
      BY <1>1, <2>1, <2>2
    <2>4. timers' \in [Intervals -> Nat]
      BY <1>1, <2>1, <2>2
    <2>5. held' \ {"migrationRefreshInterval"} = held \ {"migrationRefreshInterval"}
      BY <2>1
    <2> QED
      BY <1>1, <2>1, <2>2, <2>3, <2>4, <2>5 DEF IntervalsAreHeld
  <1>5. ASSUME NEW r \in Refreshers, PermanentTick(r)
        PROVE  UNCHANGED <<tab, held, timers>>
    BY <1>5 DEF PermanentTick, page
  <1>6. ASSUME NEW i \in Intervals, IntervalTick(i)
        PROVE  UNCHANGED <<tab, held, timers>>
    BY <1>6 DEF IntervalTick, page
  <1>7. ASSUME NEW r, NEW n, Progress(r, n) \/ Lose(r, n)
        PROVE  UNCHANGED <<tab, held, timers>>
    BY <1>7 DEF Progress, Fetch, Apply, End, Lose, page
  <1>8. ASSUME NEW c, Click(c) \/ Execute(c) \/ CommandFails(c) \/ Answer(c)
        PROVE  UNCHANGED <<tab, held, timers>>
    BY <1>8 DEF Click, Execute, CommandFails, Answer, AnswerSwitch, AnswerCommand, page
  <1>9. CASE ServerChanges \/ UNCHANGED vars
    BY <1>2, <1>9 DEF ServerChanges, vars, page
  <1> QED
    BY <1>2, <1>3, <1>4, <1>5, <1>6, <1>7, <1>8, <1>9 DEF Next

-----------------------------------------------------------------------------
(* The element, the server and the calls.                                  *)

\* Every step follows the same element.
LEMMA FocusStays ==
    ASSUME [Next]_vars
    PROVE  focus' = focus /\ Item' = Item
  <1>1. focus' = focus
    <2>1. ASSUME NEW r, NEW n, Progress(r, n) \/ Lose(r, n) PROVE focus' = focus
      BY <2>1 DEF Progress, Fetch, Apply, End, Lose
    <2>2. ASSUME NEW c, Click(c) \/ Execute(c) \/ CommandFails(c) \/ Answer(c)
          PROVE  focus' = focus
      BY <2>2 DEF Click, Execute, CommandFails, Answer, AnswerSwitch, AnswerCommand
    <2>3. ASSUME NEW x, PermanentTick(x) \/ IntervalTick(x) \/ SwitchTab(x)
          PROVE  focus' = focus
      BY <2>3 DEF PermanentTick, IntervalTick, SwitchTab
    <2>4. CASE MigrationStarted \/ ServerChanges \/ UNCHANGED vars
      BY <2>4 DEF MigrationStarted, ServerChanges, vars
    <2> QED
      BY <2>1, <2>2, <2>3, <2>4 DEF Next
  <1> QED
    BY <1>1 DEF Item

\* What commands are in flight changes by clicks, answers and losses.
LEMMA CommandsStep ==
    ASSUME TypeOK, CommandsFit, StartsFit, [Next]_vars
    PROVE  cmd' \in [Requests -> CommandStates] /\ CommandsFit' /\ StartsFit'
  <1>1. cmd \in [Requests -> CommandStates]
    BY DEF TypeOK
  <1>2. Item' = Item
    BY FocusStays
  <1>3. CASE UNCHANGED <<cmd, startFailed>>
    BY <1>1, <1>2, <1>3 DEF CommandsFit, StartsFit
  <1>4. ASSUME NEW q \in Requests, NEW v \in CommandStates, cmd' = [cmd EXCEPT ![q] = v],
               v # "none" => Item \in Changes[q[1]],
               q[1] = "startStreaming" => v # "refused" /\ (v = "lost" => startFailed'),
               startFailed => startFailed'
        PROVE  cmd' \in [Requests -> CommandStates] /\ CommandsFit' /\ StartsFit'
    <2>1. cmd' \in [Requests -> CommandStates]
      BY <1>1, <1>4
    <2>2. CommandsFit'
      BY <1>1, <1>2, <1>4 DEF CommandsFit
    <2>3. StartsFit'
      BY <1>1, <1>4 DEF StartsFit
    <2> QED
      BY <2>1, <2>2, <2>3
  <1>5. ASSUME NEW q \in Requests, Click(q)
        PROVE  cmd' \in [Requests -> CommandStates] /\ CommandsFit' /\ StartsFit'
    <2>1. cmd' = [cmd EXCEPT ![q] = "sent"] /\ Item \in Changes[q[1]] /\ startFailed' = startFailed
      BY <1>5 DEF Click
    <2> QED
      BY <1>4, <2>1 DEF CommandStates
  <1>6. ASSUME NEW q \in Requests, Execute(q)
        PROVE  cmd' \in [Requests -> CommandStates] /\ CommandsFit' /\ StartsFit'
    <2>1. /\ startFailed' = startFailed /\ cmd[q] = "sent"
          /\ \E v \in {"success", "refused"} :
                cmd' = [cmd EXCEPT ![q] = v] /\ (q[1] = "startStreaming" => v = "success")
      BY <1>6 DEF Execute, Switches
    <2>2. Item \in Changes[q[1]]
      BY <2>1 DEF CommandsFit
    <2> QED
      BY <1>4, <2>1, <2>2 DEF CommandStates
  <1>7. ASSUME NEW q \in Requests, CommandFails(q)
        PROVE  cmd' \in [Requests -> CommandStates] /\ CommandsFit' /\ StartsFit'
    <2>1. /\ startFailed' <=> (startFailed \/ q[1] = "startStreaming")
          /\ cmd[q] \in {"sent", "success"}
          /\ \E v \in {"lost", "refused"} :
                cmd' = [cmd EXCEPT ![q] = v] /\ (q[1] \in Switches => v = "lost")
      BY <1>7 DEF CommandFails
    <2>2. Item \in Changes[q[1]]
      BY <2>1 DEF CommandsFit
    <2> QED
      BY <1>4, <2>1, <2>2 DEF CommandStates, Switches
  <1>8. ASSUME NEW q \in Requests, Answer(q)
        PROVE  cmd' \in [Requests -> CommandStates] /\ CommandsFit' /\ StartsFit'
    <2>1. cmd' = [cmd EXCEPT ![q] = "none"] /\ startFailed' = startFailed
      BY <1>8 DEF Answer, AnswerSwitch, AnswerCommand
    <2> QED
      BY <1>4, <2>1 DEF CommandStates
  <1>9. ASSUME NEW r, NEW n, Progress(r, n) \/ Lose(r, n)
        PROVE  UNCHANGED <<cmd, startFailed>>
    BY <1>9 DEF Progress, Fetch, Apply, End, Lose
  <1>10. ASSUME NEW x, PermanentTick(x) \/ IntervalTick(x) \/ SwitchTab(x)
         PROVE  UNCHANGED <<cmd, startFailed>>
    BY <1>10 DEF PermanentTick, IntervalTick, SwitchTab
  <1>11. CASE MigrationStarted \/ ServerChanges \/ UNCHANGED vars
    BY <1>3, <1>11 DEF MigrationStarted, ServerChanges, vars
  <1> QED
    BY <1>3, <1>5, <1>6, <1>7, <1>8, <1>9, <1>10, <1>11 DEF Next

\* The server goes from state to state of the element.
LEMMA ServerStep ==
    ASSUME TypeOK, CommandsFit, StreamStates, [Next]_vars
    PROVE  server' \in Nat /\ (Item = "cdc" => server' \in ServerStates("cdc"))
  <1>1. server \in Nat /\ (Item = "cdc" => server \in ServerStates("cdc"))
    BY DEF TypeOK, StreamStates
  <1>2. CASE server' = server
    BY <1>1, <1>2
  <1>3. ASSUME NEW q \in Requests, Execute(q)
        PROVE  server' \in Nat /\ (Item = "cdc" => server' \in ServerStates("cdc"))
    <2>1. server' \in {server, server + 1, 0, 1, 2}
      BY <1>3 DEF Execute, Streaming, Connected
    <2>2. ASSUME Item = "cdc"
          PROVE  server' \in {server, Streaming, Connected}
      <3>1. "cdc" \in Changes[q[1]]
        BY <1>3, <2>2 DEF Execute, CommandsFit
      <3>2. q[1] \in {"startStreaming", "stop"}
        BY <3>1 DEF Changes, Commands, Requests
      <3> QED
        BY <1>3, <3>2 DEF Execute, Switches
    <2> QED
      BY <1>1, <2>1, <2>2 DEF ServerStates
  <1>4. CASE ServerChanges
    <2>1. \/ server' \in (IF Item \in {"cdc", "generator", "streams"}
                          THEN ServerStates(Item) \ {server} ELSE {server + 1})
          \/ server' = server
      BY <1>4 DEF ServerChanges
    <2> QED
      BY <1>1, <2>1 DEF ServerStates, Disconnected, Connected, Streaming
  <1>5. ASSUME NEW r, NEW n, Progress(r, n) \/ Lose(r, n) PROVE server' = server
    BY <1>5 DEF Progress, Fetch, Apply, End, Lose
  <1>6. ASSUME NEW c, Click(c) \/ CommandFails(c) \/ Answer(c) PROVE server' = server
    BY <1>6 DEF Click, CommandFails, Answer, AnswerSwitch, AnswerCommand
  <1>7. ASSUME NEW x, PermanentTick(x) \/ IntervalTick(x) \/ SwitchTab(x)
        PROVE  server' = server
    BY <1>7 DEF PermanentTick, IntervalTick, SwitchTab
  <1>8. CASE MigrationStarted \/ UNCHANGED vars
    BY <1>2, <1>8 DEF MigrationStarted, vars
  <1> QED
    BY <1>2, <1>3, <1>4, <1>5, <1>6, <1>7, <1>8 DEF Next

\* A poll for the state of the stream has one of its three states in hand, or none yet.
LEMMA CallsStep ==
    ASSUME TypeOK, StreamStates, [Next]_vars
    PROVE  /\ calls' \in [Refreshers -> Seq(CallStates)]
           /\ Item = "cdc" => calls'["pollStatus"] \in Seq(Polled)
  <1> DEFINE Kept == /\ calls' \in [Refreshers -> Seq(CallStates)]
                     /\ Item = "cdc" => calls'["pollStatus"] \in Seq(Polled)
  <1>1. /\ calls \in [Refreshers -> Seq(CallStates)] /\ "pollStatus" \in Refreshers
        /\ Item = "cdc" => calls["pollStatus"] \in Seq(Polled)
    BY DEF TypeOK, StreamStates, CallStates, Refreshers, Permanent
  <1>2. CASE calls' = calls
    BY <1>1, <1>2
  <1>3. ASSUME NEW R, Launch(R)
        PROVE  Kept
    <2>1. /\ calls' \in [Refreshers -> Seq(CallStates)]
          /\ \/ calls'["pollStatus"] = calls["pollStatus"]
             \/ calls'["pollStatus"] = Append(calls["pollStatus"], Asking)
      BY <1>1, <1>3, LaunchEffect
    <2>2. Asking \in Polled
      BY DEF Polled
    <2>3. ASSUME Item = "cdc" PROVE calls'["pollStatus"] \in Seq(Polled)
      <3>1. calls["pollStatus"] \in Seq(Polled)
        BY <1>1, <2>3
      <3>2. Append(calls["pollStatus"], Asking) \in Seq(Polled)
        BY <2>2, <3>1
      <3> QED
        BY <2>1, <3>1, <3>2
    <2> QED
      BY <2>1, <2>3
  <1>4. ASSUME NEW q \in Refreshers, NEW n \in DOMAIN calls[q], NEW v \in CallStates,
               calls' = [calls EXCEPT ![q][n] = v],
               Item = "cdc" /\ q = "pollStatus" => v \in Polled
        PROVE  Kept
    <2>1. /\ calls' \in [Refreshers -> Seq(CallStates)]
          /\ \A r \in Refreshers \ {q} : calls'[r] = calls[r]
          /\ calls'[q] = [calls[q] EXCEPT ![n] = v]
      BY <1>1, <1>4, AnswerEffect
    <2> QED
      BY <1>1, <1>4, <2>1
  <1>5. ASSUME NEW q \in Refreshers, NEW n \in DOMAIN calls[q], Finished(q, n)
        PROVE  Kept
    <2>1. /\ calls' \in [Refreshers -> Seq(CallStates)]
          /\ \A r \in Refreshers \ {q} : calls'[r] = calls[r]
          /\ calls'[q] = RemoveAt(calls[q], n)
      BY <1>1, <1>5, FinishedEffect
    <2>2. ASSUME Item = "cdc", q = "pollStatus"
          PROVE  RemoveAt(calls[q], n) \in Seq(Polled)
      <3>1. calls[q] \in Seq(Polled)
        BY <1>1, <2>2
      <3>2. n \in 1..Len(calls[q])
        BY <3>1, <1>5
      <3> QED
        BY <3>1, <3>2, RemoveAtType
    <2> QED
      BY <1>1, <2>1, <2>2
  <1>6. ASSUME NEW q \in Refreshers, NEW n \in DOMAIN calls[q], Progress(q, n) \/ Lose(q, n)
        PROVE  Kept
    <2>1. CASE Fetch(q, n)
      <3>1. CASE calls' = [calls EXCEPT ![q][n] = server]
        <4>1. server \in CallStates /\ (Item = "cdc" => server \in Polled)
          BY DEF TypeOK, StreamStates, ServerStates, CallStates, Polled
        <4> QED
          BY <1>4, <3>1, <4>1
      <3>2. CASE Item \in Reads /\ calls' = [calls EXCEPT ![q][n] = Failed]
        <4>1. Failed \in CallStates /\ Item # "cdc"
          BY <3>2 DEF CallStates, Reads
        <4> QED
          BY <1>4, <3>2, <4>1
      <3> QED
        BY <2>1, <3>1, <3>2 DEF Fetch
    <2>2. CASE Apply(q, n)
      <3>1. CASE HasRest(q) /\ calls' = [calls EXCEPT ![q][n] = Rest]
        <4>1. Rest \in CallStates /\ q # "pollStatus"
          BY <3>1 DEF CallStates, HasRest
        <4> QED
          BY <1>4, <3>1, <4>1
      <3> QED
        BY <1>5, <2>2, <3>1 DEF Apply
    <2>3. CASE End(q, n) \/ Lose(q, n)
      BY <1>5, <2>3 DEF End, Lose
    <2> QED
      BY <1>6, <2>1, <2>2, <2>3 DEF Progress
  <1>7. ASSUME NEW c, Click(c) \/ Execute(c) \/ CommandFails(c) \/ Answer(c)
        PROVE  Kept
    <2>1. calls' = calls \/ \E R : Launch(R)
      BY <1>7 DEF Click, Execute, CommandFails, Answer, AnswerSwitch, AnswerCommand
    <2> QED
      BY <1>2, <1>3, <2>1
  <1>8. ASSUME NEW x, PermanentTick(x) \/ IntervalTick(x) \/ SwitchTab(x)
        PROVE  Kept
    <2>1. \E R : Launch(R)
      BY <1>8 DEF PermanentTick, IntervalTick, SwitchTab
    <2> QED
      BY <1>3, <2>1
  <1>9. CASE MigrationStarted
    BY <1>3, <1>9 DEF MigrationStarted
  <1>10. CASE ServerChanges \/ UNCHANGED vars
    BY <1>2, <1>10 DEF ServerChanges, vars
  <1> QED
    BY <1>6, <1>7, <1>8, <1>9, <1>10 DEF Next

-----------------------------------------------------------------------------
(* What is shown.                                                          *)

\* Only answers, and defaults after a loss, are shown.
LEMMA ShownStep ==
    ASSUME TypeOK, [Next]_vars
    PROVE  shown' \in Nat \cup {Unknown, Failed}
  <1>1. shown \in Nat \cup {Unknown, Failed}
    BY DEF TypeOK
  <1>2. CASE shown' = shown
    BY <1>1, <1>2
  <1>3. ASSUME NEW r \in Refreshers, NEW n \in DOMAIN calls[r], Progress(r, n) \/ Lose(r, n)
        PROVE  shown' \in Nat \cup {Unknown, Failed}
    <2>1. calls[r][n] \in Nat \cup {Failed, Asking, Rest}
      BY DEF TypeOK
    <2>2. CASE Apply(r, n)
      BY <1>1, <2>1, <2>2 DEF Apply, Displayed
    <2>3. CASE Fetch(r, n) \/ End(r, n) \/ Lose(r, n)
      BY <1>1, <2>3 DEF Fetch, End, Lose, page
    <2> QED
      BY <1>3, <2>2, <2>3 DEF Progress
  <1>4. ASSUME NEW c, Click(c) \/ Execute(c) \/ CommandFails(c) \/ Answer(c)
        PROVE  shown' = shown
    BY <1>4 DEF Click, Execute, CommandFails, Answer, AnswerSwitch, AnswerCommand, page
  <1>5. ASSUME NEW x, PermanentTick(x) \/ IntervalTick(x) \/ SwitchTab(x)
        PROVE  shown' = shown
    BY <1>5 DEF PermanentTick, IntervalTick, SwitchTab, page
  <1>6. CASE MigrationStarted \/ ServerChanges \/ UNCHANGED vars
    BY <1>2, <1>6 DEF MigrationStarted, ServerChanges, vars, page
  <1> QED
    BY <1>2, <1>3, <1>4, <1>5, <1>6 DEF Next

\* Spending keeps the budget a budget, and the flags stay flags.
LEMMA BudgetStep ==
    ASSUME TypeOK, [Next]_vars
    PROVE  /\ budget' \in [BudgetKinds -> Nat]
         /\ startFailed' \in BOOLEAN /\ streaming' \in BOOLEAN
  <1>1. budget \in [BudgetKinds -> Nat]
    BY DEF TypeOK
  <1>2. startFailed \in BOOLEAN
    BY Zenon DEF TypeOK
  <1>3. ASSUME budget' = budget PROVE budget' \in [BudgetKinds -> Nat]
    BY <1>1, <1>3
  <1>4. ASSUME NEW b \in BudgetKinds, Spend(b) PROVE budget' \in [BudgetKinds -> Nat]
    BY <1>1, <1>4 DEF Spend
  <1>5. ASSUME startFailed' = startFailed PROVE startFailed' \in BOOLEAN
    BY <1>2, <1>5, Zenon
  <1>6. ASSUME NEW r, NEW n, Progress(r, n) \/ Lose(r, n)
        PROVE  startFailed' = startFailed /\ (budget' = budget \/ Spend("fail"))
    BY <1>6 DEF Progress, Fetch, Apply, End, Lose
  <1>7. ASSUME NEW c, Click(c) \/ Execute(c) \/ Answer(c)
        PROVE  startFailed' = startFailed /\ (budget' = budget \/ Spend("click"))
    BY <1>7 DEF Click, Execute, Answer, AnswerSwitch, AnswerCommand
  <1>8. ASSUME NEW c, CommandFails(c)
        PROVE  startFailed' \in BOOLEAN /\ Spend("fail")
    BY <1>8, Zenon DEF CommandFails
  <1>9. ASSUME NEW x, PermanentTick(x) \/ IntervalTick(x) \/ SwitchTab(x)
        PROVE  startFailed' = startFailed /\ (budget' = budget \/ Spend("tab"))
    BY <1>9 DEF PermanentTick, IntervalTick, SwitchTab
  <1>10. ASSUME MigrationStarted \/ ServerChanges \/ UNCHANGED vars
         PROVE  /\ startFailed' = startFailed
                /\ budget' = budget \/ Spend("click") \/ Spend("change")
    BY <1>10 DEF MigrationStarted, ServerChanges, vars
  <1>11. {"click", "tab", "fail", "change"} \subseteq BudgetKinds
    BY DEF BudgetKinds
  <1>12. streaming' \in BOOLEAN
    <2>1. ASSUME NEW r, NEW n, Progress(r, n) \/ Lose(r, n) PROVE UNCHANGED streaming
      BY <2>1 DEF Progress, Fetch, Apply, End, Lose
    <2>2. ASSUME NEW q, Click(q) \/ Execute(q) \/ CommandFails(q) \/ Answer(q)
          PROVE  UNCHANGED streaming
      BY <2>2 DEF Click, Execute, CommandFails, Answer, AnswerSwitch, AnswerCommand
    <2>3. ASSUME NEW x, PermanentTick(x) \/ IntervalTick(x) \/ SwitchTab(x)
          PROVE  UNCHANGED streaming
      BY <2>3 DEF PermanentTick, IntervalTick, SwitchTab
    <2>4. ASSUME MigrationStarted \/ UNCHANGED vars PROVE UNCHANGED streaming
      BY <2>4 DEF MigrationStarted, vars
    <2>5. ASSUME ServerChanges PROVE streaming' = streaming \/ streaming' \in BOOLEAN
      BY <2>5, Zenon DEF ServerChanges
    <2>6. streaming \in BOOLEAN
      BY Zenon DEF TypeOK
    <2>7. streaming' = streaming \/ streaming' \in BOOLEAN
      BY <2>1, <2>2, <2>3, <2>4, <2>5, Zenon DEF Next
    <2> QED
      BY <2>6, <2>7, Zenon
  <1> QED
    BY <1>12, <1>3, <1>4, <1>5, <1>6, <1>7, <1>8, <1>9, <1>10, <1>11 DEF Next

-----------------------------------------------------------------------------
(* The buttons.                                                            *)

\* A poll sets the stream's buttons by the state it found, of which none enables both;
\* a click and an answer leave one of them disabled, but for a start that was lost.
LEMMA ButtonsStep ==
    ASSUME TypeOK, StartsFit, StreamStates, StreamButtonsExclude, [Next]_vars
    PROVE  disabled' \in SUBSET Buttons /\ StreamButtonsExclude'
  <1> DEFINE Kept == disabled' \in SUBSET Buttons /\ StreamButtonsExclude'
  <1>1. disabled \in SUBSET Buttons
    BY DEF TypeOK
  <1>2. ASSUME disabled' = disabled, startFailed' = startFailed
        PROVE  Kept
    BY <1>1, <1>2 DEF StreamButtonsExclude
  <1>3. ASSUME NEW r \in Refreshers, NEW n \in DOMAIN calls[r], Apply(r, n)
        PROVE  Kept
    <2>1. CASE r # "pollStatus" \/ focus \notin {"cdcStatus", "generatorStatus"}
      BY <1>2, <1>3, <2>1 DEF Apply, ButtonsOf
    <2>2. CASE r = "pollStatus" /\ focus = "cdcStatus"
      <3>1. calls[r][n] \in {Disconnected, Connected, Streaming}
        <4>1. Item = "cdc"
          BY <2>2 DEF Item, Shows
        <4>2. calls[r] \in Seq(Polled)
          BY <2>2, <4>1 DEF StreamStates
        <4>3. calls[r][n] \in Polled
          BY <4>2
        <4> QED
          BY <1>3, <4>3 DEF Apply, Polled
      <3>2. disabled' = CdcButtons(calls[r][n]) \cup {"stopGeneratorBtn"}
        BY <1>3, <2>2 DEF Apply, ButtonsOf
      <3>3. /\ CdcButtons(calls[r][n]) \subseteq {"startStreamingBtn", "stopStreamingBtn"}
            /\ CdcButtons(calls[r][n]) # {}
        BY <3>1 DEF CdcButtons, Disconnected, Connected, Streaming
      <3> QED
        BY <3>2, <3>3 DEF StreamButtonsExclude, Buttons
    <2>3. CASE r = "pollStatus" /\ focus = "generatorStatus"
      <3>1. disabled' = GeneratorButtons(calls[r][n]) \cup {"stopStreamingBtn"}
        BY <1>3, <2>3 DEF Apply, ButtonsOf
      <3> QED
        BY <3>1 DEF GeneratorButtons, StreamButtonsExclude, Buttons
    <2> QED
      BY <2>1, <2>2, <2>3
  <1>4. ASSUME NEW r, NEW n, Fetch(r, n) \/ End(r, n) \/ Lose(r, n)
        PROVE  Kept
    BY <1>2, <1>4 DEF Fetch, End, Lose, page
  <1>5. ASSUME NEW q \in Requests, Click(q)
        PROVE  Kept
    <2> DEFINE c == q[1]
    <2>1. startFailed' = startFailed
      BY <1>5 DEF Click
    <2>2. CASE c \notin Switches
      BY <1>2, <1>5, <2>1, <2>2 DEF Click
    <2>3. CASE c \in Switches
      <3>1. disabled' = (disabled \cup {ButtonOf(c)})
                           \ (IF c = "stop" THEN {"startStreamingBtn"} ELSE {})
        BY <1>5, <2>3 DEF Click
      <3>2. ButtonOf(c) \in Buttons /\ (c = "stop" => ButtonOf(c) = "stopStreamingBtn")
        BY <2>3 DEF ButtonOf, Buttons, Switches
      <3> QED
        BY <1>1, <2>1, <3>1, <3>2 DEF StreamButtonsExclude
    <2> QED
      BY <2>2, <2>3
  <1>6. ASSUME NEW q \in Requests, AnswerSwitch(q)
        PROVE  Kept
    <2> DEFINE c == q[1]
    <2>1. startFailed' = startFailed /\ c \in Switches
      BY <1>6 DEF AnswerSwitch
    <2>2. CASE c = "startStreaming"
      <3>1. CASE cmd[q] = "success"
        BY <1>2, <1>6, <2>1, <2>2, <3>1 DEF AnswerSwitch, AfterStart
      <3>2. CASE cmd[q] # "success"
        <4>1. startFailed
          BY <1>6, <2>2, <3>2 DEF AnswerSwitch, StartsFit
        <4>2. disabled' \subseteq disabled
          BY <1>6, <2>2, <3>2 DEF AnswerSwitch, AfterStart
        <4> QED
          BY <1>1, <2>1, <4>1, <4>2 DEF StreamButtonsExclude
      <3> QED
        BY <3>1, <3>2
    <2>3. CASE c = "stop"
      BY <1>1, <1>6, <2>3 DEF AnswerSwitch, AfterStop, StreamButtonsExclude, Buttons
    <2>4. CASE c \in {"startGenerator", "stopGenerator"}
      <3>1. disabled' \in {disabled \ {"stopGeneratorBtn"}, disabled \ {"startGeneratorBtn"}}
        BY <1>6, <2>4 DEF AnswerSwitch, AfterStartGenerator, AfterStopGenerator
      <3> QED
        BY <1>1, <2>1, <3>1 DEF StreamButtonsExclude
    <2> QED
      BY <2>1, <2>2, <2>3, <2>4 DEF Switches
  <1>7. ASSUME NEW c, CommandFails(c)
        PROVE  Kept
    <2>1. disabled' = disabled /\ (startFailed => startFailed')
      BY <1>7 DEF CommandFails, page
    <2> QED
      BY <1>1, <2>1 DEF StreamButtonsExclude
  <1>8. ASSUME NEW c, Execute(c) \/ AnswerCommand(c)
        PROVE  Kept
    BY <1>2, <1>8 DEF Execute, AnswerCommand, page
  <1>9. ASSUME NEW x, PermanentTick(x) \/ IntervalTick(x) \/ SwitchTab(x)
        PROVE  Kept
    BY <1>2, <1>9 DEF PermanentTick, IntervalTick, SwitchTab, page
  <1>10. CASE MigrationStarted \/ ServerChanges \/ UNCHANGED vars
    BY <1>2, <1>10 DEF MigrationStarted, ServerChanges, vars, page
  <1> QED
    BY <1>3, <1>4, <1>5, <1>6, <1>7, <1>8, <1>9, <1>10 DEF Next, Progress, Answer

-----------------------------------------------------------------------------
(* The theorems.                                                           *)

\* The page as served.
LEMMA IInvInit == Init => IInv
  <1> SUFFICES ASSUME Init PROVE IInv
    OBVIOUS
  <1>1. /\ focus \in Elements /\ server \in ServerStates(Item) /\ shown = Unknown
        /\ disabled = {"stopStreamingBtn", "stopGeneratorBtn"}
        /\ tab = "dashboard" /\ held = {} /\ timers = [i \in Intervals |-> 0]
        /\ calls = [r \in Refreshers |-> <<>>]
        /\ cmd = [q \in Requests |-> "none"]
        /\ budget \in [BudgetKinds -> Nat]
    BY DashboardAssumption DEF Init
  <1>2. startFailed \in BOOLEAN /\ streaming \in BOOLEAN
    BY Zenon DEF Init
  <1>3. server \in Nat
    BY <1>1 DEF ServerStates, Disconnected, Connected, Streaming
  <1>4. TypeOK
    <2>1. timers \in [Intervals -> Nat] /\ cmd \in [Requests -> CommandStates]
      BY <1>1 DEF CommandStates
    <2>2. calls \in [Refreshers -> Seq(Nat \cup {Failed, Asking, Rest})]
      BY <1>1
    <2>3. disabled \in SUBSET Buttons /\ tab \in Tabs /\ held \in SUBSET Intervals
      BY <1>1 DEF Buttons, Tabs
    <2> QED
      BY <1>1, <1>2, <1>3, <2>1, <2>2, <2>3 DEF TypeOK
  <1>5. IntervalsAreHeld
    BY <1>1 DEF IntervalsAreHeld, IntervalOf
  <1>6. CommandsFit /\ StartsFit
    BY <1>1 DEF CommandsFit, StartsFit
  <1>7. StreamStates
    <2>1. calls["pollStatus"] = <<>>
      BY <1>1 DEF Refreshers, Permanent
    <2>2. <<>> \in Seq(Polled)
      OBVIOUS
    <2>3. ASSUME Item = "cdc" PROVE server \in ServerStates("cdc")
      BY <1>1, <2>3
    <2> QED
      BY <2>1, <2>2, <2>3 DEF StreamStates
  <1>8. StreamButtonsExclude
    BY <1>1 DEF StreamButtonsExclude
  <1> QED
    BY <1>4, <1>5, <1>6, <1>7, <1>8 DEF IInv

\* Every step keeps the inductive invariant.
LEMMA IInvStep == IInv /\ [Next]_vars => IInv'
  <1> SUFFICES ASSUME IInv, [Next]_vars PROVE IInv'
    OBVIOUS
  <1>1. /\ TypeOK /\ IntervalsAreHeld /\ CommandsFit /\ StartsFit /\ StreamStates
        /\ StreamButtonsExclude
    BY DEF IInv
  <1>2. /\ IntervalsAreHeld' /\ tab' \in Tabs /\ held' \in SUBSET Intervals
        /\ timers' \in [Intervals -> Nat]
    BY <1>1, IntervalsStep
  <1>3. focus' = focus /\ Item' = Item /\ focus \in Elements
    BY <1>1, FocusStays DEF TypeOK
  <1>4. cmd' \in [Requests -> CommandStates] /\ CommandsFit' /\ StartsFit'
    BY <1>1, CommandsStep
  <1>5. server' \in Nat /\ (Item = "cdc" => server' \in ServerStates("cdc"))
    BY <1>1, ServerStep
  <1>6. /\ calls' \in [Refreshers -> Seq(CallStates)]
        /\ Item = "cdc" => calls'["pollStatus"] \in Seq(Polled)
    BY <1>1, CallsStep
  <1>7. shown' \in Nat \cup {Unknown, Failed}
    BY <1>1, ShownStep
  <1>8. /\ budget' \in [BudgetKinds -> Nat]
        /\ startFailed' \in BOOLEAN /\ streaming' \in BOOLEAN
    BY <1>1, BudgetStep
  <1>9. disabled' \in SUBSET Buttons /\ StreamButtonsExclude'
    BY <1>1, ButtonsStep
  <1>10. TypeOK'
    BY <1>2, <1>3, <1>4, <1>5, <1>6, <1>7, <1>8, <1>9 DEF TypeOK, CallStates
  <1>11. StreamStates'
    BY <1>3, <1>5, <1>6 DEF StreamStates, ServerStates
  <1> QED
    BY <1>2, <1>4, <1>9, <1>10, <1>11 DEF IInv

\* The inductive invariant: types, intervals and buttons, with what the commands and the
\* polls in flight can still bring.
THEOREM Inductive == Spec => []IInv
  BY IInvInit, IInvStep, PTL DEF Spec

\* Type correctness: no counter of intervals ever falls below zero.
THEOREM TypeCorrect == Spec => []TypeOK
  <1>1. IInv => TypeOK
    BY DEF IInv
  <1> QED
    BY <1>1, Inductive, PTL

\* Along every path through tabs and migrations the page holds exactly the intervals
\* that run.
THEOREM HeldIntervals == Spec => []IntervalsAreHeld
  <1>1. IInv => IntervalsAreHeld
    BY DEF IInv
  <1> QED
    BY <1>1, Inductive, PTL

\* Start and Stop of the stream are never both enabled unless a start was lost, with any
\* number of polls and answers overtaking each other.
THEOREM ButtonsExclude == Spec => []StreamButtonsExclude
  <1>1. IInv => StreamButtonsExclude
    BY DEF IInv
  <1> QED
    BY <1>1, Inductive, PTL

=============================================================================
