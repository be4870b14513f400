----------------------------- MODULE Dashboard -----------------------------
(***************************************************************************)
(* The page (js/app.js) as a reader of the server: functions that fetch and *)
(* show, started by intervals, by tabs and by commands, each in flight for  *)
(* as long as its requests take, several of one kind at a time and overtaking *)
(* each other; and the buttons that start and stop things, which the same   *)
(* answers enable and disable.                                             *)
(*                                                                         *)
(* No element of the page depends on another one, so a behaviour follows    *)
(* one element, chosen at the start: what the server would answer for it,   *)
(* the functions that show it, the commands that change it.  Elements that  *)
(* one function writes from one answer are represented by one of them.      *)
(* Elements the served page does not contain (connectBtn, stopBtn,         *)
(* recordCount, ...) are left out: the code skips them.                     *)
(***************************************************************************)
EXTENDS Integers, SequencesExt

CONSTANTS
    MaxCalls,    \* bound on the calls of one function, and of one command, in flight
    Budgets      \* bounds on clicks, tab changes, failures and changes by others, one
                 \* of which a behaviour has to keep to

BudgetKinds == {"click", "tab", "fail", "change"}

ASSUME DashboardAssumption ==
    /\ MaxCalls \in Nat \ {0}
    /\ Budgets \subseteq [BudgetKinds -> Nat]

\* The functions that fetch and show; "statistics" is the handler of cdcStatistics
\* messages of the WebSocket, which come one after the other.
Permanent == {"pollStatus", "statistics", "updateDashboardStats"}
OnReplicationTab == {"fetchDataComparison", "refreshMigrationData"}
OnReadWriteTab == {"refreshReadWriteData", "pollReplicationStatus"}
Refreshers == Permanent \cup OnReplicationTab \cup OnReadWriteTab

\* The elements each function writes, by the requests they wait for: the next request is
\* made when the answer to the one before has been shown.  Requests made together
\* (Promise.all) are one stage.
PollStages == <<{"cdcStatus", "generatorStatus", "shardingCdcStatus"}, {"totalEvents"}>>
StatisticsStages == <<{"totalEvents"}>>
DashboardStages == <<{"sourceRecordCount", "targetRecordCount", "totalEventsCaptured"}>>
ComparisonStages == <<{"sourceRecordCount", "sourceDataTable"},
                      {"targetRecordCount", "targetDataTable"},
                      {"totalEventsCaptured"}, {"cdcJobStatus"}>>
MigrationStages == <<{"migrationSourceCount"}, {"migrationSourceTable"}>>
ReadWriteStages == <<{"writeDbTable"}, {"readDbTable"}>>
ReplicationStages == <<{"rwReplicationStatus"}>>

Stages == [pollStatus            |-> PollStages,
           statistics            |-> StatisticsStages,
           updateDashboardStats  |-> DashboardStages,
           fetchDataComparison   |-> ComparisonStages,
           refreshMigrationData  |-> MigrationStages,
           refreshReadWriteData  |-> ReadWriteStages,
           pollReplicationStatus |-> ReplicationStages]

\* What the elements show.
Shows == [
    cdcStatus            |-> "cdc",             generatorStatus      |-> "generator",
    shardingCdcStatus    |-> "streams",         totalEvents          |-> "stats",
    sourceRecordCount    |-> "source",          targetRecordCount    |-> "target",
    totalEventsCaptured  |-> "stats",           cdcJobStatus         |-> "cdc",
    sourceDataTable      |-> "source",          targetDataTable      |-> "target",
    migrationSourceCount |-> "migrationStatus", migrationSourceTable |-> "migrationSource",
    writeDbTable         |-> "write",           readDbTable          |-> "read",
    rwReplicationStatus  |-> "replication"]

Elements == DOMAIN Shows

\* What the server reads from a database when it is asked, and may fail to read.
Reads == {"source", "target", "write", "read", "migrationStatus", "migrationSource"}

\* Codes of the CDC state; the generator and a stream are 0 or 1, anything else is
\* known by a version number.
Disconnected == 0
Connected == 1
Streaming == 2
Unknown == -1   \* not shown yet
Failed == -2    \* an answer that stands for a failure (success: false, 0, an empty
                \* list), or a default after an error
Asking == -3    \* a call whose answer for the element has not arrived
Rest == -4      \* a call that has shown the element and waits for something else

Tabs == {"dashboard", "replication", "readwrite"}
Intervals == {"comparisonRefreshInterval", "readWriteRefreshInterval", "migrationRefreshInterval"}

\* Commands and what they change.
Changes == [
    startStreaming         |-> {"cdc"},
    stop                   |-> {"cdc"},
    startGenerator         |-> {"generator"},
    stopGenerator          |-> {"generator"},
    enableReplication      |-> {"replication", "read"},
    disableReplication     |-> {"replication"},
    syncReplication        |-> {"replication", "read"},
    switchDatabases        |-> {"replication", "write", "read"},
    insertToWriteDb        |-> {"replication", "write"},
    clearShardingSphereDb  |-> {"source"},
    clearMigrationSourceDb |-> {"migrationStatus", "migrationSource"},
    clearTargetDb          |-> {"target"}]
Commands == DOMAIN Changes
ReplicationCommands == {"enableReplication", "disableReplication", "syncReplication",
                        "switchDatabases"}
Switches == {"startStreaming", "stop", "startGenerator", "stopGenerator"}
Buttons == {"startStreamingBtn", "stopStreamingBtn", "startGeneratorBtn", "stopGeneratorBtn"}

VARIABLES
    focus,       \* the element this behaviour follows
    server,      \* what the server would answer for it
    shown,       \* what it shows
    disabled,    \* the buttons that are disabled
    tab,         \* the active tab
    held,        \* the interval variables that are not null
    timers,      \* how many intervals run for each of them
    calls,       \* the calls in flight, in the order they were made: Asking, the
                 \* answer, or Rest
    cmd,         \* the commands in flight
    streaming,   \* whether a poll that is after the totals finds the stream running
    startFailed, \* history variable: a request to start streaming was lost
    budget       \* what is left of the chosen one of Budgets

page == <<shown, disabled, tab, held, timers>>
vars == <<focus, server, shown, disabled, tab, held, timers, calls, cmd, streaming,
          startFailed, budget>>

Requests == Commands \X (1..MaxCalls)   \* a command, several times in flight

CommandStates == {"none", "sent", "success", "refused", "lost"}

Item == Shows[focus]
StageOf(r) == {n \in DOMAIN Stages[r] : focus \in Stages[r][n]}
Followed(r) == StageOf(r) # {}

Spend(b) == /\ budget[b] > 0
            /\ budget' = [budget EXCEPT ![b] = @ - 1]

TypeOK ==
    /\ focus \in Elements
    /\ server \in Nat
    /\ shown \in Nat \cup {Unknown, Failed}
    /\ disabled \in SUBSET Buttons
    /\ tab \in Tabs
    /\ held \in SUBSET Intervals
    /\ timers \in [Intervals -> Nat]
    /\ calls \in [Refreshers -> Seq(Nat \cup {Failed, Asking, Rest})]
    /\ cmd \in [Requests -> CommandStates]
    /\ streaming \in BOOLEAN
    /\ startFailed \in BOOLEAN
    /\ budget \in [BudgetKinds -> Nat]

\* The states a server can be in for an item that a switch changes.
ServerStates(i) == CASE i = "cdc" -> {Disconnected, Connected, Streaming}
                     [] i \in {"generator", "streams"} -> {0, 1}
                     [] OTHER -> {0}

\* The page as served, and whatever state the server is in.
Init ==
    /\ focus \in Elements
    /\ server \in ServerStates(Item)
    /\ shown = Unknown
    /\ disabled = {"stopStreamingBtn", "stopGeneratorBtn"}
    /\ tab = "dashboard" /\ held = {} /\ timers = [i \in Intervals |-> 0]
    /\ calls = [r \in Refreshers |-> <<>>]
    /\ cmd = [q \in Requests |-> "none"]
    /\ streaming \in IF focus = "totalEvents" THEN BOOLEAN ELSE {FALSE}
    /\ startFailed = FALSE
    /\ budget \in Budgets

-----------------------------------------------------------------------------
(* Functions that fetch and show.                                          *)

\* The functions R are called; those that do not write the element are not followed.
\* Messages of the WebSocket come in order, so one of them is enough.
Launch(R) ==
    /\ \A r \in R : Followed(r) =>
          Len(calls[r]) < (IF r = "statistics" THEN 1 ELSE MaxCalls)
    /\ calls' = [r \in Refreshers |->
                    IF r \in R /\ Followed(r) THEN Append(calls[r], Asking) ELSE calls[r]]

\* pollStatus every 2 seconds, updateDashboardStats every 3, statistics when a
\* message arrives; earlier calls may still be in flight.
PermanentTick(r) ==
    /\ r \in Permanent /\ Followed(r)
    /\ Launch({r})
    /\ UNCHANGED <<focus, server, page, cmd, streaming, startFailed, budget>>

OnInterval(i) == CASE i = "comparisonRefreshInterval" -> OnReplicationTab
                   [] i = "readWriteRefreshInterval" -> OnReadWriteTab
                   [] i = "migrationRefreshInterval" -> {"refreshMigrationData"}

\* An interval set by a tab or by startMigration fires.
IntervalTick(i) ==
    /\ timers[i] > 0 /\ \E r \in OnInterval(i) : Followed(r)
    /\ Launch(OnInterval(i))
    /\ UNCHANGED <<focus, server, page, cmd, streaming, startFailed, budget>>

\* The server answers the request for the element with what is the case now, or, if it
\* cannot read it, with a failure or what stands for one.
Fetch(r, n) ==
    /\ calls[r][n] = Asking
    /\ \/ calls' = [calls EXCEPT ![r][n] = server] /\ UNCHANGED budget
       \/ Item \in Reads /\ Spend("fail") /\ calls' = [calls EXCEPT ![r][n] = Failed]
    /\ UNCHANGED <<focus, server, page, cmd, streaming, startFailed>>

\* A failed read is shown as an error, as 0 or as nothing, except by refreshReadWriteData, which
\* leaves the table as it is.
Displayed(r, got) ==
    IF r = "refreshReadWriteData" /\ got = Failed THEN shown ELSE got

\* Mutant: streaming is not taken to imply a running stop button.
CdcButtonsOneWay(c) == CASE c = Streaming -> {}
                          [] c = Connected -> {"stopStreamingBtn"}
                          [] c = Disconnected -> {"startStreamingBtn", "stopStreamingBtn"}

\* updateCDCStatus: the stream's buttons that are disabled.
CdcButtons(c) == CASE c = Streaming -> {"startStreamingBtn"}
                   [] c = Connected -> {"stopStreamingBtn"}
                   [] c = Disconnected -> {"startStreamingBtn", "stopStreamingBtn"}

\* updateGeneratorStatus: the generator's buttons that are disabled.
GeneratorButtons(g) == IF g = 1 THEN {"startGeneratorBtn"} ELSE {"stopGeneratorBtn"}

\* The buttons after pollStatus has shown v; the other switch is not followed.
ButtonsOf(v) == CASE focus = "cdcStatus" -> CdcButtons(v) \cup {"stopGeneratorBtn"}
                  [] focus = "generatorStatus" -> GeneratorButtons(v) \cup {"stopStreamingBtn"}
                  [] OTHER -> disabled

Defaulted == {"sourceRecordCount", "targetRecordCount", "totalEventsCaptured", "cdcJobStatus"}

\* What follows matters only to fetchDataComparison, which overwrites what it has shown
\* if a later request fails.
HasRest(r) == /\ r = "fetchDataComparison" /\ focus \in Defaulted
              /\ \E n \in StageOf(r) : n < Len(Stages[r])

Finished(r, n) == calls' = [calls EXCEPT ![r] = RemoveAt(@, n)]

\* Mutant: the answer is not awaited.
ApplyUnawaited(r, n) ==
    LET got == calls[r][n] IN
    /\ got # Rest
    /\ shown' = got
    /\ disabled' = disabled
    /\ IF HasRest(r) THEN calls' = [calls EXCEPT ![r][n] = Rest] ELSE Finished(r, n)
    /\ UNCHANGED <<focus, server, tab, held, timers, cmd, streaming, startFailed, budget>>

\* The answer has arrived, with the others of its stage, and is shown.
Apply(r, n) ==
    LET got == calls[r][n] IN
    /\ got \notin {Asking, Rest}
    /\ shown' = Displayed(r, got)
    /\ disabled' = IF r = "pollStatus" THEN ButtonsOf(got) ELSE disabled
    /\ IF HasRest(r) THEN calls' = [calls EXCEPT ![r][n] = Rest] ELSE Finished(r, n)
    /\ UNCHANGED <<focus, server, tab, held, timers, cmd, streaming, startFailed, budget>>

\* The call ends: fetchDataComparison with its last request, pollStatus without asking
\* for the totals, because it has found the stream running.
End(r, n) ==
    /\ \/ calls[r][n] = Rest
       \/ r = "pollStatus" /\ calls[r][n] = Asking /\ StageOf(r) = {2} /\ streaming
    /\ Finished(r, n)
    /\ UNCHANGED <<focus, server, page, cmd, streaming, startFailed, budget>>

\* A request is lost: the exception ends the call; fetchDataComparison shows defaults.
Lose(r, n) ==
    /\ r # "statistics"
    /\ Spend("fail")
    /\ Finished(r, n)
    /\ shown' = IF r = "fetchDataComparison" /\ focus \in Defaulted THEN Failed ELSE shown
    /\ UNCHANGED <<focus, server, disabled, tab, held, timers, cmd, streaming, startFailed>>

-----------------------------------------------------------------------------
(* Tabs and intervals.                                                     *)

IntervalOf(t) == CASE t = "replication" -> {"comparisonRefreshInterval"}
                   [] t = "readwrite" -> {"readWriteRefreshInterval"}
                   [] t = "dashboard" -> {}

\* Mutant: an interval is started only if the variable is null, and clearing does not
\* make it null.
SwitchTabKeepingHeld(t) ==
    /\ Spend("tab")
    /\ tab' = t
    /\ held' = held \cup IntervalOf(t)
    /\ timers' = [i \in Intervals |-> IF i \in IntervalOf(t) \ held THEN 1 ELSE 0]
    /\ Launch(UNION {OnInterval(i) : i \in IntervalOf(t)})
    /\ UNCHANGED <<focus, server, shown, disabled, cmd, streaming, startFailed>>

\* A click on a tab, the active one included: what is referred to is cleared, the
\* functions of the new tab are called and an interval for them is set.
SwitchTab(t) ==
    /\ Spend("tab")
    /\ tab' = t
    /\ held' = IntervalOf(t)
    /\ timers' = [i \in Intervals |-> timers[i] - (IF i \in held THEN 1 ELSE 0)
                                        + (IF i \in IntervalOf(t) THEN 1 ELSE 0)]
    /\ Launch(UNION {OnInterval(i) : i \in IntervalOf(t)})
    /\ UNCHANGED <<focus, server, shown, disabled, cmd, streaming, startFailed>>

\* Mutant: the interval of an earlier migration is not cleared.
MigrationStartedAgain ==
    /\ Spend("click")
    /\ held' = held \cup {"migrationRefreshInterval"}
    /\ timers' = [timers EXCEPT !["migrationRefreshInterval"] = @ + 1]
    /\ Launch({"refreshMigrationData"})
    /\ UNCHANGED <<focus, server, shown, disabled, tab, cmd, streaming, startFailed>>

\* The end of startMigration, on whatever tab it finds the page by then.
MigrationStarted ==
    /\ Spend("click")
    /\ held' = held \cup {"migrationRefreshInterval"}
    /\ timers' = [timers EXCEPT !["migrationRefreshInterval"] =
                     @ - (IF "migrationRefreshInterval" \in held THEN 1 ELSE 0) + 1]
    /\ Launch({"refreshMigrationData"})
    /\ UNCHANGED <<focus, server, shown, disabled, tab, cmd, streaming, startFailed>>

-----------------------------------------------------------------------------
(* Commands: a request, its effect at the server, the answer.               *)

TabOf(c) == CASE c \in {"startGenerator", "stopGenerator"} -> "dashboard"
              [] c \in {"startStreaming", "stop", "clearShardingSphereDb",
                        "clearMigrationSourceDb", "clearTargetDb"} -> "replication"
              [] c \in ReplicationCommands \cup {"insertToWriteDb"} -> "readwrite"

ButtonOf(c) == CASE c = "startStreaming" -> "startStreamingBtn"
                 [] c = "stop" -> "stopStreamingBtn"
                 [] c = "startGenerator" -> "startGeneratorBtn"
                 [] c = "stopGenerator" -> "stopGeneratorBtn"

\* The click: a switch disables its button; stop() also enables the other one.  A
\* command can be sent again before it is answered: only switches have a button that is
\* disabled, and a late poll may enable that one.
Click(q) ==
    LET c == q[1] IN
    /\ Item \in Changes[c] /\ tab = TabOf(c) /\ cmd[q] = "none"
    /\ \A n \in 1..q[2] - 1 : cmd[<<c, n>>] # "none"
    /\ c \in Switches => ButtonOf(c) \notin disabled
    /\ Spend("click")
    /\ cmd' = [cmd EXCEPT ![q] = "sent"]
    /\ disabled' = IF c \notin Switches THEN disabled
                   ELSE (disabled \cup {ButtonOf(c)})
                            \ (IF c = "stop" THEN {"startStreamingBtn"} ELSE {})
    /\ UNCHANGED <<focus, server, shown, tab, held, timers, calls, streaming, startFailed>>

\* The server carries a command out.  startStreaming answers text also when it fails,
\* and stop always reports success, even if nothing has changed.  A generator that
\* cannot be scheduled (interval 0) is refused and counts as running.
Execute(q) ==
    LET c == q[1] IN
    /\ cmd[q] = "sent"
    /\ \/ /\ c = "startStreaming"
          /\ server' \in {server} \cup (IF server = Connected THEN {Streaming} ELSE {})
          /\ cmd' = [cmd EXCEPT ![q] = "success"]
       \/ /\ c = "stop"
          /\ server' \in {server} \cup (IF server = Streaming THEN {Connected} ELSE {})
          /\ cmd' = [cmd EXCEPT ![q] = "success"]
       \/ /\ c = "startGenerator"
          /\ server' = 1
          /\ \E a \in {"success"} \cup (IF server = 1 THEN {} ELSE {"refused"}) :
                cmd' = [cmd EXCEPT ![q] = a]
       \/ /\ c = "stopGenerator"
          /\ server' = 0
          /\ cmd' = [cmd EXCEPT ![q] = "success"]
       \/ /\ c \notin Switches
          /\ server' = server + 1
          /\ cmd' = [cmd EXCEPT ![q] = "success"]
    /\ UNCHANGED <<focus, page, calls, streaming, startFailed, budget>>

\* The request or its answer is lost, or the server refuses it.
CommandFails(q) ==
    LET c == q[1] IN
    /\ cmd[q] \in {"sent", "success"}
    /\ Spend("fail")
    /\ \/ cmd' = [cmd EXCEPT ![q] = "lost"]
       \/ c \notin Switches /\ cmd[q] = "sent" /\ cmd' = [cmd EXCEPT ![q] = "refused"]
    /\ startFailed' = (startFailed \/ c = "startStreaming")
    /\ UNCHANGED <<focus, server, page, calls, streaming>>

\* What startStreaming and stop do to the buttons when they have the answer, or none.
AfterStart(ok) == IF ok THEN disabled ELSE disabled \ {"startStreamingBtn"}
AfterStop(ok) == IF ok THEN disabled \cup {"stopStreamingBtn"}
                 ELSE (disabled \ {"stopStreamingBtn"}) \cup {"startStreamingBtn"}

\* What startGenerator and stopGenerator do to the buttons after success or failure.
AfterStartGenerator(ok) ==
    disabled \ (IF ok THEN {"stopGeneratorBtn"} ELSE {"startGeneratorBtn"})
AfterStopGenerator(ok) ==
    disabled \ (IF ok THEN {"startGeneratorBtn"} ELSE {"stopGeneratorBtn"})

\* What a command of the read-write tab calls after success, whatever the active tab.
ReadWriteFollowUps == OnReadWriteTab

\* What a clear... command calls after success, if its tab is still the active one.
ClearFollowUps(c) ==
    IF tab # "replication" THEN {}
    ELSE CASE c = "clearShardingSphereDb" -> {"fetchDataComparison"}
           [] c = "clearMigrationSourceDb" -> {"refreshMigrationData"}
           [] c = "clearTargetDb" -> OnReplicationTab

\* The answer of a start or stop arrives.
AnswerSwitch(q) ==
    LET c == q[1]  ok == cmd[q] = "success" IN
    /\ c \in Switches /\ cmd[q] \in {"success", "refused", "lost"}
    /\ cmd' = [cmd EXCEPT ![q] = "none"]
    /\ disabled' = CASE c = "startStreaming" -> AfterStart(ok)
                     [] c = "stop" -> AfterStop(ok)
                     [] c = "startGenerator" -> AfterStartGenerator(ok)
                     [] c = "stopGenerator" -> AfterStopGenerator(ok)
    /\ UNCHANGED <<focus, server, shown, tab, held, timers, calls, streaming, startFailed,
                   budget>>

\* The answer of another command arrives: after success the page reads again.
AnswerCommand(q) ==
    LET c == q[1] IN
    /\ c \notin Switches /\ cmd[q] \in {"success", "refused", "lost"}
    /\ cmd' = [cmd EXCEPT ![q] = "none"]
    /\ IF cmd[q] # "success" THEN UNCHANGED calls
       ELSE Launch(IF TabOf(c) = "readwrite" THEN ReadWriteFollowUps ELSE ClearFollowUps(c))
    /\ UNCHANGED <<focus, server, page, streaming, startFailed, budget>>

Answer(q) == AnswerSwitch(q) \/ AnswerCommand(q)

-----------------------------------------------------------------------------
(* Everybody else: other pages, a migration, the generator, the stream.    *)

ServerChanges ==
    /\ Spend("change")
    /\ \/ /\ server' \in IF Item \in {"cdc", "generator", "streams"}
                         THEN ServerStates(Item) \ {server} ELSE {server + 1}
          /\ UNCHANGED streaming
       \/ /\ focus = "totalEvents" /\ streaming' \in BOOLEAN \ {streaming}
          /\ UNCHANGED server
    /\ UNCHANGED <<focus, page, calls, cmd, startFailed>>

-----------------------------------------------------------------------------
Progress(r, n) == Fetch(r, n) \/ Apply(r, n) \/ End(r, n)

Next ==
    \/ \E r \in Refreshers : PermanentTick(r)
    \/ \E i \in Intervals : IntervalTick(i)
    \/ \E r \in Refreshers : \E n \in DOMAIN calls[r] : Progress(r, n) \/ Lose(r, n)
    \/ \E t \in Tabs : SwitchTab(t)
    \/ MigrationStarted
    \/ \E q \in Requests : Click(q) \/ Execute(q) \/ CommandFails(q) \/ Answer(q)
    \/ ServerChanges

\* Intervals fire and requests are answered in the end; nobody has to click, and no
\* message has to come: one concurrent send ends the server's sending of statistics.
Fairness ==
    /\ \A r \in Permanent \ {"statistics"} : WF_vars(PermanentTick(r))
    /\ \A i \in Intervals : WF_vars(IntervalTick(i))
    /\ \A r \in Refreshers, n \in 1..MaxCalls :
          WF_vars(n \in DOMAIN calls[r] /\ Progress(r, n))
    /\ \A q \in Requests : WF_vars(Execute(q) \/ Answer(q))

Spec == Init /\ [][Next]_vars
FairSpec == Spec /\ Fairness

-----------------------------------------------------------------------------
(* Properties.                                                             *)

\* The intervals of a tab run while it is active and never otherwise, and no path
\* through tabs and migrations leaves an interval behind that the page cannot clear
\* any more, or two of a kind.
IntervalsAreHeld ==
    /\ \A i \in Intervals : timers[i] = (IF i \in held THEN 1 ELSE 0)
    /\ held \ {"migrationRefreshInterval"} = IntervalOf(tab)

\* Start and Stop of the stream are never both enabled, whichever of clicks, late
\* answers and polls come between each other, unless a start was lost on the way.
StreamButtonsExclude ==
    ~startFailed => disabled \cap {"startStreamingBtn", "stopStreamingBtn"} # {}

\* The element is one the page keeps fetching while this tab is active: the totals only
\* while the stream does not run.
Refreshed ==
    \/ \E r \in {"updateDashboardStats"} \cup UNION {OnInterval(i) : i \in held} : Followed(r)
    \/ Followed("pollStatus") /\ ~streaming

UpToDate ==
    /\ shown = server
    /\ disabled = ButtonsOf(server)

\* Once nothing happens any more the page comes to show what is the case and to offer
\* the right buttons, for good: whatever was lost or overtaken, no late answer, default
\* or optimistic button stays, even if the server's messages have stopped for ever.
\* Nothing is said of the totals while the stream runs: only messages refresh them then.
PageConverges == <>[](Refreshed => UpToDate)
=============================================================================
