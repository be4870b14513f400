----------------------------- MODULE Migration -----------------------------
(***************************************************************************)
(* Moving a database: MigrationService and the workflow of the page         *)
(* (startMigration of js/app.js) that drives it, composed with the data     *)
(* path.  The migration's source is the database the proxy exposes as       *)
(* migration_db; a stream of another database goes to the same target.      *)
(*                                                                         *)
(* startMigration is a sequence of requests that any other request, the     *)
(* stream and the source's clients can come between: check the source,      *)
(* stop the stream, prepare the target, copy, start the stream.  Only the   *)
(* first and the last answers are looked at.  A copy the server has begun   *)
(* goes on whether or not the page still waits for it.                     *)
(***************************************************************************)
EXTENDS CDCPipeline

CONSTANTS
    MigrationDb, \* the database whose rows are migrated
    Threads,     \* the server's threads, as many as there are copies at a time
    CopyLimit,   \* rows getSourceRecords reads: 100
    MaxEvents    \* bound on the clicks on Start and on Setup Source DB, the copies and
                 \* set-ups other pages ask for and the changes of databases, together

Buttons == {"migrationStartBtn", "migrationSetupBtn"}

ASSUME MigrationAssumption ==
    /\ MigrationDb \in Databases /\ "none" \notin Threads
    /\ CopyLimit \in Nat /\ MaxEvents \in Nat

VARIABLES
    step,        \* the request startMigration is waiting for
    setup,       \* setupMigrationSource is waiting for its answer
    disabled,    \* the buttons that are disabled
    feedback,    \* text of migrationFeedback; "working": any of the texts with an hourglass
    clears,      \* timers that will erase the text
    answer,      \* the answer to startStreaming
    mine,        \* the thread that copies for this page, or "none"
    copying,     \* copyInitialData in each thread: whether it has still to write, the rows
                 \* it has read, and (history) those that are still right to write
    kept,        \* history variable: rows written by copies that should stay as they are
    events       \* what is left of MaxEvents

pageVars == <<step, setup, disabled, feedback, clears, answer, mine, events>>
mvars == <<pageVars, copying, kept>>
allVars == <<vars, mvars>>

Steps == {"idle", "status", "stop", "prepare", "copyRead", "copyWrite", "start", "answer"}
Texts == {"", "working", "empty", "started", "setUp", "error"}

\* The words of an answer that startMigration looks for.
Keywords == {"success", "started", "streaming"}
Answers == [ok     |-> {"success", "started", "streaming"},  \* CDC streaming started successfully
            failed |-> {"streaming"}]                        \* Failed to start streaming: ...

RowsOf(t) == {k \in Keys : t[k] # NoRow}

Copy == [pc : {"idle", "write"}, rows : Table, safe : SUBSET Keys]
NoCopy == [pc |-> "idle", rows |-> EmptyTable, safe |-> {}]

MigrationTypeOK ==
    /\ TypeOK
    /\ step \in Steps
    /\ setup \in BOOLEAN
    /\ disabled \in SUBSET Buttons
    /\ feedback \in Texts
    /\ clears \in Nat
    /\ answer \in {"none"} \cup DOMAIN Answers
    /\ mine \in Threads \cup {"none"}
    /\ copying \in [Threads -> Copy]
    /\ kept \in SUBSET Keys
    /\ events \in Nat

MigrationInit ==
    /\ Init
    /\ step = "idle" /\ setup = FALSE /\ disabled = {} /\ feedback = "" /\ clears = 0
    /\ answer = "none" /\ mine = "none" /\ copying = [s \in Threads |-> NoCopy]
    /\ kept = {} /\ events = MaxEvents

Happens == events > 0 /\ events' = events - 1

\* A button that is not disabled is clicked, and disabled.
Click(b) == b \notin disabled /\ disabled' = disabled \cup {b} /\ Happens

\* The order_ids for which an UPDATE or DELETE is on its way to the target.
Changing == {"UPDATE", "DELETE"}
Threatened ==
    {batch[i].key : i \in {j \in DOMAIN batch : batch[j].op \in Changing}} \cup
    IF Live THEN {log[i].key : i \in {j \in job.from + 1..Len(log) : log[j].op \in Changing}}
    ELSE {}

\* Those of the rows ks that have not changed in the source and that no change of the
\* database being streamed is about to change in the target.
Still(ks) == {k \in ks \ Threatened' : Now(MigrationDb)'[k] = Now(MigrationDb)[k]}
Forget == /\ kept' = Still(kept)
          /\ copying' = [s \in Threads |-> [copying[s] EXCEPT !.safe = Still(@)]]

-----------------------------------------------------------------------------
(* startMigration.                                                         *)

ClickStart ==
    /\ step = "idle"
    /\ Click("migrationStartBtn")
    /\ step' = "status"
    /\ feedback' = "working"
    /\ UNCHANGED <<vars, setup, clears, answer, mine, copying, kept>>

\* startMigration returns, in whatever way: finally.
Finish(text) ==
    /\ step' = "idle"
    /\ feedback' = text
    /\ disabled' = disabled \ {"migrationStartBtn"}

\* Mutant: the early return forgets the button.
StatusForgettingButton ==
    /\ step = "status"
    /\ \/ Now(MigrationDb) # EmptyTable /\ step' = "stop" /\ feedback' = "working"
       \/ step' = "idle" /\ feedback' = "empty"
    /\ UNCHANGED <<vars, setup, disabled, clears, answer, mine, copying, kept, events>>

\* getMigrationStatus: the source is empty, or counting its rows has failed, which
\* getSourceRecordCount answers with 0 too.
Status ==
    /\ step = "status"
    /\ \/ /\ Now(MigrationDb) # EmptyTable
          /\ step' = "stop" /\ feedback' = "working" /\ UNCHANGED disabled
       \/ Finish("empty")
    /\ UNCHANGED <<vars, setup, clears, answer, mine, copying, kept, events>>

\* stopStreaming, whose outcome nobody looks at, and a second's wait.
Stop ==
    /\ step = "stop"
    /\ StopStreaming \/ UNCHANGED vars
    /\ step' = "prepare" /\ feedback' = "working"
    /\ UNCHANGED <<setup, disabled, clears, answer, mine, copying, kept, events>>

\* prepareTargetDatabase: DROP and CREATE, or an SQLException in an answer nobody
\* looks at.
Prepare ==
    /\ step = "prepare"
    /\ \/ /\ target' = EmptyTable
          /\ damaged' = damaged \cup RowsOf(target)
          /\ kept' = {}
       \/ UNCHANGED <<target, damaged, kept>>
    /\ step' = "copyRead" /\ feedback' = "working"
    /\ UNCHANGED <<svars, job, batch, counted, cvars, budget,
                   setup, disabled, clears, answer, mine, copying, events>>

\* The rows a LIMIT leaves, or none after an SQLException, which getSourceRecords
\* swallows.
Read(rows) ==
    LET from == Now(MigrationDb)
    IN  \/ rows = EmptyTable
        \/ /\ \A k \in RowsOf(rows) : rows[k] = from[k]
           /\ \/ RowsOf(rows) = RowsOf(from) /\ Cardinality(RowsOf(from)) <= CopyLimit
              \/ Cardinality(RowsOf(from)) > CopyLimit /\ Cardinality(RowsOf(rows)) = CopyLimit

\* copyInitialData in thread s, first half: the source is read.
CopyRead(s) ==
    /\ copying[s].pc = "idle"
    /\ \E rows \in Table :
          /\ Read(rows)
          /\ copying' = [copying EXCEPT ![s] = [pc |-> "write", rows |-> rows,
                                               safe |-> RowsOf(rows) \ Threatened]]
    /\ UNCHANGED <<vars, kept>>

\* The page's own request for it ...
AskCopy(s) ==
    /\ step = "copyRead"
    /\ CopyRead(s)
    /\ step' = "copyWrite" /\ mine' = s
    /\ UNCHANGED <<setup, disabled, feedback, clears, answer, events>>

\* ... and that of another page, or one this page has stopped waiting for.
AskedCopy(s) ==
    /\ CopyRead(s)
    /\ Happens
    /\ UNCHANGED <<step, setup, disabled, feedback, clears, answer, mine>>

\* Mutant: ON CONFLICT DO NOTHING, as in applyInsert.
CopiedIfAbsent(rows, k) == IF rows[k] # NoRow /\ target[k] = NoRow THEN rows[k] ELSE target[k]

\* Mutant: no order_id in the INSERT, so the rows are numbered anew.
CopiedRenumbered(rows, k) ==
    IF RowsOf(rows) \ {k} # {} THEN rows[CHOOSE j \in RowsOf(rows) : j # k] ELSE target[k]

\* INSERT ... ON CONFLICT DO UPDATE.
Copied(rows, k) == IF rows[k] # NoRow THEN rows[k] ELSE target[k]

\* Second half: one batch of statements writes the rows, or fails as a whole.  Only a
\* log line depends on it.  The page goes on if it still waits for this thread.
CopyWrite(s) ==
    LET rows == copying[s].rows
    IN  /\ copying[s].pc = "write"
        /\ \/ /\ target' = [k \in Keys |-> Copied(rows, k)]
              /\ damaged' = damaged \cup {k \in RowsOf(rows) : rows[k] # source[k]}
              /\ kept' = copying[s].safe \cup
                             {k \in kept : rows[k] \in {NoRow, Now(MigrationDb)[k]}}
           \/ UNCHANGED <<target, damaged, kept>>
        /\ copying' = [copying EXCEPT ![s] = NoCopy]
        /\ IF mine = s THEN step' = "start" /\ feedback' = "working" /\ mine' = "none"
                       ELSE UNCHANGED <<step, feedback, mine>>
        /\ UNCHANGED <<svars, job, batch, counted, cvars, budget,
                       setup, disabled, clears, answer, events>>

\* startStreaming?database=migration_db at the server.  Already streaming, whatever
\* database, is a success; a service that is not connected or cannot reach the proxy
\* answers with status 500 and a text.
Start ==
    /\ step = "start"
    /\ \/ StartStreaming(MigrationDb) /\ answer' = "ok"
       \/ Streaming /\ UNCHANGED vars /\ answer' = "ok"
       \/ ~Streaming /\ UNCHANGED vars /\ answer' = "failed"
    /\ step' = "answer"
    /\ UNCHANGED <<setup, disabled, feedback, clears, mine, copying, kept, events>>

\* The status is not looked at; the text is searched for a keyword.
TakenForSuccess(a) == Answers[a] \cap Keywords # {}

Answered ==
    /\ step = "answer"
    /\ Finish(IF TakenForSuccess(answer) THEN "started" ELSE "error")
    /\ answer' = "none"
    /\ UNCHANGED <<vars, setup, clears, mine, copying, kept, events>>

\* A request or its answer is lost on the way to or from the server.  A copy the server
\* has begun goes on.
RequestFails ==
    /\ step \notin {"idle", "stop"}
    /\ Finish("error")
    /\ answer' = "none" /\ mine' = "none"
    /\ UNCHANGED <<vars, setup, clears, copying, kept, events>>

Workflow == \/ Status \/ Stop \/ Prepare \/ \E s \in Threads : AskCopy(s)
            \/ Start \/ Answered \/ RequestFails

-----------------------------------------------------------------------------
(* setupMigrationSource.                                                   *)

ClickSetup ==
    /\ ~setup
    /\ Click("migrationSetupBtn")
    /\ setup' = TRUE
    /\ feedback' = "working"
    /\ UNCHANGED <<vars, step, clears, answer, mine, copying, kept>>

\* setupSourceDatabase: DROP and CREATE, then one INSERT of the sample rows, one row
\* standing for ten; the first two may be all that succeeds.  The entry in the log
\* stands for the statements.  What the proxy makes of a table dropped under the job
\* that reads it is not known: left out.
Rebuild(rows) ==
    /\ ~(Live /\ job.db = MigrationDb)
    /\ Len(wal[MigrationDb]) < MaxWal[MigrationDb]
    /\ \E k \in Keys, r \in rows :
          /\ wal' = [wal EXCEPT ![MigrationDb] =
                        Append(@, [op |-> IF r = NoRow THEN "UNKNOWN" ELSE "INSERT",
                                   key |-> k, row |-> r])]
          /\ hist' = [hist EXCEPT ![MigrationDb] = Append(@, [EmptyTable EXCEPT ![k] = r])]
    /\ UNCHANGED <<job, batch, counted, target, cvars, damaged, budget>>
    /\ Forget

\* setupMigrationSource returns.
SetUpEnds(text) ==
    /\ setup
    /\ setup' = FALSE
    /\ disabled' = disabled \ {"migrationSetupBtn"}
    /\ feedback' = text
    /\ clears' = clears + 1
    /\ UNCHANGED <<step, answer, mine, events>>

SetUp == Rebuild(Rows) /\ SetUpEnds("setUp")

\* The server has done nothing, a part, or everything with the answer lost.
SetUpFails ==
    /\ Rebuild(MaybeRow) \/ UNCHANGED <<vars, copying, kept>>
    /\ SetUpEnds("error")

\* Mutant: setInterval where setTimeout was meant.
ClearFeedbackAgain ==
    /\ feedback # ""
    /\ feedback' = ""
    /\ clears' = clears - 1
    /\ UNCHANGED <<vars, step, setup, disabled, answer, mine, copying, kept, events>>

\* Five seconds later the text is erased, whatever it says by then.
ClearFeedback ==
    /\ clears > 0
    /\ feedback' = ""
    /\ clears' = clears - 1
    /\ UNCHANGED <<vars, step, setup, disabled, answer, mine, copying, kept, events>>

-----------------------------------------------------------------------------
\* Everything else of the data path, and requests of other pages or ones this page has
\* stopped waiting for: streams of any database, a target cleared or prepared anew,
\* copies, set-ups.
Elsewhere ==
    \/ /\ Source /\ Forget /\ Happens
       /\ UNCHANGED <<step, setup, disabled, feedback, clears, answer, mine>>
    \/ /\ \/ \E d \in Databases : StartStreaming(d)
          \/ StopStreaming \/ Deliver \/ ConnectionLost \/ GiveUp \/ Consume
          \/ ResetStatistics
       /\ UNCHANGED mvars
    \/ ClearTarget /\ kept' = {} /\ UNCHANGED <<pageVars, copying>>
    \/ \E s \in Threads : AskedCopy(s) \/ CopyWrite(s)
    \/ /\ Rebuild(MaybeRow)
       /\ Happens
       /\ UNCHANGED <<step, setup, disabled, feedback, clears, answer, mine>>

MigrationNext ==
    \/ ClickStart \/ Workflow
    \/ ClickSetup \/ SetUp \/ SetUpFails \/ ClearFeedback
    \/ Elsewhere

MigrationSpec == MigrationInit /\ [][MigrationNext]_allVars

-----------------------------------------------------------------------------
(* Properties.                                                             *)

\* A row that a copy has written as the source has it is in the target as it is in the
\* source, at any time and whatever happens: records of an old stream, snapshots of
\* either database, replays, an abandoned copy, a target that could not be prepared,
\* rows the decoder cannot read.  It ends with a change of the source's row, a change of
\* the same order_id in the database being streamed, an older copy or a cleared target.
MigratedRowsStay == \A k \in kept : target[k] = Now(MigrationDb)[k]

\* The target holds only what the stream makes of a row that a database had under the
\* same key, or what the migration's source had there and a copy took over.
NothingMadeUp ==
    \A k \in Keys : \/ target[k] = NoRow \/ Streamed(k, target[k])
                    \/ \E i \in DOMAIN hist[MigrationDb] : target[k] = hist[MigrationDb][i][k]

\* The Start button is disabled exactly while the page waits for an answer: no way
\* through the workflow leaves it disabled, and one page runs one migration at a time.
ButtonMeansWorkflow == "migrationStartBtn" \in disabled <=> step # "idle"
=============================================================================
