---------------------------- MODULE CDCPipeline ----------------------------
(***************************************************************************)
(* The change-data-capture path of CDCClientService: rows of t_order       *)
(* change in the databases the proxy knows (sharding_db, migration_db), the *)
(* CDC job of the one that startStreaming names reads an initial snapshot  *)
(* and then the write-ahead log, hands batches of records to the consumer  *)
(* registered by connect(), and the consumer applies them one at a time to *)
(* the one target table, counts them and broadcasts them.                  *)
(*                                                                         *)
(* The source databases and the proxy's job are not code of the            *)
(* repository: they are modelled from how the service uses them (full =    *)
(* true, a position taken when the job starts, at-least-once delivery      *)
(* under the RetryStreamingExceptionHandler).                              *)
(*                                                                         *)
(* A row is an abstract value.  The service decodes protobuf by hand, and  *)
(* not every row survives it: a user_id of 0 and the status "" have empty   *)
(* values, which parseInt32Value / parseStringValue turn into null; what   *)
(* becomes of any other row is Decoded (a user_id below -8 loses its high  *)
(* bits, a status of 128 bytes or more is cut in the wrong place).         *)
(***************************************************************************)
EXTENDS Integers, Sequences, FiniteSets

CONSTANTS
    Keys,          \* order_id values
    Rows,          \* contents of a row: user_id and status
    Databases,     \* the databases startStreaming can name
    ZeroUser,      \* the rows whose user_id is 0
    EmptyStatus,   \* the rows whose status is the empty string
    NoRow,         \* no row with this order_id
    Decoded,       \* the row the decoder makes of a row; NoRow: one the target refuses
    Seed,          \* bound: the tables each database may hold at the start
    MaxWal,        \* bound on the changes of each database
    MaxBatch,      \* bound on the records of one delivery
    Budget         \* bound on the starts, connection losses, ... of a behaviour

BudgetKinds == {"start", "loss", "sql", "clear", "reset"}

ASSUME PipelineAssumption ==
    /\ ZeroUser \subseteq Rows /\ EmptyStatus \subseteq Rows
    /\ NoRow \notin Rows
    /\ Databases # {}
    /\ Decoded \in [Rows \cup {NoRow} -> Rows \cup {NoRow}] /\ Decoded[NoRow] = NoRow
    /\ Seed \in [Databases -> SUBSET [Keys -> Rows \cup {NoRow}]]
    /\ MaxWal \in [Databases -> Nat] /\ MaxBatch \in Nat \ {0}
    /\ Budget \in [BudgetKinds -> Nat]

VARIABLES
    wal,        \* wal[d]: the write-ahead log of database d, a sequence of changes
    hist,       \* hist[d][i + 1]: the table of database d after i changes
    job,        \* the proxy's CDC job the service started last
    batch,      \* records the consumer has received and not yet processed
    counted,    \* the consumer is between totalEvents++ and the rest of Head(batch)
    target,     \* the target table
    count,      \* totalEvents, insertCount, updateCount, deleteCount
    shown,      \* number of cdcEvent broadcasts
    reset,      \* statements resetStatistics has executed (0: not running)
    unknown,    \* history variable: records of unknown type since totalEvents was 0
    raced,      \* history variable: events that were in work while the last reset ran
    damaged,    \* history variable: keys for which an event had no effect (below)
    budget      \* what is left of Budget

svars == <<wal, hist>>
cvars == <<count, shown, reset, unknown, raced>>
vars == <<wal, hist, job, batch, counted, target, count, shown, reset, unknown, raced,
          damaged, budget>>

MaybeRow == Rows \cup {NoRow}
Table == [Keys -> MaybeRow]
DML == {"INSERT", "UPDATE", "DELETE"}
Ops == DML \cup {"UNKNOWN"}
Counters == DML \cup {"total"}

\* A change of a database, and the same as a record of job number `job`; `at` is
\* its place in the log, 0 for a row of the initial snapshot.
Change == [op : Ops, key : Keys, row : MaybeRow]
Record == [job : Nat, at : Nat, op : Ops, key : Keys, row : MaybeRow]

\* phase "prepared": the log position `from` is fixed, the snapshot not yet read;
\* "inventory": snapshot rows in `inv` still to be sent; "incremental": changes
\* after `sent` still to be sent; "lost": the retries are used up, and the service
\* still says that it is streaming.
Phases == {"none", "prepared", "inventory", "incremental", "lost"}
Job == [id : Nat, db : Databases, phase : Phases, from : Nat, sent : Nat, inv : Table]

EmptyTable == [k \in Keys |-> NoRow]
Now(d) == hist[d][Len(hist[d])]

\* The log, the history and the present table of the database the job reads.
log == wal[job.db]
past == hist[job.db]
source == Now(job.db)

Spend(b) == /\ budget[b] > 0
            /\ budget' = [budget EXCEPT ![b] = @ - 1]

TypeOK ==
    /\ wal \in [Databases -> Seq(Change)]
    /\ hist \in [Databases -> Seq(Table)]
    /\ job \in Job
    /\ batch \in Seq(Record)
    /\ counted \in BOOLEAN
    /\ target \in Table
    /\ count \in [Counters -> Nat]
    /\ shown \in Nat
    /\ reset \in 0..3
    /\ unknown \in Nat /\ raced \in Nat
    /\ damaged \in SUBSET Keys
    /\ budget \in [BudgetKinds -> Nat]

Init ==
    /\ wal = [d \in Databases |-> <<>>]
    /\ \E seed \in [Databases -> UNION {Seed[d] : d \in Databases}] :
          /\ \A d \in Databases : seed[d] \in Seed[d]
          /\ hist = [d \in Databases |-> <<seed[d]>>]
    /\ job = [id |-> 0, db |-> CHOOSE d \in Databases : TRUE, phase |-> "none",
              from |-> 0, sent |-> 0, inv |-> EmptyTable]
    /\ batch = <<>> /\ counted = FALSE
    /\ target = EmptyTable
    /\ count = [c \in Counters |-> 0] /\ shown = 0 /\ reset = 0
    /\ unknown = 0 /\ raced = 0
    /\ damaged = {}
    /\ budget = Budget

-----------------------------------------------------------------------------
(* The databases (external): a committed change is appended to the log.    *)

Write(d, op, k, row) ==
    /\ Len(wal[d]) < MaxWal[d]
    /\ wal' = [wal EXCEPT ![d] = Append(@, [op |-> op, key |-> k, row |-> row])]
    /\ hist' = [hist EXCEPT ![d] = Append(@, [Now(d) EXCEPT ![k] = row])]
    /\ UNCHANGED <<job, batch, counted, target, cvars, damaged, budget>>

SourceInsert(d, k, r) == Now(d)[k] = NoRow /\ Write(d, "INSERT", k, r)
SourceUpdate(d, k, r) == Now(d)[k] # NoRow /\ Write(d, "UPDATE", k, r)
SourceDelete(d, k) == Now(d)[k] # NoRow /\ Write(d, "DELETE", k, NoRow)

\* A change whose record has a type processCDCEvent has no case for; it leaves the row.
SourceOther(d, k) == Write(d, "UNKNOWN", k, Now(d)[k])

-----------------------------------------------------------------------------
(* The proxy's job (external) and the service's use of it.                 *)

\* What the service believes (isStreaming), and whether records still come.
Streaming == job.phase # "none"
Live == job.phase \in {"prepared", "inventory", "incremental"}

\* Keys of records still in the consumer's hands.
InHand == {batch[i].key : i \in DOMAIN batch}

\* Mutant: the job's position is one change too early.
StartStreamingEarly(d) ==
    /\ ~Streaming
    /\ Spend("start")
    /\ job' = [id |-> job.id + 1, db |-> d, phase |-> "prepared", from |-> Len(wal[d]) - 1,
               sent |-> Len(wal[d]) - 1, inv |-> EmptyTable]
    /\ damaged' = {k \in Keys : target[k] \notin {NoRow, Now(d)[k]}} \cup InHand
    /\ UNCHANGED <<svars, batch, counted, target, cvars>>

\* startStreaming(database) when connected and not streaming: a new job with full =
\* true.  Nothing is done to the target, whatever it holds of another database, and
\* records of an earlier job that are still in hand will still be applied.
StartStreaming(d) ==
    /\ ~Streaming
    /\ Spend("start")
    /\ job' = [id |-> job.id + 1, db |-> d, phase |-> "prepared", from |-> Len(wal[d]),
               sent |-> Len(wal[d]), inv |-> EmptyTable]
    /\ damaged' = {k \in Keys : target[k] \notin {NoRow, Now(d)[k]}} \cup InHand
    /\ UNCHANGED <<svars, batch, counted, target, cvars>>

\* stopStreaming(): the job is dropped; the batch in hand is not.
StopStreaming ==
    /\ Streaming
    /\ job' = [job EXCEPT !.phase = "none", !.inv = EmptyTable]
    /\ UNCHANGED <<svars, batch, counted, target, cvars, damaged, budget>>

\* The job reads its snapshot, some time after it fixed its log position.
ReadInventory ==
    /\ job.phase = "prepared"
    /\ job' = [job EXCEPT !.phase = "inventory", !.inv = source]
    /\ UNCHANGED <<svars, batch, counted, target, cvars, damaged, budget>>

\* The next delivery: once the consumer has returned from the previous one, the
\* job sends one or several snapshot rows ...
DeliverInventory(ks) ==
    /\ job.phase = "inventory" /\ batch = <<>>
    /\ batch' = [i \in DOMAIN ks |-> [job |-> job.id, at |-> 0, op |-> "INSERT",
                                      key |-> ks[i], row |-> job.inv[ks[i]]]]
    /\ job' = [job EXCEPT !.inv = [k \in Keys |-> IF \E i \in DOMAIN ks : ks[i] = k
                                                  THEN NoRow ELSE @[k]]]
    /\ UNCHANGED <<svars, counted, target, cvars, damaged, budget>>

FinishInventory ==
    /\ job.phase = "inventory" /\ batch = <<>> /\ job.inv = EmptyTable
    /\ job' = [job EXCEPT !.phase = "incremental"]
    /\ UNCHANGED <<svars, batch, counted, target, cvars, damaged, budget>>

\* ... and then the n changes that follow in the log.
DeliverChanges(n) ==
    /\ job.phase = "incremental" /\ batch = <<>>
    /\ job.sent + n <= Len(log)
    /\ batch' = [i \in 1..n |->
                    [job |-> job.id, at |-> job.sent + i, op |-> log[job.sent + i].op,
                     key |-> log[job.sent + i].key, row |-> log[job.sent + i].row]]
    /\ job' = [job EXCEPT !.sent = @ + n]
    /\ UNCHANGED <<svars, counted, target, cvars, damaged, budget>>

\* Mutant: the stream is resumed one change too far.
ConnectionLostAhead ==
    /\ Live
    /\ Spend("loss")
    /\ IF job.phase = "incremental"
       THEN \E p \in job.from..job.sent + 1 : job' = [job EXCEPT !.sent = p]
       ELSE job' = [job EXCEPT !.phase = "prepared", !.inv = EmptyTable]
    /\ UNCHANGED <<svars, batch, counted, target, cvars, damaged>>

\* The connection is lost and the retry handler restores it within its attempts.
\* The proxy resumes from the progress it stored last: anywhere from the start of
\* the phase up to what it had sent.  The consumer finishes the batch in hand.
ConnectionLost ==
    /\ Live
    /\ Spend("loss")
    /\ IF job.phase = "incremental"
       THEN \E p \in job.from..job.sent : job' = [job EXCEPT !.sent = p]
       ELSE job' = [job EXCEPT !.phase = "prepared", !.inv = EmptyTable]
    /\ UNCHANGED <<svars, batch, counted, target, cvars, damaged>>

\* The handler has used up its 5 attempts: nothing comes any more, and nobody tells
\* the service.
GiveUp ==
    /\ Live
    /\ Spend("loss")
    /\ job' = [job EXCEPT !.phase = "lost", !.inv = EmptyTable]
    /\ UNCHANGED <<svars, batch, counted, target, cvars, damaged>>

-----------------------------------------------------------------------------
(* The consumer: processCDCRecords calls processIndividualRecord on each    *)
(* record of the batch; every exception ends in a log line.                *)

\* processCDCEvent, first statement: totalEvents.incrementAndGet().
CountEvent ==
    /\ batch # <<>> /\ ~counted
    /\ counted' = TRUE
    /\ count' = [count EXCEPT !["total"] = @ + 1]
    /\ raced' = IF reset = 0 THEN raced ELSE raced + 1
    /\ UNCHANGED <<svars, job, batch, target, shown, reset, unknown, damaged, budget>>

\* Mutant: the statement is bound to the last order_id of the batch.
WhereLast(rec) == batch[Len(batch)].key

\* The target row a statement touches: WHERE order_id = ? (the conflicting key of
\* the INSERT), bound to the record's own order_id.
Where(rec) == rec.key

\* What the JDBC statement of applyInsert / applyUpdate / applyDelete makes of the
\* target's row: INSERT ... ON CONFLICT DO NOTHING, UPDATE and DELETE by order_id; a
\* type without a case has no statement.
Applied(rec, old) ==
    CASE rec.op = "INSERT" -> IF old = NoRow THEN Decoded[rec.row] ELSE old
      [] rec.op = "UPDATE" -> IF old = NoRow THEN NoRow ELSE Decoded[rec.row]
      [] rec.op = "DELETE" -> NoRow
      [] rec.op = "UNKNOWN" -> old

\* applyUpdate unboxes a null user_id: the exception leaves processCDCEvent
\* before the broadcast.
Throws(rec) == rec.op = "UPDATE" /\ rec.row \in ZeroUser

\* A row that has no effect: applyInsert returns on a null user_id; a null status
\* violates the target's NOT NULL in applyUpdate (applyInsert replaces it by ""); and
\* a status may have become too long for its column.
Undecodable(rec) ==
    \/ /\ rec.op \in {"INSERT", "UPDATE"}
       /\ rec.row \in ZeroUser \/ Decoded[rec.row] = NoRow
    \/ rec.op = "UPDATE" /\ rec.row \in EmptyStatus

\* A row that is decoded to another one.
Misread(rec) == rec.op \in {"INSERT", "UPDATE"} /\ Decoded[rec.row] # rec.row

\* Mutant: no catch around the single record, so an exception drops the batch.
DropBatch(rec) == IF Throws(rec) THEN <<>> ELSE Tail(batch)

\* What is left of the batch after rec: processIndividualRecord catches whatever rec
\* raised, so the loop of processCDCRecords goes on with the next record.
NextRecords(rec) == Tail(batch)

\* The rest of processCDCEvent for the record at the head of the batch; `fails`
\* says that the target database raised an SQLException, which applyX swallows.
ApplyEvent(fails) ==
    LET rec  == Head(batch)
        lost == fails \/ Undecodable(rec)
        k    == Where(rec)
        new  == IF lost THEN target[k] ELSE Applied(rec, target[k])
    IN  /\ batch # <<>> /\ counted
        /\ fails => rec.op \in DML
        /\ IF fails THEN Spend("sql") ELSE UNCHANGED budget
        /\ target' = [target EXCEPT ![k] = new]
        /\ IF rec.op \in DML
           THEN count' = [count EXCEPT ![rec.op] = @ + 1] /\ UNCHANGED unknown
           ELSE unknown' = unknown + 1 /\ UNCHANGED count
        /\ shown' = IF Throws(rec) THEN shown ELSE shown + 1
        /\ batch' = NextRecords(rec)
        /\ counted' = FALSE
        /\ damaged' = IF lost \/ Misread(rec) THEN damaged \cup {rec.key}
                      ELSE IF rec.job = job.id /\ new = rec.row THEN damaged \ {rec.key}
                      ELSE damaged
        /\ UNCHANGED <<svars, job, reset, raced>>

-----------------------------------------------------------------------------
(* Requests of the user interface that act on the same state.              *)

\* clearTargetData(): DELETE FROM t_order on the target, streaming or not.
ClearTarget ==
    /\ Spend("clear")
    /\ target' = EmptyTable
    /\ damaged' = damaged \cup {k \in Keys : target[k] # NoRow}
    /\ UNCHANGED <<svars, job, batch, counted, cvars>>

\* Events between totalEvents++ and the end of processCDCEvent: the consumer has one
\* thread.
InWork == IF counted THEN 1 ELSE 0

\* Mutant: a counter is forgotten.
ResetForgetting == <<"total", "INSERT", "UPDATE", "UPDATE">>

\* resetStatistics(): four separate stores, in this order.
ResetOrder == <<"total", "INSERT", "UPDATE", "DELETE">>

\* One of them.  Bound: one request at a time.
ResetStatistics ==
    /\ IF reset = 0 THEN /\ Spend("reset")
                         /\ unknown' = 0 /\ raced' = InWork
                    ELSE UNCHANGED <<unknown, raced, budget>>
    /\ count' = [count EXCEPT ![ResetOrder[reset + 1]] = 0]
    /\ reset' = (reset + 1) % 4
    /\ UNCHANGED <<svars, job, batch, counted, target, shown, damaged>>

-----------------------------------------------------------------------------
Source == \E d \in Databases, k \in Keys :
              \/ \E r \in Rows : SourceInsert(d, k, r) \/ SourceUpdate(d, k, r)
              \/ SourceDelete(d, k) \/ SourceOther(d, k)

\* The snapshot rows still to send, in one-element or longer deliveries.
Remaining == {k \in Keys : job.inv[k] # NoRow}
Deliveries == UNION {{s \in [1..n -> Remaining] : \A i, j \in 1..n : s[i] = s[j] => i = j}
                        : n \in 1..MaxBatch}

Deliver == \/ ReadInventory
           \/ \E ks \in Deliveries : DeliverInventory(ks)
           \/ FinishInventory
           \/ \E n \in 1..MaxBatch : DeliverChanges(n)

Consume == CountEvent \/ \E fails \in BOOLEAN : ApplyEvent(fails)

Next ==
    \/ Source
    \/ (\E d \in Databases : StartStreaming(d)) \/ StopStreaming
    \/ Deliver \/ ConnectionLost \/ GiveUp
    \/ Consume
    \/ ClearTarget \/ ResetStatistics

\* The job's and the consumer's threads keep running; users owe nothing.
Fairness == WF_vars(Deliver) /\ WF_vars(Consume)

Spec == Init /\ [][Next]_vars
FairSpec == Spec /\ Fairness

-----------------------------------------------------------------------------
(* Properties.                                                             *)

\* Everything the job has to send has been sent and processed.
CaughtUp == job.phase = "incremental" /\ batch = <<>> /\ job.sent = Len(log)

\* When the stream is caught up, the target row of every key equals that of the
\* database it streams, except for keys whose last event was lost or misread (a
\* swallowed SQLException, a value the decoder turns to null or to another one, rows
\* removed by hand) or that the target held with other contents, or had events in
\* hand, when streaming was started.  It rests on ON CONFLICT DO NOTHING
\* (applyInsert) tolerating both the overlap of snapshot and log and redelivery.
TargetMatchesSource ==
    CaughtUp => \A k \in Keys \ damaged : target[k] = source[k]

\* What the stream makes of a row that a database had under this key at some time.
Streamed(k, r) == \E d \in Databases : \E i \in DOMAIN hist[d] : r = Decoded[hist[d][i][k]]

\* The target holds nothing else: no mixture of fields, no row under another key, and
\* no wrong row but those the decoder makes, whatever is lost, replayed or restarted
\* with another database.
NothingInvented == \A k \in Keys : target[k] = NoRow \/ Streamed(k, target[k])

\* The counters agree but for the races of a reset: totalEvents is the sum of the
\* events of each type, those of unknown type, which have no counter, and the one in
\* work; a reset puts the two apart by no more than the events that were in work
\* while it ran.  Without one, no more is broadcast than is counted.
CountersAgree ==
    LET byType == count["INSERT"] + count["UPDATE"] + count["DELETE"] + unknown
    IN  /\ reset = 0 => /\ count["total"] <= byType + InWork + raced
                        /\ byType + InWork <= count["total"] + raced
        /\ budget["reset"] = Budget["reset"] => raced = 0 /\ shown <= byType

\* What CDC-INCREMENTAL-SYNC-POC.md:269 promises, "100% data consistency between source
\* and target for all DML operations", of a stream that has caught up.
SourceAndTargetAgree == CaughtUp => target = source

\* A job that is not stopped, and whose connection the retry handler restores,
\* catches up, whatever is lost and redelivered: the consumer swallows every
\* exception, so no record blocks the ones behind it.
StreamCatchesUp == Live ~> (CaughtUp \/ ~Live)
=============================================================================
