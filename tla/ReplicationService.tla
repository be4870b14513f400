------------------------- MODULE ReplicationService -------------------------
(***************************************************************************)
(* ReplicationService: the write and the read database, the copying of one *)
(* to the other by requests and by a timer every five seconds, the swap of *)
(* their roles, and inserts into the write database.                       *)
(*                                                                         *)
(* Requests are served by concurrent threads and every executor has a      *)
(* thread of its own; no method synchronises.  A step is one access to a   *)
(* shared field or one statement on a database.  The credentials that are  *)
(* swapped with the URLs are the same for both databases and left out.     *)
(***************************************************************************)
EXTENDS Integers, FiniteSets

CONSTANTS
    Clients,     \* threads that serve requests
    Timers,      \* executors enableReplication can create, each with its thread
    NoTimer,     \* replicationExecutor = null
    MaxId,       \* bound on order_id
    Budget       \* bound on the requests and failures of a behaviour

BudgetKinds == {"enable", "disable", "sync", "switch", "insert", "proxy", "sql"}

ASSUME ReplicationAssumption ==
    /\ Clients \cap Timers = {}
    /\ NoTimer \notin Timers
    /\ MaxId \in Nat \ {0}
    /\ Budget \in [BudgetKinds -> Nat]

VARIABLES
    table,       \* table[d]: the rows of t_order in database d
    seq,         \* seq[d]: what t_order_order_id_seq of d yields next
    writeUrl,    \* writeDbUrl
    readUrl,     \* readDbUrl
    enabled,     \* replicationEnabled
    executor,    \* replicationExecutor
    timer,       \* state of each executor and its periodic task
    th,          \* the threads: where they are, what follows, local variables
    issued,      \* number of contents written so far: every write is a new one
    acked,       \* history variable: inserts that succeeded, minus what the proxy changed
    collided,    \* history variable: an insert failed on a duplicate key
    unreset,     \* history variable: a resetSequence failed, which is only logged
    overtaken,   \* history variable: a row came in between the halves of a resetSequence
    risky,       \* history variable: a switch began or went on in an unsafe situation
    budget       \* what is left of Budget

dbvars == <<table, seq>>
urls == <<writeUrl, readUrl>>
onoff == <<enabled, executor, timer>>
inserts == <<issued, acked, collided, unreset, overtaken>>
vars == <<table, seq, writeUrl, readUrl, enabled, executor, timer, th, issued, acked,
          collided, unreset, overtaken, risky, budget>>

Dbs == {"postgres_write", "postgres_read"}
Threads == Clients \cup Timers
Row == [id : 1..MaxId, content : Nat]
Ids(rows) == {r.id : r \in rows}
Contents(rows) == {r.content : r \in rows}

\* Mutant: MAX(order_id) without the + 1.
MaxUsedId(rows) == CHOOSE n \in 0..MaxId : /\ n = 0 \/ n \in Ids(rows)
                                           /\ \A i \in Ids(rows) : i <= n

\* MAX(order_id) + 1, with COALESCE(..., 0) of an empty table.
NextId(rows) == CHOOSE n \in 1..MaxId + 1 :
                    /\ n = 1 \/ n - 1 \in Ids(rows)
                    /\ \A i \in Ids(rows) : i < n

SyncPcs == {"check", "openWrite", "select", "openRead", "delete", "insert"}
EnablePcs == {"enableSet", "create", "schedule"}
DisablePcs == {"disableSet", "shutdown"}
SwitchPcs == {"switchWrite", "switchRead"}
InsertPcs == {"resetMax", "resetSetval", "insertRow"}
Pcs == {"idle"} \cup SyncPcs \cup EnablePcs \cup DisablePcs \cup SwitchPcs \cup InsertPcs

\* `after`: where the thread goes when its sync returns; src, dst: databases it has
\* a connection to or has copied into a local variable; rows: writeData; id: the
\* value for setval.
Thread == [pc : Pcs, after : {"idle", "create"}, src : Dbs, dst : Dbs,
           rows : SUBSET Row, id : 1..MaxId + 1]

Idle == [pc |-> "idle", after |-> "idle", src |-> "postgres_write",
         dst |-> "postgres_read", rows |-> {}, id |-> 1]

TimerStates == {"none", "created", "scheduled", "cancelled", "shutdown"}

At(t, pc) == th[t].pc = pc
Goto(t, pc) == th' = [th EXCEPT ![t].pc = pc]
Return(t) == th' = [th EXCEPT ![t] = Idle]

\* A sync returns to its caller; its local variables are gone.
SyncReturns(t) == th' = [th EXCEPT ![t] = [Idle EXCEPT !.pc = th[t].after]]

\* An exception leaves the service: a request answers 500, a periodic task is
\* never run again.
Raise(t) ==
    /\ Return(t)
    /\ timer' = IF t \in Timers /\ timer[t] = "scheduled"
                THEN [timer EXCEPT ![t] = "cancelled"] ELSE timer

Spend(b) == /\ budget[b] > 0
            /\ budget' = [budget EXCEPT ![b] = @ - 1]

Switching == \E c \in Clients : th[c].pc \in SwitchPcs

\* A free thread takes a request of kind b; while databases are being switched, that
\* is unsafe.
Begin(c, b) ==
    /\ At(c, "idle")
    /\ Spend(b)
    /\ risky' = (risky \/ Switching)

TypeOK ==
    /\ table \in [Dbs -> SUBSET Row]
    /\ \A d \in Dbs : \A r1, r2 \in table[d] : r1.id = r2.id => r1 = r2
    /\ seq \in [Dbs -> 1..MaxId + 1]
    /\ writeUrl \in Dbs /\ readUrl \in Dbs
    /\ enabled \in BOOLEAN
    /\ executor \in Timers \cup {NoTimer}
    /\ timer \in [Timers -> TimerStates]
    /\ th \in [Threads -> Thread]
    /\ issued \in Nat /\ acked \in SUBSET Nat
    /\ collided \in BOOLEAN /\ unreset \in BOOLEAN /\ overtaken \in BOOLEAN
    /\ risky \in BOOLEAN
    /\ budget \in [BudgetKinds -> Nat]

\* The write database is empty or holds one row, of which the read database may
\* have a copy.
Init ==
    /\ \E rows \in {{}, {[id |-> 1, content |-> 0]}} :
          /\ seq = [d \in Dbs |-> IF d = "postgres_write" /\ rows # {} THEN 2 ELSE 1]
          /\ \E copy \in {{}, rows} :
                table = [d \in Dbs |-> IF d = "postgres_write" THEN rows ELSE copy]
    /\ writeUrl = "postgres_write" /\ readUrl = "postgres_read"
    /\ enabled = FALSE /\ executor = NoTimer
    /\ timer = [x \in Timers |-> "none"]
    /\ th = [t \in Threads |-> Idle]
    /\ issued = 0 /\ acked = {} /\ collided = FALSE
    /\ unreset = FALSE /\ overtaken = FALSE /\ risky = FALSE
    /\ budget = Budget

-----------------------------------------------------------------------------
(* performSync, by whichever thread.                                       *)

\* syncWriteToRead: only if replication is enabled.
Check(t) ==
    /\ At(t, "check")
    /\ IF enabled THEN Goto(t, "openWrite") ELSE SyncReturns(t)
    /\ UNCHANGED <<dbvars, urls, onoff, inserts, risky, budget>>

OpenWrite(t) ==
    /\ At(t, "openWrite")
    /\ th' = [th EXCEPT ![t].pc = "select", ![t].src = writeUrl]
    /\ UNCHANGED <<dbvars, urls, onoff, inserts, risky, budget>>

Select(t) ==
    /\ At(t, "select")
    /\ th' = [th EXCEPT ![t].pc = "openRead", ![t].rows = table[th[t].src]]
    /\ UNCHANGED <<dbvars, urls, onoff, inserts, risky, budget>>

OpenRead(t) ==
    /\ At(t, "openRead")
    /\ th' = [th EXCEPT ![t].pc = "delete", ![t].dst = readUrl]
    /\ UNCHANGED <<dbvars, urls, onoff, inserts, risky, budget>>

\* Mutant: nothing is deleted when there is nothing to copy.
DeleteUnlessEmpty(t) ==
    /\ At(t, "delete")
    /\ table' = IF th[t].rows = {} THEN table ELSE [table EXCEPT ![th[t].dst] = {}]
    /\ Goto(t, "insert")
    /\ UNCHANGED <<seq, urls, onoff, inserts, risky, budget>>

\* DELETE FROM t_order, committed at once.
Delete(t) ==
    /\ At(t, "delete")
    /\ table' = [table EXCEPT ![th[t].dst] = {}]
    /\ Goto(t, "insert")
    /\ UNCHANGED <<seq, urls, onoff, inserts, risky, budget>>

\* The batch of inserts: all of it, or an exception and nothing.
Insert(t) ==
    LET new == th[t].rows  old == table[th[t].dst] IN
    /\ At(t, "insert")
    /\ \/ /\ Ids(new) \cap Ids(old) = {}
          /\ table' = [table EXCEPT ![th[t].dst] = old \cup new]
          /\ SyncReturns(t)
          /\ UNCHANGED timer
       \/ /\ Ids(new) \cap Ids(old) # {}
          /\ Raise(t)
          /\ UNCHANGED table
    /\ UNCHANGED <<seq, urls, enabled, executor, inserts, risky, budget>>

\* One of the statements, or a connection, fails: RuntimeException.
SyncFails(t) ==
    /\ th[t].pc \in {"openWrite", "select", "openRead", "delete", "insert"}
    /\ Spend("sql")
    /\ Raise(t)
    /\ UNCHANGED <<dbvars, urls, enabled, executor, inserts, risky>>

Sync(t) == \/ Check(t) \/ OpenWrite(t) \/ Select(t) \/ OpenRead(t)
           \/ Delete(t) \/ Insert(t) \/ SyncFails(t)

\* The periodic task's next run.
Tick(x) ==
    /\ timer[x] = "scheduled" /\ At(x, "idle")
    /\ Goto(x, "check")
    /\ UNCHANGED <<dbvars, urls, onoff, inserts, risky, budget>>

\* manualSync(): performSync, enabled or not.
ManualSync(c) ==
    /\ Begin(c, "sync")
    /\ Goto(c, "openWrite")
    /\ UNCHANGED <<dbvars, urls, onoff, inserts>>

-----------------------------------------------------------------------------
(* enableReplication and disableReplication; without effect, and left out,  *)
(* when the flag already has the value.                                    *)

Enable(c) ==
    /\ Begin(c, "enable") /\ ~enabled
    /\ Goto(c, "enableSet")
    /\ UNCHANGED <<dbvars, urls, onoff, inserts>>

EnableSet(c) ==
    /\ At(c, "enableSet")
    /\ enabled' = TRUE
    /\ th' = [th EXCEPT ![c].pc = "check", ![c].after = "create"]
    /\ UNCHANGED <<dbvars, urls, executor, timer, inserts, risky, budget>>

\* Once the first sync has returned.
Create(c) ==
    /\ At(c, "create")
    /\ \E x \in Timers : /\ timer[x] = "none"
                         /\ executor' = x
                         /\ timer' = [timer EXCEPT ![x] = "created"]
    /\ Goto(c, "schedule")
    /\ UNCHANGED <<dbvars, urls, enabled, inserts, risky, budget>>

\* scheduleAtFixedRate on what the field holds now: an exception when that is null
\* or has been shut down.
Schedule(c) ==
    /\ At(c, "schedule")
    /\ timer' = IF executor \in Timers /\ timer[executor] = "created"
                THEN [timer EXCEPT ![executor] = "scheduled"] ELSE timer
    /\ Return(c)
    /\ UNCHANGED <<dbvars, urls, enabled, executor, inserts, risky, budget>>

Disable(c) ==
    /\ Begin(c, "disable") /\ enabled
    /\ Goto(c, "disableSet")
    /\ UNCHANGED <<dbvars, urls, onoff, inserts>>

DisableSet(c) ==
    /\ At(c, "disableSet")
    /\ enabled' = FALSE
    /\ Goto(c, "shutdown")
    /\ UNCHANGED <<dbvars, urls, executor, timer, inserts, risky, budget>>

\* Mutant: the executor is forgotten but not shut down.
ShutdownForgotten(c) ==
    /\ At(c, "shutdown")
    /\ executor' = NoTimer
    /\ Return(c)
    /\ UNCHANGED <<dbvars, urls, enabled, timer, inserts, risky, budget>>

\* shutdownNow() starts no further run; a sync that is running goes on, as no
\* statement of it notices the interrupt.
Shutdown(c) ==
    /\ At(c, "shutdown")
    /\ timer' = IF executor \in Timers THEN [timer EXCEPT ![executor] = "shutdown"]
                ELSE timer
    /\ executor' = NoTimer
    /\ Return(c)
    /\ UNCHANGED <<dbvars, urls, enabled, inserts, risky, budget>>

EnableDisable(c) == \/ Enable(c) \/ EnableSet(c) \/ Create(c) \/ Schedule(c)
                    \/ Disable(c) \/ DisableSet(c) \/ Shutdown(c)

-----------------------------------------------------------------------------
(* switchDatabases: three assignments, then a sync if replication is on.   *)

\* Replication is off, nothing else is running and the databases agree.
Safe(c) ==
    /\ ~enabled
    /\ \A t \in Threads \ {c} : At(t, "idle")
    /\ \A d \in Dbs : table[d] = table[writeUrl]

Switch(c) ==
    /\ At(c, "idle")
    /\ Spend("switch")
    /\ th' = [th EXCEPT ![c].pc = "switchWrite", ![c].src = writeUrl]
    /\ risky' = (risky \/ ~Safe(c))
    /\ UNCHANGED <<dbvars, urls, onoff, inserts>>

SwitchWrite(c) ==
    /\ At(c, "switchWrite")
    /\ writeUrl' = readUrl
    /\ Goto(c, "switchRead")
    /\ UNCHANGED <<dbvars, readUrl, onoff, inserts, risky, budget>>

\* Mutant: the swap without a temporary variable.
SwitchWithoutTemp(c) ==
    /\ At(c, "switchRead")
    /\ readUrl' = writeUrl
    /\ Goto(c, "check")
    /\ UNCHANGED <<dbvars, writeUrl, onoff, inserts, risky, budget>>

SwitchRead(c) ==
    /\ At(c, "switchRead")
    /\ readUrl' = th[c].src
    /\ Goto(c, "check")
    /\ UNCHANGED <<dbvars, writeUrl, onoff, inserts, risky, budget>>

SwitchDatabases(c) == Switch(c) \/ SwitchWrite(c) \/ SwitchRead(c)

-----------------------------------------------------------------------------
(* insertToWriteDb: connect, resetSequence, INSERT.                        *)

InsertToWriteDb(c) ==
    /\ Begin(c, "insert")
    /\ th' = [th EXCEPT ![c].pc = "resetMax", ![c].src = writeUrl]
    /\ UNCHANGED <<dbvars, urls, onoff, inserts>>

\* resetSequence reads the URL again; its statement first reads the maximum ...
ResetMax(c) ==
    /\ At(c, "resetMax")
    /\ th' = [th EXCEPT ![c].pc = "resetSetval", ![c].dst = writeUrl,
                        ![c].id = NextId(table[writeUrl])]
    /\ UNCHANGED <<dbvars, urls, onoff, inserts, risky, budget>>

\* Mutant: no resetSequence before the insert.
ResetSkipped(c) ==
    /\ At(c, "resetSetval")
    /\ Goto(c, "insertRow")
    /\ UNCHANGED <<dbvars, urls, onoff, inserts, risky, budget>>

\* ... and then sets the sequence; a failure is only logged.
ResetSetval(c) ==
    /\ At(c, "resetSetval")
    /\ \/ seq' = [seq EXCEPT ![th[c].dst] = th[c].id] /\ UNCHANGED <<unreset, budget>>
       \/ Spend("sql") /\ unreset' = TRUE /\ UNCHANGED seq
    /\ Goto(c, "insertRow")
    /\ UNCHANGED <<table, urls, onoff, issued, acked, collided, overtaken, risky>>

\* The row of a successful INSERT into d, under the key the sequence has yielded.
NewRow(d) ==
    /\ seq[d] \notin Ids(table[d])
    /\ table' = [table EXCEPT ![d] = @ \cup {[id |-> seq[d], content |-> issued + 1]}]
    /\ issued' = issued + 1
    /\ overtaken' = (overtaken \/ \E c \in Clients : At(c, "resetSetval") /\ th[c].dst = d)

\* The sequence advances even if the key is taken.
InsertRow(c) ==
    LET d == th[c].src IN
    /\ At(c, "insertRow")
    /\ seq[d] <= MaxId
    /\ seq' = [seq EXCEPT ![d] = @ + 1]
    /\ \/ NewRow(d) /\ acked' = acked \cup {issued + 1} /\ UNCHANGED collided
       \/ /\ seq[d] \in Ids(table[d]) /\ collided' = TRUE
          /\ UNCHANGED <<table, issued, acked, overtaken>>
    /\ Return(c)
    /\ UNCHANGED <<urls, onoff, unreset, risky, budget>>

InsertFails(c) ==
    /\ At(c, "insertRow")
    /\ Spend("sql")
    /\ Return(c)
    /\ UNCHANGED <<dbvars, urls, onoff, inserts, risky>>

Insertion(c) == \/ InsertToWriteDb(c) \/ ResetMax(c) \/ ResetSetval(c)
                \/ InsertRow(c) \/ InsertFails(c)

\* The write database of the first configuration is also the storage of the proxy's
\* sharding_db: the generator updates and deletes its rows there.
ProxyWrite(r, new) ==
    /\ r \in table["postgres_write"]
    /\ new \in {{}, {[id |-> r.id, content |-> issued + 1]}}
    /\ Spend("proxy")
    /\ table' = [table EXCEPT !["postgres_write"] = (@ \ {r}) \cup new]
    /\ issued' = issued + Cardinality(new)
    /\ acked' = acked \ {r.content}
    /\ UNCHANGED <<seq, urls, onoff, th, collided, unreset, overtaken, risky>>

\* It also inserts rows there, with keys from the same sequence; a duplicate key ends
\* the generator's request, or is logged.
ProxyInsert ==
    LET d == "postgres_write" IN
    /\ seq[d] <= MaxId
    /\ Spend("proxy")
    /\ seq' = [seq EXCEPT ![d] = @ + 1]
    /\ \/ NewRow(d)
       \/ seq[d] \in Ids(table[d]) /\ UNCHANGED <<table, issued, overtaken>>
    /\ UNCHANGED <<urls, onoff, th, acked, collided, unreset, risky>>

-----------------------------------------------------------------------------
Timed(x) == Tick(x) \/ Sync(x)
Request(c) == Sync(c) \/ ManualSync(c) \/ EnableDisable(c) \/ SwitchDatabases(c) \/ Insertion(c)

Proxy ==
    \/ \E r \in table["postgres_write"] :
          \E new \in {{}, {[id |-> r.id, content |-> issued + 1]}} : ProxyWrite(r, new)
    \/ ProxyInsert

Next ==
    \/ \E x \in Timers : Timed(x)
    \/ \E c \in Clients : Request(c)
    \/ Proxy

\* Threads run; an executor runs its task every five seconds.  Nobody has to
\* make a request, but one that was made is served.
Started(c) == ~At(c, "idle") /\ Request(c)
Fairness == /\ \A x \in Timers : WF_vars(Timed(x))
            /\ \A c \in Clients : WF_vars(Started(c))

Spec == Init /\ [][Next]_vars
FairSpec == Spec /\ Fairness

-----------------------------------------------------------------------------
(* Properties.                                                             *)

\* Whatever syncs, timers, enabling and failures run between, an acknowledged insert
\* stays in the write database as long as the databases are only ever switched with
\* replication off, nothing running and equal contents.
SafeSwitchLosesNothing ==
    ~risky /\ ~Switching => acked \subseteq Contents(table[writeUrl])

\* As long as every switch was safe, every resetSequence worked and no row came in
\* between its two halves, inserts keep off the keys that the copying and the generator
\* have brought along, whatever syncs, timers and other inserts run between.
InsertsNeverCollide == ~risky /\ ~unreset /\ ~overtaken => ~collided

\* Requests made one after the other never leave two periodic tasks, nor one that
\* replicationExecutor does not refer to, whatever fails in between.
OneTimer == \A x \in Timers : timer[x] = "scheduled" => executor = x

Alive == enabled /\ executor \in Timers /\ timer[executor] = "scheduled"

\* As long as the periodic task lives the databases come to agree, whatever switches,
\* overlapping syncs and failed requests have made of them.
TimerHeals == Alive ~> (table[readUrl] = table[writeUrl] \/ ~Alive)

\* READ-WRITE-SPLITTING-POC.md:375, of a switch: "No data loss".  An acknowledged
\* row is in one of the databases.
NoDataLoss == acked \subseteq UNION {Contents(table[d]) : d \in Dbs}

\* READ-WRITE-SPLITTING-POC.md:110: enabled means a sync every 5 seconds.
EnabledMeansTimer == enabled /\ (\A c \in Clients : At(c, "idle")) => Alive
=============================================================================
