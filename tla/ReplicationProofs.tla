-------------------------- MODULE ReplicationProofs --------------------------
(***************************************************************************)
(* Proofs about ReplicationService for every number of clients and timers, *)
(* every bound on the keys and every budget of requests and failures.      *)
(***************************************************************************)
EXTENDS ReplicationService, FiniteSetTheorems, WellFoundedInduction, TLAPS

\* A key stands for one row.
Keyed(rows) == \A r1, r2 \in rows : r1.id = r2.id => r1 = r2

\* What a thread has read to copy is one state of a table.
RowsKeyed == \A t \in Threads : Keyed(th[t].rows)

\* A timer's thread does nothing but syncs, of the periodic task.
TimerThreads == \A x \in Timers : th[x].pc \in {"idle"} \cup SyncPcs /\ th[x].after = "idle"

\* No switch in progress: the databases have different roles, a sync empties and fills
\* the read database only, an insert is on its way into the write database, and the
\* acknowledged rows are there.
Settled ==
    /\ readUrl # writeUrl
    /\ acked \subseteq Contents(table[writeUrl])
    /\ \A t \in Threads : /\ th[t].pc \in {"delete", "insert"} => th[t].dst = readUrl
                          /\ th[t].pc \in InsertPcs => th[t].src = writeUrl

\* c is in the middle of a switch: replication is off, so that the other threads do
\* nothing but look at the flag, and both databases have the acknowledged rows.
InSwitch(c) ==
    /\ ~enabled
    /\ \A t \in Threads \ {c} : \/ th[t].pc = "idle"
                                \/ t \in Timers /\ th[t].pc = "check"
    /\ \A d \in Dbs : acked \subseteq Contents(table[d])
    /\ th[c].src # readUrl
    /\ th[c].pc = "switchWrite" => writeUrl = th[c].src
    /\ th[c].pc = "switchRead" => writeUrl = readUrl

SwitchInv ==
    ~risky => IF Switching THEN \A c \in Clients : th[c].pc \in SwitchPcs => InSwitch(c)
              ELSE Settled

IInv == TypeOK /\ RowsKeyed /\ TimerThreads /\ SwitchInv

\* One request at a time.
OneClient == \A c1, c2 \in Clients : c1 = c2

\* An insert finds the sequence of the write database beyond every key in use.
Beyond(rows, n) == \A r \in rows : r.id < n
SequenceReset(c) ==
    /\ th[c].pc = "resetSetval" =>
          /\ th[c].dst = writeUrl
          /\ ~overtaken => Beyond(table[writeUrl], th[c].id)
    /\ th[c].pc = "insertRow" /\ ~unreset /\ ~overtaken =>
          Beyond(table[writeUrl], seq[writeUrl])
KeyInv == /\ ~risky => \A c \in Clients : SequenceReset(c)
          /\ InsertsNeverCollide

\* Every executor that has a task, or is about to get one, is the one the service
\* knows; whoever is about to create another finds none, and replication on.
ExecutorInv ==
    /\ \A x \in Timers : timer[x] \in {"created", "scheduled"} => executor = x
    /\ ~enabled /\ (\A c \in Clients : th[c].pc # "shutdown") => executor = NoTimer
    /\ \A c \in Clients : /\ th[c].after = "create" => th[c].pc \in SyncPcs
                          /\ th[c].pc = "create" \/ th[c].after = "create"
                                => executor = NoTimer /\ enabled
                          /\ th[c].pc = "enableSet" => executor = NoTimer

-----------------------------------------------------------------------------
(* The operators the model is built from.                                  *)

\* A non-empty set of naturals has a least element.
LEMMA LeastNat ==
    ASSUME NEW S, S \subseteq Nat, S # {}
    PROVE  \E m \in S : \A k \in S : m <= k
  <1>1. PICK m \in S : \A k \in S : ~ (<<k, m>> \in OpToRel(<, Nat))
    BY NatLessThanWellFounded, WFMin, Zenon
  <1>2. \A k \in S : k < m => <<k, m>> \in OpToRel(<, Nat)
    BY DEF OpToRel
  <1>3. \A k \in S : ~(k < m)
    BY <1>1, <1>2
  <1> QED
    BY <1>3

\* MAX(order_id) + 1 exists, is beyond every key, and fits the sequence.
LEMMA NextIdIsBeyond ==
    ASSUME NEW rows, rows \subseteq Row
    PROVE  NextId(rows) \in 1..MaxId + 1 /\ Beyond(rows, NextId(rows))
  <1> DEFINE Above == {n \in 1..MaxId + 1 : \A i \in Ids(rows) : i < n}
             IsNext(n) == /\ n = 1 \/ n - 1 \in Ids(rows)
                          /\ \A i \in Ids(rows) : i < n
  <1>1. MaxId \in Nat /\ Ids(rows) \subseteq 1..MaxId
    BY ReplicationAssumption DEF Ids, Row
  <1>2. MaxId + 1 \in Above /\ Above \subseteq Nat
    BY <1>1
  <1>3. PICK m \in Above : \A k \in Above : m <= k
    BY <1>2, LeastNat, Zenon
  <1>4. m \in 1..MaxId + 1 /\ \A i \in Ids(rows) : i < m
    BY <1>3
  <1>5. ASSUME m # 1, m - 1 \notin Ids(rows) PROVE FALSE
    <2>1. m - 1 \in 1..MaxId + 1 /\ ~(m <= m - 1)
      BY <1>1, <1>4, <1>5
    <2>2. \A i \in Ids(rows) : i < m - 1
      BY <1>1, <1>4, <1>5
    <2> QED
      BY <1>3, <2>1, <2>2
  <1>6. \E n \in 1..MaxId + 1 : IsNext(n)
    BY <1>4, <1>5
  <1>7. NextId(rows) = CHOOSE n \in 1..MaxId + 1 : IsNext(n)
    BY DEF NextId
  <1>8. NextId(rows) \in 1..MaxId + 1 /\ IsNext(NextId(rows))
    BY <1>6, <1>7, Zenon
  <1> QED
    BY <1>8 DEF Beyond, Ids

\* Thread t becomes one with these fields, the others stay what they are.
Becomes(t, pc, after, src, dst, rows, id) ==
    /\ th' \in [Threads -> Thread]
    /\ th'[t].pc = pc /\ th'[t].after = after
    /\ th'[t].src = src /\ th'[t].dst = dst /\ th'[t].rows = rows /\ th'[t].id = id
    /\ \A u \in Threads : u # t => th'[u] = th[u]

\* It goes on with the databases src and dst, or leaves what it was doing.
Goes(t, pc, src, dst) == Becomes(t, pc, th[t].after, src, dst, th[t].rows, th[t].id)
Leaves(t, pc) == Becomes(t, pc, "idle", "postgres_write", "postgres_read", {}, 1)

\* The places a thread can be, by their groups.
LEMMA PcsType ==
    /\ "idle" \in Pcs /\ SyncPcs \subseteq Pcs /\ EnablePcs \subseteq Pcs
    /\ DisablePcs \subseteq Pcs /\ SwitchPcs \subseteq Pcs /\ InsertPcs \subseteq Pcs
  BY DEF Pcs

\* A thread's fields, by its type.
LEMMA ThreadFields ==
    ASSUME TypeOK, NEW t \in Threads
    PROVE  /\ th[t] \in Thread
           /\ th[t].pc \in Pcs /\ th[t].after \in {"idle", "create"} /\ th[t].after \in Pcs
           /\ th[t].src \in Dbs /\ th[t].dst \in Dbs /\ th[t].rows \subseteq Row
           /\ th[t].id \in 1..MaxId + 1
  BY PcsType DEF TypeOK, Thread, EnablePcs

\* How a changed component of the function of threads is read.
LEMMA Becoming ==
    ASSUME TypeOK, NEW t \in Threads, NEW r \in Thread, th' = [th EXCEPT ![t] = r]
    PROVE  Becomes(t, r.pc, r.after, r.src, r.dst, r.rows, r.id)
  BY DEF TypeOK, Becomes

\* What the three ways to move a thread make of it.
LEMMA GotoEffect ==
    ASSUME TypeOK, NEW t \in Threads, NEW p \in Pcs, Goto(t, p)
    PROVE  Goes(t, p, th[t].src, th[t].dst)
  <1> DEFINE r == [th[t] EXCEPT !.pc = p]
  <1>1. th' = [th EXCEPT ![t] = r]
    BY DEF Goto
  <1>2. r \in Thread
    BY ThreadFields DEF Thread
  <1>3. /\ r.pc = p /\ r.after = th[t].after /\ r.src = th[t].src /\ r.dst = th[t].dst
        /\ r.rows = th[t].rows /\ r.id = th[t].id
    BY ThreadFields DEF Thread
  <1> HIDE DEF r
  <1>4. Becomes(t, r.pc, r.after, r.src, r.dst, r.rows, r.id)
    BY <1>1, <1>2, Becoming
  <1> QED
    BY <1>3, <1>4 DEF Goes

\* The record of a thread that serves no request, or is sent on by one.
LEMMA IdleType ==
    /\ \A p \in Pcs : Idle \in Thread /\ [Idle EXCEPT !.pc = p] \in Thread
    /\ {"postgres_write", "postgres_read"} \subseteq Dbs
  BY ReplicationAssumption, PcsType DEF Idle, Thread, Dbs

\* A request that returns leaves its thread idle.
LEMMA ReturnEffect ==
    ASSUME TypeOK, NEW t \in Threads, Return(t)
    PROVE  Leaves(t, "idle")
  <1>1. Becomes(t, Idle.pc, Idle.after, Idle.src, Idle.dst, Idle.rows, Idle.id)
    BY IdleType, PcsType, Becoming DEF Return
  <1> QED
    BY <1>1 DEF Idle, Leaves

\* A sync returns to what called it.
LEMMA SyncReturnsEffect ==
    ASSUME TypeOK, NEW t \in Threads, SyncReturns(t)
    PROVE  Leaves(t, th[t].after)
  <1> DEFINE r == [Idle EXCEPT !.pc = th[t].after]
  <1>1. th' = [th EXCEPT ![t] = r] /\ r \in Thread
    BY IdleType, ThreadFields DEF SyncReturns
  <1>2. /\ r.pc = th[t].after /\ r.after = "idle" /\ r.src = "postgres_write"
        /\ r.dst = "postgres_read" /\ r.rows = {} /\ r.id = 1
    BY DEF Idle
  <1> HIDE DEF r
  <1>3. Becomes(t, r.pc, r.after, r.src, r.dst, r.rows, r.id)
    BY <1>1, Becoming
  <1> QED
    BY <1>2, <1>3 DEF Leaves

\* What the steps of a sync make of their thread.
LEMMA SyncEffects ==
    ASSUME TypeOK, NEW t \in Threads
    PROVE  /\ Check(t) => IF enabled THEN Goes(t, "openWrite", th[t].src, th[t].dst)
                          ELSE Leaves(t, th[t].after)
           /\ OpenWrite(t) => Goes(t, "select", writeUrl, th[t].dst)
           /\ Select(t) => Becomes(t, "openRead", th[t].after, th[t].src, th[t].dst,
                                   table[th[t].src], th[t].id)
           /\ OpenRead(t) => Goes(t, "delete", th[t].src, readUrl)
           /\ Delete(t) => Goes(t, "insert", th[t].src, th[t].dst)
           /\ Insert(t) => Leaves(t, th[t].after) \/ Leaves(t, "idle")
           /\ SyncFails(t) => Leaves(t, "idle")
  <1>0. /\ {"check", "openWrite", "select", "openRead", "delete", "insert"} \subseteq Pcs
        /\ writeUrl \in Dbs /\ readUrl \in Dbs /\ table[th[t].src] \in SUBSET Row
    BY PcsType, ThreadFields DEF SyncPcs, TypeOK
  <1>1. Check(t) => IF enabled THEN Goes(t, "openWrite", th[t].src, th[t].dst)
                    ELSE Leaves(t, th[t].after)
    BY <1>0, GotoEffect, SyncReturnsEffect DEF Check
  <1>2. ASSUME OpenWrite(t) PROVE Goes(t, "select", writeUrl, th[t].dst)
    <2> DEFINE r == [th[t] EXCEPT !.pc = "select", !.src = writeUrl]
    <2>1. th' = [th EXCEPT ![t] = r]
      BY <1>2 DEF OpenWrite
    <2>2. r \in Thread
      BY <1>0, ThreadFields DEF Thread
    <2>3. /\ r.pc = "select" /\ r.after = th[t].after /\ r.src = writeUrl
          /\ r.dst = th[t].dst /\ r.rows = th[t].rows /\ r.id = th[t].id
      BY <1>0, ThreadFields DEF Thread
    <2> HIDE DEF r
    <2>4. Becomes(t, r.pc, r.after, r.src, r.dst, r.rows, r.id)
      BY <1>0, <2>1, <2>2, Becoming
    <2> QED
      BY <2>3, <2>4 DEF Goes
  <1>3. ASSUME Select(t)
        PROVE  Becomes(t, "openRead", th[t].after, th[t].src, th[t].dst, table[th[t].src],
                       th[t].id)
    <2> DEFINE r == [th[t] EXCEPT !.pc = "openRead", !.rows = table[th[t].src]]
    <2>1. th' = [th EXCEPT ![t] = r]
      BY <1>3 DEF Select
    <2>2. r \in Thread
      BY <1>0, ThreadFields DEF Thread
    <2>3. /\ r.pc = "openRead" /\ r.after = th[t].after /\ r.src = th[t].src
          /\ r.dst = th[t].dst /\ r.rows = table[th[t].src] /\ r.id = th[t].id
      BY <1>0, ThreadFields DEF Thread
    <2> HIDE DEF r
    <2>4. Becomes(t, r.pc, r.after, r.src, r.dst, r.rows, r.id)
      BY <1>0, <2>1, <2>2, Becoming
    <2> QED
      BY <2>3, <2>4
  <1>4. ASSUME OpenRead(t) PROVE Goes(t, "delete", th[t].src, readUrl)
    <2> DEFINE r == [th[t] EXCEPT !.pc = "delete", !.dst = readUrl]
    <2>1. th' = [th EXCEPT ![t] = r]
      BY <1>4 DEF OpenRead
    <2>2. r \in Thread
      BY <1>0, ThreadFields DEF Thread
    <2>3. /\ r.pc = "delete" /\ r.after = th[t].after /\ r.src = th[t].src
          /\ r.dst = readUrl /\ r.rows = th[t].rows /\ r.id = th[t].id
      BY <1>0, ThreadFields DEF Thread
    <2> HIDE DEF r
    <2>4. Becomes(t, r.pc, r.after, r.src, r.dst, r.rows, r.id)
      BY <1>0, <2>1, <2>2, Becoming
    <2> QED
      BY <2>3, <2>4 DEF Goes
  <1>5. Delete(t) => Goes(t, "insert", th[t].src, th[t].dst)
    BY <1>0, GotoEffect DEF Delete
  <1>6. Insert(t) => Leaves(t, th[t].after) \/ Leaves(t, "idle")
    BY SyncReturnsEffect, ReturnEffect DEF Insert, Raise
  <1>7. SyncFails(t) => Leaves(t, "idle")
    BY ReturnEffect DEF SyncFails, Raise
  <1> QED
    BY <1>1, <1>2, <1>3, <1>4, <1>5, <1>6, <1>7

\* The periodic task begins with the check of the flag.
LEMMA TickEffect ==
    ASSUME TypeOK, NEW x \in Timers, Tick(x)
    PROVE  Goes(x, "check", th[x].src, th[x].dst)
  BY GotoEffect, PcsType DEF Tick, Threads, SyncPcs

\* What the other steps of a request make of its thread.
LEMMA RequestEffects ==
    ASSUME TypeOK, NEW c \in Clients
    PROVE  /\ ManualSync(c) => Goes(c, "openWrite", th[c].src, th[c].dst)
           /\ Enable(c) => Goes(c, "enableSet", th[c].src, th[c].dst)
           /\ EnableSet(c) => Becomes(c, "check", "create", th[c].src, th[c].dst, th[c].rows,
                                      th[c].id)
           /\ Create(c) => Goes(c, "schedule", th[c].src, th[c].dst)
           /\ Schedule(c) => Leaves(c, "idle")
           /\ Disable(c) => Goes(c, "disableSet", th[c].src, th[c].dst)
           /\ DisableSet(c) => Goes(c, "shutdown", th[c].src, th[c].dst)
           /\ Shutdown(c) => Leaves(c, "idle")
           /\ Switch(c) => Goes(c, "switchWrite", writeUrl, th[c].dst)
           /\ SwitchWrite(c) => Goes(c, "switchRead", th[c].src, th[c].dst)
           /\ SwitchRead(c) => Goes(c, "check", th[c].src, th[c].dst)
           /\ InsertToWriteDb(c) => Goes(c, "resetMax", writeUrl, th[c].dst)
           /\ ResetMax(c) => Becomes(c, "resetSetval", th[c].after, th[c].src, writeUrl,
                                     th[c].rows, NextId(table[writeUrl]))
           /\ ResetSetval(c) => Goes(c, "insertRow", th[c].src, th[c].dst)
           /\ InsertRow(c) \/ InsertFails(c) => Leaves(c, "idle")
  <1>0. /\ {"check", "openWrite", "enableSet", "schedule", "disableSet", "shutdown",
            "switchWrite", "switchRead", "resetMax", "resetSetval", "insertRow"} \subseteq Pcs
        /\ c \in Threads /\ writeUrl \in Dbs /\ table[writeUrl] \subseteq Row
    BY PcsType DEF SyncPcs, EnablePcs, DisablePcs, SwitchPcs, InsertPcs, Threads, TypeOK
  <1>1. /\ ManualSync(c) => Goes(c, "openWrite", th[c].src, th[c].dst)
        /\ Enable(c) => Goes(c, "enableSet", th[c].src, th[c].dst)
        /\ Create(c) => Goes(c, "schedule", th[c].src, th[c].dst)
        /\ Disable(c) => Goes(c, "disableSet", th[c].src, th[c].dst)
        /\ DisableSet(c) => Goes(c, "shutdown", th[c].src, th[c].dst)
    BY <1>0, GotoEffect DEF ManualSync, Enable, Create, Disable, DisableSet
  <1>2. /\ SwitchWrite(c) => Goes(c, "switchRead", th[c].src, th[c].dst)
        /\ SwitchRead(c) => Goes(c, "check", th[c].src, th[c].dst)
        /\ ResetSetval(c) => Goes(c, "insertRow", th[c].src, th[c].dst)
    BY <1>0, GotoEffect DEF SwitchWrite, SwitchRead, ResetSetval
  <1>3. Schedule(c) \/ Shutdown(c) \/ InsertRow(c) \/ InsertFails(c) => Leaves(c, "idle")
    BY <1>0, ReturnEffect DEF Schedule, Shutdown, InsertRow, InsertFails
  <1>4. ASSUME EnableSet(c)
        PROVE  Becomes(c, "check", "create", th[c].src, th[c].dst, th[c].rows, th[c].id)
    <2> DEFINE r == [th[c] EXCEPT !.pc = "check", !.after = "create"]
    <2>1. th' = [th EXCEPT ![c] = r]
      BY <1>4 DEF EnableSet
    <2>2. r \in Thread
      BY <1>0, ThreadFields DEF Thread
    <2>3. /\ r.pc = "check" /\ r.after = "create" /\ r.src = th[c].src
          /\ r.dst = th[c].dst /\ r.rows = th[c].rows /\ r.id = th[c].id
      BY <1>0, ThreadFields DEF Thread
    <2> HIDE DEF r
    <2>4. Becomes(c, r.pc, r.after, r.src, r.dst, r.rows, r.id)
      BY <1>0, <2>1, <2>2, Becoming
    <2> QED
      BY <2>3, <2>4
  <1>5. ASSUME NEW p \in Pcs, th' = [th EXCEPT ![c].pc = p, ![c].src = writeUrl]
        PROVE  Goes(c, p, writeUrl, th[c].dst)
    <2> DEFINE r == [th[c] EXCEPT !.pc = p, !.src = writeUrl]
    <2>1. th' = [th EXCEPT ![c] = r]
      BY <1>5
    <2>2. r \in Thread
      BY <1>0, ThreadFields DEF Thread
    <2>3. /\ r.pc = p /\ r.after = th[c].after /\ r.src = writeUrl
          /\ r.dst = th[c].dst /\ r.rows = th[c].rows /\ r.id = th[c].id
      BY <1>0, ThreadFields DEF Thread
    <2> HIDE DEF r
    <2>4. Becomes(c, r.pc, r.after, r.src, r.dst, r.rows, r.id)
      BY <1>0, <2>1, <2>2, Becoming
    <2> QED
      BY <2>3, <2>4 DEF Goes
  <1>6. /\ Switch(c) => Goes(c, "switchWrite", writeUrl, th[c].dst)
        /\ InsertToWriteDb(c) => Goes(c, "resetMax", writeUrl, th[c].dst)
    BY <1>0, <1>5 DEF Switch, InsertToWriteDb
  <1>7. ASSUME ResetMax(c)
        PROVE  Becomes(c, "resetSetval", th[c].after, th[c].src, writeUrl, th[c].rows,
                       NextId(table[writeUrl]))
    <2> DEFINE r == [th[c] EXCEPT !.pc = "resetSetval", !.dst = writeUrl,
                                      !.id = NextId(table[writeUrl])]
    <2>1. th' = [th EXCEPT ![c] = r]
      BY <1>7 DEF ResetMax
    <2>2. r \in Thread
      BY <1>0, NextIdIsBeyond, ThreadFields DEF Thread
    <2>3. /\ r.pc = "resetSetval" /\ r.after = th[c].after /\ r.src = th[c].src
          /\ r.dst = writeUrl /\ r.rows = th[c].rows /\ r.id = NextId(table[writeUrl])
      BY <1>0, ThreadFields DEF Thread
    <2> HIDE DEF r
    <2>4. Becomes(c, r.pc, r.after, r.src, r.dst, r.rows, r.id)
      BY <1>0, <2>1, <2>2, Becoming
    <2> QED
      BY <2>3, <2>4
  <1> QED
    BY <1>1, <1>2, <1>3, <1>4, <1>6, <1>7

\* Spending keeps the budget a budget.
LEMMA SpendType ==
    ASSUME budget \in [BudgetKinds -> Nat], NEW b \in BudgetKinds, Spend(b)
    PROVE  budget' \in [BudgetKinds -> Nat]
  BY DEF Spend

-----------------------------------------------------------------------------
(* Types.                                                                  *)

TypeInv == TypeOK /\ RowsKeyed

\* The initial states are well typed.
LEMMA TypeInit == Init => TypeInv
  <1> SUFFICES ASSUME Init PROVE TypeInv
    OBVIOUS
  <1>1. Idle \in Thread
    BY IdleType, PcsType
  <1>2. th \in [Threads -> Thread] /\ RowsKeyed
    <2>1. th = [t \in Threads |-> Idle]
      BY DEF Init
    <2> QED
      BY <1>1, <2>1 DEF RowsKeyed, Keyed, Idle
  <1>3. /\ table \in [Dbs -> SUBSET Row]
        /\ \A d \in Dbs : \A r1, r2 \in table[d] : r1.id = r2.id => r1 = r2
        /\ seq \in [Dbs -> 1..MaxId + 1]
    <2>1. PICK rows \in {{}, {[id |-> 1, content |-> 0]}} :
            /\ seq = [d \in Dbs |-> IF d = "postgres_write" /\ rows # {} THEN 2 ELSE 1]
            /\ \E copy \in {{}, rows} :
                  table = [d \in Dbs |-> IF d = "postgres_write" THEN rows ELSE copy]
      BY DEF Init
    <2>2. rows \in SUBSET Row
      BY ReplicationAssumption DEF Row
    <2> QED
      BY <2>1, <2>2, ReplicationAssumption
  <1>4. /\ writeUrl \in Dbs /\ readUrl \in Dbs /\ executor \in Timers \cup {NoTimer}
        /\ timer \in [Timers -> TimerStates] /\ issued \in Nat /\ acked \in SUBSET Nat
        /\ budget \in [BudgetKinds -> Nat]
    BY ReplicationAssumption DEF Init, Dbs, TimerStates
  <1>5. /\ enabled \in BOOLEAN /\ collided \in BOOLEAN /\ unreset \in BOOLEAN
        /\ overtaken \in BOOLEAN /\ risky \in BOOLEAN
    BY Zenon DEF Init
  <1> QED
    BY <1>2, <1>3, <1>4, <1>5 DEF TypeInv, TypeOK

\* What a thread has in hand after a step it takes.
Keeps(t) == /\ th' \in [Threads -> Thread]
            /\ \A u \in Threads : u # t => th'[u] = th[u]
            /\ th'[t].rows \in {{}, th[t].rows, table[th[t].src]}

\* The thread of a step, and what it has in hand afterwards.
LEMMA ThreadOfStep ==
    ASSUME TypeOK, [Next]_vars
    PROVE  th' = th \/ \E t \in Threads : Keeps(t)
  <1>1. ASSUME NEW t \in Threads, Sync(t) PROVE Keeps(t)
    BY <1>1, SyncEffects DEF Sync, Goes, Leaves, Becomes, Keeps
  <1>2. ASSUME NEW x \in Timers, Tick(x) PROVE x \in Threads /\ Keeps(x)
    BY <1>2, TickEffect DEF Threads, Goes, Becomes, Keeps
  <1>3. ASSUME NEW c \in Clients,
               ManualSync(c) \/ EnableDisable(c) \/ SwitchDatabases(c) \/ Insertion(c)
        PROVE  c \in Threads /\ Keeps(c)
    <2>1. c \in Threads
      BY DEF Threads
    <2>2. ManualSync(c) \/ EnableDisable(c) => Keeps(c)
      BY <2>1, RequestEffects DEF EnableDisable, Goes, Leaves, Becomes, Keeps
    <2>3. SwitchDatabases(c) \/ Insertion(c) => Keeps(c)
      BY <2>1, RequestEffects DEF SwitchDatabases, Insertion, Goes, Leaves, Becomes, Keeps
    <2> QED
      BY <1>3, <2>1, <2>2, <2>3
  <1>4. ASSUME NEW r \in table["postgres_write"],
               NEW new \in {{}, {[id |-> r.id, content |-> issued + 1]}}, ProxyWrite(r, new)
        PROVE  th' = th
    BY <1>4 DEF ProxyWrite
  <1>5. ProxyInsert \/ UNCHANGED vars => th' = th
    BY DEF vars, ProxyInsert
  <1> QED
    BY <1>1, <1>2, <1>3, <1>4, <1>5, Zenon DEF Next, Proxy, Timed, Request, Threads

\* The rows in hand have different keys.
LEMMA RowsKeyedStep ==
    ASSUME TypeInv, [Next]_vars
    PROVE  th' \in [Threads -> Thread] /\ RowsKeyed'
  <1> USE DEF TypeInv
  <1>1. CASE th' = th
    BY <1>1 DEF TypeOK, RowsKeyed
  <1>2. ASSUME NEW t \in Threads, Keeps(t) PROVE th' \in [Threads -> Thread] /\ RowsKeyed'
    <2>1. Keyed({}) /\ Keyed(th[t].rows) /\ Keyed(table[th[t].src])
      BY ThreadFields DEF Keyed, RowsKeyed, TypeOK
    <2>2. Keyed(th'[t].rows)
      BY <1>2, <2>1 DEF Keeps
    <2>3. \A u \in Threads : u # t => Keyed(th'[u].rows)
      BY <1>2 DEF Keeps, RowsKeyed
    <2> QED
      BY <1>2, <2>2, <2>3 DEF Keeps, RowsKeyed
  <1> QED
    BY <1>1, <1>2, ThreadOfStep

\* One step keeps the types: the threads by the above, the rest action by action.
LEMMA TypeStep == TypeInv /\ [Next]_vars => TypeInv'
  <1> SUFFICES ASSUME TypeInv, [Next]_vars PROVE TypeInv'
    OBVIOUS
  <1> USE DEF TypeInv
  <1>t. th' \in [Threads -> Thread] /\ RowsKeyed'
    BY RowsKeyedStep
  <1>q. ASSUME UNCHANGED <<dbvars, urls, onoff, inserts>>, risky' \in BOOLEAN,
               budget' \in [BudgetKinds -> Nat]
        PROVE  TypeInv'
    BY <1>t, <1>q DEF TypeOK, dbvars, urls, onoff, inserts
  <1>r. ASSUME UNCHANGED <<dbvars, urls, onoff, inserts, risky, budget>> PROVE TypeInv'
    BY <1>q, <1>r DEF TypeOK
  <1>o. ASSUME UNCHANGED <<dbvars, urls, inserts, risky>>, enabled' \in BOOLEAN,
               executor' \in Timers \cup {NoTimer}, timer' \in [Timers -> TimerStates],
               budget' \in [BudgetKinds -> Nat]
        PROVE  TypeInv'
    BY <1>t, <1>o DEF TypeOK, dbvars, urls, inserts
  <1>b. ASSUME NEW b, b \in {"enable", "disable", "sync", "switch", "insert", "proxy", "sql"},
               Spend(b)
        PROVE  budget' \in [BudgetKinds -> Nat]
    BY <1>b, SpendType DEF TypeOK, BudgetKinds
  <1>1. ASSUME NEW t \in Threads, Check(t) \/ OpenWrite(t) \/ Select(t) \/ OpenRead(t)
        PROVE  TypeInv'
    BY <1>1, <1>r DEF Check, OpenWrite, Select, OpenRead
  <1>2. ASSUME NEW t \in Threads, Delete(t) PROVE TypeInv'
    <2>1. /\ table' \in [Dbs -> SUBSET Row]
          /\ \A d \in Dbs : \A r1, r2 \in table'[d] : r1.id = r2.id => r1 = r2
      BY <1>2 DEF Delete, TypeOK
    <2> QED
      BY <1>t, <1>2, <2>1 DEF Delete, TypeOK, urls, onoff, inserts
  <1>3. ASSUME NEW t \in Threads, Insert(t) PROVE TypeInv'
    <2>1. /\ table' \in [Dbs -> SUBSET Row]
          /\ \A d \in Dbs : \A r1, r2 \in table'[d] : r1.id = r2.id => r1 = r2
      <3>1. th[t].rows \subseteq Row /\ th[t].dst \in Dbs /\ Keyed(th[t].rows)
        BY ThreadFields DEF RowsKeyed
      <3>2. CASE table' = table
        BY <3>2 DEF TypeOK
      <3>3. CASE /\ Ids(th[t].rows) \cap Ids(table[th[t].dst]) = {}
                 /\ table' = [table EXCEPT ![th[t].dst] = table[th[t].dst] \cup th[t].rows]
        BY <3>1, <3>3 DEF Keyed, Ids, TypeOK
      <3> QED
        BY <1>3, <3>2, <3>3 DEF Insert
    <2>2. timer' \in [Timers -> TimerStates]
      BY <1>3 DEF Insert, Raise, TimerStates, TypeOK
    <2> QED
      BY <1>t, <1>3, <2>1, <2>2 DEF Insert, TypeOK, urls, inserts
  <1>4. ASSUME NEW t \in Threads, SyncFails(t) PROVE TypeInv'
    <2>1. timer' \in [Timers -> TimerStates]
      BY <1>4 DEF SyncFails, Raise, TimerStates, TypeOK
    <2> QED
      BY <1>4, <1>o, <1>b, <2>1 DEF SyncFails, TypeOK
  <1>5. ASSUME NEW x \in Timers, Tick(x) PROVE TypeInv'
    BY <1>5, <1>r DEF Tick
  <1>6. ASSUME NEW c \in Clients, ManualSync(c) \/ Enable(c) \/ Disable(c)
                                  \/ InsertToWriteDb(c) \/ Switch(c)
        PROVE  TypeInv'
    <2>1. UNCHANGED <<dbvars, urls, onoff, inserts>>
      BY <1>6 DEF ManualSync, Enable, Disable, InsertToWriteDb, Switch
    <2>2. risky' \in BOOLEAN
      BY <1>6, Zenon DEF ManualSync, Enable, Disable, InsertToWriteDb, Switch, Begin, TypeOK
    <2>3. budget' \in [BudgetKinds -> Nat]
      BY <1>6, <1>b DEF ManualSync, Enable, Disable, InsertToWriteDb, Switch, Begin
    <2> QED
      BY <1>q, <2>1, <2>2, <2>3
  <1>7. ASSUME NEW c \in Clients, EnableSet(c) \/ Create(c) \/ Schedule(c) \/ DisableSet(c)
                                  \/ Shutdown(c)
        PROVE  TypeInv'
    <2>1. UNCHANGED <<dbvars, urls, inserts, risky, budget>>
      BY <1>7 DEF EnableSet, Create, Schedule, DisableSet, Shutdown
    <2>2. enabled' \in BOOLEAN
      BY <1>7, Zenon DEF EnableSet, Create, Schedule, DisableSet, Shutdown, TypeOK
    <2>3. executor' \in Timers \cup {NoTimer} /\ timer' \in [Timers -> TimerStates]
      BY <1>7 DEF EnableSet, Create, Schedule, DisableSet, Shutdown, TypeOK, TimerStates
    <2> QED
      BY <1>o, <2>1, <2>2, <2>3 DEF TypeOK
  <1>8. ASSUME NEW c \in Clients, SwitchWrite(c) \/ SwitchRead(c) PROVE TypeInv'
    <2>1. writeUrl' \in Dbs /\ readUrl' \in Dbs
      BY <1>8, ThreadFields DEF SwitchWrite, SwitchRead, Threads, TypeOK
    <2>2. UNCHANGED <<dbvars, onoff, inserts, risky, budget>>
      BY <1>8 DEF SwitchWrite, SwitchRead
    <2> QED
      BY <1>t, <2>1, <2>2 DEF TypeOK, dbvars, onoff, inserts
  <1>9. ASSUME NEW c \in Clients, ResetMax(c) PROVE TypeInv'
    BY <1>9, <1>r DEF ResetMax
  <1>10. ASSUME NEW c \in Clients, ResetSetval(c) PROVE TypeInv'
    <2>1. th[c].dst \in Dbs /\ th[c].id \in 1..MaxId + 1
      BY ThreadFields DEF Threads
    <2>2. seq' \in [Dbs -> 1..MaxId + 1] /\ budget' \in [BudgetKinds -> Nat]
      BY <1>10, <1>b, <2>1 DEF ResetSetval, TypeOK
    <2>3. unreset' \in BOOLEAN
      BY <1>10, Zenon DEF ResetSetval, TypeOK
    <2> QED
      BY <1>t, <1>10, <2>2, <2>3 DEF ResetSetval, TypeOK, urls, onoff
  <1>n. ASSUME NEW d \in Dbs, seq[d] <= MaxId, seq' = [seq EXCEPT ![d] = @ + 1],
               NewRow(d) \/ UNCHANGED <<table, issued, overtaken>>
        PROVE  /\ table' \in [Dbs -> SUBSET Row]
               /\ \A e \in Dbs : \A r1, r2 \in table'[e] : r1.id = r2.id => r1 = r2
               /\ seq' \in [Dbs -> 1..MaxId + 1] /\ issued' \in Nat
               /\ overtaken' \in BOOLEAN
    <2> DEFINE i == seq[d]
               new == [id |-> i, content |-> issued + 1]
    <2>1. i \in 1..MaxId
      BY <1>n, ReplicationAssumption DEF TypeOK
    <2>2. seq' \in [Dbs -> 1..MaxId + 1]
      <3>1. seq' = [seq EXCEPT ![d] = i + 1] /\ i + 1 \in 1..MaxId + 1
        BY <1>n, <2>1, ReplicationAssumption
      <3> QED
        BY <3>1 DEF TypeOK
    <2>3. overtaken' \in BOOLEAN
      BY <1>n, Zenon DEF NewRow, TypeOK
    <2>4. CASE UNCHANGED <<table, issued>>
      BY <2>2, <2>3, <2>4 DEF TypeOK
    <2>5. CASE NewRow(d)
      <3>1. new \in Row /\ new.id = i
        BY <2>1 DEF Row, TypeOK
      <3>2. /\ table' = [table EXCEPT ![d] = table[d] \cup {new}] /\ i \notin Ids(table[d])
            /\ issued' = issued + 1
        BY <2>5 DEF NewRow
      <3> HIDE DEF new
      <3>3. /\ table' \in [Dbs -> SUBSET Row]
            /\ \A e \in Dbs : \A r1, r2 \in table'[e] : r1.id = r2.id => r1 = r2
        BY <3>1, <3>2 DEF TypeOK, Ids
      <3>4. issued' \in Nat
        BY <3>2 DEF TypeOK
      <3> QED
        BY <2>2, <2>3, <3>3, <3>4
    <2> QED
      BY <1>n, <2>4, <2>5
  <1>11. ASSUME NEW c \in Clients, InsertRow(c) PROVE TypeInv'
    <2> DEFINE d == th[c].src
    <2>1. d \in Dbs
      BY ThreadFields DEF Threads
    <2>2. /\ seq[d] <= MaxId /\ seq' = [seq EXCEPT ![d] = @ + 1]
          /\ NewRow(d) \/ UNCHANGED <<table, issued, overtaken>>
      BY <1>11 DEF InsertRow
    <2>3. /\ table' \in [Dbs -> SUBSET Row]
          /\ \A e \in Dbs : \A r1, r2 \in table'[e] : r1.id = r2.id => r1 = r2
          /\ seq' \in [Dbs -> 1..MaxId + 1] /\ issued' \in Nat /\ overtaken' \in BOOLEAN
      <3> HIDE DEF d
      <3> QED
        BY <1>n, <2>1, <2>2
    <2>4. acked' \in SUBSET Nat
      <3>1. acked' = acked \cup {issued + 1} \/ acked' = acked
        BY <1>11, Zenon DEF InsertRow
      <3>2. acked \in SUBSET Nat /\ issued \in Nat
        BY Zenon DEF TypeOK
      <3>3. issued + 1 \in Nat
        BY <3>2
      <3> QED
        BY <3>1, <3>2, <3>3, Zenon
    <2>5. collided' \in BOOLEAN
      <3>1. collided' = collided \/ collided' = TRUE
        BY <1>11, Zenon DEF InsertRow
      <3>2. collided \in BOOLEAN
        BY Zenon DEF TypeOK
      <3> QED
        BY <3>1, <3>2
    <2>6. UNCHANGED <<writeUrl, readUrl, enabled, executor, timer, unreset, risky, budget>>
      BY <1>11, Zenon DEF InsertRow, urls, onoff
    <2>7. th' \in [Threads -> Thread]
      BY <1>t
    <2> HIDE DEF d
    <2>8. UNCHANGED <<writeUrl, readUrl, enabled, executor, timer, unreset, risky, budget>>
          => TypeOK'
      BY <2>3, <2>4, <2>5, <2>7, Zenon DEF TypeOK
    <2>9. RowsKeyed'
      BY <1>t
    <2> QED
      BY <2>6, <2>8, <2>9, Zenon
  <1>12. ASSUME NEW c \in Clients, InsertFails(c) PROVE TypeInv'
    BY <1>12, <1>q, <1>b DEF InsertFails, TypeOK
  <1>13. ASSUME NEW r \in table["postgres_write"],
                NEW new \in {{}, {[id |-> r.id, content |-> issued + 1]}}, ProxyWrite(r, new)
         PROVE  TypeInv'
    <2>1. /\ "postgres_write" \in Dbs /\ r \in Row
          /\ \A n \in new : n \in Row /\ n.id = r.id
      BY DEF Dbs, Row, TypeOK
    <2>2. /\ table' \in [Dbs -> SUBSET Row]
          /\ \A e \in Dbs : \A r1, r2 \in table'[e] : r1.id = r2.id => r1 = r2
      <3>1. table' = [table EXCEPT !["postgres_write"] =
                                        (table["postgres_write"] \ {r}) \cup new]
        BY <1>13 DEF ProxyWrite
      <3>2. \A r1, r2 \in new : r1 = r2
        OBVIOUS
      <3> QED
        BY <2>1, <3>1, <3>2 DEF TypeOK
    <2>3. Cardinality(new) \in Nat
      <3>1. CASE new = {}
        BY <3>1, FS_EmptySet
      <3>2. CASE \E n : new = {n}
        <4>1. Cardinality(new) = 1
          BY <3>2, FS_Singleton, Zenon
        <4> QED
          BY <4>1
      <3> QED
        BY <3>1, <3>2
    <2>4. budget' \in [BudgetKinds -> Nat]
      BY <1>13, <1>b DEF ProxyWrite
    <2>5. issued' \in Nat /\ acked' \in SUBSET Nat
      <3>1. issued' = issued + Cardinality(new) /\ acked' = acked \ {r.content}
        BY <1>13, Zenon DEF ProxyWrite
      <3>2. issued \in Nat /\ acked \in SUBSET Nat
        BY DEF TypeOK
      <3>3. acked' \in SUBSET Nat
        BY <3>1, <3>2, Zenon
      <3>4. issued' \in Nat
        <4> DEFINE n == Cardinality(new)
        <4>1. n \in Nat /\ issued' = issued + n
          BY <2>3, <3>1
        <4> HIDE DEF n
        <4> QED
          BY <3>2, <4>1
      <3> QED
        BY <3>3, <3>4
    <2>6. UNCHANGED <<seq, urls, onoff, collided, unreset, overtaken, risky>>
      BY <1>13 DEF ProxyWrite
    <2> QED
      BY <1>t, <2>2, <2>4, <2>5, <2>6 DEF TypeOK, urls, onoff
  <1>14. CASE UNCHANGED vars
    BY <1>14, <1>r DEF vars, dbvars, urls, onoff, inserts
  <1>15. CASE ProxyInsert
    <2>1. /\ table' \in [Dbs -> SUBSET Row]
          /\ \A e \in Dbs : \A r1, r2 \in table'[e] : r1.id = r2.id => r1 = r2
          /\ seq' \in [Dbs -> 1..MaxId + 1] /\ issued' \in Nat /\ overtaken' \in BOOLEAN
      BY <1>n, <1>15 DEF ProxyInsert, Dbs
    <2>2. budget' \in [BudgetKinds -> Nat]
      BY <1>15, <1>b DEF ProxyInsert
    <2>3. UNCHANGED <<urls, onoff, acked, collided, unreset, risky>>
      BY <1>15 DEF ProxyInsert
    <2> QED
      BY <1>t, <2>1, <2>2, <2>3 DEF TypeOK, urls, onoff
  <1> QED
    BY <1>1, <1>2, <1>3, <1>4, <1>5, <1>6, <1>7, <1>8, <1>9, <1>10, <1>11, <1>12, <1>13,
       <1>14, <1>15, Zenon
    DEF Next, Proxy, Timed, Request, Sync, EnableDisable, SwitchDatabases, Insertion, Threads

\* Whatever the clients, the timers and the databases do, the state is well typed, and
\* the rows of a table and the rows a sync has in hand have different keys.
THEOREM TypeCorrect == Spec => [](TypeOK /\ RowsKeyed)
  <1>1. TypeInv /\ [Next]_vars => TypeInv'
    BY TypeStep
  <1> QED
    BY TypeInit, <1>1, PTL DEF Spec, TypeInv

-----------------------------------------------------------------------------
(* A safe switch loses nothing.                                            *)

\* The threads of timers stay in their syncs.
LEMMA TimerThreadsStep ==
    ASSUME TypeOK, TimerThreads, [Next]_vars
    PROVE  TimerThreads'
  <1> USE DEF TimerThreads
  <1>k. ASSUME NEW t \in Threads, NEW p, \A u \in Threads : u # t => th'[u] = th[u],
               t \in Timers => th'[t].pc \in {"idle"} \cup SyncPcs /\ th'[t].after = "idle"
        PROVE  TimerThreads'
    BY <1>k DEF Threads
  <1>1. ASSUME NEW t \in Threads, Sync(t) PROVE TimerThreads'
    <2>1. /\ \A u \in Threads : u # t => th'[u] = th[u]
          /\ t \in Timers => th'[t].pc \in {"idle"} \cup SyncPcs /\ th'[t].after = "idle"
      BY <1>1, SyncEffects DEF Sync, SyncPcs, Goes, Leaves, Becomes
    <2> QED
      BY <1>k, <2>1
  <1>2. ASSUME NEW x \in Timers, Tick(x) PROVE TimerThreads'
    <2>1. /\ \A u \in Threads : u # x => th'[u] = th[u]
          /\ th'[x].pc \in {"idle"} \cup SyncPcs /\ th'[x].after = "idle"
      BY <1>2, TickEffect DEF SyncPcs, Goes, Becomes
    <2> QED
      BY <1>k, <2>1 DEF Threads
  <1>3. ASSUME NEW c \in Clients,
               ManualSync(c) \/ EnableDisable(c) \/ SwitchDatabases(c) \/ Insertion(c)
        PROVE  TimerThreads'
    <2>1. \A u \in Threads : u # c => th'[u] = th[u]
      BY <1>3, RequestEffects
      DEF EnableDisable, SwitchDatabases, Insertion, Goes, Leaves, Becomes
    <2>2. c \in Threads /\ c \notin Timers
      BY ReplicationAssumption DEF Threads
    <2> QED
      BY <1>k, <2>1, <2>2
  <1>4. CASE th' = th
    BY <1>4
  <1>5. ASSUME NEW r \in table["postgres_write"],
               NEW new \in {{}, {[id |-> r.id, content |-> issued + 1]}}, ProxyWrite(r, new)
        PROVE  th' = th
    BY <1>5 DEF ProxyWrite
  <1>6. ProxyInsert \/ UNCHANGED vars => th' = th
    BY DEF vars, ProxyInsert
  <1> QED
    BY <1>1, <1>2, <1>3, <1>4, <1>5, <1>6, Zenon DEF Next, Proxy, Timed, Request, Threads

\* A row that is replaced or deleted takes nothing along but its own content.
LEMMA ReplacedRow ==
    ASSUME NEW rows, NEW r \in rows, NEW new, NEW known, known \subseteq Contents(rows)
    PROVE  known \ {r.content} \subseteq Contents((rows \ {r}) \cup new)
  BY DEF Contents

\* A row the generator inserts takes nothing away.
LEMMA InsertedRow ==
    ASSUME TypeOK, ProxyInsert, NEW d \in Dbs
    PROVE  Contents(table[d]) \subseteq Contents(table'[d])
  <1>1. CASE table' = table
    BY <1>1
  <1>2. CASE NewRow("postgres_write")
    <2> DEFINE new == [id |-> seq["postgres_write"], content |-> issued + 1]
    <2>1. table' = [table EXCEPT !["postgres_write"] = @ \cup {new}]
      BY <1>2 DEF NewRow
    <2> HIDE DEF new
    <2>2. table[d] \subseteq table'[d]
      BY <2>1 DEF TypeOK
    <2> QED
      BY <2>2 DEF Contents
  <1> QED
    BY <1>1, <1>2 DEF ProxyInsert

\* While somebody switches in a safe situation, nothing but that switch, the looks of
\* idle timers at the flag, and the proxy goes on.
LEMMA SwitchingBlocks ==
    ASSUME TypeOK, TimerThreads, NEW c \in Clients, th[c].pc \in SwitchPcs, InSwitch(c),
           [Next]_vars, ~risky'
    PROVE  \/ SwitchWrite(c) \/ SwitchRead(c)
           \/ \E x \in Timers : Tick(x) \/ Check(x)
           \/ Proxy
           \/ UNCHANGED vars
  <1>1. Switching
    BY DEF Switching
  <1>2. ASSUME NEW b, NEW d \in Clients, Begin(d, b) PROVE FALSE
    BY <1>1, <1>2, Zenon DEF Begin
  <1>3. ASSUME NEW d \in Clients, Switch(d) PROVE FALSE
    <2>1. Safe(d)
      BY <1>3, Zenon DEF Switch
    <2>2. d # c
      BY <1>3 DEF Switch, At, SwitchPcs
    <2>3. th[c].pc = "idle"
      BY <2>1, <2>2 DEF Safe, Threads, At
    <2> QED
      BY <2>3 DEF SwitchPcs
  <1>4. ASSUME NEW t \in Threads, Sync(t) PROVE t \in Timers /\ Check(t)
    <2>1. th[t].pc \in SyncPcs
      BY <1>4 DEF Sync, Check, OpenWrite, Select, OpenRead, Delete, Insert, SyncFails, At,
                  SyncPcs
    <2>2. t # c /\ t \in Timers /\ th[t].pc = "check"
      BY <2>1 DEF InSwitch, SyncPcs, SwitchPcs
    <2> QED
      BY <1>4, <2>2 DEF Sync, OpenWrite, Select, OpenRead, Delete, Insert, SyncFails, At
  <1>5. ASSUME NEW d \in Clients, EnableDisable(d) PROVE FALSE
    <2>1. ~Enable(d) /\ ~Disable(d)
      BY <1>2, Zenon DEF Enable, Disable
    <2>2. th[d].pc \in EnablePcs \cup DisablePcs
      BY <1>5, <2>1 DEF EnableDisable, EnableSet, Create, Schedule, DisableSet, Shutdown, At,
                        EnablePcs, DisablePcs
    <2>3. d \in Threads /\ d \notin Timers
      BY ReplicationAssumption DEF Threads
    <2> QED
      BY <2>2, <2>3 DEF InSwitch, EnablePcs, DisablePcs, SwitchPcs
  <1>6. ASSUME NEW d \in Clients, Insertion(d) PROVE FALSE
    <2>1. ~InsertToWriteDb(d)
      BY <1>2, Zenon DEF InsertToWriteDb
    <2>2. th[d].pc \in InsertPcs
      BY <1>6, <2>1 DEF Insertion, ResetMax, ResetSetval, InsertRow, InsertFails, At, InsertPcs
    <2>3. d \in Threads /\ d \notin Timers
      BY ReplicationAssumption DEF Threads
    <2> QED
      BY <2>2, <2>3 DEF InSwitch, InsertPcs, SwitchPcs
  <1>7. ASSUME NEW d \in Clients, SwitchDatabases(d) PROVE SwitchWrite(c) \/ SwitchRead(c)
    <2>1. SwitchWrite(d) \/ SwitchRead(d)
      BY <1>3, <1>7 DEF SwitchDatabases
    <2>2. th[d].pc \in SwitchPcs /\ d \in Threads /\ d \notin Timers
      BY <2>1, ReplicationAssumption DEF SwitchWrite, SwitchRead, At, SwitchPcs, Threads
    <2>3. d = c
      BY <2>2 DEF InSwitch, SwitchPcs
    <2> QED
      BY <2>1, <2>3
  <1>8. ASSUME NEW d \in Clients, ManualSync(d) PROVE FALSE
    BY <1>2, <1>8, Zenon DEF ManualSync
  <1>9. ASSUME NEW d \in Clients, Request(d) PROVE SwitchWrite(c) \/ SwitchRead(c)
    <2>1. ~Sync(d)
      BY <1>4, ReplicationAssumption DEF Threads
    <2> QED
      BY <1>5, <1>6, <1>7, <1>8, <1>9, <2>1 DEF Request
  <1>10. ASSUME NEW x \in Timers, Timed(x) PROVE Tick(x) \/ Check(x)
    BY <1>4, <1>10 DEF Timed, Threads
  <1> QED
    BY <1>9, <1>10, Zenon DEF Next

\* A switch that began in a safe situation stays in one, and ends with the roles of
\* the databases exchanged and the acknowledged rows in both.
LEMMA SwitchingStep ==
    ASSUME TypeInv, TypeInv', TimerThreads, NEW c \in Clients, th[c].pc \in SwitchPcs,
           InSwitch(c), [Next]_vars, ~risky'
    PROVE  SwitchInv'
  <1> USE DEF TypeInv
  <1>0. c \in Threads /\ c \notin Timers
    BY ReplicationAssumption DEF Threads
  <1>u. ASSUME NEW d \in Clients, d # c PROVE th[d].pc = "idle"
    BY <1>0, <1>u, ReplicationAssumption DEF InSwitch, Threads
  <1>k. ASSUME UNCHANGED <<enabled, readUrl, writeUrl>>, th'[c] = th[c],
               \A t \in Threads \ {c} : \/ th'[t].pc = "idle"
                                        \/ t \in Timers /\ th'[t].pc = "check",
               \A d \in Dbs : acked' \subseteq Contents(table'[d])
        PROVE  SwitchInv'
    <2>1. InSwitch(c)'
      BY <1>k DEF InSwitch
    <2>2. Switching'
      BY <1>k DEF Switching
    <2>3. ASSUME NEW d \in Clients, th'[d].pc \in SwitchPcs PROVE d = c
      BY <1>k, <2>3, ReplicationAssumption DEF Threads, SwitchPcs
    <2> QED
      BY <2>1, <2>2, <2>3 DEF SwitchInv
  <1>1. CASE SwitchWrite(c)
    <2>1. Goes(c, "switchRead", th[c].src, th[c].dst)
      BY <1>1, RequestEffects
    <2>2. /\ th'[c].pc = "switchRead" /\ th'[c].src = th[c].src
          /\ \A t \in Threads : t # c => th'[t] = th[t]
      BY <2>1 DEF Goes, Becomes
    <2>3. UNCHANGED <<table, acked, readUrl, enabled>> /\ writeUrl' = readUrl
      BY <1>1 DEF SwitchWrite, dbvars, onoff, inserts
    <2>4. InSwitch(c)'
      BY <2>2, <2>3 DEF InSwitch
    <2>5. Switching'
      BY <2>2 DEF Switching, SwitchPcs
    <2>6. ASSUME NEW d \in Clients, th'[d].pc \in SwitchPcs PROVE d = c
      BY <1>u, <2>2, <2>6 DEF Threads, SwitchPcs
    <2> QED
      BY <2>4, <2>5, <2>6 DEF SwitchInv
  <1>2. CASE SwitchRead(c)
    <2>1. Goes(c, "check", th[c].src, th[c].dst)
      BY <1>2, RequestEffects
    <2>2. th'[c].pc = "check" /\ \A t \in Threads : t # c => th'[t] = th[t]
      BY <2>1 DEF Goes, Becomes
    <2>3. UNCHANGED <<table, acked, writeUrl>> /\ readUrl' = th[c].src
      BY <1>2 DEF SwitchRead, dbvars, onoff, inserts
    <2>4. readUrl' # writeUrl'
      BY <1>2, <2>3 DEF InSwitch, SwitchRead, At
    <2>5. acked' \subseteq Contents(table'[writeUrl'])
      BY <2>3 DEF InSwitch, TypeOK
    <2>6. \A t \in Threads : th'[t].pc \notin {"delete", "insert"} \cup InsertPcs
      BY <2>2 DEF InSwitch, InsertPcs
    <2>7. Settled'
      BY <2>4, <2>5, <2>6 DEF Settled
    <2>8. ~Switching'
      <3>1. ASSUME NEW d \in Clients PROVE th'[d].pc \notin SwitchPcs
        BY <1>u, <2>2 DEF Threads, SwitchPcs
      <3> QED
        BY <3>1 DEF Switching
    <2> QED
      BY <2>7, <2>8 DEF SwitchInv
  <1>3. ASSUME NEW x \in Timers, Tick(x) PROVE SwitchInv'
    <2>1. th'[x].pc = "check" /\ \A t \in Threads : t # x => th'[t] = th[t]
      BY <1>3, TickEffect DEF Goes, Becomes
    <2>2. UNCHANGED <<enabled, readUrl, writeUrl, table, acked>>
      BY <1>3 DEF Tick, dbvars, urls, onoff, inserts
    <2>3. th'[c] = th[c]
      BY <1>0, <2>1
    <2>4. \A t \in Threads \ {c} : \/ th'[t].pc = "idle"
                                   \/ t \in Timers /\ th'[t].pc = "check"
      BY <2>1 DEF InSwitch
    <2> QED
      BY <1>k, <2>2, <2>3, <2>4 DEF InSwitch
  <1>4. ASSUME NEW x \in Timers, Check(x) PROVE SwitchInv'
    <2>1. th'[x].pc = "idle" /\ \A t \in Threads : t # x => th'[t] = th[t]
      BY <1>4, SyncEffects DEF Leaves, Becomes, Threads, TimerThreads, InSwitch
    <2>2. UNCHANGED <<enabled, readUrl, writeUrl, table, acked>>
      BY <1>4 DEF Check, dbvars, urls, onoff, inserts
    <2>3. th'[c] = th[c]
      BY <1>0, <2>1
    <2>4. \A t \in Threads \ {c} : \/ th'[t].pc = "idle"
                                   \/ t \in Timers /\ th'[t].pc = "check"
      BY <2>1 DEF InSwitch
    <2> QED
      BY <1>k, <2>2, <2>3, <2>4 DEF InSwitch
  <1>5. ASSUME NEW r \in table["postgres_write"],
               NEW new \in {{}, {[id |-> r.id, content |-> issued + 1]}}, ProxyWrite(r, new)
        PROVE  SwitchInv'
    <2>1. /\ UNCHANGED <<enabled, readUrl, writeUrl, th>>
          /\ table' = [table EXCEPT !["postgres_write"] =
                                        (table["postgres_write"] \ {r}) \cup new]
          /\ acked' = acked \ {r.content}
      BY <1>5 DEF ProxyWrite, urls, onoff
    <2>2. \A d \in Dbs : acked' \subseteq Contents(table'[d])
      <3>1. "postgres_write" \in Dbs /\ \A d \in Dbs : acked \subseteq Contents(table[d])
        BY DEF InSwitch, Dbs
      <3>2. acked' \subseteq Contents(table'["postgres_write"])
        BY <2>1, <3>1, ReplacedRow DEF TypeOK
      <3>3. \A d \in Dbs : d # "postgres_write" => table'[d] = table[d]
        BY <2>1 DEF TypeOK
      <3> QED
        BY <2>1, <3>1, <3>2, <3>3
    <2> QED
      BY <1>k, <2>1, <2>2 DEF InSwitch
  <1>6. CASE UNCHANGED vars
    BY <1>k, <1>6 DEF vars, InSwitch
  <1>7. CASE ProxyInsert
    <2>1. UNCHANGED <<enabled, readUrl, writeUrl, th, acked>>
      BY <1>7 DEF ProxyInsert, urls, onoff
    <2>2. \A d \in Dbs : acked' \subseteq Contents(table'[d])
      BY <1>7, <2>1, InsertedRow DEF InSwitch
    <2> QED
      BY <1>k, <2>1, <2>2 DEF InSwitch
  <1> QED
    BY <1>1, <1>2, <1>3, <1>4, <1>5, <1>6, <1>7, SwitchingBlocks DEF Proxy

\* Outside a switch, every step keeps the acknowledged rows in the write database, and
\* only the beginning of a safe switch leaves that situation.
LEMMA SettledStep ==
    ASSUME TypeInv, TypeInv', ~Switching, Settled, [Next]_vars, ~risky'
    PROVE  SwitchInv'
  <1> USE DEF TypeInv
  <1>n. ASSUME NEW t \in Threads,
               \A u \in Threads : u # t => th'[u] = th[u],
               th'[t].pc \notin SwitchPcs
        PROVE  ~Switching'
    BY <1>n DEF Switching, Threads
  <1>k. ASSUME NEW t \in Threads,
               \A u \in Threads : u # t => th'[u] = th[u],
               th'[t].pc \notin SwitchPcs,
               th'[t].pc \in {"delete", "insert"} => th'[t].dst = readUrl,
               th'[t].pc \in InsertPcs => th'[t].src = writeUrl,
               UNCHANGED <<writeUrl, readUrl>>,
               acked' \subseteq Contents(table'[writeUrl])
        PROVE  SwitchInv'
    <2>1. ~Switching'
      BY <1>k, <1>n
    <2>2. Settled'
      BY <1>k DEF Settled
    <2> QED
      BY <2>1, <2>2 DEF SwitchInv
  <1>a. acked \subseteq Contents(table[writeUrl]) /\ readUrl # writeUrl
    BY DEF Settled
  <1>1. ASSUME NEW t \in Threads, Check(t) \/ OpenWrite(t) \/ Select(t) \/ OpenRead(t)
                                  \/ SyncFails(t)
        PROVE  SwitchInv'
    <2>1. UNCHANGED <<writeUrl, readUrl, table, acked>>
      BY <1>1 DEF Check, OpenWrite, Select, OpenRead, SyncFails, dbvars, urls, inserts
    <2>2. /\ \A u \in Threads : u # t => th'[u] = th[u]
          /\ \/ th'[t].pc \in {"openWrite", "select", "openRead", "idle", "create"}
             \/ th'[t].pc = "delete" /\ th'[t].dst = readUrl
      BY <1>1, SyncEffects, ThreadFields DEF Goes, Leaves, Becomes
    <2> QED
      BY <1>a, <1>k, <2>1, <2>2 DEF SwitchPcs, InsertPcs
  <1>2. ASSUME NEW t \in Threads, Delete(t) PROVE SwitchInv'
    <2>1. th[t].dst = readUrl
      BY <1>2 DEF Delete, At, Settled
    <2>2. UNCHANGED <<writeUrl, readUrl, acked>> /\ table'[writeUrl] = table[writeUrl]
      BY <1>2, <1>a, <2>1 DEF Delete, urls, inserts, TypeOK
    <2>3. /\ \A u \in Threads : u # t => th'[u] = th[u]
          /\ th'[t].pc = "insert" /\ th'[t].dst = readUrl
      BY <1>2, <2>1, SyncEffects DEF Goes, Becomes
    <2> QED
      BY <1>a, <1>k, <2>2, <2>3 DEF SwitchPcs, InsertPcs
  <1>3. ASSUME NEW t \in Threads, Insert(t) PROVE SwitchInv'
    <2>1. th[t].dst = readUrl
      BY <1>3 DEF Insert, At, Settled
    <2>2. UNCHANGED <<writeUrl, readUrl, acked>> /\ table'[writeUrl] = table[writeUrl]
      BY <1>3, <1>a, <2>1 DEF Insert, urls, inserts, TypeOK
    <2>3. /\ \A u \in Threads : u # t => th'[u] = th[u]
          /\ th'[t].pc \in {"idle", "create"}
      BY <1>3, SyncEffects, ThreadFields DEF Leaves, Becomes
    <2> QED
      BY <1>a, <1>k, <2>2, <2>3 DEF SwitchPcs, InsertPcs
  <1>4. ASSUME NEW x \in Timers, Tick(x) PROVE SwitchInv'
    <2>1. UNCHANGED <<writeUrl, readUrl, table, acked>> /\ x \in Threads
      BY <1>4 DEF Tick, dbvars, urls, inserts, Threads
    <2>2. th'[x].pc = "check" /\ \A u \in Threads : u # x => th'[u] = th[u]
      BY <1>4, TickEffect DEF Goes, Becomes
    <2> QED
      BY <1>a, <1>k, <2>1, <2>2 DEF SwitchPcs, InsertPcs
  <1>5. ASSUME NEW c \in Clients, ManualSync(c) \/ EnableDisable(c) PROVE SwitchInv'
    <2>1. UNCHANGED <<writeUrl, readUrl, table, acked>> /\ c \in Threads
      BY <1>5 DEF ManualSync, EnableDisable, Enable, EnableSet, Create, Schedule, Disable,
                  DisableSet, Shutdown, dbvars, urls, inserts, Threads
    <2>2. /\ \A u \in Threads : u # c => th'[u] = th[u]
          /\ th'[c].pc \in {"idle", "openWrite", "check"} \cup EnablePcs \cup DisablePcs
      BY <1>5, RequestEffects DEF EnableDisable, Goes, Leaves, Becomes, EnablePcs, DisablePcs
    <2> QED
      BY <1>a, <1>k, <2>1, <2>2 DEF SwitchPcs, InsertPcs, EnablePcs, DisablePcs
  <1>6. ASSUME NEW c \in Clients, InsertToWriteDb(c) \/ ResetMax(c) \/ ResetSetval(c)
                                  \/ InsertFails(c)
        PROVE  SwitchInv'
    <2>1. UNCHANGED <<writeUrl, readUrl, table, acked>> /\ c \in Threads
      BY <1>6 DEF InsertToWriteDb, ResetMax, ResetSetval, InsertFails, dbvars, urls, inserts,
                  Threads
    <2>2. /\ \A u \in Threads : u # c => th'[u] = th[u]
          /\ \/ th'[c].pc = "idle"
             \/ th'[c].pc \in InsertPcs /\ (th'[c].src = writeUrl \/ th'[c].src = th[c].src)
      BY <1>6, RequestEffects DEF Goes, Leaves, Becomes, InsertPcs
    <2>3. ResetMax(c) \/ ResetSetval(c) => th[c].src = writeUrl
      BY <2>1 DEF ResetMax, ResetSetval, At, InsertPcs, Settled
    <2>4. th'[c].pc = "idle" \/ (th'[c].pc \in InsertPcs /\ th'[c].src = writeUrl)
      BY <1>6, <2>2, <2>3, RequestEffects DEF Goes, Leaves, Becomes
    <2> QED
      BY <1>a, <1>k, <2>1, <2>2, <2>4 DEF SwitchPcs, InsertPcs
  <1>7. ASSUME NEW c \in Clients, InsertRow(c) PROVE SwitchInv'
    <2>1. c \in Threads /\ th[c].src = writeUrl
      BY <1>7 DEF InsertRow, At, InsertPcs, Settled, Threads
    <2>2. acked' \subseteq Contents(table'[writeUrl])
      <3>1. CASE UNCHANGED <<table, acked>>
        BY <1>a, <3>1
      <3>2. CASE \E row : /\ table'[writeUrl] = table[writeUrl] \cup {row}
                          /\ acked' = acked \cup {row.content}
        BY <1>a, <3>2 DEF Contents
      <3>3. ASSUME ~UNCHANGED <<table, acked>>
            PROVE  \E row : /\ table'[writeUrl] = table[writeUrl] \cup {row}
                            /\ acked' = acked \cup {row.content}
        <4> DEFINE row == [id |-> seq[writeUrl], content |-> issued + 1]
        <4>1. /\ table' = [table EXCEPT ![writeUrl] = table[writeUrl] \cup {row}]
              /\ acked' = acked \cup {issued + 1}
          BY <1>7, <2>1, <3>3 DEF InsertRow, NewRow
        <4>2. row.content = issued + 1
          OBVIOUS
        <4> HIDE DEF row
        <4> QED
          BY <4>1, <4>2 DEF TypeOK
      <3> QED
        BY <3>1, <3>2, <3>3
    <2>3. UNCHANGED <<writeUrl, readUrl>>
      BY <1>7 DEF InsertRow, urls
    <2>4. th'[c].pc = "idle" /\ \A u \in Threads : u # c => th'[u] = th[u]
      BY <1>7, RequestEffects DEF Leaves, Becomes
    <2> QED
      BY <1>k, <2>1, <2>2, <2>3, <2>4 DEF SwitchPcs, InsertPcs
  <1>8. ASSUME NEW c \in Clients, Switch(c) PROVE SwitchInv'
    <2>1. Safe(c)
      BY <1>8, Zenon DEF Switch
    <2>2. UNCHANGED <<writeUrl, readUrl, table, acked, enabled>> /\ c \in Threads
      BY <1>8 DEF Switch, dbvars, urls, onoff, inserts, Threads
    <2>3. /\ th'[c].pc = "switchWrite" /\ th'[c].src = writeUrl
          /\ \A u \in Threads : u # c => th'[u] = th[u]
      BY <1>8, RequestEffects DEF Goes, Becomes
    <2>4. \A d \in Dbs : acked \subseteq Contents(table[d])
      BY <1>a, <2>1 DEF Safe
    <2>5. InSwitch(c)'
      BY <1>a, <2>1, <2>2, <2>3, <2>4 DEF InSwitch, Safe, At
    <2>6. Switching'
      BY <2>3 DEF Switching, SwitchPcs
    <2>7. ASSUME NEW d \in Clients, th'[d].pc \in SwitchPcs PROVE d = c
      BY <2>1, <2>3, <2>7 DEF Safe, At, Threads, SwitchPcs
    <2> QED
      BY <2>5, <2>6, <2>7 DEF SwitchInv
  <1>9. ASSUME NEW c \in Clients, SwitchWrite(c) \/ SwitchRead(c) PROVE FALSE
    BY <1>9 DEF SwitchWrite, SwitchRead, At, Switching, SwitchPcs
  <1>10. ASSUME NEW r \in table["postgres_write"],
                NEW new \in {{}, {[id |-> r.id, content |-> issued + 1]}}, ProxyWrite(r, new)
         PROVE  SwitchInv'
    <2>1. /\ UNCHANGED <<readUrl, writeUrl, th>>
          /\ table' = [table EXCEPT !["postgres_write"] =
                                        (table["postgres_write"] \ {r}) \cup new]
          /\ acked' = acked \ {r.content}
      BY <1>10 DEF ProxyWrite, urls
    <2>2. acked' \subseteq Contents(table'[writeUrl])
      <3>1. CASE writeUrl = "postgres_write"
        <4>1. table'[writeUrl] = (table[writeUrl] \ {r}) \cup new
          BY <2>1, <3>1 DEF TypeOK
        <4> QED
          BY <1>a, <2>1, <3>1, <4>1, ReplacedRow
      <3>2. CASE writeUrl # "postgres_write"
        BY <1>a, <2>1, <3>2 DEF TypeOK
      <3> QED
        BY <3>1, <3>2
    <2> QED
      BY <2>1, <2>2 DEF SwitchInv, Settled, Switching
  <1>11. CASE UNCHANGED vars
    BY <1>11 DEF vars, SwitchInv, Settled, Switching
  <1>12. CASE ProxyInsert
    <2>1. UNCHANGED <<readUrl, writeUrl, th, acked>>
      BY <1>12 DEF ProxyInsert, urls
    <2>2. acked' \subseteq Contents(table'[writeUrl])
      BY <1>a, <1>12, <2>1, InsertedRow DEF TypeOK
    <2> QED
      BY <2>1, <2>2 DEF SwitchInv, Settled, Switching
  <1> QED
    BY <1>1, <1>2, <1>3, <1>4, <1>5, <1>6, <1>7, <1>8, <1>9, <1>10, <1>11, <1>12, Zenon
    DEF Next, Proxy, Timed, Request, Sync, SwitchDatabases, Insertion, Threads

\* A situation that was unsafe counts from then on.
LEMMA RiskyStays == ASSUME TypeOK, [Next]_vars, risky PROVE risky'
  <1>1. ASSUME NEW t \in Threads, Sync(t) PROVE risky'
    BY <1>1 DEF Sync, Check, OpenWrite, Select, OpenRead, Delete, Insert, SyncFails
  <1>2. ASSUME NEW c \in Clients, ManualSync(c) PROVE risky'
    BY <1>2, Zenon DEF ManualSync, Begin
  <1>3. ASSUME NEW c \in Clients, EnableDisable(c) PROVE risky'
    BY <1>3, Zenon DEF EnableDisable, Enable, EnableSet, Create, Schedule, Disable,
                       DisableSet, Shutdown, Begin
  <1>4. ASSUME NEW c \in Clients, SwitchDatabases(c) PROVE risky'
    BY <1>4, Zenon DEF SwitchDatabases, Switch, SwitchWrite, SwitchRead
  <1>5. ASSUME NEW c \in Clients, Insertion(c) PROVE risky'
    BY <1>5, Zenon DEF Insertion, InsertToWriteDb, ResetMax, ResetSetval, InsertRow,
                       InsertFails, Begin
  <1>6. ASSUME NEW x \in Timers, Tick(x) PROVE risky'
    BY <1>6 DEF Tick
  <1>7. ASSUME NEW r \in table["postgres_write"],
               NEW new \in {{}, {[id |-> r.id, content |-> issued + 1]}}, ProxyWrite(r, new)
        PROVE  risky'
    BY <1>7 DEF ProxyWrite
  <1>8. ProxyInsert \/ UNCHANGED vars => risky' = risky
    BY DEF vars, ProxyInsert
  <1> QED
    BY <1>1, <1>2, <1>3, <1>4, <1>5, <1>6, <1>7, <1>8, Zenon
    DEF Next, Proxy, Timed, Request, Threads

\* So do a reset that failed and one that was overtaken.
LEMMA HistoriesStay ==
    ASSUME [Next]_vars
    PROVE  (unreset => unreset') /\ (overtaken => overtaken')
  <1> DEFINE G == (unreset => unreset') /\ (overtaken => overtaken')
  <1>1. ASSUME NEW d, NewRow(d) \/ UNCHANGED overtaken PROVE overtaken => overtaken'
    BY <1>1, Zenon DEF NewRow
  <1>2. ASSUME NEW c \in Clients, InsertRow(c) PROVE G
    <2>1. (NewRow(th[c].src) \/ UNCHANGED overtaken) /\ UNCHANGED unreset
      BY <1>2 DEF InsertRow
    <2> QED
      BY <1>1, <2>1
  <1>3. CASE ProxyInsert
    <2>1. (NewRow("postgres_write") \/ UNCHANGED overtaken) /\ UNCHANGED unreset
      BY <1>3 DEF ProxyInsert
    <2> QED
      BY <1>1, <2>1
  <1>4. ASSUME NEW c \in Clients, ResetSetval(c) PROVE G
    BY <1>4 DEF ResetSetval
  <1>5. CASE ~((\E c \in Clients : InsertRow(c) \/ ResetSetval(c)) \/ ProxyInsert)
    <2>1. UNCHANGED <<unreset, overtaken>>
      BY <1>5 DEF Next, Timed, Tick, Request, Sync, Check, OpenWrite, Select, OpenRead, Delete,
         Insert, SyncFails, ManualSync, EnableDisable, Enable, EnableSet, Create, Schedule,
         Disable, DisableSet, Shutdown, SwitchDatabases, Switch, SwitchWrite, SwitchRead,
         Insertion, InsertToWriteDb, ResetMax, InsertFails, Proxy, ProxyWrite, inserts, vars
    <2> QED
      BY <2>1
  <1> QED
    BY <1>2, <1>3, <1>4, <1>5

\* At the start nothing runs and nothing has been acknowledged.
LEMMA SwitchInit == Init => TimerThreads /\ SwitchInv
  <1> SUFFICES ASSUME Init PROVE TimerThreads /\ SwitchInv
    OBVIOUS
  <1>1. \A t \in Threads : th[t].pc = "idle" /\ th[t].after = "idle"
    BY DEF Init, Idle
  <1>2. acked = {} /\ writeUrl = "postgres_write" /\ readUrl = "postgres_read"
    BY DEF Init
  <1>3. ~Switching
    BY <1>1 DEF Switching, Threads, SwitchPcs
  <1>4. Settled
    BY <1>1, <1>2 DEF Settled, InsertPcs
  <1> QED
    BY <1>1, <1>3, <1>4 DEF TimerThreads, Threads, SwitchInv

\* The inductive step of the whole invariant.
LEMMA Step == IInv /\ [Next]_vars => IInv'
  <1> SUFFICES ASSUME IInv, [Next]_vars PROVE IInv'
    OBVIOUS
  <1>1. TypeInv /\ TypeInv'
    BY TypeStep DEF IInv, TypeInv
  <1>2. TimerThreads'
    BY TimerThreadsStep DEF IInv
  <1>3. SwitchInv'
    <2>1. CASE risky'
      BY <2>1 DEF SwitchInv
    <2>2. CASE ~risky'
      <3>1. ~risky
        BY <1>1, <2>2, RiskyStays DEF TypeInv
      <3>2. CASE Switching
        <4>1. PICK c \in Clients : th[c].pc \in SwitchPcs
          BY <3>2 DEF Switching
        <4> QED
          BY <1>1, <2>2, <3>1, <3>2, <4>1, SwitchingStep DEF IInv, SwitchInv
      <3>3. CASE ~Switching
        BY <1>1, <2>2, <3>1, <3>3, SettledStep DEF IInv, SwitchInv
      <3> QED
        BY <3>2, <3>3
    <2> QED
      BY <2>1, <2>2
  <1> QED
    BY <1>1, <1>2, <1>3 DEF IInv, TypeInv

\* The invariant holds of every behaviour.
THEOREM Invariance == Spec => []IInv
  <1>1. Init => IInv
    BY TypeInit, SwitchInit DEF IInv, TypeInv
  <1> QED
    BY <1>1, Step, PTL DEF Spec

\* With any number of clients and timers, an acknowledged insert stays in the write
\* database through every interleaving of syncs, inserts and failures, as long as the
\* databases are switched only with replication off, nothing running and equal contents.
THEOREM SafeSwitch == Spec => []SafeSwitchLosesNothing
  <1>1. IInv => SafeSwitchLosesNothing
    BY DEF IInv, SwitchInv, Settled, SafeSwitchLosesNothing
  <1> QED
    BY <1>1, Invariance, PTL

-----------------------------------------------------------------------------
(* The keys of inserts.                                                    *)

\* What a client is after a step: what it was, not in the second half of an insert, or
\* past a half of resetSequence.
LEMMA OwnStep ==
    ASSUME TypeOK, [Next]_vars, NEW c \in Clients
    PROVE  \/ th'[c] = th[c] \/ th'[c].pc \notin {"resetSetval", "insertRow"}
           \/ ResetMax(c) \/ ResetSetval(c)
  <1>0. c \in Threads /\ c \notin Timers /\ Timers \subseteq Threads /\ Clients \subseteq Threads
    BY ReplicationAssumption DEF Threads
  <1>1. ASSUME NEW t \in Threads, Sync(t)
        PROVE  th'[c] = th[c] \/ th'[c].pc \notin {"resetSetval", "insertRow"}
    <2>1. CASE t = c
      BY <1>0, <1>1, <2>1, SyncEffects, ThreadFields DEF Sync, Goes, Leaves, Becomes
    <2>2. CASE t # c
      BY <1>0, <1>1, <2>2, SyncEffects DEF Sync, Goes, Leaves, Becomes
    <2> QED
      BY <2>1, <2>2
  <1>2. ASSUME NEW x \in Timers, Tick(x) PROVE th'[c] = th[c]
    BY <1>0, <1>2, TickEffect DEF Goes, Becomes
  <1>3. ASSUME NEW d \in Clients, ManualSync(d) \/ EnableDisable(d) \/ SwitchDatabases(d)
        PROVE  th'[c] = th[c] \/ th'[c].pc \notin {"resetSetval", "insertRow"}
    <2>1. CASE d = c
      BY <1>3, <2>1, RequestEffects DEF EnableDisable, SwitchDatabases, Goes, Leaves, Becomes
    <2>2. CASE d # c
      BY <1>0, <1>3, <2>2, RequestEffects
      DEF EnableDisable, SwitchDatabases, Goes, Leaves, Becomes
    <2> QED
      BY <2>1, <2>2
  <1>4. ASSUME NEW d \in Clients, Insertion(d)
        PROVE  \/ th'[c] = th[c] \/ th'[c].pc \notin {"resetSetval", "insertRow"}
               \/ ResetMax(c) \/ ResetSetval(c)
    <2>1. CASE d = c
      BY <1>4, <2>1, RequestEffects DEF Insertion, Goes, Leaves, Becomes
    <2>2. CASE d # c
      BY <1>0, <1>4, <2>2, RequestEffects DEF Insertion, Goes, Leaves, Becomes
    <2> QED
      BY <2>1, <2>2
  <1>5. Proxy \/ UNCHANGED vars => th' = th
    BY DEF Proxy, ProxyWrite, ProxyInsert, vars
  <1> QED
    BY <1>0, <1>1, <1>2, <1>3, <1>4, <1>5, Zenon DEF Next, Timed, Request

\* A row that is inserted into d has the key the sequence of d yields, and overtakes
\* whoever is between the halves of a resetSequence of d.
LEMMA NewKey ==
    ASSUME TypeOK, NEW d \in Dbs, seq' = [seq EXCEPT ![d] = @ + 1],
           NewRow(d) \/ UNCHANGED <<table, overtaken>>
    PROVE  /\ seq'[d] = seq[d] + 1
           /\ overtaken => overtaken'
           /\ \A i \in Ids(table'[d]) \ Ids(table[d]) :
                 /\ i = seq[d]
                 /\ \A c \in Clients : At(c, "resetSetval") /\ th[c].dst = d => overtaken'
           /\ \A e \in Dbs : e # d => table'[e] = table[e] /\ seq'[e] = seq[e]
  <1>1. /\ seq'[d] = seq[d] + 1 /\ \A e \in Dbs : e # d => seq'[e] = seq[e]
    BY DEF TypeOK
  <1>2. CASE UNCHANGED <<table, overtaken>>
    BY <1>1, <1>2
  <1>3. CASE NewRow(d)
    <2> DEFINE new == [id |-> seq[d], content |-> issued + 1]
    <2>1. table' = [table EXCEPT ![d] = @ \cup {new}] /\ new.id = seq[d]
      BY <1>3 DEF NewRow
    <2> HIDE DEF new
    <2>2. table'[d] = table[d] \cup {new} /\ \A e \in Dbs : e # d => table'[e] = table[e]
      BY <2>1 DEF TypeOK
    <2>3. \A i \in Ids(table'[d]) \ Ids(table[d]) : i = seq[d]
      BY <2>1, <2>2 DEF Ids
    <2>4. /\ overtaken => overtaken'
          /\ \A c \in Clients : At(c, "resetSetval") /\ th[c].dst = d => overtaken'
      BY <1>3, Zenon DEF NewRow
    <2> QED
      BY <1>1, <2>2, <2>3, <2>4
  <1> QED
    BY <1>2, <1>3

\* What a step makes of the write database, its sequence and the histories while nobody
\* switches: only an insert adds a key, and only a resetSequence sets the sequence.
LEMMA WriteDbStep ==
    ASSUME IInv, ~Switching, Settled, [Next]_vars
    PROVE  /\ writeUrl' = writeUrl
           /\ overtaken => overtaken'
           /\ unreset => unreset'
           /\ \A i \in Ids(table'[writeUrl]) \ Ids(table[writeUrl]) :
                 /\ i = seq[writeUrl] /\ seq'[writeUrl] = seq[writeUrl] + 1
                 /\ \A c \in Clients :
                       At(c, "resetSetval") /\ th[c].dst = writeUrl => overtaken'
           /\ \/ seq'[writeUrl] \in {seq[writeUrl], seq[writeUrl] + 1}
              \/ \E c \in Clients : ResetSetval(c)
  <1> USE DEF IInv
  <1> DEFINE G == /\ writeUrl' = writeUrl
                  /\ overtaken => overtaken'
                  /\ unreset => unreset'
                  /\ \A i \in Ids(table'[writeUrl]) \ Ids(table[writeUrl]) :
                        /\ i = seq[writeUrl] /\ seq'[writeUrl] = seq[writeUrl] + 1
                        /\ \A c \in Clients :
                              At(c, "resetSetval") /\ th[c].dst = writeUrl => overtaken'
                  /\ \/ seq'[writeUrl] \in {seq[writeUrl], seq[writeUrl] + 1}
                     \/ \E c \in Clients : ResetSetval(c)
  <1>q. ASSUME UNCHANGED <<writeUrl, seq, overtaken, unreset>>,
               Ids(table'[writeUrl]) \subseteq Ids(table[writeUrl])
        PROVE  G
    BY <1>q
  <1>w. writeUrl \in Dbs
    BY DEF TypeOK
  <1>1. ASSUME NEW t \in Threads, Sync(t) PROVE G
    <2>1. UNCHANGED <<writeUrl, seq, overtaken, unreset>>
      BY <1>1 DEF Sync, Check, OpenWrite, Select, OpenRead, Delete, Insert, SyncFails, dbvars,
                  urls, inserts
    <2>2. CASE Delete(t) \/ Insert(t)
      <3>1. th[t].dst = readUrl /\ readUrl # writeUrl
        BY <2>2 DEF Settled, Delete, Insert, At
      <3>2. table'[writeUrl] = table[writeUrl]
        BY <2>2, <3>1 DEF Delete, Insert, TypeOK
      <3> QED
        BY <1>q, <2>1, <3>2
    <2>3. CASE ~(Delete(t) \/ Insert(t))
      <3>1. table' = table
        BY <1>1, <2>3 DEF Sync, Check, OpenWrite, Select, OpenRead, SyncFails, dbvars
      <3> QED
        BY <1>q, <2>1, <3>1
    <2> QED
      BY <2>2, <2>3
  <1>2. ASSUME NEW x \in Timers, Tick(x) PROVE G
    BY <1>2, <1>q DEF Tick, dbvars, urls, inserts
  <1>3. ASSUME NEW c \in Clients,
               ManualSync(c) \/ EnableDisable(c) \/ Switch(c) \/ InsertToWriteDb(c)
               \/ ResetMax(c) \/ InsertFails(c)
        PROVE  G
    BY <1>3, <1>q DEF ManualSync, EnableDisable, Enable, EnableSet, Create, Schedule, Disable,
                      DisableSet, Shutdown, Switch, InsertToWriteDb, ResetMax, InsertFails,
                      dbvars, urls, inserts
  <1>4. ASSUME NEW c \in Clients, SwitchWrite(c) \/ SwitchRead(c) PROVE FALSE
    BY <1>4 DEF SwitchWrite, SwitchRead, At, Switching, SwitchPcs
  <1>5. ASSUME NEW c \in Clients, ResetSetval(c) PROVE G
    <2>1. UNCHANGED <<writeUrl, table, overtaken>>
      BY <1>5 DEF ResetSetval, urls
    <2>2. unreset => unreset'
      BY <1>5, Zenon DEF ResetSetval
    <2> QED
      BY <1>5, <2>1, <2>2
  <1>6. ASSUME NEW d \in Dbs, seq' = [seq EXCEPT ![d] = @ + 1],
               NewRow(d) \/ UNCHANGED <<table, overtaken>>, UNCHANGED <<writeUrl, unreset>>
        PROVE  G
    <2>1. /\ seq'[d] = seq[d] + 1
          /\ overtaken => overtaken'
          /\ \A i \in Ids(table'[d]) \ Ids(table[d]) :
                /\ i = seq[d]
                /\ \A c \in Clients : At(c, "resetSetval") /\ th[c].dst = d => overtaken'
          /\ \A e \in Dbs : e # d => table'[e] = table[e] /\ seq'[e] = seq[e]
      BY <1>6, NewKey
    <2>2. CASE d = writeUrl
      BY <1>6, <2>1, <2>2
    <2>3. CASE d # writeUrl
      BY <1>6, <1>w, <2>1, <2>3
    <2> QED
      BY <2>2, <2>3
  <1>7. ASSUME NEW c \in Clients, InsertRow(c) PROVE G
    <2>1. th[c].src \in Dbs
      BY ThreadFields DEF Threads
    <2>2. /\ seq' = [seq EXCEPT ![th[c].src] = @ + 1] /\ UNCHANGED <<writeUrl, unreset>>
          /\ NewRow(th[c].src) \/ UNCHANGED <<table, overtaken>>
      BY <1>7 DEF InsertRow, urls
    <2> QED
      BY <1>6, <2>1, <2>2
  <1>8. ASSUME ProxyInsert PROVE G
    BY <1>6, <1>8 DEF ProxyInsert, Dbs, urls
  <1>9. ASSUME NEW r \in table["postgres_write"],
               NEW new \in {{}, {[id |-> r.id, content |-> issued + 1]}}, ProxyWrite(r, new)
        PROVE  G
    <2>1. \A m \in new : m.id = r.id
      OBVIOUS
    <2>2. table' = [table EXCEPT !["postgres_write"] =
                                      (table["postgres_write"] \ {r}) \cup new]
      BY <1>9 DEF ProxyWrite
    <2>3. UNCHANGED <<writeUrl, seq, overtaken, unreset>>
      BY <1>9 DEF ProxyWrite, urls
    <2>4. Ids(table'[writeUrl]) \subseteq Ids(table[writeUrl])
      <3>1. CASE writeUrl = "postgres_write"
        <4>1. table'[writeUrl] = (table[writeUrl] \ {r}) \cup new
          BY <2>2, <3>1 DEF TypeOK
        <4> QED
          BY <2>1, <3>1, <4>1 DEF Ids
      <3>2. CASE writeUrl # "postgres_write"
        BY <2>2, <3>2 DEF TypeOK
      <3> QED
        BY <3>1, <3>2
    <2> QED
      BY <1>q, <2>3, <2>4
  <1>10. ASSUME UNCHANGED vars PROVE G
    BY <1>10, <1>q DEF vars
  <1> HIDE DEF G
  <1>11. ASSUME NEW c \in Clients, Request(c) PROVE G
    BY <1>1, <1>3, <1>4, <1>5, <1>7, <1>11, Zenon
    DEF Request, SwitchDatabases, Insertion, Threads
  <1>12. ASSUME NEW x \in Timers, Timed(x) PROVE G
    BY <1>1, <1>2, <1>12, Zenon DEF Timed, Threads
  <1>13. ASSUME Proxy PROVE G
    BY <1>8, <1>9, <1>13, Zenon DEF Proxy
  <1>14. G
    BY <1>10, <1>11, <1>12, <1>13, Zenon DEF Next
  <1> QED
    BY <1>14 DEF G

\* Nobody switches while a client is inserting.
LEMMA InsertingIsSettled ==
    ASSUME IInv, ~risky, NEW c \in Clients, th[c].pc \in InsertPcs
    PROVE  ~Switching /\ Settled
  <1>1. ASSUME NEW d \in Clients, th[d].pc \in SwitchPcs PROVE FALSE
    <2>1. InSwitch(d)
      BY <1>1 DEF IInv, SwitchInv, Switching
    <2>2. c # d /\ c \in Threads /\ c \notin Timers
      BY <1>1, ReplicationAssumption DEF InsertPcs, SwitchPcs, Threads
    <2> QED
      BY <2>1, <2>2 DEF InSwitch, InsertPcs
  <1> QED
    BY <1>1 DEF Switching, IInv, SwitchInv

\* Being beyond the keys is being beyond each of them.
LEMMA BeyondIds ==
    ASSUME NEW rows, NEW n
    PROVE  Beyond(rows, n) <=> \A i \in Ids(rows) : i < n
  BY DEF Beyond, Ids

\* Between the halves of a resetSequence nobody overtakes unnoticed, and between it and
\* the insert the sequence stays beyond the keys, whatever anybody does.
LEMMA SequenceStaysReset ==
    ASSUME IInv, KeyInv, ~risky, [Next]_vars, NEW c \in Clients
    PROVE  SequenceReset(c)'
  <1>0. c \in Threads /\ TypeOK /\ SequenceReset(c)
    BY DEF Threads, IInv, KeyInv
  <1>1. CASE th'[c].pc \notin {"resetSetval", "insertRow"}
    BY <1>1 DEF SequenceReset
  <1>2. CASE ResetMax(c)
    <2>1. /\ th'[c].pc = "resetSetval" /\ th'[c].dst = writeUrl
          /\ th'[c].id = NextId(table[writeUrl])
      BY <1>0, <1>2, RequestEffects DEF Becomes
    <2>2. UNCHANGED <<writeUrl, table>>
      BY <1>2 DEF ResetMax, dbvars, urls
    <2>3. Beyond(table[writeUrl], NextId(table[writeUrl]))
      BY <1>0, NextIdIsBeyond DEF TypeOK
    <2> QED
      BY <2>1, <2>2, <2>3 DEF SequenceReset
  <1>3. ASSUME NEW d \in Clients, ResetSetval(d), ~unreset', ~overtaken'
        PROVE  Beyond(table[writeUrl], seq[writeUrl])'
    <2>1. th[d].pc = "resetSetval" /\ UNCHANGED <<table, writeUrl, overtaken>>
      BY <1>3 DEF ResetSetval, At, urls
    <2>2. th[d].dst = writeUrl /\ Beyond(table[writeUrl], th[d].id)
      BY <1>3, <2>1 DEF KeyInv, SequenceReset
    <2>3. seq' = [seq EXCEPT ![th[d].dst] = th[d].id]
      BY <1>3, Zenon DEF ResetSetval
    <2>4. seq'[writeUrl] = th[d].id
      BY <1>0, <2>2, <2>3 DEF TypeOK
    <2> QED
      BY <2>1, <2>2, <2>4
  <1>4. CASE ResetSetval(c)
    <2>1. th'[c].pc = "insertRow"
      BY <1>0, <1>4, RequestEffects DEF Goes, Becomes
    <2> QED
      BY <1>3, <1>4, <2>1 DEF SequenceReset
  <1>5. CASE th'[c] = th[c] /\ th[c].pc \in {"resetSetval", "insertRow"}
    <2>1. ~Switching /\ Settled
      BY <1>5, InsertingIsSettled DEF InsertPcs
    <2>2. /\ writeUrl' = writeUrl
          /\ overtaken => overtaken'
          /\ unreset => unreset'
          /\ \A i \in Ids(table'[writeUrl]) \ Ids(table[writeUrl]) :
                /\ i = seq[writeUrl] /\ seq'[writeUrl] = seq[writeUrl] + 1
                /\ \A d \in Clients :
                      At(d, "resetSetval") /\ th[d].dst = writeUrl => overtaken'
          /\ \/ seq'[writeUrl] \in {seq[writeUrl], seq[writeUrl] + 1}
             \/ \E d \in Clients : ResetSetval(d)
      BY <2>1, WriteDbStep
    <2>3. /\ seq[writeUrl] \in Nat
          /\ \A i \in Ids(table[writeUrl]) : i \in Nat
      BY <1>0, ReplicationAssumption DEF TypeOK, Ids, Row
    <2>4. ASSUME th[c].pc = "resetSetval", ~overtaken'
          PROVE  th[c].dst = writeUrl /\ Beyond(table'[writeUrl], th[c].id)
      <3>1. th[c].dst = writeUrl /\ Beyond(table[writeUrl], th[c].id)
        BY <1>0, <2>2, <2>4 DEF SequenceReset
      <3>2. Ids(table'[writeUrl]) \subseteq Ids(table[writeUrl])
        BY <2>2, <2>4, <3>1 DEF At
      <3> QED
        BY <3>1, <3>2, BeyondIds
    <2>5. ASSUME th[c].pc = "insertRow", ~unreset', ~overtaken'
          PROVE  Beyond(table'[writeUrl], seq'[writeUrl])
      <3>1. Beyond(table[writeUrl], seq[writeUrl])
        BY <1>0, <2>2, <2>5 DEF SequenceReset
      <3>2. CASE \E d \in Clients : ResetSetval(d)
        BY <1>3, <2>2, <2>5, <3>2
      <3>3. CASE seq'[writeUrl] \in {seq[writeUrl], seq[writeUrl] + 1}
        <4>1. ASSUME NEW i \in Ids(table'[writeUrl]) PROVE i < seq'[writeUrl]
          <5>1. CASE i \in Ids(table[writeUrl])
            <6>1. i < seq[writeUrl] /\ i \in Nat
              BY <2>3, <3>1, <5>1, BeyondIds
            <6> QED
              BY <2>3, <3>3, <6>1
          <5>2. CASE i \notin Ids(table[writeUrl])
            BY <2>2, <2>3, <4>1, <5>2
          <5> QED
            BY <5>1, <5>2
        <4> QED
          BY <4>1, BeyondIds
      <3> QED
        BY <2>2, <3>2, <3>3
    <2>6. th[c].pc = "resetSetval" => th[c].dst = writeUrl
      BY <1>0 DEF SequenceReset
    <2> QED
      BY <1>5, <2>2, <2>4, <2>5, <2>6 DEF SequenceReset
  <1> QED
    BY <1>0, <1>1, <1>2, <1>4, <1>5, OwnStep

\* An insert that finds the sequence beyond the keys does not collide.
LEMMA NoneCollides ==
    ASSUME IInv, KeyInv, ~risky, [Next]_vars, ~unreset', ~overtaken'
    PROVE  ~collided'
  <1>0. TypeOK
    BY DEF IInv
  <1>1. ASSUME NEW c \in Clients, InsertRow(c) PROVE ~collided'
    <2>1. th[c].pc = "insertRow" /\ c \in Threads
      BY <1>1 DEF InsertRow, At, Threads
    <2>2. ~Switching /\ Settled
      BY <2>1, InsertingIsSettled DEF InsertPcs
    <2>3. th[c].src = writeUrl
      BY <2>1, <2>2 DEF Settled, InsertPcs
    <2>4. ~unreset /\ ~overtaken
      BY <2>2, WriteDbStep
    <2>5. Beyond(table[writeUrl], seq[writeUrl])
      BY <2>1, <2>4 DEF KeyInv, SequenceReset
    <2>6. seq[writeUrl] \notin Ids(table[writeUrl])
      <3>1. seq[writeUrl] \in Nat
        BY <1>0, ReplicationAssumption DEF TypeOK
      <3> QED
        BY <2>5, <3>1, BeyondIds
    <2>7. collided' = collided
      BY <1>1, <2>3, <2>6, Zenon DEF InsertRow
    <2> QED
      BY <2>4, <2>7 DEF KeyInv, InsertsNeverCollide
  <1>2. CASE ~\E c \in Clients : InsertRow(c)
    <2>1. UNCHANGED collided
      BY <1>2 DEF Next, Timed, Tick, Request, Sync, Check, OpenWrite, Select, OpenRead, Delete,
         Insert, SyncFails, ManualSync, EnableDisable, Enable, EnableSet, Create, Schedule,
         Disable, DisableSet, Shutdown, SwitchDatabases, Switch, SwitchWrite, SwitchRead,
         Insertion, InsertToWriteDb, ResetMax, ResetSetval, InsertFails, Proxy, ProxyWrite,
         ProxyInsert, inserts, vars
    <2>2. (unreset => unreset') /\ (overtaken => overtaken')
      BY HistoriesStay
    <2> QED
      BY <2>1, <2>2 DEF KeyInv, InsertsNeverCollide
  <1> QED
    BY <1>1, <1>2

\* As long as every switch was safe, every sequence could be reset and no row came in
\* between the halves of a reset, an insert of any client never meets a key in use,
\* whatever the executors, the other clients and the generator do.
THEOREM NoCollisions == Spec => []InsertsNeverCollide
  <1>1. Init => KeyInv
    <2> SUFFICES ASSUME Init PROVE KeyInv
      OBVIOUS
    <2>1. collided = FALSE /\ \A c \in Clients : th[c].pc = "idle"
      BY DEF Init, Threads, Idle
    <2> QED
      BY <2>1 DEF KeyInv, InsertsNeverCollide, SequenceReset
  <1>2. IInv /\ KeyInv /\ [Next]_vars => KeyInv'
    <2> SUFFICES ASSUME IInv, KeyInv, [Next]_vars PROVE KeyInv'
      OBVIOUS
    <2>1. CASE risky'
      BY <2>1 DEF KeyInv, InsertsNeverCollide
    <2>2. CASE ~risky'
      <3>1. ~risky
        BY <2>2, RiskyStays DEF IInv
      <3>2. \A c \in Clients : SequenceReset(c)'
        BY <3>1, SequenceStaysReset
      <3>3. InsertsNeverCollide'
        BY <3>1, NoneCollides DEF InsertsNeverCollide
      <3> QED
        BY <3>2, <3>3 DEF KeyInv
    <2> QED
      BY <2>1, <2>2
  <1>3. KeyInv => InsertsNeverCollide
    BY DEF KeyInv
  <1> QED
    BY <1>1, <1>2, <1>3, Invariance, PTL DEF Spec

-----------------------------------------------------------------------------
(* One request at a time: the executors.                                   *)

\* A task that had one of these states goes on to have one, or ends.
TasksEnd == \A x \in Timers : timer'[x] \in {"created", "scheduled"}
                                => timer[x] \in {"created", "scheduled"}

\* What keeps ExecutorInv when the flag and the executor stay and the client is on its
\* way to nothing that depends on them.
LEMMA ExecutorKept ==
    ASSUME ExecutorInv, UNCHANGED <<enabled, executor>>, TasksEnd,
           \A c \in Clients :
              \/ th'[c] = th[c]
              \/ th[c].pc # "shutdown" /\ th'[c].pc \notin {"enableSet", "create"}
                 /\ th'[c].after = "idle"
              \/ th[c].pc \in SyncPcs /\ th[c].after = "create"
                 /\ \/ th'[c].pc \in SyncPcs
                    \/ th'[c].pc = "create" /\ th'[c].after = "idle"
    PROVE  ExecutorInv'
  <1> USE DEF ExecutorInv
  <1>1. \A x \in Timers : timer'[x] \in {"created", "scheduled"} => executor' = x
    BY DEF TasksEnd
  <1>2. ASSUME ~enabled', \A c \in Clients : th'[c].pc # "shutdown"
        PROVE  executor' = NoTimer
    <2>1. \A c \in Clients : th[c].pc # "shutdown"
      BY <1>2 DEF SyncPcs
    <2> QED
      BY <1>2, <2>1
  <1>3. ASSUME NEW c \in Clients
        PROVE  /\ th'[c].after = "create" => th'[c].pc \in SyncPcs
               /\ th'[c].pc = "create" \/ th'[c].after = "create"
                    => executor' = NoTimer /\ enabled'
               /\ th'[c].pc = "enableSet" => executor' = NoTimer
    BY <1>3 DEF SyncPcs
  <1> QED
    BY <1>1, <1>2, <1>3

\* One request at a time: the invariant of the executors.
LEMMA ExecutorStep ==
    ASSUME OneClient, TypeInv, TypeInv', ExecutorInv, [Next]_vars
    PROVE  ExecutorInv'
  <1> USE DEF TypeInv
  <1>f. Clients \subseteq Threads /\ Timers \subseteq Threads
    BY DEF Threads
  <1>o. ASSUME NEW c \in Clients, NEW d \in Clients PROVE d = c
    BY DEF OneClient
  <1>i. ASSUME NEW c \in Clients, th[c].pc \notin SyncPcs PROVE th[c].after = "idle"
    BY <1>f, <1>i, ThreadFields DEF ExecutorInv
  <1>1. ASSUME NEW t \in Threads, Sync(t) PROVE ExecutorInv'
    <2>1. UNCHANGED <<enabled, executor>>
      BY <1>1 DEF Sync, Check, OpenWrite, Select, OpenRead, Delete, Insert, SyncFails, onoff
    <2>2. TasksEnd
      BY <1>1 DEF Sync, Check, OpenWrite, Select, OpenRead, Delete, Insert, SyncFails, onoff,
                  Raise, TypeOK, TasksEnd
    <2>3. \A u \in Threads : u # t => th'[u] = th[u]
      BY <1>1, SyncEffects DEF Sync, Goes, Leaves, Becomes
    <2>4. th[t].pc \in SyncPcs
      BY <1>1 DEF Sync, Check, OpenWrite, Select, OpenRead, Delete, Insert, SyncFails, At,
                  SyncPcs
    <2>5. \/ th'[t].pc \in SyncPcs /\ th'[t].after = th[t].after
          \/ th'[t].pc = th[t].after /\ th'[t].after = "idle"
          \/ th'[t].pc = "idle" /\ th'[t].after = "idle"
      BY <1>1, SyncEffects DEF Sync, Goes, Leaves, Becomes, SyncPcs
    <2>6. th[t].after \in {"idle", "create"}
      BY ThreadFields
    <2> QED
      BY <1>f, <2>1, <2>2, <2>3, <2>4, <2>5, <2>6, ExecutorKept DEF SyncPcs
  <1>2. ASSUME NEW x \in Timers, Tick(x) PROVE ExecutorInv'
    <2>1. UNCHANGED <<enabled, executor, timer>>
      BY <1>2 DEF Tick, onoff
    <2>2. \A u \in Threads : u # x => th'[u] = th[u]
      BY <1>2, TickEffect DEF Goes, Becomes
    <2>3. \A c \in Clients : th'[c] = th[c]
      BY <1>f, <2>2, ReplicationAssumption
    <2> QED
      BY <2>1, <2>3, ExecutorKept DEF TasksEnd
  <1>3. ASSUME NEW c \in Clients,
               ManualSync(c) \/ Disable(c) \/ SwitchDatabases(c) \/ Insertion(c)
        PROVE  ExecutorInv'
    <2>1. UNCHANGED <<enabled, executor, timer>>
      BY <1>3 DEF ManualSync, Disable, SwitchDatabases, Switch, SwitchWrite, SwitchRead,
                  Insertion, InsertToWriteDb, ResetMax, ResetSetval, InsertRow, InsertFails,
                  onoff
    <2>2. th[c].pc \in {"idle"} \cup SwitchPcs \cup InsertPcs
      BY <1>3 DEF ManualSync, Disable, Begin, SwitchDatabases, Switch, SwitchWrite,
                  SwitchRead, Insertion, InsertToWriteDb, ResetMax, ResetSetval, InsertRow,
                  InsertFails, At, SwitchPcs, InsertPcs
    <2>3. th[c].after = "idle"
      BY <1>i, <2>2 DEF SyncPcs, SwitchPcs, InsertPcs
    <2>4. th'[c].pc \notin {"enableSet", "create"} /\ th'[c].after = "idle"
      BY <1>3, <2>3, RequestEffects DEF SwitchDatabases, Insertion, Goes, Leaves, Becomes
    <2>5. \A u \in Threads : u # c => th'[u] = th[u]
      BY <1>3, RequestEffects DEF SwitchDatabases, Insertion, Goes, Leaves, Becomes
    <2> QED
      BY <1>f, <2>1, <2>2, <2>4, <2>5, ExecutorKept DEF SwitchPcs, InsertPcs, TasksEnd
  <1>4. ASSUME NEW c \in Clients, Enable(c) PROVE ExecutorInv'
    <2>1. UNCHANGED <<enabled, executor, timer>> /\ ~enabled /\ th[c].pc = "idle"
      BY <1>4 DEF Enable, Begin, At, onoff
    <2>2. th'[c].pc = "enableSet" /\ th'[c].after = "idle"
      BY <1>4, <1>i, <2>1, RequestEffects DEF Goes, Becomes, SyncPcs
    <2>3. executor = NoTimer
      BY <1>o, <2>1 DEF ExecutorInv
    <2> QED
      BY <1>o, <2>1, <2>2, <2>3 DEF ExecutorInv
  <1>5. ASSUME NEW c \in Clients, EnableSet(c) PROVE ExecutorInv'
    <2>1. UNCHANGED <<executor, timer>> /\ enabled' = TRUE /\ th[c].pc = "enableSet"
      BY <1>5 DEF EnableSet, At
    <2>2. th'[c].pc = "check" /\ th'[c].after = "create"
      BY <1>5, RequestEffects DEF Becomes
    <2> QED
      BY <1>o, <2>1, <2>2 DEF ExecutorInv, SyncPcs
  <1>6. ASSUME NEW c \in Clients, Create(c) PROVE ExecutorInv'
    <2>1. enabled' = enabled /\ th[c].pc = "create" /\ executor = NoTimer /\ enabled
      BY <1>6 DEF Create, At, ExecutorInv
    <2>2. PICK x \in Timers : /\ timer[x] = "none" /\ executor' = x
                              /\ timer' = [timer EXCEPT ![x] = "created"]
      BY <1>6 DEF Create
    <2>3. \A y \in Timers : timer[y] \notin {"created", "scheduled"}
      BY <2>1, ReplicationAssumption DEF ExecutorInv
    <2>4. \A y \in Timers : timer'[y] \in {"created", "scheduled"} => y = x
      BY <2>2, <2>3 DEF TypeOK
    <2>5. th'[c].pc = "schedule" /\ th'[c].after = "idle"
      BY <1>6, <1>i, <2>1, RequestEffects DEF Goes, Becomes, SyncPcs
    <2> QED
      BY <1>o, <2>1, <2>2, <2>4, <2>5 DEF ExecutorInv
  <1>7. ASSUME NEW c \in Clients, Schedule(c) PROVE ExecutorInv'
    <2>1. UNCHANGED <<enabled, executor>> /\ th[c].pc = "schedule"
      BY <1>7 DEF Schedule, At
    <2>2. TasksEnd
      BY <1>7 DEF Schedule, TasksEnd, TypeOK
    <2>3. /\ th'[c].pc = "idle" /\ th'[c].after = "idle"
          /\ \A u \in Threads : u # c => th'[u] = th[u]
      BY <1>7, RequestEffects DEF Leaves, Becomes
    <2> QED
      BY <1>f, <2>1, <2>2, <2>3, ExecutorKept
  <1>8. ASSUME NEW c \in Clients, DisableSet(c) PROVE ExecutorInv'
    <2>1. UNCHANGED <<executor, timer>> /\ th[c].pc = "disableSet"
      BY <1>8 DEF DisableSet, At
    <2>2. th'[c].pc = "shutdown" /\ th'[c].after = "idle"
      BY <1>8, <1>i, <2>1, RequestEffects DEF Goes, Becomes, SyncPcs
    <2> QED
      BY <1>o, <2>1, <2>2 DEF ExecutorInv
  <1>9. ASSUME NEW c \in Clients, Shutdown(c) PROVE ExecutorInv'
    <2>1. enabled' = enabled /\ executor' = NoTimer /\ th[c].pc = "shutdown"
      BY <1>9 DEF Shutdown, At
    <2>2. \A y \in Timers : timer'[y] \notin {"created", "scheduled"}
      BY <1>9 DEF Shutdown, ExecutorInv, TypeOK
    <2>3. th'[c].pc = "idle" /\ th'[c].after = "idle"
      BY <1>9, RequestEffects DEF Leaves, Becomes
    <2> QED
      BY <1>o, <2>1, <2>2, <2>3 DEF ExecutorInv
  <1>10. ASSUME NEW r \in table["postgres_write"],
                NEW new \in {{}, {[id |-> r.id, content |-> issued + 1]}}, ProxyWrite(r, new)
         PROVE  ExecutorInv'
    <2>1. UNCHANGED <<enabled, executor, timer, th>>
      BY <1>10 DEF ProxyWrite, onoff
    <2> QED
      BY <2>1, ExecutorKept DEF TasksEnd
  <1>11. CASE ProxyInsert \/ UNCHANGED vars
    <2>1. UNCHANGED <<enabled, executor, timer, th>>
      BY <1>11 DEF vars, ProxyInsert, onoff
    <2> QED
      BY <2>1, ExecutorKept DEF TasksEnd
  <1> QED
    BY <1>f, <1>1, <1>2, <1>3, <1>4, <1>5, <1>6, <1>7, <1>8, <1>9, <1>10, <1>11, Zenon
    DEF Next, Proxy, Timed, Request, EnableDisable

\* Requests made one after the other, with any number of executors created one after
\* another, never leave a periodic task that replicationExecutor does not refer to.
THEOREM OneTask ==
    ASSUME OneClient
    PROVE  Spec => []OneTimer
  <1>1. Init => ExecutorInv
    <2> SUFFICES ASSUME Init PROVE ExecutorInv
      OBVIOUS
    <2>1. /\ executor = NoTimer /\ \A x \in Timers : timer[x] = "none"
          /\ \A c \in Clients : th[c].pc = "idle" /\ th[c].after = "idle"
      BY DEF Init, Threads, Idle
    <2> QED
      BY <2>1 DEF ExecutorInv
  <1>2. TypeInv /\ TypeInv' /\ ExecutorInv /\ [Next]_vars => ExecutorInv'
    BY ExecutorStep
  <1>3. TypeInv /\ [Next]_vars => TypeInv'
    BY TypeStep
  <1>4. ExecutorInv => OneTimer
    BY DEF ExecutorInv, OneTimer
  <1> QED
    BY <1>1, <1>2, <1>3, <1>4, TypeInit, PTL DEF Spec


=============================================================================
