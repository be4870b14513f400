------------------------ MODULE StreamControlProofs ------------------------
(***************************************************************************)
(* Proofs about StreamControl for every set of databases, every bound and  *)
(* every budget of requests and failures; the types for any number of      *)
(* threads, the rest for requests made one after the other.                *)
(***************************************************************************)
EXTENDS StreamControl, SequenceTheorems, FiniteSetTheorems, TLAPS

\* What a thread has in hand fits the place it is at.
LocalsFit ==
    \A t \in Threads : /\ th[t].pc \in {"dial", "login"} => cdcClient # 0
                       /\ th[t].pc \in {"rpc", "setId", "setDb", "setFlag"} =>
                             th[t].db \in Databases
                       /\ th[t].pc = "setId" => th[t].id \in DOMAIN job

TypeInv == TypeOK /\ LocalsFit

\* One request at a time.
OneThread == \A t1, t2 \in Threads : t1 = t2

StartPcs == {"setId", "setDb", "setFlag"}
StopPcs == {"stopRpc", "clearFlag", "clearId", "clearDb", "close"}

\* Jobs are started on the client the field refers to, and once there is a job the
\* service is connected until cleanup() has closed the connection.
ClientInv(t) ==
    /\ \A j \in DOMAIN job : job[j].client = cdcClient
    /\ job # <<>> => isConnected \/ (closed /\ At(t, "idle"))
    /\ th[t].pc \in {"assign", "dial", "login"} => job = <<>>
    /\ th[t].pc = "rpc" => isConnected

\* The flag follows the request: starting finds it off, stopping on until it is cleared.
FlagInv(t) ==
    /\ th[t].pc \in {"rpc"} \cup StartPcs \cup {"clearId", "clearDb"} => ~isStreaming
    /\ th[t].pc \in {"stopRpc", "clearFlag"} => isStreaming
    /\ th[t].last <=> closed /\ ~At(t, "idle")
    /\ th[t].last => th[t].pc \in StopPcs
    /\ th[t].pc = "close" => closed

\* The job the request in hand has started, or else the one the service knows, is the
\* one whose database the fields tell or are about to tell.
FieldsInv(t) ==
    /\ isStreaming => /\ streamingId \in DOMAIN job
                      /\ job[streamingId].db = streamingDb
    /\ th[t].pc \in StartPcs => /\ th[t].id \in DOMAIN job
                                /\ job[th[t].id].db = th[t].db
    /\ th[t].pc \in {"setDb", "setFlag"} => streamingId = th[t].id
    /\ th[t].pc = "setFlag" => streamingDb = th[t].db
    /\ th[t].pc = "clearFlag" => streamingId \notin running

\* The job that is known, by the flag or by the request that is starting it.
Known(t) == IF th[t].pc \in StartPcs THEN {th[t].id} ELSE Controlled

\* Every other job that runs is one whose start lost its answer.
CountInv(t) == Cardinality(running \ Known(t)) <= AnswersLost

\* When cleanup() is done and has not failed no job runs.
CleanInv(t) == closed /\ At(t, "idle") /\ ~isConnected => running = {}

ThreadInv(t) == ClientInv(t) /\ FlagInv(t) /\ FieldsInv(t) /\ CountInv(t) /\ CleanInv(t)

\* Without a thread no request is served.
SerialInv == /\ \A t \in Threads : ThreadInv(t)
             /\ Threads = {} => running = {} /\ budget["answer"] = Budget["answer"]

-----------------------------------------------------------------------------
(* The operators the model is built from.                                  *)

JobRecord(n) == [client : 1..n, db : Databases]

\* The jobs are a sequence, no longer than the bound.
LEMMA JobForm ==
    ASSUME TypeOK
    PROVE  /\ Len(job) \in 0..MaxJobs /\ DOMAIN job = 1..Len(job)
           /\ job \in Seq(JobRecord(clients)) /\ job \in [1..Len(job) -> JobRecord(clients)]
  <1>1. PICK n \in 0..MaxJobs : job \in [1..n -> JobRecord(clients)]
    BY DEF TypeOK, JobRecord
  <1>2. n \in Nat
    BY ControlAssumption
  <1>3. job \in Seq(JobRecord(clients)) /\ Len(job) = n
    BY <1>1, <1>2
  <1> QED
    BY <1>1, <1>3

\* A sequence of records is well typed.
LEMMA JobType ==
    ASSUME NEW jb, NEW n \in 0..MaxJobs, NEW c, jb \in [1..n -> JobRecord(c)]
    PROVE  jb \in UNION {[1..k -> [client : 1..c, db : Databases]] : k \in 0..MaxJobs}
  BY DEF JobRecord

\* What a start makes of the jobs.
LEMMA NewJobEffect ==
    ASSUME TypeOK, NEW t \in Threads, th[t].db \in Databases, NewJob(t)
    PROVE  /\ job' \in [1..Len(job) + 1 -> JobRecord(clients)] /\ Len(job) + 1 \in 1..MaxJobs
           /\ DOMAIN job' = 1..Len(job) + 1 /\ job' # <<>>
           /\ \A j \in DOMAIN job : job'[j] = job[j]
           /\ job'[Len(job) + 1].client = cdcClient /\ job'[Len(job) + 1].db = th[t].db
           /\ running' = running \cup {Len(job) + 1}
  <1> DEFINE new == [client |-> cdcClient, db |-> th[t].db]
  <1>1. cdcClient \in 1..clients /\ Len(job) < MaxJobs /\ MaxJobs \in Nat
    BY ControlAssumption DEF TypeOK, NewJob
  <1>2. new \in JobRecord(clients) /\ new.client = cdcClient /\ new.db = th[t].db
    BY <1>1 DEF JobRecord
  <1>3. job' = Append(job, new) /\ running' = running \cup {Len(job) + 1}
    BY DEF NewJob
  <1> HIDE DEF new
  <1>4. /\ job' \in Seq(JobRecord(clients)) /\ Len(job') = Len(job) + 1
        /\ \A j \in 1..Len(job) : job'[j] = job[j]
        /\ job'[Len(job) + 1] = new
    BY <1>2, <1>3, JobForm, AppendProperties
  <1>5. Len(job) \in Nat /\ DOMAIN job = 1..Len(job)
    BY JobForm, <1>1
  <1>6. DOMAIN job' = 1..Len(job) + 1 /\ job' \in [1..Len(job) + 1 -> JobRecord(clients)]
    BY <1>4, <1>5
  <1>7. Len(job) + 1 \in 1..MaxJobs /\ job' # <<>>
    BY <1>1, <1>4, <1>5
  <1> QED
    BY <1>2, <1>3, <1>4, <1>5, <1>6, <1>7

\* Thread t becomes one with these fields, the others stay what they are.
Becomes(t, pc, db, id, last) ==
    /\ th' \in [Threads -> Thread]
    /\ th'[t].pc = pc /\ th'[t].db = db /\ th'[t].id = id
    /\ th'[t].last = last
    /\ \A u \in Threads : u # t => th'[u] = th[u]

\* It goes on, or leaves what it was doing; a stop ends its request, or goes on to close.
Goes(t, pc) == Becomes(t, pc, th[t].db, th[t].id, th[t].last)
Leaves(t) == Becomes(t, "idle", None, 0, FALSE)
EndsStop(t) == IF th[t].last THEN Goes(t, "close") ELSE Leaves(t)

\* A thread's fields, by its type.
LEMMA ThreadFields ==
    ASSUME TypeOK, NEW t \in Threads
    PROVE  /\ th[t] \in Thread
           /\ th[t].pc \in Pcs
           /\ th[t].db \in Databases \cup {None} /\ th[t].id \in 0..MaxJobs
           /\ th[t].last \in BOOLEAN
  BY DEF TypeOK, Thread

\* How a changed component of the function of threads is read.
LEMMA Becoming ==
    ASSUME TypeOK, NEW t \in Threads, NEW r \in Thread, th' = [th EXCEPT ![t] = r]
    PROVE  Becomes(t, r.pc, r.db, r.id, r.last)
  BY DEF TypeOK, Becomes

\* What the two ways to move a thread make of it, and what a stop makes of it.
LEMMA GotoEffect ==
    ASSUME TypeOK, NEW t \in Threads, NEW p \in Pcs, Goto(t, p)
    PROVE  Goes(t, p)
  <1> DEFINE r == [th[t] EXCEPT !.pc = p]
  <1>1. th' = [th EXCEPT ![t] = r]
    BY DEF Goto
  <1>2. r \in Thread
    BY ThreadFields DEF Thread
  <1>3. /\ r.pc = p /\ r.db = th[t].db /\ r.id = th[t].id
        /\ r.last = th[t].last
    BY ThreadFields DEF Thread
  <1> HIDE DEF r
  <1>4. Becomes(t, r.pc, r.db, r.id, r.last)
    BY <1>1, <1>2, Becoming
  <1> QED
    BY <1>3, <1>4 DEF Goes

\* The record of a thread that serves no request.
LEMMA IdleType == Idle \in Thread
  BY ControlAssumption DEF Idle, Thread, Pcs

\* A request that returns leaves its thread idle.
LEMMA ReturnEffect ==
    ASSUME TypeOK, NEW t \in Threads, Return(t)
    PROVE  Leaves(t)
  <1>1. Becomes(t, Idle.pc, Idle.db, Idle.id, Idle.last)
    BY IdleType, Becoming DEF Return
  <1> QED
    BY <1>1 DEF Idle, Leaves

\* So does a stop, unless it was called by cleanup().
LEMMA StopReturnsEffect ==
    ASSUME TypeOK, NEW t \in Threads, StopReturns(t)
    PROVE  EndsStop(t)
  BY GotoEffect, ReturnEffect DEF StopReturns, EndsStop, Pcs

\* What the steps of connect() and startStreaming() make of their thread.
LEMMA StartEffects ==
    ASSUME TypeOK, NEW t \in Threads
    PROVE  /\ Connect(t) => Goes(t, "assign")
           /\ Assign(t) => Goes(t, "dial")
           /\ Dial(t) => Goes(t, "login")
           /\ LoggedIn(t) \/ ConnectFails(t) => Leaves(t)
           /\ \A db \in Databases :
                 Start(t, db) => Becomes(t, "rpc", db, th[t].id, th[t].last)
           /\ Rpc(t) => Becomes(t, "setId", th[t].db, Len(job) + 1, th[t].last)
           /\ RpcFails(t) => Leaves(t)
           /\ SetId(t) => Goes(t, "setDb")
           /\ SetDb(t) => Goes(t, "setFlag")
           /\ SetFlag(t) => Leaves(t)
  <1>0. {"assign", "dial", "login", "rpc", "setId", "setDb", "setFlag"} \subseteq Pcs
    BY DEF Pcs
  <1>1. /\ Connect(t) => Goes(t, "assign")
        /\ SetId(t) => Goes(t, "setDb")
        /\ SetDb(t) => Goes(t, "setFlag")
    BY <1>0, GotoEffect DEF Connect, SetId, SetDb
  <1>2. LoggedIn(t) \/ ConnectFails(t) \/ RpcFails(t) \/ SetFlag(t) => Leaves(t)
    BY ReturnEffect DEF LoggedIn, ConnectFails, RpcFails, SetFlag
  <1>3. Assign(t) => Goes(t, "dial")
    BY <1>0, GotoEffect DEF Assign
  <1>6. Dial(t) => Goes(t, "login")
    BY <1>0, GotoEffect DEF Dial
  <1>4. ASSUME NEW db \in Databases, Start(t, db)
        PROVE  Becomes(t, "rpc", db, th[t].id, th[t].last)
    <2> DEFINE r == [th[t] EXCEPT !.pc = "rpc", !.db = db]
    <2>1. th' = [th EXCEPT ![t] = r]
      BY <1>4 DEF Start
    <2>2. r \in Thread
      BY <1>0, ThreadFields DEF Thread
    <2>3. /\ r.pc = "rpc" /\ r.db = db
          /\ r.id = th[t].id /\ r.last = th[t].last
      BY ThreadFields DEF Thread
    <2> HIDE DEF r
    <2>4. Becomes(t, r.pc, r.db, r.id, r.last)
      BY <2>1, <2>2, Becoming
    <2> QED
      BY <2>3, <2>4
  <1>5. ASSUME Rpc(t)
        PROVE  Becomes(t, "setId", th[t].db, Len(job) + 1, th[t].last)
    <2> DEFINE r == [th[t] EXCEPT !.pc = "setId", !.id = Len(job) + 1]
    <2>1. th' = [th EXCEPT ![t] = r]
      BY <1>5 DEF Rpc
    <2>2. Len(job) + 1 \in 0..MaxJobs
      BY <1>5, ControlAssumption, JobForm DEF Rpc, NewJob
    <2>3. r \in Thread
      BY <1>0, <2>2, ThreadFields DEF Thread
    <2>4. /\ r.pc = "setId" /\ r.db = th[t].db
          /\ r.id = Len(job) + 1 /\ r.last = th[t].last
      BY ThreadFields DEF Thread
    <2> HIDE DEF r
    <2>5. Becomes(t, r.pc, r.db, r.id, r.last)
      BY <2>1, <2>3, Becoming
    <2> QED
      BY <2>4, <2>5
  <1> QED
    BY <1>1, <1>2, <1>3, <1>4, <1>5, <1>6

\* What the steps of stopStreaming() and cleanup() make of their thread.
LEMMA StopEffects ==
    ASSUME TypeOK, NEW t \in Threads
    PROVE  /\ Stop(t) => Goes(t, "stopRpc")
           /\ Cleanup(t) => Becomes(t, IF isStreaming THEN "stopRpc" ELSE "close",
                                    th[t].db, th[t].id, TRUE)
           /\ StopRpc(t) => Goes(t, "clearFlag")
           /\ StopRpcFails(t) => EndsStop(t)
           /\ ClearFlag(t) => Goes(t, "clearId")
           /\ ClearId(t) => Goes(t, "clearDb")
           /\ ClearDb(t) => EndsStop(t)
           /\ Close(t) \/ CloseFails(t) => Leaves(t)
  <1>0. {"stopRpc", "clearFlag", "clearId", "clearDb", "close"} \subseteq Pcs
    BY DEF Pcs
  <1>1. /\ Stop(t) => Goes(t, "stopRpc")
        /\ StopRpc(t) => Goes(t, "clearFlag")
        /\ ClearFlag(t) => Goes(t, "clearId")
        /\ ClearId(t) => Goes(t, "clearDb")
    BY <1>0, GotoEffect DEF Stop, StopRpc, ClearFlag, ClearId
  <1>2. /\ StopRpcFails(t) \/ ClearDb(t) => EndsStop(t)
        /\ Close(t) \/ CloseFails(t) => Leaves(t)
    BY StopReturnsEffect, ReturnEffect DEF StopRpcFails, ClearDb, Close, CloseFails
  <1>3. ASSUME Cleanup(t)
        PROVE  Becomes(t, IF isStreaming THEN "stopRpc" ELSE "close", th[t].db,
                       th[t].id, TRUE)
    <2> DEFINE p == IF isStreaming THEN "stopRpc" ELSE "close"
               r == [th[t] EXCEPT !.pc = p, !.last = TRUE]
    <2>1. th' = [th EXCEPT ![t] = r]
      BY <1>3 DEF Cleanup
    <2>2. p \in Pcs
      BY <1>0
    <2> HIDE DEF p
    <2>3. r \in Thread
      BY <2>2, ThreadFields DEF Thread
    <2>4. /\ r.pc = p /\ r.db = th[t].db
          /\ r.id = th[t].id /\ r.last = TRUE
      BY ThreadFields DEF Thread
    <2> HIDE DEF r
    <2>5. Becomes(t, r.pc, r.db, r.id, r.last)
      BY <2>1, <2>3, Becoming
    <2> QED
      BY <2>4, <2>5 DEF p
  <1> QED
    BY <1>1, <1>2, <1>3

\* cleanup() stops the stream first if there is one.
LEMMA CleanupEffect ==
    ASSUME TypeOK, NEW t \in Threads, Cleanup(t)
    PROVE  /\ isStreaming => th'[t].pc = "stopRpc"
           /\ ~isStreaming => th'[t].pc = "close"
           /\ th'[t].last = TRUE
           /\ th[t].pc = "idle" /\ ~closed /\ closed' = TRUE
  <1>1. Becomes(t, IF isStreaming THEN "stopRpc" ELSE "close", th[t].db, th[t].id,
                TRUE)
    BY StopEffects
  <1>3. th'[t].pc = (IF isStreaming THEN "stopRpc" ELSE "close") /\ th'[t].last = TRUE
    BY <1>1, Zenon DEF Becomes
  <1>2. th[t].pc = "idle" /\ ~closed /\ closed' = TRUE
    BY DEF Cleanup, At
  <1> QED
    BY <1>2, <1>3

\* Spending keeps the budget a budget and gives nothing back.
LEMMA SpendEffect ==
    ASSUME TypeOK, NEW b \in BudgetKinds, Spend(b)
    PROVE  /\ budget' \in [BudgetKinds -> Nat]
           /\ budget'["answer"] = IF b = "answer" THEN budget["answer"] - 1
                                  ELSE budget["answer"]
  BY DEF TypeOK, Spend, BudgetKinds

-----------------------------------------------------------------------------
(* Types.                                                                  *)

\* The initial states are well typed.
LEMMA TypeInit == Init => TypeInv
  <1> SUFFICES ASSUME Init PROVE TypeInv
    OBVIOUS
  <1>1. th \in [Threads -> Thread] /\ LocalsFit
    BY IdleType DEF Init, LocalsFit, Idle
  <1>2. clients = 0 /\ MaxClients \in Nat /\ MaxJobs \in Nat /\ job = <<>>
    BY ControlAssumption DEF Init
  <1>3. job \in UNION {[1..n -> [client : 1..clients, db : Databases]] : n \in 0..MaxJobs}
    <2>1. job \in [1..0 -> JobRecord(0)]
      BY <1>2
    <2> QED
      BY <1>2, <2>1, JobType
  <1>4. isConnected \in BOOLEAN /\ isStreaming \in BOOLEAN /\ closed \in BOOLEAN
    BY Zenon DEF Init
  <1>5. /\ clients \in 0..MaxClients /\ cdcClient \in 0..clients
        /\ dialled \subseteq 1..clients /\ open \subseteq 1..clients
        /\ running \subseteq DOMAIN job /\ streamingId \in DOMAIN job \cup {0}
        /\ streamingDb \in Databases \cup {None} /\ budget \in [BudgetKinds -> Nat]
    BY <1>2, ControlAssumption DEF Init
  <1> QED
    BY <1>1, <1>3, <1>4, <1>5 DEF TypeInv, TypeOK

\* What no step undoes: client objects and jobs are only added, and what refers to
\* them stays within them.
ProxyGrows ==
    /\ clients' \in clients..MaxClients /\ cdcClient' \in 0..clients'
    /\ cdcClient' = cdcClient \/ cdcClient' # 0
    /\ dialled' \subseteq 1..clients' /\ open' \subseteq 1..clients'
    /\ \E n \in Len(job)..MaxJobs : job' \in [1..n -> JobRecord(clients)]
    /\ running' \subseteq DOMAIN job'
    /\ streamingId' \in DOMAIN job' \cup {0}

\* So every step does.
LEMMA ProxyStep ==
    ASSUME TypeInv, [Next]_vars
    PROVE  ProxyGrows
  <1> USE DEF TypeInv
  <1>0. /\ clients \in 0..MaxClients /\ MaxClients \in Nat /\ MaxJobs \in Nat
        /\ cdcClient \in 0..clients /\ dialled \subseteq 1..clients /\ open \subseteq 1..clients
        /\ Len(job) \in Len(job)..MaxJobs /\ job \in [1..Len(job) -> JobRecord(clients)]
        /\ running \subseteq DOMAIN job /\ streamingId \in DOMAIN job \cup {0}
    <2>1. /\ clients \in 0..MaxClients /\ cdcClient \in 0..clients
          /\ dialled \subseteq 1..clients /\ open \subseteq 1..clients
          /\ running \subseteq DOMAIN job /\ streamingId \in DOMAIN job \cup {0}
      BY DEF TypeOK
    <2>2. MaxClients \in Nat /\ MaxJobs \in Nat
      BY ControlAssumption
    <2>3. Len(job) \in 0..MaxJobs /\ job \in [1..Len(job) -> JobRecord(clients)]
      BY JobForm
    <2> QED
      BY <2>1, <2>2, <2>3
  <1>1. ASSUME job' = job, clients' = clients, cdcClient' = cdcClient,
               dialled' \subseteq 1..clients, open' \subseteq 1..clients,
               running' \subseteq running,
               streamingId' \in DOMAIN job \cup {0}
        PROVE  ProxyGrows
    <2>1. \E n \in Len(job)..MaxJobs : job' \in [1..n -> JobRecord(clients)]
      BY <1>0, <1>1
    <2>2. clients' \in clients..MaxClients /\ cdcClient' \in 0..clients'
      BY <1>0, <1>1
    <2>3. /\ dialled' \subseteq 1..clients' /\ open' \subseteq 1..clients'
          /\ running' \subseteq DOMAIN job'
      BY <1>0, <1>1, Zenon
    <2>4. streamingId' \in DOMAIN job' \cup {0}
      BY <1>1, Zenon
    <2> QED
      BY <1>1, <2>1, <2>2, <2>3, <2>4, Zenon DEF ProxyGrows
  <1>2. ASSUME NEW t \in Threads, Connect(t) \/ (\E db \in Databases : Start(t, db))
                                  \/ Stop(t) \/ Cleanup(t) \/ SetDb(t) \/ SetFlag(t)
                                  \/ ClearFlag(t) \/ ClearId(t) \/ ClearDb(t)
        PROVE  ProxyGrows
    BY <1>0, <1>1, <1>2 DEF Connect, Start, Stop, Cleanup, SetDb, SetFlag, ClearFlag, ClearId,
                            ClearDb, fields, proxy
  <1>3. ASSUME NEW t \in Threads, Assign(t) PROVE ProxyGrows
    <2>1. \E n \in Len(job)..MaxJobs : job' \in [1..n -> JobRecord(clients)]
      BY <1>0, <1>3 DEF Assign
    <2>2. /\ clients' = clients + 1 /\ cdcClient' = clients + 1 /\ clients < MaxClients
          /\ dialled' = dialled /\ open' = open /\ running' = running /\ job' = job
          /\ streamingId' = streamingId
      BY <1>3 DEF Assign
    <2>3. /\ clients' \in clients..MaxClients /\ cdcClient' \in 0..clients' /\ cdcClient' # 0
          /\ 1..clients \subseteq 1..clients'
      BY <1>0, <2>2
    <2>4. dialled' \subseteq 1..clients' /\ open' \subseteq 1..clients'
      BY <1>0, <2>2, <2>3, Zenon
    <2>5. running' \subseteq DOMAIN job' /\ streamingId' \in DOMAIN job' \cup {0}
      BY <1>0, <2>2, Zenon
    <2> QED
      BY <2>1, <2>3, <2>4, <2>5, Zenon DEF ProxyGrows
  <1>4. ASSUME NEW t \in Threads, Dial(t) \/ LoggedIn(t) \/ ConnectFails(t) PROVE ProxyGrows
    <2>1. cdcClient \in 1..clients
      BY <1>0, <1>4 DEF LocalsFit, Dial, LoggedIn, ConnectFails, Unexpected, At
    <2> QED
      BY <1>0, <1>1, <1>4, <2>1 DEF Dial, LoggedIn, ConnectFails, fields
  <1>5. ASSUME NEW t \in Threads, NewJob(t), th[t].db \in Databases, clients' = clients,
               cdcClient' = cdcClient, dialled' = dialled, open' = open,
               streamingId' = streamingId
        PROVE  ProxyGrows
    <2>1. /\ job' \in [1..Len(job) + 1 -> JobRecord(clients)]
          /\ Len(job) + 1 \in Len(job)..MaxJobs
          /\ DOMAIN job' = 1..Len(job) + 1 /\ DOMAIN job = 1..Len(job)
          /\ running' = running \cup {Len(job) + 1} /\ Len(job) \in Nat
      BY <1>0, <1>5, NewJobEffect, JobForm
    <2>2. \E n \in Len(job)..MaxJobs : job' \in [1..n -> JobRecord(clients)]
      BY <2>1
    <2>3. running' \subseteq DOMAIN job' /\ streamingId' \in DOMAIN job' \cup {0}
      BY <1>0, <1>5, <2>1
    <2> QED
      BY <1>0, <1>5, <2>2, <2>3 DEF ProxyGrows
  <1>6. ASSUME NEW t \in Threads, Rpc(t) \/ RpcFails(t) PROVE ProxyGrows
    <2>1. th[t].db \in Databases
      BY <1>6 DEF LocalsFit, Rpc, RpcFails, At
    <2>2. CASE NewJob(t)
      BY <1>5, <1>6, <2>1, <2>2 DEF Rpc, RpcFails, fields
    <2>3. CASE UNCHANGED <<job, running>>
      BY <1>0, <1>1, <1>6, <2>3 DEF Rpc, RpcFails, fields
    <2> QED
      BY <1>6, <2>2, <2>3 DEF Rpc, RpcFails
  <1>7. ASSUME NEW t \in Threads, SetId(t) PROVE ProxyGrows
    <2>1. th[t].id \in DOMAIN job
      BY <1>7 DEF LocalsFit, SetId, At
    <2> QED
      BY <1>0, <1>1, <1>7, <2>1 DEF SetId, proxy
  <1>8. ASSUME NEW t \in Threads, StopRpc(t) \/ StopRpcFails(t) \/ Close(t) \/ CloseFails(t)
        PROVE  ProxyGrows
    BY <1>0, <1>1, <1>8 DEF StopRpc, StopRpcFails, Close, CloseFails, Disconnect, fields
  <1>9. ASSUME GiveUp PROVE ProxyGrows
    BY <1>0, <1>1, <1>9 DEF GiveUp, Disconnect, fields
  <1>10. ASSUME UNCHANGED vars PROVE ProxyGrows
    BY <1>0, <1>1, <1>10 DEF vars
  <1> QED
    BY <1>2, <1>3, <1>4, <1>6, <1>7, <1>8, <1>9, <1>10, Zenon DEF Next, Request, Serve

\* The flags, the database that is reported and the budget stay well typed.
LEMMA FieldStep ==
    ASSUME TypeInv, [Next]_vars
    PROVE  /\ isConnected' \in BOOLEAN /\ isStreaming' \in BOOLEAN /\ closed' \in BOOLEAN
           /\ streamingDb' \in Databases \cup {None}
           /\ budget' \in [BudgetKinds -> Nat]
  <1> USE DEF TypeInv
  <1>1. isConnected' \in BOOLEAN /\ isStreaming' \in BOOLEAN /\ closed' \in BOOLEAN
    <2>1. isConnected \in BOOLEAN /\ isStreaming \in BOOLEAN /\ closed \in BOOLEAN
      BY DEF TypeOK
    <2>2. /\ isConnected' = isConnected \/ isConnected' = TRUE \/ isConnected' = FALSE
          /\ isStreaming' = isStreaming \/ isStreaming' = TRUE \/ isStreaming' = FALSE
          /\ closed' = closed \/ closed' = TRUE
      BY DEF Next, Request, Serve, Connect, Assign, Dial, LoggedIn, ConnectFails, Start, Rpc,
             RpcFails, SetId, SetDb, SetFlag, Stop, Cleanup, StopRpc, StopRpcFails,
             ClearFlag, ClearId, ClearDb, Close, CloseFails, Disconnect, GiveUp, fields, vars
    <2> QED
      BY <2>1, <2>2, Zenon
  <1>2. streamingDb' \in Databases \cup {None}
    <2>1. streamingDb \in Databases \cup {None}
      BY DEF TypeOK
    <2>2. ASSUME NEW t \in Threads, SetDb(t) PROVE streamingDb' \in Databases \cup {None}
      BY <2>2, ThreadFields DEF SetDb
    <2>3. \/ streamingDb' = streamingDb \/ streamingDb' = None
          \/ \E t \in Threads : SetDb(t)
      BY DEF Next, Request, Serve, Connect, Assign, Dial, LoggedIn, ConnectFails, Start, Rpc,
             RpcFails, SetId, SetFlag, Stop, Cleanup, StopRpc, StopRpcFails, ClearFlag,
             ClearId, ClearDb, Close, CloseFails, Disconnect, GiveUp, fields, vars
    <2> QED
      BY <2>1, <2>2, <2>3
  <1>3. budget' \in [BudgetKinds -> Nat]
    <2>1. budget' = budget \/ \E b \in BudgetKinds : Spend(b)
      BY DEF Next, Request, Serve, Connect, Assign, Dial, LoggedIn, ConnectFails, Start, Rpc,
             RpcFails, SetId, SetDb, SetFlag, Stop, Cleanup, StopRpc, StopRpcFails,
             ClearFlag, ClearId, ClearDb, Close, CloseFails, Disconnect, GiveUp, BudgetKinds,
             vars
    <2> QED
      BY <2>1, SpendEffect DEF TypeOK
  <1> QED
    BY <1>1, <1>2, <1>3

\* What a thread has in hand after its step fits where it is.
Fits(t) ==
    /\ th' \in [Threads -> Thread]
    /\ \A u \in Threads : u # t => th'[u] = th[u]
    /\ th'[t].pc \in {"dial", "login"} => cdcClient' # 0
    /\ th'[t].pc \in {"rpc", "setId", "setDb", "setFlag"} => th'[t].db \in Databases
    /\ th'[t].pc = "setId" => th'[t].id \in DOMAIN job'

\* The thread of a step, and what it has in hand afterwards.
LEMMA ThreadOfStep ==
    ASSUME TypeInv, [Next]_vars
    PROVE  th' = th \/ \E t \in Threads : Fits(t)
  <1> USE DEF TypeInv
  <1>1. ASSUME NEW t \in Threads, Connect(t) \/ LoggedIn(t) \/ ConnectFails(t) \/ RpcFails(t)
                                  \/ SetFlag(t)
        PROVE  Fits(t)
    BY <1>1, StartEffects DEF Goes, Leaves, Becomes, Fits
  <1>2. ASSUME NEW t \in Threads, Assign(t) \/ Dial(t) PROVE Fits(t)
    <2>1. cdcClient' # 0
      BY <1>2, ControlAssumption DEF Assign, Dial, LocalsFit, TypeOK, At, fields
    <2> QED
      BY <1>2, <2>1, StartEffects DEF Goes, Becomes, Fits
  <1>3. ASSUME NEW t \in Threads, NEW db \in Databases, Start(t, db) PROVE Fits(t)
    BY <1>3, StartEffects DEF Becomes, Fits
  <1>4. ASSUME NEW t \in Threads, Rpc(t) PROVE Fits(t)
    <2>1. th[t].db \in Databases
      BY <1>4 DEF LocalsFit, Rpc, At
    <2>2. Len(job) + 1 \in DOMAIN job'
      BY <1>4, <2>1, NewJobEffect, JobForm, ControlAssumption DEF Rpc
    <2> QED
      BY <1>4, <2>1, <2>2, StartEffects DEF Becomes, Fits
  <1>5. ASSUME NEW t \in Threads, SetId(t) \/ SetDb(t) PROVE Fits(t)
    <2>1. th[t].db \in Databases
      BY <1>5 DEF LocalsFit, SetId, SetDb, At
    <2> QED
      BY <1>5, <2>1, StartEffects DEF Goes, Becomes, Fits
  <1>6. ASSUME NEW t \in Threads, Stop(t) \/ Cleanup(t) \/ StopRpc(t) \/ StopRpcFails(t)
                                  \/ ClearFlag(t) \/ ClearId(t) \/ ClearDb(t) \/ Close(t)
                                  \/ CloseFails(t)
        PROVE  Fits(t)
    BY <1>6, StopEffects DEF EndsStop, Goes, Leaves, Becomes, Fits
  <1>7. GiveUp \/ UNCHANGED vars => th' = th
    BY DEF GiveUp, vars
  <1> QED
    BY <1>1, <1>2, <1>3, <1>4, <1>5, <1>6, <1>7, Zenon DEF Next, Request, Serve

\* Every step keeps the types, and what threads have in hand fits.
LEMMA TypeStep == TypeInv /\ [Next]_vars => TypeInv'
  <1> SUFFICES ASSUME TypeInv, [Next]_vars PROVE TypeInv'
    OBVIOUS
  <1>1. ProxyGrows
    BY ProxyStep
  <1>2. PICK n \in Len(job)..MaxJobs : job' \in [1..n -> JobRecord(clients)]
    BY <1>1 DEF ProxyGrows
  <1>3. /\ Len(job) \in Nat /\ MaxJobs \in Nat /\ clients \in Nat /\ clients' \in Nat
        /\ clients <= clients' /\ clients' \in 0..MaxClients
        /\ DOMAIN job = 1..Len(job)
    BY <1>1, JobForm, ControlAssumption DEF ProxyGrows, TypeInv, TypeOK
  <1>4. /\ job' \in UNION {[1..k -> [client : 1..clients', db : Databases]] : k \in 0..MaxJobs}
        /\ DOMAIN job \subseteq DOMAIN job'
    <2>1. JobRecord(clients) \subseteq JobRecord(clients')
      BY <1>3 DEF JobRecord
    <2>2. job' \in [1..n -> JobRecord(clients')] /\ n \in 0..MaxJobs
      BY <1>2, <1>3, <2>1
    <2>3. DOMAIN job \subseteq DOMAIN job'
      BY <1>2, <1>3
    <2>4. job' \in UNION {[1..k -> [client : 1..clients', db : Databases]] : k \in 0..MaxJobs}
      BY <2>2, JobType
    <2> QED
      BY <2>3, <2>4
  <1>5. TypeOK'
    <2>1. th' \in [Threads -> Thread]
      BY ThreadOfStep DEF Fits, TypeInv, TypeOK
    <2>2. /\ clients' \in 0..MaxClients /\ cdcClient' \in 0..clients'
          /\ dialled' \subseteq 1..clients' /\ open' \subseteq 1..clients'
          /\ running' \subseteq DOMAIN job' /\ streamingId' \in DOMAIN job' \cup {0}
      BY <1>1, <1>3, Zenon DEF ProxyGrows
    <2> QED
      BY <1>4, <2>1, <2>2, FieldStep, Zenon DEF TypeOK
  <1>6. LocalsFit'
    <2>1. CASE th' = th
      BY <1>1, <1>3, <1>4, <2>1 DEF ProxyGrows, TypeInv, LocalsFit
    <2>2. ASSUME NEW t \in Threads, Fits(t) PROVE LocalsFit'
      BY <1>1, <1>3, <1>4, <2>2 DEF ProxyGrows, TypeInv, LocalsFit, Fits
    <2> QED
      BY <2>1, <2>2, ThreadOfStep
  <1> QED
    BY <1>5, <1>6 DEF TypeInv

\* However many threads serve requests at once: the fields, the proxy's jobs and the
\* threads' variables are what they should be, no job is without a client object, and
\* what a thread has in hand when it uses it is not null.
THEOREM TypeCorrect == Spec => [](TypeOK /\ LocalsFit)
  <1>1. Init => TypeInv
    BY TypeInit
  <1>2. TypeInv /\ [Next]_vars => TypeInv'
    BY TypeStep
  <1>3. TypeInv => TypeOK /\ LocalsFit
    BY DEF TypeInv
  <1> QED
    BY <1>1, <1>2, <1>3, PTL DEF Spec

-----------------------------------------------------------------------------
(* One request at a time.                                                  *)

\* A step is one of the only thread there is, a lost connection, or none.
Act(t) == Request(t) \/ Serve(t)

\* Jobs are started on the client the field refers to, and it is replaced only while
\* there is none.
LEMMA ClientStep ==
    ASSUME TypeInv, NEW t \in Threads, ThreadInv(t), Act(t) \/ GiveUp \/ UNCHANGED vars
    PROVE  ClientInv(t)'
  <1> USE DEF TypeInv, ThreadInv
  <1>1. ASSUME job' = job, cdcClient' = cdcClient, isConnected' = isConnected,
               closed' = closed, ~(closed /\ At(t, "idle")) \/ th'[t].pc = "idle",
               th'[t].pc \in {"assign", "dial", "login"} => job = <<>>,
               th'[t].pc = "rpc" => isConnected
        PROVE  ClientInv(t)'
    BY <1>1 DEF ClientInv, At
  <1>2. ASSUME Connect(t) PROVE ClientInv(t)'
    BY <1>2, StartEffects DEF Connect, ClientInv, At, Goes, Becomes, fields, proxy
  <1>3. ASSUME Assign(t) PROVE ClientInv(t)'
    <2>1. job = <<>> /\ job' = <<>> /\ th'[t].pc = "dial"
      BY <1>3, StartEffects DEF Assign, ClientInv, At, Goes, Becomes
    <2>2. \A j \in DOMAIN job' : FALSE
      BY <2>1
    <2> QED
      BY <2>1, <2>2 DEF ClientInv, At
  <1>4. ASSUME LoggedIn(t) \/ ConnectFails(t) PROVE ClientInv(t)'
    BY <1>4, StartEffects DEF LoggedIn, ConnectFails, Unexpected, ClientInv, At, Leaves, Becomes
  <1>13. ASSUME Dial(t) PROVE ClientInv(t)'
    BY <1>1, <1>13, StartEffects DEF Dial, ClientInv, At, Goes, Becomes, fields
  <1>5. ASSUME NEW db \in Databases, Start(t, db) PROVE ClientInv(t)'
    BY <1>1, <1>5, StartEffects DEF Start, At, Becomes, fields, proxy
  <1>6. ASSUME Rpc(t) \/ RpcFails(t) PROVE ClientInv(t)'
    <2>1. /\ th[t].pc = "rpc" /\ th[t].db \in Databases /\ isConnected
          /\ isConnected' = isConnected /\ cdcClient' = cdcClient
          /\ th'[t].pc \in {"setId", "idle"}
      BY <1>6, StartEffects DEF Rpc, RpcFails, LocalsFit, ClientInv, At, Leaves, Becomes, fields
    <2>2. CASE NewJob(t)
      <3>1. /\ DOMAIN job' = 1..Len(job) + 1 /\ DOMAIN job = 1..Len(job)
            /\ Len(job) \in Nat
            /\ \A j \in DOMAIN job : job'[j] = job[j]
            /\ job'[Len(job) + 1].client = cdcClient
        BY <2>1, <2>2, NewJobEffect, JobForm, ControlAssumption
      <3>2. \A j \in DOMAIN job' : job'[j].client = cdcClient
        BY <3>1 DEF ClientInv
      <3> QED
        BY <2>1, <3>2 DEF ClientInv, At
    <2>3. CASE job' = job
      BY <2>1, <2>3 DEF ClientInv, At
    <2> QED
      BY <1>6, <2>2, <2>3 DEF Rpc, RpcFails
  <1>7. ASSUME SetId(t) \/ SetDb(t) \/ SetFlag(t) PROVE ClientInv(t)'
    BY <1>1, <1>7, StartEffects DEF SetId, SetDb, SetFlag, At, Goes, Leaves, Becomes, proxy
  <1>8. ASSUME Cleanup(t) PROVE ClientInv(t)'
    BY <1>8, CleanupEffect DEF Cleanup, ClientInv, At, fields, proxy
  <1>9. ASSUME Stop(t) \/ StopRpc(t) \/ ClearFlag(t) \/ ClearId(t) PROVE ClientInv(t)'
    BY <1>1, <1>9, StopEffects DEF Stop, StopRpc, ClearFlag, ClearId, At, Goes, Becomes,
                                   fields, proxy
  <1>10. ASSUME StopRpcFails(t) \/ ClearDb(t) PROVE ClientInv(t)'
    BY <1>1, <1>10, StopEffects DEF StopRpcFails, ClearDb, At, EndsStop, Goes, Leaves, Becomes,
                                    fields, proxy
  <1>11. ASSUME Close(t) PROVE ClientInv(t)'
    BY <1>11, StopEffects DEF Close, ClientInv, FlagInv, At, Leaves, Becomes
  <1>14. ASSUME CloseFails(t) PROVE ClientInv(t)'
    BY <1>14, StopEffects DEF CloseFails, ClientInv, FlagInv, At, Leaves, Becomes, fields
  <1>12. ASSUME GiveUp \/ UNCHANGED vars PROVE ClientInv(t)'
    BY <1>1, <1>12 DEF GiveUp, Disconnect, fields, vars, ClientInv, At
  <1> QED
    BY <1>2, <1>3, <1>4, <1>5, <1>6, <1>7, <1>8, <1>9, <1>10, <1>11, <1>12, <1>13, <1>14, Zenon
       DEF Act, Request, Serve

\* The flag follows the request.
LEMMA FlagStep ==
    ASSUME TypeInv, NEW t \in Threads, ThreadInv(t), Act(t) \/ GiveUp \/ UNCHANGED vars
    PROVE  FlagInv(t)'
  <1> USE DEF TypeInv, ThreadInv
  <1>1. ASSUME Connect(t) \/ Assign(t) \/ Dial(t) PROVE FlagInv(t)'
    BY <1>1, StartEffects DEF Connect, Assign, Dial, FlagInv, At, Goes, Becomes, fields,
                              StartPcs, StopPcs
  <1>2. ASSUME LoggedIn(t) \/ ConnectFails(t) \/ RpcFails(t) \/ SetFlag(t) PROVE FlagInv(t)'
    BY <1>2, StartEffects DEF LoggedIn, ConnectFails, Unexpected, RpcFails, SetFlag, FlagInv, At,
                              Leaves, Becomes, StartPcs, StopPcs
  <1>3. ASSUME NEW db \in Databases, Start(t, db) PROVE FlagInv(t)'
    BY <1>3, StartEffects DEF Start, FlagInv, At, Becomes, fields, StartPcs, StopPcs
  <1>4. ASSUME Rpc(t) \/ SetId(t) \/ SetDb(t) PROVE FlagInv(t)'
    BY <1>4, StartEffects DEF Rpc, SetId, SetDb, FlagInv, At, Goes, Becomes, fields, StartPcs,
                              StopPcs
  <1>5. ASSUME Cleanup(t) PROVE FlagInv(t)'
    BY <1>5, CleanupEffect DEF Cleanup, FlagInv, At, fields, StartPcs, StopPcs
  <1>6. ASSUME Stop(t) \/ StopRpc(t) \/ ClearFlag(t) \/ ClearId(t) PROVE FlagInv(t)'
    <2>1. ASSUME Stop(t) PROVE FlagInv(t)'
      BY <2>1, StopEffects DEF Stop, FlagInv, At, Goes, Becomes, fields, StartPcs, StopPcs
    <2>2. ASSUME StopRpc(t) PROVE FlagInv(t)'
      BY <2>2, StopEffects DEF StopRpc, FlagInv, At, Goes, Becomes, fields, StartPcs, StopPcs
    <2>3. ASSUME ClearFlag(t) PROVE FlagInv(t)'
      BY <2>3, StopEffects DEF ClearFlag, FlagInv, At, Goes, Becomes, fields, StartPcs, StopPcs
    <2>4. ASSUME ClearId(t) PROVE FlagInv(t)'
      BY <2>4, StopEffects DEF ClearId, FlagInv, At, Goes, Becomes, fields, StartPcs, StopPcs
    <2> QED
      BY <1>6, <2>1, <2>2, <2>3, <2>4
  <1>7. ASSUME StopRpcFails(t) \/ ClearDb(t) \/ Close(t) \/ CloseFails(t) PROVE FlagInv(t)'
    BY <1>7, StopEffects DEF StopRpcFails, ClearDb, Close, CloseFails, FlagInv, At, EndsStop,
                             Goes, Leaves, Becomes, fields, StartPcs, StopPcs
  <1>8. ASSUME GiveUp \/ UNCHANGED vars PROVE FlagInv(t)'
    BY <1>8 DEF GiveUp, Disconnect, fields, vars, FlagInv, At
  <1> QED
    BY <1>1, <1>2, <1>3, <1>4, <1>5, <1>6, <1>7, <1>8, Zenon DEF Act, Request, Serve

\* The fields tell the job that was started, and its database.
LEMMA FieldsStep ==
    ASSUME TypeInv, NEW t \in Threads, ThreadInv(t), Act(t) \/ GiveUp \/ UNCHANGED vars
    PROVE  FieldsInv(t)'
  <1> USE DEF TypeInv, ThreadInv
  <1>1. ASSUME Connect(t) \/ Assign(t) \/ Dial(t) PROVE FieldsInv(t)'
    BY <1>1, StartEffects DEF Connect, Assign, Dial, FieldsInv, At, Goes, Becomes, fields,
                              proxy, StartPcs
  <1>2. ASSUME LoggedIn(t) \/ ConnectFails(t) \/ CloseFails(t) PROVE FieldsInv(t)'
    <2>1. /\ th'[t].pc = "idle" /\ isStreaming' = isStreaming /\ streamingId' = streamingId
          /\ streamingDb' = streamingDb /\ job' = job
      BY <1>2, StartEffects, StopEffects DEF LoggedIn, ConnectFails, CloseFails, Leaves,
                                             Becomes, fields
    <2> QED
      BY <2>1 DEF FieldsInv, StartPcs
  <1>3. ASSUME NEW db \in Databases, Start(t, db) PROVE FieldsInv(t)'
    BY <1>3, StartEffects DEF Start, FieldsInv, At, Becomes, fields, proxy, StartPcs
  <1>4. ASSUME Rpc(t) PROVE FieldsInv(t)'
    <2>1. th[t].pc = "rpc" /\ th[t].db \in Databases /\ ~isStreaming /\ ~isStreaming'
      BY <1>4 DEF Rpc, LocalsFit, FlagInv, At, fields
    <2>2. Len(job) + 1 \in DOMAIN job' /\ job'[Len(job) + 1].db = th[t].db
      BY <1>4, <2>1, NewJobEffect, JobForm, ControlAssumption DEF Rpc
    <2> QED
      BY <1>4, <2>1, <2>2, StartEffects DEF FieldsInv, Becomes, StartPcs
  <1>5. ASSUME RpcFails(t) PROVE FieldsInv(t)'
    BY <1>5, StartEffects DEF RpcFails, FieldsInv, Leaves, Becomes, StartPcs
  <1>6. ASSUME SetId(t) \/ SetDb(t) PROVE FieldsInv(t)'
    BY <1>6, StartEffects DEF SetId, SetDb, FieldsInv, FlagInv, At, Goes, Becomes, proxy,
                              StartPcs
  <1>7. ASSUME SetFlag(t) PROVE FieldsInv(t)'
    BY <1>7, StartEffects DEF SetFlag, FieldsInv, At, Leaves, Becomes, proxy, StartPcs
  <1>8. ASSUME Stop(t) \/ Cleanup(t) PROVE FieldsInv(t)'
    <2>1. /\ th'[t].pc \in {"stopRpc", "close"} /\ isStreaming' = isStreaming
          /\ streamingId' = streamingId /\ streamingDb' = streamingDb /\ job' = job
      BY <1>8, StopEffects, CleanupEffect DEF Stop, Cleanup, Goes, Becomes, fields, proxy
    <2> QED
      BY <2>1 DEF FieldsInv, StartPcs
  <1>9. ASSUME StopRpc(t) PROVE FieldsInv(t)'
    <2>1. th[t].pc = "stopRpc" /\ isStreaming /\ streamingId \in DOMAIN job /\ streamingId # 0
      BY <1>9, JobForm DEF StopRpc, FlagInv, FieldsInv, At
    <2>2. streamingId' \notin running'
      BY <1>9, <2>1 DEF StopRpc, fields
    <2> QED
      BY <1>9, <2>1, <2>2, StopEffects DEF StopRpc, FieldsInv, Goes, Becomes, fields, StartPcs
  <1>10. ASSUME StopRpcFails(t) PROVE FieldsInv(t)'
    BY <1>10, StopEffects DEF StopRpcFails, FieldsInv, At, EndsStop, Goes, Leaves, Becomes,
                              fields, StartPcs
  <1>11. ASSUME ClearFlag(t) \/ ClearId(t) \/ Close(t) PROVE FieldsInv(t)'
    <2>1. th'[t].pc \in {"clearId", "clearDb", "idle"}
      BY <1>11, StopEffects DEF ClearFlag, ClearId, Close, Goes, Leaves, Becomes
    <2>2. ~isStreaming'
      BY <1>11 DEF ClearFlag, ClearId, Close, FlagInv, At
    <2> QED
      BY <2>1, <2>2 DEF FieldsInv, StartPcs
  <1>12. ASSUME ClearDb(t) PROVE FieldsInv(t)'
    BY <1>12, StopEffects DEF ClearDb, FieldsInv, FlagInv, At, EndsStop, Goes, Leaves, Becomes,
                              StartPcs
  <1>13. ASSUME GiveUp \/ UNCHANGED vars PROVE FieldsInv(t)'
    BY <1>13 DEF GiveUp, Disconnect, fields, vars, FieldsInv
  <1> QED
    BY <1>1, <1>2, <1>3, <1>4, <1>5, <1>6, <1>7, <1>8, <1>9, <1>10, <1>11, <1>12, <1>13, Zenon
       DEF Act, Request, Serve

\* The jobs that run are finitely many.
LEMMA UnknownFinite ==
    ASSUME TypeInv, NEW t
    PROVE  IsFiniteSet(running \ Known(t))
  <1>1. Len(job) \in Int /\ running \ Known(t) \subseteq 1..Len(job)
    BY JobForm, ControlAssumption DEF TypeInv, TypeOK
  <1>2. IsFiniteSet(1..Len(job))
    BY <1>1, FS_Interval
  <1> QED
    BY <1>1, <1>2, FS_Subset

\* Fewer jobs that are not known, and no answer lost, do not change the count.
LEMMA CountKept ==
    ASSUME TypeInv, TypeInv', NEW t \in Threads, ThreadInv(t),
           running' \ Known(t)' \subseteq running \ Known(t),
           budget'["answer"] <= budget["answer"]
    PROVE  CountInv(t)'
  <1>1. budget["answer"] \in Nat /\ budget'["answer"] \in Nat /\ Budget["answer"] \in Nat
    BY ControlAssumption DEF TypeInv, TypeOK, BudgetKinds
  <1>2. IsFiniteSet(running \ Known(t))
    BY UnknownFinite
  <1>3. /\ Cardinality(running' \ Known(t)') <= Cardinality(running \ Known(t))
        /\ Cardinality(running \ Known(t)) \in Nat
        /\ Cardinality(running' \ Known(t)') \in Nat
    <2>1. IsFiniteSet(running' \ Known(t)')
      BY <1>2, FS_Subset, Zenon
    <2> QED
      BY <1>2, <2>1, FS_Subset, FS_CardinalityType
  <1> DEFINE m == Cardinality(running \ Known(t))
             n == Cardinality(running' \ Known(t)')
  <1>4. m <= Budget["answer"] - budget["answer"]
    BY DEF ThreadInv, CountInv, AnswersLost
  <1>5. n <= m /\ m \in Nat /\ n \in Nat
    BY <1>3
  <1> HIDE DEF m, n
  <1>6. n <= Budget["answer"] - budget'["answer"]
    BY <1>1, <1>4, <1>5
  <1> QED
    BY <1>6 DEF n, CountInv, AnswersLost

\* A job that a lost answer leaves running is counted by it.
LEMMA CountGrows ==
    ASSUME TypeInv, TypeInv', NEW t \in Threads, ThreadInv(t),
           NEW j, running' \ Known(t)' \subseteq (running \ Known(t)) \cup {j},
           budget'["answer"] = budget["answer"] - 1
    PROVE  CountInv(t)'
  <1>1. budget["answer"] \in Nat /\ budget'["answer"] \in Nat /\ Budget["answer"] \in Nat
    BY ControlAssumption DEF TypeInv, TypeOK, BudgetKinds
  <1> DEFINE S == running \ Known(t)
             S2 == running' \ Known(t)'
             m == Cardinality(S)
             n == Cardinality(S2)
  <1>2. IsFiniteSet(S)
    BY UnknownFinite
  <1>3. S2 \subseteq S \cup {j}
    OBVIOUS
  <1>4. m <= Budget["answer"] - budget["answer"]
    BY DEF ThreadInv, CountInv, AnswersLost
  <1> HIDE DEF S, S2
  <1>5. n <= m + 1 /\ m \in Nat /\ n \in Nat
    <2>1. IsFiniteSet(S \cup {j}) /\ Cardinality(S \cup {j}) \in {m, m + 1}
      BY <1>2, FS_AddElement
    <2>2. IsFiniteSet(S2) /\ Cardinality(S2) <= Cardinality(S \cup {j})
      BY <1>3, <2>1, FS_Subset
    <2>3. m \in Nat /\ n \in Nat /\ Cardinality(S \cup {j}) \in Nat
      BY <1>2, <2>1, <2>2, FS_CardinalityType
    <2> DEFINE k == Cardinality(S \cup {j})
    <2>4. k \in {m, m + 1} /\ n <= k /\ m \in Nat /\ n \in Nat
      BY <2>1, <2>2, <2>3
    <2> HIDE DEF k, m, n
    <2> QED
      BY <2>4
  <1> HIDE DEF m, n
  <1>6. n <= Budget["answer"] - budget'["answer"]
    BY <1>1, <1>4, <1>5
  <1> QED
    BY <1>6 DEF n, S2, CountInv, AnswersLost

\* A step leaves no job behind that is not known, unless it loses an answer.
LEMMA CountStep ==
    ASSUME TypeInv, TypeInv', NEW t \in Threads, ThreadInv(t),
           Act(t) \/ GiveUp \/ UNCHANGED vars
    PROVE  CountInv(t)'
  <1> USE DEF TypeInv, ThreadInv
  <1>0. /\ \A b \in BudgetKinds : Spend(b) => budget'["answer"] <= budget["answer"]
        /\ budget["answer"] \in Nat
    BY SpendEffect DEF TypeOK, BudgetKinds
  <1>1. ASSUME running' \subseteq running, isStreaming' = isStreaming,
               streamingId' = streamingId,
               th[t].pc \notin StartPcs, th'[t].pc \notin StartPcs,
               budget' = budget \/ \E b \in BudgetKinds : Spend(b)
        PROVE  CountInv(t)'
    <2>1. Known(t)' = Known(t)
      BY <1>1 DEF Known, Controlled
    <2>2. budget'["answer"] <= budget["answer"]
      BY <1>0, <1>1
    <2> QED
      BY <1>1, <2>1, <2>2, CountKept
  <1>2. ASSUME Connect(t) \/ Assign(t) \/ Dial(t) \/ LoggedIn(t) \/ ConnectFails(t)
        PROVE  CountInv(t)'
    BY <1>1, <1>2, StartEffects DEF Connect, Assign, Dial, LoggedIn, ConnectFails, Unexpected,
                                    At, Goes, Leaves, Becomes, fields, proxy, StartPcs,
                                    BudgetKinds
  <1>3. ASSUME NEW db \in Databases, Start(t, db) PROVE CountInv(t)'
    BY <1>1, <1>3, StartEffects DEF Start, At, Becomes, fields, proxy, StartPcs, BudgetKinds
  <1>4. ASSUME Rpc(t) PROVE CountInv(t)'
    <2>1. /\ th[t].pc = "rpc" /\ th'[t].pc = "setId" /\ th'[t].id = Len(job) + 1
          /\ running' = running \cup {Len(job) + 1} /\ budget' = budget
          /\ ~isStreaming
      BY <1>4, StartEffects DEF Rpc, NewJob, FlagInv, At, Becomes
    <2>2. Known(t) = {} /\ Known(t)' = {Len(job) + 1}
      BY <2>1 DEF Known, Controlled, StartPcs
    <2> QED
      BY <1>0, <2>1, <2>2, CountKept
  <1>5. ASSUME RpcFails(t) PROVE CountInv(t)'
    <2>1. /\ th[t].pc = "rpc" /\ th'[t].pc = "idle" /\ ~isStreaming /\ isStreaming' = FALSE
      BY <1>5, StartEffects DEF RpcFails, FlagInv, At, Leaves, Becomes
    <2>2. Known(t) = {} /\ Known(t)' = {}
      BY <2>1 DEF Known, Controlled, StartPcs
    <2>3. CASE Spend("answer") /\ NewJob(t)
      <3>1. running' = running \cup {Len(job) + 1}
        BY <2>3 DEF NewJob
      <3>2. budget'["answer"] = budget["answer"] - 1
        BY <2>3, SpendEffect DEF BudgetKinds
      <3> QED
        BY <2>2, <3>1, <3>2, CountGrows
    <2>4. CASE UNCHANGED running /\ (Spend("fail") \/ UNCHANGED budget)
      <3>1. budget'["answer"] <= budget["answer"]
        BY <1>0, <2>4 DEF BudgetKinds
      <3> QED
        BY <2>2, <2>4, <3>1, CountKept
    <2> QED
      BY <1>5, <2>3, <2>4 DEF RpcFails
  <1>6. ASSUME SetId(t) \/ SetDb(t) PROVE CountInv(t)'
    <2>1. /\ th[t].pc \in StartPcs /\ th'[t].pc \in StartPcs /\ th'[t].id = th[t].id
          /\ running' = running /\ budget' = budget
      BY <1>6, StartEffects DEF SetId, SetDb, At, Goes, Becomes, proxy, StartPcs
    <2>2. Known(t)' = Known(t)
      BY <2>1 DEF Known
    <2> QED
      BY <1>0, <2>1, <2>2, CountKept
  <1>7. ASSUME SetFlag(t) PROVE CountInv(t)'
    <2>1. /\ th[t].pc = "setFlag" /\ th'[t].pc = "idle" /\ isStreaming' = TRUE
          /\ streamingId' = streamingId /\ streamingId = th[t].id
          /\ running' = running /\ budget' = budget
      BY <1>7, StartEffects DEF SetFlag, FieldsInv, At, Leaves, Becomes, proxy
    <2>2. Known(t)' = Known(t)
      BY <2>1 DEF Known, Controlled, StartPcs
    <2> QED
      BY <1>0, <2>1, <2>2, CountKept
  <1>8. ASSUME Stop(t) \/ Cleanup(t) PROVE CountInv(t)'
    <2>1. th[t].pc \notin StartPcs /\ th'[t].pc \notin StartPcs
      BY <1>8, StopEffects, CleanupEffect DEF Stop, At, Goes, Becomes, StartPcs
    <2> QED
      BY <1>1, <1>8, <2>1 DEF Stop, Cleanup, fields, proxy, BudgetKinds
  <1>9. ASSUME StopRpc(t) \/ StopRpcFails(t) PROVE CountInv(t)'
    <2>1. th[t].pc \notin StartPcs /\ th'[t].pc \notin StartPcs
      BY <1>9, StopEffects DEF StopRpc, StopRpcFails, At, EndsStop, Goes, Leaves, Becomes,
                               StartPcs
    <2> QED
      BY <1>1, <1>9, <2>1 DEF StopRpc, StopRpcFails, fields, BudgetKinds
  <1>10. ASSUME ClearFlag(t) PROVE CountInv(t)'
    <2>1. /\ th[t].pc = "clearFlag" /\ th'[t].pc = "clearId" /\ isStreaming' = FALSE
          /\ isStreaming /\ streamingId \notin running
          /\ running' = running /\ budget' = budget
      BY <1>10, StopEffects DEF ClearFlag, FlagInv, FieldsInv, At, Goes, Becomes, proxy
    <2>2. Known(t) = {streamingId} /\ Known(t)' = {}
      BY <2>1 DEF Known, Controlled, StartPcs
    <2> QED
      BY <1>0, <2>1, <2>2, CountKept
  <1>11. ASSUME ClearId(t) \/ ClearDb(t) PROVE CountInv(t)'
    <2>1. /\ th[t].pc \notin StartPcs /\ th'[t].pc \notin StartPcs
          /\ ~isStreaming /\ isStreaming' = isStreaming
          /\ running' = running /\ budget' = budget
      BY <1>11, StopEffects DEF ClearId, ClearDb, FlagInv, At, EndsStop, Goes, Leaves, Becomes,
                                StartPcs, proxy
    <2>2. Known(t) = {} /\ Known(t)' = {}
      BY <2>1 DEF Known, Controlled
    <2> QED
      BY <1>0, <2>1, <2>2, CountKept
  <1>12. ASSUME Close(t) PROVE CountInv(t)'
    <2>1. running' = {} /\ budget' = budget
      BY <1>12 DEF Close, Disconnect, ClientInv, TypeOK
    <2> QED
      BY <1>0, <2>1, CountKept
  <1>15. ASSUME CloseFails(t) PROVE CountInv(t)'
    BY <1>1, <1>15, StopEffects DEF CloseFails, Disconnect, At, Leaves, Becomes, fields,
                                    StartPcs, BudgetKinds
  <1>13. ASSUME GiveUp PROVE CountInv(t)'
    <2>1. running' \subseteq running /\ Spend("link") /\ th' = th /\ UNCHANGED fields
      BY <1>13 DEF GiveUp, Disconnect
    <2>2. Known(t)' = Known(t)
      BY <2>1 DEF Known, Controlled, fields
    <2> QED
      BY <1>0, <2>1, <2>2, CountKept DEF BudgetKinds
  <1>14. ASSUME UNCHANGED vars PROVE CountInv(t)'
    BY <1>14 DEF vars, CountInv, AnswersLost, Known, Controlled
  <1> QED
    BY <1>2, <1>3, <1>4, <1>5, <1>6, <1>7, <1>8, <1>9, <1>10, <1>11, <1>12, <1>13, <1>14,
       <1>15, Zenon
       DEF Act, Request, Serve

\* cleanup() closes the connection that every job was started on.
LEMMA CleanStep ==
    ASSUME TypeInv, NEW t \in Threads, ThreadInv(t), Act(t) \/ GiveUp \/ UNCHANGED vars
    PROVE  CleanInv(t)'
  <1> USE DEF TypeInv, ThreadInv
  <1>1. ASSUME Connect(t) \/ (\E db \in Databases : Start(t, db)) \/ Stop(t) \/ Cleanup(t)
        PROVE  th'[t].pc # "idle"
    BY <1>1, StartEffects, StopEffects, CleanupEffect DEF Connect, Start, Stop, Goes, Becomes
  <1>2. ASSUME Assign(t) \/ Dial(t) \/ Rpc(t) \/ SetId(t) \/ SetDb(t) \/ StopRpc(t)
                \/ ClearFlag(t) \/ ClearId(t)
        PROVE  th'[t].pc # "idle"
    BY <1>2, StartEffects, StopEffects DEF Goes, Becomes
  <1>3. ASSUME LoggedIn(t) \/ ConnectFails(t) \/ RpcFails(t) \/ SetFlag(t) PROVE ~closed'
    BY <1>3 DEF LoggedIn, ConnectFails, Unexpected, RpcFails, SetFlag, FlagInv, At, StopPcs
  <1>4. ASSUME StopRpcFails(t) \/ ClearDb(t) PROVE ~closed' \/ th'[t].pc # "idle"
    BY <1>4, StopEffects DEF StopRpcFails, ClearDb, FlagInv, At, EndsStop, Goes, Becomes
  <1>5. ASSUME Close(t) PROVE running' = {}
    BY <1>5 DEF Close, Disconnect, ClientInv, TypeOK
  <1>7. ASSUME CloseFails(t) PROVE isConnected' \/ running' = {}
    <2>1. isConnected' = isConnected /\ running' \subseteq running /\ th[t].pc = "close"
      BY <1>7 DEF CloseFails, Disconnect, At, fields
    <2>2. ~isConnected => running = {}
      BY <2>1 DEF ClientInv, At, TypeOK
    <2> QED
      BY <2>1, <2>2
  <1>6. ASSUME GiveUp \/ UNCHANGED vars PROVE CleanInv(t)'
    BY <1>6 DEF GiveUp, Disconnect, fields, vars, CleanInv, At
  <1> QED
    BY <1>1, <1>2, <1>3, <1>4, <1>5, <1>6, <1>7 DEF Act, Request, Serve, CleanInv, At

\* The initial states.
LEMMA SerialInit == Init => SerialInv
  <1> SUFFICES ASSUME Init PROVE SerialInv
    OBVIOUS
  <1>1. ASSUME NEW t \in Threads PROVE th[t].pc = "idle" /\ th[t].last = FALSE
    BY <1>1 DEF Init, Idle
  <1>2. /\ job = <<>> /\ running = {} /\ isStreaming = FALSE /\ closed = FALSE
        /\ budget = Budget /\ \A j \in DOMAIN job : FALSE
    BY DEF Init
  <1>3. ASSUME NEW t \in Threads
        PROVE  ClientInv(t) /\ FlagInv(t) /\ FieldsInv(t) /\ CleanInv(t)
    BY <1>1, <1>2 DEF ClientInv, FlagInv, FieldsInv, CleanInv, StartPcs, At
  <1>4. ASSUME NEW t \in Threads PROVE CountInv(t)
    <2>1. Cardinality(running \ Known(t)) = 0
      <3>1. running \ Known(t) = {}
        BY <1>2
      <3> QED
        BY <3>1, FS_EmptySet
    <2>2. Budget["answer"] \in Nat /\ AnswersLost = Budget["answer"] - Budget["answer"]
      BY <1>2, ControlAssumption DEF AnswersLost, BudgetKinds
    <2> QED
      BY <2>1, <2>2 DEF CountInv
  <1> QED
    BY <1>2, <1>3, <1>4 DEF SerialInv, ThreadInv

\* With one thread at most, a step is its step or a lost connection.
LEMMA SerialStep ==
    ASSUME OneThread, TypeInv, TypeInv', SerialInv, [Next]_vars
    PROVE  SerialInv'
  <1>1. ASSUME NEW t \in Threads PROVE ThreadInv(t)'
    <2>1. ThreadInv(t)
      BY <1>1 DEF SerialInv
    <2>2. Act(t) \/ GiveUp \/ UNCHANGED vars
      BY <1>1 DEF OneThread, Next, Act
    <2> QED
      BY <2>1, <2>2, ClientStep, FlagStep, FieldsStep, CountStep, CleanStep DEF ThreadInv
  <1>2. Threads = {} => running' = {} /\ budget'["answer"] = Budget["answer"]
    <2>1. Threads = {} => GiveUp \/ UNCHANGED vars
      BY DEF Next
    <2>2. Spend("link") => budget'["answer"] = budget["answer"]
      BY SpendEffect DEF TypeInv, BudgetKinds
    <2> QED
      BY <2>1, <2>2 DEF SerialInv, GiveUp, Disconnect, vars
  <1> QED
    BY <1>1, <1>2 DEF SerialInv

\* One request at a time, the conjuncts together are an inductive invariant.
THEOREM Serial ==
    ASSUME OneThread
    PROVE  Spec => [](TypeInv /\ SerialInv)
  <1>1. Init => TypeInv /\ SerialInv
    BY TypeInit, SerialInit
  <1>2. TypeInv /\ SerialInv /\ [Next]_vars => (TypeInv /\ SerialInv)'
    BY TypeStep, SerialStep
  <1> QED
    BY <1>1, <1>2, PTL DEF Spec

\* One request at a time: a job that runs at the proxy is the one the service knows and
\* of the database it reports, but for one for each answer that was lost.
THEOREM Controls ==
    ASSUME OneThread
    PROVE  Spec => []JobsAreControlled
  <1>1. TypeInv /\ SerialInv => JobsAreControlled
    <2> SUFFICES ASSUME TypeInv, SerialInv, AllIdle PROVE
            /\ Cardinality(running \ Controlled) <= AnswersLost
            /\ \A j \in running \cap Controlled : job[j].db = streamingDb
      BY DEF JobsAreControlled
    <2>1. CASE Threads = {}
      <3>1. running = {} /\ budget["answer"] = Budget["answer"]
        BY <2>1 DEF SerialInv
      <3>2. running \ Controlled = {} /\ Cardinality({}) = 0
        BY <3>1, FS_EmptySet
      <3>3. AnswersLost = 0
        BY <3>1, ControlAssumption DEF AnswersLost, BudgetKinds
      <3> QED
        BY <3>1, <3>2, <3>3
    <2>2. ASSUME NEW t \in Threads
          PROVE  /\ Cardinality(running \ Controlled) <= AnswersLost
                 /\ \A j \in running \cap Controlled : job[j].db = streamingDb
      <3>1. th[t].pc = "idle" /\ ThreadInv(t)
        BY <2>2 DEF AllIdle, At, SerialInv
      <3>2. Known(t) = Controlled
        BY <3>1 DEF Known, StartPcs
      <3> QED
        BY <3>1, <3>2 DEF ThreadInv, CountInv, FieldsInv, Controlled
    <2> QED
      BY <2>1, <2>2
  <1> QED
    BY <1>1, Serial, PTL

\* One request at a time: when cleanup() is done no job runs at the proxy, unless closing
\* the connection failed and it is still reported as connected.
THEOREM CleansUp ==
    ASSUME OneThread
    PROVE  Spec => []CleanupLeavesNothing
  <1>1. SerialInv => CleanupLeavesNothing
    BY DEF SerialInv, ThreadInv, CleanInv, CleanupLeavesNothing, AllIdle
  <1> QED
    BY <1>1, Serial, PTL

=============================================================================
