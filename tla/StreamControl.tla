--------------------------- MODULE StreamControl ---------------------------
(***************************************************************************)
(* How CDCClientService connects to the proxy, starts a streaming job and  *)
(* stops it: connect(), startStreaming(), stopStreaming() and cleanup(),   *)
(* run by concurrent threads over fields that no method locks.  A step is  *)
(* one access to a shared field or one call of the proxy.                  *)
(*                                                                         *)
(* The CDC client library and the proxy are external: a call may fail      *)
(* before it has an effect, or have its effect and lose the answer; the    *)
(* retry handler gives a lost connection up after its attempts.            *)
(***************************************************************************)
EXTENDS Integers, Sequences, FiniteSets

CONSTANTS
    Threads,     \* threads that serve requests
    Databases,   \* databases that can be streamed
    None,        \* null
    MaxClients,  \* bound on the CDCClient objects created
    MaxJobs,     \* bound on the jobs started
    Budget       \* bound on requests, failed calls, lost answers, lost connections

BudgetKinds == {"start", "stop", "fail", "answer", "link"}

ASSUME ControlAssumption ==
    /\ None \notin Databases
    /\ MaxClients \in Nat /\ MaxJobs \in Nat
    /\ Budget \in [BudgetKinds -> Nat]

VARIABLES
    isConnected, isStreaming,
    streamingId,    \* currentStreamingId: a job or 0 for null
    streamingDb,    \* currentStreamingDatabase
    cdcClient,      \* the field: a client object or 0 for null
    dialled,        \* client objects with a connection, ...
    open,           \* ... and those that are logged in
    clients,        \* number of client objects created
    job,            \* job[j]: client and database of the j-th job started
    running,        \* jobs that run at the proxy
    th,             \* the threads: where they are and their local variables
    closed,         \* cleanup() has begun: the server takes no more requests
    budget          \* what is left of Budget

fields == <<isConnected, isStreaming, streamingId, streamingDb, cdcClient>>
proxy == <<dialled, open, clients, job, running>>
vars == <<isConnected, isStreaming, streamingId, streamingDb, cdcClient, dialled, open,
          clients, job, running, th, closed, budget>>

Pcs == {"idle", "assign", "dial", "login", "rpc", "setId", "setDb", "setFlag",
        "stopRpc", "clearFlag", "clearId", "clearDb", "close"}

\* db: parameter of startStreaming;
\* id: what the library's startStreaming returned; last: called by cleanup().
Thread == [pc : Pcs, db : Databases \cup {None}, id : 0..MaxJobs, last : BOOLEAN]
Idle == [pc |-> "idle", db |-> None, id |-> 0, last |-> FALSE]

At(t, pc) == th[t].pc = pc
Goto(t, pc) == th' = [th EXCEPT ![t].pc = pc]
Return(t) == th' = [th EXCEPT ![t] = Idle]
\* stopStreaming() returns to its request, or to cleanup().
StopReturns(t) == IF th[t].last THEN Goto(t, "close") ELSE Return(t)

Spend(b) == /\ budget[b] > 0
            /\ budget' = [budget EXCEPT ![b] = @ - 1]

TypeOK ==
    /\ isConnected \in BOOLEAN /\ isStreaming \in BOOLEAN /\ closed \in BOOLEAN
    /\ clients \in 0..MaxClients
    /\ cdcClient \in 0..clients /\ dialled \subseteq 1..clients /\ open \subseteq 1..clients
    /\ job \in UNION {[1..n -> [client : 1..clients, db : Databases]] : n \in 0..MaxJobs}
    /\ running \subseteq DOMAIN job
    /\ streamingId \in DOMAIN job \cup {0}
    /\ streamingDb \in Databases \cup {None}
    /\ th \in [Threads -> Thread]
    /\ budget \in [BudgetKinds -> Nat]

Init ==
    /\ isConnected = FALSE /\ isStreaming = FALSE
    /\ streamingId = 0 /\ streamingDb = None
    /\ cdcClient = 0 /\ dialled = {} /\ open = {} /\ clients = 0
    /\ job = <<>> /\ running = {}
    /\ th = [t \in Threads |-> Idle]
    /\ closed = FALSE
    /\ budget = Budget

-----------------------------------------------------------------------------
(* connect()                                                               *)

Connect(t) ==
    /\ At(t, "idle") /\ ~closed
    /\ ~isConnected
    /\ Goto(t, "assign")
    /\ UNCHANGED <<fields, proxy, closed, budget>>

\* A new client object replaces whatever the field held.
Assign(t) ==
    /\ At(t, "assign")
    /\ clients < MaxClients
    /\ clients' = clients + 1 /\ cdcClient' = clients + 1
    /\ Goto(t, "dial")
    /\ UNCHANGED <<isConnected, isStreaming, streamingId, streamingDb, dialled, open, job,
                   running, closed, budget>>

\* connect of the library, on the object the field refers to by now, ...
Dial(t) ==
    /\ At(t, "dial")
    /\ dialled' = dialled \cup {cdcClient}
    /\ Goto(t, "login")
    /\ UNCHANGED <<fields, open, clients, job, running, closed, budget>>

\* ... login on what it refers to then, and the flag.
LoggedIn(t) ==
    /\ At(t, "login")
    /\ cdcClient \in dialled
    /\ open' = open \cup {cdcClient}
    /\ isConnected' = TRUE
    /\ Return(t)
    /\ UNCHANGED <<isStreaming, streamingId, streamingDb, cdcClient, dialled, clients, job,
                   running, closed, budget>>

\* Mutant: the client object is discarded while the field refers to it.
DiscardClient(t) ==
    /\ At(t, "login")
    /\ Spend("fail")
    /\ clients' = clients - 1
    /\ isConnected' = FALSE
    /\ Return(t)
    /\ UNCHANGED <<isStreaming, streamingId, streamingDb, cdcClient, dialled, open, job,
                   running, closed>>

\* A call that an overlapping connect() has made on this object before, or a login that
\* comes before the object is connected.
Unexpected(t) == \/ At(t, "dial") /\ cdcClient \in dialled
                 \/ At(t, "login") /\ (cdcClient \in open \/ cdcClient \notin dialled)

\* Refused, the answer is lost, or the library does not take the call: the flag is
\* cleared whoever else has set it, and the client object is left as it is.
ConnectFails(t) ==
    /\ \/ th[t].pc \in {"dial", "login"} /\ Spend("fail")
       \/ Unexpected(t) /\ UNCHANGED budget
    /\ \/ UNCHANGED <<dialled, open>>
       \/ At(t, "dial") /\ dialled' = dialled \cup {cdcClient} /\ UNCHANGED open
       \/ At(t, "login") /\ open' = open \cup ({cdcClient} \cap dialled) /\ UNCHANGED dialled
    /\ isConnected' = FALSE
    /\ Return(t)
    /\ UNCHANGED <<isStreaming, streamingId, streamingDb, cdcClient, clients, job, running,
                   closed>>

-----------------------------------------------------------------------------
(* startStreaming()                                                        *)

Start(t, db) ==
    /\ At(t, "idle") /\ ~closed
    /\ isConnected /\ ~isStreaming
    /\ Spend("start")
    /\ th' = [th EXCEPT ![t].pc = "rpc", ![t].db = db]
    /\ UNCHANGED <<fields, proxy, closed>>

NewJob(t) ==
    /\ cdcClient \in open
    /\ Len(job) < MaxJobs
    /\ job' = Append(job, [client |-> cdcClient, db |-> th[t].db])
    /\ running' = running \cup {Len(job) + 1}

Rpc(t) ==
    /\ At(t, "rpc")
    /\ NewJob(t)
    /\ th' = [th EXCEPT ![t].pc = "setId", ![t].id = Len(job) + 1]
    /\ UNCHANGED <<fields, dialled, open, clients, closed, budget>>

\* The call fails, or its answer is lost: the flag is cleared.
RpcFails(t) ==
    /\ At(t, "rpc")
    /\ \/ Spend("answer") /\ NewJob(t)
       \/ Spend("fail") /\ UNCHANGED <<job, running>>
       \/ cdcClient \notin open /\ UNCHANGED <<job, running, budget>>
    /\ isStreaming' = FALSE
    /\ Return(t)
    /\ UNCHANGED <<isConnected, streamingId, streamingDb, cdcClient, dialled, open, clients,
                   closed>>

SetId(t) ==
    /\ At(t, "setId")
    /\ streamingId' = th[t].id
    /\ Goto(t, "setDb")
    /\ UNCHANGED <<isConnected, isStreaming, streamingDb, cdcClient, proxy, closed, budget>>

SetDb(t) ==
    /\ At(t, "setDb")
    /\ streamingDb' = th[t].db
    /\ Goto(t, "setFlag")
    /\ UNCHANGED <<isConnected, isStreaming, streamingId, cdcClient, proxy, closed, budget>>

SetFlag(t) ==
    /\ At(t, "setFlag")
    /\ isStreaming' = TRUE
    /\ Return(t)
    /\ UNCHANGED <<isConnected, streamingId, streamingDb, cdcClient, proxy, closed, budget>>

-----------------------------------------------------------------------------
(* stopStreaming() and cleanup()                                           *)

Stop(t) ==
    /\ At(t, "idle") /\ ~closed
    /\ isStreaming
    /\ Spend("stop")
    /\ Goto(t, "stopRpc")
    /\ UNCHANGED <<fields, proxy, closed>>

\* Shutdown: stopStreaming() first.
Cleanup(t) ==
    /\ At(t, "idle") /\ ~closed
    /\ closed' = TRUE
    /\ th' = [th EXCEPT ![t].pc = IF isStreaming THEN "stopRpc" ELSE "close",
                        ![t].last = TRUE]
    /\ UNCHANGED <<fields, proxy, budget>>

\* The job of the current id is stopped at the proxy, if there is one.
StopRpc(t) ==
    /\ At(t, "stopRpc")
    /\ \/ streamingId = 0 /\ UNCHANGED running
       \/ streamingId # 0 /\ cdcClient \in open /\ running' = running \ {streamingId}
    /\ Goto(t, "clearFlag")
    /\ UNCHANGED <<fields, dialled, open, clients, job, closed, budget>>

\* Mutant: the fields are cleared although the call failed.
StopRpcIgnoringFailure(t) ==
    /\ At(t, "stopRpc") /\ streamingId # 0
    /\ Spend("fail") /\ UNCHANGED running
    /\ Goto(t, "clearFlag")
    /\ UNCHANGED <<fields, dialled, open, clients, job, closed>>

\* An exception is logged and nothing else is done; a call for a job that has gone
\* may be one.
StopRpcFails(t) ==
    /\ At(t, "stopRpc") /\ streamingId # 0
    /\ \/ Spend("answer") /\ running' = running \ {streamingId}
       \/ Spend("fail") /\ UNCHANGED running
       \/ /\ cdcClient \notin open \/ streamingId \notin running
          /\ UNCHANGED <<running, budget>>
    /\ StopReturns(t)
    /\ UNCHANGED <<fields, dialled, open, clients, job, closed>>

ClearFlag(t) ==
    /\ At(t, "clearFlag")
    /\ isStreaming' = FALSE
    /\ Goto(t, "clearId")
    /\ UNCHANGED <<isConnected, streamingId, streamingDb, cdcClient, proxy, closed, budget>>

ClearId(t) ==
    /\ At(t, "clearId")
    /\ streamingId' = 0
    /\ Goto(t, "clearDb")
    /\ UNCHANGED <<isConnected, isStreaming, streamingDb, cdcClient, proxy, closed, budget>>

ClearDb(t) ==
    /\ At(t, "clearDb")
    /\ streamingDb' = None
    /\ StopReturns(t)
    /\ UNCHANGED <<isConnected, isStreaming, streamingId, cdcClient, proxy, closed, budget>>

\* Mutant: the connection is left open.
CloseFlagsOnly(t) ==
    /\ At(t, "close")
    /\ isConnected' = FALSE /\ isStreaming' = FALSE
    /\ Return(t)
    /\ UNCHANGED <<streamingId, streamingDb, cdcClient, proxy, closed, budget>>

\* The connection of client n is gone, with it the jobs it serves.
Disconnect(n) ==
    /\ dialled' = dialled \ {n} /\ open' = open \ {n}
    /\ running' = {j \in running : job[j].client # n}

\* The connection is closed, then the flags are cleared.
Close(t) ==
    /\ At(t, "close")
    /\ Disconnect(cdcClient)
    /\ isConnected' = FALSE /\ isStreaming' = FALSE
    /\ Return(t)
    /\ UNCHANGED <<streamingId, streamingDb, cdcClient, clients, job, closed, budget>>

\* An exception of the library's close() is only logged: the flags stay.
CloseFails(t) ==
    /\ At(t, "close") /\ cdcClient # 0
    /\ Spend("fail")
    /\ \/ Disconnect(cdcClient)
       \/ UNCHANGED <<dialled, open, running>>
    /\ Return(t)
    /\ UNCHANGED <<fields, clients, job, closed>>

\* A connection is lost and RetryStreamingExceptionHandler gives up; no field
\* of the service changes.
GiveUp ==
    \E n \in open :
        /\ Spend("link")
        /\ Disconnect(n)
        /\ UNCHANGED <<fields, clients, job, th, closed>>

-----------------------------------------------------------------------------
Request(t) == \/ Connect(t) \/ (\E db \in Databases : Start(t, db)) \/ Stop(t) \/ Cleanup(t)
Serve(t) == \/ Assign(t) \/ Dial(t) \/ LoggedIn(t) \/ ConnectFails(t)
            \/ Rpc(t) \/ RpcFails(t) \/ SetId(t) \/ SetDb(t) \/ SetFlag(t)
            \/ StopRpc(t) \/ StopRpcFails(t) \/ ClearFlag(t) \/ ClearId(t) \/ ClearDb(t)
            \/ Close(t) \/ CloseFails(t)

Next == GiveUp \/ \E t \in Threads : Request(t) \/ Serve(t)

Spec == Init /\ [][Next]_vars

-----------------------------------------------------------------------------
(* Properties.                                                             *)

AllIdle == \A t \in Threads : At(t, "idle")

\* The job stopStreaming() would stop.
Controlled == IF isStreaming THEN {streamingId} ELSE {}
AnswersLost == Budget["answer"] - budget["answer"]

\* One request at a time: a job that runs at the proxy is the one the service knows,
\* of the database it reports, whatever calls fail; only a lost answer to a call
\* can leave one that stopStreaming() does not reach.
JobsAreControlled ==
    AllIdle => /\ Cardinality(running \ Controlled) <= AnswersLost
               /\ \A j \in running \cap Controlled : job[j].db = streamingDb

\* One request at a time: after a cleanup() that reports the connection as gone no job is
\* left at the proxy, even if stopStreaming() failed or did not know of it; a close() that
\* fails leaves isConnected as it was.
CleanupLeavesNothing == closed /\ AllIdle /\ ~isConnected => running = {}

\* CDCClientService.java:179, in stopStreaming: "IMPORTANT: Actually stop the CDC job at
\* proxy level!".  With no request running and streaming off, no job runs.
StoppedAtProxy == AllIdle /\ ~isStreaming => running = {}
=============================================================================
