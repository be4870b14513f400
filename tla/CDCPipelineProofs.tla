------------------------- MODULE CDCPipelineProofs -------------------------
(***************************************************************************)
(* Proofs about CDCPipeline for every set of keys and rows, every bound    *)
(* and every budget of faults.                                             *)
(***************************************************************************)
EXTENDS CDCPipeline, SequenceTheorems, TLAPS

\* The i-th change turns one version of the source into the next, and is one a database
\* can produce: an insert of an absent row, an update or a delete of a present one, or
\* one of unknown type that leaves the row.
ChangeOK(i) ==
    LET c == log[i] IN
    /\ past[i + 1] = [past[i] EXCEPT ![c.key] = c.row]
    /\ c.op = "UNKNOWN" => c.row = past[i][c.key]
    /\ c.op # "UNKNOWN" => (c.op = "INSERT" <=> past[i][c.key] = NoRow)
    /\ c.op # "UNKNOWN" => (c.op = "DELETE" <=> c.row = NoRow)

\* The log and the history of a database go together.  A table may have been dropped and
\* created again in between (module Migration), but not under a job that reads the log.
HistInv == /\ \A d \in Databases :
                 /\ Len(hist[d]) = Len(wal[d]) + 1
                 /\ \A i \in 1..Len(wal[d]) : hist[d][i + 1][wal[d][i].key] = wal[d][i].row
           /\ Live => \A i \in job.from + 1..Len(log) : ChangeOK(i)

\* The source's row of k was r after some number of changes that is at least p.
SinceThen(p, k, r) == \E j \in p..Len(log) : past[j + 1][k] = r

JobInv ==
    Live =>
        /\ job.from <= job.sent /\ job.sent <= Len(log)
        /\ job.phase # "incremental" => job.sent = job.from
        /\ \A k \in Keys : job.inv[k] # NoRow =>
              job.phase = "inventory" /\ SinceThen(job.from, k, job.inv[k])

\* A record is a snapshot row or the change at its place in the log ...
RecordOK(r) ==
    /\ r.job <= job.id
    /\ r.at = 0 => r.op = "INSERT" /\ r.row \in Rows
    /\ r.job = job.id /\ r.at > 0 =>
          /\ r.at <= Len(log)
          /\ log[r.at] = [op |-> r.op, key |-> r.key, row |-> r.row]
\* ... a record of the present job is no older than the job, and one of an
\* earlier job concerns a damaged key ...
RecordFits(r) ==
    /\ r.job # job.id => job.phase # "incremental" /\ r.key \in damaged
    /\ r.job = job.id /\ r.at = 0 =>
          job.phase # "incremental" /\ SinceThen(job.from, r.key, r.row)
    /\ r.job = job.id /\ r.at > 0 => job.phase = "incremental" /\ r.at > job.from

\* ... all records in hand come from one job, and the changes among them are
\* consecutive and reach what the job has sent.
BatchInv ==
    /\ \A i \in 1..Len(batch) : RecordOK(batch[i]) /\ batch[i].job = batch[1].job
    /\ Live => \A i \in 1..Len(batch) : RecordFits(batch[i])
    /\ \A i \in 1..Len(batch) : i < Len(batch) /\ batch[i].at > 0 =>
            batch[i + 1].at = batch[i].at + 1
    /\ Live /\ job.phase = "incremental" /\ batch # <<>> =>
            job.sent <= batch[Len(batch)].at

\* How many changes of the log the target has seen in the incremental phase.
SeenUpTo == IF batch = <<>> THEN job.sent ELSE batch[1].at - 1

\* The target holds a row of k the source has, or had, no earlier than what the
\* target has seen; before the snapshot row of k is applied it may hold none.
Follows(k) ==
    IF job.phase = "incremental" THEN SinceThen(SeenUpTo, k, target[k])
    ELSE \/ SinceThen(job.from, k, target[k])
         \/ target[k] = NoRow /\ \/ job.phase = "prepared"
                                 \/ job.inv[k] # NoRow
                                 \/ \E i \in 1..Len(batch) : /\ batch[i].key = k
                                                             /\ batch[i].job = job.id

MainInv == Live => \A k \in Keys \ damaged : Follows(k)

IInv == TypeOK /\ HistInv /\ JobInv /\ BatchInv /\ MainInv

-----------------------------------------------------------------------------
(* Types.                                                                  *)

\* A function on 1..n is a sequence: what the deliveries build a batch from.
LEMMA FunctionIsSeq ==
    ASSUME NEW S, NEW n \in Nat, NEW f \in [1..n -> S]
    PROVE  f \in Seq(S) /\ Len(f) = n /\ DOMAIN f = 1..n
  OBVIOUS

\* A database has at least the version of its table it started with.
Versions == \A d \in Databases : hist[d] # <<>>

\* The table of a database is a table.
LEMMA SourceType ==
    ASSUME TypeOK, Versions, NEW d \in Databases
    PROVE  Now(d) \in Table
  <1>1. hist[d] \in Seq(Table) /\ hist[d] # <<>>
    BY DEF TypeOK, Versions
  <1> QED
    BY <1>1 DEF Now

\* Appending makes a sequence that is not empty.
LEMMA AppendSeq ==
    ASSUME NEW S, NEW seq \in Seq(S), NEW elt \in S
    PROVE  Append(seq, elt) \in Seq(S) /\ Append(seq, elt) # <<>>
  BY AppendProperties

\* Spending keeps the budget a budget.
LEMMA SpendType ==
    ASSUME budget \in [BudgetKinds -> Nat], NEW b \in BudgetKinds, Spend(b)
    PROVE  budget' \in [BudgetKinds -> Nat]
  BY DEF Spend

\* Before anything has happened: empty logs and one version of each table.
LEMMA TypeInit == Init => TypeOK /\ Versions
  <1> SUFFICES ASSUME Init PROVE TypeOK /\ Versions
    OBVIOUS
  <1>1. PICK seed : /\ \A d \in Databases : seed[d] \in Seed[d]
                    /\ hist = [d \in Databases |-> <<seed[d]>>]
    BY DEF Init
  <1>2. EmptyTable \in Table
    BY DEF EmptyTable, Table, MaybeRow
  <1>3. job \in Job
    <2>1. (CHOOSE d \in Databases : TRUE) \in Databases
      BY PipelineAssumption
    <2> DEFINE db == CHOOSE d \in Databases : TRUE
    <2>2. job = [id |-> 0, db |-> db, phase |-> "none", from |-> 0, sent |-> 0,
                 inv |-> EmptyTable]
      BY DEF Init
    <2> HIDE DEF db
    <2> QED
      BY <1>2, <2>1, <2>2 DEF Job, Phases, db
  <1>4. count \in [Counters -> Nat]
    BY DEF Init
  <1>5. hist \in [Databases -> Seq(Table)] /\ Versions
    <2>1. \A d \in Databases : seed[d] \in Table
      BY <1>1, PipelineAssumption DEF Table, MaybeRow
    <2>2. \A d \in Databases : <<seed[d]>> \in Seq(Table) /\ <<seed[d]>> # <<>>
      BY <2>1
    <2> QED
      BY <1>1, <2>2 DEF Versions
  <1>6. wal \in [Databases -> Seq(Change)] /\ batch \in Seq(Record)
    BY DEF Init
  <1>7. /\ counted \in BOOLEAN /\ target \in Table /\ shown \in Nat /\ reset \in 0..3
        /\ unknown \in Nat /\ raced \in Nat
        /\ damaged \in SUBSET Keys /\ budget \in [BudgetKinds -> Nat]
    <2>1. /\ counted = FALSE /\ target = EmptyTable /\ shown = 0 /\ reset = 0
          /\ unknown = 0 /\ raced = 0 /\ damaged = {} /\ budget = Budget
      BY Zenon DEF Init
    <2>2. budget \in [BudgetKinds -> Nat]
      BY <2>1, PipelineAssumption, Zenon
    <2>3. /\ shown \in Nat /\ reset \in 0..3 /\ unknown \in Nat /\ raced \in Nat
          /\ damaged \in SUBSET Keys
      BY <2>1
    <2>4. counted \in BOOLEAN
      BY <2>1, Zenon
    <2> QED
      BY <1>2, <2>1, <2>2, <2>3, <2>4
  <1> QED
    BY <1>3, <1>4, <1>5, <1>6, <1>7 DEF TypeOK

\* One step keeps the types: one case per action.
LEMMA TypeStep == TypeOK /\ Versions /\ [Next]_vars => (TypeOK /\ Versions)'
  <1> SUFFICES ASSUME TypeOK, Versions, [Next]_vars PROVE (TypeOK /\ Versions)'
    OBVIOUS
  <1> USE PipelineAssumption DEF TypeOK
  <1>0. /\ \A d \in Databases : Now(d) \in Table
        /\ EmptyTable \in Table /\ job.db \in Databases
    BY SourceType DEF EmptyTable, Table, MaybeRow, Job
  <1>01. source \in Table
    BY <1>0 DEF source
  <1>02. log \in Seq(Change)
    BY <1>0 DEF log
  <1>1. ASSUME NEW d \in Databases, NEW op \in Ops, NEW k \in Keys, NEW r \in MaybeRow,
               Write(d, op, k, r)
        PROVE  (TypeOK /\ Versions)'
    <2>1. [Now(d) EXCEPT ![k] = r] \in Table
      BY <1>0 DEF Table
    <2>2. [op |-> op, key |-> k, row |-> r] \in Change
      BY DEF Change
    <2>3. /\ Append(wal[d], [op |-> op, key |-> k, row |-> r]) \in Seq(Change)
          /\ Append(hist[d], [Now(d) EXCEPT ![k] = r]) \in Seq(Table)
          /\ Append(hist[d], [Now(d) EXCEPT ![k] = r]) # <<>>
      <3>1. wal[d] \in Seq(Change) /\ hist[d] \in Seq(Table)
        OBVIOUS
      <3> QED
        BY <2>1, <2>2, <3>1, AppendSeq
    <2>4. /\ wal' = [wal EXCEPT ![d] = Append(wal[d], [op |-> op, key |-> k, row |-> r])]
          /\ hist' = [hist EXCEPT ![d] = Append(hist[d], [Now(d) EXCEPT ![k] = r])]
      BY <1>1 DEF Write
    <2>5. hist' \in [Databases -> Seq(Table)] /\ wal' \in [Databases -> Seq(Change)]
      BY <2>3, <2>4
    <2>6. Versions'
      BY <2>3, <2>4 DEF Versions
    <2> QED
      BY <1>1, <2>5, <2>6 DEF Write, cvars
  <1>2. ASSUME NEW d \in Databases, StartStreaming(d)
        PROVE  (TypeOK /\ Versions)'
    <2>1. job' \in Job
      <3>1. Len(wal[d]) \in Nat /\ job.id \in Nat
        BY DEF Job
      <3> QED
        BY <1>0, <1>2, <3>1 DEF StartStreaming, Job, Phases
    <2>2. InHand \in SUBSET Keys
      <3>1. \A i \in 1..Len(batch) : batch[i] \in Record
        BY ElementOfSeq
      <3>2. DOMAIN batch = 1..Len(batch)
        OBVIOUS
      <3> QED
        BY <3>1, <3>2 DEF InHand, Record
    <2>3. damaged' \in SUBSET Keys
      BY <1>2, <2>2 DEF StartStreaming
    <2>4. budget' \in [BudgetKinds -> Nat]
      BY <1>2, SpendType DEF StartStreaming, BudgetKinds
    <2> QED
      BY <1>2, <2>1, <2>3, <2>4 DEF StartStreaming, svars, cvars, Versions
  <1>3. CASE StopStreaming
    BY <1>0, <1>3 DEF StopStreaming, svars, cvars, Job, Phases, Versions
  <1>4. CASE ReadInventory
    BY <1>0, <1>01, <1>4 DEF ReadInventory, svars, cvars, Job, Phases, Versions
  <1>5. ASSUME NEW ks \in Deliveries, DeliverInventory(ks)
        PROVE  (TypeOK /\ Versions)'
    <2>1. PICK n \in 1..MaxBatch : ks \in [1..n -> Remaining]
      BY DEF Deliveries
    <2>2. \A i \in 1..n : [job |-> job.id, at |-> 0, op |-> "INSERT", key |-> ks[i],
                           row |-> job.inv[ks[i]]] \in Record
      BY <2>1 DEF Remaining, Record, Job, Table, Ops, DML
    <2>3. batch' \in [1..n -> Record]
      BY <1>5, <2>1, <2>2 DEF DeliverInventory
    <2>4. batch' \in Seq(Record)
      BY <2>3, FunctionIsSeq
    <2>5. job' \in Job
      BY <1>5 DEF DeliverInventory, Job, Table, MaybeRow
    <2> QED
      BY <1>5, <2>4, <2>5 DEF DeliverInventory, svars, cvars, Versions
  <1>6. CASE FinishInventory
    BY <1>6 DEF FinishInventory, svars, cvars, Versions, Job, Phases
  <1>7. ASSUME NEW n \in 1..MaxBatch, DeliverChanges(n)
        PROVE  (TypeOK /\ Versions)'
    <2>1. \A i \in 1..n : job.sent + i \in 1..Len(log)
      BY <1>7, <1>02 DEF DeliverChanges, Job
    <2>2. \A i \in 1..n : [job |-> job.id, at |-> job.sent + i, op |-> log[job.sent + i].op,
                     key |-> log[job.sent + i].key, row |-> log[job.sent + i].row] \in Record
      <3>1. \A i \in 1..n : log[job.sent + i] \in Change /\ job.sent + i \in Nat
        BY <1>02, <2>1
      <3>2. job.id \in Nat
        BY DEF Job
      <3> QED
        BY <3>1, <3>2 DEF Record, Change
    <2>3. batch' \in [1..n -> Record]
      BY <1>7, <2>2 DEF DeliverChanges
    <2>4. batch' \in Seq(Record)
      BY <2>3, FunctionIsSeq
    <2>5. job.sent \in Nat /\ job.sent + n \in Nat
      BY DEF Job
    <2>6. job' \in Job
      BY <1>7, <2>5 DEF DeliverChanges, Job
    <2> QED
      BY <1>7, <2>4, <2>6 DEF DeliverChanges, svars, cvars, Versions
  <1>8. CASE ConnectionLost
    <2>1. job' \in Job
      <3>1. CASE job.phase = "incremental"
        <4>1. PICK p \in job.from..job.sent : job' = [job EXCEPT !.sent = p]
          BY <1>8, <3>1 DEF ConnectionLost
        <4>2. p \in Nat
          BY <4>1 DEF Job
        <4> QED
          BY <4>1, <4>2 DEF Job
      <3>2. CASE job.phase # "incremental"
        BY <1>0, <1>8, <3>2 DEF ConnectionLost, Job, Phases
      <3> QED
        BY <3>1, <3>2
    <2>2. budget' \in [BudgetKinds -> Nat]
      BY <1>8, SpendType DEF ConnectionLost, BudgetKinds
    <2> QED
      BY <1>8, <2>1, <2>2 DEF ConnectionLost, svars, cvars, Versions
  <1>9. CASE CountEvent
    BY <1>9 DEF CountEvent, svars, Counters, Versions
  <1>10. ASSUME NEW fails \in BOOLEAN, ApplyEvent(fails)
         PROVE  (TypeOK /\ Versions)'
    <2>1. Head(batch) \in Record /\ Tail(batch) \in Seq(Record)
      BY <1>10 DEF ApplyEvent
    <2>2. \A old \in MaybeRow : Applied(Head(batch), old) \in MaybeRow
      <3>1. Head(batch).op \in Ops /\ Head(batch).row \in MaybeRow
        BY <2>1 DEF Record
      <3>2. Decoded[Head(batch).row] \in MaybeRow
        BY <3>1 DEF MaybeRow
      <3> QED
        BY <3>1, <3>2 DEF Applied, Ops, DML, MaybeRow
    <2>3. target[Head(batch).key] \in MaybeRow
      BY <2>1 DEF Table, Record
    <2>4. target' \in Table
      BY <1>10, <2>1, <2>2, <2>3 DEF ApplyEvent, Where, Table, Record
    <2>5. count' \in [Counters -> Nat] /\ damaged' \in SUBSET Keys /\ shown' \in Nat
      <3>1. /\ Head(batch).op \in DML => Head(batch).op \in Counters
            /\ Head(batch).key \in Keys
        BY <2>1 DEF Record, Counters
      <3>2. \/ Head(batch).op \in DML /\ count' = [count EXCEPT ![Head(batch).op] = @ + 1]
            \/ count' = count
        BY <1>10, Zenon DEF ApplyEvent
      <3>3. shown' \in {shown, shown + 1}
        BY <1>10 DEF ApplyEvent
      <3>4. damaged' \in {damaged, damaged \cup {Head(batch).key}, damaged \ {Head(batch).key}}
        BY <1>10 DEF ApplyEvent
      <3>5. count' \in [Counters -> Nat]
        <4>1. CASE count' = count
          BY <4>1
        <4>2. ASSUME NEW c \in Counters, count' = [count EXCEPT ![c] = @ + 1]
              PROVE  count' \in [Counters -> Nat]
          BY <4>2
        <4> QED
          BY <3>1, <3>2, <4>1, <4>2
      <3> QED
        BY <3>1, <3>3, <3>4, <3>5
    <2>6. budget' \in [BudgetKinds -> Nat]
      BY <1>10, SpendType DEF ApplyEvent, BudgetKinds
    <2>7. unknown' \in Nat
      BY <1>10 DEF ApplyEvent
    <2> QED
      BY <1>10, <2>1, <2>4, <2>5, <2>6, <2>7 DEF ApplyEvent, Where, NextRecords, svars, Versions
  <1>11. CASE ClearTarget
    <2>1. budget' \in [BudgetKinds -> Nat]
      BY <1>11, SpendType DEF ClearTarget, BudgetKinds
    <2> QED
      BY <1>0, <1>11, <2>1 DEF ClearTarget, svars, cvars, Versions
  <1>12. CASE ResetStatistics
    <2>1. count' \in [Counters -> Nat]
      BY <1>12 DEF ResetStatistics, Counters
    <2>2. reset' \in 0..3
      BY <1>12 DEF ResetStatistics
    <2>3. budget' \in [BudgetKinds -> Nat]
      BY <1>12, SpendType DEF ResetStatistics, BudgetKinds
    <2>4. unknown' \in Nat /\ raced' \in Nat
      BY <1>12 DEF ResetStatistics, InWork
    <2> QED
      BY <1>12, <2>1, <2>2, <2>3, <2>4 DEF ResetStatistics, svars, Versions
  <1>13. CASE UNCHANGED vars
    BY <1>13 DEF vars, Versions
  <1>14. ASSUME Source
         PROVE  (TypeOK /\ Versions)'
    <2>1. PICK d \in Databases, k \in Keys :
              \/ \E r \in Rows : SourceInsert(d, k, r) \/ SourceUpdate(d, k, r)
              \/ SourceDelete(d, k) \/ SourceOther(d, k)
      BY <1>14 DEF Source
    <2>2. Now(d)[k] \in MaybeRow
      BY <1>0 DEF Table
    <2> QED
      BY <1>1, <2>1, <2>2 DEF SourceInsert, SourceUpdate, SourceDelete, SourceOther, Ops, DML,
                              MaybeRow
  <1>15. CASE GiveUp
    <2>1. budget' \in [BudgetKinds -> Nat]
      BY <1>15, SpendType DEF GiveUp, BudgetKinds
    <2>2. job' \in Job
      BY <1>0, <1>15 DEF GiveUp, Job, Phases
    <2> QED
      BY <1>15, <2>1, <2>2 DEF GiveUp, svars, cvars, Versions
  <1> QED
    BY <1>2, <1>3, <1>4, <1>5, <1>6, <1>7, <1>8, <1>9, <1>10, <1>11, <1>12, <1>13, <1>14, <1>15
       DEF Next, Deliver, Consume

\* Type correctness.
THEOREM TypeCorrect == Spec => []TypeOK
  <1>1. TypeOK /\ Versions => TypeOK
    OBVIOUS
  <1> QED
    BY <1>1, TypeInit, TypeStep, PTL DEF Spec

-----------------------------------------------------------------------------
(* The inductive invariant: the log and its history.                       *)

Rest == JobInv /\ BatchInv /\ MainInv

\* Indices of a log are indices of its history, and what is there is typed.
LEMMA HistTypesOf ==
    ASSUME TypeOK, HistInv, NEW d \in Databases
    PROVE  /\ hist[d] \in Seq(Table) /\ wal[d] \in Seq(Change)
           /\ Len(wal[d]) \in Nat /\ Len(hist[d]) = Len(wal[d]) + 1
           /\ hist[d] # <<>> /\ Now(d) \in Table
           /\ Now(d) = hist[d][Len(wal[d]) + 1]
           /\ \A j \in 0..Len(wal[d]) : hist[d][j + 1] \in Table
           /\ \A i \in 1..Len(wal[d]) : wal[d][i] \in Change
  <1>1. hist[d] \in Seq(Table) /\ wal[d] \in Seq(Change) /\ Len(hist[d]) = Len(wal[d]) + 1
    BY DEF TypeOK, HistInv
  <1>2. Len(wal[d]) \in Nat /\ hist[d] # <<>>
    BY <1>1
  <1>3. \A j \in 0..Len(wal[d]) : hist[d][j + 1] \in Table
    BY <1>1
  <1> QED
    BY <1>1, <1>2, <1>3 DEF Now

\* In particular those of the database the job reads.
LEMMA HistTypes ==
    ASSUME TypeOK, HistInv
    PROVE  /\ Versions /\ job.db \in Databases
           /\ past \in Seq(Table) /\ log \in Seq(Change) /\ Len(past) = Len(log) + 1
           /\ past # <<>> /\ source \in Table
           /\ source = past[Len(log) + 1]
           /\ Len(log) \in Nat
           /\ \A j \in 0..Len(log) : past[j + 1] \in Table
           /\ \A i \in 1..Len(log) : log[i] \in Change
  <1>1. job.db \in Databases
    BY DEF TypeOK, Job
  <1>2. Versions
    BY HistTypesOf DEF Versions
  <1> QED
    BY <1>1, <1>2, HistTypesOf DEF log, past, source

\* What an appended change is to the history, and that what was there stays.
LEMMA HistAppend ==
    ASSUME TypeOK, HistInv, NEW d \in Databases,
           NEW op \in Ops, NEW k \in Keys, NEW r \in MaybeRow, NEW before \in Table,
           wal' = [wal EXCEPT ![d] = Append(wal[d], [op |-> op, key |-> k, row |-> r])],
           hist' = [hist EXCEPT ![d] = Append(hist[d], [before EXCEPT ![k] = r])]
    PROVE  /\ Len(wal'[d]) = Len(wal[d]) + 1 /\ Len(hist'[d]) = Len(wal'[d]) + 1
           /\ Len(wal[d]) \in Nat
           /\ \A i \in 1..Len(wal[d]) : wal'[d][i] = wal[d][i]
           /\ \A i \in 1..Len(wal[d]) + 1 : hist'[d][i] = hist[d][i]
           /\ wal'[d][Len(wal[d]) + 1] = [op |-> op, key |-> k, row |-> r]
           /\ hist'[d][Len(wal[d]) + 2] = [before EXCEPT ![k] = r]
           /\ \A i \in 1..Len(wal'[d]) : hist'[d][i + 1][wal'[d][i].key] = wal'[d][i].row
           /\ \A e \in Databases : e # d => wal'[e] = wal[e] /\ hist'[e] = hist[e]
  <1> DEFINE w == wal[d]
             h == hist[d]
             w2 == wal'[d]
             h2 == hist'[d]
  <1>1. h \in Seq(Table) /\ w \in Seq(Change) /\ Len(h) = Len(w) + 1 /\ Len(w) \in Nat
    BY HistTypesOf
  <1>2. [op |-> op, key |-> k, row |-> r] \in Change /\ [before EXCEPT ![k] = r] \in Table
    BY DEF Change, Table
  <1>3. /\ w2 = Append(w, [op |-> op, key |-> k, row |-> r])
        /\ h2 = Append(h, [before EXCEPT ![k] = r])
        /\ \A e \in Databases : e # d => wal'[e] = wal[e] /\ hist'[e] = hist[e]
    BY DEF TypeOK
  <1>4. \A i \in 1..Len(w) : h[i + 1][w[i].key] = w[i].row
    BY DEF HistInv
  <1> HIDE DEF w, h, w2, h2
  <1>5. /\ Len(w2) = Len(w) + 1 /\ Len(h2) = Len(h) + 1
        /\ \A i \in 1..Len(w) : w2[i] = w[i]
        /\ \A i \in 1..Len(h) : h2[i] = h[i]
        /\ w2[Len(w) + 1] = [op |-> op, key |-> k, row |-> r]
        /\ h2[Len(h) + 1] = [before EXCEPT ![k] = r]
    BY <1>1, <1>2, <1>3, AppendProperties
  <1>6. h2[Len(w) + 2] = [before EXCEPT ![k] = r]
    BY <1>1, <1>5
  <1>7. ASSUME NEW i \in 1..Len(w2) PROVE h2[i + 1][w2[i].key] = w2[i].row
    <2>1. CASE i \in 1..Len(w)
      <3>1. w2[i] = w[i] /\ h2[i + 1] = h[i + 1]
        BY <1>1, <1>5, <2>1
      <3> QED
        BY <1>4, <2>1, <3>1
    <2>2. CASE i = Len(w) + 1
      <3>1. /\ w2[i] = [op |-> op, key |-> k, row |-> r]
            /\ h2[i + 1] = [before EXCEPT ![k] = r]
        BY <1>1, <1>5, <1>6, <2>2
      <3>2. w2[i].key = k /\ w2[i].row = r /\ [before EXCEPT ![k] = r][k] = r
        BY <3>1 DEF Table
      <3> QED
        BY <3>1, <3>2, Zenon
    <2> QED
      BY <1>1, <1>5, <2>1, <2>2
  <1> QED
    BY <1>1, <1>3, <1>5, <1>6, <1>7 DEF w, h, w2, h2

\* A write of a database appends to both, and leaves what was there and the others.
LEMMA WriteAppends ==
    ASSUME TypeOK, HistInv, NEW d \in Databases,
           NEW op \in Ops, NEW k \in Keys, NEW r \in MaybeRow, Write(d, op, k, r)
    PROVE  /\ Len(wal'[d]) = Len(wal[d]) + 1 /\ Len(hist'[d]) = Len(wal'[d]) + 1
           /\ Len(wal[d]) \in Nat
           /\ \A i \in 1..Len(wal[d]) : wal'[d][i] = wal[d][i]
           /\ \A i \in 1..Len(wal[d]) + 1 : hist'[d][i] = hist[d][i]
           /\ wal'[d][Len(wal[d]) + 1] = [op |-> op, key |-> k, row |-> r]
           /\ hist'[d][Len(wal[d]) + 2] = [Now(d) EXCEPT ![k] = r]
           /\ \A i \in 1..Len(wal'[d]) : hist'[d][i + 1][wal'[d][i].key] = wal'[d][i].row
           /\ \A e \in Databases : e # d => wal'[e] = wal[e] /\ hist'[e] = hist[e]
  <1>1. Now(d) \in Table
    BY HistTypesOf
  <1>2. /\ wal' = [wal EXCEPT ![d] = Append(wal[d], [op |-> op, key |-> k, row |-> r])]
        /\ hist' = [hist EXCEPT ![d] = Append(hist[d], [Now(d) EXCEPT ![k] = r])]
    BY DEF Write
  <1> QED
    BY <1>1, <1>2, HistAppend, Zenon

\* Every way a database can change is a Write that it allows.
LEMMA SourceIsWrite ==
    ASSUME TypeOK, HistInv, Source
    PROVE  \E d \in Databases, op \in Ops, k \in Keys, r \in MaybeRow :
              /\ Write(d, op, k, r)
              /\ op = "UNKNOWN" => r = Now(d)[k]
              /\ op # "UNKNOWN" => (op = "INSERT" <=> Now(d)[k] = NoRow)
              /\ op # "UNKNOWN" => (op = "DELETE" <=> r = NoRow)
  <1>1. PICK d \in Databases, k \in Keys :
              \/ \E r \in Rows : SourceInsert(d, k, r) \/ SourceUpdate(d, k, r)
              \/ SourceDelete(d, k) \/ SourceOther(d, k)
    BY DEF Source
  <1>2. Now(d)[k] \in MaybeRow
    BY HistTypesOf DEF Table
  <1>3. CASE \E r \in Rows : SourceInsert(d, k, r) \/ SourceUpdate(d, k, r)
    BY <1>3, PipelineAssumption DEF SourceInsert, SourceUpdate, Ops, DML, MaybeRow
  <1>4. CASE SourceDelete(d, k)
    BY <1>4, PipelineAssumption DEF SourceDelete, Ops, DML, MaybeRow
  <1>5. CASE SourceOther(d, k)
    BY <1>2, <1>5 DEF SourceOther, Ops
  <1> QED
    BY <1>1, <1>3, <1>4, <1>5

\* A job that is alive after a step was so before it, with the same place in the same
\* log, or starts at the end of one.
LEMMA JobFrom ==
    ASSUME TypeOK, [Next]_vars, Live'
    PROVE  /\ job'.db \in Databases
           /\ \/ Live /\ job'.from = job.from /\ job'.db = job.db
              \/ job'.from = Len(wal[job'.db])
  <1>1. job \in [id : Nat, db : Databases, phase : Phases, from : Nat, sent : Nat, inv : Table]
    BY DEF TypeOK, Job
  <1>2. ASSUME NEW d \in Databases, StartStreaming(d)
        PROVE  job'.db \in Databases /\ job'.from = Len(wal[job'.db])
    BY <1>2 DEF StartStreaming
  <1>3. CASE StopStreaming \/ GiveUp
    BY <1>1, <1>3 DEF StopStreaming, GiveUp, Live
  <1>4. CASE ReadInventory \/ FinishInventory \/ (\E ks \in Deliveries : DeliverInventory(ks))
               \/ \E n \in 1..MaxBatch : DeliverChanges(n)
    BY <1>1, <1>4 DEF ReadInventory, FinishInventory, DeliverInventory, DeliverChanges,
                      Live
  <1>5. CASE ConnectionLost
    BY <1>1, <1>5 DEF ConnectionLost, Live
  <1>6. CASE UNCHANGED job
    BY <1>1, <1>6 DEF Live
  <1>7. ASSUME Source \/ CountEvent \/ (\E fails \in BOOLEAN : ApplyEvent(fails))
               \/ ClearTarget \/ ResetStatistics \/ UNCHANGED vars
        PROVE  UNCHANGED job
    BY <1>7 DEF Source, SourceInsert, SourceUpdate, SourceDelete, SourceOther, Write, CountEvent,
                ApplyEvent, ClearTarget, ResetStatistics, vars
  <1> QED
    BY <1>2, <1>3, <1>4, <1>5, <1>6, <1>7 DEF Next, Deliver, Consume

\* The log the job reads, and its history, only grow while the job stays.
LEMMA LogGrows ==
    ASSUME TypeOK, HistInv, NEW d \in Databases,
           NEW op \in Ops, NEW k \in Keys, NEW r \in MaybeRow, Write(d, op, k, r)
    PROVE  /\ job' = job
           /\ \/ d # job.db /\ log' = log /\ past' = past /\ source' = source
              \/ /\ d = job.db /\ source = Now(d)
                 /\ Len(log') = Len(log) + 1 /\ Len(log) \in Nat
                 /\ \A i \in 1..Len(log) : log'[i] = log[i]
                 /\ \A i \in 1..Len(log) + 1 : past'[i] = past[i]
                 /\ log'[Len(log) + 1] = [op |-> op, key |-> k, row |-> r]
                 /\ past'[Len(log) + 2] = [source EXCEPT ![k] = r]
  <1>1. job' = job /\ job.db \in Databases /\ Len(log) \in Nat
    <2>1. job' = job
      BY DEF Write
    <2> QED
      BY <2>1, HistTypes
  <1>2. CASE d = job.db
    <2>1. /\ Len(wal'[d]) = Len(wal[d]) + 1
          /\ \A i \in 1..Len(wal[d]) : wal'[d][i] = wal[d][i]
          /\ \A i \in 1..Len(wal[d]) + 1 : hist'[d][i] = hist[d][i]
          /\ wal'[d][Len(wal[d]) + 1] = [op |-> op, key |-> k, row |-> r]
          /\ hist'[d][Len(wal[d]) + 2] = [Now(d) EXCEPT ![k] = r]
      BY WriteAppends
    <2>2. log' = wal'[d] /\ past' = hist'[d] /\ log = wal[d] /\ past = hist[d] /\ source = Now(d)
      BY <1>1, <1>2 DEF log, past, source
    <2> QED
      BY <1>1, <1>2, <2>1, <2>2
  <1>3. CASE d # job.db
    BY <1>1, <1>3, WriteAppends DEF log, past, source, Now
  <1> QED
    BY <1>1, <1>2, <1>3

\* One step keeps logs and histories together: only the databases write to them.
LEMMA HistStep == TypeOK /\ HistInv /\ [Next]_vars => HistInv'
  <1> SUFFICES ASSUME TypeOK, HistInv, [Next]_vars PROVE HistInv'
    OBVIOUS
  <1>0. Len(log) \in Nat /\ job.from \in Nat
    BY HistTypes DEF TypeOK, Job
  <1>1. CASE Source
    <2>1. PICK d \in Databases, op \in Ops, k \in Keys, r \in MaybeRow :
              /\ Write(d, op, k, r)
              /\ op = "UNKNOWN" => r = Now(d)[k]
              /\ op # "UNKNOWN" => (op = "INSERT" <=> Now(d)[k] = NoRow)
              /\ op # "UNKNOWN" => (op = "DELETE" <=> r = NoRow)
      BY <1>1, SourceIsWrite
    <2>2. Write(d, op, k, r)
      BY <2>1
    <2>3. ASSUME NEW e \in Databases
          PROVE  /\ Len(hist'[e]) = Len(wal'[e]) + 1
                 /\ \A i \in 1..Len(wal'[e]) : hist'[e][i + 1][wal'[e][i].key] = wal'[e][i].row
      <3>1. CASE e = d
        <4>1. /\ Len(hist'[d]) = Len(wal'[d]) + 1
              /\ \A i \in 1..Len(wal'[d]) : hist'[d][i + 1][wal'[d][i].key] = wal'[d][i].row
          BY <2>2, WriteAppends
        <4> QED
          BY <3>1, <4>1
      <3>2. CASE e # d
        <4>1. wal'[e] = wal[e] /\ hist'[e] = hist[e]
          BY <2>2, <3>2, WriteAppends
        <4> QED
          BY <4>1 DEF HistInv
      <3> QED
        BY <3>1, <3>2
    <2>4. job' = job /\ (Live' <=> Live)
      BY <2>2, LogGrows DEF Live
    <2>5. CASE log' = log /\ past' = past
      BY <2>3, <2>4, <2>5 DEF HistInv, ChangeOK
    <2>6. CASE /\ d = job.db /\ source = Now(d)
               /\ Len(log') = Len(log) + 1 /\ Len(log) \in Nat
               /\ \A i \in 1..Len(log) : log'[i] = log[i]
               /\ \A i \in 1..Len(log) + 1 : past'[i] = past[i]
               /\ log'[Len(log) + 1] = [op |-> op, key |-> k, row |-> r]
               /\ past'[Len(log) + 2] = [source EXCEPT ![k] = r]
      <3>1. ASSUME Live, NEW i \in job.from + 1..Len(log)
            PROVE  ChangeOK(i)'
        <4>1. log'[i] = log[i] /\ past'[i] = past[i] /\ past'[i + 1] = past[i + 1]
          BY <1>0, <2>6
        <4>2. ChangeOK(i)
          BY <3>1 DEF HistInv
        <4> QED
          BY <4>1, <4>2 DEF ChangeOK
      <3>2. ASSUME NEW i, i = Len(log) + 1
            PROVE  ChangeOK(i)'
        <4>1. /\ log'[i] = [op |-> op, key |-> k, row |-> r] /\ past'[i] = source
              /\ past'[i + 1] = [source EXCEPT ![k] = r] /\ source = Now(d)
          BY <1>0, <2>6, <3>2, HistTypes
        <4> QED
          BY <2>1, <4>1 DEF ChangeOK
      <3>3. ASSUME Live', NEW i \in job'.from + 1..Len(log')
            PROVE  ChangeOK(i)'
        <4>1. i \in job.from + 1..Len(log) \/ i = Len(log) + 1
          BY <1>0, <2>4, <2>6
        <4> QED
          BY <2>4, <3>1, <3>2, <3>3, <4>1
      <3> QED
        BY <2>3, <3>3 DEF HistInv
    <2> QED
      BY <2>2, <2>5, <2>6, LogGrows
  <1>2. CASE UNCHANGED svars
    <2>1. wal' = wal /\ hist' = hist
      BY <1>2 DEF svars
    <2>2. ASSUME Live', NEW i \in job'.from + 1..Len(log')
          PROVE  ChangeOK(i)'
      <3>1. CASE Live /\ job'.from = job.from /\ job'.db = job.db
        <4>1. log' = log /\ past' = past
          BY <2>1, <3>1 DEF log, past
        <4> QED
          BY <2>2, <3>1, <4>1 DEF HistInv, ChangeOK
      <3>2. CASE job'.from = Len(wal[job'.db])
        <4>1. log' = wal[job'.db] /\ Len(wal[job'.db]) \in Nat
          BY <2>1, <2>2, JobFrom, HistTypesOf DEF log
        <4> QED
          BY <2>2, <3>2, <4>1
      <3> QED
        BY <2>2, <3>1, <3>2, JobFrom
    <2> QED
      BY <2>1, <2>2 DEF HistInv
  <1>3. Source \/ UNCHANGED svars
    BY DEF Next, Deliver, Consume, StartStreaming, StopStreaming, ReadInventory,
           DeliverInventory, FinishInventory, DeliverChanges, ConnectionLost, GiveUp, CountEvent,
           ApplyEvent, ClearTarget, ResetStatistics, vars, svars
  <1> QED
    BY <1>1, <1>2, <1>3

-----------------------------------------------------------------------------
(* The inductive invariant: job, batch and target.  One lemma per action.   *)

\* The types of the job's and the records' fields.
LEMMA FieldTypes ==
    ASSUME TypeOK
    PROVE  /\ job.id \in Nat /\ job.from \in Nat /\ job.sent \in Nat /\ job.inv \in Table
           /\ Len(batch) \in Nat /\ (batch # <<>> => Len(batch) > 0)
           /\ DOMAIN batch = 1..Len(batch)
           /\ \A i \in 1..Len(batch) :
                 /\ batch[i] \in Record
                 /\ batch[i].job \in Nat /\ batch[i].at \in Nat /\ batch[i].op \in Ops
                 /\ batch[i].key \in Keys /\ batch[i].row \in MaybeRow
  <1>1. batch \in Seq(Record) /\ job \in Job
    BY DEF TypeOK
  <1>2. \A i \in 1..Len(batch) : batch[i] \in Record
    BY <1>1, ElementOfSeq
  <1>3. Len(batch) \in Nat /\ (batch # <<>> => Len(batch) > 0) /\ DOMAIN batch = 1..Len(batch)
    BY <1>1
  <1> QED
    BY <1>1, <1>2, <1>3 DEF Job, Record

\* In the incremental phase what the target has seen is a place in the log.
LEMMA SeenUpToType ==
    ASSUME TypeOK, BatchInv, Live, job.phase = "incremental"
    PROVE  SeenUpTo \in Nat
  <1>1. CASE batch = <<>>
    BY <1>1, FieldTypes DEF SeenUpTo
  <1>2. CASE batch # <<>>
    <2>1. 1 \in 1..Len(batch)
      BY <1>2, FieldTypes
    <2>2. RecordFits(batch[1]) /\ batch[1].at \in Nat
      BY <2>1, FieldTypes DEF BatchInv
    <2>3. batch[1].at > 0
      BY <2>2 DEF RecordFits
    <2> QED
      BY <1>2, <2>2, <2>3 DEF SeenUpTo
  <1> QED
    BY <1>1, <1>2

\* A step that touches neither source, job, batch, target nor damaged keys (an
\* increment, a reset) keeps the invariant.
LEMMA RestUnchanged ==
    ASSUME Rest, UNCHANGED <<svars, job, batch, target, damaged>>
    PROVE  Rest'
  <1>1. UNCHANGED <<log, past, Live>>
    BY DEF svars, log, past, Live
  <1>2. JobInv'
    BY <1>1 DEF Rest, JobInv, SinceThen
  <1>3. BatchInv'
    BY <1>1 DEF Rest, BatchInv, RecordOK, RecordFits, SinceThen
  <1>4. MainInv'
    BY <1>1 DEF Rest, MainInv, Follows, SeenUpTo, SinceThen
  <1> QED
    BY <1>2, <1>3, <1>4 DEF Rest

\* What the source held it still did hold once it has been written again.
LEMMA RestSource ==
    ASSUME TypeOK, HistInv, Rest, Source
    PROVE  Rest'
  <1>1. PICK d \in Databases, op \in Ops, k \in Keys, r \in MaybeRow : Write(d, op, k, r)
    BY SourceIsWrite
  <1>2. /\ Len(log') >= Len(log) /\ Len(log) \in Nat /\ Len(log') \in Nat
        /\ \A i \in 1..Len(log) : log'[i] = log[i]
        /\ \A j \in 0..Len(log) : past'[j + 1] = past[j + 1]
        /\ UNCHANGED <<job, batch, target, damaged>>
    <2>1. UNCHANGED <<job, batch, target, damaged>> /\ Len(log) \in Nat
      BY <1>1, HistTypes DEF Write
    <2>2. CASE log' = log /\ past' = past
      BY <2>1, <2>2
    <2>3. CASE /\ Len(log') = Len(log) + 1
               /\ \A i \in 1..Len(log) : log'[i] = log[i]
               /\ \A i \in 1..Len(log) + 1 : past'[i] = past[i]
      BY <2>1, <2>3
    <2> QED
      BY <1>1, <2>2, <2>3, LogGrows
  <1>3. job.from \in Nat /\ job.sent \in Nat
    BY FieldTypes
  <1>4. ASSUME NEW p \in Nat, NEW key, NEW row, SinceThen(p, key, row)
        PROVE  \E j \in p..Len(log') : past'[j + 1][key] = row
    BY <1>2, <1>4 DEF SinceThen
  <1>5. Live /\ job.phase = "incremental" => SeenUpTo \in Nat
    BY SeenUpToType DEF Rest
  <1>6. JobInv'
    BY <1>2, <1>3, <1>4 DEF Rest, JobInv, Live, SinceThen
  <1>7. ASSUME NEW i \in 1..Len(batch)
        PROVE  RecordOK(batch[i])' /\ (Live => RecordFits(batch[i])')
    <2>1. batch[i].at \in Nat /\ RecordOK(batch[i]) /\ (Live => RecordFits(batch[i]))
      BY FieldTypes DEF Rest, BatchInv
    <2>2. RecordOK(batch[i])'
      BY <1>2, <2>1 DEF RecordOK
    <2>3. Live => RecordFits(batch[i])'
      BY <1>2, <1>3, <1>4, <2>1 DEF RecordFits, SinceThen
    <2> QED
      BY <2>2, <2>3
  <1>8. BatchInv'
    BY <1>2, <1>7 DEF Rest, BatchInv, Live
  <1>9. MainInv'
    <2>1. ASSUME Live, NEW key \in Keys \ damaged
          PROVE  Follows(key)'
      <3>1. Follows(key)
        BY <2>1 DEF Rest, MainInv
      <3>2. CASE job.phase = "incremental"
        <4>1. SinceThen(SeenUpTo, key, target[key]) /\ SeenUpTo \in Nat
          BY <1>5, <2>1, <3>1, <3>2 DEF Follows
        <4>2. SeenUpTo' = SeenUpTo
          BY <1>2 DEF SeenUpTo
        <4> QED
          BY <1>2, <1>4, <3>2, <4>1, <4>2 DEF Follows, SinceThen
      <3>3. CASE job.phase # "incremental" /\ SinceThen(job.from, key, target[key])
        BY <1>2, <1>3, <1>4, <3>3 DEF Follows, SinceThen
      <3>4. CASE job.phase # "incremental" /\ ~SinceThen(job.from, key, target[key])
        BY <1>2, <3>1, <3>4 DEF Follows
      <3> QED
        BY <3>2, <3>3, <3>4
    <2> QED
      BY <1>2, <2>1 DEF MainInv, Live
  <1> QED
    BY <1>6, <1>8, <1>9 DEF Rest

\* A start damages what the target holds that the database does not, and what is
\* in hand: all other target rows are those of the database now.
LEMMA RestStart ==
    ASSUME TypeOK, HistInv, Rest, NEW d \in Databases, StartStreaming(d)
    PROVE  Rest'
  <1>1. /\ Len(wal[d]) \in Nat /\ Now(d) = hist[d][Len(wal[d]) + 1]
        /\ job.id \in Nat /\ \A i \in 1..Len(batch) : batch[i] \in Record
    BY HistTypesOf DEF TypeOK, Job
  <1>2. /\ UNCHANGED <<batch, target>> /\ Live' /\ log' = wal[d] /\ past' = hist[d]
        /\ job'.id = job.id + 1 /\ job'.phase = "prepared" /\ job'.from = Len(wal[d])
        /\ job'.sent = Len(wal[d]) /\ job'.inv = EmptyTable
        /\ damaged' = {k \in Keys : target[k] \notin {NoRow, Now(d)[k]}} \cup InHand
    BY DEF StartStreaming, svars, Live, log, past
  <1>3. JobInv'
    BY <1>1, <1>2 DEF JobInv, EmptyTable
  <1>4. ASSUME NEW i \in 1..Len(batch)
        PROVE  RecordOK(batch[i])' /\ RecordFits(batch[i])'
    <2>1. RecordOK(batch[i]) /\ batch[i] \in Record
      BY <1>1 DEF Rest, BatchInv
    <2>2. batch[i].key \in InHand
      BY DEF InHand, TypeOK
    <2> QED
      BY <1>1, <1>2, <2>1, <2>2 DEF RecordOK, RecordFits, Record
  <1>5. BatchInv'
    BY <1>2, <1>4 DEF Rest, BatchInv
  <1>6. ASSUME NEW k \in Keys, k \notin damaged'
        PROVE  Follows(k)'
    <2>1. target[k] = NoRow \/ target[k] = hist[d][Len(wal[d]) + 1][k]
      BY <1>1, <1>2, <1>6
    <2> QED
      BY <1>1, <1>2, <2>1 DEF Follows, SinceThen
  <1> QED
    BY <1>3, <1>5, <1>6 DEF Rest, MainInv

\* After a stop the invariant speaks only of the records in hand.
LEMMA RestStop ==
    ASSUME TypeOK, Rest, StopStreaming
    PROVE  Rest'
  <1>1. ~Live' /\ UNCHANGED <<log, past, batch>> /\ job'.id = job.id
    BY DEF StopStreaming, Live, svars, TypeOK, Job, log, past
  <1> QED
    BY <1>1 DEF Rest, JobInv, BatchInv, MainInv, RecordOK

\* So does one that has been given up.
LEMMA RestGiveUp ==
    ASSUME TypeOK, Rest, GiveUp
    PROVE  Rest'
  <1>1. ~Live' /\ UNCHANGED <<log, past, batch>> /\ job'.id = job.id
    BY DEF GiveUp, Live, svars, TypeOK, Job, log, past
  <1> QED
    BY <1>1 DEF Rest, JobInv, BatchInv, MainInv, RecordOK

\* The snapshot rows are what the source holds after the job's position.
LEMMA RestReadInventory ==
    ASSUME TypeOK, HistInv, Rest, ReadInventory
    PROVE  Rest'
  <1>1. /\ UNCHANGED <<log, past, batch, target, damaged>> /\ Live /\ Live'
        /\ job.phase = "prepared" /\ job'.phase = "inventory" /\ job'.inv = source
        /\ job'.id = job.id /\ job'.from = job.from /\ job'.sent = job.sent
    BY DEF ReadInventory, Live, svars, TypeOK, Job, log, past
  <1>2. /\ job.from \in Nat /\ job.sent = job.from /\ job.from <= Len(log)
        /\ source = past[Len(log) + 1] /\ Len(log) \in Nat
    BY <1>1, HistTypes DEF TypeOK, Job, Rest, JobInv
  <1>3. \A k \in Keys : \E j \in job.from..Len(log) : past[j + 1][k] = source[k]
    BY <1>2
  <1>4. JobInv'
    BY <1>1, <1>2, <1>3 DEF JobInv, SinceThen
  <1>5. BatchInv'
    BY <1>1 DEF Rest, BatchInv, RecordOK, RecordFits, SinceThen
  <1>6. ASSUME NEW k \in Keys \ damaged
        PROVE  Follows(k)'
    BY <1>1, <1>3 DEF Rest, MainInv, Follows, SinceThen
  <1> QED
    BY <1>1, <1>4, <1>5, <1>6 DEF Rest, MainInv

\* With no snapshot row left to send or in hand, the target has caught up with
\* the job's position.
LEMMA RestFinishInventory ==
    ASSUME TypeOK, HistInv, Rest, FinishInventory
    PROVE  Rest'
  <1>1. /\ UNCHANGED <<log, past, batch, target, damaged>> /\ Live /\ Live'
        /\ job.phase = "inventory" /\ job'.phase = "incremental" /\ batch = <<>>
        /\ job.inv = EmptyTable /\ job'.inv = job.inv
        /\ job'.id = job.id /\ job'.from = job.from /\ job'.sent = job.sent
    BY DEF FinishInventory, Live, svars, TypeOK, Job, log, past
  <1>2. job.sent = job.from
    BY <1>1 DEF Rest, JobInv
  <1>3. JobInv' /\ BatchInv'
    BY <1>1 DEF Rest, JobInv, BatchInv, EmptyTable
  <1>4. ASSUME NEW k \in Keys \ damaged
        PROVE  Follows(k)'
    <2>1. Follows(k)
      BY <1>1 DEF Rest, MainInv
    <2>2. SinceThen(job.from, k, target[k])
      BY <1>1, <2>1 DEF Follows, EmptyTable
    <2> QED
      BY <1>1, <1>2, <2>2 DEF Follows, SeenUpTo, SinceThen
  <1> QED
    BY <1>1, <1>3, <1>4 DEF Rest, MainInv

\* The rows leave the inventory and are in hand instead.
LEMMA RestDeliverInventory ==
    ASSUME TypeOK, HistInv, Rest, NEW ks \in Deliveries, DeliverInventory(ks)
    PROVE  Rest'
  <1>1. PICK n \in 1..MaxBatch : ks \in [1..n -> Remaining]
    BY DEF Deliveries
  <1>2. n \in Nat /\ DOMAIN ks = 1..n /\ \A i \in 1..n : ks[i] \in Remaining
    BY <1>1, PipelineAssumption
  <1>3. /\ UNCHANGED <<log, past, target, damaged>> /\ Live /\ Live'
        /\ job.phase = "inventory" /\ job'.phase = "inventory"
        /\ job'.id = job.id /\ job'.from = job.from /\ job'.sent = job.sent
        /\ job'.inv = [k \in Keys |-> IF \E i \in 1..n : ks[i] = k THEN NoRow ELSE job.inv[k]]
    BY <1>2 DEF DeliverInventory, Live, svars, TypeOK, Job, log, past
  <1>4. batch' = [i \in 1..n |-> [job |-> job.id, at |-> 0, op |-> "INSERT",
                                 key |-> ks[i], row |-> job.inv[ks[i]]]]
    BY <1>2 DEF DeliverInventory
  <1>5. batch' \in Seq({batch'[i] : i \in 1..n}) /\ Len(batch') = n
    BY <1>2, <1>4, FunctionIsSeq
  <1>6. \A i \in 1..n : /\ batch'[i].job = job.id /\ batch'[i].at = 0
                        /\ batch'[i].op = "INSERT" /\ batch'[i].key = ks[i]
                        /\ batch'[i].row = job.inv[ks[i]]
    BY <1>4
  <1>7. ASSUME NEW i \in 1..n
        PROVE  RecordOK(batch[i])' /\ RecordFits(batch[i])'
    <2>1. ks[i] \in Keys /\ job.inv[ks[i]] # NoRow
      BY <1>2 DEF Remaining
    <2>2. job.inv[ks[i]] \in Rows /\ SinceThen(job.from, ks[i], job.inv[ks[i]])
      BY <1>3, <2>1, FieldTypes DEF Table, MaybeRow, Rest, JobInv
    <2> QED
      BY <1>3, <1>6, <2>2, FieldTypes DEF RecordOK, RecordFits, SinceThen
  <1>8. BatchInv'
    BY <1>3, <1>5, <1>6, <1>7 DEF BatchInv
  <1>9. JobInv'
    BY <1>3 DEF Rest, JobInv, SinceThen
  <1>10. ASSUME NEW k \in Keys \ damaged
         PROVE  Follows(k)'
    <2>1. Follows(k)
      BY <1>3 DEF Rest, MainInv
    <2>2. CASE SinceThen(job.from, k, target[k])
      BY <1>3, <2>2 DEF Follows, SinceThen
    <2>3. CASE target[k] = NoRow /\ job.inv[k] # NoRow
      BY <1>3, <1>5, <1>6, <2>3 DEF Follows
    <2>4. batch = <<>>
      BY DEF DeliverInventory
    <2> QED
      BY <1>3, <2>1, <2>2, <2>3, <2>4 DEF Follows
  <1> QED
    BY <1>3, <1>8, <1>9, <1>10 DEF Rest, MainInv

\* The next changes of the log are in hand; the target has seen as much as before.
LEMMA RestDeliverChanges ==
    ASSUME TypeOK, HistInv, Rest, NEW n \in 1..MaxBatch, DeliverChanges(n)
    PROVE  Rest'
  <1>1. /\ n \in Nat /\ n >= 1 /\ job.sent \in Nat /\ job.from \in Nat /\ Len(log) \in Nat
        /\ \A i \in 1..Len(log) : log[i] \in Change
    BY PipelineAssumption, FieldTypes, HistTypes
  <1>2. /\ UNCHANGED <<log, past, target, damaged>> /\ Live /\ Live'
        /\ job.phase = "incremental" /\ job'.phase = "incremental" /\ batch = <<>>
        /\ job'.id = job.id /\ job'.from = job.from /\ job'.sent = job.sent + n
        /\ job'.inv = job.inv /\ job.sent + n <= Len(log)
    BY DEF DeliverChanges, Live, svars, TypeOK, Job, log, past
  <1>3. batch' = [i \in 1..n |-> [job |-> job.id, at |-> job.sent + i,
                                 op |-> log[job.sent + i].op, key |-> log[job.sent + i].key,
                                 row |-> log[job.sent + i].row]]
    BY DEF DeliverChanges
  <1>4. batch' \in Seq({batch'[i] : i \in 1..n}) /\ Len(batch') = n /\ batch' # <<>>
    <2>1. batch' \in [1..n -> {batch'[i] : i \in 1..n}]
      BY <1>3
    <2>2. batch' \in Seq({batch'[i] : i \in 1..n}) /\ Len(batch') = n
      BY <1>1, <2>1, FunctionIsSeq
    <2> QED
      BY <1>1, <2>2
  <1>5. \A i \in 1..n : /\ batch'[i].job = job.id /\ batch'[i].at = job.sent + i
                        /\ batch'[i].op = log[job.sent + i].op
                        /\ batch'[i].key = log[job.sent + i].key
                        /\ batch'[i].row = log[job.sent + i].row
    BY <1>3
  <1>6. job.from <= job.sent
    BY <1>2 DEF Rest, JobInv
  <1>7. ASSUME NEW i \in 1..n
        PROVE  RecordOK(batch[i])' /\ RecordFits(batch[i])'
    <2>1. job.sent + i \in 1..Len(log) /\ log[job.sent + i] \in Change
      BY <1>1, <1>2
    <2>2. log[job.sent + i] = [op |-> log[job.sent + i].op, key |-> log[job.sent + i].key,
                               row |-> log[job.sent + i].row]
      BY <2>1 DEF Change
    <2>3. RecordOK(batch[i])'
      BY <1>1, <1>2, <1>5, <2>1, <2>2, FieldTypes DEF RecordOK
    <2>4. RecordFits(batch[i])'
      BY <1>1, <1>2, <1>5, <1>6 DEF RecordFits
    <2> QED
      BY <2>3, <2>4
  <1>8. BatchInv'
    <2>1. ASSUME NEW i \in 1..n, i < n
          PROVE  batch'[i + 1].at = batch'[i].at + 1
      <3>1. i + 1 \in 1..n
        BY <1>1, <2>1
      <3>2. batch'[i + 1].at = job.sent + (i + 1) /\ batch'[i].at = job.sent + i
        BY <1>5, <3>1
      <3>3. i \in Int /\ job.sent \in Int
        BY <1>1
      <3>4. job.sent + (i + 1) = (job.sent + i) + 1
        BY <3>3
      <3> QED
        BY <3>2, <3>4
    <2>2. job'.sent <= batch'[n].at
      <3>1. n \in 1..n
        BY <1>1
      <3>2. batch'[n].at = job.sent + n
        BY <1>5, <3>1
      <3> QED
        BY <1>1, <1>2, <3>2
    <2>3. \A i \in 1..n : batch'[i].job = batch'[1].job
      BY <1>1, <1>5
    <2>4. \A i \in 1..n : RecordOK(batch[i])' /\ RecordFits(batch[i])'
      BY <1>7
    <2> HIDE DEF RecordOK, RecordFits
    <2> QED
      BY <1>1, <1>4, <2>1, <2>2, <2>3, <2>4 DEF BatchInv
  <1>9. JobInv'
    BY <1>1, <1>2, <1>6 DEF Rest, JobInv
  <1>10. ASSUME NEW k \in Keys \ damaged
         PROVE  Follows(k)'
    <2>1. Follows(k)
      BY <1>2 DEF Rest, MainInv
    <2>2. SeenUpTo' = SeenUpTo
      <3>1. batch'[1].at = job.sent + 1
        BY <1>1, <1>5
      <3> QED
        BY <1>1, <1>2, <1>4, <3>1 DEF SeenUpTo
    <2> QED
      BY <1>2, <2>1, <2>2 DEF Follows, SinceThen
  <1> QED
    BY <1>2, <1>8, <1>9, <1>10 DEF Rest, MainInv

\* A loss takes the job back; what the target has seen it has seen no less.
LEMMA RestConnectionLost ==
    ASSUME TypeOK, HistInv, Rest, ConnectionLost
    PROVE  Rest'
  <1>1. UNCHANGED <<log, past, batch, target, damaged>> /\ Live
    <2>1. job'.db = job.db
      BY DEF ConnectionLost, TypeOK, Job
    <2> QED
      BY <2>1 DEF ConnectionLost, svars, log, past
  <1>2. job.from \in Nat /\ job.sent \in Nat /\ job.from <= job.sent /\ job.sent <= Len(log)
    BY <1>1, FieldTypes DEF Rest, JobInv
  <1>3. CASE job.phase = "incremental"
    <2>1. PICK p \in job.from..job.sent : job' = [job EXCEPT !.sent = p]
      BY <1>3 DEF ConnectionLost
    <2>2. /\ Live' /\ job'.phase = "incremental" /\ job'.id = job.id
          /\ job'.from = job.from /\ job'.sent = p /\ job'.inv = job.inv
      BY <1>3, <2>1 DEF Live, TypeOK, Job
    <2>3. JobInv'
      BY <1>1, <1>2, <1>3, <2>1, <2>2, HistTypes DEF Rest, JobInv
    <2>4. ASSUME NEW i \in 1..Len(batch)
          PROVE  RecordOK(batch[i])' /\ RecordFits(batch[i])'
      BY <1>1, <1>3, <2>2 DEF Rest, BatchInv, RecordOK, RecordFits
    <2>5. batch # <<>> => job'.sent <= batch[Len(batch)].at
      <3>1. batch # <<>> => batch[Len(batch)].at \in Nat /\ job.sent <= batch[Len(batch)].at
        BY <1>1, <1>3, FieldTypes DEF Rest, BatchInv
      <3> QED
        BY <1>2, <2>1, <2>2, <3>1
    <2>6. BatchInv'
      BY <1>1, <2>2, <2>4, <2>5 DEF Rest, BatchInv
    <2>7. ASSUME NEW k \in Keys \ damaged
          PROVE  Follows(k)'
      <3>1. SinceThen(SeenUpTo, k, target[k]) /\ SeenUpTo \in Nat
        BY <1>1, <1>3, SeenUpToType DEF Rest, MainInv, Follows
      <3>2. SeenUpTo' \in Int /\ SeenUpTo' <= SeenUpTo
        BY <1>1, <1>2, <2>1, <2>2, <3>1 DEF SeenUpTo
      <3>3. PICK j \in SeenUpTo..Len(log) : past[j + 1][k] = target[k]
        BY <3>1 DEF SinceThen
      <3>4. j \in SeenUpTo'..Len(log)
        BY <3>1, <3>2, HistTypes
      <3> QED
        BY <1>1, <2>2, <3>3, <3>4 DEF Follows, SinceThen
    <2> QED
      BY <1>1, <2>2, <2>3, <2>6, <2>7 DEF Rest, MainInv
  <1>4. CASE job.phase # "incremental"
    <2>1. /\ Live' /\ job'.phase = "prepared" /\ job'.id = job.id
          /\ job'.from = job.from /\ job'.sent = job.sent /\ job'.inv = EmptyTable
      BY <1>4 DEF ConnectionLost, Live, TypeOK, Job
    <2>2. JobInv'
      BY <1>1, <1>4, <2>1 DEF Rest, JobInv, EmptyTable
    <2>3. BatchInv'
      BY <1>1, <1>4, <2>1 DEF Rest, BatchInv, RecordOK, RecordFits, SinceThen
    <2>4. MainInv'
      BY <1>1, <1>4, <2>1 DEF Rest, MainInv, Follows, SinceThen
    <2> QED
      BY <2>2, <2>3, <2>4 DEF Rest
  <1> QED
    BY <1>3, <1>4

\* Clearing the target damages every key whose row it removes.
LEMMA RestCleared ==
    ASSUME TypeOK, Rest, UNCHANGED <<svars, job, batch>>, target' = EmptyTable,
           damaged' = damaged \cup {k \in Keys : target[k] # NoRow}
    PROVE  Rest'
  <1>0. UNCHANGED <<log, past, job, batch>>
    BY DEF svars, log, past
  <1>1. JobInv' /\ BatchInv'
    BY <1>0 DEF Rest, JobInv, BatchInv, Live, SinceThen, RecordOK, RecordFits
  <1>2. ASSUME Live, NEW k \in Keys, k \notin damaged'
        PROVE  Follows(k)'
    <2>1. Follows(k) /\ target[k] = NoRow /\ target'[k] = NoRow
      BY <1>2 DEF Rest, MainInv, EmptyTable
    <2> QED
      BY <1>0, <2>1 DEF Follows, SinceThen, SeenUpTo
  <1> QED
    BY <1>0, <1>1, <1>2 DEF Rest, MainInv, Live

\* That is what clearTargetData() does.
LEMMA RestClearTarget ==
    ASSUME TypeOK, Rest, ClearTarget
    PROVE  Rest'
  BY RestCleared DEF ClearTarget

\* The heart of the matter: applying the record at the head of the batch.  A row
\* present where an INSERT finds it, or absent where an UPDATE finds it, can only
\* be one the source had later; a statement that has its effect leaves the row
\* the source had right after the change.
LEMMA RestApply ==
    ASSUME TypeOK, HistInv, Rest, NEW fails \in BOOLEAN, ApplyEvent(fails)
    PROVE  Rest'
  <1> DEFINE rec == batch[1]
             n == Len(batch)
  <1>1. /\ UNCHANGED <<log, past, job>> /\ batch # <<>> /\ Head(batch) = rec
        /\ batch' = Tail(batch)
    BY DEF ApplyEvent, NextRecords, svars, TypeOK, log, past
  <1>2. /\ n \in Nat /\ n >= 1 /\ 1 \in 1..n /\ Len(batch') = n - 1
        /\ \A i \in 1..n - 1 : batch'[i] = batch[i + 1]
        /\ batch' = <<>> <=> n = 1
    <2>1. batch \in Seq(Record) /\ n \in Nat /\ n >= 1
      BY <1>1, FieldTypes DEF TypeOK
    <2>2. /\ Tail(batch) \in Seq(Record) /\ Len(Tail(batch)) = n - 1
          /\ \A i \in 1..n - 1 : Tail(batch)[i] = batch[i + 1]
      BY <1>1, <2>1
    <2>3. batch' = <<>> <=> n = 1
      <3>1. Tail(batch) = <<>> <=> Len(Tail(batch)) = 0
        BY <2>2, EmptySeq
      <3> QED
        BY <1>1, <2>1, <2>2, <3>1
    <2> QED
      BY <1>1, <2>1, <2>2, <2>3
  <1>3. rec.at \in Nat /\ rec.op \in Ops /\ rec.key \in Keys /\ rec.row \in MaybeRow
    BY <1>2, FieldTypes
  <1>4. /\ target' = [target EXCEPT ![rec.key] = target'[rec.key]]
        /\ \/ damaged' = damaged \cup {rec.key}
           \/ /\ target'[rec.key] = Applied(rec, target[rec.key])
              /\ rec.op \in {"INSERT", "UPDATE"} => Decoded[rec.row] = rec.row
              /\ \/ /\ rec.job = job.id /\ target'[rec.key] = rec.row
                    /\ damaged' = damaged \ {rec.key}
                 \/ /\ rec.job # job.id \/ target'[rec.key] # rec.row
                    /\ damaged' = damaged
    <2> DEFINE lost == Undecodable(rec)
               new == Applied(rec, target[rec.key])
    <2>1. CASE fails \/ lost
      BY <1>1, <1>3, <2>1 DEF ApplyEvent, Where, TypeOK, Table
    <2>2. CASE ~fails /\ ~lost
      <3>1. /\ target' = [target EXCEPT ![rec.key] = new]
            /\ damaged' = IF Misread(rec) THEN damaged \cup {rec.key}
                          ELSE IF rec.job = job.id /\ new = rec.row THEN damaged \ {rec.key}
                          ELSE damaged
        BY <1>1, <2>2 DEF ApplyEvent, Where
      <3>2. target'[rec.key] = new
        BY <1>3, <3>1 DEF TypeOK, Table
      <3>3. target' = [target EXCEPT ![rec.key] = target'[rec.key]]
        BY <3>1, <3>2
      <3> HIDE DEF new
      <3>4. CASE Misread(rec)
        BY <3>1, <3>3, <3>4
      <3>5. CASE ~Misread(rec)
        <4>1. rec.op \in {"INSERT", "UPDATE"} => Decoded[rec.row] = rec.row
          BY <3>5 DEF Misread
        <4>2. damaged' = IF rec.job = job.id /\ new = rec.row THEN damaged \ {rec.key}
                         ELSE damaged
          BY <3>1, <3>5
        <4> QED
          BY <3>2, <3>3, <4>1, <4>2 DEF new
      <3> QED
        BY <3>4, <3>5
    <2> QED
      BY <2>1, <2>2
  <1>5. \A k \in Keys : k # rec.key =>
            target'[k] = target[k] /\ (k \in damaged' <=> k \in damaged)
    BY <1>3, <1>4 DEF TypeOK, Table
  <1>6. JobInv'
    BY <1>1 DEF Rest, JobInv, Live, SinceThen
  <1>7. ASSUME NEW i \in 1..n - 1
        PROVE  RecordOK(batch[i + 1]) /\ (Live => RecordFits(batch[i + 1]))
    BY <1>2 DEF Rest, BatchInv
  <1>8. ASSUME NEW i \in 1..n - 1
        PROVE  RecordOK(batch[i])' /\ (Live => RecordFits(batch[i])')
    <2>1. RecordOK(batch[i])'
      BY <1>1, <1>2, <1>7 DEF RecordOK
    <2>2. ASSUME Live PROVE RecordFits(batch[i])'
      <3>1. /\ RecordFits(batch[i + 1]) /\ batch[i + 1].key \in Keys
            /\ batch[i + 1].job = rec.job
        BY <1>2, <1>7, <2>2, FieldTypes DEF Rest, BatchInv
      <3>2. batch[i + 1].job # job.id => batch[i + 1].key \in damaged'
        BY <1>4, <3>1 DEF RecordFits
      <3>3. batch'[i] = batch[i + 1]
        BY <1>2
      <3> QED
        BY <1>1, <3>1, <3>2, <3>3 DEF RecordFits, SinceThen
    <2>3. Live => RecordFits(batch[i])'
      BY <2>2
    <2> QED
      BY <2>1, <2>3
  <1>9. BatchInv'
    <2>1. ASSUME NEW i \in 1..n - 1
          PROVE  batch'[i].job = batch'[1].job
      BY <1>2, <2>1 DEF Rest, BatchInv
    <2>2. ASSUME NEW i \in 1..n - 1, i < n - 1, batch'[i].at > 0
          PROVE  batch'[i + 1].at = batch'[i].at + 1
      BY <1>2, <2>2 DEF Rest, BatchInv
    <2>3. n # 1 => batch'[n - 1] = batch[n]
      BY <1>2
    <2>4. Live /\ job.phase = "incremental" /\ n # 1 => job.sent <= batch'[n - 1].at
      BY <1>1, <2>3 DEF Rest, BatchInv
    <2> QED
      BY <1>1, <1>2, <1>8, <2>1, <2>2, <2>4 DEF BatchInv, Live
  <1>10. ASSUME Live, job.phase # "incremental", NEW k \in Keys, k \notin damaged'
         PROVE  Follows(k)'
    <2>1. CASE k # rec.key
      <3>1. Follows(k) /\ target'[k] = target[k]
        BY <1>5, <1>10, <2>1 DEF Rest, MainInv
      <3>2. ASSUME NEW i \in 1..n, batch[i].key = k, batch[i].job = job.id
            PROVE  \E m \in 1..n - 1 : batch'[m].key = k /\ batch'[m].job = job.id
        <4>1. i # 1 /\ i - 1 \in 1..n - 1 /\ (i - 1) + 1 = i
          BY <1>2, <2>1, <3>2
        <4>2. batch'[i - 1] = batch[i]
          BY <1>2, <4>1
        <4> QED
          BY <3>2, <4>1, <4>2
      <3> QED
        BY <1>1, <1>2, <1>10, <3>1, <3>2 DEF Follows, SinceThen
    <2>2. CASE k = rec.key
      <3>1. rec.job = job.id \/ k \in damaged
        BY <1>2, <1>10, <2>2 DEF Rest, BatchInv, RecordFits
      <3>2. rec.job = job.id
        BY <1>4, <1>10, <2>2, <3>1
      <3>3. /\ rec.at = 0 /\ rec.op = "INSERT" /\ rec.row \in Rows
            /\ SinceThen(job.from, k, rec.row)
        <4>1. RecordOK(rec) /\ RecordFits(rec)
          BY <1>2, <1>10 DEF Rest, BatchInv
        <4>2. rec.at = 0
          BY <1>3, <1>10, <3>2, <4>1 DEF RecordFits
        <4> QED
          BY <2>2, <3>2, <4>1, <4>2 DEF RecordOK, RecordFits
      <3>4. \/ target'[k] = rec.row
            \/ target'[k] = target[k] /\ target[k] # NoRow /\ k \notin damaged
        <4>1. /\ \/ target'[k] = rec.row
                 \/ target'[k] = Applied(rec, target[k]) /\ k \notin damaged
              /\ Decoded[rec.row] = rec.row
          <5>1. damaged' # damaged \cup {rec.key}
            BY <1>10, <2>2
          <5>2. /\ target'[rec.key] = Applied(rec, target[rec.key])
                /\ rec.op \in {"INSERT", "UPDATE"} => Decoded[rec.row] = rec.row
                /\ target'[rec.key] = rec.row \/ damaged' = damaged
            BY <1>4, <5>1
          <5> QED
            BY <1>10, <2>2, <3>3, <5>2
        <4>2. Applied(rec, target[k]) = IF target[k] = NoRow THEN rec.row ELSE target[k]
          BY <3>3, <4>1 DEF Applied
        <4> QED
          BY <4>1, <4>2
      <3>5. CASE target'[k] = rec.row
        BY <1>1, <1>10, <3>3, <3>5 DEF Follows, SinceThen
      <3>6. CASE target'[k] = target[k] /\ target[k] # NoRow /\ k \notin damaged
        <4>1. SinceThen(job.from, k, target[k])
          BY <1>10, <3>6 DEF Rest, MainInv, Follows
        <4> QED
          BY <1>1, <1>10, <3>6, <4>1 DEF Follows, SinceThen
      <3> QED
        BY <3>4, <3>5, <3>6
    <2> QED
      BY <2>1, <2>2
  <1>11. ASSUME Live, job.phase = "incremental", NEW k \in Keys, k \notin damaged'
         PROVE  Follows(k)'
    <2>1. /\ rec.job = job.id /\ rec.at > job.from /\ RecordOK(rec)
          /\ rec.at > 0 /\ rec.at \in 1..Len(log) /\ rec.at \in job.from + 1..Len(log)
      BY <1>2, <1>3, <1>11, FieldTypes, HistTypes DEF Rest, BatchInv, RecordFits, RecordOK
    <2>2. SeenUpTo = rec.at - 1 /\ SeenUpTo' \in Int /\ SeenUpTo' <= rec.at
      <3>1. CASE n = 1
        <4>1. job.sent <= rec.at /\ job.sent \in Nat
          BY <1>1, <1>11, <3>1, FieldTypes DEF Rest, BatchInv
        <4> QED
          BY <1>1, <1>2, <1>3, <3>1, <4>1 DEF SeenUpTo
      <3>2. CASE n # 1
        <4>1. batch'[1].at = rec.at + 1
          BY <1>2, <2>1, <3>2 DEF Rest, BatchInv
        <4> QED
          BY <1>1, <1>2, <1>3, <3>2, <4>1 DEF SeenUpTo
      <3> QED
        BY <3>1, <3>2
    <2>3. /\ log[rec.at] = [op |-> rec.op, key |-> rec.key, row |-> rec.row]
          /\ ChangeOK(rec.at) /\ Len(log) \in Nat
          /\ past[rec.at] \in Table /\ past[rec.at + 1] \in Table
      <3>1. Len(log) \in Nat /\ rec.at \in Int
        BY <1>3, HistTypes
      <3>2. rec.at - 1 \in 0..Len(log) /\ rec.at \in 0..Len(log) /\ (rec.at - 1) + 1 = rec.at
        BY <2>1, <3>1
      <3>3. past[rec.at] \in Table /\ past[rec.at + 1] \in Table
        BY <3>2, HistTypes
      <3> QED
        BY <1>11, <2>1, <3>1, <3>3 DEF RecordOK, HistInv
    <2>4. /\ past[rec.at + 1] = [past[rec.at] EXCEPT ![rec.key] = rec.row]
          /\ rec.op = "UNKNOWN" => rec.row = past[rec.at][rec.key]
          /\ rec.op # "UNKNOWN" => (rec.op = "INSERT" <=> past[rec.at][rec.key] = NoRow)
          /\ rec.op # "UNKNOWN" => (rec.op = "DELETE" <=> rec.row = NoRow)
      BY <2>3 DEF ChangeOK
    <2>5. ASSUME NEW j \in rec.at..Len(log), past[j + 1][k] = target'[k]
          PROVE  Follows(k)'
      <3>1. j \in SeenUpTo'..Len(log)
        BY <2>1, <2>2, <2>3
      <3> QED
        BY <1>1, <1>11, <2>5, <3>1 DEF Follows, SinceThen
    <2>6. ASSUME k \notin damaged
          PROVE  \E j \in rec.at - 1..Len(log) : past[j + 1][k] = target[k]
      BY <1>11, <2>2, <2>6 DEF Rest, MainInv, Follows, SinceThen
    <2>7. ASSUME k \notin damaged, target'[k] = target[k],
                 past[rec.at + 1][k] = past[rec.at][k]
          PROVE  Follows(k)'
      <3>2. PICK j \in rec.at - 1..Len(log) : past[j + 1][k] = target'[k]
        BY <2>6, <2>7
      <3>3. j = rec.at - 1 \/ j \in rec.at..Len(log)
        BY <2>1, <2>3
      <3>4. rec.at \in rec.at..Len(log) /\ (rec.at - 1) + 1 = rec.at
        BY <2>1, <2>3
      <3> QED
        BY <2>5, <2>7, <3>2, <3>3, <3>4
    <2>8. CASE k # rec.key
      <3>1. past[rec.at + 1][k] = past[rec.at][k]
        BY <2>3, <2>4, <2>8 DEF Table
      <3> QED
        BY <1>5, <1>11, <2>7, <2>8, <3>1
    <2>9. CASE k = rec.key
      <3>1. CASE target'[k] = rec.row
        <4>1. past[rec.at + 1][k] = rec.row
          BY <2>3, <2>4, <2>9 DEF Table
        <4>2. rec.at \in rec.at..Len(log)
          BY <2>1, <2>3
        <4> QED
          BY <2>5, <3>1, <4>1, <4>2
      <3>2. CASE target'[k] # rec.row
        <4>1. /\ target'[k] = Applied(rec, target[k]) /\ k \notin damaged
              /\ rec.op \in {"INSERT", "UPDATE"} => Decoded[rec.row] = rec.row
          BY <1>4, <1>11, <2>1, <2>9, <3>2
        <4>2. /\ target'[k] = target[k] /\ rec.op # "DELETE"
              /\ rec.op # "UNKNOWN" => (target[k] = NoRow <=> rec.op = "UPDATE")
          BY <1>3, <2>4, <3>2, <4>1 DEF Applied, Ops, DML
        <4>3. rec.op = "UNKNOWN" => past[rec.at + 1][k] = past[rec.at][k]
          BY <2>3, <2>4, <2>9 DEF Table
        <4>4. CASE rec.op = "UNKNOWN"
          BY <2>7, <4>1, <4>2, <4>4, <4>3
        <4>5. SUFFICES ASSUME rec.op # "UNKNOWN" PROVE Follows(k)'
          BY <4>4
        <4>6. past[rec.at][k] # target[k]
          BY <1>3, <2>4, <2>9, <4>2, <4>5 DEF Ops, DML
        <4>7. PICK j \in rec.at - 1..Len(log) : past[j + 1][k] = target[k]
          BY <2>6, <4>1
        <4>8. j # rec.at - 1
          <5>1. j = rec.at - 1 => j + 1 = rec.at
            BY <1>3
          <5> QED
            BY <4>6, <4>7, <5>1
        <4>9. j \in rec.at..Len(log)
          BY <1>3, <2>3, <4>7, <4>8
        <4> QED
          BY <2>5, <4>2, <4>7, <4>9
      <3> QED
        BY <3>1, <3>2
    <2> QED
      BY <2>8, <2>9
  <1>12. MainInv'
    BY <1>1, <1>10, <1>11 DEF MainInv, Live
  <1> QED
    BY <1>6, <1>9, <1>12 DEF Rest

-----------------------------------------------------------------------------
(* The theorems.                                                           *)

\* Initially there is no job, nothing in hand and an empty target.
LEMMA IInvInit == Init => IInv
  <1> SUFFICES ASSUME Init PROVE IInv
    OBVIOUS
  <1>1. TypeOK
    BY TypeInit
  <1>2. /\ \A d \in Databases : Len(wal[d]) = 0
        /\ Len(batch) = 0 /\ batch = <<>> /\ ~Live
    BY DEF Init, Live
  <1>3. \A d \in Databases : Len(hist[d]) = 1
    <2>1. PICK seed : hist = [d \in Databases |-> <<seed[d]>>]
      BY DEF Init
    <2> QED
      BY <2>1
  <1>4. HistInv
    <2>1. ASSUME NEW d \in Databases
          PROVE  Len(hist[d]) = Len(wal[d]) + 1 /\ 1..Len(wal[d]) = {}
      <3>1. Len(hist[d]) = 1 /\ Len(wal[d]) = 0
        BY <1>2, <1>3
      <3> QED
        BY <3>1
    <2> QED
      BY <1>2, <2>1 DEF HistInv
  <1> QED
    BY <1>1, <1>2, <1>4 DEF IInv, JobInv, BatchInv, MainInv

\* Every step keeps the inductive invariant.
LEMMA IInvStep == IInv /\ [Next]_vars => IInv'
  <1> SUFFICES ASSUME TypeOK, HistInv, Rest, [Next]_vars PROVE (TypeOK /\ HistInv /\ Rest)'
    BY DEF IInv, Rest
  <1>1. TypeOK' /\ HistInv'
    BY HistTypes, TypeStep, HistStep
  <1>2. ASSUME CountEvent \/ ResetStatistics \/ UNCHANGED vars
        PROVE  Rest'
    BY <1>2, RestUnchanged DEF CountEvent, ResetStatistics, vars, svars
  <1>3. Rest'
    BY <1>2, RestSource, RestStart, RestStop, RestReadInventory, RestDeliverInventory,
       RestFinishInventory, RestDeliverChanges, RestConnectionLost, RestGiveUp, RestApply,
       RestClearTarget
       DEF Next, Deliver, Consume
  <1> QED
    BY <1>1, <1>3

\* The inductive invariant: the target follows the source's log (Follows), the
\* batch in hand being what separates it from the job's position.
THEOREM Inductive == Spec => []IInv
  BY IInvInit, IInvStep, PTL DEF Spec

\* A caught-up stream, whose batch is empty and whose position is the end of the log,
\* has shown the target the whole log.
LEMMA MatchesOfIInv == IInv => TargetMatchesSource
  <1> SUFFICES ASSUME IInv, CaughtUp, NEW k \in Keys \ damaged
               PROVE  target[k] = source[k]
    BY DEF TargetMatchesSource
  <1>1. job.phase = "incremental" /\ batch = <<>> /\ job.sent = Len(log) /\ Live
    BY DEF CaughtUp, Live
  <1>2. SinceThen(Len(log), k, target[k])
    BY <1>1 DEF IInv, MainInv, Follows, SeenUpTo
  <1>3. Len(log) \in Nat /\ source = past[Len(log) + 1]
    BY HistTypes DEF IInv
  <1> QED
    BY <1>2, <1>3 DEF SinceThen

\* A caught-up stream has made target and source equal on every undamaged key.
THEOREM TargetMatchesSourceTheorem == Spec => []TargetMatchesSource
  BY MatchesOfIInv, Inductive, PTL

-----------------------------------------------------------------------------
(* NothingInvented holds of damaged keys and stopped jobs too, so it has an *)
(* inductive invariant of its own: whatever is on the way to the target was *)
(* once a row of some database under the same key.                         *)

Seen(k, r) == r = NoRow \/ \E d \in Databases : \E i \in DOMAIN hist[d] : r = hist[d][i][k]

\* What reaches the target has been decoded.
Decodes(k, r) == r = NoRow \/ Streamed(k, r)

SeenInv == /\ \A k \in Keys : Seen(k, job.inv[k])
           /\ \A i \in 1..Len(batch) : Seen(batch[i].key, batch[i].row)

\* Decoding takes what was seen to what may be in the target.
LEMMA SeenDecodes ==
    ASSUME NEW k \in Keys, NEW r, Seen(k, r)
    PROVE  Decodes(k, Decoded[r])
  <1>1. CASE r = NoRow
    BY <1>1, PipelineAssumption DEF Decodes
  <1>2. CASE \E d \in Databases : \E i \in DOMAIN hist[d] : r = hist[d][i][k]
    BY <1>2 DEF Decodes, Streamed
  <1> QED
    BY <1>1, <1>2 DEF Seen

\* Every version of a database stays in its history.
LEMMA HistKept ==
    ASSUME TypeOK, HistInv, [Next]_vars, NEW e \in Databases, NEW i \in DOMAIN hist[e]
    PROVE  i \in DOMAIN hist'[e] /\ hist'[e][i] = hist[e][i]
  <1>1. CASE Source
    <2>1. PICK d \in Databases, op \in Ops, k \in Keys, r \in MaybeRow : Write(d, op, k, r)
      BY <1>1, SourceIsWrite
    <2>2. CASE e = d
      <3>1. /\ Len(hist'[d]) = Len(hist[d]) + 1 /\ Len(hist[d]) = Len(wal[d]) + 1
            /\ \A m \in 1..Len(wal[d]) + 1 : hist'[d][m] = hist[d][m]
        <4>1. Write(d, op, k, r)
          BY <2>1
        <4>2. Len(hist[d]) = Len(wal[d]) + 1
          BY HistTypesOf
        <4> QED
          BY <4>1, <4>2, WriteAppends
      <3>2. hist[d] \in Seq(Table) /\ hist'[d] \in Seq(Table)
        BY HistTypes, TypeStep DEF TypeOK
      <3>3. DOMAIN hist[d] = 1..Len(hist[d]) /\ DOMAIN hist'[d] = 1..Len(hist'[d])
            /\ Len(hist[d]) \in Nat
        BY <3>2
      <3> QED
        BY <2>2, <3>1, <3>3
    <2>3. CASE e # d
      BY <2>1, <2>3, WriteAppends
    <2> QED
      BY <2>2, <2>3
  <1>2. CASE ~Source
    <2>1. hist' = hist
      BY <1>2 DEF Next, Deliver, Consume, StartStreaming, StopStreaming, ReadInventory,
             DeliverInventory, FinishInventory, DeliverChanges, ConnectionLost, GiveUp,
             CountEvent, ApplyEvent, ClearTarget, ResetStatistics, vars, svars
    <2> QED
      BY <2>1
  <1> QED
    BY <1>1, <1>2

\* Every step moves rows of one key only, between databases, snapshot, batch and target.
LEMMA SeenStep ==
    ASSUME TypeOK, HistInv, SeenInv, [Next]_vars
    PROVE  /\ SeenInv'
           /\ \A k \in Keys : target'[k] = target[k] \/ Decodes(k, target'[k])
  <1> DEFINE G == /\ SeenInv'
                  /\ \A k \in Keys : target'[k] = target[k] \/ Decodes(k, target'[k])
  <1> SUFFICES G
    OBVIOUS
  <1>1. ASSUME UNCHANGED <<hist, target, batch>>, job'.inv \in {job.inv, source, EmptyTable}
        PROVE  G
    <2>1. /\ job.db \in Databases /\ source = hist[job.db][Len(hist[job.db])]
          /\ Len(hist[job.db]) \in DOMAIN hist[job.db]
      <3>1. job.db \in Databases
        BY HistTypes
      <3>2. hist[job.db] \in Seq(Table) /\ hist[job.db] # <<>>
        BY <3>1, HistTypesOf
      <3>3. Len(hist[job.db]) \in DOMAIN hist[job.db]
        BY <3>2
      <3> QED
        BY <3>1, <3>3 DEF source, Now
    <2>2. \A k \in Keys : Seen(k, source[k]) /\ Seen(k, EmptyTable[k])
      BY <2>1 DEF Seen, EmptyTable
    <2>3. \A k \in Keys : Seen(k, job'.inv[k])
      BY <1>1, <2>2 DEF SeenInv
    <2> QED
      BY <1>1, <2>3 DEF SeenInv, Seen
  <1>2. CASE Source
    <2>1. PICK d \in Databases, op \in Ops, k \in Keys, r \in MaybeRow : Write(d, op, k, r)
      BY <1>2, SourceIsWrite
    <2>2. UNCHANGED <<target, job, batch>>
      BY <2>1 DEF Write
    <2>3. \A e \in Databases : \A i \in DOMAIN hist[e] :
             i \in DOMAIN hist'[e] /\ hist'[e][i] = hist[e][i]
      BY HistKept
    <2>4. \A key \in Keys : Seen(key, job.inv[key])'
      BY <2>2, <2>3 DEF SeenInv, Seen
    <2>5. \A i \in 1..Len(batch) : Seen(batch[i].key, batch[i].row)'
      BY <2>2, <2>3 DEF SeenInv, Seen
    <2> QED
      BY <2>2, <2>4, <2>5 DEF SeenInv
  <1>3. CASE (\E d \in Databases : StartStreaming(d)) \/ StopStreaming \/ ReadInventory
             \/ FinishInventory \/ ConnectionLost \/ GiveUp \/ CountEvent \/ ResetStatistics
             \/ UNCHANGED vars
    <2>1. job \in [id : Nat, db : Databases, phase : Phases, from : Nat, sent : Nat, inv : Table]
      BY DEF TypeOK, Job
    <2>2. job'.inv \in {job.inv, source, EmptyTable}
      <3>1. CASE \E d \in Databases : StartStreaming(d)
        BY <3>1 DEF StartStreaming
      <3>2. CASE StopStreaming \/ GiveUp
        BY <2>1, <3>2 DEF StopStreaming, GiveUp
      <3>3. CASE ReadInventory
        BY <2>1, <3>3 DEF ReadInventory
      <3>4. CASE FinishInventory
        BY <2>1, <3>4 DEF FinishInventory
      <3>5. CASE ConnectionLost
        BY <2>1, <3>5 DEF ConnectionLost
      <3>6. CASE UNCHANGED job
        BY <3>6
      <3> QED
        BY <1>3, <3>1, <3>2, <3>3, <3>4, <3>5, <3>6 DEF CountEvent, ResetStatistics, vars
    <2>3. UNCHANGED <<hist, target, batch>>
      BY <1>3 DEF StartStreaming, StopStreaming, ReadInventory, FinishInventory,
         ConnectionLost, GiveUp, CountEvent, ResetStatistics, vars, svars
    <2> QED
      BY <1>1, <2>2, <2>3
  <1>4. ASSUME NEW ks \in Deliveries, DeliverInventory(ks)
        PROVE  G
    <2>1. PICK n \in 1..MaxBatch : ks \in [1..n -> Remaining]
      BY DEF Deliveries
    <2>2. /\ n \in Nat /\ DOMAIN ks = 1..n /\ \A i \in 1..n : ks[i] \in Keys
      BY <2>1, PipelineAssumption DEF Remaining
    <2>3. batch' = [i \in 1..n |-> [job |-> job.id, at |-> 0, op |-> "INSERT",
                                   key |-> ks[i], row |-> job.inv[ks[i]]]]
      BY <1>4, <2>2 DEF DeliverInventory
    <2>4. Len(batch') = n
      <3>1. batch' \in [1..n -> {batch'[i] : i \in 1..n}]
        BY <2>3
      <3> QED
        BY <2>2, <3>1, FunctionIsSeq
    <2>5. \A i \in 1..n : Seen(batch'[i].key, batch'[i].row)
      BY <2>2, <2>3 DEF SeenInv
    <2>6. \A k \in Keys : job'.inv[k] \in {NoRow, job.inv[k]}
      BY <1>4 DEF DeliverInventory, TypeOK, Job
    <2>7. hist' = hist /\ target' = target
      BY <1>4 DEF DeliverInventory, svars
    <2> QED
      BY <2>4, <2>5, <2>6, <2>7 DEF SeenInv, Seen
  <1>5. ASSUME NEW n \in 1..MaxBatch, DeliverChanges(n)
        PROVE  G
    <2>1. /\ n \in Nat /\ job.sent \in Nat /\ Len(log) \in Nat /\ job.sent + n <= Len(log)
          /\ hist' = hist /\ target' = target /\ job'.inv = job.inv
      <3>1. n \in Nat /\ job.sent \in Nat /\ Len(log) \in Nat
        BY PipelineAssumption, FieldTypes, HistTypes
      <3> QED
        BY <1>5, <3>1 DEF DeliverChanges, svars, TypeOK, Job
    <2>2. batch' = [i \in 1..n |-> [job |-> job.id, at |-> job.sent + i,
                     op |-> log[job.sent + i].op, key |-> log[job.sent + i].key,
                     row |-> log[job.sent + i].row]]
      BY <1>5 DEF DeliverChanges
    <2>3. Len(batch') = n
      <3>1. batch' \in [1..n -> {batch'[i] : i \in 1..n}]
        BY <2>2
      <3> QED
        BY <2>1, <3>1, FunctionIsSeq
    <2>4. ASSUME NEW i \in 1..n
          PROVE  Seen(batch'[i].key, batch'[i].row)
      <3>1. PICK p \in 1..Len(log) : p = job.sent + i
        BY <2>1
      <3>2. batch'[i].key = log[p].key /\ batch'[i].row = log[p].row
        BY <2>2, <3>1
      <3>3. job.db \in Databases /\ p + 1 \in DOMAIN hist[job.db]
        <4>1. job.db \in Databases /\ past \in Seq(Table) /\ Len(past) = Len(log) + 1
          BY HistTypes
        <4>2. p + 1 \in 1..Len(past)
          BY <2>1, <4>1
        <4> QED
          BY <4>1, <4>2 DEF past
      <3>4. hist[job.db][p + 1][log[p].key] = log[p].row
        BY <3>3 DEF HistInv, log
      <3> QED
        BY <3>2, <3>3, <3>4 DEF Seen
    <2> QED
      BY <2>1, <2>3, <2>4 DEF SeenInv, Seen
  <1>6. ASSUME NEW fails \in BOOLEAN, ApplyEvent(fails)
        PROVE  G
    <2>1. /\ batch \in Seq(Record) /\ batch # <<>> /\ batch' = Tail(batch)
          /\ Len(batch) \in Nat /\ hist' = hist /\ job' = job
      BY <1>6, FieldTypes DEF ApplyEvent, NextRecords, TypeOK, svars
    <2>2. 1 \in 1..Len(batch) /\ Head(batch) = batch[1] /\ batch[1].key \in Keys
      BY <2>1, FieldTypes
    <2>3. \A i \in 1..Len(batch') : i + 1 \in 1..Len(batch) /\ batch'[i] = batch[i + 1]
      BY <2>1
    <2>4. /\ target' = [target EXCEPT ![batch[1].key] = target'[batch[1].key]]
          /\ target'[batch[1].key] \in {target[batch[1].key], Decoded[batch[1].row], NoRow}
      <3>1. PICK new : /\ target' = [target EXCEPT ![batch[1].key] = new]
                       /\ \/ new = target[batch[1].key]
                          \/ new = Applied(batch[1], target[batch[1].key])
        BY <1>6, <2>2 DEF ApplyEvent, Where
      <3>2. target'[batch[1].key] = new
        BY <2>2, <3>1 DEF TypeOK, Table
      <3>3. new \in {target[batch[1].key], Decoded[batch[1].row], NoRow}
        <4>1. batch[1].op \in Ops
          BY <2>2, FieldTypes
        <4> QED
          BY <3>1, <4>1 DEF Applied, Ops, DML
      <3> QED
        BY <3>1, <3>2, <3>3
    <2>5. Decodes(batch[1].key, Decoded[batch[1].row])
      BY <2>2, SeenDecodes DEF SeenInv
    <2>6. \A k \in Keys : target'[k] = target[k] \/ Decodes(k, target'[k])
      <3>1. Decodes(batch[1].key, NoRow)
        BY DEF Decodes
      <3>2. \A k \in Keys : k # batch[1].key => target'[k] = target[k]
        BY <2>2, <2>4 DEF TypeOK, Table
      <3> QED
        BY <2>2, <2>4, <2>5, <3>1, <3>2
    <2> QED
      BY <2>1, <2>3, <2>6 DEF SeenInv, Seen
  <1>7. CASE ClearTarget
    BY <1>7 DEF ClearTarget, SeenInv, Seen, Decodes, EmptyTable, svars
  <1> QED
    BY <1>2, <1>3, <1>4, <1>5, <1>6, <1>7 DEF Next, Deliver, Consume

\* The target holds only what the decoder makes of rows some database had under the key.
THEOREM NothingInventedTheorem == Spec => []NothingInvented
  <1> DEFINE Inv == SeenInv /\ NothingInvented
  <1>1. Init => Inv
    BY DEF Init, SeenInv, NothingInvented, Seen, EmptyTable
  <1>2. ASSUME TypeOK, HistInv, Inv, [Next]_vars PROVE Inv'
    <2>1. SeenInv' /\ \A k \in Keys : target'[k] = target[k] \/ Decodes(k, target'[k])
      BY <1>2, SeenStep
    <2>2. \A k \in Keys : Decodes(k, target'[k])
      BY <1>2, <2>1 DEF NothingInvented, Decodes
    <2>3. \A e \in Databases : \A i \in DOMAIN hist[e] :
             i \in DOMAIN hist'[e] /\ hist'[e][i] = hist[e][i]
      BY <1>2, HistKept
    <2>4. NothingInvented'
      BY <2>2, <2>3 DEF NothingInvented, Decodes, Streamed
    <2> QED
      BY <2>1, <2>4
  <1>3. IInv => TypeOK /\ HistInv
    BY DEF IInv
  <1>4. Inv => NothingInvented
    OBVIOUS
  <1> HIDE DEF Inv
  <1> QED
    BY <1>1, <1>2, <1>3, <1>4, Inductive, PTL DEF Spec

-----------------------------------------------------------------------------
(* The counters.                                                           *)

\* The counters, the events of unknown type, the one in work and the events raced with,
\* after r stores of resetStatistics.  A counter that has been reset has since counted
\* only events that the reset raced with.
Balanced(total, ins, upd, del, other, work, races, r) ==
    /\ r = 0 => /\ total <= ins + upd + del + other + work + races
                /\ ins + upd + del + other + work <= total + races
    /\ r > 0 => total <= races /\ other + work <= races
    /\ r > 1 => ins + other + work <= races
    /\ r > 2 => ins + upd + other + work <= races

Balance == Balanced(count["total"], count["INSERT"], count["UPDATE"], count["DELETE"],
                    unknown, InWork, raced, reset)

\* As long as no reset has been spent none is running, and nothing is raced with.
CounterInv ==
    /\ Balance
    /\ budget["reset"] <= Budget["reset"]
    /\ budget["reset"] = Budget["reset"] =>
          /\ reset = 0 /\ raced = 0
          /\ shown <= count["INSERT"] + count["UPDATE"] + count["DELETE"] + unknown

\* Each kind of step keeps the balance: an event is counted, ...
LEMMA BalancedCount ==
    ASSUME NEW t \in Nat, NEW i \in Nat, NEW u \in Nat, NEW d \in Nat, NEW o \in Nat,
           NEW x \in Nat, NEW r \in 0..3, NEW x2, x2 = IF r = 0 THEN x ELSE x + 1,
           Balanced(t, i, u, d, o, 0, x, r)
    PROVE  Balanced(t + 1, i, u, d, o, 1, x2, r)
  BY DEF Balanced

\* ... it is counted by its type or as one of unknown type, ...
LEMMA BalancedApply ==
    ASSUME NEW t \in Nat, NEW i \in Nat, NEW u \in Nat, NEW d \in Nat, NEW o \in Nat,
           NEW x \in Nat, NEW r \in 0..3, Balanced(t, i, u, d, o, 1, x, r)
    PROVE  /\ Balanced(t, i + 1, u, d, o, 0, x, r) /\ Balanced(t, i, u + 1, d, o, 0, x, r)
           /\ Balanced(t, i, u, d + 1, o, 0, x, r) /\ Balanced(t, i, u, d, o + 1, 0, x, r)
  BY DEF Balanced

\* ... and a counter is reset.
LEMMA BalancedReset ==
    ASSUME NEW t \in Nat, NEW i \in Nat, NEW u \in Nat, NEW d \in Nat, NEW o \in Nat,
           NEW w \in Nat, NEW x \in Nat
    PROVE  /\ Balanced(0, i, u, d, 0, w, w, 1)
           /\ Balanced(t, i, u, d, o, w, x, 1) => Balanced(t, 0, u, d, o, w, x, 2)
           /\ Balanced(t, i, u, d, o, w, x, 2) => Balanced(t, i, 0, d, o, w, x, 3)
           /\ Balanced(t, i, u, d, o, w, x, 3) => Balanced(t, i, u, 0, o, w, x, 0)
  BY DEF Balanced

\* Spending on something else leaves the resets alone.
LEMMA SpendElse ==
    ASSUME TypeOK, NEW b \in BudgetKinds \ {"reset"}, Spend(b)
    PROVE  budget'["reset"] = budget["reset"]
  BY DEF TypeOK, Spend, BudgetKinds

\* Only the two halves of processCDCEvent and the resets touch the counters.
LEMMA CounterStep == TypeOK /\ CounterInv /\ [Next]_vars => CounterInv'
  <1> SUFFICES ASSUME TypeOK, CounterInv, [Next]_vars PROVE CounterInv'
    OBVIOUS
  <1>0. /\ count["total"] \in Nat /\ count["INSERT"] \in Nat /\ count["UPDATE"] \in Nat
        /\ count["DELETE"] \in Nat /\ unknown \in Nat /\ raced \in Nat /\ reset \in 0..3
        /\ shown \in Nat /\ budget["reset"] \in Nat /\ Budget["reset"] \in Nat
        /\ InWork \in Nat
    BY PipelineAssumption DEF TypeOK, BudgetKinds, Counters, DML, InWork
  <1>1. ASSUME UNCHANGED <<cvars, counted>>,
               budget' = budget \/ \E b \in BudgetKinds \ {"reset"} : Spend(b)
        PROVE  CounterInv'
    <2>1. budget'["reset"] = budget["reset"]
      BY <1>1, SpendElse
    <2>2. InWork' = InWork
      BY <1>1 DEF InWork
    <2> QED
      BY <1>1, <2>1, <2>2 DEF CounterInv, Balance, cvars
  <1>2. CASE Source
    BY <1>1, <1>2 DEF Source, SourceInsert, SourceUpdate, SourceDelete, SourceOther, Write
  <1>3. CASE (\E d \in Databases : StartStreaming(d)) \/ StopStreaming \/ Deliver
             \/ ConnectionLost \/ GiveUp \/ ClearTarget
    BY <1>1, <1>3 DEF StartStreaming, StopStreaming, Deliver, ReadInventory, DeliverInventory,
                      FinishInventory, DeliverChanges, ConnectionLost, GiveUp, ClearTarget,
                      BudgetKinds
  <1>4. CASE CountEvent
    <2>1. InWork = 0 /\ InWork' = 1
      <3>1. ~counted /\ counted'
        BY <1>4, Zenon DEF CountEvent
      <3> QED
        BY <3>1 DEF InWork
    <2>2. /\ UNCHANGED <<shown, reset, unknown, budget>>
          /\ raced' = IF reset = 0 THEN raced ELSE raced + 1
          /\ count'["total"] = count["total"] + 1 /\ count'["INSERT"] = count["INSERT"]
          /\ count'["UPDATE"] = count["UPDATE"] /\ count'["DELETE"] = count["DELETE"]
      BY <1>4 DEF CountEvent, TypeOK, Counters, DML
    <2>3. Balanced(count["total"], count["INSERT"], count["UPDATE"], count["DELETE"],
                   unknown, 0, raced, reset)
      BY <2>1 DEF CounterInv, Balance
    <2>4. Balanced(count["total"] + 1, count["INSERT"], count["UPDATE"], count["DELETE"],
                   unknown, 1, raced', reset)
      BY <1>0, <2>2, <2>3, BalancedCount
    <2>5. Balance'
      BY <2>1, <2>2, <2>4 DEF Balance
    <2>6. /\ budget'["reset"] = budget["reset"]
          /\ reset = 0 => raced' = raced
      BY <2>2
    <2> QED
      BY <1>0, <2>2, <2>5, <2>6 DEF CounterInv
  <1>5. ASSUME NEW fails \in BOOLEAN, ApplyEvent(fails) PROVE CounterInv'
    <2>1. InWork = 1 /\ InWork' = 0
      <3>1. counted /\ ~counted'
        BY <1>5, Zenon DEF ApplyEvent
      <3> QED
        BY <3>1 DEF InWork
    <2>2. /\ UNCHANGED <<reset, raced>> /\ budget'["reset"] = budget["reset"]
          /\ shown' \in {shown, shown + 1}
      <3>1. budget' = budget \/ Spend("sql")
        BY <1>5 DEF ApplyEvent
      <3>2. UNCHANGED <<reset, raced>> /\ shown' \in {shown, shown + 1}
        BY <1>5 DEF ApplyEvent
      <3> QED
        BY <3>1, <3>2, SpendElse DEF BudgetKinds
    <2>3. \/ \E op \in DML : count' = [count EXCEPT ![op] = @ + 1] /\ unknown' = unknown
          \/ count' = count /\ unknown' = unknown + 1
      BY <1>5 DEF ApplyEvent
    <2>4. count'["total"] = count["total"]
      BY <2>3 DEF TypeOK, Counters, DML
    <2>5. \/ /\ count'["INSERT"] = count["INSERT"] + 1 /\ unknown' = unknown
             /\ count'["UPDATE"] = count["UPDATE"] /\ count'["DELETE"] = count["DELETE"]
          \/ /\ count'["UPDATE"] = count["UPDATE"] + 1 /\ unknown' = unknown
             /\ count'["INSERT"] = count["INSERT"] /\ count'["DELETE"] = count["DELETE"]
          \/ /\ count'["DELETE"] = count["DELETE"] + 1 /\ unknown' = unknown
             /\ count'["INSERT"] = count["INSERT"] /\ count'["UPDATE"] = count["UPDATE"]
          \/ /\ unknown' = unknown + 1
             /\ count'["INSERT"] = count["INSERT"] /\ count'["UPDATE"] = count["UPDATE"]
             /\ count'["DELETE"] = count["DELETE"]
      BY <2>3 DEF TypeOK, Counters, DML
    <2>6. Balanced(count["total"], count["INSERT"], count["UPDATE"], count["DELETE"],
                   unknown, 1, raced, reset)
      BY <2>1 DEF CounterInv, Balance
    <2>7. Balanced(count["total"], count'["INSERT"], count'["UPDATE"], count'["DELETE"],
                   unknown', 0, raced, reset)
      <3>1. /\ Balanced(count["total"], count["INSERT"] + 1, count["UPDATE"],
                        count["DELETE"], unknown, 0, raced, reset)
            /\ Balanced(count["total"], count["INSERT"], count["UPDATE"] + 1,
                        count["DELETE"], unknown, 0, raced, reset)
            /\ Balanced(count["total"], count["INSERT"], count["UPDATE"],
                        count["DELETE"] + 1, unknown, 0, raced, reset)
            /\ Balanced(count["total"], count["INSERT"], count["UPDATE"],
                        count["DELETE"], unknown + 1, 0, raced, reset)
        BY <1>0, <2>6, BalancedApply
      <3> QED
        BY <2>5, <3>1
    <2>8. Balance'
      BY <2>1, <2>2, <2>4, <2>7 DEF Balance
    <2>9. ASSUME budget'["reset"] = Budget["reset"]
          PROVE  /\ reset' = 0 /\ raced' = 0
                 /\ shown' <= count'["INSERT"] + count'["UPDATE"] + count'["DELETE"] + unknown'
      <3>1. budget["reset"] = Budget["reset"]
        BY <2>2, <2>9
      <3>2. /\ reset = 0 /\ raced = 0
            /\ shown <= count["INSERT"] + count["UPDATE"] + count["DELETE"] + unknown
        BY <3>1, Zenon DEF CounterInv
      <3>3. shown' <= shown + 1
        BY <1>0, <2>2
      <3> QED
        BY <1>0, <2>2, <2>5, <3>2, <3>3
    <2> QED
      BY <1>0, <2>2, <2>8, <2>9 DEF CounterInv
  <1>6. CASE ResetStatistics
    <2>1. InWork' = InWork /\ shown' = shown
      BY <1>6 DEF ResetStatistics, InWork
    <2>2. budget'["reset"] < Budget["reset"]
      <3>1. CASE reset = 0
        <4>1. budget' = [budget EXCEPT !["reset"] = @ - 1]
          BY <1>6, <3>1 DEF ResetStatistics, Spend
        <4>2. budget'["reset"] = budget["reset"] - 1
          BY <4>1 DEF TypeOK, BudgetKinds
        <4> QED
          BY <1>0, <4>2 DEF CounterInv
      <3>2. CASE reset # 0
        BY <1>0, <1>6, <3>2 DEF ResetStatistics, CounterInv
      <3> QED
        BY <3>1, <3>2
    <2>3. Balance'
      <3>1. CASE reset = 0
        <4>1. /\ count'["total"] = 0 /\ unknown' = 0 /\ raced' = InWork /\ reset' = 1
              /\ count'["INSERT"] = count["INSERT"] /\ count'["UPDATE"] = count["UPDATE"]
              /\ count'["DELETE"] = count["DELETE"]
          BY <1>6, <3>1 DEF ResetStatistics, ResetOrder, TypeOK, Counters, DML
        <4> QED
          BY <1>0, <2>1, <4>1, BalancedReset DEF Balance
      <3>2. CASE reset = 1
        <4>1. /\ count'["INSERT"] = 0 /\ unknown' = unknown /\ raced' = raced /\ reset' = 2
              /\ count'["total"] = count["total"] /\ count'["UPDATE"] = count["UPDATE"]
              /\ count'["DELETE"] = count["DELETE"]
          BY <1>6, <3>2 DEF ResetStatistics, ResetOrder, TypeOK, Counters, DML
        <4> QED
          BY <1>0, <2>1, <3>2, <4>1, BalancedReset DEF CounterInv, Balance
      <3>3. CASE reset = 2
        <4>1. /\ count'["UPDATE"] = 0 /\ unknown' = unknown /\ raced' = raced /\ reset' = 3
              /\ count'["total"] = count["total"] /\ count'["INSERT"] = count["INSERT"]
              /\ count'["DELETE"] = count["DELETE"]
          BY <1>6, <3>3 DEF ResetStatistics, ResetOrder, TypeOK, Counters, DML
        <4> QED
          BY <1>0, <2>1, <3>3, <4>1, BalancedReset DEF CounterInv, Balance
      <3>4. CASE reset = 3
        <4>1. /\ count'["DELETE"] = 0 /\ unknown' = unknown /\ raced' = raced /\ reset' = 0
              /\ count'["total"] = count["total"] /\ count'["INSERT"] = count["INSERT"]
              /\ count'["UPDATE"] = count["UPDATE"]
          BY <1>6, <3>4 DEF ResetStatistics, ResetOrder, TypeOK, Counters, DML
        <4> QED
          BY <1>0, <2>1, <3>4, <4>1, BalancedReset DEF CounterInv, Balance
      <3> QED
        BY <1>0, <3>1, <3>2, <3>3, <3>4
    <2>4. budget'["reset"] \in Nat
      <3>1. budget' = budget \/ Spend("reset")
        BY <1>6 DEF ResetStatistics
      <3> QED
        BY <1>0, <3>1 DEF Spend, TypeOK, BudgetKinds
    <2> QED
      BY <1>0, <2>2, <2>3, <2>4 DEF CounterInv
  <1>7. CASE UNCHANGED vars
    BY <1>1, <1>7 DEF vars, cvars
  <1> QED
    BY <1>2, <1>3, <1>4, <1>5, <1>6, <1>7 DEF Next, Consume

\* The total is the sum of what is counted by type and in work, but for the events a
\* reset raced with, whatever is delivered and fails; without a reset no more events are
\* broadcast than are counted.
THEOREM CountersAgreeTheorem == Spec => []CountersAgree
  <1>1. Init => CounterInv
    BY PipelineAssumption
       DEF Init, CounterInv, Balance, Balanced, InWork, Counters, DML, BudgetKinds
  <1>2. TypeOK /\ CounterInv => CountersAgree
    <2> SUFFICES ASSUME TypeOK, CounterInv PROVE CountersAgree
      OBVIOUS
    <2>1. /\ count["total"] \in Nat /\ count["INSERT"] \in Nat /\ count["UPDATE"] \in Nat
          /\ count["DELETE"] \in Nat /\ unknown \in Nat /\ raced \in Nat /\ InWork \in Nat
      BY DEF TypeOK, Counters, DML, InWork
    <2> QED
      BY <2>1 DEF CounterInv, Balance, Balanced, CountersAgree
  <1> QED
    BY <1>1, <1>2, CounterStep, TypeCorrect, PTL DEF Spec
=============================================================================
