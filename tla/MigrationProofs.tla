-------------------------- MODULE MigrationProofs --------------------------
(***************************************************************************)
(* Proofs about Migration for every set of keys, rows, databases and        *)
(* threads, every bound and every budget: the workflow's own properties,   *)
(* and that the data path keeps its promises with the workflow's requests  *)
(* in between.                                                             *)
(***************************************************************************)
EXTENDS Migration, CDCPipelineProofs

-----------------------------------------------------------------------------
(* How the workflow acts on the data path.                                 *)

\* What the data path does by itself, apart from changes of the databases and without
\* clearTargetData().
PathStep == \/ (\E d \in Databases : StartStreaming(d)) \/ StopStreaming \/ Deliver
            \/ ConnectionLost \/ GiveUp \/ Consume \/ ResetStatistics \/ UNCHANGED vars

\* It is a step of the data path.
LEMMA PathStepIsNext ==
    ASSUME PathStep
    PROVE  [Next]_vars
  BY DEF PathStep, Next

\* A set-up may do all that a failing one does.
LEMMA RebuildMore ==
    ASSUME Rebuild(Rows)
    PROVE  Rebuild(MaybeRow)
  <1>1. Rows \subseteq MaybeRow
    BY DEF MaybeRow
  <1> QED
    BY <1>1 DEF Rebuild

\* The kinds of steps that the workflow, the set-up and everything else are.
LEMMA StepKinds ==
    ASSUME [MigrationNext]_allVars
    PROVE  \/ PathStep /\ UNCHANGED <<copying, kept>>
           \/ Source /\ Forget
           \/ Rebuild(MaybeRow)
           \/ ClearTarget /\ kept' = {} /\ UNCHANGED copying
           \/ Prepare
           \/ \E s \in Threads : CopyRead(s) \/ CopyWrite(s)
  <1>1. CASE ClickStart \/ Status \/ Answered \/ RequestFails \/ ClickSetup \/ ClearFeedback
             \/ UNCHANGED allVars
    BY <1>1 DEF ClickStart, Status, Answered, RequestFails, ClickSetup, ClearFeedback, allVars,
       mvars, PathStep
  <1>2. CASE Stop \/ Start
    BY <1>2, MigrationAssumption DEF Stop, Start, PathStep
  <1>3. CASE \E s \in Threads : AskCopy(s)
    BY <1>3 DEF AskCopy
  <1>4. CASE SetUp \/ SetUpFails
    BY <1>4, RebuildMore DEF SetUp, SetUpFails, PathStep
  <1>5. CASE Elsewhere
    BY <1>5 DEF Elsewhere, AskedCopy, PathStep, mvars
  <1>6. CASE Prepare
    BY <1>6
  <1> QED
    BY <1>1, <1>2, <1>3, <1>4, <1>5, <1>6 DEF MigrationNext, Workflow

\* Preparing the target is clearing it, or nothing.
LEMMA PrepareEffect ==
    ASSUME Prepare
    PROVE  /\ UNCHANGED <<svars, job, batch, counted, cvars, budget, copying>>
           /\ \/ UNCHANGED <<target, damaged, kept>>
              \/ /\ target' = EmptyTable
                 /\ damaged' = damaged \cup {k \in Keys : target[k] # NoRow}
                 /\ kept' = {}
  BY DEF Prepare, RowsOf

\* A copy writes the rows it has read and damages those that the streamed database does
\* not have, or does nothing.
LEMMA CopyWriteEffect ==
    ASSUME TypeOK, copying \in [Threads -> Copy], NEW s \in Threads, CopyWrite(s)
    PROVE  /\ UNCHANGED <<svars, job, batch, counted, cvars, budget>>
           /\ copying' = [copying EXCEPT ![s] = NoCopy]
           /\ \/ UNCHANGED <<target, damaged, kept>>
              \/ /\ target' \in Table
                 /\ \A k \in Keys : target'[k] = IF copying[s].rows[k] # NoRow
                                                 THEN copying[s].rows[k] ELSE target[k]
                 /\ damaged' = damaged \cup {k \in Keys : /\ copying[s].rows[k] # NoRow
                                                          /\ copying[s].rows[k] # source[k]}
                 /\ kept' = copying[s].safe \cup
                        {k \in kept : copying[s].rows[k] \in {NoRow, Now(MigrationDb)[k]}}
  <1> DEFINE rows == copying[s].rows
  <1>1. UNCHANGED <<svars, job, batch, counted, cvars, budget>>
        /\ copying' = [copying EXCEPT ![s] = NoCopy]
    BY DEF CopyWrite
  <1>2. ASSUME target' = [k \in Keys |-> Copied(rows, k)],
               damaged' = damaged \cup {k \in RowsOf(rows) : rows[k] # source[k]}
        PROVE  /\ target' \in Table
               /\ \A k \in Keys : target'[k] = IF rows[k] # NoRow THEN rows[k] ELSE target[k]
               /\ damaged' = damaged \cup {k \in Keys : rows[k] # NoRow /\ rows[k] # source[k]}
    <2>1. target \in [Keys -> MaybeRow] /\ rows \in [Keys -> MaybeRow]
      BY DEF TypeOK, Copy, Table
    <2> QED
      BY <1>2, <2>1 DEF Copied, RowsOf, Table
  <1> QED
    BY <1>1, <1>2 DEF CopyWrite

\* A set-up appends to the log of the migration's source while no job reads it.
LEMMA RebuildEffect ==
    ASSUME Rebuild(MaybeRow), TypeOK, HistInv
    PROVE  /\ ~(Live /\ job.db = MigrationDb)
           /\ UNCHANGED <<job, batch, counted, target, cvars, damaged, budget>>
           /\ wal' \in [Databases -> Seq(Change)] /\ hist' \in [Databases -> Seq(Table)]
           /\ \A d \in Databases :
                 /\ Len(hist'[d]) = Len(wal'[d]) + 1 /\ Len(wal'[d]) \in Nat
                 /\ Len(wal'[d]) >= Len(wal[d])
                 /\ \A i \in 1..Len(wal[d]) : wal'[d][i] = wal[d][i]
                 /\ \A i \in 1..Len(wal[d]) + 1 : hist'[d][i] = hist[d][i]
                 /\ \A i \in 1..Len(wal'[d]) : hist'[d][i + 1][wal'[d][i].key] = wal'[d][i].row
                 /\ d # MigrationDb => wal'[d] = wal[d] /\ hist'[d] = hist[d]
  <1>1. /\ ~(Live /\ job.db = MigrationDb)
        /\ UNCHANGED <<job, batch, counted, target, cvars, damaged, budget>>
    BY DEF Rebuild
  <1>2. PICK k \in Keys, r \in MaybeRow :
            /\ wal' = [wal EXCEPT ![MigrationDb] =
                          Append(wal[MigrationDb],
                                 [op |-> IF r = NoRow THEN "UNKNOWN" ELSE "INSERT",
                                  key |-> k, row |-> r])]
            /\ hist' = [hist EXCEPT ![MigrationDb] =
                           Append(hist[MigrationDb], [EmptyTable EXCEPT ![k] = r])]
    BY DEF Rebuild
  <1>3. PICK op \in Ops : op = IF r = NoRow THEN "UNKNOWN" ELSE "INSERT"
    BY DEF Ops, DML
  <1>4. EmptyTable \in Table /\ MigrationDb \in Databases
    BY MigrationAssumption DEF EmptyTable, Table, MaybeRow
  <1> DEFINE c == [op |-> op, key |-> k, row |-> r]
             t == [EmptyTable EXCEPT ![k] = r]
  <1>5. /\ wal' = [wal EXCEPT ![MigrationDb] = Append(wal[MigrationDb], c)]
        /\ hist' = [hist EXCEPT ![MigrationDb] = Append(hist[MigrationDb], t)]
    BY <1>2, <1>3
  <1>6. c \in Change /\ t \in Table
    BY <1>4 DEF Change, Table
  <1>7. wal' \in [Databases -> Seq(Change)] /\ hist' \in [Databases -> Seq(Table)]
    <2>1. /\ wal \in [Databases -> Seq(Change)] /\ hist \in [Databases -> Seq(Table)]
          /\ wal[MigrationDb] \in Seq(Change) /\ hist[MigrationDb] \in Seq(Table)
      BY <1>4 DEF TypeOK
    <2>2. /\ Append(wal[MigrationDb], c) \in Seq(Change)
          /\ Append(hist[MigrationDb], t) \in Seq(Table)
      <3> HIDE DEF c, t
      <3> QED
        BY <1>6, <2>1, AppendProperties
    <2> HIDE DEF c, t
    <2> QED
      BY <1>5, <2>1, <2>2
  <1>8. /\ Len(wal'[MigrationDb]) = Len(wal[MigrationDb]) + 1
        /\ Len(hist'[MigrationDb]) = Len(wal'[MigrationDb]) + 1
        /\ Len(wal[MigrationDb]) \in Nat
        /\ \A i \in 1..Len(wal[MigrationDb]) : wal'[MigrationDb][i] = wal[MigrationDb][i]
        /\ \A i \in 1..Len(wal[MigrationDb]) + 1 : hist'[MigrationDb][i] = hist[MigrationDb][i]
        /\ \A i \in 1..Len(wal'[MigrationDb]) :
              hist'[MigrationDb][i + 1][wal'[MigrationDb][i].key] = wal'[MigrationDb][i].row
        /\ \A e \in Databases : e # MigrationDb => wal'[e] = wal[e] /\ hist'[e] = hist[e]
    <2> HIDE DEF EmptyTable
    <2> QED
      BY <1>4, <1>5, HistAppend
  <1>9. ASSUME NEW d \in Databases
        PROVE  /\ Len(hist'[d]) = Len(wal'[d]) + 1 /\ Len(wal'[d]) \in Nat
               /\ Len(wal'[d]) >= Len(wal[d])
               /\ \A i \in 1..Len(wal[d]) : wal'[d][i] = wal[d][i]
               /\ \A i \in 1..Len(wal[d]) + 1 : hist'[d][i] = hist[d][i]
               /\ \A i \in 1..Len(wal'[d]) : hist'[d][i + 1][wal'[d][i].key] = wal'[d][i].row
               /\ d # MigrationDb => wal'[d] = wal[d] /\ hist'[d] = hist[d]
    <2>1. CASE d = MigrationDb
      BY <1>8, <2>1
    <2>2. CASE d # MigrationDb
      <3>1. wal'[d] = wal[d] /\ hist'[d] = hist[d]
        BY <1>8, <2>2
      <3>2. Len(wal[d]) \in Nat /\ Len(hist[d]) = Len(wal[d]) + 1
        BY HistTypesOf
      <3> QED
        BY <2>2, <3>1, <3>2 DEF HistInv
    <2> QED
      BY <2>1, <2>2
  <1> QED
    BY <1>1, <1>7, <1>9

-----------------------------------------------------------------------------
(* The data path's invariant with the workflow in between.                 *)

\* Rows that are the source's now may appear in the target at any time; the others that
\* the copy writes are damaged.
LEMMA RestCopied ==
    ASSUME TypeOK, HistInv, Rest, UNCHANGED <<svars, job, batch>>,
           damaged \subseteq damaged',
           \A k \in Keys \ damaged' : target'[k] \in {target[k], source[k]}
    PROVE  Rest'
  <1>0. UNCHANGED <<log, past, Live>>
    BY DEF svars, log, past, Live
  <1>1. JobInv'
    BY <1>0 DEF Rest, JobInv, SinceThen
  <1>2. BatchInv'
    BY <1>0 DEF Rest, BatchInv, RecordOK, RecordFits, SinceThen
  <1>3. Len(log) \in Nat /\ source = past[Len(log) + 1]
    BY HistTypes
  <1>4. ASSUME Live, NEW k \in Keys, k \notin damaged'
        PROVE  Follows(k)'
    <2>1. Follows(k) /\ target'[k] \in {target[k], source[k]}
      BY <1>4 DEF Rest, MainInv
    <2>2. CASE target'[k] = target[k]
      BY <1>0, <2>1, <2>2 DEF Follows, SinceThen, SeenUpTo
    <2>3. CASE target'[k] = source[k]
      <3>1. job.phase = "incremental" => SeenUpTo \in Nat /\ SeenUpTo <= Len(log)
        <4>1. ASSUME job.phase = "incremental", batch # <<>>
              PROVE  batch[1].at \in Nat /\ batch[1].at <= Len(log)
          <5>1. 1 \in 1..Len(batch)
            BY <4>1, FieldTypes
          <5>2. batch[1].at \in Nat /\ RecordOK(batch[1]) /\ RecordFits(batch[1])
            BY <1>4, <5>1, FieldTypes DEF Rest, BatchInv
          <5>3. batch[1].job = job.id /\ batch[1].at > 0
            BY <4>1, <5>2 DEF RecordFits
          <5> QED
            BY <5>2, <5>3 DEF RecordOK
        <4>2. job.phase = "incremental" => SeenUpTo \in Nat
          BY <1>4, SeenUpToType DEF Rest
        <4>3. job.sent <= Len(log)
          BY <1>4 DEF Rest, JobInv
        <4> QED
          BY <1>3, <4>1, <4>2, <4>3 DEF SeenUpTo
      <3>2. job.from \in Nat /\ job.from <= Len(log)
        BY <1>3, <1>4, FieldTypes DEF Rest, JobInv
      <3>3. ASSUME NEW p \in Nat, p <= Len(log)
            PROVE  \E j \in p..Len(log) : past[j + 1][k] = target'[k]
        BY <1>3, <2>3, <3>3
      <3>4. SeenUpTo' = SeenUpTo
        BY DEF SeenUpTo
      <3> QED
        BY <1>0, <3>1, <3>2, <3>3, <3>4 DEF Follows, SinceThen
    <2> QED
      BY <2>1, <2>2, <2>3
  <1> QED
    BY <1>0, <1>1, <1>2, <1>4 DEF Rest, MainInv

\* Every step keeps the data path's types and its inductive invariant.
LEMMA DataPathStep ==
    ASSUME TypeOK, HistInv, Rest, copying \in [Threads -> Copy], [MigrationNext]_allVars
    PROVE  TypeOK' /\ HistInv' /\ Rest'
  <1>1. CASE [Next]_vars
    BY <1>1, IInvStep DEF IInv, Rest
  <1>2. ASSUME UNCHANGED <<svars, job, batch, counted, cvars, budget>>,
               target' \in Table, damaged' \subseteq Keys
        PROVE  TypeOK' /\ HistInv'
    BY <1>2 DEF TypeOK, HistInv, ChangeOK, Live, log, past, svars, cvars
  <1>3. CASE Prepare
    <2>1. target' \in Table /\ damaged' \subseteq Keys
      BY <1>3, PrepareEffect DEF TypeOK, EmptyTable, Table, MaybeRow
    <2>2. Rest'
      BY <1>3, PrepareEffect, RestCleared, RestUnchanged
    <2> QED
      BY <1>2, <1>3, <2>1, <2>2, PrepareEffect
  <1>4. ASSUME NEW s \in Threads, CopyWrite(s)
        PROVE  TypeOK' /\ HistInv' /\ Rest'
    <2>1. target' \in Table /\ damaged' \subseteq Keys /\ damaged \subseteq damaged'
      BY <1>4, CopyWriteEffect DEF TypeOK
    <2>2. UNCHANGED <<svars, job, batch, counted, cvars, budget>>
      BY <1>4, CopyWriteEffect
    <2>3. \A k \in Keys \ damaged' : target'[k] \in {target[k], source[k]}
      BY <1>4, CopyWriteEffect
    <2>4. Rest'
      BY <2>1, <2>2, <2>3, RestCopied
    <2> QED
      BY <1>2, <2>1, <2>2, <2>4
  <1>5. CASE Rebuild(MaybeRow)
    <2>1. TypeOK'
      BY <1>5, RebuildEffect DEF TypeOK, cvars
    <2>2. job.db \in Databases /\ Len(log) \in Nat
      BY HistTypes
    <2>3. /\ ~(Live /\ job.db = MigrationDb)
          /\ UNCHANGED <<job, batch, target, damaged>>
          /\ Len(log') >= Len(log) /\ Len(log') \in Nat
          /\ \A i \in 1..Len(log) : log'[i] = log[i]
          /\ job.db # MigrationDb => log' = log /\ past' = past
      <3>1. job' = job
        BY <1>5, RebuildEffect
      <3> QED
        BY <1>5, <2>2, <3>1, RebuildEffect DEF log, past
    <2>4. Live => UNCHANGED <<log, past>>
      BY <2>3
    <2>5. Live' <=> Live
      BY <2>3 DEF Live
    <2>6. HistInv'
      <3>1. \A d \in Databases :
               /\ Len(hist'[d]) = Len(wal'[d]) + 1
               /\ \A i \in 1..Len(wal'[d]) : hist'[d][i + 1][wal'[d][i].key] = wal'[d][i].row
        BY <1>5, RebuildEffect
      <3>2. Live => \A i \in job.from + 1..Len(log) : ChangeOK(i)'
        BY <2>4 DEF HistInv, ChangeOK
      <3> QED
        BY <2>3, <2>4, <2>5, <3>1, <3>2 DEF HistInv
    <2>7. ASSUME NEW i \in 1..Len(batch) PROVE RecordOK(batch[i])'
      <3>1. RecordOK(batch[i]) /\ batch[i].at \in Nat
        BY FieldTypes DEF Rest, BatchInv
      <3> QED
        BY <2>2, <2>3, <3>1 DEF RecordOK
    <2>8. JobInv' /\ MainInv'
      BY <2>3, <2>4, <2>5 DEF Rest, JobInv, MainInv, Follows, SeenUpTo, SinceThen
    <2>9. BatchInv'
      <3>1. Live => \A i \in 1..Len(batch) : RecordFits(batch[i])'
        BY <2>3, <2>4 DEF Rest, BatchInv, RecordFits, SinceThen
      <3> QED
        BY <2>3, <2>5, <2>7, <3>1 DEF Rest, BatchInv
    <2> QED
      BY <2>1, <2>6, <2>8, <2>9 DEF Rest
  <1>6. CASE \E s \in Threads : CopyRead(s)
    BY <1>1, <1>6 DEF CopyRead
  <1> QED
    BY <1>1, <1>3, <1>4, <1>5, <1>6, StepKinds, PathStepIsNext DEF Next

-----------------------------------------------------------------------------
(* The page and the copies.                                                *)

\* A table that getSourceRecords answers with holds the source's rows.
LEMMA ReadRows ==
    ASSUME NEW rows \in Table, Read(rows), NEW k \in Keys
    PROVE  rows[k] \in {NoRow, Now(MigrationDb)[k]}
  BY DEF Read, RowsOf, EmptyTable

PageTypeOK ==
    /\ step \in Steps /\ setup \in BOOLEAN /\ disabled \in SUBSET Buttons
    /\ feedback \in Texts /\ clears \in Nat /\ answer \in {"none"} \cup DOMAIN Answers
    /\ mine \in Threads \cup {"none"} /\ events \in Nat

\* What happens is counted down to zero.
LEMMA HappensType ==
    ASSUME events \in Nat, Happens
    PROVE  events' \in Nat
  BY DEF Happens

\* The page's variables stay well typed.
LEMMA PageTypeStep ==
    ASSUME PageTypeOK, [MigrationNext]_allVars
    PROVE  PageTypeOK'
  <1>0. events \in Nat
    BY Zenon DEF PageTypeOK
  <1>1. CASE ClickStart \/ ClickSetup
    <2>1. ASSUME NEW b \in Buttons, Click(b)
          PROVE  disabled' \in SUBSET Buttons /\ events' \in Nat
      <3>1. disabled' \in SUBSET Buttons
        BY <2>1 DEF Click, PageTypeOK
      <3> QED
        BY <1>0, <2>1, <3>1, HappensType DEF Click
    <2>2. disabled' \in SUBSET Buttons /\ events' \in Nat
      BY <1>1, <2>1 DEF ClickStart, ClickSetup, Buttons
    <2>3. setup' = setup \/ setup' = TRUE
      BY <1>1 DEF ClickStart, ClickSetup
    <2>4. setup' \in BOOLEAN
      BY <2>3, Zenon DEF PageTypeOK
    <2>5. /\ UNCHANGED <<clears, answer, mine>> /\ step' \in {step, "status"}
          /\ feedback' = "working"
      BY <1>1 DEF ClickStart, ClickSetup
    <2> QED
      BY <2>2, <2>4, <2>5 DEF PageTypeOK, Steps, Texts
  <1>2. CASE Status \/ Answered \/ RequestFails
    BY <1>2 DEF Status, Answered, RequestFails, Finish, PageTypeOK, Steps, Texts
  <1>3. CASE Stop \/ Prepare
    BY <1>3 DEF Stop, Prepare, PageTypeOK, Steps, Texts
  <1>4. CASE Start
    BY <1>4 DEF Start, PageTypeOK, Steps, Answers
  <1>5. ASSUME NEW s \in Threads, AskCopy(s) \/ CopyWrite(s)
        PROVE  PageTypeOK'
    BY <1>5 DEF AskCopy, CopyWrite, PageTypeOK, Steps, Texts
  <1>6. ASSUME Happens, UNCHANGED <<step, setup, disabled, feedback, clears, answer, mine>>
        PROVE  PageTypeOK'
    BY <1>0, <1>6, HappensType DEF PageTypeOK
  <1>7. ASSUME NEW text \in Texts, SetUpEnds(text)
        PROVE  PageTypeOK'
    <2>1. setup' \in BOOLEAN
      BY <1>7, Zenon DEF SetUpEnds
    <2>2. /\ UNCHANGED <<step, answer, mine, events>> /\ disabled' \subseteq disabled
          /\ feedback' = text /\ clears' = clears + 1
      BY <1>7 DEF SetUpEnds
    <2> QED
      BY <2>1, <2>2 DEF PageTypeOK
  <1>8. CASE ClearFeedback
    <2>1. clears' \in Nat
      <3>1. clears \in Nat /\ clears > 0 /\ clears' = clears - 1
        BY <1>8, Zenon DEF ClearFeedback, PageTypeOK
      <3> QED
        BY <3>1
    <2>2. UNCHANGED <<step, setup, disabled, answer, mine, events>> /\ feedback' = ""
      BY <1>8 DEF ClearFeedback
    <2> QED
      BY <2>1, <2>2 DEF PageTypeOK, Texts
  <1>9. CASE UNCHANGED pageVars
    BY <1>9 DEF pageVars, PageTypeOK
  <1>10. CASE SetUp \/ SetUpFails
    <2>1. "setUp" \in Texts /\ "error" \in Texts
      BY DEF Texts
    <2> QED
      BY <1>7, <1>10, <2>1 DEF SetUp, SetUpFails
  <1>11. CASE Elsewhere
    BY <1>5, <1>6, <1>9, <1>11 DEF Elsewhere, AskedCopy, mvars
  <1> QED
    BY <1>1, <1>2, <1>3, <1>4, <1>5, <1>8, <1>9, <1>10, <1>11
    DEF MigrationNext, Workflow, allVars, mvars

\* What Still leaves is a part of what there was.
LEMMA StillPart ==
    ASSUME NEW ks
    PROVE  Still(ks) \subseteq ks
  BY DEF Still

\* The copies and what should stay keep their types.
LEMMA CopyTypeStep ==
    ASSUME copying \in [Threads -> Copy], kept \in SUBSET Keys, [MigrationNext]_allVars
    PROVE  copying' \in [Threads -> Copy] /\ kept' \in SUBSET Keys
  <1>0. EmptyTable \in Table /\ NoCopy \in Copy
    BY DEF EmptyTable, Table, MaybeRow, NoCopy, Copy
  <1>1. CASE Forget
    <2>1. kept' \in SUBSET Keys
      BY <1>1, StillPart DEF Forget
    <2>2. ASSUME NEW s \in Threads
          PROVE  [copying[s] EXCEPT !.safe = Still(@)] \in Copy
      <3>1. Still(copying[s].safe) \subseteq Keys
        BY StillPart DEF Copy
      <3> QED
        BY <3>1 DEF Copy
    <2> QED
      BY <1>1, <2>1, <2>2 DEF Forget
  <1>2. ASSUME NEW s \in Threads, CopyRead(s)
        PROVE  copying' \in [Threads -> Copy] /\ kept' \in SUBSET Keys
    <2>1. PICK rows \in Table :
              copying' = [copying EXCEPT ![s] = [pc |-> "write", rows |-> rows,
                                               safe |-> RowsOf(rows) \ Threatened]]
      BY <1>2 DEF CopyRead
    <2>2. RowsOf(rows) \ Threatened \subseteq Keys
      BY DEF RowsOf
    <2>3. [pc |-> "write", rows |-> rows, safe |-> RowsOf(rows) \ Threatened] \in Copy
      BY <2>2 DEF Copy
    <2> QED
      BY <1>2, <2>1, <2>3 DEF CopyRead
  <1>3. ASSUME NEW s \in Threads, CopyWrite(s)
        PROVE  copying' \in [Threads -> Copy] /\ kept' \in SUBSET Keys
    BY <1>0, <1>3 DEF CopyWrite, Copy
  <1> QED
    BY <1>1, <1>2, <1>3, StepKinds, PrepareEffect DEF Rebuild

\* What the proofs below start from.
PathInv == MigrationTypeOK /\ IInv

\* The parts of it the lemmas above speak of.
LEMMA PathParts ==
    PathInv <=> /\ TypeOK /\ HistInv /\ Rest /\ PageTypeOK
                /\ copying \in [Threads -> Copy] /\ kept \in SUBSET Keys
  BY DEF PathInv, MigrationTypeOK, IInv, Rest, PageTypeOK

\* The initial states.
LEMMA PathInit == MigrationInit => PathInv
  <1> SUFFICES ASSUME MigrationInit PROVE PathInv
    OBVIOUS
  <1>1. IInv
    BY IInvInit DEF MigrationInit
  <1>2. PageTypeOK
    <2>1. setup \in BOOLEAN
      BY Zenon DEF MigrationInit
    <2> QED
      BY <2>1, MigrationAssumption DEF MigrationInit, PageTypeOK, Steps, Texts
  <1>3. copying \in [Threads -> Copy] /\ kept \in SUBSET Keys
    BY DEF MigrationInit, NoCopy, Copy, EmptyTable, Table, MaybeRow
  <1> QED
    BY <1>1, <1>2, <1>3, PathParts DEF IInv, Rest

\* Every step of the workflow, the set-up and the data path keeps it.
LEMMA PathInvStep == PathInv /\ [MigrationNext]_allVars => PathInv'
  <1> SUFFICES ASSUME PathInv, [MigrationNext]_allVars PROVE PathInv'
    OBVIOUS
  <1>1. TypeOK' /\ HistInv' /\ Rest'
    BY DataPathStep, PathParts
  <1>2. PageTypeOK' /\ copying' \in [Threads -> Copy] /\ kept' \in SUBSET Keys
    BY PageTypeStep, CopyTypeStep, PathParts
  <1> QED
    BY <1>1, <1>2 DEF PathInv, MigrationTypeOK, IInv, Rest, PageTypeOK

\* The workflow keeps the types, and in between its requests the target goes on
\* following the log of the database being streamed.
THEOREM PathInvariance == MigrationSpec => []PathInv
  BY PathInit, PathInvStep, PTL DEF MigrationSpec

\* Type correctness of the page, the copies and the data path under them.
THEOREM MigrationTypeCorrect == MigrationSpec => []MigrationTypeOK
  <1>1. PathInv => MigrationTypeOK
    BY DEF PathInv
  <1> QED
    BY <1>1, PathInvariance, PTL

\* A caught-up stream has made target and source equal on every undamaged key, also when
\* the target was dropped, filled by copies and streamed to by a running migration.
THEOREM MigratedTargetMatchesSource == MigrationSpec => []TargetMatchesSource
  <1>1. PathInv => TargetMatchesSource
    BY MatchesOfIInv DEF PathInv
  <1> QED
    BY <1>1, PathInvariance, PTL

\* The Start button is disabled exactly while the page waits for an answer.
THEOREM ButtonFollowsWorkflow == MigrationSpec => []ButtonMeansWorkflow
  <1> DEFINE Waits == mine # "none" => step = "copyWrite"
             Inv == ButtonMeansWorkflow /\ Waits
  <1>1. MigrationInit => Inv
    BY DEF MigrationInit, ButtonMeansWorkflow
  <1>2. ASSUME Inv, [MigrationNext]_allVars PROVE Inv'
    <2> USE <1>2 DEF ButtonMeansWorkflow
    <2>1. CASE ClickStart \/ ClickSetup
      BY <2>1 DEF ClickStart, ClickSetup, Click
    <2>2. CASE Status \/ Answered \/ RequestFails
      BY <2>2 DEF Status, Answered, RequestFails, Finish
    <2>3. CASE Stop \/ Prepare \/ Start
      BY <2>3 DEF Stop, Prepare, Start
    <2>4. CASE SetUp \/ SetUpFails \/ ClearFeedback
      BY <2>4 DEF SetUp, SetUpFails, SetUpEnds, ClearFeedback
    <2>5. ASSUME NEW s \in Threads, AskCopy(s) \/ AskedCopy(s) \/ CopyWrite(s) PROVE Inv'
      <3>1. s # "none"
        BY MigrationAssumption
      <3> QED
        BY <2>5, <3>1 DEF AskCopy, AskedCopy, CopyWrite
    <2>6. CASE UNCHANGED <<step, disabled, mine>>
      BY <2>6
    <2>7. CASE Elsewhere \/ UNCHANGED allVars
      BY <2>5, <2>6, <2>7 DEF Elsewhere, allVars, mvars, pageVars
    <2> QED
      BY <2>1, <2>2, <2>3, <2>4, <2>5, <2>7 DEF MigrationNext, Workflow
  <1>3. Inv => ButtonMeansWorkflow
    OBVIOUS
  <1> HIDE DEF Inv
  <1> QED
    BY <1>1, <1>2, <1>3, PTL DEF MigrationSpec

-----------------------------------------------------------------------------
(* What may be in the target.                                              *)

\* Every version of a database stays in its history.
LEMMA HistGrows ==
    ASSUME PathInv, [MigrationNext]_allVars, NEW e \in Databases, NEW i \in DOMAIN hist[e]
    PROVE  i \in DOMAIN hist'[e] /\ hist'[e][i] = hist[e][i]
  <1>0. TypeOK /\ HistInv /\ copying \in [Threads -> Copy]
    BY PathParts
  <1>1. CASE [Next]_vars
    BY <1>0, <1>1, HistKept
  <1>2. CASE hist' = hist
    BY <1>2
  <1>3. CASE Rebuild(MaybeRow)
    <2>1. /\ Len(hist'[e]) = Len(wal'[e]) + 1 /\ Len(wal'[e]) \in Nat
          /\ Len(wal'[e]) >= Len(wal[e]) /\ hist'[e] \in Seq(Table)
          /\ \A j \in 1..Len(wal[e]) + 1 : hist'[e][j] = hist[e][j]
      BY <1>0, <1>3, RebuildEffect
    <2>2. Len(hist[e]) = Len(wal[e]) + 1 /\ hist[e] \in Seq(Table) /\ Len(wal[e]) \in Nat
      BY <1>0, HistTypesOf
    <2>3. i \in 1..Len(wal[e]) + 1
      BY <2>2
    <2>4. i \in 1..Len(hist'[e])
      BY <2>1, <2>2, <2>3
    <2> QED
      BY <2>1, <2>3, <2>4
  <1>4. CASE Prepare
    BY <1>2, <1>4, PrepareEffect DEF svars
  <1>5. ASSUME NEW s \in Threads, CopyRead(s) \/ CopyWrite(s)
        PROVE  hist' = hist
    BY <1>5 DEF CopyRead, CopyWrite, vars, svars
  <1> QED
    BY <1>1, <1>2, <1>3, <1>4, <1>5, StepKinds, PathStepIsNext DEF Next

\* The migration's source had row r under k at some time, or r is none.
Had(k, r) == r = NoRow \/ \E i \in DOMAIN hist[MigrationDb] : r = hist[MigrationDb][i][k]

CopySeen == \A s \in Threads : \A k \in Keys : Had(k, copying[s].rows[k])

\* The copies hold rows the migration's source had.
LEMMA CopySeenStep ==
    ASSUME PathInv, CopySeen, [MigrationNext]_allVars
    PROVE  CopySeen'
  <1>0. /\ TypeOK /\ HistInv /\ copying \in [Threads -> Copy] /\ MigrationDb \in Databases
    BY PathParts, MigrationAssumption
  <1>1. ASSUME NEW k \in Keys, NEW r, Had(k, r)
        PROVE  Had(k, r)'
    BY <1>0, <1>1, HistGrows DEF Had
  <1>2. CASE UNCHANGED copying
    BY <1>1, <1>2 DEF CopySeen
  <1>3. CASE Forget
    <2>1. \A s \in Threads : copying'[s].rows = copying[s].rows
      BY <1>0, <1>3 DEF Forget, Copy
    <2> QED
      BY <1>1, <2>1 DEF CopySeen
  <1>4. ASSUME NEW s \in Threads, CopyRead(s)
        PROVE  CopySeen'
    <2>1. PICK rows \in Table :
              /\ Read(rows)
              /\ copying' = [copying EXCEPT ![s] = [pc |-> "write", rows |-> rows,
                                               safe |-> RowsOf(rows) \ Threatened]]
      BY <1>4 DEF CopyRead
    <2>2. \A k \in Keys : Had(k, rows[k])
      <3>1. Len(hist[MigrationDb]) \in DOMAIN hist[MigrationDb]
        <4>1. hist[MigrationDb] \in Seq(Table) /\ hist[MigrationDb] # <<>>
          BY <1>0, HistTypesOf
        <4> QED
          BY <4>1
      <3> QED
        BY <2>1, <3>1, ReadRows DEF Had, Now
    <2>3. \A t \in Threads : copying'[t].rows = IF t = s THEN rows ELSE copying[t].rows
      BY <1>0, <2>1
    <2> QED
      BY <1>1, <2>2, <2>3 DEF CopySeen
  <1>5. ASSUME NEW s \in Threads, CopyWrite(s)
        PROVE  CopySeen'
    <2>1. \A t \in Threads : copying'[t].rows = IF t = s THEN EmptyTable ELSE copying[t].rows
      BY <1>0, <1>5 DEF CopyWrite, NoCopy
    <2>2. ASSUME NEW t \in Threads, NEW k \in Keys
          PROVE  Had(k, copying[t].rows[k])'
      <3>1. CASE t = s
        <4>1. copying'[t].rows[k] = NoRow
          BY <2>1, <3>1 DEF EmptyTable
        <4> QED
          BY <4>1 DEF Had
      <3>2. CASE t # s
        BY <1>1, <2>1, <3>2 DEF CopySeen
      <3> QED
        BY <3>1, <3>2
    <2> QED
      BY <2>2 DEF CopySeen
  <1> QED
    BY <1>2, <1>3, <1>4, <1>5, StepKinds, PrepareEffect DEF Rebuild

\* Snapshot, batch and target go on holding rows of one key only.
LEMMA SeenMigrated ==
    ASSUME PathInv, SeenInv, CopySeen, [MigrationNext]_allVars
    PROVE  /\ SeenInv'
           /\ \A k \in Keys : \/ target'[k] = target[k] \/ Decodes(k, target'[k])
                              \/ Had(k, target'[k])
  <1>0. TypeOK /\ HistInv /\ copying \in [Threads -> Copy]
    BY PathParts
  <1>1. CASE [Next]_vars
    BY <1>0, <1>1, SeenStep
  <1>2. ASSUME UNCHANGED <<job, batch>>
        PROVE  SeenInv'
    <2>1. ASSUME NEW k \in Keys, NEW r, Seen(k, r)
          PROVE  Seen(k, r)'
      BY <2>1, HistGrows DEF Seen
    <2>2. \A i \in 1..Len(batch) : batch[i].key \in Keys
      BY <1>0, FieldTypes
    <2> QED
      BY <1>2, <2>1, <2>2 DEF SeenInv
  <1>3. CASE Rebuild(MaybeRow)
    BY <1>0, <1>2, <1>3, RebuildEffect
  <1>4. CASE Prepare
    <2>1. target' = target \/ target' = EmptyTable
      BY <1>4, PrepareEffect
    <2> QED
      BY <1>2, <1>4, <2>1, PrepareEffect DEF EmptyTable, Had
  <1>5. ASSUME NEW s \in Threads, CopyWrite(s)
        PROVE  /\ SeenInv'
               /\ \A k \in Keys : target'[k] = target[k] \/ Had(k, target'[k])
    <2>1. /\ UNCHANGED <<job, batch>>
          /\ \A k \in Keys : target'[k] = target[k] \/ target'[k] = copying[s].rows[k]
      BY <1>0, <1>5, CopyWriteEffect
    <2> QED
      BY <1>2, <2>1 DEF CopySeen
  <1>6. CASE \E s \in Threads : CopyRead(s)
    BY <1>1, <1>6 DEF CopyRead
  <1> QED
    BY <1>1, <1>3, <1>4, <1>5, <1>6, StepKinds, PathStepIsNext DEF Next

\* The target holds only what the decoder makes of a row that a database had under the
\* same key, or what the migration's source had there.
THEOREM MigrationInventsNothing == MigrationSpec => []NothingMadeUp
  <1> DEFINE Inv == SeenInv /\ CopySeen /\ NothingMadeUp
  <1>1. MigrationInit => Inv
    <2> SUFFICES ASSUME MigrationInit PROVE Inv
      OBVIOUS
    <2>1. /\ target = EmptyTable /\ batch = <<>> /\ job.inv = EmptyTable
          /\ copying = [s \in Threads |-> NoCopy]
      BY DEF MigrationInit, Init
    <2> QED
      BY <2>1 DEF SeenInv, CopySeen, NothingMadeUp, Seen, Had, NoCopy, EmptyTable
  <1>2. ASSUME PathInv, Inv, [MigrationNext]_allVars PROVE Inv'
    <2>1. CopySeen' /\ SeenInv'
      BY <1>2, CopySeenStep, SeenMigrated
    <2>2. ASSUME NEW k \in Keys
          PROVE  \/ target'[k] = NoRow \/ Streamed(k, target'[k])
                 \/ \E i \in DOMAIN hist[MigrationDb] : target'[k] = hist[MigrationDb][i][k]
      <3>1. target'[k] = target[k] \/ Decodes(k, target'[k]) \/ Had(k, target'[k])
        BY <1>2, SeenMigrated
      <3> QED
        BY <1>2, <3>1 DEF NothingMadeUp, Decodes, Had
    <2>3. ASSUME NEW k \in Keys, NEW r
          PROVE  /\ Streamed(k, r) => Streamed(k, r)'
                 /\ (\E i \in DOMAIN hist[MigrationDb] : r = hist[MigrationDb][i][k])
                        => (\E i \in DOMAIN hist[MigrationDb] : r = hist[MigrationDb][i][k])'
      BY <1>2, HistGrows, MigrationAssumption DEF Streamed
    <2>4. NothingMadeUp'
      BY <2>2, <2>3 DEF NothingMadeUp
    <2> QED
      BY <2>1, <2>4
  <1>3. Inv => NothingMadeUp
    OBVIOUS
  <1> HIDE DEF Inv
  <1> QED
    BY <1>1, <1>2, <1>3, PathInvariance, PTL DEF MigrationSpec

-----------------------------------------------------------------------------
(* The rows that stay.                                                     *)

\* What an UPDATE or DELETE is on its way for.
LEMMA ThreatenedBy ==
    ASSUME NEW k, k \in Threatened
    PROVE  \/ \E i \in DOMAIN batch : batch[i].op \in Changing /\ batch[i].key = k
           \/ Live /\ \E j \in job.from + 1..Len(log) : log[j].op \in Changing /\ log[j].key = k
  BY DEF Threatened

\* A change in hand threatens its row, ...
LEMMA BatchThreatens ==
    ASSUME NEW i \in DOMAIN batch, batch[i].op \in Changing
    PROVE  batch[i].key \in Threatened
  BY DEF Threatened

\* ... and so does one in the log of the job.
LEMMA LogThreatens ==
    ASSUME Live, NEW j \in job.from + 1..Len(log), log[j].op \in Changing
    PROVE  log[j].key \in Threatened
  BY DEF Threatened

\* A job that goes on, or ends, and a batch without new changes threaten no more rows.
LEMMA SameThreats ==
    ASSUME wal' = wal, job'.db = job.db, job'.from = job.from, Live' => Live,
           \A i \in DOMAIN batch' : batch'[i].op \in Changing => batch'[i].key \in Threatened
    PROVE  Threatened' \subseteq Threatened
  <1>1. log' = log
    BY DEF log
  <1> QED
    BY <1>1 DEF Threatened

\* What a delivery, a reconnection, a stop or the snapshot leaves of the job.
LEMMA JobGoesOn ==
    ASSUME TypeOK,
           \/ StopStreaming \/ ReadInventory \/ FinishInventory \/ ConnectionLost \/ GiveUp
           \/ \E ks \in Deliveries : DeliverInventory(ks)
           \/ \E n \in 1..MaxBatch : DeliverChanges(n)
           \/ UNCHANGED job
    PROVE  job'.db = job.db /\ job'.from = job.from /\ (Live' => Live)
  <1>1. job \in [id : Nat, db : Databases, phase : Phases, from : Nat, sent : Nat, inv : Table]
    BY DEF TypeOK, Job
  <1>2. CASE StopStreaming \/ GiveUp
    BY <1>1, <1>2 DEF StopStreaming, GiveUp, Live
  <1>3. CASE ReadInventory \/ FinishInventory
    BY <1>1, <1>3 DEF ReadInventory, FinishInventory, Live
  <1>4. CASE ConnectionLost
    BY <1>1, <1>4 DEF ConnectionLost, Live
  <1>5. CASE \/ \E ks \in Deliveries : DeliverInventory(ks)
             \/ \E n \in 1..MaxBatch : DeliverChanges(n)
    BY <1>1, <1>5 DEF DeliverInventory, DeliverChanges, Live
  <1>6. CASE UNCHANGED job
    BY <1>6 DEF Live
  <1> QED
    BY <1>2, <1>3, <1>4, <1>5, <1>6

\* The data path by itself threatens no row it did not threaten before: a new job begins
\* at the end of the log, and what is delivered was in the log.
LEMMA ThreatsShrink ==
    ASSUME PathInv, PathStep
    PROVE  Threatened' \subseteq Threatened
  <1>0. TypeOK /\ HistInv /\ JobInv /\ Len(log) \in Nat
    BY PathParts, HistTypes DEF Rest
  <1>1. ASSUME UNCHANGED <<wal, batch>>, job'.db = job.db /\ job'.from = job.from /\ (Live' => Live)
        PROVE  Threatened' \subseteq Threatened
    BY <1>1, BatchThreatens, SameThreats
  <1>2. ASSUME NEW d \in Databases, StartStreaming(d)
        PROVE  Threatened' \subseteq Threatened
    <2>1. batch' = batch /\ job'.db = d /\ job'.from = Len(wal[d]) /\ wal' = wal
      BY <1>2 DEF StartStreaming, svars
    <2>2. Len(wal[d]) \in Nat
      BY <1>0, HistTypesOf
    <2>3. (job.from + 1..Len(log))' = {}
      BY <2>1, <2>2 DEF log
    <2> QED
      BY <2>1, <2>3 DEF Threatened
  <1>3. CASE StopStreaming \/ ReadInventory \/ FinishInventory \/ ConnectionLost \/ GiveUp
    <2>1. UNCHANGED <<wal, batch>>
      BY <1>3 DEF StopStreaming, ReadInventory, FinishInventory, ConnectionLost, GiveUp, svars
    <2>2. job'.db = job.db /\ job'.from = job.from /\ (Live' => Live)
      BY <1>0, <1>3, JobGoesOn
    <2> QED
      BY <1>1, <2>1, <2>2
  <1>4. CASE CountEvent \/ ResetStatistics \/ UNCHANGED vars
    BY <1>1, <1>4 DEF CountEvent, ResetStatistics, vars, svars, Live
  <1>5. ASSUME NEW ks \in Deliveries, DeliverInventory(ks)
        PROVE  Threatened' \subseteq Threatened
    <2>1. \A i \in DOMAIN batch' : batch'[i].op \notin Changing
      BY <1>5 DEF DeliverInventory, Changing
    <2>2. wal' = wal
      BY <1>5 DEF DeliverInventory, svars
    <2> QED
      BY <1>0, <1>5, <2>1, <2>2, JobGoesOn, SameThreats
  <1>6. ASSUME NEW n \in 1..MaxBatch, DeliverChanges(n)
        PROVE  Threatened' \subseteq Threatened
    <2>1. /\ n \in Nat /\ job.sent \in Nat /\ job.from \in Nat
          /\ job.sent + n <= Len(log) /\ Live /\ job.from <= job.sent
      <3>1. n \in Nat /\ job.sent \in Nat /\ job.from \in Nat
        BY <1>0, PipelineAssumption, FieldTypes
      <3> QED
        BY <1>0, <1>6, <3>1 DEF DeliverChanges, Live, JobInv
    <2>2. /\ DOMAIN batch' = 1..n /\ wal' = wal
          /\ \A i \in 1..n : /\ batch'[i].op = log[job.sent + i].op
                             /\ batch'[i].key = log[job.sent + i].key
      BY <1>6 DEF DeliverChanges, svars
    <2>3. \A i \in 1..n : job.sent + i \in job.from + 1..Len(log)
      BY <1>0, <2>1
    <2>4. \A i \in DOMAIN batch' : batch'[i].op \in Changing => batch'[i].key \in Threatened
      BY <2>1, <2>2, <2>3, LogThreatens
    <2> QED
      BY <1>0, <1>6, <2>2, <2>4, JobGoesOn, SameThreats
  <1>7. ASSUME NEW fails \in BOOLEAN, ApplyEvent(fails)
        PROVE  Threatened' \subseteq Threatened
    <2>1. /\ batch \in Seq(Record) /\ batch # <<>> /\ batch' = Tail(batch)
          /\ UNCHANGED <<wal, job>>
      BY <1>0, <1>7 DEF ApplyEvent, NextRecords, TypeOK, svars
    <2>2. \A i \in DOMAIN batch' : i + 1 \in DOMAIN batch /\ batch'[i] = batch[i + 1]
      BY <2>1
    <2>3. \A i \in DOMAIN batch' : batch'[i].op \in Changing => batch'[i].key \in Threatened
      BY <2>2, BatchThreatens
    <2> QED
      BY <1>0, <2>1, <2>3, JobGoesOn, SameThreats
  <1> QED
    BY <1>2, <1>3, <1>4, <1>5, <1>6, <1>7 DEF PathStep, Deliver, Consume

\* By itself the data path changes only rows that are threatened or absent: INSERT ...
\* ON CONFLICT DO NOTHING leaves the others.
LEMMA UnthreatenedStay ==
    ASSUME PathInv, PathStep, NEW k \in Keys, k \notin Threatened, target[k] # NoRow
    PROVE  target'[k] = target[k]
  <1>0. TypeOK
    BY PathParts
  <1>1. ASSUME NEW fails \in BOOLEAN, ApplyEvent(fails)
        PROVE  target'[k] = target[k]
    <2>1. batch \in Seq(Record) /\ batch # <<>> /\ target \in [Keys -> MaybeRow]
      BY <1>0, <1>1 DEF ApplyEvent, TypeOK, Table
    <2>2. 1 \in DOMAIN batch /\ 1 \in 1..Len(batch) /\ Head(batch) = batch[1]
      BY <2>1
    <2>3. batch[1].op \in Ops /\ batch[1].key \in Keys
      BY <1>0, <2>2, FieldTypes
    <2>4. PICK new : /\ target' = [target EXCEPT ![batch[1].key] = new]
                     /\ \/ new = target[batch[1].key]
                        \/ new = Applied(batch[1], target[batch[1].key])
      BY <1>1, <2>2 DEF ApplyEvent, Where
    <2>5. CASE batch[1].key # k
      BY <2>1, <2>3, <2>4, <2>5
    <2>6. CASE batch[1].key = k
      <3>1. batch[1].op \in {"INSERT", "UNKNOWN"}
        BY <2>2, <2>3, <2>6, BatchThreatens DEF Changing, Ops, DML
      <3>2. new = target[k]
        BY <2>4, <2>6, <3>1 DEF Applied
      <3> QED
        BY <2>1, <2>4, <2>6, <3>2
    <2> QED
      BY <2>5, <2>6
  <1>2. CASE ~\E fails \in BOOLEAN : ApplyEvent(fails)
    BY <1>2 DEF PathStep, Deliver, Consume, StartStreaming, StopStreaming, ReadInventory,
       DeliverInventory, FinishInventory, DeliverChanges, ConnectionLost, GiveUp, CountEvent,
       ResetStatistics, vars
  <1> QED
    BY <1>1, <1>2

\* Row k of t is what the migration's source has, and no change is on its way to it.
Secure(k, t) == k \notin Threatened /\ t[k] = Now(MigrationDb)[k] /\ t[k] # NoRow

KeptInv == /\ \A k \in kept : Secure(k, target)
           /\ \A s \in Threads : \A k \in copying[s].safe : Secure(k, copying[s].rows)

\* While the databases stay as they are, so does what a copy holds.
LEMMA SecureStays ==
    ASSUME hist' = hist, Threatened' \subseteq Threatened, NEW k, NEW t, Secure(k, t),
           NEW u, u[k] = t[k]
    PROVE  k \notin Threatened' /\ u[k] = Now(MigrationDb)'[k] /\ u[k] # NoRow
  BY DEF Secure, Now

\* Every step keeps secure what it does not take off the list.
LEMMA KeptStep ==
    ASSUME PathInv, KeptInv, [MigrationNext]_allVars
    PROVE  KeptInv'
  <1>0. TypeOK /\ HistInv /\ copying \in [Threads -> Copy] /\ kept \in SUBSET Keys
    BY PathParts
  <1>1. ASSUME hist' = hist, Threatened' \subseteq Threatened, UNCHANGED copying
        PROVE  \A s \in Threads : \A k \in copying'[s].safe : Secure(k, copying[s].rows)'
    BY <1>1, SecureStays DEF KeptInv, Secure
  <1>2. ASSUME UNCHANGED <<svars, job, batch>>
        PROVE  hist' = hist /\ Threatened' = Threatened
    BY <1>2 DEF svars, Threatened, Live, log
  <1>3. CASE PathStep /\ UNCHANGED <<copying, kept>>
    <2>1. Threatened' \subseteq Threatened
      BY <1>3, ThreatsShrink
    <2>2. hist' = hist
      BY <1>3 DEF PathStep, Deliver, Consume, StartStreaming, StopStreaming, ReadInventory,
         DeliverInventory, FinishInventory, DeliverChanges, ConnectionLost, GiveUp,
         CountEvent, ApplyEvent, ResetStatistics, vars, svars
    <2>3. \A k \in kept : target'[k] = target[k]
      BY <1>0, <1>3, UnthreatenedStay DEF KeptInv, Secure
    <2>4. \A k \in kept' : Secure(k, target)'
      BY <1>3, <2>1, <2>2, <2>3, SecureStays DEF KeptInv, Secure
    <2> QED
      BY <1>1, <1>3, <2>1, <2>2, <2>4 DEF KeptInv
  <1>4. ASSUME Forget, target' = target
        PROVE  KeptInv'
    <2>1. \A k \in kept' : Secure(k, target)'
      BY <1>4 DEF Forget, Still, KeptInv, Secure
    <2>2. ASSUME NEW s \in Threads
          PROVE  copying'[s].rows = copying[s].rows /\ copying'[s].safe = Still(copying[s].safe)
      BY <1>0, <1>4 DEF Forget, Copy
    <2>3. \A s \in Threads : \A k \in copying'[s].safe : Secure(k, copying[s].rows)'
      BY <2>2 DEF Still, KeptInv, Secure
    <2> QED
      BY <2>1, <2>3 DEF KeptInv
  <1>5. CASE Source /\ Forget
    BY <1>4, <1>5 DEF Source, SourceInsert, SourceUpdate, SourceDelete, SourceOther, Write
  <1>6. CASE Rebuild(MaybeRow)
    BY <1>4, <1>6 DEF Rebuild
  <1>7. CASE ClearTarget /\ kept' = {} /\ UNCHANGED copying
    <2>1. UNCHANGED <<svars, job, batch>>
      BY <1>7 DEF ClearTarget
    <2> QED
      BY <1>1, <1>2, <1>7, <2>1 DEF KeptInv
  <1>8. CASE Prepare
    <2>1. /\ UNCHANGED <<svars, job, batch, copying>>
          /\ UNCHANGED <<target, kept>> \/ kept' = {}
      BY <1>8, PrepareEffect
    <2>2. \A k \in kept' : Secure(k, target)'
      BY <1>2, <2>1, SecureStays DEF KeptInv, Secure
    <2> QED
      BY <1>1, <1>2, <2>1, <2>2 DEF KeptInv
  <1>9. ASSUME NEW s \in Threads, CopyRead(s)
        PROVE  KeptInv'
    <2>1. PICK rows \in Table :
              /\ Read(rows)
              /\ copying' = [copying EXCEPT ![s] = [pc |-> "write", rows |-> rows,
                                               safe |-> RowsOf(rows) \ Threatened]]
      BY <1>9 DEF CopyRead
    <2>2. hist' = hist /\ Threatened' = Threatened /\ UNCHANGED <<target, kept>>
      BY <1>2, <1>9 DEF CopyRead, vars, svars
    <2>3. \A k \in RowsOf(rows) \ Threatened : Secure(k, rows)
      BY <2>1, ReadRows DEF RowsOf, Secure
    <2>4. \A t \in Threads : copying'[t] = IF t = s THEN [pc |-> "write", rows |-> rows,
                                             safe |-> RowsOf(rows) \ Threatened]
                                           ELSE copying[t]
      BY <1>0, <2>1
    <2>5. \A t \in Threads : \A k \in copying'[t].safe : Secure(k, copying'[t].rows)
      BY <2>3, <2>4 DEF KeptInv
    <2>6. \A t \in Threads : \A k \in copying'[t].safe : Secure(k, copying[t].rows)'
      BY <2>2, <2>5, SecureStays DEF Secure
    <2>7. \A k \in kept' : Secure(k, target)'
      BY <2>2, SecureStays DEF KeptInv, Secure
    <2> QED
      BY <2>6, <2>7 DEF KeptInv
  <1>10. ASSUME NEW s \in Threads, CopyWrite(s)
         PROVE  KeptInv'
    <2>1. /\ UNCHANGED <<svars, job, batch>>
          /\ copying' = [copying EXCEPT ![s] = NoCopy]
          /\ \/ UNCHANGED <<target, kept>>
             \/ /\ \A k \in Keys : target'[k] = IF copying[s].rows[k] # NoRow
                                                THEN copying[s].rows[k] ELSE target[k]
                /\ kept' = copying[s].safe \cup
                       {k \in kept : copying[s].rows[k] \in {NoRow, Now(MigrationDb)[k]}}
      BY <1>0, <1>10, CopyWriteEffect
    <2>2. hist' = hist /\ Threatened' = Threatened
      BY <1>2, <2>1
    <2>3. copying[s].safe \subseteq Keys
      BY <1>0 DEF Copy
    <2>4. \A k \in kept' : Secure(k, target')
      BY <1>0, <2>1, <2>3 DEF KeptInv, Secure
    <2>5. \A k \in kept' : Secure(k, target)'
      BY <2>2, <2>4, SecureStays DEF Secure
    <2>6. ASSUME NEW t \in Threads, NEW k \in copying'[t].safe
          PROVE  Secure(k, copying[t].rows)'
      <3>1. t # s
        BY <1>0, <2>1, <2>6 DEF NoCopy
      <3>2. copying'[t] = copying[t]
        BY <1>0, <2>1, <3>1
      <3> QED
        BY <2>2, <2>6, <3>2, SecureStays DEF KeptInv, Secure
    <2> QED
      BY <2>5, <2>6 DEF KeptInv
  <1> QED
    BY <1>3, <1>5, <1>6, <1>7, <1>8, <1>9, <1>10, StepKinds

\* Rows a copy has written as the source has them stay in the target until the source, a
\* change of the database being streamed, an older copy or a cleared target says
\* otherwise, whatever streams, snapshots, copies and set-ups come in between.
THEOREM MigratedRows == MigrationSpec => []MigratedRowsStay
  <1>1. MigrationInit => KeptInv
    <2> SUFFICES ASSUME MigrationInit PROVE KeptInv
      OBVIOUS
    <2>1. kept = {} /\ \A s \in Threads : copying[s].safe = {}
      BY DEF MigrationInit, NoCopy
    <2> QED
      BY <2>1 DEF KeptInv
  <1>2. KeptInv => MigratedRowsStay
    BY DEF KeptInv, Secure, MigratedRowsStay
  <1>3. PathInv /\ KeptInv /\ [MigrationNext]_allVars => KeptInv'
    BY KeptStep
  <1> QED
    BY <1>1, <1>2, <1>3, PathInvariance, PTL DEF MigrationSpec
=============================================================================
