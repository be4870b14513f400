-------------------------- MODULE EventFeedProofs --------------------------
(***************************************************************************)
(* Proofs about EventFeed for every number of WebSockets, rows and events,  *)
(* every queue length and every budget of faults.                          *)
(***************************************************************************)
EXTENDS EventFeed, SequenceTheorems, TLAPS

-----------------------------------------------------------------------------
(* Types.                                                                  *)

\* Spending keeps the budget a budget.
LEMMA SpendType ==
    ASSUME budget \in [BudgetKinds -> Nat], NEW b \in BudgetKinds, Spend(b)
    PROVE  budget' \in [BudgetKinds -> Nat]
  BY DEF Spend

\* The first n elements of a sequence.
LEMMA Prefix ==
    ASSUME NEW S, NEW q \in Seq(S), NEW n \in 0..Len(q)
    PROVE  /\ SubSeq(q, 1, n) \in Seq(S) /\ Len(SubSeq(q, 1, n)) = n
           /\ \A i \in 1..n : SubSeq(q, 1, n)[i] = q[i]
  <1>1. Len(q) \in Nat /\ n \in Nat /\ \A i \in 1..n : q[i] \in S
    OBVIOUS
  <1> QED
    BY <1>1, SubSeqProperties

\* The first element of a sequence and the others.
LEMMA FirstAndRest ==
    ASSUME NEW S, NEW q \in Seq(S), q # <<>>
    PROVE  /\ Head(q) \in S /\ q[1] = Head(q) /\ Len(q) \in Nat /\ Len(q) >= 1
           /\ Tail(q) \in Seq(S) /\ Len(Tail(q)) = Len(q) - 1
           /\ \A i \in 1..Len(q) - 1 : Tail(q)[i] = q[i + 1]
  <1>1. Len(q) \in Nat /\ Len(q) >= 1
    BY EmptySeq
  <1>2. Head(q) = q[1] /\ q[1] \in S
    BY <1>1
  <1>3. /\ Tail(q) \in Seq(S) /\ Len(Tail(q)) = Len(q) - 1
        /\ \A i \in 1..Len(Tail(q)) : Tail(q)[i] = q[i + 1]
    BY HeadTailProperties
  <1> QED
    BY <1>1, <1>2, <1>3

\* A table of events with one more on top is a table of events.
LEMMA WithEventType ==
    ASSUME NEW n \in Nat, rows \in Seq(0..n), NEW e \in 0..n, MaxRows \in Nat \ {0}
    PROVE  /\ WithEvent(e) \in Seq(0..n)
           /\ WithEvent(e) # <<>> /\ WithEvent(e)[1] = e
           /\ \A i \in DOMAIN WithEvent(e) : i > 1 =>
                 ~OnlyPlaceholder /\ i - 1 \in DOMAIN rows /\ WithEvent(e)[i] = rows[i - 1]
  <1> DEFINE old == IF OnlyPlaceholder THEN <<>> ELSE rows
             new == <<e>> \o old
  <1>a. old \in Seq(0..n)
    <2>1. <<>> \in Seq(0..n)
      OBVIOUS
    <2> QED
      BY <2>1, Zenon
  <1>b. <<e>> \in Seq(0..n) /\ Len(<<e>>) = 1 /\ <<e>>[1] = e
    OBVIOUS
  <1>1. old \in Seq(0..n) /\ <<e>> \in Seq(0..n) /\ Len(<<e>>) = 1 /\ <<e>>[1] = e
    BY <1>a, <1>b
  <1>c. (OnlyPlaceholder => Len(old) = 0) /\ (~OnlyPlaceholder => old = rows)
    OBVIOUS
  <1> HIDE DEF old
  <1>2. /\ new \in Seq(0..n) /\ Len(new) = Len(old) + 1
        /\ \A i \in 1..Len(new) : new[i] = IF i = 1 THEN e ELSE old[i - 1]
    BY <1>1, ConcatProperties
  <1> HIDE DEF new
  <1> DEFINE w == WithEvent(e)
  <1>3. /\ w \in Seq(0..n) /\ Len(w) \in 1..Len(new)
        /\ Len(w) = IF Len(new) > MaxRows THEN Len(new) - 1 ELSE Len(new)
        /\ \A i \in 1..Len(w) : w[i] = new[i]
    <2>1. CASE Len(new) > MaxRows
      <3>1. w = SubSeq(new, 1, Len(new) - 1)
        BY <2>1 DEF WithEvent, new, old
      <3>2. /\ SubSeq(new, 1, Len(new) - 1) \in Seq(0..n)
            /\ Len(SubSeq(new, 1, Len(new) - 1)) = Len(new) - 1
            /\ \A i \in 1..Len(new) - 1 : SubSeq(new, 1, Len(new) - 1)[i] = new[i]
        BY <1>2, <2>1
      <3> QED
        BY <1>2, <2>1, <3>1, <3>2
    <2>2. CASE ~(Len(new) > MaxRows)
      <3>1. w = new
        BY <2>2 DEF WithEvent, new, old
      <3> QED
        BY <1>2, <2>2, <3>1
    <2> QED
      BY <2>1, <2>2
  <1> HIDE DEF w
  <1>4. DOMAIN w = 1..Len(w) /\ w # <<>> /\ w[1] = e
    BY <1>2, <1>3
  <1>5. ASSUME NEW i \in DOMAIN w, i > 1
        PROVE  ~OnlyPlaceholder /\ i - 1 \in DOMAIN rows /\ w[i] = rows[i - 1]
    <2>a. i \in 1..Len(w)
      BY <1>4
    <2>b. Len(w) \in Nat /\ Len(new) \in Nat /\ Len(old) \in Nat /\ Len(w) <= Len(new)
      BY <1>1, <1>2, <1>3
    <2>c. i \in 1..Len(new) /\ i \in Nat
      BY <2>a, <2>b
    <2>d. w[i] = new[i] /\ new[i] = old[i - 1]
      <3>1. w[i] = new[i]
        BY <1>3, <2>a
      <3>2. i # 1
        BY <1>5
      <3> QED
        BY <1>2, <2>c, <3>1, <3>2
    <2>1. i - 1 \in 1..Len(old) /\ w[i] = old[i - 1]
      BY <1>2, <1>5, <2>b, <2>c, <2>d
    <2>2. ~OnlyPlaceholder /\ old = rows
      BY <1>c, <2>1
    <2> QED
      BY <2>1, <2>2
  <1>6. w \in Seq(0..n) /\ w # <<>> /\ w[1] = e
    BY <1>3, <1>4
  <1> QED
    BY <1>5, <1>6 DEF w

\* The initial states are well typed.
LEMMA TypeInit == Init => TypeOK
  <1> SUFFICES ASSUME Init PROVE TypeOK
    OBVIOUS
  <1>1. sock \in [Sockets -> SockStates]
    BY DEF Init, SockStates
  <1>2. timer = FALSE /\ statsTask = TRUE /\ collided = FALSE /\ doubled = FALSE
        /\ status = "Disconnected"
    BY Zenon DEF Init
  <1>3. timer \in BOOLEAN /\ statsTask \in BOOLEAN /\ collided \in BOOLEAN /\ doubled \in BOOLEAN
    BY <1>2, Zenon
  <1>4. /\ rows \in Seq(0..published) /\ eventCount \in Nat
        /\ chan \in [Sockets -> Seq(1..published)]
        /\ published \in 0..MaxEvents /\ seen \in [Sockets -> 0..published]
    BY FeedAssumption DEF Init, Placeholder
  <1>5. /\ sessions \in SUBSET Sockets
        /\ bc \in [Threads -> [todo : SUBSET Sockets, sending : Sockets \cup {NoSocket}]]
    BY DEF Init
  <1>6. budget \in [BudgetKinds -> Nat]
    BY FeedAssumption DEF Init
  <1> QED
    BY <1>1, <1>2, <1>3, <1>4, <1>5, <1>6 DEF TypeOK

\* The parts of TypeOK that a step of one side leaves alone together.
PageTypes == /\ sock \in [Sockets -> SockStates] /\ timer \in BOOLEAN
             /\ status \in {"Connected", "Disconnected"}
TableTypes == rows \in Seq(0..published) /\ eventCount \in Nat
ServerTypes == /\ sessions \in SUBSET Sockets /\ published \in 0..MaxEvents
               /\ bc \in [Threads -> [todo : SUBSET Sockets, sending : Sockets \cup {NoSocket}]]
               /\ statsTask \in BOOLEAN /\ collided \in BOOLEAN
ChannelTypes == chan \in [Sockets -> Seq(1..published)] /\ seen \in [Sockets -> 0..published]
OtherTypes == doubled \in BOOLEAN /\ budget \in [BudgetKinds -> Nat]

LEMMA TypeParts ==
    /\ TypeOK <=> PageTypes /\ TableTypes /\ ServerTypes /\ ChannelTypes /\ OtherTypes
    /\ TypeOK' <=> PageTypes' /\ TableTypes' /\ ServerTypes' /\ ChannelTypes' /\ OtherTypes'
  BY Zenon DEF TypeOK, PageTypes, TableTypes, ServerTypes, ChannelTypes, OtherTypes

\* What is typed stays so while the variables it is about do not change.
LEMMA TypesUnchanged ==
    /\ PageTypes /\ UNCHANGED page => PageTypes'
    /\ TableTypes /\ UNCHANGED table /\ UNCHANGED published => TableTypes'
    /\ ServerTypes /\ UNCHANGED server => ServerTypes'
    /\ ChannelTypes /\ UNCHANGED <<chan, seen, published>> => ChannelTypes'
    /\ OtherTypes /\ UNCHANGED <<doubled, budget>> => OtherTypes'
  BY Zenon DEF page, table, server, PageTypes, TableTypes, ServerTypes, ChannelTypes, OtherTypes

-----------------------------------------------------------------------------
(* Every step keeps the types.                                             *)

LEMMA TypeAccept == TypeOK /\ (\E s \in Sockets : Accept(s)) => TypeOK'
  <1> SUFFICES ASSUME TypeOK, NEW s \in Sockets, Accept(s) PROVE TypeOK'
    OBVIOUS
  <1> USE TypeParts
  <1>1. PageTypes'
    BY DEF Accept, PageTypes, SockStates
  <1>2. TableTypes' /\ OtherTypes'
    BY TypesUnchanged DEF Accept
  <1>3. ServerTypes'
    <2>1. sessions' \in SUBSET Sockets
      BY DEF Accept, ServerTypes
    <2> QED
      BY <2>1, Zenon DEF Accept, ServerTypes
  <1>4. ChannelTypes'
    <2>1. published \in Nat
      BY FeedAssumption DEF ServerTypes
    <2> QED
      BY <2>1 DEF Accept, ChannelTypes
  <1> QED
    BY <1>1, <1>2, <1>3, <1>4

LEMMA TypePage ==
    ASSUME TypeOK, NEW s \in Sockets, Open(s) \/ Refuse(s) \/ Close(s) \/ Reconnect(s)
    PROVE  TypeOK'
  <1> USE TypeParts
  <1>1. sock' \in [Sockets -> SockStates]
    BY DEF Open, Refuse, Close, Reconnect, PageTypes, SockStates
  <1>2. timer' \in BOOLEAN
    BY Zenon DEF Open, Refuse, Close, Reconnect, PageTypes
  <1>3. status' \in {"Connected", "Disconnected"}
    BY DEF Open, Refuse, Close, Reconnect, PageTypes
  <1>4. TableTypes' /\ ServerTypes' /\ ChannelTypes'
    BY TypesUnchanged DEF Open, Refuse, Close, Reconnect, server
  <1>5. doubled' \in BOOLEAN
    BY Zenon DEF Open, Refuse, Close, Reconnect, OtherTypes
  <1>6. budget' \in [BudgetKinds -> Nat]
    BY SpendType DEF Open, Refuse, Close, Reconnect, OtherTypes, BudgetKinds
  <1> QED
    BY <1>1, <1>2, <1>3, <1>4, <1>5, <1>6 DEF PageTypes, OtherTypes

LEMMA TypeBreak ==
    ASSUME TypeOK, NEW s \in Sockets, NEW n \in 0..Len(chan[s]), Break(s, n)
    PROVE  TypeOK'
  <1> USE TypeParts
  <1>1. PageTypes'
    BY DEF Break, PageTypes, SockStates
  <1>2. TableTypes' /\ ServerTypes'
    BY TypesUnchanged DEF Break, server
  <1>3. SubSeq(chan[s], 1, n) \in Seq(1..published)
    <2>1. chan[s] \in Seq(1..published)
      BY DEF ChannelTypes
    <2> QED
      BY <2>1, Prefix
  <1>4. ChannelTypes'
    BY <1>3 DEF Break, ChannelTypes, server
  <1>5. OtherTypes'
    BY SpendType DEF Break, OtherTypes, BudgetKinds
  <1> QED
    BY <1>1, <1>2, <1>4, <1>5

LEMMA TypeServer ==
    ASSUME TypeOK,
           \/ SendStatistics
           \/ \E s \in Sockets : RemoveSession(s)
           \/ \E t \in Threads, s \in Sockets : StartSend(t, s) \/ Collide(t, s)
    PROVE  TypeOK'
  <1> USE TypeParts
  <1>1. PageTypes' /\ TableTypes' /\ ChannelTypes' /\ OtherTypes'
    BY TypesUnchanged DEF SendStatistics, RemoveSession, StartSend, Collide
  <1>2. sessions' \in SUBSET Sockets /\ published' \in 0..MaxEvents
    BY DEF SendStatistics, RemoveSession, StartSend, Collide, ServerTypes
  <1>3. bc' \in [Threads -> [todo : SUBSET Sockets, sending : Sockets \cup {NoSocket}]]
    <2>1. CASE SendStatistics
      BY <2>1 DEF SendStatistics, Begin, ServerTypes, Threads
    <2>2. CASE \E s \in Sockets : RemoveSession(s)
      BY <2>2 DEF RemoveSession, ServerTypes
    <2>3. ASSUME NEW t \in Threads, NEW s \in Sockets, StartSend(t, s)
          PROVE  bc' \in [Threads -> [todo : SUBSET Sockets, sending : Sockets \cup {NoSocket}]]
      BY <2>3 DEF StartSend, ServerTypes
    <2>4. ASSUME NEW t \in Threads, NEW s \in Sockets, Collide(t, s)
          PROVE  bc' \in [Threads -> [todo : SUBSET Sockets, sending : Sockets \cup {NoSocket}]]
      BY <2>4 DEF Collide, ServerTypes
    <2> QED
      BY <2>1, <2>2, <2>3, <2>4
  <1>4. statsTask' \in BOOLEAN /\ collided' \in BOOLEAN
    BY Zenon DEF SendStatistics, RemoveSession, StartSend, Collide, ServerTypes
  <1> QED
    BY <1>1, <1>2, <1>3, <1>4 DEF ServerTypes

LEMMA TypeBroadcastEvent == TypeOK /\ BroadcastEvent => TypeOK'
  <1> SUFFICES ASSUME TypeOK, BroadcastEvent PROVE TypeOK'
    OBVIOUS
  <1> USE TypeParts
  <1>1. PageTypes' /\ OtherTypes'
    BY TypesUnchanged DEF BroadcastEvent
  <1>2. /\ published \in Nat /\ published' = published + 1 /\ published' \in 0..MaxEvents
        /\ 0..published \subseteq 0..published' /\ 1..published \subseteq 1..published'
    BY FeedAssumption DEF BroadcastEvent, ServerTypes
  <1>3. TableTypes'
    <2>1. rows \in Seq(0..published')
      BY <1>2, SeqMonotonic DEF TableTypes
    <2> QED
      BY <2>1 DEF BroadcastEvent, TableTypes, table
  <1>4. ChannelTypes'
    <2>1. Seq(1..published) \subseteq Seq(1..published')
      BY <1>2, SeqMonotonic
    <2> QED
      BY <1>2, <2>1 DEF BroadcastEvent, ChannelTypes
  <1>5. bc' \in [Threads -> [todo : SUBSET Sockets, sending : Sockets \cup {NoSocket}]]
    BY DEF BroadcastEvent, Begin, ServerTypes, Threads
  <1>6. sessions' \in SUBSET Sockets /\ statsTask' \in BOOLEAN /\ collided' \in BOOLEAN
    BY Zenon DEF BroadcastEvent, ServerTypes
  <1>7. ServerTypes'
    BY <1>2, <1>5, <1>6 DEF ServerTypes
  <1> QED
    BY <1>1, <1>3, <1>4, <1>7

\* Events are only under way when there has been one.
SomeEvent == published = 0 => Idle("events")

LEMMA TypeFinishSend ==
    ASSUME TypeOK, SomeEvent, NEW t \in Threads, FinishSend(t)
    PROVE  TypeOK'
  <1> USE TypeParts
  <1> DEFINE s == bc[t].sending
  <1>1. PageTypes' /\ TableTypes' /\ OtherTypes'
    BY TypesUnchanged DEF FinishSend
  <1>2. bc' \in [Threads -> [todo : SUBSET Sockets, sending : Sockets \cup {NoSocket}]]
    BY DEF FinishSend, ServerTypes
  <1>3. ServerTypes'
    BY <1>2, Zenon DEF FinishSend, ServerTypes
  <1>4. s \in Sockets /\ chan[s] \in Seq(1..published)
    BY DEF FinishSend, ServerTypes, ChannelTypes
  <1>5. CASE t = "events" /\ sock[s] \in {"accepted", "open"}
    <2>1. published \in 1..published
      BY <1>5, FeedAssumption DEF FinishSend, ServerTypes, SomeEvent, Idle
    <2>2. Append(chan[s], published) \in Seq(1..published)
      BY <1>4, <2>1
    <2>3. chan' = [chan EXCEPT ![s] = Append(@, published)]
      BY <1>5 DEF FinishSend
    <2>4. ChannelTypes'
      BY <2>2, <2>3 DEF FinishSend, ChannelTypes
    <2> QED
      BY <1>1, <1>3, <2>4
  <1>6. CASE ~(t = "events" /\ sock[s] \in {"accepted", "open"})
    <2>1. chan' = chan
      BY <1>6, Zenon DEF FinishSend
    <2>2. ChannelTypes'
      BY <2>1, TypesUnchanged DEF FinishSend
    <2> QED
      BY <1>1, <1>3, <2>2
  <1> QED
    BY <1>5, <1>6

\* The event at the head of a channel is one that was broadcast.
LEMMA HeadType ==
    ASSUME TypeOK, NEW s \in Sockets, chan[s] # <<>>
    PROVE  /\ published \in Nat /\ published <= MaxEvents
           /\ Head(chan[s]) \in 1..published /\ Tail(chan[s]) \in Seq(1..published)
  <1>1. chan[s] \in Seq(1..published) /\ published \in 0..MaxEvents
    BY DEF TypeOK
  <1>2. published \in Nat /\ published <= MaxEvents
    BY <1>1, FeedAssumption
  <1>3. Head(chan[s]) \in 1..published /\ Tail(chan[s]) \in Seq(1..published)
    BY <1>1, FirstAndRest, Zenon
  <1> QED
    BY <1>2, <1>3

LEMMA TypeReceive ==
    ASSUME TypeOK, NEW s \in Sockets, Receive(s)
    PROVE  TypeOK'
  <1> USE TypeParts
  <1>1. PageTypes' /\ ServerTypes' /\ OtherTypes'
    BY TypesUnchanged DEF Receive, server
  <1>2. /\ published \in Nat /\ Head(chan[s]) \in 1..published
        /\ Tail(chan[s]) \in Seq(1..published)
    BY HeadType DEF Receive
  <1>3. ChannelTypes'
    BY <1>2 DEF Receive, ChannelTypes, server
  <1>4. WithEvent(Head(chan[s])) \in Seq(0..published)
    BY <1>2, WithEventType, FeedAssumption DEF TableTypes
  <1>5. TableTypes'
    BY <1>4 DEF Receive, TableTypes, server
  <1> QED
    BY <1>1, <1>3, <1>5

LEMMA TypeRenderEvents == TypeOK /\ RenderEvents => TypeOK'
  <1> SUFFICES ASSUME TypeOK, RenderEvents PROVE TypeOK'
    OBVIOUS
  <1> USE TypeParts
  <1>1. PageTypes' /\ ServerTypes' /\ ChannelTypes' /\ OtherTypes'
    BY TypesUnchanged DEF RenderEvents, server
  <1>2. rows' \in Seq(0..published') /\ eventCount' \in Nat
    <2>1. published \in Nat
      BY FeedAssumption DEF ServerTypes
    <2>2. <<0>> \in Seq(0..published)
      BY <2>1
    <2> QED
      BY <2>2 DEF RenderEvents, TableTypes, server, Placeholder
  <1> QED
    BY <1>1, <1>2 DEF TableTypes

\* Only the broadcasts touch what SomeEvent is about.
LEMMA SomeEventStep == TypeOK /\ SomeEvent /\ [Next]_vars => SomeEvent'
  <1> SUFFICES ASSUME TypeOK, SomeEvent, [Next]_vars PROVE SomeEvent'
    OBVIOUS
  <1>0. /\ published \in Nat
        /\ bc \in [Threads -> [todo : SUBSET Sockets, sending : Sockets \cup {NoSocket}]]
    BY FeedAssumption DEF TypeOK
  <1>1. CASE BroadcastEvent
    BY <1>0, <1>1 DEF BroadcastEvent, SomeEvent
  <1>2. CASE SendStatistics
    BY <1>0, <1>2 DEF SendStatistics, Begin, SomeEvent, Idle, Threads
  <1>3. ASSUME NEW t \in Threads, Broadcasting(t)
        PROVE  SomeEvent'
    <2>1. ASSUME NEW s \in Sockets, StartSend(t, s) PROVE SomeEvent'
      BY <1>0, <2>1, FeedAssumption DEF StartSend, SomeEvent, Idle, Threads
    <2>2. ASSUME NEW s \in Sockets, Collide(t, s) PROVE SomeEvent'
      BY <1>0, <2>2, FeedAssumption DEF Collide, SomeEvent, Idle, Threads
    <2>3. CASE FinishSend(t)
      BY <1>0, <2>3, FeedAssumption DEF FinishSend, SomeEvent, Idle, Threads
    <2> QED
      BY <1>3, <2>1, <2>2, <2>3 DEF Broadcasting
  <1>4. CASE UNCHANGED <<published, bc>>
    BY <1>4 DEF SomeEvent, Idle
  <1>5. ASSUME NEW s \in Sockets,
               \/ Connection(s) \/ Refuse(s) \/ Receive(s)
               \/ \E n \in 0..Len(chan[s]) : Break(s, n)
        PROVE  UNCHANGED <<published, bc>>
    BY <1>5, Zenon DEF Connection, Accept, Open, Close, Reconnect, RemoveSession, Refuse,
                       Receive, Break, server
  <1>6. RenderEvents \/ UNCHANGED vars => UNCHANGED <<published, bc>>
    BY Zenon DEF RenderEvents, server, vars
  <1> QED
    BY <1>1, <1>2, <1>3, <1>4, <1>5, <1>6 DEF Next

LEMMA TypeStep == TypeOK /\ SomeEvent /\ [Next]_vars => TypeOK'
  <1> SUFFICES ASSUME TypeOK, SomeEvent, [Next]_vars PROVE TypeOK'
    OBVIOUS
  <1>1. ASSUME NEW s \in Sockets, Connection(s) PROVE TypeOK'
    BY <1>1, TypeAccept, TypePage, TypeServer DEF Connection
  <1>2. ASSUME NEW s \in Sockets, Refuse(s) PROVE TypeOK'
    BY <1>2, TypePage
  <1>3. ASSUME NEW s \in Sockets, Receive(s) PROVE TypeOK'
    BY <1>3, TypeReceive
  <1>4. ASSUME NEW s \in Sockets, NEW n \in 0..Len(chan[s]), Break(s, n) PROVE TypeOK'
    BY <1>4, TypeBreak
  <1>5. CASE BroadcastEvent
    BY <1>5, TypeBroadcastEvent
  <1>6. CASE SendStatistics
    BY <1>6, TypeServer
  <1>7. ASSUME NEW t \in Threads, Broadcasting(t) PROVE TypeOK'
    BY <1>7, TypeServer, TypeFinishSend DEF Broadcasting
  <1>8. CASE RenderEvents
    BY <1>8, TypeRenderEvents
  <1>9. CASE UNCHANGED vars
    BY <1>9, TypeParts, TypesUnchanged DEF vars, page, table, server
  <1> QED
    BY <1>1, <1>2, <1>3, <1>4, <1>5, <1>6, <1>7, <1>8, <1>9 DEF Next

\* The types of all reachable states, with what typing a broadcast needs.
LEMMA TypesHold == Spec => [](TypeOK /\ SomeEvent)
  <1>1. Init => TypeOK /\ SomeEvent
    <2>1. Init => SomeEvent
      BY DEF Init, SomeEvent, Idle, Threads
    <2> QED
      BY <2>1, TypeInit
  <1>2. TypeOK /\ SomeEvent /\ [Next]_vars => (TypeOK /\ SomeEvent)'
    BY TypeStep, SomeEventStep
  <1> QED
    BY <1>1, <1>2, PTL DEF Spec

\* Every reachable state is well typed; in particular no event is under way or in the
\* table that was not broadcast.
THEOREM TypeCorrect == Spec => []TypeOK
  BY TypesHold, PTL

-----------------------------------------------------------------------------
(* The connection and its status.                                          *)

\* Both properties are inductive once the states of the WebSockets are typed.
LEMMA ConnectionStep ==
    ASSUME TypeOK, ConnectionIsPursued, ConnectedIsTrue, [Next]_vars
    PROVE  ConnectionIsPursued' /\ ConnectedIsTrue'
  <1> USE DEF ConnectionIsPursued, ConnectedIsTrue, Live
  <1>0. sock \in [Sockets -> SockStates]
    BY DEF TypeOK
  <1>1. ASSUME NEW s \in Sockets, Accept(s)
        PROVE  ConnectionIsPursued' /\ ConnectedIsTrue'
    BY <1>0, <1>1 DEF Accept
  <1>2. ASSUME NEW s \in Sockets, Open(s)
        PROVE  ConnectionIsPursued' /\ ConnectedIsTrue'
    <2>1. sock'[s] = "open"
      BY <1>0, <1>2 DEF Open
    <2> QED
      BY <2>1
  <1>3. ASSUME NEW s \in Sockets, Refuse(s) \/ \E n \in 0..Len(chan[s]) : Break(s, n)
        PROVE  ConnectionIsPursued' /\ ConnectedIsTrue'
    <2>1. /\ sock' = [sock EXCEPT ![s] = "lost"] /\ sock[s] # "free"
          /\ status' = status
      BY <1>3 DEF Refuse, Break
    <2>2. sock'[s] = "lost" /\ \A x \in Sockets : x # s => sock'[x] = sock[x]
      BY <1>0, <2>1
    <2> QED
      BY <2>1, <2>2
  <1>4. ASSUME NEW s \in Sockets, Close(s)
        PROVE  ConnectionIsPursued' /\ ConnectedIsTrue'
    <2>1. timer' = TRUE /\ status' = "Disconnected"
      BY <1>4, Zenon DEF Close
    <2> QED
      BY <2>1, Zenon
  <1>5. ASSUME NEW s \in Sockets, Reconnect(s)
        PROVE  ConnectionIsPursued' /\ ConnectedIsTrue'
    <2>1. /\ sock[s] = "free" /\ sock' = [sock EXCEPT ![s] = "connecting"]
          /\ status' = status
      BY <1>5 DEF Reconnect, Unused
    <2>2. sock'[s] = "connecting" /\ \A x \in Sockets : x # s => sock'[x] = sock[x]
      BY <1>0, <2>1
    <2> QED
      BY <2>1, <2>2
  <1>6. CASE UNCHANGED page
    BY <1>6, Zenon DEF page
  <1>7. ASSUME NEW s \in Sockets, RemoveSession(s) \/ Receive(s)
        PROVE  UNCHANGED page
    BY <1>7, Zenon DEF RemoveSession, Receive
  <1>8. ASSUME NEW t \in Threads, Broadcasting(t)
        PROVE  UNCHANGED page
    BY <1>8, Zenon DEF Broadcasting, StartSend, Collide, FinishSend
  <1>9. BroadcastEvent \/ SendStatistics \/ RenderEvents \/ UNCHANGED vars => UNCHANGED page
    BY Zenon DEF BroadcastEvent, SendStatistics, RenderEvents, vars, page
  <1> QED
    BY <1>1, <1>2, <1>3, <1>4, <1>5, <1>6, <1>7, <1>8, <1>9 DEF Next, Connection

LEMMA ConnectionInit == Init => ConnectionIsPursued /\ ConnectedIsTrue
  <1> SUFFICES ASSUME Init PROVE ConnectionIsPursued /\ ConnectedIsTrue
    OBVIOUS
  <1>1. PICK s \in Sockets : sock = [x \in Sockets |-> IF x = s THEN "connecting" ELSE "free"]
    BY Zenon DEF Init
  <1>2. sock[s] = "connecting" /\ status = "Disconnected"
    BY <1>1 DEF Init
  <1> QED
    BY <1>2 DEF ConnectionIsPursued, ConnectedIsTrue, Live

\* However many WebSockets the page has had, and in whatever order they open and close,
\* it has one or the timer that makes one.
THEOREM ConnectionIsPursuedTheorem == Spec => []ConnectionIsPursued
  <1>1. TypeOK /\ ConnectionIsPursued /\ ConnectedIsTrue /\ [Next]_vars
          => ConnectionIsPursued' /\ ConnectedIsTrue'
    BY ConnectionStep
  <1> QED
    BY <1>1, ConnectionInit, TypesHold, PTL DEF Spec

\* A page that says Connected has a WebSocket that was opened and not closed.
THEOREM ConnectedIsTrueTheorem == Spec => []ConnectedIsTrue
  <1>1. TypeOK /\ ConnectionIsPursued /\ ConnectedIsTrue /\ [Next]_vars
          => ConnectionIsPursued' /\ ConnectedIsTrue'
    BY ConnectionStep
  <1> QED
    BY <1>1, ConnectionInit, TypesHold, PTL DEF Spec

-----------------------------------------------------------------------------
(* The table implements EventTable.                                        *)

\* The table never outgrows its room.
RowsFit == Len(rows) <= MaxRows

\* Putting an element on top and dropping the last one, in either order.
LEMMA PushAndDrop ==
    ASSUME NEW S, NEW q \in Seq(S), q # <<>>, NEW e \in S
    PROVE  /\ <<e>> \o q \in Seq(S) /\ Len(<<e>> \o q) = Len(q) + 1
           /\ SubSeq(<<e>> \o q, 1, Len(<<e>> \o q) - 1) = <<e>> \o SubSeq(q, 1, Len(q) - 1)
  <1> DEFINE n == Len(q)
             up == <<e>> \o q
             cut == SubSeq(q, 1, n - 1)
             left == SubSeq(up, 1, n)
             right == <<e>> \o cut
  <1>1. n \in Nat /\ n >= 1
    BY EmptySeq
  <1>2. <<e>> \in Seq(S) /\ Len(<<e>>) = 1 /\ <<e>>[1] = e
    OBVIOUS
  <1>3. /\ up \in Seq(S) /\ Len(up) = n + 1
        /\ \A i \in 1..n + 1 : up[i] = IF i = 1 THEN e ELSE q[i - 1]
    BY <1>1, <1>2, ConcatProperties
  <1>4. cut \in Seq(S) /\ Len(cut) = n - 1 /\ \A i \in 1..n - 1 : cut[i] = q[i]
    <2>1. n - 1 \in 0..Len(q)
      BY <1>1
    <2> QED
      BY <2>1, Prefix
  <1> HIDE DEF cut, up
  <1>5. /\ right \in Seq(S) /\ Len(right) = n
        /\ \A i \in 1..n : right[i] = IF i = 1 THEN e ELSE cut[i - 1]
    BY <1>1, <1>2, <1>4, ConcatProperties
  <1>6. left \in Seq(S) /\ Len(left) = n /\ \A i \in 1..n : left[i] = up[i]
    <2>1. n \in 0..Len(up)
      BY <1>1, <1>3
    <2> QED
      BY <1>3, <2>1, Prefix
  <1> HIDE DEF left, right
  <1>7. ASSUME NEW i \in 1..n PROVE left[i] = right[i]
    <2>1. left[i] = IF i = 1 THEN e ELSE q[i - 1]
      BY <1>1, <1>3, <1>6
    <2>2. i # 1 => cut[i - 1] = q[i - 1]
      BY <1>1, <1>4
    <2> QED
      BY <1>5, <2>1, <2>2
  <1>8. left = right
    BY <1>5, <1>6, <1>7, SeqEqual
  <1>9. Len(up) - 1 = n
    BY <1>1, <1>3
  <1> QED
    BY <1>3, <1>8, <1>9 DEF left, right, up, cut

\* An event that is handled goes on top of what is shown.
LEMMA ReceiveShows ==
    ASSUME TypeOK, RowsFit, NEW s \in Sockets, Receive(s)
    PROVE  RowsFit' /\ ShownEvents!Next
  <1> DEFINE e == Head(chan[s])
             old == IF OnlyPlaceholder THEN <<>> ELSE rows
             new == <<e>> \o old
  <1>1. published \in Nat /\ published <= MaxEvents /\ e \in 1..published /\ chan[s] # <<>>
    BY HeadType DEF Receive
  <1>2. rows \in Seq(0..published) /\ e \in 0..published /\ MaxRows \in Nat /\ MaxRows > 1
    BY <1>1, FeedAssumption DEF TypeOK
  <1> HIDE DEF e
  <1>3. /\ WithEvent(e) \in Seq(0..published) /\ WithEvent(e) # <<>> /\ WithEvent(e)[1] = e
    BY <1>1, <1>2, WithEventType
  <1>4. rows' = WithEvent(e) /\ eventCount' = eventCount + 1
    BY DEF Receive, e
  <1>5. ~OnlyPlaceholder'
    <2>1. e # 0
      BY <1>1
    <2> QED
      BY <1>3, <1>4, <2>1 DEF OnlyPlaceholder, Placeholder
  <1>6. old \in Seq(0..published) /\ Len(old) <= MaxRows /\ Len(old) \in Nat
    <2>1. CASE OnlyPlaceholder
      BY <1>2, <2>1
    <2>2. CASE ~OnlyPlaceholder
      BY <1>2, <2>2 DEF RowsFit
    <2> QED
      BY <2>1, <2>2
  <1> HIDE DEF old
  <1>7. /\ rows' = <<e>> \o (IF Len(old) < MaxRows THEN old ELSE SubSeq(old, 1, MaxRows - 1))
        /\ Len(rows') <= MaxRows
    <2>1. new \in Seq(0..published) /\ Len(new) = Len(old) + 1
      <3>1. <<e>> \in Seq(0..published) /\ Len(<<e>>) = 1
        BY <1>2
      <3> QED
        BY <1>6, <3>1, ConcatProperties
    <2>2. rows' = IF Len(new) > MaxRows THEN SubSeq(new, 1, Len(new) - 1) ELSE new
      BY <1>4 DEF WithEvent, old
    <2> HIDE DEF new
    <2>3. CASE Len(old) < MaxRows
      <3>1. rows' = new
        BY <1>2, <1>6, <2>1, <2>2, <2>3
      <3> QED
        BY <1>2, <1>6, <2>1, <2>3, <3>1 DEF new
    <2>4. CASE ~(Len(old) < MaxRows)
      <3>1. Len(old) = MaxRows /\ old # <<>>
        BY <1>2, <1>6, <2>4
      <3>2. rows' = SubSeq(new, 1, Len(new) - 1)
        BY <1>2, <2>1, <2>2, <3>1
      <3>3. rows' = <<e>> \o SubSeq(old, 1, MaxRows - 1)
        BY <1>2, <1>6, <3>1, <3>2, PushAndDrop DEF new
      <3>4. Len(new) - 1 \in 0..Len(new) /\ Len(new) - 1 = MaxRows
        BY <1>2, <2>1, <3>1
      <3>5. Len(rows') = MaxRows
        BY <2>1, <3>2, <3>4, Prefix
      <3> QED
        BY <1>2, <2>4, <3>3, <3>5
    <2> QED
      BY <2>3, <2>4
  <1>8. ShownEvents!Show(e)
    BY <1>4, <1>5, <1>7 DEF ShownEvents!Show, old
  <1>9. e \in 1..MaxEvents
    BY <1>1, FeedAssumption
  <1> QED
    BY <1>7, <1>8, <1>9 DEF ShownEvents!Next, RowsFit

LEMMA ShowsStep ==
    ASSUME TypeOK, RowsFit, [Next]_vars
    PROVE  RowsFit' /\ [ShownEvents!Next]_(ShownEvents!vars)
  <1>1. ASSUME NEW s \in Sockets, Receive(s)
        PROVE  RowsFit' /\ ShownEvents!Next
    BY <1>1, ReceiveShows
  <1>2. CASE RenderEvents
    <2>1. eventCount' = eventCount /\ rows' = <<0>> /\ (rows = <<>> \/ rows = <<0>>)
      BY <1>2, Zenon DEF RenderEvents, OnlyPlaceholder, Placeholder
    <2>2. Len(rows') <= MaxRows
      BY <2>1, FeedAssumption
    <2>3. (IF OnlyPlaceholder THEN <<>> ELSE rows) = <<>>
      BY <2>1, Zenon DEF OnlyPlaceholder, Placeholder
    <2>4. (IF OnlyPlaceholder' THEN <<>> ELSE rows') = <<>>
      BY <2>1, Zenon DEF OnlyPlaceholder, Placeholder
    <2> QED
      BY <2>1, <2>2, <2>3, <2>4 DEF RowsFit, ShownEvents!vars
  <1>3. CASE UNCHANGED table
    <2>1. rows' = rows /\ eventCount' = eventCount
      BY <1>3 DEF table
    <2>2. OnlyPlaceholder' = OnlyPlaceholder
      BY <2>1, Zenon DEF OnlyPlaceholder
    <2> QED
      BY <2>1, <2>2, Zenon DEF RowsFit, ShownEvents!vars
  <1>4. ASSUME NEW s \in Sockets,
               \/ Connection(s) \/ Refuse(s) \/ \E n \in 0..Len(chan[s]) : Break(s, n)
        PROVE  UNCHANGED table
    BY <1>4, Zenon DEF Connection, Accept, Open, Close, Reconnect, RemoveSession, Refuse, Break
  <1>5. ASSUME NEW t \in Threads, Broadcasting(t)
        PROVE  UNCHANGED table
    BY <1>5, Zenon DEF Broadcasting, StartSend, Collide, FinishSend
  <1>6. BroadcastEvent \/ SendStatistics \/ UNCHANGED vars => UNCHANGED table
    BY Zenon DEF BroadcastEvent, SendStatistics, vars, table
  <1> QED
    BY <1>1, <1>2, <1>3, <1>4, <1>5, <1>6 DEF Next

\* Whatever the connections, the threads and the comparison do, the table changes by new
\* events only, the latest on top: it implements EventTable.
THEOREM Refinement == Spec => ShowsLatest
  <1>1. Init => RowsFit /\ ShownEvents!Init
    <2> SUFFICES ASSUME Init PROVE RowsFit /\ ShownEvents!Init
      OBVIOUS
    <2>1. rows = <<0>> /\ eventCount = 0
      BY Zenon DEF Init, Placeholder
    <2>2. Len(rows) <= MaxRows
      BY <2>1, FeedAssumption
    <2> QED
      BY <2>1, <2>2, Zenon DEF RowsFit, ShownEvents!Init, OnlyPlaceholder, Placeholder
  <1>2. TypeOK /\ RowsFit /\ [Next]_vars => RowsFit' /\ [ShownEvents!Next]_(ShownEvents!vars)
    BY ShowsStep
  <1> QED
    BY <1>1, <1>2, TypesHold, PTL DEF Spec, ShowsLatest, ShownEvents!Spec

-----------------------------------------------------------------------------
(* Order and completeness.                                                 *)

\* The WebSockets the event being broadcast is still to reach.
Awaiting == bc["events"].todo \cup {bc["events"].sending}

\* Who is in sessions, and that nothing is under way to a WebSocket before it joins.
JoinInv ==
    \A s \in Sockets :
        /\ sock[s] \in {"accepted", "open"} => s \in sessions
        /\ sock[s] \in {"free", "connecting"} => chan[s] = <<>>
        /\ sock[s] = "connecting" => s \notin sessions /\ s \notin Awaiting
        /\ s \in bc["events"].todo => s # bc["events"].sending

Joined(s) == sock[s] \in {"accepted", "open", "lost"}

\* Events under way are in order, later than what has been handled and earlier than the
\* one that is still to come.
Ordered(s) ==
    /\ \A i \in 1..Len(chan[s]) : seen[s] < chan[s][i]
    /\ \A i, j \in 1..Len(chan[s]) : i < j => chan[s][i] < chan[s][j]
    /\ s \in Awaiting => /\ seen[s] < published
                         /\ \A i \in 1..Len(chan[s]) : chan[s][i] < published

OrderInv == \A s \in Sockets : Joined(s) => Ordered(s)

\* Without a collision none is missing.
Complete(s) ==
    /\ Len(chan[s]) = published - seen[s] - (IF s \in Awaiting THEN 1 ELSE 0)
    /\ \A i \in 1..Len(chan[s]) : chan[s][i] = seen[s] + i

CompleteInv ==
    ~collided => \A s \in Sockets : sock[s] \in {"accepted", "open"} => Complete(s)

\* Those of which more may be heard.
Brings(s) == sock[s] \in {"accepted", "open"} \/ (sock[s] = "lost" /\ chan[s] # <<>>)

\* While there is one WebSocket at a time, the table is behind what it has brought.
TableInv ==
    ~doubled =>
        /\ \A x, y \in Sockets : Live(x) /\ Live(y) => x = y
        /\ \A s \in Sockets : Brings(s) => \A i \in DOMAIN rows : rows[i] <= seen[s]
        /\ \A i, j \in DOMAIN rows : i < j => rows[i] > rows[j]

FeedInv == TypeOK /\ SomeEvent /\ JoinInv /\ OrderInv /\ CompleteInv /\ TableInv

\* Steps that leave the broadcast of the event alone.
LEMMA SameAwaiting ==
    ASSUME bc'["events"] = bc["events"]
    PROVE  Awaiting' = Awaiting
  BY DEF Awaiting

\* What the steps of the two threads do to the broadcast of the event.
LEMMA AwaitingSteps ==
    ASSUME TypeOK, NEW t \in Threads
    PROVE  /\ SendStatistics => bc'["events"] = bc["events"]
           /\ t # "events" /\ Broadcasting(t) => bc'["events"] = bc["events"]
           /\ \A s \in Sockets : StartSend("events", s) =>
                 /\ s \in bc["events"].todo /\ bc["events"].sending = NoSocket
                 /\ bc'["events"].todo = bc["events"].todo \ {s}
                 /\ bc'["events"].sending = s
           /\ \A s \in Sockets : Collide("events", s) =>
                 bc'["events"].todo = {} /\ bc'["events"].sending = bc["events"].sending
           /\ FinishSend("events") =>
                 /\ bc["events"].sending \in Sockets
                 /\ bc'["events"].todo = bc["events"].todo
                 /\ bc'["events"].sending = NoSocket
           /\ BroadcastEvent =>
                 /\ bc["events"].todo = {} /\ bc["events"].sending = NoSocket
                 /\ bc'["events"].todo = sessions /\ bc'["events"].sending = NoSocket
  <1> USE DEF Threads
  <1>0. bc \in [Threads -> [todo : SUBSET Sockets, sending : Sockets \cup {NoSocket}]]
    BY DEF TypeOK
  <1>1. SendStatistics => bc'["events"] = bc["events"]
    BY <1>0 DEF SendStatistics, Begin
  <1>2. ASSUME t # "events", Broadcasting(t) PROVE bc'["events"] = bc["events"]
    BY <1>0, <1>2 DEF Broadcasting, StartSend, Collide, FinishSend
  <1>3. ASSUME NEW s \in Sockets, StartSend("events", s)
        PROVE  /\ s \in bc["events"].todo /\ bc["events"].sending = NoSocket
               /\ bc'["events"].todo = bc["events"].todo \ {s}
               /\ bc'["events"].sending = s
    BY <1>0, <1>3 DEF StartSend
  <1>4. ASSUME NEW s \in Sockets, Collide("events", s)
        PROVE  bc'["events"].todo = {} /\ bc'["events"].sending = bc["events"].sending
    BY <1>0, <1>4 DEF Collide
  <1>5. ASSUME FinishSend("events")
        PROVE  /\ bc["events"].sending \in Sockets
               /\ bc'["events"].todo = bc["events"].todo
               /\ bc'["events"].sending = NoSocket
    BY <1>0, <1>5 DEF FinishSend
  <1>6. ASSUME BroadcastEvent
        PROVE  /\ bc["events"].todo = {} /\ bc["events"].sending = NoSocket
               /\ bc'["events"].todo = sessions /\ bc'["events"].sending = NoSocket
    BY <1>0, <1>6 DEF BroadcastEvent, Begin, Idle
  <1> QED
    BY <1>1, <1>2, <1>3, <1>4, <1>5, <1>6

LEMMA JoinStep ==
    ASSUME TypeOK, JoinInv, [Next]_vars
    PROVE  JoinInv'
  <1>0. sock \in [Sockets -> SockStates] /\ DOMAIN chan = Sockets /\ NoSocket \notin Sockets
    BY FeedAssumption DEF TypeOK
  <1>1. ASSUME NEW s \in Sockets, Accept(s) PROVE JoinInv'
    <2>1. Awaiting' = Awaiting /\ bc' = bc /\ chan' = chan
      BY <1>1 DEF Accept, Awaiting
    <2> QED
      BY <1>0, <1>1, <2>1 DEF Accept, JoinInv
  <1>2. ASSUME NEW s \in Sockets, Open(s) \/ Refuse(s) \/ Close(s) \/ Reconnect(s) PROVE JoinInv'
    <2>1. Awaiting' = Awaiting /\ bc' = bc /\ chan' = chan /\ sessions' = sessions
      BY <1>2 DEF Open, Refuse, Close, Reconnect, Awaiting, server
    <2>2. CASE Open(s)
      BY <1>0, <2>1, <2>2 DEF Open, JoinInv
    <2>3. CASE Refuse(s)
      BY <1>0, <2>1, <2>3 DEF Refuse, JoinInv
    <2>4. CASE Close(s)
      BY <1>0, <2>1, <2>4 DEF Close, JoinInv
    <2>5. CASE Reconnect(s)
      <3>1. s \notin sessions /\ s \notin Awaiting /\ sock[s] = "free"
        BY <2>5 DEF Reconnect, Unused, Awaiting, Threads, Live
      <3> QED
        BY <1>0, <2>1, <2>5, <3>1 DEF Reconnect, JoinInv
    <2> QED
      BY <1>2, <2>2, <2>3, <2>4, <2>5
  <1>3. ASSUME NEW s \in Sockets, NEW n \in 0..Len(chan[s]), Break(s, n) PROVE JoinInv'
    <2>1. Awaiting' = Awaiting /\ bc' = bc /\ sessions' = sessions
      BY <1>3 DEF Break, Awaiting, server
    <2>2. /\ sock'[s] = "lost"
          /\ \A x \in Sockets : x # s => sock'[x] = sock[x] /\ chan'[x] = chan[x]
      BY <1>0, <1>3 DEF Break
    <2> QED
      BY <2>1, <2>2 DEF JoinInv
  <1>4. ASSUME NEW s \in Sockets, RemoveSession(s) PROVE JoinInv'
    <2>1. Awaiting' = Awaiting /\ bc' = bc /\ chan' = chan /\ sock' = sock
      BY <1>4 DEF RemoveSession, Awaiting, page
    <2> QED
      BY <1>4, <2>1 DEF RemoveSession, JoinInv
  <1>5. ASSUME NEW s \in Sockets, Receive(s) PROVE JoinInv'
    <2>1. Awaiting' = Awaiting /\ bc' = bc /\ sessions' = sessions /\ sock' = sock
      BY <1>5 DEF Receive, Awaiting, page, server
    <2>2. sock[s] \notin {"free", "connecting"} /\ \A x \in Sockets : x # s => chan'[x] = chan[x]
      BY <1>0, <1>5 DEF Receive
    <2> QED
      BY <2>1, <2>2 DEF JoinInv
  <1>6. CASE BroadcastEvent
    <2>1. /\ bc'["events"].todo = sessions /\ bc'["events"].sending = NoSocket
          /\ sock' = sock /\ chan' = chan /\ sessions' = sessions
      BY <1>6, AwaitingSteps DEF BroadcastEvent, page, Threads
    <2>2. Awaiting' = sessions \cup {NoSocket}
      BY <2>1 DEF Awaiting
    <2> QED
      BY <1>0, <2>1, <2>2 DEF JoinInv
  <1>7. ASSUME sock' = sock, chan' = chan, sessions' = sessions,
               bc'["events"] = bc["events"]
        PROVE  JoinInv'
    BY <1>7, SameAwaiting DEF JoinInv
  <1>8. CASE SendStatistics
    <2>1. sock' = sock /\ chan' = chan /\ sessions' = sessions
      BY <1>8 DEF SendStatistics, page
    <2> QED
      BY <1>7, <1>8, <2>1, AwaitingSteps DEF Threads
  <1>9. CASE RenderEvents \/ UNCHANGED vars
    BY <1>7, <1>9 DEF RenderEvents, vars, page, server
  <1>10. ASSUME NEW t \in Threads, NEW s \in Sockets, StartSend(t, s) \/ Collide(t, s)
         PROVE  JoinInv'
    <2>1. sock' = sock /\ chan' = chan /\ sessions' = sessions
      BY <1>10 DEF StartSend, Collide, page
    <2>2. CASE t # "events"
      <3>1. Broadcasting(t)
        BY <1>10 DEF Broadcasting
      <3> QED
        BY <1>7, <2>1, <2>2, <3>1, AwaitingSteps
    <2>3. CASE t = "events" /\ StartSend(t, s)
      <3>1. /\ s \in bc["events"].todo /\ bc["events"].sending = NoSocket
            /\ bc'["events"].todo = bc["events"].todo \ {s} /\ bc'["events"].sending = s
        BY <2>3, AwaitingSteps DEF Threads
      <3>2. Awaiting' \subseteq Awaiting
        BY <3>1 DEF Awaiting
      <3> QED
        BY <2>1, <3>1, <3>2 DEF JoinInv
    <2>4. CASE t = "events" /\ Collide(t, s)
      <3>1. bc'["events"].todo = {} /\ bc'["events"].sending = bc["events"].sending
        BY <2>4, AwaitingSteps DEF Threads
      <3>2. Awaiting' \subseteq Awaiting
        BY <3>1 DEF Awaiting
      <3> QED
        BY <2>1, <3>1, <3>2 DEF JoinInv
    <2> QED
      BY <1>10, <2>2, <2>3, <2>4
  <1>11. ASSUME NEW t \in Threads, FinishSend(t) PROVE JoinInv'
    <2>1. sock' = sock /\ sessions' = sessions
      BY <1>11 DEF FinishSend, page
    <2>2. CASE t # "events"
      <3>1. Broadcasting(t) /\ chan' = chan
        BY <1>11, <2>2 DEF Broadcasting, FinishSend
      <3> QED
        BY <1>7, <2>1, <2>2, <3>1, AwaitingSteps
    <2>3. CASE t = "events"
      <3>1. /\ bc'["events"].todo = bc["events"].todo /\ bc'["events"].sending = NoSocket
        BY <1>11, <2>3, AwaitingSteps DEF Threads
      <3>2. ASSUME NEW x \in Sockets, x \in Awaiting' PROVE x \in Awaiting
        BY <1>0, <3>1, <3>2 DEF Awaiting
      <3>3. ASSUME NEW x \in Sockets, sock[x] \in {"free", "connecting"} PROVE chan'[x] = chan[x]
        BY <1>0, <1>11, <2>3, <3>3 DEF FinishSend
      <3>4. \A x \in Sockets : x # NoSocket
        BY <1>0
      <3> QED
        BY <2>1, <3>1, <3>2, <3>3, <3>4 DEF JoinInv
    <2> QED
      BY <2>2, <2>3
  <1> QED
    BY <1>1, <1>2, <1>3, <1>4, <1>5, <1>6, <1>8, <1>9, <1>10, <1>11
    DEF Next, Connection, Broadcasting

(* What a step can be for one WebSocket. *)

Lasting(x) == sock[x] \in {"accepted", "open"}

\* Nothing is added or handled; a broadcast under way passes it by only if it is gone or
\* the threads have collided.
Keeps(x) ==
    /\ Joined(x)' => Joined(x)
    /\ Lasting(x)' => Lasting(x)
    /\ chan'[x] = chan[x] /\ seen'[x] = seen[x] /\ published' = published
    /\ x \in Awaiting' => x \in Awaiting
    /\ Lasting(x) /\ ~collided' => (x \in Awaiting' <=> x \in Awaiting)

\* The handshake ends.
Joins(x) ==
    /\ chan'[x] = <<>> /\ x \notin Awaiting' /\ published' = published
    /\ Lasting(x)' => seen'[x] = published

\* The connection breaks.
Breaks(x) ==
    /\ Lasting(x) /\ ~Lasting(x)'
    /\ \E n \in 0..Len(chan[x]) : chan'[x] = SubSeq(chan[x], 1, n)
    /\ seen'[x] = seen[x] /\ published' = published /\ Awaiting' = Awaiting

\* An event arrives.
Takes(x) ==
    /\ Joined(x) /\ (Lasting(x)' => Lasting(x))
    /\ chan[x] # <<>> /\ chan'[x] = Tail(chan[x]) /\ seen'[x] = Head(chan[x])
    /\ published' = published /\ Awaiting' = Awaiting

\* There is a new event.
Announced(x) ==
    /\ Joined(x)' => Joined(x)
    /\ Lasting(x)' => Lasting(x) /\ x \in Awaiting'
    /\ chan'[x] = chan[x] /\ seen'[x] = seen[x]
    /\ published' = published + 1 /\ x \notin Awaiting

\* The event is sent to it.
Given(x) ==
    /\ Lasting(x)
    /\ chan'[x] = Append(chan[x], published) /\ seen'[x] = seen[x] /\ published' = published
    /\ x \in Awaiting /\ x \notin Awaiting'

StepFor(x) ==
    Keeps(x) \/ Joins(x) \/ Breaks(x) \/ Takes(x) \/ Announced(x) \/ Given(x)

\* The steps of one WebSocket, seen from it and from the others.
LEMMA SocketStep ==
    ASSUME TypeOK, JoinInv, NEW x \in Sockets, NEW s \in Sockets,
           \/ Connection(s) \/ Refuse(s) \/ Receive(s)
           \/ \E n \in 0..Len(chan[s]) : Break(s, n)
    PROVE  StepFor(x)
  <1>0. /\ sock \in [Sockets -> SockStates] /\ DOMAIN chan = Sockets /\ DOMAIN seen = Sockets
    BY DEF TypeOK
  <1>1. bc' = bc /\ Awaiting' = Awaiting
    BY DEF Connection, Accept, Open, Close, Reconnect, RemoveSession, Refuse, Receive, Break,
           server, Awaiting
  <1>2. published' = published
    BY DEF Connection, Accept, Open, Close, Reconnect, RemoveSession, Refuse, Receive, Break,
           server
  <1>3. CASE x # s
    <2>1. sock'[x] = sock[x] /\ chan'[x] = chan[x] /\ seen'[x] = seen[x]
      BY <1>0, <1>3 DEF Connection, Accept, Open, Close, Reconnect, RemoveSession, Refuse,
                        Receive, Break, page
    <2> QED
      BY <1>1, <1>2, <2>1 DEF StepFor, Keeps, Joined, Lasting
  <1>4. ASSUME x = s, Accept(s) \/ Refuse(s) PROVE Joins(s)
    <2>1. sock[s] = "connecting" /\ chan'[s] = chan[s]
      BY <1>4 DEF Accept, Refuse
    <2>2. chan[s] = <<>> /\ s \notin Awaiting
      BY <2>1 DEF JoinInv
    <2>3. Lasting(s)' => seen'[s] = published
      BY <1>0, <1>4 DEF Accept, Refuse, Lasting
    <2> QED
      BY <1>1, <1>2, <2>1, <2>2, <2>3 DEF Joins
  <1>5. ASSUME x = s, Open(s) \/ Close(s) \/ Reconnect(s) \/ RemoveSession(s) PROVE Keeps(s)
    <2>1. chan'[s] = chan[s] /\ seen'[s] = seen[s]
      BY <1>5 DEF Open, Close, Reconnect, RemoveSession
    <2>2. (Joined(s)' => Joined(s)) /\ (Lasting(s)' => Lasting(s))
      BY <1>0, <1>5 DEF Open, Close, Reconnect, RemoveSession, Joined, Lasting, page
    <2> QED
      BY <1>1, <1>2, <2>1, <2>2 DEF Keeps
  <1>6. ASSUME x = s, Receive(s) PROVE Takes(s)
    BY <1>0, <1>1, <1>2, <1>6 DEF Receive, Takes, Joined, Lasting, page
  <1>7. ASSUME x = s, NEW n \in 0..Len(chan[s]), Break(s, n) PROVE Breaks(s)
    BY <1>0, <1>1, <1>2, <1>7 DEF Break, Breaks, Joined, Lasting
  <1> QED
    BY <1>3, <1>4, <1>5, <1>6, <1>7 DEF StepFor, Connection

\* The steps of the two threads, seen from a WebSocket.
LEMMA ThreadStep ==
    ASSUME TypeOK, JoinInv, NEW x \in Sockets, NEW t \in Threads, Broadcasting(t)
    PROVE  StepFor(x)
  <1>0. DOMAIN chan = Sockets /\ x # NoSocket
    BY FeedAssumption DEF TypeOK
  <1>1. sock' = sock /\ seen' = seen /\ published' = published
    BY DEF Broadcasting, StartSend, Collide, FinishSend, page
  <1>2. Joined(x)' = Joined(x) /\ Lasting(x)' = Lasting(x)
    BY <1>1 DEF Joined, Lasting
  <1>3. CASE t # "events"
    <2>1. Awaiting' = Awaiting
      BY <1>3, AwaitingSteps, SameAwaiting
    <2>2. chan' = chan
      BY <1>3, Zenon DEF Broadcasting, StartSend, Collide, FinishSend
    <2> QED
      BY <1>1, <1>2, <2>1, <2>2 DEF StepFor, Keeps
  <1>4. ASSUME t = "events", NEW s \in Sockets, StartSend("events", s) PROVE Keeps(x)
    <2>1. /\ s \in bc["events"].todo /\ bc["events"].sending = NoSocket
          /\ bc'["events"].todo = bc["events"].todo \ {s} /\ bc'["events"].sending = s
      BY <1>4, AwaitingSteps DEF Threads
    <2>2. x \in Awaiting' <=> x \in Awaiting
      BY <1>0, <2>1 DEF Awaiting
    <2>3. chan' = chan
      BY <1>4 DEF StartSend
    <2> QED
      BY <1>1, <1>2, <2>2, <2>3 DEF Keeps
  <1>5. ASSUME t = "events", NEW s \in Sockets, Collide("events", s) PROVE Keeps(x)
    <2>1. bc'["events"].todo = {} /\ bc'["events"].sending = bc["events"].sending
      BY <1>5, AwaitingSteps DEF Threads
    <2>2. x \in Awaiting' => x \in Awaiting
      BY <2>1 DEF Awaiting
    <2>3. chan' = chan /\ collided' = TRUE
      BY <1>5, Zenon DEF Collide
    <2> QED
      BY <1>1, <1>2, <2>2, <2>3 DEF Keeps
  <1>6. ASSUME t = "events", FinishSend("events") PROVE StepFor(x)
    <2>1. /\ bc["events"].sending \in Sockets
          /\ bc'["events"].todo = bc["events"].todo /\ bc'["events"].sending = NoSocket
      BY <1>6, AwaitingSteps DEF Threads
    <2>2. CASE x # bc["events"].sending
      <3>1. chan'[x] = chan[x]
        BY <1>0, <1>6, <2>1, <2>2 DEF FinishSend
      <3>2. x \in Awaiting' <=> x \in Awaiting
        BY <1>0, <2>1, <2>2 DEF Awaiting
      <3> QED
        BY <1>1, <1>2, <3>1, <3>2 DEF StepFor, Keeps
    <2>3. CASE x = bc["events"].sending
      <3>1. x \in Awaiting /\ x \notin Awaiting'
        BY <1>0, <2>1, <2>3 DEF Awaiting, JoinInv
      <3>2. CASE Lasting(x)
        <4>1. chan'[x] = Append(chan[x], published)
          BY <1>0, <1>6, <2>3, <3>2 DEF FinishSend, Lasting
        <4> QED
          BY <1>1, <3>1, <3>2, <4>1 DEF StepFor, Given
      <3>3. CASE ~Lasting(x)
        <4>1. chan' = chan
          BY <1>6, <2>3, <3>3 DEF FinishSend, Lasting
        <4> QED
          BY <1>1, <1>2, <3>1, <3>3, <4>1 DEF StepFor, Keeps
      <3> QED
        BY <3>2, <3>3
    <2> QED
      BY <2>2, <2>3
  <1> QED
    BY <1>3, <1>4, <1>5, <1>6 DEF Broadcasting, StepFor

\* Every step is one of these for every WebSocket.
LEMMA EveryStep ==
    ASSUME TypeOK, JoinInv, [Next]_vars, NEW x \in Sockets
    PROVE  StepFor(x)
  <1>1. ASSUME sock' = sock, chan' = chan, seen' = seen, published' = published,
               Awaiting' = Awaiting
        PROVE  StepFor(x)
    BY <1>1 DEF StepFor, Keeps, Joined, Lasting
  <1>2. CASE RenderEvents \/ UNCHANGED vars
    <2>1. bc' = bc /\ sock' = sock /\ chan' = chan /\ seen' = seen /\ published' = published
      BY <1>2 DEF RenderEvents, vars, page, server
    <2> QED
      BY <1>1, <2>1, SameAwaiting
  <1>3. CASE SendStatistics
    <2>1. sock' = sock /\ chan' = chan /\ seen' = seen /\ published' = published
      BY <1>3 DEF SendStatistics, page
    <2>2. Awaiting' = Awaiting
      BY <1>3, AwaitingSteps, SameAwaiting DEF Threads
    <2> QED
      BY <1>1, <2>1, <2>2
  <1>4. CASE BroadcastEvent
    <2>1. /\ sock' = sock /\ chan' = chan /\ seen' = seen /\ published' = published + 1
      BY <1>4 DEF BroadcastEvent, page
    <2>2. /\ bc["events"].todo = {} /\ bc["events"].sending = NoSocket
          /\ bc'["events"].todo = sessions /\ x # NoSocket
      BY <1>4, AwaitingSteps, FeedAssumption DEF Threads
    <2>3. x \notin Awaiting /\ (x \in sessions => x \in Awaiting')
      BY <2>2 DEF Awaiting
    <2>4. Lasting(x) => x \in sessions
      BY DEF JoinInv, Lasting
    <2> QED
      BY <2>1, <2>3, <2>4 DEF StepFor, Announced, Joined, Lasting
  <1> QED
    BY <1>2, <1>3, <1>4, SocketStep, ThreadStep DEF Next

\* The types of what is under way to one WebSocket.
LEMMA ChannelOf ==
    ASSUME TypeOK, NEW x \in Sockets
    PROVE  /\ chan[x] \in Seq(1..published) /\ Len(chan[x]) \in Nat
           /\ published \in Nat /\ seen[x] \in 0..published
           /\ \A i \in 1..Len(chan[x]) : chan[x][i] \in 1..published
  <1>1. chan[x] \in Seq(1..published) /\ seen[x] \in 0..published /\ published \in Nat
    BY FeedAssumption DEF TypeOK
  <1> QED
    BY <1>1

\* What is under way stays in order and later than what has been handled.
LEMMA OrderStep ==
    ASSUME TypeOK, JoinInv, OrderInv, [Next]_vars
    PROVE  OrderInv'
  <1> SUFFICES ASSUME NEW x \in Sockets, Joined(x)' PROVE Ordered(x)'
    BY DEF OrderInv
  <1> DEFINE q == chan[x]
  <1>0. /\ q \in Seq(1..published) /\ Len(q) \in Nat /\ published \in Nat
        /\ seen[x] \in 0..published /\ \A i \in 1..Len(q) : q[i] \in 1..published
    BY ChannelOf
  <1>1. CASE Keeps(x)
    BY <1>1 DEF Keeps, OrderInv, Ordered
  <1>2. CASE Joins(x)
    <2>1. chan'[x] = <<>> /\ x \notin Awaiting'
      BY <1>2 DEF Joins
    <2> QED
      BY <2>1 DEF Ordered
  <1>3. CASE Breaks(x)
    <2>1. Ordered(x)
      BY <1>3 DEF Breaks, OrderInv, Joined, Lasting
    <2>2. PICK n \in 0..Len(q) : chan'[x] = SubSeq(q, 1, n)
      BY <1>3 DEF Breaks
    <2>3. Len(chan'[x]) = n /\ \A i \in 1..n : chan'[x][i] = q[i]
      BY <1>0, <2>2, Prefix
    <2>4. n \in Nat /\ n <= Len(q) /\ \A i \in 1..n : i \in 1..Len(q)
      BY <1>0, <2>2
    <2>5. seen'[x] = seen[x] /\ published' = published /\ Awaiting' = Awaiting
      BY <1>3 DEF Breaks
    <2> HIDE DEF q
    <2> QED
      BY <2>1, <2>3, <2>4, <2>5 DEF Ordered, q
  <1>4. CASE Takes(x)
    <2>1. Ordered(x) /\ q # <<>>
      BY <1>4 DEF Takes, OrderInv
    <2>2. /\ Len(chan'[x]) = Len(q) - 1 /\ seen'[x] = q[1] /\ Len(q) >= 1
          /\ \A i \in 1..Len(q) - 1 : chan'[x][i] = q[i + 1]
      BY <1>0, <1>4, <2>1, FirstAndRest DEF Takes
    <2>3. published' = published /\ Awaiting' = Awaiting
      BY <1>4 DEF Takes
    <2>4. \A i \in 1..Len(q) - 1 : i + 1 \in 1..Len(q) /\ 1 < i + 1
      BY <1>0
    <2>5. 1 \in 1..Len(q)
      BY <1>0, <2>2
    <2>6. \A i, j \in 1..Len(q) : i < j => q[i] < q[j]
      BY <2>1 DEF Ordered
    <2>7. x \in Awaiting => \A i \in 1..Len(q) : q[i] < published
      BY <2>1 DEF Ordered
    <2> HIDE DEF q
    <2>8. \A i \in 1..Len(chan'[x]) : seen'[x] < chan'[x][i]
      BY <2>2, <2>4, <2>5, <2>6
    <2>9. \A i, j \in 1..Len(chan'[x]) : i < j => chan'[x][i] < chan'[x][j]
      <3> SUFFICES ASSUME NEW i \in 1..Len(q) - 1, NEW j \in 1..Len(q) - 1, i < j
                   PROVE  chan'[x][i] < chan'[x][j]
        BY <2>2
      <3>1. i + 1 < j + 1 /\ i + 1 \in 1..Len(q) /\ j + 1 \in 1..Len(q)
        BY <1>0, <2>4
      <3> QED
        BY <2>2, <2>6, <3>1
    <2>10. x \in Awaiting' => /\ seen'[x] < published'
                              /\ \A i \in 1..Len(chan'[x]) : chan'[x][i] < published'
      BY <2>2, <2>3, <2>4, <2>5, <2>7
    <2> QED
      BY <2>8, <2>9, <2>10 DEF Ordered
  <1>5. CASE Announced(x)
    <2>1. Ordered(x)
      BY <1>5 DEF Announced, OrderInv
    <2>2. chan'[x] = q /\ seen'[x] = seen[x] /\ published' = published + 1
      BY <1>5 DEF Announced
    <2> HIDE DEF q
    <2>3. seen[x] < published + 1 /\ \A i \in 1..Len(q) : q[i] < published + 1
      BY <1>0
    <2> QED
      BY <2>1, <2>2, <2>3 DEF Ordered, q
  <1>6. CASE Given(x)
    <2>1. Ordered(x)
      BY <1>6 DEF Given, OrderInv, Joined, Lasting
    <2>2. /\ chan'[x] = Append(q, published) /\ seen'[x] = seen[x] /\ published' = published
          /\ x \in Awaiting /\ x \notin Awaiting'
      BY <1>6 DEF Given
    <2>3. /\ Len(chan'[x]) = Len(q) + 1 /\ chan'[x][Len(q) + 1] = published
          /\ \A i \in 1..Len(q) : chan'[x][i] = q[i]
      BY <1>0, <2>2
    <2>4. /\ \A i \in 1..Len(q) : seen[x] < q[i]
          /\ \A i, j \in 1..Len(q) : i < j => q[i] < q[j]
          /\ seen[x] < published /\ \A i \in 1..Len(q) : q[i] < published
      BY <2>1, <2>2 DEF Ordered
    <2> HIDE DEF q
    <2>5. \A i \in 1..Len(q) + 1 : i \in 1..Len(q) \/ i = Len(q) + 1
      BY <1>0
    <2>6. \A i \in 1..Len(chan'[x]) : seen'[x] < chan'[x][i]
      BY <2>2, <2>3, <2>4, <2>5
    <2>7. \A i, j \in 1..Len(chan'[x]) : i < j => chan'[x][i] < chan'[x][j]
      <3> SUFFICES ASSUME NEW i \in 1..Len(q) + 1, NEW j \in 1..Len(q) + 1, i < j
                   PROVE  chan'[x][i] < chan'[x][j]
        BY <2>3
      <3>1. i \in 1..Len(q)
        BY <1>0
      <3> QED
        BY <2>3, <2>4, <2>5, <3>1
    <2> QED
      BY <2>2, <2>6, <2>7 DEF Ordered
  <1> QED
    BY <1>1, <1>2, <1>3, <1>4, <1>5, <1>6, EveryStep DEF StepFor

\* A collision is remembered.
LEMMA CollidedStays == [Next]_vars /\ ~collided' => ~collided
  BY Zenon DEF Next, Connection, Accept, Open, Close, Reconnect, RemoveSession, Refuse, Receive,
     Break, BroadcastEvent, SendStatistics, Broadcasting, StartSend, Collide, FinishSend,
     RenderEvents, server, vars

\* Without a collision nothing is skipped.
LEMMA CompleteStep ==
    ASSUME TypeOK, JoinInv, CompleteInv, [Next]_vars
    PROVE  CompleteInv'
  <1> SUFFICES ASSUME ~collided', NEW x \in Sockets, Lasting(x)' PROVE Complete(x)'
    BY DEF CompleteInv, Lasting
  <1> DEFINE q == chan[x]
  <1>0. /\ q \in Seq(1..published) /\ Len(q) \in Nat /\ published \in Nat
        /\ seen[x] \in 0..published /\ \A i \in 1..Len(q) : q[i] \in 1..published
    BY ChannelOf
  <1>a. ~collided
    BY CollidedStays
  <1>b. Lasting(x) => Complete(x)
    BY <1>a DEF CompleteInv, Lasting
  <1>1. CASE Keeps(x)
    <2>1. Complete(x) /\ (x \in Awaiting' <=> x \in Awaiting)
      BY <1>1, <1>b DEF Keeps
    <2>2. chan'[x] = chan[x] /\ seen'[x] = seen[x] /\ published' = published
      BY <1>1 DEF Keeps
    <2> QED
      BY <2>1, <2>2 DEF Complete
  <1>2. CASE Joins(x)
    <2>1. chan'[x] = <<>> /\ x \notin Awaiting' /\ published' = published /\ seen'[x] = published
      BY <1>2 DEF Joins
    <2> QED
      BY <1>0, <2>1 DEF Complete
  <1>3. ~Breaks(x)
    BY DEF Breaks
  <1>4. CASE Takes(x)
    <2>1. Complete(x) /\ q # <<>>
      BY <1>4, <1>b DEF Takes
    <2>2. /\ Len(chan'[x]) = Len(q) - 1 /\ seen'[x] = q[1] /\ Len(q) >= 1
          /\ \A i \in 1..Len(q) - 1 : chan'[x][i] = q[i + 1]
      BY <1>0, <1>4, <2>1, FirstAndRest DEF Takes
    <2>3. published' = published /\ Awaiting' = Awaiting
      BY <1>4 DEF Takes
    <2>4. /\ Len(q) = published - seen[x] - (IF x \in Awaiting THEN 1 ELSE 0)
          /\ \A i \in 1..Len(q) : q[i] = seen[x] + i
      BY <2>1 DEF Complete
    <2> HIDE DEF q
    <2>5. seen'[x] = seen[x] + 1
      BY <1>0, <2>2, <2>4
    <2>6. \A i \in 1..Len(q) - 1 : i + 1 \in 1..Len(q)
      BY <1>0
    <2>7. \A i \in 1..Len(chan'[x]) : chan'[x][i] = seen'[x] + i
      <3> SUFFICES ASSUME NEW i \in 1..Len(q) - 1 PROVE chan'[x][i] = seen'[x] + i
        BY <2>2
      <3>1. chan'[x][i] = q[i + 1] /\ q[i + 1] = seen[x] + (i + 1)
        BY <2>2, <2>4, <2>6
      <3>2. i \in Nat /\ seen[x] \in Nat
        BY <1>0
      <3> QED
        BY <2>5, <3>1, <3>2
    <2>8. Len(chan'[x]) = published' - seen'[x] - (IF x \in Awaiting' THEN 1 ELSE 0)
      BY <1>0, <2>2, <2>3, <2>4, <2>5
    <2> QED
      BY <2>7, <2>8 DEF Complete
  <1>5. CASE Announced(x)
    <2>1. Complete(x) /\ x \notin Awaiting /\ x \in Awaiting'
      BY <1>5, <1>b DEF Announced
    <2>2. chan'[x] = chan[x] /\ seen'[x] = seen[x] /\ published' = published + 1
      BY <1>5 DEF Announced
    <2> QED
      BY <1>0, <2>1, <2>2 DEF Complete
  <1>6. CASE Given(x)
    <2>1. Complete(x)
      BY <1>6, <1>b DEF Given
    <2>2. /\ chan'[x] = Append(q, published) /\ seen'[x] = seen[x] /\ published' = published
          /\ x \in Awaiting /\ x \notin Awaiting'
      BY <1>6 DEF Given
    <2>3. /\ Len(chan'[x]) = Len(q) + 1 /\ chan'[x][Len(q) + 1] = published
          /\ \A i \in 1..Len(q) : chan'[x][i] = q[i]
      BY <1>0, <2>2
    <2>4. Len(q) = published - seen[x] - 1 /\ \A i \in 1..Len(q) : q[i] = seen[x] + i
      BY <2>1, <2>2 DEF Complete
    <2> HIDE DEF q
    <2>5. \A i \in 1..Len(q) + 1 : i \in 1..Len(q) \/ i = Len(q) + 1
      BY <1>0
    <2>6. published = seen[x] + (Len(q) + 1)
      BY <1>0, <2>4
    <2>7. \A i \in 1..Len(chan'[x]) : chan'[x][i] = seen'[x] + i
      BY <2>2, <2>3, <2>4, <2>5, <2>6
    <2> QED
      BY <1>0, <2>2, <2>3, <2>4, <2>7 DEF Complete
  <1> QED
    BY <1>1, <1>2, <1>3, <1>4, <1>5, <1>6, EveryStep DEF StepFor

\* Two WebSockets at a time are remembered.
LEMMA DoubledStays == [Next]_vars /\ ~doubled' => ~doubled
  BY Zenon DEF Next, Connection, Accept, Open, Close, Reconnect, RemoveSession, Refuse,
     Receive, Break, BroadcastEvent, SendStatistics, Broadcasting, StartSend, Collide,
     FinishSend, RenderEvents, vars

\* Only a reconnection adds a WebSocket, and without a second one there was none.
LEMMA LiveStep ==
    ASSUME TypeOK, [Next]_vars, ~doubled', NEW x \in Sockets, Live(x)'
    PROVE  Live(x) \/ \A y \in Sockets : ~Live(y) /\ (Live(y)' => y = x)
  <1>0. sock \in [Sockets -> SockStates]
    BY DEF TypeOK
  <1>1. ASSUME NEW s \in Sockets, Reconnect(s)
        PROVE  \A y \in Sockets : ~Live(y) /\ (Live(y)' => y = x)
    <2>1. \A y \in Sockets : ~Live(y)
      BY <1>1, Zenon DEF Reconnect
    <2>2. sock' = [sock EXCEPT ![s] = "connecting"]
      BY <1>1 DEF Reconnect
    <2>3. \A y \in Sockets : y # s => ~Live(y)'
      BY <1>0, <2>1, <2>2 DEF Live
    <2> QED
      BY <2>1, <2>3
  <1>2. ASSUME NEW s \in Sockets, Connection(s) \/ Refuse(s) \/ Receive(s), ~Reconnect(s)
        PROVE  Live(x)
    BY <1>0, <1>2 DEF Connection, Accept, Open, Close, RemoveSession, Refuse, Receive, Live, page
  <1>3. ASSUME NEW s \in Sockets, NEW n \in 0..Len(chan[s]), Break(s, n)
        PROVE  Live(x)
    BY <1>0, <1>3 DEF Break, Live
  <1>4. ASSUME sock' = sock PROVE Live(x)
    BY <1>4 DEF Live
  <1>5. ASSUME NEW t \in Threads, Broadcasting(t) PROVE sock' = sock
    BY <1>5 DEF Broadcasting, StartSend, Collide, FinishSend, page
  <1>6. BroadcastEvent \/ SendStatistics \/ RenderEvents \/ UNCHANGED vars => sock' = sock
    BY DEF BroadcastEvent, SendStatistics, RenderEvents, page, vars
  <1> QED
    BY <1>1, <1>2, <1>3, <1>4, <1>5, <1>6 DEF Next

\* A WebSocket of which more may be heard was one before and has only gone on, or it
\* joins now and starts with the latest event.
LEMMA BringsStep ==
    ASSUME TypeOK, JoinInv, OrderInv, [Next]_vars, NEW x \in Sockets, Brings(x)'
    PROVE  (Brings(x) /\ seen[x] <= seen'[x]) \/ seen'[x] = published
  <1>0. /\ chan[x] \in Seq(1..published) /\ Len(chan[x]) \in Nat /\ published \in Nat
        /\ seen[x] \in 0..published
    BY ChannelOf
  <1>1. CASE Keeps(x) \/ Breaks(x) \/ Announced(x) \/ Given(x)
    <2>1. Brings(x)
      BY <1>1 DEF Keeps, Breaks, Announced, Given, Brings, Joined, Lasting
    <2>2. seen'[x] = seen[x]
      BY <1>1 DEF Keeps, Breaks, Announced, Given
    <2> QED
      BY <1>0, <2>1, <2>2
  <1>2. CASE Joins(x)
    BY <1>2 DEF Joins, Brings, Lasting
  <1>3. CASE Takes(x)
    <2>1. Joined(x) /\ chan[x] # <<>> /\ seen'[x] = Head(chan[x])
      BY <1>3 DEF Takes
    <2>2. Head(chan[x]) = chan[x][1] /\ Len(chan[x]) >= 1 /\ Head(chan[x]) \in 1..published
      BY <1>0, <2>1, FirstAndRest
    <2>3. seen[x] < chan[x][1]
      BY <1>0, <2>1, <2>2 DEF OrderInv, Ordered
    <2>4. seen[x] <= seen'[x]
      BY <1>0, <2>1, <2>2, <2>3
    <2> QED
      BY <2>1, <2>4 DEF Brings, Joined
  <1> QED
    BY <1>1, <1>2, <1>3, EveryStep DEF StepFor

\* Rows after a new event.
LEMMA PushInOrder ==
    ASSUME TypeOK, NEW e \in 1..published, NEW v \in 0..published, v < e,
           \A i \in DOMAIN rows : rows[i] <= v,
           \A i, j \in DOMAIN rows : i < j => rows[i] > rows[j]
    PROVE  /\ \A i \in DOMAIN WithEvent(e) : WithEvent(e)[i] <= e
           /\ \A i, j \in DOMAIN WithEvent(e) : i < j => WithEvent(e)[i] > WithEvent(e)[j]
  <1> DEFINE w == WithEvent(e)
  <1>0. /\ published \in Nat /\ rows \in Seq(0..published) /\ e \in 0..published
        /\ MaxRows \in Nat \ {0}
    BY FeedAssumption DEF TypeOK
  <1>1. /\ w \in Seq(0..published) /\ w[1] = e
        /\ \A i \in DOMAIN w : i > 1 => i - 1 \in DOMAIN rows /\ w[i] = rows[i - 1]
    BY <1>0, WithEventType
  <1>2. \A i \in DOMAIN rows : rows[i] \in Nat
    BY <1>0
  <1>3. DOMAIN w \subseteq Nat \ {0}
    BY <1>1
  <1> HIDE DEF w
  <1>4. \A i \in DOMAIN w : i > 1 => w[i] < e
    BY <1>0, <1>1, <1>2
  <1>5. ASSUME NEW i \in DOMAIN w PROVE w[i] <= e
    <2>1. e \in Nat /\ i \in Nat /\ i # 0
      BY <1>0, <1>3
    <2>2. CASE i = 1
      BY <1>1, <2>1, <2>2
    <2>3. CASE i > 1
      <3>1. i - 1 \in DOMAIN rows /\ w[i] = rows[i - 1] /\ w[i] < e
        BY <1>1, <1>4, <2>3
      <3>2. w[i] \in Nat
        BY <1>2, <3>1
      <3> QED
        BY <2>1, <3>1, <3>2
    <2> QED
      BY <2>1, <2>2, <2>3
  <1>6. ASSUME NEW i \in DOMAIN w, NEW j \in DOMAIN w, i < j PROVE w[i] > w[j]
    <2>1. i \in Nat /\ j \in Nat /\ j > 1 /\ i >= 1
      BY <1>3, <1>6
    <2>2. CASE i = 1
      BY <1>0, <1>1, <1>4, <2>1, <2>2
    <2>3. CASE i > 1
      <3>1. i - 1 < j - 1 /\ i - 1 \in DOMAIN rows /\ j - 1 \in DOMAIN rows
        BY <1>1, <1>6, <2>1, <2>3
      <3> QED
        BY <1>1, <2>1, <2>3, <3>1
    <2> QED
      BY <2>1, <2>2, <2>3
  <1> QED
    BY <1>5, <1>6 DEF w

\* The table stays in order while there is one WebSocket at a time.
LEMMA TableStep ==
    ASSUME TypeOK, SomeEvent, JoinInv, OrderInv, TableInv, [Next]_vars
    PROVE  TableInv'
  <1> DEFINE Behind == \A x \in Sockets : Brings(x) => \A i \in DOMAIN rows : rows[i] <= seen[x]
             InOrder == \A i, j \in DOMAIN rows : i < j => rows[i] > rows[j]
             Single == \A x, y \in Sockets : Live(x) /\ Live(y) => x = y
  <1> SUFFICES ASSUME ~doubled' PROVE Single' /\ Behind' /\ InOrder'
    BY DEF TableInv
  <1>0. /\ Single /\ Behind /\ InOrder
        /\ published \in Nat /\ rows \in Seq(0..published)
        /\ \A i \in DOMAIN rows : rows[i] \in 0..published
    BY DoubledStays, FeedAssumption DEF TableInv, TypeOK
  <1>1. Single'
    <2> SUFFICES ASSUME NEW x \in Sockets, NEW y \in Sockets, Live(x)', Live(y)' PROVE x = y
      OBVIOUS
    <2> QED
      BY <1>0, LiveStep
  <1> HIDE DEF Single
  <1>2. ASSUME rows' = rows PROVE Behind' /\ InOrder'
    <2>1. ASSUME NEW x \in Sockets, Brings(x)', NEW i \in DOMAIN rows PROVE rows[i] <= seen'[x]
      <3>1. seen[x] \in 0..published /\ seen'[x] \in 0..published'
        <4>1. TypeOK'
          BY TypeStep
        <4> QED
          BY <4>1, ChannelOf DEF TypeOK
      <3>2. CASE Brings(x) /\ seen[x] <= seen'[x]
        <4>1. rows[i] <= seen[x]
          BY <1>0, <3>2
        <4> QED
          BY <1>0, <3>1, <3>2, <4>1
      <3>3. CASE seen'[x] = published
        BY <1>0, <3>3
      <3> QED
        BY <2>1, <3>2, <3>3, BringsStep
    <2> QED
      BY <1>0, <1>2, <2>1
  <1>3. ASSUME NEW s \in Sockets, Receive(s) PROVE Behind' /\ InOrder'
    <2> DEFINE e == Head(chan[s])
    <2>1. /\ chan[s] \in Seq(1..published) /\ chan[s] # <<>> /\ seen[s] \in 0..published
          /\ sock[s] \in {"open", "lost"} /\ sock' = sock /\ rows' = WithEvent(e)
          /\ seen'[s] = e
      BY <1>3, ChannelOf DEF Receive, page, TypeOK
    <2>2. e \in 1..published /\ e = chan[s][1] /\ Len(chan[s]) \in Nat /\ Len(chan[s]) >= 1
      BY <2>1, FirstAndRest
    <2>3. seen[s] < e
      BY <2>1, <2>2 DEF OrderInv, Joined, Ordered
    <2>4. \A i \in DOMAIN rows : rows[i] <= seen[s]
      BY <1>0, <2>1 DEF Brings
    <2> HIDE DEF e
    <2>5. /\ \A i \in DOMAIN rows' : rows'[i] <= e
          /\ \A i, j \in DOMAIN rows' : i < j => rows'[i] > rows'[j]
      BY <1>0, <2>1, <2>2, <2>3, <2>4, PushInOrder
    <2>6. \A x \in Sockets : Brings(x)' => x = s
      <3>1. \A x \in Sockets : Brings(x)' => Live(x)
        BY <2>1 DEF Brings, Live
      <3>2. Live(s)
        BY <2>1 DEF Live
      <3> QED
        BY <1>0, <3>1, <3>2 DEF Single
    <2> QED
      BY <2>1, <2>5, <2>6
  <1>4. CASE RenderEvents
    <2>1. rows' = <<0>> /\ seen' = seen /\ sock' = sock /\ chan' = chan
      BY <1>4 DEF RenderEvents, Placeholder, page
    <2>2. DOMAIN rows' = {1} /\ rows'[1] = 0
      BY <2>1
    <2>3. \A x \in Sockets : 0 <= seen'[x]
      BY <1>0, <2>1, ChannelOf
    <2>4. Behind' /\ InOrder'
      BY <2>2, <2>3
    <2> QED
      BY <1>1, <2>4
  <1>5. ASSUME NEW s \in Sockets,
               \/ Connection(s) \/ Refuse(s) \/ \E n \in 0..Len(chan[s]) : Break(s, n)
        PROVE  rows' = rows
    BY <1>5, Zenon DEF Connection, Accept, Open, Close, Reconnect, RemoveSession, Refuse, Break,
       table
  <1>6. ASSUME NEW t \in Threads, Broadcasting(t) PROVE rows' = rows
    BY <1>6, Zenon DEF Broadcasting, StartSend, Collide, FinishSend, table
  <1>7. BroadcastEvent \/ SendStatistics \/ UNCHANGED vars => rows' = rows
    BY Zenon DEF BroadcastEvent, SendStatistics, vars, table
  <1> HIDE DEF Behind, InOrder
  <1> QED
    BY <1>1, <1>2, <1>3, <1>4, <1>5, <1>6, <1>7 DEF Next

-----------------------------------------------------------------------------
(* What they give.                                                         *)

LEMMA FeedInit == Init => SomeEvent /\ JoinInv /\ OrderInv /\ CompleteInv /\ TableInv
  <1> SUFFICES ASSUME Init PROVE SomeEvent /\ JoinInv /\ OrderInv /\ CompleteInv /\ TableInv
    OBVIOUS
  <1>1. PICK s \in Sockets :
          sock = [x \in Sockets |-> IF x = s THEN "connecting" ELSE "free"]
    BY DEF Init
  <1>2. \A x \in Sockets : sock[x] \in {"connecting", "free"} /\ (x # s => ~Live(x))
    BY <1>1 DEF Live
  <1>3. /\ \A x \in Sockets : chan[x] = <<>>
        /\ bc["events"].todo = {} /\ bc["events"].sending = NoSocket /\ sessions = {}
    BY DEF Init, Threads
  <1>4. \A x \in Sockets : x \notin Awaiting
    BY <1>3, FeedAssumption DEF Awaiting
  <1>5. JoinInv /\ SomeEvent
    BY <1>2, <1>3, <1>4 DEF JoinInv, SomeEvent, Idle
  <1>6. OrderInv /\ CompleteInv
    BY <1>2 DEF OrderInv, CompleteInv, Joined
  <1>7. TableInv
    <2>1. DOMAIN rows = {1}
      BY DEF Init
    <2>2. \A x \in Sockets : ~Brings(x)
      BY <1>2 DEF Brings
    <2> QED
      BY <1>2, <2>1, <2>2 DEF TableInv
  <1> QED
    BY <1>5, <1>6, <1>7

\* The inductive invariant of the feed: who takes part in a broadcast, order and
\* completeness of what is under way, and the table behind it.
THEOREM Inductive == Spec => []FeedInv
  <1>1. Init => FeedInv
    BY FeedInit, TypeInit DEF FeedInv
  <1>2. FeedInv /\ [Next]_vars => FeedInv'
    BY TypeStep, SomeEventStep, JoinStep, OrderStep, CompleteStep, TableStep DEF FeedInv
  <1> QED
    BY <1>1, <1>2, PTL DEF Spec

\* The events under way, in full.
LEMMA CompleteGivesPending ==
    ASSUME FeedInv PROVE FeedIsComplete
  <1> SUFFICES ASSUME NEW s \in Sockets, ~collided, sock[s] \in {"accepted", "open"}
               PROVE  Pending(s) = [i \in 1..published - seen[s] |-> seen[s] + i]
    BY DEF FeedIsComplete
  <1> DEFINE q == chan[s]
             last == IF s \in Awaiting THEN <<published>> ELSE <<>>
             left == q \o last
             right == [i \in 1..published - seen[s] |-> seen[s] + i]
  <1>1. /\ q \in Seq(1..published) /\ Len(q) \in Nat /\ published \in Nat
        /\ seen[s] \in 0..published
    BY ChannelOf DEF FeedInv
  <1>2. /\ Len(q) = published - seen[s] - (IF s \in Awaiting THEN 1 ELSE 0)
        /\ \A i \in 1..Len(q) : q[i] = seen[s] + i
    BY DEF FeedInv, CompleteInv, Complete
  <1>3. Pending(s) = left
    BY DEF Pending, Awaiting
  <1>4. right \in Seq(Nat) /\ Len(right) = published - seen[s]
    <2>1. published - seen[s] \in Nat /\ \A i \in 1..published - seen[s] : seen[s] + i \in Nat
      BY <1>1
    <2> QED
      BY <2>1
  <1>5. q \in Seq(Nat) /\ last \in Seq(Nat)
    <2>1. q \in Seq(Nat)
      BY <1>1
    <2>2. <<published>> \in Seq(Nat) /\ <<>> \in Seq(Nat)
      BY <1>1
    <2>3. last \in Seq(Nat)
      BY <2>2, Zenon
    <2> QED
      BY <2>1, <2>3
  <1>6. CASE s \in Awaiting
    <2>1. last = <<published>> /\ Len(last) = 1 /\ last[1] = published
      BY <1>6
    <2> HIDE DEF q, last, right
    <2>2. /\ left \in Seq(Nat) /\ Len(left) = Len(q) + 1
          /\ \A i \in 1..Len(left) : left[i] = IF i <= Len(q) THEN q[i] ELSE last[i - Len(q)]
      BY <1>5, <2>1, ConcatProperties
    <2> HIDE DEF left
    <2>3. Len(left) = Len(right) /\ published = seen[s] + (Len(q) + 1)
      BY <1>1, <1>2, <1>4, <1>6, <2>2
    <2>4. ASSUME NEW i \in 1..Len(left) PROVE left[i] = seen[s] + i
      <3>1. CASE i \in 1..Len(q)
        BY <1>1, <1>2, <2>2, <3>1
      <3>2. CASE i = Len(q) + 1
        <4>1. ~(i <= Len(q)) /\ i - Len(q) = 1
          BY <1>1, <3>2
        <4>2. left[i] = last[1]
          BY <2>2, <4>1
        <4> QED
          BY <2>1, <2>3, <3>2, <4>2
      <3> QED
        BY <1>1, <2>2, <3>1, <3>2
    <2>5. \A i \in 1..Len(left) : left[i] = right[i]
      BY <1>4, <2>3, <2>4 DEF right
    <2> QED
      BY <1>3, <1>4, <2>2, <2>3, <2>5, SeqEqual DEF right
  <1>7. CASE s \notin Awaiting
    <2>1. left = q
      BY <1>5, <1>7, ConcatEmptySeq
    <2>2. Len(q) = Len(right)
      BY <1>1, <1>2, <1>4, <1>7
    <2>3. \A i \in 1..Len(q) : q[i] = right[i]
      BY <1>1, <1>2, <1>7
    <2> HIDE DEF q, right
    <2>4. q = right
      BY <1>4, <1>5, <2>2, <2>3, SeqEqual
    <2> QED
      BY <1>3, <2>1, <2>4 DEF right
  <1> QED
    BY <1>6, <1>7

\* Without a collision a connection brings every event since it was accepted, in order.
THEOREM FeedIsCompleteTheorem == Spec => []FeedIsComplete
  BY Inductive, CompleteGivesPending, PTL

\* With one WebSocket at a time the table never shows an event twice or in a wrong order.
THEOREM RowsInOrderTheorem == Spec => []RowsInOrder
  <1>1. FeedInv => RowsInOrder
    BY DEF FeedInv, TableInv, RowsInOrder
  <1> QED
    BY <1>1, Inductive, PTL
=============================================================================
