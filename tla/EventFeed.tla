----------------------------- MODULE EventFeed -----------------------------
(***************************************************************************)
(* The way of a CDC event from WebSocketService.broadcast to the table of  *)
(* events on the page: the sessions of the server, two threads that         *)
(* broadcast, one WebSocket after the other on the side of the page, the    *)
(* timer that reconnects, and the table itself.                             *)
(*                                                                         *)
(* One page is modelled; it may have several WebSockets, since every tick  *)
(* of the reconnect timer creates one, whatever became of the previous one. *)
(* A statistics message replaces some figures on the page and is not        *)
(* followed further; what matters here is that its thread sends on the same *)
(* sessions.                                                               *)
(***************************************************************************)
EXTENDS Integers, Sequences

CONSTANTS
    Sockets,     \* WebSockets that can exist at one time
    NoSocket,    \* no send under way
    MaxRows,     \* rows of the table of events: 50
    MaxEvents,   \* bound on the events of a behaviour
    MaxQueue,    \* bound on the messages under way on one WebSocket
    Budget       \* bound on the refused handshakes and broken connections

BudgetKinds == {"refuse", "break"}

ASSUME FeedAssumption ==
    /\ NoSocket \notin Sockets
    /\ MaxRows \in Nat \ {0, 1} /\ MaxEvents \in Nat /\ MaxQueue \in Nat \ {0}
    /\ Budget \in [BudgetKinds -> Nat]

VARIABLES
    sock,        \* state of each WebSocket, as far as the page's handlers have seen it
    timer,       \* reconnectInterval is set
    status,      \* text of wsStatus
    rows,        \* rows of cdcEventsTable, from the top; Placeholder is "No CDC events"
    eventCount,  \* eventCount
    chan,        \* chan[s]: events under way to the page on s
    sessions,    \* sessions of WebSocketService
    published,   \* number of events broadcast so far, which also names the last one
    bc,          \* the threads that broadcast: sessions still to serve, current send
    statsTask,   \* the periodic task that sends statistics is scheduled
    seen,        \* history variable: last event handled from s, or broadcast before s joined
    collided,    \* history variable: two threads have sent on one session at a time
    doubled,     \* history variable: two WebSockets have existed at a time
    budget       \* what is left of Budget

page == <<sock, timer, status>>
table == <<rows, eventCount>>
server == <<sessions, published, bc, statsTask, collided>>
vars == <<sock, timer, status, rows, eventCount, chan, sessions, published, bc, statsTask,
          seen, collided, doubled, budget>>

\* "lost": the connection is gone, onclose has not run yet.
SockStates == {"free", "connecting", "accepted", "open", "lost"}
Threads == {"events", "statistics"}
Placeholder == 0

Live(s) == sock[s] # "free"

Spend(b) == /\ budget[b] > 0
            /\ budget' = [budget EXCEPT ![b] = @ - 1]

TypeOK ==
    /\ sock \in [Sockets -> SockStates]
    /\ timer \in BOOLEAN
    /\ status \in {"Connected", "Disconnected"}
    /\ rows \in Seq(0..published)
    /\ eventCount \in Nat
    /\ chan \in [Sockets -> Seq(1..published)]
    /\ sessions \in SUBSET Sockets
    /\ published \in 0..MaxEvents
    /\ bc \in [Threads -> [todo : SUBSET Sockets, sending : Sockets \cup {NoSocket}]]
    /\ statsTask \in BOOLEAN
    /\ seen \in [Sockets -> 0..published]
    /\ collided \in BOOLEAN /\ doubled \in BOOLEAN
    /\ budget \in [BudgetKinds -> Nat]

\* The page has been loaded and has called connectWebSocket once.
Init ==
    /\ \E s \in Sockets :
          sock = [x \in Sockets |-> IF x = s THEN "connecting" ELSE "free"]
    /\ timer = FALSE /\ status = "Disconnected"
    /\ rows = <<Placeholder>> /\ eventCount = 0
    /\ chan = [s \in Sockets |-> <<>>]
    /\ sessions = {} /\ published = 0
    /\ bc = [t \in Threads |-> [todo |-> {}, sending |-> NoSocket]]
    /\ statsTask = TRUE
    /\ seen = [s \in Sockets |-> 0]
    /\ collided = FALSE /\ doubled = FALSE
    /\ budget = Budget

-----------------------------------------------------------------------------
(* Connections.                                                            *)

\* The server accepts the handshake: afterConnectionEstablished, addSession.
Accept(s) ==
    /\ sock[s] = "connecting"
    /\ sock' = [sock EXCEPT ![s] = "accepted"]
    /\ sessions' = sessions \cup {s}
    /\ seen' = [seen EXCEPT ![s] = published]
    /\ UNCHANGED <<timer, status, table, chan, published, bc, statsTask, collided, doubled,
                   budget>>

\* onopen.
Open(s) ==
    /\ sock[s] = "accepted"
    /\ sock' = [sock EXCEPT ![s] = "open"]
    /\ status' = "Connected"
    /\ timer' = FALSE
    /\ UNCHANGED <<table, chan, server, seen, doubled, budget>>

\* Mutant: a refused WebSocket reports an error and nothing else.
RefuseForGood(s) ==
    /\ sock[s] = "connecting"
    /\ Spend("refuse")
    /\ sock' = [sock EXCEPT ![s] = "free"]
    /\ UNCHANGED <<timer, status, table, chan, server, seen, doubled>>

\* No server, or it refuses.
Refuse(s) ==
    /\ sock[s] = "connecting"
    /\ Spend("refuse")
    /\ sock' = [sock EXCEPT ![s] = "lost"]
    /\ UNCHANGED <<timer, status, table, chan, server, seen, doubled>>

\* The connection breaks; of the messages under way the first n have arrived.
Break(s, n) ==
    /\ sock[s] \in {"accepted", "open"}
    /\ n \in 0..Len(chan[s])
    /\ n = 0 \/ sock[s] = "open"
    /\ Spend("break")
    /\ sock' = [sock EXCEPT ![s] = "lost"]
    /\ chan' = [chan EXCEPT ![s] = SubSeq(@, 1, n)]
    /\ UNCHANGED <<timer, status, table, server, seen, doubled>>

\* Mutant: only a page that was connected reconnects.
CloseOfConnected(s) ==
    /\ sock[s] = "lost" /\ chan[s] = <<>>
    /\ sock' = [sock EXCEPT ![s] = "free"]
    /\ status' = "Disconnected"
    /\ timer' = (timer \/ status = "Connected")
    /\ UNCHANGED <<table, chan, server, seen, doubled, budget>>

\* Mutant: the status is left to onopen.
CloseSilently(s) ==
    /\ sock[s] = "lost" /\ chan[s] = <<>>
    /\ sock' = [sock EXCEPT ![s] = "free"]
    /\ timer' = TRUE
    /\ UNCHANGED <<status, table, chan, server, seen, doubled, budget>>

\* onclose, after onerror and the messages that had arrived: of whichever WebSocket,
\* even if another one is open.
Close(s) ==
    /\ sock[s] = "lost" /\ chan[s] = <<>>
    /\ sock' = [sock EXCEPT ![s] = "free"]
    /\ status' = "Disconnected"
    /\ timer' = TRUE
    /\ UNCHANGED <<table, chan, server, seen, doubled, budget>>

\* A name can be used again when nothing refers to the WebSocket that had it.
Unused(s) ==
    /\ ~Live(s) /\ s \notin sessions
    /\ \A t \in Threads : s \notin bc[t].todo /\ s # bc[t].sending

\* The timer fires: connectWebSocket again, even if an attempt is under way or another
\* WebSocket is open.
Reconnect(s) ==
    /\ timer
    /\ Unused(s)
    /\ sock' = [sock EXCEPT ![s] = "connecting"]
    /\ doubled' = (doubled \/ \E x \in Sockets : Live(x))
    /\ UNCHANGED <<timer, status, table, chan, server, seen, budget>>

\* The server notices: afterConnectionClosed or handleTransportError.
RemoveSession(s) ==
    /\ s \in sessions
    /\ sock[s] \in {"lost", "free"}
    /\ sessions' = sessions \ {s}
    /\ UNCHANGED <<page, table, chan, published, bc, statsTask, seen, collided, doubled,
                   budget>>

-----------------------------------------------------------------------------
(* broadcast, by the thread that processes CDC events and by the one that   *)
(* sends statistics every second.                                          *)

Idle(t) == bc[t].todo = {} /\ bc[t].sending = NoSocket

\* The iteration is over the sessions of this moment (CopyOnWriteArraySet).
Begin(t) == bc' = [bc EXCEPT ![t].todo = sessions]

BroadcastEvent ==
    /\ Idle("events")
    /\ published < MaxEvents
    /\ \A s \in sessions : Len(chan[s]) < MaxQueue
    /\ published' = published + 1
    /\ Begin("events")
    /\ UNCHANGED <<page, table, chan, sessions, statsTask, seen, collided, doubled, budget>>

SendStatistics ==
    /\ statsTask /\ Idle("statistics")
    /\ Begin("statistics")
    /\ UNCHANGED <<page, table, chan, sessions, published, statsTask, seen, collided,
                   doubled, budget>>

Busy(s) == \E t \in Threads : bc[t].sending = s

\* Mutant: the session stays in the iteration.
StartSendAgain(t, s) ==
    /\ s \in bc[t].todo /\ bc[t].sending = NoSocket
    /\ ~Busy(s)
    /\ bc' = [bc EXCEPT ![t].sending = s]
    /\ UNCHANGED <<page, table, chan, sessions, published, statsTask, seen, collided, doubled,
                   budget>>

StartSend(t, s) ==
    /\ s \in bc[t].todo /\ bc[t].sending = NoSocket
    /\ ~Busy(s)
    /\ bc' = [bc EXCEPT ![t].todo = @ \ {s}, ![t].sending = s]
    /\ UNCHANGED <<page, table, chan, sessions, published, statsTask, seen, collided, doubled,
                   budget>>

\* sendMessage while the other thread is in it: an IllegalStateException of the
\* server's WebSocket implementation, which broadcast does not catch.  The remaining
\* sessions get nothing; processIndividualRecord logs it, but the executor cancels
\* a periodic task that throws.
Collide(t, s) ==
    /\ s \in bc[t].todo /\ bc[t].sending = NoSocket
    /\ Busy(s)
    /\ bc' = [bc EXCEPT ![t].todo = {}]
    /\ statsTask' = (statsTask /\ t # "statistics")
    /\ collided' = TRUE
    /\ UNCHANGED <<page, table, chan, sessions, published, seen, doubled, budget>>

\* Mutant: an event is not queued while the browser has not run onopen.
FinishSendIfOpen(t) ==
    LET s == bc[t].sending IN
    /\ s # NoSocket
    /\ bc' = [bc EXCEPT ![t].sending = NoSocket]
    /\ chan' = IF t = "events" /\ sock[s] = "open"
               THEN [chan EXCEPT ![s] = Append(@, published)] ELSE chan
    /\ UNCHANGED <<page, table, sessions, published, statsTask, seen, collided, doubled,
                   budget>>

\* Mutant: the payload is read after the event has been counted once more.
FinishSendOfNext(t) ==
    LET s == bc[t].sending IN
    /\ s # NoSocket
    /\ bc' = [bc EXCEPT ![t].sending = NoSocket]
    /\ chan' = IF t = "events" /\ sock[s] \in {"accepted", "open"}
               THEN [chan EXCEPT ![s] = Append(@, published + 1)] ELSE chan
    /\ UNCHANGED <<page, table, sessions, published, statsTask, seen, collided, doubled,
                   budget>>

\* The message is on its way, unless the connection is gone: then the session is
\* closed or an IOException is logged.
FinishSend(t) ==
    LET s == bc[t].sending IN
    /\ s # NoSocket
    /\ bc' = [bc EXCEPT ![t].sending = NoSocket]
    /\ chan' = IF t = "events" /\ sock[s] \in {"accepted", "open"}
               THEN [chan EXCEPT ![s] = Append(@, published)] ELSE chan
    /\ UNCHANGED <<page, table, sessions, published, statsTask, seen, collided, doubled,
                   budget>>

Broadcasting(t) == (\E s \in Sockets : StartSend(t, s) \/ Collide(t, s)) \/ FinishSend(t)

-----------------------------------------------------------------------------
(* The table of events.                                                    *)

\* Rows with a single cell are taken for the placeholder.
OnlyPlaceholder == rows = <<Placeholder>>

\* Mutant: the placeholder is not removed.
WithPlaceholder(e) ==
    LET new == <<e>> \o rows
    IN  IF Len(new) > MaxRows THEN SubSeq(new, 1, Len(new) - 1) ELSE new

\* addCdcEventToTable: insertRow(0) and, beyond MaxRows, deleteRow of the last one.
WithEvent(e) ==
    LET new == <<e>> \o (IF OnlyPlaceholder THEN <<>> ELSE rows)
    IN  IF Len(new) > MaxRows THEN SubSeq(new, 1, Len(new) - 1) ELSE new

\* onmessage with a cdcEvent.
Receive(s) ==
    /\ sock[s] \in {"open", "lost"}
    /\ chan[s] # <<>>
    /\ rows' = WithEvent(Head(chan[s]))
    /\ eventCount' = eventCount + 1
    /\ seen' = [seen EXCEPT ![s] = Head(chan[s])]
    /\ chan' = [chan EXCEPT ![s] = Tail(@)]
    /\ UNCHANGED <<page, server, doubled, budget>>

\* Mutant: the table is rendered whatever it shows, as in the page's first version.
RenderAlways ==
    /\ rows' = <<Placeholder>>
    /\ UNCHANGED <<page, eventCount, chan, server, seen, doubled, budget>>

\* fetchDataComparison has received the answer of /events, which is always empty, and
\* calls renderCdcEventsTable if the table is: the placeholder is written again.
RenderEvents ==
    /\ rows = <<>> \/ OnlyPlaceholder
    /\ rows' = <<Placeholder>>
    /\ UNCHANGED <<page, eventCount, chan, server, seen, doubled, budget>>

-----------------------------------------------------------------------------
Connection(s) == \/ Accept(s) \/ Open(s) \/ Close(s) \/ Reconnect(s) \/ RemoveSession(s)

Next ==
    \/ \E s \in Sockets : \/ Connection(s) \/ Refuse(s) \/ Receive(s)
                          \/ \E n \in 0..Len(chan[s]) : Break(s, n)
    \/ BroadcastEvent \/ SendStatistics
    \/ \E t \in Threads : Broadcasting(t)
    \/ RenderEvents

\* Browser, network and threads go on: handshakes and the close of a connection are
\* noticed, timers fire, messages arrive.  Nobody has to produce an event.
Fairness ==
    /\ \A s \in Sockets : /\ WF_vars(Accept(s)) /\ WF_vars(Open(s)) /\ WF_vars(Close(s))
                          /\ WF_vars(RemoveSession(s)) /\ WF_vars(Receive(s))
    /\ WF_vars(\E s \in Sockets : Reconnect(s))
    /\ \A t \in Threads : WF_vars(Broadcasting(t))

Spec == Init /\ [][Next]_vars
FairSpec == Spec /\ Fairness

-----------------------------------------------------------------------------
(* Properties.                                                             *)

\* The page never gives up (connectWebSocket): at any time it has a WebSocket or the
\* reconnect timer runs, although the timer is one for all WebSockets, any onopen
\* stops it and their events come in any order.
ConnectionIsPursued == timer \/ \E s \in Sockets : Live(s)

\* When wsStatus says Connected there is a WebSocket that has opened and of which
\* no onclose has run, however many there were (the converse does not hold).
ConnectedIsTrue ==
    status = "Connected" => \E s \in Sockets : sock[s] \in {"open", "lost"}

\* Events on their way on s, and the one being broadcast to it.
Pending(s) ==
    chan[s] \o (IF s \in bc["events"].todo \cup {bc["events"].sending}
                THEN <<published>> ELSE <<>>)

\* While a connection lasts, it brings every event broadcast since it was accepted,
\* in order and once, unless two threads have met in sendMessage.
FeedIsComplete ==
    \A s \in Sockets :
        ~collided /\ sock[s] \in {"accepted", "open"} =>
            Pending(s) = [i \in 1..published - seen[s] |-> seen[s] + i]

\* As long as there was only one WebSocket at a time, no event is in the table twice and
\* a later event is above an earlier one, across broken connections too.
RowsInOrder ==
    ~doubled => \A i, j \in DOMAIN rows : i < j => rows[i] > rows[j]

\* CDC-INCREMENTAL-SYNC-POC.md:392, "Automatic reconnection on connection loss": the
\* page is connected again and again, whatever breaks.
Reconnects == []<>(\E s \in Sockets : sock[s] = "open")

\* What the table shows is what EventTable promises: nothing but a new event changes
\* it, rendering the comparison included.
ShownEvents == INSTANCE EventTable WITH
    Events <- 1..MaxEvents,
    shown  <- IF OnlyPlaceholder THEN <<>> ELSE rows,
    total  <- eventCount

ShowsLatest == ShownEvents!Spec
=============================================================================
