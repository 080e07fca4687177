----------------------------- MODULE EventLoop ------------------------------
(***************************************************************************)
(* Server::run: one thread that selects the ready sockets, accepts at most *)
(* one connection, and then visits the clients in the order of the vector  *)
(* _clients, testing each for inactivity (_checkConnect), reading from it  *)
(* (_reciveRequest) and executing what it has queued (_sendResponse),      *)
(* until a disconnection or a failed response ends the round early.        *)
(*                                                                         *)
(* The peers and the clock act at any moment.  A message is one line; what *)
(* a line does is abstracted to what its handler returns (Registration and *)
(* Channels say which does what), and a queued line is kept as the client  *)
(* that sent it.  Queues belong to slots of the vector: User::operator=,   *)
(* which _clients.erase uses to move the later clients down, and push_back *)
(* to move them all when the vector grows, does not copy                   *)
(* _raw_requests.  _checkActivity always returns -2: _spam_flag starts at  *)
(* zero and is only incremented where it is 3.                             *)
(***************************************************************************)
EXTENDS Integers, Sequences

LOCAL INSTANCE FiniteSetsExt

CONSTANTS
    Conns,        \* sockets
    MaxClients,   \* bound on _clients.size()
    Reserved,     \* MAX_USERS (256), the capacity _clients starts with
    MaxInbox,     \* bound on the lines that wait in one socket
    MaxLines,     \* bound on the lines in flight, in sockets and queues
    MaxInactive,  \* MAX_INACTIVE (60 s), in ticks
    MaxResponse,  \* MAX_RESPONSE (120 s), in ticks
    Unreliable    \* sockets that may be closed by the peer or full, refuse a
                  \* send(), and carry lines of a single character

ASSUME TimeAssumption ==
    /\ MaxInactive \in Nat
    /\ MaxResponse \in Nat
    /\ MaxInactive < MaxResponse
ASSUME BoundAssumption ==
    MaxClients \in Nat /\ Reserved \in Nat \ {0} /\ MaxInbox \in Nat /\ MaxLines \in Nat

VARIABLES
    clients,     \* _clients, the sockets in the order of the vector
    capacity,    \* _clients.capacity()
    queue,       \* _raw_requests of the User in each slot
    backlog,     \* connections select() finds at the listening socket
    inbox,       \* lines that wait in the socket of a client
    eof,         \* clients whose peer has closed the connection
    full,        \* clients whose socket has no room for what is sent to them
    registered,  \* clients with _authorized
    send,        \* _send of a client: -1 new, 0 to be answered, 1 answered
    pinging,     \* clients with the flag PINGING
    idle,        \* ticks since _last_activity
    pc,          \* where run() is
    turn,        \* the slot thisClient points to
    readable,    \* readSet after select()
    writable,    \* writeSet after select()
    rc,          \* the local rc of _sendResponse
    impaired     \* history variable: a send() failed, or a socket was full at a visit

kernel == <<backlog, inbox, eof, full>>
users == <<clients, capacity, queue, registered, send, pinging, idle>>
loop == <<pc, turn, readable, writable, rc>>
vars == <<kernel, users, loop, impaired>>

Slots == 1 .. MaxClients
MaxIdle == MaxResponse + 1
Open == {clients[j] : j \in 1 .. Len(clients)}

Init ==
    /\ clients = <<>>
    /\ capacity = Reserved
    /\ queue = [j \in Slots |-> <<>>]
    /\ backlog = {}
    /\ inbox = [c \in Conns |-> 0]
    /\ eof = {}
    /\ full = {}
    /\ registered = {}
    /\ send = [c \in Conns |-> -1]
    /\ pinging = {}
    /\ idle = [c \in Conns |-> 0]
    /\ pc = "select"
    /\ turn = 1
    /\ readable = {}
    /\ writable = {}
    /\ rc = -1
    /\ impaired = FALSE

-----------------------------------------------------------------------------
\* The peers and the clock

Dial(c) ==
    /\ c \notin Open \cup backlog
    /\ backlog' = backlog \cup {c}
    /\ UNCHANGED <<inbox, eof, full, users, loop, impaired>>

InFlight == MapThenSumSet(LAMBDA c : inbox[c], Conns)
            + MapThenSumSet(LAMBDA j : Len(queue[j]), Slots)

Write(c) ==
    /\ c \in Open \ eof
    /\ inbox[c] < MaxInbox
    /\ InFlight < MaxLines
    /\ inbox' = [inbox EXCEPT ![c] = @ + 1]
    /\ UNCHANGED <<backlog, eof, full, users, loop, impaired>>

Hangup(c) ==
    /\ c \in Unreliable \cap (Open \ eof)
    /\ eof' = eof \cup {c}
    /\ UNCHANGED <<backlog, inbox, full, users, loop, impaired>>

\* The peer reads what fills the socket, or breaks the connection.
Read(c) ==
    /\ c \in full
    /\ full' = full \ {c}
    /\ UNCHANGED <<backlog, inbox, eof, users, loop, impaired>>

Tick ==
    /\ \E c \in Open : idle[c] < MaxIdle
    /\ idle' = [c \in Conns |-> IF c \in Open /\ idle[c] < MaxIdle
                                THEN idle[c] + 1 ELSE idle[c]]
    /\ UNCHANGED <<kernel, clients, capacity, queue, registered, send, pinging, loop, impaired>>

-----------------------------------------------------------------------------
\* select() and newConnection()

\* push_back on a full vector copies the users, without their queues.
Accept(c) ==
    /\ Len(clients) < MaxClients
    /\ backlog' = backlog \ {c}
    /\ clients' = Append(clients, c)
    /\ IF Len(clients) = capacity
       THEN /\ capacity' = 2 * capacity
            /\ queue' = [j \in Slots |-> <<>>]
       ELSE UNCHANGED <<capacity, queue>>

\* select() has something to report: a connection, a client to read from, or a
\* client with room.
Ready == backlog # {} \/ \E c \in Open : inbox[c] > 0 \/ c \in eof \/ c \notin full

\* With nothing to report select() times out and run() calls it again: no client
\* is visited, and none tested for inactivity, until a peer does something.
TimesOut == pc = "select" /\ ~Ready

\* A variant of Select that does not watch the last socket, as when select()
\* is called with sdMax.
SelectBelowMax ==
    /\ pc = "select"
    /\ Ready
    /\ readable' = {c \in Open : (inbox[c] > 0 \/ c \in eof) /\ c # clients[Len(clients)]}
    /\ writable' = Open \ full
    /\ IF backlog # {}
       THEN \E c \in backlog : Accept(c)
       ELSE UNCHANGED <<backlog, clients, capacity, queue>>
    /\ pc' = "visit"
    /\ turn' = 1
    /\ UNCHANGED <<inbox, eof, full, registered, send, pinging, idle, rc, impaired>>

\* The sets are those of the clients select() was asked about: the connection
\* accepted now is in neither.
Select ==
    /\ pc = "select"
    /\ Ready
    /\ readable' = {c \in Open : inbox[c] > 0 \/ c \in eof}
    /\ writable' = Open \ full
    /\ IF backlog # {}
       THEN \E c \in backlog : Accept(c)
       ELSE UNCHANGED <<backlog, clients, capacity, queue>>
    /\ pc' = "visit"
    /\ turn' = 1
    /\ UNCHANGED <<inbox, eof, full, registered, send, pinging, idle, rc, impaired>>

-----------------------------------------------------------------------------
\* _disconnect

\* A variant of Erase that keeps the last slot.
EraseButKeepQueue(j) ==
    /\ clients' = [i \in 1 .. Len(clients) - 1 |->
                      IF i < j THEN clients[i] ELSE clients[i + 1]]
    /\ UNCHANGED queue

\* _clients.erase: the clients behind move down one slot, the queues do not,
\* and the last slot is destroyed.
Erase(j) ==
    /\ clients' = [i \in 1 .. Len(clients) - 1 |->
                      IF i < j THEN clients[i] ELSE clients[i + 1]]
    /\ queue' = [queue EXCEPT ![Len(clients)] = <<>>]

\* The round ends; the next one starts with FD_ZERO.
Break ==
    /\ pc' = "select"
    /\ turn' = 1
    /\ readable' = {}
    /\ writable' = {}
    /\ rc' = -1

\* What the peer had sent is lost with the socket, and the round ends.
Disconnect(j) ==
    LET c == clients[j]
    IN  /\ Erase(j)
        /\ inbox' = [inbox EXCEPT ![c] = 0]
        /\ eof' = eof \ {c}
        /\ full' = full \ {c}
        /\ registered' = registered \ {c}
        /\ send' = [send EXCEPT ![c] = -1]
        /\ pinging' = pinging \ {c}
        /\ idle' = [idle EXCEPT ![c] = 0]
        /\ Break
        /\ UNCHANGED <<backlog, capacity>>

-----------------------------------------------------------------------------
\* One visit: _checkConnect and _reciveRequest

Visits(c) == pc = "visit" /\ turn <= Len(clients) /\ clients[turn] = c

EndOfRound ==
    /\ pc = "visit"
    /\ turn > Len(clients)
    /\ Break
    /\ UNCHANGED <<kernel, users, impaired>>

\* A variant of Pinged: no PING for a client that should have answered one.
PingedInWindow(c) ==
    IF c \in registered /\ idle[c] > MaxInactive /\ idle[c] <= MaxResponse
    THEN pinging \cup {c} ELSE pinging

\* The clients with PINGING once _checkConnect has sent its PING.
Pinged(c) ==
    IF c \in registered /\ idle[c] > MaxInactive THEN pinging \cup {c} ELSE pinging

\* What the server sends may fill the sockets of C.
MayFill(C) == full' \in {full \cup D : D \in SUBSET (C \cap Unreliable)}

\* The PING of _checkConnect is sent, once, and fills the socket at most.
SendPing(c) == MayFill(IF c \in Pinged(c) \ pinging THEN {c} ELSE {})

TimedOut(c) == c \in Pinged(c) /\ idle[c] > MaxResponse

DropInactive(c) ==
    /\ Visits(c)
    /\ TimedOut(c)
    /\ Disconnect(turn)
    /\ UNCHANGED impaired

\* recv() finds the connection closed, or reset before all was read.
DropClosed(c) ==
    /\ Visits(c)
    /\ ~TimedOut(c)
    /\ c \in readable
    /\ c \in eof
    /\ Disconnect(turn)
    /\ UNCHANGED impaired

\* A variant of Receive that leaves a client that was answered so marked.
ReceiveUnmarked(c) ==
    /\ Visits(c)
    /\ ~TimedOut(c)
    /\ c \in readable
    /\ \E n \in 1 .. inbox[c] :
          /\ inbox' = [inbox EXCEPT ![c] = @ - n]
          /\ queue' = [queue EXCEPT ![turn] = @ \o [m \in 1 .. n |-> c]]
    /\ pinging' = pinging \ {c}
    /\ idle' = [idle EXCEPT ![c] = 0]
    /\ send' = [send EXCEPT ![c] = IF @ = -1 THEN 0 ELSE @]
    /\ SendPing(c)
    /\ pc' = "respond"
    /\ UNCHANGED <<backlog, eof, clients, capacity, registered,
                   turn, readable, writable, rc, impaired>>

\* recv() returns some of what is there.  A single character is not a request.
Receive(c) ==
    /\ Visits(c)
    /\ ~TimedOut(c)
    /\ c \in readable
    /\ \E n \in 1 .. inbox[c] :
          /\ inbox' = [inbox EXCEPT ![c] = @ - n]
          /\ \/ queue' = [queue EXCEPT ![turn] = @ \o [m \in 1 .. n |-> c]]
             \/ n = 1 /\ c \in Unreliable /\ UNCHANGED queue
    /\ pinging' = pinging \ {c}
    /\ idle' = [idle EXCEPT ![c] = 0]
    /\ send' = [send EXCEPT ![c] = 0]
    /\ SendPing(c)
    /\ pc' = "respond"
    /\ UNCHANGED <<backlog, eof, clients, capacity, registered,
                   turn, readable, writable, rc, impaired>>

NothingToRead(c) ==
    /\ Visits(c)
    /\ ~TimedOut(c)
    /\ c \notin readable
    /\ pinging' = Pinged(c)
    /\ SendPing(c)
    /\ pc' = "respond"
    /\ UNCHANGED <<backlog, inbox, eof, clients, capacity, queue, registered, send, idle,
                   turn, readable, writable, rc, impaired>>

-----------------------------------------------------------------------------
\* _sendResponse

\* A variant of Proceed that ends the round after each client.
OneClientPerRound == Break

Proceed == pc' = "visit" /\ turn' = turn + 1 /\ UNCHANGED <<readable, writable>>

\* A client that has been answered, or has not sent anything, is passed over,
\* and so is one whose socket was full at the select().
Respond ==
    /\ pc = "respond"
    /\ LET c == clients[turn]
       IN  \/ /\ c \in writable /\ send[c] = 0
              /\ pc' = "drain"
              /\ rc' = -1
              /\ UNCHANGED <<turn, readable, writable, impaired>>
           \/ /\ c \notin writable \/ send[c] # 0
              /\ Proceed
              /\ impaired' = (impaired \/ send[c] = 0)
              /\ UNCHANGED rc
    /\ UNCHANGED <<kernel, users>>

\* A variant of Execute that honours QUIT before the lines behind it.
ExecuteUntilQuit ==
    /\ pc = "drain"
    /\ queue[turn] # <<>>
    /\ \/ /\ queue' = [queue EXCEPT ![turn] = Tail(@)]
          /\ registered' \in {registered, registered \cup {clients[turn]}}
          /\ rc' = 1
          /\ UNCHANGED <<kernel, clients, capacity, send, pinging, idle,
                         pc, turn, readable, writable>>
       \/ Disconnect(turn)
    /\ UNCHANGED impaired

\* A variant of Execute that takes one line per visit.
ExecuteOneLine ==
    /\ pc = "drain"
    /\ queue[turn] # <<>>
    /\ queue' = [queue EXCEPT ![turn] = Tail(@)]
    /\ registered' \in {registered, registered \cup {clients[turn]}}
    /\ Proceed
    /\ rc' = -1
    /\ UNCHANGED <<kernel, clients, capacity, send, pinging, idle, impaired>>

\* A line is executed as a command of the client in the slot, whoever sent it.
\* It may register that client, a PING of a client that has been silent sets
\* PINGING, and what is sent on account of it may fill any socket.  A result of
\* -1, a failed send(), ends the round and leaves the rest of the queue where
\* it is.
Execute ==
    /\ pc = "drain"
    /\ queue[turn] # <<>>
    /\ queue' = [queue EXCEPT ![turn] = Tail(@)]
    /\ LET c == clients[turn]
       IN  /\ registered' \in {registered, registered \cup {c}}
           /\ pinging' \in {pinging, IF c \in registered /\ idle[c] > MaxInactive
                                     THEN pinging \cup {c} ELSE pinging}
    /\ \/ /\ rc' \in {1, -2}
          /\ UNCHANGED <<pc, turn, readable, writable, impaired>>
       \/ /\ clients[turn] \in Unreliable
          /\ Break
          /\ impaired' = TRUE
    /\ MayFill(Open)
    /\ UNCHANGED <<backlog, inbox, eof, clients, capacity, send, idle>>

\* The queue is empty.  rc is still -1 when it was empty from the start, and
\* the round ends as after a failure.
DrainEnd ==
    /\ pc = "drain"
    /\ queue[turn] = <<>>
    /\ IF rc = -2
       THEN Disconnect(turn)
       ELSE /\ send' = [send EXCEPT ![clients[turn]] = 1]
            /\ IF rc = -1 THEN Break ELSE Proceed /\ rc' = -1
            /\ UNCHANGED <<kernel, clients, capacity, queue, registered, pinging, idle>>
    /\ UNCHANGED impaired

-----------------------------------------------------------------------------
Peers == Tick \/ \E c \in Conns : Dial(c) \/ Write(c) \/ Hangup(c) \/ Read(c)

Run ==
    \/ Select
    \/ EndOfRound
    \/ \E c \in Conns :
          DropInactive(c) \/ DropClosed(c) \/ Receive(c) \/ NothingToRead(c)
    \/ Respond
    \/ Execute
    \/ DrainEnd

Next == Run \/ Peers

Spec == Init /\ [][Next]_vars

\* The server thread runs whenever it can, and the clock does not stop.  Of
\* the peers nothing is assumed.
FairSpec == Spec /\ WF_vars(Run) /\ WF_vars(Tick)

-----------------------------------------------------------------------------
TypeOK ==
    /\ clients \in Seq(Conns) /\ Len(clients) <= MaxClients
    /\ capacity \in Nat /\ Len(clients) <= capacity
    /\ \A i, j \in 1 .. Len(clients) : clients[i] = clients[j] => i = j
    /\ queue \in [Slots -> Seq(Conns)]
    /\ \A j \in Slots : j > Len(clients) => queue[j] = <<>>
    /\ backlog \subseteq Conns \ Open
    /\ inbox \in [Conns -> 0 .. MaxInbox]
    /\ registered \cup pinging \cup eof \cup full \cup readable \cup writable \subseteq Open
    /\ pinging \subseteq registered
    /\ send \in [Conns -> {-1, 0, 1}]
    /\ idle \in [Conns -> 0 .. MaxIdle]
    /\ pc \in {"select", "visit", "respond", "drain"}
    /\ turn \in 1 .. MaxClients + 1
    /\ pc \in {"respond", "drain"} => turn <= Len(clients)
    /\ rc \in {-2, -1, 1}
    /\ impaired \in BOOLEAN

\* As long as every socket had room and every send() succeeded, a line is
\* executed as a command of the client that sent it, whoever is disconnected
\* before: queues, which do not move with their clients, are empty then.
LinesStayWithClient ==
    ~impaired => \A j \in 1 .. Len(clients) : \A m \in 1 .. Len(queue[j]) :
                     queue[j][m] = clients[j]

\* No queued line is forgotten: its client is marked as to be answered until
\* the queue is empty, so that the next visit with room executes it.
NoLineForgotten ==
    ~impaired => \A j \in 1 .. Len(clients) :
                     queue[j] # <<>> => send[clients[j]] = 0

\* No queued line is lost either: it is executed as the next one of its client,
\* or goes with the client that is disconnected.  Neither the disconnection of
\* another nor the growth of the vector, which leaves every queue behind, hurts,
\* because queues are empty between two rounds.
NoLineLost ==
    [][~impaired => \A j \in 1 .. Len(clients) :
          \A m \in 1 .. Len(queue[j]) :
             LET c == clients[j]
             IN  \/ \E i \in 1 .. Len(clients') : clients'[i] = c /\ queue'[i] = queue[j]
                 \/ Execute /\ turn = j /\ queue'[j] = Tail(queue[j])
                 \/ \A i \in 1 .. Len(clients') : clients'[i] # c]_vars

\* A round is cut short: a client whose message was blank had nothing to be
\* executed, or a send() failed.  The clients behind are not visited.
CutShort == pc = "drain" /\ pc' = "select" /\ clients' = clients

\* Lines of c are read, or lost with its connection.
Drained(c) == inbox[c]' < inbox[c]

\* Every client is listened to: while a line of it waits some are read sooner or
\* later, or it is disconnected, whatever the others send and whoever comes and
\* goes, unless rounds are cut short again and again.
Heard ==
    \/ []<><<CutShort>>_vars
    \/ \A c \in Conns : <>[](inbox[c] = 0) \/ []<><<Drained(c)>>_vars

\* The client in the first slot is listened to even then: nobody is visited
\* before it.
FirstHeard ==
    \A c \in Conns :
        \/ <>[](Len(clients) > 0 /\ clients[1] = c => inbox[c] = 0)
        \/ []<><<Drained(c)>>_vars

\* A registered client that stays silent is disconnected, unless rounds are
\* cut short again and again, or select() ends up timing out for ever, every
\* socket being full.
SilentDropped ==
    \/ []<><<CutShort>>_vars
    \/ <>[]TimesOut
    \/ \A c \in Conns : (c \in registered /\ idle[c] = MaxIdle)
                            ~> (idle[c] = 0 \/ c \notin Open)

\* A client "disconnected due to inactivity" (Server.cpp:146) has sent nothing
\* that is waiting to be read.
DroppedOnlyIfInactive ==
    [][\A c \in Conns : DropInactive(c) => inbox[c] = 0]_vars
=============================================================================
