-------------------------- MODULE EventLoopProofs ---------------------------
(***************************************************************************)
(* Proofs about EventLoop, for any sockets, bounds, times and faults.      *)
(***************************************************************************)
EXTENDS EventLoop, TLAPS

ST == INSTANCE SequenceTheorems

-----------------------------------------------------------------------------
\* The vector

Distinct(s) == \A i, j \in 1 .. Len(s) : s[i] = s[j] => i = j
Elements(s) == {s[j] : j \in 1 .. Len(s)}

Erased(s, j) == [i \in 1 .. Len(s) - 1 |-> IF i < j THEN s[i] ELSE s[i + 1]]

\* What erase leaves of a vector without duplicates.
LEMMA ErasedFacts ==
  ASSUME NEW S, NEW s \in Seq(S), Distinct(s), NEW j \in 1 .. Len(s)
  PROVE  /\ Erased(s, j) \in Seq(S) /\ Len(Erased(s, j)) = Len(s) - 1
         /\ Distinct(Erased(s, j))
         /\ Elements(Erased(s, j)) = Elements(s) \ {s[j]}
<1> DEFINE t == Erased(s, j)
           e(i) == IF i < j THEN s[i] ELSE s[i + 1]
<1>1. Len(s) \in Nat /\ Len(s) - 1 \in Nat /\ \A i \in 1 .. Len(s) - 1 : e(i) \in S
  OBVIOUS
<1>2. t \in Seq(S) /\ Len(t) = Len(s) - 1
  <2> HIDE DEF e
  <2>1. t = [i \in 1 .. Len(s) - 1 |-> e(i)]
    BY DEF e, Erased
  <2>2. QED
    BY <1>1, <2>1, ST!IsASeq
<1>3. \A i \in 1 .. Len(s) - 1 : t[i] = IF i < j THEN s[i] ELSE s[i + 1]
  BY DEF Erased
<1> HIDE DEF e, t
<1>4. Distinct(t)
  <2> SUFFICES ASSUME NEW i \in 1 .. Len(t), NEW k \in 1 .. Len(t), t[i] = t[k] PROVE i = k
    BY DEF Distinct
  <2>1. i \in 1 .. Len(s) /\ i + 1 \in 1 .. Len(s) /\ k \in 1 .. Len(s) /\ k + 1 \in 1 .. Len(s)
    BY <1>1, <1>2
  <2>2. QED
    BY <1>1, <1>2, <1>3, <2>1 DEF Distinct
<1>5. ASSUME NEW i \in 1 .. Len(s), i # j PROVE s[i] \in Elements(t)
  <2>1. CASE i < j
    <3>1. i \in 1 .. Len(t) /\ t[i] = s[i]
      BY <1>1, <1>2, <1>3, <2>1
    <3>2. QED
      BY <3>1 DEF Elements
  <2>2. CASE i > j
    <3>1. i - 1 \in 1 .. Len(t) /\ t[i - 1] = s[i]
      BY <1>1, <1>2, <1>3, <2>2
    <3>2. QED
      BY <3>1 DEF Elements
  <2>3. QED
    BY <1>1, <1>5, <2>1, <2>2
<1>6. ASSUME NEW i \in 1 .. Len(t) PROVE t[i] \in Elements(s) /\ t[i] # s[j]
  <2>1. i \in 1 .. Len(s) /\ i + 1 \in 1 .. Len(s)
    BY <1>1, <1>2
  <2>2. t[i] = IF i < j THEN s[i] ELSE s[i + 1]
    BY <1>2, <1>3
  <2>3. t[i] \in Elements(s)
    BY <2>1, <2>2 DEF Elements
  <2>4. t[i] # s[j]
    BY <1>1, <2>1, <2>2 DEF Distinct
  <2>5. QED
    BY <2>3, <2>4
<1>7. Elements(t) = Elements(s) \ {s[j]}
  BY <1>5, <1>6 DEF Elements
<1>8. QED
  BY <1>2, <1>4, <1>7 DEF t

LEMMA AppendedFacts ==
  ASSUME NEW S, NEW s \in Seq(S), Distinct(s), NEW c \in S, c \notin Elements(s)
  PROVE  LET t == Append(s, c)
         IN  /\ t \in Seq(S) /\ Len(t) = Len(s) + 1
             /\ \A i \in 1 .. Len(s) : t[i] = s[i]
             /\ Distinct(t)
             /\ Elements(t) = Elements(s) \cup {c}
<1> DEFINE t == Append(s, c)
<1>1. /\ t \in Seq(S) /\ Len(t) = Len(s) + 1 /\ Len(s) \in Nat
      /\ \A i \in 1 .. Len(s) : t[i] = s[i]
      /\ t[Len(s) + 1] = c
  OBVIOUS
<1> HIDE DEF t
<1>2. Distinct(t)
  <2> SUFFICES ASSUME NEW i \in 1 .. Len(t), NEW k \in 1 .. Len(t), t[i] = t[k] PROVE i = k
    BY DEF Distinct
  <2>1. i \in 1 .. Len(s) \/ i = Len(s) + 1
    BY <1>1
  <2>2. k \in 1 .. Len(s) \/ k = Len(s) + 1
    BY <1>1
  <2>3. QED
    BY <1>1, <2>1, <2>2 DEF Distinct, Elements
<1>3. Elements(t) = Elements(s) \cup {c}
  <2>1. \A i \in 1 .. Len(t) : t[i] \in Elements(s) \cup {c}
    <3> SUFFICES ASSUME NEW i \in 1 .. Len(t) PROVE t[i] \in Elements(s) \cup {c}
      OBVIOUS
    <3>1. i \in 1 .. Len(s) \/ i = Len(s) + 1
      BY <1>1
    <3>2. QED
      BY <1>1, <3>1 DEF Elements
  <2>2. c \in Elements(t) /\ \A i \in 1 .. Len(s) : s[i] \in Elements(t)
    BY <1>1 DEF Elements
  <2>3. QED
    BY <2>1, <2>2 DEF Elements
<1>4. QED
  BY <1>1, <1>2, <1>3 DEF t

-----------------------------------------------------------------------------
\* Types

\* The type invariant, and a capacity that can be doubled.
Typed == TypeOK /\ capacity # 0

LEMMA TypedFacts ==
  ASSUME Typed
  PROVE  /\ clients \in Seq(Conns) /\ Len(clients) \in Nat /\ Len(clients) <= MaxClients
         /\ Distinct(clients) /\ Open = Elements(clients) /\ Open \subseteq Conns
         /\ MaxClients \in Nat /\ MaxInbox \in Nat /\ MaxIdle \in Nat /\ 0 \in 0 .. MaxIdle
         /\ capacity \in Nat /\ capacity # 0 /\ Len(clients) <= capacity
         /\ 1 .. Len(clients) \subseteq Slots
         /\ \A j \in 1 .. Len(clients) : clients[j] \in Open /\ clients[j] \in Conns
<1>1. MaxClients \in Nat /\ MaxInbox \in Nat /\ MaxIdle \in Nat /\ 0 \in 0 .. MaxIdle
  BY BoundAssumption, TimeAssumption DEF MaxIdle
<1>2. clients \in Seq(Conns) /\ Len(clients) \in Nat /\ Len(clients) <= MaxClients
      /\ capacity \in Nat /\ capacity # 0 /\ Len(clients) <= capacity
  BY DEF Typed, TypeOK
<1>3. Distinct(clients) /\ Open = Elements(clients)
  BY DEF Typed, TypeOK, Distinct, Open, Elements
<1>4. \A j \in 1 .. Len(clients) : clients[j] \in Open /\ clients[j] \in Conns
  BY <1>2 DEF Open
<1>5. Open \subseteq Conns
  BY <1>4 DEF Open
<1>6. 1 .. Len(clients) \subseteq Slots
  BY <1>1, <1>2 DEF Slots
<1>7. QED
  BY <1>1, <1>2, <1>3, <1>4, <1>5, <1>6

LEMMA InitTyped == Init => Typed
<1> SUFFICES ASSUME Init PROVE Typed
  OBVIOUS
<1>1. MaxClients \in Nat /\ MaxInbox \in Nat /\ MaxIdle \in Nat /\ Reserved \in Nat \ {0}
  BY BoundAssumption, TimeAssumption DEF MaxIdle
<1>2. clients = <<>> /\ Open = {} /\ clients \in Seq(Conns) /\ Len(clients) = 0
  BY DEF Init, Open
<1>3. queue \in [Slots -> Seq(Conns)] /\ \A j \in Slots : queue[j] = <<>>
  BY DEF Init
<1>4. /\ Len(clients) <= MaxClients /\ \A i, j \in 1 .. Len(clients) : FALSE
      /\ capacity \in Nat /\ Len(clients) <= capacity /\ capacity # 0
  BY <1>1, <1>2 DEF Init
<1>5. /\ inbox \in [Conns -> 0 .. MaxInbox] /\ idle \in [Conns -> 0 .. MaxIdle]
      /\ send \in [Conns -> {-1, 0, 1}] /\ turn \in 1 .. MaxClients + 1
  BY <1>1 DEF Init
<1>6. /\ registered \cup pinging \cup eof \cup full \cup readable \cup writable \subseteq Open /\ pinging \subseteq registered
      /\ backlog \subseteq Conns \ Open
      /\ pc = "select" /\ rc \in {-2, -1, 1} /\ impaired \in BOOLEAN
  BY DEF Init
<1>7. QED
  BY <1>2, <1>3, <1>4, <1>5, <1>6 DEF Typed, TypeOK

\* The peers and the clock change no vector, no queue and not the loop.
LEMMA PeersTyped ==
  ASSUME Typed, Peers
  PROVE  Typed' /\ UNCHANGED <<clients, queue, send, loop, impaired>>
<1>1. Open' = Open /\ UNCHANGED <<clients, queue, send, loop, impaired, capacity, registered, pinging>>
  BY DEF Peers, Tick, Dial, Write, Hangup, Read, users, loop, kernel, Open
<1>2. /\ backlog' \subseteq Conns \ Open /\ eof' \subseteq Open /\ full' \subseteq Open
      /\ inbox' \in [Conns -> 0 .. MaxInbox] /\ idle' \in [Conns -> 0 .. MaxIdle]
  <2>0. /\ backlog \subseteq Conns \ Open /\ eof \subseteq Open /\ full \subseteq Open
        /\ inbox \in [Conns -> 0 .. MaxInbox] /\ idle \in [Conns -> 0 .. MaxIdle]
        /\ MaxInbox \in Nat /\ MaxIdle \in Nat
    BY TypedFacts DEF Typed, TypeOK
  <2>1. CASE Tick
    BY <2>0, <2>1 DEF Tick, kernel
  <2>2. ASSUME NEW c \in Conns, Dial(c)
        PROVE  /\ backlog' \subseteq Conns \ Open /\ eof' = eof /\ inbox' = inbox /\ idle' = idle
               /\ full' = full
    BY <2>0, <2>2 DEF Dial, users
  <2>3. ASSUME NEW c \in Conns, Write(c)
        PROVE  /\ backlog' = backlog /\ eof' = eof /\ idle' = idle /\ full' = full
               /\ inbox' \in [Conns -> 0 .. MaxInbox]
    BY <2>0, <2>3 DEF Write, users
  <2>4. ASSUME NEW c \in Conns, Hangup(c)
        PROVE  /\ backlog' = backlog /\ eof' \subseteq Open /\ inbox' = inbox /\ idle' = idle
               /\ full' = full
    BY <2>0, <2>4 DEF Hangup, users
  <2>5. ASSUME NEW c \in Conns, Read(c)
        PROVE  /\ backlog' = backlog /\ eof' = eof /\ inbox' = inbox /\ idle' = idle
               /\ full' \subseteq Open
    BY <2>0, <2>5 DEF Read, users
  <2>6. QED
    BY <2>0, <2>1, <2>2, <2>3, <2>4, <2>5 DEF Peers
<1>3. QED
  BY <1>1, <1>2 DEF Typed, TypeOK, loop

\* A connection accepted is the last of the vector; when the vector has to grow
\* for it every queue is empty.
LEMMA AcceptFacts ==
  ASSUME Typed, NEW c \in backlog, Accept(c)
  PROVE  /\ clients' \in Seq(Conns) /\ Len(clients') <= MaxClients
         /\ \A j \in 1 .. Len(clients) : clients'[j] = clients[j]
         /\ Len(clients') = Len(clients) + 1
         /\ Distinct(clients') /\ Open' = Open \cup {c} /\ Open \subseteq Open'
         /\ backlog' \subseteq Conns \ Open'
         /\ capacity' \in Nat /\ capacity' # 0 /\ Len(clients') <= capacity'
         /\ queue' = queue \/ queue' = [j \in Slots |-> <<>>]
<1>1. /\ clients \in Seq(Conns) /\ Len(clients) \in Nat /\ Distinct(clients)
      /\ Open = Elements(clients)
      /\ MaxClients \in Nat /\ capacity \in Nat /\ capacity # 0 /\ Len(clients) <= capacity
  BY TypedFacts
<1>2. c \in Conns /\ c \notin Elements(clients) /\ backlog \subseteq Conns \ Open
  BY <1>1 DEF Typed, TypeOK
<1>3. clients' = Append(clients, c) /\ backlog' = backlog \ {c} /\ Len(clients) < MaxClients
  BY DEF Accept
<1>4. /\ clients' \in Seq(Conns) /\ Len(clients') = Len(clients) + 1
      /\ \A j \in 1 .. Len(clients) : clients'[j] = clients[j]
      /\ Distinct(clients') /\ Elements(clients') = Elements(clients) \cup {c}
  BY <1>1, <1>2, <1>3, AppendedFacts
<1>5. Open' = Elements(clients')
  BY DEF Open, Elements
<1>6. CASE Len(clients) = capacity
  <2>1. capacity' = 2 * capacity /\ queue' = [j \in Slots |-> <<>>]
    BY <1>6 DEF Accept
  <2>2. QED
    BY <1>1, <1>2, <1>3, <1>4, <1>5, <1>6, <2>1
<1>7. CASE Len(clients) # capacity
  <2>1. capacity' = capacity /\ queue' = queue
    BY <1>7 DEF Accept
  <2>2. QED
    BY <1>1, <1>2, <1>3, <1>4, <1>5, <1>7, <2>1
<1>8. QED
  BY <1>6, <1>7

LEMMA SelectTyped ==
  ASSUME Typed, Select
  PROVE  Typed'
<1>1. /\ UNCHANGED <<inbox, eof, full, registered, send, pinging, idle, rc, impaired>>
      /\ pc' = "visit" /\ turn' = 1
      /\ readable' \subseteq Open /\ writable' \subseteq Open
  BY DEF Select
<1>2. CASE backlog = {}
  <2>1. UNCHANGED <<backlog, clients, capacity, queue>> /\ Open' = Open
    BY <1>2 DEF Select, Open
  <2>2. turn' \in 1 .. MaxClients + 1
    BY <1>1, TypedFacts
  <2>3. QED
    BY <1>1, <2>1, <2>2 DEF Typed, TypeOK
<1>3. ASSUME NEW c \in backlog, Accept(c) PROVE Typed'
  <2>1. /\ clients' \in Seq(Conns) /\ Len(clients') <= MaxClients
        /\ Len(clients') = Len(clients) + 1
        /\ Distinct(clients') /\ Open \subseteq Open'
        /\ backlog' \subseteq Conns \ Open'
        /\ capacity' \in Nat /\ capacity' # 0 /\ Len(clients') <= capacity'
        /\ queue' = queue \/ queue' = [j \in Slots |-> <<>>]
    BY <1>3, AcceptFacts
  <2>2. queue' \in [Slots -> Seq(Conns)] /\ \A j \in Slots : j > Len(clients') => queue'[j] = <<>>
    <3>1. CASE queue' = queue
      <4>1. ASSUME NEW j \in Slots, j > Len(clients) + 1 PROVE j > Len(clients)
        BY <4>1, TypedFacts DEF Slots
      <4>2. QED
        BY <2>1, <3>1, <4>1 DEF Typed, TypeOK
    <3>2. CASE queue' = [j \in Slots |-> <<>>]
      BY <3>2
    <3>3. QED
      BY <2>1, <3>1, <3>2
  <2>3. turn' \in 1 .. MaxClients + 1
    BY <1>1, TypedFacts
  <2>4. registered' \cup pinging' \cup eof' \cup full' \cup readable' \cup writable' \subseteq Open'
    BY <1>1, <2>1 DEF Typed, TypeOK
  <2>5. \A i, j \in 1 .. Len(clients') : clients'[i] = clients'[j] => i = j
    BY <2>1 DEF Distinct
  <2>6. QED
    BY <1>1, <2>1, <2>2, <2>3, <2>4, <2>5 DEF Typed, TypeOK
<1>4. QED
  BY <1>2, <1>3 DEF Select

\* What _disconnect leaves: the clients behind move down one slot, the queues
\* stay where they are, and the last slot is destroyed.
LEMMA DisconnectFacts ==
  ASSUME Typed, NEW j \in 1 .. Len(clients), Disconnect(j)
  PROVE  /\ clients' \in Seq(Conns) /\ Len(clients') = Len(clients) - 1
         /\ Distinct(clients') /\ Open' = Open \ {clients[j]}
         /\ queue' \in [Slots -> Seq(Conns)]
         /\ \A i \in Slots : queue'[i] = IF i = Len(clients) THEN <<>> ELSE queue[i]
         /\ \A i \in Slots : i > Len(clients') => queue'[i] = <<>>
<1>1. /\ clients \in Seq(Conns) /\ Len(clients) \in Nat /\ Distinct(clients)
      /\ Open = Elements(clients) /\ 1 .. Len(clients) \subseteq Slots
  BY TypedFacts
<1>2. /\ clients' = Erased(clients, j)
      /\ queue' = [queue EXCEPT ![Len(clients)] = <<>>]
  BY DEF Disconnect, Erase, Erased
<1>3. /\ clients' \in Seq(Conns) /\ Len(clients') = Len(clients) - 1
      /\ Distinct(clients') /\ Elements(clients') = Elements(clients) \ {clients[j]}
  BY <1>1, <1>2, ErasedFacts
<1>4. Open' = Elements(clients')
  BY DEF Open, Elements
<1>5. /\ queue \in [Slots -> Seq(Conns)] /\ Len(clients) \in Slots
      /\ \A i \in Slots : i > Len(clients) => queue[i] = <<>>
  <2>1. Len(clients) \in 1 .. Len(clients)
    BY <1>1
  <2>2. Len(clients) \in Slots
    BY <1>1, <2>1
  <2>3. QED
    BY <2>2 DEF Typed, TypeOK
<1>6. /\ queue' \in [Slots -> Seq(Conns)]
      /\ \A i \in Slots : queue'[i] = IF i = Len(clients) THEN <<>> ELSE queue[i]
  BY <1>2, <1>5
<1>7. ASSUME NEW i \in Slots, i > Len(clients') PROVE queue'[i] = <<>>
  <2>1. i = Len(clients) \/ i > Len(clients)
    BY <1>1, <1>3, <1>7 DEF Slots
  <2>2. QED
    BY <1>5, <1>6, <2>1
<1>8. QED
  BY <1>1, <1>3, <1>4, <1>6, <1>7

LEMMA DisconnectTyped ==
  ASSUME Typed, NEW j \in 1 .. Len(clients), Disconnect(j), UNCHANGED impaired
  PROVE  Typed'
<1>1. /\ clients' \in Seq(Conns) /\ Len(clients') = Len(clients) - 1
      /\ Distinct(clients') /\ Open' = Open \ {clients[j]}
      /\ queue' \in [Slots -> Seq(Conns)]
      /\ \A i \in Slots : i > Len(clients') => queue'[i] = <<>>
  BY DisconnectFacts
<1>2. /\ Len(clients) \in Nat /\ Len(clients) <= MaxClients /\ Len(clients) <= capacity
      /\ MaxClients \in Nat /\ MaxInbox \in Nat /\ MaxIdle \in Nat
      /\ capacity \in Nat /\ capacity # 0
      /\ clients[j] \in Conns
  BY TypedFacts
<1> DEFINE c == clients[j]
<1>3. /\ inbox' = [inbox EXCEPT ![c] = 0]
      /\ eof' = eof \ {c}
      /\ full' = full \ {c}
      /\ registered' = registered \ {c}
      /\ send' = [send EXCEPT ![c] = -1]
      /\ pinging' = pinging \ {c}
      /\ idle' = [idle EXCEPT ![c] = 0]
      /\ pc' = "select" /\ turn' = 1 /\ readable' = {} /\ writable' = {} /\ rc' = -1
      /\ UNCHANGED <<backlog, capacity>>
  BY DEF Disconnect, Break
<1> HIDE DEF c
<1>4. /\ inbox' \in [Conns -> 0 .. MaxInbox]
      /\ send' \in [Conns -> {-1, 0, 1}]
      /\ idle' \in [Conns -> 0 .. MaxIdle]
  <2>1. 0 \in 0 .. MaxInbox /\ 0 \in 0 .. MaxIdle /\ -1 \in {-1, 0, 1}
    BY <1>2
  <2>2. /\ inbox \in [Conns -> 0 .. MaxInbox]
        /\ send \in [Conns -> {-1, 0, 1}]
        /\ idle \in [Conns -> 0 .. MaxIdle]
    BY DEF Typed, TypeOK
  <2>3. QED
    BY <1>3, <2>1, <2>2
<1>5. /\ registered' \cup pinging' \cup eof' \cup full' \cup readable' \cup writable' \subseteq Open'
      /\ pinging' \subseteq registered'
      /\ backlog' \subseteq Conns \ Open'
  BY <1>1, <1>3 DEF Typed, TypeOK, c
<1>6. Len(clients') <= MaxClients /\ Len(clients') <= capacity' /\ turn' \in 1 .. MaxClients + 1
  BY <1>1, <1>2, <1>3
<1>7. \A i, k \in 1 .. Len(clients') : clients'[i] = clients'[k] => i = k
  BY <1>1 DEF Distinct
<1>8. QED
  BY <1>1, <1>2, <1>3, <1>4, <1>5, <1>6, <1>7 DEF Typed, TypeOK

\* Only sockets that are connected are filled.
LEMMA MayFillTyped ==
  ASSUME NEW C, C \subseteq Open, MayFill(C), full \subseteq Open
  PROVE  full' \subseteq Open
BY DEF MayFill

LEMMA SendPingTyped ==
  ASSUME NEW c \in Open, SendPing(c), full \subseteq Open
  PROVE  full' \subseteq Open
<1> DEFINE C == IF c \in Pinged(c) \ pinging THEN {c} ELSE {}
<1>1. C \subseteq Open /\ MayFill(C)
  BY DEF SendPing
<1> HIDE DEF C
<1>2. QED
  BY <1>1, MayFillTyped

\* Visits of a client change the vector only by a disconnection.
LEMMA VisitTyped ==
  ASSUME Typed, NEW c \in Conns, Visits(c),
         DropInactive(c) \/ DropClosed(c) \/ Receive(c) \/ NothingToRead(c)
  PROVE  Typed'
<1>1. /\ turn \in 1 .. Len(clients) /\ clients[turn] = c /\ c \in Open
      /\ turn \in Slots /\ MaxClients \in Nat /\ Len(clients) \in Nat /\ Len(clients) <= MaxClients
      /\ MaxIdle \in Nat /\ MaxInbox \in Nat
  <2>1. turn \in 1 .. Len(clients)
    BY TypedFacts DEF Visits, Typed, TypeOK
  <2>2. QED
    BY <2>1, TypedFacts DEF Visits
<1>2. CASE DropInactive(c) \/ DropClosed(c)
  BY <1>1, <1>2, DisconnectTyped DEF DropInactive, DropClosed
<1>3. CASE NothingToRead(c)
  <2>1. /\ UNCHANGED <<backlog, inbox, eof, clients, capacity, queue, registered, send, idle>>
        /\ UNCHANGED <<turn, readable, writable, rc, impaired>>
        /\ pc' = "respond" /\ pinging' = Pinged(c)
    BY <1>3 DEF NothingToRead
  <2>2. Pinged(c) \subseteq registered
    BY DEF Pinged, Typed, TypeOK
  <2>3. Open' = Open
    BY <2>1 DEF Open
  <2>4. full' \subseteq Open
    BY <1>1, <1>3, SendPingTyped DEF NothingToRead, Typed, TypeOK
  <2>5. QED
    BY <1>1, <2>1, <2>2, <2>3, <2>4 DEF Typed, TypeOK
<1>4. CASE Receive(c)
  <2>1. /\ UNCHANGED <<backlog, eof, clients, capacity, registered>>
        /\ UNCHANGED <<turn, readable, writable, rc, impaired>>
        /\ pc' = "respond" /\ pinging' = pinging \ {c}
        /\ idle' = [idle EXCEPT ![c] = 0]
        /\ send' = [send EXCEPT ![c] = 0]
    BY <1>4 DEF Receive
  <2>2. PICK n \in 1 .. inbox[c] :
            /\ inbox' = [inbox EXCEPT ![c] = inbox[c] - n]
            /\ \/ queue' = [queue EXCEPT ![turn] = queue[turn] \o [m \in 1 .. n |-> c]]
               \/ UNCHANGED queue
    BY <1>4 DEF Receive
  <2>3. inbox' \in [Conns -> 0 .. MaxInbox]
    <3>1. inbox[c] \in 0 .. MaxInbox /\ inbox[c] - n \in 0 .. MaxInbox
      BY <1>1 DEF Typed, TypeOK
    <3>2. QED
      BY <2>2, <3>1 DEF Typed, TypeOK
  <2>4. /\ queue' \in [Slots -> Seq(Conns)]
        /\ \A j \in Slots : j # turn => queue'[j] = queue[j]
    <3>1. n \in Nat
      BY <1>1 DEF Typed, TypeOK
    <3>2. [m \in 1 .. n |-> c] \in Seq(Conns)
      BY <3>1, ST!IsASeq
    <3>3. queue[turn] \o [m \in 1 .. n |-> c] \in Seq(Conns)
      BY <1>1, <3>2, ST!ConcatProperties DEF Typed, TypeOK
    <3>4. QED
      BY <2>2, <3>3 DEF Typed, TypeOK
  <2>5. \A j \in Slots : j > Len(clients) => queue'[j] = <<>>
    <3>1. \A j \in Slots : j > Len(clients) => j # turn
      BY <1>1 DEF Slots
    <3>2. QED
      BY <2>4, <3>1 DEF Typed, TypeOK
  <2>6. send' \in [Conns -> {-1, 0, 1}] /\ idle' \in [Conns -> 0 .. MaxIdle]
    BY <1>1, <2>1 DEF Typed, TypeOK
  <2>7. Open' = Open /\ pinging' \subseteq registered
    BY <2>1 DEF Open, Typed, TypeOK
  <2>8. full' \subseteq Open
    BY <1>1, <1>4, SendPingTyped DEF Receive, Typed, TypeOK
  <2>9. /\ registered' \cup pinging' \cup eof' \cup full' \cup readable' \cup writable' \subseteq Open'
        /\ backlog' \subseteq Conns \ Open' /\ pinging' \subseteq registered'
    BY <2>1, <2>7, <2>8 DEF Typed, TypeOK
  <2>10. /\ clients' \in Seq(Conns) /\ Len(clients') <= MaxClients
         /\ capacity' \in Nat /\ capacity' # 0 /\ Len(clients') <= capacity'
         /\ \A i, j \in 1 .. Len(clients') : clients'[i] = clients'[j] => i = j
         /\ turn' \in 1 .. MaxClients + 1 /\ turn' <= Len(clients')
         /\ rc' \in {-2, -1, 1} /\ impaired' \in BOOLEAN
    BY <1>1, <2>1 DEF Typed, TypeOK
  <2>11. /\ queue' \in [Slots -> Seq(Conns)]
         /\ \A j \in Slots : j > Len(clients') => queue'[j] = <<>>
    BY <2>1, <2>4, <2>5
  <2>12. QED
    BY <2>1, <2>3, <2>6, <2>9, <2>10, <2>11 DEF Typed, TypeOK
<1>5. QED
  BY <1>2, <1>3, <1>4

\* _sendResponse changes the vector only by a disconnection.
LEMMA ResponseTyped ==
  ASSUME Typed, EndOfRound \/ Respond \/ Execute \/ DrainEnd
  PROVE  Typed'
<1>1. /\ MaxClients \in Nat /\ Len(clients) \in Nat /\ Len(clients) <= MaxClients
      /\ pc \in {"respond", "drain"} =>
            turn \in 1 .. Len(clients) /\ turn \in Slots /\ clients[turn] \in Open
            /\ clients[turn] \in Conns
  <2>1. pc \in {"respond", "drain"} => turn \in 1 .. Len(clients)
    BY TypedFacts DEF Typed, TypeOK
  <2>2. QED
    BY <2>1, TypedFacts
\* What stays as it is.
<1> DEFINE Kept == /\ UNCHANGED <<backlog, inbox, eof, clients, capacity, idle>>
                   /\ Open' = Open
<1>2. ASSUME Kept,
             queue' \in [Slots -> Seq(Conns)],
             \A j \in Slots : j > Len(clients) => queue'[j] = <<>>,
             registered' \cup pinging' \cup full' \cup readable' \cup writable' \subseteq Open,
             pinging' \subseteq registered',
             send' \in [Conns -> {-1, 0, 1}],
             pc' \in {"select", "visit", "respond", "drain"},
             turn' \in 1 .. MaxClients + 1,
             pc' \in {"respond", "drain"} => turn' <= Len(clients),
             rc' \in {-2, -1, 1}, impaired' \in BOOLEAN
      PROVE  Typed'
  <2>1. /\ clients' \in Seq(Conns) /\ Len(clients') <= MaxClients
        /\ capacity' \in Nat /\ capacity' # 0 /\ Len(clients') <= capacity'
        /\ \A i, j \in 1 .. Len(clients') : clients'[i] = clients'[j] => i = j
        /\ inbox' \in [Conns -> 0 .. MaxInbox] /\ idle' \in [Conns -> 0 .. MaxIdle]
        /\ backlog' \subseteq Conns \ Open' /\ eof' \subseteq Open'
    BY <1>2 DEF Typed, TypeOK
  <2>2. /\ \A j \in Slots : j > Len(clients') => queue'[j] = <<>>
        /\ registered' \cup pinging' \cup full' \cup readable' \cup writable' \subseteq Open'
        /\ pc' \in {"respond", "drain"} => turn' <= Len(clients')
    BY <1>2
  <2>3. QED
    BY <1>2, <2>1, <2>2 DEF Typed, TypeOK
<1>3. /\ queue \in [Slots -> Seq(Conns)]
      /\ \A j \in Slots : j > Len(clients) => queue[j] = <<>>
      /\ registered \cup pinging \cup full \cup readable \cup writable \subseteq Open /\ pinging \subseteq registered
      /\ send \in [Conns -> {-1, 0, 1}] /\ rc \in {-2, -1, 1} /\ impaired \in BOOLEAN
      /\ turn \in 1 .. MaxClients + 1 /\ 1 \in 1 .. MaxClients + 1 /\ turn \in Nat
      /\ pc \in {"select", "visit", "respond", "drain"}
      /\ pc \in {"respond", "drain"} => turn <= Len(clients) /\ turn + 1 \in 1 .. MaxClients + 1
  BY <1>1 DEF Typed, TypeOK
<1>4. CASE EndOfRound
  <2>1. /\ Kept /\ UNCHANGED <<full, queue, registered, pinging, send, impaired>>
        /\ pc' = "select" /\ turn' = 1 /\ readable' = {} /\ writable' = {} /\ rc' = -1
    BY <1>4 DEF EndOfRound, Break, kernel, users, Open
  <2> HIDE DEF Kept
  <2>2. QED
    BY <1>2, <1>3, <2>1
<1>5. CASE Respond
  <2>1. /\ Kept /\ UNCHANGED <<full, queue, registered, pinging, send, readable, writable>>
        /\ pc = "respond"
        /\ \/ pc' = "drain" /\ turn' = turn /\ rc' = -1
           \/ pc' = "visit" /\ turn' = turn + 1 /\ rc' = rc
    BY <1>5 DEF Respond, Proceed, kernel, users, Open
  <2> HIDE DEF Kept
  <2>2. turn' \in 1 .. MaxClients + 1 /\ (pc' \in {"respond", "drain"} => turn' <= Len(clients))
    BY <1>3, <2>1
  <2>3. impaired' = impaired \/ impaired' \in BOOLEAN
    BY <1>5, Zenon DEF Respond
  <2>4. impaired' \in BOOLEAN
    BY <1>3, <2>3
  <2>5. QED
    BY <1>2, <1>3, <2>1, <2>2, <2>4
<1>6. CASE Execute
  <2>1. /\ Kept /\ UNCHANGED send
        /\ pc = "drain" /\ queue[turn] # <<>>
        /\ queue' = [queue EXCEPT ![turn] = Tail(queue[turn])]
        /\ registered' \in {registered, registered \cup {clients[turn]}}
        /\ pinging' \in {pinging, IF clients[turn] \in registered /\ idle[clients[turn]] > MaxInactive
                                  THEN pinging \cup {clients[turn]} ELSE pinging}
        /\ \/ rc' \in {1, -2} /\ UNCHANGED <<pc, turn, readable, writable, impaired>>
           \/ /\ pc' = "select" /\ turn' = 1 /\ readable' = {} /\ writable' = {}
              /\ rc' = -1 /\ impaired' = TRUE
    BY <1>6 DEF Execute, Break, Open
  <2>2. full' \subseteq Open
    BY <1>3, <1>6, MayFillTyped DEF Execute
  <2> HIDE DEF Kept
  <2>3. queue' \in [Slots -> Seq(Conns)] /\ \A j \in Slots : j # turn => queue'[j] = queue[j]
    <3>1. Tail(queue[turn]) \in Seq(Conns)
      BY <1>1, <1>3, <2>1
    <3>2. QED
      BY <1>3, <2>1, <3>1
  <2>4. \A j \in Slots : j > Len(clients) => queue'[j] = <<>>
    <3>1. \A j \in Slots : j > Len(clients) => j # turn
      BY <1>1, <2>1 DEF Slots
    <3>2. QED
      BY <1>3, <2>3, <3>1
  <2>5. registered' \cup pinging' \cup full' \cup readable' \cup writable' \subseteq Open /\ pinging' \subseteq registered'
    BY <1>1, <1>3, <2>1, <2>2
  <2>6. /\ pc' \in {"select", "visit", "respond", "drain"}
        /\ turn' \in 1 .. MaxClients + 1
        /\ pc' \in {"respond", "drain"} => turn' <= Len(clients)
        /\ rc' \in {-2, -1, 1} /\ impaired' \in BOOLEAN
        /\ send' \in [Conns -> {-1, 0, 1}]
    BY <1>3, <2>1
  <2>7. QED
    BY <1>2, <2>1, <2>3, <2>4, <2>5, <2>6
<1>7. CASE DrainEnd
  <2>1. pc = "drain" /\ UNCHANGED impaired
    BY <1>7 DEF DrainEnd
  <2>2. CASE rc = -2
    BY <1>1, <1>7, <2>1, <2>2, DisconnectTyped DEF DrainEnd
  <2>3. CASE rc # -2
    <3>1. /\ Kept /\ UNCHANGED <<full, queue, registered, pinging>>
          /\ send' = [send EXCEPT ![clients[turn]] = 1]
          /\ rc' = -1
          /\ \/ pc' = "select" /\ turn' = 1 /\ readable' = {} /\ writable' = {}
             \/ pc' = "visit" /\ turn' = turn + 1 /\ UNCHANGED <<readable, writable>>
      BY <1>7, <2>3 DEF DrainEnd, Break, Proceed, kernel, Open
    <3> HIDE DEF Kept
    <3>2. send' \in [Conns -> {-1, 0, 1}]
      BY <1>3, <3>1
    <3>3. turn' \in 1 .. MaxClients + 1
      BY <1>3, <2>1, <3>1
    <3>4. pc' \notin {"respond", "drain"} /\ pc' \in {"select", "visit", "respond", "drain"}
      BY <3>1
    <3>5. registered' \cup pinging' \cup full' \cup readable' \cup writable' \subseteq Open /\ pinging' \subseteq registered'
      BY <1>3, <3>1
    <3>6. QED
      BY <1>2, <1>3, <2>1, <3>1, <3>2, <3>3, <3>4, <3>5
  <2>4. QED
    BY <2>2, <2>3
<1>8. QED
  BY <1>4, <1>5, <1>6, <1>7

LEMMA StutterTyped == ASSUME Typed, UNCHANGED vars PROVE Typed'
<1>1. /\ UNCHANGED <<backlog, inbox, eof, full, clients, capacity, queue, registered, send, pinging, idle>>
      /\ UNCHANGED <<pc, turn, readable, writable, rc, impaired>>
      /\ Open' = Open
  BY DEF vars, kernel, users, loop, Open
<1>2. QED
  BY <1>1 DEF Typed, TypeOK

LEMMA TypedInductive == Spec => []Typed
<1>1. Init => Typed
  BY InitTyped
<1>2. Typed /\ [Next]_vars => Typed'
  BY StutterTyped, PeersTyped, SelectTyped, VisitTyped, ResponseTyped DEF Next, Run,
     DropInactive, DropClosed, Receive, NothingToRead
<1>3. QED
  BY <1>1, <1>2, PTL DEF Spec

\* In every reachable state the vector holds different sockets, the slots behind
\* it are empty, flags belong to connected clients, and the loop, when it
\* responds to a client, points to one: disconnections and growth included.
THEOREM TypeCorrect == Spec => []TypeOK
BY TypedInductive, PTL DEF Typed

-----------------------------------------------------------------------------
\* Queues

\* Until a fault, only the client that is being visited has lines in its queue,
\* they are its own, and it is marked as to be answered.
Quiet ==
    ~impaired =>
        /\ \A j \in Slots : queue[j] # <<>> => pc \in {"respond", "drain"} /\ j = turn
        /\ pc \in {"respond", "drain"} =>
              /\ \A m \in 1 .. Len(queue[turn]) : queue[turn][m] = clients[turn]
              /\ queue[turn] # <<>> => send[clients[turn]] = 0

Empty == \A j \in Slots : queue[j] = <<>>

\* An invariant as strong needs no more than empty queues once a visit is over.
LEMMA QuietWhenEmpty ==
  ASSUME Empty', pc' \in {"select", "visit"}
  PROVE  Quiet'
BY DEF Empty, Quiet

LEMMA VisitedSlot ==
  ASSUME Typed
  PROVE  /\ pc \in {"respond", "drain"} => turn \in 1 .. Len(clients) /\ turn \in Slots
         /\ \A c \in Conns : Visits(c) =>
               /\ turn \in 1 .. Len(clients) /\ turn \in Slots
               /\ clients[turn] = c /\ pc = "visit"
<1>1. 1 .. Len(clients) \subseteq Slots /\ Len(clients) \in Nat /\ MaxClients \in Nat
  BY TypedFacts
<1>2. pc \in {"respond", "drain"} => turn \in 1 .. Len(clients)
  BY <1>1 DEF Typed, TypeOK
<1>3. \A c \in Conns : Visits(c) => /\ turn \in 1 .. Len(clients)
                                    /\ clients[turn] = c /\ pc = "visit"
  BY <1>1 DEF Visits, Typed, TypeOK
<1>4. QED
  BY <1>1, <1>2, <1>3

LEMMA TailFacts ==
  ASSUME NEW S, NEW s \in Seq(S), s # <<>>
  PROVE  /\ Len(Tail(s)) = Len(s) - 1 /\ Len(s) \in Nat
         /\ \A m \in 1 .. Len(Tail(s)) : m + 1 \in 1 .. Len(s) /\ Tail(s)[m] = s[m + 1]
OBVIOUS

LEMMA DisconnectQuiet ==
  ASSUME Typed, Empty, NEW j \in 1 .. Len(clients), Disconnect(j)
  PROVE  Quiet'
<1>1. Empty'
  BY DisconnectFacts DEF Empty
<1>2. pc' = "select"
  BY DEF Disconnect, Break
<1>3. QED
  BY <1>1, <1>2, QuietWhenEmpty

LEMMA QuietStep ==
  ASSUME Typed, Quiet, Next
  PROVE  Quiet'
<1>1. CASE impaired'
  BY <1>1 DEF Quiet
<1>2. CASE ~impaired'
  <2>1. ASSUME pc \notin {"respond", "drain"}, ~impaired PROVE Empty
    BY <2>1 DEF Quiet, Empty
  <2>2. CASE Peers
    <3>1. UNCHANGED <<clients, queue, send, pc, turn, impaired>>
      BY <2>2, PeersTyped DEF loop
    <3>2. QED
      BY <3>1 DEF Quiet
  <2>3. CASE Select
    <3>1. ~impaired /\ pc = "select" /\ pc' = "visit"
      BY <1>2, <2>3 DEF Select
    <3>2. Empty
      BY <2>1, <3>1
    <3>3. queue' = queue \/ queue' = [j \in Slots |-> <<>>]
      BY <2>3 DEF Select, Accept
    <3>4. Empty'
      BY <3>2, <3>3 DEF Empty
    <3>5. QED
      BY <3>1, <3>4, QuietWhenEmpty
  <2>4. CASE EndOfRound
    <3>1. ~impaired /\ pc = "visit" /\ pc' = "select" /\ queue' = queue
      BY <1>2, <2>4 DEF EndOfRound, Break, users
    <3>2. Empty'
      BY <2>1, <3>1 DEF Empty
    <3>3. QED
      BY <3>1, <3>2, QuietWhenEmpty
  <2>5. ASSUME NEW c \in Conns, DropInactive(c) \/ DropClosed(c) PROVE Quiet'
    <3>1. ~impaired /\ Visits(c) /\ Disconnect(turn)
      BY <1>2, <2>5 DEF DropInactive, DropClosed
    <3>2. turn \in 1 .. Len(clients) /\ pc = "visit"
      BY <3>1, VisitedSlot
    <3>3. Empty
      BY <2>1, <3>1, <3>2
    <3>4. QED
      BY <3>1, <3>2, <3>3, DisconnectQuiet
  <2>6. ASSUME NEW c \in Conns, NothingToRead(c) PROVE Quiet'
    <3>1. ~impaired /\ Visits(c) /\ pc' = "respond" /\ UNCHANGED <<queue, turn>>
      BY <1>2, <2>6 DEF NothingToRead
    <3>2. turn \in Slots /\ pc = "visit"
      BY <3>1, VisitedSlot
    <3>3. Empty
      BY <2>1, <3>1, <3>2
    <3>4. Empty' /\ queue'[turn'] = <<>> /\ Len(queue'[turn']) = 0
      BY <3>1, <3>2, <3>3 DEF Empty
    <3>5. QED
      BY <3>4 DEF Quiet, Empty
  <2>7. ASSUME NEW c \in Conns, Receive(c) PROVE Quiet'
    <3>1. /\ ~impaired /\ Visits(c) /\ pc' = "respond" /\ UNCHANGED <<turn, clients>>
          /\ send' = [send EXCEPT ![c] = 0]
      BY <1>2, <2>7 DEF Receive
    <3>2. turn \in Slots /\ clients[turn] = c /\ pc = "visit"
      BY <3>1, VisitedSlot
    <3>3. queue \in [Slots -> Seq(Conns)] /\ send \in [Conns -> {-1, 0, 1}]
          /\ inbox \in [Conns -> 0 .. MaxInbox] /\ MaxInbox \in Nat
      BY TypedFacts DEF Typed, TypeOK
    <3>4. Empty
      BY <2>1, <3>1, <3>2
    <3>5. PICK n \in 1 .. inbox[c] :
              \/ queue' = [queue EXCEPT ![turn] = queue[turn] \o [m \in 1 .. n |-> c]]
              \/ UNCHANGED queue
      BY <2>7 DEF Receive
    <3> DEFINE lines == [m \in 1 .. n |-> c]
    <3>6. n \in Nat /\ lines \in Seq(Conns) /\ Len(lines) = n /\ \A m \in 1 .. n : lines[m] = c
      <4>1. n \in Nat
        BY <3>3
      <4>2. lines \in Seq(Conns) /\ Len(lines) = n
        BY <4>1, ST!IsASeq
      <4>3. QED
        BY <4>1, <4>2
    <3>7. <<>> \o lines = lines
      BY <3>6
    <3>8. /\ \A j \in Slots : j # turn => queue'[j] = <<>>
          /\ queue'[turn] = lines \/ queue'[turn] = <<>>
      <4>1. queue[turn] = <<>>
        BY <3>2, <3>4 DEF Empty
      <4> HIDE DEF lines
      <4>2. queue' = [queue EXCEPT ![turn] = <<>> \o lines] \/ queue' = queue
        BY <3>5, <4>1 DEF lines
      <4>3. QED
        BY <3>2, <3>3, <3>4, <3>7, <4>1, <4>2 DEF Empty
    <3> HIDE DEF lines
    <3>9. send'[c] = 0
      BY <3>1, <3>3
    <3>10. \A m \in 1 .. Len(queue'[turn]) : queue'[turn][m] = c
      <4>1. CASE queue'[turn] = lines
        BY <3>6, <4>1
      <4>2. CASE queue'[turn] = <<>>
        BY <4>2
      <4>3. QED
        BY <3>8, <4>1, <4>2
    <3>11. QED
      BY <3>1, <3>2, <3>8, <3>9, <3>10 DEF Quiet
  <2>8. CASE Respond
    <3>1. /\ pc = "respond" /\ UNCHANGED <<queue, clients, send>>
          /\ \/ pc' = "drain" /\ UNCHANGED <<turn, impaired>>
             \/ pc' = "visit" /\ impaired' = (impaired \/ send[clients[turn]] = 0)
      BY <2>8, Zenon DEF Respond, Proceed, users
    <3>2. CASE pc' = "drain" /\ UNCHANGED <<turn, impaired>>
      BY <1>2, <3>1, <3>2 DEF Quiet
    <3>3. CASE pc' = "visit" /\ impaired' = (impaired \/ send[clients[turn]] = 0)
      <4>1. ~impaired /\ send[clients[turn]] # 0
        BY <1>2, <3>3, Zenon
      <4>2. Empty'
        BY <1>2, <3>1, <4>1 DEF Quiet, Empty
      <4>3. QED
        BY <3>3, <4>2, QuietWhenEmpty
    <3>4. QED
      BY <3>1, <3>2, <3>3
  <2>9. CASE Execute
    <3>1. /\ pc = "drain" /\ queue[turn] # <<>>
          /\ queue' = [queue EXCEPT ![turn] = Tail(queue[turn])]
          /\ UNCHANGED <<pc, turn, impaired, clients, send>>
      BY <1>2, <2>9 DEF Execute
    <3>2. turn \in Slots /\ queue \in [Slots -> Seq(Conns)]
      BY <3>1, VisitedSlot DEF Typed, TypeOK
    <3>3. \A m \in 1 .. Len(Tail(queue[turn])) :
              m + 1 \in 1 .. Len(queue[turn]) /\ Tail(queue[turn])[m] = queue[turn][m + 1]
      BY <3>1, <3>2, TailFacts
    <3>4. \A j \in Slots : queue'[j] = IF j = turn THEN Tail(queue[turn]) ELSE queue[j]
      BY <3>1, <3>2
    <3>5. /\ \A m \in 1 .. Len(queue[turn]) : queue[turn][m] = clients[turn]
          /\ send[clients[turn]] = 0
          /\ \A j \in Slots : queue[j] # <<>> => j = turn
      BY <1>2, <3>1 DEF Quiet
    <3>6. \A m \in 1 .. Len(queue'[turn]) : queue'[turn][m] = clients[turn]
      BY <3>2, <3>3, <3>4, <3>5
    <3>7. QED
      BY <3>1, <3>2, <3>4, <3>5, <3>6 DEF Quiet
  <2>10. CASE DrainEnd
    <3>1. pc = "drain" /\ queue[turn] = <<>> /\ ~impaired
      BY <1>2, <2>10 DEF DrainEnd
    <3>2. Empty /\ turn \in 1 .. Len(clients)
      BY <3>1, VisitedSlot DEF Quiet, Empty
    <3>3. CASE rc = -2
      BY <2>10, <3>2, <3>3, DisconnectQuiet DEF DrainEnd
    <3>4. CASE rc # -2
      <4>1. queue' = queue /\ pc' \in {"select", "visit"}
        BY <2>10, <3>4 DEF DrainEnd, Break, Proceed
      <4>2. Empty'
        BY <3>2, <4>1 DEF Empty
      <4>3. QED
        BY <4>1, <4>2, QuietWhenEmpty
    <3>5. QED
      BY <3>3, <3>4
  <2>11. QED
    BY <2>2, <2>3, <2>4, <2>5, <2>6, <2>7, <2>8, <2>9, <2>10 DEF Next, Run
<1>3. QED
  BY <1>1, <1>2

LEMMA QuietInductive == Spec => []Quiet
<1>1. Init => Quiet
  BY DEF Init, Quiet
<1>2. Typed /\ Quiet /\ [Next]_vars => Quiet'
  <2>1. ASSUME Quiet, UNCHANGED vars PROVE Quiet'
    BY <2>1 DEF vars, users, loop, Quiet
  <2>2. QED
    BY <2>1, QuietStep
<1>3. QED
  BY <1>1, <1>2, TypedInductive, PTL DEF Spec

\* Until a send() has failed or a socket was full, every line in the queue of a
\* slot was sent by the client in that slot, whatever _clients.erase has moved.
THEOREM OwnLines == Spec => []LinesStayWithClient
<1>1. Typed /\ Quiet => LinesStayWithClient
  <2> SUFFICES ASSUME Typed, Quiet, ~impaired, NEW j \in 1 .. Len(clients),
                      NEW m \in 1 .. Len(queue[j])
               PROVE  queue[j][m] = clients[j]
    BY DEF LinesStayWithClient
  <2>1. j \in Slots /\ queue[j] # <<>>
    BY TypedFacts
  <2>2. j = turn /\ pc \in {"respond", "drain"}
    BY <2>1 DEF Quiet
  <2>3. QED
    BY <2>2 DEF Quiet
<1>2. QED
  BY <1>1, TypedInductive, QuietInductive, PTL

\* Until then, a client with lines in its queue is marked as to be answered, so
\* that _sendResponse does not pass it over.
THEOREM QueuedIsMarked == Spec => []NoLineForgotten
<1>1. Typed /\ Quiet => NoLineForgotten
  <2> SUFFICES ASSUME Typed, Quiet, ~impaired, NEW j \in 1 .. Len(clients), queue[j] # <<>>
               PROVE  send[clients[j]] = 0
    BY DEF NoLineForgotten
  <2>1. j \in Slots
    BY TypedFacts
  <2>2. QED
    BY <2>1 DEF Quiet
<1>2. QED
  BY <1>1, TypedInductive, QuietInductive, PTL

\* Until then, no step loses a queued line: neither a disconnection, which moves
\* the clients and not their queues, nor the growth of the vector, which copies
\* no queue.
THEOREM QueuesKept == Spec => NoLineLost
<1>1. ASSUME Typed, Quiet, ~impaired, [Next]_vars,
             NEW j \in 1 .. Len(clients), NEW m \in 1 .. Len(queue[j])
      PROVE  \/ \E i \in 1 .. Len(clients') : clients'[i] = clients[j] /\ queue'[i] = queue[j]
             \/ Execute /\ turn = j /\ queue'[j] = Tail(queue[j])
             \/ \A i \in 1 .. Len(clients') : clients'[i] # clients[j]
  <2>1. j \in Slots /\ queue[j] # <<>>
    BY <1>1, TypedFacts
  <2>2. j = turn /\ pc \in {"respond", "drain"}
    BY <1>1, <2>1 DEF Quiet
  <2>3. ASSUME clients' = clients, queue' = queue
        PROVE  \E i \in 1 .. Len(clients') : clients'[i] = clients[j] /\ queue'[i] = queue[j]
    BY <2>3
  <2>4. CASE UNCHANGED vars
    BY <2>3, <2>4 DEF vars, users
  <2>5. CASE Peers
    BY <1>1, <2>3, <2>5, PeersTyped
  <2>6. CASE Respond
    BY <2>3, <2>6 DEF Respond, users
  <2>7. CASE Execute
    <3>1. queue' = [queue EXCEPT ![turn] = Tail(queue[turn])] /\ queue \in [Slots -> Seq(Conns)]
      BY <1>1, <2>7 DEF Execute, Typed, TypeOK
    <3>2. QED
      BY <2>1, <2>2, <2>7, <3>1
  <2>8. ~DrainEnd
    BY <2>1, <2>2 DEF DrainEnd
  <2>9. ~Select /\ ~EndOfRound
    BY <2>2 DEF Select, EndOfRound
  <2>10. ASSUME NEW c \in Conns
         PROVE  ~(DropInactive(c) \/ DropClosed(c) \/ Receive(c) \/ NothingToRead(c))
    BY <2>2 DEF DropInactive, DropClosed, Receive, NothingToRead, Visits
  <2>11. QED
    BY <1>1, <2>4, <2>5, <2>6, <2>7, <2>8, <2>9, <2>10 DEF Next, Run
<1>2. Typed /\ Quiet /\ [Next]_vars =>
          (~impaired => \A j \in 1 .. Len(clients) :
              \A m \in 1 .. Len(queue[j]) :
                 LET c == clients[j]
                 IN  \/ \E i \in 1 .. Len(clients') : clients'[i] = c /\ queue'[i] = queue[j]
                     \/ Execute /\ turn = j /\ queue'[j] = Tail(queue[j])
                     \/ \A i \in 1 .. Len(clients') : clients'[i] # c)
  BY <1>1
<1>3. QED
  BY <1>2, TypedInductive, QuietInductive, PTL DEF Spec, NoLineLost

=============================================================================
