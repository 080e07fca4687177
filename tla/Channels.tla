------------------------------ MODULE Channels ------------------------------
(***************************************************************************)
(* Channels and their members: JOIN, PART, KICK, INVITE, TOPIC and MODE    *)
(* (commands/channelCommands.cpp, Server::connectToChannel,                *)
(* Server::handleChanFlags, Channel.cpp) and what Server::_disconnect does *)
(* to the channels of a client that leaves.                                *)
(*                                                                         *)
(* Membership is kept twice, in pointers.  A Channel (a node of the map    *)
(* _channels) holds User* of its members, operators and speakers; a User   *)
(* (an element of the vector _clients) holds the Channel* it has joined.   *)
(* Erasing a User from _clients moves every later User down one slot, so a *)
(* User* is a SLOT of the vector and denotes whichever client is there     *)
(* when it is read.  A vector that grows past its capacity moves all Users *)
(* to another block, and no User* in a channel denotes a client any more.  *)
(* Erasing a channel frees its node, whose address (a ChanId) may be handed *)
(* out again.                                                              *)
(*                                                                         *)
(* Reading a destroyed User or Channel may go unnoticed, as the object     *)
(* matches nothing, or have any other outcome: the absorbing status        *)
(* "undefined", of which nothing is claimed.  Erasing the end() of a       *)
(* vector and reading a missing parameter always lead there.               *)
(*                                                                         *)
(* One action is one command for one channel (a list "#a,#b" is several of *)
(* them in a row), issued by a registered client.                          *)
(***************************************************************************)
EXTENDS Integers, Sequences, FiniteSets

CONSTANTS
    MaxUsers,    \* bound on the users at a time
    Capacities,  \* what reserve(MAX_USERS) may leave, 256 in the code
    MaxChannel,  \* MAX_CHANNEl (10), entries in the channel list of a User
    Names,       \* nicknames that are not empty; each decides a prefix
    Nameless,    \* prefixes !user@host of clients whose nickname is empty
    NoName,      \* of them, the one of a client that has sent nothing yet
    ChanNames,   \* names isValidChannelName accepts and MODE can name ('#')
    ChanIds,     \* addresses of nodes of _channels
    NoChan,      \* the name is not in _channels
    Keys,        \* channel keys
    NoKey,       \* the empty key
    Topics,      \* what TOPIC may make of its words
    NoTopic,     \* the empty topic
    Masks,       \* ban masks, each the set of the prefixes it matches
    LimitArgs,   \* values of the parameter of MODE +l
    MaxBans,     \* bound on the copies of one mask in _banMasks
    Commands     \* commands and mode flags the clients use

ASSUME BoundAssumption ==
    /\ MaxUsers \in Nat
    /\ Capacities \subseteq Nat
    /\ \A c \in Capacities : MaxUsers <= 2 * c   \* it grows once at most
    /\ MaxChannel \in Nat
    /\ MaxBans \in Nat
    /\ LimitArgs \subseteq Int
ASSUME NameAssumption ==
    /\ NoName \in Nameless
    /\ NoChan \notin ChanIds
    /\ NoKey \in Keys
    /\ NoTopic \notin Topics
ASSUME PrefixAssumption ==
    /\ Names \cap Nameless = {}
    /\ Masks \subseteq SUBSET (Names \cup Nameless)

VARIABLES
    capacity, \* _clients.capacity()
    size,     \* _clients.size()
    slot,     \* the prefix of the User in each slot of _clients
    reg,      \* _authorized of the User in each slot
    chans,    \* _info.channels of the User in each slot
    dir,      \* _channels: name -> address
    chan,     \* the Channel at each address
    leaver,   \* the slot of thisClient while _disconnect runs, else NoSlot
    todo,     \* what is left of the list _disconnect walks
    status,   \* "up", "terminated" (uncaught exception) or "undefined"
    past      \* history variable: the events the properties are relative to

vars == <<capacity, size, slot, reg, chans, dir, chan, leaver, todo, status, past>>

NoSlot == 0
Slots == 1 .. MaxUsers

\* A User*: a slot, or an address in the block _clients has outgrown.
Addresses == 1 .. 2 * MaxUsers

\* unsigned short _userLimit
LimitWidth == 65536

Flags == {"PRIVATE", "INVITEONLY", "SECRET", "MODERATED", "TOPICSET"}

\* Events after which less is promised:
\*   "stale"    a channel held a pointer to a User that was moved: it, or an
\*              earlier one, was erased, or the vector has grown
\*   "phantom"  a JOIN that was refused, or repeated, was entered in the list
\*              of the client
\*   "invite"   an INVITE left a pointer to a local variable
\*   "unban"    MODE -b named a mask that is not there
\*   "args"     MODE of a flag that ends in o or v came without its parameter
\*   "noname"   KICK, or MODE +o, -o, +v or -v, came with an empty nickname,
\*              for which the server has found a client
\*   "nobody"   a NOTICE came with a list that names nobody (Messages)
\*   "kick"     a KICK removed the last member of a channel
Events == {"stale", "phantom", "invite", "unban", "args", "noname", "nobody", "kick"}

Channel == [users : Seq(Addresses), ops : SUBSET Addresses,
            voices : SUBSET Addresses, flags : SUBSET Flags,
            limit : 0 .. LimitWidth - 1, key : Keys,
            topic : Topics \cup {NoTopic},
            bans : [Masks -> 0 .. MaxBans], invited : BOOLEAN]

\* A channel as its constructor leaves it: NOMSGOUT is the only flag.
Empty == [users |-> <<>>, ops |-> {}, voices |-> {}, flags |-> {},
          limit |-> 0, key |-> NoKey, topic |-> NoTopic,
          bans |-> [m \in Masks |-> 0], invited |-> FALSE]

Live == {dir[n] : n \in ChanNames} \ {NoChan}
Range(s) == {s[k] : k \in 1 .. Len(s)}

\* The sequence s without its element k.
Without(s, k) ==
    [j \in 1 .. Len(s) - 1 |-> IF j < k THEN s[j] ELSE s[j + 1]]

\* Every User* a channel holds; the pointers of INVITE, which never denote a
\* client, are only known to be there ("invited").
Pointers(ch) == Range(ch.users) \cup ch.ops \cup ch.voices

Init ==
    /\ capacity \in Capacities
    /\ size = 0
    /\ slot = [i \in Slots |-> NoName]
    /\ reg = [i \in Slots |-> FALSE]
    /\ chans = [i \in Slots |-> <<>>]
    /\ dir = [n \in ChanNames |-> NoChan]
    /\ chan = [id \in ChanIds |-> Empty]
    /\ leaver = NoSlot
    /\ todo = <<>>
    /\ status = "up"
    /\ past = {}

-----------------------------------------------------------------------------
\* Reading through pointers

\* A pointer to a destroyed User: behind the last client, or to another block.
Dangling(ptrs) == \E p \in ptrs : p > size

\* isOperator, isSpeaker and connect compare prefixes.
Holds(ptrs, who) == \E p \in ptrs : p <= size /\ slot[p] = who

\* A nickname that is not empty decides the prefix of the one client that has
\* it; here NoName stands for the empty one, which many may have.
Nickname(who) == IF who \in Nameless THEN NoName ELSE who

\* containsNickname, of a channel
HoldsNick(ptrs, who) == \E p \in ptrs : p <= size /\ Nickname(slot[p]) = Nickname(who)

\* The clients behind pointers, by prefix.
Clients(ptrs) == {slot[p] : p \in {q \in ptrs : q <= size}}

\* isOnChannel and removeChannel read the name of each entry of the list until
\* they find the channel id.
DeadEntry(list, id) ==
    \E k \in 1 .. Len(list) :
        list[k] \notin Live /\ \A j \in 1 .. k - 1 : list[j] # id

UndefinedBy(events) ==
    /\ status' = "undefined"
    /\ past' = past \cup events
    /\ UNCHANGED <<capacity, size, slot, reg, chans, dir, chan, leaver, todo>>

Undefined == UndefinedBy({})

\* The server is between two commands and slot i holds a registered client.
Ready(i) ==
    /\ status = "up"
    /\ leaver = NoSlot
    /\ i <= size
    /\ reg[i]

\* Mutant: nobody succeeds the last operator.
WithoutOpOrHeir(ch, i) == [ch EXCEPT !.ops = @ \ {i}]

\* Channel::removeOperator: the last operator is replaced by the first member.
WithoutOp(ch, i) ==
    LET rest == ch.ops \ {i}
    IN  [ch EXCEPT !.ops = IF i \in @ /\ rest = {} /\ ch.users # <<>>
                           THEN {ch.users[1]} ELSE rest]

\* removeOperator and removeSpeaker find the user by its prefix and then its
\* pointer; a prefix without the pointer makes them erase end().
ErasesEnd(ptrs, i) == Holds(ptrs, slot[i]) /\ i \notin ptrs

\* Mutant: the first member is removed, whoever leaves.
DisconnectFirst(ch, i) ==
    IF i \in Range(ch.users)
    THEN [WithoutOp([ch EXCEPT !.users = Without(@, 1)], i) EXCEPT !.voices = @ \ {i}]
    ELSE ch

\* Channel::disconnect removes the pointer i, when it is there.
Disconnect(ch, i) ==
    IF i \in Range(ch.users)
    THEN LET k == CHOOSE k \in 1 .. Len(ch.users) : ch.users[k] = i
             left == [ch EXCEPT !.users = Without(@, k)]
         IN  [WithoutOp(left, i) EXCEPT !.voices = @ \ {i}]
    ELSE ch

\* Channel::disconnect may meet, or does meet, something undefined.
DisconnectMisreads(ch, i) ==
    /\ i \in Range(ch.users)
    /\ \/ Dangling(ch.ops \cup ch.voices)
       \/ ch.ops = {i} /\ Dangling(Range(ch.users))
DisconnectFails(ch, i) ==
    /\ i \in Range(ch.users)
    /\ ErasesEnd(ch.ops, i) \/ ErasesEnd(ch.voices, i)

\* Mutant: a channel is never erased.
PutAlways(n, id, ch) ==
    /\ chan' = [chan EXCEPT ![id] = ch]
    /\ UNCHANGED dir

\* _channels.erase(name) of a channel without members; ch is what the channel
\* at id has become.
PutOrErase(n, id, ch) ==
    IF ch.users = <<>>
    THEN /\ dir' = [dir EXCEPT ![n] = NoChan]
         /\ chan' = [chan EXCEPT ![id] = Empty]
    ELSE /\ chan' = [chan EXCEPT ![id] = ch]
         /\ UNCHANGED dir

\* Clients come and register

\* _clients.push_back
NewConnection ==
    /\ status = "up"
    /\ leaver = NoSlot
    /\ size < MaxUsers
    /\ size < capacity
    /\ size' = size + 1
    /\ UNCHANGED <<capacity, slot, reg, chans, dir, chan, leaver, todo, status, past>>

\* A channel keeps a pointer to slot i, or to a later one.
PointsPast(i) == \E id \in Live : \E p \in Pointers(chan[id]) : p >= i

\* push_back on a full vector: the users are copied to a block twice as large
\* and the channels keep their addresses in the old one.
Grow ==
    /\ status = "up"
    /\ leaver = NoSlot
    /\ size < MaxUsers
    /\ size = capacity
    /\ size' = size + 1
    /\ capacity' = 2 * capacity
    /\ LET Moved(p) == p + MaxUsers
       IN  chan' = [id \in ChanIds |->
               [chan[id] EXCEPT
                   !.users = [k \in 1 .. Len(@) |-> Moved(@[k])],
                   !.ops = {Moved(p) : p \in @},
                   !.voices = {Moved(p) : p \in @}]]
    /\ past' = IF PointsPast(1) THEN past \cup {"stale"} ELSE past
    /\ UNCHANGED <<slot, reg, chans, dir, leaver, todo, status>>

\* NICK, before or after the client has registered; w is the prefix it gets.
\* Registration says when it is accepted and that nobody has the nickname.  It
\* may be empty, when no client is without one; a registered client keeps its
\* user name, which is not empty.
Nick(i, w) ==
    /\ status = "up"
    /\ leaver = NoSlot
    /\ i <= size
    /\ \A j \in 1 .. size : Nickname(slot[j]) # Nickname(w)
    /\ reg[i] => w # NoName
    /\ slot' = [slot EXCEPT ![i] = w]
    /\ UNCHANGED <<capacity, size, reg, chans, dir, chan, leaver, todo, status, past>>

\* USER of a client that has not registered gives it another user name.  The
\* prefix of a client that has a nickname stands for any user name.
User(i, w) ==
    /\ status = "up"
    /\ leaver = NoSlot
    /\ i <= size
    /\ ~reg[i]
    /\ slot[i] \in Nameless
    /\ w \in Nameless \ {NoName}
    /\ slot' = [slot EXCEPT ![i] = w]
    /\ UNCHANGED <<capacity, size, reg, chans, dir, chan, leaver, todo, status, past>>

\* _notifyUsers looks for every client in every channel of the list.
NotifyMisreads(i) ==
    \E k \in 1 .. Len(chans[i]) :
        LET id == chans[i][k]
        IN  id \notin Live \/ Dangling(Range(chan[id].users))

NickMisreads(i) ==
    /\ Ready(i)
    /\ NotifyMisreads(i)
    /\ Undefined

\* _authorization, which asks for a nickname that is not empty
Register(i) ==
    /\ status = "up"
    /\ leaver = NoSlot
    /\ i <= size
    /\ slot[i] \in Names
    /\ reg' = [reg EXCEPT ![i] = TRUE]
    /\ UNCHANGED <<capacity, size, slot, chans, dir, chan, leaver, todo, status, past>>

-----------------------------------------------------------------------------
\* JOIN

\* Mutant: the limit is passed by one.
LimitPassed(ch) == ch.limit # 0 /\ Len(ch.users) > ch.limit

\* The refusals of Channel::connect, in its order.  The key is asked for only
\* when the channel is PRIVATE, and no invitation ever matches.
KeyRefused(ch, k) == "PRIVATE" \in ch.flags /\ k # ch.key
LimitRefused(ch) == ch.limit # 0 /\ Len(ch.users) >= ch.limit
BanRefused(ch, w) == \E m \in Masks : ch.bans[m] > 0 /\ w \in m

Refused(ch, w, k) ==
    \/ KeyRefused(ch, k)
    \/ LimitRefused(ch)
    \/ "INVITEONLY" \in ch.flags
    \/ BanRefused(ch, w)

\* Mutant: a client may be a member twice.
NeverIn(ch, w) == FALSE

AlreadyIn(ch, w) == Holds(Range(ch.users), w)

\* What connect reads: the invitations of an invite-only channel; once nothing
\* refuses the client its members; once it is a new member, every pointer.
ConnectMisreads(ch, w, k) ==
    \/ /\ "INVITEONLY" \in ch.flags
       /\ ch.invited
       /\ ~KeyRefused(ch, k) /\ ~LimitRefused(ch)
    \/ /\ ~Refused(ch, w, k)
       /\ \/ Dangling(Range(ch.users))
          \/ ~AlreadyIn(ch, w) /\ (ch.invited \/ Dangling(Pointers(ch)))

\* _channels[name] = Channel(name, user, key) at an address that is free.
Create(i, n, k) ==
    \E id \in ChanIds \ Live :
        /\ dir' = [dir EXCEPT ![n] = id]
        /\ chan' = [chan EXCEPT ![id] =
               [Empty EXCEPT !.users = <<i>>, !.ops = {i}, !.key = k]]
        /\ chans' = [chans EXCEPT ![i] = Append(@, id)]
        /\ UNCHANGED past

\* Mutant: the channel is not entered in the list of a new member.
EnterUnlisted(i, id, k) ==
    /\ ~Refused(chan[id], slot[i], k)
    /\ ~AlreadyIn(chan[id], slot[i])
    /\ chan' = [chan EXCEPT ![id].users = Append(@, i)]
    /\ UNCHANGED <<chans, dir, past>>

\* connectToChannel returns 1 whatever connect decides, and _cmdJOIN then
\* enters the channel in the list of the client.
Enter(i, id, k) ==
    LET ch == chan[id]
        w == slot[i]
    IN  /\ chans' = [chans EXCEPT ![i] = Append(@, id)]
        /\ IF Refused(ch, w, k) \/ AlreadyIn(ch, w)
           THEN /\ past' = past \cup {"phantom"}
                /\ UNCHANGED chan
           ELSE /\ chan' = [chan EXCEPT ![id].users = Append(@, i)]
                /\ UNCHANGED past
        /\ UNCHANGED dir

Join(i, n, k) ==
    /\ Ready(i)
    /\ "JOIN" \in Commands
    /\ Len(chans[i]) < MaxChannel
    /\ \/ /\ dir[n] = NoChan
          /\ Create(i, n, k)
          /\ UNCHANGED <<capacity, size, slot, reg, leaver, todo, status>>
       \/ /\ dir[n] # NoChan
          /\ Enter(i, dir[n], k)
          /\ UNCHANGED <<capacity, size, slot, reg, leaver, todo, status>>
       \/ /\ dir[n] # NoChan
          /\ ConnectMisreads(chan[dir[n]], slot[i], k)
          /\ Undefined

-----------------------------------------------------------------------------
\* PART and KICK

FirstOf(list, id) ==
    CHOOSE k \in 1 .. Len(list) :
        list[k] = id /\ \A j \in 1 .. k - 1 : list[j] # id

\* Mutant: the channel stays in the list.
KeepListed(i, id) == chans

\* User::removeChannel
Unlist(i, id) == [chans EXCEPT ![i] = Without(@, FirstOf(@, id))]

\* The .at() behind the replies throws for a channel that is not there, and
\* nothing catches it.
PartUnknown(i, n) ==
    /\ Ready(i)
    /\ "PART" \in Commands
    /\ dir[n] = NoChan
    /\ status' = "terminated"
    /\ UNCHANGED <<capacity, size, slot, reg, chans, dir, chan, leaver, todo, past>>

\* A client that is not on the channel is told so, and an empty channel is
\* erased all the same.
PartOther(i, n) ==
    /\ Ready(i)
    /\ "PART" \in Commands
    /\ dir[n] # NoChan
    /\ dir[n] \notin Range(chans[i])
    /\ PutOrErase(n, dir[n], chan[dir[n]])
    /\ UNCHANGED <<capacity, size, slot, reg, chans, leaver, todo, status, past>>

Part(i, n) ==
    /\ Ready(i)
    /\ "PART" \in Commands
    /\ dir[n] # NoChan
    /\ dir[n] \in Range(chans[i])
    /\ ~DisconnectFails(chan[dir[n]], i)
    /\ PutOrErase(n, dir[n], Disconnect(chan[dir[n]], i))
    /\ chans' = Unlist(i, dir[n])
    /\ UNCHANGED <<capacity, size, slot, reg, leaver, todo, status, past>>

PartMisreads(i, n) ==
    /\ Ready(i)
    /\ "PART" \in Commands
    /\ dir[n] # NoChan
    /\ LET ch == chan[dir[n]]
       IN  \/ DeadEntry(chans[i], dir[n])
           \/ /\ dir[n] \in Range(chans[i])
              /\ \/ Dangling(Range(ch.users))
                 \/ DisconnectMisreads(ch, i)
                 \/ DisconnectFails(ch, i)
    /\ Undefined

\* The tests of KICK and of MODE on the client that sends it.
MayCommand(i, id) ==
    /\ Holds(chan[id].ops, slot[i])
    /\ HoldsNick(Range(chan[id].users), slot[i])

\* getUserByName finds the client in slot t, registered or not: the last one
\* with the nickname.  It is empty when the command ends in a blank.
Found(t) == t <= size /\ \A j \in t + 1 .. size : Nickname(slot[j]) # Nickname(slot[t])

\* The event of a command for the client in slot t.
Naming(t) == IF t <= size /\ slot[t] \in Nameless THEN {"noname"} ELSE {}

\* KICK does not erase the channel when it removes the last member.
Kick(i, n, t) ==
    /\ Ready(i)
    /\ "KICK" \in Commands
    /\ dir[n] # NoChan
    /\ MayCommand(i, dir[n])
    /\ Found(t)
    /\ HoldsNick(Range(chan[dir[n]].users), slot[t])
    /\ dir[n] \in Range(chans[t])
    /\ ~DisconnectFails(chan[dir[n]], t)
    /\ LET ch == Disconnect(chan[dir[n]], t)
       IN  /\ chan' = [chan EXCEPT ![dir[n]] = ch]
           /\ past' = past \cup Naming(t) \cup (IF ch.users = <<>> THEN {"kick"} ELSE {})
    /\ chans' = Unlist(t, dir[n])
    /\ UNCHANGED <<capacity, size, slot, reg, dir, leaver, todo, status>>

\* removeChannel erases end() when the client kicked does not list the channel.
KickMisreads(i, n, t) ==
    /\ Ready(i)
    /\ "KICK" \in Commands
    /\ dir[n] # NoChan
    /\ LET ch == chan[dir[n]]
       IN  \/ Dangling(ch.ops)
           \/ Holds(ch.ops, slot[i]) /\ Dangling(Range(ch.users))
           \/ /\ MayCommand(i, dir[n])
              /\ Found(t)
              /\ HoldsNick(Range(ch.users), slot[t])
              /\ \/ dir[n] \notin Range(chans[t])
                 \/ DeadEntry(chans[t], dir[n])
                 \/ DisconnectMisreads(ch, t)
                 \/ DisconnectFails(ch, t)
    /\ UndefinedBy(Naming(t))

-----------------------------------------------------------------------------
\* INVITE

\* The pointer Channel::invite stores is that of a local copy of the User.  The
\* nickname is not the last parameter, and so not empty.
Invite(i, n, t) ==
    /\ Ready(i)
    /\ "INVITE" \in Commands
    /\ t <= size /\ slot[t] \in Names
    /\ dir[n] # NoChan
    /\ dir[n] \in Range(chans[i])
    /\ LET ch == chan[dir[n]]
       IN  /\ ~HoldsNick(Range(ch.users), slot[t])
           /\ "INVITEONLY" \in ch.flags => Holds(ch.ops, slot[i])
    /\ chan' = [chan EXCEPT ![dir[n]].invited = TRUE]
    /\ past' = past \cup {"invite"}
    /\ UNCHANGED <<capacity, size, slot, reg, chans, dir, leaver, todo, status>>

InviteMisreads(i, n) ==
    /\ Ready(i)
    /\ "INVITE" \in Commands
    /\ \/ DeadEntry(chans[i], dir[n])
       \/ /\ dir[n] # NoChan
          /\ dir[n] \in Range(chans[i])
          /\ Dangling(Range(chan[dir[n]].users) \cup chan[dir[n]].ops)
    /\ Undefined

-----------------------------------------------------------------------------
\* TOPIC

\* Mutant: the flag t is not asked for.
TopicUnlocked(ch, w) == HoldsNick(Range(ch.users), w)

\* _cmdTOPIC looks for the nickname of the client among the members, and
\* Channel::setTopic asks for an operator when the flag t is set.
TopicAllowed(ch, w) ==
    /\ HoldsNick(Range(ch.users), w)
    /\ "TOPICSET" \in ch.flags => Holds(ch.ops, w)

Topic(i, n, t) ==
    /\ Ready(i)
    /\ "TOPIC" \in Commands
    /\ dir[n] # NoChan
    /\ TopicAllowed(chan[dir[n]], slot[i])
    /\ chan' = [chan EXCEPT ![dir[n]].topic = t]
    /\ UNCHANGED <<capacity, size, slot, reg, chans, dir, leaver, todo, status, past>>

TopicMisreads(i, n) ==
    /\ Ready(i)
    /\ "TOPIC" \in Commands
    /\ dir[n] # NoChan
    /\ LET ch == chan[dir[n]]
       IN  \/ Dangling(Range(ch.users))
          \/ /\ HoldsNick(Range(ch.users), slot[i])
             /\ "TOPICSET" \in ch.flags
             /\ Dangling(ch.ops)
    /\ Undefined

-----------------------------------------------------------------------------
\* MODE

MayMode(i, n) ==
    /\ Ready(i)
    /\ dir[n] # NoChan
    /\ MayCommand(i, dir[n])

\* handleChanFlags changes one channel and nothing else.
ChangeFor(n, ch, events) ==
    /\ chan' = [chan EXCEPT ![dir[n]] = ch]
    /\ past' = past \cup events
    /\ UNCHANGED <<capacity, size, slot, reg, chans, dir, leaver, todo, status>>

Change(n, ch) == ChangeFor(n, ch, {})

\* +o and +v find their user among all clients, members or not.
ModeAddOp(i, n, t) ==
    /\ "+o" \in Commands
    /\ MayMode(i, n)
    /\ Found(t)
    /\ LET ch == chan[dir[n]]
       IN  ChangeFor(n, IF Holds(ch.ops, slot[t]) THEN ch
                        ELSE [ch EXCEPT !.ops = @ \cup {t}],
                     Naming(t))

ModeRemoveOp(i, n, t) ==
    /\ "-o" \in Commands
    /\ MayMode(i, n)
    /\ Found(t)
    /\ ~ErasesEnd(chan[dir[n]].ops, t)
    /\ ChangeFor(n, WithoutOp(chan[dir[n]], t), Naming(t))

ModeVoice(i, n, t, on) ==
    /\ "v" \in Commands
    /\ MayMode(i, n)
    /\ Found(t)
    /\ LET ch == chan[dir[n]]
       IN  /\ ~on => ~ErasesEnd(ch.voices, t)
           /\ ChangeFor(n, [ch EXCEPT !.voices =
                            IF ~on THEN @ \ {t}
                            ELSE IF Holds(@, slot[t]) THEN @ ELSE @ \cup {t}],
                        Naming(t))

\* The flags p, i, s, m and t; +n and -n change nothing.
ModeFlag(i, n, flag, on) ==
    /\ flag \in Commands
    /\ MayMode(i, n)
    /\ Change(n, [chan[dir[n]] EXCEPT !.flags =
           IF on THEN @ \cup {flag} ELSE @ \ {flag}])

\* setLimit(unsigned short): +l takes atoi of its parameter, -l takes 0.
ModeLimit(i, n, arg) ==
    /\ "l" \in Commands
    /\ MayMode(i, n)
    /\ Change(n, [chan[dir[n]] EXCEPT !.limit = arg % LimitWidth])

\* Channel::setKey does not replace a key by another: -k comes first.
ModeKey(i, n, k) ==
    /\ "k" \in Commands
    /\ MayMode(i, n)
    /\ chan[dir[n]].key = NoKey \/ k = NoKey
    /\ Change(n, [chan[dir[n]] EXCEPT !.key = k])

ModeBan(i, n, m) ==
    /\ "b" \in Commands
    /\ MayMode(i, n)
    /\ chan[dir[n]].bans[m] < MaxBans
    /\ Change(n, [chan[dir[n]] EXCEPT !.bans[m] = @ + 1])

\* Channel::removeBanMask erases one copy of the mask, end() without one.
ModeUnban(i, n, m) ==
    /\ "b" \in Commands
    /\ MayMode(i, n)
    /\ IF chan[dir[n]].bans[m] > 0
       THEN Change(n, [chan[dir[n]] EXCEPT !.bans[m] = @ - 1])
       ELSE UndefinedBy({"unban"})

\* The missing parameter is answered with an error, whose result is not -1:
\* _cmdMODE goes on to read param[2].  It does so for every flag whose second
\* character is o or v, one that handleChanFlags does not know ("MODE #x xo")
\* included.
ModeNoParameter(i, n) ==
    /\ "MODE" \in Commands
    /\ MayMode(i, n)
    /\ UndefinedBy({"args"})

ModeMisreads(i, n) ==
    /\ Ready(i)
    /\ "MODE" \in Commands
    /\ dir[n] # NoChan
    /\ LET ch == chan[dir[n]]
       IN  \/ Dangling(ch.ops)
           \/ /\ Holds(ch.ops, slot[i])
              /\ Dangling(Range(ch.users) \cup ch.voices)
    /\ Undefined

\* -o or -v of a client that has only its prefix in common with an operator or
\* speaker
ModeFails(i, n, t) ==
    /\ MayMode(i, n)
    /\ Found(t)
    /\ \/ "-o" \in Commands /\ ErasesEnd(chan[dir[n]].ops, t)
       \/ "v" \in Commands /\ ErasesEnd(chan[dir[n]].voices, t)
    /\ UndefinedBy(Naming(t))

-----------------------------------------------------------------------------
\* Server::_disconnect, after QUIT or the loss of the connection

\* The other members are told, and thisClient's list is copied.
StartLeave(i) ==
    /\ status = "up"
    /\ leaver = NoSlot
    /\ i <= size
    /\ leaver' = i
    /\ todo' = chans[i]
    /\ UNCHANGED <<capacity, size, slot, reg, chans, dir, chan, status, past>>

StartLeaveMisreads(i) ==
    /\ status = "up"
    /\ leaver = NoSlot
    /\ i <= size
    /\ NotifyMisreads(i)
    /\ Undefined

\* One round of the loop over that copy.
LeaveChannel(n) ==
    /\ status = "up"
    /\ todo # <<>>
    /\ dir[n] = Head(todo)
    /\ ~DisconnectFails(chan[dir[n]], leaver)
    /\ PutOrErase(n, dir[n], Disconnect(chan[dir[n]], leaver))
    /\ todo' = Tail(todo)
    /\ UNCHANGED <<capacity, size, slot, reg, chans, leaver, status, past>>

\* The channel of this round has been erased: nothing happens to any other.
LeaveDeadChannel ==
    /\ status = "up"
    /\ todo # <<>>
    /\ Head(todo) \notin Live
    /\ todo' = Tail(todo)
    /\ UNCHANGED <<capacity, size, slot, reg, chans, dir, chan, leaver, status, past>>

LeaveMisreads ==
    /\ status = "up"
    /\ todo # <<>>
    /\ \/ Head(todo) \notin Live
       \/ DisconnectMisreads(chan[Head(todo)], leaver)
       \/ DisconnectFails(chan[Head(todo)], leaver)
    /\ Undefined

\* Mutant: the destroyed slot keeps its channel list.
EraseUserButList ==
    /\ status = "up"
    /\ leaver # NoSlot
    /\ todo = <<>>
    /\ size' = size - 1
    /\ slot' = [j \in Slots |-> IF j < leaver THEN slot[j]
                               ELSE IF j < size THEN slot[j + 1]
                               ELSE NoName]
    /\ reg' = [j \in Slots |-> IF j < leaver THEN reg[j]
                              ELSE IF j < size THEN reg[j + 1]
                              ELSE FALSE]
    /\ chans' = [j \in Slots |-> IF j < leaver \/ j >= size THEN chans[j]
                                ELSE chans[j + 1]]
    /\ past' = IF PointsPast(leaver) THEN past \cup {"stale"} ELSE past
    /\ leaver' = NoSlot
    /\ UNCHANGED <<capacity, dir, chan, todo, status>>

\* _clients.erase(thisClient): User::operator= moves nickname, registration and
\* channel list of every later client down one slot.  Nobody tells the channels.
EraseUser ==
    /\ status = "up"
    /\ leaver # NoSlot
    /\ todo = <<>>
    /\ size' = size - 1
    /\ slot' = [j \in Slots |-> IF j < leaver THEN slot[j]
                               ELSE IF j < size THEN slot[j + 1]
                               ELSE NoName]
    /\ reg' = [j \in Slots |-> IF j < leaver THEN reg[j]
                              ELSE IF j < size THEN reg[j + 1]
                              ELSE FALSE]
    /\ chans' = [j \in Slots |-> IF j < leaver THEN chans[j]
                                ELSE IF j < size THEN chans[j + 1]
                                ELSE <<>>]
    /\ past' = IF PointsPast(leaver) THEN past \cup {"stale"} ELSE past
    /\ leaver' = NoSlot
    /\ UNCHANGED <<capacity, dir, chan, todo, status>>

-----------------------------------------------------------------------------
Mode(i, n) ==
    \/ \E t \in Slots :
          \/ ModeAddOp(i, n, t)
          \/ ModeRemoveOp(i, n, t)
          \/ ModeFails(i, n, t)
          \/ \E on \in BOOLEAN : ModeVoice(i, n, t, on)
    \/ \E flag \in Flags, on \in BOOLEAN : ModeFlag(i, n, flag, on)
    \/ \E arg \in LimitArgs \cup {0} : ModeLimit(i, n, arg)
    \/ \E k \in Keys : ModeKey(i, n, k)
    \/ \E m \in Masks : ModeBan(i, n, m) \/ ModeUnban(i, n, m)
    \/ ModeNoParameter(i, n)
    \/ ModeMisreads(i, n)

Command(i, n) ==
    \/ \E k \in Keys : Join(i, n, k)
    \/ PartUnknown(i, n)
    \/ PartOther(i, n)
    \/ Part(i, n)
    \/ PartMisreads(i, n)
    \/ \E t \in Slots : Kick(i, n, t) \/ KickMisreads(i, n, t)
    \/ \E t \in Slots : Invite(i, n, t)
    \/ InviteMisreads(i, n)
    \/ \E t \in Topics \cup {NoTopic} : Topic(i, n, t)
    \/ TopicMisreads(i, n)
    \/ Mode(i, n)

Leave ==
    \/ \E i \in Slots : StartLeave(i) \/ StartLeaveMisreads(i)
    \/ \E n \in ChanNames : LeaveChannel(n)
    \/ LeaveDeadChannel
    \/ LeaveMisreads

\* Every step but the one that moves the later users.
Proceed ==
    \/ NewConnection
    \/ Grow
    \/ \E i \in Slots :
          \/ \E w \in Names \cup Nameless : Nick(i, w) \/ User(i, w)
          \/ NickMisreads(i)
          \/ Register(i)
    \/ \E i \in Slots, n \in ChanNames : Command(i, n)
    \/ Leave

Next == Proceed \/ EraseUser

Spec == Init /\ [][Next]_vars

-----------------------------------------------------------------------------
\* Type invariant: slots behind the last client hold no object, and addresses
\* outside the map, which names a node at most once, no channel.
TypeOK ==
    /\ capacity \in Nat
    /\ size <= capacity
    /\ size \in 0 .. MaxUsers
    /\ slot \in [Slots -> Names \cup Nameless]
    /\ reg \in [Slots -> BOOLEAN]
    /\ chans \in [Slots -> Seq(ChanIds)]
    /\ dir \in [ChanNames -> ChanIds \cup {NoChan}]
    /\ chan \in [ChanIds -> Channel]
    /\ leaver \in 0 .. size
    /\ todo \in Seq(ChanIds)
    /\ status \in {"up", "terminated", "undefined"}
    /\ past \subseteq Events
    /\ \A i \in Slots : i > size => slot[i] = NoName /\ ~reg[i] /\ chans[i] = <<>>
    /\ \A m, n \in ChanNames : dir[m] = dir[n] /\ dir[m] # NoChan => m = n
    /\ \A id \in ChanIds \ Live : chan[id] = Empty

\* The members of a channel are distinct pointers, whatever moves in _clients:
\* Channel::disconnect, which goes on iterating after an erase, then never
\* meets the same pointer twice.
MembersDistinct ==
    \A id \in ChanIds : LET users == chan[id].users
                        IN  \A j, k \in 1 .. Len(users) : users[j] = users[k] => j = k

\* Only KICK leaves an empty channel behind: PART and _disconnect erase the
\* channel with its last member.
EmptyOnlyByKick ==
    \A id \in Live : chan[id].users = <<>> => "kick" \in past

\* A channel with members has an operator: removeOperator appoints the first
\* member in place of the last operator.  It fails only for a channel that
\* outlived its last member, when somebody joins it again.
AlwaysAnOperator ==
    \A id \in Live : chan[id].users # <<>> /\ chan[id].ops = {} => "kick" \in past

\* As long as no client was moved under a pointer, every member of a channel is
\* a registered client that lists it, and no operator or speaker dangles.
MembersKnowChannel ==
    status # "undefined" /\ "stale" \notin past =>
        \A id \in Live :
            /\ \A p \in Range(chan[id].users) :
                  p <= size /\ reg[p] /\ id \in Range(chans[p])
            /\ \A p \in Pointers(chan[id]) : p <= size

\* No command is under way, no pointer is stale and no list has a phantom entry.
Faithful == status # "undefined" /\ leaver = NoSlot /\ {"stale", "phantom"} \cap past = {}

\* As long as nothing has made them lie the two records of membership agree: a
\* client lists each channel at most once, and exactly those it is a member of.
RecordsAgree ==
    Faithful =>
        \A i \in 1 .. size :
            /\ \A j, k \in 1 .. Len(chans[i]) : chans[i][j] = chans[i][k] => j = k
            /\ Range(chans[i]) = {id \in Live : i \in Range(chan[id].users)}

\* Power follows membership: KICK and MODE are for clients that list the channel
\* and are its operators, TOPIC is for clients that list it and, when the topic
\* is locked, are its operators.  The code asks for nicknames and prefixes among
\* the pointers of the channel.
PowersByRight ==
    Faithful =>
        \A n \in ChanNames, i \in 1 .. size :
            dir[n] # NoChan /\ reg[i] =>
                LET on == dir[n] \in Range(chans[i])
                    op == slot[i] \in Clients(chan[dir[n]].ops)
                    locked == "TOPICSET" \in chan[dir[n]].flags
                IN  /\ MayCommand(i, dir[n]) <=> on /\ op
                    /\ TopicAllowed(chan[dir[n]], slot[i]) <=> on /\ (locked => op)

\* Nothing undefined is ever reached by another way than the seven events: no
\* other sequence of commands reads a destroyed User or Channel, or erases end().
UndefinedOnlyAfter ==
    status = "undefined" => past \cap (Events \ {"kick"}) # {}

-----------------------------------------------------------------------------
\* The specification Channels implements

Members(n) == IF dir[n] = NoChan THEN {} ELSE Clients(Range(chan[dir[n]].users))
Operators(n) == IF dir[n] = NoChan THEN {} ELSE Clients(chan[dir[n]].ops)

Abstract == INSTANCE Membership WITH
    online <- Clients(Slots) \cap Names,
    members <- [n \in ChanNames |-> Members(n)],
    ops <- [n \in ChanNames |-> Operators(n)],
    sound <- status = "up" /\ past \cap {"stale", "kick", "noname"} = {}

\* Until a client is moved under a pointer, a KICK empties a channel, KICK or
\* MODE comes with an empty nickname, or the server stops, the pointers, lists
\* and addresses behave like plain sets of clients, even of those that give
\* their nickname up: whoever joins is a member until it leaves or is kicked,
\* and a channel with members has an operator.
ImplementsMembership == Abstract!Spec

\* A client stops being a member only by its own PART, by the loss of its
\* connection or QUIT, or by the KICK of an operator on the channel, and stays
\* one under its new name when it changes its nickname; nothing
\* another client does to itself removes it, as long as no pointer is stale.
RemovedOnlyByRight ==
    [][\A n \in ChanNames : \A w \in Members(n) \ Members(n)' :
          \/ "stale" \in past'
          \/ leaver # NoSlot /\ slot[leaver] = w
          \/ \E i \in 1 .. size : slot[i] = w /\ Part(i, n)
          \/ \E i \in 1 .. size : slot[i] = w /\ \E v \in Members(n)' : Nick(i, v)
          \/ \E i, t \in 1 .. size : slot[t] = w /\ Kick(i, n, t)]_vars

\* A client becomes a member only by its own JOIN, when the channel is not
\* there yet or has room for it, is open, bans no such client and, if private,
\* is given its key; or by taking another nickname as a member.  No command of
\* another client, and no leaving or coming of one, puts it on a channel.
AddedOnlyByRight ==
    [][\A n \in ChanNames : \A w \in Members(n)' \ Members(n) :
          \/ "stale" \in past'
          \/ \E i \in 1 .. size : slot[i] \in Members(n) /\ Nick(i, w)
          \/ \E i \in 1 .. size, k \in Keys :
                /\ slot[i] = w
                /\ Join(i, n, k)
                /\ dir[n] # NoChan =>
                      LET ch == chan[dir[n]]
                      IN  /\ ch.limit = 0 \/ Cardinality(Members(n)') <= ch.limit
                          /\ "INVITEONLY" \notin ch.flags
                          /\ \A m \in Masks : w \in m => ch.bans[m] = 0
                          /\ "PRIVATE" \in ch.flags => k = ch.key]_vars

-----------------------------------------------------------------------------
\* Properties the server does not have

\* PART of a channel that does not exist is answered ":No such channel"
\* (utils.cpp:282) and nothing else happens: the server goes on.
ServerStaysUp == status # "terminated"

\* A JOIN answered "Cannot join channel" (utils.cpp:375-387) leaves the client
\* off the channel: what a client lists, it is a member of.
ListedIsMember ==
    (status = "up" /\ "stale" \notin past /\ leaver = NoSlot) =>
        \A i \in 1 .. size : \A id \in Range(chans[i]) :
            id \in Live /\ i \in Range(chan[id].users)

\* When a client leaves the server the memberships of the others stay as they
\* are: nobody who joined a channel finds itself off it (utils.cpp:339) or
\* another one on it.
LeavingConcernsNoOther ==
    [][EraseUser => \A n \in ChanNames : Members(n)' = Members(n) \ {slot[leaver]}]_vars
=============================================================================
