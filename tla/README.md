# A TLA+ verification of IRC21

IRC21 is an IRC server in C++98: one process, one thread, a `select()` loop,
a vector of users and a map of channels. This directory models what the server
*does*, from its source, checks the models with TLC on small instances and
proves nearly all of their safety with TLAPS for every instance.

Paths below are relative to `src/`.

## 1. The system

### Components, their state and operations

| Component | State in the code | Operations |
|---|---|---|
| **Registration** (`commands/registerCommands.cpp`, `Command.cpp`, `UserHistory.cpp`) | `User::_info` (nickname, user name), `_pwd`, `_authorized`; `_historyList` | PASS, NICK, USER, QUIT, OPER, the gate `_executeCommand` puts in front of every other command |
| **Channels** (`Channel.cpp`, `commands/channelCommands.cpp`, `Server::connectToChannel`, `handleChanFlags`, `_disconnect`) | `Server::_channels`; in each `Channel` vectors of `User*` (members, operators, speakers, invited), ban masks, key, limit, flags; in each `User` a vector of `Channel*` | JOIN, PART, KICK, INVITE, MODE, TOPIC, NAMES, LIST, leaving the server |
| **Event loop** (`Server::run`, `newConnection`, `_checkConnect`, `_reciveRequest`, `_sendResponse`, `_disconnect`) | `_clients`, the descriptor sets, `_raw_requests` (queue of lines), `_send`, `PINGING`, `_last_activity` | accept, PING and time limits, recv, draining a queue, disconnecting |
| **Wildcard masks** (`utils::isEqualToRegex`, copied in `Command`) | four pointers into two strings | comparing a mask with a text, for bans, WHO and WHOIS |
| **Messages** (`commands/userCommands.cpp`) | away texts | PRIVMSG, NOTICE, AWAY |
| **Queries** | none | WHO, WHOIS, WHOWAS, NAMES, LIST, ISON, USERHOST, VERSION, INFO, ADMIN, TIME |
| **Topic and user modes** | topic, flags of a user | TOPIC, MODE on a nickname, WALLOPS |
| **Tokens** (`utils::split`, `User::requestToVector`) | none | cutting data into lines, lines into parameters |
| **Replies** (`utils.cpp`) | none | wording and sending replies |
| **Start** (`main.cpp`, `Server::Server`) | none that changes | arguments, socket, bind, listen |

### How they interact

`Server::run` is the only caller. In each round it accepts at most one
connection and visits the users in the order of the vector: `_checkConnect`
(time limits), `_reciveRequest` (data is cut into lines, queued in the `User`),
`_sendResponse` (every queued line goes to a fresh `Command`). A handler works
directly on the shared vector and map. It reports by a number: -1 ends the
round, -2 asks `run` to call `_disconnect`, which takes the user off its
channels and erases it from the vector. There are no locks and no callbacks;
all that runs besides the thread are the peers, the kernel and the clock.

### What is hard about it

- **Pointers into a vector.** Channels keep `User*`; `_clients.erase`
  (`Server.cpp:101`) assigns every later user to the slot below. Pointers then
  denote other clients, and the last ones a destroyed object.
- **Two records of membership.** The channel's `User*` and the user's
  `Channel*` are updated by different functions, which do not tell each other
  whether they refused.
- **A result that is overwritten.** The result of each line of a batch
  replaces the one before: -2 counts only when it comes last.
- **Queues that stay behind.** `User::operator=` does not copy
  `_raw_requests`, so that after an erase a slot keeps a queue and the
  client moves on.
- **Rounds cut short.** A failed `send()`, a blank message or a disconnection
  ends the round for all clients that come later in the vector.
- **Two clocks.** The time limit is tested before the socket is read.
- **A vector that grows.** Past its capacity of 256, `push_back`
  (`Server.cpp:37`) moves every user: all pointers dangle, all queues stay behind.
- **Packets taken for lines.** Nothing is kept of a line that has not arrived
  in full (`Server.cpp:235`), and a blank in the wrong place raises an
  exception nothing catches (`User.cpp:76`, `otherCommands.cpp:104`).
- **Tests by name, deliveries by pointer.** A message, a query or a TOPIC is
  allowed by the nickname of the sender and served through `User*` or through
  another client's list of `Channel*`.
- **Clients without a name.** A blank at the end of a line is an empty last parameter
  (`User.cpp:76`). NICK accepts an empty nickname (`registerCommands.cpp:18`), also of a
  client on channels, and KICK and MODE find clients by it (`Server.cpp:365`): several may
  have it, and the last is taken.
- **Any order of legal commands**: NICK, USER and PASS several times; an operator
  who leaves, is kicked or resigns; the last member of a channel.

The list with source lines and the properties that cover each is under
`hazards` in `PROJECT.json`.

### What makes each component correct

- Registration: no two clients with one nickname; nobody registered without
  the password; registration is final; QUIT is final.
- Channels: the two records agree; pointers denote the clients they were
  taken from; a channel with members has an operator; only one's own PART,
  departure or an operator's KICK ends a membership; nothing destroyed is read.
- Event loop: a line is executed as its sender's; no line is forgotten; every
  client is listened to; silent clients, and only those, are dropped.
- Wildcard: stays inside its strings, ends, and decides what '*' means.
- Messages and queries: one copy for everybody a message is for and none for
  others; what is said of a secret channel is said to its members; who is shown
  as a member is one.
- Tokens: as many requests as lines, however they arrive, when packets end where
  lines do; no letter lost where they do not; loops that end.

## 2. The modules

| Module | Models | Abstract or composed with |
|---|---|---|
| `Registration` | sessions and the draining of one queue | |
| `Channels` | membership in pointers | implements `Membership` |
| `Membership` | the abstract specification: members and operators as sets | |
| `Messages` | PRIVMSG, NOTICE, WHO, WHOIS, NAMES, LIST, user modes | extends `Channels`, with its variables and steps |
| `EventLoop` | `Server::run` with peers, clock and faults | |
| `Tokens` | from packets to requests: `_reciveRequest`, `split`, `requestToVector` | a definition of lines and words |
| `Wildcard` | `isEqualToRegex`, one action per turn of its loop | a definition of "fits" |
| `RegistrationProofs`, `ChannelsProofs`, `EventLoopProofs`, `WildcardProofs`, `TokensProofs` | theorems about the module of that name | |
| `MembershipProofs` | that `Channels` implements `Membership` | extends `ChannelsProofs` |
| `MessagesProofs` | theorems about `Messages` | extends `MembershipProofs` |
| `SequenceLemmas` | lemmas on least numbers, on strings that are cut and joined, and on `FlattenSeq` | |
| `MCRegistration`, `MCChannels`, `MCMessages`, `MCEventLoop`, `MCTokens`, `MCWildcard` | instances for TLC | |

The modules meet where the code does. `EventLoop` abstracts a line to what its
handler returns; `Registration` and `Channels` have one action per line.
`Registration` says when NICK succeeds, `Channels` takes it as given and keeps
the slot a nickname sits in. `Tokens` says what a line is, and under which
packets the whole lines of the other modules are what the program sees
(`WholeLines`). `Messages` adds one variable to `Channels`, and steps in
conjunction with it.

### Registration

`pos` is a client's slot of `_clients`, `nick`, `user`, `pwd`, `auth` are the
fields of its `User`, `pending` the number of lines in the queue of each *slot*,
`worker` and `rc` the client and the local of the running `_sendResponse`.
`Receive`, `StartResponse`, `Command`, `EndResponse` are the steps of one visit;
while `worker` is set nobody else acts, as in the thread. A queued line cannot
be seen before it is executed, so it is chosen then: `CmdPASS`, `CmdNICK`,
`CmdUSER`, `CmdQUIT`, `OtherCommand`, and `Rejected` for everything the gate
refuses. `Authorization` is inside NICK and USER, as in the code, with its
result -2 on a wrong password. Every reply may fail to be sent (`ErrorReply`),
and ends the drain with -1. `Lost` is a connection that goes away between two
drains. A password is a text with or without a leading colon, since `_cmdPASS`
strips one and a server may be started with one. `passSent` and nothing else
in this module is a history variable; `history` is the code's own list.

### Channels and Membership

A `User*` is a slot number, a `Channel*` an address in `ChanIds`; `dir` maps
names to addresses, `chan` addresses to channels. Freed addresses are handed
out again by `Create`. Each command is one action per channel it names, with
the calls it makes; `_disconnect` is a loop and takes `StartLeave`, one
`LeaveChannel` or `LeaveDeadChannel` per entry of the copied list, and
`EraseUser`, which moves the later clients.

Reading a destroyed object is undefined, and is modelled as a choice: the
action goes on as if the object matched nothing, or the server enters the
absorbing status `"undefined"`, of which nothing is claimed (the actions
`...Misreads`). Erasing `end()` and reading a parameter that is not there always
lead to it. `past` records the events the properties are relative to,
each named at `Events` in the module. Seven of them are places where the code goes wrong, and
`UndefinedOnlyAfter` says that *nothing else* leads to anything undefined; the eighth, `"kick"`,
is the KICK that leaves a channel with nobody on it.

A client is known by its prefix `nick!user@host`. `Names` stand for the prefixes of clients with
a nickname, which decides who is meant. `Nameless` are the prefixes of clients whose nickname is
empty: `NoName`, of a client that has said nothing, and others, since USER comes before NICK as
well as after it and NICK takes the empty nickname from whoever has one, as long as nobody else is without
(`_validateNick`). `Nickname` maps them all to one. Tests of the code that compare nicknames
(`HoldsNick`: `containsNickname`) are kept apart from those that compare prefixes (`Holds`:
`isOperator`, `isSpeaker`, `connect`). KICK and MODE look up the *last* client with a nickname
(`Found`), and with an empty one find a client that never had any. It may be taken for a member that gave its
nickname up, be given a channel's powers, and later make `removeChannel` or `removeOperator`
erase `end()`: `"noname"`. INVITE, and MODE on a nickname, cannot: there the nickname is
not the last parameter.

The vector `_clients` has a `capacity`. `NewConnection` is `push_back` below it,
`Grow` at it: users are copied to a new block, and the pointers of the channels,
which go on naming the old one, become addresses above `MaxUsers` that no slot
has. It is the same event, `"stale"`, as the erase of an earlier user.

All five flags a channel can get, the key, the limit (modulo 2^16, as `unsigned
short`), the bans and the topic are modelled; the flags s and m have their effect in
`Messages`. The key is compared only for a PRIVATE channel, and invitations never
match, as in `Channel::connect`. The words of a topic are abstracted: what TOPIC makes of
them (it loses the last letter of a last word that begins with a colon,
`channelCommands.cpp:75-76`) is one of `Topics`. Channels whose
names begin with '&' can be joined but MODE takes them for nicknames; `ChanNames`
are the '#' ones.

`Membership` knows the clients online, the members and the operators of each
channel, as sets. The refinement maps each pointer to the prefix of the
client in that slot. A member may give its nickname up and keep its memberships and powers, when no
other member or operator is without one (`Rename`, `Anonymous`). Its variable `sound` holds until a pointer has gone stale, a
KICK has emptied a channel, KICK or MODE was sent with an empty nickname (which may make an operator of a client
that is not on the channel, and not even registered) or the server has stopped: from there on the abstract
specification promises nothing, and says so explicitly.

### Messages

PRIVMSG and the queries change nothing, so they are operators and no actions:
`Received` is the number of copies every client gets for every receiver of a
message, `WhoFacts`, `WhoisFacts`, `NamesFacts` and `ListFacts` are the facts "w is
on channel n" (or "n exists") a client is shown. LIST sends a line of every channel that is not secret
to the asker: of a private one that it is not on, the line has "*" for the name and no topic, but the number of
users (`ListLines`, `Channel.cpp:100`). What `SecretsKept` promises is the rest: neither name, topic nor members. They go through the pointers and the
lists, as the code does, and the properties compare them, in every reachable state and
for every client and every list of one or two receivers, with what the *lists of
the clients* say. Where a command would read a destroyed object it is an action
(`MessageMisreads`, `QueryMisreads`); so is a NOTICE to a list of commas, which reads
`front()` of an empty queue. `modes` are the flags of a `User`, set by AWAY and by MODE on the
own nickname, and moved by `EraseWithModes` in conjunction with `EraseUser`.
Of these only INVISIBLE decides anything: RECEIVENOTICE leads to the same call in both
branches (`userCommands.cpp:60-63`), and WALLOPS is for the flag o, which nobody gets.

### Tokens

A stream of characters (letters, blank, CR, LF, NUL) is fixed at the start and received
in packets of any length (`Recv`). A packet up to its first NUL is the request;
`ReplaceCRLF`, `Split`, `NextWord` are one turn each of the three loops;
`LastWord` is what follows the last. The position behind a string stands for `npos`.
A packet that fills the buffer is not terminated, since `bzero` leaves out its last
byte (`Server.cpp:214`): `RecvUnended` is the outcome in which what follows
is not NUL, `Recv` the one in which it is. `LastWord` terminates the server when
`start` is `npos`, and `PongThrows` when PONG is given an empty parameter. Which
other command a request is, is the business of the other modules; a prefix before the
command is left out.

### EventLoop

`pc` is the place in `run()`: `select`, `visit` (`_checkConnect` and
`_reciveRequest` of the client in slot `turn`), `respond`, `drain` (the loop of
`_sendResponse`). `Dial`, `Write`, `Hangup` and `Tick` are the peers and the
clock, and happen at any moment. A queued line is kept as the client that sent it,
which is what `LinesStayWithClient` compares with the client that
executes it. `select()` returns when a connection or a socket is ready (`Ready`), and `readable` and
`writable` are its two answers, which the round goes by although the peers go on: `full` are the
sockets without room at the moment. A PING or a reply may fill one, and `Read` is the peer that empties it. With
no socket ready the call times out (`TimesOut`) and nothing is done, the time limits not tested either.
`Unreliable` are the clients whose peer does more than write lines: it may break off, let the socket fill, make
a `send()` fail, and send a message of one character, which queues nothing. `Reserved` is the capacity of the vector: growth copies the users without their
queues (`Accept`). `_checkActivity` has no effect in the code (the counter it
tests is only incremented where it is already 3) and is left out.

### Wildcard

Positions in place of pointers, `rs = 0` for the null pointer; one action per
branch of the loop. `Fits` defines what the mask means, by the lengths of text (`Lengths`) that
each beginning of it fits.

## 3. The runs

| Run | Properties | Instance | States | Question |
|---|---|---|---|---|
| `registration` | TypeOK, NickUnique, AuthGate, PassMandatory, IdentityFrozen | 2 clients, 2 nicknames, 2 user names, 2 texts of passwords, 2 lines per batch | 506,032 | registration in every order, with loss and return |
| `membership` | TypeOK, MembersDistinct, EmptyOnlyByKick, AlwaysAnOperator, MembersKnowChannel, UndefinedOnlyAfter, ImplementsMembership, RemovedOnlyByRight | 3 clients with or without a nickname, 2 prefixes without one, 1 channel, 1 address, JOIN PART KICK MODE ±o ±v NICK USER | @membership@ (symmetric, constrained) | pointers behave as sets until stale |
| `refusals` | RecordsAgree, PowersByRight, UndefinedOnlyAfter, AddedOnlyByRight | 2 clients with or without a nickname, a vector that grows, 1 channel, 2 addresses; flags p, i and t, key, limit, ban, invitation, topic | @refusals@ (symmetric) | every refusal of JOIN, and who may command |
| `messages` | RecordsAgree, UndefinedOnlyAfter, MessagesReachMembers, SecretsKept, ShownIsMember, ModesFollowClient | 2 clients with or without a nickname, 2 channels, 2 addresses, a vector that grows; flags p, s and m, speakers, INVISIBLE | @messages@ (symmetric, constrained) | who is sent and shown what |
| `loop` | TypeOK, LinesStayWithClient, NoLineForgotten, NoLineLost, Heard, FirstHeard, SilentDropped | 2 clients, 3 lines in flight, inboxes of 2, capacity 1, one client that may break off, fill its socket, fail sends and write blank messages, fairness | @loop@ | queues, disconnections, growth; who is heard, who is dropped |
| `tokens` | TypeOK, WholeLines, NothingLost, StopsOnlyAtBlank, LoopsEnd | streams of up to 5 characters over 2 letters, blank, CR, LF, NUL; packets of up to 4 | 1,110,864 | what becomes of text |
| `wildcard` | ReadsInBounds, Correct, Ascends, Terminates | masks and texts up to 5 characters over a, b and '*' | 686,239 | every comparison |

### Why the bounds are enough

- Two clients show every order of two sessions competing for one nickname; one
  spare slot is not needed, since a slot is freed by leaving. Two lines per batch
  show an overwritten result and a queue that outlives an error.
- Three clients in `membership`: one that leaves, one that moves into its slot
  and one behind it whose pointer then dangles. One channel is enough as a command
  changes one channel; two are needed for addresses: in `messages` the address of a freed
  channel is given to one of the same name or of the other. Channel lists (`MaxChannel`) have room
  for a repeated entry.
- Two prefixes without a nickname: that of a client that has said nothing, and that of one with a
  user name. With three clients a member may give its nickname up while two others have none.
- The limits 1 and 65536 are a real limit and one that wraps to "no limit".
- `MaxInactive = 0` and `MaxResponse = 1` keep the three phases of the clock: alive, to
  be pinged, late.
- Inboxes of two lines and three lines in flight in `loop`: while the inbox of one client is full another one has a line
  to be read, so that the clients compete. The unreliable client comes before the other or behind it,
  whichever connects first, and cuts rounds short in both places.
- Capacity 1 in `loop`, `refusals` and `messages` lets the vector grow when the second
  client comes, with a client on channels and a queue before it.
- Streams of five characters in packets of up to four hold a line of two words with
  another one behind it, a doubled CR or LF, a line cut in every place, and a packet that fills the buffer.
- Masks of five characters hold three stars and two letters, in every place.

`MaxInbox`, `MaxLines`, `MaxBatch`, `MaxBans` cap what peers may pile up; each
is a guard of the peers' action only. `MaxUsers` and `MaxClients` cap new
connections, and the capacity is scaled down from 256 with them; `BoundAssumption` of
`Channels` lets the vector grow once.

`messages` has a CONSTRAINT (`Brief`). One channel at a time has a flag, and one a speaker, and no client has
flags together with a phantom entry in a list; none of these decides about another. Once
a pointer is stale, or a nickname empty in KICK or MODE, only states with at most one client
are explored further: of the six properties four claim nothing after a stale pointer,
`UndefinedOnlyAfter` holds by either event, and `ModesFollowClient` does not
depend on pointers. That of `membership` (`Few`) is that a list with a phantom entry and a channel with
speakers, who decide nothing among the commands of this run, are explored with two clients, and everything else,
the empty nickname with it, with three.

Symmetry is used only in runs without liveness, over the nicknames or addresses (and channel names
too in `messages`), which no definition tells apart; in the other runs
the sets are enumerated in full. Deadlock is checked except in the runs of `Channels` and
`Messages`, where `"terminated"` and `"undefined"` really are the end, and of `Tokens`,
where the stream may be over.

### Fairness

`FairSpec` of `EventLoop` has weak fairness of `Run`, the server thread, which the
operating system schedules whenever `select()` has something to return, and of
`Tick`, time. Nothing is assumed of the peers: they may be silent, flood, never
hang up and never read. `Heard` says of each client that either nothing of it is waiting from some
moment on, or lines of it are read (or lost with its connection) again and again; `Drained` is the step that does.
Even so a client need not be read when rounds are cut short for
ever (`CutShort`: a blank message of a client before it, or a failed send), which
`Heard` and `SilentDropped` say with the disjunct `[]<><<CutShort>>_vars`;
`FirstHeard`, of the client in the first slot, needs no such exception. `SilentDropped` needs one more:
a silent client is not dropped when `select()` times out for ever (`<>[]TimesOut`), every socket being full and
nothing arriving, because the time limits are tested only in a round (`Server.cpp:137`). `FairSpec` of `Wildcard` and of `Tokens` is that the
functions run; a peer need not send anything.

### Runs that end in a counterexample

| Run | Statement in the repository | What the code does |
|---|---|---|
| `drop_is_final` | QUIT is among the commands of rfc1459 the README promises (`README.md:24-30`) | A line behind QUIT in one packet replaces its -2: that line is executed, and the client stays |
| `server_stays_up` | PART of an unknown channel is answered "No such channel" (`utils.cpp:282`) | after the reply `getChannels().at()` throws, and nothing catches it |
| `listed_is_member` | a refused JOIN is answered "Cannot join channel" (`utils.cpp:381`) | the channel is entered in the client's list all the same |
| `leaving` | "You're not on that channel" is for those who are not (`utils.cpp:339`) | when one client disconnects, the memberships of the clients behind it move |
| `inactive` | "client is disconnected due to inactivity" (`Server.cpp:146`) | a client is dropped while its answer waits to be read |

Other divergences met on the way, which the models contain and no run is about:
a server started with an empty password registers clients that never sent PASS
(hence the assumption `ServerPass # EmptyPass` of the theorem `PassIsMandatory`);
the nickname history is not written when a connection is lost
(`Server.cpp:72`); a channel key is asked for only with +p (`Channel.cpp:252`);
the limit is taken modulo 2^16 (`Channel.cpp:292`); `PONG` followed by a blank, or a
packet that ends in one, ends the server (`otherCommands.cpp:104`, `User.cpp:76`);
RECEIVENOTICE changes nothing (`userCommands.cpp:60`).

## 4. What is proved

Every safety property the passing runs check is also a theorem, for any number of
clients, names, channels, lines and characters.
The assumptions are the named ASSUMEs of the modules. They are about the choice of constants
only: which names stand for "none", that bounds are numbers, that characters are
distinct, that a prefix with a nickname is not one without (`PrefixAssumption`). Three say more. `BoundAssumption` of `Channels` lets the vector grow at most once,
`TargetAssumption` of `Messages` that no nickname is the name of a channel (`_validateNick` refuses
'#' and '&', `isValidChannelName` demands one of them), and `PassIsMandatory` is for a server
that has a password.

Each proof module has one lemma per action and conjunct; the theorems are put together from
them by temporal logic. `SequenceLemmas` holds what several of them rest on. That a set of numbers has
a least one (`LeastNat`) stands in for induction wherever a loop or a list is followed from place to
place. `Cut` and `Joined` say what the halves of a string are. The lemmas on `FlattenSeq` are traced back to the function
its definition is the last value of (`FlattenFacts`): it is nothing of nothing, adds what is appended,
and may be cut anywhere.

### RegistrationProofs

| Theorem | States |
|---|---|
| `TypeCorrect` | `Spec => []TypeOK` |
| `NicknamesUnique` | `Spec => []NickUnique` |
| `RegisteredIsAuthorized` | `Spec => []AuthGate` |
| `PassIsMandatory` | `ServerPass # EmptyPass => (Spec => []PassMandatory)` |
| `RegistrationIsFinal` | `Spec => IdentityFrozen` |

They rest on the inductive invariant `IInv`: `TypeOK`, `NickUnique`, `AuthGate`,
and two parts no run needed by name. `Blank` says that a client that is not
connected has no session: without it a returning client could come
registered. `PassFromClient` says that a password other than the empty one was
sent: `AuthGate` compares passwords, and `PassMandatory` follows from the two
when the server has one. The laborious part is `ForgetPositions`, that erasing a slot
keeps the positions of the others distinct.

### ChannelsProofs

| Theorem | States |
|---|---|
| `TypeCorrect` | `Spec => []TypeOK` |
| `MembersAlwaysDistinct` | `Spec => []MembersDistinct` |
| `EmptyChannelsByKick`, `OperatorAlways` | `Spec => []EmptyOnlyByKick`, `Spec => []AlwaysAnOperator` |
| `MembersKnow` | `Spec => []MembersKnowChannel` |
| `RecordsAlwaysAgree` | `Spec => []RecordsAgree` |
| `PowersAlwaysByRight` | `Spec => []PowersByRight` |
| `UndefinedHasCause` | `Spec => []UndefinedOnlyAfter` |
| `RemovalByRight`, `AdditionByRight` | `Spec => RemovedOnlyByRight`, `Spec => AddedOnlyByRight` |

The invariant is built in layers, each proved inductive with the help of those before it:

1. `Shape`: `TypeOK`, `MembersDistinct` and `GrowsOnce`. Pointers must stay among `Addresses` when
   the vector grows, which they do because it has not grown before.
2. `Order`: `EmptyOnlyByKick` and `AlwaysAnOperator`, which need each other: the heir `removeOperator`
   appoints is the first member, and there is one.
3. `Sessions`: a nickname that is not empty is that of one client, at most one registered client
   has the empty one, there is a list to walk
   only while `_disconnect` walks it, and an invitation means an INVITE.
4. `MembersKnowChannel`. Its hard step is `EraseUser`: pointers to earlier slots go on
   denoting their clients, and one to a later slot, or to the leaver itself, is
   the event `"stale"`.
5. `ListsTrue`. `RecordsAgree` is not inductive, since it says nothing while `_disconnect` runs.
   `ListsTrue` says the same with `todo`, the part of the list not yet walked, in place of the
   list of the leaver, so that each `LeaveChannel` shortens both records alike.

`PowersByRight` follows from 3 to 5 in every state: nicknames and prefixes are found to decide
what the pointers would.

`UndefinedOnlyAfter` needs a sixth part. `Distinguished` says that, before a stale pointer or an empty
nickname in KICK or MODE, at most one client that is registered or that a channel has a pointer to is
without a nickname (`OneNameless`): NICK lets nobody give its nickname up while anybody else has none,
and no client that never had one gets on a channel but by those commands. So whoever is found by nickname or prefix is
the one a pointer denotes, and nothing erases `end()` (`HoldsFacts`, `NothingUndefined`).

The action properties take a step apart by its effect on the
members: only JOIN adds a pointer, only PART, KICK and `LeaveChannel` remove one, and only NICK
changes the name behind one.

### MembershipProofs

| Theorem | States |
|---|---|
| `ChannelsImplementMembership` | `Spec => ImplementsMembership` |

While nothing is stale, no channel empty and no nickname of KICK or MODE was, pointers and prefixes correspond one to one
for the clients with a nickname and the at most one without that channels know (`Identified`, `NamedFacts`,
from layers 3 and 4 and `OneNameless`), so that the steps can be followed on the sets of pointers `Mem` and `Ops`. A command
on one channel changes one of them as the abstract action does; `NICK` changes the name behind a
pointer; `EraseUser` and `Grow` change neither set of clients, unless they make a pointer
stale, which is the abstract step that gives up `sound`. Every other step is a stutter.

### MessagesProofs

| Theorem | States |
|---|---|
| `RecordsAgreeStill`, `UndefinedHasCauseStill`, `MessagesImplementMembership` | the properties of `Channels`, for `MsgSpec` |
| `MessagesReachTheirs` | `MsgSpec => []MessagesReachMembers` |
| `SecretsAlwaysKept` | `MsgSpec => []SecretsKept` |
| `ShownAreMembers` | `MsgSpec => []ShownIsMember` |
| `ModesAlwaysFollow` | `MsgSpec => ModesFollowClient` |

A command of `Messages` is a stutter of `Channels` or stops the server with a cause (`MsgKinds`), so that
the layers above carry over (`Carried`). What is shown and sent is then a statement about one state:
`MembersKnowChannel` makes the receivers found by pointers the members, and `ListsTrue` makes the channels found
through another client's list the ones it is on.

### EventLoopProofs

| Theorem | States |
|---|---|
| `TypeCorrect` | `Spec => []TypeOK` |
| `OwnLines` | `Spec => []LinesStayWithClient` |
| `QueuedIsMarked` | `Spec => []NoLineForgotten` |
| `QueuesKept` | `Spec => NoLineLost` |

`Typed` adds to the types that the capacity is not zero. `Quiet` is the invariant behind the three
others: until a fault only the slot that is being visited has a queue, of lines of
its own client, who is marked. That is why erasing a client and growing the vector, both of which leave
queues behind, do no harm: outside a visit all queues are empty.

### WildcardProofs

| Theorem | States |
|---|---|
| `PointersInBounds` | `Spec => []ReadsInBounds` |
| `LoopAscends` | `Spec => Ascends` |
| `ResultIsRight` | `Spec => []Correct` |

`IInv` is `ReadsInBounds` with the strings' types. Its part `rp <= p` is what makes
`TakeStar` go up in the order (rp, rs, s), each component of which is bounded by a
string: the argument for termination.

`ResultIsRight` is the correctness of the algorithm, for all masks and texts. `Greedy` says what the loop
knows: the text before `s` fits the mask before `p`; and wherever else the last '*' might have ended before
`Low`, the text is `Stuck` in the literal part of the mask behind it. `StuckHere` is what a turn that does not
match finds out, `NotStuck` that whatever reaches the next '*' was not stuck, so that the earlier stars
need no second look, and `AllStuck` that the mask does not fit when nothing is left to try.

### TokensProofs

| Theorem | States |
|---|---|
| `TypeCorrect` | `Spec => []TypeOK` |
| `OnlyBlanksStop` | `Spec => []StopsOnlyAtBlank` |
| `LettersNeverLost` | `Spec => []NothingLost` |
| `LinesAreRequests` | `Spec => []WholeLines` |

The lemmas `RecvFacts` to `LastWordFacts` say what each turn of a loop makes of its string. For
`OnlyBlanksStop` the invariant `Origins` follows a text that `substr` throws at back to where it came
from: `Explained` of a line, a queued line and the request says that, if it ends in a blank or in a PONG with
nothing but blanks behind it, so did what was received. `ReplaceCRLF` is the delicate
step: taking out a CR must not make such a text (`ReplaceKeeps`). `Skipped` says the same of the words cut off so far.

`NothingLost` and `WholeLines` speak of the moments when the loops rest, and are not inductive: between two `recv()`
text is on its way. What was received is then, from its beginning to its end,

    executed | at hand (the line, then its words) | queued | not split yet

and a turn moves a string from one of the four to the one before it. `Accounted` says that the letters of the four,
one after the other, are the letters received; `Requested` that the requests of the four are those of
what was received. With the queue empty and nothing at hand the two properties are what is left
(`LettersKeptSuffices`, `LinesKeptSuffices`). `SumLetters`, `MoveAcross` and `Regroup` do the bookkeeping; the
work is in how the two readings of a text behave when it is cut:

- Letters: `LettersConcat`, anywhere. The invariant `LettersKept` adds that the words of a line hold the letters
  before `start` (`ReadLetters`), and that a request of a single letter was a packet of its own (`Lone`): that one
  is dropped by the loop of `split`, which is why the property excludes it.
- Requests: behind a '\n' only (`RequestsConcat`, from `PartsConcat`: of two texts that meet at a separator, each maximal
  part is one of the first or of the second). `LinesKept` adds that everything on its way ends so when packets do
  (`Formed`) and that the words cut so far are the parts before `start` (`ReadWords`). `ReplaceCRLF` is the delicate step again:
  `RequestsCR` says that taking the CR out of a "\r\n" leaves the requests as they are, whatever
  other CRs stand around it (`TrimmedCR`). `LastLine` and `LastWordIsRequest` say that the words cut from a
  line are the request the definition reads there, with its empty last word when a blank is before the '\n'.

`Parts`, `RequestsOf` and `LettersOf`, by which the two properties read a text, are folds over its places,
without recursion of their own; the loops of the code are not used in them but for `FirstOf`, the place `find_first_of` returns.

### What stays with TLC

- All liveness (`Heard`, `FirstHeard`, `SilentDropped`, `Terminates`, `LoopsEnd`): the prover has no rule
  for fairness. `LoopAscends` is the safety half of `Terminates`.

## 5. Files

`PROJECT.json` lists components, runs, for each property a mutant of the code under
which it fails, the source lines of each definition, findings, hazards and theorems.
Definitions commented "Mutant" or "A variant of" in a module are those mutants: plausible
mistakes in the code, used by no action.

Run `tlc -config MCRegistration.cfg MCRegistration` and likewise; `tlapm
RegistrationProofs.tla` for proofs, `SequenceLemmas` and the other `...Proofs` likewise.

## 6. What is not modelled, and why

- **WHOWAS, ISON, USERHOST, VERSION, INFO, ADMIN, TIME**: they change nothing, and read
  neither channels nor pointers.
- **Texts**: what a message, a topic, an away or a reply says. Who gets it is modelled.
- **Announcements** of NICK, JOIN, PART, KICK and MODE to a channel: sent to its
  members as in `Messages`, with no decision of their own. MODE announces a change even when
  `handleChanFlags` has answered with an error, whose result is not -1
  (`channelCommands.cpp:23`).
- **Lists** (`JOIN #a,#b`, `PART #a,#b`): each entry is an action of its own, and an
  entry changes nothing the loop of the command remembers.
- **Replies**: wording only. That sending may fail is modelled.
- **Start**: done before the first state.
- **Copies of `Server`**: never made.
- **Failing `accept()` and `select()`**: the first pushes a user with descriptor -1, and
  `FD_SET(-1)` writes outside the set, after which nothing can be claimed; the second ends
  the server by intent (`Server.cpp:135`).

## 7. Plan

Done: all modules of section 2 and their runs; the theorems of section 4.

Models left: a composition of `EventLoop` and `Registration`, the drain with real results, so
that `drop_is_final` is seen with the loop's own fairness.

Theorems left: none for the safety properties of these modules. That composition would bring one of its own, that the
queue of the loop is the `pending` of `Registration`, as a refinement.
