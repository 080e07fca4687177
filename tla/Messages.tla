------------------------------ MODULE Messages ------------------------------
(***************************************************************************)
(* What clients send each other and what they are shown, over the channels *)
(* of Channels: PRIVMSG, NOTICE, WHO, WHOIS, NAMES and LIST, and the flags *)
(* of a User that AWAY and MODE on a nickname set.                         *)
(*                                                                         *)
(* PRIVMSG and the queries change nothing in the server: who receives a    *)
(* message, and which facts a query shows, are functions of the state, and *)
(* the properties speak of them in every state in which the command may    *)
(* come.  The commands appear as actions where they meet something         *)
(* undefined.  The texts themselves are left out.                          *)
(***************************************************************************)
EXTENDS Channels

CONSTANT UserFlags   \* flags the clients set, of INVISIBLE, RECEIVENOTICE,
                     \* RECEIVEWALLOPS and AWAY

\* _validateNick refuses '#' and '&', with which isValidChannelName begins.
ASSUME TargetAssumption == Names \cap ChanNames = {}

VARIABLE modes       \* _info.flags of the User in each slot

msgVars == <<vars, modes>>

MsgInit == Init /\ modes = [i \in Slots |-> {}]

-----------------------------------------------------------------------------
\* Flags of a client

\* AWAY, with a text or without; MODE on the own nickname, with + or -, which
\* is not the last parameter and so not empty.  The flag o is never set, and so
\* WALLOPS is always refused.
SetMode(i, flag, on) ==
    /\ Ready(i)
    /\ flag # "AWAY" => slot[i] \in Names
    /\ modes' = [modes EXCEPT ![i] = IF on THEN @ \cup {flag} ELSE @ \ {flag}]
    /\ UNCHANGED vars

\* Mutant: operator= forgets the flags, as it does the queue.
LeaveModes == [modes EXCEPT ![size] = {}]

\* User::operator= of every later user.
MovedModes ==
    [j \in Slots |-> IF j < leaver THEN modes[j]
                     ELSE IF j < size THEN modes[j + 1]
                     ELSE {}]

EraseWithModes ==
    /\ EraseUser
    /\ modes' = MovedModes

-----------------------------------------------------------------------------
\* PRIVMSG and NOTICE, to a list of channels and nicknames

\* Found when the message is delivered, and for this channel only.
Muted(i, n) ==
    LET ch == chan[dir[n]]
    IN  "MODERATED" \in ch.flags /\ ~Holds(ch.ops \cup ch.voices, slot[i])

\* A channel with the sender's nickname on it, or the nickname of a client.
MayAddress(i, t) ==
    IF t \in ChanNames
    THEN dir[t] # NoChan /\ HoldsNick(Range(chan[dir[t]].users), slot[i])
    ELSE \E j \in 1 .. size : slot[j] = t

\* A NOTICE has one receiver, which is no channel.
Deliverable(i, kind, to) ==
    /\ kind = "NOTICE" => Len(to) = 1 /\ to[1] \notin ChanNames
    /\ \A j, k \in 1 .. Len(to) : to[j] = to[k] => j = k
    /\ \A k \in 1 .. Len(to) : MayAddress(i, to[k])

\* Mutant: the sender gets its message back.
CopiesToAll(i, t, j) ==
    CASE t \in ChanNames /\ Muted(i, t) -> 0
      [] t \in ChanNames /\ ~Muted(i, t) ->
            LET users == chan[dir[t]].users
            IN  Cardinality({k \in 1 .. Len(users) : users[k] = j})
      [] OTHER -> IF slot[j] = t THEN 1 ELSE 0

\* Copies that client j is sent on account of target t.  Channel::sendMessage
\* leaves out the pointer of the sender; RECEIVENOTICE makes no difference.
Copies(i, t, j) ==
    CASE t \in ChanNames /\ Muted(i, t) -> 0
      [] t \in ChanNames /\ ~Muted(i, t) ->
            LET users == chan[dir[t]].users
            IN  Cardinality({k \in 1 .. Len(users) : users[k] = j /\ users[k] # i})
      [] OTHER -> IF slot[j] = t THEN 1 ELSE 0

\* Every target is tested before anybody is sent anything.
Received(i, kind, to) ==
    LET deliverable == Deliverable(i, kind, to)
    IN  [j \in 1 .. size |-> [k \in 1 .. Len(to) |->
            IF deliverable THEN Copies(i, to[k], j) ELSE 0]]

MessageMisreads(i, n) ==
    /\ Ready(i)
    /\ "PRIVMSG" \in Commands
    /\ dir[n] # NoChan
    /\ LET ch == chan[dir[n]]
       IN  \/ Dangling(Range(ch.users))
           \/ /\ MayAddress(i, n)
              /\ "MODERATED" \in ch.flags
              /\ Dangling(ch.ops \cup ch.voices)
    /\ Undefined
    /\ UNCHANGED modes

\* front() of the empty queue that a list of commas is split into.
NoticeToNobody(i) ==
    /\ Ready(i)
    /\ "NOTICE" \in Commands
    /\ status' = "undefined"
    /\ past' = past \cup {"nobody"}
    /\ UNCHANGED <<capacity, size, slot, reg, chans, dir, chan, leaver, todo, modes>>

-----------------------------------------------------------------------------
\* WHO, WHOIS, NAMES and LIST

Hidden(ch) == {"SECRET", "PRIVATE"} \cap ch.flags # {}

\* Mutant: only PRIVATE hides.
VisibleUnlessPrivate(id, w) ==
    "PRIVATE" \notin chan[id].flags \/ HoldsNick(Range(chan[id].users), w)

\* To w, of the channels another client lists.
Visible(id, w) == ~Hidden(chan[id]) \/ HoldsNick(Range(chan[id].users), w)

NameOf(id) == CHOOSE n \in ChanNames : dir[n] = id

\* The live channels in the list of client j that w may see.
Shown(j, w) == {k \in 1 .. Len(chans[j]) : chans[j][k] \in Live /\ Visible(chans[j][k], w)}

\* Facts <<w, n>>, "w is on channel n".  WHO shows the last visible channel of
\* a client that is not invisible, WHOIS all of them, NAMES the members of
\* channels that are not hidden.
WhoFacts(i) ==
    LET last(j) == {k \in Shown(j, slot[i]) : \A l \in Shown(j, slot[i]) : l <= k}
    IN  UNION {{<<slot[j], NameOf(chans[j][k])>> : k \in last(j)} :
                  j \in {j \in 1 .. size : "INVISIBLE" \notin modes[j]}}

WhoisFacts(i) ==
    UNION {{<<slot[j], NameOf(chans[j][k])>> : k \in Shown(j, slot[i])} : j \in 1 .. size}

NamesFacts ==
    UNION {Clients(Range(chan[dir[n]].users)) \X {n} :
              n \in {n \in ChanNames : dir[n] # NoChan /\ ~Hidden(chan[dir[n]])}}

\* The channels displayChanInfo sends a line of, each with its number of users:
\* a secret one only to clients whose nickname it contains.
ListLines(i) ==
    {n \in ChanNames : /\ dir[n] # NoChan
                       /\ "SECRET" \in chan[dir[n]].flags => Visible(dir[n], slot[i])}

\* Those whose line has name, flags and topic, and not "*" in their place.
ListFacts(i) == {n \in ListLines(i) : Visible(dir[n], slot[i])}

\* A freed Channel in the list of some client, a destroyed User in a channel.
QueryMisreads(i) ==
    /\ Ready(i)
    /\ "WHO" \in Commands
    /\ \/ \E j \in 1 .. size : ~(Range(chans[j]) \subseteq Live)
       \/ \E id \in Live : Dangling(Pointers(chan[id]))
    /\ Undefined
    /\ UNCHANGED modes

-----------------------------------------------------------------------------
MsgNext ==
    \/ Proceed /\ UNCHANGED modes
    \/ EraseWithModes
    \/ \E i \in Slots :
          \/ \E flag \in UserFlags, on \in BOOLEAN : SetMode(i, flag, on)
          \/ \E n \in ChanNames : MessageMisreads(i, n)
          \/ NoticeToNobody(i)
          \/ QueryMisreads(i)

MsgSpec == MsgInit /\ [][MsgNext]_msgVars

-----------------------------------------------------------------------------
\* Lists of one or two receivers.
Lists == UNION {[1 .. k -> Names \cup ChanNames] : k \in 1 .. 2}

On(i, n) == dir[n] # NoChan /\ dir[n] \in Range(chans[i])

MaySpeakOn(i, n) ==
    "MODERATED" \in chan[dir[n]].flags =>
        slot[i] \in Operators(n) \cup Clients(chan[dir[n]].voices)

\* A message reaches those it is for.  When its receivers are different, each a
\* client that is there or a channel the sender lists, and a NOTICE has but one,
\* a client, every client named and every other client that lists a channel named
\* gets one copy for it, except from a channel that is moderated against the
\* sender; otherwise nobody gets anything.  The code finds receivers by pointers
\* and tests by nicknames.
MessagesReachMembers ==
    Faithful =>
        \A i \in {i \in 1 .. size : reg[i]} : \A to \in Lists :
            LET For(j, t) == IF t \in ChanNames
                             THEN j # i /\ On(j, t) /\ MaySpeakOn(i, t)
                             ELSE slot[j] = t
                proper == /\ \A k, l \in 1 .. Len(to) : to[k] = to[l] => k = l
                          /\ \A k \in 1 .. Len(to) :
                                IF to[k] \in ChanNames THEN On(i, to[k])
                                ELSE to[k] \in Clients(Slots)
            IN  \A kind \in {"PRIVMSG", "NOTICE"} :
                   LET got == Received(i, kind, to)
                       sent == proper /\ (kind = "NOTICE" => to \in [1 .. 1 -> Names])
                   IN  \A j \in 1 .. size, k \in 1 .. Len(to) :
                          got[j][k] = IF sent /\ For(j, to[k]) THEN 1 ELSE 0

\* Only clients that have joined a channel that is secret or private, and not
\* left it since, are told its name, its topic or its members by WHO, WHOIS,
\* NAMES or LIST.  Of a private channel that is not secret LIST tells everybody
\* how many users it has, and of a secret one nothing.
SecretsKept ==
    (status = "up" /\ leaver = NoSlot /\ "stale" \notin past) =>
        \A i \in {i \in 1 .. size : reg[i]} : \A n \in ChanNames :
            \/ On(i, n)
            \/ dir[n] # NoChan => ~Hidden(chan[dir[n]])
            \/ /\ n \notin ListFacts(i)
               /\ n \in ListLines(i) => "SECRET" \notin chan[dir[n]].flags
               /\ \A fact \in WhoFacts(i) \cup WhoisFacts(i) \cup NamesFacts : fact[2] # n

\* The queries, which read lists, or members, show as members of a channel only
\* clients that are members.
ShownIsMember ==
    Faithful =>
        \A i \in {i \in 1 .. size : reg[i]} :
            \A fact \in WhoFacts(i) \cup WhoisFacts(i) \cup NamesFacts :
                fact[1] \in Members(fact[2])

\* The flags of a client, which its nickname tells, go with it when the users
\* before it leave: only a command of its own changes them.
ModesFollowClient ==
    [][\A i \in 1 .. size, j \in 1 .. size' :
          slot[i] \in Names /\ slot'[j] = slot[i] /\ modes'[j] # modes[i] =>
              i = j /\ \E flag \in UserFlags, on \in BOOLEAN : SetMode(i, flag, on)]_msgVars
=============================================================================
