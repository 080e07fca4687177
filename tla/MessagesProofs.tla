--------------------------- MODULE MessagesProofs ---------------------------
(***************************************************************************)
(* Proofs about Messages.  Its commands change nothing in the server that  *)
(* Channels describes, or stop it: the invariants of ChannelsProofs and    *)
(* the refinement of MembershipProofs carry over step by step (Carried),   *)
(* and what is sent and shown follows from them in each state.             *)
(***************************************************************************)
EXTENDS Messages, MembershipProofs

-----------------------------------------------------------------------------
\* The steps

\* The three actions of Messages that meet something undefined stop the server.
LEMMA MsgKinds ==
  ASSUME TypeOK, MsgNext
  PROVE  Next \/ Halts \/ UNCHANGED vars
<1>1. past \subseteq Events /\ "nobody" \in Events
  BY DEF TypeOK, Events
<1>2. Proceed \/ EraseWithModes => Next
  BY DEF Next, EraseWithModes
<1>3. ASSUME NEW i \in Slots, NEW flag \in UserFlags, NEW on \in BOOLEAN, SetMode(i, flag, on)
      PROVE  UNCHANGED vars
  BY <1>3 DEF SetMode
<1>4. ASSUME NEW i \in Slots, NEW n \in ChanNames, MessageMisreads(i, n) PROVE Halts
  BY <1>1, <1>4 DEF MessageMisreads, Undefined, UndefinedBy, Ready, Halts
<1>5. ASSUME NEW i \in Slots, NoticeToNobody(i) \/ QueryMisreads(i) PROVE Halts
  BY <1>1, <1>5 DEF NoticeToNobody, QueryMisreads, Undefined, UndefinedBy, Ready, Halts
<1>6. QED
  BY <1>2, <1>3, <1>4, <1>5 DEF MsgNext

LEMMA MsgStepKinds == Shape /\ [MsgNext]_msgVars => Kinds \/ UNCHANGED vars
BY MsgKinds, StepKinds DEF Shape, Kinds, msgVars

\* What is known of channels and clients.
Carried == Shape /\ Order /\ Sessions /\ MembersKnowChannel /\ Distinguished /\ ListsTrue

\* Each slot has a User with some of the flags.
ModesTyped == modes \in [Slots -> SUBSET UserFlags]

LEMMA MsgInductive == MsgSpec => [](Carried /\ ModesTyped)
<1>1. MsgInit => Carried /\ ModesTyped
  BY InitShape, InitOrder, InitSessions, InitKnown, InitDistinguished, InitLists
     DEF MsgInit, Carried, ModesTyped
<1>2. Carried /\ [MsgNext]_msgVars => Carried'
  <2>1. ASSUME Carried, Kinds PROVE Carried'
    BY <2>1, ShapeStep, OrderStep, SessionsStep, KnownStep, DistinguishedStep,
       ListsTrueStep DEF Carried
  <2>2. ASSUME Carried, UNCHANGED vars PROVE Carried'
    BY <2>2, StutterShape, OrderStutter, SessionsStutter, KnownStutter,
       DistinguishedStutter, ListsStutter DEF Carried
  <2>3. QED
    BY <2>1, <2>2, MsgStepKinds DEF Carried
<1>3. Carried /\ ModesTyped /\ [MsgNext]_msgVars => ModesTyped'
  <2> SUFFICES ASSUME Carried, ModesTyped, [MsgNext]_msgVars PROVE ModesTyped'
    OBVIOUS
  <2>1. CASE UNCHANGED modes
    BY <2>1 DEF ModesTyped
  <2>2. ASSUME EraseWithModes PROVE ModesTyped'
    BY <2>2, EraseFacts DEF Carried, EraseWithModes, MovedModes, ModesTyped
  <2>3. ASSUME NEW i \in Slots, NEW flag \in UserFlags, NEW on \in BOOLEAN, SetMode(i, flag, on)
        PROVE  ModesTyped'
    BY <2>3 DEF SetMode, ModesTyped
  <2>4. QED
    BY <2>1, <2>2, <2>3
       DEF MsgNext, msgVars, MessageMisreads, NoticeToNobody, QueryMisreads
<1>4. QED
  BY <1>1, <1>2, <1>3, PTL DEF MsgSpec

-----------------------------------------------------------------------------
\* Properties of Channels that the messages leave alone

\* Nor do the flags, messages and queries of clients make the two records of
\* membership disagree.
THEOREM RecordsAgreeStill == MsgSpec => []RecordsAgree
BY MsgInductive, RecordsFollow, PTL DEF Carried

\* What the commands of Messages misread, they misread after a User was moved
\* under a pointer, or with a phantom entry in a list, or after a command found a
\* client by its empty nickname, or because a NOTICE names nobody.
LEMMA MessagesMisread ==
  ASSUME Carried, MsgNext, status' = "undefined"
  PROVE  past' \cap (Events \ {"kick"}) # {}
<1>1. /\ status = "up" => past \subseteq past'
      /\ {"stale", "phantom", "noname", "nobody"} \subseteq Events
      /\ size \in Nat /\ \A n \in ChanNames : dir[n] # NoChan => dir[n] \in Live
  BY ShapeFacts, MsgStepKinds, PastGrows DEF Carried, Table, Events, vars
<1>2. CASE Next
  BY <1>2, UndefinedStep DEF Carried
<1>3. ASSUME NEW i \in Slots, NoticeToNobody(i)
      PROVE  past' \cap (Events \ {"kick"}) # {}
  BY <1>1, <1>3 DEF NoticeToNobody
<1>4. ASSUME NEW i \in Slots, QueryMisreads(i) \/ \E n \in ChanNames : MessageMisreads(i, n)
      PROVE  past' \cap (Events \ {"kick"}) # {}
  <2>1. past' = past /\ status = "up" /\ leaver = NoSlot
    BY <1>4 DEF MessageMisreads, QueryMisreads, Undefined, UndefinedBy, Ready
  <2>2. SUFFICES ASSUME past \cap {"stale", "phantom", "noname"} = {} PROVE FALSE
    BY <1>1, <2>1
  <2>3. Trusted /\ "stale" \notin past
    BY <2>1, <2>2 DEF Trusted
  <2>4. ListsHold /\ OneNameless /\ \A id \in Live : Denotes(id)
    BY <2>2, <2>3 DEF Carried, Trusted, ListsTrue, MembersKnowChannel, Denotes, Distinguished
  <2>5. \A id \in Live : /\ ~Dangling(Range(chan[id].users))
                         /\ ~Dangling(chan[id].ops \cup chan[id].voices)
                         /\ ~Dangling(Pointers(chan[id]))
    BY <2>4, NothingMisread DEF Carried
  <2>6. \A j \in 1 .. size : Range(chans[j]) \subseteq Live
    BY <2>1, <2>4 DEF ListsHold, ListOf, Joined, NoSlot
  <2>7. ~QueryMisreads(i)
    BY <2>5, <2>6 DEF QueryMisreads
  <2>8. ASSUME NEW n \in ChanNames, dir[n] # NoChan
        PROVE  /\ ~Dangling(Range(chan[dir[n]].users))
               /\ ~Dangling(chan[dir[n]].ops \cup chan[dir[n]].voices)
    BY <1>1, <2>5, <2>8
  <2>9. ASSUME NEW n \in ChanNames PROVE ~MessageMisreads(i, n)
    BY <2>8 DEF MessageMisreads
  <2>10. QED
    BY <1>4, <2>7, <2>9
<1>5. ASSUME NEW i \in Slots, NEW flag \in UserFlags, NEW on \in BOOLEAN, SetMode(i, flag, on)
      PROVE  FALSE
  BY <1>5 DEF SetMode, Ready, vars
<1>6. Proceed \/ EraseWithModes => Next
  BY DEF Next, EraseWithModes
<1>7. QED
  BY <1>2, <1>3, <1>4, <1>5, <1>6 DEF MsgNext

\* Messages and queries have undefined behaviour in no other case: as long as no
\* client is moved under a pointer and no JOIN is refused or repeated they find
\* every receiver and every channel they read.
THEOREM UndefinedHasCauseStill == MsgSpec => []UndefinedOnlyAfter
<1>1. MsgInit => UndefinedOnlyAfter
  BY DEF MsgInit, Init, UndefinedOnlyAfter
<1>2. Carried /\ UndefinedOnlyAfter /\ [MsgNext]_msgVars => UndefinedOnlyAfter'
  BY MessagesMisread DEF UndefinedOnlyAfter, msgVars, vars
<1>3. QED
  BY <1>1, <1>2, MsgInductive, PTL DEF MsgSpec

\* To whoever looks only at who is on which channel and commands it, nothing
\* that clients say, ask or set makes a difference: with messages and queries
\* too the server implements Membership.
THEOREM MessagesImplementMembership == MsgSpec => ImplementsMembership
<1>1. Carried /\ [MsgNext]_msgVars => [Abstract!Next]_(Abstract!vars)
  <2> SUFFICES ASSUME Carried, [MsgNext]_msgVars PROVE [Abstract!Next]_(Abstract!vars)
    OBVIOUS
  <2>1. CASE Next
    BY <2>1, NextSeen DEF Carried
  <2>2. CASE UNCHANGED vars
    BY <2>2, StutterSeen
  <2>3. CASE Halts
    BY <2>3 DEF Halts, Abstract!Next
  <2>4. QED
    BY <2>1, <2>2, <2>3, MsgKinds DEF Carried, Shape, msgVars
<1>2. QED
  BY <1>1, InitSeen, MsgInductive, PTL
     DEF MsgSpec, MsgInit, ImplementsMembership, Abstract!Spec

-----------------------------------------------------------------------------
\* What is shown

LEMMA Pointing ==
  ASSUME Carried, status # "undefined", "stale" \notin past
  PROVE  \A id \in Live : Denotes(id)
BY DEF Carried, MembersKnowChannel, Denotes

LEMMA NameOfFacts ==
  ASSUME Carried, NEW id \in Live
  PROVE  NameOf(id) \in ChanNames /\ dir[NameOf(id)] = id /\ dir[NameOf(id)] # NoChan
BY DEF NameOf, Live

\* A fact of WHO or WHOIS is about an entry of a list.
LEMMA ListedFact ==
  ASSUME Carried, NEW i, NEW fact \in WhoFacts(i) \cup WhoisFacts(i)
  PROVE  \E j \in 1 .. size : \E id \in Range(chans[j]) \cap Live :
            Visible(id, slot[i]) /\ fact = <<slot[j], NameOf(id)>>
<1>1. PICK j \in 1 .. size :
          \E k \in Shown(j, slot[i]) : fact = <<slot[j], NameOf(chans[j][k])>>
  BY DEF WhoFacts, WhoisFacts
<1> PICK k \in Shown(j, slot[i]) : fact = <<slot[j], NameOf(chans[j][k])>>
  BY <1>1
<1>2. k \in 1 .. Len(chans[j]) /\ chans[j][k] \in Live /\ Visible(chans[j][k], slot[i])
  BY DEF Shown
<1>3. chans[j][k] \in Range(chans[j])
  BY <1>2 DEF Range
<1>4. QED
  BY <1>1, <1>2, <1>3

LEMMA NamesFact ==
  ASSUME NEW fact \in NamesFacts
  PROVE  /\ fact[2] \in ChanNames /\ dir[fact[2]] # NoChan /\ ~Hidden(chan[dir[fact[2]]])
         /\ fact[1] \in Members(fact[2])
<1>1. PICK n \in ChanNames : /\ dir[n] # NoChan /\ ~Hidden(chan[dir[n]])
                             /\ fact \in Clients(Range(chan[dir[n]].users)) \X {n}
  BY DEF NamesFacts
<1>2. QED
  BY <1>1 DEF Members

\* WHO, WHOIS and NAMES show as members of a channel members only, in every
\* run, though two of them read the lists of the clients and one the channels.
THEOREM ShownAreMembers == MsgSpec => []ShownIsMember
<1>1. Carried => ShownIsMember
  <2> SUFFICES ASSUME Carried, Faithful, NEW i \in 1 .. size,
                      NEW fact \in WhoFacts(i) \cup WhoisFacts(i) \cup NamesFacts
               PROVE  fact[1] \in Members(fact[2])
    BY DEF ShownIsMember
  <2>1. CASE fact \in NamesFacts
    BY <2>1, NamesFact
  <2>2. CASE fact \in WhoFacts(i) \cup WhoisFacts(i)
    <3>1. PICK j \in 1 .. size : \E id \in Range(chans[j]) \cap Live : fact = <<slot[j], NameOf(id)>>
      BY <2>2, ListedFact
    <3> PICK id \in Range(chans[j]) \cap Live : fact = <<slot[j], NameOf(id)>>
      BY <3>1
    <3>2. RecordsAgree /\ Denotes(id) /\ Shape
      BY RecordsFollow, Pointing DEF Carried, Faithful
    <3>3. j \in Range(chan[id].users)
      BY <3>2 DEF RecordsAgree
    <3>4. slot[j] \in Clients(Range(chan[id].users))
      BY <3>2, <3>3 DEF Denotes, Clients, Pointers
    <3>5. QED
      BY <3>1, <3>4, NameOfFacts DEF Members
  <2>3. QED
    BY <2>1, <2>2
<1>2. QED
  BY <1>1, MsgInductive, PTL

\* The name, topic and members of a secret or private channel are told, in every
\* run, by WHO, WHOIS, NAMES and LIST only to clients that list it, and others
\* learn at most, by LIST, how many users are on one that is not secret: a
\* nickname found among the members is that of the client that asks and not of
\* one before it, even when it is empty.
THEOREM SecretsAlwaysKept == MsgSpec => []SecretsKept
<1>1. Carried => SecretsKept
  <2> SUFFICES ASSUME Carried, status = "up", "stale" \notin past,
                      NEW i \in 1 .. size, reg[i], NEW n \in ChanNames,
                      ~On(i, n), dir[n] # NoChan, Hidden(chan[dir[n]])
               PROVE  /\ n \notin ListFacts(i)
                      /\ n \in ListLines(i) => "SECRET" \notin chan[dir[n]].flags
                      /\ \A fact \in WhoFacts(i) \cup WhoisFacts(i) \cup NamesFacts :
                            fact[2] # n
    BY DEF SecretsKept
  <2>1. dir[n] \in Live /\ Denotes(dir[n])
    BY Pointing DEF Live
  <2>3. i \notin Range(chan[dir[n]].users)
    BY <2>1 DEF Denotes, On
  <2>4. ~Visible(dir[n], slot[i])
    BY <2>1, <2>3, NickFacts DEF Visible, Carried
  <2>5. ASSUME NEW fact \in WhoFacts(i) \cup WhoisFacts(i), fact[2] = n
        PROVE  FALSE
    <3>1. PICK j \in 1 .. size : \E id \in Range(chans[j]) \cap Live :
                 Visible(id, slot[i]) /\ fact = <<slot[j], NameOf(id)>>
      BY <2>5, ListedFact
    <3>2. PICK id \in Live : Visible(id, slot[i]) /\ n = NameOf(id)
      BY <2>5, <3>1
    <3>3. QED
      BY <2>4, <3>2, NameOfFacts
  <2>6. ASSUME NEW fact \in NamesFacts, fact[2] = n PROVE FALSE
    BY <2>6, NamesFact
  <2>7. n \notin ListFacts(i) /\ (n \in ListLines(i) => "SECRET" \notin chan[dir[n]].flags)
    BY <2>4 DEF ListFacts, ListLines
  <2>8. QED
    BY <2>5, <2>6, <2>7
<1>2. QED
  BY <1>1, MsgInductive, PTL

-----------------------------------------------------------------------------
\* Flags

\* Until _disconnect erases one, clients change the prefixes of their slots by
\* NICK and USER alone.
LEMMA NicknamesStay ==
  ASSUME Proceed
  PROVE  slot' = slot \/ \E i \in Slots, w \in Names \cup Nameless : Nick(i, w) \/ User(i, w)
<1>1. NewConnection \/ Grow \/ Leave => slot' = slot
  BY DEF NewConnection, Grow, Leave, StartLeave, StartLeaveMisreads, LeaveChannel,
         LeaveDeadChannel, LeaveMisreads, Undefined, UndefinedBy
<1>2. ASSUME NEW i \in Slots, NickMisreads(i) \/ Register(i) PROVE slot' = slot
  BY <1>2 DEF NickMisreads, Register, Undefined, UndefinedBy
<1>3. ASSUME NEW i \in Slots, NEW n \in ChanNames, Command(i, n) PROVE slot' = slot
  <2>1. \A k \in Keys : Join(i, n, k) => slot' = slot
    BY DEF Join, Undefined, UndefinedBy
  <2>2. PartUnknown(i, n) \/ PartOther(i, n) \/ Part(i, n) => slot' = slot
    BY DEF PartUnknown, PartOther, Part
  <2> PartMisreads(i, n) \/ InviteMisreads(i, n) \/ TopicMisreads(i, n) => slot' = slot
    BY DEF PartMisreads, InviteMisreads, TopicMisreads, Undefined, UndefinedBy
  <2> \A t \in Slots : Kick(i, n, t) \/ KickMisreads(i, n, t) \/ Invite(i, n, t) => slot' = slot
    BY DEF Kick, KickMisreads, Invite, Undefined, UndefinedBy
  <2> \A t \in Topics \cup {NoTopic} : Topic(i, n, t) => slot' = slot
    BY DEF Topic
  <2>3. \A t \in Slots : ModeAddOp(i, n, t) \/ ModeRemoveOp(i, n, t) \/ ModeFails(i, n, t)
                           => slot' = slot
    BY DEF ModeAddOp, ModeRemoveOp, ModeFails, ChangeFor, UndefinedBy
  <2>4. \A t \in Slots, on \in BOOLEAN : ModeVoice(i, n, t, on) => slot' = slot
    BY DEF ModeVoice, ChangeFor
  <2>5. \A flag \in Flags, on \in BOOLEAN : ModeFlag(i, n, flag, on) => slot' = slot
    BY DEF ModeFlag, Change, ChangeFor
  <2>6. \A arg \in LimitArgs \cup {0} : ModeLimit(i, n, arg) => slot' = slot
    BY DEF ModeLimit, Change, ChangeFor
  <2>7. \A k \in Keys : ModeKey(i, n, k) => slot' = slot
    BY DEF ModeKey, Change, ChangeFor
  <2>8. \A m \in Masks : ModeBan(i, n, m) \/ ModeUnban(i, n, m) => slot' = slot
    BY DEF ModeBan, ModeUnban, Change, ChangeFor, UndefinedBy
  <2>9. ModeNoParameter(i, n) \/ ModeMisreads(i, n) => slot' = slot
    BY DEF ModeNoParameter, ModeMisreads, Undefined, UndefinedBy
  <2>10. Mode(i, n) => slot' = slot
    BY <2>3, <2>4, <2>5, <2>6, <2>7, <2>8, <2>9 DEF Mode
  <2>11. QED
    BY <1>3, <2>1, <2>2, <2>10 DEF Command
<1>4. QED
  BY <1>1, <1>2, <1>3 DEF Proceed

\* The flags of a client stay with it when users before it are erased, in every
\* run: only its own AWAY, or MODE on its nickname, changes them, though
\* _clients.erase copies every later User over the one before it.
THEOREM ModesAlwaysFollow == MsgSpec => ModesFollowClient
<1> DEFINE Follows(i, j) ==
             slot[i] \in Names /\ slot'[j] = slot[i] /\ modes'[j] # modes[i] =>
                 i = j /\ \E flag \in UserFlags, on \in BOOLEAN : SetMode(i, flag, on)
<1>1. ASSUME Carried, ModesTyped, Carried', MsgNext, NEW i \in 1 .. size, NEW j \in 1 .. size'
      PROVE  Follows(i, j)
  <2> SUFFICES ASSUME slot[i] \in Names, slot'[j] = slot[i], modes'[j] # modes[i]
               PROVE  i = j /\ \E flag \in UserFlags, on \in BOOLEAN : SetMode(i, flag, on)
    OBVIOUS
  <2>1. /\ i \in Slots /\ j \in Slots
        /\ \A k, l \in Slots : slot[k] = slot[l] /\ slot[k] \in Names => k = l
    <3>1. size \in 0 .. MaxUsers /\ size' \in 0 .. MaxUsers /\ MaxUsers \in Nat
      BY <1>1, BoundAssumption DEF Carried, Shape, TypeOK
    <3>2. i \in Slots /\ j \in Slots
      BY <3>1 DEF Slots
    <3>3. QED
      BY <1>1, <3>2 DEF Carried, Sessions
  <2>2. slot' = slot => i = j
    BY <2>1
  <2>3. ASSUME NEW k \in Slots, NEW w \in Names \cup Nameless, Nick(k, w) \/ User(k, w),
               UNCHANGED modes
        PROVE  FALSE
    <3>1. slot \in [Slots -> Names \cup Nameless] /\ slot' = [slot EXCEPT ![k] = w]
          /\ slot[i] # w
      <4>1. slot \in [Slots -> Names \cup Nameless] /\ slot' = [slot EXCEPT ![k] = w]
        BY <1>1, <2>3 DEF Nick, User, Carried, Shape, TypeOK
      <4>2. slot[i] # w
        BY <2>3, PrefixAssumption DEF Nick, User
      <4>3. QED
        BY <4>1, <4>2
    <3>2. j # k
      BY <2>1, <3>1
    <3>3. i = j
      BY <2>1, <3>1, <3>2
    <3>4. QED
      BY <2>3, <3>3
  <2>4. ASSUME EraseWithModes PROVE FALSE
    <3>1. /\ leaver \in 1 .. size /\ size \in 1 .. MaxUsers /\ size' = size - 1
          /\ \A l \in Slots : l < size => l + 1 \in Slots
          /\ slot'[j] = IF j < leaver THEN slot[j] ELSE IF j < size THEN slot[j + 1] ELSE NoName
          /\ modes'[j] = IF j < leaver THEN modes[j] ELSE IF j < size THEN modes[j + 1] ELSE {}
      BY <1>1, <2>1, <2>4, EraseFacts DEF Carried, EraseWithModes, MovedModes
    <3>2. CASE j < leaver
      BY <2>1, <3>1, <3>2
    <3>3. CASE ~(j < leaver)
      <4>1. j < size
        BY <3>1
      <4>2. j + 1 \in Slots /\ slot'[j] = slot[j + 1] /\ modes'[j] = modes[j + 1]
        BY <2>1, <3>1, <3>3, <4>1
      <4>3. j + 1 = i
        BY <2>1, <4>2
      <4>4. QED
        BY <4>2, <4>3
    <3>4. QED
      BY <3>2, <3>3
  <2>5. ASSUME NEW k \in Slots, NEW flag \in UserFlags, NEW on \in BOOLEAN, SetMode(k, flag, on)
        PROVE  i = j /\ SetMode(i, flag, on)
    <3>1. i = j
      BY <2>2, <2>5 DEF SetMode, vars
    <3>2. k = i
      BY <1>1, <2>1, <2>5, <3>1 DEF SetMode, ModesTyped
    <3>3. QED
      BY <2>5, <3>1, <3>2
  <2>6. UNCHANGED modes => slot' # slot
    BY <2>2
  <2>7. CASE \E k \in Slots, flag \in UserFlags, on \in BOOLEAN : SetMode(k, flag, on)
    BY <2>5, <2>7
  <2>8. CASE Proceed /\ UNCHANGED modes
    BY <2>3, <2>6, <2>8, NicknamesStay
  <2>9. ASSUME NEW k \in Slots,
               \/ \E n \in ChanNames : MessageMisreads(k, n)
               \/ NoticeToNobody(k) \/ QueryMisreads(k)
        PROVE  FALSE
    BY <2>6, <2>9, Zenon DEF MessageMisreads, NoticeToNobody, QueryMisreads, Undefined,
       UndefinedBy
  <2>10. QED
    BY <1>1, <2>4, <2>7, <2>8, <2>9 DEF MsgNext
<1>2. Carried /\ ModesTyped /\ Carried' /\ [MsgNext]_msgVars
        => [\A i \in 1 .. size, j \in 1 .. size' : Follows(i, j)]_msgVars
  BY <1>1
<1>3. QED
  BY <1>2, MsgInductive, PTL DEF MsgSpec, ModesFollowClient

-----------------------------------------------------------------------------
\* Who receives a message

LEMMA OnFacts ==
  ASSUME Carried, Faithful, NEW i \in 1 .. size, NEW n \in ChanNames
  PROVE  /\ On(i, n) <=> dir[n] # NoChan /\ i \in Range(chan[dir[n]].users)
         /\ On(i, n) => dir[n] \in Live /\ Denotes(dir[n])
<1>1. dir[n] # NoChan => dir[n] \in Live
  BY DEF Live
<1>2. RecordsAgree /\ \A id \in Live : Denotes(id)
  BY RecordsFollow, Pointing DEF Carried, Faithful
<1>3. QED
  BY <1>1, <1>2 DEF On, Faithful, RecordsAgree

\* The nickname of the sender is on the channel when the channel is in the list
\* of the sender, and a nickname is found when it is that of a client.
LEMMA AddressFacts ==
  ASSUME Carried, Faithful, NEW i \in 1 .. size, reg[i], NEW t \in Names \cup ChanNames
  PROVE  MayAddress(i, t) <=> IF t \in ChanNames THEN On(i, t) ELSE t \in Clients(Slots)
<1>1. CASE t \in ChanNames
  <2>1. ASSUME dir[t] # NoChan
        PROVE  HoldsNick(Range(chan[dir[t]].users), slot[i]) <=> i \in Range(chan[dir[t]].users)
    <3>1. dir[t] \in Live /\ Denotes(dir[t])
      BY <1>1, <2>1, Pointing DEF Live, Faithful
    <3>2. QED
      BY <3>1, NickFacts DEF Carried
  <2>2. QED
    BY <1>1, <2>1, OnFacts DEF MayAddress
<1>2. CASE t \notin ChanNames
  <2>1. size \in 0 .. MaxUsers /\ MaxUsers \in Nat
    BY <1>2, BoundAssumption DEF Carried, Shape, TypeOK
  <2>2. \A j : j \in 1 .. size <=> j \in Slots /\ j <= size
    BY <2>1 DEF Slots
  <2>3. QED
    BY <1>2, <2>1, <2>2 DEF MayAddress, Clients
<1>3. QED
  BY <1>1, <1>2

LEMMA MutedFacts ==
  ASSUME Carried, Faithful, NEW i \in 1 .. size, NEW n \in ChanNames, On(i, n)
  PROVE  Muted(i, n) <=> ~MaySpeakOn(i, n)
<1> DEFINE ops == chan[dir[n]].ops
           voices == chan[dir[n]].voices
<1>1. dir[n] \in Live /\ Denotes(dir[n]) /\ dir[n] # NoChan
  BY OnFacts DEF On
<1>2. ops \cup voices \subseteq Pointers(chan[dir[n]])
  BY DEF Pointers
<1>3. Holds(ops \cup voices, slot[i]) <=> slot[i] \in Clients(ops \cup voices)
  BY <1>1, <1>2, HoldsFacts DEF Carried
<1>4. Clients(ops \cup voices) = Clients(ops) \cup Clients(voices)
  BY DEF Clients
<1>5. QED
  BY <1>1, <1>3, <1>4 DEF Muted, MaySpeakOn, Operators

\* Where client j is among the members, unless it is the sender: in one place
\* or nowhere.
Places(s, i, j) == {k \in 1 .. Len(s) : s[k] = j /\ s[k] # i}

LEMMA PlacesOf ==
  ASSUME NEW s, Distinct(s), NEW i, NEW j
  PROVE  Cardinality(Places(s, i, j)) = IF j \in Range(s) /\ j # i THEN 1 ELSE 0
<1>1. Cardinality({}) = 0
  BY FS!FS_EmptySet, CardinalitySame
<1>2. CASE j \in Range(s) /\ j # i
  <2>1. PICK k \in 1 .. Len(s) : s[k] = j
    BY <1>2 DEF Range
  <2>2. Places(s, i, j) = {k}
    BY <1>2, <2>1 DEF Distinct, Places
  <2>3. Cardinality({k}) = 1
    BY FS!FS_Singleton, CardinalitySame
  <2>4. QED
    BY <1>2, <2>2, <2>3
<1>3. CASE ~(j \in Range(s) /\ j # i)
  <2>1. Places(s, i, j) = {}
    BY <1>3 DEF Range, Places
  <2>2. QED
    BY <1>1, <1>3, <2>1
<1>4. QED
  BY <1>2, <1>3

LEMMA CopiesFacts ==
  ASSUME Carried, Faithful, NEW i \in 1 .. size, NEW j \in 1 .. size,
         NEW t \in Names \cup ChanNames, t \in ChanNames => On(i, t)
  PROVE  Copies(i, t, j) = IF IF t \in ChanNames
                              THEN j # i /\ On(j, t) /\ MaySpeakOn(i, t)
                              ELSE slot[j] = t
                           THEN 1 ELSE 0
<1>1. CASE t \notin ChanNames
  BY <1>1 DEF Copies
<1>2. CASE t \in ChanNames /\ Muted(i, t)
  BY <1>2, MutedFacts DEF Copies
<1>3. CASE t \in ChanNames /\ ~Muted(i, t)
  <2> DEFINE users == chan[dir[t]].users
  <2>1. dir[t] \in ChanIds /\ dir[t] # NoChan
    BY <1>3, OnFacts, ShapeFacts DEF On, Carried
  <2>2. Distinct(users)
    BY <2>1, ShapeFacts DEF Carried
  <2>3. Copies(i, t, j) = Cardinality(Places(users, i, j))
    BY <1>3 DEF Copies, Places
  <2> HIDE DEF users
  <2>4. Copies(i, t, j) = IF j \in Range(users) /\ j # i THEN 1 ELSE 0
    BY <2>2, <2>3, PlacesOf
  <2>5. On(j, t) <=> j \in Range(users)
    BY <1>3, <2>1, OnFacts DEF users
  <2>6. MaySpeakOn(i, t)
    BY <1>3, MutedFacts
  <2>7. QED
    BY <1>3, <2>4, <2>5, <2>6
<1>4. QED
  BY <1>1, <1>2, <1>3

LEMMA DeliverableFacts ==
  ASSUME Carried, Faithful, NEW i \in 1 .. size, reg[i], NEW to \in Lists, NEW kind
  PROVE  Deliverable(i, kind, to) <=>
            /\ \A k, l \in 1 .. Len(to) : to[k] = to[l] => k = l
            /\ \A k \in 1 .. Len(to) : IF to[k] \in ChanNames THEN On(i, to[k])
                                       ELSE to[k] \in Clients(Slots)
            /\ kind = "NOTICE" => to \in [1 .. 1 -> Names]
<1>1. PICK m \in 1 .. 2 : to \in [1 .. m -> Names \cup ChanNames]
  BY DEF Lists
<1>2. to \in Seq(Names \cup ChanNames) /\ Len(to) = m /\ m \in Nat
  BY <1>1
<1>3. \A k \in 1 .. Len(to) : to[k] \in Names \cup ChanNames
  BY <1>1, <1>2
<1>4. \A k \in 1 .. Len(to) :
          MayAddress(i, to[k]) <=> IF to[k] \in ChanNames THEN On(i, to[k])
                                   ELSE to[k] \in Clients(Slots)
  BY <1>3, AddressFacts
<1>5. to \in [1 .. 1 -> Names] <=> Len(to) = 1 /\ to[1] \notin ChanNames
  <2>1. ASSUME to \in [1 .. 1 -> Names] PROVE Len(to) = 1 /\ to[1] \notin ChanNames
    BY <2>1, TargetAssumption
  <2>2. ASSUME Len(to) = 1, to[1] \notin ChanNames PROVE to \in [1 .. 1 -> Names]
    BY <1>1, <1>2, <2>2
  <2>3. QED
    BY <2>1, <2>2
<1>6. QED
  BY <1>4, <1>5 DEF Deliverable

\* Every client a PRIVMSG or NOTICE is for gets one copy for each of its
\* receivers and nobody else any, or nobody gets anything, in every run: though
\* the sender is looked for by nickname, its right to speak by prefix and the
\* receivers by pointer, all three find the same clients.
THEOREM MessagesReachTheirs == MsgSpec => []MessagesReachMembers
<1>1. Carried => MessagesReachMembers
  <2> SUFFICES ASSUME Carried, Faithful, NEW i \in 1 .. size, reg[i], NEW to \in Lists,
                      NEW kind \in {"PRIVMSG", "NOTICE"},
                      NEW j \in 1 .. size, NEW k \in 1 .. Len(to)
               PROVE  LET For(t) == IF t \in ChanNames
                                    THEN j # i /\ On(j, t) /\ MaySpeakOn(i, t)
                                    ELSE slot[j] = t
                          proper == /\ \A m, l \in 1 .. Len(to) : to[m] = to[l] => m = l
                                    /\ \A m \in 1 .. Len(to) :
                                          IF to[m] \in ChanNames THEN On(i, to[m])
                                          ELSE to[m] \in Clients(Slots)
                          sent == proper /\ (kind = "NOTICE" => to \in [1 .. 1 -> Names])
                      IN  Received(i, kind, to)[j][k] = IF sent /\ For(to[k]) THEN 1 ELSE 0
    BY DEF MessagesReachMembers
  <2> DEFINE addressed == IF to[k] \in ChanNames
                          THEN j # i /\ On(j, to[k]) /\ MaySpeakOn(i, to[k])
                          ELSE slot[j] = to[k]
  <2>1. Received(i, kind, to)[j][k] = IF Deliverable(i, kind, to) THEN Copies(i, to[k], j) ELSE 0
    BY DEF Received
  <2>2. to[k] \in Names \cup ChanNames
    BY DEF Lists
  <2>3. ASSUME Deliverable(i, kind, to)
        PROVE  Copies(i, to[k], j) = IF addressed THEN 1 ELSE 0
    <3>1. to[k] \in ChanNames => On(i, to[k])
      BY <2>3, DeliverableFacts
    <3>2. QED
      BY <2>2, <3>1, CopiesFacts
  <2>4. QED
    BY <2>1, <2>3, DeliverableFacts
<1>2. QED
  BY <1>1, MsgInductive, PTL

=============================================================================
