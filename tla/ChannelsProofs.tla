--------------------------- MODULE ChannelsProofs ---------------------------
(***************************************************************************)
(* Proofs about Channels, for any number of users, channels, addresses,    *)
(* keys, masks and topics, and any set of commands.                        *)
(*                                                                         *)
(* The invariants are proved in layers, each on the ones before: the types *)
(* with the bound on pointers (Shape); the members of a channel and its    *)
(* operators (Order); the sessions behind the pointers (Sessions,          *)
(* MembersKnowChannel); and the two records of membership (ListsTrue).     *)
(***************************************************************************)
EXTENDS Channels, TLAPS

ST == INSTANCE SequenceTheorems
FS == INSTANCE FiniteSetTheorems
SL == INSTANCE SequenceLemmas

Distinct(s) == \A j, k \in 1 .. Len(s) : s[j] = s[k] => j = k

-----------------------------------------------------------------------------
\* Lists

LEMMA WithoutFacts ==
  ASSUME NEW S, NEW s \in Seq(S), NEW k \in 1 .. Len(s)
  PROVE  /\ Without(s, k) \in Seq(S)
         /\ Len(Without(s, k)) = Len(s) - 1
         /\ \A j \in 1 .. Len(s) - 1 : Without(s, k)[j] = IF j < k THEN s[j] ELSE s[j + 1]
<1> DEFINE e(j) == IF j < k THEN s[j] ELSE s[j + 1]
<1>1. Len(s) - 1 \in Nat /\ \A j \in 1 .. Len(s) - 1 : e(j) \in S
  OBVIOUS
<1>2. [j \in 1 .. Len(s) - 1 |-> e(j)] \in Seq(S)
  <2> HIDE DEF e
  <2> QED BY <1>1, ST!IsASeq
<1>3. QED
  BY <1>1, <1>2 DEF Without

\* What is left of a list without one element: every other element.
LEMMA RangeWithout ==
  ASSUME NEW S, NEW s \in Seq(S), NEW k \in 1 .. Len(s)
  PROVE  /\ Range(s) \ {s[k]} \subseteq Range(Without(s, k))
         /\ Range(Without(s, k)) \subseteq Range(s)
         /\ Distinct(s) => /\ Distinct(Without(s, k))
                           /\ Range(Without(s, k)) = Range(s) \ {s[k]}
<1> DEFINE t == Without(s, k)
<1>1. /\ Len(t) = Len(s) - 1 /\ Len(s) \in Nat /\ k \in 1 .. Len(s)
      /\ \A j \in 1 .. Len(s) - 1 : t[j] = IF j < k THEN s[j] ELSE s[j + 1]
  <2>1. Len(s) \in Nat
    OBVIOUS
  <2>2. QED BY <2>1, WithoutFacts
<1> HIDE DEF t
<1>2. ASSUME NEW x \in Range(s), x # s[k] PROVE x \in Range(t)
  <2>1. PICK j \in 1 .. Len(s) : s[j] = x
    BY DEF Range
  <2>2. CASE j < k
    <3>1. j \in 1 .. Len(t) /\ t[j] = x
      BY <2>1, <2>2, <1>1
    <3>2. QED BY <3>1 DEF Range
  <2>3. CASE j > k
    <3>1. j - 1 \in 1 .. Len(t) /\ t[j - 1] = x
      BY <2>1, <2>3, <1>1
    <3>2. QED BY <3>1 DEF Range
  <2>4. QED BY <2>1, <2>2, <2>3, <1>2, <1>1
<1>3. ASSUME NEW x \in Range(t)
      PROVE  \E j \in 1 .. Len(s) : j # k /\ x = s[j]
  <2>1. PICK j \in 1 .. Len(t) : t[j] = x
    BY DEF Range
  <2>2. CASE j < k
    BY <2>1, <2>2, <1>1
  <2>3. CASE j >= k
    <3>1. j + 1 \in 1 .. Len(s) /\ x = s[j + 1] /\ j + 1 # k
      BY <2>1, <2>3, <1>1
    <3>2. QED BY <3>1
  <2>4. QED BY <2>1, <2>2, <2>3, <1>1
<1>4. Range(t) \subseteq Range(s)
  BY <1>3 DEF Range
<1>5. ASSUME Distinct(s) PROVE Distinct(t)
  BY <1>1, <1>5 DEF Distinct
<1>6. ASSUME Distinct(s) PROVE s[k] \notin Range(t)
  BY <1>3, <1>1, <1>6 DEF Distinct
<1>7. QED
  BY <1>2, <1>4, <1>5, <1>6 DEF t

LEMMA RangeAppend ==
  ASSUME NEW S, NEW s \in Seq(S), NEW x \in S
  PROVE  /\ Append(s, x) \in Seq(S)
         /\ Range(Append(s, x)) = Range(s) \cup {x}
         /\ Distinct(s) /\ x \notin Range(s) => Distinct(Append(s, x))
<1>1. /\ Append(s, x) \in Seq(S)
      /\ Len(s) \in Nat
      /\ Len(Append(s, x)) = Len(s) + 1
      /\ \A j \in 1 .. Len(s) : Append(s, x)[j] = s[j]
      /\ Append(s, x)[Len(s) + 1] = x
  BY ST!AppendProperties
<1>2. \A j \in 1 .. Len(s) + 1 : j \in 1 .. Len(s) \/ j = Len(s) + 1
  BY <1>1
<1>3. Range(Append(s, x)) = Range(s) \cup {x}
  BY <1>1, <1>2 DEF Range
<1>4. QED
  BY <1>1, <1>2, <1>3 DEF Range, Distinct

LEMMA RangeTail ==
  ASSUME NEW S, NEW s \in Seq(S), s # <<>>
  PROVE  /\ Tail(s) \in Seq(S)
         /\ Head(s) \in S
         /\ Head(s) \in Range(s)
         /\ Range(s) = Range(Tail(s)) \cup {Head(s)}
         /\ Distinct(s) => Distinct(Tail(s)) /\ Head(s) \notin Range(Tail(s))
<1>1. /\ Len(s) \in Nat \ {0}
      /\ Head(s) = s[1] /\ Head(s) \in S
      /\ Tail(s) \in Seq(S)
      /\ Len(Tail(s)) = Len(s) - 1
      /\ \A j \in 1 .. Len(Tail(s)) : Tail(s)[j] = s[j + 1]
  BY ST!HeadTailProperties, ST!EmptySeq
<1>2. ASSUME NEW j \in 1 .. Len(s)
      PROVE  j = 1 \/ (j - 1 \in 1 .. Len(Tail(s)) /\ Tail(s)[j - 1] = s[j])
  BY <1>1
<1>3. \A j \in 1 .. Len(Tail(s)) : j + 1 \in 1 .. Len(s) /\ j + 1 # 1
  BY <1>1
<1>4. Range(s) = Range(Tail(s)) \cup {Head(s)}
  BY <1>1, <1>2, <1>3 DEF Range
<1>5. ASSUME Distinct(s) PROVE Distinct(Tail(s)) /\ Head(s) \notin Range(Tail(s))
  BY <1>1, <1>3, <1>5 DEF Range, Distinct
<1>6. QED
  BY <1>1, <1>4, <1>5

LEMMA RangeType ==
  ASSUME NEW S, NEW s \in Seq(S)
  PROVE  /\ Range(s) \subseteq S
         /\ s = <<>> <=> Range(s) = {}
<1>1. CASE s = <<>>
  BY <1>1 DEF Range
<1>2. CASE s # <<>>
  <2>1. 1 \in 1 .. Len(s)
    BY <1>2
  <2>2. s[1] \in Range(s)
    BY <2>1 DEF Range
  <2>3. QED
    BY <1>2, <2>2 DEF Range
<1>3. QED
  BY <1>1, <1>2

\* FirstOf finds the first occurrence of an element that is there.
LEMMA FirstOfFacts ==
  ASSUME NEW S, NEW s \in Seq(S), NEW x \in Range(s)
  PROVE  FirstOf(s, x) \in 1 .. Len(s) /\ s[FirstOf(s, x)] = x
<1> DEFINE T == {k \in 1 .. Len(s) : s[k] = x}
<1>1. T \subseteq Nat /\ T # {}
  BY DEF Range
<1>2. PICK k \in T : \A j \in T : k <= j
  <2> HIDE DEF T
  <2> QED BY <1>1, SL!LeastNat
<1>3. k \in 1 .. Len(s) /\ s[k] = x /\ \A j \in 1 .. k - 1 : s[j] # x
  BY <1>2
<1>4. QED
  BY <1>3 DEF FirstOf

-----------------------------------------------------------------------------
\* What a channel becomes

USE BoundAssumption, NameAssumption

LEMMA EmptyFacts ==
  /\ Empty \in Channel
  /\ Range(Empty.users) = {}
  /\ Pointers(Empty) = {}
BY DEF Empty, Channel, LimitWidth, Flags, Pointers, Range

\* The fields of a channel.
LEMMA ChannelFields ==
  ASSUME NEW ch \in Channel
  PROVE  /\ ch.users \in Seq(Addresses) /\ ch.ops \subseteq Addresses
         /\ ch.voices \subseteq Addresses /\ ch.flags \subseteq Flags
         /\ ch.limit \in 0 .. LimitWidth - 1 /\ ch.key \in Keys
         /\ ch.topic \in Topics \cup {NoTopic} /\ ch.bans \in [Masks -> 0 .. MaxBans]
         /\ ch.invited \in BOOLEAN
         /\ Pointers(ch) \subseteq Addresses
<1>1. ch.users \in Seq(Addresses) /\ ch.ops \subseteq Addresses /\ ch.voices \subseteq Addresses
  BY DEF Channel
<1>2. Range(ch.users) \subseteq Addresses
  BY <1>1, RangeType
<1>3. QED
  BY <1>1, <1>2 DEF Channel, Pointers

\* removeOperator changes the operators alone, and leaves a channel with members
\* without any only when there was none.
LEMMA WithoutOpFacts ==
  ASSUME NEW ch \in Channel, NEW i
  PROVE  /\ WithoutOp(ch, i) \in Channel
         /\ WithoutOp(ch, i).users = ch.users
         /\ WithoutOp(ch, i).voices = ch.voices
         /\ WithoutOp(ch, i).flags = ch.flags
         /\ WithoutOp(ch, i).invited = ch.invited
         /\ WithoutOp(ch, i).ops =
               IF i \in ch.ops /\ ch.ops \ {i} = {} /\ ch.users # <<>>
               THEN {ch.users[1]} ELSE ch.ops \ {i}
         /\ ch.users # <<>> => ch.users[1] \in Range(ch.users)
<1>1. ASSUME ch.users # <<>>
      PROVE  ch.users[1] \in Addresses /\ ch.users[1] \in Range(ch.users)
  <2>1. ch.users \in Seq(Addresses) /\ 1 \in 1 .. Len(ch.users)
    BY <1>1, ChannelFields
  <2>2. QED
    BY <2>1 DEF Range
<1>2. QED
  BY <1>1 DEF WithoutOp, Channel

\* Channel::disconnect removes one pointer from the members, the operators and
\* the speakers, and may appoint one of the members left.
\* new is the channel ch once the pointer i has been taken from it.
Deprived(ch, i, new) ==
    /\ new \in Channel
    /\ new.invited = ch.invited
    /\ new.flags = ch.flags
    /\ Distinct(new.users)
    /\ Range(new.users) = Range(ch.users) \ {i}
    /\ Pointers(new) \subseteq Pointers(ch)
    /\ i \notin Range(ch.users) => new = ch
    /\ i \in Range(ch.users) =>
          new.ops = IF i \in ch.ops /\ ch.ops \ {i} = {} /\ new.users # <<>>
                    THEN {new.users[1]} ELSE ch.ops \ {i}
    /\ new.users # <<>> => new.users[1] \in Range(new.users)

LEMMA DisconnectFacts ==
  ASSUME NEW ch \in Channel, Distinct(ch.users), NEW i
  PROVE  Deprived(ch, i, Disconnect(ch, i))
<1>1. CASE i \notin Range(ch.users)
  <2>1. Disconnect(ch, i) = ch
    BY <1>1 DEF Disconnect
  <2>2. ch.users # <<>> => ch.users[1] \in Range(ch.users)
    BY WithoutOpFacts
  <2>3. QED
    BY <1>1, <2>1, <2>2 DEF Deprived
<1>2. CASE i \in Range(ch.users)
  <2> DEFINE k == CHOOSE k \in 1 .. Len(ch.users) : ch.users[k] = i
             left == [ch EXCEPT !.users = Without(@, k)]
             fewer == WithoutOp(left, i)
             new == [fewer EXCEPT !.voices = @ \ {i}]
  <2>1. k \in 1 .. Len(ch.users) /\ ch.users[k] = i
    BY <1>2 DEF Range
  <2>2. ch.users \in Seq(Addresses)
    BY ChannelFields
  <2>3. /\ Without(ch.users, k) \in Seq(Addresses)
        /\ Range(Without(ch.users, k)) = Range(ch.users) \ {i}
        /\ Distinct(Without(ch.users, k))
    <3> HIDE DEF k
    <3> QED BY <2>1, <2>2, WithoutFacts, RangeWithout
  <2>4. /\ left \in Channel /\ left.users = Without(ch.users, k)
        /\ left.ops = ch.ops /\ left.voices = ch.voices
        /\ left.flags = ch.flags /\ left.invited = ch.invited
    <3> HIDE DEF k
    <3> QED BY <2>3 DEF Channel
  <2>5. /\ fewer \in Channel /\ fewer.users = left.users
        /\ fewer.voices = ch.voices /\ fewer.flags = ch.flags /\ fewer.invited = ch.invited
        /\ fewer.ops = IF i \in ch.ops /\ ch.ops \ {i} = {} /\ left.users # <<>>
                       THEN {left.users[1]} ELSE ch.ops \ {i}
        /\ left.users # <<>> => left.users[1] \in Range(left.users)
    <3> HIDE DEF left
    <3>1. /\ fewer \in Channel /\ fewer.users = left.users
          /\ fewer.voices = left.voices /\ fewer.flags = left.flags
          /\ fewer.invited = left.invited
          /\ fewer.ops = IF i \in left.ops /\ left.ops \ {i} = {} /\ left.users # <<>>
                         THEN {left.users[1]} ELSE left.ops \ {i}
          /\ left.users # <<>> => left.users[1] \in Range(left.users)
      BY <2>4, WithoutOpFacts
    <3>2. QED
      BY <2>4, <3>1
  <2>6. /\ new \in Channel /\ new.users = left.users /\ new.ops = fewer.ops
        /\ new.voices = ch.voices \ {i}
        /\ new.flags = ch.flags /\ new.invited = ch.invited
    <3> HIDE DEF fewer
    <3> QED BY <2>5 DEF Channel
  <2>7. Disconnect(ch, i) = new
    BY <1>2 DEF Disconnect
  <2> HIDE DEF k, left, fewer, new
  <2>8. Pointers(new) \subseteq Pointers(ch)
    BY <2>3, <2>4, <2>5, <2>6 DEF Pointers
  <2>9. QED
    BY <1>2, <2>3, <2>4, <2>5, <2>6, <2>7, <2>8 DEF Deprived
<1>3. QED
  BY <1>1, <1>2

-----------------------------------------------------------------------------
\* The kinds of steps

\* The server stops, or meets something undefined; nothing else changes.
Halts ==
    /\ status = "up"
    /\ status' \in {"terminated", "undefined"}
    /\ past \subseteq past' /\ past' \subseteq Events
    /\ UNCHANGED <<capacity, size, slot, reg, chans, dir, chan, leaver, todo>>

\* MODE, TOPIC and INVITE change one channel, but not its members.
Tuned(old, new) ==
    /\ new \in Channel
    /\ new.users = old.users
    /\ \A p \in new.ops \cup new.voices :
          \/ p \in Pointers(old)
          \/ p \in 1 .. size /\ (slot[p] \in Names \/ "noname" \in past')
    /\ old.users # <<>> /\ old.ops # {} => new.ops # {}

Tunes(n) ==
    /\ status = "up"
    /\ leaver = NoSlot
    /\ dir[n] # NoChan
    /\ \E ch : Tuned(chan[dir[n]], ch) /\ chan' = [chan EXCEPT ![dir[n]] = ch]
    /\ \/ chan'[dir[n]].ops = chan[dir[n]].ops
       \/ \E i, t \in Slots : ModeAddOp(i, n, t) \/ ModeRemoveOp(i, n, t)
    /\ past \subseteq past' /\ past' \subseteq Events
    /\ \A id \in ChanIds : chan'[id].invited => chan[id].invited \/ "invite" \in past'
    /\ "kick" \in past' => "kick" \in past
    /\ UNCHANGED <<capacity, size, slot, reg, chans, dir, leaver, todo, status>>

\* The channel named n loses the pointer t (none if t is NoSlot), and is erased
\* when that was the last member, except by KICK.
Loses(n, t) ==
    LET ch == Disconnect(chan[dir[n]], t)
    IN  /\ dir[n] # NoChan
        /\ \/ PutOrErase(n, dir[n], ch)
           \/ /\ chan' = [chan EXCEPT ![dir[n]] = ch]
              /\ ch.users = <<>> => "kick" \in past'
              /\ UNCHANGED dir

\* The first of a channel.
Creates(i, n, k) ==
    /\ Join(i, n, k)
    /\ Ready(i)
    /\ dir[n] = NoChan
    /\ Create(i, n, k)
    /\ UNCHANGED <<capacity, size, slot, reg, leaver, todo, status>>

Enters(i, n, k) ==
    /\ Join(i, n, k)
    /\ Ready(i)
    /\ dir[n] # NoChan
    /\ Enter(i, dir[n], k)
    /\ UNCHANGED <<capacity, size, slot, reg, leaver, todo, status>>

Kinds ==
    \/ NewConnection \/ Grow
    \/ \E i \in Slots, w \in Names \cup Nameless : Nick(i, w) \/ User(i, w)
    \/ \E i \in Slots : Register(i) \/ StartLeave(i)
    \/ \E i \in Slots, n \in ChanNames :
          \/ \E k \in Keys : Creates(i, n, k) \/ Enters(i, n, k)
          \/ PartOther(i, n) \/ Part(i, n)
          \/ \E t \in Slots : Kick(i, n, t)
    \/ \E n \in ChanNames : Tunes(n) \/ LeaveChannel(n)
    \/ LeaveDeadChannel
    \/ EraseUser
    \/ Halts

\* The client KICK or MODE finds.
LEMMA FoundFacts ==
  ASSUME TypeOK, NEW t \in Slots, Found(t)
  PROVE  /\ t \in 1 .. size
         /\ t \in Addresses
         /\ Naming(t) \subseteq {"noname"}
         /\ slot[t] \in Names \/ Naming(t) = {"noname"}
<1>1. size \in Nat /\ t <= size /\ slot[t] \in Names \cup Nameless
  BY DEF TypeOK, Found, Slots
<1>2. QED
  BY <1>1 DEF Naming, Slots, Addresses

\* What MODE makes of a channel is one of Tunes.
LEMMA ChangeTunes ==
  ASSUME TypeOK, NEW i \in Slots, NEW n \in ChanNames, MayMode(i, n), NEW ch,
         NEW events \in SUBSET {"noname"}, ChangeFor(n, ch, events),
         Tuned(chan[dir[n]], ch), ch.invited = chan[dir[n]].invited,
         \/ ch.ops = chan[dir[n]].ops
         \/ \E t \in Slots : ModeAddOp(i, n, t) \/ ModeRemoveOp(i, n, t)
  PROVE  Tunes(n)
<1>1. /\ dir[n] \in ChanIds /\ chan \in [ChanIds -> Channel]
      /\ chan' = [chan EXCEPT ![dir[n]] = ch]
      /\ past' = past \cup events
  BY DEF MayMode, ChangeFor, TypeOK
<1>2. chan'[dir[n]] = ch
  BY <1>1
<1>3. \/ chan'[dir[n]].ops = chan[dir[n]].ops
      \/ \E j, t \in Slots : ModeAddOp(j, n, t) \/ ModeRemoveOp(j, n, t)
  BY <1>2
<1>4. past \subseteq past' /\ past' \subseteq Events /\ ("kick" \in past' => "kick" \in past)
  BY <1>1 DEF TypeOK, Events
<1>5. QED
  BY <1>1, <1>2, <1>3, <1>4 DEF Tunes, MayMode, Ready, ChangeFor

\* A channel whose members and powers stay as they are.
LEMMA SamePowers ==
  ASSUME NEW old \in Channel, NEW new \in Channel,
         new.users = old.users, new.ops = old.ops, new.voices = old.voices
  PROVE  Tuned(old, new)
BY DEF Tuned, Pointers

LEMMA NamedChannel ==
  ASSUME TypeOK, NEW n \in ChanNames, dir[n] # NoChan
  PROVE  dir[n] \in ChanIds /\ dir[n] \in Live /\ chan[dir[n]] \in Channel
BY DEF TypeOK, Live

LEMMA ModeTunes ==
  ASSUME TypeOK, NEW i \in Slots, NEW n \in ChanNames, Mode(i, n)
  PROVE  Tunes(n) \/ Halts
<1> DEFINE ch == chan[dir[n]]
<1>1. ASSUME MayMode(i, n) PROVE dir[n] \in ChanIds /\ ch \in Channel
  BY <1>1, NamedChannel DEF MayMode
<1>2. ASSUME NEW new, Change(n, new) PROVE ChangeFor(n, new, {})
  BY <1>2 DEF Change
<1>3. ASSUME NEW t \in Slots, Found(t), NEW new, ChangeFor(n, new, Naming(t))
      PROVE  /\ t \in 1 .. size /\ t \in Addresses /\ Naming(t) \in SUBSET {"noname"}
             /\ slot[t] \in Names \/ "noname" \in past'
  <2>1. past' = past \cup Naming(t)
    BY <1>3 DEF ChangeFor
  <2>2. QED
    BY <1>3, <2>1, FoundFacts
<1>4. ASSUME NEW t \in Slots, ModeAddOp(i, n, t) PROVE Tunes(n)
  <2> DEFINE new == IF Holds(ch.ops, slot[t]) THEN ch ELSE [ch EXCEPT !.ops = @ \cup {t}]
  <2>1. MayMode(i, n) /\ Found(t) /\ ChangeFor(n, new, Naming(t))
    BY <1>4 DEF ModeAddOp
  <2>2. /\ new \in Channel /\ new.users = ch.users /\ new.voices = ch.voices
        /\ new.invited = ch.invited
        /\ ch.ops \subseteq new.ops /\ new.ops \subseteq ch.ops \cup {t}
    <3> HIDE DEF ch
    <3> QED BY <2>1, <1>1, <1>3 DEF Channel
  <2> HIDE DEF new
  <2>3. Tuned(ch, new)
    BY <2>1, <2>2, <1>3 DEF Tuned, Pointers
  <2>4. QED
    BY <1>3, <1>4, <2>1, <2>2, <2>3, ChangeTunes
<1>5. ASSUME NEW t \in Slots, ModeRemoveOp(i, n, t) PROVE Tunes(n)
  <2> DEFINE new == WithoutOp(ch, t)
  <2>1. MayMode(i, n) /\ Found(t) /\ ChangeFor(n, new, Naming(t))
    BY <1>5 DEF ModeRemoveOp
  <2>2. /\ new \in Channel /\ new.users = ch.users /\ new.voices = ch.voices
        /\ new.invited = ch.invited
        /\ new.ops = IF t \in ch.ops /\ ch.ops \ {t} = {} /\ ch.users # <<>>
                     THEN {ch.users[1]} ELSE ch.ops \ {t}
        /\ ch.users # <<>> => ch.users[1] \in Range(ch.users)
    <3> HIDE DEF ch
    <3> QED BY <2>1, <1>1, WithoutOpFacts
  <2> HIDE DEF new
  <2>3. Tuned(ch, new)
    <3> HIDE DEF ch
    <3> QED BY <2>2 DEF Tuned, Pointers
  <2>4. QED
    BY <1>3, <1>5, <2>1, <2>2, <2>3, ChangeTunes
<1>6. ASSUME NEW t \in Slots, NEW on \in BOOLEAN, ModeVoice(i, n, t, on) PROVE Tunes(n)
  <2> DEFINE new == [ch EXCEPT !.voices = IF ~on THEN @ \ {t}
                                          ELSE IF Holds(@, slot[t]) THEN @ ELSE @ \cup {t}]
  <2>1. MayMode(i, n) /\ Found(t) /\ ChangeFor(n, new, Naming(t))
    BY <1>6 DEF ModeVoice
  <2>2. /\ new \in Channel /\ new.users = ch.users /\ new.ops = ch.ops
        /\ new.invited = ch.invited /\ new.voices \subseteq ch.voices \cup {t}
    <3> HIDE DEF ch
    <3> QED BY <2>1, <1>1, <1>3 DEF Channel
  <2> HIDE DEF new
  <2>3. Tuned(ch, new)
    BY <2>1, <2>2, <1>3 DEF Tuned, Pointers
  <2>4. QED
    BY <1>3, <2>1, <2>2, <2>3, ChangeTunes
<1>7. ASSUME NEW new, MayMode(i, n), Change(n, new), new \in Channel,
             new.users = ch.users, new.ops = ch.ops, new.voices = ch.voices,
             new.invited = ch.invited
      PROVE  Tunes(n)
  <2>1. Tuned(ch, new)
    BY <1>7, <1>1, SamePowers
  <2>2. QED
    BY <1>2, <1>7, <2>1, ChangeTunes
<1>8. ASSUME NEW flag \in Flags, NEW on \in BOOLEAN, ModeFlag(i, n, flag, on) PROVE Tunes(n)
  <2> DEFINE new == [ch EXCEPT !.flags = IF on THEN @ \cup {flag} ELSE @ \ {flag}]
  <2>1. MayMode(i, n) /\ Change(n, new)
    BY <1>8 DEF ModeFlag
  <2>2. new \in Channel
    BY <1>1, <2>1 DEF Channel
  <2>3. QED
    BY <1>1, <1>7, <2>1, <2>2 DEF Channel
<1>9. ASSUME NEW arg \in LimitArgs \cup {0}, ModeLimit(i, n, arg) PROVE Tunes(n)
  <2> DEFINE new == [ch EXCEPT !.limit = arg % LimitWidth]
  <2>1. MayMode(i, n) /\ Change(n, new)
    BY <1>9 DEF ModeLimit
  <2>2. arg % LimitWidth \in 0 .. LimitWidth - 1
    BY DEF LimitWidth
  <2>3. new \in Channel
    BY <1>1, <2>1, <2>2 DEF Channel
  <2>4. QED
    BY <1>1, <1>7, <2>1, <2>3 DEF Channel
<1>10. ASSUME NEW k \in Keys, ModeKey(i, n, k) PROVE Tunes(n)
  <2> DEFINE new == [ch EXCEPT !.key = k]
  <2>1. MayMode(i, n) /\ Change(n, new)
    BY <1>10 DEF ModeKey
  <2>2. new \in Channel
    BY <1>1, <2>1 DEF Channel
  <2>3. QED
    BY <1>1, <1>7, <2>1, <2>2 DEF Channel
<1>11. ASSUME NEW m \in Masks, NEW b \in 0 .. MaxBans, MayMode(i, n),
              Change(n, [ch EXCEPT !.bans[m] = b])
       PROVE  Tunes(n)
  <2> DEFINE bans == [ch.bans EXCEPT ![m] = b]
             new == [ch EXCEPT !.bans = bans]
  <2>1. bans \in [Masks -> 0 .. MaxBans]
    <3> HIDE DEF ch
    <3> QED BY <1>1, <1>11 DEF Channel
  <2>2. new \in Channel /\ new.users = ch.users /\ new.ops = ch.ops
        /\ new.voices = ch.voices /\ new.invited = ch.invited
    <3> HIDE DEF ch, bans
    <3> QED BY <1>1, <1>11, <2>1 DEF Channel
  <2>3. Change(n, new)
    BY <1>11
  <2>4. QED
    BY <1>7, <1>11, <2>2, <2>3
<1>12. ASSUME NEW m \in Masks, ModeBan(i, n, m) PROVE Tunes(n)
  <2>1. MayMode(i, n) /\ ch.bans[m] < MaxBans /\ Change(n, [ch EXCEPT !.bans[m] = ch.bans[m] + 1])
    BY <1>12 DEF ModeBan
  <2>2. ch.bans[m] + 1 \in 0 .. MaxBans
    BY <1>1, <2>1 DEF Channel
  <2>3. QED
    BY <1>11, <2>1, <2>2
<1>13. ASSUME NEW m \in Masks, ModeUnban(i, n, m) PROVE Tunes(n) \/ Halts
  <2>1. MayMode(i, n)
    BY <1>13 DEF ModeUnban
  <2>2. CASE ch.bans[m] > 0
    <3>1. Change(n, [ch EXCEPT !.bans[m] = ch.bans[m] - 1])
      BY <1>13, <2>2 DEF ModeUnban
    <3>2. ch.bans[m] - 1 \in 0 .. MaxBans
      BY <1>1, <2>1, <2>2 DEF Channel
    <3>3. QED
      BY <1>11, <2>1, <3>1, <3>2
  <2>3. CASE ~(ch.bans[m] > 0)
    BY <1>13, <2>3 DEF ModeUnban, MayMode, Ready, UndefinedBy, Halts, TypeOK, Events
  <2>4. QED
    BY <2>2, <2>3
<1>14. ModeNoParameter(i, n) => Halts
  BY DEF ModeNoParameter, MayMode, Ready, UndefinedBy, Halts, TypeOK, Events
<1>15. ModeMisreads(i, n) => Halts
  BY DEF ModeMisreads, Undefined, UndefinedBy, Ready, Halts, TypeOK
<1>16. ASSUME NEW t \in Slots, ModeFails(i, n, t) PROVE Halts
  <2>1. Naming(t) \subseteq {"noname"} /\ MayMode(i, n) /\ UndefinedBy(Naming(t))
    BY <1>16 DEF Naming, ModeFails
  <2>2. QED
    BY <2>1 DEF MayMode, Ready, UndefinedBy, Halts, TypeOK, Events
<1>17. QED
  BY <1>4, <1>5, <1>6, <1>8, <1>9, <1>10, <1>12, <1>13, <1>14, <1>15, <1>16 DEF Mode

LEMMA TopicTunes ==
  ASSUME TypeOK, NEW i \in Slots, NEW n \in ChanNames, NEW t \in Topics \cup {NoTopic},
         Topic(i, n, t)
  PROVE  Tunes(n)
<1> DEFINE ch == chan[dir[n]]
           new == [ch EXCEPT !.topic = t]
<1>1. dir[n] # NoChan /\ dir[n] \in ChanIds /\ ch \in Channel /\ chan \in [ChanIds -> Channel]
  BY NamedChannel DEF Topic, TypeOK
<1>2. new \in Channel /\ new.users = ch.users /\ new.ops = ch.ops
      /\ new.voices = ch.voices /\ new.invited = ch.invited
  <2> HIDE DEF ch
  <2> QED BY <1>1 DEF Channel
<1>3. Tuned(ch, new)
  BY <1>1, <1>2, SamePowers
<1>4. chan' = [chan EXCEPT ![dir[n]] = new]
  BY DEF Topic
<1> HIDE DEF new
<1>5. chan'[dir[n]].ops = chan[dir[n]].ops
  BY <1>1, <1>2, <1>4
<1>6. QED
  BY <1>1, <1>2, <1>3, <1>4, <1>5 DEF Tunes, Topic, Ready, TypeOK

LEMMA InviteTunes ==
  ASSUME TypeOK, NEW i \in Slots, NEW n \in ChanNames, NEW t \in Slots, Invite(i, n, t)
  PROVE  Tunes(n)
<1> DEFINE ch == chan[dir[n]]
           new == [ch EXCEPT !.invited = TRUE]
<1>1. dir[n] # NoChan /\ dir[n] \in ChanIds /\ ch \in Channel /\ chan \in [ChanIds -> Channel]
  BY NamedChannel DEF Invite, TypeOK
<1>2. new \in Channel /\ new.users = ch.users /\ new.ops = ch.ops
      /\ new.voices = ch.voices
  <2> HIDE DEF ch
  <2> QED BY <1>1 DEF Channel
<1>3. Tuned(ch, new)
  BY <1>1, <1>2, SamePowers
<1>4. chan' = [chan EXCEPT ![dir[n]] = new]
  BY DEF Invite
<1> HIDE DEF new
<1>5. chan'[dir[n]].ops = chan[dir[n]].ops
  BY <1>1, <1>2, <1>4
<1>6. QED
  BY <1>1, <1>2, <1>3, <1>4, <1>5 DEF Tunes, Invite, Ready, TypeOK, Events

\* Every step is of one of the kinds.
LEMMA StepKinds ==
  ASSUME TypeOK, Next
  PROVE  Kinds
<1>1. past \subseteq Events
  BY DEF TypeOK
<1>2. ASSUME NEW i \in Slots, NickMisreads(i) \/ StartLeaveMisreads(i) PROVE Halts
  BY <1>1, <1>2 DEF NickMisreads, StartLeaveMisreads, Undefined, UndefinedBy, Ready, Halts
<1>3. LeaveMisreads => Halts
  BY <1>1 DEF LeaveMisreads, Undefined, UndefinedBy, Halts
<1>4. ASSUME NEW i \in Slots, NEW n \in ChanNames, Command(i, n) PROVE Kinds
  <2>1. ASSUME NEW k \in Keys, Join(i, n, k)
        PROVE  Creates(i, n, k) \/ Enters(i, n, k) \/ Halts
    BY <1>1, <2>1 DEF Join, Creates, Enters, Undefined, UndefinedBy, Ready, Halts
  <2>2. PartUnknown(i, n) \/ PartMisreads(i, n) \/ InviteMisreads(i, n) \/ TopicMisreads(i, n)
          => Halts
    BY <1>1 DEF PartUnknown, PartMisreads, InviteMisreads, TopicMisreads, Undefined,
                   UndefinedBy, Ready, Halts
  <2>3. ASSUME NEW t \in Slots, KickMisreads(i, n, t) PROVE Halts
    <3>1. Naming(t) \subseteq Events
      BY DEF Naming, Events
    <3>2. QED
      BY <1>1, <2>3, <3>1 DEF KickMisreads, UndefinedBy, Ready, Halts
  <2>4. QED
    BY <1>4, <2>1, <2>2, <2>3, ModeTunes, TopicTunes, InviteTunes DEF Command, Kinds
<1>5. Leave => Kinds
  BY <1>2, <1>3 DEF Leave, Kinds
<1>6. QED
  BY <1>2, <1>4, <1>5 DEF Next, Proceed, Kinds

-----------------------------------------------------------------------------
\* Types

\* The half of the type invariant that is about the map _channels.
Directory ==
    /\ dir \in [ChanNames -> ChanIds \cup {NoChan}]
    /\ chan \in [ChanIds -> Channel]
    /\ \A m, n \in ChanNames : dir[m] = dir[n] /\ dir[m] # NoChan => m = n
    /\ \A id \in ChanIds \ Live : chan[id] = Empty

\* The other half, about the vector _clients.
Table ==
    /\ capacity \in Nat
    /\ size <= capacity
    /\ size \in 0 .. MaxUsers
    /\ slot \in [Slots -> Names \cup Nameless]
    /\ reg \in [Slots -> BOOLEAN]
    /\ chans \in [Slots -> Seq(ChanIds)]
    /\ leaver \in 0 .. size
    /\ todo \in Seq(ChanIds)
    /\ status \in {"up", "terminated", "undefined"}
    /\ past \subseteq Events
    /\ \A i \in Slots : i > size => slot[i] = NoName /\ ~reg[i] /\ chans[i] = <<>>

LEMMA TypeHalves == TypeOK <=> Directory /\ Table
BY DEF TypeOK, Directory, Table

\* The vector grows at most once: until then pointers are slots, and then there
\* is room for everybody.
GrowsOnce ==
    capacity < MaxUsers =>
        /\ MaxUsers <= 2 * capacity
        /\ \A id \in ChanIds : Pointers(chan[id]) \subseteq Slots

\* PutOrErase on the map: the channel changes, or goes with its last member.
LEMMA PutFacts ==
  ASSUME Directory, NEW n \in ChanNames, dir[n] # NoChan, NEW ch \in Channel,
         PutOrErase(n, dir[n], ch)
  PROVE  /\ Directory'
         /\ Live' = IF ch.users = <<>> THEN Live \ {dir[n]} ELSE Live
         /\ \A id \in ChanIds : chan'[id] = IF id # dir[n] THEN chan[id]
                                            ELSE IF ch.users = <<>> THEN Empty ELSE ch
<1>1. dir[n] \in ChanIds /\ dir[n] \in Live
  BY DEF Directory, Live
<1>2. CASE ch.users = <<>>
  <2>1. /\ dir' = [dir EXCEPT ![n] = NoChan]
        /\ chan' = [chan EXCEPT ![dir[n]] = Empty]
    BY <1>2 DEF PutOrErase
  <2>2. Live' = Live \ {dir[n]}
    BY <2>1 DEF Directory, Live
  <2>3. QED
    BY <1>1, <1>2, <2>1, <2>2, EmptyFacts DEF Directory
<1>3. CASE ch.users # <<>>
  <2>1. dir' = dir /\ chan' = [chan EXCEPT ![dir[n]] = ch]
    BY <1>3 DEF PutOrErase
  <2>2. Live' = Live
    BY <2>1 DEF Live
  <2>3. QED
    BY <1>1, <1>3, <2>1, <2>2 DEF Directory
<1>4. QED
  BY <1>2, <1>3

\* The invariant of this layer.
Shape == TypeOK /\ GrowsOnce /\ MembersDistinct

LEMMA ShapeFacts ==
  ASSUME Shape
  PROVE  /\ Directory
         /\ Table
         /\ Live \subseteq ChanIds
         /\ \A id \in ChanIds : /\ chan[id] \in Channel
                                /\ Distinct(chan[id].users)
                                /\ Pointers(chan[id]) \subseteq Addresses
         /\ \A n \in ChanNames : dir[n] # NoChan => dir[n] \in Live
<1>1. Directory /\ Table
  BY TypeHalves DEF Shape
<1>2. Live \subseteq ChanIds
  BY <1>1 DEF Directory, Live
<1>3. ASSUME NEW id \in ChanIds
      PROVE  /\ chan[id] \in Channel
             /\ Distinct(chan[id].users)
             /\ Pointers(chan[id]) \subseteq Addresses
  BY <1>1, ChannelFields DEF Directory, Shape, MembersDistinct, Distinct
<1>4. QED
  BY <1>1, <1>2, <1>3 DEF Directory, Live

\* What becomes of the channels when one of them loses a pointer.
Lost(n, t) ==
    /\ Directory'
    /\ Live' \subseteq Live /\ Live \ {dir[n]} \subseteq Live'
    /\ \A id \in ChanIds : /\ Distinct(chan'[id].users)
                           /\ Pointers(chan'[id]) \subseteq Pointers(chan[id])
                           /\ chan'[id].invited => chan[id].invited
                           /\ Range(chan'[id].users) =
                                 IF id = dir[n] THEN Range(chan[id].users) \ {t}
                                 ELSE Range(chan[id].users)
                           /\ id # dir[n] => chan'[id] = chan[id]
    /\ dir[n] \in Live' => chan'[dir[n]] = Disconnect(chan[dir[n]], t)
    /\ dir[n] \notin Live' => Range(chan[dir[n]].users) \subseteq {t}
    /\ dir[n] \in Live' /\ chan'[dir[n]].users = <<>> => "kick" \in past'
    /\ \A m \in ChanNames : dir'[m] = IF m = n /\ dir[n] \notin Live' THEN NoChan ELSE dir[m]

LEMMA LosesFacts ==
  ASSUME Shape, NEW n \in ChanNames, NEW t, Loses(n, t)
  PROVE  Lost(n, t)
<1> DEFINE id == dir[n]
           ch == Disconnect(chan[id], t)
<1>1. /\ id # NoChan /\ id \in ChanIds /\ id \in Live /\ Live \subseteq ChanIds
      /\ Directory
      /\ \A o \in ChanIds : chan[o] \in Channel /\ Distinct(chan[o].users)
  BY ShapeFacts DEF Loses
<1>2. /\ ch \in Channel
      /\ ch.invited = chan[id].invited
      /\ Distinct(ch.users)
      /\ Range(ch.users) = Range(chan[id].users) \ {t}
      /\ Pointers(ch) \subseteq Pointers(chan[id])
  <2>1. Deprived(chan[id], t, ch)
    BY <1>1, DisconnectFacts
  <2> HIDE DEF ch, id
  <2>2. QED
    BY <2>1 DEF Deprived
<1>3. ch.users \in Seq(Addresses)
  BY <1>2, ChannelFields
<1>4. Distinct(Empty.users) /\ Empty.users = <<>> /\ ~Empty.invited
  BY DEF Empty, Distinct
<1> HIDE DEF ch
<1>5. CASE PutOrErase(n, id, ch)
  <2>1. /\ Directory'
        /\ Live' = IF ch.users = <<>> THEN Live \ {id} ELSE Live
        /\ \A o \in ChanIds : chan'[o] = IF o # id THEN chan[o]
                                         ELSE IF ch.users = <<>> THEN Empty ELSE ch
    BY <1>1, <1>2, <1>5, PutFacts
  <2>2. \A m \in ChanNames : dir'[m] = IF m = n /\ ch.users = <<>> THEN NoChan ELSE dir[m]
    BY <1>1, <1>5 DEF PutOrErase, Directory
  <2>3. CASE ch.users = <<>>
    <3>1. Range(ch.users) = {}
      BY <2>3 DEF Range
    <3>2. Range(chan[id].users) \subseteq {t} /\ Range(chan[id].users) \ {t} = {}
      BY <1>2, <3>1
    <3>3. QED
      BY <1>1, <1>2, <1>4, <2>1, <2>2, <2>3, <3>2, EmptyFacts DEF Lost
  <2>4. CASE ch.users # <<>>
    BY <1>1, <1>2, <2>1, <2>2, <2>4 DEF ch, Lost
  <2>5. QED
    BY <2>3, <2>4
<1>6. CASE /\ chan' = [chan EXCEPT ![id] = ch]
           /\ ch.users = <<>> => "kick" \in past'
           /\ UNCHANGED dir
  <2>1. Live' = Live
    BY <1>6 DEF Live
  <2>2. \A o \in ChanIds : chan'[o] = IF o # id THEN chan[o] ELSE ch
    BY <1>1, <1>6 DEF Directory
  <2>3. Directory'
    BY <1>1, <1>2, <1>6, <2>1, <2>2 DEF Directory
  <2>4. \A m \in ChanNames : dir'[m] = IF m = n /\ id \notin Live' THEN NoChan ELSE dir[m]
    BY <1>1, <1>6, <2>1
  <2>5. \A o \in ChanIds : /\ Distinct(chan'[o].users)
                           /\ Pointers(chan'[o]) \subseteq Pointers(chan[o])
                           /\ chan'[o].invited => chan[o].invited
                           /\ Range(chan'[o].users) =
                                 IF o = id THEN Range(chan[o].users) \ {t}
                                 ELSE Range(chan[o].users)
    BY <1>1, <1>2, <2>2
  <2>6. chan'[id] = ch
    BY <1>1, <2>2
  <2>7. QED
    BY <1>1, <1>6, <2>1, <2>2, <2>3, <2>4, <2>5, <2>6 DEF ch, Lost
<1>7. QED
  BY <1>5, <1>6 DEF Loses, ch

\* PART, PART of another channel, KICK and a round of _disconnect all make one
\* channel lose a pointer.
LEMMA LosingSteps ==
  ASSUME Shape, NEW n \in ChanNames
  PROVE  /\ \A i \in Slots : Part(i, n) => Loses(n, i)
         /\ \A i \in Slots : PartOther(i, n) => Loses(n, NoSlot)
         /\ \A i, t \in Slots : Kick(i, n, t) => Loses(n, t)
         /\ LeaveChannel(n) => Loses(n, leaver)
<1>1. ASSUME dir[n] # NoChan PROVE Disconnect(chan[dir[n]], NoSlot) = chan[dir[n]]
  <2>1. Range(chan[dir[n]].users) \subseteq Addresses
    BY <1>1, ShapeFacts DEF Pointers
  <2>2. NoSlot \notin Range(chan[dir[n]].users)
    BY <2>1 DEF NoSlot, Addresses
  <2>3. QED
    BY <2>2 DEF Disconnect
<1>2. ASSUME NEW i \in Slots, NEW t \in Slots, Kick(i, n, t) PROVE Loses(n, t)
  BY <1>2 DEF Kick, Loses
<1>3. ASSUME LeaveChannel(n) PROVE Loses(n, leaver)
  <2>1. dir[n] \in ChanIds
    BY <1>3, ShapeFacts, RangeTail DEF LeaveChannel, Table
  <2>2. QED
    BY <1>3, <2>1 DEF LeaveChannel, Loses
<1>4. QED
  BY <1>1, <1>2, <1>3 DEF Part, PartOther, Loses

\* The creation of a channel, by its first member.
\* A channel that is new at the address id: its first member is its operator.
Created(i, n, id) ==
    /\ Live' = Live \cup {id}
    /\ dir' = [dir EXCEPT ![n] = id]
    /\ chans' = [chans EXCEPT ![i] = Append(@, id)]
    /\ \A o \in ChanIds : o # id => chan'[o] = chan[o]
    /\ chan'[id].users = <<i>> /\ chan'[id].ops = {i}
    /\ ~chan'[id].invited
    /\ Pointers(chan'[id]) = {i} /\ Range(chan'[id].users) = {i}
    /\ Distinct(chan'[id].users)

LEMMA CreatesFacts ==
  ASSUME Shape, NEW i \in Slots, NEW n \in ChanNames, NEW k \in Keys, Creates(i, n, k)
  PROVE  /\ Directory'
         /\ i \in 1 .. size /\ reg[i] /\ dir[n] = NoChan /\ past' = past
         /\ \E id \in ChanIds \ Live : Created(i, n, id)
<1>1. PICK id \in ChanIds \ Live :
        /\ dir' = [dir EXCEPT ![n] = id]
        /\ chan' = [chan EXCEPT ![id] =
                      [Empty EXCEPT !.users = <<i>>, !.ops = {i}, !.key = k]]
        /\ chans' = [chans EXCEPT ![i] = Append(@, id)]
        /\ past' = past
  BY DEF Creates, Create
<1>2. Directory /\ Table /\ Live \subseteq ChanIds
  BY ShapeFacts
<1> DEFINE new == [Empty EXCEPT !.users = <<i>>, !.ops = {i}, !.key = k]
<1>3. i \in 1 .. size /\ reg[i] /\ dir[n] = NoChan /\ i \in Addresses
  BY <1>2 DEF Creates, Ready, Slots, Table, Addresses
<1>4. <<i>> \in Seq(Addresses) /\ Len(<<i>>) = 1 /\ <<i>>[1] = i
  BY <1>3
<1>5. /\ new \in Channel
      /\ new.users = <<i>> /\ new.ops = {i} /\ new.voices = {} /\ ~new.invited
  <2>1. new.users = <<i>> /\ new.ops = {i} /\ new.voices = {} /\ ~new.invited
    BY DEF Empty
  <2>2. new \in Channel
    <3> HIDE DEF Empty
    <3> QED BY <1>3, <1>4, EmptyFacts DEF Channel
  <2>3. QED
    BY <2>1, <2>2
<1>6. Distinct(<<i>>) /\ Range(<<i>>) = {i}
  BY <1>4 DEF Distinct, Range
<1> HIDE DEF new
<1>7. Pointers(new) = {i}
  BY <1>5, <1>6 DEF Pointers
<1>8. chan'[id] = new /\ \A o \in ChanIds : o # id => chan'[o] = chan[o]
  BY <1>1, <1>2 DEF Directory, new
<1>9. \A m \in ChanNames : dir'[m] = IF m = n THEN id ELSE dir[m]
  BY <1>1, <1>2 DEF Directory
<1>10. Live' = Live \cup {id}
  <2>1. id # NoChan
    OBVIOUS
  <2>2. QED
    BY <1>3, <1>9, <2>1 DEF Live
<1>11. \A m \in ChanNames : dir[m] # id
  BY <1>1 DEF Live
<1>12. chan' \in [ChanIds -> Channel]
  BY <1>1, <1>2, <1>5 DEF Directory, new
<1>13. dir' \in [ChanNames -> ChanIds \cup {NoChan}]
  BY <1>1, <1>2 DEF Directory
<1>14. Directory'
  BY <1>2, <1>8, <1>9, <1>10, <1>11, <1>12, <1>13 DEF Directory
<1>15. /\ chan'[id].users = <<i>> /\ chan'[id].ops = {i}
       /\ ~chan'[id].invited
       /\ Pointers(chan'[id]) = {i} /\ Range(chan'[id].users) = {i}
       /\ Distinct(chan'[id].users)
  BY <1>5, <1>6, <1>7, <1>8
<1>16. Created(i, n, id)
  BY <1>1, <1>8, <1>10, <1>15 DEF Created
<1>17. QED
  BY <1>1, <1>3, <1>14, <1>16

\* A JOIN of a channel that is there: either nothing but the list of the client
\* changes, or it becomes the last of the members.
LEMMA EntersFacts ==
  ASSUME Shape, NEW i \in Slots, NEW n \in ChanNames, NEW k \in Keys, Enters(i, n, k)
  PROVE  LET id == dir[n]
         IN  /\ Directory' /\ dir' = dir /\ Live' = Live
             /\ i \in 1 .. size /\ reg[i] /\ id \in Live /\ id \in ChanIds
             /\ chans' = [chans EXCEPT ![i] = Append(@, id)]
             /\ \A o \in ChanIds : o # id => chan'[o] = chan[o]
             /\ \A o \in ChanIds : Distinct(chan'[o].users)
             /\ \/ chan' = chan /\ past' = past \cup {"phantom"}
                \/ /\ past' = past
                   /\ ~Refused(chan[id], slot[i], k)
                   /\ ~AlreadyIn(chan[id], slot[i])
                   /\ i \notin Range(chan[id].users)
                   /\ chan'[id].users = Append(chan[id].users, i)
                   /\ Range(chan'[id].users) = Range(chan[id].users) \cup {i}
                   /\ Pointers(chan'[id]) = Pointers(chan[id]) \cup {i}
                   /\ chan'[id].ops = chan[id].ops
                   /\ chan'[id].voices = chan[id].voices
                   /\ chan'[id].flags = chan[id].flags
                   /\ chan'[id].invited = chan[id].invited
                   /\ chan'[id].users # <<>>
<1> DEFINE id == dir[n]
           ch == chan[id]
           new == [ch EXCEPT !.users = Append(@, i)]
<1>1. /\ Directory /\ Table /\ Live \subseteq ChanIds
      /\ id \in Live /\ id \in ChanIds /\ ch \in Channel
      /\ \A o \in ChanIds : Distinct(chan[o].users)
  BY ShapeFacts DEF Enters
<1>2. i \in 1 .. size /\ reg[i] /\ i \in Addresses
  BY <1>1 DEF Enters, Ready, Slots, Table, Addresses
<1>3. dir' = dir /\ Live' = Live /\ chans' = [chans EXCEPT ![i] = Append(@, id)]
  BY DEF Enters, Enter, Live
<1>4. CASE Refused(ch, slot[i], k) \/ AlreadyIn(ch, slot[i])
  <2>1. chan' = chan /\ past' = past \cup {"phantom"}
    BY <1>4 DEF Enters, Enter
  <2>2. QED
    BY <1>1, <1>2, <1>3, <2>1 DEF Directory
<1>5. CASE ~(Refused(ch, slot[i], k) \/ AlreadyIn(ch, slot[i]))
  <2>1. past' = past /\ chan' = [chan EXCEPT ![id] = new]
    BY <1>5 DEF Enters, Enter
  <2>2. i \notin Range(ch.users)
    BY <1>2, <1>5 DEF AlreadyIn, Holds, Slots
  <2>3. /\ Append(ch.users, i) \in Seq(Addresses)
        /\ Append(ch.users, i) # <<>>
        /\ Range(Append(ch.users, i)) = Range(ch.users) \cup {i}
        /\ Distinct(Append(ch.users, i))
    <3>1. ch.users \in Seq(Addresses)
      BY <1>1, ChannelFields
    <3> HIDE DEF ch
    <3>2. QED
      BY <1>1, <1>2, <2>2, <3>1, RangeAppend, ST!AppendProperties DEF ch
  <2>4. /\ new \in Channel /\ new.users = Append(ch.users, i)
        /\ new.ops = ch.ops /\ new.voices = ch.voices /\ new.flags = ch.flags
        /\ new.invited = ch.invited
    <3> HIDE DEF ch
    <3> QED BY <1>1, <2>3 DEF Channel
  <2> HIDE DEF new
  <2>5. Pointers(new) = Pointers(ch) \cup {i}
    BY <2>3, <2>4 DEF Pointers
  <2>6. chan'[id] = new /\ \A o \in ChanIds : o # id => chan'[o] = chan[o]
    BY <1>1, <2>1 DEF Directory
  <2>7. Directory'
    BY <1>1, <1>3, <2>1, <2>4, <2>6 DEF Directory
  <2>8. \A o \in ChanIds : Distinct(chan'[o].users)
    BY <1>1, <2>3, <2>4, <2>6
  <2>9. QED
    BY <1>1, <1>2, <1>3, <1>5, <2>1, <2>2, <2>3, <2>4, <2>5, <2>6, <2>7, <2>8
<1>6. QED
  BY <1>4, <1>5

\* A command that changes one channel, not its members.
LEMMA TunesFacts ==
  ASSUME Shape, NEW n \in ChanNames, Tunes(n)
  PROVE  /\ Directory' /\ Live' = Live
         /\ dir[n] \in Live
         /\ Tuned(chan[dir[n]], chan'[dir[n]])
         /\ \A id \in ChanIds :
               /\ id # dir[n] => chan'[id] = chan[id]
               /\ chan'[id].users = chan[id].users
               /\ \A p \in Pointers(chan'[id]) :
                     \/ p \in Pointers(chan[id])
                     \/ p \in 1 .. size /\ (slot[p] \in Names \/ "noname" \in past')
<1>1. Directory /\ Live \subseteq ChanIds /\ dir[n] \in Live /\ dir[n] \in ChanIds
  BY ShapeFacts DEF Tunes
<1>2. PICK ch : Tuned(chan[dir[n]], ch) /\ chan' = [chan EXCEPT ![dir[n]] = ch]
  BY DEF Tunes
<1>3. chan'[dir[n]] = ch /\ \A id \in ChanIds : id # dir[n] => chan'[id] = chan[id]
  BY <1>1, <1>2 DEF Directory
<1>4. dir' = dir /\ Live' = Live
  BY DEF Tunes, Live
<1>5. Directory'
  BY <1>1, <1>2, <1>3, <1>4 DEF Directory, Tuned
<1>6. QED
  BY <1>1, <1>2, <1>3, <1>4, <1>5 DEF Tuned, Pointers

\* A channel with other pointers.
Repointed(ch, u, o, v) == [ch EXCEPT !.users = u, !.ops = o, !.voices = v]

LEMMA RepointedFacts ==
  ASSUME NEW ch \in Channel, NEW u \in Seq(Addresses),
         NEW o \in SUBSET Addresses, NEW v \in SUBSET Addresses
  PROVE  LET new == Repointed(ch, u, o, v)
         IN  /\ new \in Channel
             /\ new.users = u /\ new.ops = o /\ new.voices = v /\ new.invited = ch.invited
             /\ ch = Empty /\ u = <<>> /\ o = {} /\ v = {} => new = Empty
<1>1. Repointed(ch, u, o, v) \in Channel
  BY DEF Channel, Repointed
<1>2. /\ Repointed(ch, u, o, v).users = u
      /\ Repointed(ch, u, o, v).ops = o
      /\ Repointed(ch, u, o, v).voices = v
      /\ Repointed(ch, u, o, v).invited = ch.invited
  BY DEF Channel, Repointed
<1>3. ASSUME ch = Empty, u = <<>>, o = {}, v = {}
      PROVE  Repointed(ch, u, o, v) = Empty
  <2>1. ch.users = u /\ ch.ops = o /\ ch.voices = v
    BY <1>3 DEF Empty
  <2>2. [ch EXCEPT !.users = u, !.ops = o, !.voices = v] = ch
    BY <2>1 DEF Channel
  <2>3. QED
    BY <1>3, <2>2 DEF Repointed
<1>4. QED
  BY <1>1, <1>2, <1>3

\* The vector grows: every pointer now is to the block that is gone.
LEMMA GrowFacts ==
  ASSUME Shape, Grow
  PROVE  /\ Directory' /\ Live' = Live /\ dir' = dir
         /\ MaxUsers <= capacity'
         /\ \A id \in ChanIds : /\ Distinct(chan'[id].users)
                                /\ chan'[id].users = <<>> <=> chan[id].users = <<>>
                                /\ chan'[id].ops = {} <=> chan[id].ops = {}
                                /\ chan'[id].invited = chan[id].invited
         /\ "stale" \notin past' =>
               /\ past' = past
               /\ \A id \in Live : Pointers(chan[id]) = {} /\ Pointers(chan'[id]) = {}
<1> DEFINE Moved(p) == p + MaxUsers
           Far(s) == [k \in 1 .. Len(s) |-> Moved(s[k])]
           new(id) == [chan[id] EXCEPT !.users = Far(@),
                                       !.ops = {Moved(p) : p \in @},
                                       !.voices = {Moved(p) : p \in @}]
<1>1. /\ Directory /\ Table /\ Live \subseteq ChanIds
      /\ \A id \in ChanIds : chan[id] \in Channel /\ Distinct(chan[id].users)
      /\ dir' = dir /\ Live' = Live
  BY ShapeFacts DEF Grow, Live
<1>2. capacity < MaxUsers /\ capacity' = 2 * capacity /\ capacity \in Nat
  BY <1>1 DEF Grow, Table
<1>3. MaxUsers <= capacity' /\ \A id \in ChanIds : Pointers(chan[id]) \subseteq Slots
  BY <1>2 DEF Shape, GrowsOnce
<1>4. chan' = [id \in ChanIds |-> new(id)]
  BY DEF Grow
<1>5. \A p \in Slots : Moved(p) \in Addresses
  BY DEF Slots, Addresses
<1>6. ASSUME NEW id \in ChanIds
      PROVE  /\ new(id) \in Channel
             /\ Distinct(new(id).users)
             /\ new(id).users = <<>> <=> chan[id].users = <<>>
             /\ new(id).ops = {} <=> chan[id].ops = {}
             /\ new(id).invited = chan[id].invited
             /\ chan[id] = Empty => new(id) = Empty
             /\ Pointers(chan[id]) = {} => Pointers(new(id)) = {}
  <2> DEFINE s == chan[id].users
             far == Far(s)
             ops == {Moved(p) : p \in chan[id].ops}
             voices == {Moved(p) : p \in chan[id].voices}
  <2>1. s \in Seq(Addresses) /\ Range(s) \subseteq Slots
        /\ chan[id].ops \subseteq Slots /\ chan[id].voices \subseteq Slots
    BY <1>1, <1>3, ChannelFields DEF Pointers
  <2>2. Len(s) \in Nat /\ \A k \in 1 .. Len(s) : s[k] \in Slots
    BY <2>1 DEF Range
  <2>3. Far(s) \in Seq(Addresses) /\ Len(Far(s)) = Len(s)
        /\ \A k \in 1 .. Len(s) : Far(s)[k] = Moved(s[k])
    <3>1. \A k \in 1 .. Len(s) : Moved(s[k]) \in Addresses
      BY <2>2, <1>5
    <3> HIDE DEF Moved, s
    <3>2. QED
      BY <2>2, <3>1
  <2>4. ops \subseteq Addresses /\ voices \subseteq Addresses
    BY <2>1, <1>5
  <2>5. /\ new(id).users = far /\ new(id).ops = ops /\ new(id).voices = voices
        /\ new(id).invited = chan[id].invited
        /\ new(id) \in Channel
        /\ chan[id] = Empty /\ far = <<>> /\ ops = {} /\ voices = {} => new(id) = Empty
    <3>1. new(id) = Repointed(chan[id], far, ops, voices)
      BY DEF Repointed
    <3>2. far \in Seq(Addresses) /\ chan[id] \in Channel
      BY <1>1, <2>3
    <3> HIDE DEF far, ops, voices, new
    <3>3. QED
      BY <2>4, <3>1, <3>2, RepointedFacts
  <2>6. Distinct(Far(s))
    <3>1. Distinct(s)
      BY <1>1
    <3>2. \A p, q \in Slots : Moved(p) = Moved(q) => p = q
      BY DEF Slots
    <3> HIDE DEF Moved, Far, s
    <3>3. QED
      BY <2>2, <2>3, <3>1, <3>2 DEF Distinct
  <2>7. Far(s) = <<>> <=> s = <<>>
    BY <2>1, <2>2, <2>3
  <2>8. ASSUME chan[id] = Empty PROVE new(id) = Empty
    <3>1. s = <<>> /\ chan[id].ops = {} /\ chan[id].voices = {}
      BY <2>8 DEF Empty
    <3>2. QED
      BY <2>5, <2>7, <2>8, <3>1
  <2>9. ASSUME Pointers(chan[id]) = {} PROVE Pointers(new(id)) = {}
    <3>1. s = <<>> /\ chan[id].ops = {} /\ chan[id].voices = {}
      BY <2>1, <2>9, RangeType DEF Pointers
    <3>2. far = <<>> /\ ops = {} /\ voices = {}
      BY <2>7, <3>1
    <3> HIDE DEF far, ops, voices, new
    <3>3. QED
      BY <2>5, <3>2 DEF Pointers, Range
  <2>10. new(id).ops = {} <=> chan[id].ops = {}
    BY <2>5
  <2>11. QED
    BY <2>5, <2>6, <2>7, <2>8, <2>9, <2>10
<1> HIDE DEF new
<1>7. \A id \in ChanIds : chan'[id] = new(id)
  BY <1>4
<1>8. Directory'
  BY <1>1, <1>4, <1>6, <1>7 DEF Directory
<1>9. ASSUME "stale" \notin past'
      PROVE  past' = past /\ \A id \in Live : Pointers(chan[id]) = {}
  <2>1. past' = past /\ ~PointsPast(1)
    BY <1>9 DEF Grow
  <2>2. \A id \in Live : Pointers(chan[id]) \subseteq Slots
    BY <1>1, <1>3
  <2>3. QED
    BY <2>1, <2>2 DEF PointsPast, Slots
<1>10. QED
  BY <1>1, <1>3, <1>6, <1>7, <1>8, <1>9

\* A channel is taken off the list of a client that lists it.
LEMMA UnlistFacts ==
  ASSUME Table, NEW t \in Slots, NEW id \in Range(chans[t])
  PROVE  \E list \in Seq(ChanIds) :
            /\ Unlist(t, id) = [chans EXCEPT ![t] = list]
            /\ Range(chans[t]) \ {id} \subseteq Range(list)
            /\ Range(list) \subseteq Range(chans[t])
            /\ Distinct(chans[t]) => Distinct(list) /\ Range(list) = Range(chans[t]) \ {id}
<1> DEFINE s == chans[t]
           k == FirstOf(s, id)
           list == Without(s, k)
<1>1. s \in Seq(ChanIds)
  BY DEF Table
<1>2. k \in 1 .. Len(s) /\ s[k] = id
  BY <1>1, FirstOfFacts
<1> HIDE DEF s, k
<1>3. list \in Seq(ChanIds)
  BY <1>1, <1>2, WithoutFacts
<1>4. /\ Range(s) \ {id} \subseteq Range(list) /\ Range(list) \subseteq Range(s)
      /\ Distinct(s) => Distinct(list) /\ Range(list) = Range(s) \ {id}
  BY <1>1, <1>2, RangeWithout
<1>5. Unlist(t, id) = [chans EXCEPT ![t] = list]
  BY DEF Unlist, list, s, k
<1> HIDE DEF list
<1>6. QED
  BY <1>3, <1>4, <1>5 DEF s

\* Nothing is forgotten, and nothing happens once the server has stopped.
LEMMA PastGrows ==
  ASSUME past \subseteq Events, Kinds
  PROVE  status = "up" /\ past \subseteq past' /\ past' \subseteq Events
<1>1. {"stale", "phantom", "kick", "noname"} \subseteq Events
  BY DEF Events
<1>2. ASSUME NewConnection \/ LeaveDeadChannel
      PROVE  status = "up" /\ past' = past
  BY <1>2 DEF NewConnection, LeaveDeadChannel
<1>3. ASSUME Grow \/ EraseUser
      PROVE  status = "up" /\ (past' = past \/ past' = past \cup {"stale"})
  BY <1>3 DEF Grow, EraseUser
<1>4. ASSUME NEW i \in Slots,
             \/ \E w \in Names \cup Nameless : Nick(i, w) \/ User(i, w)
             \/ Register(i) \/ StartLeave(i)
      PROVE  status = "up" /\ past' = past
  BY <1>4 DEF Nick, User, Register, StartLeave
<1>5. ASSUME NEW i \in Slots, NEW n \in ChanNames, NEW k \in Keys,
             Creates(i, n, k) \/ Enters(i, n, k)
      PROVE  status = "up" /\ (past' = past \/ past' = past \cup {"phantom"})
  BY <1>5 DEF Creates, Create, Enters, Enter, Ready
<1>6. ASSUME NEW i \in Slots, NEW n \in ChanNames, PartOther(i, n) \/ Part(i, n)
      PROVE  status = "up" /\ past' = past
  BY <1>6 DEF PartOther, Part, Ready
<1>7. ASSUME NEW i \in Slots, NEW n \in ChanNames, NEW t \in Slots, Kick(i, n, t)
      PROVE  status = "up" /\ past \subseteq past' /\ past' \subseteq past \cup {"kick", "noname"}
  BY <1>7 DEF Kick, Naming, Ready
<1>8. ASSUME NEW n \in ChanNames, LeaveChannel(n)
      PROVE  status = "up" /\ past' = past
  BY <1>8 DEF LeaveChannel
<1>9. ASSUME NEW n \in ChanNames, Tunes(n)
      PROVE  status = "up" /\ past \subseteq past' /\ past' \subseteq Events
  BY <1>9 DEF Tunes
<1>10. Halts => status = "up" /\ past \subseteq past' /\ past' \subseteq Events
  BY DEF Halts
<1>11. QED
  BY <1>1, <1>2, <1>3, <1>4, <1>5, <1>6, <1>7, <1>8, <1>9, <1>10 DEF Kinds

\* The list of one client changes.
LEMMA TableOfLists ==
  ASSUME Table, NEW i \in Slots, i <= size, NEW list \in Seq(ChanIds),
         chans' = [chans EXCEPT ![i] = list], past' \subseteq Events,
         UNCHANGED <<capacity, size, slot, reg, leaver, todo, status>>
  PROVE  Table'
<1>1. chans' \in [Slots -> Seq(ChanIds)]
  BY DEF Table
<1>2. \A j \in Slots : j > size => slot[j] = NoName /\ ~reg[j] /\ chans'[j] = <<>>
  BY DEF Table, Slots
<1>3. QED
  BY <1>1, <1>2 DEF Table

LEMMA TableStep ==
  ASSUME Shape, Kinds
  PROVE  Table'
<1>1. Table
  BY ShapeFacts
<1>0. past' \subseteq Events
  BY <1>1, PastGrows DEF Table
<1>2. CASE NewConnection
  BY <1>1, <1>2 DEF NewConnection, Slots, Table
<1>3. CASE Grow
  <2>1. /\ size < MaxUsers /\ size = capacity
        /\ size' = size + 1 /\ capacity' = 2 * capacity
        /\ UNCHANGED <<slot, reg, chans, leaver, todo, status>>
    BY <1>3 DEF Grow
  <2>2. capacity \in Nat /\ MaxUsers <= 2 * capacity
    BY <1>1, <2>1 DEF Shape, GrowsOnce, Table
  <2>3. QED
    BY <1>0, <1>1, <2>1, <2>2 DEF Slots, Table
<1>4. ASSUME NEW i \in Slots, NEW w \in Names \cup Nameless, Nick(i, w) \/ User(i, w)
      PROVE  Table'
  <2>1. /\ i <= size /\ slot' = [slot EXCEPT ![i] = w]
        /\ UNCHANGED <<capacity, size, reg, chans, leaver, todo, status, past>>
    BY <1>4 DEF Nick, User
  <2>2. slot' \in [Slots -> Names \cup Nameless]
    BY <1>1, <2>1 DEF Table
  <2>3. \A j \in Slots : j > size => slot'[j] = NoName
    BY <1>1, <2>1 DEF Slots, Table
  <2>4. QED
    BY <1>1, <2>1, <2>2, <2>3 DEF Table
<1>5. ASSUME NEW i \in Slots, Register(i) PROVE Table'
  BY <1>1, <1>5 DEF Register, Slots, Table
<1>6. ASSUME NEW i \in Slots, StartLeave(i) PROVE Table'
  BY <1>1, <1>6 DEF StartLeave, Slots, Table
<1>7. ASSUME NEW i \in Slots, NEW id \in ChanIds, i <= size,
             chans' = [chans EXCEPT ![i] = Append(@, id)],
             UNCHANGED <<capacity, size, slot, reg, leaver, todo, status>>
      PROVE  Table'
  <2>0. past' \subseteq Events
    BY <1>0
  <2>1. Append(chans[i], id) \in Seq(ChanIds)
    BY <1>1 DEF Table
  <2>2. QED
    BY <1>1, <1>7, <2>0, <2>1, TableOfLists
<1>8. ASSUME NEW i \in Slots, NEW n \in ChanNames, NEW k \in Keys, Creates(i, n, k) PROVE Table'
  <2>1. i \in 1 .. size
        /\ \E id \in ChanIds : chans' = [chans EXCEPT ![i] = Append(@, id)]
    BY <1>8, CreatesFacts DEF Created
  <2>2. QED
    BY <1>7, <1>8, <2>1 DEF Creates, Ready
<1>9. ASSUME NEW i \in Slots, NEW n \in ChanNames, NEW k \in Keys, Enters(i, n, k) PROVE Table'
  <2>1. i \in 1 .. size /\ dir[n] \in ChanIds
        /\ chans' = [chans EXCEPT ![i] = Append(@, dir[n])]
    BY <1>9, EntersFacts
  <2>2. QED
    BY <1>7, <1>9, <2>1 DEF Enters, Ready
<1>10. ASSUME NEW t \in Slots, t <= size, NEW id \in Range(chans[t]), chans' = Unlist(t, id),
              UNCHANGED <<capacity, size, slot, reg, leaver, todo, status>>
       PROVE  Table'
  <2>1. PICK list \in Seq(ChanIds) : Unlist(t, id) = [chans EXCEPT ![t] = list]
    BY <1>1, <1>10, UnlistFacts
  <2>2. QED
    BY <1>0, <1>1, <1>10, <2>1, TableOfLists
<1>11. ASSUME NEW i \in Slots, NEW n \in ChanNames, Part(i, n) PROVE Table'
  BY <1>10, <1>11 DEF Part, Ready
<1>12. ASSUME NEW i \in Slots, NEW n \in ChanNames, NEW t \in Slots, Kick(i, n, t) PROVE Table'
  BY <1>10, <1>12 DEF Kick, Found
<1>13. ASSUME NEW i \in Slots, NEW n \in ChanNames, PartOther(i, n) PROVE Table'
  BY <1>1, <1>13 DEF PartOther, Table
<1>14. ASSUME NEW n \in ChanNames, Tunes(n) PROVE Table'
  BY <1>1, <1>14 DEF Tunes, Table
<1>15. ASSUME NEW n \in ChanNames, LeaveChannel(n) PROVE Table'
  <2>1. todo # <<>> /\ todo' = Tail(todo)
    BY <1>15 DEF LeaveChannel
  <2>2. todo' \in Seq(ChanIds)
    BY <1>1, <2>1, RangeTail DEF Table
  <2>3. QED
    BY <1>1, <1>15, <2>2 DEF LeaveChannel, Table
<1>16. CASE EraseUser
  <2>1. leaver \in 1 .. size /\ size \in 1 .. MaxUsers /\ size' = size - 1 /\ leaver' = 0
    BY <1>1, <1>16 DEF EraseUser, NoSlot, Table
  <2>2. /\ slot' = [j \in Slots |-> IF j < leaver THEN slot[j]
                                   ELSE IF j < size THEN slot[j + 1] ELSE NoName]
        /\ reg' = [j \in Slots |-> IF j < leaver THEN reg[j]
                                  ELSE IF j < size THEN reg[j + 1] ELSE FALSE]
        /\ chans' = [j \in Slots |-> IF j < leaver THEN chans[j]
                                    ELSE IF j < size THEN chans[j + 1] ELSE <<>>]
        /\ UNCHANGED <<capacity, todo, status>>
    BY <1>16 DEF EraseUser
  <2>3. \A j \in Slots : j < size => j + 1 \in Slots
    BY <2>1 DEF Slots
  <2>4. slot' \in [Slots -> Names \cup Nameless]
    BY <1>1, <2>2, <2>3 DEF Table
  <2>5. reg' \in [Slots -> BOOLEAN]
    BY <1>1, <2>2, <2>3 DEF Table
  <2>6. chans' \in [Slots -> Seq(ChanIds)]
    <3>1. <<>> \in Seq(ChanIds)
      OBVIOUS
    <3>2. QED
      BY <1>1, <2>2, <2>3, <3>1 DEF Table
  <2>7. ASSUME NEW i \in Slots, i > size'
        PROVE  slot'[i] = NoName /\ ~reg'[i] /\ chans'[i] = <<>>
    <3>1. ~(i < leaver) /\ ~(i < size)
      BY <2>1, <2>7 DEF Slots
    <3>2. QED
      BY <2>2, <3>1
  <2>8. capacity \in Nat /\ size' <= capacity' /\ size' \in 0 .. MaxUsers
    BY <1>1, <2>1, <2>2 DEF Table
  <2>9. QED
    <3>1. leaver' \in 0 .. size' /\ todo' \in Seq(ChanIds)
          /\ status' \in {"up", "terminated", "undefined"}
      BY <1>1, <2>1, <2>2, <2>8 DEF Table
    <3>2. capacity' \in Nat
      BY <2>2, <2>8
    <3>3. QED
      BY <1>0, <2>4, <2>5, <2>6, <2>7, <2>8, <3>1, <3>2 DEF Table
<1>17. CASE Halts
  BY <1>1, <1>17 DEF Halts, Table
<1>18. CASE LeaveDeadChannel
  <2>1. todo # <<>> /\ todo' = Tail(todo)
    BY <1>18 DEF LeaveDeadChannel
  <2>2. todo' \in Seq(ChanIds)
    BY <1>1, <2>1, RangeTail DEF Table
  <2>3. QED
    BY <1>1, <1>18, <2>2 DEF LeaveDeadChannel, Table
<1>19. QED
  BY <1>2, <1>3, <1>4, <1>5, <1>6, <1>8, <1>9, <1>11, <1>12, <1>13, <1>14, <1>15, <1>16, <1>17, <1>18
     DEF Kinds

\* Steps that leave every channel alone.
Apart ==
    \/ NewConnection \/ LeaveDeadChannel \/ EraseUser \/ Halts
    \/ \E i \in Slots, w \in Names \cup Nameless : Nick(i, w) \/ User(i, w)
    \/ \E i \in Slots : Register(i) \/ StartLeave(i)

LEMMA ApartFacts ==
  ASSUME Apart
  PROVE  dir' = dir /\ chan' = chan /\ Live' = Live /\ capacity' = capacity
<1>1. dir' = dir /\ chan' = chan /\ capacity' = capacity
  BY DEF Apart, NewConnection, LeaveDeadChannel, EraseUser, Halts, Nick, User, Register, StartLeave
<1>2. QED
  BY <1>1 DEF Live

\* Steps that take a pointer from a channel.
LosingStep(n, t) ==
    /\ Loses(n, t)
    /\ \/ \E i \in Slots : Part(i, n) /\ t = i
       \/ \E i \in Slots : PartOther(i, n) /\ t = NoSlot
       \/ \E i \in Slots : t \in Slots /\ Kick(i, n, t)
       \/ LeaveChannel(n) /\ t = leaver

\* The kinds by what they do to the channels.
LEMMA ChannelKinds ==
  ASSUME Shape, Kinds
  PROVE  \/ Apart
         \/ Grow
         \/ \E i \in Slots, n \in ChanNames, k \in Keys : Creates(i, n, k) \/ Enters(i, n, k)
         \/ \E n \in ChanNames : Tunes(n)
         \/ \E n \in ChanNames, t \in 0 .. MaxUsers : LosingStep(n, t)
<1>1. Slots \subseteq 0 .. MaxUsers /\ NoSlot \in 0 .. MaxUsers /\ leaver \in 0 .. MaxUsers
  BY ShapeFacts DEF Slots, NoSlot, Table
<1>2. ASSUME NEW i \in Slots, NEW n \in ChanNames, Part(i, n) PROVE LosingStep(n, i)
  BY <1>2, LosingSteps DEF LosingStep
<1>3. ASSUME NEW i \in Slots, NEW n \in ChanNames, PartOther(i, n) PROVE LosingStep(n, NoSlot)
  BY <1>3, LosingSteps DEF LosingStep
<1>4. ASSUME NEW i \in Slots, NEW n \in ChanNames, NEW t \in Slots, Kick(i, n, t)
      PROVE  LosingStep(n, t)
  BY <1>4, LosingSteps DEF LosingStep
<1>5. ASSUME NEW n \in ChanNames, LeaveChannel(n) PROVE LosingStep(n, leaver)
  BY <1>5, LosingSteps DEF LosingStep
<1>6. QED
  BY <1>1, <1>2, <1>3, <1>4, <1>5 DEF Kinds, Apart

LEMMA ShapeStep ==
  ASSUME Shape, Kinds
  PROVE  Shape'
<1>1. Directory /\ Table /\ Live \subseteq ChanIds
      /\ \A id \in ChanIds : Distinct(chan[id].users)
  BY ShapeFacts
<1>2. Table'
  BY TableStep
<1>3. size \in 0 .. MaxUsers
  BY <1>1 DEF Table
<1>4. SUFFICES /\ Directory'
               /\ \A id \in ChanIds : Distinct(chan'[id].users)
               /\ GrowsOnce'
  BY <1>2, TypeHalves DEF Shape, TypeOK, Directory, Table, MembersDistinct, Distinct
<1>5. CASE Apart
  BY <1>1, <1>5, ApartFacts DEF Directory, GrowsOnce, Shape, Pointers
<1>6. CASE Grow
  <2>1. Directory' /\ (\A id \in ChanIds : Distinct(chan'[id].users)) /\ MaxUsers <= capacity'
    BY <1>6, GrowFacts
  <2>2. capacity' \in Nat
    BY <1>2 DEF Table
  <2>3. GrowsOnce'
    BY <2>1, <2>2 DEF GrowsOnce
  <2>4. QED
    BY <2>1, <2>3
<1>7. ASSUME capacity' = capacity,
             \A id \in ChanIds : Pointers(chan'[id]) \subseteq Pointers(chan[id]) \cup Slots
      PROVE  GrowsOnce'
  BY <1>7 DEF Shape, GrowsOnce, Pointers
<1>8. ASSUME NEW i \in Slots, NEW n \in ChanNames, NEW k \in Keys,
             Creates(i, n, k) \/ Enters(i, n, k)
      PROVE  Directory' /\ (\A id \in ChanIds : Distinct(chan'[id].users)) /\ GrowsOnce'
  <2>1. capacity' = capacity
    BY <1>8 DEF Creates, Enters
  <2>2. CASE Creates(i, n, k)
    <3>1. PICK id \in ChanIds \ Live : Created(i, n, id)
      BY <2>2, CreatesFacts
    <3>2. /\ Distinct(chan'[id].users) /\ Pointers(chan'[id]) = {i}
          /\ \A o \in ChanIds : o # id => chan'[o] = chan[o]
      BY <3>1 DEF Created
    <3>3. Directory'
      BY <2>2, CreatesFacts
    <3>4. \A o \in ChanIds : Pointers(chan'[o]) \subseteq Pointers(chan[o]) \cup Slots
      BY <3>2
    <3>5. QED
      BY <1>1, <1>7, <2>1, <3>2, <3>3, <3>4
  <2>3. CASE Enters(i, n, k)
    <3>1. Directory' /\ \A id \in ChanIds : Distinct(chan'[id].users)
      BY <2>3, EntersFacts
    <3>2. \A o \in ChanIds : Pointers(chan'[o]) \subseteq Pointers(chan[o]) \cup Slots
      BY <2>3, EntersFacts
    <3>3. QED
      BY <1>7, <2>1, <3>1, <3>2
  <2>4. QED
    BY <1>8, <2>2, <2>3
<1>9. ASSUME NEW n \in ChanNames, Tunes(n)
      PROVE  Directory' /\ (\A id \in ChanIds : Distinct(chan'[id].users)) /\ GrowsOnce'
  <2>1. capacity' = capacity /\ 1 .. size \subseteq Slots
    BY <1>3, <1>9 DEF Tunes, Slots
  <2>2. QED
    BY <1>1, <1>7, <1>9, <2>1, TunesFacts
<1>10. ASSUME NEW n \in ChanNames, NEW t, LosingStep(n, t)
       PROVE  Directory' /\ (\A id \in ChanIds : Distinct(chan'[id].users)) /\ GrowsOnce'
  <2>1. capacity' = capacity
    BY <1>10 DEF LosingStep, Part, PartOther, Kick, LeaveChannel
  <2>2. QED
    BY <1>7, <1>10, <2>1, LosesFacts DEF LosingStep, Lost
<1>11. QED
  BY <1>5, <1>6, <1>8, <1>9, <1>10, ChannelKinds

LEMMA InitShape == Init => Shape
<1> SUFFICES ASSUME Init PROVE Shape
  OBVIOUS
<1>1. Live = {}
  BY DEF Init, Live
<1>2. Directory
  BY <1>1, EmptyFacts DEF Init, Directory
<1>3. Table
  BY DEF Init, Table, Slots, NoSlot
<1>4. MembersDistinct
  BY DEF Init, MembersDistinct, Empty
<1>5. GrowsOnce
  BY EmptyFacts DEF Init, GrowsOnce
<1>6. QED
  BY <1>2, <1>3, <1>4, <1>5, TypeHalves DEF Shape

LEMMA StutterShape == ASSUME Shape, UNCHANGED vars PROVE Shape'
BY DEF vars, Shape, TypeOK, GrowsOnce, MembersDistinct, Live, Pointers

LEMMA ShapeInductive == Spec => []Shape
<1>1. Shape /\ [Next]_vars => Shape'
  <2>1. ASSUME Shape, Next PROVE Shape'
    BY <2>1, StepKinds, ShapeStep DEF Shape
  <2>2. QED
    BY <2>1, StutterShape
<1>2. QED
  BY <1>1, InitShape, PTL DEF Spec

\* Slots, lists, map and channels keep their types and stay in step: slots
\* behind the last client and addresses outside the map hold nothing, whatever
\* is erased, moved or freed, and the vector grows at most once.
THEOREM TypeCorrect == Spec => []TypeOK
BY ShapeInductive, PTL DEF Shape

\* A channel never holds the same pointer twice among its members: the list
\* that Channel::disconnect goes on walking after an erase has no second match.
THEOREM MembersAlwaysDistinct == Spec => []MembersDistinct
BY ShapeInductive, PTL DEF Shape

-----------------------------------------------------------------------------
\* Empty channels and operators

Order == EmptyOnlyByKick /\ AlwaysAnOperator

\* A channel that has lost a pointer still has an operator, if it has members.
LEMMA LosingKeepsOrder ==
  ASSUME Shape, Order, NEW n \in ChanNames, NEW t, Loses(n, t), dir[n] \in Live',
         past \subseteq past'
  PROVE  /\ chan'[dir[n]].users = <<>> => "kick" \in past'
         /\ chan'[dir[n]].users # <<>> /\ chan'[dir[n]].ops = {} => "kick" \in past'
<1> DEFINE id == dir[n]
           ch == chan[id]
           new == Disconnect(ch, t)
<1>1. /\ chan'[id] = new
      /\ new.users = <<>> => "kick" \in past'
  BY LosesFacts DEF Lost
<1>2. id \in ChanIds /\ ch \in Channel /\ Distinct(ch.users) /\ id \in Live
  BY ShapeFacts DEF Loses
<1>3. /\ new \in Channel
      /\ Range(new.users) = Range(ch.users) \ {t}
      /\ t \notin Range(ch.users) => new = ch
      /\ t \in Range(ch.users) =>
            new.ops = IF t \in ch.ops /\ ch.ops \ {t} = {} /\ new.users # <<>>
                      THEN {new.users[1]} ELSE ch.ops \ {t}
  <2>1. Deprived(ch, t, new)
    BY <1>2, DisconnectFacts
  <2> HIDE DEF new, ch
  <2>2. QED
    BY <2>1 DEF Deprived
<1>4. t \in Range(ch.users) => ch.users # <<>>
  BY DEF Range
<1> HIDE DEF new
<1>5. ASSUME new.users # <<>>, new.ops = {} PROVE ch.users # <<>> /\ ch.ops = {}
  <2>1. CASE t \notin Range(ch.users)
    BY <1>3, <1>5, <2>1
  <2>2. CASE t \in Range(ch.users)
    <3>1. ch.ops \ {t} = {} /\ t \notin ch.ops
      BY <1>3, <1>5, <2>2
    <3>2. ch.ops = {}
      BY <3>1
    <3>3. QED
      BY <1>4, <2>2, <3>2
  <2>3. QED
    BY <2>1, <2>2
<1>6. QED
  BY <1>1, <1>2, <1>5 DEF Order, AlwaysAnOperator

LEMMA OrderStep ==
  ASSUME Shape, Order, Kinds
  PROVE  Order'
<1>1. Live \subseteq ChanIds /\ past \subseteq past' /\ past \subseteq Events
  BY ShapeFacts, PastGrows DEF Table
<1>2. SUFFICES ASSUME NEW id \in Live'
               PROVE  /\ chan'[id].users = <<>> => "kick" \in past'
                      /\ chan'[id].users # <<>> /\ chan'[id].ops = {} => "kick" \in past'
  BY DEF Order, EmptyOnlyByKick, AlwaysAnOperator
<1>3. ASSUME id \in Live, chan'[id].users = <<>> <=> chan[id].users = <<>>,
             chan'[id].ops = {} => chan[id].ops = {}
      PROVE  /\ chan'[id].users = <<>> => "kick" \in past'
             /\ chan'[id].users # <<>> /\ chan'[id].ops = {} => "kick" \in past'
  BY <1>1, <1>3 DEF Order, EmptyOnlyByKick, AlwaysAnOperator
<1>4. CASE Apart
  BY <1>3, <1>4, ApartFacts
<1>5. CASE Grow
  BY <1>1, <1>3, <1>5, GrowFacts
<1>6. ASSUME NEW i \in Slots, NEW n \in ChanNames, NEW k \in Keys, Creates(i, n, k)
      PROVE  /\ chan'[id].users = <<>> => "kick" \in past'
             /\ chan'[id].users # <<>> /\ chan'[id].ops = {} => "kick" \in past'
  <2>0. PICK o \in ChanIds \ Live : Created(i, n, o)
    BY <1>6, CreatesFacts
  <2>1. /\ Live' = Live \cup {o}
        /\ \A q \in ChanIds : q # o => chan'[q] = chan[q]
        /\ chan'[o].users = <<i>> /\ chan'[o].ops = {i}
    BY <2>0 DEF Created
  <2>2. CASE id = o
    BY <2>1, <2>2
  <2>3. CASE id # o
    BY <1>1, <1>3, <2>1, <2>3
  <2>4. QED
    BY <2>2, <2>3
<1>7. ASSUME NEW i \in Slots, NEW n \in ChanNames, NEW k \in Keys, Enters(i, n, k)
      PROVE  /\ chan'[id].users = <<>> => "kick" \in past'
             /\ chan'[id].users # <<>> /\ chan'[id].ops = {} => "kick" \in past'
  <2>1. /\ id \in Live /\ id \in ChanIds
        /\ id # dir[n] => chan'[id] = chan[id]
        /\ \/ chan' = chan
           \/ chan'[dir[n]].ops = chan[dir[n]].ops /\ chan'[dir[n]].users # <<>>
    BY <1>1, <1>7, EntersFacts
  <2>2. CASE chan'[id] = chan[id]
    BY <1>3, <2>1, <2>2
  <2>3. CASE chan'[id] # chan[id]
    <3>1. id = dir[n] /\ chan'[id].ops = chan[id].ops /\ chan'[id].users # <<>>
      BY <2>1, <2>3
    <3>2. QED
      BY <1>1, <2>1, <3>1 DEF Order, EmptyOnlyByKick, AlwaysAnOperator
  <2>4. QED
    BY <2>2, <2>3
<1>8. ASSUME NEW n \in ChanNames, Tunes(n)
      PROVE  /\ chan'[id].users = <<>> => "kick" \in past'
             /\ chan'[id].users # <<>> /\ chan'[id].ops = {} => "kick" \in past'
  <2>1. /\ id \in Live /\ id \in ChanIds
        /\ id # dir[n] => chan'[id] = chan[id]
        /\ Tuned(chan[dir[n]], chan'[dir[n]])
    BY <1>1, <1>8, TunesFacts
  <2>2. QED
    BY <1>1, <1>3, <2>1 DEF Tuned, Order, EmptyOnlyByKick, AlwaysAnOperator
<1>9. ASSUME NEW n \in ChanNames, NEW t, LosingStep(n, t)
      PROVE  /\ chan'[id].users = <<>> => "kick" \in past'
             /\ chan'[id].users # <<>> /\ chan'[id].ops = {} => "kick" \in past'
  <2>1. Loses(n, t)
    BY <1>9 DEF LosingStep
  <2>2. id \in Live /\ id \in ChanIds /\ (id # dir[n] => chan'[id] = chan[id])
    <3>1. Lost(n, t)
      BY <2>1, LosesFacts
    <3>2. QED
      BY <1>1, <3>1 DEF Lost
  <2>3. CASE id = dir[n]
    BY <1>1, <2>1, <2>3, LosingKeepsOrder
  <2>4. CASE id # dir[n]
    BY <1>3, <2>2, <2>4
  <2>5. QED
    BY <2>3, <2>4
<1>10. QED
  BY <1>4, <1>5, <1>6, <1>7, <1>8, <1>9, ChannelKinds

LEMMA OrderStutter == ASSUME Order, UNCHANGED vars PROVE Order'
BY DEF vars, Order, EmptyOnlyByKick, AlwaysAnOperator, Live

LEMMA InitOrder == Init => Order
BY DEF Init, Order, EmptyOnlyByKick, AlwaysAnOperator, Live

LEMMA OrderInductive == Spec => []Order
<1>1. Shape /\ Order /\ [Next]_vars => Order'
  BY StepKinds, OrderStep, OrderStutter DEF Shape
<1>2. QED
  BY <1>1, InitOrder, ShapeInductive, PTL DEF Spec

\* Only KICK leaves an empty channel behind, in every run of any length: PART
\* and _disconnect always erase the channel with its last member.
THEOREM EmptyChannelsByKick == Spec => []EmptyOnlyByKick
BY OrderInductive, PTL DEF Order

\* A channel that has members has an operator as long as no KICK has emptied a
\* channel: whoever leaves, is kicked or gives up power, removeOperator names a
\* member in time.
THEOREM OperatorAlways == Spec => []AlwaysAnOperator
BY OrderInductive, PTL DEF Order

-----------------------------------------------------------------------------
\* The clients behind the pointers

\* A registered client has a prefix; no two clients have the same nickname, but
\* for the empty one, which one registered client at most has; _disconnect has
\* a list to walk only while it runs; and invitations come from INVITE.
Sessions ==
    /\ \A i \in Slots : reg[i] => slot[i] # NoName
    /\ \A i, j \in Slots : slot[i] = slot[j] /\ slot[i] \in Names => i = j
    /\ \A i, j \in Slots : reg[i] /\ reg[j] /\ {slot[i], slot[j]} \subseteq Nameless => i = j
    /\ leaver = NoSlot => todo = <<>>
    /\ \A id \in ChanIds : chan[id].invited => "invite" \in past

\* What _clients.erase makes of the table: the clients before the one that
\* leaves stay in their slots, and those behind it move down one.
LEMMA EraseFacts ==
  ASSUME Shape, EraseUser
  PROVE  /\ leaver \in 1 .. size /\ size \in 1 .. MaxUsers /\ size' = size - 1
         /\ leaver' = NoSlot /\ todo = <<>> /\ todo' = todo
         /\ \A j \in Slots : /\ slot'[j] = IF j < leaver THEN slot[j]
                                           ELSE IF j < size THEN slot[j + 1] ELSE NoName
                             /\ reg'[j] = IF j < leaver THEN reg[j]
                                          ELSE IF j < size THEN reg[j + 1] ELSE FALSE
                             /\ chans'[j] = IF j < leaver THEN chans[j]
                                            ELSE IF j < size THEN chans[j + 1] ELSE <<>>
         /\ \A j \in Slots : j < size => j + 1 \in Slots
         /\ "stale" \notin past' =>
               /\ past' = past
               /\ \A id \in Live : \A p \in Pointers(chan[id]) : p \in Addresses /\ p < leaver
<1>1. Table /\ Live \subseteq ChanIds /\ \A id \in ChanIds : Pointers(chan[id]) \subseteq Addresses
  BY ShapeFacts
<1>2. leaver \in 1 .. size /\ size \in 1 .. MaxUsers
  BY <1>1 DEF EraseUser, NoSlot, Table
<1>3. ASSUME "stale" \notin past'
      PROVE  /\ past' = past
             /\ \A id \in Live : \A p \in Pointers(chan[id]) : p \in Addresses /\ p < leaver
  <2>1. past' = past /\ ~PointsPast(leaver)
    BY <1>3 DEF EraseUser
  <2>2. QED
    BY <1>1, <1>2, <2>1 DEF PointsPast, Addresses
<1>4. \A j \in Slots : j < size => j + 1 \in Slots
  BY <1>2 DEF Slots
<1>5. QED
  BY <1>2, <1>3, <1>4 DEF EraseUser

\* Steps that leave slots, registrations and the list of _disconnect alone.
LEMMA CommandsKeepSessions ==
  ASSUME \/ \E i \in Slots, n \in ChanNames, k \in Keys : Creates(i, n, k) \/ Enters(i, n, k)
         \/ \E n \in ChanNames : Tunes(n)
         \/ \E n \in ChanNames : \E t : LosingStep(n, t) /\ ~LeaveChannel(n)
         \/ NewConnection \/ Grow \/ Halts
  PROVE  slot' = slot /\ reg' = reg /\ leaver' = leaver /\ todo' = todo
<1>1. ASSUME NEW n \in ChanNames, NEW t, LosingStep(n, t), ~LeaveChannel(n)
      PROVE  slot' = slot /\ reg' = reg /\ leaver' = leaver /\ todo' = todo
  BY <1>1 DEF LosingStep, Part, PartOther, Kick
<1>2. QED
  BY <1>1 DEF Creates, Enters, Tunes, NewConnection, Grow, Halts

LEMMA SessionsStep ==
  ASSUME Shape, Sessions, Kinds
  PROVE  Sessions'
<1>1. Table /\ Directory /\ past \subseteq past'
  BY ShapeFacts, PastGrows DEF Table
<1>2. ASSUME NEW id \in ChanIds PROVE chan'[id].invited => "invite" \in past'
  <2>1. chan[id].invited => "invite" \in past'
    BY <1>1 DEF Sessions
  <2>2. CASE Apart
    BY <2>1, <2>2, ApartFacts
  <2>3. CASE Grow
    BY <2>1, <2>3, GrowFacts
  <2>4. ASSUME NEW i \in Slots, NEW n \in ChanNames, NEW k \in Keys,
               Creates(i, n, k) \/ Enters(i, n, k)
        PROVE  chan'[id].invited => chan[id].invited
    <3>1. CASE Creates(i, n, k)
      <4>1. PICK o \in ChanIds \ Live : Created(i, n, o)
        BY <3>1, CreatesFacts
      <4>2. QED
        BY <4>1 DEF Created
    <3>2. CASE Enters(i, n, k)
      BY <3>2, EntersFacts
    <3>3. QED
      BY <2>4, <3>1, <3>2
  <2>5. ASSUME NEW n \in ChanNames, Tunes(n)
        PROVE  chan'[id].invited => "invite" \in past'
    BY <2>1, <2>5 DEF Tunes
  <2>6. ASSUME NEW n \in ChanNames, NEW t, LosingStep(n, t)
        PROVE  chan'[id].invited => chan[id].invited
    <3>1. Lost(n, t)
      BY <2>6, LosesFacts DEF LosingStep
    <3>2. QED
      BY <3>1 DEF Lost
  <2>7. QED
    BY <2>1, <2>2, <2>3, <2>4, <2>5, <2>6, ChannelKinds
<1>3. CASE slot' = slot /\ reg' = reg /\ leaver' = leaver /\ todo' = todo
  BY <1>2, <1>3 DEF Sessions
<1>4. ASSUME NEW i \in Slots, NEW w \in Names \cup Nameless, Nick(i, w) PROVE Sessions'
  <2>1. /\ \A j \in Slots : slot'[j] = IF j = i THEN w ELSE slot[j]
        /\ reg' = reg /\ leaver' = leaver /\ todo' = todo
        /\ reg[i] => w # NoName
    BY <1>1, <1>4 DEF Nick, Table
  <2>2. ASSUME NEW j \in Slots
        PROVE  /\ w \in Names => slot[j] # w
               /\ w \in Nameless /\ reg[j] => slot[j] \in Names
    <3>1. CASE j > size
      BY <1>1, <3>1, PrefixAssumption DEF Table
    <3>2. CASE j <= size
      BY PrefixAssumption, <1>1, <1>4, <3>2 DEF Nick, Nickname, Slots, Table
    <3>3. QED
      BY <1>1, <3>1, <3>2 DEF Slots, Table
  <2>3. \A j, k \in Slots : slot'[j] = slot'[k] /\ slot'[j] \in Names => j = k
    BY <2>1, <2>2, PrefixAssumption DEF Sessions
  <2>4. \A j, k \in Slots :
           reg'[j] /\ reg'[k] /\ {slot'[j], slot'[k]} \subseteq Nameless => j = k
    BY <2>1, <2>2, PrefixAssumption DEF Sessions
  <2>5. \A j \in Slots : reg'[j] => slot'[j] # NoName
    BY <2>1 DEF Sessions
  <2>6. QED
    BY <1>2, <2>1, <2>3, <2>4, <2>5 DEF Sessions
<1>11. ASSUME NEW i \in Slots, NEW w \in Names \cup Nameless, User(i, w) PROVE Sessions'
  <2>1. /\ \A j \in Slots : slot'[j] = IF j = i THEN w ELSE slot[j]
        /\ reg' = reg /\ leaver' = leaver /\ todo' = todo
        /\ ~reg[i] /\ w \in Nameless
    BY <1>1, <1>11 DEF User, Table
  <2>2. QED
    BY <1>2, <2>1, PrefixAssumption DEF Sessions
<1>5. ASSUME NEW i \in Slots, Register(i) PROVE Sessions'
  BY PrefixAssumption, <1>1, <1>2, <1>5 DEF Register, Sessions, Table
<1>6. ASSUME NEW i \in Slots, StartLeave(i) PROVE Sessions'
  <2>1. leaver' # NoSlot /\ slot' = slot /\ reg' = reg
    BY <1>6 DEF StartLeave, NoSlot, Slots
  <2>2. QED
    BY <1>2, <2>1 DEF Sessions
<1>7. ASSUME NEW n \in ChanNames, LeaveChannel(n) PROVE Sessions'
  <2>1. todo # <<>> /\ slot' = slot /\ reg' = reg /\ leaver' = leaver
    BY <1>7 DEF LeaveChannel, LeaveDeadChannel
  <2>2. QED
    BY <1>2, <2>1 DEF Sessions
<1>8. CASE LeaveDeadChannel
  <2>1. todo # <<>> /\ slot' = slot /\ reg' = reg /\ leaver' = leaver
    BY <1>8 DEF LeaveDeadChannel
  <2>2. QED
    BY <1>2, <2>1 DEF Sessions
<1>9. CASE EraseUser
  <2> DEFINE from(j) == IF j < leaver THEN j ELSE j + 1
  <2>1. /\ leaver \in 1 .. size /\ size \in 1 .. MaxUsers /\ todo' = <<>>
        /\ \A j \in Slots : /\ slot'[j] = IF j < leaver THEN slot[j]
                                          ELSE IF j < size THEN slot[j + 1] ELSE NoName
                            /\ reg'[j] = IF j < leaver THEN reg[j]
                                         ELSE IF j < size THEN reg[j + 1] ELSE FALSE
        /\ \A j \in Slots : j < size => j + 1 \in Slots
    BY <1>9, EraseFacts
  <2>2. ASSUME NEW j \in Slots
        PROVE  \/ slot'[j] = NoName /\ ~reg'[j]
               \/ from(j) \in Slots /\ slot'[j] = slot[from(j)] /\ reg'[j] = reg[from(j)]
    BY <2>1 DEF Slots
  <2>3. ASSUME NEW j \in Slots, NEW k \in Slots, from(j) = from(k) PROVE j = k
    BY <2>1, <2>3 DEF Slots
  <2> HIDE DEF from
  <2>4. \A j \in Slots : reg'[j] => slot'[j] # NoName
    BY <2>2 DEF Sessions
  <2>5. \A j, k \in Slots : slot'[j] = slot'[k] /\ slot'[j] \in Names => j = k
    BY PrefixAssumption, <2>2, <2>3 DEF Sessions
  <2>6. \A j, k \in Slots :
           reg'[j] /\ reg'[k] /\ {slot'[j], slot'[k]} \subseteq Nameless => j = k
    BY <2>2, <2>3 DEF Sessions
  <2>7. QED
    BY <1>2, <2>1, <2>4, <2>5, <2>6 DEF Sessions
<1>10. QED
  BY <1>3, <1>4, <1>5, <1>6, <1>7, <1>8, <1>9, <1>11, ChannelKinds, CommandsKeepSessions DEF Apart

LEMMA SessionsStutter == ASSUME Sessions, UNCHANGED vars PROVE Sessions'
BY DEF vars, Sessions

LEMMA InitSessions == Init => Sessions
BY EmptyFacts, PrefixAssumption DEF Init, Sessions, Empty

LEMMA SessionsInductive == Spec => []Sessions
<1>1. Shape /\ Sessions /\ [Next]_vars => Sessions'
  BY StepKinds, SessionsStep, SessionsStutter DEF Shape
<1>2. QED
  BY <1>1, InitSessions, ShapeInductive, PTL DEF Spec

\* What the steps that take a pointer from a channel do to the lists: nothing,
\* when there was no pointer; one entry goes from the list of the client that is
\* removed, or from what _disconnect has still to walk.
LEMMA LosingLists ==
  ASSUME Shape, NEW n \in ChanNames, NEW t \in 0 .. MaxUsers, LosingStep(n, t)
  PROVE  /\ UNCHANGED <<capacity, size, slot, reg, leaver, status>>
         /\ past \subseteq past' /\ past' \subseteq past \cup {"kick", "noname"}
         /\ \/ /\ t = NoSlot /\ chans' = chans /\ todo' = todo
            \/ /\ t \in 1 .. size /\ leaver = NoSlot /\ todo' = todo
               /\ dir[n] \in Range(chans[t]) /\ chans' = Unlist(t, dir[n])
            \/ /\ t = leaver /\ chans' = chans
               /\ todo # <<>> /\ Head(todo) = dir[n] /\ todo' = Tail(todo)
<1>1. size \in Nat
  BY ShapeFacts DEF Table
<1>2. ASSUME NEW i \in Slots, Part(i, n), t = i
      PROVE  /\ UNCHANGED <<capacity, size, slot, reg, leaver, status>>
             /\ past' = past
             /\ t \in 1 .. size /\ leaver = NoSlot /\ todo' = todo /\ reg[t]
             /\ dir[n] \in Range(chans[t]) /\ chans' = Unlist(t, dir[n])
  BY <1>1, <1>2 DEF Part, Ready, Slots
<1>3. ASSUME NEW i \in Slots, PartOther(i, n), t = NoSlot
      PROVE  /\ UNCHANGED <<capacity, size, slot, reg, leaver, status>>
             /\ past' = past
             /\ t = NoSlot /\ chans' = chans /\ todo' = todo
  BY <1>3 DEF PartOther
<1>4. ASSUME NEW i \in Slots, t \in Slots, Kick(i, n, t)
      PROVE  /\ UNCHANGED <<capacity, size, slot, reg, leaver, status>>
             /\ past \subseteq past' /\ past' \subseteq past \cup {"kick", "noname"}
             /\ t \in 1 .. size /\ leaver = NoSlot /\ todo' = todo
             /\ dir[n] \in Range(chans[t]) /\ chans' = Unlist(t, dir[n])
  BY <1>1, <1>4 DEF Kick, Ready, Found, Naming, Slots
<1>5. ASSUME LeaveChannel(n), t = leaver
      PROVE  /\ UNCHANGED <<capacity, size, slot, reg, leaver, status>>
             /\ past' = past
             /\ t = leaver /\ chans' = chans
             /\ todo # <<>> /\ Head(todo) = dir[n] /\ todo' = Tail(todo)
  BY <1>5 DEF LeaveChannel
<1>6. QED
  BY <1>2, <1>3, <1>4, <1>5 DEF LosingStep

\* Every pointer of a channel denotes a client, and a member is registered and
\* lists the channel.
Denotes(id) ==
    /\ \A p \in Range(chan[id].users) : p <= size /\ reg[p] /\ id \in Range(chans[p])
    /\ \A p \in Pointers(chan[id]) : p <= size

\* A pointer that denotes a client is a slot.
LEMMA DenotesFacts ==
  ASSUME Shape, NEW id \in ChanIds, Denotes(id)
  PROVE  /\ Range(chan[id].users) \subseteq 1 .. size
         /\ Pointers(chan[id]) \subseteq 1 .. size
         /\ ~Dangling(Range(chan[id].users)) /\ ~Dangling(Pointers(chan[id]))
         /\ 1 .. size \subseteq Slots
<1>1. size \in 0 .. MaxUsers /\ MaxUsers \in Nat /\ Pointers(chan[id]) \subseteq Addresses
  BY ShapeFacts DEF Table
<1>2. Pointers(chan[id]) \subseteq 1 .. size
  BY <1>1 DEF Denotes, Addresses
<1>3. QED
  BY <1>1, <1>2 DEF Pointers, Dangling, Slots

\* The lists after an entry is appended to one of them.
LEMMA ListedFacts ==
  ASSUME Table, NEW i \in Slots, NEW id \in ChanIds, chans' = [chans EXCEPT ![i] = Append(@, id)]
  PROVE  /\ \A j \in Slots : j # i => chans'[j] = chans[j]
         /\ \A j \in Slots : Range(chans[j]) \subseteq Range(chans'[j])
         /\ Range(chans'[i]) = Range(chans[i]) \cup {id}
         /\ Distinct(chans[i]) /\ id \notin Range(chans[i]) => Distinct(chans'[i])
<1>1. chans[i] \in Seq(ChanIds) /\ chans'[i] = Append(chans[i], id)
  BY DEF Table
<1>2. \A j \in Slots : j # i => chans'[j] = chans[j]
  BY DEF Table
<1>3. QED
  BY <1>1, <1>2, RangeAppend

LEMMA DenotesStep ==
  ASSUME Shape, Sessions, \A id \in Live : Denotes(id), Kinds, "stale" \notin past'
  PROVE  \A id \in Live' : Denotes(id)'
<1> DEFINE Denoted(id) ==
             /\ \A p \in Range(chan'[id].users) : p <= size' /\ reg'[p] /\ id \in Range(chans'[p])
             /\ \A p \in Pointers(chan'[id]) : p <= size'
<1> SUFFICES ASSUME NEW id \in Live' PROVE Denoted(id)
  BY DEF Denotes, Pointers, Range
<1>1. /\ Table /\ Directory /\ Live \subseteq ChanIds /\ size \in 0 .. MaxUsers /\ MaxUsers \in Nat
      /\ \A o \in ChanIds : Pointers(chan[o]) \subseteq Addresses
      /\ \A o \in ChanIds : Range(chan[o].users) \subseteq Pointers(chan[o])
      /\ 1 .. size \subseteq Slots
  BY ShapeFacts DEF Table, Pointers, Slots
<1>2. \A o \in Live :
         /\ \A p \in Range(chan[o].users) : p \in 1 .. size /\ reg[p] /\ o \in Range(chans[p])
         /\ \A p \in Pointers(chan[o]) : p \in 1 .. size
  BY <1>1, DenotesFacts DEF Denotes
<1>3. CASE Apart
  <2>1. chan' = chan /\ id \in Live
    BY <1>3, ApartFacts
  <2>2. CASE /\ size' \in {size, size + 1}
             /\ \A j \in Slots : (reg[j] => reg'[j]) /\ chans'[j] = chans[j]
    <3>1. ASSUME NEW p \in Pointers(chan'[id]) PROVE p <= size'
      <4>1. p \in 1 .. size /\ p \in Slots
        BY <1>1, <1>2, <2>1
      <4>2. QED
        BY <1>1, <2>2, <4>1
    <3>2. ASSUME NEW p \in Range(chan'[id].users)
          PROVE  p <= size' /\ reg'[p] /\ id \in Range(chans'[p])
      <4>1. p \in 1 .. size /\ reg[p] /\ id \in Range(chans[p]) /\ p \in Slots
        BY <1>1, <1>2, <2>1
      <4>2. QED
        BY <1>1, <2>2, <4>1
    <3>3. QED
      BY <3>1, <3>2
  <2>3. ASSUME NEW i \in Slots, NEW w \in Names \cup Nameless, Nick(i, w) \/ User(i, w)
        PROVE  size' = size /\ reg' = reg /\ chans' = chans
    BY <2>3 DEF Nick, User
  <2>4. ASSUME NEW i \in Slots, Register(i)
        PROVE  /\ size' = size /\ chans' = chans
               /\ \A j \in Slots : reg[j] => reg'[j]
    BY <1>1, <2>4 DEF Register, Table
  <2>5. ASSUME \/ NewConnection \/ LeaveDeadChannel \/ Halts \/ \E i \in Slots : StartLeave(i)
        PROVE  size' \in {size, size + 1} /\ chans' = chans /\ reg' = reg
    BY <2>5 DEF NewConnection, LeaveDeadChannel, Halts, StartLeave
  <2>6. CASE EraseUser
    <3>1. \A p \in Pointers(chan[id]) : p \in 1 .. size - 1 /\ p < leaver
      BY <1>1, <1>2, <2>1, <2>6, EraseFacts DEF Addresses
    <3>2. /\ size' = size - 1
          /\ \A j \in Slots : j < leaver => reg'[j] = reg[j] /\ chans'[j] = chans[j]
      BY <2>6, EraseFacts
    <3>3. QED
      BY <1>1, <1>2, <2>1, <3>1, <3>2 DEF Slots
  <2>7. QED
    BY <1>3, <2>2, <2>3, <2>4, <2>5, <2>6 DEF Apart
<1>4. CASE Grow
  BY <1>1, <1>4, GrowFacts DEF Pointers
<1>5. ASSUME NEW i \in Slots, NEW n \in ChanNames, NEW k \in Keys, Creates(i, n, k)
      PROVE  Denoted(id)
  <2>0. PICK new \in ChanIds \ Live : Created(i, n, new)
    BY <1>5, CreatesFacts
  <2>1. /\ Live' = Live \cup {new}
        /\ chans' = [chans EXCEPT ![i] = Append(@, new)]
        /\ \A o \in ChanIds : o # new => chan'[o] = chan[o]
        /\ Pointers(chan'[new]) = {i} /\ Range(chan'[new].users) = {i}
    BY <2>0 DEF Created
  <2>2. i \in 1 .. size /\ reg[i] /\ reg' = reg /\ size' = size
    BY <1>5, CreatesFacts DEF Creates
  <2>3. /\ \A j \in Slots : Range(chans[j]) \subseteq Range(chans'[j])
        /\ new \in Range(chans'[i])
    <3>1. chans' = [chans EXCEPT ![i] = Append(@, new)] /\ new \in ChanIds
      BY <2>1
    <3>2. Range(chans'[i]) = Range(chans[i]) \cup {new}
      BY <1>1, <3>1, ListedFacts
    <3>3. \A j \in Slots : Range(chans[j]) \subseteq Range(chans'[j])
      BY <1>1, <3>1, ListedFacts
    <3>4. QED
      BY <3>2, <3>3
  <2>4. CASE id = new
    BY <2>1, <2>2, <2>3, <2>4
  <2>5. CASE id # new
    <3>1. id \in Live /\ chan'[id] = chan[id]
      BY <1>1, <2>1, <2>5
    <3>2. /\ \A p \in Range(chan[id].users) : p \in Slots /\ p <= size /\ reg[p] /\ id \in Range(chans[p])
          /\ \A p \in Pointers(chan[id]) : p <= size
      BY <1>1, <1>2, <3>1
    <3>3. QED
      BY <2>2, <2>3, <3>1, <3>2
  <2>6. QED
    BY <2>4, <2>5
<1>6. ASSUME NEW i \in Slots, NEW n \in ChanNames, NEW k \in Keys, Enters(i, n, k)
      PROVE  Denoted(id)
  <2>1. /\ Live' = Live /\ dir[n] \in ChanIds
        /\ chans' = [chans EXCEPT ![i] = Append(@, dir[n])]
        /\ \A o \in ChanIds : o # dir[n] => chan'[o] = chan[o]
        /\ \/ chan' = chan
           \/ /\ Range(chan'[dir[n]].users) = Range(chan[dir[n]].users) \cup {i}
              /\ Pointers(chan'[dir[n]]) = Pointers(chan[dir[n]]) \cup {i}
    BY <1>6, EntersFacts
  <2>2. i \in 1 .. size /\ reg[i] /\ reg' = reg /\ size' = size
    BY <1>6, EntersFacts DEF Enters
  <2>3. /\ \A j \in Slots : Range(chans[j]) \subseteq Range(chans'[j])
        /\ dir[n] \in Range(chans'[i])
    <3>1. chans' = [chans EXCEPT ![i] = Append(@, dir[n])] /\ dir[n] \in ChanIds
      BY <2>1
    <3>2. Range(chans'[i]) = Range(chans[i]) \cup {dir[n]}
      BY <1>1, <3>1, ListedFacts
    <3>3. \A j \in Slots : Range(chans[j]) \subseteq Range(chans'[j])
      BY <1>1, <3>1, ListedFacts
    <3>4. QED
      BY <3>2, <3>3
  <2>4. CASE chan'[id] = chan[id]
    BY <1>1, <1>2, <2>1, <2>2, <2>3, <2>4
  <2>5. CASE /\ id = dir[n]
             /\ Range(chan'[id].users) = Range(chan[id].users) \cup {i}
             /\ Pointers(chan'[id]) = Pointers(chan[id]) \cup {i}
    BY <1>1, <1>2, <2>1, <2>2, <2>3, <2>5
  <2>6. QED
    BY <1>1, <2>1, <2>4, <2>5
<1>7. ASSUME NEW n \in ChanNames, Tunes(n)
      PROVE  Denoted(id)
  <2>1. /\ id \in Live /\ chan'[id].users = chan[id].users
        /\ \A p \in Pointers(chan'[id]) :
              p \in Pointers(chan[id]) \/ p \in 1 .. size
    BY <1>1, <1>7, TunesFacts
  <2>2. reg' = reg /\ size' = size /\ chans' = chans
    BY <1>7 DEF Tunes
  <2>3. QED
    BY <1>1, <1>2, <2>1, <2>2
<1>8. ASSUME NEW n \in ChanNames, NEW t \in 0 .. MaxUsers, LosingStep(n, t)
      PROVE  Denoted(id)
  <2>1. /\ id \in Live /\ Pointers(chan'[id]) \subseteq Pointers(chan[id])
        /\ Range(chan'[id].users) = IF id = dir[n] THEN Range(chan[id].users) \ {t}
                                    ELSE Range(chan[id].users)
    <3>1. Lost(n, t)
      BY <1>8, LosesFacts DEF LosingStep
    <3>2. QED
      BY <1>1, <3>1 DEF Lost
  <2>2. reg' = reg /\ size' = size
    BY <1>8, LosingLists
  <2>3. \A p \in Range(chan'[id].users) : id \in Range(chans'[p])
    <3>1. \A p \in Range(chan'[id].users) : /\ id \in Range(chans[p]) /\ p \in Slots
                                            /\ p = t => id # dir[n]
      BY <1>1, <1>2, <2>1 DEF Slots
    <3>2. CASE chans' = chans
      BY <3>1, <3>2
    <3>3. CASE t \in 1 .. size /\ dir[n] \in Range(chans[t]) /\ chans' = Unlist(t, dir[n])
      <4>1. t \in Slots
        BY <1>1, <3>3 DEF Slots
      <4>2. PICK list \in Seq(ChanIds) :
                /\ chans' = [chans EXCEPT ![t] = list]
                /\ Range(chans[t]) \ {dir[n]} \subseteq Range(list)
        BY <1>1, <3>3, <4>1, UnlistFacts
      <4>3. chans'[t] = list /\ \A j \in Slots : j # t => chans'[j] = chans[j]
        BY <1>1, <4>1, <4>2 DEF Table
      <4>4. QED
        BY <3>1, <4>2, <4>3
    <3>4. QED
      BY <1>8, <3>2, <3>3, LosingLists
  <2>4. QED
    BY <1>2, <2>1, <2>2, <2>3
<1>9. QED
  BY <1>3, <1>4, <1>5, <1>6, <1>7, <1>8, ChannelKinds

LEMMA KnownStep ==
  ASSUME Shape, Sessions, MembersKnowChannel, Kinds
  PROVE  MembersKnowChannel'
<1>1. MembersKnowChannel <=>
          (status # "undefined" /\ "stale" \notin past => \A id \in Live : Denotes(id))
  BY DEF MembersKnowChannel, Denotes
<1>2. status = "up" /\ past \subseteq past'
  BY ShapeFacts, PastGrows DEF Table
<1>3. "stale" \notin past' => \A id \in Live' : Denotes(id)'
  BY <1>1, <1>2, DenotesStep
<1>4. QED
  BY <1>3 DEF MembersKnowChannel, Denotes

LEMMA KnownStutter == ASSUME MembersKnowChannel, UNCHANGED vars PROVE MembersKnowChannel'
BY DEF vars, MembersKnowChannel, Live, Pointers

LEMMA InitKnown == Init => MembersKnowChannel
BY DEF Init, MembersKnowChannel, Live

LEMMA KnownInductive == Spec => []MembersKnowChannel
<1>1. Shape /\ Sessions /\ MembersKnowChannel /\ [Next]_vars => MembersKnowChannel'
  BY StepKinds, KnownStep, KnownStutter DEF Shape
<1>2. QED
  BY <1>1, InitKnown, ShapeInductive, SessionsInductive, PTL DEF Spec

\* As long as no client was moved under a pointer, the pointers of a channel
\* denote clients, and a member is registered and lists the channel: _disconnect,
\* which walks the list of the client that leaves, then misses no channel.
THEOREM MembersKnow == Spec => []MembersKnowChannel
BY KnownInductive

-----------------------------------------------------------------------------
\* The two records of membership

\* The list of a client that _disconnect is removing is what it still has to
\* walk; its own list is no longer looked at.
ListOf(i) == IF i = leaver THEN todo ELSE chans[i]
Joined(i) == {id \in Live : i \in Range(chan[id].users)}
ListsHold == \A i \in 1 .. size : Distinct(ListOf(i)) /\ Range(ListOf(i)) = Joined(i)

\* RecordsAgree is not inductive: it says nothing while _disconnect runs.
Trusted == status # "undefined" /\ {"stale", "phantom"} \cap past = {}
ListsTrue == Trusted => ListsHold

\* A slot that no channel points to has an empty list, and so have all when
\* the channels hold no pointer at all.
LEMMA NotJoined ==
  ASSUME NEW i, \A id \in Live : i \notin Pointers(chan[id])
  PROVE  Joined(i) = {}
BY DEF Joined, Pointers

LEMMA ApartLists ==
  ASSUME Shape, Sessions, \A id \in Live : Denotes(id), ListsHold, Apart, "stale" \notin past'
  PROVE  ListsHold'
<1>1. /\ Table /\ Live \subseteq ChanIds /\ size \in 0 .. MaxUsers /\ MaxUsers \in Nat
      /\ leaver \in 0 .. size /\ 1 .. size \subseteq Slots
      /\ \A i \in Slots : chans[i] \in Seq(ChanIds)
  <2>1. Table /\ Live \subseteq ChanIds
    BY ShapeFacts
  <2>2. /\ size \in 0 .. MaxUsers /\ MaxUsers \in Nat /\ leaver \in 0 .. size
        /\ chans \in [Slots -> Seq(ChanIds)]
    BY <2>1, BoundAssumption DEF Table
  <2>3. 1 .. size \subseteq Slots
    BY <2>2 DEF Slots
  <2>4. QED
    BY <2>1, <2>2, <2>3
<1>2. \A id \in Live : Pointers(chan[id]) \subseteq 1 .. size
  <2> SUFFICES ASSUME NEW id \in Live PROVE Pointers(chan[id]) \subseteq 1 .. size
    OBVIOUS
  <2>1. id \in ChanIds /\ Denotes(id)
    BY <1>1
  <2>2. QED
    BY <2>1, DenotesFacts
<1>3. chan' = chan /\ Live' = Live /\ (\A i : Joined(i)' = Joined(i))
  BY ApartFacts DEF Joined
<1>4. ASSUME size' = size, \A i \in 1 .. size : ListOf(i)' = ListOf(i) PROVE ListsHold'
  BY <1>3, <1>4 DEF ListsHold, Distinct, Range
<1>5. Distinct(<<>>) /\ Range(<<>>) = {}
  BY DEF Distinct, Range
<1>6. CASE NewConnection
  <2>1. /\ size' = size + 1 /\ leaver = NoSlot /\ leaver' = NoSlot /\ chans' = chans
        /\ size + 1 \in Slots
    BY <1>1, <1>6 DEF NewConnection, Slots
  <2>2. chans[size + 1] = <<>>
    BY <1>1, <2>1 DEF Table
  <2>3. Joined(size + 1) = {}
    BY <1>1, <1>2, NotJoined
  <2>4. ASSUME NEW i \in 1 .. size + 1
        PROVE  Distinct(chans[i]) /\ Range(chans[i]) = Joined(i)
    <3>1. CASE i \in 1 .. size
      BY <2>1, <3>1 DEF ListsHold, ListOf, NoSlot
    <3>2. CASE i = size + 1
      BY <1>5, <2>2, <2>3, <3>2
    <3>3. QED
      BY <1>1, <2>4, <3>1, <3>2
  <2>5. \A i \in 1 .. size + 1 : ListOf(i)' = chans[i]
    BY <1>1, <2>1 DEF ListOf, NoSlot
  <2>6. QED
    BY <1>3, <2>1, <2>4, <2>5 DEF ListsHold, Distinct, Range
<1>7. CASE LeaveDeadChannel
  <2>1. todo # <<>> /\ Head(todo) \notin Live /\ todo \in Seq(ChanIds)
    BY <1>1, <1>7 DEF LeaveDeadChannel, Table
  <2>2. leaver \in 1 .. size
    BY <1>1, <2>1 DEF Sessions, NoSlot
  <2>3. Range(todo) = Joined(leaver)
    BY <2>2 DEF ListsHold, ListOf
  <2>4. Head(todo) \in Range(todo)
    BY <2>1, RangeTail
  <2>5. QED
    BY <2>1, <2>3, <2>4 DEF Joined
<1>8. CASE EraseUser
  <2>1. /\ leaver \in 1 .. size /\ size' = size - 1 /\ leaver' = 0
        /\ \A j \in Slots : chans'[j] = IF j < leaver THEN chans[j]
                                        ELSE IF j < size THEN chans[j + 1] ELSE <<>>
        /\ \A id \in Live : \A p \in Pointers(chan[id]) : p < leaver
    BY <1>8, EraseFacts DEF NoSlot
  <2>2. ASSUME NEW i \in 1 .. size - 1
        PROVE  Distinct(chans'[i]) /\ Range(chans'[i]) = Joined(i)
    <3>1. i \in Slots /\ i \in 1 .. size /\ i + 1 \in 1 .. size
      BY <1>1 DEF Slots
    <3>2. CASE i < leaver
      <4>1. chans'[i] = chans[i] /\ ListOf(i) = chans[i]
        BY <2>1, <3>1, <3>2 DEF ListOf
      <4>2. QED
        BY <3>1, <4>1 DEF ListsHold
    <3>3. CASE ~(i < leaver)
      <4>1. chans'[i] = chans[i + 1] /\ ListOf(i + 1) = chans[i + 1]
        BY <1>1, <2>1, <3>1, <3>3 DEF ListOf
      <4>2. Joined(i) = {} /\ Joined(i + 1) = {}
        <5>1. \A id \in Live : i \notin Pointers(chan[id]) /\ i + 1 \notin Pointers(chan[id])
          <6>1. ~(i < leaver) /\ ~(i + 1 < leaver)
            BY <1>1, <2>1, <3>1, <3>3
          <6>2. QED
            BY <2>1, <6>1
        <5>2. QED
          BY <5>1, NotJoined
      <4>3. QED
        BY <3>1, <4>1, <4>2 DEF ListsHold
    <3>4. QED
      BY <3>2, <3>3
  <2>3. \A i \in 1 .. size - 1 : ListOf(i)' = chans'[i]
    BY <1>1, <2>1 DEF ListOf
  <2>4. QED
    BY <1>3, <2>1, <2>2, <2>3 DEF ListsHold, Distinct, Range
<1>9. ASSUME NEW i \in Slots, StartLeave(i) PROVE ListsHold'
  <2>1. size' = size /\ chans' = chans /\ leaver = NoSlot /\ leaver' = i /\ todo' = chans[i]
    BY <1>9 DEF StartLeave
  <2>2. \A j \in 1 .. size : ListOf(j)' = ListOf(j)
    BY <2>1 DEF ListOf, NoSlot
  <2>3. QED
    BY <1>4, <2>1, <2>2
<1>10. ASSUME \/ Halts \/ \E i \in Slots : Register(i)
              \/ \E i \in Slots, w \in Names \cup Nameless : Nick(i, w) \/ User(i, w)
       PROVE  ListsHold'
  <2>1. size' = size /\ chans' = chans /\ leaver' = leaver /\ todo' = todo
    BY <1>10 DEF Halts, Nick, User, Register
  <2>2. QED
    BY <1>4, <2>1 DEF ListOf
<1>11. QED
  BY <1>6, <1>7, <1>8, <1>9, <1>10 DEF Apart

\* What a step that takes a pointer from a channel does to who has joined what.
LEMMA LosingJoined ==
  ASSUME Shape, NEW n \in ChanNames, NEW t, Loses(n, t), NEW i, i # t
  PROVE  Joined(i)' = Joined(i)
<1>1. /\ Live' \subseteq Live /\ Live \ {dir[n]} \subseteq Live' /\ Live \subseteq ChanIds
      /\ \A id \in ChanIds : Range(chan'[id].users) = IF id = dir[n] THEN Range(chan[id].users) \ {t}
                                                      ELSE Range(chan[id].users)
      /\ dir[n] \notin Live' => Range(chan[dir[n]].users) \subseteq {t}
  <2>1. Lost(n, t) /\ Live \subseteq ChanIds
    BY LosesFacts, ShapeFacts
  <2>2. QED
    BY <2>1 DEF Lost
<1>2. \A id \in Live' : i \in Range(chan'[id].users) <=> i \in Range(chan[id].users)
  BY <1>1
<1>3. \A id \in Live : i \in Range(chan[id].users) => id \in Live'
  BY <1>1
<1>4. Joined(i)' = {id \in Live' : i \in Range(chan'[id].users)}
  BY DEF Joined, Range
<1>5. QED
  BY <1>1, <1>2, <1>3, <1>4 DEF Joined

LEMMA LosingJoinedSelf ==
  ASSUME Shape, NEW n \in ChanNames, NEW t, Loses(n, t)
  PROVE  Joined(t)' = Joined(t) \ {dir[n]}
<1>1. /\ Live' \subseteq Live /\ Live \ {dir[n]} \subseteq Live' /\ Live \subseteq ChanIds
      /\ \A id \in ChanIds : Range(chan'[id].users) = IF id = dir[n] THEN Range(chan[id].users) \ {t}
                                                      ELSE Range(chan[id].users)
  <2>1. Lost(n, t) /\ Live \subseteq ChanIds
    BY LosesFacts, ShapeFacts
  <2>2. QED
    BY <2>1 DEF Lost
<1>2. \A id \in Live' : t \in Range(chan'[id].users) <=> id # dir[n] /\ t \in Range(chan[id].users)
  BY <1>1
<1>3. Joined(t)' = {id \in Live' : t \in Range(chan'[id].users)}
  BY DEF Joined, Range
<1>4. QED
  BY <1>1, <1>2, <1>3 DEF Joined

LEMMA LosingListsHold ==
  ASSUME Shape, Sessions, \A id \in Live : Denotes(id), ListsHold,
         NEW n \in ChanNames, NEW t \in 0 .. MaxUsers, LosingStep(n, t)
  PROVE  ListsHold'
<1>1. /\ Table /\ size \in 0 .. MaxUsers /\ MaxUsers \in Nat /\ leaver \in 0 .. size
      /\ 1 .. size \subseteq Slots /\ Loses(n, t) /\ size' = size /\ leaver' = leaver
  BY ShapeFacts, LosingLists DEF Table, Slots, LosingStep
<1>2. \A i \in 1 .. size : Joined(i)' = IF i = t THEN Joined(i) \ {dir[n]} ELSE Joined(i)
  BY <1>1, LosingJoined, LosingJoinedSelf
<1>3. ASSUME \A i \in 1 .. size :
                /\ Distinct(ListOf(i)) => Distinct(ListOf(i)')
                /\ Distinct(ListOf(i)) => Range(ListOf(i)') =
                       IF i = t THEN Range(ListOf(i)) \ {dir[n]} ELSE Range(ListOf(i))
      PROVE  ListsHold'
  <2>1. \A i \in 1 .. size : Distinct(ListOf(i)') /\ Range(ListOf(i)') = Joined(i)'
    BY <1>2, <1>3 DEF ListsHold
  <2>2. QED
    BY <1>1, <2>1 DEF ListsHold, Distinct, Range
<1>4. CASE t = NoSlot /\ chans' = chans /\ todo' = todo
  <2>1. \A i \in 1 .. size : i # t /\ ListOf(i)' = ListOf(i)
    BY <1>1, <1>4 DEF ListOf, NoSlot
  <2>2. QED
    BY <1>3, <2>1
<1>5. CASE /\ t \in 1 .. size /\ leaver = NoSlot
           /\ dir[n] \in Range(chans[t]) /\ chans' = Unlist(t, dir[n])
  <2>1. t \in Slots
    BY <1>1, <1>5
  <2>2. PICK list \in Seq(ChanIds) :
            /\ Unlist(t, dir[n]) = [chans EXCEPT ![t] = list]
            /\ Distinct(chans[t]) => Distinct(list) /\ Range(list) = Range(chans[t]) \ {dir[n]}
    BY <1>1, <1>5, <2>1, UnlistFacts
  <2>3. /\ chans'[t] = list /\ \A j \in 1 .. size : j # t => chans'[j] = chans[j]
        /\ \A j \in 1 .. size : ListOf(j) = chans[j] /\ ListOf(j)' = chans'[j]
    BY <1>1, <1>5, <2>1, <2>2 DEF Table, ListOf, NoSlot
  <2>4. QED
    BY <1>3, <1>5, <2>2, <2>3
<1>6. CASE /\ t = leaver /\ chans' = chans
           /\ todo # <<>> /\ Head(todo) = dir[n] /\ todo' = Tail(todo)
  <2>1. leaver \in 1 .. size
    BY <1>1, <1>6 DEF Sessions, NoSlot
  <2>2. Distinct(todo) => Distinct(Tail(todo)) /\ Range(Tail(todo)) = Range(todo) \ {dir[n]}
    BY <1>1, <1>6, RangeTail DEF Table
  <2>3. /\ ListOf(t) = todo /\ ListOf(t)' = Tail(todo)
        /\ \A j \in 1 .. size : j # t => ListOf(j)' = ListOf(j)
    BY <1>1, <1>6 DEF ListOf
  <2>4. QED
    BY <1>3, <2>2, <2>3
<1>7. QED
  BY <1>4, <1>5, <1>6, LosingLists

LEMMA ListsStep ==
  ASSUME Shape, Sessions, \A id \in Live : Denotes(id), ListsHold, Kinds,
         {"stale", "phantom"} \cap past' = {}
  PROVE  ListsHold'
<1>1. /\ Table /\ Live \subseteq ChanIds /\ size \in 0 .. MaxUsers /\ MaxUsers \in Nat
      /\ leaver \in 0 .. size /\ 1 .. size \subseteq Slots
  BY ShapeFacts DEF Table, Slots
<1>2. \A id \in Live : Pointers(chan[id]) \subseteq 1 .. size
  BY <1>1, DenotesFacts
<1>3. CASE Apart
  BY <1>3, ApartLists
<1>4. CASE Grow
  <2>1. /\ Live' = Live /\ size' = size + 1 /\ leaver = 0 /\ leaver' = 0 /\ chans' = chans
        /\ size + 1 \in Slots
        /\ \A id \in Live : Pointers(chan[id]) = {} /\ Pointers(chan'[id]) = {}
    <3>1. "stale" \notin past'
      OBVIOUS
    <3>2. size' = size + 1 /\ leaver = 0 /\ leaver' = 0 /\ chans' = chans /\ size < MaxUsers
      BY <1>4 DEF Grow, NoSlot
    <3>3. size + 1 \in Slots
      BY <1>1, <3>2 DEF Slots
    <3>4. QED
      BY <1>4, <3>1, <3>2, <3>3, GrowFacts
  <2>2. \A i : Joined(i) = {}
    BY <2>1, NotJoined
  <2>3. \A i : Joined(i)' = {}
    BY <2>1 DEF Joined, Pointers
  <2>4. chans[size + 1] = <<>>
    BY <1>1, <2>1 DEF Table
  <2>5. \A i \in 1 .. size : Distinct(chans[i]) /\ Range(chans[i]) = {}
    BY <2>1, <2>2 DEF ListsHold, ListOf
  <2>6. Distinct(<<>>) /\ Range(<<>>) = {}
    BY DEF Distinct, Range
  <2>7. \A i \in 1 .. size + 1 : Distinct(chans[i]) /\ Range(chans[i]) = {}
    <3>1. \A i \in 1 .. size + 1 : i \in 1 .. size \/ i = size + 1
      BY <1>1
    <3>2. QED
      BY <2>4, <2>5, <2>6, <3>1
  <2>8. \A i \in 1 .. size + 1 : ListOf(i)' = chans[i]
    BY <1>1, <2>1 DEF ListOf
  <2>9. \A i \in 1 .. size + 1 : Distinct(chans[i]) /\ Range(chans[i]) = Joined(i)'
    BY <2>3, <2>7
  <2>10. QED
    BY <2>1, <2>8, <2>9 DEF ListsHold, Distinct, Range
<1>5. ASSUME NEW i \in Slots, i \in 1 .. size, NEW id \in ChanIds, leaver = NoSlot,
             leaver' = NoSlot, size' = size, chans' = [chans EXCEPT ![i] = Append(@, id)],
             id \notin Joined(i),
             \A j \in 1 .. size : Joined(j)' = IF j = i THEN Joined(j) \cup {id} ELSE Joined(j)
      PROVE  ListsHold'
  <2>1. \A j \in 1 .. size : ListOf(j) = chans[j] /\ ListOf(j)' = chans'[j]
    BY <1>5 DEF ListOf, NoSlot
  <2>2. \A j \in 1 .. size : Distinct(chans[j]) /\ Range(chans[j]) = Joined(j)
    BY <2>1 DEF ListsHold
  <2>3. /\ \A j \in 1 .. size : j # i => chans'[j] = chans[j]
        /\ Distinct(chans'[i]) /\ Range(chans'[i]) = Joined(i) \cup {id}
    <3>1. chans' = [chans EXCEPT ![i] = Append(@, id)] /\ id \in ChanIds
      BY <1>5
    <3>2. Range(chans'[i]) = Range(chans[i]) \cup {id}
      BY <1>1, <3>1, ListedFacts
    <3>3. \A j \in Slots : j # i => chans'[j] = chans[j]
      BY <1>1, <3>1, ListedFacts
    <3>4. Distinct(chans[i]) /\ id \notin Range(chans[i])
      BY <1>5, <2>2
    <3>5. Distinct(chans'[i])
      BY <1>1, <3>1, <3>4, ListedFacts
    <3>6. QED
      BY <1>1, <1>5, <2>2, <3>2, <3>3, <3>5
  <2>4. \A j \in 1 .. size : Distinct(chans'[j]) /\ Range(chans'[j]) = Joined(j)'
    <3>1. ASSUME NEW j \in 1 .. size, j # i
          PROVE  Distinct(chans'[j]) /\ Range(chans'[j]) = Joined(j)'
      BY <1>5, <2>2, <2>3, <3>1
    <3>2. Distinct(chans'[i]) /\ Range(chans'[i]) = Joined(i)'
      BY <1>5, <2>3
    <3>3. QED
      BY <3>1, <3>2
  <2>5. size' = size
    BY <1>5
  <2>6. QED
    BY <2>1, <2>4, <2>5 DEF ListsHold, Distinct, Range
<1>6. ASSUME NEW i \in Slots, NEW n \in ChanNames, NEW k \in Keys, Creates(i, n, k)
      PROVE  ListsHold'
  <2>0. PICK id \in ChanIds \ Live : Created(i, n, id)
    BY <1>6, CreatesFacts
  <2>1. /\ Live' = Live \cup {id}
        /\ chans' = [chans EXCEPT ![i] = Append(@, id)]
        /\ \A o \in ChanIds : o # id => chan'[o] = chan[o]
        /\ Range(chan'[id].users) = {i}
    BY <2>0 DEF Created
  <2>2. /\ i \in 1 .. size /\ leaver = NoSlot /\ leaver' = NoSlot /\ size' = size
    BY <1>6, CreatesFacts DEF Creates, Ready
  <2>3. \A j : Joined(j)' = {o \in Live' : j \in Range(chan'[o].users)}
    BY DEF Joined, Range
  <2>4. \A j : Joined(j)' = IF j = i THEN Joined(j) \cup {id} ELSE Joined(j)
    <3>1. \A j : \A o \in Live' : j \in Range(chan'[o].users)
                     <=> (o = id /\ j = i) \/ (o \in Live /\ j \in Range(chan[o].users))
      BY <1>1, <2>1
    <3>2. QED
      BY <2>1, <2>3, <3>1 DEF Joined
  <2>5. id \notin Joined(i)
    BY DEF Joined
  <2>6. QED
    BY <1>5, <2>1, <2>2, <2>4, <2>5
<1>7. ASSUME NEW i \in Slots, NEW n \in ChanNames, NEW k \in Keys, Enters(i, n, k)
      PROVE  ListsHold'
  <2>1. /\ Live' = Live /\ dir[n] \in ChanIds /\ dir[n] \in Live
        /\ chans' = [chans EXCEPT ![i] = Append(@, dir[n])]
        /\ \A o \in ChanIds : o # dir[n] => chan'[o] = chan[o]
        /\ i \notin Range(chan[dir[n]].users)
        /\ Range(chan'[dir[n]].users) = Range(chan[dir[n]].users) \cup {i}
    <3>1. past' # past \cup {"phantom"}
      OBVIOUS
    <3>2. QED
      BY <1>7, <3>1, EntersFacts
  <2>2. /\ i \in 1 .. size /\ leaver = NoSlot /\ leaver' = NoSlot /\ size' = size
    BY <1>7, EntersFacts DEF Enters, Ready
  <2>3. \A j : Joined(j)' = {o \in Live' : j \in Range(chan'[o].users)}
    BY DEF Joined, Range
  <2>4. \A j : Joined(j)' = IF j = i THEN Joined(j) \cup {dir[n]} ELSE Joined(j)
    <3>1. \A j : \A o \in Live : j \in Range(chan'[o].users)
                     <=> (o = dir[n] /\ j = i) \/ j \in Range(chan[o].users)
      BY <1>1, <2>1
    <3>2. QED
      BY <2>1, <2>3, <3>1 DEF Joined
  <2>5. dir[n] \notin Joined(i)
    BY <2>1 DEF Joined
  <2>6. QED
    BY <1>5, <2>1, <2>2, <2>4, <2>5
<1>8. ASSUME NEW n \in ChanNames, Tunes(n)
      PROVE  ListsHold'
  <2>1. /\ size' = size /\ chans' = chans /\ leaver' = leaver /\ todo' = todo /\ Live' = Live
        /\ \A id \in Live : chan'[id].users = chan[id].users
    BY <1>1, <1>8, TunesFacts DEF Tunes
  <2>2. \A j : ListOf(j)' = ListOf(j) /\ Joined(j)' = Joined(j)
    BY <2>1 DEF ListOf, Joined, Range
  <2>3. QED
    BY <2>1, <2>2 DEF ListsHold, Distinct, Range
<1>9. ASSUME NEW n \in ChanNames, NEW t \in 0 .. MaxUsers, LosingStep(n, t)
      PROVE  ListsHold'
  BY <1>9, LosingListsHold
<1>10. QED
  BY <1>3, <1>4, <1>6, <1>7, <1>8, <1>9, ChannelKinds

LEMMA ListsTrueStep ==
  ASSUME Shape, Sessions, MembersKnowChannel, ListsTrue, Kinds
  PROVE  ListsTrue'
<1>1. status = "up" /\ past \subseteq past'
  BY ShapeFacts, PastGrows DEF Table
<1>2. SUFFICES ASSUME Trusted' PROVE ListsHold'
  BY DEF ListsTrue
<1>3. {"stale", "phantom"} \cap past' = {}
  BY <1>2 DEF Trusted
<1>4. Trusted /\ "stale" \notin past
  BY <1>1, <1>3 DEF Trusted
<1>5. ListsHold /\ \A id \in Live : Denotes(id)
  BY <1>4 DEF Trusted, ListsTrue, MembersKnowChannel, Denotes
<1>6. QED
  BY <1>3, <1>5, ListsStep

LEMMA ListsStutter == ASSUME ListsTrue, UNCHANGED vars PROVE ListsTrue'
BY DEF vars, ListsTrue, Trusted, ListsHold, ListOf, Joined, Live

LEMMA InitLists == Init => ListsTrue
<1>1. Init => \A i \in 1 .. size : FALSE
  BY DEF Init
<1>2. QED
  BY <1>1 DEF ListsTrue, ListsHold

LEMMA ListsInductive == Spec => []ListsTrue
<1>1. Shape /\ Sessions /\ MembersKnowChannel /\ ListsTrue /\ [Next]_vars => ListsTrue'
  BY StepKinds, ListsTrueStep, ListsStutter DEF Shape
<1>2. QED
  BY <1>1, InitLists, ShapeInductive, SessionsInductive, KnownInductive, PTL DEF Spec

LEMMA RecordsFollow == ListsTrue => RecordsAgree
<1> SUFFICES ASSUME ListsTrue, Faithful
             PROVE  \A i \in 1 .. size : Distinct(chans[i]) /\ Range(chans[i]) = Joined(i)
  BY DEF RecordsAgree, Distinct, Joined
<1>1. ListsHold
  BY DEF Faithful, ListsTrue, Trusted
<1>2. \A i \in 1 .. size : i # NoSlot
  BY DEF NoSlot
<1>3. \A i \in 1 .. size : ListOf(i) = chans[i]
  BY <1>2 DEF Faithful, ListOf
<1>4. QED
  BY <1>1, <1>3 DEF ListsHold

\* As long as no pointer is stale and no list has a phantom entry, a client
\* lists, once, exactly the channels that count it among their members, though
\* JOIN, PART, KICK and _disconnect write the two records one after the other.
THEOREM RecordsAlwaysAgree == Spec => []RecordsAgree
BY RecordsFollow, ListsInductive, PTL

-----------------------------------------------------------------------------
\* Nicknames and pointers

\* The code compares nicknames and prefixes, the model of who is a member
\* pointers.  For members, all registered, it comes to the same.
LEMMA NickFacts ==
  ASSUME Shape, Sessions, NEW id \in Live, Denotes(id), NEW i \in 1 .. size,
         reg[i] \/ slot[i] \in Names
  PROVE  /\ HoldsNick(Range(chan[id].users), slot[i]) <=> i \in Range(chan[id].users)
         /\ Holds(Range(chan[id].users), slot[i]) <=> i \in Range(chan[id].users)
<1> DEFINE users == Range(chan[id].users)
<1>1. /\ i \in Slots /\ i <= size
      /\ \A j \in Slots : slot[j] \in Names \cup Nameless
      /\ \A p \in users : p \in Slots /\ p <= size /\ reg[p]
  <2>1. /\ users \subseteq 1 .. size /\ 1 .. size \subseteq Slots /\ Table
        /\ \A p \in users : p <= size /\ reg[p]
    BY ShapeFacts, DenotesFacts DEF Denotes
  <2>2. QED
    BY <2>1 DEF Table
<1> HIDE DEF users
<1>2. ASSUME NEW p \in users, Nickname(slot[p]) = Nickname(slot[i]) PROVE p = i
  <2>1. CASE slot[i] \in Names
    <3>1. slot[p] = slot[i]
      BY PrefixAssumption, <1>1, <1>2, <2>1 DEF Nickname
    <3>2. QED
      BY PrefixAssumption, <1>1, <2>1, <3>1 DEF Sessions
  <2>2. CASE slot[i] \in Nameless /\ reg[i]
    <3>1. slot[p] \in Nameless
      BY PrefixAssumption, <1>1, <1>2, <2>2 DEF Nickname
    <3>2. QED
      BY PrefixAssumption, <1>1, <2>2, <3>1 DEF Sessions
  <2>3. QED
    BY <1>1, <2>1, <2>2
<1>3. HoldsNick(users, slot[i]) <=> i \in users
  BY <1>1, <1>2 DEF HoldsNick
<1>4. Holds(users, slot[i]) <=> i \in users
  BY <1>1, <1>2 DEF Holds
<1>5. QED
  BY <1>3, <1>4 DEF users

\* What the server can still call a client by: it is registered, or a channel
\* has a pointer to it.
Reachable(i) == reg[i] \/ \E id \in Live : i \in Pointers(chan[id])

\* One of these clients at most has the empty nickname.
OneNameless ==
    \A i, j \in 1 .. size :
        Reachable(i) /\ Reachable(j) /\ {slot[i], slot[j]} \subseteq Nameless => i = j

\* It comes to the same for operators and speakers, who need not be registered.
LEMMA HoldsFacts ==
  ASSUME Shape, Sessions, NEW id \in Live, Denotes(id), NEW ptrs, ptrs \subseteq Pointers(chan[id]),
         NEW i \in 1 .. size
  PROVE  /\ Holds(ptrs, slot[i]) <=> slot[i] \in Clients(ptrs)
         /\ slot[i] \in Names \/ (OneNameless /\ Reachable(i)) => ~ErasesEnd(ptrs, i)
         /\ ~Dangling(ptrs)
<1>1. /\ Pointers(chan[id]) \subseteq 1 .. size /\ 1 .. size \subseteq Slots
      /\ size \in Nat /\ slot \in [Slots -> Names \cup Nameless]
  BY ShapeFacts, DenotesFacts DEF Table
<1>2. \A p \in ptrs : p \in 1 .. size /\ p \in Slots /\ Reachable(p)
  BY <1>1 DEF Reachable
<1>3. Holds(ptrs, slot[i]) <=> slot[i] \in Clients(ptrs)
  BY <1>2 DEF Holds, Clients
<1>4. ~Dangling(ptrs)
  BY <1>1, <1>2 DEF Dangling
<1>5. ASSUME slot[i] \in Names PROVE ~ErasesEnd(ptrs, i)
  BY <1>1, <1>2, <1>5 DEF Holds, ErasesEnd, Sessions
<1>6. ASSUME slot[i] \in Nameless, OneNameless, Reachable(i) PROVE ~ErasesEnd(ptrs, i)
  BY <1>2, <1>6 DEF Holds, ErasesEnd, OneNameless
<1>7. QED
  BY <1>1, <1>3, <1>4, <1>5, <1>6

\* KICK, MODE and TOPIC obey those who list the channel and have the power, in
\* every run: what the code finds by comparing nicknames and prefixes is there
\* by right as long as no pointer is stale and no list has a phantom entry.
THEOREM PowersAlwaysByRight == Spec => []PowersByRight
<1>1. Shape /\ Sessions /\ MembersKnowChannel /\ RecordsAgree => PowersByRight
  <2> SUFFICES ASSUME Shape, Sessions, MembersKnowChannel, RecordsAgree, Faithful,
                      NEW n \in ChanNames, NEW i \in 1 .. size, dir[n] # NoChan, reg[i]
               PROVE  LET on == dir[n] \in Range(chans[i])
                          op == slot[i] \in Clients(chan[dir[n]].ops)
                          locked == "TOPICSET" \in chan[dir[n]].flags
                      IN  /\ MayCommand(i, dir[n]) <=> on /\ op
                          /\ TopicAllowed(chan[dir[n]], slot[i]) <=> on /\ (locked => op)
    BY DEF PowersByRight
  <2> DEFINE ch == chan[dir[n]]
  <2>1. dir[n] \in Live /\ Denotes(dir[n])
    BY ShapeFacts DEF Faithful, MembersKnowChannel, Denotes
  <2>2. ch.ops \subseteq Pointers(ch)
    BY DEF Pointers
  <2>3. /\ HoldsNick(Range(ch.users), slot[i]) <=> i \in Range(ch.users)
        /\ Holds(ch.ops, slot[i]) <=> slot[i] \in Clients(ch.ops)
    BY <2>1, <2>2, NickFacts, HoldsFacts
  <2>4. i \in Range(ch.users) <=> dir[n] \in Range(chans[i])
    BY <2>1 DEF RecordsAgree
  <2>5. QED
    BY <2>3, <2>4 DEF MayCommand, TopicAllowed
<1>2. QED
  BY <1>1, ShapeInductive, SessionsInductive, KnownInductive, RecordsAlwaysAgree, PTL

-----------------------------------------------------------------------------
\* Who has the empty nickname

\* A step that finds no client with the empty nickname makes nobody nameless
\* as long as somebody is.
LEMMA NamelessStep ==
  ASSUME Shape, Sessions, \A id \in Live : Denotes(id), OneNameless, Kinds,
         {"stale", "noname"} \cap past' = {}
  PROVE  OneNameless'
<1> DEFINE Near(p) == reg'[p] \/ \E id \in Live' : p \in Pointers(chan'[id])
<1>1. /\ Table /\ Live \subseteq ChanIds /\ size \in 0 .. MaxUsers /\ MaxUsers \in Nat
      /\ 1 .. size \subseteq Slots
  BY ShapeFacts DEF Table, Slots
<1>2. \A id \in Live : Pointers(chan[id]) \subseteq 1 .. size
  <2> SUFFICES ASSUME NEW id \in Live PROVE Pointers(chan[id]) \subseteq 1 .. size
    OBVIOUS
  <2>1. id \in ChanIds
    BY <1>1
  <2>2. QED
    BY <2>1, DenotesFacts
<1>3. SUFFICES \A i, j \in 1 .. size' :
                  Near(i) /\ Near(j) /\ {slot'[i], slot'[j]} \subseteq Nameless => i = j
  BY DEF OneNameless, Reachable, Pointers, Range
<1>4. SUFFICES ASSUME NEW i \in 1 .. size', NEW j \in 1 .. size', Near(i), Near(j),
                      slot'[i] \in Nameless, slot'[j] \in Nameless
               PROVE  i = j
  OBVIOUS
<1> DEFINE Was(p) == p \in 1 .. size /\ Reachable(p) /\ slot[p] \in Nameless
<1>5. ASSUME Was(i), Was(j) PROVE i = j
  BY <1>5 DEF OneNameless
<1>6. ASSUME size' = size, \A p \in Slots : slot'[p] \in Nameless => slot[p] \in Nameless,
             \A p \in Slots : Near(p) /\ slot'[p] \in Nameless => Reachable(p)
      PROVE  i = j
  <2>1. i \in Slots /\ j \in Slots /\ i \in 1 .. size /\ j \in 1 .. size
    BY <1>1, <1>6
  <2>2. QED
    BY <1>4, <1>5, <1>6, <2>1
<1>7. CASE Apart
  <2>1. /\ chan' = chan /\ Live' = Live
        /\ \A p : Near(p) <=> reg'[p] \/ \E id \in Live : p \in Pointers(chan[id])
    BY <1>7, ApartFacts
  <2>2. CASE NewConnection
    <3>1. size' = size + 1 /\ size + 1 \in Slots /\ slot' = slot /\ reg' = reg
      BY <1>1, <2>2 DEF NewConnection, Slots
    <3>2. ~Near(size + 1)
      <4>1. ~reg[size + 1]
        BY <1>1, <3>1 DEF Table
      <4>2. \A id \in Live : size + 1 \notin Pointers(chan[id])
        BY <1>1, <1>2
      <4>3. QED
        BY <2>1, <3>1, <4>1, <4>2
    <3>3. i \in 1 .. size /\ j \in 1 .. size
      BY <1>1, <1>4, <3>1, <3>2
    <3>4. Was(i) /\ Was(j)
      BY <1>4, <2>1, <3>1, <3>3 DEF Reachable
    <3>5. QED
      BY <1>5, <3>4
  <2>3. ASSUME NEW x \in Slots, NEW w \in Names \cup Nameless, Nick(x, w) PROVE i = j
    <3>1. /\ \A p \in Slots : slot'[p] = IF p = x THEN w ELSE slot[p]
          /\ reg' = reg /\ size' = size
      BY <1>1, <2>3 DEF Nick, Table
    <3>2. i \in Slots /\ j \in Slots /\ i \in 1 .. size /\ j \in 1 .. size
      BY <1>1, <3>1
    <3>3. CASE w \in Names
      <4>1. i # x /\ j # x
        BY PrefixAssumption, <1>4, <3>1, <3>2, <3>3
      <4>2. Was(i) /\ Was(j)
        BY PrefixAssumption, <1>4, <2>1, <3>1, <3>2, <4>1 DEF Reachable
      <4>3. QED
        BY <1>5, <4>2
    <3>4. CASE w \in Nameless
      <4>1. \A p \in 1 .. size : slot[p] \notin Nameless
        BY PrefixAssumption, <2>3, <3>4 DEF Nick, Nickname
      <4>2. QED
        BY <1>4, <3>1, <3>2, <4>1
    <3>5. QED
      BY <3>3, <3>4
  <2>4. ASSUME NEW x \in Slots, NEW w \in Names \cup Nameless, User(x, w) PROVE i = j
    <3>1. /\ \A p \in Slots : slot'[p] = IF p = x THEN w ELSE slot[p]
          /\ slot[x] \in Nameless /\ reg' = reg /\ size' = size
      BY <1>1, <2>4 DEF User, Table
    <3>2. \A p \in Slots : Near(p) => Reachable(p)
      BY PrefixAssumption, <2>1, <3>1 DEF Reachable
    <3>3. QED
      BY <1>6, <3>1, <3>2
  <2>5. ASSUME NEW x \in Slots, Register(x) PROVE i = j
    <3>1. /\ \A p \in Slots : reg'[p] => reg[p] \/ p = x
          /\ slot[x] \in Names /\ slot' = slot /\ size' = size
      BY <1>1, <2>5 DEF Register, Table
    <3>2. \A p \in Slots : Near(p) /\ slot'[p] \in Nameless => Reachable(p)
      BY PrefixAssumption, <2>1, <3>1 DEF Reachable
    <3>3. QED
      BY <1>6, <3>1, <3>2
  <2>6. CASE LeaveDeadChannel \/ Halts \/ \E x \in Slots : StartLeave(x)
    <3>1. slot' = slot /\ reg' = reg /\ size' = size
      BY <2>6 DEF LeaveDeadChannel, Halts, StartLeave
    <3>2. \A p \in Slots : Near(p) => Reachable(p)
      BY PrefixAssumption, <2>1, <3>1 DEF Reachable
    <3>3. QED
      BY <1>6, <3>1, <3>2
  <2>7. CASE EraseUser
    <3> DEFINE from(p) == IF p < leaver THEN p ELSE p + 1
    <3>1. /\ leaver \in 1 .. size /\ size \in 1 .. MaxUsers /\ size' = size - 1
          /\ \A p \in Slots : /\ slot'[p] = IF p < leaver THEN slot[p]
                                            ELSE IF p < size THEN slot[p + 1] ELSE NoName
                              /\ reg'[p] = IF p < leaver THEN reg[p]
                                           ELSE IF p < size THEN reg[p + 1] ELSE FALSE
          /\ "stale" \notin past' =>
                \A id \in Live : \A p \in Pointers(chan[id]) : p \in Addresses /\ p < leaver
      BY <2>7, EraseFacts
    <3>2. \A id \in Live : \A p \in Pointers(chan[id]) : p < leaver
      BY <3>1
    <3>3. ASSUME NEW p \in 1 .. size', Near(p), slot'[p] \in Nameless PROVE Was(from(p))
      <4>1. p \in Slots /\ p \in 1 .. size /\ p < size /\ from(p) \in 1 .. size
        BY <1>1, <3>1
      <4>2. slot'[p] = slot[from(p)] /\ reg'[p] = reg[from(p)]
        BY <3>1, <4>1
      <4>3. (\E id \in Live : p \in Pointers(chan[id])) => from(p) = p
        BY <3>2
      <4>4. Reachable(from(p))
        BY <2>1, <3>3, <4>2, <4>3 DEF Reachable
      <4>5. QED
        BY <3>3, <4>1, <4>2, <4>4
    <3>4. Was(from(i)) /\ Was(from(j))
      BY <1>4, <3>3
    <3>5. from(i) = from(j)
      BY <3>4 DEF OneNameless
    <3>6. QED
      BY <1>1, <3>1, <3>5
  <2>8. QED
    BY <1>7, <2>2, <2>3, <2>4, <2>5, <2>6, <2>7 DEF Apart
<1>8. CASE Grow
  <2>1. /\ Live' = Live /\ size' = size + 1 /\ slot' = slot /\ reg' = reg /\ size + 1 \in Slots
        /\ \A id \in Live : Pointers(chan'[id]) = {}
    <3>1. "stale" \notin past'
      OBVIOUS
    <3>2. size' = size + 1 /\ slot' = slot /\ reg' = reg /\ size < MaxUsers
      BY <1>8 DEF Grow
    <3>3. size + 1 \in Slots
      BY <1>1, <3>2 DEF Slots
    <3>4. QED
      BY <1>8, <3>1, <3>2, <3>3, GrowFacts
  <2>2. \A p : Near(p) => reg[p]
    BY <2>1
  <2>3. ~reg[size + 1]
    BY <1>1, <2>1 DEF Table
  <2>4. i \in 1 .. size /\ j \in 1 .. size
    BY <1>1, <1>4, <2>1, <2>2, <2>3
  <2>5. Was(i) /\ Was(j)
    BY <1>4, <2>1, <2>2, <2>4 DEF Reachable
  <2>6. QED
    BY <1>5, <2>5
<1>9. ASSUME NEW x \in Slots, NEW n \in ChanNames, NEW k \in Keys,
             Creates(x, n, k) \/ Enters(x, n, k)
      PROVE  i = j
  <2>1. size' = size /\ slot' = slot /\ reg' = reg /\ reg[x]
    BY <1>9 DEF Creates, Enters, Ready
  <2>2. ASSUME NEW id \in Live', NEW p \in Pointers(chan'[id])
        PROVE  p = x \/ (id \in Live /\ p \in Pointers(chan[id]))
    <3>1. CASE Creates(x, n, k)
      <4>1. PICK o \in ChanIds \ Live : Created(x, n, o)
        BY <3>1, CreatesFacts
      <4>2. /\ Live' = Live \cup {o} /\ Pointers(chan'[o]) = {x}
            /\ \A q \in ChanIds : q # o => chan'[q] = chan[q]
        BY <4>1 DEF Created
      <4>3. QED
        BY <1>1, <2>2, <4>2
    <3>2. CASE Enters(x, n, k)
      <4>1. /\ Live' = Live
            /\ \A o \in ChanIds : o # dir[n] => chan'[o] = chan[o]
            /\ \/ chan' = chan
               \/ Pointers(chan'[dir[n]]) = Pointers(chan[dir[n]]) \cup {x}
        BY <3>2, EntersFacts
      <4>2. QED
        BY <1>1, <2>2, <4>1
    <3>3. QED
      BY <1>9, <3>1, <3>2
  <2>3. \A p \in Slots : Near(p) => Reachable(p)
    BY <2>1, <2>2 DEF Reachable
  <2>4. QED
    BY <1>6, <2>1, <2>3
<1>10. ASSUME NEW n \in ChanNames, Tunes(n) PROVE i = j
  <2>1. size' = size /\ slot' = slot /\ reg' = reg /\ "noname" \notin past'
    BY <1>10 DEF Tunes
  <2>2. /\ Live' = Live
        /\ \A id \in ChanIds : \A p \in Pointers(chan'[id]) :
              p \in Pointers(chan[id]) \/ slot[p] \in Names
    BY <1>10, <2>1, TunesFacts
  <2>3. \A p \in Slots : Near(p) /\ slot'[p] \in Nameless => Reachable(p)
    BY PrefixAssumption, <1>1, <2>1, <2>2 DEF Reachable
  <2>4. QED
    BY <1>6, <2>1, <2>3
<1>11. ASSUME NEW n \in ChanNames, NEW t \in 0 .. MaxUsers, LosingStep(n, t) PROVE i = j
  <2>1. size' = size /\ slot' = slot /\ reg' = reg
    BY <1>11, LosingLists
  <2>2. /\ Live' \subseteq Live
        /\ \A id \in ChanIds : Pointers(chan'[id]) \subseteq Pointers(chan[id])
    <3>1. Lost(n, t)
      BY <1>11, LosesFacts DEF LosingStep
    <3>2. QED
      BY <3>1 DEF Lost
  <2>3. \A p \in Slots : Near(p) => Reachable(p)
    BY PrefixAssumption, <1>1, <2>1, <2>2 DEF Reachable
  <2>4. QED
    BY <1>6, <2>1, <2>3
<1>12. QED
  BY <1>7, <1>8, <1>9, <1>10, <1>11, ChannelKinds

Distinguished == status # "undefined" /\ {"stale", "noname"} \cap past = {} => OneNameless

LEMMA DistinguishedStep ==
  ASSUME Shape, Sessions, MembersKnowChannel, Distinguished, Kinds
  PROVE  Distinguished'
<1>1. status = "up" /\ past \subseteq past'
  BY ShapeFacts, PastGrows DEF Table
<1>2. ASSUME {"stale", "noname"} \cap past' = {} PROVE OneNameless'
  <2>1. OneNameless /\ \A id \in Live : Denotes(id)
    BY <1>1, <1>2 DEF Distinguished, MembersKnowChannel, Denotes
  <2>2. QED
    BY <1>1, <1>2, <2>1, NamelessStep
<1>3. QED
  BY <1>2 DEF Distinguished

LEMMA DistinguishedStutter == ASSUME Distinguished, UNCHANGED vars PROVE Distinguished'
BY DEF vars, Distinguished, OneNameless, Reachable, Pointers, Range, Live

LEMMA InitDistinguished == Init => Distinguished
<1>1. Init => \A i \in 1 .. size : FALSE
  BY DEF Init
<1>2. QED
  BY <1>1 DEF Distinguished, OneNameless

LEMMA DistinguishedInductive == Spec => []Distinguished
<1>1. Shape /\ Sessions /\ MembersKnowChannel /\ Distinguished /\ [Next]_vars => Distinguished'
  BY StepKinds, DistinguishedStep, DistinguishedStutter DEF Shape
<1>2. QED
  BY <1>1, InitDistinguished, ShapeInductive, SessionsInductive, KnownInductive, PTL DEF Spec

-----------------------------------------------------------------------------
\* What is never undefined

\* When pointers denote clients and lists are true nothing is misread.
LEMMA NothingMisread ==
  ASSUME Shape, Sessions, \A id \in Live : Denotes(id), OneNameless, ListsHold
  PROVE  /\ \A id \in Live : \A i \in 1 .. size : /\ ~DisconnectMisreads(chan[id], i)
                                                 /\ ~DisconnectFails(chan[id], i)
         /\ \A id \in Live : /\ ~Dangling(Range(chan[id].users))
                             /\ ~Dangling(chan[id].ops)
                             /\ ~Dangling(chan[id].voices)
                             /\ ~Dangling(chan[id].ops \cup chan[id].voices)
                             /\ ~Dangling(Range(chan[id].users) \cup chan[id].ops)
                             /\ ~Dangling(Range(chan[id].users) \cup chan[id].voices)
                             /\ ~Dangling(Pointers(chan[id]))
         /\ \A id \in Live : \A i \in 1 .. size :
               slot[i] \in Names \/ Reachable(i) => /\ ~ErasesEnd(chan[id].ops, i)
                                                    /\ ~ErasesEnd(chan[id].voices, i)
         /\ leaver = NoSlot => \A i \in 1 .. size : /\ \A id : ~DeadEntry(chans[i], id)
                                                   /\ ~NotifyMisreads(i)
         /\ todo # <<>> => leaver \in 1 .. size /\ Head(todo) \in Live
<1>1. ASSUME NEW id \in Live, NEW ptrs, ptrs \subseteq Pointers(chan[id])
      PROVE  /\ ~Dangling(ptrs)
             /\ \A i \in 1 .. size : slot[i] \in Names \/ Reachable(i) => ~ErasesEnd(ptrs, i)
  <2>1. id \in ChanIds /\ size \in Nat
    BY ShapeFacts DEF Table
  <2>2. ~Dangling(ptrs)
    BY <1>1, <2>1, DenotesFacts DEF Dangling
  <2>3. QED
    BY <1>1, <2>2, HoldsFacts
<1>2. ASSUME NEW id \in Live
      PROVE  /\ ~Dangling(Range(chan[id].users))
             /\ ~Dangling(chan[id].ops)
             /\ ~Dangling(chan[id].voices)
             /\ ~Dangling(chan[id].ops \cup chan[id].voices)
             /\ ~Dangling(Range(chan[id].users) \cup chan[id].ops)
             /\ ~Dangling(Range(chan[id].users) \cup chan[id].voices)
             /\ ~Dangling(Pointers(chan[id]))
             /\ \A i \in 1 .. size :
                   slot[i] \in Names \/ Reachable(i) => /\ ~ErasesEnd(chan[id].ops, i)
                                                        /\ ~ErasesEnd(chan[id].voices, i)
  <2> DEFINE U == Range(chan[id].users)
             O == chan[id].ops
             V == chan[id].voices
             P == Pointers(chan[id])
  <2>1. /\ U \subseteq P /\ O \subseteq P /\ V \subseteq P
        /\ O \cup V \subseteq P /\ U \cup O \subseteq P /\ U \cup V \subseteq P
    BY DEF Pointers
  <2> HIDE DEF U, O, V
  <2>2. ~Dangling(U) /\ ~Dangling(O) /\ ~Dangling(V) /\ ~Dangling(P)
    BY <1>1, <2>1
  <2>3. ~Dangling(O \cup V) /\ ~Dangling(U \cup O) /\ ~Dangling(U \cup V)
    BY <1>1, <2>1
  <2>4. \A i \in 1 .. size :
           slot[i] \in Names \/ Reachable(i) => ~ErasesEnd(O, i) /\ ~ErasesEnd(V, i)
    BY <1>1, <2>1
  <2>5. QED
    BY <2>2, <2>3, <2>4 DEF U, O, V
<1>3. ASSUME NEW id \in Live, NEW i \in 1 .. size
      PROVE  ~DisconnectMisreads(chan[id], i) /\ ~DisconnectFails(chan[id], i)
  <2>1. i \in Range(chan[id].users) => Reachable(i)
    BY DEF Pointers, Reachable
  <2>2. QED
    BY <1>2, <2>1 DEF DisconnectMisreads, DisconnectFails
<1>4. ASSUME leaver = NoSlot, NEW i \in 1 .. size
      PROVE  (\A id : ~DeadEntry(chans[i], id)) /\ ~NotifyMisreads(i)
  <2>1. Range(chans[i]) \subseteq Live
    BY <1>4 DEF ListsHold, ListOf, Joined, NoSlot
  <2>2. \A k \in 1 .. Len(chans[i]) : chans[i][k] \in Live
    BY <2>1 DEF Range
  <2>3. QED
    BY <1>2, <2>2 DEF DeadEntry, NotifyMisreads
<1>5. ASSUME todo # <<>>
      PROVE  leaver \in 1 .. size /\ Head(todo) \in Live
  <2>1. leaver \in 1 .. size /\ todo \in Seq(ChanIds)
    BY <1>5, ShapeFacts DEF Table, Sessions, NoSlot
  <2>2. Range(todo) \subseteq Live
    BY <2>1 DEF ListsHold, ListOf, Joined
  <2>3. QED
    BY <1>5, <2>1, <2>2, RangeTail
<1>6. QED
  BY <1>2, <1>3, <1>4, <1>5

LEMMA NothingUndefined ==
  ASSUME Shape, Sessions, \A id \in Live : Denotes(id), OneNameless, ListsHold,
         "invite" \notin past, Next, status' = "undefined"
  PROVE  past' \cap {"unban", "args", "noname"} # {}
<1>1. /\ \A n \in ChanNames : dir[n] # NoChan => dir[n] \in Live /\ dir[n] \in ChanIds
      /\ size \in Nat
  BY ShapeFacts DEF Table
<1>2. \A i \in Slots : i <= size => i \in 1 .. size
  BY <1>1 DEF Slots
<1>3. ~NewConnection /\ ~Grow /\ ~LeaveDeadChannel /\ ~EraseUser
  BY DEF NewConnection, Grow, LeaveDeadChannel, EraseUser
<1>4. ASSUME NEW i \in Slots
      PROVE  /\ \A w \in Names \cup Nameless : ~Nick(i, w) /\ ~User(i, w)
             /\ ~Register(i) /\ ~StartLeave(i)
  BY DEF Nick, User, Register, StartLeave
<1>5. ASSUME NEW i \in Slots PROVE ~NickMisreads(i) /\ ~StartLeaveMisreads(i)
  BY <1>2, NothingMisread DEF NickMisreads, StartLeaveMisreads, Ready
<1>6. ASSUME NEW n \in ChanNames PROVE ~LeaveChannel(n)
  BY DEF LeaveChannel
<1>7. ~LeaveMisreads
  BY NothingMisread DEF LeaveMisreads
<1>8. ASSUME NEW i \in Slots, NEW n \in ChanNames, NEW k \in Keys PROVE ~Join(i, n, k)
  <2>1. ASSUME dir[n] # NoChan PROVE ~ConnectMisreads(chan[dir[n]], slot[i], k)
    <3>1. ~chan[dir[n]].invited
      BY <1>1, <2>1 DEF Sessions
    <3>2. QED
      BY <1>1, <2>1, <3>1, NothingMisread DEF ConnectMisreads
  <2>2. QED
    BY <2>1 DEF Join, Ready
<1>9. ASSUME NEW i \in Slots, NEW n \in ChanNames
       PROVE  ~PartUnknown(i, n) /\ ~PartOther(i, n) /\ ~Part(i, n) /\ ~PartMisreads(i, n)
  <2>1. ~PartUnknown(i, n) /\ ~PartOther(i, n) /\ ~Part(i, n)
    BY DEF PartUnknown, PartOther, Part, Ready
  <2>2. ~PartMisreads(i, n)
    BY <1>1, <1>2, NothingMisread DEF PartMisreads, Ready
  <2>3. QED
    BY <2>1, <2>2
<1>10. ASSUME NEW i \in Slots, NEW n \in ChanNames, NEW t \in Slots
       PROVE  ~Kick(i, n, t) /\ (KickMisreads(i, n, t) => "noname" \in past')
  <2>1. ~Kick(i, n, t)
    BY DEF Kick, Ready
  <2>2. ASSUME KickMisreads(i, n, t), "noname" \notin past' PROVE FALSE
    <3>1. /\ Ready(i) /\ dir[n] # NoChan /\ dir[n] \in Live
          /\ Found(t) /\ HoldsNick(Range(chan[dir[n]].users), slot[t])
          /\ \/ dir[n] \notin Range(chans[t])
             \/ DeadEntry(chans[t], dir[n])
             \/ DisconnectMisreads(chan[dir[n]], t)
             \/ DisconnectFails(chan[dir[n]], t)
      BY <1>1, <2>2, NothingMisread DEF KickMisreads
    <3>2. Naming(t) \subseteq past'
      BY <2>2 DEF KickMisreads, UndefinedBy
    <3>3. t \in 1 .. size /\ slot[t] \in Names
      BY <2>2, <3>1, <3>2, FoundFacts DEF Shape
    <3>4. t \in Range(chan[dir[n]].users)
      BY <3>1, <3>3, NickFacts
    <3>5. dir[n] \notin Range(chans[t])
      BY <3>1, <3>3, NothingMisread DEF Ready
    <3>6. QED
      BY <3>1, <3>4, <3>5 DEF Denotes
  <2>3. QED
    BY <2>1, <2>2
<1>11. ASSUME NEW i \in Slots, NEW n \in ChanNames
       PROVE  /\ \A t \in Slots : ~Invite(i, n, t)
              /\ ~InviteMisreads(i, n)
              /\ \A t \in Topics \cup {NoTopic} : ~Topic(i, n, t)
              /\ ~TopicMisreads(i, n)
  <2>1. /\ \A t \in Slots : ~Invite(i, n, t)
        /\ \A t \in Topics \cup {NoTopic} : ~Topic(i, n, t)
    BY DEF Invite, Topic, Ready
  <2>2. ~InviteMisreads(i, n)
    BY <1>1, <1>2, NothingMisread DEF InviteMisreads, Ready
  <2>3. ~TopicMisreads(i, n)
    BY <1>1, NothingMisread DEF TopicMisreads
  <2>4. QED
    BY <2>1, <2>2, <2>3
<1>12. ASSUME NEW i \in Slots, NEW n \in ChanNames, Mode(i, n)
       PROVE  past' \cap {"unban", "args", "noname"} # {}
  <2>1. ASSUME NEW ch, NEW events, ChangeFor(n, ch, events), MayMode(i, n) PROVE FALSE
    BY <2>1 DEF ChangeFor, MayMode, Ready
  <2>11. ASSUME NEW ch, Change(n, ch), MayMode(i, n) PROVE FALSE
    BY <2>1, <2>11 DEF Change
  <2>2. ~ModeMisreads(i, n)
    BY <1>1, NothingMisread DEF ModeMisreads
  <2>12. ASSUME NEW t \in Slots, ModeFails(i, n, t) PROVE "noname" \in past'
    <3>1. /\ Found(t) /\ dir[n] \in Live /\ Naming(t) \subseteq past'
          /\ ErasesEnd(chan[dir[n]].ops, t) \/ ErasesEnd(chan[dir[n]].voices, t)
      BY <1>1, <2>12 DEF ModeFails, MayMode, UndefinedBy
    <3>2. t \in 1 .. size /\ (slot[t] \in Names \/ Naming(t) = {"noname"})
      BY <3>1, FoundFacts DEF Shape
    <3>3. slot[t] \notin Names
      BY <3>1, <3>2, NothingMisread
    <3>4. QED
      BY <3>1, <3>2, <3>3
  <2>3. ASSUME NEW t \in Slots PROVE ~ModeAddOp(i, n, t) /\ ~ModeRemoveOp(i, n, t)
    BY <2>1 DEF ModeAddOp, ModeRemoveOp
  <2>4. ASSUME NEW t \in Slots, NEW on \in BOOLEAN PROVE ~ModeVoice(i, n, t, on)
    BY <2>1 DEF ModeVoice
  <2>5. ASSUME NEW flag \in Flags, NEW on \in BOOLEAN PROVE ~ModeFlag(i, n, flag, on)
    BY <2>11 DEF ModeFlag
  <2>6. ASSUME NEW arg \in LimitArgs \cup {0} PROVE ~ModeLimit(i, n, arg)
    BY <2>11 DEF ModeLimit
  <2>7. ASSUME NEW k \in Keys PROVE ~ModeKey(i, n, k)
    BY <2>11 DEF ModeKey
  <2>8. ASSUME NEW m \in Masks PROVE ~ModeBan(i, n, m) /\ (ModeUnban(i, n, m) => "unban" \in past')
    BY <2>11 DEF ModeBan, ModeUnban, UndefinedBy
  <2>9. ModeNoParameter(i, n) => "args" \in past'
    BY DEF ModeNoParameter, UndefinedBy
  <2>10. QED
    BY <1>12, <2>2, <2>3, <2>4, <2>5, <2>6, <2>7, <2>8, <2>9, <2>12 DEF Mode
<1>13. QED
  BY <1>3, <1>4, <1>5, <1>6, <1>7, <1>8, <1>9, <1>10, <1>11, <1>12
     DEF Next, Proceed, Command, Leave

LEMMA UndefinedStep ==
  ASSUME Shape, Sessions, MembersKnowChannel, Distinguished, ListsTrue, Next,
         status' = "undefined"
  PROVE  past' \cap (Events \ {"kick"}) # {}
<1>1. /\ status = "up" /\ past \subseteq past' /\ past' \subseteq Events
      /\ {"stale", "phantom", "invite", "unban", "args", "noname"} \subseteq Events
  BY StepKinds, ShapeFacts, PastGrows DEF Shape, Table, Events
<1>2. SUFFICES ASSUME past \cap {"stale", "phantom", "invite", "noname"} = {}
               PROVE  past' \cap {"unban", "args", "noname"} # {}
  BY <1>1
<1>3. Trusted /\ "stale" \notin past /\ "noname" \notin past /\ "invite" \notin past
  BY <1>1, <1>2 DEF Trusted
<1>4. ListsHold /\ OneNameless /\ \A id \in Live : Denotes(id)
  BY <1>3 DEF Trusted, ListsTrue, MembersKnowChannel, Denotes, Distinguished
<1>5. QED
  BY <1>3, <1>4, NothingUndefined

\* The destroyed User or Channel is not reached, and end() not erased, by any
\* sequence of commands, disconnections and new clients in which no client is
\* moved under a pointer, no JOIN is refused or repeated, nobody is invited, no
\* mask is removed that is not there, MODE has its parameters, and KICK and MODE
\* find nobody by the empty nickname.  Clients may well be nameless meanwhile.
THEOREM UndefinedHasCause == Spec => []UndefinedOnlyAfter
<1>1. Init => UndefinedOnlyAfter
  BY DEF Init, UndefinedOnlyAfter
<1>2. Shape /\ Sessions /\ MembersKnowChannel /\ Distinguished /\ ListsTrue
          /\ UndefinedOnlyAfter /\ [Next]_vars
          => UndefinedOnlyAfter'
  <2>1. ASSUME UndefinedOnlyAfter, UNCHANGED vars PROVE UndefinedOnlyAfter'
    BY <2>1 DEF vars, UndefinedOnlyAfter
  <2>2. QED
    BY <2>1, UndefinedStep DEF UndefinedOnlyAfter
<1>3. QED
  BY <1>1, <1>2, ShapeInductive, SessionsInductive, KnownInductive, DistinguishedInductive,
     ListsInductive, PTL DEF Spec

-----------------------------------------------------------------------------
\* Who becomes a member and who stops being one

\* The pointers of the members of a channel and of its operators, by its name.
Mem(n) == IF dir[n] = NoChan THEN {} ELSE Range(chan[dir[n]].users)
Ops(n) == IF dir[n] = NoChan THEN {} ELSE chan[dir[n]].ops

\* The clients behind pointers that all denote one.
Named(ptrs) == {slot[p] : p \in ptrs}

Denoting == \A id \in Live : Denotes(id)

ByPointers ==
    \A n \in ChanNames : /\ Mem(n) \cup Ops(n) \subseteq 1 .. size
                         /\ Members(n) = Named(Mem(n))
                         /\ Operators(n) = Named(Ops(n))

LEMMA MembersByPointers == Shape /\ Denoting => ByPointers
<1> SUFFICES ASSUME Shape, Denoting, NEW n \in ChanNames
             PROVE  /\ Mem(n) \cup Ops(n) \subseteq 1 .. size
                    /\ Members(n) = Named(Mem(n))
                    /\ Operators(n) = Named(Ops(n))
  BY DEF ByPointers
<1>1. CASE dir[n] = NoChan
  BY <1>1 DEF Mem, Ops, Members, Operators, Named
<1>2. CASE dir[n] # NoChan
  <2>1. dir[n] \in Live /\ dir[n] \in ChanIds /\ Denotes(dir[n])
    BY <1>2, ShapeFacts DEF Denoting
  <2>2. Pointers(chan[dir[n]]) \subseteq 1 .. size
    BY <2>1, DenotesFacts
  <2>3. Mem(n) \cup Ops(n) \subseteq Pointers(chan[dir[n]])
    BY <1>2 DEF Mem, Ops, Pointers
  <2>4. \A p \in Mem(n) \cup Ops(n) : p <= size
    BY <2>1, <2>3 DEF Denotes
  <2>5. Members(n) = Clients(Mem(n)) /\ Operators(n) = Clients(Ops(n))
    BY <1>2 DEF Members, Operators, Mem, Ops
  <2>6. QED
    BY <2>2, <2>3, <2>4, <2>5 DEF Clients, Named
<1>3. QED
  BY <1>1, <1>2

LEMMA MemberRegistered ==
  ASSUME Shape, Denoting, NEW n \in ChanNames, NEW p \in Mem(n)
  PROVE  reg[p]
<1>1. dir[n] # NoChan /\ p \in Range(chan[dir[n]].users)
  BY DEF Mem
<1>2. QED
  BY <1>1, ShapeFacts DEF Denoting, Denotes

\* What a step may rely on until a pointer is stale, and what it leaves.
LEMMA DenotingStep ==
  ASSUME Shape, Sessions, MembersKnowChannel, Next, "stale" \notin past'
  PROVE  /\ Kinds /\ Denoting /\ ByPointers /\ ByPointers'
         /\ size \in 0 .. MaxUsers /\ MaxUsers \in Nat /\ 1 .. size \subseteq Slots
<1>1. /\ Kinds /\ status = "up" /\ past \subseteq past'
      /\ size \in 0 .. MaxUsers /\ MaxUsers \in Nat /\ 1 .. size \subseteq Slots
  BY StepKinds, ShapeFacts, PastGrows DEF Shape, Table, Slots
<1>2. Denoting
  BY <1>1 DEF MembersKnowChannel, Denotes, Denoting
<1>3. Denoting'
  BY <1>1, <1>2, DenotesStep DEF Denoting
<1>4. Shape'
  BY <1>1, ShapeStep
<1>5. ByPointers
  BY <1>2, MembersByPointers
<1>6. ByPointers'
  BY <1>3, <1>4, MembersByPointers, PTL
<1>7. QED
  BY <1>1, <1>2, <1>5, <1>6

LEMMA SameMem ==
  ASSUME Shape, "stale" \notin past', Apart \/ Grow, NEW n \in ChanNames
  PROVE  Mem(n)' = Mem(n) /\ Ops(n)' = Ops(n)
<1>1. CASE Apart
  BY <1>1, ApartFacts DEF Mem, Ops, Range
<1>2. CASE Grow
  <2>1. dir' = dir /\ (dir[n] # NoChan => dir[n] \in Live)
    BY <1>2, GrowFacts, ShapeFacts
  <2>2. dir[n] # NoChan => Pointers(chan[dir[n]]) = {} /\ Pointers(chan'[dir[n]]) = {}
    BY <1>2, <2>1, GrowFacts
  <2>3. Mem(n)' = IF dir[n] = NoChan THEN {} ELSE Range(chan'[dir[n]].users)
    BY <2>1 DEF Mem, Range
  <2>4. Ops(n)' = IF dir[n] = NoChan THEN {} ELSE chan'[dir[n]].ops
    BY <2>1 DEF Ops
  <2>5. CASE dir[n] # NoChan
    <3>1. /\ Range(chan[dir[n]].users) = {} /\ chan[dir[n]].ops = {}
          /\ Range(chan'[dir[n]].users) = {} /\ chan'[dir[n]].ops = {}
      BY <2>2, <2>5 DEF Pointers
    <3>2. QED
      BY <2>3, <2>4, <2>5, <3>1 DEF Mem, Ops
  <2>6. QED
    BY <2>3, <2>4, <2>5 DEF Mem, Ops
<1>3. QED
  BY <1>1, <1>2

LEMMA CreatesMem ==
  ASSUME Shape, NEW i \in Slots, NEW n \in ChanNames, NEW k \in Keys, Creates(i, n, k),
         NEW m \in ChanNames
  PROVE  /\ Mem(m)' = IF m = n THEN {i} ELSE Mem(m)
         /\ Ops(m)' = IF m = n THEN {i} ELSE Ops(m)
         /\ Mem(n) = {} /\ Ops(n) = {}
<1>0. PICK id \in ChanIds \ Live : Created(i, n, id)
  BY CreatesFacts
<1>1. /\ dir' = [dir EXCEPT ![n] = id]
      /\ \A o \in ChanIds : o # id => chan'[o] = chan[o]
      /\ chan'[id].ops = {i} /\ Range(chan'[id].users) = {i}
  BY <1>0 DEF Created
<1>2. /\ dir \in [ChanNames -> ChanIds \cup {NoChan}]
      /\ dir[m] # NoChan => dir[m] \in Live /\ dir[m] \in ChanIds
      /\ dir[n] = NoChan
  BY ShapeFacts, CreatesFacts DEF Directory
<1>3. Mem(m)' = IF dir'[m] = NoChan THEN {} ELSE Range(chan'[dir'[m]].users)
  BY DEF Mem, Range
<1>4. Ops(m)' = IF dir'[m] = NoChan THEN {} ELSE chan'[dir'[m]].ops
  BY DEF Ops
<1>5. CASE m = n
  <2>1. dir'[m] = id /\ id # NoChan
    BY <1>1, <1>2, <1>5, NameAssumption
  <2>2. QED
    BY <1>1, <1>2, <1>3, <1>4, <1>5, <2>1 DEF Mem, Ops
<1>6. CASE m # n
  <2>1. dir'[m] = dir[m] /\ dir[m] # id
    BY <1>1, <1>2, <1>6, NameAssumption
  <2>2. dir[m] # NoChan => chan'[dir[m]] = chan[dir[m]]
    BY <1>1, <1>2, <2>1
  <2>3. QED
    BY <1>2, <1>3, <1>4, <1>6, <2>1, <2>2 DEF Mem, Ops
<1>7. QED
  BY <1>5, <1>6

LEMMA EntersMem ==
  ASSUME Shape, NEW i \in Slots, NEW m \in ChanNames, NEW k \in Keys, Enters(i, m, k),
         NEW n \in ChanNames
  PROVE  /\ \/ Mem(n)' = Mem(n)
            \/ /\ n = m /\ Mem(n)' = Mem(n) \cup {i} /\ i \notin Mem(n)
               /\ ~Refused(chan[dir[n]], slot[i], k)
         /\ n # m => Mem(n)' = Mem(n)
         /\ Ops(n)' = Ops(n)
<1>1. /\ dir' = dir /\ dir[m] \in ChanIds
      /\ \A o \in ChanIds : o # dir[m] => chan'[o] = chan[o]
      /\ \/ chan' = chan
         \/ /\ ~Refused(chan[dir[m]], slot[i], k)
            /\ i \notin Range(chan[dir[m]].users)
            /\ Range(chan'[dir[m]].users) = Range(chan[dir[m]].users) \cup {i}
            /\ chan'[dir[m]].ops = chan[dir[m]].ops
  BY EntersFacts
<1>2. /\ dir[n] # NoChan => dir[n] \in ChanIds
      /\ dir[n] = dir[m] /\ dir[m] # NoChan => n = m
      /\ dir[m] # NoChan
  BY ShapeFacts DEF Directory, Enters
<1>3. Mem(n)' = IF dir[n] = NoChan THEN {} ELSE Range(chan'[dir[n]].users)
  BY <1>1 DEF Mem, Range
<1>4. Ops(n)' = IF dir[n] = NoChan THEN {} ELSE chan'[dir[n]].ops
  BY <1>1 DEF Ops
<1>5. CASE n = m
  BY <1>1, <1>2, <1>3, <1>4, <1>5 DEF Mem, Ops
<1>6. CASE n # m
  <2>1. dir[n] # NoChan => chan'[dir[n]] = chan[dir[n]]
    BY <1>1, <1>2, <1>6
  <2>2. QED
    BY <1>3, <1>4, <1>6, <2>1 DEF Mem, Ops
<1>7. QED
  BY <1>5, <1>6

LEMMA TunesMem ==
  ASSUME Shape, NEW m \in ChanNames, Tunes(m), NEW n \in ChanNames
  PROVE  Mem(n)' = Mem(n) /\ (n # m => Ops(n)' = Ops(n))
<1>1. /\ dir' = dir
      /\ \A id \in ChanIds : /\ id # dir[m] => chan'[id] = chan[id]
                             /\ chan'[id].users = chan[id].users
  BY TunesFacts DEF Tunes
<1>2. /\ dir[n] # NoChan => dir[n] \in ChanIds
      /\ dir[n] # NoChan /\ dir[n] = dir[m] => n = m
  BY ShapeFacts DEF Directory
<1>3. Mem(n)' = IF dir[n] = NoChan THEN {} ELSE Range(chan'[dir[n]].users)
  BY <1>1 DEF Mem, Range
<1>4. Ops(n)' = IF dir[n] = NoChan THEN {} ELSE chan'[dir[n]].ops
  BY <1>1 DEF Ops
<1>5. QED
  BY <1>1, <1>2, <1>3, <1>4 DEF Mem, Ops

LEMMA LosesMem ==
  ASSUME Shape, NEW m \in ChanNames, NEW t, Loses(m, t), NEW n \in ChanNames
  PROVE  /\ Mem(n)' = IF n = m THEN Mem(n) \ {t} ELSE Mem(n)
         /\ n # m => Ops(n)' = Ops(n)
<1>1. /\ dir[m] # NoChan
      /\ \A id \in ChanIds : /\ Range(chan'[id].users) =
                                   IF id = dir[m] THEN Range(chan[id].users) \ {t}
                                   ELSE Range(chan[id].users)
                             /\ id # dir[m] => chan'[id] = chan[id]
      /\ dir[m] \notin Live' => Range(chan[dir[m]].users) \subseteq {t}
      /\ \A o \in ChanNames : dir'[o] = IF o = m /\ dir[m] \notin Live' THEN NoChan ELSE dir[o]
  <2>1. dir[m] # NoChan
    BY DEF Loses
  <2>2. QED
    <3>1. Lost(m, t)
      BY <2>1, LosesFacts
    <3>2. QED
      BY <2>1, <3>1 DEF Lost
<1>2. /\ dir[n] # NoChan => dir[n] \in ChanIds
      /\ dir[n] # NoChan /\ dir[n] = dir[m] => n = m
  BY ShapeFacts DEF Directory
<1>3. Mem(n)' = IF dir'[n] = NoChan THEN {} ELSE Range(chan'[dir'[n]].users)
  BY DEF Mem, Range
<1>4. Ops(n)' = IF dir'[n] = NoChan THEN {} ELSE chan'[dir'[n]].ops
  BY DEF Ops
<1>5. CASE n = m
  <2>1. CASE dir[m] \in Live'
    BY <1>1, <1>2, <1>3, <1>5, <2>1 DEF Mem
  <2>2. CASE dir[m] \notin Live'
    BY <1>1, <1>2, <1>3, <1>5, <2>2 DEF Mem
  <2>3. QED
    BY <2>1, <2>2
<1>6. CASE n # m
  <2>1. dir'[n] = dir[n] /\ (dir[n] # NoChan => chan'[dir[n]] = chan[dir[n]])
    BY <1>1, <1>2, <1>6
  <2>2. QED
    BY <1>3, <1>4, <1>6, <2>1 DEF Mem, Ops
<1>7. QED
  BY <1>5, <1>6

\* Which client stops being a member, pointer by pointer: one that leaves with
\* _disconnect, one that sends PART, or one that is kicked.
LEMMA LostPointer ==
  ASSUME Shape, NEW m \in ChanNames, NEW t \in 0 .. MaxUsers, LosingStep(m, t),
         NEW n \in ChanNames, NEW p \in Mem(n), p \notin Mem(n)'
  PROVE  /\ n = m /\ p = t
         /\ \/ p = leaver
            \/ Part(p, n)
            \/ \E i \in 1 .. size : Kick(i, n, p)
<1>1. Loses(m, t) /\ size \in Nat
  BY ShapeFacts DEF LosingStep, Table
<1>2. n = m /\ p = t /\ p \in Range(chan[dir[n]].users) /\ dir[n] # NoChan
  <2>1. n = m /\ p = t
    BY <1>1, LosesMem
  <2>2. QED
    BY <2>1 DEF Mem
<1>3. p # NoSlot
  <2>1. dir[n] \in ChanIds
    BY ShapeFacts DEF Directory, Mem
  <2>2. p \in Addresses
    BY <1>2, <2>1, ShapeFacts DEF Pointers
  <2>3. QED
    BY <2>2 DEF Addresses, NoSlot
<1>4. ASSUME NEW i \in Slots, Kick(i, n, p) PROVE i \in 1 .. size
  BY <1>1, <1>4 DEF Kick, Ready, Slots
<1>5. QED
  BY <1>2, <1>3, <1>4 DEF LosingStep

\* Nobody is removed from a channel but by its own PART, QUIT or disconnection,
\* or by the KICK of an operator on the channel.
THEOREM RemovalByRight == Spec => RemovedOnlyByRight
<1>1. ASSUME Shape, Sessions, MembersKnowChannel, Next, "stale" \notin past',
             NEW n \in ChanNames, NEW w \in Members(n) \ Members(n)'
      PROVE  \/ leaver # NoSlot /\ slot[leaver] = w
             \/ \E i \in 1 .. size : slot[i] = w /\ Part(i, n)
             \/ \E i \in 1 .. size : slot[i] = w /\ \E v \in Members(n)' : Nick(i, v)
             \/ \E i, t \in 1 .. size : slot[t] = w /\ Kick(i, n, t)
  <2>1. /\ Kinds /\ Denoting /\ ByPointers /\ ByPointers'
        /\ size \in 0 .. MaxUsers /\ MaxUsers \in Nat /\ 1 .. size \subseteq Slots
    BY <1>1, DenotingStep
  <2>2. PICK p \in Mem(n) : w = slot[p] /\ p \in 1 .. size
    BY <1>1, <2>1 DEF ByPointers, Named
  <2>3. p \in Mem(n)' => slot'[p] \in Members(n)'
    <3>1. Members(n)' = {slot'[q] : q \in Mem(n)'}
      BY <2>1 DEF ByPointers, Named
    <3>2. QED
      BY <3>1
  <2>4. p \in Mem(n)' => slot'[p] # slot[p]
    BY <1>1, <2>2, <2>3
  <2>5. CASE Apart
    <3>1. Mem(n)' = Mem(n)
      BY <1>1, <2>5, SameMem
    <3>2. slot'[p] # slot[p]
      BY <2>4, <3>1
    <3>3. CASE EraseUser
      <4>1. leaver \in 1 .. size /\ (p < leaver => slot'[p] = slot[p])
        BY <1>1, <2>1, <2>2, <3>3, EraseFacts
      <4>2. p < leaver
        <5>1. dir[n] \in Live /\ p \in Pointers(chan[dir[n]])
          BY <1>1, <2>2, ShapeFacts DEF Mem, Pointers
        <5>2. QED
          BY <1>1, <3>3, <5>1, EraseFacts
      <4>3. QED
        BY <3>2, <4>1, <4>2
    <3>4. ASSUME NEW i \in Slots, NEW v \in Names \cup Nameless, Nick(i, v) \/ User(i, v)
          PROVE  p = i /\ slot'[p] = v /\ Nick(i, v)
      <4>1. slot' = [slot EXCEPT ![i] = v] /\ slot \in [Slots -> Names \cup Nameless]
        BY <1>1, <3>4, ShapeFacts DEF Nick, User, Table
      <4>2. p = i /\ slot'[p] = v
        BY <2>1, <2>2, <3>2, <4>1
      <4>3. reg[p]
        BY <1>1, <2>1, <2>2, MemberRegistered
      <4>4. QED
        BY <3>4, <4>2, <4>3 DEF User
    <3>5. ASSUME \/ NewConnection \/ LeaveDeadChannel \/ Halts
                 \/ \E i \in Slots : Register(i) \/ StartLeave(i)
          PROVE  slot' = slot
      BY <3>5 DEF NewConnection, LeaveDeadChannel, Halts, Register, StartLeave
    <3>6. QED
      BY <2>2, <2>3, <2>5, <3>1, <3>2, <3>3, <3>4, <3>5 DEF Apart
  <2>6. CASE Grow
    BY <1>1, <2>2, <2>4, <2>6, SameMem DEF Grow
  <2>7. ASSUME NEW i \in Slots, NEW m \in ChanNames, NEW k \in Keys,
               Creates(i, m, k) \/ Enters(i, m, k)
        PROVE  FALSE
    <3>1. p \in Mem(n)'
      BY <1>1, <2>2, <2>7, CreatesMem, EntersMem
    <3>2. QED
      BY <2>4, <2>7, <3>1 DEF Creates, Enters
  <2>8. ASSUME NEW m \in ChanNames, Tunes(m) PROVE FALSE
    BY <1>1, <2>2, <2>4, <2>8, TunesMem DEF Tunes
  <2>9. ASSUME NEW m \in ChanNames, NEW t \in 0 .. MaxUsers, LosingStep(m, t)
        PROVE  \/ leaver # NoSlot /\ slot[leaver] = w
               \/ \E i \in 1 .. size : slot[i] = w /\ Part(i, n)
               \/ \E i, u \in 1 .. size : slot[u] = w /\ Kick(i, n, u)
    <3>1. slot' = slot
      BY <1>1, <2>9, LosingLists
    <3>2. p \notin Mem(n)'
      BY <2>4, <3>1
    <3>3. p = leaver \/ Part(p, n) \/ \E i \in 1 .. size : Kick(i, n, p)
      BY <1>1, <2>2, <2>9, <3>2, LostPointer
    <3>4. p # NoSlot
      BY <2>2 DEF NoSlot
    <3>5. QED
      BY <2>2, <3>3, <3>4
  <2>10. QED
    BY <1>1, <2>1, <2>5, <2>6, <2>7, <2>8, <2>9, ChannelKinds
<1>2. ASSUME UNCHANGED vars, NEW n \in ChanNames PROVE Members(n)' = Members(n)
  BY <1>2 DEF vars, Members, Clients, Range
<1>3. Shape /\ Sessions /\ MembersKnowChannel /\ [Next]_vars =>
          \A n \in ChanNames : \A w \in Members(n) \ Members(n)' :
              \/ "stale" \in past'
              \/ leaver # NoSlot /\ slot[leaver] = w
              \/ \E i \in 1 .. size : slot[i] = w /\ Part(i, n)
              \/ \E i \in 1 .. size : slot[i] = w /\ \E v \in Members(n)' : Nick(i, v)
              \/ \E i, t \in 1 .. size : slot[t] = w /\ Kick(i, n, t)
  BY <1>1, <1>2
<1>4. QED
  BY <1>3, ShapeInductive, SessionsInductive, KnownInductive, PTL DEF Spec, RemovedOnlyByRight

\* A list has no fewer entries than it has different ones.
LEMMA CardinalitySame == ASSUME NEW S PROVE FS!Cardinality(S) = Cardinality(S)
BY Zenon DEF FS!Cardinality, Cardinality, FS!IsFiniteSet, IsFiniteSet

LEMMA ImageSize ==
  ASSUME NEW S, NEW s \in Seq(S), NEW f
  PROVE  LET T == {f[s[k]] : k \in 1 .. Len(s)}
         IN  Cardinality(T) \in Nat /\ Cardinality(T) <= Len(s)
<1> DEFINE T == {f[s[k]] : k \in 1 .. Len(s)}
           g == [k \in 1 .. Len(s) |-> f[s[k]]]
<1>1. g \in FS!Surjection(1 .. Len(s), T)
  BY DEF FS!Surjection
<1>2. FS!IsFiniteSet(1 .. Len(s)) /\ FS!Cardinality(1 .. Len(s)) = Len(s)
  <2>1. 1 \in Int /\ Len(s) \in Nat
    OBVIOUS
  <2> DEFINE b == Len(s)
  <2> HIDE DEF b
  <2>2. FS!IsFiniteSet(1 .. b) /\ FS!Cardinality(1 .. b) = IF 1 > b THEN 0 ELSE b - 1 + 1
    BY <2>1, FS!FS_Interval DEF b
  <2>3. QED
    BY <2>1, <2>2 DEF b
<1> HIDE DEF T, g
<1>3. FS!IsFiniteSet(T) /\ FS!Cardinality(T) <= FS!Cardinality(1 .. Len(s))
  BY <1>1, <1>2, FS!FS_Surjection
<1>4. FS!Cardinality(T) \in Nat
  BY <1>3, FS!FS_CardinalityType
<1>5. FS!Cardinality(T) = Cardinality(T)
  BY CardinalitySame
<1>6. QED
  BY <1>2, <1>3, <1>4, <1>5 DEF T

\* JOIN makes the client that sends it a member, and only with the consent of
\* the channel.
LEMMA EntryByRight ==
  ASSUME Shape, ByPointers', NEW i \in Slots, NEW n \in ChanNames, NEW k \in Keys, Enters(i, n, k),
         i \notin Mem(n), i \in Mem(n)'
  PROVE  LET ch == chan[dir[n]]
         IN  /\ ch.limit = 0 \/ Cardinality(Members(n)') <= ch.limit
             /\ "INVITEONLY" \notin ch.flags
             /\ \A m \in Masks : slot[i] \in m => ch.bans[m] = 0
             /\ "PRIVATE" \in ch.flags => k = ch.key
<1> DEFINE ch == chan[dir[n]]
           new == chan'[dir[n]]
<1>1. dir[n] # NoChan /\ dir' = dir /\ ch \in Channel /\ new \in Channel
  <2>1. Directory' /\ dir' = dir /\ dir[n] \in ChanIds
    BY EntersFacts
  <2>2. QED
    BY <2>1, ShapeFacts DEF Directory, Enters
<1>2. Mem(n) = Range(ch.users) /\ Mem(n)' = Range(new.users)
  BY <1>1 DEF Mem, Range
<1>3. ~Refused(ch, slot[i], k) /\ new.users = Append(ch.users, i)
  <2>1. chan' # chan
    BY <1>2
  <2>2. QED
    BY <2>1, EntersFacts
<1>4. /\ ch.users \in Seq(Addresses) /\ new.users \in Seq(Addresses)
      /\ ch.limit \in 0 .. LimitWidth - 1 /\ ch.bans \in [Masks -> 0 .. MaxBans]
  BY <1>1, ChannelFields
<1>5. Len(new.users) = Len(ch.users) + 1
  <2> HIDE DEF ch
  <2>1. i \in Addresses
    BY DEF Slots, Addresses
  <2>2. QED
    BY <1>3, <1>4, <2>1, ST!AppendProperties
<1>6. Members(n)' = {slot'[new.users[j]] : j \in 1 .. Len(new.users)}
  <2>1. Members(n)' = {slot'[p] : p \in Mem(n)'}
    BY DEF ByPointers, Named
  <2>2. QED
    BY <1>2, <2>1 DEF Range
<1> HIDE DEF ch, new
<1>7. Cardinality(Members(n)') \in Nat /\ Cardinality(Members(n)') <= Len(new.users)
  <2> DEFINE list == new.users
             T == {slot'[list[j]] : j \in 1 .. Len(list)}
  <2>1. list \in Seq(Addresses)
    BY <1>4
  <2> HIDE DEF list
  <2>2. Cardinality(T) \in Nat /\ Cardinality(T) <= Len(list)
    BY <2>1, ImageSize
  <2>3. QED
    BY <1>6, <2>2 DEF list
<1>8. ch.limit = 0 \/ Cardinality(Members(n)') <= ch.limit
  <2>1. ~LimitRefused(ch)
    BY <1>3 DEF Refused
  <2>2. ch.limit \in Nat /\ Len(ch.users) \in Nat
    <3>1. ch.limit \in 0 .. LimitWidth - 1 /\ ch.users \in Seq(Addresses)
      BY <1>4
    <3>2. ch.limit \in Nat
      <4>1. LimitWidth \in Int
        BY DEF LimitWidth
      <4>2. QED
        BY <3>1, <4>1
    <3>3. Len(ch.users) \in Nat
      BY <3>1
    <3>4. QED
      BY <3>2, <3>3
  <2>3. ch.limit = 0 \/ Len(ch.users) + 1 <= ch.limit
    BY <2>1, <2>2 DEF LimitRefused
  <2>4. QED
    BY <1>5, <1>7, <2>2, <2>3
<1>9. \A m \in Masks : slot[i] \in m => ch.bans[m] = 0
  BY <1>3, <1>4, BoundAssumption DEF Refused, BanRefused
<1>10. "INVITEONLY" \notin ch.flags /\ ("PRIVATE" \in ch.flags => k = ch.key)
  BY <1>3 DEF Refused, KeyRefused
<1>11. QED
  BY <1>8, <1>9, <1>10 DEF ch

\* Nobody becomes a member but by its own JOIN, with the consent of the channel,
\* or as a member that takes another nickname.
THEOREM AdditionByRight == Spec => AddedOnlyByRight
<1>1. ASSUME Shape, Sessions, MembersKnowChannel, Next, "stale" \notin past',
             NEW n \in ChanNames, NEW w \in Members(n)' \ Members(n)
      PROVE  \/ \E i \in 1 .. size : slot[i] \in Members(n) /\ Nick(i, w)
             \/ \E i \in 1 .. size, k \in Keys :
                   /\ slot[i] = w
                   /\ Join(i, n, k)
                   /\ dir[n] # NoChan =>
                         LET ch == chan[dir[n]]
                         IN  /\ ch.limit = 0 \/ Cardinality(Members(n)') <= ch.limit
                             /\ "INVITEONLY" \notin ch.flags
                             /\ \A m \in Masks : w \in m => ch.bans[m] = 0
                             /\ "PRIVATE" \in ch.flags => k = ch.key
  <2>1. /\ Kinds /\ Denoting /\ ByPointers /\ ByPointers'
        /\ size \in 0 .. MaxUsers /\ MaxUsers \in Nat /\ 1 .. size \subseteq Slots
    BY <1>1, DenotingStep
  <2>2. /\ \A q \in Mem(n) : slot[q] \in Members(n)
        /\ Members(n)' = {slot'[q] : q \in Mem(n)'}
    BY <2>1 DEF ByPointers, Named
  <2>3. PICK p \in Mem(n)' : w = slot'[p]
    BY <1>1, <2>2
  <2>4. p \in Mem(n) => slot'[p] # slot[p] /\ p \in 1 .. size
    BY <1>1, <2>1, <2>2, <2>3 DEF ByPointers
  <2>5. CASE Apart
    <3>1. p \in Mem(n) /\ slot'[p] # slot[p] /\ p \in 1 .. size
      BY <1>1, <2>3, <2>4, <2>5, SameMem
    <3>2. ~EraseUser
      <4>1. dir[n] \in Live /\ p \in Pointers(chan[dir[n]])
        BY <1>1, <3>1, ShapeFacts DEF Mem, Pointers
      <4>2. EraseUser => p < leaver
        BY <1>1, <4>1, EraseFacts
      <4>3. QED
        BY <1>1, <2>1, <3>1, <4>2, EraseFacts
    <3>3. ASSUME NEW i \in Slots, NEW v \in Names \cup Nameless, Nick(i, v) \/ User(i, v)
          PROVE  p = i /\ w = v /\ Nick(i, v)
      <4>1. slot' = [slot EXCEPT ![i] = v] /\ slot \in [Slots -> Names \cup Nameless]
        BY <1>1, <3>3, ShapeFacts DEF Nick, User, Table
      <4>2. p = i /\ w = v
        BY <2>1, <2>3, <3>1, <4>1
      <4>3. reg[p]
        BY <1>1, <2>1, <3>1, MemberRegistered
      <4>4. QED
        BY <3>3, <4>2, <4>3 DEF User
    <3>4. ASSUME \/ NewConnection \/ LeaveDeadChannel \/ Halts
                 \/ \E i \in Slots : Register(i) \/ StartLeave(i)
          PROVE  slot' = slot
      BY <3>4 DEF NewConnection, LeaveDeadChannel, Halts, Register, StartLeave
    <3>5. QED
      BY <2>2, <2>5, <3>1, <3>2, <3>3, <3>4 DEF Apart
  <2>6. CASE Grow
    BY <1>1, <2>3, <2>4, <2>6, SameMem DEF Grow
  <2>7. ASSUME NEW i \in Slots, NEW m \in ChanNames, NEW k \in Keys,
               Creates(i, m, k) \/ Enters(i, m, k)
        PROVE  \E j \in 1 .. size, l \in Keys :
                   /\ slot[j] = w
                   /\ Join(j, n, l)
                   /\ dir[n] # NoChan =>
                         LET ch == chan[dir[n]]
                         IN  /\ ch.limit = 0 \/ Cardinality(Members(n)') <= ch.limit
                             /\ "INVITEONLY" \notin ch.flags
                             /\ \A mask \in Masks : w \in mask => ch.bans[mask] = 0
                             /\ "PRIVATE" \in ch.flags => l = ch.key
    <3>1. slot' = slot /\ p \notin Mem(n) /\ w = slot[p]
      BY <2>3, <2>4, <2>7 DEF Creates, Enters
    <3>2. n = m /\ p = i
      BY <1>1, <2>3, <2>7, <3>1, CreatesMem, EntersMem
    <3>3. i \in 1 .. size /\ Join(i, n, k)
      BY <1>1, <2>7, <3>2, CreatesFacts, EntersFacts DEF Creates, Enters
    <3>4. CASE Creates(i, m, k)
      <4>1. dir[n] = NoChan
        BY <3>2, <3>4 DEF Creates
      <4>2. QED
        BY <3>1, <3>2, <3>3, <4>1
    <3>5. CASE Enters(i, m, k)
      <4>1. LET ch == chan[dir[n]]
            IN  /\ ch.limit = 0 \/ Cardinality(Members(n)') <= ch.limit
                /\ "INVITEONLY" \notin ch.flags
                /\ \A mask \in Masks : slot[i] \in mask => ch.bans[mask] = 0
                /\ "PRIVATE" \in ch.flags => k = ch.key
        BY <1>1, <2>1, <2>3, <3>1, <3>2, <3>5, EntryByRight
      <4>2. QED
        BY <3>1, <3>2, <3>3, <4>1
    <3>6. QED
      BY <2>7, <3>4, <3>5
  <2>8. ASSUME NEW m \in ChanNames, Tunes(m) PROVE FALSE
    BY <1>1, <2>3, <2>4, <2>8, TunesMem DEF Tunes
  <2>9. ASSUME NEW m \in ChanNames, NEW t \in 0 .. MaxUsers, LosingStep(m, t) PROVE FALSE
    <3>1. slot' = slot
      BY <1>1, <2>9, LosingLists
    <3>2. p \in Mem(n)
      BY <1>1, <2>3, <2>9, LosesMem DEF LosingStep
    <3>3. QED
      BY <2>4, <3>1, <3>2
  <2>10. QED
    BY <1>1, <2>1, <2>5, <2>6, <2>7, <2>8, <2>9, ChannelKinds
<1>2. ASSUME UNCHANGED vars, NEW n \in ChanNames PROVE Members(n)' = Members(n)
  BY <1>2 DEF vars, Members, Clients, Range
<1>3. Shape /\ Sessions /\ MembersKnowChannel /\ [Next]_vars =>
          \A n \in ChanNames : \A w \in Members(n)' \ Members(n) :
              \/ "stale" \in past'
              \/ \E i \in 1 .. size : slot[i] \in Members(n) /\ Nick(i, w)
              \/ \E i \in 1 .. size, k \in Keys :
                    /\ slot[i] = w
                    /\ Join(i, n, k)
                    /\ dir[n] # NoChan =>
                          LET ch == chan[dir[n]]
                          IN  /\ ch.limit = 0 \/ Cardinality(Members(n)') <= ch.limit
                              /\ "INVITEONLY" \notin ch.flags
                              /\ \A m \in Masks : w \in m => ch.bans[m] = 0
                              /\ "PRIVATE" \in ch.flags => k = ch.key
  BY <1>1, <1>2
<1>4. QED
  BY <1>3, ShapeInductive, SessionsInductive, KnownInductive, PTL DEF Spec, AddedOnlyByRight

=============================================================================
