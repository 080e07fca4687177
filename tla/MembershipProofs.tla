-------------------------- MODULE MembershipProofs --------------------------
(***************************************************************************)
(* Channels implements Membership, for any value of the constants: while   *)
(* nothing is stale, no KICK has emptied a channel and no command has found *)
(* a client by the empty nickname, each step of the pointers is a step of  *)
(* the sets of clients, or changes none of them.                           *)
(*                                                                         *)
(* The invariants of ChannelsProofs say that every pointer then denotes a  *)
(* client and that different pointers denote clients with different        *)
(* prefixes, one of which at most has no nickname, so sets of pointers     *)
(* (Mem, Ops) can be followed in place of sets of clients.                 *)
(***************************************************************************)
EXTENDS ChannelsProofs

\* The clients that have a nickname.
Online == Clients(Slots) \cap Names

Sound == status = "up" /\ past \cap {"stale", "kick", "noname"} = {}

-----------------------------------------------------------------------------
\* Sets of pointers and sets of clients

\* The slots whose prefix tells which client is there.
Identified == {p \in 1 .. size : slot[p] \in Names \/ Reachable(p)}

LEMMA IdentifiedFacts ==
  ASSUME Table, Sessions, OneNameless, NEW p \in Identified, NEW q \in Identified,
         slot[p] = slot[q]
  PROVE  p = q
<1>1. /\ p \in 1 .. size /\ q \in 1 .. size /\ p \in Slots /\ q \in Slots
      /\ slot[p] \in Names \cup Nameless
  <2>1. p \in 1 .. size /\ q \in 1 .. size
    BY DEF Identified
  <2>2. size \in 0 .. MaxUsers /\ MaxUsers \in Nat /\ slot \in [Slots -> Names \cup Nameless]
    BY BoundAssumption DEF Table
  <2>3. p \in Slots /\ q \in Slots
    BY <2>1, <2>2 DEF Slots
  <2>4. QED
    BY <2>1, <2>2, <2>3
<1>2. CASE slot[p] \in Names
  BY <1>1, <1>2 DEF Sessions
<1>3. CASE slot[p] \in Nameless
  <2>1. Reachable(p) /\ Reachable(q)
    BY <1>3, PrefixAssumption DEF Identified
  <2>2. QED
    BY <1>1, <1>3, <2>1 DEF OneNameless
<1>4. QED
  BY <1>1, <1>2, <1>3

LEMMA NamedFacts ==
  ASSUME Table, Sessions, OneNameless, NEW P, P \subseteq Identified, NEW t \in Identified
  PROVE  /\ slot[t] \in Named(P) <=> t \in P
         /\ Named(P \ {t}) = Named(P) \ {slot[t]}
         /\ Named(P \cup {t}) = Named(P) \cup {slot[t]}
         /\ Named(P) = {} <=> P = {}
<1>1. ASSUME NEW p \in P, slot[p] = slot[t] PROVE p = t
  <2>1. p \in Identified
    OBVIOUS
  <2>2. QED
    BY <1>1, <2>1, IdentifiedFacts
<1>2. QED
  BY <1>1 DEF Named

OnlineBySlots == Online = {slot[p] : p \in Slots} \cap Names

LEMMA OnlineFacts == Table => OnlineBySlots
<1> SUFFICES ASSUME Table PROVE Online = {slot[p] : p \in Slots} \cap Names
  BY DEF OnlineBySlots
<1>1. ASSUME NEW p \in Slots, slot[p] \in Names PROVE p <= size
  <2>1. NoName \notin Names
    BY PrefixAssumption, NameAssumption
  <2>2. size \in Nat /\ p \in Nat /\ ~(p > size)
    BY <1>1, <2>1 DEF Table, Slots
  <2>3. QED
    BY <2>2
<1>2. QED
  BY <1>1 DEF Online, Clients

\* A channel that is there has a member and an operator.
LEMMA NobodyHere ==
  ASSUME Shape, Order, {"stale", "kick"} \cap past = {}, NEW n \in ChanNames
  PROVE  /\ Mem(n) = {} <=> dir[n] = NoChan
         /\ Ops(n) = {} <=> dir[n] = NoChan
<1>1. CASE dir[n] = NoChan
  BY <1>1 DEF Mem, Ops
<1>2. CASE dir[n] # NoChan
  <2>1. dir[n] \in Live /\ dir[n] \in ChanIds /\ chan[dir[n]] \in Channel
    BY <1>2, ShapeFacts DEF Directory
  <2>2. chan[dir[n]].users # <<>> /\ chan[dir[n]].ops # {}
    BY <2>1 DEF Order, EmptyOnlyByKick, AlwaysAnOperator
  <2>3. chan[dir[n]].users[1] \in Range(chan[dir[n]].users)
    BY <2>2, ChannelFields DEF Range
  <2>4. QED
    BY <1>2, <2>2, <2>3 DEF Mem, Ops
<1>3. QED
  BY <1>1, <1>2

LEMMA NobodyHereAtAll ==
  Shape /\ Order /\ {"stale", "kick"} \cap past = {} =>
      \A n \in ChanNames : /\ Mem(n) = {} <=> dir[n] = NoChan
                           /\ Ops(n) = {} <=> dir[n] = NoChan
BY NobodyHere

-----------------------------------------------------------------------------
\* Steps of Membership, by what they do to the sets

LEMMA ArriveByFacts ==
  ASSUME NEW w, w \notin Online, Online' = Online \cup {w},
         \A n \in ChanNames : Members(n)' = Members(n) /\ Operators(n)' = Operators(n)
  PROVE  Abstract!Arrive(w)
BY DEF Abstract!Arrive, Online

Renamed(S, w, v) == IF w \in S THEN (S \ {w}) \cup {v} ELSE S

\* The members and operators without a nickname.
Anonymous == Nameless \cap UNION {Members(n) \cup Operators(n) : n \in ChanNames}

LEMMA RenameByFacts ==
  ASSUME NEW w, NEW v, w \in Online \cup Nameless, v \notin Online,
         v \in Nameless => Anonymous \subseteq {w},
         Online' = (Online \ {w}) \cup ({v} \cap Names),
         \A n \in ChanNames : /\ Members(n)' = Renamed(Members(n), w, v)
                              /\ Operators(n)' = Renamed(Operators(n), w, v)
  PROVE  Abstract!Rename(w, v)
<1>1. Abstract!Anonymous = Anonymous
  BY DEF Abstract!Anonymous, Anonymous
<1>2. QED
  BY <1>1 DEF Abstract!Rename, Renamed, Online

LEMMA DepartByFacts ==
  ASSUME NEW w, w \in Online, Online' = Online \ {w},
         \A n \in ChanNames : /\ w \notin Members(n) \cup Operators(n)
                              /\ Members(n)' = Members(n) /\ Operators(n)' = Operators(n)
  PROVE  Abstract!Depart(w)
BY DEF Abstract!Depart, Online

LEMMA JoinByFacts ==
  ASSUME NEW w, NEW n \in ChanNames,
         w \in Online \/ (w \in Nameless /\ Anonymous \subseteq {w}), Online' = Online,
         \A m \in ChanNames :
            /\ Members(m)' = IF m = n THEN Members(n) \cup {w} ELSE Members(m)
            /\ Operators(m)' = IF m = n /\ Members(n) = {} THEN {w} ELSE Operators(m)
  PROVE  Abstract!Join(w, n)
<1>1. Abstract!Anonymous = Anonymous
  BY DEF Abstract!Anonymous, Anonymous
<1>2. QED
  BY <1>1 DEF Abstract!Join, Online

LEMMA RemoveByFacts ==
  ASSUME NEW w, NEW n \in ChanNames, w \in Members(n), Online' = Online,
         \A m \in ChanNames :
            /\ Members(m)' = IF m = n THEN Members(n) \ {w} ELSE Members(m)
            /\ m # n => Operators(m)' = Operators(m),
         Operators(n)' \in Abstract!Successors(n, w, Members(n) \ {w})
  PROVE  Abstract!Remove(w, n)
BY DEF Abstract!Remove, Online

LEMMA GrantByFacts ==
  ASSUME NEW w, NEW n \in ChanNames, w \in Online, Online' = Online,
         Members(n) \cap Operators(n) # {},
         \A m \in ChanNames :
            /\ Members(m)' = Members(m)
            /\ Operators(m)' = IF m = n THEN Operators(n) \cup {w} ELSE Operators(m)
  PROVE  Abstract!Grant(w, n)
BY DEF Abstract!Grant, Abstract!Commanded, Online

LEMMA RevokeByFacts ==
  ASSUME NEW w, NEW n \in ChanNames, Online' = Online,
         Members(n) \cap Operators(n) # {},
         \A m \in ChanNames : /\ Members(m)' = Members(m)
                              /\ m # n => Operators(m)' = Operators(m),
         Operators(n)' \in Abstract!Successors(n, w, Members(n))
  PROVE  Abstract!Revoke(w, n)
BY DEF Abstract!Revoke, Abstract!Commanded, Online

\* What removeOperator leaves, of pointers: P are the members, Q the operators
\* before and R those after the operator t has gone.
Succeeds(P, Q, R, t) ==
    IF P = {} THEN R = {}
    ELSE IF t \in Q /\ Q \ {t} = {} THEN \E h \in P : R = {h}
    ELSE R = Q \ {t}

LEMMA SuccessorsByPointers ==
  ASSUME Table, Sessions, OneNameless, NEW n \in ChanNames, NEW t \in Identified,
         NEW P, P \subseteq Identified,
         NEW Q, Q \subseteq Identified, Operators(n) = Named(Q),
         NEW R, Succeeds(P, Q, R, t)
  PROVE  Named(R) \in Abstract!Successors(n, slot[t], Named(P))
<1>1. /\ slot[t] \in Named(Q) <=> t \in Q
      /\ Named(Q \ {t}) = Named(Q) \ {slot[t]}
  BY NamedFacts
<1>2. Named(Q \ {t}) = {} <=> Q \ {t} = {}
  BY DEF Named
<1>3. Named(P) = {} <=> P = {}
  BY DEF Named
<1>4. CASE P = {}
  <2>1. Named(R) = {}
    BY <1>4 DEF Succeeds, Named
  <2>2. QED
    BY <1>3, <1>4, <2>1 DEF Abstract!Successors
<1>5. CASE P # {} /\ t \in Q /\ Q \ {t} = {}
  <2>1. PICK h \in P : R = {h}
    BY <1>5 DEF Succeeds
  <2>2. slot[h] \in Named(P) /\ Named(R) = {slot[h]}
    BY <2>1 DEF Named
  <2>3. slot[t] \in Operators(n) /\ Operators(n) \ {slot[t]} = {} /\ Named(P) # {}
    BY <1>1, <1>2, <1>3, <1>5
  <2>4. QED
    BY <2>2, <2>3 DEF Abstract!Successors
<1>6. CASE P # {} /\ ~(t \in Q /\ Q \ {t} = {})
  <2>1. Named(R) = Operators(n) \ {slot[t]}
    BY <1>1, <1>6 DEF Succeeds
  <2>2. Named(P) # {} /\ ~(slot[t] \in Operators(n) /\ Operators(n) \ {slot[t]} = {})
    BY <1>1, <1>2, <1>3, <1>6
  <2>3. QED
    BY <2>1, <2>2 DEF Abstract!Successors
<1>7. QED
  BY <1>4, <1>5, <1>6

-----------------------------------------------------------------------------
\* What becomes of the operators of a channel, pointer by pointer

LEMMA OpsOfNamed ==
  ASSUME NEW n \in ChanNames, dir[n] # NoChan, dir'[n] = dir[n]
  PROVE  /\ Ops(n) = chan[dir[n]].ops /\ Ops(n)' = chan'[dir[n]].ops
         /\ Mem(n) = Range(chan[dir[n]].users) /\ Mem(n)' = Range(chan'[dir[n]].users)
<1>1. Ops(n)' = IF dir'[n] = NoChan THEN {} ELSE chan'[dir'[n]].ops
  BY DEF Ops
<1>2. Mem(n)' = IF dir'[n] = NoChan THEN {} ELSE Range(chan'[dir'[n]].users)
  BY DEF Mem, Range
<1>3. QED
  BY <1>1, <1>2 DEF Ops, Mem

LEMMA DisconnectOps ==
  ASSUME NEW ch \in Channel, Distinct(ch.users), NEW t, NEW new, new = Disconnect(ch, t)
  PROVE  /\ t \notin Range(ch.users) => new = ch
         /\ t \in Range(ch.users) =>
               new.ops = IF t \in ch.ops /\ ch.ops \ {t} = {} /\ new.users # <<>>
                         THEN {new.users[1]} ELSE ch.ops \ {t}
         /\ new.users # <<>> => new.users[1] \in Range(new.users)
<1>1. Deprived(ch, t, new)
  BY DisconnectFacts
<1>2. QED
  BY <1>1 DEF Deprived

\* A pointer taken by PART, KICK or _disconnect: the channel keeps its operators
\* when the pointer was not there.
LEMMA LosesOps ==
  ASSUME Shape, Order, NEW n \in ChanNames, NEW t, Loses(n, t),
         {"stale", "kick"} \cap past' = {}, past \subseteq past',
         Mem(n)' = {} <=> dir'[n] = NoChan, Ops(n)' = {} <=> dir'[n] = NoChan
  PROVE  /\ t \notin Mem(n) => Ops(n)' = Ops(n)
         /\ t \in Mem(n) => Succeeds(Mem(n)', Ops(n), Ops(n)', t)
<1> DEFINE id == dir[n]
           ch == chan[id]
           new == Disconnect(ch, t)
<1>1. id # NoChan /\ id \in ChanIds /\ ch \in Channel /\ Distinct(ch.users)
  BY ShapeFacts DEF Loses, Directory
<1>2. /\ dir'[n] = IF id \notin Live' THEN NoChan ELSE id
      /\ id \in Live' => chan'[id] = new
  BY LosesFacts DEF Lost
<1>3. Mem(n)' = Mem(n) \ {t}
  BY LosesMem
<1>4. CASE id \in Live'
  <2>1. /\ Ops(n) = ch.ops /\ Ops(n)' = chan'[id].ops
        /\ Mem(n) = Range(ch.users) /\ Mem(n)' = Range(chan'[id].users)
    BY <1>1, <1>2, <1>4, OpsOfNamed
  <2>2. chan'[id] = new
    BY <1>2, <1>4
  <2>3. /\ t \notin Range(ch.users) => new = ch
        /\ t \in Range(ch.users) =>
              new.ops = IF t \in ch.ops /\ ch.ops \ {t} = {} /\ new.users # <<>>
                        THEN {new.users[1]} ELSE ch.ops \ {t}
        /\ new.users # <<>> => new.users[1] \in Range(new.users)
    BY <1>1, DisconnectOps
  <2> HIDE DEF new, ch
  <2>4. CASE t \notin Mem(n)
    BY <2>1, <2>2, <2>3, <2>4
  <2>5. CASE t \in Mem(n)
    <3>1. new.users # <<>>
      <4>1. Range(new.users) # {}
        BY <1>1, <1>2, <1>4, <2>1, <2>2
      <4>2. QED
        BY <4>1 DEF Range
    <3>2. Mem(n)' # {}
      BY <1>1, <1>2, <1>4
    <3>3. new.users[1] \in Mem(n)'
      BY <2>1, <2>2, <2>3, <3>1
    <3>4. Ops(n)' = IF t \in Ops(n) /\ Ops(n) \ {t} = {} THEN {new.users[1]} ELSE Ops(n) \ {t}
      BY <2>1, <2>2, <2>3, <2>5, <3>1
    <3>5. Succeeds(Mem(n)', Ops(n), Ops(n)', t)
      <4> DEFINE P == Mem(n)'
                 Q == Ops(n)
                 R == Ops(n)'
      <4>1. P # {} /\ new.users[1] \in P
            /\ R = IF t \in Q /\ Q \ {t} = {} THEN {new.users[1]} ELSE Q \ {t}
        BY <3>2, <3>3, <3>4
      <4> HIDE DEF P, Q, R
      <4>2. Succeeds(P, Q, R, t)
        BY <4>1 DEF Succeeds
      <4>3. QED
        BY <4>2 DEF P, Q, R
    <3>6. QED
      BY <2>5, <3>5
  <2>6. QED
    BY <2>4, <2>5
<1>5. CASE id \notin Live'
  <2>1. Mem(n)' = {} /\ Ops(n)' = {}
    BY <1>2, <1>5
  <2>2. {"stale", "kick"} \cap past = {}
    OBVIOUS
  <2>3. Mem(n) # {}
    BY <1>1, <2>2, NobodyHere
  <2>4. t \in Mem(n)
    BY <1>3, <2>1, <2>3
  <2>5. Succeeds(Mem(n)', Ops(n), Ops(n)', t)
    <3> DEFINE P == Mem(n)'
               Q == Ops(n)
               R == Ops(n)'
    <3>1. P = {} /\ R = {}
      BY <2>1
    <3> HIDE DEF P, Q, R
    <3>2. Succeeds(P, Q, R, t)
      BY <3>1 DEF Succeeds
    <3>3. QED
      BY <3>2 DEF P, Q, R
  <2>6. QED
    BY <2>4, <2>5
<1>6. QED
  BY <1>4, <1>5

\* MODE +o and -o, of a client that need not be a member.
LEMMA AddsOp ==
  ASSUME Shape, NEW i \in Slots, NEW n \in ChanNames, NEW t \in Slots, ModeAddOp(i, n, t),
         "noname" \notin past'
  PROVE  /\ t \in 1 .. size /\ slot[t] \in Names
         /\ \/ Ops(n)' = Ops(n) \cup {t}
            \/ Ops(n)' = Ops(n) /\ \E p \in Ops(n) : slot[p] = slot[t]
<1> DEFINE id == dir[n]
           ch == chan[id]
           new == IF Holds(ch.ops, slot[t]) THEN ch ELSE [ch EXCEPT !.ops = @ \cup {t}]
<1>1. /\ id # NoChan /\ Found(t) /\ past' = past \cup Naming(t)
      /\ chan' = [chan EXCEPT ![id] = new] /\ dir' = dir
  BY DEF ModeAddOp, MayMode, ChangeFor
<1>8. t \in 1 .. size /\ slot[t] \in Names
  BY <1>1, FoundFacts DEF Shape
<1>2. id \in ChanIds /\ ch \in Channel /\ chan \in [ChanIds -> Channel]
  BY <1>1, ShapeFacts DEF Directory
<1>3. Ops(n) = ch.ops /\ Ops(n)' = chan'[id].ops
  BY <1>1, OpsOfNamed
<1>4. chan'[id] = new
  BY <1>1, <1>2
<1> HIDE DEF ch
<1>5. CASE Holds(ch.ops, slot[t])
  <2>1. \E p \in Ops(n) : slot[p] = slot[t]
    BY <1>3, <1>5 DEF Holds
  <2>2. QED
    BY <1>3, <1>4, <1>5, <1>8, <2>1
<1>6. CASE ~Holds(ch.ops, slot[t])
  <2>1. new.ops = ch.ops \cup {t}
    BY <1>2, <1>6 DEF Channel
  <2>2. QED
    BY <1>3, <1>4, <1>8, <2>1
<1>7. QED
  BY <1>5, <1>6

LEMMA RemovesOp ==
  ASSUME Shape, NEW i \in Slots, NEW n \in ChanNames, NEW t \in Slots, ModeRemoveOp(i, n, t),
         Mem(n) # {}
  PROVE  Succeeds(Mem(n), Ops(n), Ops(n)', t)
<1> DEFINE id == dir[n]
           ch == chan[id]
           new == WithoutOp(ch, t)
<1>1. id # NoChan /\ chan' = [chan EXCEPT ![id] = new] /\ dir' = dir
  BY DEF ModeRemoveOp, MayMode, ChangeFor
<1>2. id \in ChanIds /\ ch \in Channel /\ chan \in [ChanIds -> Channel]
  BY <1>1, ShapeFacts DEF Directory
<1>3. Ops(n) = ch.ops /\ Ops(n)' = chan'[id].ops /\ Mem(n) = Range(ch.users)
  BY <1>1, OpsOfNamed
<1>4. chan'[id] = new
  BY <1>1, <1>2
<1>5. /\ new.ops = IF t \in ch.ops /\ ch.ops \ {t} = {} /\ ch.users # <<>>
                   THEN {ch.users[1]} ELSE ch.ops \ {t}
      /\ ch.users # <<>> => ch.users[1] \in Range(ch.users)
  BY <1>2, WithoutOpFacts
<1>6. ch.users # <<>>
  BY <1>3 DEF Range
<1> DEFINE R == Ops(n)'
<1> HIDE DEF ch, new
<1>7. /\ ch.users[1] \in Mem(n)
      /\ R = IF t \in Ops(n) /\ Ops(n) \ {t} = {} THEN {ch.users[1]} ELSE Ops(n) \ {t}
  BY <1>3, <1>4, <1>5, <1>6
<1> HIDE DEF R
<1>8. Succeeds(Mem(n), Ops(n), R, t)
  BY <1>7 DEF Succeeds
<1>9. QED
  BY <1>8 DEF R

\* Whoever may use MODE is a member and an operator.
LEMMA MayModeCommands ==
  ASSUME Shape, Sessions, Denoting, NEW i \in Slots, NEW n \in ChanNames, MayMode(i, n)
  PROVE  Members(n) \cap Operators(n) # {}
<1>1. dir[n] # NoChan /\ reg[i] /\ i <= size /\ size \in Nat
  BY ShapeFacts DEF MayMode, Ready, Table
<1>2. dir[n] \in Live /\ Denotes(dir[n]) /\ i \in 1 .. size
  BY <1>1, ShapeFacts DEF Denoting, Slots
<1>3. slot[i] \in Clients(chan[dir[n]].ops)
  BY DEF MayMode, MayCommand, Holds, Clients
<1>4. i \in Range(chan[dir[n]].users)
  BY <1>1, <1>2, NickFacts DEF MayMode, MayCommand
<1>5. QED
  BY <1>1, <1>3, <1>4 DEF Members, Operators, Clients

-----------------------------------------------------------------------------
\* Every step, by its kind

\* Nothing a reader of Membership sees changes.
Unseen ==
    /\ Online' = Online
    /\ \A n \in ChanNames : Members(n)' = Members(n) /\ Operators(n)' = Operators(n)

\* The sets of nicknames before and after a step.
LEMMA SetsByPointers ==
  ASSUME ByPointers, ByPointers', NEW n \in ChanNames
  PROVE  /\ Members(n) = Named(Mem(n)) /\ Operators(n) = Named(Ops(n))
         /\ Members(n)' = {slot'[p] : p \in Mem(n)'}
         /\ Operators(n)' = {slot'[p] : p \in Ops(n)'}
BY DEF ByPointers, Named

\* When no client changes its slot or its nickname, the sets of nicknames follow
\* the sets of pointers.
LEMMA SameSlots ==
  ASSUME ByPointers, ByPointers', Table, Table', slot' = slot
  PROVE  /\ Online' = Online
         /\ \A n \in ChanNames : /\ Members(n)' = Named(Mem(n)') /\ Operators(n)' = Named(Ops(n)')
                                 /\ Mem(n)' = Mem(n) => Members(n)' = Members(n)
                                 /\ Ops(n)' = Ops(n) => Operators(n)' = Operators(n)
<1>1. OnlineBySlots /\ OnlineBySlots'
  BY OnlineFacts, PTL
<1>2. Online' = Online
  BY <1>1 DEF OnlineBySlots
<1>3. ASSUME NEW n \in ChanNames
      PROVE  /\ Members(n)' = Named(Mem(n)') /\ Operators(n)' = Named(Ops(n)')
             /\ Mem(n)' = Mem(n) => Members(n)' = Members(n)
             /\ Ops(n)' = Ops(n) => Operators(n)' = Operators(n)
  <2>1. /\ Members(n) = Named(Mem(n)) /\ Operators(n) = Named(Ops(n))
        /\ Members(n)' = {slot[p] : p \in Mem(n)'}
        /\ Operators(n)' = {slot[p] : p \in Ops(n)'}
    BY SetsByPointers
  <2>2. QED
    BY <2>1 DEF Named
<1>4. QED
  BY <1>2, <1>3

\* What every step may rely on while Sound holds on both sides of it.
Settled ==
    /\ Shape /\ Order /\ Sessions /\ Denoting /\ OneNameless /\ ByPointers /\ Table
    /\ {"stale", "kick", "noname"} \cap past = {}
    /\ \A n \in ChanNames : /\ Mem(n) = {} <=> dir[n] = NoChan
                            /\ Ops(n) = {} <=> dir[n] = NoChan
                            /\ Mem(n) \cup Ops(n) \subseteq Identified

\* Whoever has no nickname and is identified is the only member or operator
\* without one.
LEMMA OnlyAnonymous ==
  ASSUME Settled, NEW i \in Identified, slot[i] \in Nameless
  PROVE  Anonymous \subseteq {slot[i]}
<1> SUFFICES ASSUME NEW w \in Anonymous PROVE w = slot[i]
  OBVIOUS
<1>0. PICK n \in ChanNames : w \in Members(n) \cup Operators(n) /\ w \in Nameless
  BY DEF Anonymous
<1>1. PICK p \in Mem(n) \cup Ops(n) : slot[p] = w
  BY <1>0 DEF Settled, ByPointers, Named
<1>2. p \in Identified
  BY <1>1 DEF Settled
<1>3. /\ p \in 1 .. size /\ i \in 1 .. size
      /\ Reachable(p) /\ Reachable(i)
  BY <1>0, <1>1, <1>2, PrefixAssumption DEF Identified
<1>4. QED
  BY <1>0, <1>1, <1>3 DEF Settled, OneNameless

\* NICK and USER give one client another prefix.
Prefixed(i, w) ==
    /\ i \in 1 .. size
    /\ slot' = [slot EXCEPT ![i] = w]
    /\ dir' = dir /\ chan' = chan

\* Who has the prefix of a pointer, before and after it.
LEMMA PrefixedFacts ==
  ASSUME Settled, Settled', NEW i \in Slots, NEW w \in Names \cup Nameless, Prefixed(i, w)
  PROVE  /\ \A p \in Slots : slot'[p] = IF p = i THEN w ELSE slot[p]
         /\ Online = {slot[p] : p \in Slots} \cap Names
         /\ Online' = {slot'[p] : p \in Slots} \cap Names
         /\ \A n \in ChanNames : /\ Mem(n) \cup Ops(n) \subseteq Identified
                                 /\ Members(n) = Named(Mem(n))
                                 /\ Operators(n) = Named(Ops(n))
                                 /\ Members(n)' = {slot'[p] : p \in Mem(n)}
                                 /\ Operators(n)' = {slot'[p] : p \in Ops(n)}
         /\ Identified \subseteq Slots
<1>1. \A p \in Slots : slot'[p] = IF p = i THEN w ELSE slot[p]
  BY DEF Prefixed, Settled, Table
<1>2. Table /\ Table' /\ ByPointers /\ ByPointers'
  BY DEF Settled
<1>3. OnlineBySlots /\ OnlineBySlots'
  BY <1>2, OnlineFacts, PTL
<1>4. ASSUME NEW n \in ChanNames
      PROVE  /\ Mem(n) \cup Ops(n) \subseteq Identified
             /\ Members(n) = Named(Mem(n)) /\ Operators(n) = Named(Ops(n))
             /\ Members(n)' = {slot'[p] : p \in Mem(n)}
             /\ Operators(n)' = {slot'[p] : p \in Ops(n)}
  <2>1. Mem(n)' = Mem(n) /\ Ops(n)' = Ops(n)
    BY DEF Prefixed, Mem, Ops, Range
  <2>2. QED
    BY <1>2, <2>1, SetsByPointers DEF Settled
<1>5. Identified \subseteq Slots
  BY <1>2, BoundAssumption DEF Identified, Slots, Table
<1>6. QED
  BY <1>1, <1>3, <1>4, <1>5 DEF OnlineBySlots

\* A client that its prefix identified is renamed.
LEMMA IdentifiedRenamed ==
  ASSUME Settled, Settled', NEW i \in Slots, NEW w \in Names \cup Nameless, Prefixed(i, w),
         i \in Identified, w \notin Online, w \in Nameless => Anonymous \subseteq {slot[i]}
  PROVE  Abstract!Step
<1>1. slot[i] \in Names \cup Nameless /\ Table /\ Sessions /\ OneNameless
  BY DEF Settled, Table
<1>2. ASSUME NEW P, P \subseteq Identified
      PROVE  {slot'[p] : p \in P} = Renamed(Named(P), slot[i], w)
  <2>1. slot[i] \in Named(P) <=> i \in P
    BY <1>1, <1>2, NamedFacts
  <2>2. ASSUME NEW p \in P, p # i PROVE slot'[p] = slot[p] /\ slot[p] # slot[i]
    <3>1. p \in Identified /\ p \in Slots
      BY <1>2, PrefixedFacts
    <3>2. QED
      BY <1>1, <2>2, <3>1, PrefixedFacts, IdentifiedFacts
  <2>3. slot'[i] = w
    BY PrefixedFacts
  <2>4. QED
    BY <2>1, <2>2, <2>3 DEF Named, Renamed
<1>3. ASSUME NEW n \in ChanNames
      PROVE  /\ Members(n)' = Renamed(Members(n), slot[i], w)
             /\ Operators(n)' = Renamed(Operators(n), slot[i], w)
  <2>1. /\ Mem(n) \cup Ops(n) \subseteq Identified
        /\ Members(n) = Named(Mem(n)) /\ Operators(n) = Named(Ops(n))
        /\ Members(n)' = {slot'[p] : p \in Mem(n)}
        /\ Operators(n)' = {slot'[p] : p \in Ops(n)}
    BY PrefixedFacts
  <2>2. /\ {slot'[p] : p \in Mem(n)} = Renamed(Named(Mem(n)), slot[i], w)
        /\ {slot'[p] : p \in Ops(n)} = Renamed(Named(Ops(n)), slot[i], w)
    BY <1>2, <2>1
  <2>3. QED
    BY <2>1, <2>2
<1>4. /\ \A p \in Slots : slot'[p] = IF p = i THEN w ELSE slot[p]
      /\ Online = {slot[p] : p \in Slots} \cap Names
      /\ Online' = {slot'[p] : p \in Slots} \cap Names
  BY PrefixedFacts
<1>5. Online' = (Online \ {slot[i]}) \cup ({w} \cap Names)
  <2>1. \A p \in Slots : slot[p] \in Names /\ slot[p] = slot[i] => p = i
    BY <1>1 DEF Sessions
  <2>2. QED
    BY <1>4, <2>1
<1>6. slot[i] \in Online \cup Nameless
  BY <1>1, <1>4
<1>7. Abstract!Rename(slot[i], w)
  BY <1>3, <1>5, <1>6, RenameByFacts
<1>8. QED
  BY <1>1, <1>7 DEF Abstract!Step

\* Who is not identified is no member: at most a nickname is new.
LEMMA UnidentifiedPrefixed ==
  ASSUME Settled, Settled', NEW i \in Slots, NEW w \in Names \cup Nameless, Prefixed(i, w),
         i \notin Identified
  PROVE  /\ Online' = Online \cup ({w} \cap Names)
         /\ \A n \in ChanNames : Members(n)' = Members(n) /\ Operators(n)' = Operators(n)
<1>1. /\ \A p \in Slots : slot'[p] = IF p = i THEN w ELSE slot[p]
      /\ Online = {slot[p] : p \in Slots} \cap Names
      /\ Online' = {slot'[p] : p \in Slots} \cap Names
      /\ Identified \subseteq Slots
  BY PrefixedFacts
<1>2. slot[i] \notin Names
  BY DEF Identified, Prefixed
<1>3. Online' = Online \cup ({w} \cap Names)
  BY <1>1, <1>2
<1>4. ASSUME NEW P, P \subseteq Identified PROVE {slot'[p] : p \in P} = Named(P)
  BY <1>1, <1>4 DEF Named
<1>5. ASSUME NEW n \in ChanNames PROVE Members(n)' = Members(n) /\ Operators(n)' = Operators(n)
  <2>1. /\ Mem(n) \cup Ops(n) \subseteq Identified
        /\ Members(n) = Named(Mem(n)) /\ Operators(n) = Named(Ops(n))
        /\ Members(n)' = {slot'[p] : p \in Mem(n)}
        /\ Operators(n)' = {slot'[p] : p \in Ops(n)}
    BY PrefixedFacts
  <2>2. QED
    BY <1>4, <2>1
<1>6. QED
  BY <1>3, <1>5

LEMMA NickSeen ==
  ASSUME Settled, Settled', NEW i \in Slots, NEW w \in Names \cup Nameless, Nick(i, w)
  PROVE  Abstract!Step
<1>1. /\ Prefixed(i, w) /\ i \in 1 .. size
      /\ \A j \in 1 .. size : Nickname(slot[j]) # Nickname(w)
      /\ \A p \in Slots : slot[p] \in Names \cup Nameless
  BY DEF Nick, Prefixed, Settled, Table, Slots
<1>2. w \notin Online
  <2>1. \A j \in 1 .. size : slot[j] # w
    BY <1>1
  <2>2. \A j \in Slots : j <= size => j \in 1 .. size
    BY DEF Slots, Settled, Table
  <2>3. QED
    BY <2>1, <2>2 DEF Online, Clients
<1>3. ASSUME w \in Nameless PROVE \A j \in 1 .. size : slot[j] \notin Nameless
  BY <1>1, <1>3 DEF Nickname
<1>4. CASE i \in Identified
  <2>1. w \in Nameless => Anonymous \subseteq {slot[i]}
    <3>1. ASSUME w \in Nameless, NEW v \in Anonymous PROVE FALSE
      <4>1. PICK n \in ChanNames : v \in Members(n) \cup Operators(n) /\ v \in Nameless
        BY DEF Anonymous
      <4>2. PICK p \in Mem(n) \cup Ops(n) : slot[p] = v
        BY <4>1 DEF Settled, ByPointers, Named
      <4>3. p \in 1 .. size
        BY <4>2 DEF Settled, Identified
      <4>4. QED
        BY <1>3, <3>1, <4>1, <4>2, <4>3
    <3>2. QED
      BY <3>1
  <2>2. QED
    BY <1>1, <1>2, <1>4, <2>1, IdentifiedRenamed
<1>5. CASE i \notin Identified
  <2>1. w \in Names
    <3>1. slot[i] \in Nameless
      BY <1>1, <1>5 DEF Identified
    <3>2. QED
      BY <1>1, <1>3, <3>1
  <2>2. /\ Online' = Online \cup {w}
        /\ \A n \in ChanNames : Members(n)' = Members(n) /\ Operators(n)' = Operators(n)
    <3>1. {w} \cap Names = {w}
      BY <2>1
    <3>2. QED
      BY <1>1, <1>5, <3>1, UnidentifiedPrefixed
  <2>3. Abstract!Arrive(w)
    BY <1>2, <2>2, ArriveByFacts
  <2>4. QED
    BY <2>1, <2>3 DEF Abstract!Step
<1>6. QED
  BY <1>4, <1>5

LEMMA UserSeen ==
  ASSUME Settled, Settled', NEW i \in Slots, NEW w \in Names \cup Nameless, User(i, w)
  PROVE  Abstract!Step \/ Unseen
<1>1. Prefixed(i, w) /\ slot[i] \in Nameless /\ w \in Nameless
  BY DEF User, Prefixed, Settled, Table, Slots
<1>2. w \notin Names
  BY <1>1, PrefixAssumption
<1>3. CASE i \in Identified
  <2>1. Anonymous \subseteq {slot[i]}
    BY <1>1, <1>3, OnlyAnonymous
  <2>2. w \notin Online
    BY <1>2 DEF Online
  <2>3. QED
    BY <1>1, <1>3, <2>1, <2>2, IdentifiedRenamed
<1>4. CASE i \notin Identified
  <2>1. {w} \cap Names = {}
    BY <1>2
  <2>2. QED
    BY <1>1, <1>4, <2>1, UnidentifiedPrefixed DEF Unseen
<1>5. QED
  BY <1>3, <1>4

\* _clients.erase: the clients keep their nicknames, but the one that goes.
LEMMA EraseSeen ==
  ASSUME Settled, Settled', "stale" \notin past', EraseUser
  PROVE  Abstract!Step \/ Unseen
<1> DEFINE w == slot[leaver]
<1>1. /\ leaver \in 1 .. size /\ size \in 1 .. MaxUsers
      /\ \A j \in Slots : slot'[j] = IF j < leaver THEN slot[j]
                                     ELSE IF j < size THEN slot[j + 1] ELSE NoName
      /\ \A j \in Slots : j < size => j + 1 \in Slots
  BY EraseFacts DEF Settled
<1>2. \A id \in Live : \A p \in Pointers(chan[id]) : p \in Addresses /\ p < leaver
  BY EraseFacts DEF Settled
<1>3. /\ MaxUsers \in Nat /\ leaver \in Slots /\ 1 .. size \subseteq Slots
      /\ slot \in [Slots -> Names \cup Nameless]
      /\ \A p \in Slots : p > size => slot[p] = NoName
      /\ \A i, j \in Slots : slot[i] = slot[j] /\ slot[i] \in Names => i = j
      /\ NoName \notin Names
  <2>1. Table /\ Sessions /\ MaxUsers \in Nat /\ NoName \notin Names
    BY BoundAssumption, NameAssumption, PrefixAssumption DEF Settled
  <2>2. leaver \in Slots /\ 1 .. size \subseteq Slots
    BY <1>1, <2>1 DEF Slots
  <2>3. /\ slot \in [Slots -> Names \cup Nameless]
        /\ \A p \in Slots : p > size => slot[p] = NoName
    BY <2>1 DEF Table
  <2>4. \A i, j \in Slots : slot[i] = slot[j] /\ slot[i] \in Names => i = j
    BY <2>1 DEF Sessions
  <2>5. QED
    BY <2>1, <2>2, <2>3, <2>4
<1>4. /\ Online = {slot[p] : p \in Slots} \cap Names
      /\ Online' = {slot'[p] : p \in Slots} \cap Names
  <2>1. Table /\ Table'
    BY DEF Settled
  <2>2. OnlineBySlots /\ OnlineBySlots'
    BY <2>1, OnlineFacts, PTL
  <2>3. QED
    BY <2>2 DEF OnlineBySlots
<1>5. Online' = Online \ {w}
  <2>1. ASSUME NEW p \in Slots, slot'[p] \in Names PROVE slot'[p] \in Online \ {w}
    <3>1. CASE p < leaver
      <4>1. slot'[p] = slot[p] /\ p # leaver
        BY <1>1, <3>1
      <4>2. QED
        BY <1>3, <1>4, <2>1, <4>1
    <3>2. CASE ~(p < leaver) /\ p < size
      <4>1. slot'[p] = slot[p + 1] /\ p + 1 \in Slots /\ p + 1 # leaver
        BY <1>1, <3>2 DEF Slots
      <4>2. QED
        BY <1>3, <1>4, <2>1, <4>1
    <3>3. CASE ~(p < leaver) /\ ~(p < size)
      BY <1>1, <1>3, <2>1, <3>3
    <3>4. QED
      BY <3>1, <3>2, <3>3
  <2>2. ASSUME NEW p \in Slots, slot[p] \in Names, slot[p] # w PROVE slot[p] \in Online'
    <3>1. p \in 1 .. size /\ p # leaver
      BY <1>1, <1>3, <2>2 DEF Slots
    <3>2. CASE p < leaver
      <4>1. slot'[p] = slot[p]
        BY <1>1, <3>2
      <4>2. QED
        BY <1>4, <2>2, <4>1
    <3>3. CASE ~(p < leaver)
      <4>1. /\ p - 1 \in Slots /\ ~(p - 1 < leaver) /\ p - 1 < size
            /\ (p - 1) + 1 = p
        BY <1>1, <1>3, <3>1, <3>3 DEF Slots
      <4>2. slot'[p - 1] = slot[p]
        BY <1>1, <4>1
      <4>3. QED
        BY <1>4, <2>2, <4>1, <4>2
    <3>4. QED
      BY <3>2, <3>3
  <2>3. QED
    BY <1>4, <2>1, <2>2
<1>6. ASSUME NEW n \in ChanNames
      PROVE  /\ w \in Names => w \notin Members(n) \cup Operators(n)
             /\ Members(n)' = Members(n) /\ Operators(n)' = Operators(n)
  <2>1. dir' = dir /\ chan' = chan
    BY DEF EraseUser
  <2>2. Mem(n)' = Mem(n) /\ Ops(n)' = Ops(n)
    BY <2>1 DEF Mem, Ops, Range
  <2>3. /\ Members(n) = Named(Mem(n)) /\ Operators(n) = Named(Ops(n))
        /\ Members(n)' = {slot'[p] : p \in Mem(n)}
        /\ Operators(n)' = {slot'[p] : p \in Ops(n)}
        /\ \A p \in Mem(n) \cup Ops(n) : p \in 1 .. size
    BY <2>2, SetsByPointers DEF Settled, Identified
  <2>4. ASSUME NEW p \in Mem(n) \cup Ops(n)
        PROVE  p \in Slots /\ p # leaver /\ slot'[p] = slot[p]
    <3>1. dir[n] \in Live /\ p \in Pointers(chan[dir[n]])
      BY <2>4 DEF Mem, Ops, Pointers, Live
    <3>2. p < leaver /\ p \in Slots
      BY <1>2, <1>3, <2>3, <2>4, <3>1
    <3>3. p # leaver
      BY <1>3, <3>2 DEF Slots
    <3>4. slot'[p] = slot[p]
      BY <1>1, <3>2
    <3>5. QED
      BY <3>2, <3>3, <3>4
  <2>5. w \in Names => w \notin Members(n) \cup Operators(n)
    BY <1>3, <2>3, <2>4 DEF Named
  <2>6. QED
    BY <2>3, <2>4, <2>5 DEF Named
<1>7. CASE w \notin Names
  BY <1>4, <1>5, <1>6, <1>7 DEF Unseen
<1>8. CASE w \in Names
  <2>1. w \in Online /\ w \in Names
    BY <1>3, <1>4, <1>8
  <2>2. Abstract!Depart(w)
    BY <1>5, <1>6, <1>8, <2>1, DepartByFacts
  <2>3. QED
    BY <2>1, <2>2 DEF Abstract!Step
<1>9. QED
  BY <1>7, <1>8

\* JOIN: the first of a channel is its operator; a client that is refused, or
\* is there already, changes nothing that can be seen.
LEMMA JoinSeen ==
  ASSUME Settled, Settled', NEW i \in Slots, NEW n \in ChanNames, NEW k \in Keys,
         Creates(i, n, k) \/ Enters(i, n, k)
  PROVE  Abstract!Step \/ Unseen
<1>1. /\ slot' = slot /\ i <= size /\ reg[i] /\ slot[i] \in Names \cup Nameless
      /\ Shape /\ ByPointers /\ ByPointers' /\ Table /\ Table'
  BY DEF Creates, Enters, Ready, Settled, Table
<1>2. slot[i] \in Online \/ (slot[i] \in Nameless /\ Anonymous \subseteq {slot[i]})
  <2>1. i \in Identified
    BY <1>1 DEF Identified, Reachable, Slots
  <2>2. CASE slot[i] \in Names
    BY <1>1, <2>2 DEF Online, Clients
  <2>3. CASE slot[i] \in Nameless
    BY <2>1, <2>3, OnlyAnonymous
  <2>4. QED
    BY <1>1, <2>2, <2>3
<1>3. /\ Online' = Online
      /\ \A m \in ChanNames : /\ Members(m)' = Named(Mem(m)') /\ Operators(m)' = Named(Ops(m)')
                              /\ Mem(m)' = Mem(m) => Members(m)' = Members(m)
                              /\ Ops(m)' = Ops(m) => Operators(m)' = Operators(m)
  BY <1>1, SameSlots
<1>4. CASE Creates(i, n, k)
  <2>1. \A m \in ChanNames : /\ Mem(m)' = IF m = n THEN {i} ELSE Mem(m)
                             /\ Ops(m)' = IF m = n THEN {i} ELSE Ops(m)
    BY <1>1, <1>4, CreatesMem
  <2>2. Members(n) = {}
    <3>1. Mem(n) = {}
      BY <1>1, <1>4, CreatesMem
    <3>2. QED
      BY <1>1, <3>1 DEF ByPointers, Named
  <2>3. Named({i}) = {slot[i]}
    BY DEF Named
  <2>4. \A m \in ChanNames :
            /\ Members(m)' = IF m = n THEN Members(n) \cup {slot[i]} ELSE Members(m)
            /\ Operators(m)' = IF m = n /\ Members(n) = {} THEN {slot[i]} ELSE Operators(m)
    BY <1>3, <2>1, <2>2, <2>3
  <2>5. Abstract!Join(slot[i], n)
    BY <1>2, <1>3, <2>4, JoinByFacts
  <2>6. QED
    BY <1>1, <2>5 DEF Abstract!Step
<1>5. CASE Enters(i, n, k)
  <2>1. \A m \in ChanNames :
            /\ \/ Mem(m)' = Mem(m)
               \/ m = n /\ Mem(m)' = Mem(m) \cup {i}
            /\ Ops(m)' = Ops(m)
    BY <1>1, <1>5, EntersMem
  <2>2. CASE \A m \in ChanNames : Mem(m)' = Mem(m)
    BY <1>3, <2>1, <2>2 DEF Unseen
  <2>3. CASE Mem(n)' = Mem(n) \cup {i}
    <3>1. Members(n)' = Members(n) \cup {slot[i]}
      <4>1. Members(n) = Named(Mem(n))
        BY <1>1 DEF ByPointers
      <4>2. QED
        BY <1>3, <2>3, <4>1 DEF Named
    <3>2. Members(n) # {}
      <4>1. Mem(n) # {}
        BY <1>5 DEF Enters, Settled
      <4>2. QED
        BY <1>1, <4>1 DEF ByPointers, Named
    <3>3. \A m \in ChanNames :
              /\ Members(m)' = IF m = n THEN Members(n) \cup {slot[i]} ELSE Members(m)
              /\ Operators(m)' = IF m = n /\ Members(n) = {} THEN {slot[i]} ELSE Operators(m)
      BY <1>3, <2>1, <3>1, <3>2
    <3>4. Abstract!Join(slot[i], n)
      BY <1>2, <1>3, <3>3, JoinByFacts
    <3>5. QED
      BY <1>1, <3>4 DEF Abstract!Step
  <2>4. QED
    BY <2>1, <2>2, <2>3
<1>6. QED
  BY <1>4, <1>5

\* MODE, TOPIC and INVITE: only +o and -o can be seen.
LEMMA TunesSeen ==
  ASSUME Settled, Settled', NEW n \in ChanNames, Tunes(n)
  PROVE  Abstract!Step \/ Unseen
<1>1. /\ slot' = slot /\ dir' = dir /\ dir[n] # NoChan
      /\ Shape /\ Sessions /\ Denoting /\ OneNameless
      /\ ByPointers /\ ByPointers' /\ Table /\ Table'
      /\ "noname" \notin past'
      /\ 1 .. size \subseteq Slots
  BY BoundAssumption DEF Tunes, Settled, Table, Slots
<1>2. /\ Online' = Online
      /\ \A m \in ChanNames : /\ Members(m)' = Named(Mem(m)') /\ Operators(m)' = Named(Ops(m)')
                              /\ Mem(m)' = Mem(m) => Members(m)' = Members(m)
                              /\ Ops(m)' = Ops(m) => Operators(m)' = Operators(m)
  BY <1>1, SameSlots
<1>3. \A m \in ChanNames : Mem(m)' = Mem(m) /\ (m # n => Ops(m)' = Ops(m))
  BY <1>1, TunesMem
<1>4. \A m \in ChanNames : Members(m)' = Members(m) /\ (m # n => Operators(m)' = Operators(m))
  BY <1>2, <1>3
<1>5. CASE chan'[dir[n]].ops = chan[dir[n]].ops
  <2>1. Ops(n)' = Ops(n)
    BY <1>1, <1>5, OpsOfNamed
  <2>2. QED
    BY <1>2, <1>4, <2>1 DEF Unseen
<1>6. ASSUME NEW i \in Slots, NEW t \in Slots, ModeAddOp(i, n, t)
      PROVE  Abstract!Step
  <2>1. /\ t \in 1 .. size /\ slot[t] \in Names
        /\ \/ Ops(n)' = Ops(n) \cup {t}
           \/ Ops(n)' = Ops(n) /\ \E p \in Ops(n) : slot[p] = slot[t]
    BY <1>1, <1>6, AddsOp
  <2>2. slot[t] \in Online /\ slot[t] \in Names
    BY <1>1, <2>1 DEF Online, Clients
  <2>3. Operators(n) = Named(Ops(n))
    BY <1>1 DEF ByPointers
  <2>4. Operators(n)' = Operators(n) \cup {slot[t]}
    BY <1>2, <2>1, <2>3 DEF Named
  <2>5. Members(n) \cap Operators(n) # {}
    BY <1>1, <1>6, MayModeCommands DEF ModeAddOp
  <2>6. \A m \in ChanNames :
            /\ Members(m)' = Members(m)
            /\ Operators(m)' = IF m = n THEN Operators(n) \cup {slot[t]} ELSE Operators(m)
    BY <1>4, <2>4
  <2>7. Abstract!Grant(slot[t], n)
    BY <1>2, <2>2, <2>5, <2>6, GrantByFacts
  <2>8. QED
    BY <2>2, <2>7 DEF Abstract!Step
<1>7. ASSUME NEW i \in Slots, NEW t \in Slots, ModeRemoveOp(i, n, t)
      PROVE  Abstract!Step
  <2>1. t \in Identified /\ slot[t] \in Names
    <3>1. Found(t) /\ past' = past \cup Naming(t)
      BY <1>7 DEF ModeRemoveOp, ChangeFor
    <3>2. t \in 1 .. size /\ slot[t] \in Names
      BY <1>1, <3>1, FoundFacts DEF Shape
    <3>3. QED
      BY <3>2 DEF Identified
  <2>2. Mem(n) # {}
    BY <1>1 DEF Settled
  <2>3. Succeeds(Mem(n), Ops(n), Ops(n)', t)
    BY <1>1, <1>7, <2>2, RemovesOp
  <2>4. /\ Members(n) = Named(Mem(n)) /\ Operators(n) = Named(Ops(n))
        /\ Mem(n) \subseteq Identified /\ Ops(n) \subseteq Identified
    BY <1>1, SetsByPointers DEF Settled
  <2>5. Named(Ops(n)') \in Abstract!Successors(n, slot[t], Named(Mem(n)))
    BY <1>1, <2>1, <2>3, <2>4, SuccessorsByPointers
  <2>6. Operators(n)' \in Abstract!Successors(n, slot[t], Members(n))
    BY <1>2, <2>4, <2>5
  <2>7. Members(n) \cap Operators(n) # {}
    BY <1>1, <1>7, MayModeCommands DEF ModeRemoveOp
  <2>8. Abstract!Revoke(slot[t], n)
    BY <1>2, <1>4, <2>6, <2>7, RevokeByFacts
  <2>9. QED
    BY <2>1, <2>8 DEF Abstract!Step
<1>8. QED
  BY <1>5, <1>6, <1>7 DEF Tunes

\* PART, KICK and each round of _disconnect: one member is removed, or the
\* pointer was not there.
LEMMA LosingSeen ==
  ASSUME Settled, Settled', past \subseteq past', NEW n \in ChanNames, NEW t \in 0 .. MaxUsers,
         LosingStep(n, t)
  PROVE  Abstract!Step \/ Unseen
<1>1. /\ Loses(n, t) /\ slot' = slot
      /\ Shape /\ Order /\ Sessions /\ OneNameless
      /\ ByPointers /\ ByPointers' /\ Table /\ Table'
      /\ slot \in [Slots -> Names \cup Nameless] /\ 1 .. size \subseteq Slots
      /\ {"stale", "kick"} \cap past' = {}
      /\ Mem(n)' = {} <=> dir'[n] = NoChan
      /\ Ops(n)' = {} <=> dir'[n] = NoChan
  <2>1. Loses(n, t) /\ slot' = slot
    BY LosingLists DEF LosingStep, Settled
  <2>2. QED
    BY <2>1, BoundAssumption DEF Settled, Table, Slots
<1>2. /\ Online' = Online
      /\ \A m \in ChanNames : /\ Members(m)' = Named(Mem(m)') /\ Operators(m)' = Named(Ops(m)')
                              /\ Mem(m)' = Mem(m) => Members(m)' = Members(m)
                              /\ Ops(m)' = Ops(m) => Operators(m)' = Operators(m)
  BY <1>1, SameSlots
<1>3. \A m \in ChanNames : /\ Mem(m)' = IF m = n THEN Mem(n) \ {t} ELSE Mem(m)
                           /\ m # n => Ops(m)' = Ops(m)
  BY <1>1, LosesMem
<1>4. /\ t \notin Mem(n) => Ops(n)' = Ops(n)
      /\ t \in Mem(n) => Succeeds(Mem(n)', Ops(n), Ops(n)', t)
  BY <1>1, LosesOps
<1>5. CASE t \notin Mem(n)
  <2>1. \A m \in ChanNames : Mem(m)' = Mem(m) /\ Ops(m)' = Ops(m)
    BY <1>3, <1>4, <1>5
  <2>2. QED
    BY <1>2, <2>1 DEF Unseen
<1>6. CASE t \in Mem(n)
  <2>1. /\ Members(n) = Named(Mem(n)) /\ Operators(n) = Named(Ops(n))
        /\ Mem(n) \subseteq Identified /\ Ops(n) \subseteq Identified
    BY <1>1, SetsByPointers DEF Settled
  <2>2. t \in Identified /\ slot[t] \in Names \cup Nameless
    <3>1. t \in Identified /\ t \in Slots
      BY <1>1, <1>6, <2>1 DEF Identified
    <3>2. QED
      BY <1>1, <3>1
  <2>3. /\ slot[t] \in Members(n)
        /\ Named(Mem(n) \ {t}) = Members(n) \ {slot[t]}
    <3>2. /\ slot[t] \in Named(Mem(n)) <=> t \in Mem(n)
          /\ Named(Mem(n) \ {t}) = Named(Mem(n)) \ {slot[t]}
      BY <1>1, <2>1, <2>2, NamedFacts
    <3>3. QED
      BY <1>6, <2>1, <3>2
  <2>4. Mem(n)' = Mem(n) \ {t}
    BY <1>3
  <2>5. \A m \in ChanNames :
            /\ Members(m)' = IF m = n THEN Members(n) \ {slot[t]} ELSE Members(m)
            /\ m # n => Operators(m)' = Operators(m)
    BY <1>2, <1>3, <2>3, <2>4
  <2> DEFINE P == Mem(n) \ {t}
             R == Ops(n)'
  <2>6. /\ P \subseteq Identified
        /\ Succeeds(P, Ops(n), R, t)
    BY <1>4, <1>6, <2>1, <2>4
  <2> HIDE DEF P, R
  <2>7. Named(R) \in Abstract!Successors(n, slot[t], Named(P))
    BY <1>1, <2>1, <2>2, <2>6, SuccessorsByPointers
  <2>8. Operators(n)' \in Abstract!Successors(n, slot[t], Members(n) \ {slot[t]})
    BY <1>2, <2>3, <2>7 DEF P, R
  <2>9. Abstract!Remove(slot[t], n)
    BY <1>2, <2>3, <2>5, <2>8, RemoveByFacts
  <2>10. QED
    BY <2>2, <2>9 DEF Abstract!Step
<1>7. QED
  BY <1>5, <1>6

\* The steps that are left: none of them can be seen.
LEMMA OthersUnseen ==
  ASSUME Settled, Settled', "stale" \notin past',
         \/ NewConnection \/ LeaveDeadChannel \/ Grow
         \/ \E i \in Slots : Register(i) \/ StartLeave(i)
  PROVE  Unseen
<1>1. slot' = slot /\ (Apart \/ Grow)
  BY DEF NewConnection, LeaveDeadChannel, Grow, Register, StartLeave, Apart
<1>2. Shape /\ ByPointers /\ ByPointers' /\ Table /\ Table'
  BY DEF Settled
<1>3. \A n \in ChanNames : Mem(n)' = Mem(n) /\ Ops(n)' = Ops(n)
  BY <1>1, <1>2, SameMem
<1>4. QED
  BY <1>1, <1>2, <1>3, SameSlots DEF Unseen

-----------------------------------------------------------------------------
LEMMA SettledFacts ==
  Shape /\ Order /\ Sessions /\ Denoting /\ OneNameless /\ {"stale", "kick", "noname"} \cap past = {}
    => Settled
<1> SUFFICES ASSUME Shape, Order, Sessions, Denoting, OneNameless,
                    {"stale", "kick", "noname"} \cap past = {}
             PROVE  Settled
  OBVIOUS
<1>1. Table /\ ByPointers
  BY ShapeFacts, MembersByPointers
<1>2. ASSUME NEW n \in ChanNames PROVE Mem(n) \cup Ops(n) \subseteq Identified
  <2>1. Mem(n) \cup Ops(n) \subseteq 1 .. size
    BY <1>1 DEF ByPointers
  <2>2. ASSUME NEW p \in Mem(n) \cup Ops(n) PROVE Reachable(p)
    BY ShapeFacts DEF Mem, Ops, Pointers, Reachable
  <2>3. QED
    BY <2>1, <2>2 DEF Identified
<1>3. {"stale", "kick"} \cap past = {}
  OBVIOUS
<1>4. QED
  BY <1>1, <1>2, <1>3, NobodyHere DEF Settled

LEMMA StepSeen ==
  ASSUME Shape, Order, Sessions, MembersKnowChannel, Distinguished, Next, Sound'
  PROVE  Sound /\ (Abstract!Step \/ Unseen)
<1>1. "stale" \notin past' /\ {"stale", "kick", "noname"} \cap past' = {} /\ status' = "up"
  BY DEF Sound
<1>2. Kinds /\ Denoting
  BY <1>1, DenotingStep
<1>3. status = "up" /\ past \subseteq past'
  BY <1>2, PastGrows DEF Shape, TypeOK
<1>4. Shape' /\ Order' /\ Sessions'
  BY <1>2, ShapeStep, OrderStep, SessionsStep
<1>18. OneNameless /\ OneNameless' /\ Denoting'
  <2>1. OneNameless /\ \A id \in Live : Denotes(id)
    BY <1>1, <1>2, <1>3 DEF Distinguished, Denoting
  <2>2. OneNameless'
    BY <1>1, <1>2, <2>1, NamelessStep
  <2>3. Denoting'
    BY <1>1, <1>2, <2>1, DenotesStep DEF Denoting
  <2>4. QED
    BY <2>1, <2>2, <2>3
<1>5. Settled
  BY <1>1, <1>2, <1>3, <1>18, SettledFacts
<1>6. ({"stale", "kick", "noname"} \cap past = {})'
  BY <1>1
<1>7. Settled'
  BY <1>4, <1>6, <1>18, SettledFacts, PTL
<1>8. ~Halts
  BY <1>1 DEF Halts
<1>9. Sound
  BY <1>1, <1>3 DEF Sound
<1>10. ASSUME \/ NewConnection \/ LeaveDeadChannel \/ Grow
              \/ \E i \in Slots : Register(i) \/ StartLeave(i)
       PROVE  Unseen
  BY <1>1, <1>5, <1>7, <1>10, OthersUnseen
<1>11. ASSUME NEW i \in Slots, NEW w \in Names \cup Nameless, Nick(i, w) \/ User(i, w)
       PROVE  Abstract!Step \/ Unseen
  BY <1>5, <1>7, <1>11, NickSeen, UserSeen
<1>12. ASSUME EraseUser PROVE Abstract!Step \/ Unseen
  BY <1>1, <1>5, <1>7, <1>12, EraseSeen
<1>13. ASSUME NEW i \in Slots, NEW n \in ChanNames, NEW k \in Keys,
              Creates(i, n, k) \/ Enters(i, n, k)
       PROVE  Abstract!Step \/ Unseen
  BY <1>5, <1>7, <1>13, JoinSeen
<1>14. ASSUME NEW n \in ChanNames, Tunes(n) PROVE Abstract!Step \/ Unseen
  BY <1>5, <1>7, <1>14, TunesSeen
<1>15. ASSUME NEW n \in ChanNames, NEW t \in 0 .. MaxUsers, LosingStep(n, t)
       PROVE  Abstract!Step \/ Unseen
  BY <1>3, <1>5, <1>7, <1>15, LosingSeen
<1>16. Apart => Abstract!Step \/ Unseen
  BY <1>8, <1>10, <1>11, <1>12 DEF Apart
<1>17. QED
  BY <1>2, <1>9, <1>10, <1>13, <1>14, <1>15, <1>16, ChannelKinds

LEMMA InitSeen == Init => Abstract!Init
<1> SUFFICES ASSUME Init PROVE Abstract!Init
  OBVIOUS
<1>1. Clients(Slots) = {}
  BY DEF Init, Clients
<1>2. \A n \in ChanNames : Members(n) = {} /\ Operators(n) = {}
  BY DEF Init, Members, Operators
<1>3. status = "up" /\ past \cap {"stale", "kick", "noname"} = {}
  BY DEF Init
<1>4. QED
  BY <1>1, <1>2, <1>3 DEF Abstract!Init

LEMMA StutterSeen == UNCHANGED vars => UNCHANGED Abstract!vars
<1> SUFFICES ASSUME UNCHANGED vars PROVE UNCHANGED Abstract!vars
  OBVIOUS
<1>1. /\ Clients(Slots)' = Clients(Slots)
      /\ \A n \in ChanNames : Members(n)' = Members(n) /\ Operators(n)' = Operators(n)
      /\ status' = status /\ past' = past
  BY DEF vars, Clients, Members, Operators, Range
<1>2. QED
  BY <1>1 DEF Abstract!vars

LEMMA NextSeen ==
  ASSUME Shape, Order, Sessions, MembersKnowChannel, Distinguished, Next
  PROVE  [Abstract!Next]_(Abstract!vars)
<1>1. CASE ~Sound'
  BY <1>1 DEF Sound, Abstract!Next
<1>2. CASE Sound'
  <2>1. Sound /\ (Abstract!Step \/ Unseen)
    BY <1>2, StepSeen
  <2>2. CASE Abstract!Step
    BY <1>2, <2>1, <2>2 DEF Sound, Abstract!Next
  <2>3. CASE Unseen
    BY <1>2, <2>1, <2>3 DEF Sound, Unseen, Online, Abstract!vars
  <2>4. QED
    BY <2>1, <2>2, <2>3
<1>3. QED
  BY <1>1, <1>2

\* Until a client is moved under a pointer, a KICK empties a channel, KICK or
\* MODE comes with an empty nickname, or the server stops, the pointers, the
\* lists and the addresses of Channels behave like sets of clients: who joins is
\* a member, also without a nickname, until it leaves or is removed, a channel
\* has an operator while it has members, and nothing else changes either.
THEOREM ChannelsImplementMembership == Spec => ImplementsMembership
<1>1. Shape /\ Order /\ Sessions /\ MembersKnowChannel /\ Distinguished /\ [Next]_vars
        => [Abstract!Next]_(Abstract!vars)
  BY NextSeen, StutterSeen
<1>2. QED
  BY <1>1, InitSeen, ShapeInductive, OrderInductive, SessionsInductive, KnownInductive,
     DistinguishedInductive, PTL DEF Spec, ImplementsMembership, Abstract!Spec
=============================================================================
