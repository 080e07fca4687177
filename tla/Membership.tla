----------------------------- MODULE Membership -----------------------------
(***************************************************************************)
(* What the channels of the server promise, in sets of clients: who is a   *)
(* member of which channel, who is its operator, and which steps change    *)
(* either.  There are no pointers, lists or addresses here; Channels, the  *)
(* detailed module, implements this one as long as "sound" holds.          *)
(***************************************************************************)
CONSTANTS
    Names,      \* clients, by their nickname
    Nameless,   \* clients without a nickname, by what else is known of them
    ChanNames

VARIABLES
    online,   \* nicknames that clients have
    members,  \* members of each channel; a channel is there while it has some
    ops,      \* operators of each channel, who need not be members
    sound     \* nothing has happened after which nothing is promised

vars == <<online, members, ops, sound>>

Init ==
    /\ online = {}
    /\ members = [n \in ChanNames |-> {}]
    /\ ops = [n \in ChanNames |-> {}]
    /\ sound = TRUE

TypeOK ==
    /\ online \subseteq Names
    /\ members \in [ChanNames -> SUBSET (Names \cup Nameless)]
    /\ ops \in [ChanNames -> SUBSET (Names \cup Nameless)]
    /\ sound \in BOOLEAN

\* The members and operators, of any channel, that have no nickname.
Anonymous == Nameless \cap UNION {members[n] \cup ops[n] : n \in ChanNames}

\* A client comes with no membership.
Arrive(w) ==
    /\ w \notin online
    /\ online' = online \cup {w}
    /\ UNCHANGED <<members, ops>>

\* A client that changes its nickname, or gives it up while no other member or
\* operator is without one, keeps its memberships and its powers.
Rename(w, v) ==
    LET Renamed(S) == IF w \in S THEN (S \ {w}) \cup {v} ELSE S
    IN  /\ w \in online \cup Nameless
        /\ v \notin online
        /\ v \in Nameless => Anonymous \subseteq {w}
        /\ online' = (online \ {w}) \cup ({v} \cap Names)
        /\ members' = [n \in ChanNames |-> Renamed(members[n])]
        /\ ops' = [n \in ChanNames |-> Renamed(ops[n])]

\* A client goes when it has left every channel.
Depart(w) ==
    /\ w \in online
    /\ \A n \in ChanNames : w \notin members[n] \cup ops[n]
    /\ online' = online \ {w}
    /\ UNCHANGED <<members, ops>>

\* The first to come is the operator.
Join(w, n) ==
    /\ w \in online \/ (w \in Nameless /\ Anonymous \subseteq {w})
    /\ members' = [members EXCEPT ![n] = @ \cup {w}]
    /\ ops' = IF members[n] = {} THEN [ops EXCEPT ![n] = {w}] ELSE ops
    /\ UNCHANGED online

\* Once w is no operator, and "left" are the members: a channel with members
\* and without an operator appoints one of them.
Successors(n, w, left) ==
    LET rest == ops[n] \ {w}
    IN  CASE left = {} -> {{}}
          [] left # {} /\ w \in ops[n] /\ rest = {} -> {{p} : p \in left}
          [] OTHER -> {rest}

\* A member leaves, or is removed.
Remove(w, n) ==
    /\ w \in members[n]
    /\ members' = [members EXCEPT ![n] = @ \ {w}]
    /\ \E next \in Successors(n, w, members[n] \ {w}) :
          ops' = [ops EXCEPT ![n] = next]
    /\ UNCHANGED online

Commanded(n) == members[n] \cap ops[n] # {}

Grant(t, n) ==
    /\ Commanded(n)
    /\ t \in online
    /\ ops' = [ops EXCEPT ![n] = @ \cup {t}]
    /\ UNCHANGED <<online, members>>

Revoke(t, n) ==
    /\ Commanded(n)
    /\ \E next \in Successors(n, t, members[n]) :
          ops' = [ops EXCEPT ![n] = next]
    /\ UNCHANGED <<online, members>>

Step ==
    \/ \E w \in Names : Arrive(w) \/ Depart(w)
    \/ \E w, v \in Names \cup Nameless : Rename(w, v)
    \/ \E w \in Names \cup Nameless, n \in ChanNames :
          Join(w, n) \/ Remove(w, n) \/ Grant(w, n) \/ Revoke(w, n)

Next ==
    \/ Step /\ sound /\ sound'
    \/ ~sound'

Spec == Init /\ [][Next]_vars

\* Every channel with members has an operator, members are online, and at most
\* one of them is without a nickname.
Orderly ==
    sound => /\ \A n \in ChanNames :
                    /\ members[n] \cup ops[n] \subseteq online \cup Nameless
                    /\ members[n] = {} <=> ops[n] = {}
             /\ \A v, w \in Anonymous : v = w
=============================================================================
