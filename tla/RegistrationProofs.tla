------------------------- MODULE RegistrationProofs -------------------------
(***************************************************************************)
(* Proofs about Registration, for any set of clients, nicknames, user      *)
(* names and passwords, any capacity and any number of pipelined lines.    *)
(***************************************************************************)
EXTENDS Registration, TLAPS

\* A client that is not connected has no session: the User of a connection
\* to come starts from scratch.
Blank ==
    \A c \in Conns : c \notin open =>
        nick[c] = NoName /\ user[c] = NoName /\ pwd[c] = EmptyPass /\ ~auth[c]

\* The only way to a password other than the empty one is PASS.
PassFromClient == \A c \in Conns : pwd[c] # EmptyPass => passSent[c]

\* The inductive invariant.
IInv == TypeOK /\ Blank /\ NickUnique /\ AuthGate /\ PassFromClient

USE ConnAssumption, NameAssumption, PassAssumption, BoundAssumption

LEMMA EmptyPassType == EmptyPass \in Passwords
BY DEF EmptyPass, Passwords

LEMMA StrippedType == ASSUME NEW p \in Passwords PROVE Stripped(p) \in Passwords
BY DEF Stripped, Passwords

LEMMA InitInv == Init => IInv
<1> SUFFICES ASSUME Init PROVE IInv
  OBVIOUS
<1>1. TypeOK
  BY EmptyPassType DEF Init, TypeOK, open, Slots
<1>2. QED
  BY <1>1 DEF Init, IInv, Blank, NickUnique, AuthGate, PassFromClient, open

\* The slot of a connected client is one of the vector's.
LEMMA SlotOfClient ==
  ASSUME TypeOK, NEW c \in open
  PROVE  c \in Conns /\ pos[c] \in Slots /\ pos[c] <= size /\ size \in Slots
BY DEF TypeOK, open, Slots

\* Erasing a client moves the others without two of them meeting.
LEMMA ForgetPositions ==
  ASSUME TypeOK, NEW c \in open, Forget(c)
  PROVE  /\ size' \in 0 .. MaxClients
         /\ pos' \in [Conns -> 0 .. size']
         /\ open' = open \ {c}
         /\ \A d, e \in open' : pos'[d] = pos'[e] => d = e
         /\ pending' \in [Slots -> 0 .. MaxBatch]
<1>1. /\ c \in Conns /\ pos[c] \in 1 .. size /\ size \in 1 .. MaxClients
      /\ \A d \in Conns : pos[d] \in 0 .. size
      /\ \A d, e \in open : pos[d] = pos[e] => d = e
  BY DEF TypeOK, open
<1>2. /\ size' = size - 1
      /\ \A d \in Conns : pos'[d] = IF d = c THEN 0
                            ELSE IF pos[d] > pos[c] THEN pos[d] - 1 ELSE pos[d]
      /\ pos' = [d \in Conns |-> pos'[d]]
  BY DEF Forget
<1>3. size' \in 0 .. MaxClients
  BY <1>1, <1>2
<1>4. ASSUME NEW d \in Conns
      PROVE  pos'[d] \in 0 .. size'
  <2>1. CASE d = c
    BY <2>1, <1>1, <1>2
  <2>2. CASE d # c /\ pos[d] = 0
    BY <2>2, <1>1, <1>2
  <2>3. CASE d # c /\ pos[d] # 0
    <3>1. d \in open /\ c \in open /\ pos[d] # pos[c]
      BY <2>3, <1>1 DEF open
    <3>2. QED
      BY <2>3, <3>1, <1>1, <1>2
  <2>4. QED
    BY <2>1, <2>2, <2>3
<1>5. pos' \in [Conns -> 0 .. size']
  BY <1>2, <1>4
<1>6. open' = open \ {c}
  BY <1>1, <1>2 DEF open
<1>7. ASSUME NEW d \in open', NEW e \in open', pos'[d] = pos'[e]
      PROVE  d = e
  <2>1. d \in open /\ e \in open /\ d # c /\ e # c /\ d \in Conns /\ e \in Conns
    BY <1>6 DEF open
  <2>2. pos[d] # pos[c] /\ pos[e] # pos[c]
    BY <2>1, <1>1
  <2>3. pos[d] = pos[e]
    BY <2>1, <2>2, <1>1, <1>2, <1>7
  <2>4. QED
    BY <2>1, <2>3, <1>1
<1>8. pending' \in [Slots -> 0 .. MaxBatch]
  BY <1>1 DEF Forget, TypeOK, Slots
<1>9. QED
  BY <1>3, <1>5, <1>6, <1>7, <1>8

-----------------------------------------------------------------------------
\* Steps that change no session: what they leave to prove of the invariant.
LEMMA SessionKept ==
  ASSUME IInv, UNCHANGED session, open' \subseteq Conns, open \subseteq open', TypeOK'
  PROVE  IInv'
<1> USE DEF IInv, session
<1>1. Blank'
  BY DEF Blank
<1>2. NickUnique'
  <2> SUFFICES ASSUME NEW c \in open', NEW d \in open', nick[c] = nick[d], nick[c] # NoName
               PROVE  c = d
    BY DEF NickUnique
  <2>1. c \in open /\ d \in open
    BY DEF Blank
  <2>2. QED
    BY <2>1 DEF NickUnique
<1>3. AuthGate'
  <2> SUFFICES ASSUME NEW c \in open', auth[c]
               PROVE  user[c] # NoName /\ PasswordFits(c)
    BY DEF AuthGate, PasswordFits
  <2>1. c \in open
    BY DEF Blank
  <2>2. QED
    BY <2>1 DEF AuthGate
<1>4. PassFromClient'
  BY DEF PassFromClient
<1>5. QED
  BY <1>1, <1>2, <1>3, <1>4

\* A client that is erased takes its session with it.
LEMMA ForgetInv ==
  ASSUME IInv, NEW c \in open, Forget(c), TypeOK'
  PROVE  IInv'
<1>1. TypeOK /\ Blank /\ NickUnique /\ AuthGate /\ PassFromClient
  BY DEF IInv
<1>2. open' = open \ {c} /\ c \in Conns
  BY <1>1, ForgetPositions DEF open
<1>3. /\ nick' = [nick EXCEPT ![c] = NoName]
      /\ user' = [user EXCEPT ![c] = NoName]
      /\ pwd' = [pwd EXCEPT ![c] = EmptyPass]
      /\ auth' = [auth EXCEPT ![c] = FALSE]
      /\ passSent' = [passSent EXCEPT ![c] = FALSE]
  BY DEF Forget
<1>4. /\ nick \in [Conns -> Nicks \cup {NoName}]
      /\ user \in [Conns -> UserNames \cup {NoName}]
      /\ pwd \in [Conns -> Passwords]
      /\ auth \in [Conns -> BOOLEAN]
      /\ passSent \in [Conns -> BOOLEAN]
      /\ open \subseteq Conns
  BY <1>1 DEF TypeOK, open
<1>5. Blank'
  BY <1>1, <1>2, <1>3, <1>4 DEF Blank
<1>6. NickUnique'
  BY <1>1, <1>2, <1>3, <1>4 DEF NickUnique
<1>7. AuthGate'
  BY <1>1, <1>2, <1>3, <1>4 DEF AuthGate, PasswordFits
<1>8. PassFromClient'
  BY <1>1, <1>2, <1>3, <1>4 DEF PassFromClient
<1>9. QED
  BY <1>5, <1>6, <1>7, <1>8 DEF IInv

\* What a command that is answered with an error leaves alone.
LEMMA AnswerType ==
  ASSUME IInv, NEW c \in Conns, TakeLine(c)
  PROVE  /\ c \in open
         /\ pending' \in [Slots -> 0 .. MaxBatch]
         /\ (ErrorReply => worker' \in open \cup {NoConn} /\ rc' \in {None, Ok, Drop})
         /\ \A result \in {Ok, Drop} : Return(result) =>
                worker' \in open \cup {NoConn} /\ rc' \in {None, Ok, Drop}
<1>1. c \in open /\ TypeOK
  BY DEF IInv, TypeOK, TakeLine
<1>2. pos[c] \in Slots
  BY <1>1, SlotOfClient
<1>3. pending' \in [Slots -> 0 .. MaxBatch]
  BY <1>1, <1>2 DEF TypeOK, TakeLine
<1>4. QED
  BY <1>1, <1>3 DEF TypeOK, ErrorReply, Return

LEMMA ConnectionSteps ==
  ASSUME IInv, NEW c \in Conns,
         \/ NewConnection(c) \/ Receive(c) \/ StartResponse(c)
         \/ EndResponse(c) \/ Lost(c)
  PROVE  IInv'
<1>1. TypeOK
  BY DEF IInv
<1>2. CASE NewConnection(c)
  <2>1. open' = open \cup {c}
    BY <1>1, <1>2 DEF NewConnection, TypeOK, open
  <2>2. TypeOK'
    <3>1. size' \in 0 .. MaxClients /\ pos' \in [Conns -> 0 .. size']
      BY <1>1, <1>2 DEF NewConnection, TypeOK
    <3>2. \A d, e \in open' : pos'[d] = pos'[e] => d = e
      BY <1>1, <1>2, <2>1 DEF NewConnection, TypeOK, open
    <3>3. QED
      BY <1>1, <1>2, <2>1, <3>1, <3>2 DEF NewConnection, TypeOK, session
  <2>3. QED
    BY <1>2, <2>1, <2>2, SessionKept DEF NewConnection, open
<1>3. CASE Receive(c)
  <2>1. open' = open
    BY <1>3 DEF Receive, clients, open
  <2>2. TypeOK'
    BY <1>1, <1>3, <2>1, SlotOfClient DEF Receive, TypeOK, clients, session
  <2>3. QED
    BY <1>3, <2>1, <2>2, SessionKept DEF Receive, open
<1>4. CASE StartResponse(c)
  <2>1. open' = open
    BY <1>4 DEF StartResponse, clients, open
  <2>2. TypeOK'
    BY <1>1, <1>4, <2>1 DEF StartResponse, TypeOK, clients, session
  <2>3. QED
    BY <1>4, <2>1, <2>2, SessionKept DEF StartResponse, open
<1>5. ASSUME Forget(c), c \in open, worker' = NoConn, rc' \in {None, Ok, Drop},
             UNCHANGED <<history>>
      PROVE  IInv'
  <2>1. TypeOK'
    BY <1>1, <1>5, ForgetPositions, EmptyPassType DEF Forget, TypeOK
  <2>2. QED
    BY <1>5, <2>1, ForgetInv
<1>6. CASE EndResponse(c)
  <2>1. c \in open
    BY <1>1, <1>6 DEF EndResponse, TypeOK
  <2>2. CASE rc = Drop
    BY <1>5, <1>6, <2>1, <2>2 DEF EndResponse
  <2>3. CASE rc # Drop
    <3>1. open' = open
      BY <1>6, <2>3 DEF EndResponse, clients, open
    <3>2. TypeOK'
      BY <1>1, <1>6, <2>3, <3>1 DEF EndResponse, TypeOK, clients, session
    <3>3. QED
      BY <1>6, <2>3, <3>1, <3>2, SessionKept DEF EndResponse, open
  <2>4. QED
    BY <2>2, <2>3
<1>7. CASE Lost(c)
  BY <1>1, <1>5, <1>7 DEF Lost, Idle, TypeOK
<1>8. QED
  BY <1>2, <1>3, <1>4, <1>6, <1>7

-----------------------------------------------------------------------------
LEMMA ErrorSteps ==
  ASSUME IInv, NEW c \in Conns, TakeLine(c), UNCHANGED <<clients, session>>,
         worker' \in open \cup {NoConn}, rc' \in {None, Ok, Drop},
         history' \subseteq Nicks \cup {NoName}
  PROVE  IInv'
<1>1. open' = open
  BY DEF clients, open
<1>2. TypeOK'
  BY <1>1, AnswerType DEF IInv, TypeOK, clients, session
<1>3. QED
  BY <1>1, <1>2, SessionKept DEF IInv, TypeOK, open

LEMMA RejectedInv == ASSUME IInv, NEW c \in Conns, Rejected(c) PROVE IInv'
BY ErrorSteps, AnswerType DEF Rejected, IInv, TypeOK

LEMMA OtherInv == ASSUME IInv, NEW c \in Conns, OtherCommand(c) PROVE IInv'
BY ErrorSteps, AnswerType DEF OtherCommand, IInv, TypeOK

LEMMA QuitInv == ASSUME IInv, NEW c \in Conns, CmdQUIT(c) PROVE IInv'
BY ErrorSteps, AnswerType DEF CmdQUIT, IInv, TypeOK

LEMMA PassInv ==
  ASSUME IInv, NEW c \in Conns, NEW p \in Passwords, CmdPASS(c, p)
  PROVE  IInv'
<1>1. TypeOK /\ Blank /\ NickUnique /\ AuthGate /\ PassFromClient
  BY DEF IInv
<1>2. TakeLine(c) /\ open' = open /\ UNCHANGED <<size, pos, nick, user, auth, history>>
  BY DEF CmdPASS, clients, open
<1>3. CASE PassAllowed(c)
  <2>1. /\ pwd' = [pwd EXCEPT ![c] = Stripped(p)]
        /\ passSent' = [passSent EXCEPT ![c] = TRUE]
        /\ Return(Ok)
        /\ ~auth[c]
    BY <1>3 DEF CmdPASS, PassAllowed
  <2>2. c \in open /\ pending' \in [Slots -> 0 .. MaxBatch]
        /\ worker' \in open \cup {NoConn} /\ rc' \in {None, Ok, Drop}
    BY <1>2, <2>1, AnswerType
  <2>3. pwd' \in [Conns -> Passwords] /\ passSent' \in [Conns -> BOOLEAN]
    BY <1>1, <2>1, StrippedType DEF TypeOK
  <2>4. TypeOK'
    BY <1>1, <1>2, <2>2, <2>3 DEF TypeOK
  <2>5. Blank' /\ NickUnique'
    BY <1>1, <1>2, <2>1, <2>2 DEF Blank, NickUnique, TypeOK
  <2>6. AuthGate'
    BY <1>1, <1>2, <2>1, <2>2 DEF AuthGate, PasswordFits, TypeOK
  <2>7. PassFromClient'
    BY <1>1, <2>1 DEF PassFromClient, TypeOK
  <2>8. QED
    BY <2>4, <2>5, <2>6, <2>7 DEF IInv
<1>4. CASE ~PassAllowed(c)
  BY <1>2, <1>4, ErrorSteps, AnswerType, <1>1 DEF CmdPASS, TypeOK, clients, session
<1>5. QED
  BY <1>3, <1>4

\* NICK and USER end in Authorization, which finds the names as they are now.
LEMMA NickInv ==
  ASSUME IInv, NEW c \in Conns, NEW n \in Nicks \cup {BadNick, NoName}, CmdNICK(c, n)
  PROVE  IInv'
<1>1. TypeOK /\ Blank /\ NickUnique /\ AuthGate /\ PassFromClient
  BY DEF IInv
<1>2. TakeLine(c) /\ open' = open /\ UNCHANGED <<size, pos, user, pwd, passSent>>
  BY DEF CmdNICK, clients, open
<1>3. ASSUME NickAllowed(c, n),
             nick' = [nick EXCEPT ![c] = n],
             Authorization(c, n, user[c], IF auth[c] THEN {nick[c]} ELSE {})
      PROVE  IInv'
  <2>1. n \in Nicks \cup {NoName} /\ \A d \in open : nick[d] # n
    BY <1>3 DEF NickAllowed, NickInUse
  <2>2. /\ auth' = [auth EXCEPT ![c] = @ \/
                      (n # NoName /\ user[c] # NoName /\ PasswordFits(c) /\ ~auth[c])]
        /\ history' \subseteq history \cup {n, nick[c]}
        /\ \E result \in {Ok, Drop} : Return(result)
    BY <1>3 DEF Authorization
  <2>3. c \in open /\ pending' \in [Slots -> 0 .. MaxBatch]
        /\ worker' \in open \cup {NoConn} /\ rc' \in {None, Ok, Drop}
    BY <1>2, <2>2, AnswerType
  <2>4. TypeOK'
    BY <1>1, <1>2, <1>3, <2>1, <2>2, <2>3 DEF TypeOK
  <2>5. Blank'
    BY <1>1, <1>2, <1>3, <2>2, <2>3 DEF Blank, TypeOK
  <2>6. NickUnique'
    BY <1>1, <1>2, <1>3, <2>1 DEF NickUnique, TypeOK
  <2>7. AuthGate'
    BY <1>1, <1>2, <2>2 DEF AuthGate, PasswordFits, TypeOK
  <2>8. PassFromClient'
    BY <1>1, <1>2 DEF PassFromClient
  <2>9. QED
    BY <2>4, <2>5, <2>6, <2>7, <2>8 DEF IInv
<1>4. ASSUME ErrorReply, UNCHANGED <<nick, auth, history>>
      PROVE  IInv'
  BY <1>1, <1>2, <1>4, ErrorSteps, AnswerType DEF TypeOK, clients, session
<1>5. QED
  BY <1>3, <1>4 DEF CmdNICK

LEMMA UserInv ==
  ASSUME IInv, NEW c \in Conns, NEW u \in UserNames, CmdUSER(c, u)
  PROVE  IInv'
<1>1. TypeOK /\ Blank /\ NickUnique /\ AuthGate /\ PassFromClient
  BY DEF IInv
<1>2. TakeLine(c) /\ open' = open /\ UNCHANGED <<size, pos, nick, pwd, passSent>>
  BY DEF CmdUSER, clients, open
<1>3. ASSUME UserAllowed(c),
             user' = [user EXCEPT ![c] = u],
             Authorization(c, nick[c], u, {})
      PROVE  IInv'
  <2>1. /\ auth' = [auth EXCEPT ![c] = @ \/
                      (nick[c] # NoName /\ u # NoName /\ PasswordFits(c) /\ ~auth[c])]
        /\ history' \subseteq history \cup {nick[c]}
        /\ \E result \in {Ok, Drop} : Return(result)
    BY <1>3 DEF Authorization
  <2>2. c \in open /\ pending' \in [Slots -> 0 .. MaxBatch]
        /\ worker' \in open \cup {NoConn} /\ rc' \in {None, Ok, Drop}
    BY <1>2, <2>1, AnswerType
  <2>3. TypeOK'
    BY <1>1, <1>2, <1>3, <2>1, <2>2 DEF TypeOK
  <2>4. Blank'
    BY <1>1, <1>2, <1>3, <2>1, <2>2 DEF Blank, TypeOK
  <2>5. NickUnique'
    BY <1>1, <1>2 DEF NickUnique
  <2>6. AuthGate'
    BY <1>1, <1>2, <1>3, <2>1 DEF AuthGate, PasswordFits, TypeOK
  <2>7. PassFromClient'
    BY <1>1, <1>2 DEF PassFromClient
  <2>8. QED
    BY <2>3, <2>4, <2>5, <2>6, <2>7 DEF IInv
<1>4. ASSUME ErrorReply, UNCHANGED <<user, auth, history>>
      PROVE  IInv'
  BY <1>1, <1>2, <1>4, ErrorSteps, AnswerType DEF TypeOK, clients, session
<1>5. QED
  BY <1>3, <1>4 DEF CmdUSER

-----------------------------------------------------------------------------
LEMMA StutterInv == IInv /\ UNCHANGED vars => IInv'
BY DEF IInv, vars, TypeOK, Blank, NickUnique, AuthGate, PassFromClient, PasswordFits, open

LEMMA NextInv == IInv /\ [Next]_vars => IInv'
<1> SUFFICES ASSUME IInv, [Next]_vars PROVE IInv'
  OBVIOUS
<1>1. CASE UNCHANGED vars
  BY <1>1, StutterInv
<1>2. ASSUME NEW c \in Conns,
             \/ NewConnection(c) \/ Receive(c) \/ StartResponse(c)
             \/ EndResponse(c) \/ Lost(c)
      PROVE  IInv'
  BY <1>2, ConnectionSteps
<1>3. ASSUME NEW c \in Conns, Command(c)
      PROVE  IInv'
  BY <1>3, RejectedInv, OtherInv, PassInv, NickInv, UserInv, QuitInv DEF Command
<1>4. QED
  BY <1>1, <1>2, <1>3 DEF Next

LEMMA Invariance == Spec => []IInv
<1>1. Init => IInv
  BY InitInv
<1>2. IInv /\ [Next]_vars => IInv'
  BY NextInv
<1>3. QED
  BY <1>1, <1>2, PTL DEF Spec

\* Every session is well formed at every moment: positions of connected
\* clients are distinct slots of the vector, whoever leaves.
THEOREM TypeCorrect == Spec => []TypeOK
BY Invariance, PTL DEF IInv

\* No two connected clients ever share a nickname (_nickInUse, _cmdNICK).
THEOREM NicknamesUnique == Spec => []NickUnique
BY Invariance, PTL DEF IInv

\* A registered client has a user name and the server's password, whatever it
\* sends after it registered (_authorization, _cmdPASS, _cmdUSER).
THEOREM RegisteredIsAuthorized == Spec => []AuthGate
BY Invariance, PTL DEF IInv

\* With a password set, nobody registers without PASS.
THEOREM PassIsMandatory ==
  ASSUME ServerPass # EmptyPass
  PROVE  Spec => []PassMandatory
<1>1. IInv => PassMandatory
  BY DEF IInv, AuthGate, PasswordFits, PassFromClient, PassMandatory, open
<1>2. QED
  BY <1>1, Invariance, PTL

\* A registered client keeps its user name, password and registration for as
\* long as it is connected.
THEOREM RegistrationIsFinal == Spec => IdentityFrozen
<1> DEFINE Frozen(c) == auth[c] => auth'[c] /\ user'[c] = user[c] /\ pwd'[c] = pwd[c]
<1>1. ASSUME IInv, [Next]_vars, NEW c \in open \cap open'
      PROVE  Frozen(c)
  <2>0. TypeOK /\ c \in Conns
    BY <1>1 DEF IInv, open
  <2>1. CASE UNCHANGED session
    BY <2>1 DEF session
  <2>2. ASSUME NEW d \in open, Forget(d)
        PROVE  Frozen(c)
    <3>1. c # d /\ d \in Conns
      BY <1>1, <2>0, <2>2, ForgetPositions DEF open
    <3>2. QED
      BY <2>0, <2>2, <3>1 DEF Forget, TypeOK
  <2>3. ASSUME NEW d \in Conns,
               \/ NewConnection(d) \/ Receive(d) \/ StartResponse(d)
               \/ EndResponse(d) \/ Lost(d)
        PROVE  Frozen(c)
    BY <2>0, <2>1, <2>2, <2>3
    DEF NewConnection, Receive, StartResponse, EndResponse, Lost, TypeOK
  <2>4. ASSUME NEW d \in Conns, NEW p \in Passwords, CmdPASS(d, p)
        PROVE  Frozen(c)
    BY <2>0, <2>4 DEF CmdPASS, PassAllowed, TypeOK
  <2>5. ASSUME NEW d \in Conns, NEW n \in Nicks \cup {BadNick, NoName}, CmdNICK(d, n)
        PROVE  Frozen(c)
    BY <2>0, <2>5 DEF CmdNICK, Authorization, TypeOK
  <2>6. ASSUME NEW d \in Conns, NEW u \in UserNames, CmdUSER(d, u)
        PROVE  Frozen(c)
    BY <2>0, <2>6 DEF CmdUSER, UserAllowed, Authorization, TypeOK
  <2>7. ASSUME NEW d \in Conns, Rejected(d) \/ OtherCommand(d) \/ CmdQUIT(d)
        PROVE  Frozen(c)
    BY <2>1, <2>7 DEF Rejected, OtherCommand, CmdQUIT
  <2>8. CASE UNCHANGED vars
    BY <2>1, <2>8 DEF vars, session
  <2>9. QED
    BY <1>1, <2>3, <2>4, <2>5, <2>6, <2>7, <2>8 DEF Next, Command
<1>2. IInv /\ [Next]_vars => [\A c \in open \cap open' : Frozen(c)]_vars
  BY <1>1
<1>3. QED
  BY <1>2, Invariance, PTL DEF Spec, IdentityFrozen
=============================================================================
