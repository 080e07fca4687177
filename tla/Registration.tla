---------------------------- MODULE Registration ----------------------------
(***************************************************************************)
(* Client sessions of the IRC server: accepting a connection, receiving a  *)
(* batch of command lines, executing them one after the other inside       *)
(* Server::_sendResponse, and registering with PASS, NICK and USER         *)
(* (commands/registerCommands.cpp, Command.cpp, parts of Server.cpp).      *)
(*                                                                         *)
(* The server is one thread.  While the loop of _sendResponse drains the   *)
(* queue of a client ("worker") nothing else runs; between two drains any  *)
(* client may connect, send or go away.  The text of a queued line cannot  *)
(* be observed before it is executed, so the queue is kept as the number   *)
(* of its lines and each line is chosen when it is executed.               *)
(*                                                                         *)
(* _clients is a vector of User objects.  Erasing one assigns every later  *)
(* User to the slot before its own, and User::operator= does not copy      *)
(* _raw_requests: a queue belongs to a slot of the vector, everything else *)
(* modelled here moves with the client.                                    *)
(***************************************************************************)
EXTENDS Naturals

CONSTANTS
    Conns,      \* sockets a client may hold
    MaxClients, \* bound on the clients connected at a time
    NoConn,     \* no client is being served
    Nicks,      \* nicknames _validateNick accepts, the empty one excluded
    BadNick,    \* any text _validateNick rejects
    NoName,     \* the empty string, as a nickname or a user name
    UserNames,  \* non-empty first parameters of USER
    Texts,      \* texts of passwords, without a leading colon
    ServerPass, \* argv[2], the password the server was started with
    MaxBatch    \* bound on the lines queued for one client

\* A password as the client or the operator wrote it: with or without a
\* leading ':', followed by a text.
Passwords == [colon : BOOLEAN, text : Texts]

CONSTANT NoText  \* the empty text

EmptyPass == [colon |-> FALSE, text |-> NoText]

ASSUME ConnAssumption == NoConn \notin Conns
ASSUME NameAssumption ==
    /\ BadNick \notin Nicks
    /\ NoName \notin Nicks
    /\ NoName # BadNick
    /\ NoName \notin UserNames
ASSUME PassAssumption ==
    /\ NoText \in Texts
    /\ ServerPass \in Passwords
ASSUME BoundAssumption == MaxBatch \in Nat /\ MaxClients \in Nat

VARIABLES
    size,      \* _clients.size()
    pos,       \* the slot of a client in _clients, 0 when it is not connected
    nick,      \* _info.nickname
    user,      \* _info.username
    pwd,       \* _pwd
    auth,      \* _authorized
    pending,   \* number of lines in the _raw_requests of each slot
    worker,    \* the client whose _sendResponse is running
    rc,        \* the local rc of _sendResponse
    history,   \* nicknames in UserHistory::_historyList
    passSent   \* history variable: the client has had a PASS accepted

clients == <<size, pos>>
session == <<nick, user, pwd, auth, passSent>>
vars == <<size, pos, nick, user, pwd, auth, pending, worker, rc, history,
          passSent>>

\* Values of rc: None is the -1 it is initialised with, Ok any non-negative
\* result of a handler, Drop the -2 that asks run() to disconnect the client.
None == "none"
Ok == "ok"
Drop == "drop"

Idle == worker = NoConn

Slots == 1 .. MaxClients

\* The clients in _clients.
open == {c \in Conns : pos[c] # 0}

-----------------------------------------------------------------------------
Init ==
    /\ size = 0
    /\ pos = [c \in Conns |-> 0]
    /\ nick = [c \in Conns |-> NoName]
    /\ user = [c \in Conns |-> NoName]
    /\ pwd = [c \in Conns |-> EmptyPass]
    /\ auth = [c \in Conns |-> FALSE]
    /\ pending = [k \in Slots |-> 0]
    /\ worker = NoConn
    /\ rc = None
    /\ history = {}
    /\ passSent = [c \in Conns |-> FALSE]

\* Server::newConnection pushes a freshly constructed User.
NewConnection(c) ==
    /\ Idle
    /\ c \notin open
    /\ size < MaxClients
    /\ size' = size + 1
    /\ pos' = [pos EXCEPT ![c] = size + 1]
    /\ UNCHANGED <<session, pending, worker, rc, history>>

\* Server::_reciveRequest: recv() returned data, whose lines are queued
\* behind those the client has not had executed yet.
Receive(c) ==
    /\ Idle
    /\ c \in open
    /\ \E n \in 1 .. MaxBatch :
          /\ pending[pos[c]] + n <= MaxBatch
          /\ pending' = [pending EXCEPT ![pos[c]] = @ + n]
    /\ UNCHANGED <<clients, session, worker, rc, history>>

\* Server::_sendResponse is entered for a writable client with a request.
StartResponse(c) ==
    /\ Idle
    /\ c \in open
    /\ pending[pos[c]] > 0
    /\ worker' = c
    /\ rc' = None
    /\ UNCHANGED <<clients, session, pending, history>>

\* Mutant: the clients behind the erased one keep their positions.
ForgetInPlace(c) ==
    /\ size' = size - 1
    /\ pos' = [pos EXCEPT ![c] = 0]
    /\ pending' = [pending EXCEPT ![size] = 0]
    /\ nick' = [nick EXCEPT ![c] = NoName]
    /\ user' = [user EXCEPT ![c] = NoName]
    /\ pwd' = [pwd EXCEPT ![c] = EmptyPass]
    /\ auth' = [auth EXCEPT ![c] = FALSE]
    /\ passSent' = [passSent EXCEPT ![c] = FALSE]

\* _clients.erase in _disconnect: every later client moves down one slot, the
\* queues stay where they are, and the last slot is destroyed.
Forget(c) ==
    /\ size' = size - 1
    /\ pos' = [d \in Conns |-> IF d = c THEN 0
                              ELSE IF pos[d] > pos[c] THEN pos[d] - 1
                              ELSE pos[d]]
    /\ pending' = [pending EXCEPT ![size] = 0]
    /\ nick' = [nick EXCEPT ![c] = NoName]
    /\ user' = [user EXCEPT ![c] = NoName]
    /\ pwd' = [pwd EXCEPT ![c] = EmptyPass]
    /\ auth' = [auth EXCEPT ![c] = FALSE]
    /\ passSent' = [passSent EXCEPT ![c] = FALSE]

\* The queue is empty: _sendResponse returns the rc of the LAST command it
\* executed, and run() disconnects the client when that is -2.
EndResponse(c) ==
    /\ worker = c
    /\ pending[pos[c]] = 0
    /\ worker' = NoConn
    /\ rc' = None
    /\ IF rc = Drop
       THEN Forget(c)
       ELSE UNCHANGED <<clients, session, pending>>
    /\ UNCHANGED <<history>>

\* The peer closed the connection, recv() failed, or the client did not
\* answer a PING: run() calls _disconnect without any command of the client.
Lost(c) ==
    /\ Idle
    /\ c \in open
    /\ Forget(c)
    /\ UNCHANGED <<worker, rc, history>>

-----------------------------------------------------------------------------
\* One iteration of the loop of _sendResponse takes a line off the queue ...
TakeLine(c) ==
    /\ worker = c
    /\ pending[pos[c]] > 0
    /\ pending' = [pending EXCEPT ![pos[c]] = @ - 1]

\* ... and stores what its handler returned.
Return(result) == rc' = result /\ UNCHANGED worker

\* utils::_errorSend returns the result of send(): on -1 _sendResponse gives
\* up at once and leaves the other lines queued.
ErrorReply ==
    \/ Return(Ok)
    \/ worker' = NoConn /\ rc' = None

\* A line answered with an error and nothing else: a parameter is missing, the
\* command is unknown, or the client is not registered and the command is none
\* of QUIT, PASS, USER and NICK.
Rejected(c) ==
    /\ TakeLine(c)
    /\ ErrorReply
    /\ UNCHANGED <<clients, session, history>>

\* Any other command of a registered client.  PING alone can return -2, when
\* the client has been silent for too long.
OtherCommand(c) ==
    /\ TakeLine(c)
    /\ auth[c]
    /\ \E result \in {Ok, Drop} : Return(result)
    /\ UNCHANGED <<clients, session, history>>

\* Command::_cmdPASS drops a leading ':' that is not part of the password.
Stripped(p) ==
    IF p.colon /\ p # ServerPass THEN [p EXCEPT !.colon = FALSE] ELSE p

\* Mutant: PASS is open to registered clients as well.
PassAlwaysAllowed(c) == TRUE

PassAllowed(c) == ~auth[c]

CmdPASS(c, p) ==
    /\ TakeLine(c)
    /\ IF PassAllowed(c)
       THEN /\ pwd' = [pwd EXCEPT ![c] = Stripped(p)]
            /\ passSent' = [passSent EXCEPT ![c] = TRUE]
            /\ Return(Ok)
       ELSE /\ ErrorReply
            /\ UNCHANGED <<pwd, passSent>>
    /\ UNCHANGED <<clients, nick, user, auth, history>>

\* Mutant: a client that has set no password passes.
PasswordFitsOrUnset(c) == pwd[c] \in {EmptyPass, ServerPass}

\* The password test of Command::_authorization.
PasswordFits(c) == ServerPass = EmptyPass \/ pwd[c] = ServerPass

\* Command::_authorization, called by NICK and USER after they have stored the
\* names n and u: it registers the client once both names are there and the
\* password fits, and returns -2 when it does not.  past is what the caller
\* itself adds to the history.
Authorization(c, n, u, past) ==
    LET complete == n # NoName /\ u # NoName
        registers == complete /\ PasswordFits(c) /\ ~auth[c]
    IN  /\ auth' = [auth EXCEPT ![c] = @ \/ registers]
        /\ history' = history \cup past \cup (IF registers THEN {n} ELSE {})
        /\ Return(IF complete /\ ~PasswordFits(c) THEN Drop ELSE Ok)

\* Mutant: only registered clients hold their nickname.
NickRegistered(n) == \E d \in open : auth[d] /\ nick[d] = n

\* Command::_nickInUse answers the other way round from what its name says.
NickInUse(n) == \E d \in open : nick[d] = n

NickAllowed(c, n) == n # BadNick /\ n # nick[c] /\ ~NickInUse(n)

CmdNICK(c, n) ==
    /\ TakeLine(c)
    /\ \/ /\ NickAllowed(c, n)
          /\ nick' = [nick EXCEPT ![c] = n]
          /\ Authorization(c, n, user[c], IF auth[c] THEN {nick[c]} ELSE {})
       \/ /\ ~NickAllowed(c, n)
          /\ ErrorReply
          /\ UNCHANGED <<nick, auth, history>>
    /\ UNCHANGED <<clients, user, pwd, passSent>>

\* Mutant: USER may be sent again.
UserAlwaysAllowed(c) == TRUE

UserAllowed(c) == ~auth[c]

CmdUSER(c, u) ==
    /\ TakeLine(c)
    /\ \/ /\ UserAllowed(c)
          /\ user' = [user EXCEPT ![c] = u]
          /\ Authorization(c, nick[c], u, {})
       \/ /\ ~UserAllowed(c)
          /\ ErrorReply
          /\ UNCHANGED <<user, auth, history>>
    /\ UNCHANGED <<clients, nick, pwd, passSent>>

\* Command::_cmdQUIT is open to unregistered clients too.
CmdQUIT(c) ==
    /\ TakeLine(c)
    /\ history' = history \cup {nick[c]}
    /\ Return(Drop)
    /\ UNCHANGED <<clients, session>>

Command(c) ==
    \/ Rejected(c)
    \/ OtherCommand(c)
    \/ \E p \in Passwords : CmdPASS(c, p)
    \/ \E n \in Nicks \cup {BadNick, NoName} : CmdNICK(c, n)
    \/ \E u \in UserNames : CmdUSER(c, u)
    \/ CmdQUIT(c)

Next ==
    \E c \in Conns :
        \/ NewConnection(c)
        \/ Receive(c)
        \/ StartResponse(c)
        \/ Command(c)
        \/ EndResponse(c)
        \/ Lost(c)

Spec == Init /\ [][Next]_vars
-----------------------------------------------------------------------------
\* Type invariant of the sessions.
TypeOK ==
    /\ size \in 0 .. MaxClients
    /\ pos \in [Conns -> 0 .. size]
    /\ \A c, d \in open : pos[c] = pos[d] => c = d
    /\ nick \in [Conns -> Nicks \cup {NoName}]
    /\ user \in [Conns -> UserNames \cup {NoName}]
    /\ pwd \in [Conns -> Passwords]
    /\ auth \in [Conns -> BOOLEAN]
    /\ pending \in [Slots -> 0 .. MaxBatch]
    /\ worker \in open \cup {NoConn}
    /\ rc \in {None, Ok, Drop}
    /\ history \subseteq Nicks \cup {NoName}
    /\ passSent \in [Conns -> BOOLEAN]

\* No two clients ever have the same non-empty nickname, whatever the order in
\* which they take, change and give up nicknames: getUserByName, KICK, INVITE,
\* MODE and PRIVMSG find a client by its nickname alone.
NickUnique ==
    \A c, d \in open : nick[c] = nick[d] /\ nick[c] # NoName => c = d

\* A registered client has given its user name, and the password it last had
\* accepted is the server's: nothing it can send afterwards undoes the test
\* Command::_authorization made when it registered.
AuthGate ==
    \A c \in open : auth[c] => user[c] # NoName /\ PasswordFits(c)

\* "Mandatory conditions for registering a user: a PASS message, a NICK
\* message, a USER message" (README.md:17-20): nobody is registered without
\* having sent a PASS message.
PassMandatory == \A c \in open : auth[c] => passSent[c]

\* While its connection lasts, a registered client stays registered under the
\* same user name and password, whatever it sends.
IdentityFrozen ==
    [][\A c \in open \cap open' :
          auth[c] => auth'[c] /\ user'[c] = user[c] /\ pwd'[c] = pwd[c]]_vars

\* A client whose command returned -2 (QUIT, or names with a wrong password)
\* has no further command executed: the next thing the loop does with it is
\* to disconnect it.
DropIsFinal == [][rc = Drop => worker \notin open']_vars
=============================================================================
