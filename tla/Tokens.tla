------------------------------- MODULE Tokens -------------------------------
(***************************************************************************)
(* From the bytes of one connection to the requests that are executed:     *)
(* Server::_reciveRequest, utils::split and User::requestToVector.         *)
(*                                                                         *)
(* The connection is a stream of characters that recv() returns in packets *)
(* of any length.  Nothing is kept of a packet but its queued lines: the   *)
(* code takes the end of a packet for the end of a line.  std::string::npos *)
(* is the position behind the last character.  Every loop of the code has  *)
(* one action per turn.  Of the execution of a request only PONG is there, *)
(* which does not survive an empty parameter; every reply succeeds.        *)
(***************************************************************************)
EXTENDS Integers, Sequences, SequencesExt

CONSTANTS
    Letters,   \* characters of words
    Pong,      \* one of them, a word of which is the command PONG
    Blank,     \* ' ' or '\t'
    CR, LF,    \* '\r' and '\n'
    NUL,       \* '\0', which ends the string made of a packet
    MaxInput,  \* MAX_INPUT (510): at most so much of the stream at once
    MaxStream  \* bound on the length of the stream

ASSUME LengthAssumption == MaxInput \in Nat \ {0} /\ MaxStream \in Nat
ASSUME CharAssumption ==
    /\ Pong \in Letters
    /\ Blank \notin {CR, LF, NUL} /\ CR \notin {LF, NUL} /\ LF # NUL
    /\ Letters \cap {Blank, CR, LF, NUL} = {}

VARIABLES
    stream,   \* all the peer will send
    at,       \* how much of it has been received
    pc,       \* where the thread is
    request,  \* request of _reciveRequest
    i,        \* i of split
    queue,    \* _raw_requests
    line,     \* request of requestToVector
    start,    \* start of requestToVector
    words,    \* _request
    status,   \* "up", "terminated" (uncaught exception) or "undefined"
    executed, \* history variable: the requests Command has executed
    ends      \* history variable: where in the stream packets ended

reading == <<stream, at, ends>>
splitting == <<request, i>>
cutting == <<line, start, words, executed>>
vars == <<reading, splitting, cutting, queue, pc, status>>

Chars == Letters \cup {Blank, CR, LF, NUL}

\* find_first_of: the first place from k on with one of the characters C.
FirstOf(s, k, C) ==
    CHOOSE j \in k .. Len(s) + 1 :
        /\ j <= Len(s) => s[j] \in C
        /\ \A l \in k .. j - 1 : s[l] \notin C

FirstNotOf(s, k, C) == FirstOf(s, k, Chars \ C)

Init ==
    /\ stream \in UNION {[1 .. k -> Chars] : k \in 0 .. MaxStream}
    /\ at = 0
    /\ pc = "recv"
    /\ request = <<>>
    /\ i = 1
    /\ queue = <<>>
    /\ line = <<>>
    /\ start = 1
    /\ words = <<>>
    /\ status = "up"
    /\ executed = <<>>
    /\ ends = {}

-----------------------------------------------------------------------------
\* _reciveRequest

\* A packet of n characters, up to its first NUL, is the request.  The branch
\* for requests of more than 512 characters is out of reach.
Recv(n) ==
    /\ status = "up"
    /\ pc = "recv"
    /\ at + n <= Len(stream)
    /\ LET packet == SubSeq(stream, at + 1, at + n)
       IN  request' = SubSeq(packet, 1, FirstOf(packet, 1, {NUL}) - 1)
    /\ at' = at + n
    /\ ends' = ends \cup {at + n}
    /\ pc' = "crlf"
    /\ UNCHANGED <<stream, i, cutting, queue, status>>

\* bzero clears all but the last byte of the buffer: a packet that fills it and
\* holds no NUL is followed by whatever is there.
RecvUnended ==
    /\ status = "up"
    /\ pc = "recv"
    /\ at + MaxInput <= Len(stream)
    /\ \A k \in at + 1 .. at + MaxInput : stream[k] # NUL
    /\ status' = "undefined"
    /\ UNCHANGED <<reading, splitting, cutting, queue, pc>>

HasCRLF(s, k) == s[k] = CR /\ s[k + 1] = LF

\* Mutant: line ends are made "\r\n" again.
ReplaceInKind ==
    /\ status = "up"
    /\ pc = "crlf"
    /\ \E k \in 1 .. Len(request) - 1 : HasCRLF(request, k)
    /\ UNCHANGED vars

\* The first "\r\n" becomes "\n", which may make another one.
ReplaceCRLF ==
    /\ status = "up"
    /\ pc = "crlf"
    /\ \E k \in 1 .. Len(request) - 1 :
          /\ HasCRLF(request, k)
          /\ \A j \in 1 .. k - 1 : ~HasCRLF(request, j)
          /\ request' = [j \in 1 .. Len(request) - 1 |->
                            IF j < k THEN request[j] ELSE request[j + 1]]
    /\ UNCHANGED <<reading, i, cutting, queue, pc, status>>

\* A request of one character is dropped.
Queue ==
    /\ status = "up"
    /\ pc = "crlf"
    /\ \A k \in 1 .. Len(request) - 1 : ~HasCRLF(request, k)
    /\ pc' = IF Len(request) > 1 THEN "split" ELSE "drain"
    /\ i' = 1
    /\ UNCHANGED <<reading, request, cutting, queue, status>>

-----------------------------------------------------------------------------
\* split

\* Mutant: the '\n' is skipped with the line, also where there is none.
SplitPastEnd ==
    /\ status = "up"
    /\ pc = "split"
    /\ i <= Len(request)
    /\ LET first == FirstNotOf(request, i, {LF})
           j == FirstOf(request, first, {LF})
           last == IF j > Len(request) THEN j - 1 ELSE j
       IN  /\ i' = j + 1
           /\ queue' = IF first > Len(request) THEN queue
                       ELSE Append(queue, SubSeq(request, first, last))
    /\ UNCHANGED <<reading, request, cutting, pc, status>>

\* Mutant: the '\n' is left out (include is false).
SplitExcluding ==
    /\ status = "up"
    /\ pc = "split"
    /\ i <= Len(request)
    /\ LET first == FirstNotOf(request, i, {LF})
           j == FirstOf(request, first, {LF})
       IN  /\ i' = j
           /\ queue' = IF first > Len(request) THEN queue
                       ELSE Append(queue, SubSeq(request, first, j - 1))
    /\ UNCHANGED <<reading, request, cutting, pc, status>>

\* One turn: past every '\n', then a line with its '\n', if it has one.
Split ==
    /\ status = "up"
    /\ pc = "split"
    /\ i <= Len(request)
    /\ LET first == FirstNotOf(request, i, {LF})
           j == FirstOf(request, first, {LF})
           last == IF j > Len(request) THEN j - 1 ELSE j
       IN  /\ i' = j
           /\ queue' = IF first > Len(request) THEN queue
                       ELSE Append(queue, SubSeq(request, first, last))
    /\ UNCHANGED <<reading, request, cutting, pc, status>>

SplitDone ==
    /\ status = "up"
    /\ pc = "split"
    /\ i > Len(request)
    /\ pc' = "drain"
    /\ UNCHANGED <<reading, splitting, cutting, queue, status>>

-----------------------------------------------------------------------------
\* _sendResponse and requestToVector

TakeLine ==
    /\ status = "up"
    /\ pc = "drain"
    /\ queue # <<>>
    /\ queue' = Tail(queue)
    /\ line' = Head(queue)
    /\ start' = FirstNotOf(line', 1, {Blank})
    /\ words' = <<>>
    /\ pc' = "words"
    /\ UNCHANGED <<reading, splitting, executed, status>>

\* Mutant: one blank is skipped, not all of them.
NextWordSkippingOne ==
    /\ status = "up"
    /\ pc = "words"
    /\ LET end == FirstOf(line, start, {Blank})
       IN  /\ end <= Len(line)
           /\ words' = Append(words, SubSeq(line, start, end - 1))
           /\ start' = end + 1
    /\ UNCHANGED <<reading, splitting, line, executed, queue, pc, status>>

\* One turn of the loop, when a blank follows the word.
NextWord ==
    /\ status = "up"
    /\ pc = "words"
    /\ LET end == FirstOf(line, start, {Blank})
       IN  /\ end <= Len(line)
           /\ words' = Append(words, SubSeq(line, start, end - 1))
           /\ start' = FirstNotOf(line, end, {Blank})
    /\ UNCHANGED <<reading, splitting, line, executed, queue, pc, status>>

\* Mutant: the last character is cut off without a look.
CutLast(word) == SubSeq(word, 1, Len(word) - 1)

\* The last word without its '\n'.
Chopped(word) ==
    IF word[Len(word)] = LF THEN SubSeq(word, 1, Len(word) - 1) ELSE word

\* The loop has ended, and what is behind start is the last word.  With nothing
\* there start is npos, substr throws, and nothing catches it.
LastWord ==
    /\ status = "up"
    /\ pc = "words"
    /\ FirstOf(line, start, {Blank}) > Len(line)
    /\ IF start > Len(line)
       THEN /\ status' = "terminated"
            /\ UNCHANGED <<words, pc>>
       ELSE /\ words' = Append(words, Chopped(SubSeq(line, start, Len(line))))
            /\ pc' = "execute"
            /\ UNCHANGED status
    /\ UNCHANGED <<reading, splitting, line, start, executed, queue>>

Execute ==
    /\ status = "up"
    /\ pc = "execute"
    /\ executed' = Append(executed, words)
    /\ pc' = "drain"
    /\ UNCHANGED <<reading, splitting, line, start, words, queue, status>>

\* param[0].substr(1, ...) of an empty parameter throws; the client need only be
\* registered.
PongThrows ==
    /\ status = "up"
    /\ pc = "execute"
    /\ words = <<<<Pong>>, <<>>>>
    /\ status' = "terminated"
    /\ UNCHANGED <<reading, splitting, cutting, queue, pc>>

Drained ==
    /\ status = "up"
    /\ pc = "drain"
    /\ queue = <<>>
    /\ pc' = "recv"
    /\ UNCHANGED <<reading, splitting, cutting, queue, status>>

-----------------------------------------------------------------------------
Work ==
    \/ ReplaceCRLF
    \/ Queue
    \/ Split
    \/ SplitDone
    \/ TakeLine
    \/ NextWord
    \/ LastWord
    \/ Execute
    \/ PongThrows
    \/ Drained

Next == (\E n \in 1 .. MaxInput : Recv(n)) \/ RecvUnended \/ Work

Spec == Init /\ [][Next]_vars

\* The loops run by themselves; the peer need not send anything.
FairSpec == Spec /\ WF_vars(Work)

-----------------------------------------------------------------------------
\* What was received, and whether packets fell together with lines of text.
Received == SubSeq(stream, 1, at)
Whole == \A e \in ends : stream[e] = LF
NoNUL == \A k \in 1 .. at : stream[k] # NUL

\* The maximal parts of s without the characters C, in their order.
Parts(s, C) ==
    FlattenSeq([k \in 1 .. Len(s) |->
                   IF s[k] \notin C /\ (k = 1 \/ s[k - 1] \in C)
                   THEN <<SubSeq(s, k, FirstOf(s, k, C) - 1)>> ELSE <<>>])

\* A line of a text, without the '\r' at its end.
Trimmed(s) == SubSeq(s, 1, CHOOSE k \in 0 .. Len(s) : /\ k > 0 => s[k] # CR
                                                      /\ \A l \in k + 1 .. Len(s) : s[l] = CR)

\* Its words, the last one empty when a blank comes last.
WordsOf(s) ==
    IF s[Len(s)] = Blank THEN Append(Parts(s, {Blank}), <<>>) ELSE Parts(s, {Blank})

\* The requests a text of whole lines consists of; empty lines are none.
RequestsOf(text) ==
    LET lines == Parts(text, {LF})
    IN  FlattenSeq([k \in 1 .. Len(lines) |->
                       IF Trimmed(lines[k]) = <<>> THEN <<>> ELSE <<WordsOf(Trimmed(lines[k]))>>])

\* The letters of a text, in their order.
LettersOf(s) ==
    FlattenSeq([k \in 1 .. Len(s) |-> IF s[k] \in Letters THEN <<s[k]>> ELSE <<>>])

\* Every place of the loops is within its string, or right behind it, and no
\* line that is queued is empty, or has a '\n' but at its end.
TypeOK ==
    /\ at \in 0 .. Len(stream)
    /\ ends \subseteq 1 .. at
    /\ pc \in {"recv", "crlf", "split", "drain", "words", "execute"}
    /\ status \in {"up", "terminated", "undefined"}
    /\ request \in Seq(Chars \ {NUL})
    /\ i \in 1 .. Len(request) + 1 \/ pc \in {"recv", "crlf"}
    /\ start \in 1 .. Len(line) + 1
    /\ \A q \in 1 .. Len(queue) :
          queue[q] # <<>> /\ \A k \in 1 .. Len(queue[q]) : queue[q][k] = LF => 1 < k /\ k = Len(queue[q])

\* As long as packets end where lines end, it does not matter how many lines
\* came in one: the requests executed are those the text consists of.
WholeLines == (pc = "recv" /\ status = "up" /\ Whole /\ NoNUL) => executed = RequestsOf(Received)

\* Wherever packets end, a line is cut in pieces but not lost: each letter is
\* executed once and in its order.  Only what follows a NUL, and a packet of one
\* character, are dropped.
NothingLost ==
    (/\ pc = "recv" /\ status = "up" /\ NoNUL
     /\ \A e \in ends : stream[e] \in Letters => e > 1 /\ e - 1 \notin ends) =>
        LettersOf(FlattenSeq(FlattenSeq(executed))) = LettersOf(Received)

\* The server is ended by two kinds of text only: a packet that has a blank for
\* the last character before its end, or its NUL; and the request PONG with
\* nothing but blanks behind it.  No other blanks, line ends or pieces of lines
\* make substr throw.
StopsOnlyAtBlank ==
    status = "terminated" =>
        \E k \in 1 .. at :
            \/ /\ stream[k] = Blank
               /\ k = at \/ (stream[k + 1] = NUL /\ \A e \in ends : e < k \/ e = at)
            \/ /\ stream[k] = Pong
               /\ k - 1 \in ends \cup {0} \/ stream[k - 1] \in {LF, Blank}
               /\ LET behind == FirstNotOf(Received, k + 1, {Blank})
                  IN  behind \in k + 2 .. at /\ stream[behind] \in {CR, LF}

\* Whatever the packet, its loops end, and the server goes on to the next one.
LoopsEnd == pc # "recv" ~> (pc = "recv" \/ status = "terminated")
=============================================================================
