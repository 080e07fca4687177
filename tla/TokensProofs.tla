---------------------------- MODULE TokensProofs ----------------------------
(***************************************************************************)
(* Proofs about Tokens: that the places of the loops stay within their     *)
(* strings, which texts end the server, that no letter is lost, and that   *)
(* whole lines are executed as what they are.                              *)
(*                                                                         *)
(* What substr throws at is traced back from the words to the line, the    *)
(* queue, the request and at last the stream: Explained says of each that  *)
(* what is dangerous in it comes from a place in the stream that           *)
(* StopsOnlyAtBlank admits.                                                *)
(*                                                                         *)
(* What was received is, at every step, what has been executed, what is    *)
(* cut into words, what is queued and what is not split yet, one after the *)
(* other.  Accounted says so of the letters, Requested of the requests;    *)
(* a step moves a string from one of the four to the one before it, by     *)
(* what LettersOf and RequestsOf make of a string that is cut in two.      *)
(***************************************************************************)
EXTENDS Tokens, SequenceLemmas, TLAPS

Text == Seq(Chars \ {NUL})

Typed ==
    /\ stream \in Seq(Chars)
    /\ line \in Text
    /\ queue \in Seq(Text)
    /\ words \in Seq(Text)
    /\ TypeOK

\* What substr throws at in a line: a blank at its end, or a word PONG with
\* nothing but blanks behind it.
EndsBlank(s) == s # <<>> /\ s[Len(s)] = Blank

PongAt(s, p, b) ==
    /\ p + 1 < b
    /\ s[p] = Pong /\ (p = 1 \/ s[p - 1] \in {LF, Blank})
    /\ s[b] \in {CR, LF} /\ \A l \in p + 1 .. b - 1 : s[l] = Blank
EndsInPong(s) == \E p, b \in 1 .. Len(s) : PongAt(s, p, b)

\* Where they come from.
BlankReceived ==
    \E k \in 1 .. at : /\ stream[k] = Blank
                       /\ \/ k = at
                          \/ stream[k + 1] = NUL /\ \A e \in ends : e < k \/ e = at
PongReceived ==
    \E k, b \in 1 .. at :
        /\ k + 1 < b
        /\ stream[k] = Pong /\ (k - 1 \in ends \cup {0} \/ stream[k - 1] \in {LF, Blank})
        /\ stream[b] \in {CR, LF} /\ \A l \in k + 1 .. b - 1 : stream[l] = Blank

Explained(s) == (EndsBlank(s) => BlankReceived) /\ (EndsInPong(s) => PongReceived)

\* What requestToVector has read of the line.
Skipped ==
    /\ start <= Len(line) => line[start] # Blank
    /\ start = Len(line) + 1 => EndsBlank(line)
    /\ \A m \in 1 .. Len(words) : words[m] # <<>>
    /\ words = <<>> => \A l \in 1 .. start - 1 : line[l] = Blank
    /\ words = <<<<Pong>>>> =>
          \E p \in 1 .. Len(line) : /\ p + 1 < start
                                    /\ line[p] = Pong /\ (p = 1 \/ line[p - 1] = Blank)
                                    /\ \A l \in p + 1 .. start - 1 : line[l] = Blank

Origins ==
    /\ pc \in {"recv", "crlf"} => queue = <<>>
    /\ at \in ends \cup {0}
    /\ pc # "recv" => Explained(request)
    /\ pc = "split" => i = 1 \/ i = Len(request) + 1 \/ request[i] = LF
    /\ \A q \in 1 .. Len(queue) : Explained(queue[q])
    /\ pc \in {"words", "execute"} => line # <<>> /\ Explained(line)
    /\ pc = "words" => Skipped
    /\ pc = "execute" /\ words = <<<<Pong>>, <<>>>> => EndsInPong(line)
    /\ status = "terminated" => BlankReceived \/ PongReceived

-----------------------------------------------------------------------------
\* Places in strings

USE CharAssumption, LengthAssumption

\* find_first_of stops at the first place that has one of the characters, or
\* behind the last place.
LEMMA FirstOfFacts ==
  ASSUME NEW S, NEW s \in Seq(S), NEW k \in 1 .. Len(s) + 1, NEW C
  PROVE  /\ FirstOf(s, k, C) \in k .. Len(s) + 1
         /\ FirstOf(s, k, C) <= Len(s) => s[FirstOf(s, k, C)] \in C
         /\ \A l \in k .. FirstOf(s, k, C) - 1 : s[l] \notin C
<1> DEFINE T == {j \in k .. Len(s) + 1 : j <= Len(s) => s[j] \in C}
<1>1. T \subseteq Nat /\ Len(s) + 1 \in T
  OBVIOUS
<1>2. PICK j \in T : \A l \in T : j <= l
  <2> HIDE DEF T
  <2> QED BY <1>1, LeastNat
<1>3. /\ j \in k .. Len(s) + 1
      /\ j <= Len(s) => s[j] \in C
      /\ \A l \in k .. j - 1 : s[l] \notin C
  BY <1>2
<1>4. QED
  BY <1>3 DEF FirstOf

LEMMA FirstNotOfFacts ==
  ASSUME NEW s \in Seq(Chars), NEW k \in 1 .. Len(s) + 1, NEW C
  PROVE  /\ FirstNotOf(s, k, C) \in k .. Len(s) + 1
         /\ FirstNotOf(s, k, C) <= Len(s) => s[FirstNotOf(s, k, C)] \notin C
         /\ \A l \in k .. FirstNotOf(s, k, C) - 1 : s[l] \in C
<1> DEFINE j == FirstNotOf(s, k, C)
<1>1. /\ j \in k .. Len(s) + 1
      /\ j <= Len(s) => s[j] \in Chars \ C
      /\ \A l \in k .. j - 1 : s[l] \notin Chars \ C
  BY FirstOfFacts DEF FirstNotOf
<1>2. \A l \in k .. j - 1 : l \in 1 .. Len(s)
  BY <1>1
<1>3. QED
  BY <1>1, <1>2

-----------------------------------------------------------------------------
\* What the actions do to the strings

\* A packet becomes the request up to its first NUL.
LEMMA RecvFacts ==
  ASSUME Typed, NEW n \in 1 .. MaxInput, Recv(n)
  PROVE  /\ request' \in Text /\ Len(request') \in 0 .. n
         /\ at \in Nat /\ n \in Nat /\ at' = at + n /\ at' \in 1 .. Len(stream)
         /\ \A k \in 1 .. Len(request') : at + k \in 1 .. at' /\ request'[k] = stream[at + k]
         /\ Len(request') < n => stream[at + Len(request') + 1] = NUL
<1> DEFINE packet == SubSeq(stream, at + 1, at + n)
           f == FirstOf(packet, 1, {NUL})
<1>1. /\ stream \in Seq(Chars) /\ at \in 0 .. Len(stream) /\ n \in Nat /\ n >= 1
      /\ at' = at + n /\ at + n <= Len(stream) /\ request' = SubSeq(packet, 1, f - 1)
  BY DEF Typed, TypeOK, Recv
<1>2. /\ packet \in Seq(Chars) /\ Len(packet) = n
      /\ \A k \in 1 .. n : at + k \in 1 .. Len(stream) /\ packet[k] = stream[at + k]
  <2>1. at + 1 \in 1 .. Len(stream) + 1 /\ at + n \in 0 .. Len(stream) /\ at + 1 <= at + n + 1
    BY <1>1
  <2>2. /\ packet \in Seq(Chars) /\ Len(packet) = at + n + 1 - (at + 1)
        /\ \A k \in 1 .. at + n + 1 - (at + 1) :
              at + 1 + k - 1 \in 1 .. Len(stream) /\ packet[k] = stream[at + 1 + k - 1]
    BY <1>1, <2>1, PartFacts
  <2>3. at + n + 1 - (at + 1) = n /\ \A k \in 1 .. n : at + 1 + k - 1 = at + k
    BY <1>1
  <2> HIDE DEF packet
  <2>4. QED
    BY <2>2, <2>3
<1> HIDE DEF packet
<1>3. /\ f \in 1 .. n + 1 /\ (f <= n => packet[f] = NUL)
      /\ \A k \in 1 .. f - 1 : packet[k] # NUL
  BY <1>1, <1>2, FirstOfFacts
<1> HIDE DEF f
<1>4. /\ request' \in Text /\ Len(request') = f - 1
      /\ \A k \in 1 .. f - 1 : request'[k] = packet[k]
  <2>1. \A k \in 1 .. f - 1 : packet[k] \in Chars \ {NUL}
    BY <1>1, <1>2, <1>3
  <2>2. f - 1 \in Int /\ 1 \in Int /\ f - 1 - 1 + 1 = f - 1 /\ (1 <= f - 1 \/ f - 1 = 0)
        /\ \A k \in 1 .. f - 1 : 1 + k - 1 = k
    BY <1>1, <1>3
  <2>3. /\ request' \in Seq(Chars \ {NUL})
        /\ Len(request') = IF 1 <= f - 1 THEN f - 1 - 1 + 1 ELSE 0
        /\ \A k \in 1 .. f - 1 - 1 + 1 : request'[k] = packet[1 + k - 1]
    BY <1>1, <2>1, <2>2, ST!SubSeqProperties
  <2>4. QED
    BY <2>2, <2>3 DEF Text
<1>5. QED
  BY <1>1, <1>2, <1>3, <1>4

LEMMA ReplaceFacts ==
  ASSUME Typed, ReplaceCRLF
  PROVE  \E k \in 1 .. Len(request) - 1 :
            /\ request[k] = CR /\ request[k + 1] = LF
            /\ request' \in Text /\ Len(request') = Len(request) - 1
            /\ \A j \in 1 .. Len(request) - 1 :
                  request'[j] = IF j < k THEN request[j] ELSE request[j + 1]
<1>1. PICK k \in 1 .. Len(request) - 1 :
          /\ HasCRLF(request, k)
          /\ request' = [j \in 1 .. Len(request) - 1 |->
                            IF j < k THEN request[j] ELSE request[j + 1]]
  BY DEF ReplaceCRLF
<1>2. request \in Text /\ Len(request) - 1 \in Nat
  BY <1>1 DEF Typed, TypeOK, Text
<1>3. request' \in Text /\ Len(request') = Len(request) - 1
  <2> DEFINE e(j) == IF j < k THEN request[j] ELSE request[j + 1]
  <2>1. \A j \in 1 .. Len(request) - 1 : e(j) \in Chars \ {NUL}
    BY <1>2 DEF Text
  <2> HIDE DEF e
  <2>2. request' = [j \in 1 .. Len(request) - 1 |-> e(j)]
    BY <1>1 DEF e
  <2>3. QED
    BY <1>2, <2>1, <2>2, ST!IsASeq DEF Text
<1>4. QED
  BY <1>1, <1>2, <1>3 DEF HasCRLF

\* One turn of split queues nothing, or the piece from the first place that is
\* no '\n' to the next '\n' or the end.
LEMMA SplitFacts ==
  ASSUME Typed, Split
  PROVE  /\ i \in 1 .. Len(request) /\ request \in Text
         /\ i' \in 1 .. Len(request) + 1 /\ (i' = Len(request) + 1 \/ request[i'] = LF)
         /\ \/ queue' = queue
            \/ \E m, n \in 1 .. Len(request) :
                  /\ m <= n /\ queue' = Append(queue, SubSeq(request, m, n))
                  /\ i <= m /\ (m = i \/ request[m - 1] = LF)
                  /\ request[m] # LF /\ \A l \in m .. n : request[l] = LF => l = n
                  /\ n = Len(request) \/ request[n] = LF
<1> DEFINE first == FirstNotOf(request, i, {LF})
           j == FirstOf(request, first, {LF})
           last == IF j > Len(request) THEN j - 1 ELSE j
<1>1. /\ i \in 1 .. Len(request) /\ request \in Text /\ request \in Seq(Chars)
      /\ i' = j
      /\ queue' = IF first > Len(request) THEN queue
                  ELSE Append(queue, SubSeq(request, first, last))
  BY DEF Typed, TypeOK, Split, Text
<1>2. /\ first \in i .. Len(request) + 1
      /\ first <= Len(request) => request[first] # LF
      /\ \A l \in i .. first - 1 : request[l] = LF
  BY <1>1, FirstNotOfFacts
<1> HIDE DEF first
<1>3. /\ j \in first .. Len(request) + 1
      /\ j <= Len(request) => request[j] = LF
      /\ \A l \in first .. j - 1 : request[l] # LF
  BY <1>1, <1>2, FirstOfFacts
<1> HIDE DEF j
<1>4. i' \in 1 .. Len(request) + 1 /\ (i' = Len(request) + 1 \/ request[i'] = LF)
  BY <1>1, <1>2, <1>3
<1>5. CASE first > Len(request)
  BY <1>1, <1>4, <1>5
<1>6. CASE first <= Len(request)
  <2>1. /\ first \in 1 .. Len(request) /\ last \in 1 .. Len(request) /\ first <= last
        /\ i <= first /\ (first = i \/ request[first - 1] = LF)
        /\ last = Len(request) \/ request[last] = LF
    BY <1>1, <1>2, <1>3, <1>6
  <2>2. \A l \in first .. last : request[l] = LF => l = last
    BY <1>1, <1>2, <1>3, <1>6
  <2> HIDE DEF last
  <2>3. request[first] # LF /\ ~(first > Len(request))
    BY <1>1, <1>2, <1>6
  <2>4. queue' = Append(queue, SubSeq(request, first, last))
    BY <1>1, <2>3, Zenon
  <2>5. QED
    BY <1>1, <1>4, <2>1, <2>2, <2>3, <2>4
<1>7. first > Len(request) \/ first <= Len(request)
  BY <1>1, <1>2
<1>8. QED
  BY <1>5, <1>6, <1>7, Zenon

LEMMA TakeLineFacts ==
  ASSUME Typed, TakeLine
  PROVE  /\ queue # <<>> /\ 1 \in 1 .. Len(queue)
         /\ line' = queue[1] /\ line' \in Text /\ line' # <<>> /\ Len(line') \in Nat \ {0}
         /\ start' \in 1 .. Len(line') + 1
         /\ start' <= Len(line') => line'[start'] # Blank
         /\ \A l \in 1 .. start' - 1 : line'[l] = Blank
         /\ queue' \in Seq(Text) /\ Len(queue') = Len(queue) - 1
         /\ \A q \in 1 .. Len(queue') : q + 1 \in 1 .. Len(queue) /\ queue'[q] = queue[q + 1]
<1>1. /\ queue \in Seq(Text) /\ queue # <<>> /\ queue' = Tail(queue) /\ line' = Head(queue)
      /\ start' = FirstNotOf(line', 1, {Blank})
      /\ \A q \in 1 .. Len(queue) : queue[q] # <<>>
  BY DEF Typed, TypeOK, TakeLine
<1>2. /\ line' \in Text /\ line' = queue[1] /\ 1 \in 1 .. Len(queue)
      /\ queue' \in Seq(Text) /\ Len(queue') = Len(queue) - 1
      /\ \A q \in 1 .. Len(queue') : queue'[q] = queue[q + 1]
  BY <1>1, ST!HeadTailProperties
<1>3. \A q \in 1 .. Len(queue') : q + 1 \in 1 .. Len(queue)
  BY <1>1, <1>2
<1>4. line' # <<>> /\ line' \in Seq(Chars)
  BY <1>1, <1>2 DEF Text
<1>5. Len(line') \in Nat \ {0} /\ 1 \in 1 .. Len(line') + 1
  BY <1>4
<1>6. /\ start' \in 1 .. Len(line') + 1
      /\ start' <= Len(line') => line'[start'] \notin {Blank}
      /\ \A l \in 1 .. start' - 1 : line'[l] \in {Blank}
  BY <1>1, <1>4, <1>5, FirstNotOfFacts
<1>7. QED
  BY <1>1, <1>2, <1>3, <1>4, <1>5, <1>6

LEMMA NextWordFacts ==
  ASSUME Typed, NextWord
  PROVE  /\ start \in 1 .. Len(line) /\ line \in Text
         /\ start' \in 1 .. Len(line) + 1
         /\ start' <= Len(line) => line[start'] # Blank
         /\ \E end \in start .. Len(line) :
               /\ line[end] = Blank /\ \A l \in start .. end - 1 : line[l] # Blank
               /\ words' = Append(words, SubSeq(line, start, end - 1))
               /\ SubSeq(line, start, end - 1) \in Text
               /\ Len(SubSeq(line, start, end - 1)) = end - start
               /\ start < end => SubSeq(line, start, end - 1)[1] = line[start]
               /\ end < start' /\ \A l \in end .. start' - 1 : line[l] = Blank
<1> DEFINE end == FirstOf(line, start, {Blank})
           word == SubSeq(line, start, end - 1)
<1>1. /\ start \in 1 .. Len(line) + 1 /\ line \in Text /\ line \in Seq(Chars)
      /\ end <= Len(line)
      /\ words' = Append(words, word) /\ start' = FirstNotOf(line, end, {Blank})
  BY DEF Typed, TypeOK, NextWord, Text
<1>2. /\ end \in start .. Len(line) + 1
      /\ line[end] = Blank /\ \A l \in start .. end - 1 : line[l] # Blank
  BY <1>1, FirstOfFacts
<1> HIDE DEF end
<1>3. /\ start' \in end .. Len(line) + 1
      /\ start' <= Len(line) => line[start'] # Blank
      /\ \A l \in end .. start' - 1 : line[l] = Blank
  <2>1. end \in 1 .. Len(line) + 1
    BY <1>1, <1>2
  <2>2. /\ start' \in end .. Len(line) + 1
        /\ start' <= Len(line) => line[start'] \notin {Blank}
        /\ \A l \in end .. start' - 1 : line[l] \in {Blank}
    BY <1>1, <2>1, FirstNotOfFacts
  <2>3. QED
    BY <2>2
<1>4. end < start'
  BY <1>1, <1>2, <1>3
<1>5. /\ word \in Text /\ Len(word) = end - start
      /\ start < end => word[1] = line[start]
  <2>1. line \in Seq(Chars \ {NUL}) /\ start \in 1 .. Len(line) + 1
        /\ end - 1 \in 0 .. Len(line) /\ start <= end - 1 + 1
    BY <1>1, <1>2 DEF Text
  <2>2. /\ word \in Seq(Chars \ {NUL}) /\ Len(word) = end - 1 + 1 - start
        /\ \A k \in 1 .. end - 1 + 1 - start : word[k] = line[start + k - 1]
    BY <2>1, PartFacts
  <2> HIDE DEF word
  <2>3. QED
    BY <1>1, <1>2, <2>2 DEF Text
<1>6. start \in 1 .. Len(line) /\ start' \in 1 .. Len(line) + 1 /\ end \in start .. Len(line)
  BY <1>1, <1>2, <1>3
<1> HIDE DEF word
<1>7. QED
  BY <1>1, <1>2, <1>3, <1>4, <1>5, <1>6 DEF word

LEMMA ButLastFacts ==
  ASSUME NEW S, NEW s \in Seq(S), s # <<>>
  PROVE  /\ SubSeq(s, 1, Len(s) - 1) \in Seq(S)
         /\ SubSeq(s, 1, Len(s) - 1) = <<>> => Len(s) = 1
<1> DEFINE t == SubSeq(s, 1, Len(s) - 1)
           n == Len(s) - 1
<1>1. /\ n \in Nat /\ 1 \in Int /\ n \in Int /\ Len(s) = n + 1
      /\ \A k \in 1 .. n : s[k] \in S
  OBVIOUS
<1>2. t = SubSeq(s, 1, n)
  OBVIOUS
<1> HIDE DEF t, n
<1>3. /\ t \in Seq(S)
      /\ Len(t) = IF 1 <= n THEN n - 1 + 1 ELSE 0
  BY <1>1, <1>2, ST!SubSeqProperties
<1>4. t = <<>> => Len(t) = 0
  OBVIOUS
<1>5. t = <<>> => n = 0
  BY <1>1, <1>3, <1>4
<1>6. QED
  BY <1>1, <1>3, <1>5 DEF t

\* The last word, without its '\n', is empty when the '\n' is all there is.
LEMMA LastWordFacts ==
  ASSUME Typed, LastWord
  PROVE  /\ line \in Text /\ start \in 1 .. Len(line) + 1
         /\ start = Len(line) + 1 => status' = "terminated" /\ UNCHANGED <<words, pc>>
         /\ start <= Len(line) =>
               /\ status' = status /\ pc' = "execute"
               /\ \E word \in Text :
                     /\ words' = Append(words, word)
                     /\ word = <<>> => start = Len(line) /\ line[start] = LF
<1>1. /\ line \in Text /\ start \in 1 .. Len(line) + 1 /\ Len(line) \in Nat
      /\ IF start > Len(line)
         THEN /\ status' = "terminated"
              /\ UNCHANGED <<words, pc>>
         ELSE /\ words' = Append(words, Chopped(SubSeq(line, start, Len(line))))
              /\ pc' = "execute"
              /\ UNCHANGED status
  BY DEF Typed, TypeOK, LastWord, Text
<1>2. ASSUME start <= Len(line)
      PROVE  /\ Chopped(SubSeq(line, start, Len(line))) \in Text
             /\ Chopped(SubSeq(line, start, Len(line))) = <<>> =>
                   start = Len(line) /\ line[start] = LF
  <2> DEFINE s == SubSeq(line, start, Len(line))
             n == Len(line) + 1 - start
  <2>1. n \in Nat \ {0}
    BY <1>1, <1>2
  <2>2. s \in Text /\ Len(s) = n /\ \A k \in 1 .. n : s[k] = line[start + k - 1]
    BY <1>1, <1>2, PartFacts DEF Text
  <2>7. n = 1 => start = Len(line)
    BY <1>1
  <2>8. n = 1 => start + 1 - 1 = start
    BY <1>1
  <2> HIDE DEF s, n
  <2>3. /\ SubSeq(s, 1, Len(s) - 1) \in Text /\ (SubSeq(s, 1, Len(s) - 1) = <<>> => n = 1)
    <3>1. s \in Seq(Chars \ {NUL}) /\ s # <<>>
      BY <2>1, <2>2 DEF Text
    <3>2. QED
      BY <2>2, <3>1, ButLastFacts DEF Text
  <2>4. CASE s[Len(s)] = LF
    <3>1. Chopped(s) = SubSeq(s, 1, Len(s) - 1)
      BY <2>4 DEF Chopped
    <3>2. Chopped(s) = <<>> => n = 1
      BY <2>1, <2>3, <3>1
    <3>3. n = 1 => start = Len(line) /\ s[Len(s)] = line[start]
      BY <2>1, <2>2, <2>7, <2>8
    <3>4. QED
      BY <2>3, <2>4, <3>1, <3>2, <3>3 DEF s
  <2>5. CASE s[Len(s)] # LF
    <3>1. Chopped(s) = s /\ s # <<>>
      BY <2>1, <2>2, <2>5 DEF Chopped
    <3>2. QED
      BY <2>2, <3>1 DEF s
  <2>6. QED
    BY <2>4, <2>5
<1>3. start = Len(line) + 1 => start > Len(line)
  BY <1>1
<1>4. start <= Len(line) => ~(start > Len(line))
  BY <1>1
<1>5. QED
  BY <1>1, <1>2, <1>3, <1>4, Zenon

-----------------------------------------------------------------------------
\* Types

LEMMA InitTyped == Init => Typed
<1> SUFFICES ASSUME Init PROVE Typed
  OBVIOUS
<1>1. stream \in Seq(Chars)
  BY DEF Init
<1>2. /\ line \in Text /\ queue \in Seq(Text) /\ words \in Seq(Text)
      /\ request \in Seq(Chars \ {NUL}) /\ at \in 0 .. Len(stream)
  BY <1>1 DEF Init, Text
<1>3. TypeOK
  BY <1>1, <1>2 DEF Init, TypeOK
<1>4. QED
  BY <1>1, <1>2, <1>3 DEF Typed

\* The pieces that split queues have a '\n' at most at their end.
LEMMA SplitTyped ==
  ASSUME Typed, Split
  PROVE  /\ queue' \in Seq(Text)
         /\ \A q \in 1 .. Len(queue') :
               /\ queue'[q] # <<>>
               /\ \A k \in 1 .. Len(queue'[q]) : queue'[q][k] = LF => 1 < k /\ k = Len(queue'[q])
<1> DEFINE Line(s) == s # <<>> /\ \A k \in 1 .. Len(s) : s[k] = LF => 1 < k /\ k = Len(s)
<1>1. queue \in Seq(Text) /\ \A q \in 1 .. Len(queue) : Line(queue[q])
  BY DEF Typed, TypeOK
<1>2. ASSUME NEW m \in 1 .. Len(request), NEW n \in 1 .. Len(request), m <= n,
             queue' = Append(queue, SubSeq(request, m, n)),
             request[m] # LF, \A l \in m .. n : request[l] = LF => l = n
      PROVE  queue' \in Seq(Text) /\ \A q \in 1 .. Len(queue') : Line(queue'[q])
  <2> DEFINE s == SubSeq(request, m, n)
  <2>1. request \in Seq(Chars \ {NUL}) /\ Len(request) \in Nat
    BY SplitFacts DEF Text
  <2>2. m \in 1 .. Len(request) + 1 /\ n \in 0 .. Len(request) /\ m <= n + 1
    BY <1>2, <2>1
  <2>3. /\ s \in Text /\ Len(s) = n + 1 - m
        /\ \A k \in 1 .. n + 1 - m : m + k - 1 \in 1 .. Len(request) /\ s[k] = request[m + k - 1]
    BY <2>1, <2>2, PartFacts DEF Text
  <2> HIDE DEF s
  <2>4. Len(s) \in Nat \ {0} /\ s # <<>>
    BY <1>2, <2>3
  <2>5. \A k \in 1 .. Len(s) : s[k] = LF => 1 < k /\ k = Len(s)
    <3> SUFFICES ASSUME NEW k \in 1 .. Len(s), s[k] = LF PROVE 1 < k /\ k = Len(s)
      OBVIOUS
    <3>1. m + k - 1 \in m .. n /\ request[m + k - 1] = LF
      BY <1>2, <2>1, <2>2, <2>3
    <3>2. m + k - 1 = n
      BY <1>2, <3>1
    <3>3. m + k - 1 # m
      BY <1>2, <3>1
    <3>4. QED
      BY <2>1, <2>2, <2>3, <3>2, <3>3
  <2>6. Line(s)
    BY <2>4, <2>5
  <2> HIDE DEF Line
  <2>7. queue' = Append(queue, s)
    BY <1>2 DEF s
  <2>8. QED
    BY <1>1, <2>3, <2>6, <2>7
<1>3. queue' = queue => queue' \in Seq(Text) /\ \A q \in 1 .. Len(queue') : Line(queue'[q])
  BY <1>1
<1>4. queue' \in Seq(Text) /\ \A q \in 1 .. Len(queue') : Line(queue'[q])
  <2> HIDE DEF Line
  <2> QED BY <1>2, <1>3, SplitFacts
<1>5. QED
  BY <1>4

LEMMA StepTyped ==
  ASSUME Typed, [Next]_vars
  PROVE  Typed'
<1>1. /\ stream \in Seq(Chars) /\ line \in Text /\ queue \in Seq(Text) /\ words \in Seq(Text)
      /\ Len(stream) \in Nat
  BY DEF Typed
<1>2. stream' = stream
  BY DEF Next, Work, Recv, RecvUnended, ReplaceCRLF, Queue, Split, SplitDone, TakeLine, NextWord,
         LastWord, Execute, PongThrows, Drained, vars, reading
<1>3. ASSUME NEW n \in 1 .. MaxInput, Recv(n) PROVE Typed'
  <2>1. /\ request' \in Seq(Chars \ {NUL})
        /\ at \in Nat /\ n \in Nat /\ at' = at + n /\ at' \in 1 .. Len(stream)
    BY <1>3, RecvFacts DEF Text
  <2>2. ends' \subseteq 1 .. at'
    BY <1>3, <2>1 DEF Recv, Typed, TypeOK
  <2>3. /\ pc' = "crlf" /\ UNCHANGED <<stream, line, start, words, queue, status>>
    BY <1>3 DEF Recv, cutting
  <2>4. at' \in 0 .. Len(stream')
    BY <1>1, <2>1, <2>3
  <2>5. QED
    BY <1>1, <2>1, <2>2, <2>3, <2>4 DEF Typed, TypeOK
<1>4. ASSUME RecvUnended PROVE Typed'
  BY <1>4 DEF RecvUnended, Typed, TypeOK, reading, splitting, cutting
<1>5. ASSUME ReplaceCRLF PROVE Typed'
  <2>1. request' \in Seq(Chars \ {NUL})
    BY <1>5, ReplaceFacts DEF Text
  <2>2. QED
    BY <1>1, <1>2, <1>5, <2>1 DEF ReplaceCRLF, Typed, TypeOK, reading, cutting
<1>6. ASSUME Queue PROVE Typed'
  <2>1. 1 \in 1 .. Len(request) + 1
    BY DEF Typed, TypeOK
  <2>2. QED
    BY <1>1, <1>2, <1>6, <2>1 DEF Queue, Typed, TypeOK, reading, cutting
<1>7. ASSUME Split PROVE Typed'
  <2>1. i' \in 1 .. Len(request) + 1
    BY <1>7, SplitFacts
  <2>2. QED
    BY <1>1, <1>2, <1>7, <2>1, SplitTyped DEF Split, Typed, TypeOK, reading, cutting
<1>8. ASSUME SplitDone PROVE Typed'
  BY <1>8 DEF SplitDone, Typed, TypeOK, reading, splitting, cutting
<1>9. ASSUME TakeLine PROVE Typed'
  <2>1. /\ line' \in Text /\ start' \in 1 .. Len(line') + 1
        /\ queue' \in Seq(Text)
        /\ \A q \in 1 .. Len(queue') : q + 1 \in 1 .. Len(queue) /\ queue'[q] = queue[q + 1]
    BY <1>9, TakeLineFacts
  <2>2. words' \in Seq(Text)
    BY <1>9 DEF TakeLine
  <2>3. QED
    BY <1>1, <1>2, <1>9, <2>1, <2>2 DEF TakeLine, Typed, TypeOK, reading, splitting
<1>10. ASSUME NextWord PROVE Typed'
  <2>1. start' \in 1 .. Len(line) + 1 /\ words' \in Seq(Text)
    <3>1. start' \in 1 .. Len(line) + 1
      BY <1>10, NextWordFacts
    <3>2. \E word \in Text : words' = Append(words, word)
      BY <1>10, NextWordFacts
    <3>3. QED
      BY <1>1, <3>1, <3>2
  <2>2. QED
    BY <1>1, <1>2, <1>10, <2>1 DEF NextWord, Typed, TypeOK, reading, splitting
<1>11. ASSUME LastWord PROVE Typed'
  <2>1. /\ start \in 1 .. Len(line) + 1 /\ Len(line) \in Nat
        /\ start = Len(line) + 1 => status' = "terminated" /\ UNCHANGED <<words, pc>>
        /\ start <= Len(line) => /\ status' = status /\ pc' = "execute"
                                 /\ words' \in Seq(Text)
    <3>1. Len(line) \in Nat
      BY <1>1 DEF Text
    <3>2. start <= Len(line) => \E word \in Text : words' = Append(words, word)
      BY <1>11, LastWordFacts
    <3>3. QED
      BY <1>1, <1>11, <3>1, <3>2, LastWordFacts
  <2>2. /\ words' \in Seq(Text)
        /\ status' \in {"up", "terminated", "undefined"}
        /\ pc' = pc \/ (pc' = "execute" /\ pc = "words")
    BY <1>1, <1>11, <2>1 DEF LastWord, Typed, TypeOK
  <2>3. QED
    BY <1>1, <1>2, <1>11, <2>2 DEF LastWord, Typed, TypeOK, reading, splitting
<1>12. ASSUME Execute PROVE Typed'
  BY <1>1, <1>12 DEF Execute, Typed, TypeOK, reading, splitting
<1>13. ASSUME PongThrows PROVE Typed'
  BY <1>1, <1>13 DEF PongThrows, Typed, TypeOK, reading, splitting, cutting
<1>14. ASSUME Drained PROVE Typed'
  BY <1>1, <1>14 DEF Drained, Typed, TypeOK, reading, splitting, cutting
<1>15. ASSUME UNCHANGED vars PROVE Typed'
  BY <1>1, <1>15 DEF vars, Typed, TypeOK, reading, splitting, cutting
<1>16. QED
  BY <1>3, <1>4, <1>5, <1>6, <1>7, <1>8, <1>9, <1>10, <1>11, <1>12, <1>13, <1>14, <1>15
     DEF Next, Work

\* The places of the loops of split and requestToVector stay within their
\* strings, or right behind them, however the packets were cut; no queued line
\* is empty or has a '\n' but at its end.
THEOREM TypeCorrect == Spec => []TypeOK
<1>1. Typed => TypeOK
  BY DEF Typed
<1>2. QED
  BY <1>1, InitTyped, StepTyped, PTL DEF Spec

-----------------------------------------------------------------------------
\* Where substr throws

\* What is dangerous in a request was received with its packet.
LEMMA RecvExplained ==
  ASSUME Typed, at \in ends \cup {0}, NEW n \in 1 .. MaxInput, Recv(n)
  PROVE  Explained(request)' /\ at' \in ends' \cup {0}
<1>1. /\ at \in Nat /\ n \in Nat /\ at' = at + n /\ at' \in Nat
      /\ request' \in Text /\ Len(request') \in 0 .. n
      /\ \A k \in 1 .. Len(request') : at + k \in 1 .. at' /\ request'[k] = stream[at + k]
      /\ Len(request') < n => stream[at + Len(request') + 1] = NUL
  BY RecvFacts
<1>2. /\ stream' = stream /\ ends' = ends \cup {at'} /\ ends \subseteq 1 .. at
  BY DEF Recv, Typed, TypeOK
<1>3. ASSUME EndsBlank(request') PROVE BlankReceived'
  <2> DEFINE k == at + Len(request')
  <2>1. Len(request') \in 1 .. n /\ request'[Len(request')] = Blank
    <3>1. request' # <<>> /\ request' \in Seq(Chars) /\ request'[Len(request')] = Blank
      BY <1>1, <1>3 DEF EndsBlank, Text
    <3>2. Len(request') # 0
      BY <3>1
    <3>3. QED
      BY <1>1, <3>1, <3>2
  <2>2. k \in 1 .. at' /\ stream[k] = Blank
    BY <1>1, <2>1
  <2>3. Len(request') = n => k = at'
    BY <1>1
  <2>4. Len(request') < n => stream[k + 1] = NUL
    BY <1>1
  <2>5. \A e \in ends' : e < k \/ e = at'
    <3>1. \A e \in ends : e \in Nat /\ e <= at
      BY <1>1, <1>2
    <3>2. at < k
      BY <1>1, <2>1
    <3>3. k \in Nat
      BY <1>1, <2>1
    <3> HIDE DEF k
    <3>4. \A e \in ends : e < k
      BY <1>1, <3>1, <3>2, <3>3
    <3>5. QED
      BY <1>2, <3>4
  <2> HIDE DEF k
  <2>6. Len(request') = n \/ Len(request') < n
    BY <1>1
  <2>7. QED
    BY <1>2, <2>2, <2>3, <2>4, <2>5, <2>6 DEF BlankReceived
<1>4. ASSUME EndsInPong(request') PROVE PongReceived'
  <2>1. PICK p \in 1 .. Len(request') : \E b \in 1 .. Len(request') : PongAt(request', p, b)
    BY <1>4 DEF EndsInPong
  <2>2. PICK b \in 1 .. Len(request') : PongAt(request', p, b)
    BY <2>1
  <2>3. /\ p + 1 < b /\ p \in Nat /\ b \in Nat
        /\ request'[p] = Pong /\ (p = 1 \/ request'[p - 1] \in {LF, Blank})
        /\ request'[b] \in {CR, LF} /\ \A l \in p + 1 .. b - 1 : request'[l] = Blank
    BY <1>1, <2>2 DEF PongAt
  <2>4. /\ at + p \in 1 .. at' /\ stream[at + p] = Pong
        /\ at + b \in 1 .. at' /\ stream[at + b] \in {CR, LF}
        /\ at + p + 1 < at + b
    BY <1>1, <2>3
  <2>5. p = 1 => at + p - 1 \in ends' \cup {0}
    BY <1>1, <1>2
  <2>6. p # 1 => stream[at + p - 1] = request'[p - 1]
    <3> SUFFICES ASSUME p # 1 PROVE stream[at + p - 1] = request'[p - 1]
      OBVIOUS
    <3>1. p - 1 \in 1 .. Len(request') /\ at + (p - 1) = at + p - 1
      BY <1>1, <2>3
    <3>2. QED
      BY <1>1, <3>1
  <2>7. \A l \in at + p + 1 .. at + b - 1 : stream[l] = Blank
    <3> SUFFICES ASSUME NEW l \in at + p + 1 .. at + b - 1 PROVE stream[l] = Blank
      OBVIOUS
    <3>1. l - at \in p + 1 .. b - 1 /\ l - at \in 1 .. Len(request') /\ at + (l - at) = l
      BY <1>1, <2>3
    <3>2. request'[l - at] = Blank
      BY <2>3, <3>1
    <3>3. stream[at + (l - at)] = request'[l - at]
      BY <1>1, <3>1
    <3>4. QED
      BY <3>1, <3>2, <3>3
  <2>8. \E k, c \in 1 .. at' :
           /\ k + 1 < c
           /\ stream[k] = Pong /\ (k - 1 \in ends' \cup {0} \/ stream[k - 1] \in {LF, Blank})
           /\ stream[c] \in {CR, LF} /\ \A l \in k + 1 .. c - 1 : stream[l] = Blank
    <3> DEFINE k == at + p
               c == at + b
    <3>1. k \in 1 .. at' /\ c \in 1 .. at' /\ k + 1 < c
      BY <2>4
    <3>2. k - 1 \in ends' \cup {0} \/ stream[k - 1] \in {LF, Blank}
      <4>1. k - 1 = at + p - 1
        BY <1>1, <2>3
      <4> HIDE DEF k
      <4>2. QED
        BY <2>3, <2>5, <2>6, <4>1
    <3>3. stream[k] = Pong /\ stream[c] \in {CR, LF}
      BY <2>4, Zenon
    <3>4. \A l \in k + 1 .. c - 1 : stream[l] = Blank
      <4>1. k + 1 .. c - 1 = at + p + 1 .. at + b - 1
        BY <1>1, <2>3
      <4> HIDE DEF k, c
      <4>2. QED
        BY <2>7, <4>1
    <3> HIDE DEF k, c
    <3>5. QED
      BY <3>1, <3>2, <3>3, <3>4
  <2>9. QED
    BY <1>2, <2>8 DEF PongReceived
<1>5. QED
  BY <1>2, <1>3, <1>4 DEF Explained

\* As long as nothing is received, what was received remains an explanation.
LEMMA SameReceived ==
  ASSUME UNCHANGED reading
  PROVE  /\ (BlankReceived => BlankReceived') /\ (PongReceived => PongReceived')
         /\ ends' = ends /\ at' = at
BY DEF reading, BlankReceived, PongReceived

\* Making "\r\n" a '\n' makes no text dangerous.
LEMMA ReplaceKeeps ==
  ASSUME Typed, ReplaceCRLF
  PROVE  /\ EndsBlank(request') => EndsBlank(request)
         /\ EndsInPong(request') => EndsInPong(request)
<1>1. PICK k \in 1 .. Len(request) - 1 :
          /\ request[k] = CR /\ request[k + 1] = LF
          /\ request' \in Text /\ Len(request') = Len(request) - 1
          /\ \A j \in 1 .. Len(request) - 1 :
                request'[j] = IF j < k THEN request[j] ELSE request[j + 1]
  BY ReplaceFacts
<1>2. Len(request) \in Nat /\ request \in Seq(Chars)
  BY DEF Typed, TypeOK
<1>3. EndsBlank(request') => EndsBlank(request)
  <2>1. Len(request) - 1 \in 1 .. Len(request) - 1 /\ ~(Len(request) - 1 < k)
        /\ Len(request) - 1 + 1 = Len(request)
    BY <1>2
  <2>2. request'[Len(request')] = request[Len(request)]
    BY <1>1, <2>1
  <2>3. request # <<>>
    BY <1>2, <2>1
  <2>4. QED
    BY <2>2, <2>3 DEF EndsBlank
<1>4. ASSUME EndsInPong(request') PROVE EndsInPong(request)
  <2>1. PICK p \in 1 .. Len(request') : \E b \in 1 .. Len(request') : PongAt(request', p, b)
    BY <1>4 DEF EndsInPong
  <2>2. PICK b \in 1 .. Len(request') : PongAt(request', p, b)
    BY <2>1
  <2>3. /\ p + 1 < b /\ p \in Nat /\ b \in Nat /\ k \in Nat
        /\ p \in 1 .. Len(request) - 1 /\ b \in 1 .. Len(request) - 1
        /\ request'[p] = Pong /\ (p = 1 \/ request'[p - 1] \in {LF, Blank})
        /\ request'[b] \in {CR, LF} /\ \A l \in p + 1 .. b - 1 : request'[l] = Blank
    BY <1>1, <1>2, <2>2 DEF PongAt
  <2>4. \A j \in 1 .. Len(request) - 1 : j < k => request'[j] = request[j]
    BY <1>1
  <2>5. \A j \in 1 .. Len(request) - 1 : ~(j < k) => request'[j] = request[j + 1]
    BY <1>1
  <2>6. request'[k] = LF
    BY <1>1, <2>3, <2>5
  <2>7. CASE b <= k
    <3>1. request[p] = Pong
      BY <2>3, <2>4, <2>7
    <3>2. p # 1 => request[p - 1] = request'[p - 1]
      BY <1>2, <2>3, <2>4, <2>7
    <3>3. request[b] \in {CR, LF}
      <4>1. b < k => request[b] = request'[b]
        BY <2>3, <2>4
      <4>2. b < k \/ b = k
        BY <2>3, <2>7
      <4>3. QED
        BY <1>1, <2>3, <4>1, <4>2
    <3>4. \A l \in p + 1 .. b - 1 : request[l] = Blank
      BY <1>2, <2>3, <2>4, <2>7
    <3>5. PongAt(request, p, b) /\ p \in 1 .. Len(request) /\ b \in 1 .. Len(request)
      BY <1>2, <2>3, <3>1, <3>2, <3>3, <3>4 DEF PongAt
    <3>6. QED
      BY <3>5 DEF EndsInPong
  <2>8. CASE k < b
    <3>1. k # p
      BY <2>3, <2>6
    <3>2. ~(p < k)
      <4> SUFFICES ASSUME p < k PROVE FALSE
        OBVIOUS
      <4>1. k \in p + 1 .. b - 1
        BY <2>3, <2>8
      <4>2. QED
        BY <2>3, <2>6, <4>1
    <3>3. k < p
      BY <2>3, <3>1, <3>2
    <3>4. request[p + 1] = Pong /\ request[b + 1] \in {CR, LF}
      BY <2>3, <2>5, <2>8, <3>3
    <3>5. request[p] = request'[p - 1] /\ p # 1
      <4>1. p - 1 \in 1 .. Len(request) - 1 /\ ~(p - 1 < k) /\ p - 1 + 1 = p /\ p # 1
        BY <1>2, <2>3, <3>3
      <4>2. QED
        BY <2>5, <4>1
    <3>6. \A l \in p + 2 .. b : request[l] = Blank
      <4> SUFFICES ASSUME NEW l \in p + 2 .. b PROVE request[l] = Blank
        OBVIOUS
      <4>1. /\ l - 1 \in p + 1 .. b - 1 /\ l - 1 \in 1 .. Len(request) - 1
            /\ ~(l - 1 < k) /\ l - 1 + 1 = l
        BY <1>2, <2>3, <3>3
      <4>2. request'[l - 1] = request[l - 1 + 1] /\ request'[l - 1] = Blank
        BY <2>3, <2>5, <4>1
      <4>3. QED
        BY <4>1, <4>2
    <3>7. /\ p + 1 \in 1 .. Len(request) /\ b + 1 \in 1 .. Len(request)
          /\ p + 1 + 1 < b + 1 /\ p + 1 - 1 = p /\ p + 1 + 1 = p + 2 /\ b + 1 - 1 = b
      BY <1>2, <2>3
    <3>8. PongAt(request, p + 1, b + 1)
      BY <2>3, <3>4, <3>5, <3>6, <3>7 DEF PongAt
    <3>9. QED
      BY <3>7, <3>8 DEF EndsInPong
  <2>9. QED
    BY <2>3, <2>7, <2>8
<1>5. QED
  BY <1>3, <1>4

\* The pieces of a request are dangerous only where the request is.
LEMMA PieceKeeps ==
  ASSUME NEW s \in Text, NEW m \in 1 .. Len(s), NEW n \in 1 .. Len(s), m <= n,
         m = 1 \/ s[m - 1] = LF, n = Len(s) \/ s[n] = LF
  PROVE  /\ EndsBlank(SubSeq(s, m, n)) => EndsBlank(s)
         /\ EndsInPong(SubSeq(s, m, n)) => EndsInPong(s)
<1> DEFINE t == SubSeq(s, m, n)
<1>1. s \in Seq(Chars \ {NUL}) /\ Len(s) \in Nat /\ s # <<>>
  <2>1. s \in Seq(Chars \ {NUL}) /\ Len(s) \in Nat
    BY DEF Text
  <2>2. Len(s) # 0
    BY <2>1
  <2>3. QED
    BY <2>1, <2>2
<1>2. m \in 1 .. Len(s) + 1 /\ n \in 0 .. Len(s) /\ m <= n + 1
  BY <1>1
<1>3. /\ t \in Seq(Chars \ {NUL}) /\ Len(t) = n + 1 - m
      /\ \A k \in 1 .. n + 1 - m : m + k - 1 \in 1 .. Len(s) /\ t[k] = s[m + k - 1]
  BY <1>1, <1>2, PartFacts
<1> HIDE DEF t
<1>4. EndsBlank(t) => EndsBlank(s)
  <2>1. n + 1 - m \in 1 .. n + 1 - m /\ m + (n + 1 - m) - 1 = n
    BY <1>2
  <2>2. t[Len(t)] = s[n]
    BY <1>3, <2>1
  <2>3. QED
    BY <1>1, <2>2 DEF EndsBlank
<1>5. ASSUME EndsInPong(t) PROVE EndsInPong(s)
  <2>1. PICK p \in 1 .. Len(t) : \E b \in 1 .. Len(t) : PongAt(t, p, b)
    BY <1>5 DEF EndsInPong
  <2>2. PICK b \in 1 .. Len(t) : PongAt(t, p, b)
    BY <2>1
  <2>3. /\ p + 1 < b /\ p \in Nat /\ b \in Nat /\ m \in Nat /\ n \in Nat
        /\ p \in 1 .. n + 1 - m /\ b \in 1 .. n + 1 - m
        /\ t[p] = Pong /\ (p = 1 \/ t[p - 1] \in {LF, Blank})
        /\ t[b] \in {CR, LF} /\ \A l \in p + 1 .. b - 1 : t[l] = Blank
    BY <1>2, <1>3, <2>2 DEF PongAt
  <2> DEFINE k == m + p - 1
             c == m + b - 1
  <2>4. k \in 1 .. Len(s) /\ c \in 1 .. Len(s) /\ k + 1 < c
    BY <1>1, <2>3
  <2>5. s[k] = Pong /\ s[c] \in {CR, LF}
    BY <1>3, <2>3
  <2>6. k = 1 \/ s[k - 1] \in {LF, Blank}
    <3>1. CASE p = 1
      <4>1. k = m
        BY <2>3, <3>1
      <4>2. QED
        BY <4>1
    <3>2. CASE p # 1
      <4>1. p - 1 \in 1 .. n + 1 - m /\ m + (p - 1) - 1 = k - 1
        BY <2>3, <3>2
      <4>2. t[p - 1] = s[k - 1]
        BY <1>3, <4>1
      <4>3. QED
        BY <2>3, <3>2, <4>2
    <3>3. QED
      BY <3>1, <3>2
  <2>7. \A l \in k + 1 .. c - 1 : s[l] = Blank
    <3> SUFFICES ASSUME NEW l \in k + 1 .. c - 1 PROVE s[l] = Blank
      OBVIOUS
    <3>1. l + 1 - m \in p + 1 .. b - 1 /\ l + 1 - m \in 1 .. n + 1 - m /\ m + (l + 1 - m) - 1 = l
      BY <2>3
    <3>2. QED
      BY <1>3, <2>3, <3>1
  <2> HIDE DEF k, c
  <2>8. PongAt(s, k, c)
    BY <2>4, <2>5, <2>6, <2>7 DEF PongAt
  <2>9. QED
    BY <2>4, <2>8 DEF EndsInPong
<1>6. QED
  BY <1>4, <1>5 DEF t

LEMMA SplitExplained ==
  ASSUME Typed, Split, Explained(request),
         i = 1 \/ i = Len(request) + 1 \/ request[i] = LF,
         \A q \in 1 .. Len(queue) : Explained(queue[q])
  PROVE  \A q \in 1 .. Len(queue') : Explained(queue'[q])
<1>1. queue \in Seq(Text)
  BY DEF Typed
<1>2. ASSUME NEW m \in 1 .. Len(request), NEW n \in 1 .. Len(request), m <= n,
             queue' = Append(queue, SubSeq(request, m, n)),
             m = i \/ request[m - 1] = LF, request[m] # LF,
             n = Len(request) \/ request[n] = LF
      PROVE  \A q \in 1 .. Len(queue') : Explained(queue'[q])
  <2>1. m # Len(request) + 1 /\ request \in Text
    BY DEF Typed, TypeOK, Text
  <2>2. m = 1 \/ request[m - 1] = LF
    BY <1>2, <2>1
  <2>3. Explained(SubSeq(request, m, n))
    BY <1>2, <2>1, <2>2, PieceKeeps DEF Explained
  <2> DEFINE s == SubSeq(request, m, n)
  <2> HIDE DEF s
  <2>4. queue' = Append(queue, s) /\ Explained(s)
    BY <1>2, <2>3 DEF s
  <2>5. QED
    BY <1>1, <2>4
<1>3. QED
  BY <1>2, SplitFacts

LEMMA TakeLineSkipped ==
  ASSUME Typed, TakeLine
  PROVE  Skipped'
<1>1. /\ line' # <<>> /\ Len(line') \in Nat \ {0}
      /\ start' \in 1 .. Len(line') + 1
      /\ start' <= Len(line') => line'[start'] # Blank
      /\ \A l \in 1 .. start' - 1 : line'[l] = Blank
  BY TakeLineFacts
<1>2. words' = <<>>
  BY DEF TakeLine
<1>3. start' = Len(line') + 1 => Len(line') \in 1 .. start' - 1
  BY <1>1
<1>4. start' = Len(line') + 1 => EndsBlank(line')
  BY <1>1, <1>3 DEF EndsBlank
<1>5. (\A m \in 1 .. Len(words') : words'[m] # <<>>) /\ words' # <<<<Pong>>>>
  BY <1>2
<1>6. QED
  BY <1>1, <1>4, <1>5 DEF Skipped

LEMMA NextWordSkipped ==
  ASSUME Typed, Skipped, NextWord
  PROVE  Skipped'
<1>1. PICK end \in start .. Len(line) :
          /\ line[end] = Blank /\ \A l \in start .. end - 1 : line[l] # Blank
          /\ words' = Append(words, SubSeq(line, start, end - 1))
          /\ SubSeq(line, start, end - 1) \in Text
          /\ Len(SubSeq(line, start, end - 1)) = end - start
          /\ start < end => SubSeq(line, start, end - 1)[1] = line[start]
          /\ end < start' /\ \A l \in end .. start' - 1 : line[l] = Blank
  BY NextWordFacts
<1>2. /\ start \in 1 .. Len(line) /\ line \in Text /\ Len(line) \in Nat /\ line' = line
      /\ start' \in 1 .. Len(line) + 1
      /\ start' <= Len(line) => line[start'] # Blank
      /\ words \in Seq(Text)
  BY NextWordFacts DEF Typed, NextWord, Text
<1> DEFINE word == SubSeq(line, start, end - 1)
<1>3. /\ words' = Append(words, word) /\ word \in Text /\ Len(word) = end - start
      /\ start < end => word[1] = line[start]
  BY <1>1
<1> HIDE DEF word
<1>4. start < end
  <2>1. line[start] # Blank
    BY <1>2 DEF Skipped
  <2>2. start # end
    BY <1>1, <2>1
  <2>3. QED
    BY <1>2, <2>2
<1>5. word # <<>>
  <2>1. Len(word) # 0
    BY <1>2, <1>3, <1>4
  <2>2. QED
    BY <2>1
<1>6. start' = Len(line) + 1 => EndsBlank(line)
  <2>1. start' = Len(line) + 1 => Len(line) \in end .. start' - 1
    BY <1>2
  <2>2. line # <<>>
    <3>1. Len(line) # 0
      BY <1>2
    <3>2. QED
      BY <3>1
  <2>3. QED
    BY <1>1, <2>1, <2>2 DEF EndsBlank
<1>7. \A m \in 1 .. Len(words') : words'[m] # <<>>
  BY <1>2, <1>3, <1>5 DEF Skipped
<1>8. words' # <<>>
  BY <1>2, <1>3
<1>9. ASSUME words' = <<<<Pong>>>>
      PROVE  /\ start + 1 < start' /\ line[start] = Pong
             /\ start = 1 \/ line[start - 1] = Blank
             /\ \A l \in start + 1 .. start' - 1 : line[l] = Blank
  <2>1. words = <<>> /\ word = <<Pong>>
    <3>1. Len(words') = 1 /\ words'[1] = <<Pong>>
      BY <1>9
    <3>2. Len(words') = Len(words) + 1 /\ words'[Len(words) + 1] = word /\ Len(words) \in Nat
      BY <1>2, <1>3
    <3>3. Len(words) = 0
      BY <3>1, <3>2
    <3>4. words = <<>>
      BY <1>2, <3>3
    <3>5. Len(words) + 1 = 1
      BY <3>3
    <3>6. word = <<Pong>>
      BY <3>1, <3>2, <3>5, Zenon
    <3>7. QED
      BY <3>4, <3>6
  <2>2. Len(word) = 1 /\ word[1] = Pong
    BY <2>1
  <2>3. end = start + 1
    <3>1. start \in Int /\ end \in Int
      BY <1>1, <1>2
    <3>2. end - start = 1
      BY <1>3, <2>2, Zenon
    <3>3. QED
      BY <3>1, <3>2
  <2>4. start # 1 => start - 1 \in 1 .. start - 1
    BY <1>2
  <2>5. start # 1 => line[start - 1] = Blank
    BY <2>1, <2>4 DEF Skipped
  <2>6. QED
    BY <1>1, <1>3, <1>4, <2>2, <2>3, <2>5
<1>10. QED
  BY <1>2, <1>6, <1>7, <1>8, <1>9 DEF Skipped

LEMMA LastWordExplained ==
  ASSUME Typed, Skipped, LastWord
  PROVE  /\ status' = "terminated" => status = "terminated" \/ EndsBlank(line)
         /\ pc' = "execute" /\ words' = <<<<Pong>>, <<>>>> => EndsInPong(line)
<1>1. /\ start \in 1 .. Len(line) + 1 /\ Len(line) \in Nat /\ words \in Seq(Text)
      /\ pc = "words"
  BY DEF LastWord, Typed, TypeOK, Text
<1>2. CASE start = Len(line) + 1
  BY <1>1, <1>2, LastWordFacts DEF Skipped
<1>3. ASSUME start <= Len(line), words' = <<<<Pong>>, <<>>>>
      PROVE  EndsInPong(line)
  <2>1. PICK word \in Text :
            /\ words' = Append(words, word)
            /\ word = <<>> => start = Len(line) /\ line[start] = LF
    BY <1>3, LastWordFacts
  <2>2. words = <<<<Pong>>>> /\ word = <<>>
    BY <1>1, <1>3, <2>1
  <2>3. PICK p \in 1 .. Len(line) : /\ p + 1 < start
                                    /\ line[p] = Pong /\ (p = 1 \/ line[p - 1] = Blank)
                                    /\ \A l \in p + 1 .. start - 1 : line[l] = Blank
    BY <2>2 DEF Skipped
  <2>4. PongAt(line, p, start) /\ start \in 1 .. Len(line)
    BY <1>1, <1>3, <2>1, <2>2, <2>3 DEF PongAt
  <2>5. QED
    BY <2>4 DEF EndsInPong
<1>4. CASE start <= Len(line)
  BY <1>3, <1>4, LastWordFacts
<1>5. QED
  BY <1>1, <1>2, <1>4

LEMMA SameSkipped ==
  ASSUME Skipped, UNCHANGED <<line, start, words>>
  PROVE  Skipped'
BY DEF Skipped

LEMMA InitOrigins == Init => Origins
BY DEF Init, Origins

LEMMA StepOrigins ==
  ASSUME Typed, Origins, [Next]_vars
  PROVE  Origins'
<1>1. ASSUME NEW n \in 1 .. MaxInput, Recv(n) PROVE Origins'
  <2>1. at \in ends \cup {0} /\ queue = <<>>
    BY <1>1 DEF Origins, Recv
  <2>2. Explained(request)' /\ at' \in ends' \cup {0}
    BY <1>1, <2>1, RecvExplained
  <2>3. pc' = "crlf" /\ status' = "up" /\ queue' = <<>>
    BY <1>1, <2>1 DEF Recv
  <2>4. QED
    BY <2>2, <2>3 DEF Origins
<1>2. ASSUME RecvUnended PROVE Origins'
  <2>1. /\ UNCHANGED <<request, i, line, queue, pc>> /\ UNCHANGED reading
        /\ UNCHANGED <<line, start, words>> /\ status' = "undefined" /\ pc = "recv"
    BY <1>2 DEF RecvUnended, splitting, cutting
  <2>2. QED
    BY <2>1, SameReceived DEF Origins, Explained
<1>3. ASSUME ReplaceCRLF PROVE Origins'
  <2>1. UNCHANGED reading /\ status' = "up" /\ pc' = "crlf" /\ pc = "crlf" /\ queue' = queue
    BY <1>3 DEF ReplaceCRLF
  <2>2. Explained(request) /\ queue = <<>>
    BY <2>1 DEF Origins
  <2>3. Explained(request)'
    BY <1>3, <2>1, <2>2, SameReceived, ReplaceKeeps DEF Explained
  <2>4. QED
    BY <2>1, <2>2, <2>3, SameReceived DEF Origins
<1>4. ASSUME Queue PROVE Origins'
  <2>1. /\ UNCHANGED reading /\ status' = "up" /\ pc' \in {"split", "drain"} /\ pc = "crlf"
        /\ queue' = queue /\ request' = request /\ i' = 1
    BY <1>4 DEF Queue
  <2>2. Explained(request)' /\ queue = <<>>
    BY <2>1, SameReceived DEF Origins, Explained
  <2>3. QED
    BY <2>1, <2>2, SameReceived DEF Origins
<1>5. ASSUME Split PROVE Origins'
  <2>1. /\ UNCHANGED reading /\ status' = "up" /\ pc' = "split" /\ pc = "split"
        /\ request' = request
    BY <1>5 DEF Split
  <2>2. \A q \in 1 .. Len(queue') : Explained(queue'[q])
    BY <1>5, <2>1, SplitExplained DEF Origins
  <2>3. \A q \in 1 .. Len(queue') : (Explained(queue[q]))'
    BY <2>1, <2>2, SameReceived DEF Explained
  <2>4. i' = Len(request) + 1 \/ request[i'] = LF
    BY <1>5, SplitFacts
  <2>5. Explained(request)'
    BY <2>1, SameReceived DEF Origins, Explained
  <2>6. QED
    BY <2>1, <2>3, <2>4, <2>5, SameReceived DEF Origins
<1>6. ASSUME SplitDone PROVE Origins'
  <2>1. /\ UNCHANGED reading /\ status' = "up" /\ pc' = "drain" /\ pc = "split"
        /\ request' = request /\ queue' = queue
    BY <1>6 DEF SplitDone, splitting
  <2>2. QED
    BY <2>1, SameReceived DEF Origins, Explained
<1>7. ASSUME TakeLine PROVE Origins'
  <2>1. /\ UNCHANGED reading /\ status' = "up" /\ pc' = "words" /\ pc = "drain"
        /\ request' = request
    BY <1>7 DEF TakeLine, splitting
  <2>2. /\ line' = queue[1] /\ line' # <<>> /\ 1 \in 1 .. Len(queue)
        /\ \A q \in 1 .. Len(queue') : q + 1 \in 1 .. Len(queue) /\ queue'[q] = queue[q + 1]
    BY <1>7, TakeLineFacts
  <2>3. \A q \in 1 .. Len(queue) : Explained(queue[q])
    BY DEF Origins
  <2>4. Explained(line)'
    BY <2>1, <2>2, <2>3, SameReceived DEF Explained
  <2>5. \A q \in 1 .. Len(queue') : (Explained(queue[q]))'
    BY <2>1, <2>2, <2>3, SameReceived DEF Explained
  <2>6. Explained(request)'
    BY <2>1, SameReceived DEF Origins, Explained
  <2>7. QED
    BY <1>7, <2>1, <2>2, <2>4, <2>5, <2>6, SameReceived, TakeLineSkipped DEF Origins
<1>8. ASSUME NextWord PROVE Origins'
  <2>1. /\ UNCHANGED reading /\ status' = "up" /\ pc' = "words" /\ pc = "words"
        /\ request' = request /\ line' = line /\ queue' = queue
    BY <1>8 DEF NextWord, splitting
  <2>2. Skipped'
    BY <1>8, <2>1, NextWordSkipped DEF Origins
  <2>3. QED
    BY <2>1, <2>2, SameReceived DEF Origins, Explained
<1>9. ASSUME LastWord PROVE Origins'
  <2>1. /\ UNCHANGED reading /\ status = "up" /\ pc = "words"
        /\ request' = request /\ UNCHANGED <<line, start>> /\ queue' = queue
    BY <1>9 DEF LastWord, splitting
  <2>2. Skipped /\ Explained(line)
    BY <2>1 DEF Origins
  <2>3. /\ pc' = "execute" \/ (pc' = pc /\ words' = words)
        /\ start \in 1 .. Len(line) + 1 /\ Len(line) \in Nat
    <3>1. start \in 1 .. Len(line) + 1 /\ Len(line) \in Nat
      BY DEF Typed, TypeOK, Text
    <3>2. start = Len(line) + 1 \/ start <= Len(line)
      BY <3>1
    <3>3. start = Len(line) + 1 => pc' = pc /\ words' = words
      BY <1>9, LastWordFacts
    <3>4. start <= Len(line) => pc' = "execute"
      BY <1>9, LastWordFacts
    <3>5. QED
      BY <3>1, <3>2, <3>3, <3>4
  <2>4. pc' = "words" => Skipped'
    BY <2>1, <2>2, <2>3, SameSkipped
  <2>5. status' = "terminated" => BlankReceived'
    BY <1>9, <2>1, <2>2, LastWordExplained, SameReceived DEF Explained
  <2>6. pc' = "execute" /\ words' = <<<<Pong>>, <<>>>> => EndsInPong(line')
    BY <1>9, <2>1, <2>2, LastWordExplained
  <2>7. pc' \in {"words", "execute"}
    BY <2>1, <2>3
  <2>8. QED
    BY <2>1, <2>4, <2>5, <2>6, <2>7, SameReceived DEF Origins, Explained
<1>10. ASSUME Execute PROVE Origins'
  <2>1. /\ UNCHANGED reading /\ status' = "up" /\ pc' = "drain" /\ pc = "execute"
        /\ request' = request /\ queue' = queue
    BY <1>10 DEF Execute, splitting
  <2>2. QED
    BY <2>1, SameReceived DEF Origins, Explained
<1>11. ASSUME PongThrows PROVE Origins'
  <2>1. /\ UNCHANGED reading /\ pc' = pc /\ pc = "execute"
        /\ request' = request /\ queue' = queue /\ line' = line /\ words' = words
        /\ words = <<<<Pong>>, <<>>>>
    BY <1>11 DEF PongThrows, splitting, cutting
  <2>2. PongReceived
    BY <2>1 DEF Origins, Explained
  <2>3. QED
    BY <2>1, <2>2, SameReceived DEF Origins, Explained
<1>12. ASSUME Drained PROVE Origins'
  <2>1. /\ UNCHANGED reading /\ status' = "up" /\ pc' = "recv"
        /\ request' = request /\ queue' = queue /\ queue = <<>>
    BY <1>12 DEF Drained, splitting
  <2>2. QED
    BY <2>1, SameReceived DEF Origins, Explained
<1>13. ASSUME UNCHANGED vars PROVE Origins'
  <2>1. /\ UNCHANGED reading /\ UNCHANGED <<line, start, words>>
        /\ UNCHANGED <<request, i, queue, pc, status>>
    BY <1>13 DEF vars, splitting, cutting
  <2>2. pc' = "words" => Skipped'
    BY <2>1, SameSkipped DEF Origins
  <2>3. QED
    BY <2>1, <2>2, SameReceived DEF Origins, Explained
<1>14. QED
  BY <1>1, <1>2, <1>3, <1>4, <1>5, <1>6, <1>7, <1>8, <1>9, <1>10, <1>11, <1>12, <1>13
     DEF Next, Work

LEMMA OriginsSuffice ==
  ASSUME Typed, Origins
  PROVE  StopsOnlyAtBlank
<1>1. ASSUME PongReceived
      PROVE  \E k \in 1 .. at :
                /\ stream[k] = Pong
                /\ k - 1 \in ends \cup {0} \/ stream[k - 1] \in {LF, Blank}
                /\ LET behind == FirstNotOf(Received, k + 1, {Blank})
                   IN  behind \in k + 2 .. at /\ stream[behind] \in {CR, LF}
  <2>1. at \in Nat /\ at <= Len(stream) /\ stream \in Seq(Chars) /\ Len(stream) \in Nat
    BY DEF Typed, TypeOK
  <2>2. /\ Received \in Seq(Chars) /\ Len(Received) = at
        /\ \A l \in 1 .. at : Received[l] = stream[l]
    <3>1. 1 \in 1 .. Len(stream) + 1 /\ at \in 0 .. Len(stream) /\ 1 <= at + 1
      BY <2>1
    <3>2. /\ Received \in Seq(Chars) /\ Len(Received) = at + 1 - 1
          /\ \A l \in 1 .. at + 1 - 1 : Received[l] = stream[1 + l - 1]
      BY <2>1, <3>1, PartFacts DEF Received
    <3>3. QED
      BY <2>1, <3>2
  <2>3. PICK k \in 1 .. at : \E b \in 1 .. at :
            /\ k + 1 < b
            /\ stream[k] = Pong /\ (k - 1 \in ends \cup {0} \/ stream[k - 1] \in {LF, Blank})
            /\ stream[b] \in {CR, LF} /\ \A l \in k + 1 .. b - 1 : stream[l] = Blank
    BY <1>1 DEF PongReceived
  <2>4. PICK b \in 1 .. at :
            /\ k + 1 < b
            /\ stream[k] = Pong /\ (k - 1 \in ends \cup {0} \/ stream[k - 1] \in {LF, Blank})
            /\ stream[b] \in {CR, LF} /\ \A l \in k + 1 .. b - 1 : stream[l] = Blank
    BY <2>3
  <2> DEFINE f == FirstNotOf(Received, k + 1, {Blank})
  <2>5. /\ f \in k + 1 .. at + 1
        /\ f <= at => Received[f] \notin {Blank}
        /\ \A l \in k + 1 .. f - 1 : Received[l] \in {Blank}
    <3>1. k + 1 \in 1 .. Len(Received) + 1
      BY <2>1, <2>2, <2>3
    <3>2. QED
      BY <2>2, <3>1, FirstNotOfFacts
  <2> HIDE DEF f
  <2>6. k \in Nat /\ b \in Nat /\ f \in Nat /\ b <= at
    BY <2>1, <2>3, <2>4, <2>5
  <2>7. ~(b < f)
    <3> SUFFICES ASSUME b < f PROVE FALSE
      OBVIOUS
    <3>1. b \in k + 1 .. f - 1
      BY <2>4, <2>6
    <3>2. stream[b] = Blank
      BY <2>2, <2>4, <2>5, <3>1
    <3>3. QED
      BY <2>4, <3>2
  <2>8. ~(f < b)
    <3> SUFFICES ASSUME f < b PROVE FALSE
      OBVIOUS
    <3>1. f \in k + 1 .. b - 1 /\ f <= at /\ f \in 1 .. at
      BY <2>1, <2>5, <2>6
    <3>2. stream[f] = Blank /\ stream[f] # Blank
      BY <2>2, <2>4, <2>5, <3>1
    <3>3. QED
      BY <3>2
  <2>9. f = b /\ f \in k + 2 .. at
    BY <2>4, <2>6, <2>7, <2>8
  <2>10. QED
    BY <2>4, <2>9 DEF f
<1>2. QED
  BY <1>1 DEF Origins, BlankReceived, StopsOnlyAtBlank

\* Only two kinds of text make a substr of requestToVector or of PONG throw and
\* end the server: a packet with a blank for its last character, and a request
\* PONG with nothing but blanks behind it, whatever the lengths of the packets
\* and however "\r\n", '\n' and NUL fall.
THEOREM OnlyBlanksStop == Spec => []StopsOnlyAtBlank
<1>1. Typed /\ Origins => StopsOnlyAtBlank
  BY OriginsSuffice
<1>2. Init => Typed /\ Origins
  BY InitTyped, InitOrigins
<1>3. Typed /\ Origins /\ [Next]_vars => (Typed /\ Origins)'
  BY StepTyped, StepOrigins
<1>4. QED
  BY <1>1, <1>2, <1>3, PTL DEF Spec

-----------------------------------------------------------------------------
\* Cutting strings

LEMMA TextIsString == Text \subseteq Seq(Chars) /\ Seq(Text) \subseteq Seq(Seq(Chars))
<1>1. Text \subseteq Seq(Chars)
  <2> SUFFICES ASSUME NEW s \in Text PROVE s \in Seq(Chars)
    OBVIOUS
  <2>1. s \in Seq(Chars \ {NUL}) /\ Chars \ {NUL} \subseteq Chars
    BY DEF Text
  <2>2. QED
    BY <2>1, ST!SeqMonotonic
<1>2. \A ss \in Seq(Text) : ss \in Seq(Seq(Chars))
  BY <1>1, ST!SeqMonotonic
<1>3. QED
  BY <1>1, <1>2

-----------------------------------------------------------------------------
\* The letters of a string

LEMMA LettersType ==
  ASSUME NEW s \in Seq(Chars)
  PROVE  LettersOf(s) \in Seq(Letters)
<1> DEFINE one == [k \in 1 .. Len(s) |-> IF s[k] \in Letters THEN <<s[k]>> ELSE <<>>]
<1>1. one \in Seq(Seq(Letters))
  OBVIOUS
<1>2. <<>> \in Seq(Letters)
  OBVIOUS
<1> HIDE DEF one
<1>3. FlattenSeq(one) \in Seq(Letters)
  BY <1>1, <1>2, FlattenAppend
<1>4. QED
  BY <1>3 DEF LettersOf, one

LEMMA LettersConcat ==
  ASSUME NEW s \in Seq(Chars), NEW t \in Seq(Chars)
  PROVE  LettersOf(s \o t) = LettersOf(s) \o LettersOf(t)
<1> DEFINE one(u) == [k \in 1 .. Len(u) |-> IF u[k] \in Letters THEN <<u[k]>> ELSE <<>>]
<1>1. one(s) \in Seq(Seq(Letters)) /\ one(t) \in Seq(Seq(Letters))
  OBVIOUS
<1>2. /\ s \o t \in Seq(Chars) /\ Len(s \o t) = Len(s) + Len(t)
      /\ Len(s) \in Nat /\ Len(t) \in Nat
      /\ \A k \in 1 .. Len(s) + Len(t) : (s \o t)[k] = IF k <= Len(s) THEN s[k] ELSE t[k - Len(s)]
  BY ST!ConcatProperties
<1>3. one(s \o t) = one(s) \o one(t)
  <2>1. one(s \o t) \in Seq(Seq(Letters)) /\ Len(one(s \o t)) = Len(s) + Len(t)
    BY <1>2
  <2>2. Len(one(s)) = Len(s) /\ Len(one(t)) = Len(t)
    OBVIOUS
  <2>3. \A k \in 1 .. Len(s) : one(s \o t)[k] = one(s)[k]
    BY <1>2
  <2>4. \A k \in 1 .. Len(t) : one(s \o t)[Len(s) + k] = one(t)[k]
    <3> SUFFICES ASSUME NEW k \in 1 .. Len(t)
                 PROVE  one(s \o t)[Len(s) + k] = one(t)[k]
      OBVIOUS
    <3>1. Len(s) + k \in 1 .. Len(s) + Len(t) /\ ~(Len(s) + k <= Len(s)) /\ Len(s) + k - Len(s) = k
      BY <1>2
    <3>2. (s \o t)[Len(s) + k] = t[k]
      BY <1>2, <3>1
    <3>3. QED
      BY <1>2, <3>1, <3>2
  <2> HIDE DEF one
  <2>5. /\ Len(one(s \o t)) = Len(one(s)) + Len(one(t))
        /\ \A k \in 1 .. Len(one(s)) : one(s \o t)[k] = one(s)[k]
        /\ \A k \in 1 .. Len(one(t)) : one(s \o t)[Len(one(s)) + k] = one(t)[k]
    BY <2>1, <2>2, <2>3, <2>4
  <2>6. QED
    BY <1>1, <2>1, <2>5, Joined
<1>4. FlattenSeq(one(s) \o one(t)) = FlattenSeq(one(s)) \o FlattenSeq(one(t))
  <2> HIDE DEF one
  <2> QED BY <1>1, FlattenConcat
<1>5. QED
  BY <1>3, <1>4 DEF LettersOf

LEMMA LettersNone ==
  ASSUME NEW s \in Seq(Chars), \A k \in 1 .. Len(s) : s[k] \notin Letters
  PROVE  LettersOf(s) = <<>>
<1> DEFINE one == [k \in 1 .. Len(s) |-> IF s[k] \in Letters THEN <<s[k]>> ELSE <<>>]
<1>1. one \in Seq(Seq(Letters)) /\ \A k \in 1 .. Len(one) : one[k] = <<>>
  OBVIOUS
<1> HIDE DEF one
<1>2. FlattenSeq(one) = <<>>
  BY <1>1, FlattenNone
<1>3. QED
  BY <1>2 DEF LettersOf, one

LEMMA LettersCut ==
  ASSUME NEW s \in Seq(Chars), NEW k \in 0 .. Len(s)
  PROVE  LettersOf(s) = LettersOf(SubSeq(s, 1, k)) \o LettersOf(Behind(s, k + 1))
<1>1. /\ s = SubSeq(s, 1, k) \o Behind(s, k + 1)
      /\ SubSeq(s, 1, k) \in Seq(Chars) /\ Behind(s, k + 1) \in Seq(Chars)
  BY Cut
<1>2. LettersOf(SubSeq(s, 1, k) \o Behind(s, k + 1)) =
        LettersOf(SubSeq(s, 1, k)) \o LettersOf(Behind(s, k + 1))
  BY <1>1, LettersConcat
<1>3. QED
  BY <1>1, <1>2

-----------------------------------------------------------------------------
\* What the actions move from one string to the next

LEMMA ReceivedFacts ==
  ASSUME Typed
  PROVE  /\ Received \in Seq(Chars) /\ Len(Received) = at
         /\ \A k \in 1 .. at : Received[k] = stream[k]
<1>1. stream \in Seq(Chars) /\ at \in 0 .. Len(stream)
  BY DEF Typed, TypeOK
<1>2. QED
  BY <1>1, Cut DEF Received

\* Without a NUL a packet is the request as it is.
LEMMA RecvAdds ==
  ASSUME Typed, NEW n \in 1 .. MaxInput, Recv(n), NoNUL'
  PROVE  /\ Received' = Received \o request'
         /\ Len(request') = n /\ request'[n] = stream[at']
<1>1. /\ request' \in Text /\ Len(request') \in 0 .. n
      /\ at \in Nat /\ n \in Nat /\ at' = at + n /\ at' \in 1 .. Len(stream)
      /\ \A k \in 1 .. Len(request') : at + k \in 1 .. at' /\ request'[k] = stream[at + k]
      /\ Len(request') < n => stream[at + Len(request') + 1] = NUL
  BY RecvFacts
<1>2. stream' = stream /\ stream \in Seq(Chars) /\ at \in 0 .. Len(stream) /\ n >= 1
  BY DEF Typed, TypeOK, Recv
<1>3. Len(request') = n
  <2> SUFFICES ASSUME Len(request') # n PROVE FALSE
    OBVIOUS
  <2>1. Len(request') < n /\ at + Len(request') + 1 \in 1 .. at'
    BY <1>1
  <2>2. stream[at + Len(request') + 1] # NUL
    BY <1>2, <2>1 DEF NoNUL
  <2>3. QED
    BY <1>1, <2>1, <2>2
<1>4. /\ Received' \in Seq(Chars) /\ Len(Received') = at'
      /\ \A k \in 1 .. at' : Received'[k] = stream[k]
  <2>1. at' \in 0 .. Len(stream)
    BY <1>1
  <2>2. Received' = SubSeq(stream, 1, at')
    BY <1>2 DEF Received
  <2>3. QED
    BY <1>2, <2>1, <2>2, Cut
<1>5. /\ Received \in Seq(Chars) /\ Len(Received) = at
      /\ \A k \in 1 .. at : Received[k] = stream[k]
  BY ReceivedFacts
<1>6. request' \in Seq(Chars)
  BY <1>1, TextIsString
<1>7. /\ Len(Received') = Len(Received) + Len(request')
      /\ \A k \in 1 .. Len(Received) : Received'[k] = Received[k]
      /\ \A k \in 1 .. Len(request') : Received'[Len(Received) + k] = request'[k]
  <2>1. \A k \in 1 .. at : k \in 1 .. at'
    BY <1>1
  <2>2. QED
    BY <1>1, <1>3, <1>4, <1>5, <2>1
<1>8. Received' = Received \o request'
  BY <1>4, <1>5, <1>6, <1>7, Joined
<1>9. request'[n] = stream[at']
  BY <1>1, <1>2, <1>3
<1>10. QED
  BY <1>3, <1>8, <1>9

LEMMA ReplaceCut ==
  ASSUME Typed, ReplaceCRLF
  PROVE  \E u \in Seq(Chars), v \in Seq(Chars) :
            /\ request = (u \o <<CR, LF>>) \o v
            /\ request' = (u \o <<LF>>) \o v
            /\ Len(request') = Len(request) - 1
            /\ Len(request') = Len(u) + 1 + Len(v)
            /\ request'[Len(request')] = request[Len(request)]
<1>1. PICK k \in 1 .. Len(request) - 1 :
            /\ request[k] = CR /\ request[k + 1] = LF
            /\ request' \in Text /\ Len(request') = Len(request) - 1
            /\ \A j \in 1 .. Len(request) - 1 :
                  request'[j] = IF j < k THEN request[j] ELSE request[j + 1]
  BY ReplaceFacts
<1>2. request \in Seq(Chars) /\ request' \in Seq(Chars)
  BY <1>1, TextIsString DEF Typed, TypeOK, Text
<1>3. Len(request) \in Nat /\ k \in Nat /\ k >= 1 /\ k + 1 <= Len(request)
  BY <1>1, <1>2
<1> DEFINE u == SubSeq(request, 1, k - 1)
           v == Behind(request, k + 2)
<1>4. /\ u \in Seq(Chars) /\ Len(u) = k - 1 /\ \A l \in 1 .. k - 1 : u[l] = request[l]
  <2>1. k - 1 \in 0 .. Len(request)
    BY <1>3
  <2>2. QED
    BY <1>2, <2>1, Cut
<1>5. /\ v \in Seq(Chars) /\ Len(v) = Len(request) - (k + 1)
      /\ \A l \in 1 .. Len(request) - (k + 1) : v[l] = request[k + 1 + l]
  <2>1. k + 1 \in 0 .. Len(request) /\ k + 1 + 1 = k + 2
    BY <1>3
  <2>2. QED
    BY <1>2, <2>1, Cut
<1> HIDE DEF u, v
<1>6. /\ <<CR, LF>> \in Seq(Chars) /\ Len(<<CR, LF>>) = 2 /\ <<CR, LF>>[1] = CR /\ <<CR, LF>>[2] = LF
      /\ <<LF>> \in Seq(Chars) /\ Len(<<LF>>) = 1 /\ <<LF>>[1] = LF
  BY DEF Chars
<1>7. /\ u \o <<CR, LF>> \in Seq(Chars) /\ Len(u \o <<CR, LF>>) = k + 1
      /\ \A l \in 1 .. k + 1 : (u \o <<CR, LF>>)[l] = IF l <= k - 1 THEN u[l] ELSE <<CR, LF>>[l - (k - 1)]
  <2>1. /\ u \o <<CR, LF>> \in Seq(Chars) /\ Len(u \o <<CR, LF>>) = Len(u) + 2
        /\ \A l \in 1 .. Len(u) + 2 : (u \o <<CR, LF>>)[l] = IF l <= Len(u) THEN u[l] ELSE <<CR, LF>>[l - Len(u)]
    BY <1>4, <1>6, ST!ConcatProperties
  <2>2. Len(u) = k - 1 /\ Len(u) + 2 = k + 1
    BY <1>3, <1>4
  <2>3. QED
    BY <2>1, <2>2
<1>8. /\ u \o <<LF>> \in Seq(Chars) /\ Len(u \o <<LF>>) = k
      /\ \A l \in 1 .. k : (u \o <<LF>>)[l] = IF l <= k - 1 THEN u[l] ELSE <<LF>>[l - (k - 1)]
  <2>1. /\ u \o <<LF>> \in Seq(Chars) /\ Len(u \o <<LF>>) = Len(u) + 1
        /\ \A l \in 1 .. Len(u) + 1 : (u \o <<LF>>)[l] = IF l <= Len(u) THEN u[l] ELSE <<LF>>[l - Len(u)]
    <3>1. u \in Seq(Chars) /\ <<LF>> \in Seq(Chars) /\ Len(<<LF>>) = 1
      BY <1>4, <1>6
    <3>2. QED
      BY <3>1, ST!ConcatProperties
  <2>2. Len(u) = k - 1 /\ Len(u) + 1 = k
    BY <1>3, <1>4
  <2>3. QED
    BY <2>1, <2>2
<1>9. request = (u \o <<CR, LF>>) \o v
  <2>1. Len(request) = Len(u \o <<CR, LF>>) + Len(v)
    <3>1. Len(request) = k + 1 + Len(v)
      BY <1>3, <1>5
    <3>2. QED
      BY <1>7, <3>1, Zenon
  <2>2. \A l \in 1 .. k + 1 : request[l] = (u \o <<CR, LF>>)[l]
    <3> SUFFICES ASSUME NEW l \in 1 .. k + 1 PROVE request[l] = (u \o <<CR, LF>>)[l]
      OBVIOUS
    <3>1. l \in 1 .. k - 1 \/ l = k \/ l = k + 1
      BY <1>3
    <3>2. CASE l \in 1 .. k - 1
      BY <1>3, <1>4, <1>7, <3>2
    <3>3. CASE l = k
      <4>1. ~(l <= k - 1) /\ l - (k - 1) = 1
        BY <1>3, <3>3
      <4>2. QED
        BY <1>1, <1>6, <1>7, <3>3, <4>1
    <3>4. CASE l = k + 1
      <4>1. ~(l <= k - 1) /\ l - (k - 1) = 2
        BY <1>3, <3>4
      <4>2. QED
        BY <1>1, <1>6, <1>7, <3>4, <4>1
    <3>5. QED
      BY <3>1, <3>2, <3>3, <3>4
  <2>3. \A l \in 1 .. Len(v) : request[k + 1 + l] = v[l]
    BY <1>5
  <2>4. /\ \A l \in 1 .. Len(u \o <<CR, LF>>) : request[l] = (u \o <<CR, LF>>)[l]
        /\ \A l \in 1 .. Len(v) : request[Len(u \o <<CR, LF>>) + l] = v[l]
    BY <1>7, <2>2, <2>3
  <2>5. QED
    BY <1>2, <1>5, <1>7, <2>1, <2>4, Joined
<1>10. request' = (u \o <<LF>>) \o v
  <2>1. Len(request') = Len(u \o <<LF>>) + Len(v)
    <3>1. Len(request') = k + Len(v)
      BY <1>1, <1>3, <1>5
    <3>2. QED
      BY <1>8, <3>1, Zenon
  <2>2. \A l \in 1 .. k : request'[l] = (u \o <<LF>>)[l]
    <3> SUFFICES ASSUME NEW l \in 1 .. k PROVE request'[l] = (u \o <<LF>>)[l]
      OBVIOUS
    <3>1. l \in 1 .. Len(request) - 1 /\ (l \in 1 .. k - 1 \/ l = k)
      BY <1>3
    <3>2. CASE l \in 1 .. k - 1
      BY <1>1, <1>3, <1>4, <1>8, <3>1, <3>2
    <3>3. CASE l = k
      <4>1. ~(l <= k - 1) /\ l - (k - 1) = 1 /\ ~(l < k)
        BY <1>3, <3>3
      <4>2. QED
        BY <1>1, <1>6, <1>8, <3>1, <3>3, <4>1
    <3>4. QED
      BY <3>1, <3>2, <3>3
  <2>3. \A l \in 1 .. Len(v) : request'[k + l] = v[l]
    <3> SUFFICES ASSUME NEW l \in 1 .. Len(v) PROVE request'[k + l] = v[l]
      OBVIOUS
    <3>1. k + l \in 1 .. Len(request) - 1 /\ ~(k + l < k) /\ k + l + 1 = k + 1 + l
      BY <1>3, <1>5
    <3>2. QED
      BY <1>1, <1>5, <3>1
  <2>4. /\ \A l \in 1 .. Len(u \o <<LF>>) : request'[l] = (u \o <<LF>>)[l]
        /\ \A l \in 1 .. Len(v) : request'[Len(u \o <<LF>>) + l] = v[l]
    BY <1>8, <2>2, <2>3
  <2>5. QED
    BY <1>2, <1>5, <1>8, <2>1, <2>4, Joined
<1>11. Len(request') = Len(u) + 1 + Len(v)
  BY <1>1, <1>3, <1>4, <1>5
<1>12. request'[Len(request')] = request[Len(request)]
  <2>1. Len(request) - 1 \in 1 .. Len(request) - 1 /\ ~(Len(request) - 1 < k)
        /\ Len(request) - 1 + 1 = Len(request)
    BY <1>3
  <2>2. QED
    BY <1>1, <2>1
<1>13. QED
  BY <1>1, <1>4, <1>5, <1>9, <1>10, <1>11, <1>12

\* What a turn of split that queues request[m .. n] does.
TurnCuts(m, n, skip, piece, rest) ==
    /\ m <= n /\ piece = SubSeq(request, m, n) /\ rest = Behind(request, n + 1)
    /\ Len(piece) = n + 1 - m
    /\ \A l \in 1 .. n + 1 - m : piece[l] = request[m + l - 1]
    /\ Behind(request, i) = skip \o (piece \o rest)
    /\ \A l \in 1 .. Len(skip) : skip[l] = LF
    /\ queue' = Append(queue, piece)
    /\ request[m] # LF /\ \A l \in m .. n - 1 : request[l] # LF
    /\ \/ request[n] = LF /\ Behind(request, i') = <<LF>> \o rest
       \/ n = Len(request) /\ request[n] # LF /\ rest = <<>> /\ Behind(request, i') = <<>>

\* One turn of split skips the '\n' before a piece, and leaves the one behind it.
LEMMA SplitCut ==
  ASSUME Typed, Split
  PROVE  \/ /\ queue' = queue /\ Behind(request, i') = <<>>
            /\ Behind(request, i) \in Seq(Chars)
            /\ \A l \in 1 .. Len(Behind(request, i)) : Behind(request, i)[l] = LF
         \/ \E m, n \in 1 .. Len(request) : \E skip, piece, rest \in Seq(Chars) :
               TurnCuts(m, n, skip, piece, rest)
<1> DEFINE first == FirstNotOf(request, i, {LF})
           j == FirstOf(request, first, {LF})
           last == IF j > Len(request) THEN j - 1 ELSE j
<1>1. /\ i \in 1 .. Len(request) /\ request \in Text /\ request \in Seq(Chars)
      /\ i' = j /\ request' = request /\ Len(request) \in Nat
      /\ queue' = IF first > Len(request) THEN queue
                  ELSE Append(queue, SubSeq(request, first, last))
  BY DEF Typed, TypeOK, Split, Text
<1>2. /\ first \in i .. Len(request) + 1
      /\ first <= Len(request) => request[first] # LF
      /\ \A l \in i .. first - 1 : request[l] = LF
  BY <1>1, FirstNotOfFacts
<1> HIDE DEF first
<1>3. /\ j \in first .. Len(request) + 1
      /\ j <= Len(request) => request[j] = LF
      /\ \A l \in first .. j - 1 : request[l] # LF
  BY <1>1, <1>2, FirstOfFacts
<1> HIDE DEF j
<1>4. ASSUME NEW k \in 0 .. Len(request)
      PROVE  /\ Behind(request, k + 1) \in Seq(Chars)
             /\ Len(Behind(request, k + 1)) = Len(request) - k
             /\ \A l \in 1 .. Len(request) - k : Behind(request, k + 1)[l] = request[k + l]
  BY <1>1, <1>4, Cut
<1>5. ASSUME j = Len(request) + 1
      PROVE  Behind(request, i') = <<>>
  BY <1>1, <1>5, ST!SubSeqEmpty DEF Behind
<1>6. /\ Behind(request, i) \in Seq(Chars)
      /\ Len(Behind(request, i)) = Len(request) + 1 - i
      /\ \A l \in 1 .. Len(request) + 1 - i : Behind(request, i)[l] = request[i + l - 1]
  BY <1>1, PartFacts DEF Behind
<1>7. CASE first > Len(request)
  <2>1. first = Len(request) + 1 /\ j = Len(request) + 1
    BY <1>1, <1>2, <1>3, <1>7
  <2>2. \A l \in 1 .. Len(request) + 1 - i : i + l - 1 \in i .. first - 1
    BY <1>1, <2>1
  <2>3. \A l \in 1 .. Len(Behind(request, i)) : Behind(request, i)[l] = LF
    BY <1>2, <1>6, <2>2
  <2>4. queue' = queue
    BY <1>1, <1>7
  <2>5. QED
    BY <1>5, <1>6, <2>1, <2>3, <2>4
<1>8. CASE first <= Len(request)
  <2>1. /\ first \in 1 .. Len(request) /\ last \in 1 .. Len(request) /\ first <= last
        /\ i <= first /\ first - 1 \in 0 .. Len(request)
        /\ last = j \/ (last = Len(request) /\ j = Len(request) + 1)
    <3>1. first \in 1 .. Len(request) /\ i <= first /\ first - 1 \in 0 .. Len(request)
      BY <1>1, <1>2, <1>8
    <3>2. CASE j <= Len(request)
      <4>1. last = j
        BY <1>1, <1>3, <3>1, <3>2
      <4>2. QED
        BY <1>1, <1>3, <3>1, <3>2, <4>1
    <3>3. CASE j = Len(request) + 1
      <4>1. last = Len(request)
        BY <1>1, <3>3
      <4>2. QED
        BY <1>1, <3>1, <3>3, <4>1
    <3>4. j <= Len(request) \/ j = Len(request) + 1
      <4>1. j \in first .. Len(request) + 1 /\ Len(request) \in Nat /\ first \in 1 .. Len(request)
        BY <1>1, <1>3, <3>1, Zenon
      <4> HIDE DEF last
      <4>2. QED
        BY <4>1
    <3>5. QED
      BY <3>2, <3>3, <3>4, Zenon
  <2>2. request[first] # LF /\ \A l \in first .. last - 1 : request[l] # LF
    <3>1. \A l \in first .. last - 1 : l \in first .. j - 1
      BY <1>1, <1>3, <2>1
    <3>2. QED
      BY <1>2, <1>3, <1>8, <3>1
  <2>3. queue' = Append(queue, SubSeq(request, first, last))
    <3> HIDE DEF last
    <3>1. ~(first > Len(request))
      BY <1>1, <1>2, <1>8
    <3>2. QED
      BY <1>1, <3>1, Zenon
  <2>4. (last = j /\ request[last] = LF) \/ (last = Len(request) /\ j = Len(request) + 1 /\ request[last] # LF)
    <3>1. CASE j <= Len(request)
      BY <1>3, <2>1, <3>1
    <3>2. CASE j = Len(request) + 1
      <4>1. last = Len(request) /\ last \in first .. j - 1
        BY <1>1, <2>1, <3>2
      <4>2. QED
        BY <1>3, <3>2, <4>1
    <3>3. j <= Len(request) \/ j = Len(request) + 1
      <4>1. Len(request) \in Nat /\ j \in Nat /\ j <= Len(request) + 1
        BY <1>1, <1>2, <1>3
      <4>2. QED
        BY <4>1
    <3>4. QED
      BY <3>1, <3>2, <3>3
  <2> HIDE DEF last
  <2> DEFINE skip == SubSeq(request, i, first - 1)
             piece == SubSeq(request, first, last)
             rest == Behind(request, last + 1)
  <2>5. /\ skip \in Seq(Chars) /\ Len(skip) = first - 1 + 1 - i
        /\ \A l \in 1 .. first - 1 + 1 - i : skip[l] = request[i + l - 1]
    <3>1. i \in 1 .. Len(request) + 1 /\ first - 1 \in 0 .. Len(request) /\ i <= first - 1 + 1
      BY <1>1, <2>1
    <3>2. QED
      BY <1>1, <3>1, PartFacts
  <2>6. \A l \in 1 .. Len(skip) : skip[l] = LF
    <3>1. \A l \in 1 .. first - 1 + 1 - i : i + l - 1 \in i .. first - 1
      BY <1>1, <2>1
    <3> HIDE DEF skip
    <3>2. QED
      BY <1>2, <2>5, <3>1
  <2>7. /\ piece \in Seq(Chars) /\ Len(piece) = last + 1 - first
        /\ \A l \in 1 .. last + 1 - first : piece[l] = request[first + l - 1]
    <3>1. first \in 1 .. Len(request) + 1 /\ last \in 0 .. Len(request) /\ first <= last + 1
      BY <1>1, <2>1
    <3>2. QED
      BY <1>1, <3>1, PartFacts
  <2>8. rest \in Seq(Chars)
    <3>1. last \in 0 .. Len(request)
      BY <1>1, <2>1
    <3>2. QED
      BY <1>4, <3>1
  <2>9. Behind(request, i) = skip \o (piece \o rest)
    <3>1. piece \o rest = SubSeq(request, first, Len(request))
      <4>1. first \in 1 .. Len(request) + 1 /\ last \in first - 1 .. Len(request)
            /\ Len(request) \in last .. Len(request)
        BY <1>1, <2>1
      <4>2. QED
        BY <1>1, <4>1, ST!ConcatAdjacentSubSeq DEF Behind
    <3>2. SubSeq(request, i, first - 1) \o SubSeq(request, first - 1 + 1, Len(request))
          = SubSeq(request, i, Len(request))
      <4>1. i \in 1 .. Len(request) + 1 /\ first - 1 \in i - 1 .. Len(request)
            /\ Len(request) \in first - 1 .. Len(request)
        BY <1>1, <2>1
      <4>2. QED
        BY <1>1, <4>1, ST!ConcatAdjacentSubSeq
    <3>3. first - 1 + 1 = first
      BY <2>1
    <3>4. QED
      BY <3>1, <3>2, <3>3 DEF Behind
  <2>10. \/ request[last] = LF /\ Behind(request, i') = <<LF>> \o rest
         \/ last = Len(request) /\ request[last] # LF /\ rest = <<>> /\ Behind(request, i') = <<>>
    <3>1. CASE last = j /\ request[last] = LF
      <4>1. last \in 1 .. Len(request) /\ Len(request) \in last .. Len(request)
        BY <1>1, <2>1
      <4>2. SubSeq(request, last, Len(request)) = <<request[last]>> \o SubSeq(request, last + 1, Len(request))
        BY <1>1, <4>1, ST!SubSeqRecursiveFirst
      <4>3. QED
        BY <1>1, <3>1, <4>2 DEF Behind
    <3>2. CASE last = Len(request) /\ j = Len(request) + 1 /\ request[last] # LF
      <4>1. rest = Behind(request, i')
        BY <1>1, <3>2
      <4>2. QED
        BY <1>5, <3>2, <4>1
    <3>3. QED
      BY <2>4, <3>1, <3>2
  <2> HIDE DEF skip, rest
  <2>11. piece = SubSeq(request, first, last) /\ rest = Behind(request, last + 1)
    BY DEF rest
  <2> HIDE DEF piece
  <2>12. TurnCuts(first, last, skip, piece, rest)
    BY <2>1, <2>2, <2>3, <2>6, <2>7, <2>9, <2>10, <2>11 DEF TurnCuts
  <2>13. QED
    BY <2>1, <2>5, <2>7, <2>8, <2>12, Zenon
<1>9. first > Len(request) \/ first <= Len(request)
  BY <1>1, <1>2
<1>10. QED
  BY <1>7, <1>8, <1>9


-----------------------------------------------------------------------------
\* No letter is lost

\* A packet of one letter is dropped.
NoLoneLetter == \A e \in ends : stream[e] \in Letters => e > 1 /\ e - 1 \notin ends

\* Where what was received and is not executed is found.
AtHand == IF pc = "words" THEN line ELSE IF pc = "execute" THEN FlattenSeq(words) ELSE <<>>
Unsplit == IF pc = "crlf" THEN request ELSE IF pc = "split" THEN Behind(request, i) ELSE <<>>

\* Each letter is executed, at hand, queued or not split yet.
Accounted ==
    status = "up" /\ NoNUL /\ NoLoneLetter =>
        LettersOf(Received) =
            ((LettersOf(FlattenSeq(FlattenSeq(executed))) \o LettersOf(AtHand))
                \o LettersOf(FlattenSeq(queue))) \o LettersOf(Unsplit)

\* A request of one letter is what a packet of one letter was.
Lone ==
    pc = "crlf" /\ Len(request) = 1 /\ request[1] \in Letters /\ NoNUL =>
        at \in ends /\ stream[at] \in Letters /\ (at = 1 \/ at - 1 \in ends)

\* What of the line has become words.
ReadLetters == pc = "words" => LettersOf(FlattenSeq(words)) = LettersOf(SubSeq(line, 1, start - 1))

Executed == executed \in Seq(Seq(Text))

\* The inductive invariant for NothingLost.
LettersKept == Executed /\ Accounted /\ Lone /\ ReadLetters

\* The three sums of letters Accounted adds up, and what they are of.
LEMMA SumTypes ==
  ASSUME Typed, Executed
  PROVE  /\ FlattenSeq(executed) \in Seq(Text)
         /\ FlattenSeq(FlattenSeq(executed)) \in Seq(Chars)
         /\ FlattenSeq(words) \in Seq(Chars) /\ FlattenSeq(queue) \in Seq(Chars)
         /\ line \in Seq(Chars) /\ request \in Seq(Chars)
<1>1. /\ words \in Seq(Seq(Chars \ {NUL})) /\ queue \in Seq(Seq(Chars \ {NUL}))
      /\ executed \in Seq(Seq(Text)) /\ line \in Text /\ request \in Text
  BY DEF Typed, TypeOK, Executed, Text
<1>2. <<>> \in Seq(Chars \ {NUL}) /\ <<>> \in Seq(Text)
  OBVIOUS
<1>3. FlattenSeq(words) \in Seq(Chars \ {NUL}) /\ FlattenSeq(queue) \in Seq(Chars \ {NUL})
  BY <1>1, <1>2, FlattenAppend
<1>4. FlattenSeq(executed) \in Seq(Text)
  BY <1>1, <1>2, FlattenAppend
<1>5. FlattenSeq(executed) \in Seq(Seq(Chars \ {NUL}))
  BY <1>4 DEF Text
<1>6. FlattenSeq(FlattenSeq(executed)) \in Seq(Chars \ {NUL})
  BY <1>2, <1>5, FlattenAppend
<1>7. QED
  BY <1>1, <1>3, <1>4, <1>6, TextIsString DEF Text

\* Letters of the sums are sequences of letters.
LEMMA SumLetters ==
  ASSUME Typed, Executed
  PROVE  /\ LettersOf(FlattenSeq(FlattenSeq(executed))) \in Seq(Letters)
         /\ AtHand \in Seq(Chars) /\ LettersOf(AtHand) \in Seq(Letters)
         /\ LettersOf(FlattenSeq(queue)) \in Seq(Letters)
         /\ Unsplit \in Seq(Chars) /\ LettersOf(Unsplit) \in Seq(Letters)
<1>1. <<>> \in Seq(Chars)
  OBVIOUS
<1>2. AtHand \in Seq(Chars)
  BY <1>1, SumTypes DEF AtHand
<1>3. pc = "split" => Behind(request, i) \in Seq(Chars)
  <2> SUFFICES ASSUME pc = "split" PROVE Behind(request, i) \in Seq(Chars)
    OBVIOUS
  <2>1. i \in 1 .. Len(request) + 1 /\ request \in Seq(Chars)
    BY SumTypes DEF Typed, TypeOK
  <2>2. Len(request) \in 0 .. Len(request) /\ i <= Len(request) + 1
    BY <2>1
  <2>3. QED
    BY <2>1, <2>2, PartFacts DEF Behind
<1>4. Unsplit \in Seq(Chars)
  BY <1>1, <1>3, SumTypes DEF Unsplit
<1>5. QED
  BY <1>2, <1>4, SumTypes, LettersType

LEMMA NoLetters == LettersOf(<<>>) = <<>> /\ LettersOf(<<LF>>) = <<>> /\ LettersOf(<<CR, LF>>) = <<>>
<1>1. <<>> \in Seq(Chars) /\ <<LF>> \in Seq(Chars) /\ <<CR, LF>> \in Seq(Chars)
  BY DEF Chars
<1>2. CR \notin Letters /\ LF \notin Letters
  BY CharAssumption DEF CharAssumption
<1>3. /\ \A k \in 1 .. Len(<<>>) : <<>>[k] \notin Letters
      /\ \A k \in 1 .. Len(<<LF>>) : <<LF>>[k] \notin Letters
      /\ \A k \in 1 .. Len(<<CR, LF>>) : <<CR, LF>>[k] \notin Letters
  BY <1>2
<1>4. QED
  BY <1>1, <1>3, LettersNone

\* What is known of the stream stays known.
LEMMA StreamGrows ==
  ASSUME Typed, [Next]_vars
  PROVE  /\ NoNUL' => NoNUL
         /\ NoLoneLetter' => NoLoneLetter
         /\ Whole' => Whole
         /\ status' = "up" => status = "up"
<1>1. stream' = stream /\ ends \subseteq ends' /\ at \in Nat /\ at' \in Nat /\ at <= at'
  <2>1. at \in Nat
    BY DEF Typed, TypeOK
  <2>2. ASSUME NEW n \in 1 .. MaxInput, Recv(n)
        PROVE stream' = stream /\ ends \subseteq ends' /\ at' \in Nat /\ at <= at'
    BY <2>1, <2>2 DEF Recv
  <2>3. CASE ~ \E n \in 1 .. MaxInput : Recv(n)
    <3>1. UNCHANGED reading
      BY <2>3 DEF Next, Work, RecvUnended, ReplaceCRLF, Queue, Split, SplitDone, TakeLine,
                  NextWord, LastWord, Execute, PongThrows, Drained, vars, reading
    <3>2. QED
      BY <2>1, <3>1 DEF reading
  <2>4. QED
    BY <2>1, <2>2, <2>3
<1>2. NoNUL' => NoNUL
  <2>1. \A k \in 1 .. at : k \in 1 .. at'
    BY <1>1
  <2>2. QED
    BY <1>1, <2>1 DEF NoNUL
<1>3. NoLoneLetter' => NoLoneLetter
  BY <1>1 DEF NoLoneLetter
<1>4. Whole' => Whole
  BY <1>1 DEF Whole
<1>5. status' = "up" => status = "up"
  BY DEF Next, Work, Recv, RecvUnended, ReplaceCRLF, Queue, Split, SplitDone, TakeLine,
         NextWord, LastWord, Execute, PongThrows, Drained, vars
<1>6. QED
  BY <1>2, <1>3, <1>4, <1>5

LEMMA InitLettersKept == Init => LettersKept
<1> SUFFICES ASSUME Init PROVE LettersKept
  OBVIOUS
<1>1. /\ at = 0 /\ pc = "recv" /\ queue = <<>> /\ executed = <<>>
  BY DEF Init
<1>2. Received = <<>>
  BY <1>1, ST!SubSeqEmpty DEF Received
<1>3. AtHand = <<>> /\ Unsplit = <<>>
  BY <1>1 DEF AtHand, Unsplit
<1>4. FlattenSeq(executed) = <<>> /\ FlattenSeq(FlattenSeq(executed)) = <<>> /\ FlattenSeq(queue) = <<>>
  BY <1>1, FlattenEmpty
<1>5. <<>> = ((<<>> \o <<>>) \o <<>>) \o <<>>
  OBVIOUS
<1>6. Accounted
  BY <1>2, <1>3, <1>4, <1>5, NoLetters DEF Accounted
<1>7. QED
  BY <1>1, <1>6 DEF LettersKept, Executed, Lone, ReadLetters

LEMMA RecvLetters ==
  ASSUME Typed, Origins, LettersKept, NEW n \in 1 .. MaxInput, Recv(n)
  PROVE  LettersKept'
<1>1. /\ pc = "recv" /\ pc' = "crlf" /\ status = "up" /\ ends' = ends \cup {at'}
      /\ stream' = stream /\ at' = at + n
      /\ UNCHANGED <<queue, executed, words, line>> /\ queue = <<>> /\ at \in ends \cup {0}
  BY DEF Recv, Origins, cutting
<1>2. [Next]_vars
  BY DEF Next
<1>3. Executed' /\ ReadLetters'
  BY <1>1 DEF LettersKept, Executed, ReadLetters
<1>4. /\ request' \in Seq(Chars) /\ Received \in Seq(Chars)
      /\ LettersOf(request') \in Seq(Letters)
      /\ LettersOf(FlattenSeq(FlattenSeq(executed))) \in Seq(Letters)
  <2>1. request' \in Seq(Chars)
    BY RecvFacts, TextIsString
  <2>2. QED
    BY <2>1, LettersType, ReceivedFacts, SumLetters DEF LettersKept
<1>5. Accounted'
  <2> SUFFICES ASSUME (status = "up" /\ NoNUL /\ NoLoneLetter)'
               PROVE  LettersOf(Received)' =
                        ((LettersOf(FlattenSeq(FlattenSeq(executed)))' \o LettersOf(AtHand)')
                           \o LettersOf(FlattenSeq(queue))') \o LettersOf(Unsplit)'
    BY DEF Accounted
  <2>1. NoNUL /\ NoLoneLetter
    BY <1>2, StreamGrows
  <2>2. AtHand = <<>> /\ Unsplit = <<>> /\ FlattenSeq(queue) = <<>>
        /\ AtHand' = <<>> /\ Unsplit' = request'
    BY <1>1, FlattenEmpty DEF AtHand, Unsplit
  <2> DEFINE a == LettersOf(FlattenSeq(FlattenSeq(executed)))
             p == LettersOf(request')
  <2>3. LettersOf(Received) = ((a \o <<>>) \o <<>>) \o <<>>
    BY <1>1, <2>1, <2>2, NoLetters DEF LettersKept, Accounted
  <2>4. LettersOf(Received)' = LettersOf(Received) \o p
    <3>1. Received' = Received \o request'
      BY RecvAdds
    <3>2. LettersOf(Received \o request') = LettersOf(Received) \o LettersOf(request')
      BY <1>4, LettersConcat
    <3>3. QED
      BY <3>1, <3>2
  <2>5. /\ LettersOf(FlattenSeq(FlattenSeq(executed)))' = a /\ LettersOf(AtHand)' = <<>>
        /\ LettersOf(FlattenSeq(queue))' = <<>> /\ LettersOf(Unsplit)' = p
    BY <1>1, <2>2, NoLetters
  <2>6. a \in Seq(Letters) /\ p \in Seq(Letters)
    BY <1>4
  <2> HIDE DEF a, p
  <2>7. ((a \o <<>>) \o <<>>) \o <<>> = a /\ ((a \o <<>>) \o <<>>) \o p = a \o p
    BY <2>6, Regroup
  <2>8. QED
    BY <2>3, <2>4, <2>5, <2>7
<1>6. Lone'
  <2> SUFFICES ASSUME Len(request') = 1, request'[1] \in Letters, NoNUL'
               PROVE  (at \in ends /\ stream[at] \in Letters /\ (at = 1 \/ at - 1 \in ends))'
    BY DEF Lone
  <2>1. n = 1 /\ request'[1] = stream[at']
    BY RecvAdds
  <2>2. at \in Nat /\ at' = at + 1 /\ at' - 1 = at
    BY <1>1, <2>1 DEF Typed, TypeOK
  <2>3. at \in ends' \/ at' = 1
    BY <1>1, <2>2
  <2>4. QED
    BY <1>1, <2>1, <2>2, <2>3
<1>7. QED
  BY <1>3, <1>5, <1>6 DEF LettersKept

LEMMA ReplaceLetters ==
  ASSUME Typed, Origins, LettersKept, ReplaceCRLF
  PROVE  LettersKept'
<1>1. /\ pc = "crlf" /\ pc' = "crlf" /\ UNCHANGED <<stream, at, ends>> /\ status = "up"
      /\ UNCHANGED <<queue, executed, words, line>>
  BY DEF ReplaceCRLF, cutting, reading
<1>2. [Next]_vars
  BY DEF Next, Work
<1>3. PICK u \in Seq(Chars), v \in Seq(Chars) :
            /\ request = (u \o <<CR, LF>>) \o v
            /\ request' = (u \o <<LF>>) \o v
            /\ Len(request') = Len(request) - 1
            /\ Len(request') = Len(u) + 1 + Len(v)
            /\ request'[Len(request')] = request[Len(request)]
  BY ReplaceCut
<1>4. /\ <<LF>> \in Seq(Chars) /\ <<CR, LF>> \in Seq(Chars)
      /\ u \o <<CR, LF>> \in Seq(Chars) /\ u \o <<LF>> \in Seq(Chars)
  <2>1. <<LF>> \in Seq(Chars) /\ <<CR, LF>> \in Seq(Chars)
    BY DEF Chars
  <2>2. QED
    BY <2>1, ConcatLaws
<1>5. LettersOf(request') = LettersOf(request)
  <2>1. /\ LettersOf(u \o <<CR, LF>>) = LettersOf(u) \o LettersOf(<<CR, LF>>)
        /\ LettersOf(u \o <<LF>>) = LettersOf(u) \o LettersOf(<<LF>>)
    BY <1>4, LettersConcat
  <2>2. LettersOf(u \o <<CR, LF>>) = LettersOf(u \o <<LF>>)
    BY <2>1, NoLetters
  <2>3. /\ LettersOf((u \o <<CR, LF>>) \o v) = LettersOf(u \o <<CR, LF>>) \o LettersOf(v)
        /\ LettersOf((u \o <<LF>>) \o v) = LettersOf(u \o <<LF>>) \o LettersOf(v)
    BY <1>4, LettersConcat
  <2>4. QED
    BY <1>3, <2>2, <2>3
<1>6. Accounted'
  <2>1. NoNUL' => NoNUL
    BY <1>2, StreamGrows
  <2>2. NoLoneLetter' => NoLoneLetter
    BY <1>2, StreamGrows
  <2>3. /\ Received' = Received /\ AtHand' = AtHand /\ Unsplit = request /\ Unsplit' = request'
    BY <1>1 DEF Received, AtHand, Unsplit
  <2>4. LettersOf(Unsplit') = LettersOf(Unsplit)
    BY <1>5, <2>3
  <2>5. QED
    BY <1>1, <2>1, <2>2, <2>3, <2>4 DEF LettersKept, Accounted
<1>7. Lone'
  <2> SUFFICES ASSUME Len(request') = 1 PROVE request'[1] \notin Letters
    BY DEF Lone
  <2>1. Len(u) \in Nat /\ Len(v) \in Nat
    OBVIOUS
  <2>2. u = <<>> /\ v = <<>>
    <3>1. Len(u) = 0 /\ Len(v) = 0
      BY <1>3, <2>1
    <3>2. QED
      BY <3>1
  <2>3. request' = <<LF>>
    <3>1. <<>> \o <<LF>> = <<LF>> /\ <<LF>> \o <<>> = <<LF>>
      BY <1>4, ConcatLaws
    <3>2. QED
      BY <1>3, <2>2, <3>1
  <2>4. QED
    BY <2>3, CharAssumption DEF CharAssumption
<1>8. QED
  BY <1>1, <1>6, <1>7 DEF LettersKept, Executed, ReadLetters

LEMMA QueueLetters ==
  ASSUME Typed, Origins, LettersKept, Queue
  PROVE  LettersKept'
<1>1. /\ pc = "crlf" /\ pc' = (IF Len(request) > 1 THEN "split" ELSE "drain")
      /\ i' = 1 /\ UNCHANGED <<stream, at, ends>> /\ status = "up"
      /\ UNCHANGED <<queue, executed, words, line, request>>
  BY DEF Queue, cutting, reading
<1>2. [Next]_vars
  BY DEF Next, Work
<1>3. request \in Seq(Chars) /\ Len(request) \in Nat
  BY SumTypes DEF LettersKept
<1>4. NoNUL /\ NoLoneLetter => LettersOf(Unsplit') = LettersOf(Unsplit)
  <2> SUFFICES ASSUME NoNUL, NoLoneLetter PROVE LettersOf(Unsplit') = LettersOf(Unsplit)
    OBVIOUS
  <2>1. Unsplit = request
    BY <1>1 DEF Unsplit
  <2>2. CASE Len(request) > 1
    <3>1. Unsplit' = Behind(request, 1)
      BY <1>1, <2>2 DEF Unsplit
    <3>2. Behind(request, 1) = request
      BY <1>3, ST!SubSeqFull DEF Behind
    <3>3. QED
      BY <2>1, <3>1, <3>2
  <2>3. CASE ~(Len(request) > 1)
    <3>1. Unsplit' = <<>>
      BY <1>1, <2>3 DEF Unsplit
    <3>2. \A k \in 1 .. Len(request) : request[k] \notin Letters
      <4> SUFFICES ASSUME NEW k \in 1 .. Len(request), request[k] \in Letters PROVE FALSE
        OBVIOUS
      <4>0. k \in Int /\ 1 <= k /\ k <= Len(request)
        BY <1>3
      <4> DEFINE n == Len(request)
      <4>1. n \in Nat /\ k \in Int /\ 1 <= k /\ k <= n /\ ~(n > 1)
        BY <1>3, <2>3, <4>0
      <4> HIDE DEF n
      <4>2. n = 1 /\ k = 1
        BY <4>1
      <4>3. Len(request) = 1 /\ k = 1
        BY <4>2 DEF n
      <4>4. at \in ends /\ stream[at] \in Letters /\ (at = 1 \/ at - 1 \in ends)
        BY <1>1, <4>3 DEF LettersKept, Lone
      <4>5. at > 1 /\ at - 1 \notin ends
        BY <4>4 DEF NoLoneLetter
      <4>6. QED
        BY <4>4, <4>5
    <3>3. LettersOf(request) = <<>>
      BY <1>3, <3>2, LettersNone
    <3>4. QED
      BY <2>1, <3>1, <3>3, NoLetters
  <2>4. QED
    BY <2>2, <2>3
<1>5. Accounted'
  <2>1. /\ NoNUL' => NoNUL
        /\ NoLoneLetter' => NoLoneLetter
    BY <1>2, StreamGrows
  <2>2. /\ Received' = Received /\ AtHand' = AtHand
    BY <1>1 DEF Received, AtHand
  <2>3. QED
    BY <1>1, <1>4, <2>1, <2>2 DEF LettersKept, Accounted
<1>6. QED
  BY <1>1, <1>5 DEF LettersKept, Executed, Lone, ReadLetters

LEMMA SplitLetters ==
  ASSUME Typed, Origins, LettersKept, Split
  PROVE  LettersKept'
<1>1. /\ pc = "split" /\ pc' = "split" /\ UNCHANGED <<stream, at, ends>> /\ status = "up"
      /\ UNCHANGED <<executed, words, line, request>>
  BY DEF Split, cutting, reading
<1>2. [Next]_vars
  BY DEF Next, Work
<1> DEFINE old == LettersOf(FlattenSeq(queue))
           new == LettersOf(FlattenSeq(queue'))
           rest == LettersOf(Unsplit)
           left == LettersOf(Unsplit')
<1>3. /\ old \in Seq(Letters) /\ rest \in Seq(Letters)
      /\ Unsplit = Behind(request, i) /\ Unsplit' = Behind(request, i')
  BY <1>1, SumLetters DEF LettersKept, Unsplit
<1>4. \/ old = new /\ rest = left
      \/ \E p, d \in Seq(Letters) : rest = p \o d /\ new = old \o p /\ left = d
  <2>1. CASE /\ queue' = queue /\ Behind(request, i') = <<>>
             /\ Behind(request, i) \in Seq(Chars)
             /\ \A l \in 1 .. Len(Behind(request, i)) : Behind(request, i)[l] = LF
    <3>1. \A l \in 1 .. Len(Behind(request, i)) : Behind(request, i)[l] \notin Letters
      BY <2>1, CharAssumption DEF CharAssumption
    <3>2. LettersOf(Behind(request, i)) = <<>>
      BY <2>1, <3>1, LettersNone
    <3>3. QED
      BY <1>3, <2>1, <3>2, NoLetters
  <2>2. ASSUME NEW m \in 1 .. Len(request), NEW n \in 1 .. Len(request),
               NEW skip \in Seq(Chars), NEW piece \in Seq(Chars), NEW tail \in Seq(Chars),
               TurnCuts(m, n, skip, piece, tail)
        PROVE  \E p, d \in Seq(Letters) : rest = p \o d /\ new = old \o p /\ left = d
    <3>1. LettersOf(piece) \in Seq(Letters) /\ LettersOf(tail) \in Seq(Letters)
      BY LettersType
    <3>2. rest = LettersOf(piece) \o LettersOf(tail)
      <4>1. Unsplit = skip \o (piece \o tail)
        BY <1>3, <2>2 DEF TurnCuts
      <4>2. piece \o tail \in Seq(Chars)
        BY ConcatLaws
      <4>3. LettersOf(skip) = <<>>
        <5>1. \A l \in 1 .. Len(skip) : skip[l] \notin Letters
          BY <2>2, CharAssumption DEF CharAssumption, TurnCuts
        <5>2. QED
          BY <5>1, LettersNone
      <4>4. LettersOf(skip \o (piece \o tail)) = LettersOf(skip) \o LettersOf(piece \o tail)
        BY <4>2, LettersConcat
      <4>5. LettersOf(piece \o tail) = LettersOf(piece) \o LettersOf(tail)
        BY LettersConcat
      <4>6. LettersOf(piece \o tail) \in Seq(Letters)
        BY <4>2, LettersType
      <4>7. <<>> \o LettersOf(piece \o tail) = LettersOf(piece \o tail)
        BY <4>6, ConcatLaws
      <4>8. QED
        BY <4>1, <4>3, <4>4, <4>5, <4>7
    <3>3. new = old \o LettersOf(piece)
      <4>1. queue' = Append(queue, piece) /\ queue \in Seq(Seq(Chars))
        BY <2>2, TextIsString DEF TurnCuts, Typed
      <4>2. FlattenSeq(queue') = FlattenSeq(queue) \o piece /\ FlattenSeq(queue) \in Seq(Chars)
        BY <4>1, FlattenAppend
      <4>3. LettersOf(FlattenSeq(queue) \o piece) = LettersOf(FlattenSeq(queue)) \o LettersOf(piece)
        BY <4>2, LettersConcat
      <4>4. QED
        BY <4>2, <4>3
    <3>4. left = LettersOf(tail)
      <4>1. Unsplit' = <<LF>> \o tail \/ (tail = <<>> /\ Unsplit' = <<>>)
        BY <1>3, <2>2 DEF TurnCuts
      <4>2. LettersOf(<<LF>> \o tail) = LettersOf(tail)
        <5>1. <<LF>> \in Seq(Chars)
          BY DEF Chars
        <5>2. LettersOf(<<LF>> \o tail) = LettersOf(<<LF>>) \o LettersOf(tail)
          BY <5>1, LettersConcat
        <5>3. <<>> \o LettersOf(tail) = LettersOf(tail)
          BY <3>1, ConcatLaws
        <5>4. QED
          BY <5>2, <5>3, NoLetters
      <4>3. QED
        BY <4>1, <4>2
    <3> HIDE DEF old, new, rest, left
    <3>5. QED
      BY <3>1, <3>2, <3>3, <3>4
  <2>3. QED
    BY <2>1, <2>2, SplitCut
<1>5. Accounted'
  <2> DEFINE a == LettersOf(FlattenSeq(FlattenSeq(executed)))
             b == LettersOf(AtHand)
  <2>1. a \in Seq(Letters) /\ b \in Seq(Letters)
    BY SumLetters DEF LettersKept
  <2>2. ((a \o b) \o old) \o rest = ((a \o b) \o new) \o left
    <3> HIDE DEF a, b, old, new, rest, left
    <3>1. ASSUME NEW p \in Seq(Letters), NEW d \in Seq(Letters),
                 rest = p \o d, new = old \o p, left = d
          PROVE  ((a \o b) \o old) \o rest = ((a \o b) \o new) \o left
      <4>1. /\ a \in Seq(Letters) /\ b \in Seq(Letters) /\ old \in Seq(Letters)
            /\ p \in Seq(Letters) /\ d \in Seq(Letters)
        BY <1>3, <2>1
      <4>2. Four(a, b, old, p \o d) = Four(a, b, old \o p, d)
        BY <4>1, MoveAcross
      <4>3. QED
        BY <3>1, <4>2 DEF Four
    <3>2. QED
      BY <1>4, <3>1
  <2>3. /\ NoNUL' => NoNUL
        /\ NoLoneLetter' => NoLoneLetter
    BY <1>2, StreamGrows
  <2>4. /\ Received' = Received /\ AtHand' = AtHand
    BY <1>1 DEF Received, AtHand
  <2>5. status = "up" /\ NoNUL /\ NoLoneLetter => LettersOf(Received) = ((a \o b) \o old) \o rest
    BY DEF LettersKept, Accounted
  <2>6. LettersOf(FlattenSeq(FlattenSeq(executed')))  = a /\ LettersOf(AtHand') = b
    BY <1>1, <2>4
  <2> HIDE DEF a, b
  <2>7. (status = "up" /\ NoNUL /\ NoLoneLetter)' =>
            LettersOf(Received') =
              ((LettersOf(FlattenSeq(FlattenSeq(executed'))) \o LettersOf(AtHand'))
                 \o LettersOf(FlattenSeq(queue'))) \o LettersOf(Unsplit')
    BY <1>1, <2>2, <2>3, <2>4, <2>5, <2>6
  <2>8. QED
    BY <2>7 DEF Accounted
<1>6. QED
  BY <1>1, <1>5 DEF LettersKept, Executed, Lone, ReadLetters

LEMMA TakeLineLetters ==
  ASSUME Typed, Origins, LettersKept, TakeLine
  PROVE  LettersKept'
<1>1. /\ pc = "drain" /\ pc' = "words" /\ UNCHANGED <<stream, at, ends>> /\ status = "up"
      /\ UNCHANGED <<executed, request>> /\ words' = <<>>
      /\ queue # <<>> /\ queue' = Tail(queue)
  BY DEF TakeLine, splitting, reading
<1>2. [Next]_vars
  BY DEF Next, Work
<1>3. /\ line' = queue[1] /\ line' \in Seq(Chars)
      /\ start' \in 1 .. Len(line') + 1
      /\ \A l \in 1 .. start' - 1 : line'[l] = Blank
  BY TakeLineFacts, TextIsString
<1>4. /\ queue \in Seq(Seq(Chars)) /\ Tail(queue) \in Seq(Seq(Chars))
      /\ FlattenSeq(queue) = queue[1] \o FlattenSeq(Tail(queue))
      /\ FlattenSeq(Tail(queue)) \in Seq(Chars)
  <2>1. queue \in Seq(Seq(Chars))
    BY TextIsString DEF Typed
  <2>2. Tail(queue) \in Seq(Seq(Chars)) /\ FlattenSeq(queue) = queue[1] \o FlattenSeq(Tail(queue))
    BY <1>1, <2>1, FlattenHead
  <2>3. <<>> \in Seq(Chars)
    OBVIOUS
  <2>4. QED
    BY <2>1, <2>2, <2>3, FlattenAppend
<1>5. LettersOf(FlattenSeq(queue)) = LettersOf(line') \o LettersOf(FlattenSeq(queue'))
  <2>1. LettersOf(line' \o FlattenSeq(Tail(queue))) = LettersOf(line') \o LettersOf(FlattenSeq(Tail(queue)))
    BY <1>3, <1>4, LettersConcat
  <2>2. QED
    BY <1>1, <1>3, <1>4, <2>1
<1>6. ReadLetters'
  <2>1. start' - 1 \in 0 .. Len(line')
    <3>1. Len(line') \in Nat /\ start' \in 1 .. Len(line') + 1
      BY <1>3
    <3>2. \A x \in 1 .. Len(line') + 1 : x - 1 \in 0 .. Len(line')
      BY <3>1
    <3>3. QED
      BY <3>1, <3>2
  <2>2. /\ SubSeq(line', 1, start' - 1) \in Seq(Chars) /\ Len(SubSeq(line', 1, start' - 1)) = start' - 1
        /\ \A l \in 1 .. start' - 1 : SubSeq(line', 1, start' - 1)[l] = line'[l]
    <3>1. line' \in Seq(Chars)
      BY <1>3
    <3>2. QED
      BY <2>1, <3>1, Cut
  <2>3. \A l \in 1 .. Len(SubSeq(line', 1, start' - 1)) : SubSeq(line', 1, start' - 1)[l] \notin Letters
    BY <1>3, <2>2, CharAssumption DEF CharAssumption
  <2>4. LettersOf(SubSeq(line', 1, start' - 1)) = <<>>
    BY <2>2, <2>3, LettersNone
  <2>5. LettersOf(FlattenSeq(words')) = <<>>
    BY <1>1, NoLetters, FlattenEmpty
  <2>6. QED
    BY <2>4, <2>5 DEF ReadLetters
<1>7. Accounted'
  <2> DEFINE a == LettersOf(FlattenSeq(FlattenSeq(executed)))
             p == LettersOf(line')
             c == LettersOf(FlattenSeq(queue'))
  <2>1. a \in Seq(Letters) /\ p \in Seq(Letters) /\ c \in Seq(Letters)
    BY <1>1, <1>3, <1>4, SumLetters, LettersType DEF LettersKept
  <2>2. /\ NoNUL' => NoNUL
        /\ NoLoneLetter' => NoLoneLetter
    BY <1>2, StreamGrows
  <2>3. /\ Received' = Received /\ AtHand = <<>> /\ AtHand' = line'
        /\ Unsplit = <<>> /\ Unsplit' = <<>>
    BY <1>1 DEF Received, AtHand, Unsplit
  <2>4. status = "up" /\ NoNUL /\ NoLoneLetter => LettersOf(Received) = ((a \o <<>>) \o (p \o c)) \o <<>>
    BY <1>5, <2>3, NoLetters DEF LettersKept, Accounted
  <2>5. LettersOf(FlattenSeq(FlattenSeq(executed'))) = a /\ LettersOf(AtHand') = p
        /\ LettersOf(FlattenSeq(queue')) = c /\ LettersOf(Unsplit') = <<>>
    BY <1>1, <2>3, NoLetters
  <2>6. ((a \o <<>>) \o (p \o c)) \o <<>> = ((a \o p) \o c) \o <<>>
    <3> HIDE DEF a, p, c
    <3>1. <<>> \in Seq(Letters)
      OBVIOUS
    <3>2. QED
      BY <2>1, <3>1, Regroup
  <2> HIDE DEF a, p, c
  <2>7. (status = "up" /\ NoNUL /\ NoLoneLetter)' =>
            LettersOf(Received') =
              ((LettersOf(FlattenSeq(FlattenSeq(executed'))) \o LettersOf(AtHand'))
                 \o LettersOf(FlattenSeq(queue'))) \o LettersOf(Unsplit')
    BY <1>1, <2>2, <2>3, <2>4, <2>5, <2>6
  <2>8. QED
    BY <2>7 DEF Accounted
<1>8. QED
  BY <1>1, <1>6, <1>7 DEF LettersKept, Executed, Lone

\* A turn of requestToVector reads a word and the blanks behind it.
LEMMA NextWordCut ==
  ASSUME Typed, NextWord
  PROVE  /\ SubSeq(line, 1, start - 1) \in Seq(Chars)
         /\ start' # 1 /\ line[start' - 1] = Blank
         /\ \E word \in Seq(Chars), blanks \in Seq(Chars) :
               /\ words' = Append(words, word)
               /\ SubSeq(line, 1, start' - 1) = (SubSeq(line, 1, start - 1) \o word) \o blanks
               /\ \A k \in 1 .. Len(word) : word[k] # Blank
               /\ line[start] # Blank => word # <<>>
               /\ blanks # <<>> /\ \A k \in 1 .. Len(blanks) : blanks[k] = Blank
<1>1. /\ start \in 1 .. Len(line) /\ line \in Seq(Chars)
      /\ start' \in 1 .. Len(line) + 1
  BY NextWordFacts, TextIsString
<1>2. PICK end \in start .. Len(line) :
               /\ line[end] = Blank /\ \A l \in start .. end - 1 : line[l] # Blank
               /\ words' = Append(words, SubSeq(line, start, end - 1))
               /\ SubSeq(line, start, end - 1) \in Text
               /\ Len(SubSeq(line, start, end - 1)) = end - start
               /\ end < start' /\ \A l \in end .. start' - 1 : line[l] = Blank
  BY NextWordFacts
<1> DEFINE n == Len(line)
<1>3. /\ n \in Nat /\ start \in 1 .. n /\ start' \in 1 .. n + 1 /\ end \in start .. n /\ end < start'
  BY <1>1, <1>2
<1> HIDE DEF n
<1>4. /\ end \in 1 .. n + 1 /\ start' - 1 \in 0 .. n /\ end <= start' - 1 + 1
      /\ 1 \in 1 .. n + 1 /\ start - 1 \in 0 .. n /\ 1 <= start - 1 + 1
      /\ start - 1 \in 1 - 1 .. n /\ end - 1 \in start - 1 .. n /\ start - 1 + 1 = start
      /\ end - 1 \in 1 - 1 .. n /\ start' - 1 \in end - 1 .. n /\ end - 1 + 1 = end
      /\ \A k \in 1 .. start' - 1 + 1 - end : end + k - 1 \in end .. start' - 1
      /\ start' - 1 + 1 - end # 0 /\ start' # 1 /\ start' - 1 \in end .. start' - 1
      /\ start \in 1 .. n + 1 /\ end - 1 \in 0 .. n /\ start <= end - 1 + 1
      /\ \A k \in 1 .. end - 1 + 1 - start : start + k - 1 \in start .. end - 1
      /\ (start # end => end - start # 0)
  <2>1. \A s \in 1 .. n, e \in 1 .. n, x \in 1 .. n + 1 : s <= e /\ e < x =>
            /\ e \in 1 .. n + 1 /\ x - 1 \in 0 .. n /\ e <= x - 1 + 1
            /\ 1 \in 1 .. n + 1 /\ s - 1 \in 0 .. n /\ 1 <= s - 1 + 1
            /\ s - 1 \in 1 - 1 .. n /\ e - 1 \in s - 1 .. n /\ s - 1 + 1 = s
            /\ e - 1 \in 1 - 1 .. n /\ x - 1 \in e - 1 .. n /\ e - 1 + 1 = e
            /\ \A k \in 1 .. x - 1 + 1 - e : e + k - 1 \in e .. x - 1
            /\ x - 1 + 1 - e # 0 /\ x # 1 /\ x - 1 \in e .. x - 1
            /\ s \in 1 .. n + 1 /\ e - 1 \in 0 .. n /\ s <= e - 1 + 1
            /\ \A k \in 1 .. e - 1 + 1 - s : s + k - 1 \in s .. e - 1
            /\ (s # e => e - s # 0)
    BY <1>3
  <2>2. end \in 1 .. n /\ start <= end
    BY <1>3
  <2>3. QED
    BY <1>3, <2>1, <2>2
<1> DEFINE word == SubSeq(line, start, end - 1)
           blanks == SubSeq(line, end, start' - 1)
           before == SubSeq(line, 1, start - 1)
<1>5. /\ before \in Seq(Chars) /\ word \in Seq(Chars) /\ blanks \in Seq(Chars)
      /\ SubSeq(line, 1, start' - 1) = (before \o word) \o blanks
  <2>1. before \in Seq(Chars)
    <3>1. 1 \in 1 .. Len(line) + 1 /\ start - 1 \in 0 .. Len(line) /\ 1 <= start - 1 + 1
      BY <1>4 DEF n
    <3>2. QED
      BY <1>1, <3>1, PartFacts
  <2>2. word \in Seq(Chars)
    BY <1>2, TextIsString
  <2>3. blanks \in Seq(Chars)
    <3>1. end \in 1 .. Len(line) + 1 /\ start' - 1 \in 0 .. Len(line) /\ end <= start' - 1 + 1
      BY <1>4 DEF n
    <3>2. QED
      BY <1>1, <3>1, PartFacts
  <2>4. before \o word = SubSeq(line, 1, end - 1)
    <3>1. 1 \in 1 .. Len(line) + 1 /\ start - 1 \in 1 - 1 .. Len(line) /\ end - 1 \in start - 1 .. Len(line)
          /\ start - 1 + 1 = start
      BY <1>4 DEF n
    <3>2. SubSeq(line, 1, start - 1) \o SubSeq(line, start - 1 + 1, end - 1) = SubSeq(line, 1, end - 1)
      BY <1>1, <3>1, ST!ConcatAdjacentSubSeq
    <3>3. QED
      BY <3>1, <3>2
  <2>5. SubSeq(line, 1, end - 1) \o blanks = SubSeq(line, 1, start' - 1)
    <3>1. 1 \in 1 .. Len(line) + 1 /\ end - 1 \in 1 - 1 .. Len(line) /\ start' - 1 \in end - 1 .. Len(line)
          /\ end - 1 + 1 = end
      BY <1>4 DEF n
    <3>2. SubSeq(line, 1, end - 1) \o SubSeq(line, end - 1 + 1, start' - 1) = SubSeq(line, 1, start' - 1)
      BY <1>1, <3>1, ST!ConcatAdjacentSubSeq
    <3>3. QED
      BY <3>1, <3>2
  <2>6. QED
    BY <2>1, <2>2, <2>3, <2>4, <2>5
<1>6. blanks # <<>> /\ \A k \in 1 .. Len(blanks) : blanks[k] = Blank
  <2>1. end \in 1 .. Len(line) + 1 /\ start' - 1 \in 0 .. Len(line) /\ end <= start' - 1 + 1
    BY <1>4 DEF n
  <2>2. /\ Len(blanks) = start' - 1 + 1 - end
        /\ \A k \in 1 .. start' - 1 + 1 - end : blanks[k] = line[end + k - 1]
    <3>1. line \in Seq(Chars)
      BY <1>1
    <3> DEFINE t == start' - 1
    <3> HIDE DEF t
    <3>2. /\ Len(SubSeq(line, end, t)) = t + 1 - end
          /\ \A k \in 1 .. t + 1 - end : SubSeq(line, end, t)[k] = line[end + k - 1]
      BY <2>1, <3>1, PartFacts DEF t
    <3>3. QED
      BY <3>2 DEF t
  <2>3. /\ \A k \in 1 .. start' - 1 + 1 - end : end + k - 1 \in end .. start' - 1
        /\ start' - 1 + 1 - end # 0
    BY <1>4 DEF n
  <2> HIDE DEF blanks
  <2>4. \A k \in 1 .. Len(blanks) : blanks[k] = Blank
    BY <1>2, <2>2, <2>3
  <2>5. Len(blanks) # 0
    BY <2>2, <2>3
  <2>6. QED
    BY <2>4, <2>5
<1>7. \A k \in 1 .. Len(word) : word[k] # Blank
  <2>1. start \in 1 .. Len(line) + 1 /\ end - 1 \in 0 .. Len(line) /\ start <= end - 1 + 1
    BY <1>4 DEF n
  <2>2. /\ Len(word) = end - 1 + 1 - start
        /\ \A k \in 1 .. end - 1 + 1 - start : word[k] = line[start + k - 1]
    BY <1>1, <2>1, PartFacts
  <2>3. \A k \in 1 .. end - 1 + 1 - start : start + k - 1 \in start .. end - 1
    BY <1>4 DEF n
  <2> HIDE DEF word
  <2>4. QED
    BY <1>2, <2>2, <2>3
<1>8. line[start] # Blank => word # <<>>
  <2> SUFFICES ASSUME line[start] # Blank PROVE word # <<>>
    OBVIOUS
  <2>1. start # end
    BY <1>2
  <2>2. Len(word) = end - start /\ end - start # 0
    BY <1>2, <1>4, <2>1
  <2> HIDE DEF word
  <2>3. QED
    BY <2>2
<1>9. start' # 1 /\ line[start' - 1] = Blank /\ words' = Append(words, word)
  BY <1>2, <1>4
<1> HIDE DEF word, blanks
<1>10. QED
  BY <1>5, <1>6, <1>7, <1>8, <1>9 DEF before

LEMMA NextWordLetters ==
  ASSUME Typed, Origins, LettersKept, NextWord
  PROVE  LettersKept'
<1>1. /\ pc = "words" /\ pc' = "words" /\ UNCHANGED <<stream, at, ends>> /\ status = "up"
      /\ UNCHANGED <<executed, request, line, queue, i>>
  BY DEF NextWord, splitting, reading
<1>2. [Next]_vars
  BY DEF Next, Work
<1> DEFINE before == SubSeq(line, 1, start - 1)
<1>3. before \in Seq(Chars)
  BY NextWordCut
<1>4. PICK word \in Seq(Chars), blanks \in Seq(Chars) :
               /\ words' = Append(words, word)
               /\ SubSeq(line, 1, start' - 1) = (before \o word) \o blanks
               /\ \A k \in 1 .. Len(blanks) : blanks[k] = Blank
  BY NextWordCut
<1> HIDE DEF before
<1>5. LettersOf(blanks) = <<>>
  <2>1. \A k \in 1 .. Len(blanks) : blanks[k] \notin Letters
    BY <1>4, CharAssumption DEF CharAssumption
  <2>2. QED
    BY <2>1, LettersNone
<1>6. LettersOf((before \o word) \o blanks) = LettersOf(before) \o LettersOf(word)
  <2>1. before \o word \in Seq(Chars)
    BY <1>3, ConcatLaws
  <2>2. LettersOf((before \o word) \o blanks) = LettersOf(before \o word) \o LettersOf(blanks)
    BY <1>3, <2>1, LettersConcat
  <2>3. LettersOf(before \o word) = LettersOf(before) \o LettersOf(word)
    BY <1>3, LettersConcat
  <2>4. LettersOf(before \o word) \in Seq(Letters)
    BY <2>1, LettersType
  <2>5. LettersOf(before \o word) \o <<>> = LettersOf(before \o word)
    BY <2>4, ConcatLaws
  <2>6. QED
    BY <1>5, <2>2, <2>3, <2>5
<1>7. LettersOf(FlattenSeq(words')) = LettersOf(FlattenSeq(words)) \o LettersOf(word)
  <2>1. words \in Seq(Seq(Chars)) /\ words' = Append(words, word)
    BY <1>4, TextIsString DEF Typed
  <2>2. FlattenSeq(words') = FlattenSeq(words) \o word /\ FlattenSeq(words) \in Seq(Chars)
    BY <1>3, <2>1, FlattenAppend
  <2>3. QED
    BY <1>3, <2>2, LettersConcat
<1>8. ReadLetters'
  <2>1. LettersOf(FlattenSeq(words)) = LettersOf(before)
    BY <1>1 DEF LettersKept, ReadLetters, before
  <2>2. LettersOf(FlattenSeq(words')) = LettersOf(SubSeq(line', 1, start' - 1))
    BY <1>1, <1>4, <1>6, <1>7, <2>1
  <2>3. QED
    BY <2>2 DEF ReadLetters
<1>9. Accounted'
  <2>1. /\ NoNUL' => NoNUL
        /\ NoLoneLetter' => NoLoneLetter
    BY <1>2, StreamGrows
  <2>2. /\ Received' = Received /\ AtHand' = AtHand /\ Unsplit' = Unsplit
    BY <1>1 DEF Received, AtHand, Unsplit
  <2>3. QED
    BY <1>1, <2>1, <2>2 DEF LettersKept, Accounted
<1>10. QED
  BY <1>1, <1>8, <1>9 DEF LettersKept, Executed, Lone

\* The last word is what is left of the line, up to the '\n'.
LEMMA LastWordCut ==
  ASSUME Typed, LastWord, start <= Len(line)
  PROVE  /\ pc' = "execute" /\ status' = status
         /\ Behind(line, start) \in Seq(Chars)
         /\ \E word \in Seq(Chars \ {NUL}) :
               /\ words' = Append(words, word)
               /\ \/ Behind(line, start) = word \o <<LF>>
                  \/ Behind(line, start) = word /\ line[Len(line)] # LF
<1>1. /\ line \in Seq(Chars \ {NUL}) /\ start \in 1 .. Len(line) /\ Len(line) \in Nat
      /\ ~(start > Len(line))
  BY DEF Typed, TypeOK, Text
<1>2. /\ words' = Append(words, Chopped(Behind(line, start))) /\ pc' = "execute" /\ status' = status
  BY <1>1, Zenon DEF LastWord, Behind
<1> DEFINE rest == Behind(line, start)
           m == Len(line) + 1 - start
           word == SubSeq(rest, 1, m - 1)
<1>3. m \in Nat \ {0} /\ start + m - 1 = Len(line)
  BY <1>1
<1>4. rest \in Seq(Chars \ {NUL}) /\ Len(rest) = m /\ rest[m] = line[Len(line)]
  <2>1. /\ rest \in Seq(Chars \ {NUL}) /\ Len(rest) = m
        /\ \A l \in 1 .. m : rest[l] = line[start + l - 1]
    BY <1>1, PartFacts DEF Behind
  <2>2. m \in 1 .. m
    BY <1>3
  <2>3. QED
    BY <1>3, <2>1, <2>2
<1>5. rest \in Seq(Chars)
  BY <1>4, TextIsString DEF Text
<1> HIDE DEF rest, m
<1>6. word \in Seq(Chars \ {NUL}) /\ (rest[m] = LF => rest = word \o <<LF>>)
  <2> DEFINE k == m - 1
             last == Behind(rest, k + 1)
  <2>1. k \in 0 .. Len(rest) /\ k + 1 = m /\ Len(rest) - k = 1
    BY <1>3, <1>4
  <2> HIDE DEF k
  <2>2. /\ rest = SubSeq(rest, 1, k) \o last
        /\ SubSeq(rest, 1, k) \in Seq(Chars \ {NUL})
        /\ last \in Seq(Chars \ {NUL}) /\ Len(last) = Len(rest) - k
        /\ \A l \in 1 .. Len(rest) - k : last[l] = rest[k + l]
    <3>1. rest \in Seq(Chars \ {NUL}) /\ k \in 0 .. Len(rest)
      BY <1>4, <2>1
    <3>2. QED
      BY <3>1, Cut
  <2> HIDE DEF last
  <2>3. Len(last) = 1 /\ last[1] = rest[m]
    BY <2>1, <2>2
  <2>4. last = <<rest[m]>>
    BY <2>2, <2>3, OneElement
  <2>5. QED
    BY <2>2, <2>4 DEF k
<1>7. Chopped(rest) = IF rest[m] = LF THEN word ELSE rest
  BY <1>4 DEF Chopped
<1> HIDE DEF word
<1>8. CASE rest[m] = LF
  <2>1. words' = Append(words, word) /\ Behind(line, start) = word \o <<LF>>
    BY <1>2, <1>6, <1>7, <1>8 DEF rest
  <2>2. QED
    BY <1>2, <1>5, <1>6, <2>1 DEF rest
<1>9. CASE rest[m] # LF
  <2>1. words' = Append(words, rest) /\ Behind(line, start) = rest /\ line[Len(line)] # LF
    BY <1>2, <1>4, <1>7, <1>9 DEF rest
  <2>2. QED
    BY <1>2, <1>4, <1>5, <2>1 DEF rest
<1>10. QED
  BY <1>8, <1>9

LEMMA SplitDoneLetters ==
  ASSUME Typed, Origins, LettersKept, SplitDone
  PROVE  LettersKept'
<1>1. /\ pc = "split" /\ pc' = "drain" /\ UNCHANGED <<stream, at, ends>> /\ status = "up"
      /\ UNCHANGED <<executed, words, line, start, request, queue>>
      /\ i > Len(request)
  BY DEF SplitDone, splitting, cutting, reading
<1>2. [Next]_vars
  BY DEF Next, Work
<1>3. Unsplit = <<>> /\ Unsplit' = <<>> /\ AtHand' = AtHand /\ Received' = Received
  <2>1. i \in Int /\ Len(request) \in Int
    BY <1>1 DEF Typed, TypeOK
  <2>2. Behind(request, i) = <<>>
    BY <1>1, <2>1, ST!SubSeqEmpty DEF Behind
  <2>3. QED
    BY <1>1, <2>2 DEF Unsplit, AtHand, Received
<1>4. Accounted'
  <2>1. /\ NoNUL' => NoNUL
        /\ NoLoneLetter' => NoLoneLetter
    BY <1>2, StreamGrows
  <2>2. QED
    BY <1>1, <1>3, <2>1 DEF LettersKept, Accounted
<1>5. QED
  BY <1>1, <1>4 DEF LettersKept, Executed, Lone, ReadLetters

LEMMA LastWordLetters ==
  ASSUME Typed, Origins, LettersKept, LastWord
  PROVE  LettersKept'
<1>1. /\ pc = "words" /\ UNCHANGED <<stream, at, ends>> /\ status = "up"
      /\ UNCHANGED <<executed, line, start, request, queue, i>>
  BY DEF LastWord, splitting, reading
<1>2. [Next]_vars
  BY DEF Next, Work
<1>3. line \in Seq(Chars) /\ Len(line) \in Nat /\ start \in 1 .. Len(line) + 1
  BY TextIsString DEF Typed, TypeOK
<1>4. CASE start > Len(line)
  <2>1. status' = "terminated" /\ UNCHANGED <<words, pc>>
    BY <1>4, Zenon DEF LastWord
  <2>2. QED
    BY <1>1, <2>1 DEF LettersKept, Accounted, Executed, Lone, ReadLetters
<1>5. CASE start <= Len(line)
  <2>1. PICK word \in Seq(Chars \ {NUL}) :
               /\ words' = Append(words, word)
               /\ \/ Behind(line, start) = word \o <<LF>>
                  \/ Behind(line, start) = word /\ line[Len(line)] # LF
    BY <1>5, LastWordCut
  <2>2. pc' = "execute" /\ status' = status
    BY <1>5, LastWordCut
  <2>3. word \in Seq(Chars) /\ LettersOf(word) \in Seq(Letters)
    BY LettersType, TextIsString DEF Text
  <2>4. LettersOf(Behind(line, start)) = LettersOf(word)
    <3>1. LettersOf(word \o <<LF>>) = LettersOf(word)
      <4>1. <<LF>> \in Seq(Chars)
        BY DEF Chars
      <4>2. LettersOf(word \o <<LF>>) = LettersOf(word) \o LettersOf(<<LF>>)
        BY <2>3, <4>1, LettersConcat
      <4>3. LettersOf(word) \o <<>> = LettersOf(word)
        BY <2>3, ConcatLaws
      <4>4. QED
        BY <4>2, <4>3, NoLetters
    <3>2. QED
      BY <2>1, <3>1
  <2>5. LettersOf(FlattenSeq(words')) = LettersOf(FlattenSeq(words)) \o LettersOf(word)
    <3>1. words \in Seq(Seq(Chars))
      BY TextIsString DEF Typed
    <3>2. FlattenSeq(words') = FlattenSeq(words) \o word /\ FlattenSeq(words) \in Seq(Chars)
      BY <2>1, <2>3, <3>1, FlattenAppend
    <3>3. QED
      BY <2>3, <3>2, LettersConcat
  <2>6. LettersOf(line) = LettersOf(SubSeq(line, 1, start - 1)) \o LettersOf(Behind(line, start))
    <3>1. start - 1 \in 0 .. Len(line) /\ start - 1 + 1 = start
      BY <1>3
    <3>2. LettersOf(line) = LettersOf(SubSeq(line, 1, start - 1)) \o LettersOf(Behind(line, start - 1 + 1))
      BY <1>3, <3>1, LettersCut
    <3>3. QED
      BY <3>1, <3>2
  <2>7. LettersOf(FlattenSeq(words)) = LettersOf(SubSeq(line, 1, start - 1))
    BY <1>1 DEF LettersKept, ReadLetters
  <2>8. LettersOf(FlattenSeq(words')) = LettersOf(line)
    BY <2>4, <2>5, <2>6, <2>7
  <2>9. /\ AtHand = line /\ AtHand' = FlattenSeq(words')
        /\ Unsplit = <<>> /\ Unsplit' = <<>> /\ Received' = Received
    BY <1>1, <2>2 DEF AtHand, Unsplit, Received
  <2>10. Accounted'
    <3>1. /\ NoNUL' => NoNUL
          /\ NoLoneLetter' => NoLoneLetter
      BY <1>2, StreamGrows
    <3>2. LettersOf(AtHand') = LettersOf(AtHand)
      BY <2>8, <2>9
    <3>3. QED
      BY <1>1, <2>9, <3>1, <3>2 DEF LettersKept, Accounted
  <2>11. QED
    BY <1>1, <2>2, <2>10 DEF LettersKept, Executed, Lone, ReadLetters
<1>6. QED
  BY <1>3, <1>4, <1>5

LEMMA ExecuteLetters ==
  ASSUME Typed, Origins, LettersKept, Execute
  PROVE  LettersKept'
<1>1. /\ pc = "execute" /\ pc' = "drain" /\ UNCHANGED <<stream, at, ends>> /\ status = "up"
      /\ UNCHANGED <<words, line, start, request, queue, i>>
      /\ executed' = Append(executed, words)
  BY DEF Execute, splitting, reading
<1>2. [Next]_vars
  BY DEF Next, Work
<1>3. words \in Seq(Text) /\ executed \in Seq(Seq(Text)) /\ executed' \in Seq(Seq(Text))
  BY <1>1 DEF Typed, LettersKept, Executed
<1> DEFINE old == FlattenSeq(FlattenSeq(executed))
           new == FlattenSeq(words)
<1>4. FlattenSeq(FlattenSeq(executed')) = old \o new /\ old \in Seq(Chars) /\ new \in Seq(Chars)
  <2>1. FlattenSeq(executed') = FlattenSeq(executed) \o words /\ FlattenSeq(executed) \in Seq(Text)
    BY <1>1, <1>3, FlattenAppend
  <2>2. FlattenSeq(executed) \in Seq(Seq(Chars)) /\ words \in Seq(Seq(Chars))
    BY <1>3, <2>1, TextIsString
  <2>3. FlattenSeq(FlattenSeq(executed) \o words) = FlattenSeq(FlattenSeq(executed)) \o FlattenSeq(words)
    BY <2>2, FlattenConcat
  <2>4. QED
    BY <2>1, <2>3, SumTypes DEF LettersKept
<1> DEFINE a == LettersOf(old)
           b == LettersOf(new)
           c == LettersOf(FlattenSeq(queue))
           d == LettersOf(Unsplit)
<1>5. LettersOf(FlattenSeq(FlattenSeq(executed'))) = a \o b
  <2> HIDE DEF old, new
  <2> QED BY <1>4, LettersConcat
<1>6. a \in Seq(Letters) /\ b \in Seq(Letters) /\ c \in Seq(Letters) /\ d \in Seq(Letters)
  BY <1>4, SumLetters, LettersType DEF LettersKept
<1>7. AtHand = new /\ AtHand' = <<>> /\ Unsplit' = Unsplit /\ Received' = Received
  BY <1>1 DEF AtHand, Unsplit, Received
<1>8. Accounted'
  <2>1. /\ NoNUL' => NoNUL
        /\ NoLoneLetter' => NoLoneLetter
    BY <1>2, StreamGrows
  <2>2. status = "up" /\ NoNUL /\ NoLoneLetter => LettersOf(Received) = ((a \o b) \o c) \o d
    BY <1>7 DEF LettersKept, Accounted
  <2>3. LettersOf(AtHand') = <<>> /\ LettersOf(FlattenSeq(queue')) = c /\ LettersOf(Unsplit') = d
    BY <1>1, <1>7, NoLetters
  <2> HIDE DEF a, b, c, d
  <2>4. ((a \o b) \o c) \o d = (((a \o b) \o <<>>) \o c) \o d
    BY <1>6, Regroup
  <2>5. (status = "up" /\ NoNUL /\ NoLoneLetter)' =>
            LettersOf(Received') =
              ((LettersOf(FlattenSeq(FlattenSeq(executed'))) \o LettersOf(AtHand'))
                 \o LettersOf(FlattenSeq(queue'))) \o LettersOf(Unsplit')
    BY <1>1, <1>5, <1>7, <2>1, <2>2, <2>3, <2>4
  <2>6. QED
    BY <2>5 DEF Accounted
<1>9. QED
  BY <1>1, <1>3, <1>8 DEF LettersKept, Executed, Lone, ReadLetters

\* The other steps change no sum.
LEMMA OtherLetters ==
  ASSUME Typed, Origins, LettersKept, RecvUnended \/ PongThrows \/ Drained \/ UNCHANGED vars
  PROVE  LettersKept'
<1>1. /\ UNCHANGED <<stream, at, ends, executed, words, line, start, request, queue, i>>
      /\ \/ status' # "up" /\ pc' = pc
         \/ status' = status /\ pc' = pc
         \/ status' = status /\ pc = "drain" /\ pc' = "recv"
  BY DEF RecvUnended, PongThrows, Drained, vars, reading, splitting, cutting
<1>2. Executed' /\ Lone' /\ ReadLetters'
  BY <1>1 DEF LettersKept, Executed, Lone, ReadLetters, NoNUL
<1>3. CASE status' # "up"
  BY <1>2, <1>3 DEF LettersKept, Accounted
<1>4. CASE status' = status
  <2>1. AtHand' = AtHand /\ Unsplit' = Unsplit /\ Received' = Received
    BY <1>1 DEF AtHand, Unsplit, Received
  <2>2. NoNUL' = NoNUL /\ NoLoneLetter' = NoLoneLetter
    BY <1>1 DEF NoNUL, NoLoneLetter
  <2>3. QED
    BY <1>1, <1>2, <1>4, <2>1, <2>2 DEF LettersKept, Accounted
<1>5. QED
  BY <1>1, <1>3, <1>4

LEMMA StepLettersKept ==
  ASSUME Typed, Origins, LettersKept, [Next]_vars
  PROVE  LettersKept'
BY RecvLetters, ReplaceLetters, QueueLetters, SplitLetters, SplitDoneLetters, TakeLineLetters,
   NextWordLetters, LastWordLetters, ExecuteLetters, OtherLetters DEF Next, Work

LEMMA LettersKeptSuffices ==
  ASSUME Typed, Origins, LettersKept
  PROVE  NothingLost
<1> SUFFICES ASSUME pc = "recv", status = "up", NoNUL, NoLoneLetter
             PROVE  LettersOf(FlattenSeq(FlattenSeq(executed))) = LettersOf(Received)
  BY DEF NothingLost, NoLoneLetter
<1>1. AtHand = <<>> /\ Unsplit = <<>> /\ FlattenSeq(queue) = <<>>
  BY FlattenEmpty DEF Origins, AtHand, Unsplit
<1> DEFINE a == LettersOf(FlattenSeq(FlattenSeq(executed)))
<1>2. LettersOf(Received) = ((a \o <<>>) \o <<>>) \o <<>>
  BY <1>1, NoLetters DEF LettersKept, Accounted
<1>3. a \in Seq(Letters)
  BY SumLetters DEF LettersKept
<1> HIDE DEF a
<1>4. ((a \o <<>>) \o <<>>) \o <<>> = a
  BY <1>3, Regroup
<1>5. QED
  BY <1>2, <1>4 DEF a

\* Wherever packets end, each letter that was received is executed once and in
\* its order, for streams and packets of every length.
THEOREM LettersNeverLost == Spec => []NothingLost
<1>1. Typed /\ Origins /\ LettersKept => NothingLost
  BY LettersKeptSuffices
<1>2. Init => Typed /\ Origins /\ LettersKept
  BY InitTyped, InitOrigins, InitLettersKept
<1>3. Typed /\ Origins /\ LettersKept /\ [Next]_vars => (Typed /\ Origins /\ LettersKept)'
  BY StepTyped, StepOrigins, StepLettersKept
<1>4. QED
  BY <1>1, <1>2, <1>3, PTL DEF Spec

-----------------------------------------------------------------------------
\* The parts of a string

LEMMA FirstOfIs ==
  ASSUME NEW S, NEW s \in Seq(S), NEW k \in 1 .. Len(s) + 1, NEW C, NEW j \in k .. Len(s) + 1,
         j <= Len(s) => s[j] \in C, \A l \in k .. j - 1 : s[l] \notin C
  PROVE  FirstOf(s, k, C) = j
<1> DEFINE f == FirstOf(s, k, C)
<1>1. /\ f \in k .. Len(s) + 1 /\ (f <= Len(s) => s[f] \in C)
      /\ \A l \in k .. f - 1 : s[l] \notin C
  BY FirstOfFacts
<1>2. f \in Int /\ j \in Int /\ Len(s) \in Nat
  BY <1>1
<1> HIDE DEF f
<1>3. ~(f < j)
  <2> SUFFICES ASSUME f < j PROVE FALSE
    OBVIOUS
  <2>1. f \in k .. j - 1 /\ f <= Len(s)
    BY <1>1, <1>2
  <2>2. QED
    BY <1>1, <2>1
<1>4. ~(j < f)
  <2> SUFFICES ASSUME j < f PROVE FALSE
    OBVIOUS
  <2>1. j \in k .. f - 1 /\ j <= Len(s)
    BY <1>1, <1>2
  <2>2. QED
    BY <1>1, <2>1
<1>5. f = j
  BY <1>2, <1>3, <1>4
<1>6. QED
  BY <1>5 DEF f

\* What Parts makes of one place.
PartAt(s, C, k) ==
    IF s[k] \notin C /\ (k = 1 \/ s[k - 1] \in C)
    THEN <<SubSeq(s, k, FirstOf(s, k, C) - 1)>> ELSE <<>>
PartsAt(s, C) == [k \in 1 .. Len(s) |-> PartAt(s, C, k)]

LEMMA PartsAtFacts ==
  ASSUME NEW S, NEW s \in Seq(S), NEW C
  PROVE  /\ PartsAt(s, C) \in Seq(Seq(Seq(S))) /\ Len(PartsAt(s, C)) = Len(s)
         /\ \A k \in 1 .. Len(s) : PartsAt(s, C)[k] = PartAt(s, C, k)
         /\ Parts(s, C) = FlattenSeq(PartsAt(s, C))
<1>1. Len(s) \in Nat
  OBVIOUS
<1>2. ASSUME NEW k \in 1 .. Len(s)
      PROVE  PartAt(s, C, k) \in Seq(Seq(S))
  <2> DEFINE f == FirstOf(s, k, C)
  <2>1. k \in 1 .. Len(s) + 1
    BY <1>1
  <2>2. f \in k .. Len(s) + 1
    BY <2>1, FirstOfFacts
  <2> HIDE DEF f
  <2>3. f - 1 \in 0 .. Len(s) /\ k <= f - 1 + 1
    BY <1>1, <2>2
  <2>4. SubSeq(s, k, f - 1) \in Seq(S)
    BY <2>1, <2>3, PartFacts
  <2>5. QED
    BY <2>4 DEF PartAt, f
<1>3. Parts(s, C) = FlattenSeq(PartsAt(s, C))
  BY DEF Parts, PartsAt, PartAt
<1> DEFINE e(k) == PartAt(s, C, k)
<1>4. PartsAt(s, C) = [k \in 1 .. Len(s) |-> e(k)] /\ \A k \in 1 .. Len(s) : e(k) \in Seq(Seq(S))
  BY <1>2 DEF PartsAt
<1> HIDE DEF e
<1>5. PartsAt(s, C) \in Seq(Seq(Seq(S))) /\ Len(PartsAt(s, C)) = Len(s)
  BY <1>1, <1>4, ST!IsASeq
<1>6. \A k \in 1 .. Len(s) : PartsAt(s, C)[k] = PartAt(s, C, k)
  BY DEF PartsAt
<1>7. QED
  BY <1>3, <1>5, <1>6

LEMMA PartsType ==
  ASSUME NEW S, NEW s \in Seq(S), NEW C
  PROVE  Parts(s, C) \in Seq(Seq(S))
<1>1. PartsAt(s, C) \in Seq(Seq(Seq(S))) /\ <<>> \in Seq(Seq(S)) /\ Parts(s, C) = FlattenSeq(PartsAt(s, C))
  BY PartsAtFacts
<1>2. QED
  BY <1>1, FlattenAppend

LEMMA PartsNone ==
  ASSUME NEW S, NEW s \in Seq(S), NEW C, \A k \in 1 .. Len(s) : s[k] \in C
  PROVE  Parts(s, C) = <<>>
<1>1. /\ PartsAt(s, C) \in Seq(Seq(Seq(S))) /\ Len(PartsAt(s, C)) = Len(s)
      /\ \A k \in 1 .. Len(s) : PartsAt(s, C)[k] = <<>>
      /\ Parts(s, C) = FlattenSeq(PartsAt(s, C))
  BY PartsAtFacts DEF PartAt
<1>2. QED
  BY <1>1, FlattenNone

LEMMA PartsOne ==
  ASSUME NEW S, NEW s \in Seq(S), NEW C, s # <<>>, \A k \in 1 .. Len(s) : s[k] \notin C
  PROVE  Parts(s, C) = <<s>>
<1> DEFINE places == PartsAt(s, C)
<1>1. /\ places \in Seq(Seq(Seq(S))) /\ Len(places) = Len(s)
      /\ \A k \in 1 .. Len(s) : places[k] = PartAt(s, C, k)
      /\ Parts(s, C) = FlattenSeq(places)
  BY PartsAtFacts
<1>2. Len(s) \in Nat \ {0} /\ 1 \in 1 .. Len(s)
  OBVIOUS
<1> HIDE DEF places
<1>3. places[1] = <<s>>
  <2> DEFINE n == Len(s) + 1
  <2>1. 1 \in 1 .. n /\ n \in 1 .. n /\ ~(n <= Len(s)) /\ n - 1 = Len(s)
    BY <1>2
  <2>2. \A l \in 1 .. n - 1 : s[l] \notin C
    BY <2>1
  <2>3. 1 \in 1 .. Len(s) + 1 /\ n \in 1 .. Len(s) + 1
    BY <2>1
  <2> HIDE DEF n
  <2>4. FirstOf(s, 1, C) = n
    BY <2>1, <2>2, <2>3, FirstOfIs
  <2>5. SubSeq(s, 1, FirstOf(s, 1, C) - 1) = s
    BY <2>1, <2>4, ST!SubSeqFull
  <2>6. s[1] \notin C
    BY <1>2
  <2>7. PartAt(s, C, 1) = <<s>>
    BY <2>5, <2>6 DEF PartAt
  <2>8. QED
    BY <1>1, <1>2, <2>7
<1>4. ASSUME NEW k \in 1 .. Len(s), k # 1
      PROVE  places[k] = <<>>
  <2>1. k - 1 \in 1 .. Len(s)
    BY <1>2, <1>4
  <2>2. QED
    BY <1>1, <1>4, <2>1 DEF PartAt
<1>5. places # <<>>
  BY <1>1, <1>2
<1>6. Tail(places) \in Seq(Seq(Seq(S))) /\ FlattenSeq(places) = places[1] \o FlattenSeq(Tail(places))
  BY <1>1, <1>5, FlattenHead
<1>7. \A k \in 1 .. Len(Tail(places)) : Tail(places)[k] = <<>>
  <2>1. Len(Tail(places)) = Len(s) - 1 /\ \A k \in 1 .. Len(s) - 1 : Tail(places)[k] = places[k + 1]
    BY <1>1, <1>5, ST!HeadTailProperties
  <2>2. \A k \in 1 .. Len(s) - 1 : k + 1 \in 1 .. Len(s) /\ k + 1 # 1
    BY <1>2
  <2>3. QED
    BY <1>4, <2>1, <2>2
<1>8. FlattenSeq(Tail(places)) = <<>>
  BY <1>6, <1>7, FlattenNone
<1>9. <<s>> \o <<>> = <<s>>
  <2>1. <<s>> \in Seq(Seq(S))
    OBVIOUS
  <2>2. QED
    BY <2>1, ConcatLaws
<1>10. QED
  BY <1>1, <1>3, <1>6, <1>8, <1>9

LEMMA PartsConcat ==
  ASSUME NEW S, NEW s \in Seq(S), NEW t \in Seq(S), NEW C,
         s = <<>> \/ s[Len(s)] \in C \/ t = <<>> \/ t[1] \in C
  PROVE  Parts(s \o t, C) = Parts(s, C) \o Parts(t, C)
<1> DEFINE r == s \o t
           m == Len(s)
           n == Len(t)
<1>1. /\ r \in Seq(S) /\ Len(r) = m + n /\ m \in Nat /\ n \in Nat
      /\ \A k \in 1 .. m + n : r[k] = IF k <= m THEN s[k] ELSE t[k - m]
  BY ST!ConcatProperties
<1>2. Len(s) = m /\ Len(t) = n
  OBVIOUS
<1>3. (m = 0 \/ s[m] \in C) \/ (n = 0 \/ t[1] \in C)
  <2>1. (s = <<>> => m = 0) /\ (t = <<>> => n = 0)
    OBVIOUS
  <2>2. QED
    BY <2>1
<1> HIDE DEF r, m, n
<1>4. /\ \A k \in 1 .. m : r[k] = s[k]
      /\ \A k \in 1 .. n : r[m + k] = t[k]
  <2>1. \A k \in 1 .. m : k \in 1 .. m + n /\ k <= m
    BY <1>1
  <2>2. \A k \in 1 .. n : m + k \in 1 .. m + n /\ ~(m + k <= m) /\ m + k - m = k
    BY <1>1
  <2>3. QED
    BY <1>1, <2>1, <2>2
<1>5. ASSUME NEW k \in 1 .. m
      PROVE  PartAt(r, C, k) = PartAt(s, C, k)
  <2> DEFINE f == FirstOf(s, k, C)
  <2>1. k \in 1 .. Len(s) + 1 /\ k \in 1 .. Len(r) + 1
    BY <1>1, <1>2
  <2>2. /\ f \in k .. m + 1 /\ (f <= m => s[f] \in C)
        /\ \A l \in k .. f - 1 : s[l] \notin C
    BY <1>2, <2>1, FirstOfFacts
  <2> HIDE DEF f
  <2>3. s[k] = r[k] /\ (k # 1 => s[k - 1] = r[k - 1])
    <3>1. k # 1 => k - 1 \in 1 .. m
      BY <1>1
    <3>2. QED
      BY <1>4, <3>1
  <2>4. CASE s[k] \in C
    BY <2>3, <2>4 DEF PartAt
  <2>5. CASE s[k] \notin C
    <3>1. FirstOf(r, k, C) = f
      <4>1. f \in k .. Len(r) + 1
        BY <1>1, <2>2
      <4>2. f <= Len(r) => r[f] \in C
        <5>1. CASE f <= m
          <6>1. f \in 1 .. m
            BY <1>1, <2>2, <5>1
          <6>2. QED
            BY <1>4, <2>2, <5>1, <6>1
        <5>2. CASE f = m + 1
          <6> SUFFICES ASSUME f <= Len(r) PROVE r[f] \in C
            OBVIOUS
          <6>1. n # 0 /\ 1 \in 1 .. n
            BY <1>1, <5>2
          <6>2. m # 0 /\ m \in k .. f - 1
            BY <1>1, <5>2
          <6>3. t[1] \in C
            BY <1>3, <2>2, <6>1, <6>2
          <6>4. QED
            BY <1>4, <5>2, <6>1, <6>3
        <5>3. QED
          BY <1>1, <2>2, <5>1, <5>2
      <4>3. \A l \in k .. f - 1 : r[l] \notin C
        <5>1. \A l \in k .. f - 1 : l \in 1 .. m
          BY <1>1, <2>2
        <5>2. QED
          BY <1>4, <2>2, <5>1
      <4>4. QED
        BY <1>1, <2>1, <4>1, <4>2, <4>3, FirstOfIs
    <3>2. SubSeq(r, k, f - 1) = SubSeq(s, k, f - 1)
      <4>1. f - 1 \in 0 .. Len(s) /\ f - 1 \in 0 .. Len(r) /\ k <= f - 1 + 1
        BY <1>1, <1>2, <2>2
      <4>2. /\ SubSeq(s, k, f - 1) \in Seq(S) /\ Len(SubSeq(s, k, f - 1)) = f - 1 + 1 - k
            /\ \A l \in 1 .. f - 1 + 1 - k : k + l - 1 \in 1 .. Len(s) /\ SubSeq(s, k, f - 1)[l] = s[k + l - 1]
        BY <2>1, <4>1, PartFacts
      <4>3. /\ SubSeq(r, k, f - 1) \in Seq(S) /\ Len(SubSeq(r, k, f - 1)) = f - 1 + 1 - k
            /\ \A l \in 1 .. f - 1 + 1 - k : SubSeq(r, k, f - 1)[l] = r[k + l - 1]
        BY <1>1, <2>1, <4>1, PartFacts
      <4>4. \A l \in 1 .. Len(SubSeq(s, k, f - 1)) : SubSeq(r, k, f - 1)[l] = SubSeq(s, k, f - 1)[l]
        BY <1>2, <1>4, <4>2, <4>3
      <4>5. QED
        BY <4>2, <4>3, <4>4, ST!SeqEqual
    <3>3. QED
      BY <2>3, <3>1, <3>2 DEF PartAt, f
  <2>6. QED
    BY <2>4, <2>5
<1>6. ASSUME NEW k \in 1 .. n
      PROVE  PartAt(r, C, m + k) = PartAt(t, C, k)
  <2> DEFINE f == FirstOf(t, k, C)
             x == m + k
  <2>1. k \in 1 .. Len(t) + 1 /\ x \in 1 .. Len(r) + 1
    BY <1>1, <1>2
  <2>2. /\ f \in k .. n + 1 /\ (f <= n => t[f] \in C)
        /\ \A l \in k .. f - 1 : t[l] \notin C
    BY <1>2, <2>1, FirstOfFacts
  <2> HIDE DEF f
  <2>3. r[x] = t[k]
    BY <1>4
  <2> DEFINE g == m + f
  <2>4. /\ g \in x .. Len(r) + 1
        /\ g <= Len(r) => r[g] \in C
        /\ \A l \in x .. g - 1 : r[l] \notin C
    <3>1. g \in x .. Len(r) + 1
      BY <1>1, <2>2
    <3>2. g <= Len(r) => r[g] \in C
      <4>1. m + f <= Len(r) => f \in 1 .. n
        BY <1>1, <2>2
      <4>2. f \in 1 .. n => f <= n
        BY <1>1
      <4>3. QED
        BY <1>4, <2>2, <4>1, <4>2
    <3>3. \A l \in x .. g - 1 : r[l] \notin C
      <4> SUFFICES ASSUME NEW l \in x .. g - 1 PROVE r[l] \notin C
        OBVIOUS
      <4>1. l - m \in k .. f - 1 /\ l - m \in 1 .. n /\ m + (l - m) = l
        BY <1>1, <2>2
      <4>2. QED
        BY <1>4, <2>2, <4>1
    <3>4. QED
      BY <3>1, <3>2, <3>3
  <2>5. /\ f - 1 \in 0 .. Len(t) /\ g - 1 \in 0 .. Len(r) /\ k <= f - 1 + 1 /\ x <= g - 1 + 1
        /\ g - 1 + 1 - x = f - 1 + 1 - k
        /\ \A l \in 1 .. f - 1 + 1 - k : x + l - 1 = m + (k + l - 1)
    BY <1>1, <1>2, <2>2
  <2>6. FirstOf(r, x, C) = g
    <3> HIDE DEF x, g
    <3>4. QED
      BY <1>1, <2>1, <2>4, FirstOfIs
  <2>7. SubSeq(r, x, g - 1) = SubSeq(t, k, f - 1)
    <3> DEFINE y == SubSeq(r, x, g - 1)
               z == SubSeq(t, k, f - 1)
    <3> HIDE DEF x, g
    <3>2. /\ z \in Seq(S) /\ Len(z) = f - 1 + 1 - k
          /\ \A l \in 1 .. f - 1 + 1 - k : k + l - 1 \in 1 .. Len(t) /\ z[l] = t[k + l - 1]
      BY <2>1, <2>5, PartFacts
    <3>3. /\ y \in Seq(S) /\ Len(y) = g - 1 + 1 - x
          /\ \A l \in 1 .. g - 1 + 1 - x : y[l] = r[x + l - 1]
      <4>1. r \in Seq(S) /\ x \in 1 .. Len(r) + 1 /\ g - 1 \in 0 .. Len(r) /\ x <= g - 1 + 1
        BY <1>1, <2>1, <2>5
      <4>2. QED
        BY <4>1, PartFacts
    <3> HIDE DEF y, z
    <3>4. \A l \in 1 .. f - 1 + 1 - k : y[l] = z[l]
      <4>1. \A l \in 1 .. f - 1 + 1 - k : y[l] = r[m + (k + l - 1)] /\ z[l] = t[k + l - 1]
        BY <2>5, <3>2, <3>3
      <4>2. \A l \in 1 .. f - 1 + 1 - k : k + l - 1 \in 1 .. n
        BY <1>2, <3>2
      <4>3. QED
        BY <1>4, <4>1, <4>2
    <3>5. y = z
      BY <2>5, <3>2, <3>3, <3>4, ST!SeqEqual
    <3>6. QED
      BY <3>5 DEF y, z
  <2>8. (k = 1 \/ t[k - 1] \in C) /\ t[k] \notin C <=> (x = 1 \/ r[x - 1] \in C) /\ t[k] \notin C
    <3>1. CASE k # 1
      <4>1. k - 1 \in 1 .. n /\ x # 1 /\ x - 1 = m + (k - 1)
        BY <1>1, <3>1
      <4>2. r[x - 1] = t[k - 1]
        BY <1>4, <4>1
      <4>3. QED
        BY <3>1, <4>1, <4>2
    <3>2. CASE k = 1 /\ m = 0
      BY <1>1, <3>2
    <3>3. CASE k = 1 /\ m # 0
      <4>1. x # 1 /\ x - 1 = m /\ m \in 1 .. m /\ n # 0
        BY <1>1, <3>3
      <4>2. r[x - 1] = s[m]
        BY <1>4, <4>1
      <4>3. QED
        BY <1>3, <3>3, <4>1, <4>2
    <3>4. QED
      BY <3>1, <3>2, <3>3
  <2>9. m + k = x
    OBVIOUS
  <2> HIDE DEF x, g
  <2>10. PartAt(r, C, x) = PartAt(t, C, k)
    <3>1. SubSeq(r, x, FirstOf(r, x, C) - 1) = SubSeq(t, k, FirstOf(t, k, C) - 1)
      BY <2>6, <2>7 DEF f
    <3>2. QED
      BY <2>3, <2>8, <3>1, Zenon DEF PartAt
  <2>11. QED
    BY <2>9, <2>10
<1>7. PartsAt(r, C) = PartsAt(s, C) \o PartsAt(t, C)
  <2> DEFINE p == PartsAt(s, C)
             q == PartsAt(t, C)
             z == PartsAt(r, C)
  <2>1. /\ p \in Seq(Seq(Seq(S))) /\ q \in Seq(Seq(Seq(S))) /\ z \in Seq(Seq(Seq(S)))
        /\ Len(p) = m /\ Len(q) = n /\ Len(z) = m + n
        /\ \A k \in 1 .. m : p[k] = PartAt(s, C, k)
        /\ \A k \in 1 .. n : q[k] = PartAt(t, C, k)
        /\ \A k \in 1 .. m + n : z[k] = PartAt(r, C, k)
    BY <1>1, <1>2, PartsAtFacts
  <2> HIDE DEF p, q, z
  <2>2. \A k \in 1 .. m : k \in 1 .. m + n
    BY <1>1
  <2>3. \A k \in 1 .. n : m + k \in 1 .. m + n
    BY <1>1
  <2>4. \A k \in 1 .. Len(p) : z[k] = p[k]
    BY <1>5, <2>1, <2>2
  <2>5. \A k \in 1 .. Len(q) : z[Len(p) + k] = q[k]
    BY <1>6, <2>1, <2>3
  <2>6. Len(z) = Len(p) + Len(q)
    BY <2>1
  <2>7. z = p \o q
    BY <2>1, <2>4, <2>5, <2>6, Joined
  <2>8. QED
    BY <2>7 DEF p, q, z
<1>8. FlattenSeq(PartsAt(s, C) \o PartsAt(t, C)) = FlattenSeq(PartsAt(s, C)) \o FlattenSeq(PartsAt(t, C))
  <2>1. PartsAt(s, C) \in Seq(Seq(Seq(S))) /\ PartsAt(t, C) \in Seq(Seq(Seq(S)))
    BY PartsAtFacts
  <2>2. QED
    BY <2>1, FlattenConcat
<1>9. /\ Parts(r, C) = FlattenSeq(PartsAt(r, C)) /\ Parts(s, C) = FlattenSeq(PartsAt(s, C))
      /\ Parts(t, C) = FlattenSeq(PartsAt(t, C))
  BY <1>1, PartsAtFacts
<1>10. QED
  BY <1>7, <1>8, <1>9 DEF r

-----------------------------------------------------------------------------
\* The requests of a text

\* Trimmed cuts a string behind its last character that is no '\r'.
TrimsAt(s, k) == (k > 0 => s[k] # CR) /\ \A l \in k + 1 .. Len(s) : s[l] = CR

LEMMA TrimmedIs ==
  ASSUME NEW s \in Seq(Chars), NEW k \in 0 .. Len(s), TrimsAt(s, k)
  PROVE  Trimmed(s) = SubSeq(s, 1, k)
<1> DEFINE c == CHOOSE j \in 0 .. Len(s) : TrimsAt(s, j)
<1>1. c \in 0 .. Len(s) /\ TrimsAt(s, c)
  OBVIOUS
<1>2. Trimmed(s) = SubSeq(s, 1, c)
  BY DEF Trimmed, TrimsAt
<1> HIDE DEF c
<1>3. c \in Int /\ k \in Int /\ Len(s) \in Nat /\ c >= 0 /\ k >= 0 /\ c <= Len(s) /\ k <= Len(s)
  BY <1>1
<1>4. ~(c < k)
  <2> SUFFICES ASSUME c < k PROVE FALSE
    OBVIOUS
  <2>1. k \in c + 1 .. Len(s) /\ k > 0
    BY <1>3
  <2>2. QED
    BY <1>1, <2>1 DEF TrimsAt
<1>5. ~(k < c)
  <2> SUFFICES ASSUME k < c PROVE FALSE
    OBVIOUS
  <2>1. c \in k + 1 .. Len(s) /\ c > 0
    BY <1>3
  <2>2. QED
    BY <1>1, <2>1 DEF TrimsAt
<1>6. c = k
  BY <1>3, <1>4, <1>5
<1>7. QED
  BY <1>2, <1>6

LEMMA TrimmedFacts ==
  ASSUME NEW s \in Seq(Chars)
  PROVE  \E k \in 0 .. Len(s) : TrimsAt(s, k) /\ Trimmed(s) = SubSeq(s, 1, k) /\ Trimmed(s) \in Seq(Chars)
<1> DEFINE T == {k \in 0 .. Len(s) : \A l \in k + 1 .. Len(s) : s[l] = CR}
<1>1. Len(s) \in Nat /\ T \subseteq Nat /\ Len(s) \in T
  OBVIOUS
<1>2. PICK k \in T : \A l \in T : k <= l
  <2> HIDE DEF T
  <2> QED BY <1>1, LeastNat
<1>3. k \in 0 .. Len(s) /\ TrimsAt(s, k)
  <2>1. k \in 0 .. Len(s) /\ \A l \in k + 1 .. Len(s) : s[l] = CR
    BY <1>2
  <2>2. ASSUME k > 0, s[k] = CR
        PROVE  FALSE
    <3>1. k - 1 \in 0 .. Len(s) /\ ~(k <= k - 1)
      BY <1>1, <2>1, <2>2
    <3>2. \A l \in k - 1 + 1 .. Len(s) : l = k \/ l \in k + 1 .. Len(s)
      BY <1>1, <2>1, <2>2
    <3>3. k - 1 \in T
      BY <2>1, <2>2, <3>1, <3>2
    <3> HIDE DEF T
    <3>4. QED
      BY <1>2, <3>1, <3>3
  <2>3. QED
    BY <2>1, <2>2 DEF TrimsAt
<1>4. SubSeq(s, 1, k) \in Seq(Chars)
  BY <1>3, Cut
<1>5. Trimmed(s) = SubSeq(s, 1, k)
  BY <1>3, TrimmedIs
<1>6. QED
  BY <1>3, <1>4, <1>5

LEMMA TrimmedSame ==
  ASSUME NEW s \in Seq(Chars), s = <<>> \/ s[Len(s)] # CR
  PROVE  Trimmed(s) = s
<1>1. Len(s) \in 0 .. Len(s) /\ (Len(s) > 0 => s # <<>>)
  OBVIOUS
<1>2. TrimsAt(s, Len(s))
  BY <1>1 DEF TrimsAt
<1>3. Trimmed(s) = SubSeq(s, 1, Len(s))
  BY <1>1, <1>2, TrimmedIs
<1>4. QED
  BY <1>3, ST!SubSeqFull

LEMMA TrimmedCR ==
  ASSUME NEW s \in Seq(Chars)
  PROVE  Trimmed(s \o <<CR>>) = Trimmed(s)
<1> DEFINE r == s \o <<CR>>
           n == Len(s)
<1>1. PICK k \in 0 .. Len(s) : TrimsAt(s, k) /\ Trimmed(s) = SubSeq(s, 1, k)
  BY TrimmedFacts
<1>2. /\ r \in Seq(Chars) /\ Len(r) = n + 1 /\ n \in Nat /\ r[n + 1] = CR
      /\ \A l \in 1 .. n : r[l] = s[l]
  <2>1. <<CR>> \in Seq(Chars)
    BY DEF Chars
  <2>2. QED
    BY <2>1
<1> HIDE DEF r
<1>3. k \in 0 .. Len(r) /\ TrimsAt(r, k)
  <2>1. k \in 0 .. Len(r) /\ (k > 0 => k \in 1 .. n)
    BY <1>2
  <2>2. \A l \in k + 1 .. Len(r) : l = n + 1 \/ (l \in 1 .. n /\ l \in k + 1 .. n)
    BY <1>2
  <2>3. QED
    BY <1>1, <1>2, <2>1, <2>2 DEF TrimsAt
<1>4. Trimmed(r) = SubSeq(r, 1, k)
  BY <1>2, <1>3, TrimmedIs
<1>5. SubSeq(r, 1, k) = SubSeq(s, 1, k)
  <2>1. /\ SubSeq(s, 1, k) \in Seq(Chars) /\ Len(SubSeq(s, 1, k)) = k
        /\ \A l \in 1 .. k : SubSeq(s, 1, k)[l] = s[l]
    BY Cut
  <2>2. /\ SubSeq(r, 1, k) \in Seq(Chars) /\ Len(SubSeq(r, 1, k)) = k
        /\ \A l \in 1 .. k : SubSeq(r, 1, k)[l] = r[l]
    BY <1>2, <1>3, Cut
  <2>3. \A l \in 1 .. k : l \in 1 .. n
    BY <1>2
  <2>4. \A l \in 1 .. Len(SubSeq(r, 1, k)) : SubSeq(r, 1, k)[l] = SubSeq(s, 1, k)[l]
    BY <1>2, <2>1, <2>2, <2>3
  <2>5. QED
    BY <2>1, <2>2, <2>4, ST!SeqEqual
<1>6. QED
  BY <1>1, <1>4, <1>5 DEF r

\* The requests of one line without its end, none or one.
RequestOf(l) == IF Trimmed(l) = <<>> THEN <<>> ELSE <<WordsOf(Trimmed(l))>>
RequestsAt(lines) == [k \in 1 .. Len(lines) |-> RequestOf(lines[k])]

Strings == Seq(Chars)

LEMMA RequestOfType ==
  ASSUME NEW l \in Strings
  PROVE  RequestOf(l) \in Seq(Seq(Strings))
<1>1. Trimmed(l) \in Seq(Chars)
  BY TrimmedFacts DEF Strings
<1>2. Parts(Trimmed(l), {Blank}) \in Seq(Seq(Chars)) /\ <<>> \in Seq(Chars)
  BY <1>1, PartsType
<1>3. Append(Parts(Trimmed(l), {Blank}), <<>>) \in Seq(Seq(Chars))
  BY <1>2
<1>4. WordsOf(Trimmed(l)) \in Seq(Strings)
  BY <1>2, <1>3 DEF WordsOf, Strings
<1>5. QED
  BY <1>4 DEF RequestOf

LEMMA RequestsAtFacts ==
  ASSUME NEW lines \in Seq(Strings)
  PROVE  /\ RequestsAt(lines) \in Seq(Seq(Seq(Strings))) /\ Len(RequestsAt(lines)) = Len(lines)
         /\ \A k \in 1 .. Len(lines) : RequestsAt(lines)[k] = RequestOf(lines[k])
<1> DEFINE e(k) == RequestOf(lines[k])
<1>1. /\ RequestsAt(lines) = [k \in 1 .. Len(lines) |-> e(k)]
      /\ \A k \in 1 .. Len(lines) : e(k) \in Seq(Seq(Strings))
  <2>1. \A k \in 1 .. Len(lines) : lines[k] \in Strings
    OBVIOUS
  <2>2. QED
    BY <2>1, RequestOfType DEF RequestsAt
<1>2. \A k \in 1 .. Len(lines) : RequestsAt(lines)[k] = RequestOf(lines[k])
  BY DEF RequestsAt
<1> HIDE DEF e
<1>3. Len(lines) \in Nat
  OBVIOUS
<1>4. RequestsAt(lines) \in Seq(Seq(Seq(Strings))) /\ Len(RequestsAt(lines)) = Len(lines)
  BY <1>1, <1>3, ST!IsASeq
<1>5. QED
  BY <1>2, <1>4

LEMMA RequestsType ==
  ASSUME NEW text \in Seq(Chars)
  PROVE  /\ Parts(text, {LF}) \in Seq(Strings)
         /\ RequestsOf(text) = FlattenSeq(RequestsAt(Parts(text, {LF})))
         /\ RequestsOf(text) \in Seq(Seq(Strings))
<1>1. Parts(text, {LF}) \in Seq(Strings)
  BY PartsType DEF Strings
<1>2. RequestsOf(text) = FlattenSeq(RequestsAt(Parts(text, {LF})))
  BY DEF RequestsOf, RequestsAt, RequestOf
<1>3. RequestsAt(Parts(text, {LF})) \in Seq(Seq(Seq(Strings))) /\ <<>> \in Seq(Seq(Strings))
  BY <1>1, RequestsAtFacts
<1>4. FlattenSeq(RequestsAt(Parts(text, {LF}))) \in Seq(Seq(Strings))
  BY <1>3, FlattenAppend
<1>5. QED
  BY <1>1, <1>2, <1>4

LEMMA RequestsConcat ==
  ASSUME NEW s \in Seq(Chars), NEW t \in Seq(Chars),
         s = <<>> \/ s[Len(s)] = LF \/ t = <<>> \/ t[1] = LF
  PROVE  RequestsOf(s \o t) = RequestsOf(s) \o RequestsOf(t)
<1> DEFINE a == Parts(s, {LF})
           b == Parts(t, {LF})
           r == s \o t
<1>1. Parts(r, {LF}) = a \o b
  <2> DEFINE C == {LF}
  <2>1. s = <<>> \/ s[Len(s)] \in C \/ t = <<>> \/ t[1] \in C
    OBVIOUS
  <2> HIDE DEF C
  <2>2. Parts(s \o t, C) = Parts(s, C) \o Parts(t, C)
    BY <2>1, PartsConcat
  <2>3. QED
    BY <2>2 DEF C
<1>2. r \in Seq(Chars)
  BY ConcatLaws
<1>3. a \in Seq(Strings) /\ b \in Seq(Strings)
  BY RequestsType
<1> HIDE DEF a, b, r
<1>4. /\ a \o b \in Seq(Strings) /\ Len(a \o b) = Len(a) + Len(b)
      /\ Len(a) \in Nat /\ Len(b) \in Nat
      /\ \A k \in 1 .. Len(a) + Len(b) : (a \o b)[k] = IF k <= Len(a) THEN a[k] ELSE b[k - Len(a)]
  BY <1>3, ST!ConcatProperties
<1> DEFINE p == RequestsAt(a)
           q == RequestsAt(b)
           z == RequestsAt(a \o b)
<1>5. /\ p \in Seq(Seq(Seq(Strings))) /\ q \in Seq(Seq(Seq(Strings))) /\ z \in Seq(Seq(Seq(Strings)))
      /\ Len(p) = Len(a) /\ Len(q) = Len(b) /\ Len(z) = Len(a) + Len(b)
      /\ \A k \in 1 .. Len(a) : p[k] = RequestOf(a[k])
      /\ \A k \in 1 .. Len(b) : q[k] = RequestOf(b[k])
      /\ \A k \in 1 .. Len(a) + Len(b) : z[k] = RequestOf((a \o b)[k])
  BY <1>3, <1>4, RequestsAtFacts
<1> HIDE DEF p, q, z
<1>6. \A k \in 1 .. Len(p) : z[k] = p[k]
  <2>1. \A k \in 1 .. Len(a) : k \in 1 .. Len(a) + Len(b) /\ k <= Len(a)
    BY <1>4
  <2>2. QED
    BY <1>4, <1>5, <2>1
<1>7. \A k \in 1 .. Len(q) : z[Len(p) + k] = q[k]
  <2>1. \A k \in 1 .. Len(b) : /\ Len(a) + k \in 1 .. Len(a) + Len(b) /\ ~(Len(a) + k <= Len(a))
                               /\ Len(a) + k - Len(a) = k
    BY <1>4
  <2>2. \A k \in 1 .. Len(b) : (a \o b)[Len(a) + k] = b[k]
    BY <1>4, <2>1
  <2>3. QED
    BY <1>5, <2>1, <2>2
<1>8. z = p \o q
  <2>1. Len(z) = Len(p) + Len(q)
    BY <1>5
  <2>2. QED
    BY <1>5, <1>6, <1>7, <2>1, Joined
<1>9. FlattenSeq(p \o q) = FlattenSeq(p) \o FlattenSeq(q)
  BY <1>5, FlattenConcat
<1>10. /\ RequestsOf(r) = FlattenSeq(z) /\ RequestsOf(s) = FlattenSeq(p)
       /\ RequestsOf(t) = FlattenSeq(q)
  BY <1>1, <1>2, RequestsType DEF p, q, z, a, b
<1>11. QED
  BY <1>8, <1>9, <1>10 DEF r

LEMMA RequestsNone ==
  ASSUME NEW s \in Seq(Chars), \A k \in 1 .. Len(s) : s[k] = LF
  PROVE  RequestsOf(s) = <<>>
<1>1. \A k \in 1 .. Len(s) : s[k] \in {LF}
  OBVIOUS
<1>2. Parts(s, {LF}) = <<>>
  BY <1>1, PartsNone
<1>3. RequestsAt(<<>>) = <<>>
  BY DEF RequestsAt
<1>4. QED
  BY <1>2, <1>3, RequestsType, FlattenEmpty

LEMMA RequestsOfLF == RequestsOf(<<>>) = <<>> /\ RequestsOf(<<LF>>) = <<>> /\ <<LF>> \in Seq(Chars)
<1>1. <<LF>> \in Seq(Chars) /\ \A k \in 1 .. Len(<<LF>>) : <<LF>>[k] = LF
  BY DEF Chars
<1>2. <<>> \in Seq(Chars) /\ \A k \in 1 .. Len(<<>>) : <<>>[k] = LF
  OBVIOUS
<1>3. QED
  BY <1>1, <1>2, RequestsNone

\* A line is one request, if it is not empty.
LEMMA RequestsLine ==
  ASSUME NEW l \in Seq(Chars), \A k \in 1 .. Len(l) : l[k] # LF
  PROVE  RequestsOf(l \o <<LF>>) = RequestOf(l)
<1>1. RequestsOf(l \o <<LF>>) = RequestsOf(l) \o RequestsOf(<<LF>>)
  <2>1. <<LF>>[1] = LF
    OBVIOUS
  <2>2. QED
    BY <2>1, RequestsOfLF, RequestsConcat
<1>2. RequestsOf(l) = RequestOf(l)
  <2>1. CASE l = <<>>
    <3>1. Trimmed(l) = <<>>
      BY <2>1, TrimmedSame
    <3>2. QED
      BY <2>1, <3>1, RequestsOfLF DEF RequestOf
  <2>2. CASE l # <<>>
    <3>1. \A k \in 1 .. Len(l) : l[k] \notin {LF}
      OBVIOUS
    <3>2. Parts(l, {LF}) = <<l>>
      BY <2>2, <3>1, PartsOne
    <3>3. RequestsAt(<<l>>) = <<RequestOf(l)>>
      BY DEF RequestsAt
    <3>4. FlattenSeq(<<RequestOf(l)>>) = RequestOf(l)
      BY RequestOfType, FlattenOne DEF Strings
    <3>5. QED
      BY <3>2, <3>3, <3>4, RequestsType
  <2>3. QED
    BY <2>1, <2>2
<1>3. RequestOf(l) \o <<>> = RequestOf(l)
  BY RequestOfType, ConcatLaws DEF Strings
<1>4. QED
  BY <1>1, <1>2, <1>3, RequestsOfLF

\* A string is whole lines and a rest.
LEMMA LastLine ==
  ASSUME NEW s \in Seq(Chars)
  PROVE  \E u \in Seq(Chars), v \in Seq(Chars) :
            /\ s = u \o v
            /\ u = <<>> \/ u[Len(u)] = LF
            /\ \A k \in 1 .. Len(v) : v[k] # LF
<1> DEFINE T == {k \in 0 .. Len(s) : \A l \in 1 .. Len(s) - k : s[k + l] # LF}
           n == Len(s)
<1>1. n \in Nat /\ T \subseteq Nat /\ n \in T
  OBVIOUS
<1>2. PICK k \in T : \A l \in T : k <= l
  <2> HIDE DEF T, n
  <2> QED BY <1>1, LeastNat
<1>3. k \in 0 .. n /\ \A l \in 1 .. n - k : s[k + l] # LF
  BY <1>2
<1>4. k = 0 \/ s[k] = LF
  <2> SUFFICES ASSUME k # 0, s[k] # LF PROVE FALSE
    OBVIOUS
  <2> DEFINE j == k - 1
  <2>1. j \in 0 .. n /\ ~(k <= j) /\ j + 1 = k
    BY <1>1, <1>3
  <2>2. ASSUME NEW l \in 1 .. n - j
        PROVE  s[j + l] # LF
    <3>1. CASE l = 1
      BY <2>1, <3>1
    <3>2. CASE l # 1
      <4>1. l - 1 \in 1 .. n - k /\ k + (l - 1) = j + l
        BY <1>1, <1>3, <2>2, <3>2
      <4>2. s[k + (l - 1)] # LF
        BY <1>3, <4>1
      <4>3. QED
        BY <4>1, <4>2
    <3>3. QED
      BY <3>1, <3>2
  <2> HIDE DEF j
  <2>3. j \in T
    BY <2>1, <2>2
  <2>4. QED
    <3> HIDE DEF T
    <3> QED BY <1>2, <2>1, <2>3
<1> DEFINE u == SubSeq(s, 1, k)
           v == Behind(s, k + 1)
<1>5. /\ s = u \o v /\ u \in Seq(Chars) /\ Len(u) = k /\ \A l \in 1 .. k : u[l] = s[l]
      /\ v \in Seq(Chars) /\ Len(v) = n - k /\ \A l \in 1 .. n - k : v[l] = s[k + l]
  BY <1>3, Cut
<1> HIDE DEF u, v, n, T
<1>6. u = <<>> \/ u[Len(u)] = LF
  <2>1. k = 0 => u = <<>>
    BY <1>5
  <2>2. k # 0 => k \in 1 .. k
    BY <1>1, <1>3
  <2>3. QED
    BY <1>4, <1>5, <2>1, <2>2
<1>7. \A l \in 1 .. Len(v) : v[l] # LF
  BY <1>3, <1>5
<1>8. QED
  BY <1>5, <1>6, <1>7

\* Of '\r' at the end of a line nothing is left.
LEMMA RequestsCR ==
  ASSUME NEW s \in Seq(Chars)
  PROVE  RequestsOf(s \o <<CR, LF>>) = RequestsOf(s \o <<LF>>)
<1>1. PICK u \in Seq(Chars), v \in Seq(Chars) :
            /\ s = u \o v
            /\ u = <<>> \/ u[Len(u)] = LF
            /\ \A k \in 1 .. Len(v) : v[k] # LF
  BY LastLine
<1>2. <<CR>> \in Seq(Chars) /\ <<LF>> \in Seq(Chars) /\ <<CR, LF>> \in Seq(Chars) /\ <<CR, LF>> = <<CR>> \o <<LF>>
  <2> DEFINE p == <<CR>>
             q == <<LF>>
             r == <<CR, LF>>
  <2>1. p \in Seq(Chars) /\ q \in Seq(Chars) /\ r \in Seq(Chars)
    BY DEF Chars
  <2>2. Len(p) = 1 /\ Len(q) = 1 /\ Len(r) = Len(p) + Len(q) /\ p[1] = r[1] /\ q[1] = r[2]
    OBVIOUS
  <2> HIDE DEF p, q, r
  <2>3. /\ \A k \in 1 .. Len(p) : r[k] = p[k]
        /\ \A k \in 1 .. Len(q) : r[Len(p) + k] = q[k]
    BY <2>2
  <2>4. r = p \o q
    BY <2>1, <2>2, <2>3, Joined
  <2>5. QED
    BY <2>1, <2>4 DEF p, q, r
<1> DEFINE w == v \o <<CR>>
<1>3. w \in Seq(Chars) /\ \A k \in 1 .. Len(w) : w[k] # LF
  <2>1. w \in Seq(Chars) /\ Len(w) = Len(v) + 1 /\ Len(v) \in Nat
        /\ w[Len(v) + 1] = CR /\ \A k \in 1 .. Len(v) : w[k] = v[k]
    BY <1>2
  <2> HIDE DEF w
  <2>2. \A k \in 1 .. Len(w) : k = Len(v) + 1 \/ k \in 1 .. Len(v)
    BY <2>1
  <2>3. QED
    BY <1>1, <2>1, <2>2, CharAssumption DEF CharAssumption
<1>4. s \o <<LF>> = u \o (v \o <<LF>>)
  BY <1>1, <1>2, ConcatLaws
<1>5. s \o <<CR, LF>> = u \o (w \o <<LF>>)
  <2>1. v \o (<<CR>> \o <<LF>>) = w \o <<LF>>
    BY <1>2, ConcatLaws
  <2>2. (u \o v) \o <<CR, LF>> = u \o (v \o <<CR, LF>>)
    BY <1>2, ConcatLaws
  <2>3. QED
    BY <1>1, <1>2, <2>1, <2>2
<1>6. w \o <<LF>> \in Seq(Chars) /\ v \o <<LF>> \in Seq(Chars)
  BY <1>2, <1>3, ConcatLaws
<1>7. /\ RequestsOf(u \o (w \o <<LF>>)) = RequestsOf(u) \o RequestsOf(w \o <<LF>>)
      /\ RequestsOf(u \o (v \o <<LF>>)) = RequestsOf(u) \o RequestsOf(v \o <<LF>>)
  BY <1>1, <1>6, RequestsConcat
<1>8. RequestsOf(w \o <<LF>>) = RequestOf(w) /\ RequestsOf(v \o <<LF>>) = RequestOf(v)
  BY <1>1, <1>3, RequestsLine
<1>9. RequestOf(w) = RequestOf(v)
  BY TrimmedCR DEF RequestOf
<1>10. QED
  BY <1>4, <1>5, <1>7, <1>8, <1>9

-----------------------------------------------------------------------------
\* Whole lines are executed as they are

\* What of the line has become words.
ReadWords ==
    pc = "words" => /\ words = Parts(SubSeq(line, 1, start - 1), {Blank})
                    /\ start = 1 \/ line[start - 1] = Blank

\* A line with its end, which is not an empty one.
IsLine(s) ==
    /\ Len(s) > 1 /\ s[Len(s)] = LF /\ s[Len(s) - 1] # CR
    /\ \A k \in 1 .. Len(s) - 1 : s[k] # LF

\* A text of whole lines.
Ended(s) == s = <<>> \/ s[Len(s)] = LF

\* When packets are whole lines, so is everything that is made of them.
Formed ==
    Whole /\ NoNUL =>
        /\ pc \in {"crlf", "split"} => request # <<>> /\ Ended(request)
        /\ pc = "split" => \A k \in 1 .. Len(request) - 1 : ~HasCRLF(request, k)
        /\ \A q \in 1 .. Len(queue) : IsLine(queue[q])
        /\ Ended(FlattenSeq(queue))
        /\ pc = "words" => IsLine(line)

\* The request of the line that is being read.
RequestAtHand ==
    IF pc = "words" THEN RequestsOf(line) ELSE IF pc = "execute" THEN <<words>> ELSE <<>>

\* Each request is executed, at hand, queued or not split yet.
Requested ==
    status = "up" /\ Whole /\ NoNUL =>
        RequestsOf(Received) =
            ((executed \o RequestAtHand) \o RequestsOf(FlattenSeq(queue))) \o RequestsOf(Unsplit)

\* The inductive invariant for WholeLines.
LinesKept == Executed /\ ReadWords /\ Formed /\ Requested

LEMMA RequestTypes ==
  ASSUME Typed, Executed
  PROVE  /\ executed \in Seq(Seq(Strings)) /\ RequestAtHand \in Seq(Seq(Strings))
         /\ RequestsOf(FlattenSeq(queue)) \in Seq(Seq(Strings))
         /\ RequestsOf(Unsplit) \in Seq(Seq(Strings))
<1>1. executed \in Seq(Seq(Strings))
  <2>1. Seq(Text) \subseteq Seq(Strings) /\ executed \in Seq(Seq(Text))
    BY TextIsString DEF Executed, Strings
  <2>2. QED
    BY <2>1, ST!SeqMonotonic
<1>2. RequestsOf(line) \in Seq(Seq(Strings)) /\ RequestsOf(FlattenSeq(queue)) \in Seq(Seq(Strings))
  BY SumTypes, RequestsType
<1>3. RequestsOf(Unsplit) \in Seq(Seq(Strings))
  BY SumLetters, RequestsType
<1>4. <<words>> \in Seq(Seq(Strings)) /\ <<>> \in Seq(Seq(Strings))
  <2>1. words \in Seq(Strings)
    BY TextIsString DEF Typed, Strings
  <2>2. QED
    BY <2>1
<1>5. QED
  BY <1>1, <1>2, <1>3, <1>4 DEF RequestAtHand

LEMMA InitLinesKept == Init => LinesKept
<1> SUFFICES ASSUME Init PROVE LinesKept
  OBVIOUS
<1>1. /\ at = 0 /\ pc = "recv" /\ queue = <<>> /\ executed = <<>>
  BY DEF Init
<1>2. Received = <<>>
  BY <1>1, ST!SubSeqEmpty DEF Received
<1>3. RequestAtHand = <<>> /\ Unsplit = <<>> /\ FlattenSeq(queue) = <<>>
  BY <1>1, FlattenEmpty DEF RequestAtHand, Unsplit
<1>4. <<>> = ((<<>> \o <<>>) \o <<>>) \o <<>>
  OBVIOUS
<1>5. Requested
  BY <1>1, <1>2, <1>3, <1>4, RequestsOfLF DEF Requested
<1>6. Formed
  BY <1>1, <1>3 DEF Formed, Ended
<1>7. QED
  BY <1>1, <1>5, <1>6 DEF LinesKept, Executed, ReadWords

LEMMA RecvLines ==
  ASSUME Typed, Origins, LinesKept, NEW n \in 1 .. MaxInput, Recv(n)
  PROVE  LinesKept'
<1>1. /\ pc = "recv" /\ pc' = "crlf" /\ status = "up" /\ ends' = ends \cup {at'}
      /\ stream' = stream
      /\ UNCHANGED <<queue, executed, words, line>> /\ queue = <<>> /\ at \in ends \cup {0}
  BY DEF Recv, Origins, cutting
<1>2. [Next]_vars
  BY DEF Next
<1>3. Executed' /\ ReadWords'
  BY <1>1 DEF LinesKept, Executed, ReadWords
<1>4. /\ request' \in Seq(Chars) /\ Received \in Seq(Chars) /\ Len(Received) = at
      /\ \A k \in 1 .. at : Received[k] = stream[k]
  BY RecvFacts, ReceivedFacts, TextIsString
<1>5. Whole' /\ NoNUL' => request' # <<>> /\ Ended(request')
  <2> SUFFICES ASSUME Whole', NoNUL' PROVE request' # <<>> /\ Ended(request')
    OBVIOUS
  <2>1. Len(request') = n /\ request'[n] = stream[at']
    BY RecvAdds
  <2>2. stream[at'] = LF
    BY <1>1 DEF Whole
  <2>3. n # 0
    OBVIOUS
  <2>4. QED
    BY <1>4, <2>1, <2>2, <2>3 DEF Ended
<1>6. Formed'
  BY <1>1, <1>5, FlattenEmpty DEF Formed, Ended
<1>7. Requested'
  <2> SUFFICES ASSUME (status = "up" /\ Whole /\ NoNUL)'
               PROVE  RequestsOf(Received)' =
                        ((executed' \o RequestAtHand') \o RequestsOf(FlattenSeq(queue))') \o RequestsOf(Unsplit)'
    BY DEF Requested
  <2>1. NoNUL /\ Whole
    BY <1>2, StreamGrows
  <2>2. RequestAtHand = <<>> /\ Unsplit = <<>> /\ FlattenSeq(queue) = <<>>
        /\ RequestAtHand' = <<>> /\ Unsplit' = request'
    BY <1>1, FlattenEmpty DEF RequestAtHand, Unsplit
  <2> DEFINE a == executed
             p == RequestsOf(request')
  <2>3. RequestsOf(Received) = ((a \o <<>>) \o <<>>) \o <<>>
    BY <1>1, <2>1, <2>2, RequestsOfLF DEF LinesKept, Requested
  <2>4. RequestsOf(Received)' = RequestsOf(Received) \o p
    <3>1. Received' = Received \o request'
      BY RecvAdds
    <3>2. Received = <<>> \/ Received[Len(Received)] = LF
      <4>1. CASE at = 0
        BY <1>4, <4>1
      <4>2. CASE at # 0
        <5>1. at \in ends /\ at \in 1 .. at
          BY <1>1, <4>2 DEF Typed, TypeOK
        <5>2. QED
          BY <1>4, <2>1, <5>1 DEF Whole
      <4>3. QED
        BY <4>1, <4>2
    <3>3. RequestsOf(Received \o request') = RequestsOf(Received) \o RequestsOf(request')
      BY <1>4, <3>2, RequestsConcat
    <3>4. QED
      BY <3>1, <3>3
  <2>5. /\ executed' = a /\ RequestAtHand' = <<>>
        /\ RequestsOf(FlattenSeq(queue))' = <<>> /\ RequestsOf(Unsplit)' = p
    BY <1>1, <2>2, RequestsOfLF
  <2>6. a \in Seq(Seq(Strings)) /\ p \in Seq(Seq(Strings))
    BY <1>4, RequestTypes, RequestsType DEF LinesKept
  <2> HIDE DEF a, p
  <2>7. ((a \o <<>>) \o <<>>) \o <<>> = a /\ ((a \o <<>>) \o <<>>) \o p = a \o p
    BY <2>6, Regroup
  <2>8. QED
    BY <2>3, <2>4, <2>5, <2>7
<1>8. QED
  BY <1>3, <1>6, <1>7 DEF LinesKept

LEMMA ReplaceLines ==
  ASSUME Typed, Origins, LinesKept, ReplaceCRLF
  PROVE  LinesKept'
<1>1. /\ pc = "crlf" /\ pc' = "crlf" /\ UNCHANGED <<stream, at, ends>> /\ status = "up"
      /\ UNCHANGED <<queue, executed, words, line>>
  BY DEF ReplaceCRLF, cutting, reading
<1>2. [Next]_vars
  BY DEF Next, Work
<1>3. PICK u \in Seq(Chars), v \in Seq(Chars) :
            /\ request = (u \o <<CR, LF>>) \o v
            /\ request' = (u \o <<LF>>) \o v
            /\ Len(request') = Len(request) - 1
            /\ Len(request') = Len(u) + 1 + Len(v)
            /\ request'[Len(request')] = request[Len(request)]
  BY ReplaceCut
<1>4. RequestsOf(request') = RequestsOf(request)
  <2> DEFINE x == u \o <<CR, LF>>
             y == u \o <<LF>>
  <2>1. /\ x \in Seq(Chars) /\ y \in Seq(Chars) /\ x[Len(x)] = LF /\ y[Len(y)] = LF
    <3>1. <<LF>> \in Seq(Chars) /\ <<CR, LF>> \in Seq(Chars)
      BY DEF Chars
    <3>2. Len(x) = Len(u) + 2 /\ Len(y) = Len(u) + 1 /\ x[Len(u) + 2] = LF /\ y[Len(u) + 1] = LF
      BY <3>1
    <3>3. x \in Seq(Chars) /\ y \in Seq(Chars)
      BY <3>1, ConcatLaws
    <3>4. QED
      BY <3>2, <3>3
  <2>2. RequestsOf(x) = RequestsOf(y)
    BY RequestsCR
  <2> HIDE DEF x, y
  <2>3. RequestsOf(x \o v) = RequestsOf(x) \o RequestsOf(v) /\ RequestsOf(y \o v) = RequestsOf(y) \o RequestsOf(v)
    BY <2>1, RequestsConcat
  <2>4. QED
    BY <1>3, <2>2, <2>3 DEF x, y
<1>5. Requested'
  <2>1. /\ NoNUL' => NoNUL
        /\ Whole' => Whole
    BY <1>2, StreamGrows
  <2>2. /\ Received' = Received /\ RequestAtHand' = RequestAtHand /\ Unsplit = request /\ Unsplit' = request'
    BY <1>1 DEF Received, RequestAtHand, Unsplit
  <2>3. RequestsOf(Unsplit') = RequestsOf(Unsplit)
    BY <1>4, <2>2
  <2>4. QED
    BY <1>1, <2>1, <2>2, <2>3 DEF LinesKept, Requested
<1>6. Formed'
  <2>1. request' # <<>>
    <3>1. Len(u) \in Nat /\ Len(v) \in Nat
      OBVIOUS
    <3>2. Len(request') # 0
      BY <1>3, <3>1
    <3>3. QED
      BY <3>2
  <2>2. Whole /\ NoNUL => Ended(request')
    BY <1>1, <1>3 DEF LinesKept, Formed, Ended
  <2>3. /\ NoNUL' => NoNUL
        /\ Whole' => Whole
    BY <1>2, StreamGrows
  <2>4. QED
    BY <1>1, <2>1, <2>2, <2>3 DEF LinesKept, Formed
<1>7. QED
  BY <1>1, <1>5, <1>6 DEF LinesKept, Executed, ReadWords

LEMMA QueueLines ==
  ASSUME Typed, Origins, LinesKept, Queue
  PROVE  LinesKept'
<1>1. /\ pc = "crlf" /\ pc' = (IF Len(request) > 1 THEN "split" ELSE "drain")
      /\ i' = 1 /\ UNCHANGED <<stream, at, ends>> /\ status = "up"
      /\ UNCHANGED <<queue, executed, words, line, request>>
      /\ \A k \in 1 .. Len(request) - 1 : ~HasCRLF(request, k)
  BY DEF Queue, cutting, reading
<1>2. [Next]_vars
  BY DEF Next, Work
<1>3. request \in Seq(Chars) /\ Len(request) \in Nat
  BY SumTypes DEF LinesKept
<1>4. NoNUL /\ Whole => RequestsOf(Unsplit') = RequestsOf(Unsplit)
  <2> SUFFICES ASSUME NoNUL, Whole PROVE RequestsOf(Unsplit') = RequestsOf(Unsplit)
    OBVIOUS
  <2>1. Unsplit = request
    BY <1>1 DEF Unsplit
  <2>2. CASE Len(request) > 1
    <3>1. Unsplit' = Behind(request, 1)
      BY <1>1, <2>2 DEF Unsplit
    <3>2. Behind(request, 1) = request
      BY <1>3, ST!SubSeqFull DEF Behind
    <3>3. QED
      BY <2>1, <3>1, <3>2
  <2>3. CASE ~(Len(request) > 1)
    <3>1. Unsplit' = <<>>
      BY <1>1, <2>3 DEF Unsplit
    <3>2. request # <<>> /\ request[Len(request)] = LF
      BY <1>1 DEF LinesKept, Formed, Ended
    <3>3. Len(request) = 1
      <4>1. Len(request) # 0
        BY <1>3, <3>2
      <4> DEFINE m == Len(request)
      <4>2. m \in Nat /\ m # 0 /\ ~(m > 1)
        BY <1>3, <2>3, <4>1
      <4> HIDE DEF m
      <4>3. m = 1
        BY <4>2
      <4>4. QED
        BY <4>3 DEF m
    <3>4. \A k \in 1 .. Len(request) : request[k] = LF
      BY <3>2, <3>3
    <3>5. QED
      BY <1>3, <2>1, <3>1, <3>4, RequestsNone, RequestsOfLF
  <2>4. QED
    BY <2>2, <2>3
<1>5. /\ NoNUL' => NoNUL
      /\ Whole' => Whole
  BY <1>2, StreamGrows
<1>6. Requested'
  <2>1. /\ Received' = Received /\ RequestAtHand' = RequestAtHand
    BY <1>1 DEF Received, RequestAtHand
  <2>2. QED
    BY <1>1, <1>4, <1>5, <2>1 DEF LinesKept, Requested
<1>7. Formed'
  BY <1>1, <1>5 DEF LinesKept, Formed, HasCRLF
<1>8. QED
  BY <1>1, <1>6, <1>7 DEF LinesKept, Executed, ReadWords

LEMMA EndedConcat ==
  ASSUME NEW s \in Seq(Chars), NEW t \in Seq(Chars)
  PROVE  /\ t # <<>> /\ Ended(t) => Ended(s \o t)
         /\ Ended(s \o t) => Ended(t)
<1>1. /\ s \o t \in Seq(Chars) /\ Len(s \o t) = Len(s) + Len(t) /\ Len(s) \in Nat /\ Len(t) \in Nat
      /\ \A k \in 1 .. Len(s) + Len(t) : (s \o t)[k] = IF k <= Len(s) THEN s[k] ELSE t[k - Len(s)]
  BY ST!ConcatProperties
<1>2. CASE t = <<>>
  BY <1>2 DEF Ended
<1>3. CASE t # <<>>
  <2>1. Len(t) # 0
    BY <1>3
  <2>2. /\ Len(s) + Len(t) \in 1 .. Len(s) + Len(t) /\ ~(Len(s) + Len(t) <= Len(s))
        /\ Len(s) + Len(t) - Len(s) = Len(t) /\ Len(s \o t) # 0
    BY <1>1, <2>1
  <2>3. (s \o t)[Len(s \o t)] = t[Len(t)] /\ s \o t # <<>>
    BY <1>1, <2>2
  <2>4. QED
    BY <1>3, <2>3 DEF Ended
<1>4. QED
  BY <1>2, <1>3

\* A piece of a request without "\r\n" that ends in '\n' is a line.
LEMMA PieceIsLine ==
  ASSUME NEW s \in Seq(Chars), NEW t \in Seq(Chars), NEW m \in 1 .. Len(s), NEW n \in 1 .. Len(s),
         m <= n, Len(t) = n + 1 - m, \A l \in 1 .. n + 1 - m : t[l] = s[m + l - 1],
         s[m] # LF, \A l \in m .. n - 1 : s[l] # LF, s[n] = LF,
         \A k \in 1 .. Len(s) - 1 : ~HasCRLF(s, k)
  PROVE  IsLine(t)
<1>1. m \in Nat /\ n \in Nat /\ Len(s) \in Nat /\ m # n /\ n <= Len(s) /\ 1 <= m
  OBVIOUS
<1>2. m < n
  BY <1>1
<1>3. /\ n + 1 - m \in 1 .. n + 1 - m /\ m + (n + 1 - m) - 1 = n
      /\ n + 1 - m - 1 \in 1 .. n + 1 - m /\ m + (n + 1 - m - 1) - 1 = n - 1
      /\ n - 1 \in 1 .. Len(s) - 1 /\ n - 1 + 1 = n /\ n + 1 - m > 1
      /\ \A l \in 1 .. n + 1 - m - 1 : l \in 1 .. n + 1 - m /\ m + l - 1 \in m .. n - 1
  BY <1>1, <1>2
<1>4. t[n + 1 - m] = LF
  <2>1. t[n + 1 - m] = s[m + (n + 1 - m) - 1]
    BY <1>3
  <2>2. QED
    BY <1>3, <2>1
<1>5. t[n + 1 - m - 1] # CR
  <2>1. t[n + 1 - m - 1] = s[m + (n + 1 - m - 1) - 1]
    BY <1>3
  <2>2. t[n + 1 - m - 1] = s[n - 1]
    BY <1>3, <2>1
  <2>3. ~HasCRLF(s, n - 1)
    BY <1>3
  <2>4. QED
    BY <1>3, <2>2, <2>3 DEF HasCRLF
<1>6. \A l \in 1 .. n + 1 - m - 1 : t[l] # LF
  BY <1>3
<1> DEFINE z == n + 1 - m
<1>7. Len(t) = z /\ z > 1 /\ t[z] = LF /\ t[z - 1] # CR /\ \A l \in 1 .. z - 1 : t[l] # LF
  BY <1>3, <1>4, <1>5, <1>6
<1> HIDE DEF z
<1>8. QED
  BY <1>7 DEF IsLine

LEMMA SplitLines ==
  ASSUME Typed, Origins, LinesKept, Split
  PROVE  LinesKept'
<1>1. /\ pc = "split" /\ pc' = "split" /\ UNCHANGED <<stream, at, ends>> /\ status = "up"
      /\ UNCHANGED <<executed, words, line, request>>
  BY DEF Split, cutting, reading
<1>2. [Next]_vars
  BY DEF Next, Work
<1>3. /\ NoNUL' => NoNUL
      /\ Whole' => Whole
  BY <1>2, StreamGrows
<1>4. /\ Unsplit = Behind(request, i) /\ Unsplit' = Behind(request, i') /\ Unsplit \in Seq(Chars)
      /\ request \in Seq(Chars) /\ queue \in Seq(Seq(Chars)) /\ FlattenSeq(queue) \in Seq(Chars)
      /\ Received' = Received /\ RequestAtHand' = RequestAtHand
  BY <1>1, SumTypes, SumLetters, TextIsString DEF LinesKept, Unsplit, Typed, Received, RequestAtHand
<1>5. Executed' /\ ReadWords'
  BY <1>1 DEF LinesKept, Executed, ReadWords
<1>6. CASE /\ queue' = queue /\ Behind(request, i') = <<>>
           /\ Behind(request, i) \in Seq(Chars)
           /\ \A l \in 1 .. Len(Behind(request, i)) : Behind(request, i)[l] = LF
  <2>1. RequestsOf(Unsplit') = RequestsOf(Unsplit)
    BY <1>4, <1>6, RequestsNone, RequestsOfLF
  <2>2. Requested'
    BY <1>1, <1>3, <1>4, <1>6, <2>1 DEF LinesKept, Requested
  <2>3. Formed'
    BY <1>1, <1>3, <1>6 DEF LinesKept, Formed, HasCRLF
  <2>4. QED
    BY <1>5, <2>2, <2>3 DEF LinesKept
<1>7. ASSUME NEW m \in 1 .. Len(request), NEW n \in 1 .. Len(request),
             NEW skip \in Seq(Chars), NEW piece \in Seq(Chars), NEW tail \in Seq(Chars),
             TurnCuts(m, n, skip, piece, tail)
      PROVE  LinesKept'
  <2>1. ASSUME Whole, NoNUL
        PROVE  /\ IsLine(piece) /\ Unsplit' = <<LF>> \o tail
    <3>1. /\ request # <<>> /\ request[Len(request)] = LF
          /\ \A k \in 1 .. Len(request) - 1 : ~HasCRLF(request, k)
      BY <1>1, <2>1 DEF LinesKept, Formed, Ended
    <3>2. request[n] = LF /\ Unsplit' = <<LF>> \o tail
      BY <1>4, <1>7, <3>1 DEF TurnCuts
    <3>3. /\ m <= n /\ Len(piece) = n + 1 - m
          /\ \A l \in 1 .. n + 1 - m : piece[l] = request[m + l - 1]
          /\ request[m] # LF /\ \A l \in m .. n - 1 : request[l] # LF
      BY <1>7 DEF TurnCuts
    <3>4. IsLine(piece)
      BY <1>4, <3>1, <3>2, <3>3, PieceIsLine
    <3>5. QED
      BY <3>2, <3>4
  <2>2. queue' = Append(queue, piece) /\ FlattenSeq(queue') = FlattenSeq(queue) \o piece
    <3>1. queue' = Append(queue, piece)
      BY <1>7 DEF TurnCuts
    <3>2. QED
      BY <1>4, <3>1, FlattenAppend
  <2>3. Formed'
    <3>1. ASSUME Whole, NoNUL
          PROVE  (\A q \in 1 .. Len(queue') : IsLine(queue'[q])) /\ Ended(FlattenSeq(queue'))
      <4>1. IsLine(piece) /\ \A q \in 1 .. Len(queue) : IsLine(queue[q])
        BY <2>1, <3>1 DEF LinesKept, Formed
      <4>2. \A q \in 1 .. Len(queue') : queue'[q] = piece \/ (q \in 1 .. Len(queue) /\ queue'[q] = queue[q])
        BY <1>4, <2>2
      <4>3. piece # <<>> /\ Ended(piece)
        BY <4>1 DEF IsLine, Ended
      <4>4. Ended(FlattenSeq(queue) \o piece)
        BY <1>4, <4>3, EndedConcat
      <4>5. QED
        BY <2>2, <4>1, <4>2, <4>4
    <3>2. QED
      BY <1>1, <1>3, <3>1 DEF LinesKept, Formed, HasCRLF
  <2>4. Requested'
    <3> SUFFICES ASSUME (status = "up" /\ Whole /\ NoNUL)'
                 PROVE  RequestsOf(Received') =
                          ((executed' \o RequestAtHand') \o RequestsOf(FlattenSeq(queue'))) \o RequestsOf(Unsplit')
      BY DEF Requested
    <3> DEFINE a == executed
               b == RequestAtHand
               c == RequestsOf(FlattenSeq(queue))
               p == RequestsOf(piece)
               d == RequestsOf(tail)
    <3>1. Whole /\ NoNUL /\ IsLine(piece) /\ Unsplit' = <<LF>> \o tail
      BY <1>3, <2>1
    <3>2. RequestsOf(Received) = ((a \o b) \o c) \o RequestsOf(Unsplit)
      BY <1>1, <3>1 DEF LinesKept, Requested
    <3>3. /\ a \in Seq(Seq(Strings)) /\ b \in Seq(Seq(Strings)) /\ c \in Seq(Seq(Strings))
          /\ p \in Seq(Seq(Strings)) /\ d \in Seq(Seq(Strings))
      BY RequestTypes, RequestsType DEF LinesKept
    <3>4. RequestsOf(Unsplit) = p \o d
      <4>1. Unsplit = skip \o (piece \o tail) /\ \A l \in 1 .. Len(skip) : skip[l] = LF
        BY <1>4, <1>7 DEF TurnCuts
      <4>2. piece \o tail \in Seq(Chars)
        BY ConcatLaws
      <4>3. piece[Len(piece)] = LF
        BY <3>1 DEF IsLine
      <4>4. RequestsOf(piece \o tail) = RequestsOf(piece) \o RequestsOf(tail)
        BY <4>3, RequestsConcat
      <4>5. skip = <<>> \/ skip[Len(skip)] = LF
        <5>1. skip # <<>> => Len(skip) \in 1 .. Len(skip)
          OBVIOUS
        <5>2. QED
          BY <4>1, <5>1
      <4>6. RequestsOf(skip \o (piece \o tail)) = RequestsOf(skip) \o RequestsOf(piece \o tail)
        BY <4>2, <4>5, RequestsConcat
      <4>7. RequestsOf(skip) = <<>>
        BY <4>1, RequestsNone
      <4>8. RequestsOf(piece \o tail) \in Seq(Seq(Strings))
        BY <4>2, RequestsType
      <4>9. <<>> \o RequestsOf(piece \o tail) = RequestsOf(piece \o tail)
        BY <4>8, ConcatLaws
      <4>10. QED
        BY <4>1, <4>4, <4>6, <4>7, <4>9
    <3>5. RequestsOf(Unsplit') = d
      <4>1. <<LF>>[Len(<<LF>>)] = LF
        OBVIOUS
      <4>2. RequestsOf(<<LF>> \o tail) = RequestsOf(<<LF>>) \o RequestsOf(tail)
        BY <4>1, RequestsOfLF, RequestsConcat
      <4>3. <<>> \o RequestsOf(tail) = RequestsOf(tail)
        BY <3>3, ConcatLaws
      <4>4. QED
        BY <3>1, <4>2, <4>3, RequestsOfLF
    <3>6. RequestsOf(FlattenSeq(queue')) = c \o p
      <4>1. FlattenSeq(queue) = <<>> \/ FlattenSeq(queue)[Len(FlattenSeq(queue))] = LF
        BY <3>1 DEF LinesKept, Formed, Ended
      <4>2. RequestsOf(FlattenSeq(queue) \o piece) = RequestsOf(FlattenSeq(queue)) \o RequestsOf(piece)
        BY <1>4, <4>1, RequestsConcat
      <4>3. QED
        BY <2>2, <4>2
    <3>7. executed' = a /\ RequestAtHand' = b /\ Received' = Received
      BY <1>1, <1>4
    <3> HIDE DEF a, b, c, p, d
    <3>8. Four(a, b, c, p \o d) = Four(a, b, c \o p, d)
      BY <3>3, MoveAcross
    <3>9. QED
      BY <3>2, <3>4, <3>5, <3>6, <3>7, <3>8 DEF Four
  <2>5. QED
    BY <1>5, <2>3, <2>4 DEF LinesKept
<1>8. QED
  BY <1>6, <1>7, SplitCut

LEMMA SplitDoneLines ==
  ASSUME Typed, Origins, LinesKept, SplitDone
  PROVE  LinesKept'
<1>1. /\ pc = "split" /\ pc' = "drain" /\ UNCHANGED <<stream, at, ends>> /\ status = "up"
      /\ UNCHANGED <<executed, words, line, start, request, queue>>
      /\ i > Len(request)
  BY DEF SplitDone, splitting, cutting, reading
<1>2. [Next]_vars
  BY DEF Next, Work
<1>3. Unsplit = <<>> /\ Unsplit' = <<>> /\ RequestAtHand' = RequestAtHand /\ Received' = Received
  <2>1. i \in Int /\ Len(request) \in Int
    BY <1>1 DEF Typed, TypeOK
  <2>2. Behind(request, i) = <<>>
    BY <1>1, <2>1, ST!SubSeqEmpty DEF Behind
  <2>3. QED
    BY <1>1, <2>2 DEF Unsplit, RequestAtHand, Received
<1>4. /\ NoNUL' => NoNUL
      /\ Whole' => Whole
  BY <1>2, StreamGrows
<1>5. Requested'
  BY <1>1, <1>3, <1>4 DEF LinesKept, Requested
<1>6. QED
  BY <1>1, <1>4, <1>5 DEF LinesKept, Executed, ReadWords, Formed

LEMMA TakeLineLines ==
  ASSUME Typed, Origins, LinesKept, TakeLine
  PROVE  LinesKept'
<1>1. /\ pc = "drain" /\ pc' = "words" /\ UNCHANGED <<stream, at, ends>> /\ status = "up"
      /\ UNCHANGED <<executed, request>> /\ words' = <<>>
      /\ queue # <<>> /\ queue' = Tail(queue)
  BY DEF TakeLine, splitting, reading
<1>2. [Next]_vars
  BY DEF Next, Work
<1>3. /\ line' = queue[1] /\ line' \in Seq(Chars) /\ 1 \in 1 .. Len(queue)
      /\ start' \in 1 .. Len(line') + 1
      /\ \A l \in 1 .. start' - 1 : line'[l] = Blank
      /\ \A q \in 1 .. Len(queue') : q + 1 \in 1 .. Len(queue) /\ queue'[q] = queue[q + 1]
  BY TakeLineFacts, TextIsString
<1>4. /\ queue \in Seq(Seq(Chars)) /\ Tail(queue) \in Seq(Seq(Chars))
      /\ FlattenSeq(queue) = queue[1] \o FlattenSeq(Tail(queue))
      /\ FlattenSeq(Tail(queue)) \in Seq(Chars)
  <2>1. queue \in Seq(Seq(Chars))
    BY TextIsString DEF Typed
  <2>2. Tail(queue) \in Seq(Seq(Chars)) /\ FlattenSeq(queue) = queue[1] \o FlattenSeq(Tail(queue))
    BY <1>1, <2>1, FlattenHead
  <2>3. <<>> \in Seq(Chars)
    OBVIOUS
  <2>4. QED
    BY <2>1, <2>2, <2>3, FlattenAppend
<1>5. /\ NoNUL' => NoNUL
      /\ Whole' => Whole
  BY <1>2, StreamGrows
<1>6. ReadWords'
  <2>1. start' - 1 \in 0 .. Len(line') /\ (start' # 1 => start' - 1 \in 1 .. start' - 1)
    <3>1. Len(line') \in Nat /\ start' \in 1 .. Len(line') + 1
      BY <1>3
    <3>2. \A x \in 1 .. Len(line') + 1 : x - 1 \in 0 .. Len(line') /\ (x # 1 => x - 1 \in 1 .. x - 1)
      BY <3>1
    <3>3. QED
      BY <3>1, <3>2
  <2>2. /\ SubSeq(line', 1, start' - 1) \in Seq(Chars) /\ Len(SubSeq(line', 1, start' - 1)) = start' - 1
        /\ \A l \in 1 .. start' - 1 : SubSeq(line', 1, start' - 1)[l] = line'[l]
    <3>1. line' \in Seq(Chars)
      BY <1>3
    <3>2. QED
      BY <2>1, <3>1, Cut
  <2>3. \A l \in 1 .. Len(SubSeq(line', 1, start' - 1)) : SubSeq(line', 1, start' - 1)[l] \in {Blank}
    BY <1>3, <2>2
  <2>4. Parts(SubSeq(line', 1, start' - 1), {Blank}) = <<>>
    BY <2>2, <2>3, PartsNone
  <2>5. QED
    BY <1>1, <1>3, <2>1, <2>4 DEF ReadWords
<1>7. Whole /\ NoNUL => IsLine(line')
  BY <1>3 DEF LinesKept, Formed
<1>8. Formed'
  <2>1. Whole /\ NoNUL => Ended(FlattenSeq(queue'))
    <3>1. line' \o FlattenSeq(Tail(queue)) = FlattenSeq(queue)
      BY <1>3, <1>4
    <3>2. Whole /\ NoNUL => Ended(line' \o FlattenSeq(Tail(queue)))
      BY <3>1 DEF LinesKept, Formed
    <3>3. QED
      BY <1>1, <1>3, <1>4, <3>2, EndedConcat
  <2>2. Whole /\ NoNUL => \A q \in 1 .. Len(queue') : IsLine(queue'[q])
    BY <1>3 DEF LinesKept, Formed
  <2>3. QED
    BY <1>1, <1>5, <1>7, <2>1, <2>2 DEF Formed
<1>9. Requested'
  <2> DEFINE a == executed
             p == RequestsOf(line')
             c == RequestsOf(FlattenSeq(queue'))
  <2>1. a \in Seq(Seq(Strings)) /\ p \in Seq(Seq(Strings)) /\ c \in Seq(Seq(Strings))
    BY <1>1, <1>3, <1>4, RequestTypes, RequestsType DEF LinesKept
  <2>2. Whole /\ NoNUL => RequestsOf(FlattenSeq(queue)) = p \o c
    <3>1. Whole /\ NoNUL => line'[Len(line')] = LF
      BY <1>7 DEF IsLine
    <3>2. Whole /\ NoNUL => RequestsOf(line' \o FlattenSeq(Tail(queue))) = RequestsOf(line') \o RequestsOf(FlattenSeq(Tail(queue)))
      BY <1>3, <1>4, <3>1, RequestsConcat
    <3>3. QED
      BY <1>1, <1>3, <1>4, <3>2
  <2>3. /\ Received' = Received /\ RequestAtHand = <<>> /\ RequestAtHand' = p
        /\ Unsplit = <<>> /\ Unsplit' = <<>>
    BY <1>1 DEF Received, RequestAtHand, Unsplit
  <2>4. status = "up" /\ Whole /\ NoNUL => RequestsOf(Received) = ((a \o <<>>) \o (p \o c)) \o <<>>
    BY <2>2, <2>3, RequestsOfLF DEF LinesKept, Requested
  <2>5. executed' = a /\ RequestsOf(FlattenSeq(queue')) = c /\ RequestsOf(Unsplit') = <<>>
    BY <1>1, <2>3, RequestsOfLF
  <2> HIDE DEF a, p, c
  <2>6. ((a \o <<>>) \o (p \o c)) \o <<>> = ((a \o p) \o c) \o <<>>
    <3>1. <<>> \in Seq(Seq(Strings))
      OBVIOUS
    <3>2. QED
      BY <2>1, <3>1, Regroup
  <2>7. (status = "up" /\ Whole /\ NoNUL)' =>
            RequestsOf(Received') =
              ((executed' \o RequestAtHand') \o RequestsOf(FlattenSeq(queue'))) \o RequestsOf(Unsplit')
    BY <1>1, <1>5, <2>3, <2>4, <2>5, <2>6
  <2>8. QED
    BY <2>7 DEF Requested
<1>10. QED
  BY <1>1, <1>6, <1>8, <1>9 DEF LinesKept, Executed

LEMMA NextWordLines ==
  ASSUME Typed, Origins, LinesKept, NextWord
  PROVE  LinesKept'
<1>1. /\ pc = "words" /\ pc' = "words" /\ UNCHANGED <<stream, at, ends>> /\ status = "up"
      /\ UNCHANGED <<executed, request, line, queue, i>>
  BY DEF NextWord, splitting, reading
<1>2. [Next]_vars
  BY DEF Next, Work
<1> DEFINE before == SubSeq(line, 1, start - 1)
<1>3. before \in Seq(Chars) /\ start' # 1 /\ line[start' - 1] = Blank
  BY NextWordCut
<1>4. PICK word \in Seq(Chars), blanks \in Seq(Chars) :
               /\ words' = Append(words, word)
               /\ SubSeq(line, 1, start' - 1) = (before \o word) \o blanks
               /\ \A k \in 1 .. Len(word) : word[k] # Blank
               /\ line[start] # Blank => word # <<>>
               /\ blanks # <<>> /\ \A k \in 1 .. Len(blanks) : blanks[k] = Blank
  BY NextWordCut
<1>5. words = Parts(before, {Blank}) /\ (start = 1 \/ line[start - 1] = Blank)
  BY <1>1 DEF LinesKept, ReadWords
<1>6. start \in 1 .. Len(line) /\ line \in Seq(Chars) /\ line[start] # Blank
  <2>1. start \in 1 .. Len(line) /\ line \in Seq(Chars)
    BY NextWordFacts, TextIsString
  <2>2. start <= Len(line)
    BY <2>1
  <2>3. QED
    BY <1>1, <2>1, <2>2 DEF Origins, Skipped
<1>7. before = <<>> \/ before[Len(before)] = Blank
  <2>1. start - 1 \in 0 .. Len(line) /\ (start # 1 => start - 1 \in 1 .. start - 1)
    BY <1>6
  <2>2. Len(before) = start - 1 /\ \A l \in 1 .. start - 1 : before[l] = line[l]
    BY <1>6, <2>1, Cut
  <2>3. start = 1 => before = <<>>
    BY <1>3, <2>2
  <2> HIDE DEF before
  <2>4. QED
    BY <1>5, <2>1, <2>2, <2>3
<1> HIDE DEF before
<1> DEFINE C == {Blank}
<1>8. /\ before = <<>> \/ before[Len(before)] \in C
      /\ blanks[1] \in C /\ \A k \in 1 .. Len(blanks) : blanks[k] \in C
      /\ \A k \in 1 .. Len(word) : word[k] \notin C
      /\ word # <<>>
  <2>1. 1 \in 1 .. Len(blanks)
    BY <1>4
  <2>2. QED
    BY <1>4, <1>6, <1>7, <2>1
<1>9. words = Parts(before, C)
  BY <1>5
<1> HIDE DEF C
<1>10. Parts((before \o word) \o blanks, C) = Append(Parts(before, C), word)
  <2> DEFINE read == before \o word
  <2>1. read \in Seq(Chars)
    BY <1>3, ConcatLaws
  <2>2. Parts(read, C) = Parts(before, C) \o Parts(word, C)
    BY <1>3, <1>8, PartsConcat
  <2> HIDE DEF read
  <2>3. Parts(read \o blanks, C) = Parts(read, C) \o Parts(blanks, C)
    BY <1>8, <2>1, PartsConcat
  <2>4. Parts(word, C) = <<word>> /\ Parts(blanks, C) = <<>>
    BY <1>8, PartsOne, PartsNone
  <2>5. Parts(read, C) \in Seq(Seq(Chars)) /\ Parts(before, C) \in Seq(Seq(Chars))
    BY <1>3, <2>1, PartsType
  <2>6. Parts(read, C) \o <<>> = Parts(read, C)
    BY <2>5, ConcatLaws
  <2>7. Parts(before, C) \o <<word>> = Append(Parts(before, C), word)
    BY <2>5, ST!AppendIsConcat
  <2>8. QED
    BY <2>2, <2>3, <2>4, <2>6, <2>7 DEF read
<1>11. ReadWords'
  <2>1. words' = Parts(SubSeq(line', 1, start' - 1), C)
    BY <1>1, <1>4, <1>9, <1>10
  <2>2. QED
    BY <1>1, <1>3, <2>1 DEF ReadWords, C
<1>12. /\ NoNUL' => NoNUL
       /\ Whole' => Whole
  BY <1>2, StreamGrows
<1>13. Requested'
  <2>1. /\ Received' = Received /\ RequestAtHand' = RequestAtHand /\ Unsplit' = Unsplit
    BY <1>1 DEF Received, RequestAtHand, Unsplit
  <2>2. QED
    BY <1>1, <1>12, <2>1 DEF LinesKept, Requested
<1>14. QED
  BY <1>1, <1>11, <1>12, <1>13 DEF LinesKept, Executed, Formed

\* What is cut off at the '\n' is the request that the line is.
LEMMA LastWordIsRequest ==
  ASSUME Typed, Origins, LinesKept, LastWord, start <= Len(line), Whole, NoNUL
  PROVE  RequestsOf(line) = <<words'>>
<1>1. /\ pc = "words" /\ line \in Seq(Chars) /\ start \in 1 .. Len(line) /\ Len(line) \in Nat
      /\ FirstOf(line, start, {Blank}) > Len(line)
  BY TextIsString DEF LastWord, Typed, TypeOK
<1>2. IsLine(line) /\ words = Parts(SubSeq(line, 1, start - 1), {Blank})
      /\ (start = 1 \/ line[start - 1] = Blank)
  BY <1>1 DEF LinesKept, Formed, ReadWords
<1>3. PICK word \in Seq(Chars \ {NUL}) :
            words' = Append(words, word) /\ Behind(line, start) = word \o <<LF>>
  BY <1>2, LastWordCut DEF IsLine
<1> DEFINE before == SubSeq(line, 1, start - 1)
           body == before \o word
           k == start - 1
<1>4. k \in 0 .. Len(line) /\ k + 1 = start /\ (start # 1 => k \in 1 .. k) /\ (start = 1 => k = 0)
  BY <1>1
<1>5. /\ word \in Seq(Chars) /\ <<LF>> \in Seq(Chars)
      /\ before \in Seq(Chars) /\ Len(before) = k /\ \A l \in 1 .. k : before[l] = line[l]
      /\ line = before \o (word \o <<LF>>)
  <2>1. word \in Seq(Chars)
    BY TextIsString DEF Text
  <2> HIDE DEF k, before, body
  <2>2. /\ line = SubSeq(line, 1, k) \o Behind(line, k + 1)
        /\ SubSeq(line, 1, k) \in Seq(Chars) /\ Len(SubSeq(line, 1, k)) = k
        /\ \A l \in 1 .. k : SubSeq(line, 1, k)[l] = line[l]
    <3>1. line \in Seq(Chars) /\ k \in 0 .. Len(line)
      BY <1>1, <1>4
    <3>2. Halves(Chars, line, k)
      BY <3>1, CutInHalves, Zenon
    <3>3. QED
      BY <3>2 DEF Halves
  <2>3. before = SubSeq(line, 1, k)
    BY DEF k, before
  <2>4. QED
    BY <1>3, <1>4, <2>1, <2>2, <2>3, RequestsOfLF
<1>6. body \in Seq(Chars) /\ line = body \o <<LF>>
  <2> HIDE DEF before
  <2> QED BY <1>5, ConcatLaws
<1>7. before = <<>> \/ before[Len(before)] = Blank
  <2> HIDE DEF before, k
  <2>1. start = 1 => before = <<>>
    BY <1>4, <1>5
  <2>2. start # 1 => line[k] = Blank
    BY <1>2 DEF k
  <2>3. QED
    BY <1>4, <1>5, <2>1, <2>2
<1>8. \A l \in 1 .. Len(word) : word[l] # Blank
  <2> SUFFICES ASSUME NEW l \in 1 .. Len(word), word[l] = Blank PROVE FALSE
    OBVIOUS
  <2> DEFINE f == FirstOf(line, start, {Blank})
             n == Len(line)
             m == Len(word)
  <2>1. f \in start .. n + 1 /\ \A j \in start .. f - 1 : line[j] \notin {Blank}
    <3>1. start \in 1 .. Len(line) + 1
      BY <1>1
    <3>2. QED
      BY <1>1, <3>1, FirstOfFacts
  <2>2. f > n
    BY <1>1
  <2> HIDE DEF f
  <2>3. /\ Len(Behind(line, k + 1)) = n - k /\ Len(word \o <<LF>>) = m + 1 /\ m \in Nat
        /\ (word \o <<LF>>)[l] = word[l]
        /\ \A j \in 1 .. n - k : Behind(line, k + 1)[j] = line[k + j]
    <3>1. Len(word \o <<LF>>) = Len(word) + 1 /\ Len(word) \in Nat /\ (word \o <<LF>>)[l] = word[l]
      BY <1>5
    <3> HIDE DEF k
    <3>2. QED
      BY <1>1, <1>4, <3>1, Cut
  <2>4. Behind(line, k + 1) = word \o <<LF>>
    BY <1>3, <1>4
  <2>5. l \in 1 .. m /\ n \in Nat /\ k \in 0 .. n /\ k + 1 = start /\ n - k = m + 1
    <3>1. n - k = m + 1
      BY <2>3, <2>4
    <3>2. QED
      BY <1>1, <1>4, <3>1
  <2> HIDE DEF k, n, m
  <2>6. l \in 1 .. n - k /\ k + l \in start .. f - 1
    BY <2>1, <2>2, <2>3, <2>5
  <2>7. line[k + l] = Blank
    BY <2>3, <2>4, <2>6
  <2>8. QED
    BY <2>1, <2>6, <2>7
<1>9. /\ \A l \in 1 .. Len(body) : body[l] # LF
      /\ body # <<>> /\ body[Len(body)] # CR
  <2> HIDE DEF body
  <2>1. /\ Len(line) = Len(body) + 1 /\ Len(body) \in Nat
        /\ \A l \in 1 .. Len(body) : line[l] = body[l]
    BY <1>5, <1>6
  <2>2. Len(line) > 1 /\ line[Len(line) - 1] # CR /\ \A l \in 1 .. Len(line) - 1 : line[l] # LF
    BY <1>2 DEF IsLine
  <2>3. Len(line) - 1 = Len(body) /\ Len(body) \in 1 .. Len(body) /\ Len(body) # 0
    BY <2>1, <2>2
  <2>4. QED
    BY <2>1, <2>2, <2>3
<1>10. Trimmed(body) = body
  <2> HIDE DEF body
  <2> QED BY <1>6, <1>9, TrimmedSame
<1>11. RequestsOf(line) = <<WordsOf(body)>>
  <2> HIDE DEF body
  <2>1. RequestsOf(line) = RequestOf(body)
    BY <1>6, <1>9, RequestsLine
  <2>2. QED
    BY <1>9, <1>10, <2>1 DEF RequestOf
<1>12. WordsOf(body) = Append(Parts(before, {Blank}), word)
  <2> HIDE DEF before, k
  <2>1. CASE word = <<>>
    <3>1. body = before
      BY <1>5, <2>1, ConcatLaws
    <3>2. before[Len(before)] = Blank
      BY <1>7, <1>9, <3>1
    <3>3. QED
      BY <2>1, <3>1, <3>2 DEF WordsOf
  <2>2. CASE word # <<>>
    <3> DEFINE C == {Blank}
    <3>1. (before = <<>> \/ before[Len(before)] \in C) /\ \A l \in 1 .. Len(word) : word[l] \notin C
      BY <1>7, <1>8
    <3>2. body[Len(body)] # Blank
      <4>1. /\ Len(body) = Len(before) + Len(word) /\ Len(before) \in Nat /\ Len(word) \in Nat
            /\ \A l \in 1 .. Len(before) + Len(word) :
                  body[l] = IF l <= Len(before) THEN before[l] ELSE word[l - Len(before)]
        <5>1. before \in Seq(Chars) /\ word \in Seq(Chars)
          BY <1>5
        <5>2. QED
          BY <5>1, ST!ConcatProperties
      <4>2. Len(word) # 0
        BY <1>5, <2>2
      <4> HIDE DEF body
      <4>3. /\ Len(before) + Len(word) \in 1 .. Len(before) + Len(word)
            /\ ~(Len(before) + Len(word) <= Len(before)) /\ Len(before) + Len(word) - Len(before) = Len(word)
            /\ Len(word) \in 1 .. Len(word)
        BY <4>1, <4>2
      <4>4. body[Len(body)] = word[Len(word)]
        BY <4>1, <4>3
      <4>5. QED
        BY <1>8, <4>3, <4>4
    <3>3. WordsOf(body) = Parts(body, C)
      BY <3>2 DEF WordsOf
    <3> HIDE DEF C
    <3>4. Parts(before \o word, C) = Parts(before, C) \o Parts(word, C)
      BY <1>5, <3>1, PartsConcat
    <3>5. Parts(word, C) = <<word>>
      BY <1>5, <2>2, <3>1, PartsOne
    <3>6. Parts(before, C) \in Seq(Seq(Chars))
      BY <1>5, PartsType
    <3>7. Parts(before, C) \o <<word>> = Append(Parts(before, C), word)
      BY <1>5, <3>6, ST!AppendIsConcat
    <3>8. QED
      BY <3>3, <3>4, <3>5, <3>7 DEF C
  <2>3. QED
    BY <2>1, <2>2
<1>13. QED
  BY <1>2, <1>3, <1>11, <1>12

LEMMA LastWordLines ==
  ASSUME Typed, Origins, LinesKept, LastWord
  PROVE  LinesKept'
<1>1. /\ pc = "words" /\ UNCHANGED <<stream, at, ends>> /\ status = "up"
      /\ UNCHANGED <<executed, line, start, request, queue, i>>
  BY DEF LastWord, splitting, reading
<1>2. [Next]_vars
  BY DEF Next, Work
<1>3. line \in Seq(Chars) /\ Len(line) \in Nat /\ start \in 1 .. Len(line) + 1
  BY TextIsString DEF Typed, TypeOK
<1>4. CASE start > Len(line)
  <2>1. status' = "terminated" /\ UNCHANGED <<words, pc>>
    BY <1>4, Zenon DEF LastWord
  <2>2. NoNUL' = NoNUL /\ Whole' = Whole
    BY <1>1 DEF NoNUL, Whole
  <2>3. QED
    BY <1>1, <2>1, <2>2 DEF LinesKept, Requested, Executed, ReadWords, Formed
<1>5. CASE start <= Len(line)
  <2>1. pc' = "execute" /\ status' = status
    BY <1>5, LastWordCut
  <2>2. /\ NoNUL' => NoNUL
        /\ Whole' => Whole
    BY <1>2, StreamGrows
  <2>3. Whole /\ NoNUL => RequestAtHand' = RequestAtHand
    BY <1>1, <1>5, <2>1, LastWordIsRequest DEF RequestAtHand
  <2>4. /\ Unsplit = <<>> /\ Unsplit' = <<>> /\ Received' = Received
    BY <1>1, <2>1 DEF Unsplit, Received
  <2>5. Requested'
    BY <1>1, <2>1, <2>2, <2>3, <2>4 DEF LinesKept, Requested
  <2>6. QED
    BY <1>1, <2>1, <2>2, <2>5 DEF LinesKept, Executed, ReadWords, Formed
<1>6. QED
  BY <1>3, <1>4, <1>5

LEMMA ExecuteLines ==
  ASSUME Typed, Origins, LinesKept, Execute
  PROVE  LinesKept'
<1>1. /\ pc = "execute" /\ pc' = "drain" /\ UNCHANGED <<stream, at, ends>> /\ status = "up"
      /\ UNCHANGED <<words, line, start, request, queue, i>>
      /\ executed' = Append(executed, words)
  BY DEF Execute, splitting, reading
<1>2. [Next]_vars
  BY DEF Next, Work
<1>3. words \in Seq(Text) /\ executed \in Seq(Seq(Text)) /\ executed' \in Seq(Seq(Text))
  BY <1>1 DEF Typed, LinesKept, Executed
<1>4. executed' = executed \o <<words>>
  BY <1>1, <1>3, ST!AppendIsConcat
<1>5. /\ NoNUL' => NoNUL
      /\ Whole' => Whole
  BY <1>2, StreamGrows
<1>6. RequestAtHand = <<words>> /\ RequestAtHand' = <<>> /\ Unsplit' = Unsplit /\ Received' = Received
  BY <1>1 DEF RequestAtHand, Unsplit, Received
<1> DEFINE a == executed
           b == <<words>>
           c == RequestsOf(FlattenSeq(queue))
           d == RequestsOf(Unsplit)
<1>7. /\ a \in Seq(Seq(Strings)) /\ b \in Seq(Seq(Strings)) /\ c \in Seq(Seq(Strings))
      /\ d \in Seq(Seq(Strings))
  BY <1>6, RequestTypes DEF LinesKept
<1>8. status = "up" /\ Whole /\ NoNUL => RequestsOf(Received) = ((a \o b) \o c) \o d
  BY <1>6 DEF LinesKept, Requested
<1>9. executed' = a \o b /\ RequestsOf(FlattenSeq(queue')) = c /\ RequestsOf(Unsplit') = d
  BY <1>1, <1>4, <1>6
<1> HIDE DEF a, b, c, d
<1>10. ((a \o b) \o c) \o d = (((a \o b) \o <<>>) \o c) \o d
  BY <1>7, Regroup
<1>11. (status = "up" /\ Whole /\ NoNUL)' =>
            RequestsOf(Received') =
              ((executed' \o RequestAtHand') \o RequestsOf(FlattenSeq(queue'))) \o RequestsOf(Unsplit')
  BY <1>1, <1>5, <1>6, <1>8, <1>9, <1>10
<1>12. Requested'
  BY <1>11 DEF Requested
<1>13. QED
  BY <1>1, <1>3, <1>5, <1>12 DEF LinesKept, Executed, ReadWords, Formed

LEMMA OtherLines ==
  ASSUME Typed, Origins, LinesKept, RecvUnended \/ PongThrows \/ Drained \/ UNCHANGED vars
  PROVE  LinesKept'
<1>1. /\ UNCHANGED <<stream, at, ends, executed, words, line, start, request, queue, i>>
      /\ \/ status' # "up" /\ pc' = pc
         \/ status' = status /\ pc' = pc
         \/ status' = status /\ pc = "drain" /\ pc' = "recv"
  BY DEF RecvUnended, PongThrows, Drained, vars, reading, splitting, cutting
<1>2. NoNUL' = NoNUL /\ Whole' = Whole
  BY <1>1 DEF NoNUL, Whole
<1>3. Executed' /\ ReadWords'
  BY <1>1 DEF LinesKept, Executed, ReadWords
<1>4. Formed'
  BY <1>1, <1>2 DEF LinesKept, Formed
<1>5. CASE status' # "up"
  BY <1>3, <1>4, <1>5 DEF LinesKept, Requested
<1>6. CASE status' = status
  <2>1. RequestAtHand' = RequestAtHand /\ Unsplit' = Unsplit /\ Received' = Received
    BY <1>1 DEF RequestAtHand, Unsplit, Received
  <2>2. QED
    BY <1>1, <1>2, <1>3, <1>4, <1>6, <2>1 DEF LinesKept, Requested
<1>7. QED
  BY <1>1, <1>5, <1>6

LEMMA StepLinesKept ==
  ASSUME Typed, Origins, LinesKept, [Next]_vars
  PROVE  LinesKept'
BY RecvLines, ReplaceLines, QueueLines, SplitLines, SplitDoneLines, TakeLineLines,
   NextWordLines, LastWordLines, ExecuteLines, OtherLines DEF Next, Work

LEMMA LinesKeptSuffices ==
  ASSUME Typed, Origins, LinesKept
  PROVE  WholeLines
<1> SUFFICES ASSUME pc = "recv", status = "up", Whole, NoNUL
             PROVE  executed = RequestsOf(Received)
  BY DEF WholeLines
<1>1. RequestAtHand = <<>> /\ Unsplit = <<>> /\ FlattenSeq(queue) = <<>>
  BY FlattenEmpty DEF Origins, RequestAtHand, Unsplit
<1> DEFINE a == executed
<1>2. RequestsOf(Received) = ((a \o <<>>) \o <<>>) \o <<>>
  BY <1>1, RequestsOfLF DEF LinesKept, Requested
<1>3. a \in Seq(Seq(Strings))
  BY RequestTypes DEF LinesKept
<1> HIDE DEF a
<1>4. ((a \o <<>>) \o <<>>) \o <<>> = a
  BY <1>3, Regroup
<1>5. QED
  BY <1>2, <1>4 DEF a

\* As long as packets end where lines end, the requests executed are those the
\* text consists of, however many lines come in one packet, for streams and
\* packets of every length.
THEOREM LinesAreRequests == Spec => []WholeLines
<1>1. Typed /\ Origins /\ LinesKept => WholeLines
  BY LinesKeptSuffices
<1>2. Init => Typed /\ Origins /\ LinesKept
  BY InitTyped, InitOrigins, InitLinesKept
<1>3. Typed /\ Origins /\ LinesKept /\ [Next]_vars => (Typed /\ Origins /\ LinesKept)'
  BY StepTyped, StepOrigins, StepLinesKept
<1>4. QED
  BY <1>1, <1>2, <1>3, PTL DEF Spec

=============================================================================
