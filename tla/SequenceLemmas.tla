---------------------------- MODULE SequenceLemmas ----------------------------
(***************************************************************************)
(* Lemmas the proofs about several modules rest on.                        *)
(*                                                                         *)
(* A nonempty set of natural numbers has a least one.  It stands in for    *)
(* induction over natural numbers: the theorems of the library about that  *)
(* take an operator, this one only a set.                                  *)
(*                                                                         *)
(* Strings are sequences of characters; a string that is cut in two is     *)
(* what is left of the cut and what is right of it, and what FlattenSeq    *)
(* makes of a sequence of strings may be cut anywhere too.                 *)
(***************************************************************************)
EXTENDS Integers, Sequences, SequencesExt, TLAPS

ST == INSTANCE SequenceTheorems
WF == INSTANCE WellFoundedInduction

LEMMA Minimal ==
  ASSUME NEW R, NEW T, WF!IsWellFoundedOn(R, Nat), T \subseteq Nat, T # {}
  PROVE  \E k \in T : \A j \in T : ~ (<<j, k>> \in R)
BY WF!WFMin, Zenon

LEMMA LeastNat ==
  ASSUME NEW T, T \subseteq Nat, T # {}
  PROVE  \E k \in T : \A j \in T : k <= j
<1> DEFINE R == {ss \in Nat \X Nat : ss[1] < ss[2]}
<1>1. WF!IsWellFoundedOn(R, Nat)
  BY WF!NatLessThanWellFounded DEF WF!OpToRel
<1>2. PICK k \in T : \A j \in T : ~ (<<j, k>> \in R)
  BY <1>1, Minimal
<1>3. \A j \in T : ~ (j < k)
  BY <1>2
<1>4. QED
  BY <1>3

-----------------------------------------------------------------------------
\* Cutting and joining

\* What of a string is not before k.
Behind(s, k) == SubSeq(s, k, Len(s))

LEMMA PartFacts ==
  ASSUME NEW S, NEW s \in Seq(S), NEW m \in 1 .. Len(s) + 1, NEW n \in 0 .. Len(s), m <= n + 1
  PROVE  /\ SubSeq(s, m, n) \in Seq(S)
         /\ Len(SubSeq(s, m, n)) = n + 1 - m
         /\ \A k \in 1 .. n + 1 - m : m + k - 1 \in 1 .. Len(s) /\ SubSeq(s, m, n)[k] = s[m + k - 1]
<1>1. m \in Int /\ n \in Int /\ Len(s) \in Nat /\ \A k \in m .. n : s[k] \in S
  OBVIOUS
<1>2. QED
  BY <1>1, ST!SubSeqProperties

LEMMA Cut ==
  ASSUME NEW S, NEW s \in Seq(S), NEW k \in 0 .. Len(s)
  PROVE  /\ s = SubSeq(s, 1, k) \o Behind(s, k + 1)
         /\ SubSeq(s, 1, k) \in Seq(S) /\ Len(SubSeq(s, 1, k)) = k
         /\ \A l \in 1 .. k : SubSeq(s, 1, k)[l] = s[l]
         /\ Behind(s, k + 1) \in Seq(S) /\ Len(Behind(s, k + 1)) = Len(s) - k
         /\ \A l \in 1 .. Len(s) - k : Behind(s, k + 1)[l] = s[k + l]
<1>1. Len(s) \in Nat /\ k \in Nat /\ k <= Len(s)
  OBVIOUS
<1>2. /\ SubSeq(s, 1, k) \in Seq(S) /\ Len(SubSeq(s, 1, k)) = k + 1 - 1
      /\ \A l \in 1 .. k + 1 - 1 : SubSeq(s, 1, k)[l] = s[1 + l - 1]
  <2>1. 1 \in 1 .. Len(s) + 1 /\ 1 <= k + 1
    BY <1>1
  <2>2. QED
    BY <2>1, PartFacts
<1>3. /\ Behind(s, k + 1) \in Seq(S) /\ Len(Behind(s, k + 1)) = Len(s) + 1 - (k + 1)
      /\ \A l \in 1 .. Len(s) + 1 - (k + 1) : Behind(s, k + 1)[l] = s[k + 1 + l - 1]
  <2>1. k + 1 \in 1 .. Len(s) + 1 /\ Len(s) \in 0 .. Len(s) /\ k + 1 <= Len(s) + 1
    BY <1>1
  <2>2. QED
    BY <2>1, PartFacts DEF Behind
<1>4. s = SubSeq(s, 1, k) \o Behind(s, k + 1)
  <2>1. 1 \in 1 .. Len(s) + 1 /\ k \in 1 - 1 .. Len(s) /\ Len(s) \in k .. Len(s)
    BY <1>1
  <2>2. SubSeq(s, 1, k) \o SubSeq(s, k + 1, Len(s)) = SubSeq(s, 1, Len(s))
    BY <2>1, ST!ConcatAdjacentSubSeq
  <2>3. SubSeq(s, 1, Len(s)) = s
    BY ST!SubSeqFull
  <2>4. QED
    BY <2>2, <2>3 DEF Behind
<1>5. k + 1 - 1 = k /\ Len(s) + 1 - (k + 1) = Len(s) - k
      /\ (\A l \in 1 .. k : 1 + l - 1 = l) /\ (\A l \in 1 .. Len(s) - k : k + 1 + l - 1 = k + l)
  BY <1>1
<1>6. QED
  BY <1>2, <1>3, <1>4, <1>5

\* The two halves of a string that is cut behind its place k.
Halves(S, s, k) ==
    /\ s = SubSeq(s, 1, k) \o Behind(s, k + 1)
    /\ SubSeq(s, 1, k) \in Seq(S) /\ Len(SubSeq(s, 1, k)) = k
    /\ \A l \in 1 .. k : SubSeq(s, 1, k)[l] = s[l]
    /\ Behind(s, k + 1) \in Seq(S) /\ Len(Behind(s, k + 1)) = Len(s) - k
    /\ \A l \in 1 .. Len(s) - k : Behind(s, k + 1)[l] = s[k + l]

LEMMA CutInHalves ==
  ASSUME NEW S, NEW s \in Seq(S), NEW k \in 0 .. Len(s)
  PROVE  Halves(S, s, k)
BY Cut DEF Halves

LEMMA Joined ==
  ASSUME NEW S, NEW p \in Seq(S), NEW q \in Seq(S), NEW r \in Seq(S),
         Len(r) = Len(p) + Len(q),
         \A k \in 1 .. Len(p) : r[k] = p[k],
         \A k \in 1 .. Len(q) : r[Len(p) + k] = q[k]
  PROVE  r = p \o q
<1>1. /\ p \o q \in Seq(S) /\ Len(p \o q) = Len(p) + Len(q)
      /\ Len(p) \in Nat /\ Len(q) \in Nat
      /\ \A k \in 1 .. Len(p) + Len(q) : (p \o q)[k] = IF k <= Len(p) THEN p[k] ELSE q[k - Len(p)]
  BY ST!ConcatProperties
<1>2. ASSUME NEW k \in 1 .. Len(r)
      PROVE  r[k] = (p \o q)[k]
  <2>1. CASE k <= Len(p)
    <3>1. k \in 1 .. Len(p)
      BY <1>1, <2>1
    <3>2. QED
      BY <1>1, <2>1, <3>1
  <2>2. CASE ~(k <= Len(p))
    <3>1. k - Len(p) \in 1 .. Len(q) /\ Len(p) + (k - Len(p)) = k
      BY <1>1, <2>2
    <3>2. r[Len(p) + (k - Len(p))] = q[k - Len(p)]
      BY <3>1
    <3>3. QED
      BY <1>1, <2>2, <3>1, <3>2
  <2>3. QED
    BY <2>1, <2>2
<1>3. QED
  BY <1>1, <1>2, ST!SeqEqual

LEMMA OneElement ==
  ASSUME NEW S, NEW s \in Seq(S), Len(s) = 1
  PROVE  s = <<s[1]>>
<1>1. s[1] \in S
  OBVIOUS
<1>2. <<s[1]>> \in Seq(S) /\ Len(<<s[1]>>) = 1 /\ \A k \in 1 .. Len(s) : s[k] = <<s[1]>>[k]
  BY <1>1
<1>3. QED
  BY <1>2, ST!SeqEqual

LEMMA ConcatLaws ==
  ASSUME NEW S, NEW x \in Seq(S), NEW y \in Seq(S), NEW z \in Seq(S)
  PROVE  x \o y \in Seq(S) /\ (x \o y) \o z = x \o (y \o z) /\ x \o <<>> = x /\ <<>> \o x = x
<1>1. x \o y \in Seq(S)
  BY ST!ConcatProperties
<1>2. (x \o y) \o z = x \o (y \o z)
  BY ST!ConcatAssociative
<1>3. x \o <<>> = x /\ <<>> \o x = x
  BY ST!ConcatEmptySeq
<1>4. QED
  BY <1>1, <1>2, <1>3

\* Four strings, joined.
Four(a, b, c, d) == ((a \o b) \o c) \o d

LEMMA MoveAcross ==
  ASSUME NEW S, NEW a \in Seq(S), NEW b \in Seq(S), NEW c \in Seq(S), NEW d \in Seq(S), NEW p \in Seq(S)
  PROVE  Four(a, b, c, p \o d) = Four(a, b, c \o p, d)
<1> DEFINE x == a \o b
           y == x \o c
<1>1. x \in Seq(S)
  BY ConcatLaws
<1> HIDE DEF x
<1>2. y \in Seq(S)
  BY <1>1, ConcatLaws
<1>3. y \o p = x \o (c \o p)
  BY <1>1, ConcatLaws
<1> HIDE DEF y
<1>4. (y \o p) \o d = y \o (p \o d)
  BY <1>2, ConcatLaws
<1>5. y \o (p \o d) = (x \o (c \o p)) \o d
  BY <1>3, <1>4
<1>6. QED
  BY <1>5 DEF x, y, Four

LEMMA Regroup ==
  ASSUME NEW S, NEW a \in Seq(S), NEW b \in Seq(S), NEW c \in Seq(S), NEW d \in Seq(S), NEW p \in Seq(S)
  PROVE  /\ ((a \o <<>>) \o <<>>) \o <<>> = a
         /\ ((a \o <<>>) \o <<>>) \o p = a \o p
         /\ ((a \o <<>>) \o (p \o c)) \o d = ((a \o p) \o c) \o d
         /\ ((a \o b) \o c) \o d = (((a \o b) \o <<>>) \o c) \o d
<1>1. a \o <<>> = a /\ a \o b \in Seq(S) /\ (a \o b) \o <<>> = a \o b
  <2>1. a \o b \in Seq(S)
    BY ConcatLaws
  <2>2. QED
    BY <2>1, ConcatLaws
<1>2. a \o (p \o c) = (a \o p) \o c
  <2>1. (a \o p) \o c = a \o (p \o c)
    BY ST!ConcatAssociative
  <2>2. QED
    BY <2>1
<1>3. QED
  BY <1>1, <1>2

-----------------------------------------------------------------------------
\* FlattenSeq

\* The recursion of FlattenSeq defines a function.
LEMMA FlattenFacts ==
  ASSUME NEW S, NEW ss \in Seq(S)
  PROVE  \E f : /\ \A i \in 1 .. Len(ss) : f[i] = IF i = 1 THEN ss[i] ELSE f[i - 1] \o ss[i]
                /\ Len(ss) # 0 => FlattenSeq(ss) = f[Len(ss)]
<1> DEFINE Turn(f, i) == IF i = 1 THEN ss[i] ELSE f[i - 1] \o ss[i]
           Solves(f, n) == f = [i \in 1 .. n |-> Turn(f, i)]
           T == {n \in Nat : ~ \E f : Solves(f, n)}
<1>1. Len(ss) \in Nat
  OBVIOUS
<1>2. T = {}
  <2> SUFFICES ASSUME T # {} PROVE FALSE
    OBVIOUS
  <2>1. T \subseteq Nat
    OBVIOUS
  <2>2. PICK n \in T : \A j \in T : n <= j
    <3> HIDE DEF T
    <3> QED BY <2>1, LeastNat
  <2>3. n \in Nat /\ ~ \E f : Solves(f, n)
    BY <2>2
  <2>4. n # 0
    <3> SUFFICES ASSUME n = 0 PROVE FALSE
      OBVIOUS
    <3>1. Solves(<<>>, 0)
      OBVIOUS
    <3> HIDE DEF Solves
    <3>2. QED
      BY <2>3, <3>1
  <2>5. \E f : Solves(f, n - 1)
    <3>1. n - 1 \in Nat /\ ~(n <= n - 1)
      BY <2>3, <2>4
    <3>2. n - 1 \notin T
      <4> HIDE DEF T
      <4> QED BY <2>2, <3>1
    <3> HIDE DEF Solves
    <3>3. QED
      BY <3>1, <3>2
  <2>6. PICK f : Solves(f, n - 1)
    BY <2>5
  <2> DEFINE g == [i \in 1 .. n |-> IF i < n THEN f[i] ELSE Turn(f, n)]
  <2>7. \A i \in 1 .. n : g[i] = Turn(g, i)
    <3> SUFFICES ASSUME NEW i \in 1 .. n PROVE g[i] = Turn(g, i)
      OBVIOUS
    <3>1. i # 1 => g[i - 1] = f[i - 1]
      BY <2>3
    <3>2. Turn(g, i) = Turn(f, i)
      BY <3>1
    <3>3. CASE i < n
      <4>1. i \in 1 .. n - 1
        BY <2>3, <3>3
      <4>2. f[i] = Turn(f, i)
        <5> HIDE DEF Turn
        <5> QED BY <2>6, <4>1
      <4>3. g[i] = f[i]
        BY <3>3
      <4>4. QED
        BY <3>2, <4>2, <4>3
    <3>4. CASE i = n
      <4>1. g[i] = Turn(f, n)
        BY <2>3, <3>4
      <4>2. QED
        BY <3>2, <3>4, <4>1
    <3>5. QED
      BY <2>3, <3>3, <3>4
  <2>8. Solves(g, n)
    <3>1. g = [i \in 1 .. n |-> g[i]]
      OBVIOUS
    <3> HIDE DEF g, Turn
    <3>2. QED
      BY <2>7, <3>1
  <2>9. QED
    <3> HIDE DEF Solves, g
    <3> QED BY <2>3, <2>8
<1>3. \E f : Solves(f, Len(ss))
  <2> HIDE DEF Solves
  <2> QED BY <1>1, <1>2
<1> DEFINE h == CHOOSE f : Solves(f, Len(ss))
<1>4. Len(ss) # 0 => FlattenSeq(ss) = h[Len(ss)]
  BY Zenon DEF FlattenSeq
<1>5. Solves(h, Len(ss))
  <2> HIDE DEF Solves
  <2> QED BY <1>3
<1> HIDE DEF h
<1>6. \A i \in 1 .. Len(ss) : h[i] = Turn(h, i)
  <2> HIDE DEF Turn
  <2> QED BY <1>5
<1>7. QED
  BY <1>4, <1>6

LEMMA FlattenEmpty == FlattenSeq(<<>>) = <<>>
<1>1. Len(<<>>) = 0
  OBVIOUS
<1>2. QED
  BY <1>1, Zenon DEF FlattenSeq

LEMMA FlattenAppend ==
  ASSUME NEW S, NEW ss \in Seq(Seq(S)), NEW s \in Seq(S)
  PROVE  /\ FlattenSeq(ss) \in Seq(S)
         /\ FlattenSeq(Append(ss, s)) = FlattenSeq(ss) \o s
<1> DEFINE tt == Append(ss, s)
           n == Len(ss)
<1>1. /\ tt \in Seq(Seq(S)) /\ Len(tt) = n + 1 /\ n \in Nat
      /\ tt[n + 1] = s /\ \A i \in 1 .. n : tt[i] = ss[i] /\ ss[i] \in Seq(S)
  OBVIOUS
<1> HIDE DEF tt
<1>2. PICK f : /\ \A i \in 1 .. n : f[i] = IF i = 1 THEN ss[i] ELSE f[i - 1] \o ss[i]
               /\ n # 0 => FlattenSeq(ss) = f[n]
  BY FlattenFacts
<1>3. PICK g : /\ \A i \in 1 .. n + 1 : g[i] = IF i = 1 THEN tt[i] ELSE g[i - 1] \o tt[i]
               /\ FlattenSeq(tt) = g[n + 1]
  <2>1. PICK g : /\ \A i \in 1 .. Len(tt) : g[i] = IF i = 1 THEN tt[i] ELSE g[i - 1] \o tt[i]
                 /\ Len(tt) # 0 => FlattenSeq(tt) = g[Len(tt)]
    BY <1>1, FlattenFacts
  <2>2. QED
    BY <1>1, <2>1
<1> HIDE DEF n
<1> DEFINE T == {i \in 1 .. n : ~(f[i] \in Seq(S) /\ g[i] = f[i])}
<1>4. T = {}
  <2> SUFFICES ASSUME T # {} PROVE FALSE
    OBVIOUS
  <2>1. T \subseteq Nat
    BY <1>1
  <2>2. PICK i \in T : \A j \in T : i <= j
    <3> HIDE DEF T
    <3> QED BY <2>1, LeastNat
  <2>3. i \in 1 .. n /\ ~(f[i] \in Seq(S) /\ g[i] = f[i]) /\ i \in 1 .. n + 1
    BY <1>1, <2>2
  <2>4. i # 1
    <3> SUFFICES ASSUME i = 1 PROVE FALSE
      OBVIOUS
    <3>1. f[i] = ss[i] /\ g[i] = tt[i]
      BY <1>2, <1>3, <2>3
    <3>2. QED
      BY <1>1, <2>3, <3>1
  <2>5. i - 1 \in 1 .. n /\ ~(i <= i - 1)
    BY <1>1, <2>3, <2>4
  <2>6. f[i - 1] \in Seq(S) /\ g[i - 1] = f[i - 1]
    <3>1. i - 1 \notin T
      <4> HIDE DEF T
      <4> QED BY <2>2, <2>5
    <3>2. QED
      BY <2>5, <3>1
  <2>7. f[i] = f[i - 1] \o ss[i] /\ g[i] = g[i - 1] \o tt[i]
    BY <1>2, <1>3, <2>3, <2>4
  <2>8. ss[i] \in Seq(S) /\ tt[i] = ss[i]
    BY <1>1, <2>3
  <2>9. f[i - 1] \o ss[i] \in Seq(S)
    BY <2>6, <2>8, ST!ConcatProperties
  <2>10. QED
    BY <2>3, <2>6, <2>7, <2>8, <2>9
<1>5. CASE n = 0
  <2>1. ss = <<>>
    BY <1>5 DEF n
  <2>2. FlattenSeq(ss) = <<>>
    BY <2>1, FlattenEmpty
  <2>3. g[n + 1] = tt[n + 1]
    BY <1>3, <1>5
  <2>4. <<>> \o s = s
    BY ST!ConcatEmptySeq
  <2>5. QED
    BY <1>1, <1>3, <2>2, <2>3, <2>4 DEF tt
<1>6. CASE n # 0
  <2>1. n \in 1 .. n /\ n + 1 \in 1 .. n + 1 /\ n + 1 # 1 /\ n + 1 - 1 = n
    BY <1>1, <1>6
  <2>2. f[n] \in Seq(S) /\ g[n] = f[n] /\ FlattenSeq(ss) = f[n]
    BY <1>2, <1>4, <1>6, <2>1
  <2>3. g[n + 1] = g[n] \o tt[n + 1]
    <3> DEFINE m == n + 1
    <3>1. m \in 1 .. n + 1 /\ m # 1 /\ m - 1 = n
      BY <2>1
    <3> HIDE DEF m
    <3>2. g[m] = g[m - 1] \o tt[m]
      BY <1>3, <3>1
    <3>3. QED
      BY <3>1, <3>2 DEF m
  <2>4. QED
    BY <1>1, <1>3, <2>2, <2>3 DEF tt
<1>7. QED
  BY <1>5, <1>6

LEMMA FlattenOne ==
  ASSUME NEW S, NEW s \in Seq(S)
  PROVE  FlattenSeq(<<s>>) = s
<1>1. <<>> \in Seq(Seq(S)) /\ Append(<<>>, s) = <<s>>
  OBVIOUS
<1>2. FlattenSeq(Append(<<>>, s)) = FlattenSeq(<<>>) \o s
  BY <1>1, FlattenAppend
<1>3. <<>> \o s = s
  BY ST!ConcatEmptySeq
<1>4. QED
  BY <1>1, <1>2, <1>3, FlattenEmpty

\* What is flattened may be cut anywhere.
LEMMA FlattenConcat ==
  ASSUME NEW S, NEW ss \in Seq(Seq(S)), NEW tt \in Seq(Seq(S))
  PROVE  FlattenSeq(ss \o tt) = FlattenSeq(ss) \o FlattenSeq(tt)
<1> DEFINE Upto(n) == SubSeq(tt, 1, n)
           T == {n \in 0 .. Len(tt) :
                    FlattenSeq(ss \o Upto(n)) # FlattenSeq(ss) \o FlattenSeq(Upto(n))}
<1>0. Len(tt) \in Nat
  OBVIOUS
<1>1. T = {}
  <2> SUFFICES ASSUME T # {} PROVE FALSE
    OBVIOUS
  <2>1. T \subseteq Nat
    BY <1>0
  <2>2. PICK n \in T : \A j \in T : n <= j
    <3> HIDE DEF T
    <3> QED BY <2>1, LeastNat
  <2> HIDE DEF Upto
  <2>3. n \in 0 .. Len(tt) /\ FlattenSeq(ss \o Upto(n)) # FlattenSeq(ss) \o FlattenSeq(Upto(n))
    BY <2>2
  <2>4. n # 0
    <3> SUFFICES ASSUME n = 0 PROVE FALSE
      OBVIOUS
    <3>1. Upto(n) = <<>>
      BY ST!SubSeqEmpty DEF Upto
    <3>2. ss \o <<>> = ss
      BY ST!ConcatEmptySeq
    <3>3. FlattenSeq(ss) \in Seq(S)
      <4>1. <<>> \in Seq(S)
        OBVIOUS
      <4>2. QED
        BY <4>1, FlattenAppend
    <3>4. FlattenSeq(ss) \o <<>> = FlattenSeq(ss)
      BY <3>3, ST!ConcatEmptySeq
    <3>5. QED
      BY <2>3, <3>1, <3>2, <3>4, FlattenEmpty
  <2>5. n \in 1 .. Len(tt) /\ n - 1 \in 0 .. Len(tt) /\ ~(n <= n - 1) /\ 1 \in 1 .. Len(tt)
        /\ n \in 1 .. Len(tt)
    BY <1>0, <2>3, <2>4
  <2>6. FlattenSeq(ss \o Upto(n - 1)) = FlattenSeq(ss) \o FlattenSeq(Upto(n - 1))
    <3>1. n - 1 \notin T
      <4> HIDE DEF T
      <4> QED BY <2>2, <2>5
    <3>2. QED
      BY <2>5, <3>1
  <2> HIDE DEF T
  <2> DEFINE u == Upto(n - 1)
             last == tt[n]
  <2>7. u \in Seq(Seq(S)) /\ last \in Seq(S)
    <3>1. 1 \in 1 .. Len(tt) + 1 /\ 1 <= n - 1 + 1
      BY <1>0, <2>5
    <3>2. SubSeq(tt, 1, n - 1) \in Seq(Seq(S))
      BY <2>5, <3>1, PartFacts
    <3>3. last \in Seq(S)
      BY <2>5
    <3>4. QED
      BY <3>2, <3>3 DEF Upto
  <2>8. Upto(n) = Append(u, last)
    <3>1. n \in 1 .. Len(tt) /\ 1 \in 1 .. Len(tt) /\ n \in 1 .. Len(tt)
      BY <2>5
    <3>2. SubSeq(tt, 1, n) = SubSeq(tt, 1, n - 1) \o <<tt[n]>>
      BY <3>1, ST!SubSeqRecursiveSecond
    <3>3. Append(u, last) = u \o <<last>>
      BY <2>7, ST!AppendIsConcat
    <3>4. QED
      BY <3>2, <3>3 DEF Upto
  <2> HIDE DEF u, last
  <2>9. ss \o Append(u, last) = Append(ss \o u, last)
    <3>1. Append(u, last) = u \o <<last>> /\ ss \o u \in Seq(Seq(S)) /\ <<last>> \in Seq(Seq(S))
      BY <2>7, ST!AppendIsConcat, ST!ConcatProperties
    <3>2. Append(ss \o u, last) = (ss \o u) \o <<last>>
      BY <2>7, <3>1, ST!AppendIsConcat
    <3>3. QED
      BY <2>7, <3>1, <3>2, ST!ConcatAssociative
  <2>10. /\ ss \o u \in Seq(Seq(S))
         /\ FlattenSeq(ss) \in Seq(S) /\ FlattenSeq(u) \in Seq(S)
         /\ FlattenSeq(Append(u, last)) = FlattenSeq(u) \o last
         /\ FlattenSeq(Append(ss \o u, last)) = FlattenSeq(ss \o u) \o last
    BY <2>7, FlattenAppend, ST!ConcatProperties
  <2>11. (FlattenSeq(ss) \o FlattenSeq(u)) \o last = FlattenSeq(ss) \o (FlattenSeq(u) \o last)
    BY <2>7, <2>10, ST!ConcatAssociative
  <2>12. QED
    BY <2>3, <2>6, <2>8, <2>9, <2>10, <2>11 DEF u
<1>2. Len(tt) \notin T /\ Len(tt) \in 0 .. Len(tt)
  BY <1>0, <1>1
<1>3. Upto(Len(tt)) = tt
  BY ST!SubSeqFull
<1>4. QED
  BY <1>2, <1>3

LEMMA FlattenHead ==
  ASSUME NEW S, NEW ss \in Seq(Seq(S)), ss # <<>>
  PROVE  /\ ss[1] \in Seq(S) /\ Tail(ss) \in Seq(Seq(S))
         /\ FlattenSeq(ss) = ss[1] \o FlattenSeq(Tail(ss))
<1>1. Len(ss) \in Nat \ {0} /\ 1 \in 1 .. Len(ss) /\ Len(ss) \in 1 .. Len(ss) /\ ss[1] \in Seq(S)
  OBVIOUS
<1>2. Tail(ss) \in Seq(Seq(S)) /\ <<ss[1]>> \in Seq(Seq(S))
  BY <1>1
<1>3. ss = <<ss[1]>> \o Tail(ss)
  BY <1>1, ST!SubSeqRecursiveFirst, ST!SubSeqFull, ST!TailIsSubSeq
<1>4. FlattenSeq(<<ss[1]>> \o Tail(ss)) = FlattenSeq(<<ss[1]>>) \o FlattenSeq(Tail(ss))
  BY <1>2, FlattenConcat
<1>5. QED
  BY <1>1, <1>2, <1>3, <1>4, FlattenOne

LEMMA FlattenNone ==
  ASSUME NEW S, NEW ss \in Seq(Seq(S)), \A k \in 1 .. Len(ss) : ss[k] = <<>>
  PROVE  FlattenSeq(ss) = <<>>
<1> DEFINE Upto(n) == SubSeq(ss, 1, n)
           T == {n \in 0 .. Len(ss) : FlattenSeq(Upto(n)) # <<>>}
<1>0. Len(ss) \in Nat
  OBVIOUS
<1>1. T = {}
  <2> SUFFICES ASSUME T # {} PROVE FALSE
    OBVIOUS
  <2>1. T \subseteq Nat
    BY <1>0
  <2>2. PICK n \in T : \A j \in T : n <= j
    <3> HIDE DEF T
    <3> QED BY <2>1, LeastNat
  <2> HIDE DEF Upto
  <2>3. n \in 0 .. Len(ss) /\ FlattenSeq(Upto(n)) # <<>>
    BY <2>2
  <2>4. n # 0
    <3> SUFFICES ASSUME n = 0 PROVE FALSE
      OBVIOUS
    <3>1. Upto(n) = <<>>
      BY ST!SubSeqEmpty DEF Upto
    <3>2. QED
      BY <2>3, <3>1, FlattenEmpty
  <2>5. n \in 1 .. Len(ss) /\ n - 1 \in 0 .. Len(ss) /\ ~(n <= n - 1) /\ 1 \in 1 .. Len(ss)
    BY <1>0, <2>3, <2>4
  <2>6. FlattenSeq(Upto(n - 1)) = <<>>
    <3>1. n - 1 \notin T
      <4> HIDE DEF T
      <4> QED BY <2>2, <2>5
    <3>2. QED
      BY <2>5, <3>1
  <2> HIDE DEF T
  <2>7. Upto(n - 1) \in Seq(Seq(S)) /\ ss[n] \in Seq(S) /\ ss[n] = <<>>
    <3>1. 1 \in 1 .. Len(ss) + 1 /\ 1 <= n - 1 + 1
      BY <1>0, <2>5
    <3>2. SubSeq(ss, 1, n - 1) \in Seq(Seq(S))
      BY <2>5, <3>1, PartFacts
    <3>3. QED
      BY <2>5, <3>2 DEF Upto
  <2>8. Upto(n) = Append(Upto(n - 1), ss[n])
    BY <2>5, <2>7, ST!SubSeqRecursiveSecond, ST!AppendIsConcat DEF Upto
  <2>9. FlattenSeq(Append(Upto(n - 1), ss[n])) = FlattenSeq(Upto(n - 1)) \o ss[n]
    BY <2>7, FlattenAppend
  <2>10. <<>> \o <<>> = <<>>
    OBVIOUS
  <2>11. QED
    BY <2>3, <2>6, <2>7, <2>8, <2>9, <2>10
<1>2. Len(ss) \notin T /\ Len(ss) \in 0 .. Len(ss)
  BY <1>0, <1>1
<1>3. Upto(Len(ss)) = ss
  BY ST!SubSeqFull
<1>4. QED
  BY <1>2, <1>3
=============================================================================
