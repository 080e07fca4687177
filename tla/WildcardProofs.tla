--------------------------- MODULE WildcardProofs ---------------------------
(***************************************************************************)
(* Proofs about Wildcard, for strings of every length over any characters. *)
(*                                                                         *)
(* ReadsInBounds is inductive once mask and text are known to be strings.  *)
(* Its part rp <= p is what makes the order of Ascends go up at a '*'.     *)
(*                                                                         *)
(* That the result is right is no matter of the pointers alone: Greedy     *)
(* says what the loop has found out about the mask and the text before     *)
(* them, in terms of the lengths that Fits is defined by.                  *)
(***************************************************************************)
EXTENDS Wildcard, TLAPS

SL == INSTANCE SequenceLemmas

IInv ==
    /\ mask \in Seq(Chars)
    /\ text \in Seq(Chars)
    /\ ReadsInBounds

LEMMA StringsAreSequences ==
    ASSUME NEW n \in Nat, NEW t \in Strings(n)
    PROVE  t \in Seq(Chars)
<1>1. PICK k \in 0 .. n : t \in [1 .. k -> Chars]
  BY DEF Strings
<1>2. QED
  BY <1>1

LEMMA InitIInv == Init => IInv
<1>1. SUFFICES ASSUME Init PROVE IInv
  OBVIOUS
<1>2. mask \in Seq(Chars) /\ text \in Seq(Chars)
  BY <1>1, LengthAssumption, StringsAreSequences DEF Init
<1>3. Len(mask) \in Nat /\ Len(text) \in Nat
  BY <1>2
<1>4. ReadsInBounds
  BY <1>1, <1>3 DEF Init, ReadsInBounds
<1>5. QED
  BY <1>2, <1>4 DEF IInv

LEMMA StepIInv == IInv /\ [Next]_vars => IInv'
<1>1. SUFFICES ASSUME IInv, [Next]_vars PROVE IInv'
  OBVIOUS
<1>2. /\ mask' = mask /\ text' = text
      /\ mask \in Seq(Chars) /\ text \in Seq(Chars)
  BY <1>1 DEF IInv, Next, TakeStar, TextEnds, Advance, Retry, Fail, Returned, vars, input
<1>3. Len(mask) \in Nat /\ Len(text) \in Nat
  BY <1>2
<1>4. ReadsInBounds'
  <2>1. CASE TakeStar
    BY <1>1, <1>2, <1>3, <2>1 DEF IInv, ReadsInBounds, TakeStar, AtStar, AtEnd, input
  <2>2. CASE Advance
    BY <1>1, <1>2, <1>3, <2>2 DEF IInv, ReadsInBounds, Advance, Same, AtEnd, input
  <2>3. CASE Retry
    BY <1>1, <1>2, <1>3, <2>3 DEF IInv, ReadsInBounds, Retry, AtEnd, input
  <2>4. CASE TextEnds \/ Fail \/ Returned \/ UNCHANGED vars
    BY <1>1, <1>2, <2>4 DEF IInv, ReadsInBounds, TextEnds, Fail, Returned, vars, input
  <2>5. QED
    BY <1>1, <2>1, <2>2, <2>3, <2>4 DEF Next
<1>5. QED
  BY <1>2, <1>4 DEF IInv

LEMMA Inductive == Spec => []IInv
<1>1. QED
  BY InitIInv, StepIInv, PTL DEF Spec

\* The pointers of isEqualToRegex never leave their strings, whatever the mask
\* a client sets and the name it is compared with.
THEOREM PointersInBounds == Spec => []ReadsInBounds
<1>1. IInv => ReadsInBounds
  BY DEF IInv
<1>2. QED
  BY Inductive, <1>1, PTL

\* Every turn of the loop makes progress in an order that, the pointers being
\* bounded, has no infinite ascent.
THEOREM LoopAscends == Spec => Ascends
<1> DEFINE Up == \/ result' # "none"
                 \/ rp' > rp
                 \/ rp' = rp /\ rs' > rs
                 \/ rp' = rp /\ rs' = rs /\ s' > s
<1>1. ASSUME IInv, [Next]_vars PROVE [Up]_vars
  <2>1. CASE TakeStar
    BY <1>1, <2>1 DEF IInv, ReadsInBounds, TakeStar
  <2>2. CASE Advance
    BY <1>1, <2>2 DEF IInv, ReadsInBounds, Advance
  <2>3. CASE Retry
    BY <1>1, <2>3 DEF IInv, ReadsInBounds, Retry
  <2>4. CASE TextEnds \/ Fail
    BY <2>4 DEF TextEnds, Fail, AtEnd
  <2>5. CASE Returned \/ UNCHANGED vars
    BY <2>5 DEF Returned
  <2>6. QED
    BY <1>1, <2>1, <2>2, <2>3, <2>4, <2>5 DEF Next
<1>2. QED
  BY Inductive, <1>1, PTL DEF Spec, Ascends

-----------------------------------------------------------------------------
\* The lengths a beginning of the mask fits

\* The recursion of Lengths defines a function.
LEMMA LengthsFacts ==
    ASSUME NEW m \in Seq(Chars), NEW t \in Seq(Chars)
    PROVE  /\ Lengths(m, t)[0] = {0}
           /\ \A i \in 1 .. Len(m) :
                 Lengths(m, t)[i] = OneMore(m, t, i, Lengths(m, t)[i - 1])
<1> DEFINE Turn(f, i) == IF i = 0 THEN {0} ELSE OneMore(m, t, i, f[i - 1])
           Solves(f, n) == f = [i \in 0 .. n |-> Turn(f, i)]
           T == {n \in Nat : ~ \E f : Solves(f, n)}
<1>1. Len(m) \in Nat
  OBVIOUS
<1>2. T = {}
  <2> SUFFICES ASSUME T # {} PROVE FALSE
    OBVIOUS
  <2>1. T \subseteq Nat
    OBVIOUS
  <2>2. PICK n \in T : \A j \in T : n <= j
    <3> HIDE DEF T
    <3> QED BY <2>1, SL!LeastNat
  <2>3. n \in Nat /\ ~ \E f : Solves(f, n)
    BY <2>2
  <2>4. n # 0
    <3> SUFFICES ASSUME n = 0 PROVE FALSE
      OBVIOUS
    <3>1. Solves([i \in 0 .. 0 |-> {0}], 0)
      OBVIOUS
    <3> HIDE DEF Solves
    <3>2. QED
      BY <2>3, <3>1
  <2>5. \E f : Solves(f, n - 1)
    <3>1. n - 1 \in Nat /\ n - 1 \notin T
      BY <2>2, <2>3, <2>4
    <3> HIDE DEF Solves
    <3>2. QED
      BY <3>1
  <2>6. PICK f : Solves(f, n - 1)
    BY <2>5
  <2> DEFINE g == [i \in 0 .. n |-> IF i < n THEN f[i] ELSE Turn(f, n)]
  <2>7. \A i \in 0 .. n : g[i] = Turn(g, i)
    <3> SUFFICES ASSUME NEW i \in 0 .. n PROVE g[i] = Turn(g, i)
      OBVIOUS
    <3>1. i # 0 => g[i - 1] = f[i - 1]
      BY <2>3
    <3>2. Turn(g, i) = Turn(f, i)
      BY <3>1
    <3>3. CASE i < n
      <4>1. i \in 0 .. n - 1
        BY <2>3, <3>3
      <4>2. f[i] = Turn(f, i)
        <5> HIDE DEF Turn
        <5> QED BY <2>6, <4>1
      <4>3. g[i] = f[i]
        BY <3>3
      <4>4. QED
        BY <3>2, <4>2, <4>3
    <3>4. CASE i = n
      <4>1. g[i] = Turn(f, n)
        BY <2>3, <3>4
      <4>2. QED
        BY <3>2, <3>4, <4>1
    <3>5. QED
      BY <2>3, <3>3, <3>4
  <2>8. Solves(g, n)
    <3>1. g = [i \in 0 .. n |-> g[i]]
      OBVIOUS
    <3> HIDE DEF g, Turn
    <3>2. QED
      BY <2>7, <3>1
  <2>9. QED
    <3> HIDE DEF Solves, g
    <3> QED BY <2>3, <2>8
<1>3. \E f : Solves(f, Len(m))
  <2> HIDE DEF Solves
  <2> QED BY <1>1, <1>2
<1>4. Lengths(m, t) = CHOOSE f : Solves(f, Len(m))
  BY Zenon DEF Lengths
<1>5. Solves(Lengths(m, t), Len(m))
  <2> HIDE DEF Solves
  <2> QED BY <1>3, <1>4
<1>6. \A i \in 0 .. Len(m) : Lengths(m, t)[i] = Turn(Lengths(m, t), i)
  <2> HIDE DEF Turn
  <2> QED BY <1>5
<1>7. QED
  BY <1>1, <1>6

\* What OneMore says of a '*', and of any other character.
LEMMA StarFacts ==
    ASSUME NEW m \in Seq(Chars), NEW t \in Seq(Chars), NEW i \in 1 .. Len(m)
    PROVE  /\ m[i] = Star =>
                 \A j : j \in Lengths(m, t)[i] <=>
                           j \in 0 .. Len(t) /\ \E k \in Lengths(m, t)[i - 1] : k <= j
           /\ m[i] # Star =>
                 \A j : j \in Lengths(m, t)[i] <=>
                           j \in 1 .. Len(t) /\ t[j] = m[i] /\ j - 1 \in Lengths(m, t)[i - 1]
<1> DEFINE new == Lengths(m, t)[i]
           before == Lengths(m, t)[i - 1]
<1>1. new = OneMore(m, t, i, before)
  BY LengthsFacts
<1> HIDE DEF new, before
<1>2. m[i] = Star => new = {j \in 0 .. Len(t) : \E k \in before : k <= j}
  BY <1>1 DEF OneMore
<1>3. m[i] # Star => new = {j \in 1 .. Len(t) : t[j] = m[i] /\ j - 1 \in before}
  BY <1>1 DEF OneMore
<1>4. m[i] = Star =>
          \A j : j \in new <=> j \in 0 .. Len(t) /\ \E k \in before : k <= j
  BY <1>2
<1>5. m[i] # Star =>
          \A j : j \in new <=> j \in 1 .. Len(t) /\ t[j] = m[i] /\ j - 1 \in before
  BY <1>3
<1>6. QED
  BY <1>4, <1>5 DEF new, before

LEMMA LengthsBounded ==
    ASSUME NEW m \in Seq(Chars), NEW t \in Seq(Chars), NEW i \in 0 .. Len(m)
    PROVE  Lengths(m, t)[i] \subseteq 0 .. Len(t)
<1>1. Len(m) \in Nat /\ Len(t) \in Nat
  OBVIOUS
<1>2. CASE i = 0
  BY <1>1, <1>2, LengthsFacts
<1>3. CASE i # 0
  <2>1. i \in 1 .. Len(m)
    BY <1>1, <1>3
  <2>2. QED
    BY <1>1, <2>1, StarFacts
<1>4. QED
  BY <1>2, <1>3

\* Once no beginning fits, none does again.
LEMMA NoneAgain ==
    ASSUME NEW m \in Seq(Chars), NEW t \in Seq(Chars), NEW e \in 0 .. Len(m),
           Lengths(m, t)[e] = {}
    PROVE  Lengths(m, t)[Len(m)] = {}
<1> DEFINE T == {i \in e .. Len(m) : Lengths(m, t)[i] # {}}
<1>1. Len(m) \in Nat /\ T \subseteq Nat
  OBVIOUS
<1>2. T = {}
  <2> SUFFICES ASSUME T # {} PROVE FALSE
    OBVIOUS
  <2>1. PICK i \in T : \A j \in T : i <= j
    <3> HIDE DEF T
    <3> QED BY <1>1, SL!LeastNat
  <2>2. i \in e .. Len(m) /\ Lengths(m, t)[i] # {} /\ i # e
    BY <2>1
  <2>3. i \in 1 .. Len(m) /\ i - 1 \in e .. Len(m) /\ ~(i <= i - 1)
    BY <1>1, <2>2
  <2>4. Lengths(m, t)[i - 1] = {}
    BY <2>1, <2>3
  <2>5. QED
    BY <2>2, <2>3, <2>4, StarFacts
<1>3. Len(m) \in e .. Len(m)
  BY <1>1
<1>4. QED
  BY <1>2, <1>3

NoStar(m, b, e) == \A l \in b .. e : m[l] # Star

\* From k on, the text has the characters b to e of the mask.
Literal(m, t, b, e, k) == \A l \in b .. e : t[k + (l - b) + 1] = m[l]

\* Without a '*' the mask is followed letter by letter.
LEMMA FollowedLiterally ==
    ASSUME NEW m \in Seq(Chars), NEW t \in Seq(Chars),
           NEW b \in 1 .. Len(m) + 1, NEW e \in b - 1 .. Len(m), NoStar(m, b, e),
           NEW j \in Lengths(m, t)[e]
    PROVE  \E k \in Lengths(m, t)[b - 1] : j = k + (e - b) + 1 /\ Literal(m, t, b, e, k)
<1> DEFINE Claim(i) ==
               \A j0 \in Lengths(m, t)[i] :
                   \E k \in Lengths(m, t)[b - 1] : j0 = k + (i - b) + 1 /\ Literal(m, t, b, i, k)
           T == {i \in b - 1 .. e : ~Claim(i)}
<1>1. Len(m) \in Nat /\ Len(t) \in Nat /\ T \subseteq Nat /\ b \in Nat /\ e \in Nat
  OBVIOUS
<1>2. T = {}
  <2> SUFFICES ASSUME T # {} PROVE FALSE
    OBVIOUS
  <2>1. PICK i \in T : \A i0 \in T : i <= i0
    <3> HIDE DEF T
    <3> QED BY <1>1, SL!LeastNat
  <2>2. i \in b - 1 .. e /\ ~Claim(i)
    BY <2>1
  <2>3. i # b - 1
    <3> SUFFICES ASSUME i = b - 1 PROVE Claim(i)
      BY <2>2
    <3>1. Lengths(m, t)[b - 1] \subseteq 0 .. Len(t)
      BY <1>1, LengthsBounded
    <3>2. \A k \in Nat : k = k + (b - 1 - b) + 1
      BY <1>1
    <3>3. \A k : Literal(m, t, b, b - 1, k)
      BY <1>1 DEF Literal
    <3>4. QED
      BY <3>1, <3>2, <3>3
  <2>4. /\ i \in 1 .. Len(m) /\ i \in b .. e /\ i - 1 \in b - 1 .. e /\ ~(i <= i - 1)
        /\ i \in Nat /\ i - 1 \in 0 .. Len(m)
    BY <1>1, <2>2, <2>3
  <2>5. Claim(i - 1)
    <3> HIDE DEF Claim
    <3> QED BY <2>1, <2>4
  <2>6. ASSUME NEW j0 \in Lengths(m, t)[i]
        PROVE  \E k \in Lengths(m, t)[b - 1] : j0 = k + (i - b) + 1 /\ Literal(m, t, b, i, k)
    <3>1. m[i] # Star
      BY <2>4 DEF NoStar
    <3>2. j0 \in 1 .. Len(t) /\ t[j0] = m[i] /\ j0 - 1 \in Lengths(m, t)[i - 1]
      BY <2>4, <3>1, StarFacts
    <3>3. PICK k \in Lengths(m, t)[b - 1] :
              j0 - 1 = k + (i - 1 - b) + 1 /\ Literal(m, t, b, i - 1, k)
      BY <2>5, <3>2
    <3>4. k \in Nat
      <4>1. b - 1 \in 0 .. Len(m)
        BY <1>1
      <4>2. QED
        BY <4>1, <3>3, <1>1, LengthsBounded
    <3>5. j0 = k + (i - b) + 1
      BY <1>1, <2>4, <3>2, <3>3, <3>4
    <3>6. Literal(m, t, b, i, k)
      <4> SUFFICES ASSUME NEW l \in b .. i PROVE t[k + (l - b) + 1] = m[l]
        BY DEF Literal
      <4>1. CASE l = i
        BY <3>2, <3>5, <4>1
      <4>2. CASE l # i
        <5>1. l \in b .. i - 1
          BY <1>1, <2>4, <4>2
        <5>2. QED
          BY <3>3, <5>1 DEF Literal
      <4>3. QED
        BY <4>1, <4>2
    <3>7. QED
      BY <3>5, <3>6
  <2>7. QED
    BY <2>2, <2>6
<1>3. Claim(e)
  <2>1. e \in b - 1 .. e
    BY <1>1
  <2> HIDE DEF Claim
  <2>2. QED
    BY <1>2, <2>1
<1>4. QED
  BY <1>3

\* A text that begins at k does not get through the characters of the mask from
\* b to the next '*' or the end: it differs from one of them, or is too short,
\* or is longer than a mask without '*'.
Stuck(m, t, b, k) ==
    \E q \in b .. Len(m) + 1 :
        /\ NoStar(m, b, q - 1)
        /\ q <= Len(m) => m[q] # Star /\ ~(k + (q - b) + 1 <= Len(t) /\ t[k + (q - b) + 1] = m[q])
        /\ q = Len(m) + 1 => k + (q - b) # Len(t)

\* What gets through to a '*' is not stuck.
LEMMA NotStuck ==
    ASSUME NEW m \in Seq(Chars), NEW t \in Seq(Chars),
           NEW b \in 1 .. Len(m), NEW x \in b .. Len(m), m[x] = Star,
           NEW k \in Nat, Literal(m, t, b, x - 1, k), k + (x - b) <= Len(t)
    PROVE  ~Stuck(m, t, b, k)
<1>1. Len(m) \in Nat /\ Len(t) \in Nat
  OBVIOUS
<1>2. SUFFICES ASSUME NEW q \in b .. Len(m) + 1, NoStar(m, b, q - 1),
                      q <= Len(m) => /\ m[q] # Star
                                     /\ ~(k + (q - b) + 1 <= Len(t) /\ t[k + (q - b) + 1] = m[q])
               PROVE  FALSE
  BY DEF Stuck
<1>3. ~(x <= q - 1)
  <2> SUFFICES ASSUME x <= q - 1 PROVE FALSE
    OBVIOUS
  <2>1. x \in b .. q - 1
    BY <1>1
  <2>2. QED
    BY <1>2, <2>1 DEF NoStar
<1>4. q # x
  BY <1>1, <1>2
<1>5. q \in b .. x - 1 /\ q <= Len(m)
  BY <1>1, <1>3, <1>4
<1>6. t[k + (q - b) + 1] = m[q]
  BY <1>5 DEF Literal
<1>7. k + (q - b) + 1 <= Len(t)
  BY <1>1, <1>5
<1>8. QED
  BY <1>2, <1>5, <1>6, <1>7

\* When every place from which the text might go on is stuck, it does not fit.
LEMMA AllStuck ==
    ASSUME NEW m \in Seq(Chars), NEW t \in Seq(Chars), NEW b \in 1 .. Len(m) + 1,
           \A k \in Lengths(m, t)[b - 1] : Stuck(m, t, b, k)
    PROVE  ~Fits(m, t)
<1>1. Len(m) \in Nat /\ Len(t) \in Nat /\ b - 1 \in 0 .. Len(m)
  OBVIOUS
<1> DEFINE T == {x \in b .. Len(m) + 1 : x <= Len(m) => m[x] = Star}
<1>2. T \subseteq Nat /\ Len(m) + 1 \in T
  BY <1>1
<1>3. PICK x \in T : \A y \in T : x <= y
  <2> HIDE DEF T
  <2> QED BY <1>2, SL!LeastNat
<1>4. x \in b .. Len(m) + 1 /\ (x <= Len(m) => m[x] = Star)
  BY <1>3
<1>5. NoStar(m, b, x - 1)
  <2> SUFFICES ASSUME NEW l \in b .. x - 1 PROVE m[l] # Star
    BY DEF NoStar
  <2>1. ~(x <= l) /\ l \in b .. Len(m) + 1 /\ l <= Len(m)
    BY <1>1, <1>4
  <2>2. l \notin T
    <3> HIDE DEF T
    <3> QED BY <1>3, <2>1
  <2>3. QED
    BY <2>1, <2>2
<1>6. \A j \in Lengths(m, t)[x - 1] :
          \E k \in Lengths(m, t)[b - 1] :
              /\ k \in Nat /\ j \in 0 .. Len(t) /\ j = k + (x - 1 - b) + 1
              /\ Literal(m, t, b, x - 1, k)
  <2>1. x - 1 \in b - 1 .. Len(m) /\ x - 1 \in 0 .. Len(m)
    BY <1>1, <1>4
  <2>2. Lengths(m, t)[x - 1] \subseteq 0 .. Len(t) /\ Lengths(m, t)[b - 1] \subseteq 0 .. Len(t)
    BY <1>1, <2>1, LengthsBounded
  <2> SUFFICES ASSUME NEW j \in Lengths(m, t)[x - 1]
               PROVE  \E k \in Lengths(m, t)[b - 1] :
                          /\ k \in Nat /\ j \in 0 .. Len(t) /\ j = k + (x - 1 - b) + 1
                          /\ Literal(m, t, b, x - 1, k)
    OBVIOUS
  <2>3. PICK k \in Lengths(m, t)[b - 1] :
            j = k + (x - 1 - b) + 1 /\ Literal(m, t, b, x - 1, k)
    BY <1>5, <2>1, FollowedLiterally
  <2>4. k \in Nat /\ j \in 0 .. Len(t)
    BY <2>2, <2>3
  <2>5. QED
    BY <2>3, <2>4
<1>7. CASE x = Len(m) + 1
  <2> SUFFICES ASSUME Len(t) \in Lengths(m, t)[Len(m)] PROVE FALSE
    BY DEF Fits
  <2>1. x - 1 = Len(m)
    BY <1>1, <1>7
  <2>2. PICK k \in Lengths(m, t)[b - 1] :
            k \in Nat /\ Len(t) = k + (x - 1 - b) + 1 /\ Literal(m, t, b, x - 1, k)
    BY <1>6, <2>1
  <2>3. PICK q \in b .. Len(m) + 1 :
            /\ q <= Len(m) => ~(k + (q - b) + 1 <= Len(t) /\ t[k + (q - b) + 1] = m[q])
            /\ q = Len(m) + 1 => k + (q - b) # Len(t)
    BY DEF Stuck
  <2>4. CASE q <= Len(m)
    <3>1. q \in b .. x - 1
      BY <1>1, <2>1, <2>4
    <3>2. t[k + (q - b) + 1] = m[q]
      BY <2>2, <3>1 DEF Literal
    <3>3. k + (q - b) + 1 <= Len(t)
      BY <1>1, <2>1, <2>2, <2>4, <3>1
    <3>4. QED
      BY <2>3, <2>4, <3>2, <3>3
  <2>5. CASE q = Len(m) + 1
    <3>1. k + (q - b) = Len(t)
      BY <1>1, <1>7, <2>2, <2>5
    <3>2. QED
      BY <2>3, <2>5, <3>1
  <2>6. QED
    BY <1>1, <2>3, <2>4, <2>5
<1>8. CASE x <= Len(m)
  <2>1. x - 1 \in 0 .. Len(m) /\ b \in 1 .. Len(m) /\ x \in b .. Len(m)
    BY <1>1, <1>4, <1>8
  <2>2. Lengths(m, t)[x - 1] = {}
    <3> SUFFICES ASSUME NEW j \in Lengths(m, t)[x - 1] PROVE FALSE
      OBVIOUS
    <3>1. PICK k \in Lengths(m, t)[b - 1] :
              /\ k \in Nat /\ j \in 0 .. Len(t) /\ j = k + (x - 1 - b) + 1
              /\ Literal(m, t, b, x - 1, k)
      BY <1>6
    <3>2. k + (x - b) <= Len(t)
      BY <1>1, <1>4, <3>1
    <3>3. ~Stuck(m, t, b, k)
      BY <1>4, <1>8, <2>1, <3>1, <3>2, NotStuck
    <3>4. QED
      BY <3>1, <3>3
  <2>3. Lengths(m, t)[Len(m)] = {}
    BY <2>1, <2>2, NoneAgain
  <2>4. QED
    BY <2>3 DEF Fits
<1>9. QED
  BY <1>1, <1>4, <1>7, <1>8

-----------------------------------------------------------------------------
\* Going back to the last '*' is enough

\* The characters compared since the last '*' begin at Base in the mask, and
\* behind the first Low characters of the text.
Base == IF rs = 0 THEN 1 ELSE rp
Low == IF rs = 0 THEN 0 ELSE rs - 1

\* What is before s fits what is before p; what the '*' was given before is
\* stuck, and it can be given anything longer.
Greedy ==
    /\ s - 1 \in Lengths(mask, text)[p - 1]
    /\ Base \in 1 .. p /\ s - 1 = Low + (p - Base)
    /\ NoStar(mask, Base, p - 1)
    /\ \A k \in Lengths(mask, text)[Base - 1] : k < Low => Stuck(mask, text, Base, k)
    /\ rs # 0 => \A k \in Low .. Len(text) : k \in Lengths(mask, text)[Base - 1]

Sound == IInv /\ Greedy /\ Correct

LEMMA InitSound == Init => Sound
<1> SUFFICES ASSUME Init PROVE Sound
  OBVIOUS
<1>1. IInv
  BY InitIInv
<1>2. mask \in Seq(Chars) /\ text \in Seq(Chars) /\ s = 1 /\ p = 1 /\ rs = 0 /\ result = "none"
  BY <1>1 DEF IInv, Init
<1>3. Base = 1 /\ Low = 0
  BY <1>2 DEF Base, Low
<1>4. Lengths(mask, text)[0] = {0}
  BY <1>2, LengthsFacts
<1>5. Greedy
  BY <1>2, <1>3, <1>4 DEF Greedy, NoStar
<1>6. QED
  BY <1>1, <1>2, <1>5 DEF Sound, Correct

\* Where the next characters differ, or the text or the mask has ended alone,
\* what begins at Low is stuck.
LEMMA StuckHere ==
    ASSUME Sound, ~AtStar, ~(AtEnd(text, s) /\ AtEnd(mask, p)), ~AtEnd(text, s) => ~Same
    PROVE  Stuck(mask, text, Base, Low)
<1>1. /\ mask \in Seq(Chars) /\ text \in Seq(Chars) /\ Len(mask) \in Nat /\ Len(text) \in Nat
      /\ s \in 1 .. Len(text) + 1 /\ p \in 1 .. Len(mask) + 1 /\ rs \in 0 .. s
      /\ Base \in 1 .. p /\ s - 1 = Low + (p - Base) /\ NoStar(mask, Base, p - 1)
  BY DEF Sound, IInv, ReadsInBounds, Greedy
<1>2. Low \in Nat
  BY <1>1 DEF Low
<1>3. p \in Base .. Len(mask) + 1
  BY <1>1
<1>4. Low + (p - Base) + 1 = s
  BY <1>1, <1>2
<1>5. p <= Len(mask) => mask[p] # Star /\ ~(s <= Len(text) /\ text[s] = mask[p])
  BY <1>1 DEF AtStar, AtEnd, Same
<1>6. p = Len(mask) + 1 => Low + (p - Base) # Len(text)
  BY <1>1, <1>2 DEF AtEnd
<1> HIDE DEF Base, Low
<1>7. QED
  BY <1>1, <1>3, <1>4, <1>5, <1>6 DEF Stuck

LEMMA TakeStarGreedy ==
    ASSUME Sound, TakeStar, IInv'
    PROVE  Greedy'
<1>1. /\ mask \in Seq(Chars) /\ text \in Seq(Chars) /\ Len(mask) \in Nat /\ Len(text) \in Nat
      /\ s \in 1 .. Len(text) + 1 /\ p \in 1 .. Len(mask) + 1 /\ rs \in 0 .. s
      /\ s - 1 \in Lengths(mask, text)[p - 1]
      /\ Base \in 1 .. p /\ s - 1 = Low + (p - Base) /\ NoStar(mask, Base, p - 1)
      /\ \A k \in Lengths(mask, text)[Base - 1] : k < Low => Stuck(mask, text, Base, k)
  BY DEF Sound, IInv, ReadsInBounds, Greedy
<1>2. /\ mask[p] = Star /\ p \in 1 .. Len(mask)
      /\ rs' = s /\ rp' = p + 1 /\ p' = p + 1 /\ s' = s /\ mask' = mask /\ text' = text
  BY <1>1 DEF TakeStar, AtStar, AtEnd, input
<1>3. Base' = p + 1 /\ Low' = s - 1
  BY <1>1, <1>2 DEF Base, Low
<1>4. Low \in Nat
  BY <1>1 DEF Low
<1> HIDE DEF Base, Low
<1>5. \A k : k \in Lengths(mask, text)[p] <=>
                 k \in 0 .. Len(text) /\ \E j \in Lengths(mask, text)[p - 1] : j <= k
  BY <1>1, <1>2, StarFacts
<1>6. \A k \in s - 1 .. Len(text) : k \in Lengths(mask, text)[p]
  BY <1>1, <1>5
<1>7. \A j \in Lengths(mask, text)[p - 1] : j \in Nat /\ j <= Len(text) /\ ~(j < s - 1)
  <2> SUFFICES ASSUME NEW j \in Lengths(mask, text)[p - 1]
               PROVE  j \in Nat /\ j <= Len(text) /\ ~(j < s - 1)
    OBVIOUS
  <2>1. Base \in 1 .. Len(mask) + 1 /\ p - 1 \in Base - 1 .. Len(mask) /\ Base - 1 \in 0 .. Len(mask)
        /\ p - 1 \in 0 .. Len(mask) /\ Base \in 1 .. Len(mask) /\ p \in Base .. Len(mask)
    BY <1>1, <1>2
  <2>2. PICK k \in Lengths(mask, text)[Base - 1] :
            j = k + (p - 1 - Base) + 1 /\ Literal(mask, text, Base, p - 1, k)
    BY <1>1, <2>1, FollowedLiterally
  <2>3. j \in 0 .. Len(text) /\ k \in 0 .. Len(text)
    BY <1>1, <2>1, <2>2, LengthsBounded
  <2>4. j = k + (p - Base)
    BY <1>1, <2>2, <2>3
  <2>5. ~Stuck(mask, text, Base, k)
    <3>1. k \in Nat /\ k + (p - Base) <= Len(text)
      BY <1>1, <2>3, <2>4
    <3>2. Literal(mask, text, Base, p - 1, k)
      BY <2>2
    <3>3. mask[p] = Star /\ mask \in Seq(Chars) /\ text \in Seq(Chars)
      BY <1>1, <1>2
    <3>4. QED
      BY <2>1, <3>1, <3>2, <3>3, NotStuck
  <2>6. ~(k < Low)
    BY <1>1, <2>2, <2>5
  <2>7. QED
    BY <1>1, <1>4, <2>3, <2>4, <2>6
<1>8. \A k \in Lengths(mask, text)[p] : ~(k < s - 1)
  BY <1>1, <1>5, <1>7
<1>9. NoStar(mask, p + 1, p)
  BY <1>1 DEF NoStar
<1>10. p + 1 - 1 = p /\ p + 1 \in 1 .. p + 1 /\ s - 1 = s - 1 + (p + 1 - (p + 1)) /\ s - 1 \in s - 1 .. Len(text)
  BY <1>1
<1>11. QED
  BY <1>2, <1>3, <1>6, <1>8, <1>9, <1>10 DEF Greedy

LEMMA AdvanceGreedy ==
    ASSUME Sound, Advance
    PROVE  Greedy'
<1>1. /\ mask \in Seq(Chars) /\ text \in Seq(Chars) /\ Len(mask) \in Nat /\ Len(text) \in Nat
      /\ s \in 1 .. Len(text) + 1 /\ p \in 1 .. Len(mask) + 1 /\ rs \in 0 .. s
      /\ s - 1 \in Lengths(mask, text)[p - 1]
      /\ Base \in 1 .. p /\ s - 1 = Low + (p - Base) /\ NoStar(mask, Base, p - 1)
      /\ \A k \in Lengths(mask, text)[Base - 1] : k < Low => Stuck(mask, text, Base, k)
      /\ rs # 0 => \A k \in Low .. Len(text) : k \in Lengths(mask, text)[Base - 1]
  BY DEF Sound, IInv, ReadsInBounds, Greedy
<1>2. /\ mask[p] # Star /\ p \in 1 .. Len(mask) /\ s \in 1 .. Len(text) /\ text[s] = mask[p]
      /\ rs' = rs /\ rp' = rp /\ p' = p + 1 /\ s' = s + 1 /\ mask' = mask /\ text' = text
  BY <1>1 DEF Advance, AtStar, AtEnd, Same, input
<1>3. Base' = Base /\ Low' = Low
  BY <1>2 DEF Base, Low
<1>4. Low \in Nat
  BY <1>1 DEF Low
<1> HIDE DEF Base, Low
<1>5. s \in Lengths(mask, text)[p]
  BY <1>1, <1>2, StarFacts
<1>6. NoStar(mask, Base, p)
  <2> SUFFICES ASSUME NEW l \in Base .. p PROVE mask[l] # Star
    BY DEF NoStar
  <2>1. l = p \/ l \in Base .. p - 1
    BY <1>1
  <2>2. QED
    BY <1>1, <1>2, <2>1 DEF NoStar
<1>7. p + 1 - 1 = p /\ s + 1 - 1 = s /\ Base \in 1 .. p + 1 /\ s = Low + (p + 1 - Base)
  BY <1>1, <1>4
<1>8. QED
  BY <1>1, <1>2, <1>3, <1>5, <1>6, <1>7 DEF Greedy

LEMMA RetryGreedy ==
    ASSUME Sound, Retry
    PROVE  Greedy'
<1>1. /\ mask \in Seq(Chars) /\ text \in Seq(Chars) /\ Len(mask) \in Nat /\ Len(text) \in Nat
      /\ s \in 1 .. Len(text) + 1 /\ p \in 1 .. Len(mask) + 1 /\ rs \in 0 .. s
      /\ Base \in 1 .. p
      /\ \A k \in Lengths(mask, text)[Base - 1] : k < Low => Stuck(mask, text, Base, k)
      /\ rs # 0 => \A k \in Low .. Len(text) : k \in Lengths(mask, text)[Base - 1]
  BY DEF Sound, IInv, ReadsInBounds, Greedy
<1>2. /\ rs # 0 /\ s \in 1 .. Len(text)
      /\ rs' = rs + 1 /\ s' = rs + 1 /\ p' = rp /\ rp' = rp /\ mask' = mask /\ text' = text
  BY <1>1 DEF Retry, AtEnd, input
<1>3. Base = rp /\ Base' = rp /\ Low = rs - 1 /\ Low' = rs
  BY <1>1, <1>2 DEF Base, Low
<1>4. Stuck(mask, text, Base, Low)
  BY StuckHere DEF Retry
<1>5. \A k \in Lengths(mask, text)[Base - 1] : k \in Nat
  <2>1. Base - 1 \in 0 .. Len(mask)
    BY <1>1
  <2>2. QED
    BY <1>1, <2>1, LengthsBounded
<1> HIDE DEF Base, Low
<1>6. \A k \in Lengths(mask, text)[rp - 1] : k < rs => Stuck(mask, text, rp, k)
  <2> SUFFICES ASSUME NEW k \in Lengths(mask, text)[rp - 1], k < rs PROVE Stuck(mask, text, rp, k)
    OBVIOUS
  <2>1. k < Low \/ k = Low
    BY <1>1, <1>3, <1>5
  <2>2. QED
    BY <1>1, <1>3, <1>4, <2>1
<1>7. \A k \in rs .. Len(text) : k \in Lengths(mask, text)[rp - 1]
  BY <1>1, <1>2, <1>3
<1>8. rs \in rs .. Len(text) /\ rs + 1 - 1 = rs /\ rp \in 1 .. rp /\ rs = rs + (rp - rp)
  BY <1>1, <1>2, <1>3
<1>9. NoStar(mask, rp, rp - 1)
  BY <1>1, <1>3 DEF NoStar
<1>10. QED
  BY <1>2, <1>3, <1>6, <1>7, <1>8, <1>9 DEF Greedy

\* What is returned is right.
LEMMA ResultCorrect ==
    ASSUME Sound, TextEnds \/ Fail
    PROVE  Correct'
<1>1. /\ mask \in Seq(Chars) /\ text \in Seq(Chars) /\ Len(mask) \in Nat /\ Len(text) \in Nat
      /\ s \in 1 .. Len(text) + 1 /\ p \in 1 .. Len(mask) + 1 /\ rs \in 0 .. s
      /\ s - 1 \in Lengths(mask, text)[p - 1]
      /\ Base \in 1 .. p /\ s - 1 = Low + (p - Base) /\ NoStar(mask, Base, p - 1)
      /\ \A k \in Lengths(mask, text)[Base - 1] : k < Low => Stuck(mask, text, Base, k)
  BY DEF Sound, IInv, ReadsInBounds, Greedy
<1>2. mask' = mask /\ text' = text /\ ~AtStar
  BY DEF TextEnds, Fail, input
<1>3. Base \in 1 .. Len(mask) + 1 /\ Base - 1 \in 0 .. Len(mask) /\ Low \in Nat
  BY <1>1 DEF Low
<1>4. \A k \in Lengths(mask, text)[Base - 1] : k \in 0 .. Len(text)
  BY <1>1, <1>3, LengthsBounded
<1>5. ASSUME TextEnds, AtEnd(mask, p) PROVE Correct'
  <2>1. s = Len(text) + 1 /\ p = Len(mask) + 1 /\ result' = "fits"
    BY <1>5 DEF TextEnds, AtEnd
  <2>2. s - 1 = Len(text) /\ p - 1 = Len(mask)
    BY <1>1, <2>1
  <2>3. Fits(mask, text)
    BY <1>1, <2>2 DEF Fits
  <2>4. QED
    BY <1>2, <2>1, <2>3 DEF Correct
<1>6. ASSUME TextEnds, ~AtEnd(mask, p) PROVE Correct'
  <2>1. s = Len(text) + 1 /\ p \in 1 .. Len(mask) /\ result' = "differs"
    BY <1>1, <1>6 DEF TextEnds, AtEnd
  <2>2. ASSUME NEW k \in Lengths(mask, text)[Base - 1], ~(k < Low)
        PROVE  Stuck(mask, text, Base, k)
    <3> HIDE DEF Base, Low
    <3>1. p \in Base .. Len(mask) + 1 /\ k \in Nat
      BY <1>1, <1>4
    <3>2. k + (p - Base) + 1 > Len(text)
      BY <1>1, <1>3, <2>1, <2>2, <3>1
    <3>3. ~(k + (p - Base) + 1 <= Len(text))
      BY <1>1, <1>3, <3>1, <3>2
    <3>4. mask[p] # Star /\ p # Len(mask) + 1
      BY <1>1, <1>2, <2>1 DEF AtStar, AtEnd
    <3>5. QED
      BY <1>1, <3>1, <3>3, <3>4 DEF Stuck
  <2>3. \A k \in Lengths(mask, text)[Base - 1] : Stuck(mask, text, Base, k)
    BY <1>1, <2>2
  <2>4. ~Fits(mask, text)
    BY <1>1, <1>3, <2>3, AllStuck
  <2>5. QED
    BY <1>2, <2>1, <2>4 DEF Correct
<1>7. ASSUME Fail PROVE Correct'
  <2>1. rs = 0 /\ result' = "differs"
    BY <1>7 DEF Fail
  <2>2. Base = 1 /\ Low = 0
    BY <2>1 DEF Base, Low
  <2>3. Lengths(mask, text)[Base - 1] = {Low}
    BY <1>1, <2>2, LengthsFacts
  <2>4. Stuck(mask, text, Base, Low)
    BY <1>7, StuckHere DEF Fail
  <2>5. ~Fits(mask, text)
    BY <1>1, <1>3, <2>3, <2>4, AllStuck
  <2>6. QED
    BY <1>2, <2>1, <2>5 DEF Correct
<1>8. QED
  BY <1>5, <1>6, <1>7

LEMMA StepSound ==
    ASSUME Sound, [Next]_vars
    PROVE  Sound'
<1>1. IInv'
  BY StepIInv DEF Sound
<1>2. ASSUME result' = "none" PROVE Correct'
  BY <1>2 DEF Correct
<1>3. ASSUME UNCHANGED <<input, s, p, rs, rp>> PROVE Greedy'
  BY <1>3 DEF Sound, Greedy, Base, Low, input
<1>4. CASE TakeStar
  BY <1>1, <1>2, <1>4, TakeStarGreedy DEF Sound, TakeStar
<1>5. CASE Advance
  BY <1>1, <1>2, <1>5, AdvanceGreedy DEF Sound, Advance
<1>6. CASE Retry
  BY <1>1, <1>2, <1>6, RetryGreedy DEF Sound, Retry
<1>7. CASE TextEnds \/ Fail
  BY <1>1, <1>3, <1>7, ResultCorrect DEF Sound, TextEnds, Fail
<1>8. CASE Returned \/ UNCHANGED vars
  <2>1. UNCHANGED <<input, s, p, rs, rp>> /\ UNCHANGED <<result, mask, text>>
    BY <1>8 DEF Returned, vars, input
  <2>2. Correct'
    BY <2>1 DEF Sound, Correct
  <2>3. QED
    BY <1>1, <1>3, <2>1, <2>2 DEF Sound
<1>9. QED
  BY <1>4, <1>5, <1>6, <1>7, <1>8 DEF Next

\* isEqualToRegex, which only ever goes back to the last '*', returns for every
\* mask and every text whether the mask fits: a ban or a WHO mask is never
\* found to differ because an earlier '*' was given too little.
THEOREM ResultIsRight == Spec => []Correct
<1>1. Sound => Correct
  BY DEF Sound
<1>2. QED
  BY <1>1, InitSound, StepSound, PTL DEF Spec

=============================================================================
