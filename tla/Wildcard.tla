------------------------------ MODULE Wildcard ------------------------------
(***************************************************************************)
(* isEqualToRegex: does a mask, in which '*' stands for any text, fit a    *)
(* text?  utils.cpp has it for the ban masks of a channel (Channels knows  *)
(* a mask by the set of names it fits), and Command a copy of it for WHO   *)
(* and WHOIS.                                                              *)
(*                                                                         *)
(* The C pointers s, p, rs and rp are positions, the one behind the last   *)
(* character being that of the NUL; rs = 0 is the null pointer.  Each      *)
(* action is one turn of the loop, by one of its five branches.            *)
(***************************************************************************)
EXTENDS Integers, Sequences

CONSTANTS
    Letters,  \* characters
    Star,     \* the character '*', which may occur in a text as well
    MaxMask,  \* bound on the length of a mask
    MaxText   \* bound on the length of a text

ASSUME LengthAssumption == MaxMask \in Nat /\ MaxText \in Nat

VARIABLES
    mask,   \* the mask and
    text,   \* the text compared: neither changes
    s,      \* next character of text
    p,      \* next character of mask
    rs,     \* where the text behind the last '*' was taken to begin, or 0
    rp,     \* the character of mask behind the last '*'
    result  \* "fits" or "differs", what is returned, or "none" so far

input == <<mask, text>>
vars == <<mask, text, s, p, rs, rp, result>>

Chars == Letters \cup {Star}

Strings(n) == UNION {[1 .. k -> Chars] : k \in 0 .. n}

\* Whether a pointer has come to the NUL.
AtEnd(string, k) == k = Len(string) + 1

AtStar == ~AtEnd(mask, p) /\ mask[p] = Star
Same == ~AtEnd(mask, p) /\ text[s] = mask[p]

Init ==
    /\ mask \in Strings(MaxMask)
    /\ text \in Strings(MaxText)
    /\ s = 1
    /\ p = 1
    /\ rs = 0
    /\ rp = 0
    /\ result = "none"

\* A '*' first stands for nothing.
TakeStar ==
    /\ result = "none"
    /\ AtStar
    /\ rs' = s
    /\ rp' = p + 1
    /\ p' = p + 1
    /\ UNCHANGED <<input, s, result>>

TextEnds ==
    /\ result = "none"
    /\ ~AtStar
    /\ AtEnd(text, s)
    /\ result' = IF AtEnd(mask, p) THEN "fits" ELSE "differs"
    /\ UNCHANGED <<input, s, p, rs, rp>>

\* Mutant: the NUL is compared like any character.
AdvancePastEnd ==
    /\ result = "none"
    /\ ~AtStar
    /\ (AtEnd(text, s) /\ AtEnd(mask, p)) \/ (~AtEnd(text, s) /\ Same)
    /\ s' = s + 1
    /\ p' = p + 1
    /\ UNCHANGED <<input, rs, rp, result>>

Advance ==
    /\ result = "none"
    /\ ~AtStar
    /\ ~AtEnd(text, s)
    /\ Same
    /\ s' = s + 1
    /\ p' = p + 1
    /\ UNCHANGED <<input, rs, rp, result>>

\* Mutant: the '*' takes all that has fitted, and one more.
RetryAhead ==
    /\ result = "none"
    /\ ~AtStar
    /\ ~AtEnd(text, s)
    /\ ~Same
    /\ rs # 0
    /\ rs' = s + 1
    /\ s' = s + 1
    /\ p' = rp
    /\ UNCHANGED <<input, rp, result>>

\* Mutant: the '*' takes no more than before.
RetryInPlace ==
    /\ result = "none"
    /\ ~AtStar
    /\ ~AtEnd(text, s)
    /\ ~Same
    /\ rs # 0
    /\ s' = rs
    /\ p' = rp
    /\ UNCHANGED <<input, rs, rp, result>>

\* The last '*' takes one character more; the ones before stay as they are.
Retry ==
    /\ result = "none"
    /\ ~AtStar
    /\ ~AtEnd(text, s)
    /\ ~Same
    /\ rs # 0
    /\ rs' = rs + 1
    /\ s' = rs + 1
    /\ p' = rp
    /\ UNCHANGED <<input, rp, result>>

Fail ==
    /\ result = "none"
    /\ ~AtStar
    /\ ~AtEnd(text, s)
    /\ ~Same
    /\ rs = 0
    /\ result' = "differs"
    /\ UNCHANGED <<input, s, p, rs, rp>>

Returned == result # "none" /\ UNCHANGED vars

Next == TakeStar \/ TextEnds \/ Advance \/ Retry \/ Fail \/ Returned

Spec == Init /\ [][Next]_vars

\* The loop runs by itself.
FairSpec == Spec /\ WF_vars(Next)

-----------------------------------------------------------------------------
\* Neither string is read behind its NUL: each pointer stays within its
\* string, and so do the places the loop may go back to.
ReadsInBounds ==
    /\ s \in 1 .. Len(text) + 1
    /\ p \in 1 .. Len(mask) + 1
    /\ rs \in 0 .. s
    /\ rp \in 0 .. p
    /\ rs # 0 => rp # 0

\* What it means that a mask fits a text.  Its first i characters fit the first j
\* of the text for the lengths j that Lengths gives for i: a '*' is as long as it
\* likes, and any other character is the next of the text.
OneMore(m, t, i, before) ==
    IF m[i] = Star THEN {j \in 0 .. Len(t) : \E k \in before : k <= j}
    ELSE {j \in 1 .. Len(t) : t[j] = m[i] /\ j - 1 \in before}

Lengths(m, t) ==
    LET fits[i \in 0 .. Len(m)] == IF i = 0 THEN {0} ELSE OneMore(m, t, i, fits[i - 1])
    IN  fits

Fits(m, t) == Len(t) \in Lengths(m, t)[Len(m)]

\* The loop, which only ever goes back to the last '*', returns whether the
\* mask fits.
Correct == result # "none" => (result = "fits" <=> Fits(mask, text))

\* Why the loop ends: each turn that does not return moves rp forward, or
\* else rs, or else s, and none of the three passes its NUL.
Ascends ==
    [][\/ result' # "none"
       \/ rp' > rp
       \/ rp' = rp /\ rs' > rs
       \/ rp' = rp /\ rs' = rs /\ s' > s]_vars

\* Whatever the mask and the text, the loop ends.
Terminates == <>(result # "none")
=============================================================================
