----------------------------- MODULE MCChannels -----------------------------
(* Model values and finite instances of Channels for TLC. *)
EXTENDS Channels, TLC

CONSTANTS w1, w2, w3, anon

MCMasks == {{w2}}
Symmetry == Permutations(Names)
IdSymmetry == Permutations(ChanIds)

\* A list with a phantom entry, and a channel with speakers, are explored with
\* two clients.
Few ==
    "phantom" \in past \/ (\E id \in ChanIds : chan[id].voices # {}) => size <= 2
=============================================================================
