----------------------------- MODULE MCMessages -----------------------------
(* Model values and finite instances of Messages for TLC. *)
EXTENDS Messages, TLC

CONSTANT anon

Symmetry == Permutations(Names) \cup Permutations(ChanNames) \cup Permutations(ChanIds)

\* One channel at a time has a flag, and one has a speaker, and no client has
\* flags once a list has a phantom entry.  What happens once a pointer is stale,
\* of which the properties claim nothing, or may be that of a client without a
\* nickname, which MCMembership.cfg goes into, is explored as far as one client.
Brief ==
    /\ Cardinality(UNION {{id} \X chan[id].flags : id \in ChanIds}) <= 1
    /\ Cardinality(UNION {{id} \X chan[id].voices : id \in ChanIds}) <= 1
    /\ "phantom" \in past => \A i \in Slots : modes[i] = {}
    /\ past \cap {"stale", "noname"} # {} => "phantom" \notin past /\ leaver = NoSlot /\ size <= 1
=============================================================================
