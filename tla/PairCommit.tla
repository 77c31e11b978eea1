----------------------------- MODULE PairCommit -----------------------------
(***************************************************************************)
(* What the handshake of two hosts promises for each pair of NICs: the     *)
(* side that connects commits the pair first, the side that accepts        *)
(* follows, and neither takes its decision back.  The module says nothing  *)
(* of how the two sides talk to each other.                                *)
(***************************************************************************)
CONSTANT Pairs

VARIABLES active,    \* the pairs the connecting side holds ready for use
          passive    \* the pairs the accepting side holds ready for use

Init == active = {} /\ passive = {}

ActiveCommits == active \subseteq active' /\ active' \subseteq Pairs /\ UNCHANGED passive

PassiveFollows == passive \subseteq passive' /\ passive' \subseteq active /\ UNCHANGED active

Next == ActiveCommits \/ PassiveFollows

Spec == Init /\ [][Next]_<<active, passive>>
=============================================================================
