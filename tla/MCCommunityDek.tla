--------------------------- MODULE MCCommunityDek ---------------------------
(* Instances of the community DEK cascade for TLC.                          *)
EXTENDS CommunityDek, TLC

Symmetry == Permutations(Members) \cup Permutations(Calls)

CSym == Permutations(Calls)
=============================================================================
