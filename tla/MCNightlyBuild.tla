--------------------------- MODULE MCNightlyBuild ---------------------------
(* Two overlapping runs; two revisions and two lock files make keys differ *)
(* in either part.                                                         *)
EXTENDS NightlyBuild, TLC

Symmetric == Permutations(Runs) \cup Permutations(WarmLegs) \cup Permutations(Shas)
=============================================================================
