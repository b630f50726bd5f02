------------------------------ MODULE MCPhoenix ------------------------------
(***************************************************************************)
(* Instance of Phoenix and its statistics for TLC: two pages of two leaf   *)
(* lines of two granules, one page in the working set, so that every level *)
(* keeps some tags while others go, and pages evict each other.            *)
(***************************************************************************)
EXTENDS PhoenixStats

symm == Permutations(Page) \cup Permutations(Slot) \cup Permutations(Granule)
==============================================================================
