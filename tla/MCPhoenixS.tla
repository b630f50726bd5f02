------------------------------ MODULE MCPhoenixS ------------------------------
(***************************************************************************)
(* Instance of PhoenixS for TLC: two pages of two leaf lines of two        *)
(* granules, one page in the working set.  Both pages share one root line, *)
(* the least that can show what siblings do to each other.                 *)
(***************************************************************************)
EXTENDS PhoenixSStats

CONSTANT line

SharedLine(p) == line

symm == Permutations(Page) \cup Permutations(Slot) \cup Permutations(Granule)
==============================================================================
