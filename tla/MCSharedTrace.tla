---------------------------- MODULE MCSharedTrace ----------------------------
(***************************************************************************)
(* Instance of SharedTrace for TLC: two pages of two leaf lines of two     *)
(* granules, one kind of set tags.  One page with two slots is what it     *)
(* takes for a root line to keep a bit while another goes, two granules    *)
(* for a leaf line to keep tags while others go, or to change without      *)
(* moving between Morello's two caches.                                    *)
(***************************************************************************)
EXTENDS SharedTrace, TLC

symm == Permutations(Page) \cup Permutations(Slot) \cup Permutations(Granule)
==============================================================================
