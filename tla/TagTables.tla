------------------------------ MODULE TagTables ------------------------------
(***************************************************************************)
(* The data every controller of src/simulator/include works on.            *)
(*                                                                         *)
(* A data address is a page, a leaf line (slot) of that page and a granule *)
(* (the four tag bits of one data cacheline) of that leaf line.  The real  *)
(* geometry is fixed by shifts in the translate*Addr functions: a leaf     *)
(* line is 512 tag bits, so 128 granules, and has one root bit.  For       *)
(* ETMController and PhoenixController a page is the 512 leaf lines that   *)
(* share one root line, for PhoenixSController it is 64 of them.  The      *)
(* module SetupProofs shows that the shifts have this product shape.       *)
(*                                                                         *)
(* The four tag bits of a granule are one value of Tags.  The code only    *)
(* ever asks whether they are all zero, which is NoTags.                   *)
(***************************************************************************)

EXTENDS Naturals

CONSTANTS Page, Slot, Granule, Tags, NoTags

ASSUME NoTagsAssumption == NoTags \in Tags

Addr == [page: Page, slot: Slot, granule: Granule]

LeafLine == [Granule -> Tags]
RootLine == [Slot -> BOOLEAN]

\* Cacheline{}, the value-initialised line, as a leaf line and as a root line.
ZeroLeaf == [g \in Granule |-> NoTags]
ZeroRoot == [s \in Slot |-> FALSE]

modifyTags(line, g, tags) == [line EXCEPT ![g] = tags]
modifyTag(line, s, tag)   == [line EXCEPT ![s] = tag]

\* The tables start from an arbitrary initial-state file.
LeafTable == [Page -> [Slot -> LeafLine]]

\* Setup gives every leaf line the root bit that says it is not clear.
RootOf(leaf) == [p \in Page |-> [s \in Slot |-> leaf[p][s] # ZeroLeaf]]

(***************************************************************************)
(* What a handler does to memory, in order: the tag cachelines it reads    *)
(* and writes through Memory::doRead and Memory::doWrite.  These are the   *)
(* entries of the output trace, the product of a simulation.               *)
(***************************************************************************)
LeafId(a) == <<"leaf", a.page, a.slot>>
RootId(p) == <<"root", p>>
SuperId   == <<"super">>

Rd(id) == [op |-> "read", line |-> id]
Wr(id) == [op |-> "write", line |-> id]

\* Sequence t has the elements of s at the places of K, in the order of s.
Picks(t, s, K) ==
    \E f \in [DOMAIN t -> K] :
        /\ \A i, j \in DOMAIN t : i < j => f[i] < f[j]
        /\ \A k \in K : \E i \in DOMAIN t : f[i] = k
        /\ \A i \in DOMAIN t : t[i] = s[f[i]]

\* The request a controller has just served, with the tags read or written.
Request == [op: {"read", "write"}, addr: Addr, tags: Tags]
Ready   == [op |-> "setup"]
Served(op, a, tags) == [op |-> op, addr |-> a, tags |-> tags]
==============================================================================
