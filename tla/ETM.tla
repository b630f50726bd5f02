--------------------------------- MODULE ETM ---------------------------------
(***************************************************************************)
(* ETMController.h: a two-level tag table.  A root bit says whether its    *)
(* leaf line holds any tag; a leaf line whose root bit is clear is never   *)
(* looked at, and what memory then holds for it is left over from earlier. *)
(***************************************************************************)
EXTENDS TagTables, Naturals, Sequences

VARIABLES
    root,    \* root table: for each page (root line) and slot, one bit
    leaf,    \* leaf table as memory holds it, stale lines included
    reply,   \* the request served last
    traffic  \* the memory accesses the last handler made, in order

vars == <<root, leaf, reply, traffic>>

\* The constructor and setup: both tables are filled without being traced.
Init ==
    /\ leaf \in LeafTable
    /\ root = RootOf(leaf)
    /\ reply = Ready
    /\ traffic = <<>>

rootTag(a)  == root[a.page][a.slot]
leafLine(a) == leaf[a.page][a.slot]

-----------------------------------------------------------------------------
(* handleRead *)

\* Fault: the leaf line is fetched before the root bit is tested.
ReadBoth(a) ==
    /\ ~rootTag(a)
    /\ reply' = Served("read", a, NoTags)
    /\ traffic' = <<Rd(RootId(a.page)), Rd(LeafId(a))>>
    /\ UNCHANGED <<root, leaf>>

ReadRootClear(a) ==
    /\ ~rootTag(a)
    /\ reply' = Served("read", a, NoTags)
    /\ traffic' = <<Rd(RootId(a.page))>>
    /\ UNCHANGED <<root, leaf>>

ReadLeaf(a) ==
    /\ rootTag(a)
    /\ reply' = Served("read", a, leafLine(a)[a.granule])
    /\ traffic' = <<Rd(RootId(a.page)), Rd(LeafId(a))>>
    /\ UNCHANGED <<root, leaf>>

handleRead(a) == ReadRootClear(a) \/ ReadLeaf(a)

-----------------------------------------------------------------------------
(* handleWrite *)

\* Fault: the leaf line is stored at the address of the root line.
writeLeafAtRoot(a, tag) == root' = [root EXCEPT ![a.page] = leafLine(a)]

writeRootTag(a, tag) == root' = [root EXCEPT ![a.page] = modifyTag(@, a.slot, tag)]
writeLeafLine(a, line) == leaf' = [leaf EXCEPT ![a.page][a.slot] = line]

\* Fault: the tags are added to what memory still holds for the line.
WriteStaleLine(a, tags) ==
    /\ tags # NoTags
    /\ ~rootTag(a)
    /\ writeRootTag(a, TRUE)
    /\ writeLeafLine(a, modifyTags(leafLine(a), a.granule, tags))
    /\ traffic' = <<Rd(RootId(a.page)), Wr(RootId(a.page)), Wr(LeafId(a))>>
    /\ reply' = Served("write", a, tags)

\* The first tags of a line: whatever memory holds for it is not read.
WriteFreshLine(a, tags) ==
    /\ tags # NoTags
    /\ ~rootTag(a)
    /\ writeRootTag(a, TRUE)
    /\ writeLeafLine(a, modifyTags(ZeroLeaf, a.granule, tags))
    /\ traffic' = <<Rd(RootId(a.page)), Wr(RootId(a.page)), Wr(LeafId(a))>>
    /\ reply' = Served("write", a, tags)

WriteLine(a, tags) ==
    /\ tags # NoTags
    /\ rootTag(a)
    /\ writeLeafLine(a, modifyTags(leafLine(a), a.granule, tags))
    /\ traffic' = <<Rd(RootId(a.page)), Rd(LeafId(a)), Wr(LeafId(a))>>
    /\ reply' = Served("write", a, tags)
    /\ UNCHANGED root

ClearNothing(a) ==
    /\ ~rootTag(a)
    /\ reply' = Served("write", a, NoTags)
    /\ traffic' = <<Rd(RootId(a.page))>>
    /\ UNCHANGED <<root, leaf>>

\* The leaf line without the tags of a, as the handler holds it in leaf_line.
cleared(a) == modifyTags(leafLine(a), a.granule, NoTags)

\* Fault: isClear is asked before the tags are cleared.
ClearSomeEarly(a) ==
    /\ rootTag(a)
    /\ leafLine(a) # ZeroLeaf
    /\ writeLeafLine(a, cleared(a))
    /\ traffic' = <<Rd(RootId(a.page)), Rd(LeafId(a)), Wr(LeafId(a))>>
    /\ reply' = Served("write", a, NoTags)
    /\ UNCHANGED root

ClearSome(a) ==
    /\ rootTag(a)
    /\ cleared(a) # ZeroLeaf
    /\ writeLeafLine(a, cleared(a))
    /\ traffic' = <<Rd(RootId(a.page)), Rd(LeafId(a)), Wr(LeafId(a))>>
    /\ reply' = Served("write", a, NoTags)
    /\ UNCHANGED root

\* The last tags of a line go: the root bit is cleared, the leaf line is left
\* in memory as it was.
ClearLast(a) ==
    /\ rootTag(a)
    /\ cleared(a) = ZeroLeaf
    /\ writeRootTag(a, FALSE)
    /\ traffic' = <<Rd(RootId(a.page)), Rd(LeafId(a)), Rd(RootId(a.page)), Wr(RootId(a.page))>>
    /\ reply' = Served("write", a, NoTags)
    /\ UNCHANGED leaf

handleWrite(a, tags) ==
    \/ WriteFreshLine(a, tags)
    \/ WriteLine(a, tags)
    \/ tags = NoTags /\ (ClearNothing(a) \/ ClearSome(a) \/ ClearLast(a))

Next ==
    \E a \in Addr :
        \/ handleRead(a)
        \/ \E tags \in Tags : handleWrite(a, tags)

Spec == Init /\ [][Next]_vars

-----------------------------------------------------------------------------
(* Properties *)

\* Type invariant of the two tables, the reply and the trace of the handler.
Access == [op: {"read", "write"},
           line: {RootId(p) : p \in Page} \cup {LeafId(a) : a \in Addr}]

TypeOK ==
    /\ root \in [Page -> RootLine]
    /\ leaf \in LeafTable
    /\ reply \in {Ready} \cup Request
    /\ traffic \in Seq(Access)

\* A root bit is set only over a leaf line that holds a tag (the converse is
\* how the tags are read).  ClearLast must see that the line it has just
\* changed is the last one with tags, whatever sequence of writes led there.
NoIdleRootBit ==
    \A p \in Page, s \in Slot : root[p][s] => leaf[p][s] # ZeroLeaf

\* The tags the two tables stand for.
tagsOf == [a \in Addr |-> IF rootTag(a) THEN leafLine(a)[a.granule] ELSE NoTags]

\* A leaf line is fetched or stored only for a line that holds a tag before or
\* after the request: the root level keeps all other traffic away from the leaf
\* table, which is what the second level is for.
HoldsTag(tags, p, s) ==
    \E a \in Addr : a.page = p /\ a.slot = s /\ tags[a] # NoTags

LeafTrafficOnlyForTags ==
    [][\A i \in 1 .. Len(traffic'), p \in Page, s \in Slot :
          traffic'[i].line = <<"leaf", p, s>>
              => HoldsTag(tagsOf, p, s) \/ HoldsTag(tagsOf', p, s)]_vars

\* The two tables, stale leaf lines and all, behave as one table of tags.
Store == INSTANCE TagStore WITH table <- tagsOf
StoreSpec == Store!Spec
==============================================================================
