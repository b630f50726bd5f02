------------------------------- MODULE Phoenix -------------------------------
(***************************************************************************)
(* PhoenixController.h: the tag table has a third level, the superroot,    *)
(* with one bit per page of tags, and a page of tags has DRAM only while   *)
(* it holds a tag or is in the tag working set.  A read of a page in the   *)
(* working set skips the superroot.                                        *)
(*                                                                         *)
(* The statistics the handlers keep of this are in PhoenixStats.           *)
(***************************************************************************)
EXTENDS DramSteps, TagWorkingSet

VARIABLES
    super,      \* superroot table: one bit for each page
    root,       \* root table, one line for each page, one bit for each leaf line
    leaf,       \* leaf table as memory holds it, stale lines included
    tws,        \* tag_working_set, least recently used page first
    allocated,  \* the pages that have DRAM
    reply,      \* the request served last
    steps       \* what the last handler did: memory accesses, allocs and frees

vars == <<super, root, leaf, tws, allocated, reply, steps>>

\* The constructor and setup.
Init ==
    /\ leaf \in LeafTable
    /\ root = RootOf(leaf)
    /\ super = [p \in Page |-> root[p] # ZeroRoot]
    /\ tws = <<>>
    /\ allocated = {p \in Page : root[p] # ZeroRoot}
    /\ reply = Ready
    /\ steps = <<>>

rootTag(a)  == root[a.page][a.slot]
leafLine(a) == leaf[a.page][a.slot]

-----------------------------------------------------------------------------
(* updateTWS, with isBlockClear and DRAMFree of the page it evicts *)

\* Faults: every evicted page is freed; no evicted page is.
freesAny(p)   == evicts(tws, p)
noneUnused(p) == {}

\* The evicted page is freed if its superroot bit is clear.
frees(p)  == evicts(tws, p) /\ ~super[evicted(tws, p)]
unused(p) == IF frees(p) THEN {evicted(tws, p)} ELSE {}

updateSteps(p) ==
    IF frees(p) THEN <<Rd(SuperId), Free(evicted(tws, p))>>
    ELSE IF evicts(tws, p) THEN <<Rd(SuperId)>>
    ELSE <<>>

-----------------------------------------------------------------------------
(* handleRead *)

\* The way down to the root line.
reachesRoot(p) == isInTWS(tws, p) \/ super[p]
superSteps(p) == IF isInTWS(tws, p) THEN <<>> ELSE <<Rd(SuperId)>>

ReadSuperClear(a) ==
    /\ ~reachesRoot(a.page)
    /\ reply' = Served("read", a, NoTags)
    /\ steps' = superSteps(a.page)
    /\ UNCHANGED <<super, root, leaf, tws, allocated>>

ReadRootClear(a) ==
    /\ reachesRoot(a.page)
    /\ ~rootTag(a)
    /\ reply' = Served("read", a, NoTags)
    /\ steps' = superSteps(a.page) \o <<Rd(RootId(a.page))>>
    /\ UNCHANGED <<super, root, leaf, tws, allocated>>

leafSteps(a) == superSteps(a.page) \o <<Rd(RootId(a.page)), Rd(LeafId(a))>>

ReadTags(a) ==
    /\ reachesRoot(a.page)
    /\ rootTag(a)
    /\ leafLine(a)[a.granule] # NoTags
    /\ reply' = Served("read", a, leafLine(a)[a.granule])
    /\ steps' = leafSteps(a)
    /\ UNCHANGED <<super, root, leaf, tws, allocated>>

\* if (!tags) updateTWS(index)
ReadZeroTags(a) ==
    /\ reachesRoot(a.page)
    /\ rootTag(a)
    /\ leafLine(a)[a.granule] = NoTags
    /\ tws' = touched(tws, a.page)
    /\ allocated' = allocated \ unused(a.page)
    /\ reply' = Served("read", a, NoTags)
    /\ steps' = leafSteps(a) \o updateSteps(a.page)
    /\ UNCHANGED <<super, root, leaf>>

handleRead(a) ==
    ReadSuperClear(a) \/ ReadRootClear(a) \/ ReadTags(a) \/ ReadZeroTags(a)

-----------------------------------------------------------------------------
(* handleWrite of zero tags: the superroot is always read *)

\* Fault: a leaf line of the page is stored at the address of the root line.
writeLeafAtRoot(p, line) == \E s \in Slot : root' = [root EXCEPT ![p] = leaf[p][s]]

writeRootLine(p, line) == root' = [root EXCEPT ![p] = line]
writeLeafLine(a, line) == leaf' = [leaf EXCEPT ![a.page][a.slot] = line]

ClearNothing(a) ==
    /\ ~(super[a.page] /\ rootTag(a))
    /\ reply' = Served("write", a, NoTags)
    /\ steps' = <<Rd(SuperId)>> \o IF super[a.page] THEN <<Rd(RootId(a.page))>> ELSE <<>>
    /\ UNCHANGED <<super, root, leaf, tws, allocated>>

\* Fault: the root line written back is a new one.
clearedNewRoot(a) == modifyTag(ZeroRoot, a.slot, FALSE)

\* The lines without the tags of a, as the handler holds them.
cleared(a)     == modifyTags(leafLine(a), a.granule, NoTags)
clearedRoot(a) == modifyTag(root[a.page], a.slot, FALSE)

clearSteps(a) == <<Rd(SuperId), Rd(RootId(a.page)), Rd(LeafId(a))>>

ClearSome(a) ==
    /\ super[a.page]
    /\ rootTag(a)
    /\ cleared(a) # ZeroLeaf
    /\ writeLeafLine(a, cleared(a))
    /\ reply' = Served("write", a, NoTags)
    /\ steps' = clearSteps(a) \o <<Wr(LeafId(a))>>
    /\ UNCHANGED <<super, root, tws, allocated>>

\* Fault: whether the root line is clear now is not asked.
ClearLineOnly(a) ==
    /\ super[a.page]
    /\ rootTag(a)
    /\ cleared(a) = ZeroLeaf
    /\ writeRootLine(a.page, clearedRoot(a))
    /\ reply' = Served("write", a, NoTags)
    /\ steps' = clearSteps(a) \o <<Wr(RootId(a.page))>>
    /\ UNCHANGED <<super, leaf, tws, allocated>>

\* The last tags of the leaf line; the line itself is left in memory as it was.
ClearLine(a) ==
    /\ super[a.page]
    /\ rootTag(a)
    /\ cleared(a) = ZeroLeaf
    /\ clearedRoot(a) # ZeroRoot
    /\ writeRootLine(a.page, clearedRoot(a))
    /\ reply' = Served("write", a, NoTags)
    /\ steps' = clearSteps(a) \o <<Wr(RootId(a.page))>>
    /\ UNCHANGED <<super, leaf, tws, allocated>>

\* Fault: the page is freed although it is in the TWS.
ClearPageFrees(a) ==
    /\ super[a.page]
    /\ rootTag(a)
    /\ cleared(a) = ZeroLeaf
    /\ clearedRoot(a) = ZeroRoot
    /\ writeRootLine(a.page, clearedRoot(a))
    /\ super' = [super EXCEPT ![a.page] = FALSE]
    /\ steps' = clearSteps(a) \o <<Wr(RootId(a.page)), Wr(SuperId), Free(a.page)>>
    /\ allocated' = allocated \ {a.page}
    /\ reply' = Served("write", a, NoTags)
    /\ UNCHANGED <<leaf, tws>>

\* The last tags of the page: it keeps its DRAM only as part of the TWS.
ClearPage(a) ==
    /\ super[a.page]
    /\ rootTag(a)
    /\ cleared(a) = ZeroLeaf
    /\ clearedRoot(a) = ZeroRoot
    /\ writeRootLine(a.page, clearedRoot(a))
    /\ super' = [super EXCEPT ![a.page] = FALSE]
    /\ \/ /\ isInTWS(tws, a.page)
          /\ steps' = clearSteps(a) \o <<Wr(RootId(a.page)), Wr(SuperId)>>
          /\ UNCHANGED allocated
       \/ /\ ~isInTWS(tws, a.page)
          /\ steps' = clearSteps(a) \o <<Wr(RootId(a.page)), Wr(SuperId), Free(a.page)>>
          /\ allocated' = allocated \ {a.page}
    /\ reply' = Served("write", a, NoTags)
    /\ UNCHANGED <<leaf, tws>>

-----------------------------------------------------------------------------
(* handleWrite of non-zero tags: the page is touched first *)

storeSteps(p) == updateSteps(p) \o <<Rd(SuperId)>>

\* DRAMAllocate, unless the page was in the TWS.
allocSteps(p) == IF isInTWS(tws, p) THEN <<>> ELSE <<Alloc(p)>>

\* Fault: the page is allocated before updateTWS has freed the page it evicts.
takeStepsAllocFirst(p) == allocSteps(p) \o storeSteps(p)

takeSteps(p) == storeSteps(p) \o allocSteps(p)

\* The first tags of a page, allocated unless it was in the TWS; neither the
\* root line nor the leaf line in memory is read.
WriteFreshPage(a, tags) ==
    /\ ~super[a.page]
    /\ tws' = touched(tws, a.page)
    /\ allocated' = (allocated \ unused(a.page)) \cup ({a.page} \ ToSet(tws))
    /\ super' = [super EXCEPT ![a.page] = TRUE]
    /\ writeRootLine(a.page, modifyTag(ZeroRoot, a.slot, TRUE))
    /\ writeLeafLine(a, modifyTags(ZeroLeaf, a.granule, tags))
    /\ reply' = Served("write", a, tags)
    /\ steps' = takeSteps(a.page)
                \o <<Wr(SuperId), Wr(RootId(a.page)), Wr(LeafId(a))>>

\* The first tags of a leaf line of a page with tags.
WriteFreshLine(a, tags) ==
    /\ super[a.page]
    /\ ~rootTag(a)
    /\ tws' = touched(tws, a.page)
    /\ allocated' = allocated \ unused(a.page)
    /\ writeRootLine(a.page, modifyTag(root[a.page], a.slot, TRUE))
    /\ writeLeafLine(a, modifyTags(ZeroLeaf, a.granule, tags))
    /\ reply' = Served("write", a, tags)
    /\ steps' = storeSteps(a.page)
                \o <<Rd(RootId(a.page)), Wr(RootId(a.page)), Wr(LeafId(a))>>
    /\ UNCHANGED super

WriteLine(a, tags) ==
    /\ super[a.page]
    /\ rootTag(a)
    /\ tws' = touched(tws, a.page)
    /\ allocated' = allocated \ unused(a.page)
    /\ writeLeafLine(a, modifyTags(leafLine(a), a.granule, tags))
    /\ reply' = Served("write", a, tags)
    /\ steps' = storeSteps(a.page)
                \o <<Rd(RootId(a.page)), Rd(LeafId(a)), Wr(LeafId(a))>>
    /\ UNCHANGED <<super, root>>

handleWrite(a, tags) ==
    \/ tags = NoTags /\ (ClearNothing(a) \/ ClearSome(a) \/ ClearLine(a) \/ ClearPage(a))
    \/ tags # NoTags /\ (\/ WriteFreshPage(a, tags)
                         \/ WriteFreshLine(a, tags)
                         \/ WriteLine(a, tags))

Next ==
    \E a \in Addr :
        \/ handleRead(a)
        \/ \E tags \in Tags : handleWrite(a, tags)

Spec == Init /\ [][Next]_vars

-----------------------------------------------------------------------------
(* Properties *)

\* The lines of the three tag tables.
LineIds == {SuperId} \cup {RootId(p) : p \in Page} \cup {LeafId(a) : a \in Addr}

\* Type invariant; the TWS is a vector of pages, nothing but accesses, allocations
\* and frees is among the steps of a handler.
TypeOK ==
    /\ super \in [Page -> BOOLEAN]
    /\ root \in [Page -> RootLine]
    /\ leaf \in LeafTable
    /\ tws \in Seq(Page)
    /\ allocated \in SUBSET Page
    /\ reply \in {Ready} \cup Request
    /\ steps \in Seq(Actions(LineIds))

\* promote and updateTWS keep the working set a set, of at most twsSize pages.
WorkingSetOK ==
    /\ Len(tws) <= twsSize
    /\ \A i, j \in 1 .. Len(tws) : tws[i] = tws[j] => i = j

\* The tags the three tables stand for, and whether a page holds one.
tagsOf == [a \in Addr |-> IF rootTag(a) THEN leafLine(a)[a.granule] ELSE NoTags]
HoldsTag(p) == \E a \in Addr : a.page = p /\ tagsOf[a] # NoTags

\* A root bit is set only over a leaf line that holds a tag, stale lines being
\* under clear bits.
NoIdleRootBit ==
    \A p \in Page, s \in Slot : root[p][s] => leaf[p][s] # ZeroLeaf

\* "By transitivity through the root level, we maintain the property that if any
\* tags in the block are set, the superroot bit will be set, and it will be cleared
\* otherwise" (implementation.tex:387): the handlers see one leaf line at a time.
SuperMeansTags == \A p \in Page : super[p] <=> HoldsTag(p)

\* The invariant the dissertation states for the scheme (implementation.tex,
\* eq:ivb): "Page is allocated <=> Page is in the tag working set \/ Page has at
\* least one tag set".  It takes every allocation and free of every path.
AllocatedPages == allocated = ToSet(tws) \cup {p \in Page : HoldsTag(p)}

\* Whether p has DRAM when the handler takes its i-th step.
AllocatedAt(p, i) == hasDram(steps', allocated, p, i)

\* "we never risk reading from an unallocated page of tags": no handler reads or
\* writes a root or leaf line of a page that has no DRAM at that moment, a
\* handler of one page that frees another included.
AccessesAllocated ==
    [][\A i \in 1 .. Len(steps'), a \in Addr :
          steps'[i].line \in {RootId(a.page), LeafId(a)} => AllocatedAt(a.page, i)]_vars

\* DRAMAllocate is called only for pages without DRAM and DRAMFree only for pages
\* with it, so that reportStats counts real allocations and frees.
AllocFreeAlternate ==
    [][\A i \in 1 .. Len(steps'), p \in Page :
          /\ steps'[i] = Alloc(p) => ~AllocatedAt(p, i)
          /\ steps'[i] = Free(p)  => AllocatedAt(p, i)]_vars

\* The working set is there to "mitigate the thrashing problem" (implementation.tex:
\* 409): with either victim rule a page that was just touched keeps its DRAM whatever
\* the next request, also if its last tag is cleared, unless there is room for that
\* one page only.
NoThrash == [][twsSize > 1 /\ tws # <<>> => Last(tws) \in allocated']_vars

\* The three tables, working set and stale lines and all, behave as one table
\* of tags.
Store == INSTANCE TagStore WITH table <- tagsOf
StoreSpec == Store!Spec

\* alg:pho (implementation.tex:428) "On reading a non-zero tag from a page p":
\* p becomes the most recently used page of the working set.
ReadTagTouchesPage ==
    [][reply'.op = "read" /\ reply'.tags # NoTags
          => tws' # <<>> /\ Last(tws') = reply'.addr.page]_vars
==============================================================================
