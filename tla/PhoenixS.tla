------------------------------- MODULE PhoenixS -------------------------------
(***************************************************************************)
(* PhoenixSController.h: the Phoenix scheme with small pages.  The bits of *)
(* a page are eight bytes of a root line, so one root line holds the bits  *)
(* of several pages, and a handler that writes a root line back writes the *)
(* bits of all of them.  The handlers are otherwise those of               *)
(* PhoenixController.h, on their own tables.                               *)
(*                                                                         *)
(* rootLineOf gives the root line of a page.  A superroot line is only     *)
(* ever changed in the bit of one page after it was read by the same       *)
(* handler, so which superroot line it is does not matter here.            *)
(***************************************************************************)
EXTENDS DramSteps, TagWorkingSet

CONSTANTS RootLines, rootLineOf(_)

ASSUME RootLineAssumption == \A p \in Page : rootLineOf(p) \in RootLines

VARIABLES
    super,      \* superroot table: one bit for each page
    root,       \* root table: eight bytes for each page, a bit for each leaf line
    leaf,       \* leaf table as memory holds it, stale lines included
    tws,        \* tag_working_set, least recently used page first
    allocated,  \* the pages that have DRAM
    reply,      \* the request served last
    steps       \* what the last handler did: memory accesses, allocs and frees

vars == <<super, root, leaf, tws, allocated, reply, steps>>

Init ==
    /\ leaf \in LeafTable
    /\ root = RootOf(leaf)
    /\ super = [p \in Page |-> root[p] # ZeroRoot]
    /\ tws = <<>>
    /\ allocated = {p \in Page : root[p] # ZeroRoot}
    /\ reply = Ready
    /\ steps = <<>>

superTag(a) == super[a.page]
rootTag(a)  == root[a.page][a.slot]
leafLine(a) == leaf[a.page][a.slot]

\* A root line: the eight bytes of each of its pages.
neighbours(p)   == {q \in Page : rootLineOf(q) = rootLineOf(p)}
rootLine(p)     == [q \in neighbours(p) |-> root[q]]
ZeroRootLine(p) == [q \in neighbours(p) |-> ZeroRoot]

SRootId(p) == <<"root", rootLineOf(p)>>

\* Memory::doWrite of a line, and the tag changes made to a line before.
writeRootLine(line)    ==
    root' = [p \in Page |-> IF p \in DOMAIN line THEN line[p] ELSE root[p]]
writeLeafLine(a, line) == leaf' = [leaf EXCEPT ![a.page][a.slot] = line]
writeSuperTag(p, tag)  == super' = [super EXCEPT ![p] = tag]
withRootTag(line, a, tag) == [line EXCEPT ![a.page][a.slot] = tag]

\* Faults: every evicted page is freed; no evicted page is.
freesAny(p)   == evicts(tws, p)
noneUnused(p) == {}

\* updateTWS, isBlockClear of the page it evicts, and DRAMFree if it is clear.
frees(p)  == evicts(tws, p) /\ ~super[evicted(tws, p)]
unused(p) == IF frees(p) THEN {evicted(tws, p)} ELSE {}
updateSteps(p) ==
    IF frees(p) THEN <<Rd(SuperId), Free(evicted(tws, p))>>
    ELSE IF evicts(tws, p) THEN <<Rd(SuperId)>>
    ELSE <<>>

updateTWS(p, added) ==
    /\ tws' = touched(tws, p)
    /\ allocated' = (allocated \ unused(p)) \cup added

-----------------------------------------------------------------------------
(* handleRead *)

skips(p)      == isInTWS(tws, p)
superSteps(p) == IF skips(p) THEN <<>> ELSE <<Rd(SuperId)>>

ReadSuperClear(a) ==
    /\ ~skips(a.page) /\ ~superTag(a)
    /\ reply' = Served("read", a, NoTags)
    /\ steps' = superSteps(a.page)
    /\ UNCHANGED <<tws, allocated>>

ReadRootClear(a) ==
    /\ skips(a.page) \/ superTag(a)
    /\ ~rootTag(a)
    /\ reply' = Served("read", a, NoTags)
    /\ steps' = superSteps(a.page) \o <<Rd(SRootId(a.page))>>
    /\ UNCHANGED <<tws, allocated>>

\* if (!tags) updateTWS(index)
ReadLeaf(a) ==
    /\ skips(a.page) \/ superTag(a)
    /\ rootTag(a)
    /\ LET tags == leafLine(a)[a.granule]
           path == superSteps(a.page) \o <<Rd(SRootId(a.page)), Rd(LeafId(a))>>
       IN  /\ reply' = Served("read", a, tags)
           /\ \/ /\ tags = NoTags
                 /\ updateTWS(a.page, {})
                 /\ steps' = path \o updateSteps(a.page)
              \/ /\ tags # NoTags
                 /\ steps' = path
                 /\ UNCHANGED <<tws, allocated>>

handleRead(a) ==
    /\ ReadSuperClear(a) \/ ReadRootClear(a) \/ ReadLeaf(a)
    /\ UNCHANGED <<super, root, leaf>>

-----------------------------------------------------------------------------
(* handleWrite of zero tags *)

ClearNothing(a) ==
    /\ ~superTag(a) \/ ~rootTag(a)
    /\ steps' = <<Rd(SuperId)>> \o IF superTag(a) THEN <<Rd(SRootId(a.page))>> ELSE <<>>
    /\ UNCHANGED <<super, root, leaf, tws, allocated>>

\* Fault: the root line written back is a new one.
clearedNewRoot(a) == withRootTag(ZeroRootLine(a.page), a, FALSE)

cleared(a)     == modifyTags(leafLine(a), a.granule, NoTags)
clearedRoot(a) == withRootTag(rootLine(a.page), a, FALSE)
clearSteps(a)  == <<Rd(SuperId), Rd(SRootId(a.page)), Rd(LeafId(a))>>

ClearSome(a) ==
    /\ superTag(a) /\ rootTag(a)
    /\ cleared(a) # ZeroLeaf
    /\ writeLeafLine(a, cleared(a))
    /\ steps' = clearSteps(a) \o <<Wr(LeafId(a))>>
    /\ UNCHANGED <<super, root, tws, allocated>>

\* eightBytesClear looks at the bits of the page of a only.
ClearLine(a) ==
    /\ superTag(a) /\ rootTag(a)
    /\ cleared(a) = ZeroLeaf
    /\ clearedRoot(a)[a.page] # ZeroRoot
    /\ writeRootLine(clearedRoot(a))
    /\ steps' = clearSteps(a) \o <<Wr(SRootId(a.page))>>
    /\ UNCHANGED <<super, leaf, tws, allocated>>

ClearPage(a) ==
    /\ superTag(a) /\ rootTag(a)
    /\ cleared(a) = ZeroLeaf
    /\ clearedRoot(a)[a.page] = ZeroRoot
    /\ writeRootLine(clearedRoot(a))
    /\ writeSuperTag(a.page, FALSE)
    /\ LET path == clearSteps(a) \o <<Wr(SRootId(a.page)), Wr(SuperId)>>
       IN  \/ /\ isInTWS(tws, a.page)
              /\ steps' = path
              /\ UNCHANGED allocated
           \/ /\ ~isInTWS(tws, a.page)
              /\ steps' = Append(path, Free(a.page))
              /\ allocated' = allocated \ {a.page}
    /\ UNCHANGED <<leaf, tws>>

-----------------------------------------------------------------------------
(* handleWrite of non-zero tags *)

storeSteps(p) == updateSteps(p) \o <<Rd(SuperId)>>

\* DRAMAllocate, unless the page was in the TWS.
allocSteps(p) == IF isInTWS(tws, p) THEN <<>> ELSE <<Alloc(p)>>

\* Fault: the page is allocated before updateTWS has freed the page it evicts.
takeStepsAllocFirst(p) == allocSteps(p) \o storeSteps(p)

takeSteps(p) == storeSteps(p) \o allocSteps(p)

\* The first tags of a page.  The root line is not read: it is written back as a
\* fully-zero cacheline with the one bit of a.
WriteFreshPage(a, tags) ==
    /\ ~superTag(a)
    /\ updateTWS(a.page, {a.page} \ ToSet(tws))
    /\ writeSuperTag(a.page, TRUE)
    /\ writeRootLine(withRootTag(ZeroRootLine(a.page), a, TRUE))
    /\ writeLeafLine(a, modifyTags(ZeroLeaf, a.granule, tags))
    /\ steps' = takeSteps(a.page)
                \o <<Wr(SuperId), Wr(SRootId(a.page)), Wr(LeafId(a))>>

WriteFreshLine(a, tags) ==
    /\ superTag(a) /\ ~rootTag(a)
    /\ updateTWS(a.page, {})
    /\ writeRootLine(withRootTag(rootLine(a.page), a, TRUE))
    /\ writeLeafLine(a, modifyTags(ZeroLeaf, a.granule, tags))
    /\ steps' = storeSteps(a.page)
                \o <<Rd(SRootId(a.page)), Wr(SRootId(a.page)), Wr(LeafId(a))>>
    /\ UNCHANGED super

WriteLine(a, tags) ==
    /\ superTag(a) /\ rootTag(a)
    /\ updateTWS(a.page, {})
    /\ writeLeafLine(a, modifyTags(leafLine(a), a.granule, tags))
    /\ steps' = storeSteps(a.page)
                \o <<Rd(SRootId(a.page)), Rd(LeafId(a)), Wr(LeafId(a))>>
    /\ UNCHANGED <<super, root>>

handleWrite(a, tags) ==
    /\ \/ /\ tags = NoTags
          /\ ClearNothing(a) \/ ClearSome(a) \/ ClearLine(a) \/ ClearPage(a)
       \/ /\ tags # NoTags
          /\ WriteFreshPage(a, tags) \/ WriteFreshLine(a, tags) \/ WriteLine(a, tags)
    /\ reply' = Served("write", a, tags)

Next ==
    \E a \in Addr :
        \/ handleRead(a)
        \/ \E tags \in Tags : handleWrite(a, tags)

Spec == Init /\ [][Next]_vars

-----------------------------------------------------------------------------
(* Properties *)

\* The lines of the three tag tables.
LineIds == {SuperId} \cup {SRootId(p) : p \in Page} \cup {LeafId(a) : a \in Addr}

\* Type invariant, the working set being a sequence without repetitions.
TypeOK ==
    /\ super \in [Page -> BOOLEAN]
    /\ root \in [Page -> RootLine]
    /\ leaf \in LeafTable
    /\ tws \in Seq(Page) /\ Len(tws) <= twsSize /\ IsInjective(tws)
    /\ allocated \in SUBSET Page
    /\ reply \in {Ready} \cup Request
    /\ steps \in Seq(Actions(LineIds))

\* The tags the three tables stand for.
tagsOf == [a \in Addr |-> IF rootTag(a) THEN leafLine(a)[a.granule] ELSE NoTags]
HoldsTag(p) == \E a \in Addr : a.page = p /\ tagsOf[a] # NoTags

\* What of the allocation invariant does not depend on the siblings of a page:
\* the pages with DRAM are those of the working set and those with a superroot
\* bit, and no page without DRAM holds a tag.
AllocatedCoversTags ==
    /\ allocated = ToSet(tws) \cup {p \in Page : super[p]}
    /\ \A p \in Page : HoldsTag(p) => super[p]

\* The only tags a request changes besides those of its address are tags of
\* sibling pages, pages of the same root line, that the first write to a page
\* without tags wipes; and those read as no tags afterwards.  In particular no
\* sequence of writes brings the stale tags of a leaf line back.
OthersChangeOnlyByWipe ==
    [][\A b \in Addr :
          tagsOf'[b] # tagsOf[b] /\ b # reply'.addr
              => /\ tagsOf'[b] = NoTags
                 /\ b.page \in neighbours(reply'.addr.page) \ {reply'.addr.page}
                 /\ ~super[reply'.addr.page] /\ super'[reply'.addr.page]]_vars

\* Whether p has DRAM when the handler takes its i-th step.
AllocatedAt(p, i) == hasDram(steps', allocated, p, i)

\* "we never risk reading from an unallocated page of tags": the leaf lines a
\* handler reads or writes belong to a page that has DRAM at that moment, and
\* DRAM is only given to pages without it and taken from pages with it.
DramDiscipline ==
    [][\A i \in 1 .. Len(steps') :
          /\ \A a \in Addr : steps'[i].line = LeafId(a) => AllocatedAt(a.page, i)
          /\ \A p \in Page : /\ steps'[i] = Alloc(p) => ~AllocatedAt(p, i)
                             /\ steps'[i] = Free(p)  => AllocatedAt(p, i)]_vars

\* The three tables behave as one table of tags.
Store == INSTANCE TagStore WITH table <- tagsOf
StoreSpec == Store!Spec
==============================================================================
