---------------------------- MODULE PhoenixProofs ----------------------------
(***************************************************************************)
(* PhoenixController for any geometry, any set of tags and any working     *)
(* set: the dissertation's allocation invariant holds, and the three       *)
(* levels together are one table of tags.                                  *)
(*                                                                         *)
(* The allocation invariant speaks of tags, which are three levels away    *)
(* from the superroot bit the handlers look at.  Inv is what makes it      *)
(* inductive: each level is a summary of the one below, and allocation is  *)
(* stated over superroot bits.                                             *)
(***************************************************************************)
EXTENDS PhoenixStats, PhoenixLemmas

SuperMeansRoot == \A p \in Page : super[p] <=> root[p] # ZeroRoot
AllocatedSuper == allocated = ToSet(tws) \cup {p \in Page : super[p]}

Inv == TypeOK /\ WorkingSetOK /\ NoIdleRootBit /\ SuperMeansRoot /\ AllocatedSuper

-----------------------------------------------------------------------------
(* updateTWS in a state of the invariant *)

\* Touching a page: what the working set becomes, and what leaves DRAM for it.
LEMMA Touch ==
    ASSUME Inv, NEW p \in Page
    PROVE  /\ touched(tws, p) \in Seq(Page)
           /\ Len(touched(tws, p)) <= twsSize
           /\ distinct(touched(tws, p))
           /\ unused(p) \subseteq Page \ {p}
           /\ frees(p) => evicted(tws, p) \in (Page \cap allocated) \ {p}
           /\ ToSet(touched(tws, p)) \cup {q \in Page : super[q]}
                = (allocated \cup {p}) \ unused(p)
           /\ isInTWS(tws, p) <=> p \in ToSet(tws)
<1>1. tws \in Seq(Page) /\ distinct(tws) /\ Len(tws) <= twsSize
  BY DEF Inv, TypeOK, WorkingSetOK, distinct
<1>2. /\ touched(tws, p) \in Seq(Page)
      /\ distinct(touched(tws, p))
      /\ Len(touched(tws, p)) <= twsSize
      /\ isInTWS(tws, p) <=> p \in ToSet(tws)
      /\ evicts(tws, p) => evicted(tws, p) \in ToSet(tws) \ {p}
      /\ ToSet(touched(tws, p)) = (ToSet(tws) \cup {p})
                                  \ (IF evicts(tws, p) THEN {evicted(tws, p)} ELSE {})
  BY <1>1, TouchedProperties
<1>3. ToSet(tws) \subseteq Page
  BY <1>1, LenProperties, ElementOfSeq DEF ToSet
<1>4. allocated = ToSet(tws) \cup {q \in Page : super[q]}
  BY DEF Inv, AllocatedSuper
<1>5. CASE ~evicts(tws, p)
  <2>1. unused(p) = {} /\ ~frees(p)
    BY <1>5 DEF unused, frees
  <2> QED BY <1>2, <1>4, <1>5, <2>1
<1>6. CASE evicts(tws, p) /\ super[evicted(tws, p)]
  <2>1. unused(p) = {} /\ ~frees(p)
    BY <1>6 DEF unused, frees
  <2> QED BY <1>2, <1>3, <1>4, <1>6, <2>1
<1>7. CASE evicts(tws, p) /\ ~super[evicted(tws, p)]
  <2>1. unused(p) = {evicted(tws, p)}
    BY <1>7 DEF unused, frees
  <2> QED BY <1>2, <1>3, <1>4, <1>7, <2>1
<1> QED BY <1>5, <1>6, <1>7, Zenon

-----------------------------------------------------------------------------
(* The three tables *)

\* The tables keep their types and each level stays a summary of the one below.
Tables ==
    /\ super \in [Page -> BOOLEAN]
    /\ root \in [Page -> RootLine]
    /\ leaf \in LeafTable

\* The lines a handler builds are lines, with the tags it puts there.
LEMMA Lines ==
    ASSUME Tables, NEW a \in Addr
    PROVE  /\ a.page \in Page /\ a.slot \in Slot /\ a.granule \in Granule
           /\ leafLine(a) \in LeafLine /\ ZeroLeaf \in LeafLine
           /\ cleared(a) \in LeafLine
           /\ ZeroRoot \in RootLine /\ clearedRoot(a) \in RootLine
           /\ modifyTag(root[a.page], a.slot, TRUE) \in RootLine
           /\ modifyTag(ZeroRoot, a.slot, TRUE) \in RootLine
           /\ modifyTag(ZeroRoot, a.slot, TRUE) # ZeroRoot
           /\ modifyTag(root[a.page], a.slot, TRUE) # ZeroRoot
<1> USE NoTagsAssumption DEF Tables
<1>1. a.page \in Page /\ a.slot \in Slot /\ a.granule \in Granule
  BY DEF Addr
<1>2. leafLine(a) \in LeafLine /\ ZeroLeaf \in LeafLine
  BY <1>1 DEF leafLine, LeafTable, LeafLine, ZeroLeaf
<1>3. cleared(a) \in LeafLine
  BY <1>1, <1>2 DEF cleared, modifyTags, LeafLine
<1>4. ZeroRoot \in RootLine /\ root[a.page] \in RootLine
  BY <1>1 DEF ZeroRoot, RootLine
<1>5. clearedRoot(a) \in RootLine
  BY <1>1, <1>4 DEF clearedRoot, modifyTag, RootLine
<1>6. \A line \in RootLine : /\ modifyTag(line, a.slot, TRUE) \in RootLine
                             /\ modifyTag(line, a.slot, TRUE) # ZeroRoot
  BY <1>1 DEF modifyTag, RootLine, ZeroRoot
<1> QED BY <1>1, <1>2, <1>3, <1>4, <1>5, <1>6

\* Tags put into a leaf line make a leaf line, which is not clear if they are not.
LEMMA LinesWithTags ==
    ASSUME NEW a \in Addr, NEW tags \in Tags, NEW line \in LeafLine
    PROVE  /\ modifyTags(line, a.granule, tags) \in LeafLine
           /\ tags # NoTags => modifyTags(line, a.granule, tags) # ZeroLeaf
BY DEF modifyTags, LeafLine, ZeroLeaf, Addr

\* Writing a leaf line or a root line changes that line only.
LEMMA WriteLeaf ==
    ASSUME Tables, NEW a \in Addr, NEW line \in LeafLine, writeLeafLine(a, line)
    PROVE  /\ leaf' \in LeafTable
           /\ \A p \in Page, s \in Slot :
                 leaf'[p][s] = IF p = a.page /\ s = a.slot THEN line ELSE leaf[p][s]
BY DEF Tables, writeLeafLine, LeafTable, Addr

\* Likewise for a root line.
LEMMA WriteRoot ==
    ASSUME Tables, NEW p \in Page, NEW line \in RootLine, writeRootLine(p, line)
    PROVE  /\ root' \in [Page -> RootLine]
           /\ \A q \in Page : root'[q] = IF q = p THEN line ELSE root[q]
BY DEF Tables, writeRootLine

\* The actions that change a table.
Stores(a, tags) ==
    \/ WriteFreshPage(a, tags)
    \/ WriteFreshLine(a, tags)
    \/ WriteLine(a, tags)
Clears(a) == ClearSome(a) \/ ClearLine(a) \/ ClearPage(a)
Looks(a)  == handleRead(a) \/ ClearNothing(a)

\* Every step changes the tables by storing tags or clearing them, or only looks.
LEMMA NextCases ==
    ASSUME Next
    PROVE  \/ \E a \in Addr : Looks(a) \/ Clears(a)
           \/ \E a \in Addr, tags \in Tags : tags # NoTags /\ Stores(a, tags)
BY DEF Next, handleWrite, Looks, Clears, Stores

LEMMA Cases ==
    ASSUME [Next]_vars
    PROVE  \/ \E a \in Addr : Looks(a) \/ Clears(a)
           \/ \E a \in Addr, tags \in Tags : tags # NoTags /\ Stores(a, tags)
           \/ UNCHANGED vars
BY NextCases, Zenon

\* Reads, and writes of zero over zero, change no table.
LEMMA LooksUnchanged == \A a \in Addr : Looks(a) => UNCHANGED <<super, root, leaf>>
BY DEF Looks, handleRead, ReadSuperClear, ReadRootClear, ReadTags, ReadZeroTags, ClearNothing

Summaries == NoIdleRootBit /\ SuperMeansRoot

\* Handlers that store tags build lines that are not clear.
LEMMA StoresTables ==
    ASSUME Tables, Summaries, NEW a \in Addr, NEW tags \in Tags, tags # NoTags, Stores(a, tags)
    PROVE  Tables' /\ Summaries'
<1>1. /\ a.page \in Page /\ a.slot \in Slot
      /\ leafLine(a) \in LeafLine /\ ZeroLeaf \in LeafLine
      /\ modifyTag(root[a.page], a.slot, TRUE) \in RootLine
      /\ modifyTag(ZeroRoot, a.slot, TRUE) \in RootLine
      /\ modifyTag(ZeroRoot, a.slot, TRUE) # ZeroRoot
      /\ modifyTag(root[a.page], a.slot, TRUE) # ZeroRoot
  BY Lines, Zenon
<1>2. PICK line \in LeafLine : line # ZeroLeaf /\ writeLeafLine(a, line)
  <2>1. \A old \in LeafLine : /\ modifyTags(old, a.granule, tags) \in LeafLine
                             /\ modifyTags(old, a.granule, tags) # ZeroLeaf
    BY LinesWithTags, Zenon
  <2> QED BY <1>1, <2>1, Zenon DEF Stores, WriteFreshPage, WriteFreshLine, WriteLine
<1>3. /\ leaf' \in LeafTable
      /\ \A p \in Page, s \in Slot :
            leaf'[p][s] = IF p = a.page /\ s = a.slot THEN line ELSE leaf[p][s]
  BY <1>2, WriteLeaf, Zenon
<1>4. /\ root' \in [Page -> RootLine] /\ super' \in [Page -> BOOLEAN]
      /\ \A p \in Page, s \in Slot : root'[p][s] => root[p][s] \/ (p = a.page /\ s = a.slot)
      /\ SuperMeansRoot'
  <2>1. CASE WriteFreshPage(a, tags)
    <3>1. /\ root' \in [Page -> RootLine]
          /\ \A q \in Page : root'[q] = IF q = a.page THEN modifyTag(ZeroRoot, a.slot, TRUE)
                                        ELSE root[q]
      BY <1>1, <2>1, WriteRoot, Zenon DEF WriteFreshPage
    <3>2. \A s \in Slot : modifyTag(ZeroRoot, a.slot, TRUE)[s] => s = a.slot
      BY DEF modifyTag, ZeroRoot
    <3>3. super' = [super EXCEPT ![a.page] = TRUE]
      BY <2>1 DEF WriteFreshPage
    <3>4. SuperMeansRoot'
      BY <1>1, <3>1, <3>3 DEF Summaries, SuperMeansRoot, Tables
    <3>5. super' \in [Page -> BOOLEAN]
      BY <3>3 DEF Tables
    <3> QED BY <3>1, <3>2, <3>4, <3>5
  <2>2. CASE WriteFreshLine(a, tags)
    <3>1. /\ root' \in [Page -> RootLine]
          /\ \A q \in Page : root'[q] = IF q = a.page THEN modifyTag(root[a.page], a.slot, TRUE)
                                        ELSE root[q]
      BY <1>1, <2>2, WriteRoot, Zenon DEF WriteFreshLine
    <3>2. \A s \in Slot : modifyTag(root[a.page], a.slot, TRUE)[s] => root[a.page][s] \/ s = a.slot
      BY <1>1 DEF modifyTag, RootLine, Tables
    <3>3. super' = super /\ super[a.page]
      BY <2>2 DEF WriteFreshLine
    <3>4. SuperMeansRoot'
      BY <1>1, <3>1, <3>3 DEF Summaries, SuperMeansRoot
    <3> QED BY <3>1, <3>2, <3>3, <3>4 DEF Tables
  <2>3. CASE WriteLine(a, tags)
    BY <2>3 DEF WriteLine, Tables, Summaries, SuperMeansRoot
  <2> QED BY <2>1, <2>2, <2>3 DEF Stores
<1>5. NoIdleRootBit'
  BY <1>2, <1>3, <1>4 DEF Summaries, NoIdleRootBit
<1> QED BY <1>3, <1>4, <1>5 DEF Tables, Summaries

\* Handlers that clear tags take the summaries of what they empty with them.
LEMMA ClearsTables ==
    ASSUME Tables, Summaries, NEW a \in Addr, Clears(a)
    PROVE  Tables' /\ Summaries'
<1>1. /\ a.page \in Page /\ a.slot \in Slot
      /\ cleared(a) \in LeafLine /\ clearedRoot(a) \in RootLine
  BY Lines, Zenon
<1>2. CASE ClearSome(a)
  <2>1. /\ leaf' \in LeafTable
        /\ \A p \in Page, s \in Slot :
              leaf'[p][s] = IF p = a.page /\ s = a.slot THEN cleared(a) ELSE leaf[p][s]
    BY <1>1, <1>2, WriteLeaf, Zenon DEF ClearSome
  <2>2. super' = super /\ root' = root /\ cleared(a) # ZeroLeaf
    BY <1>2 DEF ClearSome
  <2> QED BY <2>1, <2>2 DEF Tables, Summaries, NoIdleRootBit, SuperMeansRoot
<1>3. CASE ClearLine(a) \/ ClearPage(a)
  <2>1. /\ root' \in [Page -> RootLine]
        /\ \A q \in Page : root'[q] = IF q = a.page THEN clearedRoot(a) ELSE root[q]
    BY <1>1, <1>3, WriteRoot, Zenon DEF ClearLine, ClearPage
  <2>2. leaf' = leaf
    BY <1>3 DEF ClearLine, ClearPage
  <2>3. \A s \in Slot : clearedRoot(a)[s] => root[a.page][s]
    BY <1>1 DEF clearedRoot, modifyTag, RootLine, Tables
  <2>4. \A p \in Page, s \in Slot : root'[p][s] => root[p][s]
    BY <2>1, <2>3
  <2>5. super' \in [Page -> BOOLEAN] /\ SuperMeansRoot'
    <3>1. CASE ClearLine(a)
      BY <2>1, <3>1 DEF ClearLine, Summaries, SuperMeansRoot, Tables
    <3>2. CASE ClearPage(a)
      <4>1. super' = [super EXCEPT ![a.page] = FALSE] /\ clearedRoot(a) = ZeroRoot
        BY <3>2 DEF ClearPage
      <4> QED BY <1>1, <2>1, <4>1 DEF Summaries, SuperMeansRoot, Tables
    <3> QED BY <1>3, <3>1, <3>2
  <2> QED BY <2>1, <2>2, <2>4, <2>5 DEF Tables, Summaries, NoIdleRootBit
<1> QED BY <1>2, <1>3 DEF Clears

-----------------------------------------------------------------------------
(* The working set and the allocated pages *)

\* Reads of zero tags and writes of tags touch the page; nothing else does.
Touches(a) == tws' = touched(tws, a.page)

\* Every handler leaves the working set alone or touches one page of it.
LEMMA Touching ==
    ASSUME [Next]_vars
    PROVE  tws' = tws \/ \E a \in Addr : Touches(a)
<1>1. ASSUME NEW a \in Addr, Looks(a) \/ Clears(a) PROVE tws' = tws \/ Touches(a)
  BY <1>1 DEF Looks, handleRead, ReadSuperClear, ReadRootClear, ReadTags, ReadZeroTags,
              ClearNothing, Clears, ClearSome, ClearLine, ClearPage, Touches
<1>2. ASSUME NEW a \in Addr, NEW tags \in Tags, Stores(a, tags) PROVE Touches(a)
  BY <1>2 DEF Stores, WriteFreshPage, WriteFreshLine, WriteLine, Touches
<1>3. CASE UNCHANGED vars
  BY <1>3 DEF vars
<1> QED BY <1>1, <1>2, <1>3, Cases, Zenon

\* The working set stays one.
LEMMA WorkingSetStep ==
    ASSUME Inv, [Next]_vars
    PROVE  tws' \in Seq(Page) /\ WorkingSetOK'
<1>1. CASE tws' = tws
  BY <1>1 DEF Inv, TypeOK, WorkingSetOK
<1>2. CASE \E a \in Addr : Touches(a)
  <2>1. PICK a \in Addr : Touches(a)
    BY <1>2
  <2>2. a.page \in Page
    BY DEF Addr
  <2>3. tws' \in Seq(Page) /\ Len(tws') <= twsSize /\ distinct(tws')
    BY <2>1, <2>2, Touch, Zenon DEF Touches
  <2> QED BY <2>3 DEF WorkingSetOK, distinct
<1> QED BY <1>1, <1>2, Touching, Zenon

\* Touching a page that has DRAM, or gets it now, keeps the pages with DRAM those
\* of the working set and those with a superroot bit.
LEMMA TouchAllocates ==
    ASSUME Inv, NEW a \in Addr, Touches(a),
           \/ /\ a.page \in allocated
              /\ super' = super
              /\ allocated' = allocated \ unused(a.page)
           \/ /\ super' = [super EXCEPT ![a.page] = TRUE]
              /\ allocated' = (allocated \ unused(a.page)) \cup ({a.page} \ ToSet(tws))
    PROVE  AllocatedSuper'
<1>1. a.page \in Page
  BY DEF Addr
<1>2. /\ ToSet(tws') \cup {q \in Page : super[q]} = (allocated \cup {a.page}) \ unused(a.page)
      /\ unused(a.page) \subseteq Page \ {a.page}
  BY <1>1, Touch, Zenon DEF Touches
<1>3. CASE a.page \in allocated /\ super' = super /\ allocated' = allocated \ unused(a.page)
  BY <1>2, <1>3 DEF AllocatedSuper
<1>4. CASE /\ super' = [super EXCEPT ![a.page] = TRUE]
           /\ allocated' = (allocated \ unused(a.page)) \cup ({a.page} \ ToSet(tws))
  <2>1. {q \in Page : super'[q]} = {q \in Page : super[q]} \cup {a.page}
    BY <1>1, <1>4 DEF Inv, TypeOK
  <2>2. allocated = ToSet(tws) \cup {q \in Page : super[q]}
    BY DEF Inv, AllocatedSuper
  <2>3. allocated' = (allocated \cup {a.page}) \ unused(a.page)
    BY <1>2, <1>4, <2>2
  <2> QED BY <1>1, <1>2, <2>1, <2>3 DEF AllocatedSuper
<1> QED BY <1>3, <1>4

\* Every handler keeps AllocatedSuper.
LEMMA AllocatedStep ==
    ASSUME Inv, [Next]_vars
    PROVE  AllocatedSuper'
<1>1. AllocatedSuper
  BY DEF Inv
<1>2. ASSUME UNCHANGED <<super, tws, allocated>> PROVE AllocatedSuper'
  BY <1>1, <1>2 DEF AllocatedSuper
<1>3. ASSUME NEW a \in Addr, super[a.page] \/ reachesRoot(a.page) PROVE a.page \in allocated
  <2>1. a.page \in Page
    BY DEF Addr
  <2>2. isInTWS(tws, a.page) <=> a.page \in ToSet(tws)
    BY <2>1, Touch, Zenon
  <2> QED BY <1>1, <1>3, <2>1, <2>2 DEF AllocatedSuper, reachesRoot
<1>4. ASSUME NEW a \in Addr, Looks(a) PROVE AllocatedSuper'
  <2>1. CASE ReadZeroTags(a)
    <3>1. /\ Touches(a) /\ a.page \in allocated /\ super' = super
          /\ allocated' = allocated \ unused(a.page)
      BY <1>3, <2>1 DEF ReadZeroTags, Touches
    <3> QED BY <3>1, TouchAllocates, Zenon
  <2>2. CASE ~ReadZeroTags(a)
    BY <1>2, <1>4, <2>2
       DEF Looks, handleRead, ReadSuperClear, ReadRootClear, ReadTags, ClearNothing
  <2> QED BY <2>1, <2>2
<1>5. ASSUME NEW a \in Addr, Clears(a) PROVE AllocatedSuper'
  <2>1. CASE ClearSome(a) \/ ClearLine(a)
    BY <1>2, <2>1 DEF ClearSome, ClearLine
  <2>2. CASE ClearPage(a)
    <3>1. a.page \in Page
      BY DEF Addr
    <3>2. super' = [super EXCEPT ![a.page] = FALSE] /\ tws' = tws
      BY <2>2 DEF ClearPage
    <3>3. {q \in Page : super'[q]} = {q \in Page : super[q]} \ {a.page}
      BY <3>1, <3>2 DEF Inv, TypeOK
    <3>4. isInTWS(tws, a.page) <=> a.page \in ToSet(tws)
      BY <3>1, Touch, Zenon
    <3>5. allocated' = IF a.page \in ToSet(tws) THEN allocated ELSE allocated \ {a.page}
      BY <2>2, <3>4 DEF ClearPage
    <3> QED BY <1>1, <3>2, <3>3, <3>5 DEF AllocatedSuper
  <2> QED BY <1>5, <2>1, <2>2 DEF Clears
<1>6. ASSUME NEW a \in Addr, NEW tags \in Tags, Stores(a, tags) PROVE AllocatedSuper'
  <2>1. Touches(a)
    BY <1>6 DEF Stores, WriteFreshPage, WriteFreshLine, WriteLine, Touches
  <2>2. CASE WriteFreshPage(a, tags)
    BY <2>1, <2>2, TouchAllocates, Zenon DEF WriteFreshPage
  <2>3. CASE WriteFreshLine(a, tags) \/ WriteLine(a, tags)
    <3>1. a.page \in allocated /\ super' = super /\ allocated' = allocated \ unused(a.page)
      BY <1>3, <2>3 DEF WriteFreshLine, WriteLine
    <3> QED BY <2>1, <3>1, TouchAllocates, Zenon
  <2> QED BY <1>6, <2>2, <2>3 DEF Stores
<1>7. CASE UNCHANGED vars
  BY <1>2, <1>7 DEF vars
<1> QED BY <1>4, <1>5, <1>6, <1>7, Cases, Zenon

-----------------------------------------------------------------------------
(* The steps of a handler *)

\* The root line and the leaf lines of a page lie in its DRAM.
own == [p \in Page |-> {RootId(p)} \cup {LeafId(a) : a \in {b \in Addr : b.page = p}}]

\* The steps s of a handler take the pages with DRAM from had to now, and access
\* lines and allocate and free pages only when they may.
Does(s, had, now) == Orderly(s, had, now, own, LineIds)

\* The tag cachelines a request for a may access.
linesFor(a) == {SuperId, RootId(a.page), LeafId(a)}

\* Those that lie in the DRAM of a page lie in that of the page of a.
LEMMA Owners ==
    /\ ownLines(own)
    /\ \A p \in Page : SuperId \notin own[p]
    /\ \A a \in Addr : linesFor(a) \subseteq LineIds
    /\ \A a \in Addr, p \in Page : \A id \in linesFor(a) : id \in own[p] => p = a.page
<1>1. ASSUME NEW a \in Addr PROVE linesFor(a) \subseteq LineIds
  <2>1. a.page \in Page
    BY DEF Addr
  <2> QED BY <2>1 DEF linesFor, LineIds
<1>2. ownLines(own) /\ \A p \in Page : SuperId \notin own[p]
  BY DEF ownLines, own, SuperId, RootId, LeafId
<1>3. ASSUME NEW a \in Addr, NEW p \in Page, NEW id \in linesFor(a), id \in own[p]
      PROVE  p = a.page
  BY <1>3 DEF linesFor, own, SuperId, RootId, LeafId
<1> QED BY <1>1, <1>2, <1>3

\* Looking at the superroot is allowed at any time.
LEMMA SuperDoes ==
    ASSUME NEW had \in SUBSET Page
    PROVE  Does(<<>>, had, had) /\ Does(<<Rd(SuperId)>>, had, had)
<1>1. {Rd(SuperId)} \subseteq Accesses(LineIds)
  BY DEF Rd, Accesses, LineIds
<1>2. \A x \in {Rd(SuperId)}, p \in Page : x.line \in own[p] => p \in had
  BY Owners DEF Rd
<1>3. <<>> \in Seq({Rd(SuperId)}) /\ <<Rd(SuperId)>> \in Seq({Rd(SuperId)})
  OBVIOUS
<1> QED BY <1>1, <1>2, <1>3, OrderlyAccesses, Zenon DEF Does

\* Accesses to the lines of a page with DRAM are allowed, and keep it.
LEMMA LinesDo ==
    ASSUME NEW a \in Addr, NEW had \in SUBSET Page, a.page \in had,
           NEW s \in Seq(Accesses(linesFor(a)))
    PROVE  Does(s, had, had)
<1>1. Accesses(linesFor(a)) \subseteq Accesses(LineIds)
  BY Owners DEF Accesses
<1>2. \A x \in Accesses(linesFor(a)), p \in Page : x.line \in own[p] => p \in had
  BY Owners DEF Accesses
<1> QED BY <1>1, <1>2, OrderlyAccesses, Zenon DEF Does

\* The accesses of the handlers.
LEMMA Pieces ==
    ASSUME NEW a \in Addr
    PROVE  \A id, je, ke \in linesFor(a) :
              /\ {<<Rd(id)>>, <<Wr(id)>>, <<Rd(id), Rd(je)>>, <<Wr(id), Wr(je)>>}
                    \subseteq Seq(Accesses(linesFor(a)))
              /\ {<<Rd(id), Rd(je), Rd(ke)>>, <<Rd(id), Rd(je), Wr(ke)>>,
                  <<Rd(id), Wr(je), Wr(ke)>>, <<Wr(id), Wr(je), Wr(ke)>>}
                    \subseteq Seq(Accesses(linesFor(a)))
<1>1. \A id \in linesFor(a) : Rd(id) \in Accesses(linesFor(a)) /\ Wr(id) \in Accesses(linesFor(a))
  BY DEF Rd, Wr, Accesses
<1> QED BY <1>1

\* updateTWS frees the page it evicts, which had DRAM, if its superroot bit is
\* clear.
LEMMA UpdateDoes ==
    ASSUME Inv, NEW a \in Addr
    PROVE  /\ Does(updateSteps(a.page), allocated, allocated \ unused(a.page))
           /\ Does(storeSteps(a.page), allocated, allocated \ unused(a.page))
<1> DEFINE e == evicted(tws, a.page)
<1>1. a.page \in Page /\ allocated \subseteq Page
  BY DEF Addr, Inv, TypeOK
<1>2. frees(a.page) => e \in allocated
  BY <1>1, Touch, Zenon
<1>3. Does(updateSteps(a.page), allocated, allocated \ unused(a.page))
  <2>1. CASE frees(a.page)
    <3>1. /\ Does(<<Rd(SuperId)>>, allocated, allocated)
          /\ Does(<<Free(e)>>, allocated, allocated \ {e})
      BY <1>1, <1>2, <2>1, SuperDoes, Owners, OrderlyFree, Zenon DEF Does
    <3>2. Does(<<Rd(SuperId)>> \o <<Free(e)>>, allocated, allocated \ {e})
      BY <3>1, OrderlyCat, Zenon DEF Does
    <3>3. updateSteps(a.page) = <<Rd(SuperId)>> \o <<Free(e)>>
      BY <2>1 DEF updateSteps
    <3> QED BY <2>1, <3>2, <3>3 DEF unused
  <2>2. CASE ~frees(a.page)
    <3>1. updateSteps(a.page) \in {<<>>, <<Rd(SuperId)>>} /\ unused(a.page) = {}
      BY <2>2 DEF updateSteps, unused
    <3>2. allocated \ unused(a.page) = allocated
      BY <3>1
    <3> QED BY <1>1, <3>1, <3>2, SuperDoes
  <2> QED BY <2>1, <2>2
<1>4. allocated \ unused(a.page) \subseteq Page
  BY <1>1
<1> QED BY <1>3, <1>4, SuperDoes, OrderlyCat, Zenon DEF storeSteps, Does

\* Reads, and writes of zero over zero.
LEMMA LooksDo ==
    ASSUME Inv, NEW a \in Addr, Looks(a)
    PROVE  Does(steps', allocated, allocated')
<1>1. a.page \in Page /\ allocated \in SUBSET Page
  BY DEF Addr, Inv, TypeOK
<1>2. super[a.page] \/ reachesRoot(a.page) => a.page \in allocated
  <2>1. isInTWS(tws, a.page) <=> a.page \in ToSet(tws)
    BY <1>1, Touch, Zenon
  <2> QED BY <1>1, <2>1 DEF Inv, AllocatedSuper, reachesRoot
<1>3. /\ Does(<<Rd(SuperId)>>, allocated, allocated)
      /\ Does(<<>>, allocated, allocated)
      /\ Does(superSteps(a.page), allocated, allocated)
  BY <1>1, SuperDoes DEF superSteps
<1>4. ASSUME a.page \in allocated
      PROVE  /\ Does(<<Rd(RootId(a.page))>>, allocated, allocated)
             /\ Does(<<Rd(RootId(a.page)), Rd(LeafId(a))>>, allocated, allocated)
  <2>1. <<Rd(RootId(a.page))>> \in Seq(Accesses(linesFor(a)))
    BY Pieces DEF linesFor
  <2>2. <<Rd(RootId(a.page)), Rd(LeafId(a))>> \in Seq(Accesses(linesFor(a)))
    BY Pieces DEF linesFor
  <2> QED BY <1>1, <1>4, <2>1, <2>2, LinesDo, Zenon
<1>5. CASE ReadSuperClear(a)
  BY <1>3, <1>5 DEF ReadSuperClear
<1>6. CASE ReadRootClear(a)
  BY <1>2, <1>3, <1>4, <1>6, OrderlyCat, Zenon DEF ReadRootClear, Does
<1>7. reachesRoot(a.page) => Does(leafSteps(a), allocated, allocated)
  BY <1>2, <1>3, <1>4, OrderlyCat, Zenon DEF leafSteps, Does
<1>8. CASE ReadTags(a)
  BY <1>7, <1>8, Zenon DEF ReadTags
<1>9. CASE ReadZeroTags(a)
  BY <1>7, <1>9, UpdateDoes, OrderlyCat, Zenon DEF ReadZeroTags, Does
<1>10. CASE ClearNothing(a)
  <2>1. \/ super[a.page] /\ steps' = <<Rd(SuperId)>> \o <<Rd(RootId(a.page))>>
        \/ steps' = <<Rd(SuperId)>> \o <<>>
    BY <1>10 DEF ClearNothing
  <2>2. Does(steps', allocated, allocated)
    BY <1>2, <1>3, <1>4, <2>1, OrderlyCat, Zenon DEF Does
  <2> QED BY <1>10, <2>2, Zenon DEF ClearNothing
<1> QED BY <1>5, <1>6, <1>8, <1>9, <1>10, Zenon DEF Looks, handleRead

\* Writes of zero tags that change a table: the page has DRAM, and loses it last.
LEMMA ClearsDo ==
    ASSUME Inv, NEW a \in Addr, Clears(a)
    PROVE  Does(steps', allocated, allocated')
<1>1. a.page \in Page /\ allocated \in SUBSET Page
  BY DEF Addr, Inv, TypeOK
<1>2. a.page \in allocated
  <2>1. super[a.page]
    BY DEF Clears, ClearSome, ClearLine, ClearPage
  <2> QED BY <1>1, <2>1 DEF Inv, AllocatedSuper
<1>3. Does(clearSteps(a), allocated, allocated)
  <2>1. clearSteps(a) \in Seq(Accesses(linesFor(a)))
    BY Pieces DEF clearSteps, linesFor
  <2> QED BY <1>1, <1>2, <2>1, LinesDo, Zenon
<1>4. /\ Does(<<Wr(LeafId(a))>>, allocated, allocated)
      /\ Does(<<Wr(RootId(a.page))>>, allocated, allocated)
      /\ Does(<<Wr(RootId(a.page)), Wr(SuperId)>>, allocated, allocated)
  <2>1. /\ <<Wr(LeafId(a))>> \in Seq(Accesses(linesFor(a)))
        /\ <<Wr(RootId(a.page))>> \in Seq(Accesses(linesFor(a)))
        /\ <<Wr(RootId(a.page)), Wr(SuperId)>> \in Seq(Accesses(linesFor(a)))
    BY Pieces DEF linesFor
  <2> QED BY <1>1, <1>2, <2>1, LinesDo, Zenon
<1>5. CASE ClearSome(a)
  BY <1>3, <1>4, <1>5, OrderlyCat, Zenon DEF ClearSome, Does
<1>6. CASE ClearLine(a)
  BY <1>3, <1>4, <1>6, OrderlyCat, Zenon DEF ClearLine, Does
<1>7. CASE ClearPage(a)
  <2> DEFINE writes == <<Wr(RootId(a.page)), Wr(SuperId)>>
  <2>1. CASE steps' = clearSteps(a) \o writes /\ allocated' = allocated
    BY <1>3, <1>4, <2>1, OrderlyCat, Zenon DEF Does
  <2>2. CASE /\ steps' = clearSteps(a) \o <<Wr(RootId(a.page)), Wr(SuperId), Free(a.page)>>
             /\ allocated' = allocated \ {a.page}
    <3>1. <<Wr(RootId(a.page)), Wr(SuperId), Free(a.page)>> = writes \o <<Free(a.page)>>
      OBVIOUS
    <3>2. Does(<<Free(a.page)>>, allocated, allocated \ {a.page})
      BY <1>1, <1>2, Owners, OrderlyFree, Zenon DEF Does
    <3>3. Does(writes \o <<Free(a.page)>>, allocated, allocated \ {a.page})
      BY <1>4, <3>2, OrderlyCat, Zenon DEF Does
    <3> QED BY <1>3, <2>2, <3>1, <3>3, OrderlyCat, Zenon DEF Does
  <2> QED BY <1>7, <2>1, <2>2, Zenon DEF ClearPage
<1> QED BY <1>5, <1>6, <1>7 DEF Clears

\* Writes of tags: the touch comes first, then DRAM, then the lines.
LEMMA StoresDo ==
    ASSUME Inv, NEW a \in Addr, NEW tags \in Tags, Stores(a, tags)
    PROVE  Does(steps', allocated, allocated')
<1> DEFINE mid == allocated \ unused(a.page)
<1>1. a.page \in Page /\ mid \in SUBSET Page /\ unused(a.page) \subseteq Page \ {a.page}
  <2>1. a.page \in Page /\ allocated \subseteq Page
    BY DEF Addr, Inv, TypeOK
  <2> QED BY <2>1, Touch, Zenon
<1>2. /\ a.page \in allocated <=> isInTWS(tws, a.page) \/ super[a.page]
      /\ isInTWS(tws, a.page) <=> a.page \in ToSet(tws)
  <2>1. isInTWS(tws, a.page) <=> a.page \in ToSet(tws)
    BY <1>1, Touch, Zenon
  <2> QED BY <1>1, <2>1 DEF Inv, AllocatedSuper
<1>3. Does(storeSteps(a.page), allocated, mid)
  BY UpdateDoes
<1> HIDE DEF mid
<1>4. ASSUME NEW had \in SUBSET Page, a.page \in had
      PROVE  /\ Does(<<Wr(SuperId), Wr(RootId(a.page)), Wr(LeafId(a))>>, had, had)
             /\ Does(<<Rd(RootId(a.page)), Wr(RootId(a.page)), Wr(LeafId(a))>>, had, had)
             /\ Does(<<Rd(RootId(a.page)), Rd(LeafId(a)), Wr(LeafId(a))>>, had, had)
  <2>1. /\ <<Wr(SuperId), Wr(RootId(a.page)), Wr(LeafId(a))>> \in Seq(Accesses(linesFor(a)))
        /\ <<Rd(RootId(a.page)), Wr(RootId(a.page)), Wr(LeafId(a))>>
              \in Seq(Accesses(linesFor(a)))
        /\ <<Rd(RootId(a.page)), Rd(LeafId(a)), Wr(LeafId(a))>> \in Seq(Accesses(linesFor(a)))
    BY Pieces DEF linesFor
  <2> QED BY <1>4, <2>1, LinesDo, Zenon
<1>5. CASE WriteFreshPage(a, tags)
  <2> DEFINE now == mid \cup {a.page}
  <2>1. allocated' = now
    <3>1. allocated' = mid \cup ({a.page} \ ToSet(tws))
      BY <1>5 DEF WriteFreshPage, mid
    <3> QED BY <1>1, <1>2, <3>1 DEF mid
  <2>2. Does(allocSteps(a.page), mid, now)
    <3>1. CASE isInTWS(tws, a.page)
      <4>1. allocSteps(a.page) = <<>> /\ now = mid
        BY <1>1, <1>2, <3>1 DEF mid, allocSteps
      <4> QED BY <1>1, <4>1, SuperDoes, Zenon
    <3>2. CASE ~isInTWS(tws, a.page)
      <4>1. a.page \in Page \ mid /\ allocSteps(a.page) = <<Alloc(a.page)>>
        BY <1>1, <1>2, <1>5, <3>2 DEF mid, allocSteps, WriteFreshPage
      <4>2. Does(<<Alloc(a.page)>>, mid, now)
        BY <1>1, <4>1, Owners, OrderlyAlloc, Zenon DEF Does
      <4> QED BY <4>1, <4>2
    <3> QED BY <3>1, <3>2
  <2>3. now \in SUBSET Page /\ a.page \in now
    BY <1>1
  <2>4. Does(<<Wr(SuperId), Wr(RootId(a.page)), Wr(LeafId(a))>>, now, now)
    BY <1>4, <2>3, Zenon
  <2>5. steps' = (storeSteps(a.page) \o allocSteps(a.page))
                 \o <<Wr(SuperId), Wr(RootId(a.page)), Wr(LeafId(a))>>
    BY <1>5, Zenon DEF WriteFreshPage, takeSteps
  <2> HIDE DEF now
  <2>6. Does(storeSteps(a.page) \o allocSteps(a.page), allocated, now)
    BY <1>3, <2>2, OrderlyCat, Zenon DEF Does
  <2> QED BY <2>1, <2>4, <2>5, <2>6, OrderlyCat, Zenon DEF Does
<1>6. CASE WriteFreshLine(a, tags) \/ WriteLine(a, tags)
  <2>1. allocated' = mid /\ a.page \in mid
    BY <1>1, <1>2, <1>6 DEF WriteFreshLine, WriteLine, mid
  <2>2. PICK t \in {<<Rd(RootId(a.page)), Wr(RootId(a.page)), Wr(LeafId(a))>>,
                    <<Rd(RootId(a.page)), Rd(LeafId(a)), Wr(LeafId(a))>>} :
           steps' = storeSteps(a.page) \o t
    BY <1>6, Zenon DEF WriteFreshLine, WriteLine
  <2>3. Does(t, mid, mid)
    BY <1>1, <1>4, <2>1, <2>2, Zenon
  <2> QED BY <1>3, <2>1, <2>2, <2>3, OrderlyCat, Zenon DEF Does
<1> QED BY <1>5, <1>6 DEF Stores

\* Every handler's steps explain how the pages with DRAM change.
LEMMA NextDoes ==
    ASSUME Inv, Next
    PROVE  Does(steps', allocated, allocated')
BY NextCases, LooksDo, ClearsDo, StoresDo, Zenon

LEMMA StepDoes ==
    ASSUME Inv, [Next]_vars
    PROVE  Does(steps', allocated, allocated') \/ UNCHANGED vars
BY NextDoes

\* The accesses, allocations and frees of every handler are of lines and pages of
\* the system, the evicted page included.
LEMMA StepsStep ==
    ASSUME Inv, [Next]_vars
    PROVE  steps' \in Seq(Actions(LineIds))
BY StepDoes DEF Does, Orderly, Inv, TypeOK, vars

\* The reply names the request, and the tags come from a leaf line.
LEMMA ReplyStep ==
    ASSUME Inv, [Next]_vars
    PROVE  reply' \in {Ready} \cup Request
<1>1. ASSUME NEW op \in {"read", "write"}, NEW a \in Addr, NEW tags \in Tags
      PROVE Served(op, a, tags) \in Request
  BY DEF Served, Request
<1>2. ASSUME NEW a \in Addr PROVE leafLine(a)[a.granule] \in Tags
  BY DEF Inv, TypeOK, LeafTable, LeafLine, leafLine, Addr
<1>3. ASSUME NEW a \in Addr, Looks(a) PROVE reply' \in Request
  BY <1>1, <1>2, <1>3, NoTagsAssumption
     DEF Looks, handleRead, ReadSuperClear, ReadRootClear, ReadTags, ReadZeroTags, ClearNothing
<1>4. ASSUME NEW a \in Addr, Clears(a) PROVE reply' \in Request
  BY <1>1, <1>4, NoTagsAssumption DEF Clears, ClearSome, ClearLine, ClearPage
<1>5. ASSUME NEW a \in Addr, NEW tags \in Tags, Stores(a, tags) PROVE reply' \in Request
  BY <1>1, <1>5 DEF Stores, WriteFreshPage, WriteFreshLine, WriteLine
<1>6. CASE UNCHANGED vars
  BY <1>6 DEF vars, Inv, TypeOK
<1> QED BY <1>3, <1>4, <1>5, <1>6, Cases, Zenon

-----------------------------------------------------------------------------
(* The invariant *)

\* Setup gives every level the summary of the one below, and DRAM to the pages
\* with tags.
LEMMA InvInit == Init => Inv
<1> SUFFICES ASSUME Init PROVE Inv
  OBVIOUS
<1>1. root \in [Page -> RootLine] /\ super \in [Page -> BOOLEAN]
  BY DEF Init, RootOf, RootLine
<1>2. TypeOK
  BY <1>1 DEF Init, TypeOK
<1>3. WorkingSetOK
  BY twsAssumption DEF Init, WorkingSetOK
<1>4. NoIdleRootBit
  BY DEF Init, NoIdleRootBit, RootOf
<1>5. SuperMeansRoot
  BY DEF Init, SuperMeansRoot
<1>6. AllocatedSuper
  <2>1. ToSet(tws) = {}
    BY DEF Init, ToSet
  <2> QED BY <2>1 DEF Init, AllocatedSuper
<1> QED BY <1>2, <1>3, <1>4, <1>5, <1>6 DEF Inv

\* Every handler keeps the inductive invariant.
LEMMA InvStep == Inv /\ [Next]_vars => Inv'
<1> SUFFICES ASSUME Inv, [Next]_vars PROVE Inv'
  OBVIOUS
<1>1. Tables' /\ Summaries'
  <2>1. Tables /\ Summaries
    BY DEF Inv, TypeOK, Tables, Summaries
  <2>2. ASSUME UNCHANGED <<super, root, leaf>> PROVE Tables' /\ Summaries'
    BY <2>1, <2>2 DEF Tables, Summaries, NoIdleRootBit, SuperMeansRoot
  <2>3. CASE \E a \in Addr : Looks(a)
    BY <2>2, <2>3, LooksUnchanged
  <2>4. CASE \E a \in Addr : Clears(a)
    BY <2>1, <2>4, ClearsTables, Zenon
  <2>5. CASE \E a \in Addr, tags \in Tags : tags # NoTags /\ Stores(a, tags)
    BY <2>1, <2>5, StoresTables, Zenon
  <2>6. CASE UNCHANGED vars
    BY <2>2, <2>6 DEF vars
  <2> QED BY <2>3, <2>4, <2>5, <2>6, Cases, Zenon
<1>2. tws' \in Seq(Page) /\ WorkingSetOK'
  BY WorkingSetStep
<1>3. AllocatedSuper'
  BY AllocatedStep
<1>4. allocated' \in SUBSET Page
  <2>1. ToSet(tws') \subseteq Page
    BY <1>2, LenProperties, ElementOfSeq DEF ToSet
  <2> QED BY <1>3, <2>1 DEF AllocatedSuper
<1>5. reply' \in {Ready} \cup Request /\ steps' \in Seq(Actions(LineIds))
  BY ReplyStep, StepsStep
<1> QED BY <1>1, <1>2, <1>3, <1>4, <1>5 DEF Inv, TypeOK, Tables, Summaries

\* The inductive invariant holds in every reachable state.
LEMMA Invariance == Spec => []Inv
BY InvInit, InvStep, PTL DEF Spec

\* Tables, working set, reply and steps of PhoenixController keep their types.
THEOREM TypeCorrect == Spec => []TypeOK
<1>1. Inv => TypeOK
  BY DEF Inv
<1> QED BY Invariance, <1>1, PTL

\* The working set never repeats a page or exceeds twsSize between requests.
THEOREM WorkingSetCorrect == Spec => []WorkingSetOK
<1>1. Inv => WorkingSetOK
  BY DEF Inv
<1> QED BY Invariance, <1>1, PTL

\* Under the invariant the superroot bit of a page says whether it holds a tag.
LEMMA SuperMeansTag == Inv => SuperMeansTags
<1> SUFFICES ASSUME Inv, NEW p \in Page PROVE super[p] <=> HoldsTag(p)
  BY DEF SuperMeansTags
<1>1. ASSUME super[p] PROVE HoldsTag(p)
  <2>1. PICK s \in Slot : root[p][s]
    BY <1>1 DEF Inv, SuperMeansRoot, TypeOK, RootLine, ZeroRoot
  <2>2. leaf[p][s] # ZeroLeaf /\ leaf[p][s] \in LeafLine
    BY <2>1 DEF Inv, NoIdleRootBit, TypeOK, LeafTable
  <2>3. PICK g \in Granule : leaf[p][s][g] # NoTags
    BY <2>2 DEF LeafLine, ZeroLeaf
  <2>4. [page |-> p, slot |-> s, granule |-> g] \in Addr
    BY DEF Addr
  <2>5. tagsOf[[page |-> p, slot |-> s, granule |-> g]] # NoTags
    BY <2>1, <2>3, <2>4 DEF tagsOf, rootTag, leafLine
  <2> QED BY <2>4, <2>5 DEF HoldsTag
<1>2. ASSUME HoldsTag(p) PROVE super[p]
  <2>1. PICK a \in Addr : a.page = p /\ tagsOf[a] # NoTags
    BY <1>2 DEF HoldsTag
  <2>2. root[p][a.slot] /\ a.slot \in Slot
    BY <2>1 DEF tagsOf, rootTag, Addr
  <2>3. root[p] # ZeroRoot
    BY <2>2 DEF ZeroRoot
  <2> QED BY <2>3 DEF Inv, SuperMeansRoot
<1> QED BY <1>1, <1>2

\* Whatever the requests, superroot bits are set exactly over pages with tags.
THEOREM SuperCorrect == Spec => []SuperMeansTags
BY Invariance, SuperMeansTag, PTL

\* The dissertation's invariant: a page has DRAM exactly while it is in the
\* working set or holds a tag.
THEOREM AllocationCorrect == Spec => []AllocatedPages
<1>1. Inv => AllocatedPages
  <2> SUFFICES ASSUME Inv PROVE AllocatedPages
    OBVIOUS
  <2>1. {p \in Page : super[p]} = {p \in Page : HoldsTag(p)}
    BY SuperMeansTag DEF SuperMeansTags
  <2> QED BY <2>1 DEF Inv, AllocatedSuper, AllocatedPages
<1> QED BY Invariance, <1>1, PTL

\* The page touched last is not the next to go, with either victim rule: unless the
\* working set is one page, no request takes the DRAM of the page at its back, not
\* even one that clears the last tag of that page.
THEOREM NoThrashAlways == Spec => NoThrash
<1>1. ASSUME Inv, Inv', [Next]_vars, twsSize > 1, tws # <<>> PROVE Last(tws) \in allocated'
  <2>1. tws \in Seq(Page) /\ distinct(tws) /\ Len(tws) <= twsSize /\ Last(tws) = tws[Len(tws)]
    BY <1>1 DEF Inv, TypeOK, WorkingSetOK, distinct, Last
  <2>2. ToSet(tws') \subseteq allocated'
    BY <1>1 DEF Inv, AllocatedSuper
  <2>3. CASE tws' = tws
    <3>1. Len(tws) \in DOMAIN tws
      BY <1>1, <2>1, LenProperties, EmptySeq
    <3> QED BY <2>1, <2>2, <2>3, <3>1 DEF ToSet
  <2>4. CASE \E a \in Addr : Touches(a)
    <3>1. PICK p \in Page : tws' = touched(tws, p)
      BY <2>4 DEF Touches, Addr
    <3> QED BY <1>1, <2>1, <2>2, <3>1, BackStays
  <2> QED BY <1>1, <2>3, <2>4, Touching, Zenon
<1>2. Inv /\ Inv' /\ [Next]_vars
        => [twsSize > 1 /\ tws # <<>> => Last(tws) \in allocated']_vars
  BY <1>1
<1> QED BY Invariance, <1>2, PTL DEF Spec, NoThrash

-----------------------------------------------------------------------------
(* Accesses, allocations and frees within a handler *)

\* What orderly steps mean at each of them.
LEMMA DoesEach ==
    ASSUME Does(steps', allocated, allocated')
    PROVE  \A i \in 1 .. Len(steps') :
              /\ \A a \in Addr :
                    steps'[i].line \in {RootId(a.page), LeafId(a)} => AllocatedAt(a.page, i)
              /\ \A p \in Page : /\ steps'[i] = Alloc(p) => ~AllocatedAt(p, i)
                                 /\ steps'[i] = Free(p)  => AllocatedAt(p, i)
<1> SUFFICES ASSUME NEW i \in 1 .. Len(steps')
             PROVE  /\ \A a \in Addr :
                          steps'[i].line \in {RootId(a.page), LeafId(a)} => AllocatedAt(a.page, i)
                    /\ \A p \in Page : /\ steps'[i] = Alloc(p) => ~AllocatedAt(p, i)
                                       /\ steps'[i] = Free(p)  => AllocatedAt(p, i)
  OBVIOUS
<1>1. allowed(steps'[i], holders(steps', allocated, i), own)
  BY DEF Does, Orderly
<1>2. \A p \in Page : p \in holders(steps', allocated, i) <=> AllocatedAt(p, i)
  BY DEF holders, AllocatedAt
<1>3. \A a \in Addr : a.page \in Page /\ {RootId(a.page), LeafId(a)} \subseteq own[a.page]
  BY DEF own, Addr
<1> QED BY <1>1, <1>2, <1>3, Zenon DEF allowed

\* "We never risk reading from an unallocated page of tags": whatever the requests,
\* root and leaf lines are accessed only while their page has DRAM, also when the
\* handler frees another page on the way.
THEOREM AccessesSafe == Spec => AccessesAllocated
<1>1. Inv /\ [Next]_vars =>
        [\A i \in 1 .. Len(steps'), a \in Addr :
            steps'[i].line \in {RootId(a.page), LeafId(a)} => AllocatedAt(a.page, i)]_vars
  BY StepDoes, DoesEach, Zenon
<1> QED BY Invariance, <1>1, PTL DEF Spec, AccessesAllocated

\* DRAMAllocate and DRAMFree alternate for every page.
THEOREM Alternate == Spec => AllocFreeAlternate
<1>1. Inv /\ [Next]_vars =>
        [\A i \in 1 .. Len(steps'), p \in Page :
            /\ steps'[i] = Alloc(p) => ~AllocatedAt(p, i)
            /\ steps'[i] = Free(p)  => AllocatedAt(p, i)]_vars
  BY StepDoes, DoesEach, Zenon
<1> QED BY Invariance, <1>1, PTL DEF Spec, AllocFreeAlternate

-----------------------------------------------------------------------------
(* The three levels are one table of tags *)

\* What a write of tags at a does to the tags the tables stand for.
stored(a, tags) == tagsOf' = [tagsOf EXCEPT ![a] = tags]

tagAt(b) == IF root[b.page][b.slot] THEN leaf[b.page][b.slot][b.granule] ELSE NoTags

\* The table of tags, spelled out for the proofs.
LEMMA TagsOf == tagsOf = [b \in Addr |-> tagAt(b)]
BY DEF tagsOf, tagAt, rootTag, leafLine

\* A step that changes the tags of one address only stores them there.
LEMMA Stored ==
    ASSUME NEW a \in Addr, NEW tags \in Tags,
           \A b \in Addr : tagAt(b)' = IF b = a THEN tags ELSE tagAt(b)
    PROVE  stored(a, tags)
<1>1. tagsOf' = [b \in Addr |-> tagAt(b)']
  BY DEF tagsOf, tagAt, rootTag, leafLine
<1> HIDE DEF tagAt
<1> QED BY <1>1, TagsOf DEF stored

\* Storing a line that differs from the old one, or from the zero line if the root
\* bit was clear, in the tags of a only, with the root bit set before or now.
LEMMA StoreLine ==
    ASSUME Inv, NEW a \in Addr, NEW tags \in Tags, NEW old \in LeafLine,
           \/ rootTag(a) /\ old = leafLine(a)
           \/ ~rootTag(a) /\ old = ZeroLeaf,
           writeLeafLine(a, modifyTags(old, a.granule, tags)),
           \A p \in Page, s \in Slot :
              root'[p][s] <=> (root[p][s] \/ (p = a.page /\ s = a.slot))
    PROVE  stored(a, tags)
<1>1. Tables
  BY DEF Inv, TypeOK, Tables
<1>2. modifyTags(old, a.granule, tags) \in LeafLine
  BY LinesWithTags, Zenon
<1>3. \A p \in Page, s \in Slot :
         leaf'[p][s] = IF p = a.page /\ s = a.slot THEN modifyTags(old, a.granule, tags)
                       ELSE leaf[p][s]
  BY <1>1, <1>2, WriteLeaf
<1>4. ASSUME NEW b \in Addr PROVE tagAt(b)' = IF b = a THEN tags ELSE tagAt(b)
  <2>1. CASE b.page = a.page /\ b.slot = a.slot
    <3>1. root'[b.page][b.slot] /\ leaf'[b.page][b.slot] = [old EXCEPT ![a.granule] = tags]
      BY <1>3, <2>1 DEF modifyTags, Addr
    <3>2. (b = a <=> b.granule = a.granule) /\ b.granule \in Granule
      BY <2>1 DEF Addr
    <3> QED BY <2>1, <3>1, <3>2 DEF tagAt, LeafLine, ZeroLeaf, rootTag, leafLine
  <2>2. CASE ~(b.page = a.page /\ b.slot = a.slot)
    <3>1. /\ root'[b.page][b.slot] <=> root[b.page][b.slot]
          /\ leaf'[b.page][b.slot] = leaf[b.page][b.slot]
      BY <1>3, <2>2 DEF Addr
    <3> QED BY <2>2, <3>1 DEF tagAt
  <2> QED BY <2>1, <2>2
<1> QED BY <1>4, Stored, Zenon

\* Clearing the root bit of a line whose only tags are those of a clears them.
LEMMA DropLine ==
    ASSUME Inv, NEW a \in Addr, ClearLine(a) \/ ClearPage(a)
    PROVE  stored(a, NoTags)
<1>1. Tables
  BY DEF Inv, TypeOK, Tables
<1>2. /\ a.page \in Page /\ a.slot \in Slot
      /\ clearedRoot(a) \in RootLine /\ leafLine(a) \in LeafLine
  BY <1>1, Lines, Zenon
<1>3. \A q \in Page : root'[q] = IF q = a.page THEN clearedRoot(a) ELSE root[q]
  BY <1>1, <1>2, WriteRoot, Zenon DEF ClearLine, ClearPage
<1>4. \A s \in Slot : clearedRoot(a)[s] <=> root[a.page][s] /\ s # a.slot
  BY <1>1, <1>2 DEF clearedRoot, modifyTag, RootLine, Tables
<1>5. leaf' = leaf /\ rootTag(a) /\ cleared(a) = ZeroLeaf
  BY DEF ClearLine, ClearPage
<1>6. ASSUME NEW b \in Addr PROVE tagAt(b)' = IF b = a THEN NoTags ELSE tagAt(b)
  <2>1. CASE b.page = a.page /\ b.slot = a.slot
    <3>1. ~root'[b.page][b.slot]
      BY <1>2, <1>3, <1>4, <2>1
    <3>2. ASSUME b # a PROVE leaf[b.page][b.slot][b.granule] = NoTags
      <4>1. b.granule # a.granule /\ b.granule \in Granule
        BY <2>1, <3>2 DEF Addr
      <4>2. [leafLine(a) EXCEPT ![a.granule] = NoTags] = ZeroLeaf
        BY <1>5 DEF cleared, modifyTags
      <4>3. leafLine(a)[b.granule] = NoTags
        BY <1>2, <4>1, <4>2 DEF LeafLine, ZeroLeaf
      <4> QED BY <2>1, <4>3 DEF leafLine
    <3> QED BY <3>1, <3>2 DEF tagAt
  <2>2. CASE ~(b.page = a.page /\ b.slot = a.slot)
    <3>1. (root'[b.page][b.slot] <=> root[b.page][b.slot]) /\ leaf' = leaf
      BY <1>2, <1>3, <1>4, <1>5, <2>2 DEF Addr
    <3> QED BY <2>2, <3>1 DEF tagAt
  <2> QED BY <2>1, <2>2
<1> QED BY <1>6, Stored, NoTagsAssumption

\* Looking at the tables finds the tags they stand for, the superroot and root
\* lines being summaries, and changes none.
LEMMA LooksStore ==
    ASSUME Inv, NEW a \in Addr, handleRead(a)
    PROVE  Store!handleRead(a)
<1>1. tagsOf' = tagsOf
  BY LooksUnchanged DEF Looks, tagsOf, rootTag, leafLine
<1>2. ~super[a.page] => ~rootTag(a)
  BY DEF Inv, SuperMeansRoot, ZeroRoot, rootTag, Addr
<1>3. reply' = Served("read", a, tagsOf[a])
  <2>1. CASE rootTag(a)
    <3>1. tagsOf[a] = leafLine(a)[a.granule]
      BY <2>1 DEF tagsOf
    <3> QED BY <1>2, <2>1, <3>1, Zenon
            DEF handleRead, ReadSuperClear, ReadRootClear, ReadTags, ReadZeroTags, reachesRoot
  <2>2. CASE ~rootTag(a)
    <3>1. tagsOf[a] = NoTags
      BY <2>2 DEF tagsOf
    <3> QED BY <2>2, <3>1, Zenon
            DEF handleRead, ReadSuperClear, ReadRootClear, ReadTags, ReadZeroTags
  <2> QED BY <2>1, <2>2
<1> QED BY <1>1, <1>3 DEF Store!handleRead, Store!Served, Served

\* Every write of zero tags that changes a table clears the tags of its address.
LEMMA ClearsStore ==
    ASSUME Inv, NEW a \in Addr, ClearNothing(a) \/ Clears(a)
    PROVE  Store!handleWrite(a, NoTags)
<1>1. reply' = Served("write", a, NoTags)
  BY DEF Clears, ClearNothing, ClearSome, ClearLine, ClearPage
<1>2. stored(a, NoTags)
  <2>1. CASE ClearNothing(a)
    <3>1. tagsOf' = tagsOf
      BY <2>1 DEF ClearNothing, tagsOf, rootTag, leafLine
    <3>2. ~rootTag(a)
      BY <2>1 DEF ClearNothing, Inv, SuperMeansRoot, ZeroRoot, rootTag, Addr
    <3> QED BY <3>1, <3>2 DEF stored, tagsOf
  <2>2. CASE ClearSome(a)
    <3>1. leafLine(a) \in LeafLine
      BY Lines DEF Inv, TypeOK, Tables
    <3>2. \A p \in Page, s \in Slot :
             root'[p][s] <=> (root[p][s] \/ (p = a.page /\ s = a.slot))
      BY <2>2 DEF ClearSome, rootTag
    <3> QED BY <2>2, <3>1, <3>2, StoreLine, NoTagsAssumption DEF ClearSome, cleared
  <2>3. CASE ClearLine(a) \/ ClearPage(a)
    BY <2>3, DropLine
  <2> QED BY <2>1, <2>2, <2>3 DEF Clears
<1> QED BY <1>1, <1>2 DEF stored, Store!handleWrite, Store!Served, Served

\* Every write of non-zero tags stores them at its address, and nowhere else.
LEMMA StoresStore ==
    ASSUME Inv, NEW a \in Addr, NEW tags \in Tags, Stores(a, tags)
    PROVE  Store!handleWrite(a, tags)
<1>1. reply' = Served("write", a, tags)
  BY DEF Stores, WriteFreshPage, WriteFreshLine, WriteLine
<1>2. Tables
  BY DEF Inv, TypeOK, Tables
<1>3. /\ a.page \in Page /\ a.slot \in Slot
      /\ leafLine(a) \in LeafLine /\ ZeroLeaf \in LeafLine
      /\ modifyTag(root[a.page], a.slot, TRUE) \in RootLine
      /\ modifyTag(ZeroRoot, a.slot, TRUE) \in RootLine
  BY <1>2, Lines, Zenon
<1>4. \A p \in Page, s \in Slot : root'[p][s] <=> (root[p][s] \/ (p = a.page /\ s = a.slot))
  <2>1. CASE WriteFreshPage(a, tags)
    <3>1. \A q \in Page : root'[q] = IF q = a.page THEN modifyTag(ZeroRoot, a.slot, TRUE)
                                    ELSE root[q]
      BY <1>2, <1>3, <2>1, WriteRoot, Zenon DEF WriteFreshPage
    <3>2. root[a.page] = ZeroRoot
      BY <1>3, <2>1 DEF WriteFreshPage, Inv, SuperMeansRoot
    <3>3. \A s \in Slot : modifyTag(ZeroRoot, a.slot, TRUE)[s] <=> (ZeroRoot[s] \/ s = a.slot)
      BY DEF modifyTag, ZeroRoot
    <3> QED BY <3>1, <3>2, <3>3
  <2>2. CASE WriteFreshLine(a, tags)
    <3>1. \A q \in Page : root'[q] = IF q = a.page THEN modifyTag(root[a.page], a.slot, TRUE)
                                    ELSE root[q]
      BY <1>2, <1>3, <2>2, WriteRoot, Zenon DEF WriteFreshLine
    <3>2. \A s \in Slot :
             modifyTag(root[a.page], a.slot, TRUE)[s] <=> (root[a.page][s] \/ s = a.slot)
      BY <1>2, <1>3 DEF modifyTag, RootLine, Tables
    <3> QED BY <3>1, <3>2
  <2>3. CASE WriteLine(a, tags)
    BY <2>3 DEF WriteLine, rootTag
  <2> QED BY <2>1, <2>2, <2>3 DEF Stores
<1>5. PICK old \in LeafLine : /\ writeLeafLine(a, modifyTags(old, a.granule, tags))
                              /\ \/ rootTag(a) /\ old = leafLine(a)
                                 \/ ~rootTag(a) /\ old = ZeroLeaf
  <2>1. WriteFreshPage(a, tags) => ~rootTag(a)
    BY <1>3 DEF WriteFreshPage, Inv, SuperMeansRoot, ZeroRoot, rootTag
  <2> QED BY <1>3, <2>1, Zenon DEF Stores, WriteFreshPage, WriteFreshLine, WriteLine
<1>6. stored(a, tags)
  BY <1>4, <1>5, StoreLine, Zenon
<1> QED BY <1>1, <1>6 DEF stored, Store!handleWrite, Store!Served, Served

\* Every handler is a read or a write of the table of tags.
LEMMA StoreStep == Inv /\ [Next]_vars => [Store!Next]_<<tagsOf, reply>>
<1> SUFFICES ASSUME Inv, [Next]_vars PROVE [Store!Next]_<<tagsOf, reply>>
  OBVIOUS
<1>1. ASSUME UNCHANGED vars PROVE UNCHANGED <<tagsOf, reply>>
  BY <1>1 DEF vars, tagsOf, rootTag, leafLine
<1>2. CASE \E a \in Addr : Looks(a) \/ Clears(a)
  <2>1. PICK a \in Addr : handleRead(a) \/ ClearNothing(a) \/ Clears(a)
    BY <1>2 DEF Looks
  <2>2. Store!handleRead(a) \/ Store!handleWrite(a, NoTags)
    BY <2>1, LooksStore, ClearsStore, Zenon
  <2> QED BY <2>2, NoTagsAssumption DEF Store!Next, Store!Addr, Addr
<1>3. CASE \E a \in Addr, tags \in Tags : tags # NoTags /\ Stores(a, tags)
  BY <1>3, StoresStore DEF Store!Next, Store!Addr, Addr
<1> QED BY <1>1, <1>2, <1>3, Cases, Zenon

\* The tables setup leaves stand for some table of tags.
LEMMA StoreInit == Inv /\ Init => Store!Init
<1> SUFFICES ASSUME Inv, Init PROVE Store!Init
  OBVIOUS
<1>1. tagsOf \in [Addr -> Tags]
  BY NoTagsAssumption DEF Inv, TypeOK, LeafTable, LeafLine, tagsOf, rootTag, leafLine, Addr
<1> QED BY <1>1 DEF Init, Store!Init, Store!Ready, Ready, Store!Addr, Addr

\* PhoenixController answers every read as a single table of tags would, although
\* it skips the superroot for pages of the working set and leaves stale leaf lines
\* in memory.
THEOREM Implements == Spec => StoreSpec
BY InvInit, InvStep, StoreInit, StoreStep, PTL DEF Spec, StoreSpec, Store!Spec

-----------------------------------------------------------------------------
(* The statistics *)

\* What the statistics keep: sizes that were sampled, the present one among them.
StatsInv ==
    /\ Inv
    /\ balance \in Int
    /\ dramUsage \subseteq Nat /\ IsFiniteSet(dramUsage)
    /\ Cardinality(allocated) \in dramUsage

\* The statistics module counts as this one does.
LEMMA SameSize == \A S : Stats!Cardinality(S) = Cardinality(S)
BY DEF Stats!Cardinality, Cardinality

\* The pages with DRAM are finitely many.
LEMMA AllocatedFinite ==
    \A pages \in SUBSET Page : IsFiniteSet(pages) /\ Cardinality(pages) \in Nat
BY PageAssumption, FS_Subset, FS_CardinalityType

\* What a request adds to the counters is how many pages get DRAM by it, less those
\* that lose it.
LEMMA BalanceStep ==
    ASSUME StatsInv, StatsNext
    PROVE  /\ balance' \in Int
           /\ balance' - Cardinality(allocated') = balance - Cardinality(allocated)
<1>1. Inv /\ Inv' /\ Does(steps', allocated, allocated')
  BY InvStep, NextDoes DEF StatsInv, StatsNext
<1>2. /\ IsFiniteSet(allocated)
      /\ Cardinality(allocated) \in Nat /\ Cardinality(allocated') \in Nat
  BY <1>1, AllocatedFinite DEF Inv, TypeOK
<1>3. /\ count(steps', "alloc") - count(steps', "free")
            = Cardinality(allocated') - Cardinality(allocated)
      /\ steps' \in Seq(Actions(LineIds))
  BY <1>1, <1>2 DEF Does, Orderly
<1>4. count(steps', "alloc") \in Nat /\ count(steps', "free") \in Nat
  BY <1>3, Marked
<1>5. balance' = balance + count(steps', "alloc") - count(steps', "free")
  BY SameSize DEF StatsNext, Stats!counted, Stats!calls, count, marked
<1> QED BY <1>2, <1>3, <1>4, <1>5 DEF StatsInv

\* Every request keeps the statistics.
LEMMA StatsStep == StatsInv /\ [StatsNext]_<<vars, balance, dramUsage>> => StatsInv'
<1> SUFFICES ASSUME StatsInv, [StatsNext]_<<vars, balance, dramUsage>> PROVE StatsInv'
  OBVIOUS
<1>1. [Next]_vars
  BY DEF StatsNext
<1>2. Inv'
  BY <1>1, InvStep DEF StatsInv
<1>3. CASE StatsNext
  <2>1. dramUsage' = dramUsage \cup {Cardinality(allocated')}
    BY <1>3, SameSize DEF StatsNext, Stats!counted
  <2>2. Cardinality(allocated') \in Nat
    BY <1>2, AllocatedFinite DEF Inv, TypeOK
  <2>3. IsFiniteSet(dramUsage')
    BY <2>1, FS_AddElement DEF StatsInv
  <2> QED BY <1>2, <1>3, <2>1, <2>2, <2>3, BalanceStep DEF StatsInv
<1>4. CASE UNCHANGED <<vars, balance, dramUsage>>
  <2>1. allocated' = allocated
    BY <1>4 DEF vars
  <2> QED BY <1>2, <1>4, <2>1 DEF StatsInv
<1> QED BY <1>3, <1>4

\* The constructed controller has sampled its first size.
LEMMA StatsStart == StatsInit => StatsInv
<1> SUFFICES ASSUME StatsInit PROVE StatsInv
  OBVIOUS
<1>1. Inv
  BY InvInit DEF StatsInit
<1>2. dramUsage = {Cardinality(allocated)} /\ balance = 0
  BY SameSize DEF StatsInit, Stats!constructed
<1>3. Cardinality(allocated) \in Nat
  BY <1>1, AllocatedFinite DEF Inv, TypeOK
<1>4. IsFiniteSet(dramUsage)
  BY <1>2, FS_Singleton
<1>5. dramUsage \subseteq Nat /\ Cardinality(allocated) \in dramUsage /\ balance \in Int
  BY <1>2, <1>3
<1> QED BY <1>1, <1>4, <1>5 DEF StatsInv

LEMMA StatsInvariance == StatsSpec => []StatsInv
BY StatsStart, StatsStep, PTL DEF StatsSpec

\* ALLOC COUNT less FREE COUNT is exactly the growth of the set of pages with DRAM,
\* over every handler path and whatever is evicted on it.
THEOREM CountsExplain == StatsSpec => CountsExplainAllocated
<1>1. StatsInv /\ [StatsNext]_<<vars, balance, dramUsage>> =>
        [balance' - Stats!Cardinality(allocated')
           = balance - Stats!Cardinality(allocated)]_<<allocated, steps, balance, dramUsage>>
  BY BalanceStep, SameSize DEF vars
<1> QED BY StatsInvariance, <1>1, PTL
        DEF StatsSpec, CountsExplainAllocated, Stats!CountsExplainAllocated

-----------------------------------------------------------------------------
(* How many pages have DRAM while a handler runs *)

\* Pieces of handlers that allocate nothing: accesses, and updateTWS.
LEMMA FreeingPieces ==
    ASSUME Inv, NEW a \in Addr
    PROVE  /\ Seq(Accesses(linesFor(a))) \subseteq Seq(Frees(LineIds))
           /\ Seq(Accesses(linesFor(a))) \subseteq Seq(Allocs(LineIds))
           /\ <<>> \in Seq(Frees(LineIds)) /\ <<Rd(SuperId)>> \in Seq(Frees(LineIds))
           /\ <<Free(a.page)>> \in Seq(Frees(LineIds))
           /\ superSteps(a.page) \in Seq(Frees(LineIds))
           /\ updateSteps(a.page) \in Seq(Frees(LineIds))
           /\ storeSteps(a.page) \in Seq(Frees(LineIds))
<1>1. Accesses(linesFor(a)) \subseteq Accesses(LineIds)
  BY Owners DEF Accesses
<1>2. /\ Seq(Accesses(linesFor(a))) \subseteq Seq(Frees(LineIds))
      /\ Seq(Accesses(linesFor(a))) \subseteq Seq(Allocs(LineIds))
  BY <1>1, SeqMonotonic DEF Frees, Allocs
<1>3. Rd(SuperId) \in Frees(LineIds)
  BY DEF Rd, Frees, Accesses, LineIds
<1>4. \A p \in Page : Free(p) \in Frees(LineIds)
  BY DEF Frees
<1>5. a.page \in Page /\ (frees(a.page) => evicted(tws, a.page) \in Page)
  <2>1. a.page \in Page
    BY DEF Addr
  <2> QED BY <2>1, Touch, Zenon
<1>6. superSteps(a.page) \in Seq(Frees(LineIds))
  BY <1>3 DEF superSteps
<1>7. updateSteps(a.page) \in Seq(Frees(LineIds))
  BY <1>3, <1>4, <1>5 DEF updateSteps
<1>8. storeSteps(a.page) \in Seq(Frees(LineIds))
  BY <1>3, <1>7 DEF storeSteps
<1> QED BY <1>2, <1>3, <1>4, <1>5, <1>6, <1>7, <1>8

\* Reads, and writes of zero tags, allocate nothing and free one page at most.
LEMMA LooksFree ==
    ASSUME Inv, NEW a \in Addr, Looks(a) \/ Clears(a)
    PROVE  /\ steps' \in Seq(Frees(LineIds))
           /\ \E e : allocated \ {e} \subseteq allocated'
<1> DEFINE F == Seq(Frees(LineIds))
<1>1. \A s, t \in F : s \o t \in F
  BY ConcatProperties
<1>2. /\ clearSteps(a) \in F /\ <<Wr(LeafId(a))>> \in F /\ <<Wr(RootId(a.page))>> \in F
      /\ <<Wr(RootId(a.page)), Wr(SuperId)>> \in F
      /\ <<Rd(RootId(a.page))>> \in F /\ <<Rd(RootId(a.page)), Rd(LeafId(a))>> \in F
  <2>1. /\ {clearSteps(a), <<Wr(LeafId(a))>>, <<Wr(RootId(a.page))>>} \subseteq Seq(Accesses(linesFor(a)))
        /\ {<<Wr(RootId(a.page)), Wr(SuperId)>>, <<Rd(RootId(a.page))>>,
            <<Rd(RootId(a.page)), Rd(LeafId(a))>>} \subseteq Seq(Accesses(linesFor(a)))
    BY Pieces DEF linesFor, clearSteps
  <2> QED BY <2>1, FreeingPieces
<1>3. /\ <<>> \in F /\ <<Rd(SuperId)>> \in F /\ <<Free(a.page)>> \in F
      /\ superSteps(a.page) \in F /\ updateSteps(a.page) \in F
  BY FreeingPieces
<1>4. <<Wr(RootId(a.page)), Wr(SuperId), Free(a.page)>>
         = <<Wr(RootId(a.page)), Wr(SuperId)>> \o <<Free(a.page)>>
  OBVIOUS
<1> HIDE DEF F
<1>5. steps' \in F
  <2>1. CASE ReadSuperClear(a) \/ ReadRootClear(a) \/ ReadTags(a) \/ ReadZeroTags(a)
    <3>1. leafSteps(a) \in F /\ superSteps(a.page) \o <<Rd(RootId(a.page))>> \in F
      BY <1>1, <1>2, <1>3, Zenon DEF leafSteps
    <3>2. leafSteps(a) \o updateSteps(a.page) \in F
      BY <1>1, <1>3, <3>1, Zenon
    <3> QED BY <1>3, <2>1, <3>1, <3>2, Zenon
            DEF ReadSuperClear, ReadRootClear, ReadTags, ReadZeroTags
  <2>2. CASE ClearNothing(a)
    BY <1>1, <1>2, <1>3, <2>2 DEF ClearNothing
  <2>3. CASE ClearSome(a) \/ ClearLine(a)
    BY <1>1, <1>2, <2>3, Zenon DEF ClearSome, ClearLine
  <2>4. CASE ClearPage(a)
    BY <1>1, <1>2, <1>3, <1>4, <2>4, Zenon DEF ClearPage
  <2> QED BY <2>1, <2>2, <2>3, <2>4 DEF Looks, handleRead, Clears
<1>6. \/ allocated \ {evicted(tws, a.page)} \subseteq allocated'
      \/ allocated \ {a.page} \subseteq allocated'
  <2>1. unused(a.page) \subseteq {evicted(tws, a.page)}
    BY DEF unused
  <2> QED BY <2>1
          DEF Looks, handleRead, ReadSuperClear, ReadRootClear, ReadTags, ReadZeroTags,
              ClearNothing, Clears, ClearSome, ClearLine, ClearPage
<1> QED BY <1>5, <1>6 DEF F

\* So do writes of tags to a page that has some.
LEMMA StoresFree ==
    ASSUME Inv, NEW a \in Addr, NEW tags \in Tags, WriteFreshLine(a, tags) \/ WriteLine(a, tags)
    PROVE  /\ steps' \in Seq(Frees(LineIds))
           /\ \E e : allocated \ {e} \subseteq allocated'
<1>1. PICK t \in {<<Rd(RootId(a.page)), Wr(RootId(a.page)), Wr(LeafId(a))>>,
                  <<Rd(RootId(a.page)), Rd(LeafId(a)), Wr(LeafId(a))>>} :
         steps' = storeSteps(a.page) \o t
  BY Zenon DEF WriteFreshLine, WriteLine
<1>2. t \in Seq(Accesses(linesFor(a)))
  BY <1>1, Pieces DEF linesFor
<1>3. steps' \in Seq(Frees(LineIds))
  BY <1>1, <1>2, FreeingPieces, ConcatProperties, Zenon
<1>4. allocated \ {evicted(tws, a.page)} \subseteq allocated'
  BY DEF WriteFreshLine, WriteLine, unused
<1> QED BY <1>3, <1>4

\* A page taken into use is allocated behind the free of the page it evicts.
LEMMA FreshPageOrder ==
    ASSUME Inv, NEW a \in Addr, NEW tags \in Tags, WriteFreshPage(a, tags)
    PROVE  \E s \in Seq(Frees(LineIds)), t \in Seq(Allocs(LineIds)) : \E e :
              /\ steps' = s \o t
              /\ allocated \ {e} \subseteq holders(s, allocated, Len(s) + 1)
<1> DEFINE s == storeSteps(a.page)
           w == <<Wr(SuperId), Wr(RootId(a.page)), Wr(LeafId(a))>>
           t == allocSteps(a.page) \o w
           S == Actions(LineIds)
<1>1. w \in Seq(Accesses(linesFor(a)))
  BY Pieces DEF linesFor
<1>2. a.page \in Page /\ w \in Seq(Allocs(LineIds)) /\ s \in Seq(Frees(LineIds))
  BY <1>1, FreeingPieces DEF Addr
<1>3. allocSteps(a.page) \in Seq(Allocs(LineIds))
  <2>1. Alloc(a.page) \in Allocs(LineIds)
    BY <1>2 DEF Allocs
  <2> QED BY <2>1 DEF allocSteps
<1> HIDE DEF s, w
<1>4. t \in Seq(Allocs(LineIds))
  BY <1>2, <1>3, ConcatProperties, Zenon
<1>5. /\ s \in Seq(S) /\ w \in Seq(S) /\ allocSteps(a.page) \in Seq(S)
  <2>1. Frees(LineIds) \subseteq S /\ Allocs(LineIds) \subseteq S
    BY DEF Frees, Allocs, Actions
  <2> QED BY <1>2, <1>3, <2>1, SeqMonotonic
<1>6. steps' = s \o t
  <2>1. steps' = (s \o allocSteps(a.page)) \o w
    BY Zenon DEF WriteFreshPage, takeSteps, s, w
  <2> HIDE DEF S
  <2> QED BY <1>5, <2>1, ConcatAssociative
<1>7. allocated \ {evicted(tws, a.page)} \subseteq holders(s, allocated, Len(s) + 1)
  <2>1. holders(s, allocated, Len(s) + 1) = allocated \ unused(a.page)
    BY UpdateDoes DEF Does, Orderly, s
  <2> QED BY <2>1 DEF unused
<1> HIDE DEF t
<1> QED BY <1>2, <1>4, <1>6, <1>7

\* At every moment of a handler all pages but one keep their DRAM, and there are no
\* others than either before or after it.
LEMMA Moments ==
    ASSUME Inv, Next, NEW i \in 1 .. Len(steps') + 1
    PROVE  \E e : /\ allocated \ {e} \subseteq holders(steps', allocated, i)
                  /\ \/ holders(steps', allocated, i) \subseteq allocated
                     \/ holders(steps', allocated, i) \subseteq allocated'
<1>1. allocated \subseteq Page /\ allocated' = holders(steps', allocated, Len(steps') + 1)
  BY NextDoes DEF Does, Orderly, Inv, TypeOK
<1>2. ASSUME steps' \in Seq(Frees(LineIds)), \E e : allocated \ {e} \subseteq allocated'
      PROVE  \E e : /\ allocated \ {e} \subseteq holders(steps', allocated, i)
                    /\ holders(steps', allocated, i) \subseteq allocated
  <2>1. /\ allocated' \subseteq holders(steps', allocated, i)
        /\ holders(steps', allocated, i) \subseteq allocated
    BY <1>1, <1>2, Falling
  <2> QED BY <1>2, <2>1
<1>3. ASSUME NEW a \in Addr, NEW tags \in Tags, WriteFreshPage(a, tags)
      PROVE  \E e : /\ allocated \ {e} \subseteq holders(steps', allocated, i)
                    /\ \/ holders(steps', allocated, i) \subseteq allocated
                       \/ holders(steps', allocated, i) \subseteq allocated'
  <2>1. PICK s \in Seq(Frees(LineIds)), t \in Seq(Allocs(LineIds)) : \E e :
           /\ steps' = s \o t
           /\ allocated \ {e} \subseteq holders(s, allocated, Len(s) + 1)
    BY <1>3, FreshPageOrder, Zenon
  <2>2. /\ holders(s, allocated, Len(s) + 1) \subseteq holders(s \o t, allocated, i)
        /\ \/ holders(s \o t, allocated, i) \subseteq allocated
           \/ holders(s \o t, allocated, i)
                 \subseteq holders(s \o t, allocated, Len(s \o t) + 1)
    <3>1. i \in 1 .. Len(s \o t) + 1
      BY <2>1
    <3> QED BY <1>1, <3>1, Valley
  <2>3. /\ holders(s, allocated, Len(s) + 1) \subseteq holders(steps', allocated, i)
        /\ \/ holders(steps', allocated, i) \subseteq allocated
           \/ holders(steps', allocated, i) \subseteq allocated'
    BY <1>1, <2>1, <2>2, Zenon
  <2> QED BY <2>1, <2>3
<1>4. CASE \E a \in Addr : Looks(a) \/ Clears(a)
  BY <1>2, <1>4, LooksFree, Zenon
<1>5. CASE \E a \in Addr, tags \in Tags : Stores(a, tags)
  BY <1>2, <1>3, <1>5, StoresFree, Zenon DEF Stores
<1> QED BY <1>4, <1>5, NextCases, Zenon

\* The samples behind the requests bound how many pages have DRAM at every moment of
\* every handler: updateTWS frees the page it evicts before the
\* handler allocates one, so that no peak falls between two samples, and at most one
\* page is missing meanwhile.
THEOREM PeakReportedAlways == StatsSpec => PeakReported
<1>1. ASSUME StatsInv, StatsInv', StatsNext, NEW i \in 1 .. Len(steps') + 1
      PROVE  sizeAt(i) \in Stats!minBlocks' - 1 .. Stats!maxBlocks'
  <2>1. PICK low \in dramUsage' : \A j \in dramUsage' : low <= j
    BY <1>1, Extremes DEF StatsInv
  <2>2. PICK high \in dramUsage' : \A j \in dramUsage' : j <= high
    BY <1>1, Extremes DEF StatsInv
  <2>3. /\ Stats!minBlocks' \in dramUsage' /\ \A j \in dramUsage' : Stats!minBlocks' <= j
        /\ Stats!maxBlocks' \in dramUsage' /\ \A j \in dramUsage' : j <= Stats!maxBlocks'
    BY <2>1, <2>2, Zenon DEF Stats!minBlocks, Stats!maxBlocks
  <2>4. Cardinality(allocated) \in dramUsage' /\ Cardinality(allocated') \in dramUsage'
    BY <1>1 DEF StatsInv, StatsNext, Stats!counted
  <2>5. Stats!minBlocks' \in Int /\ Stats!maxBlocks' \in Int
    <3>1. dramUsage' \subseteq Nat
      BY <1>1 DEF StatsInv
    <3> QED BY <2>3, <3>1
  <2>6. IsFiniteSet(allocated) /\ IsFiniteSet(allocated')
    BY <1>1, AllocatedFinite DEF StatsInv, Inv, TypeOK
  <2>7. PICK e : /\ allocated \ {e} \subseteq holders(steps', allocated, i)
                 /\ \/ holders(steps', allocated, i) \subseteq allocated
                    \/ holders(steps', allocated, i) \subseteq allocated'
    BY <1>1, Moments DEF StatsInv, StatsNext
  <2>8. sizeAt(i) = Cardinality(holders(steps', allocated, i))
    BY DEF sizeAt, holders, AllocatedAt
  <2>9. /\ Stats!minBlocks' <= Cardinality(allocated)
        /\ Cardinality(allocated) <= Stats!maxBlocks'
        /\ Cardinality(allocated') <= Stats!maxBlocks'
    BY <2>3, <2>4, Zenon
  <2> QED BY <2>5, <2>6, <2>7, <2>8, <2>9, SizeBetween
<1>2. StatsInv /\ StatsInv' /\ [StatsNext]_<<vars, balance, dramUsage>> =>
        [\A i \in 1 .. Len(steps') + 1 :
            sizeAt(i) \in Stats!minBlocks' - 1 .. Stats!maxBlocks']_<<vars, balance, dramUsage>>
  BY <1>1, Zenon
<1> QED BY StatsInvariance, <1>2, PTL DEF StatsSpec, PeakReported
==============================================================================
