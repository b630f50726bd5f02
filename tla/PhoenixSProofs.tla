--------------------------- MODULE PhoenixSProofs ---------------------------
(***************************************************************************)
(* PhoenixSController for any geometry, any set of tags, any working set   *)
(* and any assignment of pages to root lines: what of the Phoenix          *)
(* properties is left when pages share root lines.                         *)
(*                                                                         *)
(* A superroot bit no longer says that its page holds a tag, the bits      *)
(* under it may have been wiped by a sibling: only the other direction is  *)
(* kept.                                                                   *)
(***************************************************************************)
EXTENDS PhoenixSStats, PhoenixLemmas

RootMeansSuper == \A p \in Page, s \in Slot : root[p][s] => super[p]
AllocatedSuper == allocated = ToSet(tws) \cup {p \in Page : super[p]}

Inv == TypeOK /\ RootMeansSuper /\ AllocatedSuper

-----------------------------------------------------------------------------
(* Root lines shared by pages *)

Tables ==
    /\ super \in [Page -> BOOLEAN]
    /\ root \in [Page -> RootLine]
    /\ leaf \in LeafTable

SharedLine(p) == [neighbours(p) -> RootLine]

\* The root lines a handler builds are root lines of all pages that share them.
LEMMA RootLinesOf ==
    ASSUME Tables, NEW a \in Addr
    PROVE  /\ a.page \in Page /\ a.slot \in Slot /\ a.granule \in Granule
           /\ a.page \in neighbours(a.page)
           /\ rootLine(a.page) \in SharedLine(a.page)
           /\ ZeroRootLine(a.page) \in SharedLine(a.page)
<1>1. a.page \in Page /\ a.slot \in Slot /\ a.granule \in Granule
  BY DEF Addr
<1>2. ZeroRoot \in RootLine
  BY DEF ZeroRoot, RootLine
<1> QED BY <1>1, <1>2 DEF Tables, neighbours, rootLine, ZeroRootLine, SharedLine

\* Setting or clearing a bit of a shared root line changes that bit only.
LEMMA WithRootTag ==
    ASSUME NEW a \in Addr, NEW line \in SharedLine(a.page), NEW tag \in BOOLEAN,
           a.page \in neighbours(a.page), a.slot \in Slot
    PROVE  /\ withRootTag(line, a, tag) \in SharedLine(a.page)
           /\ \A q \in neighbours(a.page), s \in Slot :
                 withRootTag(line, a, tag)[q][s]
                   <=> IF q = a.page /\ s = a.slot THEN tag ELSE line[q][s]
BY DEF withRootTag, SharedLine, RootLine

\* Writing a root line back writes the bits of all its pages and of no others.
LEMMA WriteRoot ==
    ASSUME Tables, NEW p \in Page, NEW line \in SharedLine(p), writeRootLine(line)
    PROVE  /\ root' \in [Page -> RootLine]
           /\ \A q \in Page : root'[q] = IF q \in neighbours(p) THEN line[q] ELSE root[q]
<1>1. DOMAIN line = neighbours(p) /\ neighbours(p) \subseteq Page /\ DOMAIN root = Page
  BY DEF SharedLine, neighbours, Tables
<1>2. root' = [q \in Page |-> IF q \in neighbours(p) THEN line[q] ELSE root[q]]
  BY <1>1 DEF writeRootLine
<1> QED BY <1>2 DEF SharedLine, Tables

\* A line written with one bit of a changed, read before or taken as zero.
LEMMA WriteRootBit ==
    ASSUME Tables, NEW a \in Addr, NEW line \in SharedLine(a.page), NEW tag \in BOOLEAN,
           writeRootLine(withRootTag(line, a, tag))
    PROVE  /\ root' \in [Page -> RootLine]
           /\ \A q \in Page, s \in Slot :
                 root'[q][s] <=> \/ q = a.page /\ s = a.slot /\ tag
                                 \/ /\ ~(q = a.page /\ s = a.slot)
                                    /\ q \in neighbours(a.page) /\ line[q][s]
                                 \/ q \notin neighbours(a.page) /\ root[q][s]
<1>1. a.page \in Page /\ a.slot \in Slot /\ a.page \in neighbours(a.page)
  BY RootLinesOf
<1>2. /\ withRootTag(line, a, tag) \in SharedLine(a.page)
      /\ \A q \in neighbours(a.page), s \in Slot :
            withRootTag(line, a, tag)[q][s]
              <=> IF q = a.page /\ s = a.slot THEN tag ELSE line[q][s]
  BY <1>1, WithRootTag
<1>3. /\ root' \in [Page -> RootLine]
      /\ \A q \in Page : root'[q] = IF q \in neighbours(a.page)
                                    THEN withRootTag(line, a, tag)[q] ELSE root[q]
  BY <1>1, <1>2, WriteRoot, Zenon
<1> QED BY <1>1, <1>2, <1>3

\* What the handlers do to the root table: the write that takes a page into use
\* leaves no other bit of the line, the others change one bit.
LEMMA RootBits ==
    ASSUME Tables, NEW a \in Addr, NEW tags \in Tags
    PROVE  /\ WriteFreshPage(a, tags) =>
                /\ root' \in [Page -> RootLine]
                /\ \A q \in Page, s \in Slot :
                      root'[q][s] <=> IF q \in neighbours(a.page)
                                      THEN q = a.page /\ s = a.slot ELSE root[q][s]
           /\ WriteFreshLine(a, tags) =>
                /\ root' \in [Page -> RootLine]
                /\ \A q \in Page, s \in Slot :
                      root'[q][s] <=> root[q][s] \/ (q = a.page /\ s = a.slot)
           /\ ClearLine(a) \/ ClearPage(a) =>
                /\ root' \in [Page -> RootLine]
                /\ \A q \in Page, s \in Slot :
                      root'[q][s] <=> root[q][s] /\ ~(q = a.page /\ s = a.slot)
<1>1. /\ a.page \in Page /\ a.page \in neighbours(a.page)
      /\ rootLine(a.page) \in SharedLine(a.page)
      /\ ZeroRootLine(a.page) \in SharedLine(a.page)
  BY RootLinesOf, Zenon
<1>2. \A q \in neighbours(a.page), s \in Slot :
         /\ rootLine(a.page)[q][s] <=> root[q][s]
         /\ ~ZeroRootLine(a.page)[q][s]
  BY DEF rootLine, ZeroRootLine, ZeroRoot
<1>3. ASSUME WriteFreshPage(a, tags)
      PROVE  /\ root' \in [Page -> RootLine]
             /\ \A q \in Page, s \in Slot :
                      root'[q][s] <=> IF q \in neighbours(a.page)
                                      THEN q = a.page /\ s = a.slot ELSE root[q][s]
  <2>1. writeRootLine(withRootTag(ZeroRootLine(a.page), a, TRUE))
    BY <1>3 DEF WriteFreshPage
  <2>2. /\ root' \in [Page -> RootLine]
        /\ \A q \in Page, s \in Slot :
              root'[q][s] <=> \/ q = a.page /\ s = a.slot /\ TRUE
                              \/ /\ ~(q = a.page /\ s = a.slot)
                                 /\ q \in neighbours(a.page) /\ ZeroRootLine(a.page)[q][s]
                              \/ q \notin neighbours(a.page) /\ root[q][s]
    BY <1>1, <2>1, WriteRootBit, Zenon
  <2> QED BY <1>1, <1>2, <2>2, Zenon
<1>4. ASSUME WriteFreshLine(a, tags)
      PROVE  /\ root' \in [Page -> RootLine]
             /\ \A q \in Page, s \in Slot :
                      root'[q][s] <=> root[q][s] \/ (q = a.page /\ s = a.slot)
  <2>1. writeRootLine(withRootTag(rootLine(a.page), a, TRUE))
    BY <1>4 DEF WriteFreshLine
  <2>2. /\ root' \in [Page -> RootLine]
        /\ \A q \in Page, s \in Slot :
              root'[q][s] <=> \/ q = a.page /\ s = a.slot /\ TRUE
                              \/ /\ ~(q = a.page /\ s = a.slot)
                                 /\ q \in neighbours(a.page) /\ rootLine(a.page)[q][s]
                              \/ q \notin neighbours(a.page) /\ root[q][s]
    BY <1>1, <2>1, WriteRootBit, Zenon
  <2> QED BY <1>1, <1>2, <2>2, Zenon
<1>5. ASSUME ClearLine(a) \/ ClearPage(a)
      PROVE  /\ root' \in [Page -> RootLine]
             /\ \A q \in Page, s \in Slot :
                      root'[q][s] <=> root[q][s] /\ ~(q = a.page /\ s = a.slot)
  <2>1. writeRootLine(withRootTag(rootLine(a.page), a, FALSE))
    BY <1>5 DEF ClearLine, ClearPage, clearedRoot
  <2>2. /\ root' \in [Page -> RootLine]
        /\ \A q \in Page, s \in Slot :
              root'[q][s] <=> \/ q = a.page /\ s = a.slot /\ FALSE
                              \/ /\ ~(q = a.page /\ s = a.slot)
                                 /\ q \in neighbours(a.page) /\ rootLine(a.page)[q][s]
                              \/ q \notin neighbours(a.page) /\ root[q][s]
    BY <1>1, <2>1, WriteRootBit, Zenon
  <2> QED BY <1>1, <1>2, <2>2, Zenon
<1> QED BY <1>3, <1>4, <1>5

-----------------------------------------------------------------------------
(* Leaf lines *)

\* The leaf lines a handler builds are leaf lines.
LEMMA LeafLines ==
    ASSUME Tables, NEW a \in Addr
    PROVE  /\ leafLine(a) \in LeafLine /\ ZeroLeaf \in LeafLine
           /\ \A line \in LeafLine, tags \in Tags :
                 modifyTags(line, a.granule, tags) \in LeafLine
BY NoTagsAssumption DEF Tables, Addr, leafLine, LeafTable, LeafLine, ZeroLeaf, modifyTags

\* Writing a leaf line changes that line only.
LEMMA WriteLeaf ==
    ASSUME Tables, NEW a \in Addr, NEW line \in LeafLine, writeLeafLine(a, line)
    PROVE  /\ leaf' \in LeafTable
           /\ \A p \in Page, s \in Slot :
                 leaf'[p][s] = IF p = a.page /\ s = a.slot THEN line ELSE leaf[p][s]
BY DEF Tables, writeLeafLine, LeafTable, Addr

-----------------------------------------------------------------------------
(* Cases of a step *)

Stores(a, tags) ==
    \/ WriteFreshPage(a, tags)
    \/ WriteFreshLine(a, tags)
    \/ WriteLine(a, tags)
Clears(a) == ClearSome(a) \/ ClearLine(a) \/ ClearPage(a)
Looks(a)  == handleRead(a) \/ ClearNothing(a)

\* Every step stores tags, clears tags, or only looks.
LEMMA NextCases ==
    ASSUME Next
    PROVE  \/ \E a \in Addr : Looks(a) \/ (Clears(a) /\ reply' = Served("write", a, NoTags))
           \/ \E a \in Addr, tags \in Tags :
                 Stores(a, tags) /\ reply' = Served("write", a, tags)
BY DEF Next, handleWrite, Looks, Clears, Stores

LEMMA Cases ==
    ASSUME [Next]_vars
    PROVE  \/ \E a \in Addr : Looks(a) \/ (Clears(a) /\ reply' = Served("write", a, NoTags))
           \/ \E a \in Addr, tags \in Tags :
                 Stores(a, tags) /\ reply' = Served("write", a, tags)
           \/ UNCHANGED vars
BY NextCases, Zenon

\* Reads, and writes of zero over zero, change no table.
LEMMA LooksUnchanged == \A a \in Addr : Looks(a) => UNCHANGED <<super, root, leaf>>
BY DEF Looks, handleRead, ClearNothing

\* Each write of a leaf line writes one the handler built.
LEMMA LeafTables ==
    ASSUME Tables, NEW a \in Addr, NEW tags \in Tags, Stores(a, tags) \/ Clears(a)
    PROVE  leaf' \in LeafTable
<1>1. /\ leafLine(a) \in LeafLine /\ ZeroLeaf \in LeafLine
      /\ \A line \in LeafLine, t \in Tags : modifyTags(line, a.granule, t) \in LeafLine
  BY LeafLines, Zenon
<1>2. leaf' = leaf \/ \E line \in LeafLine : writeLeafLine(a, line)
  BY <1>1, NoTagsAssumption, Zenon
     DEF Stores, WriteFreshPage, WriteFreshLine, WriteLine,
         Clears, ClearSome, ClearLine, ClearPage, cleared
<1> QED BY <1>2, WriteLeaf, Zenon DEF Tables

\* Root bits lie under superroot bits: a page taken into use gets its superroot bit
\* with its first root bit, and a page loses it only with the last.
LEMMA TablesStep ==
    ASSUME Tables, RootMeansSuper, [Next]_vars
    PROVE  Tables' /\ RootMeansSuper'
<1>1. ASSUME UNCHANGED <<super, root, leaf>> PROVE Tables' /\ RootMeansSuper'
  BY <1>1 DEF Tables, RootMeansSuper
<1>2. ASSUME NEW a \in Addr, NEW tags \in Tags, Stores(a, tags) \/ Clears(a)
      PROVE  Tables' /\ RootMeansSuper'
  <2>1. a.page \in Page /\ a.page \in neighbours(a.page) /\ a.slot \in Slot
    BY RootLinesOf, Zenon
  <2>2. leaf' \in LeafTable
    BY <1>2, LeafTables, Zenon
  <2>3. CASE WriteFreshPage(a, tags)
    <3>1. super' = [super EXCEPT ![a.page] = TRUE]
      BY <2>3 DEF WriteFreshPage, writeSuperTag
    <3>2. /\ root' \in [Page -> RootLine]
          /\ \A q \in Page, s \in Slot : root'[q][s] => q = a.page \/ root[q][s]
      BY <2>1, <2>3, RootBits, Zenon
    <3> QED BY <2>1, <2>2, <3>1, <3>2 DEF Tables, RootMeansSuper
  <2>4. CASE WriteFreshLine(a, tags)
    <3>1. super' = super /\ super[a.page]
      BY <2>4 DEF WriteFreshLine, superTag
    <3>2. /\ root' \in [Page -> RootLine]
          /\ \A q \in Page, s \in Slot : root'[q][s] => q = a.page \/ root[q][s]
      BY <2>1, <2>4, RootBits, Zenon
    <3> QED BY <2>2, <3>1, <3>2 DEF Tables, RootMeansSuper
  <2>5. CASE WriteLine(a, tags) \/ ClearSome(a)
    BY <2>2, <2>5 DEF WriteLine, ClearSome, Tables, RootMeansSuper
  <2>6. CASE ClearLine(a) \/ ClearPage(a)
    <3>1. /\ root' \in [Page -> RootLine]
          /\ \A q \in Page, s \in Slot : root'[q][s] => root[q][s]
      BY <2>6, RootBits, Zenon
    <3>2. CASE ClearLine(a)
      BY <2>2, <3>1, <3>2 DEF ClearLine, Tables, RootMeansSuper
    <3>3. CASE ClearPage(a)
      <4>1. super' = [super EXCEPT ![a.page] = FALSE] /\ clearedRoot(a)[a.page] = ZeroRoot
        BY <3>3 DEF ClearPage, writeSuperTag
      <4>2. rootLine(a.page) \in SharedLine(a.page)
        BY RootLinesOf, Zenon
      <4>3. clearedRoot(a) \in SharedLine(a.page) /\ writeRootLine(clearedRoot(a))
        BY <2>1, <3>3, <4>2, WithRootTag, Zenon DEF ClearPage, clearedRoot
      <4>4. root'[a.page] = ZeroRoot
        BY <2>1, <4>1, <4>3, WriteRoot
      <4>5. \A s \in Slot : ~root'[a.page][s]
        BY <4>4 DEF ZeroRoot
      <4> QED BY <2>1, <2>2, <3>1, <4>1, <4>5 DEF Tables, RootMeansSuper
    <3> QED BY <2>6, <3>2, <3>3
  <2> QED BY <1>2, <2>3, <2>4, <2>5, <2>6 DEF Stores, Clears
<1>3. CASE \E a \in Addr : Looks(a)
  BY <1>1, <1>3, LooksUnchanged, Zenon
<1>4. CASE UNCHANGED vars
  BY <1>1, <1>4 DEF vars
<1> QED BY <1>2, <1>3, <1>4, Cases, NoTagsAssumption, Zenon

-----------------------------------------------------------------------------
(* The working set and the allocated pages *)

\* Touching a page: what the working set becomes, and what leaves DRAM for it.
LEMMA Touch ==
    ASSUME Inv, NEW p \in Page
    PROVE  /\ touched(tws, p) \in Seq(Page)
           /\ Len(touched(tws, p)) <= twsSize
           /\ IsInjective(touched(tws, p))
           /\ unused(p) \subseteq Page \ {p}
           /\ frees(p) => evicted(tws, p) \in (Page \cap allocated) \ {p}
           /\ ToSet(touched(tws, p)) \cup {q \in Page : super[q]}
                = (allocated \cup {p}) \ unused(p)
           /\ isInTWS(tws, p) <=> p \in ToSet(tws)
<1>1. tws \in Seq(Page) /\ distinct(tws) /\ Len(tws) <= twsSize
  <2>1. tws \in Seq(Page) /\ IsInjective(tws) /\ Len(tws) <= twsSize
    BY DEF Inv, TypeOK
  <2> QED BY <2>1, LenProperties DEF distinct, IsInjective
<1>2. /\ touched(tws, p) \in Seq(Page)
      /\ distinct(touched(tws, p))
      /\ Len(touched(tws, p)) <= twsSize
      /\ isInTWS(tws, p) <=> p \in ToSet(tws)
      /\ evicts(tws, p) => evicted(tws, p) \in ToSet(tws) \ {p}
      /\ ToSet(touched(tws, p)) = (ToSet(tws) \cup {p})
                                  \ (IF evicts(tws, p) THEN {evicted(tws, p)} ELSE {})
  BY <1>1, TouchedProperties
<1>3. ToSet(tws) \subseteq Page
  BY <1>1, LenProperties, ElementOfSeq DEF ToSet
<1>4. allocated = ToSet(tws) \cup {q \in Page : super[q]}
  BY DEF Inv, AllocatedSuper
<1>5. IsInjective(touched(tws, p))
  BY <1>2, LenProperties DEF distinct, IsInjective
<1>6. CASE ~evicts(tws, p)
  <2>1. unused(p) = {} /\ ~frees(p)
    BY <1>6 DEF unused, frees
  <2> QED BY <1>2, <1>4, <1>5, <1>6, <2>1
<1>7. CASE evicts(tws, p) /\ super[evicted(tws, p)]
  <2>1. unused(p) = {} /\ ~frees(p)
    BY <1>7 DEF unused, frees
  <2> QED BY <1>2, <1>3, <1>4, <1>5, <1>7, <2>1
<1>8. CASE evicts(tws, p) /\ ~super[evicted(tws, p)]
  <2>1. unused(p) = {evicted(tws, p)}
    BY <1>8 DEF unused, frees
  <2> QED BY <1>2, <1>3, <1>4, <1>5, <1>8, <2>1
<1> QED BY <1>6, <1>7, <1>8, Zenon

\* A handler touches a page of the working set, or leaves it alone.
Touches(a) == tws' = touched(tws, a.page)

\* Every handler leaves the working set alone or touches one page of it.
LEMMA WorkingSetStep ==
    ASSUME Inv, [Next]_vars
    PROVE  tws' \in Seq(Page) /\ Len(tws') <= twsSize /\ IsInjective(tws')
<1>1. ASSUME NEW a \in Addr, Looks(a) \/ Clears(a) PROVE tws' = tws \/ Touches(a)
  BY <1>1 DEF Looks, handleRead, ReadSuperClear, ReadRootClear, ReadLeaf, ClearNothing,
              Clears, ClearSome, ClearLine, ClearPage, Touches, updateTWS
<1>2. ASSUME NEW a \in Addr, NEW tags \in Tags, Stores(a, tags) PROVE Touches(a)
  BY <1>2 DEF Stores, WriteFreshPage, WriteFreshLine, WriteLine, Touches, updateTWS
<1>3. tws' = tws \/ \E a \in Addr : Touches(a)
  BY <1>1, <1>2, Cases, Zenon DEF vars
<1>4. CASE \E a \in Addr : Touches(a)
  <2>1. PICK a \in Addr : Touches(a)
    BY <1>4
  <2>2. a.page \in Page
    BY DEF Addr
  <2> QED BY <2>1, <2>2, Touch, Zenon DEF Touches
<1>5. CASE tws' = tws
  BY <1>5 DEF Inv, TypeOK
<1> QED BY <1>3, <1>4, <1>5, Zenon

\* Touching a page that has DRAM, or gets it now, keeps the pages with DRAM those
\* of the working set and those with a superroot bit.
LEMMA TouchAllocates ==
    ASSUME Inv, NEW a \in Addr, Touches(a),
           \/ /\ a.page \in allocated
              /\ super' = super
              /\ allocated' = allocated \ unused(a.page)
           \/ /\ super' = [super EXCEPT ![a.page] = TRUE]
              /\ allocated' = (allocated \ unused(a.page)) \cup ({a.page} \ ToSet(tws))
    PROVE  AllocatedSuper'
<1>1. a.page \in Page
  BY DEF Addr
<1>2. /\ ToSet(tws') \cup {q \in Page : super[q]} = (allocated \cup {a.page}) \ unused(a.page)
      /\ unused(a.page) \subseteq Page \ {a.page}
  BY <1>1, Touch, Zenon DEF Touches
<1>3. CASE a.page \in allocated /\ super' = super /\ allocated' = allocated \ unused(a.page)
  BY <1>2, <1>3 DEF AllocatedSuper
<1>4. CASE /\ super' = [super EXCEPT ![a.page] = TRUE]
           /\ allocated' = (allocated \ unused(a.page)) \cup ({a.page} \ ToSet(tws))
  <2>1. {q \in Page : super'[q]} = {q \in Page : super[q]} \cup {a.page}
    BY <1>1, <1>4 DEF Inv, TypeOK
  <2>2. allocated = ToSet(tws) \cup {q \in Page : super[q]}
    BY DEF Inv, AllocatedSuper
  <2>3. allocated' = (allocated \cup {a.page}) \ unused(a.page)
    BY <1>2, <1>4, <2>2
  <2> QED BY <1>1, <1>2, <2>1, <2>3 DEF AllocatedSuper
<1> QED BY <1>3, <1>4

\* Every handler keeps AllocatedSuper, wiped siblings included: it is over superroot
\* bits, which no sibling wipes.
LEMMA AllocatedStep ==
    ASSUME Inv, [Next]_vars
    PROVE  AllocatedSuper'
<1>1. AllocatedSuper
  BY DEF Inv
<1>2. ASSUME UNCHANGED <<super, tws, allocated>> PROVE AllocatedSuper'
  BY <1>1, <1>2 DEF AllocatedSuper
<1>3. ASSUME NEW a \in Addr, super[a.page] \/ skips(a.page) PROVE a.page \in allocated
  <2>1. a.page \in Page
    BY DEF Addr
  <2>2. isInTWS(tws, a.page) <=> a.page \in ToSet(tws)
    BY <2>1, Touch, Zenon
  <2> QED BY <1>1, <1>3, <2>1, <2>2 DEF AllocatedSuper, skips
<1>4. ASSUME NEW a \in Addr, Looks(a) PROVE AllocatedSuper'
  <2>1. CASE UNCHANGED <<super, tws, allocated>>
    BY <1>2, <2>1
  <2>2. CASE ReadLeaf(a) /\ updateTWS(a.page, {})
    <3>1. super' = super
      BY <1>4, LooksUnchanged
    <3>2. a.page \in allocated
      BY <1>3, <2>2 DEF ReadLeaf, superTag
    <3>3. Touches(a) /\ allocated' = allocated \ unused(a.page)
      BY <2>2 DEF updateTWS, Touches
    <3> QED BY <3>1, <3>2, <3>3, TouchAllocates, Zenon
  <2> QED BY <1>4, <2>1, <2>2
          DEF Looks, handleRead, ReadSuperClear, ReadRootClear, ReadLeaf, ClearNothing
<1>5. ASSUME NEW a \in Addr, Clears(a) PROVE AllocatedSuper'
  <2>1. CASE ClearSome(a) \/ ClearLine(a)
    BY <1>2, <2>1 DEF ClearSome, ClearLine
  <2>2. CASE ClearPage(a)
    <3>1. a.page \in Page
      BY DEF Addr
    <3>2. super' = [super EXCEPT ![a.page] = FALSE] /\ tws' = tws
      BY <2>2 DEF ClearPage, writeSuperTag
    <3>3. {q \in Page : super'[q]} = {q \in Page : super[q]} \ {a.page}
      BY <3>1, <3>2 DEF Inv, TypeOK
    <3>4. isInTWS(tws, a.page) <=> a.page \in ToSet(tws)
      BY <3>1, Touch, Zenon
    <3>5. allocated' = IF a.page \in ToSet(tws) THEN allocated ELSE allocated \ {a.page}
      BY <2>2, <3>4 DEF ClearPage
    <3> QED BY <1>1, <3>2, <3>3, <3>5 DEF AllocatedSuper
  <2> QED BY <1>5, <2>1, <2>2 DEF Clears
<1>6. ASSUME NEW a \in Addr, NEW tags \in Tags, Stores(a, tags) PROVE AllocatedSuper'
  <2>1. Touches(a)
    BY <1>6 DEF Stores, WriteFreshPage, WriteFreshLine, WriteLine, updateTWS, Touches
  <2>2. CASE WriteFreshPage(a, tags)
    <3>1. /\ super' = [super EXCEPT ![a.page] = TRUE]
          /\ allocated' = (allocated \ unused(a.page)) \cup ({a.page} \ ToSet(tws))
      BY <2>2 DEF WriteFreshPage, writeSuperTag, updateTWS
    <3> QED BY <2>1, <3>1, TouchAllocates, Zenon
  <2>3. CASE WriteFreshLine(a, tags) \/ WriteLine(a, tags)
    <3>1. a.page \in allocated
      BY <1>3, <2>3 DEF WriteFreshLine, WriteLine, superTag
    <3>2. super' = super /\ allocated' = allocated \ unused(a.page)
      BY <2>3 DEF WriteFreshLine, WriteLine, updateTWS
    <3> QED BY <2>1, <3>1, <3>2, TouchAllocates, Zenon
  <2> QED BY <1>6, <2>2, <2>3 DEF Stores
<1>7. CASE UNCHANGED vars
  BY <1>2, <1>7 DEF vars
<1> QED BY <1>4, <1>5, <1>6, <1>7, Cases, Zenon

-----------------------------------------------------------------------------
(* The steps of a handler *)

\* The leaf lines of a page lie in its DRAM; its root line it shares.
own == [p \in Page |-> {LeafId(a) : a \in {b \in Addr : b.page = p}}]

\* The steps s of a handler take the pages with DRAM from had to now, and access
\* lines and allocate and free pages only when they may.
Does(s, had, now) == Orderly(s, had, now, own, LineIds)

\* The tag cachelines a request for a may access.
linesFor(a) == {SuperId, SRootId(a.page), LeafId(a)}

\* Those that lie in the DRAM of a page lie in that of the page of a.
LEMMA Owners ==
    /\ ownLines(own)
    /\ \A p \in Page : SuperId \notin own[p]
    /\ \A a \in Addr : linesFor(a) \subseteq LineIds
    /\ \A a \in Addr, p \in Page : \A id \in linesFor(a) : id \in own[p] => p = a.page
<1>1. ASSUME NEW a \in Addr PROVE linesFor(a) \subseteq LineIds
  <2>1. a.page \in Page
    BY DEF Addr
  <2> QED BY <2>1 DEF linesFor, LineIds
<1>2. ownLines(own) /\ \A p \in Page : SuperId \notin own[p]
  BY DEF ownLines, own, SuperId, LeafId
<1>3. ASSUME NEW a \in Addr, NEW p \in Page, NEW id \in linesFor(a), id \in own[p]
      PROVE  p = a.page
  BY <1>3 DEF linesFor, own, SuperId, SRootId, LeafId
<1> QED BY <1>1, <1>2, <1>3

\* Looking at the superroot is allowed at any time.
LEMMA SuperDoes ==
    ASSUME NEW had \in SUBSET Page
    PROVE  Does(<<>>, had, had) /\ Does(<<Rd(SuperId)>>, had, had)
<1>1. {Rd(SuperId)} \subseteq Accesses(LineIds)
  BY DEF Rd, Accesses, LineIds
<1>2. \A x \in {Rd(SuperId)}, p \in Page : x.line \in own[p] => p \in had
  BY Owners DEF Rd
<1>3. <<>> \in Seq({Rd(SuperId)}) /\ <<Rd(SuperId)>> \in Seq({Rd(SuperId)})
  OBVIOUS
<1> QED BY <1>1, <1>2, <1>3, OrderlyAccesses, Zenon DEF Does

\* Accesses to the lines of a page with DRAM are allowed, and keep it.
LEMMA LinesDo ==
    ASSUME NEW a \in Addr, NEW had \in SUBSET Page, a.page \in had,
           NEW s \in Seq(Accesses(linesFor(a)))
    PROVE  Does(s, had, had)
<1>1. Accesses(linesFor(a)) \subseteq Accesses(LineIds)
  BY Owners DEF Accesses
<1>2. \A x \in Accesses(linesFor(a)), p \in Page : x.line \in own[p] => p \in had
  BY Owners DEF Accesses
<1> QED BY <1>1, <1>2, OrderlyAccesses, Zenon DEF Does

\* The accesses of the handlers.
LEMMA Pieces ==
    ASSUME NEW a \in Addr
    PROVE  \A id, je, ke \in linesFor(a) :
              /\ {<<Rd(id)>>, <<Wr(id)>>, <<Rd(id), Rd(je)>>, <<Wr(id), Wr(je)>>}
                    \subseteq Seq(Accesses(linesFor(a)))
              /\ {<<Rd(id), Rd(je), Rd(ke)>>, <<Rd(id), Rd(je), Wr(ke)>>,
                  <<Rd(id), Wr(je), Wr(ke)>>, <<Wr(id), Wr(je), Wr(ke)>>}
                    \subseteq Seq(Accesses(linesFor(a)))
<1>1. \A id \in linesFor(a) : Rd(id) \in Accesses(linesFor(a)) /\ Wr(id) \in Accesses(linesFor(a))
  BY DEF Rd, Wr, Accesses
<1> QED BY <1>1

\* updateTWS frees the page it evicts, which had DRAM, if its superroot bit is
\* clear.
LEMMA UpdateDoes ==
    ASSUME Inv, NEW a \in Addr
    PROVE  /\ Does(updateSteps(a.page), allocated, allocated \ unused(a.page))
           /\ Does(storeSteps(a.page), allocated, allocated \ unused(a.page))
<1> DEFINE e == evicted(tws, a.page)
<1>1. a.page \in Page /\ allocated \subseteq Page
  BY DEF Addr, Inv, TypeOK
<1>2. frees(a.page) => e \in allocated
  BY <1>1, Touch, Zenon
<1>3. Does(updateSteps(a.page), allocated, allocated \ unused(a.page))
  <2>1. CASE frees(a.page)
    <3>1. /\ Does(<<Rd(SuperId)>>, allocated, allocated)
          /\ Does(<<Free(e)>>, allocated, allocated \ {e})
      BY <1>1, <1>2, <2>1, SuperDoes, Owners, OrderlyFree, Zenon DEF Does
    <3>2. Does(<<Rd(SuperId)>> \o <<Free(e)>>, allocated, allocated \ {e})
      BY <3>1, OrderlyCat, Zenon DEF Does
    <3>3. updateSteps(a.page) = <<Rd(SuperId)>> \o <<Free(e)>>
      BY <2>1 DEF updateSteps
    <3> QED BY <2>1, <3>2, <3>3 DEF unused
  <2>2. CASE ~frees(a.page)
    <3>1. updateSteps(a.page) \in {<<>>, <<Rd(SuperId)>>} /\ unused(a.page) = {}
      BY <2>2 DEF updateSteps, unused
    <3>2. allocated \ unused(a.page) = allocated
      BY <3>1
    <3> QED BY <1>1, <3>1, <3>2, SuperDoes
  <2> QED BY <2>1, <2>2
<1>4. allocated \ unused(a.page) \subseteq Page
  BY <1>1
<1> QED BY <1>3, <1>4, SuperDoes, OrderlyCat, Zenon DEF storeSteps, Does

\* Reads, and writes of zero over zero.
LEMMA LooksDo ==
    ASSUME Inv, NEW a \in Addr, Looks(a)
    PROVE  Does(steps', allocated, allocated')
<1>1. a.page \in Page /\ allocated \in SUBSET Page
  BY DEF Addr, Inv, TypeOK
<1>2. super[a.page] \/ skips(a.page) => a.page \in allocated
  <2>1. isInTWS(tws, a.page) <=> a.page \in ToSet(tws)
    BY <1>1, Touch, Zenon
  <2> QED BY <1>1, <2>1 DEF Inv, AllocatedSuper, skips
<1>3. /\ Does(<<Rd(SuperId)>>, allocated, allocated)
      /\ Does(<<>>, allocated, allocated)
      /\ Does(superSteps(a.page), allocated, allocated)
  BY <1>1, SuperDoes DEF superSteps
<1>4. ASSUME a.page \in allocated
      PROVE  /\ Does(<<Rd(SRootId(a.page))>>, allocated, allocated)
             /\ Does(<<Rd(SRootId(a.page)), Rd(LeafId(a))>>, allocated, allocated)
  <2>1. <<Rd(SRootId(a.page))>> \in Seq(Accesses(linesFor(a)))
    BY Pieces DEF linesFor
  <2>2. <<Rd(SRootId(a.page)), Rd(LeafId(a))>> \in Seq(Accesses(linesFor(a)))
    BY Pieces DEF linesFor
  <2> QED BY <1>1, <1>4, <2>1, <2>2, LinesDo, Zenon
<1>5. CASE ReadSuperClear(a)
  BY <1>3, <1>5 DEF ReadSuperClear
<1>6. CASE ReadRootClear(a)
  BY <1>2, <1>3, <1>4, <1>6, OrderlyCat, Zenon DEF ReadRootClear, superTag, Does
<1>7. CASE ReadLeaf(a)
  <2> DEFINE path == superSteps(a.page) \o <<Rd(SRootId(a.page)), Rd(LeafId(a))>>
  <2>1. Does(path, allocated, allocated)
    BY <1>2, <1>3, <1>4, <1>7, OrderlyCat, Zenon DEF ReadLeaf, superTag, Does
  <2>2. \/ steps' = path \o updateSteps(a.page) /\ allocated' = (allocated \ unused(a.page)) \cup {}
        \/ steps' = path /\ allocated' = allocated
    BY <1>7, Zenon DEF ReadLeaf, updateTWS
  <2> HIDE DEF path
  <2>3. CASE steps' = path \o updateSteps(a.page) /\ allocated' = (allocated \ unused(a.page)) \cup {}
    <3>1. allocated' = allocated \ unused(a.page)
      BY <2>3
    <3> QED BY <2>1, <2>3, <3>1, UpdateDoes, OrderlyCat, Zenon DEF Does
  <2>4. CASE steps' = path /\ allocated' = allocated
    BY <2>1, <2>4
  <2> QED BY <2>2, <2>3, <2>4
<1>8. CASE ClearNothing(a)
  <2>1. \/ super[a.page] /\ steps' = <<Rd(SuperId)>> \o <<Rd(SRootId(a.page))>>
        \/ steps' = <<Rd(SuperId)>> \o <<>>
    BY <1>8 DEF ClearNothing, superTag
  <2>2. Does(steps', allocated, allocated)
    BY <1>2, <1>3, <1>4, <2>1, OrderlyCat, Zenon DEF Does
  <2> QED BY <1>8, <2>2, Zenon DEF ClearNothing
<1> QED BY <1>5, <1>6, <1>7, <1>8, Zenon DEF Looks, handleRead

\* Writes of zero tags that change a table: the page has DRAM, and loses it last.
LEMMA ClearsDo ==
    ASSUME Inv, NEW a \in Addr, Clears(a)
    PROVE  Does(steps', allocated, allocated')
<1>1. a.page \in Page /\ allocated \in SUBSET Page
  BY DEF Addr, Inv, TypeOK
<1>2. a.page \in allocated
  <2>1. super[a.page]
    BY DEF Clears, ClearSome, ClearLine, ClearPage, superTag
  <2> QED BY <1>1, <2>1 DEF Inv, AllocatedSuper
<1> DEFINE path == clearSteps(a) \o <<Wr(SRootId(a.page)), Wr(SuperId)>>
<1>3. Does(clearSteps(a), allocated, allocated)
  <2>1. clearSteps(a) \in Seq(Accesses(linesFor(a)))
    BY Pieces DEF clearSteps, linesFor
  <2> QED BY <1>1, <1>2, <2>1, LinesDo, Zenon
<1>4. /\ Does(<<Wr(LeafId(a))>>, allocated, allocated)
      /\ Does(<<Wr(SRootId(a.page))>>, allocated, allocated)
      /\ Does(<<Wr(SRootId(a.page)), Wr(SuperId)>>, allocated, allocated)
  <2>1. /\ <<Wr(LeafId(a))>> \in Seq(Accesses(linesFor(a)))
        /\ <<Wr(SRootId(a.page))>> \in Seq(Accesses(linesFor(a)))
        /\ <<Wr(SRootId(a.page)), Wr(SuperId)>> \in Seq(Accesses(linesFor(a)))
    BY Pieces DEF linesFor
  <2> QED BY <1>1, <1>2, <2>1, LinesDo, Zenon
<1>5. CASE ClearSome(a)
  BY <1>3, <1>4, <1>5, OrderlyCat, Zenon DEF ClearSome, Does
<1>6. CASE ClearLine(a)
  BY <1>3, <1>4, <1>6, OrderlyCat, Zenon DEF ClearLine, Does
<1>7. CASE ClearPage(a)
  <2>1. Does(path, allocated, allocated)
    BY <1>3, <1>4, OrderlyCat, Zenon DEF Does
  <2>2. \/ steps' = path /\ allocated' = allocated
        \/ steps' = Append(path, Free(a.page)) /\ allocated' = allocated \ {a.page}
    BY <1>7, Zenon DEF ClearPage
  <2> HIDE DEF path
  <2>3. CASE steps' = Append(path, Free(a.page)) /\ allocated' = allocated \ {a.page}
    <3>1. Free(a.page) \in Actions(LineIds)
      BY <1>1 DEF Actions
    <3>2. Append(path, Free(a.page)) = path \o <<Free(a.page)>>
      BY <2>1, <3>1, AppendIsConcat, Zenon DEF Does, Orderly
    <3>3. Does(<<Free(a.page)>>, allocated, allocated \ {a.page})
      BY <1>1, <1>2, Owners, OrderlyFree, Zenon DEF Does
    <3> QED BY <2>1, <2>3, <3>2, <3>3, OrderlyCat, Zenon DEF Does
  <2> QED BY <2>1, <2>2, <2>3
<1> QED BY <1>5, <1>6, <1>7 DEF Clears

\* Writes of tags: the touch comes first, then DRAM, then the lines.
LEMMA StoresDo ==
    ASSUME Inv, NEW a \in Addr, NEW tags \in Tags, Stores(a, tags)
    PROVE  Does(steps', allocated, allocated')
<1> DEFINE mid == allocated \ unused(a.page)
<1>1. a.page \in Page /\ mid \in SUBSET Page /\ unused(a.page) \subseteq Page \ {a.page}
  <2>1. a.page \in Page /\ allocated \subseteq Page
    BY DEF Addr, Inv, TypeOK
  <2> QED BY <2>1, Touch, Zenon
<1>2. /\ a.page \in allocated <=> isInTWS(tws, a.page) \/ super[a.page]
      /\ isInTWS(tws, a.page) <=> a.page \in ToSet(tws)
  <2>1. isInTWS(tws, a.page) <=> a.page \in ToSet(tws)
    BY <1>1, Touch, Zenon
  <2> QED BY <1>1, <2>1 DEF Inv, AllocatedSuper
<1>3. Does(storeSteps(a.page), allocated, mid)
  BY UpdateDoes
<1> HIDE DEF mid
<1>4. ASSUME NEW had \in SUBSET Page, a.page \in had
      PROVE  /\ Does(<<Wr(SuperId), Wr(SRootId(a.page)), Wr(LeafId(a))>>, had, had)
             /\ Does(<<Rd(SRootId(a.page)), Wr(SRootId(a.page)), Wr(LeafId(a))>>, had, had)
             /\ Does(<<Rd(SRootId(a.page)), Rd(LeafId(a)), Wr(LeafId(a))>>, had, had)
  <2>1. /\ <<Wr(SuperId), Wr(SRootId(a.page)), Wr(LeafId(a))>> \in Seq(Accesses(linesFor(a)))
        /\ <<Rd(SRootId(a.page)), Wr(SRootId(a.page)), Wr(LeafId(a))>>
              \in Seq(Accesses(linesFor(a)))
        /\ <<Rd(SRootId(a.page)), Rd(LeafId(a)), Wr(LeafId(a))>> \in Seq(Accesses(linesFor(a)))
    BY Pieces DEF linesFor
  <2> QED BY <1>4, <2>1, LinesDo, Zenon
<1>5. CASE WriteFreshPage(a, tags)
  <2> DEFINE now == mid \cup {a.page}
  <2>1. allocated' = now
    <3>1. allocated' = mid \cup ({a.page} \ ToSet(tws))
      BY <1>5 DEF WriteFreshPage, updateTWS, mid
    <3> QED BY <1>1, <1>2, <3>1 DEF mid
  <2>2. Does(allocSteps(a.page), mid, now)
    <3>1. CASE isInTWS(tws, a.page)
      <4>1. allocSteps(a.page) = <<>> /\ now = mid
        BY <1>1, <1>2, <3>1 DEF mid, allocSteps
      <4> QED BY <1>1, <4>1, SuperDoes, Zenon
    <3>2. CASE ~isInTWS(tws, a.page)
      <4>1. a.page \in Page \ mid /\ allocSteps(a.page) = <<Alloc(a.page)>>
        BY <1>1, <1>2, <1>5, <3>2 DEF mid, allocSteps, WriteFreshPage, superTag
      <4>2. Does(<<Alloc(a.page)>>, mid, now)
        BY <1>1, <4>1, Owners, OrderlyAlloc, Zenon DEF Does
      <4> QED BY <4>1, <4>2
    <3> QED BY <3>1, <3>2
  <2>3. now \in SUBSET Page /\ a.page \in now
    BY <1>1
  <2>4. Does(<<Wr(SuperId), Wr(SRootId(a.page)), Wr(LeafId(a))>>, now, now)
    BY <1>4, <2>3, Zenon
  <2>5. steps' = (storeSteps(a.page) \o allocSteps(a.page))
                 \o <<Wr(SuperId), Wr(SRootId(a.page)), Wr(LeafId(a))>>
    BY <1>5, Zenon DEF WriteFreshPage, takeSteps
  <2> HIDE DEF now
  <2>6. Does(storeSteps(a.page) \o allocSteps(a.page), allocated, now)
    BY <1>3, <2>2, OrderlyCat, Zenon DEF Does
  <2> QED BY <2>1, <2>4, <2>5, <2>6, OrderlyCat, Zenon DEF Does
<1>6. CASE WriteFreshLine(a, tags) \/ WriteLine(a, tags)
  <2>1. allocated' = mid /\ a.page \in mid
    BY <1>1, <1>2, <1>6 DEF WriteFreshLine, WriteLine, updateTWS, superTag, mid
  <2>2. PICK t \in {<<Rd(SRootId(a.page)), Wr(SRootId(a.page)), Wr(LeafId(a))>>,
                    <<Rd(SRootId(a.page)), Rd(LeafId(a)), Wr(LeafId(a))>>} :
           steps' = storeSteps(a.page) \o t
    BY <1>6, Zenon DEF WriteFreshLine, WriteLine
  <2>3. Does(t, mid, mid)
    BY <1>1, <1>4, <2>1, <2>2, Zenon
  <2> QED BY <1>3, <2>1, <2>2, <2>3, OrderlyCat, Zenon DEF Does
<1> QED BY <1>5, <1>6 DEF Stores

\* Every handler's steps explain how the pages with DRAM change.
LEMMA NextDoes ==
    ASSUME Inv, Next
    PROVE  Does(steps', allocated, allocated')
BY NextCases, LooksDo, ClearsDo, StoresDo, Zenon

LEMMA StepDoes ==
    ASSUME Inv, [Next]_vars
    PROVE  Does(steps', allocated, allocated') \/ UNCHANGED vars
BY NextDoes

\* The accesses, allocations and frees of every handler are of lines and pages of
\* the system, the evicted page included.
LEMMA StepsStep ==
    ASSUME Inv, [Next]_vars
    PROVE  steps' \in Seq(Actions(LineIds))
BY StepDoes DEF Does, Orderly, Inv, TypeOK, vars

\* The reply names the request, and the tags come from a leaf line.
LEMMA ReplyStep ==
    ASSUME Inv, [Next]_vars
    PROVE  reply' \in {Ready} \cup Request
<1>1. ASSUME NEW op \in {"read", "write"}, NEW a \in Addr, NEW tags \in Tags
      PROVE Served(op, a, tags) \in Request
  BY DEF Served, Request
<1>2. ASSUME NEW a \in Addr PROVE leafLine(a)[a.granule] \in Tags
  BY DEF Inv, TypeOK, LeafTable, LeafLine, leafLine, Addr
<1>3. ASSUME NEW a \in Addr, handleRead(a) PROVE reply' \in Request
  BY <1>1, <1>2, <1>3, NoTagsAssumption DEF handleRead, ReadSuperClear, ReadRootClear, ReadLeaf
<1>4. ASSUME NEW a \in Addr, NEW tags \in Tags, handleWrite(a, tags) PROVE reply' \in Request
  BY <1>1, <1>4 DEF handleWrite
<1>5. CASE UNCHANGED vars
  BY <1>5 DEF vars, Inv, TypeOK
<1> QED BY <1>3, <1>4, <1>5 DEF Next

-----------------------------------------------------------------------------
(* The invariant *)

\* Setup gives every level the summary of the one below, and DRAM to the pages
\* with tags.
LEMMA InvInit == Init => Inv
<1> SUFFICES ASSUME Init PROVE Inv
  OBVIOUS
<1>1. root \in [Page -> RootLine] /\ super \in [Page -> BOOLEAN]
  BY DEF Init, RootOf, RootLine
<1>2. tws \in Seq(Page) /\ Len(tws) <= twsSize /\ IsInjective(tws)
  BY twsAssumption DEF Init, IsInjective
<1>3. TypeOK
  BY <1>1, <1>2 DEF Init, TypeOK
<1>4. RootMeansSuper
  BY DEF Init, RootMeansSuper, ZeroRoot
<1>5. AllocatedSuper
  <2>1. ToSet(tws) = {}
    BY DEF Init, ToSet
  <2> QED BY <2>1 DEF Init, AllocatedSuper
<1> QED BY <1>3, <1>4, <1>5 DEF Inv

\* Every handler keeps the inductive invariant.
LEMMA InvStep == Inv /\ [Next]_vars => Inv'
<1> SUFFICES ASSUME Inv, [Next]_vars PROVE Inv'
  OBVIOUS
<1>1. Tables' /\ RootMeansSuper'
  BY TablesStep DEF Inv, TypeOK, Tables
<1>2. tws' \in Seq(Page) /\ Len(tws') <= twsSize /\ IsInjective(tws')
  BY WorkingSetStep
<1>3. AllocatedSuper'
  BY AllocatedStep
<1>4. allocated' \in SUBSET Page
  <2>1. ToSet(tws') \subseteq Page
    BY <1>2, LenProperties, ElementOfSeq DEF ToSet
  <2> QED BY <1>3, <2>1 DEF AllocatedSuper
<1>5. reply' \in {Ready} \cup Request /\ steps' \in Seq(Actions(LineIds))
  BY ReplyStep, StepsStep
<1> QED BY <1>1, <1>2, <1>3, <1>4, <1>5 DEF Inv, TypeOK, Tables

\* The inductive invariant holds in every reachable state.
LEMMA Invariance == Spec => []Inv
BY InvInit, InvStep, PTL DEF Spec

\* Tables, working set, reply and steps of PhoenixSController keep their types; in
\* particular the working set never repeats a page or exceeds twsSize.
THEOREM TypeCorrect == Spec => []TypeOK
<1>1. Inv => TypeOK
  BY DEF Inv
<1> QED BY Invariance, <1>1, PTL

\* A page without DRAM never holds a tag, however the pages share root lines.
THEOREM AllocationCovers == Spec => []AllocatedCoversTags
<1>1. Inv => AllocatedCoversTags
  <2> SUFFICES ASSUME Inv, NEW p \in Page, HoldsTag(p) PROVE super[p]
    BY DEF AllocatedCoversTags, Inv, AllocatedSuper
  <2>1. PICK a \in Addr : a.page = p /\ tagsOf[a] # NoTags
    BY DEF HoldsTag
  <2>2. root[p][a.slot] /\ a.slot \in Slot
    BY <2>1 DEF tagsOf, rootTag, Addr
  <2> QED BY <2>2 DEF Inv, RootMeansSuper
<1> QED BY Invariance, <1>1, PTL

-----------------------------------------------------------------------------
(* Accesses, allocations and frees within a handler *)

\* Although pages lose their tags to siblings unnoticed, no leaf line is accessed
\* without the DRAM of its page, none is allocated twice and none freed twice.
THEOREM DramDisciplined == Spec => DramDiscipline
<1> DEFINE each(i) ==
              /\ \A a \in Addr : steps'[i].line = LeafId(a) => AllocatedAt(a.page, i)
              /\ \A p \in Page : /\ steps'[i] = Alloc(p) => ~AllocatedAt(p, i)
                                 /\ steps'[i] = Free(p)  => AllocatedAt(p, i)
<1>1. ASSUME Does(steps', allocated, allocated'), NEW i \in 1 .. Len(steps')
      PROVE  each(i)
  <2>1. allowed(steps'[i], holders(steps', allocated, i), own)
    BY <1>1 DEF Does, Orderly
  <2>2. \A p \in Page : p \in holders(steps', allocated, i) <=> AllocatedAt(p, i)
    BY DEF holders, AllocatedAt
  <2>3. \A a \in Addr : a.page \in Page /\ LeafId(a) \in own[a.page]
    BY DEF own, Addr
  <2> QED BY <2>1, <2>2, <2>3, Zenon DEF allowed
<1>2. Inv /\ [Next]_vars => [\A i \in 1 .. Len(steps') : each(i)]_vars
  <2> HIDE DEF each
  <2> QED BY <1>1, StepDoes, Zenon
<1> QED BY Invariance, <1>2, PTL DEF Spec, DramDiscipline

-----------------------------------------------------------------------------
(* What a request does to the tags of other addresses *)

tagAt(b) == IF root[b.page][b.slot] THEN leaf[b.page][b.slot][b.granule] ELSE NoTags

\* The table of tags, spelled out for the proofs.
LEMMA TagsOf == \A b \in Addr : tagsOf[b] = tagAt(b) /\ tagsOf'[b] = tagAt(b)'
BY DEF tagsOf, tagAt, rootTag, leafLine

\* Rewriting the leaf line of a, or giving it its first tags, under root bits that
\* do not change but for its own.
LEMMA OthersInLine ==
    ASSUME Tables, NEW a \in Addr, NEW tags \in Tags, NEW old \in LeafLine,
           \/ rootTag(a) /\ old = leafLine(a)
           \/ ~rootTag(a) /\ old = ZeroLeaf,
           writeLeafLine(a, modifyTags(old, a.granule, tags)),
           NEW b \in Addr, b # a,
           b.page = a.page /\ b.slot = a.slot => root'[b.page][b.slot],
           b.page # a.page \/ b.slot # a.slot =>
               (root'[b.page][b.slot] <=> root[b.page][b.slot])
    PROVE  tagAt(b)' = tagAt(b)
<1>1. modifyTags(old, a.granule, tags) \in LeafLine
  BY LeafLines, Zenon
<1>2. \A p \in Page, s \in Slot :
         leaf'[p][s] = IF p = a.page /\ s = a.slot THEN modifyTags(old, a.granule, tags)
                       ELSE leaf[p][s]
  BY <1>1, WriteLeaf, Zenon
<1>3. CASE b.page = a.page /\ b.slot = a.slot
  <2>1. b.granule # a.granule /\ b.granule \in Granule
    BY <1>3 DEF Addr
  <2>2. leaf'[b.page][b.slot][b.granule] = old[b.granule]
    <3>1. leaf'[b.page][b.slot] = [old EXCEPT ![a.granule] = tags]
      BY <1>2, <1>3 DEF modifyTags, Addr
    <3>2. DOMAIN old = Granule
      BY DEF LeafLine
    <3> QED BY <2>1, <3>1, <3>2
  <2>3. ~rootTag(a) => old[b.granule] = NoTags
    BY <2>1 DEF ZeroLeaf
  <2> QED BY <1>3, <2>2, <2>3 DEF tagAt, rootTag, leafLine
<1>4. CASE b.page # a.page \/ b.slot # a.slot
  <2>1. leaf'[b.page][b.slot] = leaf[b.page][b.slot]
    BY <1>2, <1>4 DEF Addr
  <2> QED BY <1>4, <2>1 DEF tagAt
<1> QED BY <1>3, <1>4

\* Handlers that do not take a page into use change the tags of no other address.
LEMMA OthersKept ==
    ASSUME Tables, NEW a \in Addr, NEW tags \in Tags,
           Clears(a) \/ WriteFreshLine(a, tags) \/ WriteLine(a, tags),
           NEW b \in Addr, b # a
    PROVE  tagAt(b)' = tagAt(b)
<1>1. /\ leafLine(a) \in LeafLine /\ ZeroLeaf \in LeafLine
      /\ b.page \in Page /\ b.slot \in Slot /\ b.granule \in Granule
  BY LeafLines, RootLinesOf, Zenon
<1>2. CASE WriteFreshLine(a, tags)
  <2>1. ~rootTag(a) /\ writeLeafLine(a, modifyTags(ZeroLeaf, a.granule, tags))
    BY <1>2 DEF WriteFreshLine
  <2>2. root'[b.page][b.slot] <=> root[b.page][b.slot] \/ (b.page = a.page /\ b.slot = a.slot)
    <3>1. \A q \in Page, s \in Slot :
             root'[q][s] <=> root[q][s] \/ (q = a.page /\ s = a.slot)
      BY <1>2, RootBits, Zenon
    <3> QED BY <1>1, <3>1, Zenon
  <2> QED BY <1>1, <2>1, <2>2, OthersInLine, Zenon
<1>3. CASE WriteLine(a, tags) \/ ClearSome(a)
  <2>1. PICK t \in Tags : writeLeafLine(a, modifyTags(leafLine(a), a.granule, t))
    BY <1>3, NoTagsAssumption, Zenon DEF WriteLine, ClearSome, cleared
  <2>2. rootTag(a) /\ root' = root
    BY <1>3 DEF WriteLine, ClearSome
  <2>3. b.page = a.page /\ b.slot = a.slot => root'[b.page][b.slot]
    BY <2>2 DEF rootTag
  <2>4. root'[b.page][b.slot] <=> root[b.page][b.slot]
    BY <2>2
  <2> QED BY <1>1, <2>1, <2>2, <2>3, <2>4, OthersInLine, Zenon
<1>4. CASE ClearLine(a) \/ ClearPage(a)
  <2>1. leaf' = leaf /\ cleared(a) = ZeroLeaf
    BY <1>4 DEF ClearLine, ClearPage
  <2>2. root'[b.page][b.slot] <=> root[b.page][b.slot] /\ ~(b.page = a.page /\ b.slot = a.slot)
    <3>1. \A q \in Page, s \in Slot :
             root'[q][s] <=> root[q][s] /\ ~(q = a.page /\ s = a.slot)
      BY <1>4, RootBits, Zenon
    <3> QED BY <1>1, <3>1, Zenon
  <2>3. ASSUME b.page = a.page, b.slot = a.slot PROVE leaf[b.page][b.slot][b.granule] = NoTags
    <3>1. b.granule # a.granule
      BY <2>3 DEF Addr
    <3>2. cleared(a)[b.granule] = leafLine(a)[b.granule]
      BY <1>1, <3>1 DEF cleared, modifyTags, LeafLine
    <3>3. ZeroLeaf[b.granule] = NoTags
      BY <1>1 DEF ZeroLeaf
    <3> QED BY <2>1, <2>3, <3>2, <3>3 DEF leafLine
  <2> QED BY <2>1, <2>2, <2>3 DEF tagAt
<1> QED BY <1>2, <1>3, <1>4 DEF Clears

\* The write that takes a page into use leaves the pages of other root lines alone,
\* and no tag in the siblings; its own page had no tags before.
LEMMA OthersWiped ==
    ASSUME Tables, RootMeansSuper, NEW a \in Addr, NEW tags \in Tags, WriteFreshPage(a, tags),
           NEW b \in Addr, b # a
    PROVE  \/ tagAt(b)' = tagAt(b)
           \/ tagAt(b)' = NoTags /\ b.page \in neighbours(a.page) \ {a.page}
<1>1. /\ ZeroLeaf \in LeafLine
      /\ b.page \in Page /\ b.slot \in Slot
      /\ a.page \in Page /\ a.slot \in Slot /\ a.page \in neighbours(a.page)
  BY LeafLines, RootLinesOf, Zenon
<1>2. root'[b.page][b.slot] <=> IF b.page \in neighbours(a.page)
                                THEN b.page = a.page /\ b.slot = a.slot
                                ELSE root[b.page][b.slot]
  BY <1>1, RootBits, Zenon
<1>3. \A s \in Slot : ~root[a.page][s]
  BY <1>1 DEF WriteFreshPage, superTag, RootMeansSuper
<1>4. CASE b.page \in neighbours(a.page) \ {a.page}
  BY <1>2, <1>4 DEF tagAt
<1>5. CASE b.page = a.page \/ b.page \notin neighbours(a.page)
  <2>1. ~rootTag(a) /\ writeLeafLine(a, modifyTags(ZeroLeaf, a.granule, tags))
    BY <1>1, <1>3 DEF WriteFreshPage, rootTag
  <2>2. b.page = a.page /\ b.slot = a.slot => root'[b.page][b.slot]
    BY <1>1, <1>2
  <2>3. b.page # a.page \/ b.slot # a.slot => (root'[b.page][b.slot] <=> root[b.page][b.slot])
    BY <1>1, <1>2, <1>3, <1>5
  <2> QED BY <1>1, <2>1, <2>2, <2>3, OthersInLine, Zenon
<1> QED BY <1>4, <1>5

\* The damage a shared root line does is exactly this: the first tags of a page
\* take away those of its siblings.  Nothing else reaches the tags of another
\* address, and no stale line comes back to life.
THEOREM WipesOnly == Spec => OthersChangeOnlyByWipe
<1>1. ASSUME Inv, Next,
             NEW b \in Addr, tagsOf'[b] # tagsOf[b], b # reply'.addr
      PROVE  /\ tagsOf'[b] = NoTags
             /\ b.page \in neighbours(reply'.addr.page) \ {reply'.addr.page}
             /\ ~super[reply'.addr.page] /\ super'[reply'.addr.page]
  <2>1. Tables /\ RootMeansSuper
    BY <1>1 DEF Inv, TypeOK, Tables
  <2>2. tagAt(b)' # tagAt(b)
    BY <1>1, TagsOf
  <2>3. ASSUME UNCHANGED <<super, root, leaf>> PROVE FALSE
    BY <2>2, <2>3 DEF tagAt
  <2>4. PICK a \in Addr, tags \in Tags :
           (Stores(a, tags) \/ Clears(a)) /\ reply' = Served("write", a, tags)
    BY <1>1, <2>3, Cases, LooksUnchanged, NoTagsAssumption, Zenon DEF vars
  <2>5. reply'.addr = a
    BY <2>4 DEF Served
  <2>6. WriteFreshPage(a, tags)
    BY <1>1, <2>1, <2>2, <2>4, <2>5, OthersKept DEF Stores
  <2>7. tagAt(b)' = NoTags /\ b.page \in neighbours(a.page) \ {a.page}
    BY <1>1, <2>1, <2>2, <2>5, <2>6, OthersWiped
  <2>8. ~super[a.page] /\ super'[a.page]
    BY <2>1, <2>6 DEF WriteFreshPage, superTag, writeSuperTag, Tables, Addr
  <2> QED BY <2>5, <2>7, <2>8, TagsOf
<1>2. Inv /\ [Next]_vars =>
        [\A b \in Addr :
            tagsOf'[b] # tagsOf[b] /\ b # reply'.addr
              => /\ tagsOf'[b] = NoTags
                 /\ b.page \in neighbours(reply'.addr.page) \ {reply'.addr.page}
                 /\ ~super[reply'.addr.page] /\ super'[reply'.addr.page]]_vars
  BY <1>1
<1> QED BY Invariance, <1>2, PTL DEF Spec, OthersChangeOnlyByWipe

-----------------------------------------------------------------------------
(* The statistics *)

\* What the statistics keep: sizes that were sampled, the present one among them.
StatsInv ==
    /\ Inv
    /\ balance \in Int
    /\ dramUsage \subseteq Nat /\ IsFiniteSet(dramUsage)
    /\ Cardinality(allocated) \in dramUsage

\* The statistics module counts as this one does.
LEMMA SameSize == \A S : Stats!Cardinality(S) = Cardinality(S)
BY DEF Stats!Cardinality, Cardinality

\* The pages with DRAM are finitely many.
LEMMA AllocatedFinite ==
    \A pages \in SUBSET Page : IsFiniteSet(pages) /\ Cardinality(pages) \in Nat
BY PageAssumption, FS_Subset, FS_CardinalityType

\* What a request adds to the counters is how many pages get DRAM by it, less those
\* that lose it.
LEMMA BalanceStep ==
    ASSUME StatsInv, StatsNext
    PROVE  /\ balance' \in Int
           /\ balance' - Cardinality(allocated') = balance - Cardinality(allocated)
<1>1. Inv /\ Inv' /\ Does(steps', allocated, allocated')
  BY InvStep, NextDoes DEF StatsInv, StatsNext
<1>2. /\ IsFiniteSet(allocated)
      /\ Cardinality(allocated) \in Nat /\ Cardinality(allocated') \in Nat
  BY <1>1, AllocatedFinite DEF Inv, TypeOK
<1>3. /\ count(steps', "alloc") - count(steps', "free")
            = Cardinality(allocated') - Cardinality(allocated)
      /\ steps' \in Seq(Actions(LineIds))
  BY <1>1, <1>2 DEF Does, Orderly
<1>4. count(steps', "alloc") \in Nat /\ count(steps', "free") \in Nat
  BY <1>3, Marked
<1>5. balance' = balance + count(steps', "alloc") - count(steps', "free")
  BY SameSize DEF StatsNext, Stats!counted, Stats!calls, count, marked
<1> QED BY <1>2, <1>3, <1>4, <1>5 DEF StatsInv

\* Every request keeps the statistics.
LEMMA StatsStep == StatsInv /\ [StatsNext]_<<vars, balance, dramUsage>> => StatsInv'
<1> SUFFICES ASSUME StatsInv, [StatsNext]_<<vars, balance, dramUsage>> PROVE StatsInv'
  OBVIOUS
<1>1. [Next]_vars
  BY DEF StatsNext
<1>2. Inv'
  BY <1>1, InvStep DEF StatsInv
<1>3. CASE StatsNext
  <2>1. dramUsage' = dramUsage \cup {Cardinality(allocated')}
    BY <1>3, SameSize DEF StatsNext, Stats!counted
  <2>2. Cardinality(allocated') \in Nat
    BY <1>2, AllocatedFinite DEF Inv, TypeOK
  <2>3. IsFiniteSet(dramUsage')
    BY <2>1, FS_AddElement DEF StatsInv
  <2> QED BY <1>2, <1>3, <2>1, <2>2, <2>3, BalanceStep DEF StatsInv
<1>4. CASE UNCHANGED <<vars, balance, dramUsage>>
  <2>1. allocated' = allocated
    BY <1>4 DEF vars
  <2> QED BY <1>2, <1>4, <2>1 DEF StatsInv
<1> QED BY <1>3, <1>4

\* The constructed controller has sampled its first size.
LEMMA StatsStart == StatsInit => StatsInv
<1> SUFFICES ASSUME StatsInit PROVE StatsInv
  OBVIOUS
<1>1. Inv
  BY InvInit DEF StatsInit
<1>2. dramUsage = {Cardinality(allocated)} /\ balance = 0
  BY SameSize DEF StatsInit, Stats!constructed
<1>3. Cardinality(allocated) \in Nat
  BY <1>1, AllocatedFinite DEF Inv, TypeOK
<1>4. IsFiniteSet(dramUsage)
  BY <1>2, FS_Singleton
<1>5. dramUsage \subseteq Nat /\ Cardinality(allocated) \in dramUsage /\ balance \in Int
  BY <1>2, <1>3
<1> QED BY <1>1, <1>4, <1>5 DEF StatsInv

LEMMA StatsInvariance == StatsSpec => []StatsInv
BY StatsStart, StatsStep, PTL DEF StatsSpec

\* ALLOC COUNT less FREE COUNT is exactly the growth of the set of pages with DRAM,
\* over every handler path and although pages leak.
THEOREM CountsExplain == StatsSpec => CountsExplainAllocated
<1>1. StatsInv /\ [StatsNext]_<<vars, balance, dramUsage>> =>
        [balance' - Stats!Cardinality(allocated')
           = balance - Stats!Cardinality(allocated)]_<<allocated, steps, balance, dramUsage>>
  BY BalanceStep, SameSize DEF vars
<1> QED BY StatsInvariance, <1>1, PTL
        DEF StatsSpec, CountsExplainAllocated, Stats!CountsExplainAllocated

-----------------------------------------------------------------------------
(* How many pages have DRAM while a handler runs *)

\* Pieces of handlers that allocate nothing: accesses, and updateTWS.
LEMMA FreeingPieces ==
    ASSUME Inv, NEW a \in Addr
    PROVE  /\ Seq(Accesses(linesFor(a))) \subseteq Seq(Frees(LineIds))
           /\ Seq(Accesses(linesFor(a))) \subseteq Seq(Allocs(LineIds))
           /\ <<>> \in Seq(Frees(LineIds)) /\ <<Rd(SuperId)>> \in Seq(Frees(LineIds))
           /\ <<Free(a.page)>> \in Seq(Frees(LineIds))
           /\ superSteps(a.page) \in Seq(Frees(LineIds))
           /\ updateSteps(a.page) \in Seq(Frees(LineIds))
           /\ storeSteps(a.page) \in Seq(Frees(LineIds))
<1>1. Accesses(linesFor(a)) \subseteq Accesses(LineIds)
  BY Owners DEF Accesses
<1>2. /\ Seq(Accesses(linesFor(a))) \subseteq Seq(Frees(LineIds))
      /\ Seq(Accesses(linesFor(a))) \subseteq Seq(Allocs(LineIds))
  BY <1>1, SeqMonotonic DEF Frees, Allocs
<1>3. Rd(SuperId) \in Frees(LineIds)
  BY DEF Rd, Frees, Accesses, LineIds
<1>4. \A p \in Page : Free(p) \in Frees(LineIds)
  BY DEF Frees
<1>5. a.page \in Page /\ (frees(a.page) => evicted(tws, a.page) \in Page)
  <2>1. a.page \in Page
    BY DEF Addr
  <2> QED BY <2>1, Touch, Zenon
<1>6. superSteps(a.page) \in Seq(Frees(LineIds))
  BY <1>3 DEF superSteps
<1>7. updateSteps(a.page) \in Seq(Frees(LineIds))
  BY <1>3, <1>4, <1>5 DEF updateSteps
<1>8. storeSteps(a.page) \in Seq(Frees(LineIds))
  BY <1>3, <1>7 DEF storeSteps
<1> QED BY <1>2, <1>3, <1>4, <1>5, <1>6, <1>7, <1>8

\* Reads, and writes of zero tags, allocate nothing and free one page at most.
LEMMA LooksFree ==
    ASSUME Inv, NEW a \in Addr, Looks(a) \/ Clears(a)
    PROVE  /\ steps' \in Seq(Frees(LineIds))
           /\ \E e : allocated \ {e} \subseteq allocated'
<1> DEFINE F == Seq(Frees(LineIds))
           path == clearSteps(a) \o <<Wr(SRootId(a.page)), Wr(SuperId)>>
<1>1. \A s, t \in F : s \o t \in F
  BY ConcatProperties
<1>2. /\ clearSteps(a) \in F /\ <<Wr(LeafId(a))>> \in F /\ <<Wr(SRootId(a.page))>> \in F
      /\ <<Wr(SRootId(a.page)), Wr(SuperId)>> \in F
      /\ <<Rd(SRootId(a.page))>> \in F /\ <<Rd(SRootId(a.page)), Rd(LeafId(a))>> \in F
  <2>1. /\ {clearSteps(a), <<Wr(LeafId(a))>>, <<Wr(SRootId(a.page))>>} \subseteq Seq(Accesses(linesFor(a)))
        /\ {<<Wr(SRootId(a.page)), Wr(SuperId)>>, <<Rd(SRootId(a.page))>>,
            <<Rd(SRootId(a.page)), Rd(LeafId(a))>>} \subseteq Seq(Accesses(linesFor(a)))
    BY Pieces DEF linesFor, clearSteps
  <2> QED BY <2>1, FreeingPieces
<1>3. /\ <<>> \in F /\ <<Rd(SuperId)>> \in F /\ <<Free(a.page)>> \in F
      /\ superSteps(a.page) \in F /\ updateSteps(a.page) \in F
  BY FreeingPieces
<1>4. path \in F /\ Append(path, Free(a.page)) \in F
  <2>1. a.page \in Page /\ Free(a.page) \in Frees(LineIds)
    BY DEF Addr, Frees
  <2>2. path \in F
    BY <1>1, <1>2, Zenon
  <2> HIDE DEF path
  <2> QED BY <2>1, <2>2, AppendProperties
<1> HIDE DEF F
<1>5. steps' \in F
  <2>1. CASE ReadSuperClear(a) \/ ReadRootClear(a) \/ ReadLeaf(a)
    <3> DEFINE down == superSteps(a.page) \o <<Rd(SRootId(a.page)), Rd(LeafId(a))>>
    <3>1. /\ down \in F /\ down \o updateSteps(a.page) \in F
          /\ superSteps(a.page) \o <<Rd(SRootId(a.page))>> \in F
      BY <1>1, <1>2, <1>3, Zenon
    <3>2. ReadLeaf(a) => steps' = down \o updateSteps(a.page) \/ steps' = down
      BY Zenon DEF ReadLeaf
    <3> HIDE DEF down
    <3> QED BY <1>3, <2>1, <3>1, <3>2, Zenon DEF ReadSuperClear, ReadRootClear
  <2>2. CASE ClearNothing(a)
    BY <1>1, <1>2, <1>3, <2>2 DEF ClearNothing
  <2>3. CASE ClearSome(a) \/ ClearLine(a)
    BY <1>1, <1>2, <2>3, Zenon DEF ClearSome, ClearLine
  <2>4. CASE ClearPage(a)
    BY <1>4, <2>4, Zenon DEF ClearPage
  <2> QED BY <2>1, <2>2, <2>3, <2>4 DEF Looks, handleRead, Clears
<1>6. \/ allocated \ {evicted(tws, a.page)} \subseteq allocated'
      \/ allocated \ {a.page} \subseteq allocated'
  <2>1. unused(a.page) \subseteq {evicted(tws, a.page)}
    BY DEF unused
  <2> QED BY <2>1
          DEF Looks, handleRead, ReadSuperClear, ReadRootClear, ReadLeaf, updateTWS,
              ClearNothing, Clears, ClearSome, ClearLine, ClearPage
<1> QED BY <1>5, <1>6 DEF F

\* So do writes of tags to a page that has some.
LEMMA StoresFree ==
    ASSUME Inv, NEW a \in Addr, NEW tags \in Tags, WriteFreshLine(a, tags) \/ WriteLine(a, tags)
    PROVE  /\ steps' \in Seq(Frees(LineIds))
           /\ \E e : allocated \ {e} \subseteq allocated'
<1>1. PICK t \in {<<Rd(SRootId(a.page)), Wr(SRootId(a.page)), Wr(LeafId(a))>>,
                  <<Rd(SRootId(a.page)), Rd(LeafId(a)), Wr(LeafId(a))>>} :
         steps' = storeSteps(a.page) \o t
  BY Zenon DEF WriteFreshLine, WriteLine
<1>2. t \in Seq(Accesses(linesFor(a)))
  BY <1>1, Pieces DEF linesFor
<1>3. steps' \in Seq(Frees(LineIds))
  BY <1>1, <1>2, FreeingPieces, ConcatProperties, Zenon
<1>4. allocated \ {evicted(tws, a.page)} \subseteq allocated'
  BY DEF WriteFreshLine, WriteLine, updateTWS, unused
<1> QED BY <1>3, <1>4

\* A page taken into use is allocated behind the free of the page it evicts.
LEMMA FreshPageOrder ==
    ASSUME Inv, NEW a \in Addr, NEW tags \in Tags, WriteFreshPage(a, tags)
    PROVE  \E s \in Seq(Frees(LineIds)), t \in Seq(Allocs(LineIds)) : \E e :
              /\ steps' = s \o t
              /\ allocated \ {e} \subseteq holders(s, allocated, Len(s) + 1)
<1> DEFINE s == storeSteps(a.page)
           w == <<Wr(SuperId), Wr(SRootId(a.page)), Wr(LeafId(a))>>
           t == allocSteps(a.page) \o w
           S == Actions(LineIds)
<1>1. w \in Seq(Accesses(linesFor(a)))
  BY Pieces DEF linesFor
<1>2. a.page \in Page /\ w \in Seq(Allocs(LineIds)) /\ s \in Seq(Frees(LineIds))
  BY <1>1, FreeingPieces DEF Addr
<1>3. allocSteps(a.page) \in Seq(Allocs(LineIds))
  <2>1. Alloc(a.page) \in Allocs(LineIds)
    BY <1>2 DEF Allocs
  <2> QED BY <2>1 DEF allocSteps
<1> HIDE DEF s, w
<1>4. t \in Seq(Allocs(LineIds))
  BY <1>2, <1>3, ConcatProperties, Zenon
<1>5. /\ s \in Seq(S) /\ w \in Seq(S) /\ allocSteps(a.page) \in Seq(S)
  <2>1. Frees(LineIds) \subseteq S /\ Allocs(LineIds) \subseteq S
    BY DEF Frees, Allocs, Actions
  <2> QED BY <1>2, <1>3, <2>1, SeqMonotonic
<1>6. steps' = s \o t
  <2>1. steps' = (s \o allocSteps(a.page)) \o w
    BY Zenon DEF WriteFreshPage, takeSteps, s, w
  <2> HIDE DEF S
  <2> QED BY <1>5, <2>1, ConcatAssociative
<1>7. allocated \ {evicted(tws, a.page)} \subseteq holders(s, allocated, Len(s) + 1)
  <2>1. holders(s, allocated, Len(s) + 1) = allocated \ unused(a.page)
    BY UpdateDoes DEF Does, Orderly, s
  <2> QED BY <2>1 DEF unused
<1> HIDE DEF t
<1> QED BY <1>2, <1>4, <1>6, <1>7

\* At every moment of a handler all pages but one keep their DRAM, and there are no
\* others than either before or after it.
LEMMA Moments ==
    ASSUME Inv, Next, NEW i \in 1 .. Len(steps') + 1
    PROVE  \E e : /\ allocated \ {e} \subseteq holders(steps', allocated, i)
                  /\ \/ holders(steps', allocated, i) \subseteq allocated
                     \/ holders(steps', allocated, i) \subseteq allocated'
<1>1. allocated \subseteq Page /\ allocated' = holders(steps', allocated, Len(steps') + 1)
  BY NextDoes DEF Does, Orderly, Inv, TypeOK
<1>2. ASSUME steps' \in Seq(Frees(LineIds)), \E e : allocated \ {e} \subseteq allocated'
      PROVE  \E e : /\ allocated \ {e} \subseteq holders(steps', allocated, i)
                    /\ holders(steps', allocated, i) \subseteq allocated
  <2>1. /\ allocated' \subseteq holders(steps', allocated, i)
        /\ holders(steps', allocated, i) \subseteq allocated
    BY <1>1, <1>2, Falling
  <2> QED BY <1>2, <2>1
<1>3. ASSUME NEW a \in Addr, NEW tags \in Tags, WriteFreshPage(a, tags)
      PROVE  \E e : /\ allocated \ {e} \subseteq holders(steps', allocated, i)
                    /\ \/ holders(steps', allocated, i) \subseteq allocated
                       \/ holders(steps', allocated, i) \subseteq allocated'
  <2>1. PICK s \in Seq(Frees(LineIds)), t \in Seq(Allocs(LineIds)) : \E e :
           /\ steps' = s \o t
           /\ allocated \ {e} \subseteq holders(s, allocated, Len(s) + 1)
    BY <1>3, FreshPageOrder, Zenon
  <2>2. /\ holders(s, allocated, Len(s) + 1) \subseteq holders(s \o t, allocated, i)
        /\ \/ holders(s \o t, allocated, i) \subseteq allocated
           \/ holders(s \o t, allocated, i)
                 \subseteq holders(s \o t, allocated, Len(s \o t) + 1)
    <3>1. i \in 1 .. Len(s \o t) + 1
      BY <2>1
    <3> QED BY <1>1, <3>1, Valley
  <2>3. /\ holders(s, allocated, Len(s) + 1) \subseteq holders(steps', allocated, i)
        /\ \/ holders(steps', allocated, i) \subseteq allocated
           \/ holders(steps', allocated, i) \subseteq allocated'
    BY <1>1, <2>1, <2>2, Zenon
  <2> QED BY <2>1, <2>3
<1>4. CASE \E a \in Addr : Looks(a) \/ Clears(a)
  BY <1>2, <1>4, LooksFree, Zenon
<1>5. CASE \E a \in Addr, tags \in Tags : Stores(a, tags)
  BY <1>2, <1>3, <1>5, StoresFree, Zenon DEF Stores
<1> QED BY <1>4, <1>5, NextCases, Zenon

\* The samples behind the requests bound how many pages have DRAM at every moment of
\* every handler, leaked pages included: updateTWS frees the page it evicts before the
\* handler allocates one, so that no peak falls between two samples, and at most one
\* page is missing meanwhile.
THEOREM PeakReportedAlways == StatsSpec => PeakReported
<1>1. ASSUME StatsInv, StatsInv', StatsNext, NEW i \in 1 .. Len(steps') + 1
      PROVE  sizeAt(i) \in Stats!minBlocks' - 1 .. Stats!maxBlocks'
  <2>1. PICK low \in dramUsage' : \A j \in dramUsage' : low <= j
    BY <1>1, Extremes DEF StatsInv
  <2>2. PICK high \in dramUsage' : \A j \in dramUsage' : j <= high
    BY <1>1, Extremes DEF StatsInv
  <2>3. /\ Stats!minBlocks' \in dramUsage' /\ \A j \in dramUsage' : Stats!minBlocks' <= j
        /\ Stats!maxBlocks' \in dramUsage' /\ \A j \in dramUsage' : j <= Stats!maxBlocks'
    BY <2>1, <2>2, Zenon DEF Stats!minBlocks, Stats!maxBlocks
  <2>4. Cardinality(allocated) \in dramUsage' /\ Cardinality(allocated') \in dramUsage'
    BY <1>1 DEF StatsInv, StatsNext, Stats!counted
  <2>5. Stats!minBlocks' \in Int /\ Stats!maxBlocks' \in Int
    <3>1. dramUsage' \subseteq Nat
      BY <1>1 DEF StatsInv
    <3> QED BY <2>3, <3>1
  <2>6. IsFiniteSet(allocated) /\ IsFiniteSet(allocated')
    BY <1>1, AllocatedFinite DEF StatsInv, Inv, TypeOK
  <2>7. PICK e : /\ allocated \ {e} \subseteq holders(steps', allocated, i)
                 /\ \/ holders(steps', allocated, i) \subseteq allocated
                    \/ holders(steps', allocated, i) \subseteq allocated'
    BY <1>1, Moments DEF StatsInv, StatsNext
  <2>8. sizeAt(i) = Cardinality(holders(steps', allocated, i))
    BY DEF sizeAt, holders, AllocatedAt
  <2>9. /\ Stats!minBlocks' <= Cardinality(allocated)
        /\ Cardinality(allocated) <= Stats!maxBlocks'
        /\ Cardinality(allocated') <= Stats!maxBlocks'
    BY <2>3, <2>4, Zenon
  <2> QED BY <2>5, <2>6, <2>7, <2>8, <2>9, SizeBetween
<1>2. StatsInv /\ StatsInv' /\ [StatsNext]_<<vars, balance, dramUsage>> =>
        [\A i \in 1 .. Len(steps') + 1 :
            sizeAt(i) \in Stats!minBlocks' - 1 .. Stats!maxBlocks']_<<vars, balance, dramUsage>>
  BY <1>1, Zenon
<1> QED BY StatsInvariance, <1>2, PTL DEF StatsSpec, PeakReported
=============================================================================
