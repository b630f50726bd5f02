-------------------------- MODULE SharedTraceProofs --------------------------
(***************************************************************************)
(* ETMController alone and in the company of the flat-table controllers,   *)
(* for any geometry and any set of tags.  Alone: its tables keep their     *)
(* shape, no root bit is set over an empty line, and the two levels        *)
(* together are one table of tags.  On one trace: both Morello runs hold   *)
(* the tags of the baseline, the baseline is a plain table of tags, the    *)
(* leaf lines of ETM that are under a root bit are the lines of the        *)
(* baseline's flat table, and the traces are made of the same accesses.    *)
(***************************************************************************)
EXTENDS SharedTrace, TLAPS

-----------------------------------------------------------------------------
(* ETMController *)

\* The inductive invariant of the two tables.
Inv == TypeOK /\ NoIdleRootBit

\* Every handler keeps the tables, the reply and the trace in their types.
LEMMA TypeStep == TypeOK /\ [Next]_vars => TypeOK'
<1> SUFFICES ASSUME TypeOK, [Next]_vars PROVE TypeOK'
  OBVIOUS
<1> USE NoTagsAssumption DEF TypeOK
<1> DEFINE Ids == {RootId(p) : p \in Page} \cup {LeafId(a) : a \in Addr}
<1>1. ASSUME NEW a \in Addr
      PROVE /\ Rd(RootId(a.page)) \in Access /\ Wr(RootId(a.page)) \in Access
            /\ Rd(LeafId(a)) \in Access /\ Wr(LeafId(a)) \in Access
  <2>1. a.page \in Page
    BY <1>1 DEF Addr
  <2>2. RootId(a.page) \in Ids /\ LeafId(a) \in Ids
    BY <1>1, <2>1
  <2> QED BY <2>2 DEF Access, Rd, Wr
<1>2. ASSUME NEW a \in Addr
      PROVE /\ leafLine(a) \in LeafLine
            /\ \A tags \in Tags : modifyTags(leafLine(a), a.granule, tags) \in LeafLine
            /\ \A tags \in Tags : modifyTags(ZeroLeaf, a.granule, tags) \in LeafLine
  BY <1>2 DEF leafLine, LeafTable, LeafLine, ZeroLeaf, modifyTags, Addr
<1>3. ASSUME NEW a \in Addr, NEW line \in LeafLine, writeLeafLine(a, line)
      PROVE leaf' \in LeafTable
  BY <1>3 DEF writeLeafLine, LeafTable, Addr
<1>4. ASSUME NEW a \in Addr, NEW tag \in BOOLEAN, writeRootTag(a, tag)
      PROVE root' \in [Page -> RootLine]
  BY <1>4 DEF writeRootTag, RootLine, modifyTag, Addr
<1>5. ASSUME NEW op \in {"read", "write"}, NEW a \in Addr, NEW tags \in Tags
      PROVE Served(op, a, tags) \in Request
  BY <1>5 DEF Served, Request
<1>6. ASSUME NEW a \in Addr, handleRead(a) PROVE TypeOK'
  <2>1. CASE ReadRootClear(a)
    BY <1>1, <1>5, <2>1 DEF ReadRootClear
  <2>2. CASE ReadLeaf(a)
    <3>1. leafLine(a)[a.granule] \in Tags
      BY <1>2 DEF LeafLine, Addr
    <3> QED BY <1>1, <1>5, <2>2, <3>1 DEF ReadLeaf
  <2> QED BY <1>6, <2>1, <2>2 DEF handleRead
<1>7. ASSUME NEW a \in Addr, NEW tags \in Tags, handleWrite(a, tags) PROVE TypeOK'
  <2>1. CASE WriteFreshLine(a, tags)
    <3>1. root' \in [Page -> RootLine]
      BY <1>4, <2>1, Zenon DEF WriteFreshLine
    <3> QED BY <1>1, <1>2, <1>3, <1>5, <2>1, <3>1 DEF WriteFreshLine
  <2>2. CASE WriteLine(a, tags)
    BY <1>1, <1>2, <1>3, <1>5, <2>2 DEF WriteLine
  <2>3. CASE ClearNothing(a)
    BY <1>1, <1>5, <2>3 DEF ClearNothing
  <2>4. CASE ClearSome(a)
    BY <1>1, <1>2, <1>3, <1>5, <2>4 DEF ClearSome, cleared
  <2>5. CASE ClearLast(a)
    <3>1. root' \in [Page -> RootLine]
      BY <1>4, <2>5, Zenon DEF ClearLast
    <3> QED BY <1>1, <1>5, <2>5, <3>1 DEF ClearLast
  <2> QED BY <1>7, <2>1, <2>2, <2>3, <2>4, <2>5 DEF handleWrite
<1>8. CASE UNCHANGED vars
  BY <1>8 DEF vars
<1> QED BY <1>6, <1>7, <1>8 DEF Next

\* Setup fills the tables with lines, and no handler has run.
LEMMA TypeInit == Init => TypeOK
<1> SUFFICES ASSUME Init PROVE TypeOK
  OBVIOUS
<1>1. root \in [Page -> RootLine]
  BY DEF Init, RootOf, RootLine
<1> QED BY <1>1 DEF Init, TypeOK

\* The tables, the reply and the trace of ETMController always have their types.
THEOREM TypeCorrect == Spec => []TypeOK
BY TypeInit, TypeStep, PTL DEF Spec

-----------------------------------------------------------------------------
(* No root bit over an empty line *)

\* Every handler keeps the root bits honest: the only way to set one is together
\* with tags in its line, and the last tags of a line go together with its bit.
LEMMA RootBitStep == Inv /\ [Next]_vars => NoIdleRootBit'
<1> SUFFICES ASSUME Inv, [Next]_vars, NEW p \in Page, NEW s \in Slot, root'[p][s]
             PROVE leaf'[p][s] # ZeroLeaf
  BY DEF NoIdleRootBit
<1> USE DEF Inv, TypeOK, NoIdleRootBit
<1>1. ASSUME NEW a \in Addr, NEW line \in LeafLine, line # ZeroLeaf, writeLeafLine(a, line),
             root[p][s] \/ (p = a.page /\ s = a.slot)
      PROVE leaf'[p][s] # ZeroLeaf
  BY <1>1 DEF writeLeafLine, LeafTable, Addr
<1>2. ASSUME NEW a \in Addr, NEW line \in LeafLine, NEW tags \in Tags, tags # NoTags
      PROVE /\ modifyTags(line, a.granule, tags) \in LeafLine
            /\ modifyTags(line, a.granule, tags) # ZeroLeaf
  BY <1>2 DEF modifyTags, LeafLine, ZeroLeaf, Addr
<1>3. ASSUME NEW a \in Addr PROVE leafLine(a) \in LeafLine
  BY <1>3 DEF leafLine, LeafTable, Addr
<1>4. ASSUME NEW a \in Addr, NEW tags \in Tags, handleWrite(a, tags)
      PROVE leaf'[p][s] # ZeroLeaf
  <2>1. CASE WriteFreshLine(a, tags)
    <3>1. ZeroLeaf \in LeafLine
      BY NoTagsAssumption DEF ZeroLeaf, LeafLine
    <3>2. root[p][s] \/ (p = a.page /\ s = a.slot)
      BY <2>1 DEF WriteFreshLine, writeRootTag, modifyTag, RootLine, Addr
    <3> QED BY <1>1, <1>2, <2>1, <3>1, <3>2 DEF WriteFreshLine
  <2>2. CASE WriteLine(a, tags)
    BY <1>1, <1>2, <1>3, <2>2 DEF WriteLine
  <2>3. CASE ClearNothing(a)
    BY <2>3 DEF ClearNothing
  <2>4. CASE ClearSome(a)
    <3>1. cleared(a) \in LeafLine
      BY <1>3, NoTagsAssumption DEF cleared, modifyTags, LeafLine, Addr
    <3> QED BY <1>1, <2>4, <3>1 DEF ClearSome
  <2>5. CASE ClearLast(a)
    BY <2>5 DEF ClearLast, writeRootTag, modifyTag, RootLine, Addr
  <2> QED BY <1>4, <2>1, <2>2, <2>3, <2>4, <2>5 DEF handleWrite
<1>5. ASSUME NEW a \in Addr, handleRead(a) PROVE leaf'[p][s] # ZeroLeaf
  BY <1>5 DEF handleRead, ReadRootClear, ReadLeaf
<1>6. CASE UNCHANGED vars
  BY <1>6 DEF vars
<1> QED BY <1>4, <1>5, <1>6 DEF Next

\* Setup sets a root bit only for a line that is not clear.
LEMMA InvInit == Init => Inv
BY TypeInit DEF Init, Inv, NoIdleRootBit, RootOf

\* Every handler keeps the inductive invariant.
LEMMA InvStep == Inv /\ [Next]_vars => Inv'
BY TypeStep, RootBitStep DEF Inv

\* In every reachable state a set root bit stands over a line with tags.
THEOREM RootBitsHonest == Spec => []NoIdleRootBit
<1>1. Inv => NoIdleRootBit
  BY DEF Inv
<1> QED BY InvInit, InvStep, <1>1, PTL DEF Spec

-----------------------------------------------------------------------------
(* The two levels are one table of tags *)

\* What a write of tags at a does to the tags the tables stand for.
stored(a, tags) == tagsOf' = [tagsOf EXCEPT ![a] = tags]

\* Storing line as the leaf line of a, with its root bit set before or now,
\* stores the tags of a and no other: either line is the old line but for a, or
\* the root bit was clear and line is zero but for a.
LEMMA StoreLine ==
    ASSUME Inv, NEW a \in Addr, NEW tags \in Tags, NEW old \in LeafLine,
           \/ rootTag(a) /\ old = leafLine(a)
           \/ ~rootTag(a) /\ old = ZeroLeaf,
           writeLeafLine(a, modifyTags(old, a.granule, tags)),
           root' = [root EXCEPT ![a.page][a.slot] = TRUE]
    PROVE  stored(a, tags)
<1> USE DEF Inv, TypeOK, rootTag, leafLine
<1>1. ASSUME NEW b \in Addr
      PROVE  (IF root'[b.page][b.slot] THEN leaf'[b.page][b.slot][b.granule] ELSE NoTags)
             = IF b = a THEN tags
               ELSE IF root[b.page][b.slot] THEN leaf[b.page][b.slot][b.granule] ELSE NoTags
  <2>1. CASE b.page = a.page /\ b.slot = a.slot
    <3>1. root'[b.page][b.slot]
      BY <1>1, <2>1 DEF RootLine, Addr
    <3>2. leaf'[b.page][b.slot] = [old EXCEPT ![a.granule] = tags]
      BY <1>1, <2>1 DEF writeLeafLine, modifyTags, LeafTable, Addr
    <3>3. b = a <=> b.granule = a.granule
      BY <1>1, <2>1 DEF Addr
    <3> QED BY <1>1, <2>1, <3>1, <3>2, <3>3 DEF LeafLine, ZeroLeaf, Addr
  <2>2. CASE ~(b.page = a.page /\ b.slot = a.slot)
    <3>1. /\ root'[b.page][b.slot] = root[b.page][b.slot]
          /\ leaf'[b.page][b.slot] = leaf[b.page][b.slot]
      BY <1>1, <2>2 DEF writeLeafLine, RootLine, LeafTable, Addr
    <3> QED BY <2>2, <3>1
  <2> QED BY <2>1, <2>2
<1> QED BY <1>1 DEF stored, tagsOf

\* Clearing the root bit of a line whose only tags are those of a clears them.
LEMMA DropLine ==
    ASSUME Inv, NEW a \in Addr, ClearLast(a)
    PROVE  stored(a, NoTags)
<1> USE DEF Inv, TypeOK, rootTag, leafLine
<1>1. ASSUME NEW b \in Addr
      PROVE  (IF root'[b.page][b.slot] THEN leaf'[b.page][b.slot][b.granule] ELSE NoTags)
             = IF b = a THEN NoTags
               ELSE IF root[b.page][b.slot] THEN leaf[b.page][b.slot][b.granule] ELSE NoTags
  <2>1. CASE b.page = a.page /\ b.slot = a.slot
    <3>1. ~root'[b.page][b.slot]
      BY <1>1, <2>1 DEF ClearLast, writeRootTag, modifyTag, RootLine, Addr
    <3>2. ASSUME b # a PROVE leaf[b.page][b.slot][b.granule] = NoTags
      <4>1. b.granule # a.granule /\ b.granule \in Granule
        BY <1>1, <2>1, <3>2 DEF Addr
      <4>2. [leaf[a.page][a.slot] EXCEPT ![a.granule] = NoTags] = ZeroLeaf
        BY DEF ClearLast, cleared, modifyTags
      <4>3. leaf[a.page][a.slot] \in LeafLine
        BY DEF LeafTable, Addr
      <4> QED BY <2>1, <4>1, <4>2, <4>3 DEF LeafLine, ZeroLeaf
    <3> QED BY <3>1, <3>2
  <2>2. CASE ~(b.page = a.page /\ b.slot = a.slot)
    <3>1. root'[b.page][b.slot] = root[b.page][b.slot] /\ leaf' = leaf
      BY <1>1, <2>2 DEF ClearLast, writeRootTag, modifyTag, RootLine, Addr
    <3> QED BY <2>2, <3>1
  <2> QED BY <2>1, <2>2
<1> QED BY <1>1 DEF stored, tagsOf

\* Every handler is a read or a write of the table of tags.
LEMMA StoreStep == Inv /\ [Next]_vars => [Store!Next]_<<tagsOf, reply>>
<1> SUFFICES ASSUME Inv, [Next]_vars PROVE [Store!Next]_<<tagsOf, reply>>
  OBVIOUS
<1>1. ASSUME UNCHANGED <<root, leaf>> PROVE tagsOf' = tagsOf
  BY <1>1 DEF tagsOf, rootTag, leafLine
<1>2. ASSUME NEW a \in Addr, handleRead(a) PROVE Store!handleRead(a)
  <2>1. reply' = Served("read", a, tagsOf[a]) /\ UNCHANGED <<root, leaf>>
    BY <1>2 DEF handleRead, ReadRootClear, ReadLeaf, tagsOf, Served
  <2> QED BY <1>1, <2>1 DEF Store!handleRead, Store!Served, Served
<1>3. ASSUME NEW a \in Addr, NEW tags \in Tags, handleWrite(a, tags)
      PROVE  Store!handleWrite(a, tags)
  <2> USE DEF Inv, TypeOK, leafLine
  <2>1. leafLine(a) \in LeafLine /\ ZeroLeaf \in LeafLine
    BY <1>3, NoTagsAssumption DEF LeafTable, LeafLine, ZeroLeaf, Addr
  <2>2. ASSUME rootTag(a), UNCHANGED root PROVE root' = [root EXCEPT ![a.page][a.slot] = TRUE]
    BY <1>3, <2>2 DEF rootTag, RootLine, Addr
  <2>3. CASE WriteFreshLine(a, tags)
    <3>1. root' = [root EXCEPT ![a.page][a.slot] = TRUE]
      BY <2>3 DEF WriteFreshLine, writeRootTag, modifyTag
    <3> QED BY <1>3, <2>1, <2>3, <3>1, StoreLine
            DEF WriteFreshLine, stored, Store!handleWrite, Store!Served, Served
  <2>4. CASE WriteLine(a, tags)
    BY <1>3, <2>1, <2>2, <2>4, StoreLine
       DEF WriteLine, stored, Store!handleWrite, Store!Served, Served
  <2>5. CASE ClearNothing(a) /\ tags = NoTags
    <3>1. stored(a, NoTags)
      BY <1>3, <2>5 DEF ClearNothing, stored, tagsOf, rootTag
    <3> QED BY <2>5, <3>1 DEF ClearNothing, stored, Store!handleWrite, Store!Served, Served
  <2>6. CASE ClearSome(a) /\ tags = NoTags
    BY <1>3, <2>1, <2>2, <2>6, StoreLine
       DEF ClearSome, cleared, stored, Store!handleWrite, Store!Served, Served
  <2>7. CASE ClearLast(a) /\ tags = NoTags
    BY <1>3, <2>7, DropLine DEF ClearLast, stored, Store!handleWrite, Store!Served, Served
  <2> QED BY <1>3, <2>3, <2>4, <2>5, <2>6, <2>7 DEF handleWrite
<1>4. CASE UNCHANGED vars
  BY <1>1, <1>4 DEF vars
<1> QED BY <1>2, <1>3, <1>4 DEF Next, Store!Next, Store!Addr, Addr

\* The tables setup leaves stand for some table of tags.
LEMMA StoreInit == Inv /\ Init => Store!Init
BY NoTagsAssumption
   DEF Init, Inv, TypeOK, Store!Init, Store!Ready, Ready, tagsOf, rootTag, leafLine,
       LeafTable, LeafLine, Addr, Store!Addr

\* ETMController answers every read as a single table of tags would.
THEOREM Implements == Spec => StoreSpec
<1>1. Init /\ Inv => Store!Init
  BY StoreInit
<1> QED BY InvInit, InvStep, <1>1, StoreStep, PTL DEF Spec, StoreSpec, Store!Spec

-----------------------------------------------------------------------------
(* Leaf traffic *)

\* A line under a set root bit holds a tag, whichever granule of it.
LEMMA RootBitMeansTag ==
    ASSUME Inv, NEW a \in Addr, rootTag(a)
    PROVE  HoldsTag(tagsOf, a.page, a.slot)
<1> USE DEF Inv, TypeOK, rootTag, leafLine
<1>1. leaf[a.page][a.slot] \in LeafLine /\ leaf[a.page][a.slot] # ZeroLeaf
  BY DEF NoIdleRootBit, LeafTable, Addr
<1>2. PICK g \in Granule : leaf[a.page][a.slot][g] # NoTags
  BY <1>1 DEF LeafLine, ZeroLeaf
<1>3. [page |-> a.page, slot |-> a.slot, granule |-> g] \in Addr
  BY DEF Addr
<1>4. tagsOf[[page |-> a.page, slot |-> a.slot, granule |-> g]] # NoTags
  BY <1>2, <1>3 DEF tagsOf
<1> QED BY <1>3, <1>4 DEF HoldsTag

\* A handler that only reads the root line leaves the leaf table alone; the
\* others access one leaf line, that of the request.
LEMMA LeafTraffic ==
    ASSUME NEW a \in Addr, NEW tags \in Tags, handleRead(a) \/ handleWrite(a, tags),
           NEW i \in 1 .. Len(traffic'), NEW p \in Page, NEW s \in Slot,
           traffic'[i].line = <<"leaf", p, s>>
    PROVE  /\ p = a.page /\ s = a.slot
           /\ rootTag(a) \/ WriteFreshLine(a, tags)
<1>1. RootId(a.page) # <<"leaf", p, s>>
  BY DEF RootId
<1>2. LeafId(a) = <<"leaf", p, s>> => p = a.page /\ s = a.slot
  BY DEF LeafId
<1> USE <1>1, <1>2 DEF Rd, Wr
<1>3. CASE ReadRootClear(a) \/ ClearNothing(a)
  BY <1>3 DEF ReadRootClear, ClearNothing
<1>4. CASE ReadLeaf(a)
  BY <1>4 DEF ReadLeaf
<1>5. CASE WriteFreshLine(a, tags)
  <2>1. p = a.page /\ s = a.slot
    BY <1>5 DEF WriteFreshLine
  <2> QED BY <1>5, <2>1
<1>6. CASE WriteLine(a, tags)
  BY <1>6 DEF WriteLine
<1>7. CASE ClearSome(a)
  BY <1>7 DEF ClearSome
<1>8. CASE ClearLast(a)
  BY <1>8 DEF ClearLast
<1> QED BY <1>3, <1>4, <1>5, <1>6, <1>7, <1>8 DEF handleRead, handleWrite

\* Writing the first tags of a line gives it a tag.
LEMMA FreshLineHoldsTag ==
    ASSUME Inv, NEW a \in Addr, NEW tags \in Tags, WriteFreshLine(a, tags)
    PROVE  HoldsTag(tagsOf', a.page, a.slot)
<1>1. ZeroLeaf \in LeafLine /\ root' = [root EXCEPT ![a.page][a.slot] = TRUE]
  BY NoTagsAssumption DEF ZeroLeaf, LeafLine, WriteFreshLine, writeRootTag, modifyTag
<1>2. stored(a, tags)
  BY <1>1, StoreLine DEF WriteFreshLine
<1>3. tagsOf'[a] # NoTags
  BY <1>2 DEF stored, tagsOf, WriteFreshLine
<1> QED BY <1>3 DEF HoldsTag

\* The leaf table sees an access only for a line with tags before or after it.
THEOREM LeafTrafficCorrect == Spec => LeafTrafficOnlyForTags
<1> DEFINE Kept ==
      \A i \in 1 .. Len(traffic'), p \in Page, s \in Slot :
          traffic'[i].line = <<"leaf", p, s>>
              => HoldsTag(tagsOf, p, s) \/ HoldsTag(tagsOf', p, s)
<1>1. Inv /\ [Next]_vars => [Kept]_vars
  <2> SUFFICES ASSUME Inv, NEW a \in Addr, NEW tags \in Tags,
                      handleRead(a) \/ handleWrite(a, tags)
               PROVE Kept
    BY NoTagsAssumption DEF Next
  <2> QED BY LeafTraffic, RootBitMeansTag, FreshLineHoldsTag
<1> QED BY InvInit, InvStep, <1>1, PTL DEF Spec, LeafTrafficOnlyForTags

-----------------------------------------------------------------------------
(* All controllers on one trace *)

\* What is inductive: the invariant of ETM, and both agreements.
SharedInv ==
    /\ Inv
    /\ baseLeaf \in LeafTable
    /\ SameTags
    /\ LiveLinesAgree

\* The leaf line of a in the flat table, and with the tags of a changed.
flatLine(a)      == baseLeaf[a.page][a.slot]
flatWith(a, tags) == modifyTags(flatLine(a), a.granule, tags)

\* A read answers from the flat table of each simulation and changes none.
LEMMA FlatRead ==
    ASSUME NEW a \in Addr, Flat!handleRead(a), SameTags
    PROVE  /\ SameTags'
           /\ UNCHANGED baseLeaf
           /\ baseReply' = Served("read", a, flatLine(a)[a.granule])
BY DEF SameTags, Flat!SameTags, Flat!handleRead,
       Flat!Base!handleRead, Flat!Base!Served, Flat!Base!tagLine,
       Flat!TagCache!handleRead, Flat!TagCache!Served, Flat!TagCache!tagLine,
       Flat!ZeroCache!handleRead, Flat!ZeroCache!Served, Flat!ZeroCache!tagLine,
       Served, flatLine

\* A write puts the changed line into the table of each simulation, whichever cache
\* it simulates.
LEMMA FlatWrite ==
    ASSUME NEW a \in Addr, NEW tags \in Tags, Flat!handleWrite(a, tags), SameTags
    PROVE  /\ SameTags'
           /\ baseLeaf' = [baseLeaf EXCEPT ![a.page][a.slot] = flatWith(a, tags)]
           /\ baseReply' = Served("write", a, tags)
BY DEF SameTags, Flat!SameTags, Flat!handleWrite,
       Flat!Base!handleWrite, Flat!Base!Served, Flat!Base!tagLine, Flat!Base!setLine,
       Flat!Base!modifyTags,
       Flat!TagCache!handleWrite, Flat!TagCache!Served, Flat!TagCache!tagLine,
       Flat!TagCache!modifyTags,
       Flat!ZeroCache!handleWrite, Flat!ZeroCache!Served, Flat!ZeroCache!tagLine,
       Flat!ZeroCache!modifyTags,
       Served, flatLine, flatWith, modifyTags

\* The lines both have, with the tags of a changed, are lines.
LEMMA FlatTypes ==
    ASSUME SharedInv, NEW a \in Addr
    PROVE  /\ flatLine(a) \in LeafLine /\ leafLine(a) \in LeafLine
           /\ flatLine(a) = IF rootTag(a) THEN leafLine(a) ELSE ZeroLeaf
           /\ \A tags \in Tags : flatWith(a, tags) \in LeafLine
           /\ modifyTags(ZeroLeaf, a.granule, NoTags) = ZeroLeaf
BY NoTagsAssumption
   DEF SharedInv, Inv, TypeOK, LiveLinesAgree, flatLine, flatWith, leafLine, rootTag,
       modifyTags, LeafTable, LeafLine, ZeroLeaf, Addr

\* A write changes the line of its address on both sides to the same, or to a zero
\* line on one side and to a clear root bit on the other, and no other line.
LEMMA WriteAgrees ==
    ASSUME SharedInv, NEW a \in Addr, NEW tags \in Tags, handleWrite(a, tags),
           baseLeaf' = [baseLeaf EXCEPT ![a.page][a.slot] = flatWith(a, tags)]
    PROVE  LiveLinesAgree'
<1> SUFFICES ASSUME NEW p \in Page, NEW s \in Slot
             PROVE  baseLeaf'[p][s] = IF root'[p][s] THEN leaf'[p][s] ELSE ZeroLeaf
  BY DEF LiveLinesAgree
<1> USE DEF SharedInv, Inv, TypeOK
<1>1. baseLeaf'[p][s] = IF p = a.page /\ s = a.slot THEN flatWith(a, tags) ELSE baseLeaf[p][s]
  BY DEF LeafTable, Addr
<1>2. ASSUME NEW line \in LeafLine, writeLeafLine(a, line)
      PROVE  leaf'[p][s] = IF p = a.page /\ s = a.slot THEN line ELSE leaf[p][s]
  BY <1>2 DEF writeLeafLine, LeafTable, Addr
<1>3. ASSUME NEW tag \in BOOLEAN, writeRootTag(a, tag)
      PROVE  root'[p][s] = IF p = a.page /\ s = a.slot THEN tag ELSE root[p][s]
  BY <1>3 DEF writeRootTag, modifyTag, RootLine, Addr
<1>4. baseLeaf[p][s] = IF root[p][s] THEN leaf[p][s] ELSE ZeroLeaf
  BY DEF LiveLinesAgree
<1>5. /\ flatLine(a) = IF rootTag(a) THEN leafLine(a) ELSE ZeroLeaf
      /\ flatWith(a, tags) \in LeafLine
      /\ modifyTags(ZeroLeaf, a.granule, NoTags) = ZeroLeaf
  BY FlatTypes
<1>6. p = a.page /\ s = a.slot => (rootTag(a) <=> root[p][s]) /\ leafLine(a) = leaf[p][s]
  BY DEF rootTag, leafLine
<1>7. CASE WriteFreshLine(a, tags)
  <2>1. root'[p][s] = IF p = a.page /\ s = a.slot THEN TRUE ELSE root[p][s]
    BY <1>3, <1>7 DEF WriteFreshLine
  <2>2. leaf'[p][s] = IF p = a.page /\ s = a.slot THEN flatWith(a, tags) ELSE leaf[p][s]
    BY <1>2, <1>5, <1>7 DEF WriteFreshLine, flatWith
  <2> QED BY <1>1, <1>4, <2>1, <2>2
<1>8. CASE WriteLine(a, tags) \/ (tags = NoTags /\ ClearSome(a))
  <2>1. rootTag(a) /\ root' = root /\ writeLeafLine(a, flatWith(a, tags))
    BY <1>5, <1>8 DEF WriteLine, ClearSome, cleared, flatWith
  <2>2. leaf'[p][s] = IF p = a.page /\ s = a.slot THEN flatWith(a, tags) ELSE leaf[p][s]
    BY <1>2, <1>5, <2>1
  <2> QED BY <1>1, <1>4, <1>6, <2>1, <2>2
<1>9. CASE tags = NoTags /\ ClearNothing(a)
  <2>1. flatWith(a, tags) = ZeroLeaf /\ UNCHANGED <<root, leaf>> /\ ~rootTag(a)
    BY <1>5, <1>9 DEF ClearNothing, flatWith
  <2> QED BY <1>1, <1>4, <1>6, <2>1
<1>10. CASE tags = NoTags /\ ClearLast(a)
  <2>1. flatWith(a, tags) = ZeroLeaf /\ UNCHANGED leaf
    BY <1>5, <1>10 DEF ClearLast, cleared, flatWith
  <2>2. root'[p][s] = IF p = a.page /\ s = a.slot THEN FALSE ELSE root[p][s]
    BY <1>3, <1>10 DEF ClearLast
  <2> QED BY <1>1, <1>4, <2>1, <2>2
<1> QED BY <1>7, <1>8, <1>9, <1>10 DEF handleWrite

\* The initial-state file fills all tables alike.
LEMMA SharedInvInit == SharedInit => SharedInv
<1> SUFFICES ASSUME SharedInit PROVE SharedInv
  OBVIOUS
<1>1. Inv
  BY InvInit DEF SharedInit
<1>2. baseLeaf \in LeafTable /\ LiveLinesAgree
  BY DEF SharedInit, Init, LiveLinesAgree, RootOf, LeafTable
<1>3. SameTags
  BY DEF SharedInit, SameTags, Flat!SameTags, Flat!Init, Flat!Base!Init,
         Flat!Ready, Flat!Base!Ready
<1> QED BY <1>1, <1>2, <1>3 DEF SharedInv

\* Every request keeps the invariant.
LEMMA SharedInvStep == SharedInv /\ [SharedNext]_allVars => SharedInv'
<1> SUFFICES ASSUME SharedInv, [SharedNext]_allVars PROVE SharedInv'
  OBVIOUS
<1>1. Inv'
  <2>1. [Next]_vars
    BY DEF SharedNext, Next, allVars
  <2> QED BY <2>1, InvStep DEF SharedInv
<1>2. ASSUME NEW a \in Addr, handleRead(a), Flat!handleRead(a) PROVE SharedInv'
  <2>1. SameTags' /\ UNCHANGED baseLeaf
    BY <1>2, FlatRead DEF SharedInv
  <2>2. UNCHANGED <<root, leaf>>
    BY <1>2 DEF handleRead, ReadRootClear, ReadLeaf
  <2> QED BY <1>1, <2>1, <2>2 DEF SharedInv, LiveLinesAgree
<1>3. ASSUME NEW a \in Addr, NEW tags \in Tags, handleWrite(a, tags), Flat!handleWrite(a, tags)
      PROVE  SharedInv'
  <2>1. SameTags' /\ baseLeaf' = [baseLeaf EXCEPT ![a.page][a.slot] = flatWith(a, tags)]
    BY <1>3, FlatWrite DEF SharedInv
  <2>2. LiveLinesAgree'
    BY <1>3, <2>1, WriteAgrees
  <2>3. flatWith(a, tags) \in LeafLine
    BY <1>3, FlatTypes
  <2>4. baseLeaf' \in LeafTable
    BY <1>3, <2>1, <2>3 DEF SharedInv, LeafTable, Addr
  <2> QED BY <1>1, <2>1, <2>2, <2>4 DEF SharedInv
<1>4. CASE UNCHANGED allVars
  BY <1>1, <1>4 DEF allVars, vars, Flat!vars, SharedInv, SameTags, Flat!SameTags, LiveLinesAgree
<1> QED BY <1>2, <1>3, <1>4 DEF SharedNext

\* Both Morello simulations hold the tags of the baseline and answer as it does.
THEOREM SameTagsAlways == SharedSpec => []SameTags
<1>1. SharedInv => SameTags
  BY DEF SharedInv
<1> QED BY SharedInvInit, SharedInvStep, <1>1, PTL DEF SharedSpec

\* The flat table is what ETM's tables stand for, line by line.
THEOREM LiveLinesAgreeAlways == SharedSpec => []LiveLinesAgree
<1>1. SharedInv => LiveLinesAgree
  BY DEF SharedInv
<1> QED BY SharedInvInit, SharedInvStep, <1>1, PTL DEF SharedSpec

\* The tags the tables of ETM stand for are those of the flat table.
LEMMA SameTagsOf == SharedInv => tagsOf = Flat!tagsOf
<1> SUFFICES ASSUME SharedInv, NEW a \in Addr
             PROVE  (IF rootTag(a) THEN leafLine(a)[a.granule] ELSE NoTags)
                    = baseLeaf[a.page][a.slot][a.granule]
  BY DEF tagsOf, Flat!tagsOf, Addr, Flat!Addr
<1> QED BY DEF SharedInv, LiveLinesAgree, rootTag, leafLine, ZeroLeaf, Addr

\* Each request is a read or a write of the table of tags the flat table is.
LEMMA BaselineStep ==
    SharedInv /\ SharedInv' /\ [SharedNext]_allVars
        => [Flat!Store!Next]_<<Flat!tagsOf, baseReply>>
<1> SUFFICES ASSUME SharedInv, SharedInv', [SharedNext]_allVars
             PROVE  [Flat!Store!Next]_<<Flat!tagsOf, baseReply>>
  OBVIOUS
<1>1. ASSUME NEW a \in Addr, Flat!handleRead(a) PROVE Flat!Store!handleRead(a)
  <2>1. UNCHANGED baseLeaf /\ baseReply' = Served("read", a, flatLine(a)[a.granule])
    BY <1>1, FlatRead DEF SharedInv
  <2>2. Flat!tagsOf[a] = flatLine(a)[a.granule] /\ UNCHANGED Flat!tagsOf
    BY <2>1 DEF Flat!tagsOf, flatLine, Flat!Addr, Addr
  <2> QED BY <2>1, <2>2 DEF Flat!Store!handleRead, Flat!Store!Served, Served
<1>2. ASSUME NEW a \in Addr, NEW tags \in Tags, Flat!handleWrite(a, tags)
      PROVE  Flat!Store!handleWrite(a, tags)
  <2>1. /\ baseLeaf' = [baseLeaf EXCEPT ![a.page][a.slot] = flatWith(a, tags)]
        /\ baseReply' = Served("write", a, tags)
    BY <1>2, FlatWrite DEF SharedInv
  <2>2. ASSUME NEW b \in Addr
        PROVE  baseLeaf'[b.page][b.slot][b.granule]
               = IF b = a THEN tags ELSE baseLeaf[b.page][b.slot][b.granule]
    <3>1. b = a <=> b.page = a.page /\ b.slot = a.slot /\ b.granule = a.granule
      BY DEF Addr
    <3>2. flatLine(a) \in LeafLine
      BY FlatTypes
    <3>3. flatWith(a, tags)[b.granule]
          = IF b.granule = a.granule THEN tags ELSE flatLine(a)[b.granule]
      BY <3>2 DEF flatWith, modifyTags, LeafLine, Addr
    <3>4. baseLeaf'[b.page][b.slot]
          = IF b.page = a.page /\ b.slot = a.slot THEN flatWith(a, tags)
            ELSE baseLeaf[b.page][b.slot]
      BY <2>1 DEF SharedInv, LeafTable, Addr
    <3> QED BY <3>1, <3>3, <3>4 DEF flatLine
  <2>3. Flat!tagsOf' = [Flat!tagsOf EXCEPT ![a] = tags]
    BY <2>2 DEF Flat!tagsOf, Flat!Addr, Addr
  <2> QED BY <2>1, <2>3 DEF Flat!Store!handleWrite, Flat!Store!Served, Served
<1>3. CASE UNCHANGED allVars
  BY <1>3 DEF allVars, Flat!vars, Flat!tagsOf
<1> QED BY <1>1, <1>2, <1>3 DEF SharedNext, Flat!Store!Next, Flat!Store!Addr, Addr

\* The flat table starts as a table of tags.
LEMMA BaselineInit == SharedInit => Flat!Store!Init
<1> SUFFICES ASSUME SharedInit PROVE Flat!Store!Init
  OBVIOUS
<1>1. baseLeaf \in LeafTable /\ baseReply = Ready
  BY SharedInvInit DEF SharedInit, SharedInv, Flat!Init, Flat!Base!Init, Flat!Base!Ready, Ready
<1> QED BY <1>1 DEF Flat!Store!Init, Flat!Store!Ready, Ready, Flat!tagsOf, Flat!Addr,
                    Flat!Store!Addr, LeafTable, LeafLine

\* BaselineController is a table of tags: what all comparisons take it for.
THEOREM BaselineImplements == SharedSpec => BaselineStoreSpec
BY SharedInvInit, SharedInvStep, BaselineInit, BaselineStep, PTL
   DEF SharedSpec, BaselineStoreSpec, Flat!StoreSpec, Flat!Store!Spec

SameReply == reply = baseReply

\* All four controllers answer each request alike, the Morello ones by SameTags.
THEOREM SameAnswers == SharedSpec => []SameReply
<1> USE DEF SameReply
<1>1. SharedInit => SameReply
  BY DEF SharedInit, Init, Flat!Init, Flat!Base!Init, Flat!Base!Ready, Ready
<1>2. SharedInv /\ SameReply /\ [SharedNext]_allVars => SameReply'
  <2> SUFFICES ASSUME SharedInv, reply = baseReply, [SharedNext]_allVars
               PROVE  reply' = baseReply'
    OBVIOUS
  <2>1. ASSUME NEW a \in Addr, handleRead(a), Flat!handleRead(a) PROVE reply' = baseReply'
    <3>1. baseReply' = Served("read", a, flatLine(a)[a.granule])
      BY <2>1, FlatRead DEF SharedInv
    <3>2. reply' = Served("read", a, IF rootTag(a) THEN leafLine(a)[a.granule] ELSE NoTags)
      BY <2>1 DEF handleRead, ReadRootClear, ReadLeaf
    <3>3. flatLine(a) = IF rootTag(a) THEN leafLine(a) ELSE ZeroLeaf
      BY <2>1, FlatTypes
    <3> QED BY <2>1, <3>1, <3>2, <3>3 DEF ZeroLeaf, Addr
  <2>2. ASSUME NEW a \in Addr, NEW tags \in Tags,
               handleWrite(a, tags), Flat!handleWrite(a, tags)
        PROVE  reply' = baseReply'
    <3>1. baseReply' = Served("write", a, tags)
      BY <2>2, FlatWrite DEF SharedInv
    <3>2. reply' = Served("write", a, tags)
      BY <2>2 DEF handleWrite, WriteFreshLine, WriteLine, ClearNothing, ClearSome, ClearLast
    <3> QED BY <3>1, <3>2
  <2>3. CASE UNCHANGED allVars
    BY <2>3 DEF allVars, vars, Flat!vars
  <2> QED BY <2>1, <2>2, <2>3 DEF SharedNext
<1> QED BY SharedInvInit, SharedInvStep, <1>1, <1>2, PTL DEF SharedSpec

\* ETM in the company of the others is ETM: the theorems of ETMProofs hold here.
THEOREM SharedIsETM == SharedSpec => Spec
<1>1. SharedInit => Init
  BY DEF SharedInit
<1>2. [SharedNext]_allVars => [Next]_vars
  BY DEF SharedNext, Next, allVars
<1> QED BY <1>1, <1>2, PTL DEF SharedSpec, Spec

-----------------------------------------------------------------------------
(* The traces *)

\* None, one or two of the elements of a sequence, in its order.
LEMMA PicksFew ==
    ASSUME NEW s, NEW t
    PROVE  /\ DOMAIN t = {} => Picks(t, s, {})
           /\ \A j \in Nat : DOMAIN t = {1} /\ t[1] = s[j] => Picks(t, s, {j})
           /\ \A j, k \in Nat : /\ j < k
                               /\ DOMAIN t = {1, 2} /\ t[1] = s[j] /\ t[2] = s[k]
                               => Picks(t, s, {j, k})
<1>1. ASSUME DOMAIN t = {} PROVE Picks(t, s, {})
  <2>1. [i \in {} |-> 1] \in [{} -> {}]
    OBVIOUS
  <2> QED BY <1>1, <2>1, Zenon DEF Picks
<1>2. ASSUME NEW j \in Nat, DOMAIN t = {1}, t[1] = s[j] PROVE Picks(t, s, {j})
  <2> DEFINE f == [i \in {1} |-> j]
  <2>1. f \in [{1} -> {j}] /\ f[1] = j /\ ~(1 < 1)
    OBVIOUS
  <2> HIDE DEF f
  <2> QED BY <1>2, <2>1, Zenon DEF Picks
<1>3. ASSUME NEW j \in Nat, NEW k \in Nat, j < k, DOMAIN t = {1, 2}, t[1] = s[j], t[2] = s[k]
      PROVE  Picks(t, s, {j, k})
  <2> DEFINE f == [i \in {1, 2} |-> IF i = 1 THEN j ELSE k]
  <2>1. f \in [{1, 2} -> {j, k}] /\ f[1] = j /\ f[2] = k
    OBVIOUS
  <2> HIDE DEF f
  <2>2. \A h, i \in {1, 2} : h < i => f[h] < f[i]
    BY <1>3, <2>1
  <2> QED BY <1>3, <2>1, <2>2, Zenon DEF Picks
<1> QED BY <1>1, <1>2, <1>3, Zenon

\* An access if one was made, then another if it was made.
oneOrTwo(t, b, x, c, y) ==
    IF b THEN IF c THEN DOMAIN t = {1, 2} /\ t[1] = x /\ t[2] = y
              ELSE DOMAIN t = {1} /\ t[1] = x
    ELSE IF c THEN DOMAIN t = {1} /\ t[1] = y
         ELSE DOMAIN t = {}

LEMMA OneOrTwo ==
    ASSUME NEW x, NEW y, NEW b \in BOOLEAN, NEW c \in BOOLEAN
    PROVE  oneOrTwo((IF b THEN <<x>> ELSE <<>>) \o (IF c THEN <<y>> ELSE <<>>), b, x, c, y)
<1> DEFINE s == IF b THEN <<x>> ELSE <<>>
           t == IF c THEN <<y>> ELSE <<>>
           u == s \o t
<1>1. s \in Seq({x, y}) /\ t \in Seq({x, y})
  <2>1. <<x>> \in Seq({x, y}) /\ <<y>> \in Seq({x, y}) /\ <<>> \in Seq({x, y})
    OBVIOUS
  <2> QED BY <2>1, Zenon
<1>2. /\ b => Len(s) = 1 /\ s[1] = x
      /\ ~b => Len(s) = 0
      /\ c => Len(t) = 1 /\ t[1] = y
      /\ ~c => Len(t) = 0
  OBVIOUS
<1> HIDE DEF s, t
<1>3. /\ Len(u) = Len(s) + Len(t)
      /\ \A i \in 1 .. Len(u) : u[i] = IF i <= Len(s) THEN s[i] ELSE t[i - Len(s)]
      /\ DOMAIN u = 1 .. Len(u)
  BY <1>1
<1> HIDE DEF u
<1>4. 1 .. 2 = {1, 2} /\ 1 .. 1 = {1} /\ 1 .. 0 = {}
  OBVIOUS
<1>5. oneOrTwo(u, b, x, c, y)
  BY <1>2, <1>3, <1>4 DEF oneOrTwo
<1> QED BY <1>5 DEF u, s, t

\* What the flat simulations trace of a request.
LEMMA SplitRead ==
    ASSUME SharedInv, NEW a \in Addr, Flat!handleRead(a)
    PROVE  /\ DOMAIN baseTraffic' = {1} /\ baseTraffic'[1] = Rd(LeafId(a))
           /\ tagTraffic'  = IF flatLine(a) # ZeroLeaf THEN <<Rd(LeafId(a))>> ELSE <<>>
           /\ zeroTraffic' = IF flatLine(a) = ZeroLeaf THEN <<Rd(LeafId(a))>> ELSE <<>>
BY DEF SharedInv, SameTags, Flat!SameTags, Flat!handleRead, flatLine, ZeroLeaf, Rd, LeafId,
       Flat!Base!handleRead, Flat!Base!Rd, Flat!Base!LeafId,
       Flat!TagCache!handleRead, Flat!TagCache!Rd, Flat!TagCache!LeafId,
       Flat!TagCache!tagLine, Flat!TagCache!traced, Flat!TagCache!responsible,
       Flat!TagCache!ZeroLeaf,
       Flat!ZeroCache!handleRead, Flat!ZeroCache!Rd, Flat!ZeroCache!LeafId,
       Flat!ZeroCache!tagLine, Flat!ZeroCache!traced, Flat!ZeroCache!responsible,
       Flat!ZeroCache!ZeroLeaf

before(a) == flatLine(a) # ZeroLeaf
after(a, tags) == flatWith(a, tags) # ZeroLeaf

LEMMA SplitWrite ==
    ASSUME SharedInv, NEW a \in Addr, NEW tags \in Tags, Flat!handleWrite(a, tags)
    PROVE  LET b == before(a)
               c == after(a, tags)
               x == Rd(LeafId(a))
               y == Wr(LeafId(a))
           IN  /\ DOMAIN baseTraffic' = {1, 2}
               /\ baseTraffic'[1] = x /\ baseTraffic'[2] = y
               /\ oneOrTwo(tagTraffic', b, x, c, y)
               /\ oneOrTwo(zeroTraffic', ~b, x, ~c, y)
<1> DEFINE x == Rd(LeafId(a))
           y == Wr(LeafId(a))
           one(b, e) == IF b THEN <<e>> ELSE <<>>
<1>1. before(a) \in BOOLEAN /\ after(a, tags) \in BOOLEAN
  BY DEF before, after
<1>2. /\ baseTraffic' = <<x, y>>
      /\ tagTraffic' = one(before(a), x) \o one(after(a, tags), y)
  BY DEF SharedInv, SameTags, Flat!SameTags, Flat!handleWrite, flatLine, flatWith, modifyTags,
         before, after, ZeroLeaf, Rd, Wr, LeafId,
         Flat!Base!handleWrite, Flat!Base!Rd, Flat!Base!Wr, Flat!Base!LeafId,
         Flat!TagCache!handleWrite, Flat!TagCache!Rd, Flat!TagCache!Wr,
         Flat!TagCache!LeafId, Flat!TagCache!tagLine, Flat!TagCache!traced,
         Flat!TagCache!responsible, Flat!TagCache!ZeroLeaf, Flat!TagCache!modifyTags
<1>3. zeroTraffic' = one(~before(a), x) \o one(~after(a, tags), y)
  BY DEF SharedInv, SameTags, Flat!SameTags, Flat!handleWrite, flatLine, flatWith, modifyTags,
         before, after, ZeroLeaf, Rd, Wr, LeafId,
         Flat!ZeroCache!handleWrite, Flat!ZeroCache!Rd, Flat!ZeroCache!Wr,
         Flat!ZeroCache!LeafId, Flat!ZeroCache!tagLine, Flat!ZeroCache!traced,
         Flat!ZeroCache!responsible, Flat!ZeroCache!ZeroLeaf, Flat!ZeroCache!modifyTags
<1>4. /\ oneOrTwo(tagTraffic', before(a), x, after(a, tags), y)
      /\ oneOrTwo(zeroTraffic', ~before(a), x, ~after(a, tags), y)
  <2>1. (~before(a)) \in BOOLEAN /\ (~after(a, tags)) \in BOOLEAN
    BY <1>1
  <2> QED BY <1>1, <1>2, <1>3, <2>1, OneOrTwo, Zenon
<1>5. DOMAIN baseTraffic' = {1, 2} /\ baseTraffic'[1] = x /\ baseTraffic'[2] = y
  BY <1>2
<1> QED BY <1>4, <1>5, Zenon

\* The flat simulations know the same lines and ask the same of sequences.
LEMMA SameOperators ==
    /\ Flat!ZeroLeaf = ZeroLeaf
    /\ \A t, s, K : Flat!Picks(t, s, K) <=> Picks(t, s, K)
BY DEF Flat!ZeroLeaf, ZeroLeaf, Flat!Picks, Picks

\* Each access of the baseline is one of Morello for the Tag Cache or one for the
\* Zero Cache.
LEMMA SplitStep ==
    ASSUME SharedInv, SharedNext
    PROVE  /\ Picks(tagTraffic', baseTraffic', Flat!withTags)
           /\ Picks(zeroTraffic', baseTraffic', DOMAIN baseTraffic' \ Flat!withTags)
<1> DEFINE places == Flat!withTags
<1>1. ASSUME NEW a \in Addr, Flat!handleRead(a)
      PROVE  /\ Picks(tagTraffic', baseTraffic', places)
             /\ Picks(zeroTraffic', baseTraffic', DOMAIN baseTraffic' \ places)
  <2>1. /\ DOMAIN baseTraffic' = {1} /\ baseTraffic'[1] = Rd(LeafId(a))
        /\ tagTraffic'  = IF flatLine(a) # ZeroLeaf THEN <<baseTraffic'[1]>> ELSE <<>>
        /\ zeroTraffic' = IF flatLine(a) = ZeroLeaf THEN <<baseTraffic'[1]>> ELSE <<>>
    BY <1>1, SplitRead
  <2>2. Flat!HasTags(baseTraffic'[1]) <=> flatLine(a) # ZeroLeaf
    BY <2>1, SameOperators DEF Flat!HasTags, Rd, LeafId, flatLine
  <2>3. places = IF flatLine(a) # ZeroLeaf THEN {1} ELSE {}
    BY <2>1, <2>2 DEF Flat!withTags
  <2> HIDE DEF places
  <2>4. DOMAIN baseTraffic' \ places = IF flatLine(a) = ZeroLeaf THEN {1} ELSE {}
    BY <2>1, <2>3
  <2>5. /\ DOMAIN <<baseTraffic'[1]>> = {1} /\ (<<baseTraffic'[1]>>)[1] = baseTraffic'[1]
        /\ DOMAIN <<>> = {} /\ 1 \in Nat
    OBVIOUS
  <2>6. Picks(<<>>, baseTraffic', {}) /\ Picks(<<baseTraffic'[1]>>, baseTraffic', {1})
    BY <2>5, PicksFew, Zenon
  <2> QED BY <2>1, <2>3, <2>4, <2>6, Zenon
<1>2. ASSUME NEW a \in Addr, NEW tags \in Tags, Flat!handleWrite(a, tags)
      PROVE  /\ Picks(tagTraffic', baseTraffic', places)
             /\ Picks(zeroTraffic', baseTraffic', DOMAIN baseTraffic' \ places)
  <2> DEFINE s == baseTraffic'
             at(b, c) == IF b THEN IF c THEN {1, 2} ELSE {1}
                         ELSE IF c THEN {2} ELSE {}
  <2>1. /\ DOMAIN s = {1, 2} /\ s[1] = Rd(LeafId(a)) /\ s[2] = Wr(LeafId(a))
        /\ oneOrTwo(tagTraffic', before(a), s[1], after(a, tags), s[2])
        /\ oneOrTwo(zeroTraffic', ~before(a), s[1], ~after(a, tags), s[2])
    BY <1>2, SplitWrite, Zenon
  <2>2. /\ baseLeaf' = [baseLeaf EXCEPT ![a.page][a.slot] = flatWith(a, tags)]
        /\ baseLeaf \in LeafTable
    BY <1>2, FlatWrite DEF SharedInv
  <2>3. baseLeaf'[a.page][a.slot] = flatWith(a, tags)
    BY <2>2 DEF LeafTable, Addr
  <2>4. (Flat!HasTags(s[1]) <=> before(a)) /\ (Flat!HasTags(s[2]) <=> after(a, tags))
    BY <2>1, <2>3, SameOperators DEF Flat!HasTags, Rd, Wr, LeafId, flatLine, before, after
  <2>5. places = at(before(a), after(a, tags))
    BY <2>1, <2>4 DEF Flat!withTags
  <2> HIDE DEF places
  <2>6. DOMAIN s \ places = at(~before(a), ~after(a, tags))
    BY <2>1, <2>5
  <2>7. ASSUME NEW t, NEW b \in BOOLEAN, NEW c \in BOOLEAN, oneOrTwo(t, b, s[1], c, s[2])
        PROVE  Picks(t, s, at(b, c))
    <3>1. 1 \in Nat /\ 2 \in Nat /\ 1 < 2
      OBVIOUS
    <3> QED BY <2>7, <3>1, PicksFew, Zenon DEF oneOrTwo
  <2>8. before(a) \in BOOLEAN /\ after(a, tags) \in BOOLEAN
    BY DEF before, after
  <2>9. (~before(a)) \in BOOLEAN /\ (~after(a, tags)) \in BOOLEAN
    BY <2>8
  <2> QED BY <2>1, <2>5, <2>6, <2>7, <2>8, <2>9, Zenon
<1> QED BY <1>1, <1>2, Zenon DEF SharedNext

\* The traces of the two Morello simulations are the two halves of the baseline's,
\* for every workload: no access is in both and none is missing.
THEOREM TracesSplit == SharedSpec => TracesSplitBaseline
<1>1. SharedInv /\ [SharedNext]_allVars
        => [/\ Flat!Picks(tagTraffic', baseTraffic', Flat!withTags)
            /\ Flat!Picks(zeroTraffic', baseTraffic', DOMAIN baseTraffic' \ Flat!withTags)
           ]_(Flat!vars)
  BY SplitStep, SameOperators, Zenon DEF allVars
<1> QED BY SharedInvInit, SharedInvStep, <1>1, PTL
        DEF SharedSpec, TracesSplitBaseline, Flat!TracesSplitBaseline
\* Accesses to leaf lines and to root lines.
LEMMA Kinds ==
    ASSUME NEW a \in Addr
    PROVE  /\ Rd(LeafId(a)).line[1] = "leaf" /\ Wr(LeafId(a)).line[1] = "leaf"
           /\ Rd(RootId(a.page)).line[1] = "root" /\ Wr(RootId(a.page)).line[1] = "root"
BY DEF Rd, Wr, LeafId, RootId

\* A root bit is set exactly if the line of the flat table has tags, before a write
\* and after it.
LEMMA BeforeAndAfter ==
    ASSUME SharedInv, NEW a \in Addr, NEW tags \in Tags
    PROVE  /\ before(a) <=> rootTag(a)
           /\ tags # NoTags => after(a, tags)
           /\ tags = NoTags /\ rootTag(a) => (after(a, tags) <=> cleared(a) # ZeroLeaf)
           /\ tags = NoTags /\ ~rootTag(a) => ~after(a, tags)
<1>1. /\ flatLine(a) = IF rootTag(a) THEN leafLine(a) ELSE ZeroLeaf
      /\ modifyTags(ZeroLeaf, a.granule, NoTags) = ZeroLeaf
      /\ flatLine(a) \in LeafLine
  BY FlatTypes
<1>2. rootTag(a) => leafLine(a) # ZeroLeaf
  BY DEF SharedInv, Inv, NoIdleRootBit, rootTag, leafLine, Addr
<1>3. flatWith(a, tags)[a.granule] = tags
  BY <1>1 DEF flatWith, modifyTags, LeafLine, Addr
<1>4. ZeroLeaf[a.granule] = NoTags
  BY DEF ZeroLeaf, Addr
<1> QED BY <1>1, <1>2, <1>3, <1>4 DEF before, after, flatWith, cleared

\* ETM asks for a leaf line when Morello asks its Tag Cache for it.
LEMMA LeafPlacesStep ==
    ASSUME SharedInv, SharedNext
    PROVE  Picks(tagTraffic', traffic', leafPlaces)
<1>1. ASSUME NEW a \in Addr, handleRead(a), Flat!handleRead(a)
      PROVE  Picks(tagTraffic', traffic', leafPlaces)
  <2>1. before(a) <=> rootTag(a)
    BY NoTagsAssumption, BeforeAndAfter
  <2>2. tagTraffic' = IF flatLine(a) # ZeroLeaf THEN <<Rd(LeafId(a))>> ELSE <<>>
    BY <1>1, SplitRead
  <2>3. CASE ReadRootClear(a)
    <3>1. traffic' = <<Rd(RootId(a.page))>> /\ ~rootTag(a)
      BY <2>3 DEF ReadRootClear
    <3>2. leafPlaces = {}
      BY <3>1, Kinds DEF leafPlaces
    <3>3. DOMAIN tagTraffic' = {}
      BY <2>1, <2>2, <3>1 DEF before
    <3> QED BY <3>2, <3>3, PicksFew
  <2>4. CASE ReadLeaf(a)
    <3>1. traffic' = <<Rd(RootId(a.page)), Rd(LeafId(a))>> /\ rootTag(a)
      BY <2>4 DEF ReadLeaf
    <3>2. leafPlaces = {2} /\ traffic'[2] = Rd(LeafId(a))
      BY <3>1, Kinds DEF leafPlaces
    <3>3. DOMAIN tagTraffic' = {1} /\ tagTraffic'[1] = Rd(LeafId(a))
      BY <2>1, <2>2, <3>1 DEF before
    <3> QED BY <3>2, <3>3, PicksFew
  <2> QED BY <1>1, <2>3, <2>4 DEF handleRead
<1>2. ASSUME NEW a \in Addr, NEW tags \in Tags, handleWrite(a, tags), Flat!handleWrite(a, tags)
      PROVE  Picks(tagTraffic', traffic', leafPlaces)
  <2> DEFINE x == Rd(LeafId(a))
             y == Wr(LeafId(a))
  <2>1. oneOrTwo(tagTraffic', before(a), x, after(a, tags), y)
    BY <1>2, SplitWrite, Zenon
  <2>2. /\ before(a) <=> rootTag(a)
        /\ tags # NoTags => after(a, tags)
        /\ tags = NoTags /\ rootTag(a) => (after(a, tags) <=> cleared(a) # ZeroLeaf)
        /\ tags = NoTags /\ ~rootTag(a) => ~after(a, tags)
    BY BeforeAndAfter, Zenon
  <2>3. CASE WriteFreshLine(a, tags)
    <3>1. traffic' = <<Rd(RootId(a.page)), Wr(RootId(a.page)), y>>
      BY <2>3 DEF WriteFreshLine
    <3>2. leafPlaces = {3} /\ traffic'[3] = y
      BY <3>1, Kinds DEF leafPlaces
    <3>3. DOMAIN tagTraffic' = {1} /\ tagTraffic'[1] = y
      BY <2>1, <2>2, <2>3, Zenon DEF WriteFreshLine, oneOrTwo
    <3> QED BY <3>2, <3>3, PicksFew
  <2>4. CASE WriteLine(a, tags) \/ (tags = NoTags /\ ClearSome(a))
    <3>1. traffic' = <<Rd(RootId(a.page)), x, y>>
      BY <2>4 DEF WriteLine, ClearSome
    <3>2. leafPlaces = {2, 3} /\ traffic'[2] = x /\ traffic'[3] = y
      BY <3>1, Kinds DEF leafPlaces
    <3>3. DOMAIN tagTraffic' = {1, 2} /\ tagTraffic'[1] = x /\ tagTraffic'[2] = y
      BY <2>1, <2>2, <2>4, Zenon DEF WriteLine, ClearSome, oneOrTwo
    <3> QED BY <3>2, <3>3, PicksFew
  <2>5. CASE tags = NoTags /\ ClearNothing(a)
    <3>1. traffic' = <<Rd(RootId(a.page))>>
      BY <2>5 DEF ClearNothing
    <3>2. leafPlaces = {}
      BY <3>1, Kinds DEF leafPlaces
    <3>3. DOMAIN tagTraffic' = {}
      BY <2>1, <2>2, <2>5, Zenon DEF ClearNothing, oneOrTwo
    <3> QED BY <3>2, <3>3, PicksFew
  <2>6. CASE tags = NoTags /\ ClearLast(a)
    <3>1. traffic' = <<Rd(RootId(a.page)), x, Rd(RootId(a.page)), Wr(RootId(a.page))>>
      BY <2>6 DEF ClearLast
    <3>2. leafPlaces = {2} /\ traffic'[2] = x
      BY <3>1, Kinds DEF leafPlaces
    <3>3. DOMAIN tagTraffic' = {1} /\ tagTraffic'[1] = x
      BY <2>1, <2>2, <2>6, Zenon DEF ClearLast, oneOrTwo
    <3> QED BY <3>2, <3>3, PicksFew
  <2> QED BY <1>2, <2>3, <2>4, <2>5, <2>6, Zenon DEF handleWrite
<1> QED BY <1>1, <1>2, Zenon DEF SharedNext

\* ETM's leaf traffic is Morello's Tag Cache traffic on every workload: all that the
\* root level costs is the root traffic.
THEOREM LeafTrafficMatches == SharedSpec => LeafTrafficIsTagCache
<1>1. SharedInv /\ [SharedNext]_allVars => [Picks(tagTraffic', traffic', leafPlaces)]_allVars
  BY LeafPlacesStep, Zenon
<1> QED BY SharedInvInit, SharedInvStep, <1>1, PTL DEF SharedSpec, LeafTrafficIsTagCache
==============================================================================
