---------------------------- MODULE DrawingProofs ----------------------------
(***************************************************************************)
(* The images of visualiser.py, for tables and caches of any size: what    *)
(* they show as cached is cached, and the colours tell what a read costs.  *)
(***************************************************************************)
EXTENDS Drawing, TLAPS

\* The picture each scheme gets of the present tables and cache.
Picture ==
    \/ scheme = "flat"    /\ image = shown(noRoot, flatLeaf)
    \/ scheme = "etm"     /\ image = shown(etmRoot, etmLeaf)
    \/ /\ scheme = "phoenix" /\ paintedLeaf \subseteq LeafRow
       /\ image = shown(phoenixRoot, phoenixLeaf)

\* Blocks hold addresses of the tables as champsimInstr gives them, and an image is
\* not painted over: it stays that of the tables and the cache, which stay too.
Inv ==
    /\ scheme \in Schemes
    /\ tagged \subseteq LeafRow
    /\ \A b \in cache : b \in Nat \ {0} \/ b = CSZERO
    /\ image.status \in {"blank", "drawn", "IndexError"}
    /\ drawn => Picture

\* The lines of the tables are whole numbers.
LEMMA Sizes == S \in Nat /\ R \in Nat /\ L \in Nat
<1>1. FANOUT * FANOUT \in Nat
  BY DrawingAssumption
<1> QED BY <1>1, DrawingAssumption DEF S, R, L

LEMMA InvInit == Init => Inv
BY DEF Init, Inv, blank, shown, drawn

\* No block is filled but with the address of a line.
LEMMA FillStep ==
    ASSUME Inv, access
    PROVE  \A b \in cache' : b \in Nat \ {0} \/ b = CSZERO
<1>1. PICK line \in 0 .. S + R + L - 1 : fill(line)
  BY DEF access
<1>2. line \in Nat
  BY Sizes
<1>3. champsimInstr(line) \in Nat \ {0} \/ champsimInstr(line) = CSZERO
  BY <1>2 DEF champsimInstr
<1>4. \A b \in cache' : b \in cache \/ b = champsimInstr(line)
  BY <1>1 DEF fill
<1> QED BY <1>3, <1>4, Zenon DEF Inv

\* A picture is a matter of the tables and the cache.
LEMMA SamePictures ==
    ASSUME UNCHANGED <<scheme, tagged, cache>>
    PROVE  UNCHANGED <<flatLeaf, etmRoot, etmLeaf, paintedLeaf, phoenixRoot, phoenixLeaf>>
<1>1. UNCHANGED <<inCache, S, R, LeafRow>>
  BY DEF inCache, logged, S, R, LeafRow
<1>2. UNCHANGED belowSuperroot
  BY <1>1 DEF belowSuperroot, superrootBit
<1>3. UNCHANGED <<paintedRoot, paintedLeaf, flatLeaf, etmRoot>>
  BY <1>1 DEF paintedRoot, paintedLeaf, flatLeaf, etmRoot
<1>4. UNCHANGED phoenixRoot
  BY <1>2, <1>3 DEF phoenixRoot
<1>5. UNCHANGED etmLeaf
  <2>1. UNCHANGED belowRoot
    BY <1>1 DEF belowRoot, leafClear, rootBit
  <2> QED BY <1>1, <2>1 DEF etmLeaf, etmLeafRow
<1>6. UNCHANGED phoenixLeaf
  BY <1>1, <1>2, <1>3, <1>4 DEF phoenixLeaf, leafClear, rootBit
<1> QED BY <1>3, <1>4, <1>5, <1>6

\* Reading the log and painting it keep the invariant.
LEMMA InvStep == Inv /\ [Next]_vars => Inv'
<1> SUFFICES ASSUME Inv, [Next]_vars PROVE Inv'
  OBVIOUS
<1>1. CASE access
  BY <1>1, FillStep DEF access, Inv, drawn, LeafRow
<1>2. CASE draw
  <2>1. UNCHANGED <<scheme, tagged, cache>>
    BY <1>2 DEF draw
  <2>2. image'.status = "IndexError" \/ (image'.status = "drawn" /\ Picture')
    <3>1. image' = [image EXCEPT !.status = "IndexError"] => image'.status = "IndexError"
      BY <1>2 DEF draw, Inv
    <3> QED BY <1>2, <2>1, <3>1, SamePictures DEF draw, Picture, shown, LeafRow
  <2> QED BY <2>1, <2>2 DEF Inv, drawn, LeafRow
<1>3. CASE UNCHANGED vars
  BY <1>3, SamePictures DEF vars, Inv, drawn, Picture, LeafRow
<1> QED BY <1>1, <1>2, <1>3 DEF Next

LEMMA Invariance == Spec => []Inv
BY InvInit, InvStep, PTL DEF Spec

\* The visualiser's set holds a line other than that at address 0 exactly if a block
\* does, although it also holds 0 for invalid blocks.
LEMMA InCache ==
    ASSUME Inv, NEW line \in Nat, line # 0
    PROVE  line \in inCache <=> champsimInstr(line) \in cache
BY DEF Inv, inCache, logged, champsimInstr, TwoTo31, SignExtended, CSZERO

\* Row l of the leaf image is painted for address R + l and for no other.
LEMMA LeafRowCached ==
    ASSUME Inv, NEW l \in Nat, R + l # 0
    PROVE  (\E base \in inCache : base >= R /\ etmLeafRow(base) = l)
               <=> champsimInstr(R + l) \in cache
<1>1. \A base \in inCache : base \in Int
  BY DEF Inv, inCache, logged, TwoTo31, SignExtended, CSZERO
<1>2. \A base \in inCache : base >= R /\ etmLeafRow(base) = l <=> base = R + l
  BY <1>1, Sizes DEF etmLeafRow
<1>3. R + l \in Nat
  BY Sizes
<1>4. R + l \in inCache <=> champsimInstr(R + l) \in cache
  BY <1>3, InCache
<1> QED BY <1>2, <1>4

\* Every leaf line is under a root line.
LEMMA RootRowOf == \A l \in LeafRow : rootRowOf(l) \in RootRow
<1> SUFFICES ASSUME NEW l \in LeafRow PROVE rootRowOf(l) \in RootRow
  OBVIOUS
<1>1. ASSUME NEW n \in Nat \ {0}, NEW m \in 0 .. n * n - 1
      PROVE  m \div n \in 0 .. n - 1
  OBVIOUS
<1> QED BY <1>1, DrawingAssumption DEF LeafRow, RootRow, rootRowOf

\* Rows of the flat schemes and of ETM stand for the line that paints them.
LEMMA OwnRowsShown == ASSUME Inv, drawn PROVE OwnRows
<1> SUFFICES ASSUME scheme # "phoenix" PROVE OwnRows
  BY DEF OwnRows
<1>1. ASSUME NEW r \in RootRow \ {0}, scheme = "etm"
      PROVE  image.root[r] = "direct" <=> champsimInstr(r) \in cache
  <2>1. image.root = etmRoot
    BY <1>1 DEF Inv, Picture, shown
  <2>2. r \in Nat /\ r # 0 /\ r \in RootRow
    BY <1>1, DrawingAssumption DEF RootRow
  <2> QED BY <2>1, <2>2, InCache DEF etmRoot
<1>2. ASSUME NEW l \in LeafRow, R + l # 0
      PROVE  image.leaf[l] = "direct" <=> champsimInstr(R + l) \in cache
  <2>1. l \in Nat
    BY Sizes DEF LeafRow, L
  <2>2. CASE scheme = "flat"
    <3>1. image.leaf = flatLeaf
      BY <2>2 DEF Inv, Picture, shown
    <3>2. R + l = l
      BY <2>1, <2>2 DEF R
    <3> QED BY <1>2, <2>1, <3>1, <3>2, InCache DEF flatLeaf
  <2>3. CASE scheme = "etm"
    <3>1. image.leaf = etmLeaf
      BY <2>3 DEF Inv, Picture, shown
    <3>2. l \in belowRoot => champsimInstr(R + l) \notin cache
      <4>1. R + l \in Nat
        BY <2>1, Sizes
      <4> QED BY <1>2, <4>1, InCache DEF belowRoot
    <3> QED BY <1>2, <2>1, <3>1, <3>2, LeafRowCached DEF etmLeaf
  <2> QED BY <2>2, <2>3 DEF Inv, Picture
<1> QED BY <1>1, <1>2 DEF OwnRows

\* Of the addresses the set holds, 0 is that of the invalid blocks.
LEMMA FirstRowShown == ASSUME Inv, drawn PROVE FirstRow
<1>1. 0 \in inCache <=> Cardinality(cache) < WAYS
  BY DEF Inv, inCache, logged, TwoTo31, SignExtended, CSZERO
<1>2. 0 \in RootRow /\ 0 \in LeafRow
  <2>1. \A n \in Nat \ {0} : 0 \in 0 .. n * n - 1
    OBVIOUS
  <2> QED BY <2>1, DrawingAssumption DEF RootRow, LeafRow
<1>3. scheme = "flat" => image.leaf = flatLeaf
  BY DEF Inv, Picture, shown
<1>4. scheme = "etm" => image.root = etmRoot
  BY DEF Inv, Picture, shown
<1> QED BY <1>1, <1>2, <1>3, <1>4 DEF FirstRow, flatLeaf, etmRoot

\* Rows of Phoenix are painted at their line's address, without the superroot line.
LEMMA PhoenixRowsShown == ASSUME Inv, drawn PROVE PhoenixRows
<1> SUFFICES ASSUME scheme = "phoenix" PROVE PhoenixRows
  BY DEF PhoenixRows
<1>1. S = 1 /\ R = FANOUT /\ FANOUT \in Nat \ {0} /\ L \in Nat /\ LeafRow = 0 .. L - 1
  BY Sizes, DrawingAssumption DEF S, R, L, LeafRow
<1>2. paintedLeaf \subseteq LeafRow /\ image.root = phoenixRoot /\ image.leaf = phoenixLeaf
  BY DEF Inv, Picture, shown
<1>3. ASSUME NEW r \in RootRow \ {0}
      PROVE  /\ image.root[r] = "direct" => champsimInstr(S + r - 1) \in cache
             /\ image.root[r] = "none"   => champsimInstr(S + r - 1) \notin cache
  <2>1. r \in Nat /\ r # 0 /\ S + r - 1 = r /\ S <= r /\ r < R /\ r \in RootRow
    BY <1>1, <1>3 DEF RootRow
  <2>2. r \in paintedRoot <=> champsimInstr(r) \in cache
    BY <2>1, InCache DEF paintedRoot
  <2>3. /\ image.root[r] = "direct" => r \in paintedRoot
        /\ image.root[r] = "none"   => r \notin paintedRoot
    BY <1>2, <2>1 DEF phoenixRoot
  <2> QED BY <2>1, <2>2, <2>3
<1>4. ASSUME NEW l \in Nat
      PROVE  l \in paintedLeaf <=> champsimInstr(S + R + l - 1) \in cache
  <2>1. R + l \in Nat /\ R + l # 0 /\ S + R + l - 1 = R + l /\ R + l >= R
    BY <1>1, <1>4
  <2>2. \A base \in inCache : base \in Int
    BY DEF Inv, inCache, logged, TwoTo31, SignExtended, CSZERO
  <2>3. l \in paintedLeaf <=> R + l \in inCache
    BY <1>1, <1>4, <2>1, <2>2 DEF paintedLeaf
  <2> QED BY <2>1, <2>3, InCache
<1>5. ASSUME NEW l \in LeafRow
      PROVE  /\ image.leaf[l] = "direct" => champsimInstr(S + R + l - 1) \in cache
             /\ image.leaf[l] = "none"   => champsimInstr(S + R + l - 1) \notin cache
  <2>1. l \in Nat
    BY <1>1, <1>5
  <2>2. /\ image.leaf[l] = "direct" => l \in paintedLeaf
        /\ image.leaf[l] = "none"   => l \notin paintedLeaf
    BY <1>2, <1>5 DEF phoenixLeaf
  <2> QED BY <1>4, <2>1, <2>2
<1>6. champsimInstr(S + R + L - 1) \notin cache
  <2>1. L \notin paintedLeaf
    BY <1>1, <1>2
  <2> QED BY <1>1, <1>4, <2>1
<1> QED BY <1>3, <1>5, <1>6 DEF PhoenixRows

\* For every size of tables and cache a row is shown as cached exactly when the cache
\* holds its line; that of address 0 when a block is invalid; those of Phoenix when it
\* holds the line before, unless shaded.
THEOREM ShownIffCachedAlways == Spec => []ShownIffCached
<1>1. Inv => ShownIffCached
  BY OwnRowsShown, FirstRowShown, PhoenixRowsShown DEF ShownIffCached
<1> QED BY Invariance, <1>1, PTL

\* A coloured row of the leaf image below a cached root line means that a read of its
\* tags makes no miss, and every row whose read makes none is coloured.
THEOREM ColouredIffHitAlways == Spec => []ColouredIffHit
<1>1. Inv => ColouredIffHit
  <2> SUFFICES ASSUME Inv, drawn, scheme = "etm", NEW l \in LeafRow, rootRowOf(l) # 0
               PROVE  image.root[rootRowOf(l)] = "direct" /\ image.leaf[l] # "none"
                        <=> \A line \in etmReads(l) : champsimInstr(line) \in cache
    BY DEF ColouredIffHit
  <2> DEFINE r == rootRowOf(l)
  <2>1. image.root = etmRoot /\ image.leaf = etmLeaf
    BY DEF Inv, Picture, shown
  <2>2. l \in Nat /\ r \in RootRow /\ r \in Nat /\ r # 0
    BY RootRowOf, Sizes DEF LeafRow, L, RootRow
  <2>3. R + l \in Nat /\ R + l # 0
    BY <2>2, Sizes, DrawingAssumption DEF R
  <2> HIDE DEF r
  <2>4. image.root[r] = "direct" <=> champsimInstr(r) \in cache
    BY <2>1, <2>2, InCache DEF etmRoot
  <2>5. image.leaf[l] # "none" <=> l \in belowRoot \/ champsimInstr(R + l) \in cache
    BY <2>1, <2>2, <2>3, LeafRowCached DEF etmLeaf
  <2>6. l \in belowRoot
          <=> champsimInstr(r) \in cache /\ ~ rootBit(l) /\ champsimInstr(R + l) \notin cache
    BY <2>2, <2>3, InCache DEF belowRoot, leafClear, r
  <2>7. (\A line \in etmReads(l) : champsimInstr(line) \in cache)
          <=> champsimInstr(r) \in cache /\ (rootBit(l) => champsimInstr(R + l) \in cache)
    BY DEF etmReads, r
  <2> QED BY <2>4, <2>5, <2>6, <2>7, Zenon DEF r
<1> QED BY Invariance, <1>1, PTL
==============================================================================
