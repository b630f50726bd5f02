------------------------------- MODULE Drawing -------------------------------
(***************************************************************************)
(* One image of visualiser.py: which lines of the tag tables it shows as   *)
(* cached (direct), as known to hold no tag from a cached line of a table  *)
(* above (indirect), and as neither, given the state of ChampSim's cache.  *)
(*                                                                         *)
(* Addresses are counted in lines of 64 bytes; the tables follow each      *)
(* other: superroot, root, leaf.  The cache itself is not in this          *)
(* repository: it fills its invalid blocks first, then replaces any.       *)
(***************************************************************************)
EXTENDS Integers, FiniteSets

CONSTANTS
    Schemes, \* among "flat", "etm", "phoenix"
    FANOUT,  \* leaf lines under a root line, root lines under the superroot line
    WAYS     \* blocks of the cache

ASSUME DrawingAssumption ==
    /\ FANOUT \in Nat \ {0} /\ WAYS \in Nat \ {0}
    /\ Schemes \subseteq {"flat", "etm", "phoenix"}

VARIABLES
    scheme,
    tagged, \* the leaf lines with tags
    cache,  \* the v_address of each valid block
    image   \* for each row of the image how it is shown

vars == <<scheme, tagged, cache, image>>

RootRow == 0 .. FANOUT - 1
LeafRow == 0 .. FANOUT * FANOUT - 1
S == IF scheme = "phoenix" THEN 1 ELSE 0
R == IF scheme = "flat" THEN 0 ELSE FANOUT
L == FANOUT * FANOUT
rootRowOf(l) == l \div FANOUT

\* The bits are kept as Phoenix and ETM leave them: set where there are tags below.
rootBit(l) == l \in tagged
superrootBit(r) == \E l \in tagged : rootRowOf(l) = r

\* The addresses 2^31 and 2^64 - 2^31, both beyond every table.
TwoTo31 == -1
SignExtended == -2

\* 1 << 31 is computed in 32 bits and widened.
CSZERO == SignExtended

\* The address traced for a line: not 0, for ChampSim takes 0 as no access.
champsimInstr(line) == IF line = 0 THEN CSZERO ELSE line

shown(root, leaf) == [status |-> "drawn", root |-> root, leaf |-> leaf]
noRoot == [r \in RootRow |-> "none"]
noLeaf == [l \in LeafRow |-> "none"]
blank == [shown(noRoot, noLeaf) EXCEPT !.status = "blank"]

Init ==
    /\ scheme \in Schemes
    /\ tagged \in SUBSET LeafRow
    /\ cache = {}
    /\ image = blank

fill(line) ==
    \/ cache' = cache \cup {champsimInstr(line)} /\ Cardinality(cache') <= WAYS
    \/ /\ champsimInstr(line) \notin cache /\ Cardinality(cache) = WAYS
       /\ \E victim \in cache : cache' = (cache \ {victim}) \cup {champsimInstr(line)}

access ==
    /\ image.status = "blank"
    /\ \E line \in 0 .. S + R + L - 1 : fill(line)
    /\ UNCHANGED <<scheme, tagged, image>>

\* What the log holds: an invalid block has v_address 0.
logged == cache \cup (IF Cardinality(cache) < WAYS THEN {0} ELSE {})

\* The set the visualiser makes of it.
inCache ==
    (IF TwoTo31 \in logged THEN (logged \ {TwoTo31}) \cup {0} ELSE logged)
        \ {SignExtended}

flatLeaf == [l \in LeafRow |-> IF l \in inCache THEN "direct" ELSE "none"]

\* Faults: the leaf row is taken without the offset of the leaf table; a line is
\* shaded for a cached root line whatever its bit.
etmLeafRowAt0(base) == base
leafClearAlways(l) == TRUE

etmLeafRow(base) == base - R
leafClear(l) == ~ rootBit(l)

etmRoot == [r \in RootRow |-> IF r \in inCache THEN "direct" ELSE "none"]

\* Shaded from the root line, over what was painted.
belowRoot ==
    {l \in LeafRow : rootRowOf(l) \in inCache /\ leafClear(l) /\ R + l \notin inCache}
etmLeaf ==
    [l \in LeafRow |->
        IF l \in belowRoot THEN "indirect"
        ELSE IF \E base \in inCache : base >= R /\ etmLeafRow(base) = l THEN "direct"
        ELSE "none"]

\* What ETM's handleRead accesses for a cacheline with its tags in leaf line l.
etmReads(l) == {rootRowOf(l)} \cup (IF rootBit(l) THEN {R + l} ELSE {})

\* Rows are numbered from base although the superroot table comes first; the row
\* after the root rows is the first leaf row.
paintedRoot == {base \in inCache : S <= base /\ base < R}
paintedLeaf == {base - R : base \in {b \in inCache : b >= R}}

\* Shaded from the superroot line, over what was painted.
belowSuperroot ==
    {r \in RootRow : 0 \in inCache /\ ~ superrootBit(r) /\ S + r \notin inCache}
phoenixRoot ==
    [r \in RootRow |->
        IF r \in belowSuperroot THEN "indirect"
        ELSE IF r \in paintedRoot THEN "direct" ELSE "none"]
phoenixLeaf ==
    [l \in LeafRow |->
        IF \/ rootRowOf(l) \in belowSuperroot
           \/ phoenixRoot[rootRowOf(l)] = "direct" /\ leafClear(l) /\ R + l \notin inCache
        THEN "indirect"
        ELSE IF l \in paintedLeaf THEN "direct" ELSE "none"]

\* A row of Phoenix beyond the image is an IndexError.
draw ==
    /\ image.status = "blank"
    /\ \/ scheme = "flat" /\ image' = shown(noRoot, flatLeaf)
       \/ scheme = "etm" /\ image' = shown(etmRoot, etmLeaf)
       \/ /\ scheme = "phoenix" /\ paintedLeaf \subseteq LeafRow
          /\ image' = shown(phoenixRoot, phoenixLeaf)
       \/ /\ scheme = "phoenix" /\ ~ paintedLeaf \subseteq LeafRow
          /\ image' = [image EXCEPT !.status = "IndexError"]
    /\ UNCHANGED <<scheme, tagged, cache>>

Next == access \/ draw

Spec == Init /\ [][Next]_vars

-----------------------------------------------------------------------------
(* Properties *)

drawn == image.status = "drawn"

\* In the images of the flat schemes and of ETM, a row is shown as cached exactly
\* when ChampSim's cache holds its line, that at address 0 apart.
OwnRows ==
    scheme # "phoenix" =>
        /\ \A r \in RootRow \ {0} : scheme = "etm" =>
              (image.root[r] = "direct" <=> champsimInstr(r) \in cache)
        /\ \A l \in LeafRow : R + l # 0 =>
              (image.leaf[l] = "direct" <=> champsimInstr(R + l) \in cache)

\* The row of the line at address 0 tells instead whether some block is invalid.
FirstRow ==
    /\ scheme = "flat" => (image.leaf[0] = "direct" <=> Cardinality(cache) < WAYS)
    /\ scheme = "etm"  => (image.root[0] = "direct" <=> Cardinality(cache) < WAYS)

\* The rows of Phoenix are one too low: each stands for the line before its own, by
\* which the first leaf row stands for the last root line, and the last leaf line has
\* no row.  Shading may hide this, but shows no row as cached.
PhoenixRows ==
    scheme = "phoenix" =>
        /\ \A r \in RootRow \ {0} :
              /\ image.root[r] = "direct" => champsimInstr(S + r - 1) \in cache
              /\ image.root[r] = "none"   => champsimInstr(S + r - 1) \notin cache
        /\ \A l \in LeafRow :
              /\ image.leaf[l] = "direct" => champsimInstr(S + R + l - 1) \in cache
              /\ image.leaf[l] = "none"   => champsimInstr(S + R + l - 1) \notin cache
        /\ champsimInstr(S + R + L - 1) \notin cache

\* What is shown as cached, in the images of every scheme.
ShownIffCached == drawn => OwnRows /\ FirstRow /\ PhoenixRows

\* The colours of ETM images tell what a read costs: a leaf line has one, and its
\* root line is cached, exactly when all that a read of its tags accesses is cached.
\* A cached line that is shaded over, or a line shaded for a root line that is not
\* cached, for a set bit or for the row of another line, would give a wrong answer.
\* The leaf lines under the line at address 0 are left out as above.
ColouredIffHit ==
    drawn /\ scheme = "etm" =>
        \A l \in LeafRow : rootRowOf(l) # 0 =>
            (image.root[rootRowOf(l)] = "direct" /\ image.leaf[l] # "none"
                 <=> \A line \in etmReads(l) : champsimInstr(line) \in cache)
===============================================================================
