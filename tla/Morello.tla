------------------------------- MODULE Morello -------------------------------
(***************************************************************************)
(* MorelloController.h: the flat table seen through two caches, one for    *)
(* the lines with tags and one for the lines without.  A simulation traces *)
(* the accesses of one of the two caches (cache_type) and does the rest    *)
(* silently, with peek and set.                                            *)
(***************************************************************************)
EXTENDS TagTables, Sequences

CONSTANT cache_type  \* TRUE for the Tag Cache, FALSE for the Zero Cache

VARIABLES leaf, reply, traffic  \* as in Baseline

vars == <<leaf, reply, traffic>>

Init ==
    /\ leaf \in LeafTable
    /\ reply = Ready
    /\ traffic = <<>>

tagLine(a) == leaf[a.page][a.slot]

\* Whether the cache simulated is the one that holds this line.
responsible(line) == (line # ZeroLeaf) = cache_type

\* doRead if responsible for the line, after peek.
traced(line, access) == IF responsible(line) THEN <<access>> ELSE <<>>

handleRead(a) ==
    /\ reply' = Served("read", a, tagLine(a)[a.granule])
    /\ traffic' = traced(tagLine(a), Rd(LeafId(a)))
    /\ UNCHANGED leaf

\* Fault for the mutants: nothing is stored for a line of the other cache.
handleWriteNoSet(a, tags) ==
    LET line == modifyTags(tagLine(a), a.granule, tags) IN
    /\ leaf' = IF responsible(line) THEN [leaf EXCEPT ![a.page][a.slot] = line] ELSE leaf
    /\ traffic' = traced(tagLine(a), Rd(LeafId(a))) \o traced(line, Wr(LeafId(a)))
    /\ reply' = Served("write", a, tags)

\* Fault: no_leaf_tags is not computed again for the line as modified.
handleWriteStale(a, tags) ==
    LET line == modifyTags(tagLine(a), a.granule, tags) IN
    /\ leaf' = [leaf EXCEPT ![a.page][a.slot] = line]
    /\ traffic' = traced(tagLine(a), Rd(LeafId(a))) \o traced(tagLine(a), Wr(LeafId(a)))
    /\ reply' = Served("write", a, tags)

\* The line may move from one cache to the other; doWrite and set both store it.
handleWrite(a, tags) ==
    LET line == modifyTags(tagLine(a), a.granule, tags) IN
    /\ leaf' = [leaf EXCEPT ![a.page][a.slot] = line]
    /\ traffic' = traced(tagLine(a), Rd(LeafId(a))) \o traced(line, Wr(LeafId(a)))
    /\ reply' = Served("write", a, tags)

Next ==
    \E a \in Addr :
        \/ handleRead(a)
        \/ \E tags \in Tags : handleWrite(a, tags)

Spec == Init /\ [][Next]_vars
==============================================================================
