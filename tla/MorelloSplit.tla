----------------------------- MODULE MorelloSplit -----------------------------
(***************************************************************************)
(* The three flat-table simulations of one trace: Baseline, Morello for    *)
(* the Tag Cache and Morello for the Zero Cache.  The programs run one     *)
(* after the other on the same files; here they take each request          *)
(* together, which is the same as their requests are the same.             *)
(***************************************************************************)
EXTENDS TagTables, Sequences

VARIABLES
    baseLeaf, baseReply, baseTraffic,
    tagLeaf,  tagReply,  tagTraffic,
    zeroLeaf, zeroReply, zeroTraffic

vars == <<baseLeaf, baseReply, baseTraffic, tagLeaf, tagReply, tagTraffic,
          zeroLeaf, zeroReply, zeroTraffic>>

Base == INSTANCE Baseline WITH
            leaf <- baseLeaf, reply <- baseReply, traffic <- baseTraffic
TagCache == INSTANCE Morello WITH
            leaf <- tagLeaf, reply <- tagReply, traffic <- tagTraffic,
            cache_type <- TRUE
ZeroCache == INSTANCE Morello WITH
            leaf <- zeroLeaf, reply <- zeroReply, traffic <- zeroTraffic,
            cache_type <- FALSE

\* All three are set up from the same initial-state file.
Init ==
    /\ Base!Init
    /\ tagLeaf = baseLeaf /\ tagReply = Ready /\ tagTraffic = <<>>
    /\ zeroLeaf = baseLeaf /\ zeroReply = Ready /\ zeroTraffic = <<>>

handleRead(a) ==
    Base!handleRead(a) /\ TagCache!handleRead(a) /\ ZeroCache!handleRead(a)

handleWrite(a, tags) ==
    /\ Base!handleWrite(a, tags)
    /\ TagCache!handleWrite(a, tags)
    /\ ZeroCache!handleWrite(a, tags)

Next ==
    \E a \in Addr :
        \/ handleRead(a)
        \/ \E tags \in Tags : handleWrite(a, tags)

Spec == Init /\ [][Next]_vars

-----------------------------------------------------------------------------
(* Properties *)

\* A simulation of one cache keeps the state of the lines of the other: the two
\* tables stay equal to that of Baseline, so that no line is later taken for one
\* of the wrong cache, and every read is answered the same.
SameTags ==
    /\ tagLeaf = baseLeaf /\ tagReply = baseReply
    /\ zeroLeaf = baseLeaf /\ zeroReply = baseReply

\* Whether the line of an access of Baseline holds a tag: before the request for
\* the line read, after it for the line written.
HasTags(access) ==
    LET p == access.line[2]
        s == access.line[3]
    IN  IF access.op = "read" THEN baseLeaf[p][s] # ZeroLeaf
        ELSE baseLeaf'[p][s] # ZeroLeaf

\* The accesses of Baseline to such lines, by their places in its trace.
withTags == {i \in DOMAIN baseTraffic' : HasTags(baseTraffic'[i])}

\* "both the Basic controller and the Morello Project controller always access
\* the tag cache the same number of times" (evaluation.tex:42): every access of
\* Baseline is in exactly one of the two traces, that of the Tag Cache for a line
\* with tags, "and not any to zero cachelines" (implementation.tex:212), also when
\* a write makes the line move from one cache to the other.
TracesSplitBaseline ==
    [][/\ Picks(tagTraffic', baseTraffic', withTags)
       /\ Picks(zeroTraffic', baseTraffic', DOMAIN baseTraffic' \ withTags)]_vars

\* The flat table behaves as one table of tags.
tagsOf == [a \in Addr |-> baseLeaf[a.page][a.slot][a.granule]]
Store == INSTANCE TagStore WITH table <- tagsOf, reply <- baseReply
StoreSpec == Store!Spec
==============================================================================
