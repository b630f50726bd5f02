----------------------------- MODULE SharedTrace -----------------------------
(***************************************************************************)
(* ETMController beside the flat-table controllers on one trace and one    *)
(* initial-state file, each request given to all: the four simulations     *)
(* whose access traces the evaluation compares.                            *)
(***************************************************************************)
EXTENDS ETM

VARIABLES
    baseLeaf, baseReply, baseTraffic,
    tagLeaf,  tagReply,  tagTraffic,
    zeroLeaf, zeroReply, zeroTraffic

Flat == INSTANCE MorelloSplit

allVars == <<vars, Flat!vars>>

SharedInit ==
    /\ Init
    /\ baseLeaf = leaf
    /\ Flat!Init

SharedNext ==
    \E a \in Addr :
        \/ handleRead(a) /\ Flat!handleRead(a)
        \/ \E tags \in Tags : handleWrite(a, tags) /\ Flat!handleWrite(a, tags)

SharedSpec == SharedInit /\ [][SharedNext]_allVars

-----------------------------------------------------------------------------
(* Properties *)

\* Of MorelloSplit: the tables of the three flat simulations stay equal, the two
\* Morello traces are the two halves of the baseline's, and the baseline is a
\* table of tags.
SameTags            == Flat!SameTags
TracesSplitBaseline == Flat!TracesSplitBaseline
BaselineStoreSpec   == Flat!StoreSpec

\* The leaf table of ETM, stale lines left out, is the baseline's flat table after
\* any sequence of requests: what the visualiser draws of the leaf lines (those
\* with a root bit) is what it would draw of the flat table.
LiveLinesAgree ==
    \A p \in Page, s \in Slot :
        baseLeaf[p][s] = IF root[p][s] THEN leaf[p][s] ELSE ZeroLeaf

\* The accesses of ETM to the leaf table, by their places in its trace.
leafPlaces == {i \in DOMAIN traffic' : traffic'[i].line[1] = "leaf"}

\* What ETM asks of the leaf table is, access by access, what Morello asks of its
\* Tag Cache: a line is read if it held a tag before the request and written if
\* it holds one after it, although ETM learns that from the root bit and from
\* isClear on its own lines.  The root traffic is all that ETM costs besides.
LeafTrafficIsTagCache ==
    [][Picks(tagTraffic', traffic', leafPlaces)]_allVars
==============================================================================
