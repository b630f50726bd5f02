------------------------------- MODULE Baseline -------------------------------
(***************************************************************************)
(* BaselineController.h over FlatTableController.h: one flat table of tag  *)
(* lines, each request reads the line of its address and a write writes it *)
(* back.  translateToTagAddr finds the line, which is the leaf line of the *)
(* address here, and the granule in it.                                    *)
(***************************************************************************)
EXTENDS TagTables, Sequences

VARIABLES
    leaf,    \* the flat table
    reply,   \* the request served last
    traffic  \* the memory accesses the last handler made, in order

vars == <<leaf, reply, traffic>>

\* FlatTableController::setup fills the table without tracing it.
Init ==
    /\ leaf \in LeafTable
    /\ reply = Ready
    /\ traffic = <<>>

tagLine(a) == leaf[a.page][a.slot]
\* Fault for the mutants: the tags are written over the whole line.
freshLine(a, line) == leaf' = [leaf EXCEPT ![a.page][a.slot] =
                                  modifyTags(ZeroLeaf, a.granule, line[a.granule])]

setLine(a, line) == leaf' = [leaf EXCEPT ![a.page][a.slot] = line]

handleRead(a) ==
    /\ reply' = Served("read", a, tagLine(a)[a.granule])
    /\ traffic' = <<Rd(LeafId(a))>>
    /\ UNCHANGED leaf

handleWrite(a, tags) ==
    /\ setLine(a, modifyTags(tagLine(a), a.granule, tags))
    /\ traffic' = <<Rd(LeafId(a)), Wr(LeafId(a))>>
    /\ reply' = Served("write", a, tags)

Next ==
    \E a \in Addr :
        \/ handleRead(a)
        \/ \E tags \in Tags : handleWrite(a, tags)

Spec == Init /\ [][Next]_vars
==============================================================================
