------------------------------ MODULE DramStats ------------------------------
(***************************************************************************)
(* The statistics both Phoenix controllers keep: DRAMAllocate and DRAMFree *)
(* count what they do, setup and every request end with a sample of how    *)
(* many pages have DRAM, and reportStats reports them.  The counters and   *)
(* the samples only grow: kept are the difference of the counters and the  *)
(* sizes that were sampled, not how often, which is what the reported      *)
(* range depends on.                                                       *)
(***************************************************************************)
EXTENDS Integers, Sequences, FiniteSets

VARIABLES
    allocated,  \* the pages that have DRAM
    steps,      \* what the last handler did, allocations and frees among it
    balance,    \* allocCount - freeCount
    dramUsage   \* the keys of the map: the sizes sampled

\* setup ends with the first sample.
constructed == balance = 0 /\ dramUsage = {Cardinality(allocated)}

\* How often the handler called DRAMAllocate or DRAMFree.
calls(op) == Cardinality({i \in DOMAIN steps' : steps'[i].op = op})

\* updateDramUsage ends every handler.
counted ==
    /\ balance' = balance + calls("alloc") - calls("free")
    /\ dramUsage' = dramUsage \cup {Cardinality(allocated')}

\* reportStats: MAX BLOCKS and MIN BLOCKS.
maxBlocks == CHOOSE k \in dramUsage : \A j \in dramUsage : j <= k
minBlocks == CHOOSE k \in dramUsage : \A j \in dramUsage : k <= j

-----------------------------------------------------------------------------
(* Properties *)

\* ALLOC COUNT and FREE COUNT account for every page that got or lost DRAM since
\* setup: allocated is a set, so that a second insert or erase would be counted
\* and change nothing.
CountsExplainAllocated ==
    [][balance' - Cardinality(allocated')
         = balance - Cardinality(allocated)]_<<allocated, steps, balance, dramUsage>>
===============================================================================
