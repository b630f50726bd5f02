------------------------------ MODULE DramSteps ------------------------------
(***************************************************************************)
(* What DRAMAllocate and DRAMFree do, in the steps of one handler of       *)
(* PhoenixController.h or PhoenixSController.h.                            *)
(***************************************************************************)
EXTENDS TagTables, Integers

\* DRAMAllocate and DRAMFree, as they appear among the steps.
Alloc(p) == [op |-> "alloc", line |-> <<"dram", p>>]
Free(p)  == [op |-> "free", line |-> <<"dram", p>>]

\* What a handler does, one step after the other: accesses to tag cachelines,
\* allocations and frees.
Accesses(ids) == [op: {"read", "write"}, line: ids]
Actions(ids)  == Accesses(ids) \cup {Alloc(p) : p \in Page} \cup {Free(p) : p \in Page}

\* Whether page p has DRAM when the i-th of the steps s is taken, if the pages of
\* had have it at the first: it had DRAM, or was given some, and lost it to no free
\* since.
hasDram(s, had, p, i) ==
    \/ p \in had /\ \A k \in 1 .. i - 1 : s[k] # Free(p)
    \/ \E j \in 1 .. i - 1 : s[j] = Alloc(p) /\ \A k \in j .. i - 1 : s[k] # Free(p)
==============================================================================
