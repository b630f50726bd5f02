----------------------------- MODULE PhoenixStats -----------------------------
(***************************************************************************)
(* PhoenixController with its statistics.                                  *)
(***************************************************************************)
EXTENDS Phoenix

\* Pages are numbered by shifts of 64-bit addresses.
ASSUME PageAssumption == IsFiniteSet(Page)

VARIABLES balance, dramUsage  \* as in DramStats

Stats == INSTANCE DramStats

StatsInit == Init /\ Stats!constructed
StatsNext == Next /\ Stats!counted
StatsSpec == StatsInit /\ [][StatsNext]_<<vars, balance, dramUsage>>

-----------------------------------------------------------------------------
(* Properties *)

\* The counters explain which pages have DRAM: see DramStats.
CountsExplainAllocated == Stats!CountsExplainAllocated

\* How many pages have DRAM when the handler takes its i-th step.
sizeAt(i) == Cardinality({p \in Page : AllocatedAt(p, i)})

\* Sizes are sampled once for each request, behind its last step.  The samples miss
\* no peak: at no moment of a handler do more pages than MAX BLOCKS have DRAM.  They
\* may miss a dip, of one page, while the page evicted is free and the page
\* written not yet allocated.
PeakReported ==
    [][\A i \in 1 .. Len(steps') + 1 :
          sizeAt(i) \in Stats!minBlocks' - 1 .. Stats!maxBlocks']_<<vars, balance, dramUsage>>
===============================================================================
