------------------------------ MODULE Snapshots ------------------------------
(***************************************************************************)
(* The pipeline of visualiser.py: the controller simulator dumps its table *)
(* at the log points and prints how many accesses it has traced so far     *)
(* (Memory::dump_table), ChampSim runs the trace and logs its cache when   *)
(* as many have retired (champsim.cc), and the k-th image is drawn from    *)
(* the k-th table and from the next N blocks of the cache log.             *)
(*                                                                         *)
(* A table is known by the request after which it was dumped, a block of   *)
(* the cache log by the number of accesses retired when it was written.    *)
(* ChampSim's CPU is not in this repository: it retires at most one        *)
(* instruction an iteration (retire_width of utils.py).                    *)
(***************************************************************************)
EXTENDS Integers, Sequences, FiniteSets, SequencesExt

CONSTANTS
    Requests, \* LLC misses of the workload that are processed
    Costs,    \* accesses to the tag tables that one of them may cost
    Points,   \* lists of log points the user may give, of one at least
    Blocks,   \* blocks of the cache ChampSim is configured with
    N         \* blocks visualiser.py reads for an image

ASSUME SnapshotsAssumption ==
    /\ Requests \in Nat \ {0} /\ Costs \subseteq Nat /\ Costs # {0}
    /\ Blocks \in Nat \ {0} /\ N \in Nat \ {0}
    /\ Points \subseteq Seq(Nat) \ {<<>>}

VARIABLES
    logpoints, \* the log points, as given
    cost,      \* what each request costs
    processed, \* requests served by the controller
    accesses,  \* accesses traced by the controller
    tables,    \* out/controller_log
    dumps,     \* the "DUMP: " lines, which become ChampSim's --logpoints
    phase,     \* what runs: controller, warmup, filling, simulation, drawing, stopped
    retired,   \* num_retired of ChampSim's CPU
    curr,      \* the next entry of dumps that do_phase waits for
    cache_log, \* out/champsim_log
    images     \* the images saved

vars == <<logpoints, cost, processed, accesses, tables, dumps, phase, retired,
          curr, cache_log, images>>

Start ==
    /\ cost \in [1 .. Requests -> Costs]
    /\ \E i \in DOMAIN cost : cost[i] > 0 \* ChampSim cannot run an empty trace
    /\ processed = 0 /\ accesses = 0
    /\ tables = <<>> /\ dumps = <<>>
    /\ phase = "controller"
    /\ retired = 0 /\ curr = 1
    /\ cache_log = <<>>
    /\ images = <<>>

Init == logpoints \in Points /\ Start

\* Faults for the mutants: the log point is compared after ++processed; an entry
\* is logged only after one access more.
dumpedLate(i) == i + 1 \in ToSet(logpoints)
reachedLate(point, r) == r > point

dumped(i) == i \in ToSet(logpoints)
reached(point, r) == r >= point

handleRequest ==
    /\ phase = "controller"
    /\ processed < Requests
    /\ processed' = processed + 1
    /\ accesses' = accesses + cost[processed + 1]
    /\ IF dumped(processed)
       THEN tables' = Append(tables, processed) /\ dumps' = Append(dumps, accesses')
       ELSE UNCHANGED <<tables, dumps>>
    /\ UNCHANGED <<logpoints, cost, phase, retired, curr, cache_log, images>>

\* --logpoints needs a value: without one ChampSim stops at once, and runChampsim
\* finds no output of it.
runChampsim ==
    /\ phase = "controller"
    /\ processed = Requests
    /\ phase' = IF dumps = <<>> THEN "stopped" ELSE "warmup"
    /\ UNCHANGED <<logpoints, cost, processed, accesses, tables, dumps, retired,
                   curr, cache_log, images>>

\* An iteration of do_phase after which r instructions have retired: the entries
\* from curr on that have been reached are logged, all blocks each.
logReached(r) ==
    LET k == Cardinality({j \in curr .. Len(dumps) : reached(dumps[j], r)})
    IN  /\ retired' = r
        /\ cache_log' = cache_log \o [i \in 1 .. k * Blocks |-> r]
        /\ curr' = curr + k
        /\ UNCHANGED <<logpoints, cost, processed, accesses, tables, dumps, images>>

\* The warm-up has length 0: it ends with its first iteration, before which no
\* instruction was read from the trace.
warmup ==
    /\ phase = "warmup"
    /\ logReached(0)
    /\ phase' = "filling"

\* Fault: curr is kept from the warm-up.
keptCurr == curr

firstPoint == 1

\* The simulation starts again at the first log point.  What the warm-up has read
\* from the trace enters the pipeline; nothing retires yet.
filling ==
    /\ phase = "filling"
    /\ LET again == Cardinality({j \in firstPoint .. Len(dumps) : reached(dumps[j], 0)})
       IN  /\ cache_log' = cache_log \o [i \in 1 .. again * Blocks |-> 0]
           /\ curr' = firstPoint + again
    /\ phase' = "simulation"
    /\ UNCHANGED <<logpoints, cost, processed, accesses, tables, dumps, retired, images>>

simulation ==
    /\ phase = "simulation"
    /\ \E r \in 0 .. 1 : logReached(retired + r)
    /\ phase' = IF retired' >= accesses THEN "drawing" ELSE phase

\* read(N) of the cache log, which may be cut short by its end.
blocksRead(k) ==
    {cache_log[i] : i \in {j \in DOMAIN cache_log : (k - 1) * N < j /\ j <= k * N}}

\* Without a table left, dram_raw[b] is an IndexError.
draw ==
    /\ phase = "drawing"
    /\ Len(images) < Len(logpoints)
    /\ LET k == Len(images) + 1
       IN  IF k <= Len(tables)
           THEN /\ images' = Append(images, [p |-> logpoints[k], table |-> tables[k],
                                             cache |-> blocksRead(k)])
                /\ UNCHANGED phase
           ELSE phase' = "stopped" /\ UNCHANGED images
    /\ UNCHANGED <<logpoints, cost, processed, accesses, tables, dumps, retired,
                   curr, cache_log>>

Next == handleRequest \/ runChampsim \/ warmup \/ filling \/ simulation \/ draw

Spec == Init /\ [][Next]_vars

-----------------------------------------------------------------------------
(* Properties *)

\* What the first i requests cost together.
totalCost[i \in 0 .. Requests] == IF i = 0 THEN 0 ELSE totalCost[i - 1] + cost[i]

\* Accesses traced once request p (counted from 0) is served.
accessesAfter(p) == totalCost[p + 1]

\* Tables dumped before any access was traced, as a Morello run can dump them
\* when the first requests are for lines of the other cache.
beforeAccesses == Cardinality({k \in DOMAIN tables : accessesAfter(tables[k]) = 0})

\* When ChampSim ends it has logged its cache once per table dumped, the k-th time
\* right after the accesses up to the k-th dump: not one entry is lost because the
\* run ends with the last access.  Only the tables dumped before any access have a
\* second entry, in front of all others, as both phases start with the first log
\* point and log it at once.
LogsPaired ==
    phase = "drawing" =>
        /\ Len(cache_log) = (beforeAccesses + Len(tables)) * Blocks
        /\ \A k \in DOMAIN tables, b \in 1 .. Blocks :
              cache_log[(beforeAccesses + k - 1) * Blocks + b] = accessesAfter(tables[k])

\* The log points that are reached, and those of them before request i.
pointsReached    == ToSet(logpoints) \cap (0 .. Requests - 1)
reachedBefore(i) == {p \in pointsReached : p < i}

\* The k-th image shows the table dumped after the k-th smallest log point, however
\* the list was given.  For a list in ascending order that is the request the image
\* is named after, "the indices of the instructions after which a snapshot should
\* be made" (implementation.tex:295).
TablesPaired ==
    \A k \in DOMAIN images :
        /\ images[k].table \in pointsReached
        /\ Cardinality(reachedBefore(images[k].table)) = k - 1

\* An image is drawn for every table.  Drawing stops before the list of log points
\* ends exactly if a point is given twice or not reached, which leaves fewer tables.
ImagesComplete ==
    /\ phase = "stopped" => /\ Len(images) = Cardinality(pointsReached)
                            /\ Cardinality(pointsReached) < Len(logpoints)
    /\ Len(images) = Len(logpoints) => Cardinality(pointsReached) = Len(logpoints)

\* With a single log point the image also shows the cache of that moment.
SingleSnapshot ==
    Len(logpoints) = 1 =>
        \A k \in DOMAIN images : images[k].cache = {accessesAfter(images[k].p)}

\* With any number of them it should: "The images depict the state of the tag
\* table and the tag cache at that point of execution." (preparation.tex:207)
SnapshotsPaired ==
    \A k \in DOMAIN images : images[k].cache = {accessesAfter(images[k].p)}
===============================================================================
