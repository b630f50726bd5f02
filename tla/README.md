# A TLA+ model of the CHERI tag controller simulator

The program simulates tag controllers: hardware that keeps one tag bit for every
16 bytes of memory in tables in DRAM and answers reads and writes of the four tags of
a 64-byte cacheline. A trace of last-level cache misses goes in; the accesses
each controller would make to its tag cache come out, are run through an
instrumented ChampSim, and are drawn or counted by Python scripts. This directory
models the controllers, the pipeline around them and the verifier, checks them
with TLC and proves the most important results with TLAPS.

## 1. Inventory

Paths are relative to `src/`; `include/` is `simulator/include/`.

| Component | State | Operations | Correct if |
|---|---|---|---|
| Baseline, Morello (`BaselineController.h`, `MorelloController.h`, `FlatTableController.h`) | one flat tag table | `setup`, `handleRead`, `handleWrite` | reads give the tags last written; the two Morello runs split the baseline's trace between them |
| ETM (`ETMController.h`) | leaf table, root table (a bit per leaf line) | same | same tags as a flat table; no leaf access under a clear root bit |
| Phoenix (`PhoenixController.h`) | leaf, root, superroot table (a bit per page), tag working set, allocated pages | same, `updateTWS`, `DRAMAllocate`, `DRAMFree` | same tags; allocated exactly if tags or in the working set; nothing else accessed |
| PhoenixS (`PhoenixSController.h`) | same, pages of eight bytes of a root line | same | same |
| Setup loops (`setup` of the four classes) | byte and line being gathered, the tables | one leaf line at a time | the upper tables summarise the leaf table, bit for bit where the handlers look; no uninitialised byte reaches a table |
| Statistics (`updateDramUsage`, `reportStats`) | histogram of allocated sizes, two counters | sampled once per request | explain the sizes that occurred |
| Address translation (`translateTo*`, `blockIndex`, `schema.h`) | none | pure | tables apart, bits where every function looks for them |
| Line helpers (`utils.h`) | none | `getTag`, `getTags`, `modifyTag`, `modifyTags`, `isClear`, `eightBytesClear` | read back what was written, change nothing else |
| Decoder (`Decoder.h`, `trace.h`) | position in trace, initial-state file | `readLLCMisses`, `furnish`, `getInitialTags` | entries in order, known tags kept, unknown ones guessed from the initial state |
| Simulator (`Simulator.h`, `src/main.cpp`) | chunk buffer, counters | `processTrace` | serves min(n, length) entries once, dumps at log points |
| Memory (`Memory.h`) | map of lines, trace, log | `doRead`, `doWrite`, `set`, `peek`, `dump_table` | every access traced, address 0 recognisable, dumps in table order |
| Verifier (`test/verifier.cpp`), dummy controllers | one or two controllers, one decoder | `verify`, `crossVerify` | reports a difference iff there is one |
| ChampSim changes (`ChampSim-Modified-Files`) | position in the log points | `do_phase` | one entry per point, at the point |
| Visualiser (`evaluation/visualiser.py`, `utils.py`) | files and sets | `doRun` | each image shows table and cache of its point |
| Compression study (`evaluation/compression.py`) | files | cut the table log into pieces | each piece is one table |
| Evaluation and plotting scripts | none | batch runs, charts | not modelled |

**Interaction.** `main` builds a decoder and a controller; `setup` fills the
controller's tables from the initial-state file by way of the decoder;
`processTrace` gives decoded entries to the controller one by one and asks for
dumps. The controller's `Memory` writes every access to the trace file. The
visualiser runs simulator and ChampSim one after the other and pairs their two
log files by position; the compression study cuts the simulator's log by size. The
verifier runs two controllers over one decoder.

**What is hard here.** The program is sequential: there are no interleavings, no
crashes and no messages. What is hard are long sequences of legal requests
(clearing the last tag of a line, of a page, of an evicted page; stale lines under
clear bits), two levels of one table that must agree, a bounded list with an
eviction in the middle of a request, several programs that count the same thing
(log points, accesses, pages, blocks) from different starts, and boundaries (chunks,
bit reversal, table offsets). The list is `hazards` in `PROJECT.json`.

## 2. Modules

| Module | Models | State and actions |
|---|---|---|
| `TagStore` | what every controller promises: one table of tags | `handleRead`, `handleWrite` |
| `TagTables` | addresses, lines, requests, trace entries shared by the controllers | operators only |
| `ETM` | `ETMController` | an action for each path of the two handlers; `traffic` is the sequence of accesses of the last request |
| `Baseline`, `Morello`, `MorelloSplit` | the flat controllers; both Morello types and the baseline on one workload | `handleRead`, `handleWrite` of all three in step |
| `SharedTrace` | `MorelloSplit` and `ETM` on one trace | the steps of both for the same request |
| `TagWorkingSet` | `updateTWS`, `promote`, `isInTWS` | operators on sequences |
| `DramSteps` | accesses, allocations and frees as the handlers of both Phoenix controllers make them | operators only |
| `Phoenix` | `PhoenixController` | an action for each path; `steps` is the sequence of accesses, allocations and frees of the last request |
| `PhoenixS` | `PhoenixSController` | as `Phoenix`, with `rootLineOf` saying which pages share a root line |
| `DramStats`, `PhoenixStats`, `PhoenixSStats` | `updateDramUsage`, `reportStats`, on top of either controller | extends every step with its sample |
| `Setup` | the `setup` functions of all four tables, with the uninitialised lines they start from | an action for each leaf line; counters of the loops are functions of the lines done |
| `LineBits` | `utils.h` and the bits of a cacheline | operators only |
| `TagGeometry` | address arithmetic with the real constants | operators only |
| `Decoder` | decoding of one trace entry | operators only; 16-bit words are sets of bit numbers, a shift drops what leaves them |
| `Simulator` | `processTrace` over `TagStore` | `readLLCMisses`, `serve` |
| `Verifier` | the programs that call it: `main`, and both modes of the verifier, with dummies | `readChunk`, `serveNext`, `endOfOne`, `startSecond`, `compare` |
| `Snapshots` | simulator, ChampSim phases and drawing loop, by the numbers that pair them | `handleRequest`, `runChampsim`, `warmup`, `simulation`, `draw` |
| `Compression` | the compression study on the same simulator, extends `Snapshots` | choice of log points, cutting of the log |
| `Drawing` | one image: cache content, address 0, rows | `access`, `draw` |
| `SharedTraceProofs`, `PhoenixLemmas`, `PhoenixProofs`, `PhoenixSProofs`, `SimulatorProofs`, `SnapshotsProofs`, `DrawingProofs`, `SetupProofs` | proofs (section 5) | |

`MC*` modules give the instances TLC checks; `*.cfg` the constants.

**Data.** An address is a page, a slot (leaf line in the page) and a granule (place
in the line). `SetupProofs` shows that the arithmetic of the code has this shape
(`TagGeometry`) and that the bits of a line do (`LineBits`). A byte is the set of its
set bits in `LineBits` and `Setup`, a shift drops what leaves it. The four tags of a cacheline are one
value of `Tags` with `NoTags` for none, except in `Decoder`, `Simulator` and
`Verifier`, where single tags matter and they are sets of indices. Lines and tables
are functions. One request is one action: handlers run to completion and nothing runs
beside them, and what they do on the way is kept in order in `traffic` and `steps`, so
that properties may speak of the moment within a handler.

**Setup.** The controller modules start from any leaf table and the upper tables that
summarise it. `Setup` shows that this is where `setup` ends: it runs the loops on
bytes, starting from lines of a byte `Junk`, which is no byte, where the code declares
them without a value, and `SetsUp` says that the tables, read with the bit order of the
handlers, satisfy `Init` of `Baseline`, `ETM`, `Phoenix` or `PhoenixS`. The working set
starts empty, as in the constructors.

**Faults.** Definitions under a comment "Fault(s)" are not part of any
specification. Each is a plausible mistake, put in the place of the definition
after it to see that a property notices (`mutants` in `PROJECT.json`).

## 3. Runs

All runs are exhaustive within the named bounds.

| Run | Bounds | Shows |
|---|---|---|
| `shared_trace` | 2 pages, 2 slots, 2 granules, tags none/some | types; root bits only over lines with tags; leaf traffic only for lines with tags; the four simulations hold the same tags; the two Morello runs together make the accesses of the baseline, in its order; the leaf traffic of ETM is that of Morello's Tag Cache; `ETM` and `Baseline` implement `TagStore` |
| `phoenix` | the same, working set of 1, true LRU, with the statistics (`StatsSpec`) | types; working set; superroot bits exactly over pages with tags; allocation rule; no access to a page without DRAM, at any point within a handler; allocations and frees alternate; counters explain the allocated pages; no moment of a handler has more pages with DRAM than the reported maximum; implements `TagStore` |
| `phoenixs` | the same, both pages in one root line | what still holds there: pages with tags are allocated, only wipes change other pages, no double allocation or free, no access to a page without DRAM, counters and reported maximum true |
| `setup` | bytes of 2 bits, lines of 4 bytes, 8 root lines, 64 leaf lines; files with one line set, one clear, or a first part set | the four setup loops end in an initial state of their controller; a dump has each line where its readers look |
| `simulator` | `main` and both verifier modes, chunks of 2, traces and n up to 3, 2 addresses, log points 0 and 1, stores and dummies | chunk boundaries, log points, order, decoder against setup, what a verdict depends on, termination |
| `snapshots` | 4 requests of cost 0 to 2; 1 to 3 log points, in any order, repeated or out of reach; up to 4 divisions of 4 or 5 requests | pairing of the two logs, images and log points, pieces of the compression study |
| `drawing` | 1, 2 and 4 lines of the three tables, cache of 3 blocks | rows of an image, also those of address 0 and of Phoenix; the colours of ETM tell whether a read hits |

The five runs that expect a violation are in section 4.

Two pages with two slots and two granules are enough for the table properties:
every action touches one page, one line and one granule, and whether *another*
granule, line or page is set, evicted or shared is all the guards ask. A working
set of one evicts on every second page but never reorders the list nor runs the loop
that looks for the other victim (`PhoenixController.h:89`), which takes a set of three
and four pages. That is left to the proofs of section 5, which hold for every
`twsSize` and both victims; `NoThrashAlways` is about that loop. In `setup` every carry
of the counters happens: bytes, lines, pages of two bytes and two superroot lines for
PhoenixS. Chunks of two with
traces of three give full chunks, chunks cut by n and chunks cut by the end, and a
second simulation that finds as many entries as the first, fewer, or none. Blocks of 2
and reads of 3 are the 512 and 768 of the code divided by 256. Lines 1, 2 and 4 keep
the factor between tables, 2 for 512. A cost of 0 is a request of the other half of
a Morello pair.

Symmetry is declared on pages, slots and granules only in runs without liveness
properties (the refinements are safety properties).
`CHECK_DEADLOCK FALSE` is set where the modelled program ends: `snapshots`,
`snapshots_read` and `drawing`. `Setup` and `Verifier` state their end as a step that
changes nothing.

**Fairness.** The liveness property, `Finishes`, is checked of `VSpec` in `Verifier`,
for all programs. Weak fairness of its next-state relation says that the one thread
keeps running until the program returns or its assertion fails.

**Abstract specifications.** `TagStore` is one table of tags read and written at
once. `ETM`, `Phoenix` and `Baseline` are shown to implement it under
the mapping `table <- tagsOf` (the tags their tables stand for: the leaf line under
set bits, none under a clear one; the flat table itself), checked as `StoreSpec` and
`BaselineStoreSpec`; `PhoenixS` is shown not to. `Simulator` and `Verifier` then use
`TagStore` for the controller: what they show holds of any controller that implements
it. The second relation between controllers, `LeafTrafficIsTagCache`, ties the ETM to
a Morello Tag Cache: request by request both make the same accesses to lines of tags,
so that what their images and hit rates differ in is the root table.

## 4. Findings

Each of these is a run that expects a violation; details are in `PROJECT.json`.

| Run | Where | What |
|---|---|---|
| `phoenixs_store` | `include/PhoenixSController.h:369` | the first tags of a page wipe the root bits of the other seven pages of the line |
| `simulator_known` | `include/Decoder.h:88` | the bit reversal gives 0 for every input, so no trace ever changes a tag |
| `verifier_counts` | `simulator/test/verifier.cpp:259` | the second controller starts where the first left the trace |
| `snapshots_read` | `evaluation/visualiser.py:40` | 768 blocks read of entries of 512 |
| `phoenix_read_rule` | `include/PhoenixController.h:211` | the read rule is the reverse of the documented one |

`simulator_known` hides others: as no simulation changes a tag, the verifier cannot
see `phoenixs_store`, and it compares equal controllers even though they were given
different parts of the trace. `VerdictOnInitialState` states this: the verdict is a
function of the initial-state file, the controllers and the addresses read.

Further disagreements met while modelling, without a run of their own:

* Pages of `PhoenixS` whose root bits were wiped stay allocated although they have no
  tags and leave the working set (`PhoenixSController.h:369`; against
  `implementation.tex`, equation ivb). It follows from `phoenixs_store`.
* Without true LRU the victim is the second-most-recently used page if counted
  before the new page is added, as the comment at `PhoenixController.h:89` has it;
  `implementation.tex:508` speaks of the page just before the back of the list after it.
  That is the page touched last before the new one: evicting it would break `NoThrash`,
  which is proved of the code.
* alg:pho frees a page when its tags are cleared *if* it is in the working set
  (`implementation.tex:445-448`). The code frees it if it is not
  (`PhoenixController.h:295`), as lines 410-413 of the text, equation ivb and the
  flowchart of Phoenix writes have it, and `AllocatedPages` holds of the code; its mutant
  is the rule of alg:pho.
* alg:pho allocates every page written that is not in the working set
  (`implementation.tex:440`), also one that has DRAM because of its tags. The code does
  only if the superroot bit is clear too (`PhoenixController.h:315`); otherwise
  `AllocFreeAlternate` would not hold.
* MIN BLOCKS is the smallest size between requests. Within one, between the free of
  the page evicted and the allocation of the page written, one page fewer may have
  DRAM. MAX BLOCKS misses nothing (`PeakReported`).
* Clearing the last tag of a line, ETM does not write the leaf line, only the root line (`ETMController.h:166`); the comment at
  `test-ETMController.cpp:63` expects a write of the leaf before the root. Line 61
  expects the first tags of a line to read the leaf line; the code
  takes a zero one instead (`ETMController.h:129`), as the flowchart of ETM writes does.
* A table dumped before any access, as a Morello run can dump it, has two entries in
  the cache log, as both phases of ChampSim start at the first log point
  (`champsim.cc:47`), so the images show the caches of earlier points. `LogsPaired`
  says exactly when and by how much.
* A log point given twice or out of reach stops the visualiser before the last image;
  points out of order give images named after the wrong request
  (`visualiser.py:46`). `TablesPaired` and `ImagesComplete` say what is shown.
* `compression.py:31` cuts the log by its size: a single log point missed spoils all
  pieces (`PiecesAreTables`), and with as many divisions as requests the rounding of
  floats can miss one or hit one twice, whence the "two or more" of `DivisionsReached`.
* The marker of address 0, `1 << 31` as an `int`, is sign-extended in the trace
  (`schema.h:18`); the visualiser takes only `1 << 31` for address 0 and
  drops the extended one as "extraneous" (`visualiser.py:49-55`), while the address 0
  of invalid blocks stays: the first line of the tables is shown cached exactly when
  some block is invalid (`FirstRow` of `ShownIffCached`).
* Phoenix images: rows of cached root and leaf lines are one line too low
  (`visualiser.py:224`, `:227`; `PhoenixRows` of `ShownIffCached`). The row of the last
  leaf line is outside the image, an `IndexError` if that line is cached.
* Single-controller mode of the verifier passes a null `argv[4]` to `strcmp`
  (`verifier.cpp:271`) when given four arguments.
* The visualiser reads a superroot of one line for `phoenixs` too, whose superroot
  table has eight.

## 5. Proofs

TLAPS proves the following for any (finite or infinite) sets of pages, slots,
granules and tags, any `twsSize`, chunk size, trace, list of log points, table and
cache size, under the assumptions named in the modules (`NoTags \in Tags`, `twsSize`
a positive number, lists of log points that are not empty as `nargs='+'` has it, and
so on). Every property of a passing run is stated by a theorem but for the
liveness of `Verifier`.

* **`SharedTraceProofs`**, the ETM and the flat controllers. Of the ETM: `TypeCorrect`,
  `RootBitsHonest`, `Implements`. The inductive invariant is the type invariant
  with `NoIdleRootBit`. It is needed because a write under a clear root bit does not
  read the leaf line and a write that leaves a line empty does not store it: the tables
  only mean the right tags if the bits above are right. `StoreStep` maps each path to
  a step of `TagStore` or a stuttering one; `StoreLine` and `DropLine` say what changing
  a line and clearing its bit do to `tagsOf`. Of all four controllers on one trace: both
  Morello runs hold the tags of the baseline (`SameTagsAlways`), ETM's leaf lines under
  a root bit are those of the flat table (`LiveLinesAgreeAlways`), all reads are
  answered alike (`SameAnswers`), the baseline is a plain store
  (`BaselineImplements`). The invariant is ETM's with both agreements.
  Of the accesses they trace: `TracesSplit` and `LeafTrafficMatches`. "The accesses at
  the places of K, in their order" is `Picks` in both: an increasing map onto
  K, which each path of the handlers gives outright.
* **`PhoenixLemmas`**, what the proofs of both Phoenix controllers share:
  `TouchedProperties`, what `updateTWS` does to a list without repetitions (one page
  joins, at most one other leaves, the length stays within `twsSize`, for both victim
  rules), `BackStays` (the one that leaves is not the last of the list unless `twsSize`
  is 1), and what an allocation or a free does to the set of pages with DRAM and to its
  size. `Valley`: where a handler makes its frees before its allocations, the pages with
  DRAM are first a subset of those before it, then a subset of those after it.
* **`PhoenixProofs`**: `TypeCorrect`, `WorkingSetCorrect`, `SuperCorrect`,
  `AllocationCorrect`, `Implements`, `AccessesSafe`, `Alternate`. `Inv` joins types,
  working set, root bits over lines with tags, superroot bits over root lines with
  bits, and allocation. The paths of the handlers fall in three kinds (`Cases`): they
  look, clear or store; `StoresTables` and `ClearsTables` say once what the latter two
  do to the tables, and each part of `Inv` is proved from that. `AccessesSafe` and
  `Alternate` speak of moments within a handler. They follow from `Orderly`: in one
  handler a page is allocated or freed at most once, allocated only without DRAM, freed
  only with it, and a root or leaf line is accessed after its page was allocated, or, if
  it was before the request, not after it was freed. The same discipline makes the
  counters true (`CountsExplain`): as no page is allocated twice, they move by as much
  as the set of pages with DRAM does. `PeakReportedAlways` needs the order of the steps
  too. Sizes are sampled between requests, so a page allocated before another is
  freed would be a peak no sample sees. Every path frees before it allocates and frees
  at most one page (`FreshPageOrder`, `FreeingPieces`), so by `Valley` the pages with
  DRAM at any moment are no others than those before or those after the request, and
  all but one of those before (`Moments`). `NoThrashAlways` is the allocation rule with
  `BackStays`: neither victim is the page touched last.
* **`PhoenixSProofs`**: for any way in which pages share root lines, `TypeCorrect`,
  `AllocationCovers` and `WipesOnly`. Wiping breaks one half of "a superroot bit is set
  exactly if the page has tags"; the half that is left, with the allocation rule over
  superroot bits, is inductive and is what the other two need. It is enough
  for `DramDisciplined`, `CountsExplain` and `PeakReportedAlways` too: wiped pages are
  lost to their tags but not to the bookkeeping of DRAM.
* **`SimulatorProofs`**: for every `CHUNK_SIZE`, trace and n and all programs,
  `ServesWantedAlways`, `InOrderAlways`, `LogsAtPointsAlways`. `Position` says that what
  was read is as far as the loop variable, n or the trace got; `Buffered` ties the
  buffer to its place in the trace. `NothingReversed` is the cause of finding
  `simulator_known` for every word: 16 rounds of the loop of `Decoder.h:88` leave 0. From
  it follows `VerdictAlways`: tables never change, so the verdict is a function of the
  initial-state file, the controllers and the addresses read.
* **`SnapshotsProofs`**, the programs that pair log files by position. `Dumped` says
  that tables and dumps are those of the log points reached, ascending, and is kept
  by the controller; `Logged` follows the cache log through warm-up, filling and
  simulation: `curr` is the first dump not reached, each dump before it has its entry,
  and the dumps of 0 accesses have a second one in front; `Drawn` ties
  images to tables. They give `LogsPairedAlways`, `TablesPairedAlways`,
  `ImagesCompleteAlways` and `SingleSnapshotAlways`. For the compression study,
  `PiecesAreTablesAlways` rests on there never being more tables than divisions (with
  more, the quotient of the sizes could be the size of a table by chance), and
  `DivisionsReachedAlways` on the ends of neighbouring divisions being two requests
  apart before they are rounded.
* **`DrawingProofs`**: `ShownIffCachedAlways`, `ColouredIffHitAlways`, for tables and caches of
  any size: rows of different lines do not meet, the marker of address 0 is no
  line of a table, 0 is in the cache log for invalid blocks only, and shading covers no
  line that is cached and none under a set bit.
* **`SetupProofs`**, first the setup loops, for any number of bits in a byte, bytes in a
  line and bytes in a page of PhoenixS that divides the line, and any file:
  `TypeCorrect`, `SetsUpAlways`, `DumpLayoutAlways`. `Inv` says that everything is a
  function of the leaf lines done: the byte being gathered has the bits since the last
  whole byte, the line has the last `LINE` whole bytes (`Gathered`, for root bits
  over leaf lines and superroot bits over pages alike), the pages with DRAM are the
  tagged pages so far, and memory holds the first lines of each table, as many as are
  complete. `Gather` is the step both tables make, a bit pushed and perhaps a byte put
  into the line. That the line still holds bytes of the line before, or `Junk`, is why
  the invariant is needed: `PageEmpty` says that the bytes `pageClear` looks at are
  those of the page just completed, `FullLine` that a line is stored when all its bytes
  are new, `ReadBack` that `getTag` undoes the shifting. `SetsUp` is the hinge of
  the project: the proofs about the controllers start from what it ends in.
  `HandlersFindTablesAlways` then takes the sizes of the code: with 8 bits, 64 bytes
  and pages of 8 bytes, the addresses and bits the handlers compute by shifting are
  those setup filled by counting, for every data address.
  Of the addresses alone: bits and lines are where each function looks
  for them and the tables do not overlap. Of the helpers: a tag
  written is the tag read and its 511 neighbours stay, four tags of a granule are
  the four of the word, and the empty lines and pages are those `isClear` and
  `eightBytesClear` find.

Two of these need induction over numbers (the loop of the bit reversal, the sum of
the costs). It is had without a theorem about operators: a set of numbers with 0 and
all successors is `Nat` (`NatSetInduction`), a set of numbers has a least one
(`LeastNatural`). Counting rests on the library's facts about finite sets.

Only model-checked: `Finishes`, as liveness is out of the prover's reach, and the five
properties of section 4, which are violated.

## 6. Not modelled

* gzip and file errors, among them a `gzread` that fails with -1 (`Decoder.h:77`);
  argument parsing and its messages, among them `argv[4]`.
* The average of `reportStats` and `mightAlloc` of `PhoenixSController`, which only
  grow and which nothing else reads.
* Colours of single bits in an image.
* ChampSim itself. `main.cc` and `cache.h` in `ChampSim-Modified-Files` are
  ChampSim's own but for the printing of blocks; its CPU and cache are external,
  from their use in `champsim.cc` and the configuration in `utils.py`: one instruction
  retires per iteration at most, invalid blocks are filled first.
* The compression programs; batch and plotting scripts, which run the others in a
  loop and keep no state; the unit tests and the dissertation, used as what the code is
  compared with; `trace-ref.h`, which no source file includes.

## 7. Plan

Done, in this order: store and tables, `ETM` and its proofs, the working set and
`Phoenix` and its proofs, the broken sibling `PhoenixS`, the pipeline (`Decoder`,
`Simulator`, `Verifier`, `Snapshots`, `Drawing`); then the setup loops, the line
helpers, the controllers on one trace, the statistics of both Phoenix controllers,
both modes of the verifier and the compression study; then the proofs, those of
`Setup` last. Left:

1. `Phoenix` with four pages and a working set of three, and with the other victim,
   under TLC too.
2. `Verifier` over `ETM`, `Phoenix` and `PhoenixS` in place of `TagStore`. For the first
   two the refinements say that nothing would change.
