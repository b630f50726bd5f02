-------------------------------- MODULE Setup --------------------------------
(***************************************************************************)
(* The setup functions of the controllers: one pass over the initial-state *)
(* file, a leaf line at a time, that fills the leaf table and gathers the  *)
(* root and superroot bits, bit by bit into bytes, bytes into lines, lines *)
(* into memory.  The geometry is a parameter: eight bits to a byte, 64     *)
(* bytes to a line, 512 root lines and pages of eight bytes of a root line *)
(* (PhoenixSController) in the code.  A byte is the set of its set bits,   *)
(* bit 0 being the lowest, as in LineBits.                                 *)
(*                                                                         *)
(* The counters of the loops are functions of the leaf lines done so far.  *)
(***************************************************************************)
EXTENDS Integers

CONSTANTS
    BYTE,         \* bits of a byte
    LINE,         \* TAG_CACHE_LINE_SIZE
    EIGHT,        \* bytes of a root line that are one page of PhoenixSController
    ROOT_LINES,   \* ROOT_TABLE_SIZE / TAG_CACHE_LINE_SIZE
    InitialFiles  \* the leaf lines the initial-state file may give

Bits   == BYTE * LINE
Byte   == SUBSET (0 .. BYTE - 1)
Line   == [0 .. LINE - 1 -> Byte]

leafLines == ROOT_LINES * Bits
Leaves    == 0 .. leafLines - 1

\* The superroot table of PhoenixController is one line: SUPERROOT_TABLE_SIZE is
\* 64.  That of PhoenixSController has a bit for each EIGHT bytes of root table.
ASSUME SetupAssumption ==
    /\ BYTE \in Nat \ {0} /\ LINE \in Nat \ {0} /\ EIGHT \in Nat \ {0}
    /\ LINE % EIGHT = 0
    /\ ROOT_LINES = Bits
    /\ InitialFiles \subseteq [Leaves -> Line]

VARIABLES
    scheme,                        \* the controller that is set up
    initial,                       \* the initial-state file, as leaf lines
    k,                             \* leaf lines done
    root_byte, superroot_byte,     \* the byte that is being gathered
    root_line, superroot_line,     \* the line that is, with what it held before
    allocated,                     \* pages with DRAM
    memory                         \* Memory::data

vars == <<scheme, initial, k, root_byte, superroot_byte, root_line, superroot_line,
          allocated, memory>>

\* A byte of an uninitialised Cacheline: set apart by a bit no byte has.
Junk == {BYTE}

Init ==
    /\ scheme \in {"flat", "etm", "phoenix", "phoenixs"}
    /\ initial \in InitialFiles
    /\ k = 0
    /\ root_byte = {} /\ superroot_byte = {}
    /\ root_line = [i \in 0 .. LINE - 1 |-> Junk] /\ superroot_line = root_line
    /\ allocated = {}
    /\ memory = <<>>

isClear(line) == \A i \in 0 .. LINE - 1 : line[i] = {}
eightBytesClear(line, which) ==
    \A i \in which * EIGHT .. which * EIGHT + EIGHT - 1 : line[i] = {}

\* byte <<= 1; byte |= clear ? 0 : 1 on a uint8_t.
pushed(byte, clear) == {b \in 0 .. BYTE - 1 : IF b = 0 THEN ~clear ELSE b - 1 \in byte}

-----------------------------------------------------------------------------
(* Where the tables are *)

hasSuper  == scheme \in {"phoenix", "phoenixs"}

\* Leaf lines for each superroot bit, which are those of a page.
pageLeaves == IF scheme = "phoenixs" THEN EIGHT * BYTE ELSE Bits
pages      == leafLines \div pageLeaves

superrootSize == IF hasSuper THEN pages \div BYTE ELSE 0
rootSize      == IF scheme = "flat" THEN 0 ELSE ROOT_LINES * LINE

-----------------------------------------------------------------------------
(* One round of the innermost loop, and the ends of the loops around it *)

completes(count) == (k + 1) % count = 0

rootByte == pushed(root_byte, isClear(initial[k]))
rootLine == IF completes(BYTE)
            THEN [root_line EXCEPT ![(k \div BYTE) % LINE] = rootByte] ELSE root_line

page == k \div pageLeaves

\* Fault: the whole root line is tested, with what is in it of the line before.
wholeLineClear == isClear(rootLine)

\* isClear of the root line or eightBytesClear of the bytes of the page.
pageClear ==
    IF scheme = "phoenixs" THEN eightBytesClear(rootLine, page % (LINE \div EIGHT))
    ELSE isClear(rootLine)

superrootByte == IF completes(pageLeaves) THEN pushed(superroot_byte, pageClear)
                 ELSE superroot_byte
superrootLine ==
    IF completes(pageLeaves * BYTE)
    THEN [superroot_line EXCEPT ![(page \div BYTE) % LINE] = superrootByte]
    ELSE superroot_line

\* Memory::set.
set(mem, at, line) ==
    [addr \in DOMAIN mem \cup {at} |-> IF addr = at THEN line ELSE mem[addr]]

\* Fault: the superroot table is forgotten in front of the leaf table.
leafSetNoSuperroot(mem) == set(mem, LINE * k + rootSize, initial[k])

leafSet(mem) == set(mem, LINE * k + rootSize + superrootSize, initial[k])

rootSet(mem) ==
    IF rootSize > 0 /\ completes(Bits)
    THEN set(mem, LINE * (k \div Bits) + superrootSize, rootLine) ELSE mem

\* Fault: the line is stored before its last byte is put into it.
superrootSetEarly(mem) ==
    IF hasSuper /\ completes(pageLeaves * Bits)
    THEN set(mem, LINE * (page \div Bits), superroot_line) ELSE mem

superrootSet(mem) ==
    IF hasSuper /\ completes(pageLeaves * Bits)
    THEN set(mem, LINE * (page \div Bits), superrootLine) ELSE mem

setLeaf ==
    /\ k \in Leaves
    /\ k' = k + 1
    /\ root_byte' = IF completes(BYTE) THEN {} ELSE rootByte
    /\ root_line' = rootLine
    /\ superroot_byte' = IF completes(pageLeaves * BYTE) THEN {} ELSE superrootByte
    /\ superroot_line' = superrootLine
    /\ allocated' = IF hasSuper /\ completes(pageLeaves) /\ ~pageClear
                    THEN allocated \cup {page} ELSE allocated
    /\ memory' = superrootSet(rootSet(leafSet(memory)))
    /\ UNCHANGED <<scheme, initial>>

done == k \notin Leaves

\* setup returns.
return == done /\ UNCHANGED vars

Next == setLeaf \/ return

Spec == Init /\ [][Next]_vars

-----------------------------------------------------------------------------
(* The tables as the handlers find them *)

\* getTag: the bits of a byte are counted from its most significant one.
getTag(line, i) == BYTE - 1 - (i % BYTE) \in line[i \div BYTE]

lineNo(i) == memory[LINE * i]
leafNo(i) == memory[LINE * i + rootSize + superrootSize]
rootBit(i) == getTag(memory[LINE * (i \div Bits) + superrootSize], i % Bits)
superBit(i) == getTag(lineNo(i \div Bits), i % Bits)

\* The pages and slots of the other modules, for the given leaf lines of a page.
PageOf(size) == 0 .. leafLines \div size - 1
leafTable(size) == [p \in PageOf(size) |-> [s \in 0 .. size - 1 |-> leafNo(p * size + s)]]
rootTable(size) == [p \in PageOf(size) |-> [s \in 0 .. size - 1 |-> rootBit(p * size + s)]]
superTable(size) == [p \in PageOf(size) |-> superBit(p)]

ready == [op |-> "setup"]
rootLineOfPage(p) == p \div (LINE \div EIGHT)

FlatTable == INSTANCE Baseline WITH
    Page <- PageOf(Bits), Slot <- 0 .. Bits - 1, Granule <- 0 .. LINE - 1,
    Tags <- Byte, NoTags <- {},
    leaf <- leafTable(Bits), reply <- ready, traffic <- <<>>

Etm == INSTANCE ETM WITH
    Page <- PageOf(Bits), Slot <- 0 .. Bits - 1, Granule <- 0 .. LINE - 1,
    Tags <- Byte, NoTags <- {},
    root <- rootTable(Bits), leaf <- leafTable(Bits), reply <- ready, traffic <- <<>>

PhoenixBig == INSTANCE Phoenix WITH
    Page <- PageOf(Bits), Slot <- 0 .. Bits - 1, Granule <- 0 .. LINE - 1,
    Tags <- Byte, NoTags <- {}, twsSize <- 1, useTrueLRU <- TRUE, tws <- <<>>,
    super <- superTable(Bits), root <- rootTable(Bits), leaf <- leafTable(Bits),
    reply <- ready, steps <- <<>>

small == EIGHT * BYTE
PhoenixSmall == INSTANCE PhoenixS WITH
    Page <- PageOf(small), Slot <- 0 .. small - 1, Granule <- 0 .. LINE - 1,
    Tags <- Byte, NoTags <- {}, twsSize <- 1, useTrueLRU <- TRUE, tws <- <<>>,
    super <- superTable(small), root <- rootTable(small), leaf <- leafTable(small),
    RootLines <- 0 .. ROOT_LINES - 1, rootLineOf <- rootLineOfPage,
    reply <- ready, steps <- <<>>

-----------------------------------------------------------------------------
(* Properties *)

\* Memory never holds a byte of a line that was not written since the line was
\* declared: root_line and superroot_line start uninitialised.
TypeOK ==
    /\ k \in 0 .. leafLines
    /\ root_byte \in Byte /\ superroot_byte \in Byte
    /\ allocated \subseteq 0 .. pages - 1
    /\ \A addr \in DOMAIN memory : memory[addr] \in Line

\* What setup leaves in memory, read the way the handlers read it, is an initial
\* state of the controller: each leaf line is that of the file, its root bit and
\* the superroot bit of its page say whether it is clear, and the pages with DRAM
\* are those with tags.
SetsUp ==
    done => /\ scheme = "flat" => FlatTable!Init
            /\ scheme = "etm" => Etm!Init
            /\ scheme = "phoenix" => PhoenixBig!Init
            /\ scheme = "phoenixs" => PhoenixSmall!Init
            /\ \A i \in Leaves : leafNo(i) = initial[i]

\* dump_table writes the lines of the map in the order of their addresses: there
\* is one at every address from 0 on, so that the superroot, root and leaf lines
\* are where the readers of the log look, and none is given twice.
DumpLayout ==
    done => DOMAIN memory =
                {LINE * i : i \in 0 .. superrootSize \div LINE + rootSize \div LINE
                                        + leafLines - 1}
==============================================================================
