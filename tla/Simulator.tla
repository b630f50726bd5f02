------------------------------- MODULE Simulator -------------------------------
(***************************************************************************)
(* Simulator::processTrace (Simulator.h): the trace is read a chunk at a   *)
(* time, its entries decoded and given one by one to a controller; after   *)
(* some of them the controller's table is dumped.                          *)
(*                                                                         *)
(* The controller is TagStore, what every controller should implement: for *)
(* ETM and Phoenix this is proved.                                         *)
(***************************************************************************)
EXTENDS TagTables, Decoder, Sequences, SequencesExt

CONSTANTS
    CHUNK_SIZE,  \* entries of the buffer
    Misses,      \* the entries a trace may hold: type, addr, tags and known
    Entries,     \* what an initial-state file may say of the tags of an address
    MaxTrace,    \* bound on the length of a trace
    MaxN,        \* bound on n
    LogIndices   \* the log points asked for are among these

ASSUME SimulatorAssumption ==
    /\ CHUNK_SIZE \in Nat \ {0}
    /\ MaxTrace \in Nat /\ MaxN \in Nat /\ LogIndices \subseteq Nat
    /\ \A miss \in Misses : miss.addr \in Addr

VARIABLES
    initial,    \* the initial-state file
    trace,      \* the trace file
    n,          \* how many entries are to be processed
    log_points, \* after which of them the table is dumped
    start,      \* entries read from the trace file when processTrace is called
    pos,        \* entries read from the trace file so far
    at,         \* the loop variable of processTrace
    buffer,     \* the accesses decoded and not served yet
    processed,  \* how many have been served
    log,        \* the entries after which the table was dumped, in order
    table,      \* the controller
    reply

input == <<initial, trace, n, log_points>>
vars  == <<input, start, pos, at, buffer, processed, log, table, reply>>

controller == INSTANCE TagStore

setup == [a \in Addr |-> getInitialTags(initial[a])]

Init ==
    /\ initial \in [Addr -> Entries]
    /\ trace \in UNION {[1 .. k -> Misses] : k \in 0 .. MaxTrace}
    /\ n \in 0 .. MaxN
    /\ log_points \in SUBSET LogIndices
    /\ start = 0 /\ pos = 0
    /\ at = 0
    /\ buffer = <<>>
    /\ processed = 0
    /\ log = <<>>
    /\ table = setup
    /\ reply = Ready

least(S) == CHOOSE x \in S : \A y \in S : x <= y

\* Faults for the mutants: a full chunk is asked for at the end of n, and at
\* does not advance.
chunkOfBuffer(from) == least({CHUNK_SIZE, Len(trace) - pos})
sameAt(from) == from

\* min(CHUNK_SIZE, n - at) entries, or those the file still has.
chunk(from) == least({CHUNK_SIZE, n - from, Len(trace) - pos})
nextAt(from) == from + CHUNK_SIZE

readLLCMisses ==
    /\ buffer = <<>>
    /\ at < n
    /\ buffer' = [i \in 1 .. chunk(at) |-> access(initial, trace[pos + i])]
    /\ pos' = pos + chunk(at)
    /\ at' = nextAt(at)
    /\ UNCHANGED <<input, start, processed, log, table, reply>>

\* Faults: the log point is compared after ++processed; the last access of the
\* buffer is served first.
dumpLate == IF processed + 1 \in log_points THEN Append(log, processed) ELSE log
lastOfBuffer == Last(buffer)

dump == IF processed \in log_points THEN Append(log, processed) ELSE log
firstOfBuffer == Head(buffer)

serve ==
    /\ buffer # <<>>
    /\ LET ax == firstOfBuffer
       IN  \/ ax.op = "read" /\ controller!handleRead(ax.addr)
           \/ ax.op = "write" /\ controller!handleWrite(ax.addr, ax.tags)
    /\ log' = dump
    /\ buffer' = Tail(buffer)
    /\ processed' = processed + 1
    /\ UNCHANGED <<input, start, pos, at>>

\* processTrace returns processed.
finished == buffer = <<>> /\ at >= n

Next == readLLCMisses \/ serve

Spec == Init /\ [][Next]_vars

-----------------------------------------------------------------------------
(* Properties *)

\* The entries served are the next n of the trace, or all of those left: none is
\* lost or read twice where one chunk ends, and none is read beyond n.
ServesWanted ==
    /\ processed + Len(buffer) = pos - start
    /\ finished => processed = least({n, Len(trace) - start})

\* The k-th request a controller gets is the k-th of these entries.
InOrder ==
    [][processed' = processed + 1
          => /\ reply'.op = trace[start + processed'].type
             /\ reply'.addr = trace[start + processed'].addr]_vars

\* The table is dumped once for each log point that was reached, in order, after
\* the entry with that index (counted from 0) has been served.
LogsAtPoints ==
    /\ ToSet(log) = log_points \cap (0 .. processed - 1)
    /\ \A i \in 1 .. Len(log) - 1 : log[i] < log[i + 1]

\* tags_known "is a bitmask indicating for which of the four tags we have definite
\* information" (implementation.tex:81), first tag in the lowest bit of the file
\* (Decoder.h:85 "make LSB the left-most bit"): a write stores the known tags.
KnownTagsKept ==
    [][processed' = processed + 1 /\ reply'.op = "write"
          => \A i \in TagIndex \cap trace[start + processed'].known :
                bitOf(i) \in reply'.tags <=> i \in trace[start + processed'].tags]_vars
===============================================================================
