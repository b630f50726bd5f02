----------------------------- MODULE Compression -----------------------------
(***************************************************************************)
(* compression.py: the controller simulator is asked for a table at the    *)
(* end of each of divisions equal parts of n requests, and the log of all  *)
(* tables is cut into as many pieces, which are compressed one by one.     *)
(* The same simulator serves visualiser.py, which is the module Snapshots. *)
(***************************************************************************)
EXTENDS Snapshots

CONSTANTS
    TableSize,    \* bytes of a table in the log
    MaxN,         \* bound on n
    MaxDivisions  \* bound on divisions

ASSUME CompressionAssumption ==
    TableSize \in Nat \ {0} /\ MaxN \in Nat /\ MaxDivisions \in Nat

VARIABLES
    script,     \* "visualiser" or "compression"
    n,          \* the requests asked for; the trace may hold fewer
    divisions,  \* into how many pieces the log is cut
    pieces      \* the files out/controller_log_<i>

study   == <<script, n, divisions, pieces>>
allVars == <<vars, study>>

\* Fault: the index of the request after the part is taken.
endsAfter(i) == {(i * n) \div divisions}

\* int(i/divisions * n) - 1.  The product of floats may be just below a whole number
\* and is then cut to the number before, except for i = divisions, where it is n.
endsOf(i) ==
    LET exact == (i * n) \div divisions - 1
    IN  IF (i * n) % divisions = 0 /\ i # divisions THEN {exact, exact - 1} ELSE {exact}

CompressionInit ==
    /\ script = "compression"
    /\ n \in Requests .. MaxN
    /\ divisions \in 1 .. MaxDivisions
    /\ logpoints \in {s \in [1 .. divisions -> -2 .. MaxN] :
                          \A i \in 1 .. divisions : s[i] \in endsOf(i)}
    /\ pieces = <<>>
    /\ Start

VisualiserInit ==
    /\ script = "visualiser"
    /\ n = Requests /\ divisions = 1 /\ pieces = <<>>
    /\ Init

table(request) == [byte \in 1 .. TableSize |-> <<request, byte>>]

\* out/controller_log
controllerLog ==
    [byte \in 1 .. Len(tables) * TableSize |->
        table(tables[((byte - 1) \div TableSize) + 1])[((byte - 1) % TableSize) + 1]]

\* Fault: one piece more is counted than is cut.
sizeOfMore == Len(controllerLog) \div (divisions + 1)

size_one == Len(controllerLog) \div divisions

chopUpTableLogs ==
    /\ script = "compression"
    /\ phase = "controller"
    /\ processed = Requests
    /\ pieces' = [i \in 1 .. divisions |->
                     SubSeq(controllerLog, (i - 1) * size_one + 1, i * size_one)]
    /\ phase' = "compressing"
    /\ UNCHANGED <<logpoints, cost, processed, accesses, tables, dumps, retired,
                   curr, cache_log, images, script, n, divisions>>

StudyNext ==
    \/ handleRequest /\ UNCHANGED study
    \/ script = "visualiser" /\ UNCHANGED study
       /\ (runChampsim \/ warmup \/ filling \/ simulation \/ draw)
    \/ chopUpTableLogs

StudySpec ==
    (VisualiserInit \/ CompressionInit) /\ [][StudyNext]_allVars

-----------------------------------------------------------------------------
(* Properties *)

\* The pieces are the tables if as many were dumped as there are divisions, and
\* otherwise not one piece is a table: a log point missed or met twice spoils all
\* pieces, not just its own.
PiecesAreTables ==
    phase = "compressing" =>
        IF Len(tables) = divisions
        THEN pieces = [k \in 1 .. divisions |-> table(tables[k])]
        ELSE \A i \in 1 .. divisions, r \in 0 .. Requests : pieces[i] # table(r)

\* If the trace holds the n requests and there are two or more of them for each
\* division, every division has its table and the last is that of the end, rounding
\* or not.
DivisionsReached ==
    phase = "compressing" /\ n = Requests /\ n >= 2 * divisions =>
        Len(tables) = divisions /\ Last(tables) = n - 1
===============================================================================
