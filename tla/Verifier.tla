------------------------------- MODULE Verifier -------------------------------
(***************************************************************************)
(* The two programs that call processTrace.  src/main.cpp simulates one    *)
(* controller.  test/verifier.cpp, given one controller, compares the tags *)
(* it reads with those of the trace; given two, it simulates the first,    *)
(* then the second with the same decoder, and so from where the first left *)
(* the trace, asserts that both served as many entries and compares the    *)
(* tags they read at every address.                                        *)
(*                                                                         *)
(* Besides TagStore the verifier knows two dummy controllers, which always *)
(* read no tags or all tags.                                               *)
(***************************************************************************)
EXTENDS Simulator, FiniteSets

CONSTANT Modes  \* the programs and the controllers they are given

Kinds == {"store", "dummyzero", "dummyone"}

\* main.cpp knows no dummies.
ASSUME VerifierAssumption ==
    /\ Modes \subseteq [program: {"simulate", "verify", "crossVerify"},
                        first: Kinds, second: Kinds]
    /\ \A m \in Modes : m.program = "simulate" => m.first = "store"

VARIABLES
    mode,
    phase,         \* "first", "second", "returned", or "aborted" by the assertion
    count1,        \* what processTrace returned for the first controller
    table1,        \* the first controller
    discrepancies  \* what verify and crossVerify count

verifier == <<mode, phase, count1, table1, discrepancies>>
allVars  == <<vars, verifier>>

VInit ==
    /\ Init
    /\ mode \in Modes
    /\ mode.program # "simulate" => log_points = {}
    /\ phase = "first"
    /\ count1 = 0
    /\ table1 = table
    /\ discrepancies = 0

kind == IF phase = "second" THEN mode.second ELSE mode.first

\* handleRead of a controller of this kind whose table, if it has one, is t.
tagsRead(k, t, a) ==
    CASE k = "store" -> t[a]
      [] k = "dummyzero" -> {}
      [] k = "dummyone" -> allKnown

\* A dummy takes an access from the buffer and keeps nothing of it.
serveDummy ==
    /\ buffer # <<>>
    /\ LET ax == Head(buffer)
       IN  reply' = Served(ax.op, ax.addr,
                           IF ax.op = "read" THEN tagsRead(kind, table, ax.addr)
                           ELSE ax.tags)
    /\ buffer' = Tail(buffer)
    /\ processed' = processed + 1
    /\ UNCHANGED <<input, start, pos, at, log, table>>

\* verify compares the tags of a read with those of the access.
differs == reply'.op = "read" /\ reply'.tags # Head(buffer).tags

readChunk ==
    /\ phase \in {"first", "second"}
    /\ readLLCMisses
    /\ UNCHANGED verifier

serveNext ==
    /\ phase \in {"first", "second"}
    /\ \/ kind = "store" /\ serve
       \/ kind # "store" /\ serveDummy
    /\ discrepancies' = IF mode.program = "verify" /\ differs THEN discrepancies + 1
                        ELSE discrepancies
    /\ UNCHANGED <<mode, phase, count1, table1>>

endOfOne ==
    /\ mode.program # "crossVerify"
    /\ phase = "first"
    /\ finished
    /\ phase' = "returned"
    /\ UNCHANGED <<vars, mode, count1, table1, discrepancies>>

\* The second controller is set up and processTrace called for it; the trace
\* file stays where it is.
startSecond ==
    /\ mode.program = "crossVerify"
    /\ phase = "first"
    /\ finished
    /\ phase' = "second"
    /\ count1' = processed
    /\ table1' = table
    /\ table' = setup
    /\ reply' = Ready
    /\ start' = pos
    /\ at' = 0
    /\ processed' = 0
    /\ UNCHANGED <<input, pos, buffer, log, mode, discrepancies>>

\* crossVerify reads every 16 bytes, so each cacheline four times.
READS == 4
differing(t1, t2) ==
    {a \in Addr : tagsRead(mode.first, t1, a) # tagsRead(mode.second, t2, a)}

\* assert(count1 == count2), then crossVerify.  Its reads leave the tags of a
\* controller as they are.
compare ==
    /\ phase = "second"
    /\ finished
    /\ \/ /\ count1 # processed
          /\ phase' = "aborted"
          /\ UNCHANGED discrepancies
       \/ /\ count1 = processed
          /\ phase' = "returned"
          /\ discrepancies' = READS * Cardinality(differing(table1, table))
    /\ UNCHANGED <<vars, mode, count1, table1>>

ended == phase \in {"returned", "aborted"} /\ UNCHANGED allVars

VNext == readChunk \/ serveNext \/ endOfOne \/ startSecond \/ compare \/ ended

\* Each program is one thread that runs until it returns.
VSpec == VInit /\ [][VNext]_allVars /\ WF_allVars(VNext)

-----------------------------------------------------------------------------
(* Properties *)

\* Both programs end, also when n is more than the trace holds.
Finishes == <>(phase \in {"returned", "aborted"})

\* The verdict of the verifier depends on the initial-state file and on which
\* controllers it is given, and of the trace on nothing but the addresses read: a
\* controller that keeps its tags has no discrepancy, not even against one that
\* was given other entries of the trace, as every write stores the tags the
\* initial state has there.  A dummy is found out where the initial state differs.
VerdictOnInitialState ==
    phase = "returned" =>
        discrepancies =
            CASE mode.program = "simulate" -> 0
              [] mode.program = "verify" ->
                    Cardinality({i \in 1 .. processed :
                        /\ trace[i].type = "read"
                        /\ tagsRead(mode.first, setup, trace[i].addr)
                               # setup[trace[i].addr]})
              [] mode.program = "crossVerify" -> READS * Cardinality(differing(setup, setup))

\* The assertion of verifier.cpp:259, "assert(count1 == count2)": both controllers
\* are given the same number of entries.
CountsAgree == phase # "aborted"
==============================================================================
