---------------------------- MODULE TagWorkingSet ----------------------------
(***************************************************************************)
(* The tag working set (TWS) of PhoenixController.h and                    *)
(* PhoenixSController.h, which have the same text for it: a vector of      *)
(* pages, the most recently used at the back, of at most twsSize pages.    *)
(***************************************************************************)
EXTENDS SequencesExt

CONSTANTS twsSize, useTrueLRU

ASSUME twsAssumption == twsSize \in Nat \ {0} /\ useTrueLRU \in BOOLEAN

isInTWS(tws, p) == Contains(tws, p)

promote(tws, p) == Append(RemoveFirst(tws, p), p)

\* The position of the victim in a vector that is one page too long: the front
\* for true LRU, otherwise begin() advanced twsSize - 2 times.
victim == IF useTrueLRU \/ twsSize = 1 THEN 1 ELSE twsSize - 1

\* Fault: one page too many is kept.
evictsLate(tws, p) == ~isInTWS(tws, p) /\ Len(tws) > twsSize

\* updateTWS: whether a page is evicted to add p, which one, and the vector left.
evicts(tws, p)  == ~isInTWS(tws, p) /\ Len(tws) >= twsSize
evicted(tws, p) == Append(tws, p)[victim]

touched(tws, p) ==
    IF isInTWS(tws, p) THEN promote(tws, p)
    ELSE IF evicts(tws, p) THEN RemoveAt(Append(tws, p), victim)
    ELSE Append(tws, p)
===============================================================================
