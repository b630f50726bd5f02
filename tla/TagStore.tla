------------------------------- MODULE TagStore -------------------------------
(***************************************************************************)
(* What every tag controller promises (Controller.h): one table that holds *)
(* the tags of each address, where handleRead answers with the tags the    *)
(* last handleWrite of that address gave it, or the initial ones.  How     *)
(* often and where the controller looks in memory to answer is its own     *)
(* business.                                                               *)
(***************************************************************************)
EXTENDS TagTables

VARIABLES
    table,  \* the tags of every address
    reply   \* the request served last, with the tags read or written

Init ==
    /\ table \in [Addr -> Tags]
    /\ reply = Ready

handleRead(a) ==
    /\ reply' = Served("read", a, table[a])
    /\ UNCHANGED table

handleWrite(a, tags) ==
    /\ table' = [table EXCEPT ![a] = tags]
    /\ reply' = Served("write", a, tags)

Next ==
    \E a \in Addr :
        \/ handleRead(a)
        \/ \E tags \in Tags : handleWrite(a, tags)

Spec == Init /\ [][Next]_<<table, reply>>
===============================================================================
