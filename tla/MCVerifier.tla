------------------------------ MODULE MCVerifier ------------------------------
(***************************************************************************)
(* Instance of Simulator and Verifier for TLC: two addresses, chunks of    *)
(* two entries, up to three entries asked for and in the trace, so that    *)
(* chunks are full, cut by n and cut by the end of the file, and a second  *)
(* simulation finds as many entries as the first, fewer, or none.  An      *)
(* entry knows all of its tags or two of them; an address starts with no   *)
(* tags or with its first two.                                             *)
(***************************************************************************)
EXTENDS Verifier

Info == {[tags |-> {0, 2}, known |-> TagIndex],
         [tags |-> {1}, known |-> {1, 2}]}

MCMisses ==
    {[type |-> t, addr |-> a, tags |-> i.tags, known |-> i.known] :
        t \in {"read", "write"}, a \in Addr, i \in Info}

e(tag, type) == [tag |-> tag, type |-> type]

MCEntries ==
    {[i \in TagIndex |-> e(FALSE, "cload")],
     [i \in TagIndex |-> IF i < 2 THEN e(TRUE, "cstore") ELSE e(TRUE, "load")]}

MCTags == SUBSET TagIndex
MCNoTags == {}

m(program, first, second) == [program |-> program, first |-> first, second |-> second]

AllModes ==
    {m("simulate", "store", "store"),
     m("verify", "store", "store"), m("verify", "dummyone", "store"),
     m("crossVerify", "store", "store"), m("crossVerify", "dummyzero", "store")}

TwoStores == {m("crossVerify", "store", "store")}
===============================================================================
