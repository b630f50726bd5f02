------------------------------- MODULE MCSetup -------------------------------
(***************************************************************************)
(* Instance of Setup for TLC: bytes of two bits, lines of four bytes,      *)
(* pages of two bytes of a root line; so eight root lines, 64 leaf lines   *)
(* and, for PhoenixSController, two superroot lines.  At most one line     *)
(* holds tags, or all but at most one do, or just the first ones.          *)
(***************************************************************************)
EXTENDS Setup

line(first, last) ==
    [i \in 0 .. LINE - 1 |->
        IF i = 0 THEN first ELSE IF i = LINE - 1 THEN last ELSE {}]

tagged == {line({0}, {}), line({}, {1})}

\* The file with tags x in the lines of S and tags y in all others.
file(S, x, y) == [i \in Leaves |-> IF i \in S THEN x ELSE y]

parts == {{}} \cup {{i} : i \in Leaves} \cup {0 .. i : i \in Leaves}

MCInitialFiles ==
    {file(S, x, line({}, {})) : S \in parts, x \in tagged}
        \cup {file(S, line({}, {}), x) : S \in parts, x \in tagged}
==============================================================================
