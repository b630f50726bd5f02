------------------------------ MODULE MCDrawing ------------------------------
(***************************************************************************)
(* Instance of Drawing for TLC: one superroot line, two root lines, four   *)
(* leaf lines, the shape of the real tables with 2 for their 512, and a    *)
(* cache of three blocks.                                                  *)
(***************************************************************************)
EXTENDS Drawing
===============================================================================
