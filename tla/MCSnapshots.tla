----------------------------- MODULE MCSnapshots -----------------------------
(***************************************************************************)
(* Instance of Snapshots and Compression for TLC: four requests and one to *)
(* three log points in any order, given twice or beyond the last request;  *)
(* up to four divisions of four or five requests.  2 and 3 stand for the   *)
(* 512 blocks of the cache and the 768 blocks visualiser.py reads.         *)
(***************************************************************************)
EXTENDS Compression

MCPoints == UNION {[1 .. k -> 0 .. Requests] : k \in 1 .. 3}

AscendingPoints == {s \in MCPoints : \A i \in 1 .. Len(s) - 1 : s[i] < s[i + 1]}
===============================================================================
