---------------------------- MODULE SnapshotsProofs ----------------------------
(***************************************************************************)
(* Proofs about the two studies that pair log files: what visualiser.py    *)
(* draws from the tables and the cache log (module Snapshots), and what    *)
(* compression.py cuts out of the tables (module Compression).             *)
(*                                                                         *)
(* Dumped says which tables and dumps there are so far, whatever phase it  *)
(* is; Logged how the cache log follows the dumps; Drawn what the images   *)
(* took from the tables.                                                   *)
(***************************************************************************)
EXTENDS Compression, SequenceTheorems, FiniteSetTheorems, TLAPS

-----------------------------------------------------------------------------
(* Numbers *)

LEMMA LeastNatural ==
    ASSUME NEW X \in SUBSET Nat, X # {}
    PROVE  \E x \in X : \A y \in X : x <= y
<1> DEFINE R == OpToRel(<, Nat)
<1>1. IsWellFoundedOn(R, Nat)
  BY NatLessThanWellFounded
<1> HIDE DEF R
<1>2. PICK x \in X : \A y \in X : ~(<<y, x>> \in R)
  BY <1>1, WFMin, Zenon
<1>3. \A y \in X : y < x => <<y, x>> \in R
  BY DEF R, OpToRel
<1>4. ASSUME NEW y \in X PROVE x <= y
  <2>1. ~(y < x) /\ x \in Nat /\ y \in Nat
    BY <1>2, <1>3
  <2> QED BY <2>1
<1> QED BY <1>4

LEMMA Product ==
    ASSUME NEW a \in Nat, NEW b \in Nat
    PROVE  a * b \in Nat
  OBVIOUS

LEMMA ProductOfSum ==
    ASSUME NEW a \in Int, NEW b \in Int, NEW c \in Int
    PROVE  (a + b) * c = a * c + b * c
  OBVIOUS

LEMMA ProductGrows ==
    ASSUME NEW a \in Int, NEW b \in Int, NEW c \in Nat, a <= b
    PROVE  a * c <= b * c
  OBVIOUS

LEMMA ProductLess ==
    ASSUME NEW a \in Int, NEW b \in Int, NEW c \in Nat \ {0}, a * c < b * c
    PROVE  a < b
  OBVIOUS

LEMMA Quotient ==
    ASSUME NEW a \in Int, NEW d \in Nat \ {0}
    PROVE  /\ a \div d \in Int
           /\ (a \div d) * d <= a /\ a < (a \div d) * d + d
           /\ a = (a \div d) * d + (a % d)
  OBVIOUS

\* There is only one quotient.
LEMMA QuotientIs ==
    ASSUME NEW a \in Int, NEW d \in Nat \ {0}, NEW x \in Int, x * d <= a, a < x * d + d
    PROVE  a \div d = x /\ a % d = a - x * d
<1> DEFINE q == a \div d
<1>1. /\ q \in Int /\ q * d \in Int /\ x * d \in Int
      /\ q * d <= a /\ a < q * d + d /\ a = q * d + (a % d)
  BY Quotient
<1>2. a % d \in Int
  OBVIOUS
<1> HIDE DEF q
<1>3. (q + 1) * d = q * d + d /\ (x + 1) * d = x * d + d
  BY <1>1, ProductOfSum
<1>4. q < x + 1
  BY <1>1, <1>3, ProductLess
<1>5. x < q + 1
  BY <1>1, <1>3, ProductLess
<1>6. q = x
  BY <1>1, <1>4, <1>5
<1>7. q * d = x * d
  BY <1>6
<1>8. a % d = a - x * d
  BY <1>1, <1>2, <1>7
<1> QED BY <1>6, <1>8 DEF q

-----------------------------------------------------------------------------
(* The cost of the first requests *)

\* The recursion defines a function: there is one that satisfies it up to any i.
LEMMA TotalCost ==
    ASSUME cost \in [1 .. Requests -> Nat]
    PROVE  /\ totalCost \in [0 .. Requests -> Nat]
           /\ totalCost[0] = 0
           /\ \A i \in 1 .. Requests : totalCost[i] = totalCost[i - 1] + cost[i]
<1>0. Requests \in Nat
  BY SnapshotsAssumption
<1> DEFINE sums(f, m) ==
              /\ f \in [0 .. m -> Nat]
              /\ f[0] = 0
              /\ \A i \in 1 .. m : f[i] = f[i - 1] + cost[i]
           X == {m \in 0 .. Requests : ~ \E f : sums(f, m)}
<1>1. X = {}
  <2> SUFFICES ASSUME X # {} PROVE FALSE
    OBVIOUS
  <2>1. X \subseteq Nat
    BY <1>0
  <2>2. PICK m \in X : \A y \in X : m <= y
    BY <2>1, LeastNatural
  <2>3. sums([i \in 0 .. 0 |-> 0], 0)
    OBVIOUS
  <2> HIDE DEF sums
  <2>4. m \in 1 .. Requests /\ m - 1 \in 0 .. Requests /\ m - 1 \notin X
    <3>1. m \in 0 .. Requests /\ ~ \E f : sums(f, m)
      BY <2>2
    <3>2. m # 0
      BY <2>3, <3>1
    <3>3. m - 1 \notin X
      BY <2>2, <3>1, <1>0
    <3> QED BY <3>1, <3>2, <3>3, <1>0
  <2>5. PICK g : sums(g, m - 1)
    BY <2>4
  <2> USE DEF sums
  <2> DEFINE f == [i \in 0 .. m |-> IF i = m THEN g[m - 1] + cost[m] ELSE g[i]]
  <2>6. g[m - 1] \in Nat /\ cost[m] \in Nat
    BY <2>4, <2>5, <1>0
  <2>7. f \in [0 .. m -> Nat]
    <3>1. \A i \in 0 .. m : i # m => g[i] \in Nat
      BY <2>4, <2>5, <1>0
    <3> QED BY <2>6, <3>1
  <2>8. f[0] = 0
    BY <2>4, <2>5, <1>0
  <2>9. ASSUME NEW i \in 1 .. m PROVE f[i] = f[i - 1] + cost[i]
    <3>1. i \in 0 .. m /\ i - 1 \in 0 .. m /\ i - 1 # m
      BY <2>4, <1>0
    <3>2. f[i - 1] = g[i - 1] /\ f[i] = IF i = m THEN g[m - 1] + cost[m] ELSE g[i]
      BY <3>1
    <3> HIDE DEF f
    <3>3. i # m => g[i] = g[i - 1] + cost[i]
      BY <2>4, <2>5, <1>0
    <3> QED BY <3>2, <3>3
  <2> HIDE DEF f
  <2>10. sums(f, m)
    BY <2>7, <2>8, <2>9
  <2> QED BY <2>2, <2>10
<1>2. PICK g : sums(g, Requests)
  <2> HIDE DEF sums
  <2>1. Requests \in 0 .. Requests
    BY <1>0
  <2> QED BY <1>1, <2>1
<1> DEFINE rule(f) ==
              f = [i \in 0 .. Requests |-> IF i = 0 THEN 0 ELSE f[i - 1] + cost[i]]
<1>3. rule(g)
  <2>1. \A i \in 0 .. Requests : i = 0 \/ i \in 1 .. Requests
    BY <1>0
  <2>2. g \in [0 .. Requests -> Nat]
    BY <1>2
  <2>3. \A i \in 0 .. Requests : g[i] = IF i = 0 THEN 0 ELSE g[i - 1] + cost[i]
    BY <1>2, <2>1
  <2> HIDE DEF sums
  <2> QED BY <2>2, <2>3
<1>4. rule(totalCost)
  <2>1. totalCost = CHOOSE f : rule(f)
    BY DEF totalCost
  <2> HIDE DEF rule
  <2> QED BY <1>3, <2>1
<1> HIDE DEF sums, X
<1>5. \A i \in 0 .. Requests : totalCost[i] = IF i = 0 THEN 0 ELSE totalCost[i - 1] + cost[i]
  BY <1>4
<1>6. totalCost[0] = 0 /\ \A i \in 1 .. Requests : totalCost[i] = totalCost[i - 1] + cost[i]
  BY <1>5, <1>0
<1> DEFINE Y == {i \in 0 .. Requests : totalCost[i] \notin Nat}
<1>7. Y = {}
  <2> SUFFICES ASSUME Y # {} PROVE FALSE
    OBVIOUS
  <2>1. Y \subseteq Nat
    BY <1>0
  <2>2. PICK m \in Y : \A y \in Y : m <= y
    BY <2>1, LeastNatural
  <2>3. m \in 1 .. Requests /\ m - 1 \in 0 .. Requests /\ m - 1 \notin Y
    BY <2>2, <1>6, <1>0
  <2>4. totalCost[m - 1] \in Nat /\ cost[m] \in Nat
    BY <2>3
  <2> QED BY <2>2, <2>3, <2>4, <1>6
<1>8. totalCost = [i \in 0 .. Requests |-> totalCost[i]]
  BY <1>4
<1> QED BY <1>6, <1>7, <1>8

-----------------------------------------------------------------------------
(* Tables and dumps *)

\* The k-th table is that of the k-th log point reached, and its dump counts the
\* accesses up to there.
Paired ==
    \A k \in 1 .. Len(tables) :
        /\ tables[k] \in reachedBefore(processed)
        /\ Cardinality(reachedBefore(tables[k])) = k - 1
        /\ dumps[k] = accessesAfter(tables[k])
        /\ dumps[k] <= accesses

Ascending == \A j, k \in 1 .. Len(dumps) : j <= k => dumps[j] <= dumps[k]

\* There is a table and a dump for each log point reached so far, in ascending order.
Dumped ==
    /\ cost \in [1 .. Requests -> Nat]
    /\ logpoints \in Seq(Int) /\ logpoints # <<>>
    /\ processed \in 0 .. Requests
    /\ accesses = totalCost[processed]
    /\ tables \in Seq(Int) /\ dumps \in Seq(Nat)
    /\ Len(dumps) = Len(tables)
    /\ Len(tables) = Cardinality(reachedBefore(processed))
    /\ Paired
    /\ Ascending
    /\ phase # "controller" => processed = Requests

LEMMA ReachedBefore ==
    ASSUME logpoints \in Seq(Int), NEW i \in Int
    PROVE  /\ pointsReached \subseteq 0 .. Requests - 1
           /\ IsFiniteSet(pointsReached)
           /\ IsFiniteSet(reachedBefore(i))
           /\ Cardinality(reachedBefore(i)) \in Nat
<1>1. Requests \in Nat
  BY SnapshotsAssumption
<1>2. pointsReached \subseteq 0 .. Requests - 1
  BY DEF pointsReached
<1>3. IsFiniteSet(0 .. Requests - 1)
  BY <1>1, FS_Interval
<1>4. IsFiniteSet(pointsReached)
  BY <1>2, <1>3, FS_Subset
<1>5. reachedBefore(i) \subseteq pointsReached
  BY DEF reachedBefore
<1>6. IsFiniteSet(reachedBefore(i))
  BY <1>4, <1>5, FS_Subset
<1> QED BY <1>2, <1>4, <1>6, FS_CardinalityType

\* Request i adds itself if it is a log point.
LEMMA ReachedNext ==
    ASSUME logpoints \in Seq(Int), NEW i \in 0 .. Requests - 1
    PROVE  /\ reachedBefore(i + 1) =
                  IF dumped(i) THEN reachedBefore(i) \cup {i} ELSE reachedBefore(i)
           /\ Cardinality(reachedBefore(i + 1)) =
                  Cardinality(reachedBefore(i)) + (IF dumped(i) THEN 1 ELSE 0)
<1>1. Requests \in Nat /\ i \in Int /\ i + 1 \in Int
  BY SnapshotsAssumption
<1>2. i \in pointsReached <=> dumped(i)
  BY <1>1 DEF pointsReached, dumped
<1>3. pointsReached \subseteq Int
  BY <1>1 DEF pointsReached
<1>4. \A p \in pointsReached : p < i + 1 <=> p < i \/ p = i
  BY <1>1, <1>3
<1>5. reachedBefore(i + 1) =
          IF dumped(i) THEN reachedBefore(i) \cup {i} ELSE reachedBefore(i)
  BY <1>2, <1>4 DEF reachedBefore
<1>6. IsFiniteSet(reachedBefore(i)) /\ Cardinality(reachedBefore(i)) \in Nat
  BY <1>1, ReachedBefore
<1>7. i \notin reachedBefore(i)
  BY <1>1 DEF reachedBefore
<1>8. Cardinality(reachedBefore(i) \cup {i}) = Cardinality(reachedBefore(i)) + 1
  BY <1>6, <1>7, FS_AddElement
<1> QED BY <1>5, <1>6, <1>8

\* In the end all log points that are reached count.
LEMMA ReachedAll ==
    ASSUME logpoints \in Seq(Int)
    PROVE  reachedBefore(Requests) = pointsReached
<1>1. \A p \in pointsReached : p < Requests
  BY SnapshotsAssumption, ReachedBefore
<1> QED BY <1>1 DEF reachedBefore

LEMMA DumpedInit ==
    ASSUME VisualiserInit \/ CompressionInit
    PROVE  Dumped
<1>0. Requests \in Nat \ {0}
  BY SnapshotsAssumption
<1>1. Start
  BY DEF VisualiserInit, CompressionInit, Init
<1>2. cost \in [1 .. Requests -> Nat] /\ processed = 0
  BY <1>1, SnapshotsAssumption DEF Start
<1>3. logpoints \in Seq(Int) /\ logpoints # <<>>
  <2>1. CASE VisualiserInit
    <3>1. logpoints \in Seq(Nat) /\ logpoints # <<>>
      BY <2>1, SnapshotsAssumption DEF VisualiserInit, Init
    <3> QED BY <3>1, SeqMonotonic
  <2>2. CASE CompressionInit
    <3>1. divisions \in Nat \ {0} /\ logpoints \in [1 .. divisions -> Int]
      BY <2>2, CompressionAssumption DEF CompressionInit
    <3>2. logpoints \in Seq(Int) /\ Len(logpoints) = divisions
      BY <3>1
    <3> QED BY <3>1, <3>2, EmptySeq
  <2> QED BY <2>1, <2>2
<1>4. Cardinality(reachedBefore(0)) = 0
  <2>1. reachedBefore(0) = {}
    BY <1>0 DEF reachedBefore, pointsReached
  <2> QED BY <2>1, FS_EmptySet
<1>5. tables = <<>> /\ dumps = <<>> /\ accesses = 0 /\ phase = "controller"
  BY <1>1 DEF Start
<1>6. tables \in Seq(Int) /\ dumps \in Seq(Nat) /\ Len(dumps) = 0 /\ Len(tables) = 0
  BY <1>5
<1>7. accesses = totalCost[processed]
  BY <1>2, <1>5, TotalCost
<1> QED BY <1>0, <1>2, <1>3, <1>4, <1>5, <1>6, <1>7 DEF Dumped, Paired, Ascending

\* What Dumped says of does not change after the controller has run.
LEMMA DumpedStays ==
    ASSUME Dumped, UNCHANGED <<logpoints, cost, processed, accesses, tables, dumps>>,
           phase' # "controller" => processed = Requests
    PROVE  Dumped'
<1>1. totalCost' = totalCost
  BY DEF totalCost
<1>2. \A i : accessesAfter(i)' = accessesAfter(i)
  BY <1>1 DEF accessesAfter
<1>3. \A i : reachedBefore(i)' = reachedBefore(i)
  BY DEF reachedBefore, pointsReached
<1> QED BY <1>1, <1>2, <1>3 DEF Dumped, Paired, Ascending

LEMMA RequestStep ==
    ASSUME Dumped, handleRequest
    PROVE  Dumped'
<1> DEFINE m == Len(tables)
<1>1. /\ processed \in 0 .. Requests - 1 /\ processed + 1 \in 1 .. Requests
      /\ Requests \in Nat
  BY SnapshotsAssumption DEF Dumped, handleRequest
<1>2. /\ processed' = processed + 1
      /\ accesses' = accesses + cost[processed + 1]
      /\ UNCHANGED <<logpoints, cost, phase>> /\ phase = "controller"
  BY DEF handleRequest
<1>3. totalCost' = totalCost
  BY <1>2 DEF totalCost
<1>4. \A k : accessesAfter(tables[k])' = accessesAfter(tables'[k])
  BY <1>3 DEF accessesAfter
<1>5. /\ reachedBefore(processed)' = reachedBefore(processed')
      /\ \A k : reachedBefore(tables[k])' = reachedBefore(tables'[k])
  BY <1>2 DEF reachedBefore, pointsReached
<1>6. /\ totalCost \in [0 .. Requests -> Nat]
      /\ totalCost[processed + 1] = totalCost[processed] + cost[processed + 1]
      /\ cost[processed + 1] \in Nat
  <2>1. cost \in [1 .. Requests -> Nat]
    BY DEF Dumped
  <2>2. processed + 1 - 1 = processed
    BY <1>1
  <2> QED BY <1>1, <2>1, <2>2, TotalCost
<1>7. /\ accesses \in Nat /\ accesses' \in Nat /\ accesses <= accesses'
      /\ accesses' = totalCost[processed + 1]
  BY <1>1, <1>2, <1>6 DEF Dumped
<1>8. /\ reachedBefore(processed + 1) =
            IF dumped(processed) THEN reachedBefore(processed) \cup {processed}
                                 ELSE reachedBefore(processed)
      /\ Cardinality(reachedBefore(processed + 1)) =
            Cardinality(reachedBefore(processed)) + (IF dumped(processed) THEN 1 ELSE 0)
  BY <1>1, ReachedNext DEF Dumped
<1>9. /\ tables \in Seq(Int) /\ dumps \in Seq(Nat) /\ m \in Nat
      /\ Len(dumps) = m /\ m = Cardinality(reachedBefore(processed))
      /\ \A k \in 1 .. m : dumps[k] \in Nat
  BY DEF Dumped
<1>10. CASE ~dumped(processed)
  <2>1. UNCHANGED <<tables, dumps>>
    BY <1>10 DEF handleRequest
  <2>2. Len(tables)' = Cardinality(reachedBefore(processed'))
    BY <1>2, <1>8, <1>9, <1>10, <2>1
  <2>3. ASSUME NEW k \in 1 .. m
        PROVE  /\ tables[k] \in reachedBefore(processed')
               /\ Cardinality(reachedBefore(tables[k])) = k - 1
               /\ dumps[k] = accessesAfter(tables[k])
               /\ dumps[k] <= accesses'
    BY <1>2, <1>7, <1>8, <1>9, <1>10 DEF Dumped, Paired
  <2>4. Paired'
    BY <1>4, <1>5, <2>1, <2>3, Zenon DEF Paired
  <2>5. Ascending'
    BY <2>1 DEF Dumped, Ascending
  <2> QED BY <1>1, <1>2, <1>3, <1>5, <1>7, <1>9, <2>1, <2>2, <2>4, <2>5 DEF Dumped
<1>11. CASE dumped(processed)
  <2>1. tables' = Append(tables, processed) /\ dumps' = Append(dumps, accesses')
    BY <1>11 DEF handleRequest
  <2>2. /\ tables' \in Seq(Int) /\ dumps' \in Seq(Nat)
        /\ Len(tables') = m + 1 /\ Len(dumps') = m + 1
        /\ tables'[m + 1] = processed /\ dumps'[m + 1] = accesses'
        /\ \A k \in 1 .. m : tables'[k] = tables[k] /\ dumps'[k] = dumps[k]
    BY <1>1, <1>7, <1>9, <2>1
  <2>3. Len(tables)' = Cardinality(reachedBefore(processed'))
    BY <1>2, <1>8, <1>9, <1>11, <2>2
  <2>4. ASSUME NEW k \in 1 .. m + 1
        PROVE  /\ tables'[k] \in reachedBefore(processed')
               /\ Cardinality(reachedBefore(tables'[k])) = k - 1
               /\ dumps'[k] = accessesAfter(tables'[k])
               /\ dumps'[k] <= accesses'
    <3>1. CASE k = m + 1
      <4>1. accessesAfter(processed) = accesses'
        BY <1>7 DEF accessesAfter
      <4>2. m + 1 - 1 = m
        BY <1>9
      <4> QED BY <1>2, <1>7, <1>8, <1>9, <1>11, <2>2, <3>1, <4>1, <4>2
    <3>2. CASE k \in 1 .. m
      <4>1. tables[k] \in reachedBefore(processed) /\ dumps[k] <= accesses
        BY <3>2 DEF Dumped, Paired
      <4>2. tables[k] \in reachedBefore(processed + 1)
        BY <1>8, <4>1
      <4>3. dumps[k] <= accesses'
        BY <1>7, <1>9, <3>2, <4>1
      <4> QED BY <1>2, <2>2, <3>2, <4>2, <4>3 DEF Dumped, Paired
    <3>3. k = m + 1 \/ k \in 1 .. m
      BY <1>9
    <3> QED BY <3>1, <3>2, <3>3, Zenon
  <2>5. ASSUME NEW j \in 1 .. m + 1, NEW k \in 1 .. m + 1, j <= k
        PROVE  dumps'[j] <= dumps'[k]
    <3>1. CASE k = m + 1
      BY <2>2, <2>4, <3>1
    <3>2. CASE k \in 1 .. m
      <4>1. j \in 1 .. m
        BY <1>9, <2>5, <3>2
      <4> QED BY <1>9, <2>2, <2>5, <3>2, <4>1 DEF Dumped, Ascending
    <3>3. k = m + 1 \/ k \in 1 .. m
      BY <1>9
    <3> QED BY <3>1, <3>2, <3>3, Zenon
  <2>6. Paired'
    BY <1>4, <1>5, <2>2, <2>4, Zenon DEF Paired
  <2>7. Ascending'
    BY <2>2, <2>5, Zenon DEF Ascending
  <2>8. /\ processed' \in 0 .. Requests
        /\ accesses' = totalCost'[processed']
        /\ Len(tables)' = Cardinality(reachedBefore(processed)')
        /\ Len(dumps)' = Len(tables)'
    BY <1>1, <1>2, <1>3, <1>5, <1>7, <2>2, <2>3
  <2> QED BY <1>2, <2>2, <2>6, <2>7, <2>8 DEF Dumped
<1> QED BY <1>10, <1>11

LEMMA DumpedStep ==
    ASSUME Dumped, [StudyNext]_allVars
    PROVE  Dumped'
<1>0. phase # "controller" => processed = Requests
  BY DEF Dumped
<1>1. CASE handleRequest
  BY <1>1, RequestStep
<1>2. ASSUME runChampsim \/ chopUpTableLogs PROVE Dumped'
  BY <1>2, DumpedStays DEF runChampsim, chopUpTableLogs
<1>3. ASSUME warmup \/ filling \/ simulation \/ draw PROVE Dumped'
  BY <1>0, <1>3, DumpedStays DEF warmup, filling, simulation, draw, logReached
<1>4. CASE UNCHANGED allVars
  BY <1>0, <1>4, DumpedStays DEF allVars, vars
<1> QED BY <1>1, <1>2, <1>3, <1>4 DEF StudyNext

LEMMA DumpedAlways == StudySpec => []Dumped
  BY DumpedInit, DumpedStep, PTL DEF StudySpec

-----------------------------------------------------------------------------
(* The cache log *)

\* Of ascending dumps the ones reached are the first.
LEMMA ReachedFirst ==
    ASSUME NEW d \in Seq(Nat), NEW r \in Nat, NEW lo \in 1 .. Len(d) + 1,
           \A j, k \in 1 .. Len(d) : j <= k => d[j] <= d[k]
    PROVE  LET S == {j \in lo .. Len(d) : reached(d[j], r)}
           IN  /\ Cardinality(S) \in Nat
               /\ lo + Cardinality(S) <= Len(d) + 1
               /\ \A j \in lo .. Len(d) : j < lo + Cardinality(S) <=> d[j] <= r
<1> DEFINE S == {j \in lo .. Len(d) : reached(d[j], r)}
           X == {j \in lo .. Len(d) + 1 : j = Len(d) + 1 \/ ~ d[j] <= r}
<1>1. Len(d) \in Nat /\ lo \in Nat /\ \A j \in lo .. Len(d) : d[j] \in Nat
  OBVIOUS
<1>2. X \subseteq Nat /\ Len(d) + 1 \in X
  BY <1>1
<1>3. PICK m \in X : \A y \in X : m <= y
  BY <1>2, LeastNatural
<1>4. m \in Nat /\ lo <= m /\ m <= Len(d) + 1
  BY <1>1, <1>3
<1>5. ASSUME NEW j \in lo .. Len(d) PROVE j < m <=> d[j] <= r
  <2>1. j \in Nat /\ j \in 1 .. Len(d)
    BY <1>1
  <2>2. CASE j < m
    <3>1. j \notin X
      BY <1>3, <1>4, <2>1, <2>2
    <3> QED BY <1>1, <2>1, <2>2, <3>1
  <2>3. CASE m <= j
    <3>1. m \in 1 .. Len(d) /\ m # Len(d) + 1
      BY <1>1, <1>4, <2>1, <2>3
    <3>2. ~ d[m] <= r
      BY <1>3, <3>1
    <3>3. d[m] <= d[j]
      BY <2>1, <2>3, <3>1
    <3>4. d[m] \in Nat /\ d[j] \in Nat
      BY <2>1, <3>1
    <3> QED BY <1>4, <2>1, <2>3, <3>2, <3>3, <3>4
  <2> QED BY <1>4, <2>1, <2>2, <2>3
<1>6. S = lo .. m - 1
  <2>1. \A j \in lo .. Len(d) : j \in lo .. m - 1 <=> reached(d[j], r)
    BY <1>1, <1>4, <1>5 DEF reached
  <2>2. lo .. m - 1 \subseteq lo .. Len(d)
    BY <1>1, <1>4
  <2> QED BY <2>1, <2>2
<1>7. Cardinality(S) = m - lo
  <2> HIDE DEF S, X
  <2>1. Cardinality(lo .. m - 1) = IF lo > m - 1 THEN 0 ELSE m - 1 - lo + 1
    BY <1>1, <1>4, FS_Interval
  <2> QED BY <1>1, <1>4, <1>6, <2>1
<1> HIDE DEF S, X
<1>8. lo + Cardinality(S) = m /\ Cardinality(S) \in Nat
  BY <1>1, <1>4, <1>7
<1>9. /\ Cardinality(S) \in Nat
      /\ lo + Cardinality(S) <= Len(d) + 1
      /\ \A j \in lo .. Len(d) : j < lo + Cardinality(S) <=> d[j] <= r
  BY <1>4, <1>5, <1>8
<1> QED BY <1>9 DEF S

\* A cache log with entries of 0 for z dumps and then an entry for each of c dumps.
LogOf(log, d, z, c) ==
    /\ Len(log) = (z + c) * Blocks
    /\ \A i \in 1 .. z * Blocks : log[i] = 0
    /\ \A k \in 1 .. c : \A b \in 1 .. Blocks : log[(z + k - 1) * Blocks + b] = d[k]

\* The places of the k-th entry.
LEMMA Places ==
    ASSUME NEW x \in Nat, NEW k \in Nat \ {0}, NEW c \in Nat, k <= c, NEW b \in 1 .. Blocks
    PROVE  /\ (x + k - 1) * Blocks + b \in 1 .. (x + c) * Blocks
           /\ x * Blocks < (x + k - 1) * Blocks + b
           /\ (x + k - 1) * Blocks + b = x * Blocks + (k - 1) * Blocks + b
<1>0. Blocks \in Nat \ {0} /\ b \in Nat \ {0} /\ b <= Blocks
  BY SnapshotsAssumption
<1>1. x * Blocks \in Nat /\ (k - 1) * Blocks \in Nat /\ c * Blocks \in Nat
      /\ k * Blocks \in Nat /\ (x + c) * Blocks = x * Blocks + c * Blocks
  BY <1>0, Product, ProductOfSum
<1>2. (x + k - 1) * Blocks = x * Blocks + (k - 1) * Blocks
  <2>1. x + k - 1 = x + (k - 1) /\ k - 1 \in Int
    OBVIOUS
  <2> QED BY <1>0, <2>1, ProductOfSum
<1>3. (k - 1) * Blocks + Blocks = k * Blocks
  <2>1. (k - 1) + 1 = k /\ k - 1 \in Int /\ 1 * Blocks = Blocks
    BY <1>0
  <2> QED BY <1>0, <2>1, ProductOfSum
<1>4. k * Blocks <= c * Blocks
  BY <1>0, ProductGrows
<1> QED BY <1>0, <1>1, <1>2, <1>3, <1>4

LEMMA LogGrows ==
    ASSUME NEW log \in Seq(Nat), NEW d, NEW z \in Nat, NEW c \in Nat, NEW k \in Nat,
           LogOf(log, d, z, c), NEW r \in Nat, \A j \in c + 1 .. c + k : d[j] = r
    PROVE  /\ log \o [i \in 1 .. k * Blocks |-> r] \in Seq(Nat)
           /\ LogOf(log \o [i \in 1 .. k * Blocks |-> r], d, z, c + k)
<1> DEFINE more == [i \in 1 .. k * Blocks |-> r]
           new  == log \o more
<1>0. Blocks \in Nat \ {0}
  BY SnapshotsAssumption
<1>1. k * Blocks \in Nat /\ z * Blocks \in Nat /\ (z + c) * Blocks \in Nat /\ z + c \in Nat
  BY <1>0, Product
<1>2. more \in Seq(Nat) /\ Len(more) = k * Blocks /\ \A i \in 1 .. k * Blocks : more[i] = r
  BY <1>1
<1>3. (z + (c + k)) * Blocks = (z + c) * Blocks + k * Blocks
  <2>1. z + (c + k) = (z + c) + k
    OBVIOUS
  <2> QED BY <1>0, <1>1, <2>1, ProductOfSum
<1>4. Len(log) = (z + c) * Blocks
  BY DEF LogOf
<1> HIDE DEF more
<1>5. /\ new \in Seq(Nat) /\ Len(new) = (z + (c + k)) * Blocks
      /\ \A i \in 1 .. (z + (c + k)) * Blocks :
            new[i] = IF i <= (z + c) * Blocks THEN log[i] ELSE r
  <2>1. new \in Seq(Nat) /\ Len(new) = Len(log) + Len(more)
    BY <1>2, ConcatProperties
  <2>2. \A i \in 1 .. Len(log) + Len(more) :
            new[i] = IF i <= Len(log) THEN log[i] ELSE more[i - Len(log)]
    BY <1>2, ConcatProperties
  <2> HIDE DEF new
  <2>3. Len(log) + Len(more) = (z + (c + k)) * Blocks
    BY <1>2, <1>3, <1>4
  <2>4. ASSUME NEW i \in 1 .. (z + (c + k)) * Blocks
        PROVE  new[i] = IF i <= (z + c) * Blocks THEN log[i] ELSE r
    <3>1. new[i] = IF i <= (z + c) * Blocks THEN log[i] ELSE more[i - (z + c) * Blocks]
      BY <1>4, <2>2, <2>3
    <3>2. CASE i <= (z + c) * Blocks
      BY <3>1, <3>2
    <3>3. CASE ~(i <= (z + c) * Blocks)
      <4>1. i - (z + c) * Blocks \in 1 .. k * Blocks
        BY <1>1, <1>3, <3>3
      <4> QED BY <1>2, <3>1, <3>3, <4>1
    <3> QED BY <3>2, <3>3
  <2> QED BY <2>1, <2>3, <2>4
<1> HIDE DEF new
<1>6. ASSUME NEW i \in 1 .. z * Blocks PROVE new[i] = 0
  <2>1. z * Blocks <= (z + c) * Blocks /\ (z + c) * Blocks <= (z + (c + k)) * Blocks
    BY <1>0, <1>1, <1>3, ProductGrows
  <2>2. i \in 1 .. (z + (c + k)) * Blocks /\ i <= (z + c) * Blocks
    BY <1>1, <1>3, <2>1
  <2> QED BY <1>5, <2>2 DEF LogOf
<1>7. ASSUME NEW j \in 1 .. c + k, NEW b \in 1 .. Blocks
      PROVE  new[(z + j - 1) * Blocks + b] = d[j]
  <2> DEFINE i == (z + j - 1) * Blocks + b
  <2>0. j \in Nat \ {0} /\ j <= c + k /\ c + k \in Nat
    OBVIOUS
  <2>1. i \in 1 .. (z + (c + k)) * Blocks
    BY <2>0, Places, Zenon
  <2>2. CASE j <= c
    <3>1. i \in 1 .. (z + c) * Blocks
      BY <2>0, <2>2, Places, Zenon
    <3>2. j \in 1 .. c
      BY <2>2
    <3>3. log[i] = d[j]
      BY <3>2, Zenon DEF LogOf
    <3> HIDE DEF i
    <3> QED BY <1>1, <1>5, <2>1, <3>1, <3>3 DEF i
  <2>3. CASE ~(j <= c)
    <3>1. (z + c) + (j - c) - 1 = z + j - 1 /\ j - c \in Nat \ {0} /\ j - c <= k /\ z + c \in Nat
      BY <2>3
    <3>2. (z + c) * Blocks < ((z + c) + (j - c) - 1) * Blocks + b
      BY <3>1, Places, Zenon
    <3>3. (z + c) * Blocks < i
      BY <3>1, <3>2, Zenon
    <3>4. d[j] = r
      BY <2>3
    <3> HIDE DEF i
    <3> QED BY <1>1, <1>5, <2>1, <3>3, <3>4 DEF i
  <2> QED BY <2>2, <2>3
<1> QED BY <1>5, <1>6, <1>7 DEF LogOf, new, more

\* Once the warm-up is over, curr is the first dump not reached, and the dumps before
\* it have their entries, behind those the warm-up wrote.
Logged ==
    /\ cache_log \in Seq(Nat) /\ retired \in Nat /\ curr \in 1 .. Len(dumps) + 1
    /\ phase \in {"controller", "warmup", "compressing"} =>
          cache_log = <<>> /\ curr = 1 /\ retired = 0
    /\ phase = "filling" => retired = 0 /\ LogOf(cache_log, dumps, beforeAccesses, 0)
    /\ phase \in {"simulation", "drawing"} =>
          /\ LogOf(cache_log, dumps, beforeAccesses, curr - 1)
          /\ \A j \in 1 .. Len(dumps) : j < curr <=> dumps[j] <= retired
    /\ phase = "drawing" => curr = Len(dumps) + 1

\* What the warm-up logs are the dumps made before any access.
LEMMA EarlyDumps ==
    ASSUME Dumped
    PROVE  beforeAccesses = Cardinality({j \in 1 .. Len(dumps) : reached(dumps[j], 0)})
<1>1. DOMAIN tables = 1 .. Len(dumps)
  BY DEF Dumped
<1>2. ASSUME NEW j \in 1 .. Len(dumps)
      PROVE  accessesAfter(tables[j]) = 0 <=> reached(dumps[j], 0)
  <2>1. dumps[j] = accessesAfter(tables[j]) /\ dumps[j] \in Nat
    BY DEF Dumped, Paired
  <2> QED BY <2>1 DEF reached
<1>3. {k \in DOMAIN tables : accessesAfter(tables[k]) = 0} =
          {j \in 1 .. Len(dumps) : reached(dumps[j], 0)}
  BY <1>1, <1>2
<1> QED BY <1>3 DEF beforeAccesses

\* ReachedFirst of the dumps of this run.
LEMMA DumpsReached ==
    ASSUME Dumped, NEW r \in Nat, NEW lo \in 1 .. Len(dumps) + 1
    PROVE  LET S == {j \in lo .. Len(dumps) : reached(dumps[j], r)}
           IN  /\ Cardinality(S) \in Nat
               /\ lo + Cardinality(S) <= Len(dumps) + 1
               /\ \A j \in lo .. Len(dumps) : j < lo + Cardinality(S) <=> dumps[j] <= r
<1>1. dumps \in Seq(Nat) /\ \A j, k \in 1 .. Len(dumps) : j <= k => dumps[j] <= dumps[k]
  BY DEF Dumped, Ascending
<1> QED BY <1>1, ReachedFirst, Zenon

LEMMA AccessesType == Dumped => accesses \in Nat
  BY TotalCost DEF Dumped

LEMMA BeforeAccessesStays ==
    ASSUME UNCHANGED <<tables, cost>>
    PROVE  beforeAccesses' = beforeAccesses
<1>1. totalCost' = totalCost
  BY DEF totalCost
<1> QED BY <1>1 DEF beforeAccesses, accessesAfter

LEMMA LoggedInit ==
    ASSUME VisualiserInit \/ CompressionInit
    PROVE  Logged
<1>1. Start
  BY DEF VisualiserInit, CompressionInit, Init
<1> QED BY <1>1 DEF Start, Logged

LEMMA WarmupStep ==
    ASSUME Dumped, Logged, warmup
    PROVE  Logged'
<1> DEFINE z == Cardinality({j \in 1 .. Len(dumps) : reached(dumps[j], 0)})
<1>0. Len(dumps) \in Nat /\ 0 \in Nat /\ Blocks \in Nat
  BY SnapshotsAssumption DEF Dumped
<1>1. z \in Nat /\ 1 + z <= Len(dumps) + 1
  <2>1. 1 \in 1 .. Len(dumps) + 1
    BY <1>0
  <2> QED BY <1>0, <2>1, DumpsReached, Zenon
<1>2. cache_log = <<>> /\ curr = 1 /\ retired = 0
  BY DEF Logged, warmup
<1>3. /\ cache_log' = cache_log \o [i \in 1 .. z * Blocks |-> 0] /\ curr' = 1 + z
      /\ retired' = 0 /\ phase' = "filling" /\ UNCHANGED <<dumps, tables, cost>>
  BY <1>2 DEF warmup, logReached
<1>4. beforeAccesses' = z
  BY <1>3, BeforeAccessesStays, EarlyDumps
<1> HIDE DEF z
<1>5. z * Blocks \in Nat /\ z + 0 = z
  BY <1>0, <1>1, Product
<1>6. /\ cache_log' \in Seq(Nat) /\ Len(cache_log') = (z + 0) * Blocks
      /\ \A i \in 1 .. z * Blocks : cache_log'[i] = 0
  <2>1. [i \in 1 .. z * Blocks |-> 0] \in Seq(Nat)
    BY <1>5
  <2>2. cache_log' = [i \in 1 .. z * Blocks |-> 0]
    BY <1>2, <1>3, <2>1, ConcatEmptySeq
  <2> QED BY <1>5, <2>1, <2>2
<1>7. LogOf(cache_log', dumps', z, 0)
  BY <1>6 DEF LogOf
<1>8. curr' \in 1 .. Len(dumps') + 1
  BY <1>0, <1>1, <1>3
<1> QED BY <1>3, <1>4, <1>6, <1>7, <1>8 DEF Logged

LEMMA FillingStep ==
    ASSUME Dumped, Logged, filling
    PROVE  Logged'
<1> DEFINE z == Cardinality({j \in 1 .. Len(dumps) : reached(dumps[j], 0)})
<1>0. Len(dumps) \in Nat /\ 0 \in Nat /\ \A j \in 1 .. Len(dumps) : dumps[j] \in Nat
  BY DEF Dumped
<1>1. /\ z \in Nat /\ 1 + z <= Len(dumps) + 1
      /\ \A j \in 1 .. Len(dumps) : j < 1 + z <=> dumps[j] <= 0
  <2>1. 1 \in 1 .. Len(dumps) + 1
    BY <1>0
  <2> QED BY <1>0, <2>1, DumpsReached, Zenon
<1>2. /\ cache_log' = cache_log \o [i \in 1 .. z * Blocks |-> 0] /\ curr' = 1 + z
      /\ phase' = "simulation" /\ UNCHANGED <<dumps, tables, cost, retired>>
  BY DEF filling, firstPoint
<1>3. beforeAccesses = z /\ beforeAccesses' = z
  BY <1>2, BeforeAccessesStays, EarlyDumps
<1>4. cache_log \in Seq(Nat) /\ retired = 0 /\ LogOf(cache_log, dumps, z, 0)
  BY <1>3 DEF Logged, filling
<1> HIDE DEF z
<1>5. \A j \in 0 + 1 .. 0 + z : dumps[j] = 0
  <2> SUFFICES ASSUME NEW j \in 1 .. z PROVE dumps[j] = 0
    BY <1>1
  <2>1. j \in 1 .. Len(dumps) /\ j < 1 + z
    BY <1>0, <1>1
  <2>2. dumps[j] \in Nat /\ dumps[j] <= 0
    BY <1>0, <1>1, <2>1
  <2> QED BY <2>2
<1>6. cache_log' \in Seq(Nat) /\ LogOf(cache_log', dumps, z, 0 + z)
  <2>1. /\ cache_log \o [i \in 1 .. z * Blocks |-> 0] \in Seq(Nat)
        /\ LogOf(cache_log \o [i \in 1 .. z * Blocks |-> 0], dumps, z, 0 + z)
    BY <1>0, <1>1, <1>4, <1>5, LogGrows, Zenon
  <2> QED BY <1>2, <2>1, Zenon
<1>7. LogOf(cache_log', dumps', z, curr' - 1)
  <2>1. curr' - 1 = 0 + z
    BY <1>1, <1>2
  <2> QED BY <1>2, <1>6, <2>1
<1>8. /\ curr' \in 1 .. Len(dumps') + 1 /\ retired' = 0
      /\ \A j \in 1 .. Len(dumps') : j < curr' <=> dumps'[j] <= retired'
  BY <1>0, <1>1, <1>2, <1>4
<1> QED BY <1>2, <1>3, <1>6, <1>7, <1>8 DEF Logged

LEMMA SimulationStep ==
    ASSUME Dumped, Logged, simulation
    PROVE  Logged'
<1>1. PICK s \in 0 .. 1 : logReached(retired + s)
  BY DEF simulation
<1> DEFINE r == retired + s
           k == Cardinality({j \in curr .. Len(dumps) : reached(dumps[j], r)})
           c == curr - 1
           z == beforeAccesses
<1>2. /\ retired \in Nat /\ r \in Nat /\ Len(dumps) \in Nat /\ curr \in 1 .. Len(dumps) + 1
      /\ c \in Nat /\ \A j \in 1 .. Len(dumps) : dumps[j] \in Nat
  <2>1. retired \in Nat /\ curr \in 1 .. Len(dumps) + 1 /\ dumps \in Seq(Nat)
    BY DEF Dumped, Logged
  <2> QED BY <2>1
<1>3. /\ k \in Nat /\ curr + k <= Len(dumps) + 1
      /\ \A j \in curr .. Len(dumps) : j < curr + k <=> dumps[j] <= r
  BY <1>2, DumpsReached, Zenon
<1>4. /\ cache_log \in Seq(Nat) /\ LogOf(cache_log, dumps, z, c)
      /\ \A j \in 1 .. Len(dumps) : j < curr <=> dumps[j] <= retired
  BY DEF Logged, simulation
<1>5. /\ cache_log' = cache_log \o [i \in 1 .. k * Blocks |-> r]
      /\ curr' = curr + k /\ retired' = r
      /\ UNCHANGED <<dumps, tables, cost, accesses>>
  BY <1>1 DEF logReached
<1>6. z \in Nat /\ beforeAccesses' = z
  <2>1. 1 \in 1 .. Len(dumps) + 1 /\ 0 \in Nat
    BY <1>2
  <2>2. z \in Nat
    BY <2>1, EarlyDumps, DumpsReached, Zenon
  <2> QED BY <1>5, <2>2, BeforeAccessesStays
<1> HIDE DEF k, z
<1>7. \A j \in c + 1 .. c + k : dumps[j] = r
  <2> SUFFICES ASSUME NEW j \in c + 1 .. c + k PROVE dumps[j] = r
    OBVIOUS
  <2>1. j \in curr .. Len(dumps) /\ j < curr + k /\ j \in 1 .. Len(dumps) /\ ~(j < curr)
    BY <1>2, <1>3
  <2>2. dumps[j] \in Nat /\ dumps[j] <= r /\ ~(dumps[j] <= retired)
    BY <1>2, <1>3, <1>4, <2>1
  <2> QED BY <1>2, <2>2
<1>8. cache_log' \in Seq(Nat) /\ LogOf(cache_log', dumps', z, curr' - 1)
  <2> HIDE DEF r, c
  <2>1. /\ cache_log \o [i \in 1 .. k * Blocks |-> r] \in Seq(Nat)
        /\ LogOf(cache_log \o [i \in 1 .. k * Blocks |-> r], dumps, z, c + k)
    BY <1>2, <1>3, <1>4, <1>6, <1>7, LogGrows, Zenon
  <2>2. curr' - 1 = c + k
    BY <1>2, <1>3, <1>5 DEF c
  <2> QED BY <1>5, <2>1, <2>2, Zenon
<1>9. /\ curr' \in 1 .. Len(dumps') + 1 /\ retired' \in Nat
      /\ \A j \in 1 .. Len(dumps') : j < curr' <=> dumps'[j] <= retired'
  <2>1. ASSUME NEW j \in 1 .. Len(dumps) PROVE j < curr + k <=> dumps[j] <= r
    <3>1. CASE j < curr
      BY <1>2, <1>3, <1>4, <3>1
    <3>2. CASE ~(j < curr)
      <4>1. j \in curr .. Len(dumps)
        BY <1>2, <3>2
      <4> QED BY <1>3, <4>1
    <3> QED BY <3>1, <3>2
  <2> QED BY <1>2, <1>3, <1>5, <2>1
<1>10. phase' \in {"simulation", "drawing"}
  BY DEF simulation
<1>11. phase' = "drawing" => curr' = Len(dumps') + 1
  <2> SUFFICES ASSUME phase' = "drawing" PROVE curr' = Len(dumps) + 1
    BY <1>5
  <2>1. accesses <= retired'
    BY DEF simulation
  <2>2. ASSUME NEW j \in 1 .. Len(dumps) PROVE j < curr'
    <3>1. dumps[j] <= accesses /\ accesses \in Nat
      BY AccessesType DEF Dumped, Paired
    <3> QED BY <1>2, <1>5, <1>9, <2>1, <3>1
  <2>3. Len(dumps) # 0 => Len(dumps) < curr'
    BY <1>2, <2>2
  <2> QED BY <1>2, <1>5, <1>9, <2>3
<1> QED BY <1>6, <1>8, <1>9, <1>10, <1>11 DEF Logged, z

LEMMA LoggedStep ==
    ASSUME Dumped, Logged, [StudyNext]_allVars
    PROVE  Logged'
<1>1. CASE handleRequest
  <2>1. /\ phase = "controller" /\ phase' = "controller"
        /\ UNCHANGED <<retired, curr, cache_log>>
    BY <1>1 DEF handleRequest
  <2>2. Len(dumps') \in Nat
    BY <1>1, RequestStep DEF Dumped
  <2> QED BY <2>1, <2>2 DEF Logged
<1>2. CASE runChampsim \/ chopUpTableLogs
  <2>1. /\ phase = "controller" /\ phase' \in {"stopped", "warmup", "compressing"}
        /\ UNCHANGED <<retired, curr, cache_log, dumps>>
    BY <1>2 DEF runChampsim, chopUpTableLogs
  <2> QED BY <2>1 DEF Logged
<1>3. CASE draw
  <2>1. /\ phase = "drawing" /\ phase' \in {"drawing", "stopped"}
        /\ UNCHANGED <<retired, curr, cache_log, dumps, tables, cost>>
    BY <1>3 DEF draw
  <2> QED BY <2>1, BeforeAccessesStays DEF Logged
<1>4. CASE UNCHANGED allVars
  <2>1. UNCHANGED <<phase, retired, curr, cache_log, dumps, tables, cost>>
    BY <1>4 DEF allVars, vars
  <2> QED BY <2>1, BeforeAccessesStays DEF Logged
<1> QED BY <1>1, <1>2, <1>3, <1>4, WarmupStep, FillingStep, SimulationStep DEF StudyNext

\* Every table has its entry in the cache log, and an early one two: the two logs
\* visualiser.py reads in parallel have the entries of the same moments.
THEOREM LogsPairedAlways == StudySpec => []LogsPaired
<1>1. Dumped /\ Logged => LogsPaired
  <2> SUFFICES ASSUME Dumped, Logged, phase = "drawing" PROVE LogsPaired
    BY DEF LogsPaired
  <2>1. /\ LogOf(cache_log, dumps, beforeAccesses, Len(dumps))
        /\ Len(dumps) = Len(tables) /\ DOMAIN tables = 1 .. Len(tables)
    <3>1. Len(dumps) \in Nat /\ curr = Len(dumps) + 1
      BY DEF Dumped, Logged
    <3>2. curr - 1 = Len(dumps)
      BY <3>1
    <3> QED BY <3>2 DEF Dumped, Logged
  <2>2. \A k \in 1 .. Len(tables) : dumps[k] = accessesAfter(tables[k])
    BY DEF Dumped, Paired
  <2> QED BY <2>1, <2>2, Zenon DEF LogsPaired, LogOf
<1> QED BY DumpedInit, DumpedStep, LoggedInit, LoggedStep, <1>1, PTL DEF StudySpec

-----------------------------------------------------------------------------
(* Images *)

\* The k-th image has the k-th log point as its name and shows the k-th table.
Drawn ==
    /\ images \in Seq([p : Int, table : Int, cache : SUBSET Nat])
    /\ Len(images) <= Len(tables) /\ Len(images) <= Len(logpoints)
    /\ \A k \in 1 .. Len(images) :
          images[k].p = logpoints[k] /\ images[k].table = tables[k]
    /\ phase \notin {"drawing", "stopped"} => images = <<>>
    /\ phase = "stopped" => Len(images) = Len(tables) /\ Len(tables) < Len(logpoints)

LEMMA DrawnInit ==
    ASSUME VisualiserInit \/ CompressionInit
    PROVE  Drawn
<1>1. Start
  BY DEF VisualiserInit, CompressionInit, Init
<1>2. Dumped
  BY DumpedInit
<1> QED BY <1>1, <1>2 DEF Start, Drawn, Dumped

LEMMA DrawStep ==
    ASSUME Dumped, Logged, Drawn, draw
    PROVE  Drawn'
<1> DEFINE k == Len(images) + 1
           image == [p |-> logpoints[k], table |-> tables[k], cache |-> blocksRead(k)]
<1>1. /\ k \in 1 .. Len(logpoints) /\ Len(images) \in Nat /\ Len(tables) \in Nat
      /\ Len(images) <= Len(tables) /\ Len(logpoints) \in Nat
  BY DEF Dumped, Drawn, draw
<1>2. UNCHANGED <<logpoints, tables>> /\ phase = "drawing"
  BY DEF draw
<1>3. CASE k <= Len(tables)
  <2>1. images' = Append(images, image) /\ UNCHANGED phase
    BY <1>3 DEF draw
  <2>2. blocksRead(k) \in SUBSET Nat
    BY DEF blocksRead, Logged
  <2>3. logpoints[k] \in Int /\ tables[k] \in Int
    BY <1>1, <1>3 DEF Dumped
  <2>4. image \in [p : Int, table : Int, cache : SUBSET Nat]
    BY <2>2, <2>3
  <2>5. image.p = logpoints[k] /\ image.table = tables[k]
    OBVIOUS
  <2> HIDE DEF image
  <2>6. /\ images' \in Seq([p : Int, table : Int, cache : SUBSET Nat])
        /\ Len(images') = k /\ images'[k] = image
        /\ \A i \in 1 .. Len(images) : images'[i] = images[i]
    BY <2>1, <2>4 DEF Drawn
  <2>7. ASSUME NEW i \in 1 .. k
        PROVE  images'[i].p = logpoints[i] /\ images'[i].table = tables[i]
    <3>1. CASE i = k
      BY <2>5, <2>6, <3>1
    <3>2. CASE i # k
      <4>1. i \in 1 .. Len(images)
        BY <1>1, <3>2
      <4> QED BY <2>6, <4>1 DEF Drawn
    <3> QED BY <3>1, <3>2
  <2> QED BY <1>1, <1>2, <1>3, <2>1, <2>6, <2>7 DEF Drawn
<1>4. CASE ~(k <= Len(tables))
  <2>1. phase' = "stopped" /\ UNCHANGED images
    BY <1>4 DEF draw
  <2>2. Len(images) = Len(tables) /\ Len(tables) < Len(logpoints)
    BY <1>1, <1>4
  <2> QED BY <1>2, <2>1, <2>2 DEF Drawn
<1> QED BY <1>3, <1>4

LEMMA DrawnStep ==
    ASSUME Dumped, Logged, Drawn, [StudyNext]_allVars
    PROVE  Drawn'
<1>1. CASE handleRequest
  <2>1. phase = "controller" /\ UNCHANGED <<phase, images, logpoints>>
    BY <1>1 DEF handleRequest
  <2>2. images = <<>> /\ Len(tables') \in Nat
    BY <1>1, <2>1, RequestStep DEF Drawn, Dumped
  <2> QED BY <2>1, <2>2 DEF Drawn
<1>2. CASE runChampsim
  <2>1. /\ phase = "controller" /\ phase' \in {"warmup", "stopped"}
        /\ phase' = "stopped" => dumps = <<>>
        /\ UNCHANGED <<images, logpoints, tables>>
    BY <1>2 DEF runChampsim
  <2>2. images = <<>>
    BY <2>1 DEF Drawn
  <2>3. phase' = "stopped" => Len(tables) = 0 /\ 0 < Len(logpoints)
    BY <2>1, EmptySeq DEF Dumped
  <2> QED BY <2>1, <2>2, <2>3 DEF Drawn
<1>3. ASSUME warmup \/ filling \/ simulation \/ chopUpTableLogs PROVE Drawn'
  <2>1. /\ phase \notin {"drawing", "stopped"} /\ phase' # "stopped"
        /\ UNCHANGED <<images, logpoints, tables>>
    BY <1>3 DEF warmup, filling, simulation, chopUpTableLogs, logReached
  <2> QED BY <2>1 DEF Drawn
<1>4. CASE UNCHANGED allVars
  BY <1>4 DEF allVars, vars, Drawn
<1> QED BY <1>1, <1>2, <1>3, <1>4, DrawStep DEF StudyNext

LEMMA StudyAlways == StudySpec => [](Dumped /\ Logged /\ Drawn)
  BY DumpedInit, DumpedStep, LoggedInit, LoggedStep, DrawnInit, DrawnStep, PTL DEF StudySpec

\* Images come in the order of the requests, one for each log point reached, in
\* whatever order and however often the points were given.
THEOREM TablesPairedAlways == StudySpec => []TablesPaired
<1>1. Dumped /\ Drawn => TablesPaired
  <2> SUFFICES ASSUME Dumped, Drawn, NEW k \in DOMAIN images
               PROVE  /\ images[k].table \in pointsReached
                      /\ Cardinality(reachedBefore(images[k].table)) = k - 1
    BY DEF TablesPaired
  <2>0. k \in 1 .. Len(images) /\ Len(images) <= Len(tables)
    BY DEF Drawn
  <2>1. k \in 1 .. Len(images) /\ k \in 1 .. Len(tables)
    <3>1. Len(images) \in Nat /\ Len(tables) \in Nat
      BY DEF Dumped, Drawn
    <3> QED BY <2>0, <3>1
  <2>2. images[k].table = tables[k]
    BY <2>1 DEF Drawn
  <2>3. tables[k] \in reachedBefore(processed) /\ Cardinality(reachedBefore(tables[k])) = k - 1
    BY <2>1 DEF Dumped, Paired
  <2> QED BY <2>2, <2>3 DEF reachedBefore
<1> QED BY StudyAlways, <1>1, PTL

\* A list of log points has at most as many different ones as it has entries.
LEMMA PointsReachedBound ==
    ASSUME logpoints \in Seq(Int)
    PROVE  Cardinality(pointsReached) \in Nat /\ Cardinality(pointsReached) <= Len(logpoints)
<1>1. Len(logpoints) \in Nat /\ DOMAIN logpoints = 1 .. Len(logpoints)
  OBVIOUS
<1>2. logpoints \in Surjection(1 .. Len(logpoints), ToSet(logpoints))
  BY <1>1 DEF Surjection, ToSet
<1>3. IsFiniteSet(1 .. Len(logpoints)) /\ Cardinality(1 .. Len(logpoints)) = Len(logpoints)
  BY <1>1, FS_Interval
<1>4. /\ IsFiniteSet(ToSet(logpoints))
      /\ Cardinality(ToSet(logpoints)) <= Len(logpoints)
  BY <1>2, <1>3, FS_Surjection
<1>5. pointsReached \subseteq ToSet(logpoints)
  BY DEF pointsReached
<1>6. /\ IsFiniteSet(pointsReached)
      /\ Cardinality(pointsReached) <= Cardinality(ToSet(logpoints))
  BY <1>4, <1>5, FS_Subset
<1> QED BY <1>1, <1>4, <1>6, FS_CardinalityType

\* No image is missing but those for which there is no table.
THEOREM ImagesCompleteAlways == StudySpec => []ImagesComplete
<1>1. Dumped /\ Drawn => ImagesComplete
  <2> SUFFICES ASSUME Dumped, Drawn PROVE ImagesComplete
    OBVIOUS
  <2>1. /\ Cardinality(pointsReached) \in Nat
        /\ Cardinality(pointsReached) <= Len(logpoints)
    BY PointsReachedBound DEF Dumped
  <2>2. phase # "controller" => Len(tables) = Cardinality(pointsReached)
    BY ReachedAll DEF Dumped
  <2>3. phase = "controller" => Len(images) # Len(logpoints)
    BY EmptySeq DEF Dumped, Drawn
  <2>4. /\ Len(images) <= Len(tables) /\ Len(images) \in Nat /\ Len(tables) \in Nat
        /\ phase = "stopped" => Len(images) = Len(tables) /\ Len(tables) < Len(logpoints)
    BY DEF Dumped, Drawn
  <2> QED BY <2>1, <2>2, <2>3, <2>4 DEF ImagesComplete
<1> QED BY StudyAlways, <1>1, PTL

\* With a single log point all blocks of the cache log are of its moment.
LEMMA OneEntry ==
    ASSUME Dumped, Logged, Len(logpoints) = 1, phase = "drawing", 1 <= Len(tables)
    PROVE  blocksRead(1) = {accessesAfter(logpoints[1])}
<1> DEFINE z == beforeAccesses
<1>0. Blocks \in Nat \ {0} /\ N \in Nat \ {0}
  BY SnapshotsAssumption
<1>1. Len(tables) = 1 /\ Len(dumps) = 1 /\ DOMAIN tables = {1}
  <2>1. Len(tables) = Cardinality(pointsReached)
    BY ReachedAll DEF Dumped
  <2>2. Len(tables) \in Nat /\ Len(tables) <= 1
    BY <2>1, PointsReachedBound DEF Dumped
  <2>3. Len(dumps) = Len(tables) /\ DOMAIN tables = 1 .. Len(tables)
    BY DEF Dumped
  <2> QED BY <2>2, <2>3
<1>2. dumps[1] = accessesAfter(logpoints[1]) /\ dumps[1] = accessesAfter(tables[1])
  <2>0. 1 \in 1 .. Len(tables)
    BY <1>1
  <2>1. tables[1] \in ToSet(logpoints) /\ dumps[1] = accessesAfter(tables[1])
    <3>1. tables[1] \in reachedBefore(processed) /\ dumps[1] = accessesAfter(tables[1])
      BY <2>0, Zenon DEF Dumped, Paired
    <3> QED BY <3>1, Zenon DEF reachedBefore, pointsReached
  <2>2. DOMAIN logpoints = {1}
    BY DEF Dumped
  <2> QED BY <2>1, <2>2 DEF ToSet
<1>3. z \in Nat /\ (z # 0 => dumps[1] = 0)
  <2> DEFINE early == {k \in DOMAIN tables : accessesAfter(tables[k]) = 0}
  <2>1. IsFiniteSet({1}) /\ early \subseteq {1}
    BY <1>1, FS_Singleton
  <2>2. IsFiniteSet(early)
    BY <2>1, FS_Subset
  <2>3. Cardinality(early) \in Nat /\ (Cardinality(early) # 0 => early # {})
    BY <2>2, FS_CardinalityType, FS_EmptySet
  <2>4. early # {} => dumps[1] = 0
    BY <1>1, <1>2
  <2> QED BY <2>3, <2>4 DEF beforeAccesses
<1>4. cache_log \in Seq(Nat) /\ LogOf(cache_log, dumps, z, 1)
  BY <1>1 DEF Logged
<1> HIDE DEF z
<1>5. /\ z * Blocks \in Nat /\ (z + 1) * Blocks = z * Blocks + Blocks
      /\ (z + 1 - 1) * Blocks = z * Blocks
  <2>1. 1 * Blocks = Blocks /\ z + 1 - 1 = z
    BY <1>0, <1>3
  <2> QED BY <1>0, <1>3, <2>1, Product, ProductOfSum
<1>6. DOMAIN cache_log = 1 .. z * Blocks + Blocks
  BY <1>4, <1>5 DEF LogOf
<1>7. ASSUME NEW j \in DOMAIN cache_log PROVE cache_log[j] = dumps[1]
  <2>1. CASE j <= z * Blocks
    <3>1. j \in 1 .. z * Blocks
      BY <1>5, <1>6, <2>1
    <3>2. z # 0
      BY <1>0, <3>1
    <3> QED BY <1>3, <1>4, <3>1, <3>2 DEF LogOf
  <2>2. CASE ~(j <= z * Blocks)
    <3> DEFINE b == j - z * Blocks
    <3>1. b \in 1 .. Blocks /\ j = z * Blocks + b
      BY <1>0, <1>5, <1>6, <2>2
    <3> HIDE DEF b
    <3>2. 1 \in 1 .. 1
      OBVIOUS
    <3>3. cache_log[(z + 1 - 1) * Blocks + b] = dumps[1]
      BY <1>4, <3>1, <3>2, Zenon DEF LogOf
    <3> QED BY <1>5, <3>1, <3>3
  <2> QED BY <2>1, <2>2
<1>8. 1 \in DOMAIN cache_log /\ (1 - 1) * N < 1 /\ 1 <= 1 * N
  BY <1>0, <1>5, <1>6
<1>9. 1 \in {j \in DOMAIN cache_log : (1 - 1) * N < j /\ j <= 1 * N}
  BY <1>8
<1>10. blocksRead(1) = {dumps[1]}
  BY <1>7, <1>9, Zenon DEF blocksRead
<1> QED BY <1>2, <1>10

LEMMA SingleStep ==
    ASSUME Dumped, Logged, Drawn, SingleSnapshot, [StudyNext]_allVars
    PROVE  SingleSnapshot'
<1>0. DOMAIN images = 1 .. Len(images) /\ Len(images) \in Nat
  BY DEF Drawn
<1>1. ASSUME UNCHANGED images, UNCHANGED logpoints, UNCHANGED cost PROVE SingleSnapshot'
  <2>1. totalCost' = totalCost
    BY <1>1 DEF totalCost
  <2> QED BY <1>1, <2>1 DEF SingleSnapshot, accessesAfter
<1>2. CASE draw /\ ~ UNCHANGED images
  <2> SUFFICES ASSUME Len(logpoints) = 1 PROVE SingleSnapshot'
    BY <1>2 DEF SingleSnapshot, draw
  <2>1. Len(images) = 0 /\ 1 <= Len(tables) /\ Len(images) + 1 = 1
    BY <1>0, <1>2 DEF draw
  <2> DEFINE image == [p |-> logpoints[1], table |-> tables[1], cache |-> blocksRead(1)]
  <2>2. images' = Append(images, image) /\ UNCHANGED <<logpoints, cost>> /\ phase = "drawing"
    BY <1>2, <2>1 DEF draw
  <2>3. blocksRead(1) = {accessesAfter(logpoints[1])}
    BY <2>1, <2>2, OneEntry
  <2>4. image.p = logpoints[1] /\ image.cache = {accessesAfter(logpoints[1])}
    BY <2>3
  <2> HIDE DEF image
  <2>5. images = <<>>
    BY <2>1, EmptySeq DEF Drawn
  <2>6. DOMAIN images' = {1} /\ images'[1] = image
    BY <2>2, <2>5
  <2>7. totalCost' = totalCost
    BY <2>2 DEF totalCost
  <2> QED BY <2>2, <2>4, <2>6, <2>7 DEF SingleSnapshot, accessesAfter
<1>3. UNCHANGED <<images, logpoints, cost>> \/ draw
  BY DEF StudyNext, handleRequest, runChampsim, warmup, filling, simulation, logReached,
         chopUpTableLogs, allVars, vars
<1>4. draw => UNCHANGED <<logpoints, cost>>
  BY DEF draw
<1> QED BY <1>1, <1>2, <1>3, <1>4

\* An image of a single log point shows table and cache of the same moment.
THEOREM SingleSnapshotAlways == StudySpec => []SingleSnapshot
<1>1. ASSUME VisualiserInit \/ CompressionInit PROVE SingleSnapshot
  <2>1. Start
    BY <1>1 DEF VisualiserInit, CompressionInit, Init
  <2> QED BY <2>1 DEF Start, SingleSnapshot
<1> QED BY StudyAlways, SingleStep, <1>1, PTL DEF StudySpec

-----------------------------------------------------------------------------
(* The compression study *)

\* The log points are the ends of the divisions; the pieces are cut as soon as the
\* controller is done.
Divided ==
    /\ script = "compression" =>
          /\ divisions \in Nat \ {0} /\ n \in Nat
          /\ logpoints \in [1 .. divisions -> Int]
          /\ \A i \in 1 .. divisions : logpoints[i] \in endsOf(i)
    /\ phase = "compressing" =>
          /\ script = "compression"
          /\ pieces = [i \in 1 .. divisions |->
                          SubSeq(controllerLog, (i - 1) * size_one + 1, i * size_one)]

LEMMA DividedInit ==
    ASSUME VisualiserInit \/ CompressionInit
    PROVE  Divided
<1>1. phase = "controller"
  BY DEF VisualiserInit, CompressionInit, Init, Start
<1>2. CASE VisualiserInit
  BY <1>1, <1>2 DEF VisualiserInit, Divided
<1>3. CASE CompressionInit
  <2>1. divisions \in Nat \ {0} /\ n \in Nat
    BY <1>3, CompressionAssumption, SnapshotsAssumption DEF CompressionInit
  <2>2. /\ logpoints \in [1 .. divisions -> Int]
        /\ \A i \in 1 .. divisions : logpoints[i] \in endsOf(i)
    BY <1>3, CompressionAssumption DEF CompressionInit
  <2> QED BY <1>1, <2>1, <2>2 DEF Divided
<1> QED BY <1>2, <1>3

\* The log of the tables, and how it is cut, change only while the controller runs.
LEMMA SameLog ==
    ASSUME UNCHANGED <<tables, divisions>>
    PROVE  UNCHANGED <<controllerLog, size_one>>
  BY DEF controllerLog, size_one, table

LEMMA SameEnds ==
    ASSUME UNCHANGED <<n, divisions>>
    PROVE  \A i : endsOf(i)' = endsOf(i)
  BY DEF endsOf

LEMMA DividedStep ==
    ASSUME Divided, [StudyNext]_allVars
    PROVE  Divided'
<1>1. UNCHANGED <<logpoints, script, n, divisions>>
  BY DEF StudyNext, handleRequest, runChampsim, warmup, filling, simulation, draw,
         logReached, chopUpTableLogs, allVars, vars, study
<1>2. \A i : endsOf(i)' = endsOf(i)
  BY <1>1, SameEnds
<1>3. CASE chopUpTableLogs
  <2>1. UNCHANGED <<controllerLog, size_one>>
    BY <1>1, <1>3, SameLog DEF chopUpTableLogs
  <2> QED BY <1>1, <1>2, <1>3, <2>1 DEF Divided, chopUpTableLogs
<1>4. CASE handleRequest \/ runChampsim \/ warmup \/ filling \/ simulation \/ draw
  <2>1. phase' # "compressing"
    BY <1>4 DEF handleRequest, runChampsim, warmup, filling, simulation, draw
  <2> QED BY <1>1, <1>2, <2>1 DEF Divided
<1>5. CASE UNCHANGED allVars
  <2>1. UNCHANGED <<tables, phase, pieces>>
    BY <1>5 DEF allVars, vars, study
  <2>2. UNCHANGED <<controllerLog, size_one>>
    BY <1>1, <2>1, SameLog
  <2> QED BY <1>1, <1>2, <2>1, <2>2 DEF Divided
<1> QED BY <1>3, <1>4, <1>5 DEF StudyNext

\* Every table has its own TableSize bytes of the log.
LEMMA LogBytes ==
    ASSUME tables \in Seq(Int)
    PROVE  /\ Len(tables) * TableSize \in Nat
           /\ DOMAIN controllerLog = 1 .. Len(tables) * TableSize
           /\ Len(controllerLog) = Len(tables) * TableSize
           /\ \A k \in 1 .. Len(tables), byte \in 1 .. TableSize :
                 /\ (k - 1) * TableSize + byte \in 1 .. Len(tables) * TableSize
                 /\ controllerLog[(k - 1) * TableSize + byte] = table(tables[k])[byte]
<1>0. TableSize \in Nat \ {0} /\ Len(tables) \in Nat
  BY CompressionAssumption
<1>1. Len(tables) * TableSize \in Nat
  BY <1>0, Product
<1>2. /\ DOMAIN controllerLog = 1 .. Len(tables) * TableSize
      /\ Len(controllerLog) = Len(tables) * TableSize
  BY <1>1 DEF controllerLog
<1>3. ASSUME NEW k \in 1 .. Len(tables), NEW byte \in 1 .. TableSize
      PROVE  /\ (k - 1) * TableSize + byte \in 1 .. Len(tables) * TableSize
             /\ controllerLog[(k - 1) * TableSize + byte] = table(tables[k])[byte]
  <2> DEFINE q == (k - 1) * TableSize
             last == Len(tables) * TableSize
  <2>1. q \in Nat /\ q + TableSize <= last /\ last \in Nat
    <3>1. (k - 1) + 1 = k /\ k - 1 \in Nat /\ 1 * TableSize = TableSize /\ k <= Len(tables)
      BY <1>0
    <3>2. k * TableSize = q + TableSize /\ q \in Nat
      BY <1>0, <3>1, Product, ProductOfSum
    <3>3. k * TableSize <= last
      BY <1>0, <3>1, ProductGrows
    <3> QED BY <1>1, <3>2, <3>3
  <2> HIDE DEF q, last
  <2>2. q + byte \in 1 .. last
    BY <1>0, <2>1
  <2>3. /\ (q + byte) - 1 \in Int /\ k - 1 \in Int /\ (k - 1) * TableSize = q
        /\ q <= (q + byte) - 1 /\ (q + byte) - 1 < q + TableSize
    BY <1>0, <2>1 DEF q
  <2>4. /\ ((q + byte) - 1) \div TableSize = k - 1
        /\ ((q + byte) - 1) % TableSize = ((q + byte) - 1) - q
    BY <1>0, <2>3, QuotientIs
  <2>5. /\ (((q + byte) - 1) \div TableSize) + 1 = k
        /\ (((q + byte) - 1) % TableSize) + 1 = byte
    BY <2>1, <2>4
  <2>6. controllerLog[q + byte] =
            table(tables[(((q + byte) - 1) \div TableSize) + 1])
                 [(((q + byte) - 1) % TableSize) + 1]
    <3>1. \A j \in 1 .. last :
              controllerLog[j] = table(tables[((j - 1) \div TableSize) + 1])
                                      [((j - 1) % TableSize) + 1]
      BY Zenon DEF controllerLog, last
    <3> QED BY <2>2, <3>1, Zenon
  <2> QED BY <2>2, <2>5, <2>6 DEF q, last
<1> QED BY <1>1, <1>2, <1>3

LEMMA PieceLength ==
    ASSUME tables \in Seq(Int), divisions \in Nat \ {0}, NEW i \in 1 .. divisions
    PROVE  LET piece == SubSeq(controllerLog, (i - 1) * size_one + 1, i * size_one)
           IN  /\ size_one \in Nat
               /\ piece = [byte \in 1 .. size_one |-> piece[byte]]
               /\ \A byte \in 1 .. size_one :
                     piece[byte] = controllerLog[(i - 1) * size_one + byte]
<1> DEFINE a == (i - 1) * size_one + 1
           b == i * size_one
           piece == SubSeq(controllerLog, a, b)
           S == {controllerLog[j] : j \in a .. b}
<1>1. Len(controllerLog) \in Nat
  BY LogBytes
<1>2. size_one \in Nat
  <2>1. size_one \in Int /\ Len(controllerLog) < size_one * divisions + divisions
    BY <1>1, Quotient DEF size_one
  <2>2. size_one < 0 => size_one * divisions <= (-1) * divisions
    BY <2>1, ProductGrows
  <2> QED BY <1>1, <2>1, <2>2
<1>3. /\ (i - 1) * size_one \in Nat /\ b = (i - 1) * size_one + size_one
  <2>1. (i - 1) + 1 = i /\ i - 1 \in Nat /\ 1 * size_one = size_one
    BY <1>2
  <2> QED BY <1>2, <2>1, Product, ProductOfSum
<1>4. a \in Int /\ b \in Int /\ b - a + 1 = size_one
      /\ \A byte : byte \in 1 .. size_one => a + byte - 1 = (i - 1) * size_one + byte
  BY <1>2, <1>3
<1>5. \A j \in a .. b : controllerLog[j] \in S
  OBVIOUS
<1> HIDE DEF a, b, S
<1>6. /\ piece \in Seq(S)
      /\ Len(piece) = IF a <= b THEN b - a + 1 ELSE 0
      /\ \A byte \in 1 .. b - a + 1 : piece[byte] = controllerLog[a + byte - 1]
  BY <1>4, <1>5, SubSeqProperties DEF piece
<1> HIDE DEF piece
<1>7. Len(piece) = size_one
  BY <1>2, <1>4, <1>6
<1>8. piece = [byte \in 1 .. size_one |-> piece[byte]]
  BY <1>6, <1>7
<1>9. \A byte \in 1 .. size_one : piece[byte] = controllerLog[(i - 1) * size_one + byte]
  BY <1>4, <1>6, Zenon
<1> QED BY <1>2, <1>8, <1>9 DEF piece, a, b

\* The pieces are tables exactly if there are as many, and otherwise none of them is:
\* they have another length.
THEOREM PiecesAreTablesAlways == StudySpec => []PiecesAreTables
<1>1. Dumped /\ Divided => PiecesAreTables
  <2> SUFFICES ASSUME Dumped, Divided, phase = "compressing"
               PROVE  IF Len(tables) = divisions
                      THEN pieces = [k \in 1 .. divisions |-> table(tables[k])]
                      ELSE \A i \in 1 .. divisions, r \in 0 .. Requests :
                              pieces[i] # table(r)
    BY DEF PiecesAreTables
  <2> DEFINE piece(i) == SubSeq(controllerLog, (i - 1) * size_one + 1, i * size_one)
             m == Len(tables)
  <2>1. /\ TableSize \in Nat \ {0} /\ divisions \in Nat \ {0} /\ m \in Nat
        /\ tables \in Seq(Int) /\ Len(controllerLog) = m * TableSize
        /\ m * TableSize \in Nat
    BY CompressionAssumption, LogBytes DEF Dumped, Divided
  <2>2. pieces = [i \in 1 .. divisions |-> piece(i)]
    BY DEF Divided
  <2>3. \A i \in 1 .. divisions :
           /\ size_one \in Nat
           /\ piece(i) = [byte \in 1 .. size_one |-> piece(i)[byte]]
           /\ \A byte \in 1 .. size_one :
                 piece(i)[byte] = controllerLog[(i - 1) * size_one + byte]
    BY <2>1, PieceLength
  <2>4. \A r : DOMAIN table(r) = 1 .. TableSize
    BY DEF table
  <2>5. CASE m = divisions
    <3>1. size_one = TableSize
      <4>1. /\ m * TableSize \in Int /\ divisions \in Nat \ {0} /\ TableSize \in Int
            /\ TableSize * divisions <= m * TableSize
            /\ m * TableSize < TableSize * divisions + divisions
        BY <2>1, <2>5
      <4>2. (m * TableSize) \div divisions = TableSize
        BY <4>1, QuotientIs
      <4> QED BY <2>1, <4>2 DEF size_one
    <3>2. ASSUME NEW k \in 1 .. divisions
          PROVE  piece(k) = table(tables[k])
      <4>1. ASSUME NEW byte \in 1 .. TableSize
            PROVE  piece(k)[byte] = table(tables[k])[byte]
        <5>1. piece(k)[byte] = controllerLog[(k - 1) * TableSize + byte]
          BY <2>3, <3>1
        <5>2. controllerLog[(k - 1) * TableSize + byte] = table(tables[k])[byte]
          BY <2>1, <2>5, LogBytes, Zenon
        <5> QED BY <5>1, <5>2
      <4>2. piece(k) = [byte \in 1 .. TableSize |-> piece(k)[byte]]
        BY <2>3, <3>1
      <4> QED BY <4>1, <4>2 DEF table
    <3> HIDE DEF piece
    <3> QED BY <2>2, <2>5, <3>2
  <2>6. CASE m # divisions
    <3>1. size_one # TableSize
      <4> SUFFICES ASSUME size_one = TableSize PROVE FALSE
        OBVIOUS
      <4>1. (m * TableSize) \div divisions = TableSize
        BY <2>1 DEF size_one
      <4>2. TableSize * divisions <= m * TableSize
        <5> DEFINE a == m * TableSize
        <5>1. a \in Int
          BY <2>1
        <5> HIDE DEF a
        <5>2. (a \div divisions) * divisions <= a
          BY <2>1, <5>1, Quotient
        <5> QED BY <4>1, <5>2, Zenon DEF a
      <4>3. m < divisions
        <5>1. m <= Cardinality(pointsReached)
          BY ReachedAll, PointsReachedBound DEF Dumped
        <5>2. Len(logpoints) = divisions
          BY <2>1 DEF Divided
        <5> QED BY <2>1, <2>6, <5>1, <5>2, PointsReachedBound DEF Dumped
      <4>4. (m + 1) * TableSize <= divisions * TableSize
        BY <2>1, <4>3, ProductGrows
      <4>5. (m + 1) * TableSize = m * TableSize + TableSize
        BY <2>1, ProductOfSum
      <4> QED BY <2>1, <4>2, <4>4, <4>5
    <3>2. ASSUME NEW i \in 1 .. divisions, NEW r \in 0 .. Requests
          PROVE  pieces[i] # table(r)
      <4>1. pieces[i] = piece(i) /\ DOMAIN piece(i) = 1 .. size_one
        BY <2>2, <2>3
      <4>2. 1 .. size_one # 1 .. TableSize
        BY <2>1, <2>3, <3>1
      <4> QED BY <2>4, <4>1, <4>2
    <3> QED BY <2>6, <3>2
  <2> QED BY <2>5, <2>6
<1> QED BY StudyAlways, DividedInit, DividedStep, <1>1, PTL DEF StudySpec

LEMMA QuotientBounds ==
    ASSUME NEW a \in Int, NEW d \in Nat \ {0}, NEW x \in Int
    PROVE  /\ x * d <= a => x <= a \div d
           /\ a <= x * d => a \div d <= x
<1> DEFINE q == a \div d
<1>1. q \in Int /\ q * d \in Int /\ x * d \in Int /\ q * d <= a /\ a < q * d + d
  BY Quotient
<1> HIDE DEF q
<1>2. (q + 1) * d = q * d + d /\ (x + 1) * d = x * d + d
  BY <1>1, ProductOfSum
<1>3. x * d <= a => x < q + 1
  BY <1>1, <1>2, ProductLess
<1>4. a <= x * d => q < x + 1
  BY <1>1, <1>2, ProductLess
<1> QED BY <1>1, <1>3, <1>4 DEF q

\* With two requests or more for each division the ends are requests of the trace, a
\* division before another ends before it, and the last is the end of the trace.
LEMMA Ends ==
    ASSUME divisions \in Nat \ {0}, n \in Nat, n >= 2 * divisions,
           NEW e, \A i \in 1 .. divisions : e[i] \in endsOf(i)
    PROVE  /\ \A i \in 1 .. divisions : e[i] \in 0 .. n - 1
           /\ \A i, j \in 1 .. divisions : i < j => e[i] < e[j]
           /\ e[divisions] = n - 1
<1> DEFINE q(i) == (i * n) \div divisions
<1>1. \A i \in 1 .. divisions : i \in Nat /\ i * n \in Nat
  BY Product
<1>2. ASSUME NEW i \in 1 .. divisions
      PROVE  q(i) \in Int /\ 2 <= q(i) /\ q(i) <= n
  <2>1. 1 * n <= i * n /\ i * n <= divisions * n /\ 1 * n = n /\ divisions * n = n * divisions
    BY ProductGrows
  <2>2. 2 * divisions <= i * n /\ i * n <= n * divisions /\ i * n \in Int
    BY <1>1, <2>1
  <2> QED BY <2>2, QuotientBounds, Quotient
<1>3. ASSUME NEW i \in 1 .. divisions, NEW j \in 1 .. divisions, i < j
      PROVE  q(i) + 2 <= q(j)
  <2>1. /\ q(i) \in Int /\ q(i) * divisions <= i * n
        /\ i * n \in Nat /\ j * n \in Nat
    BY <1>1, <1>2, Quotient
  <2>2. (i + 1) * n <= j * n /\ (i + 1) * n = i * n + n
    <3>1. i + 1 <= j /\ i \in Int /\ 1 * n = n
      BY <1>3
    <3> QED BY <3>1, ProductGrows, ProductOfSum
  <2> HIDE DEF q
  <2>3. (q(i) + 2) * divisions = q(i) * divisions + 2 * divisions
    BY <2>1, ProductOfSum
  <2>4. (q(i) + 2) * divisions <= j * n
    <3>1. q(i) * divisions \in Int
      BY <2>1
    <3> QED BY <2>1, <2>2, <2>3, <3>1
  <2> QED BY <2>1, <2>4, QuotientBounds DEF q
<1>4. ASSUME NEW i \in 1 .. divisions
      PROVE  /\ e[i] \in Int /\ q(i) - 2 <= e[i] /\ e[i] <= q(i) - 1
             /\ i = divisions => e[i] = q(i) - 1
  <2>1. e[i] \in endsOf(i)
    OBVIOUS
  <2> HIDE DEF q
  <2>2. \/ e[i] = q(i) - 1
        \/ i # divisions /\ e[i] = (q(i) - 1) - 1
    BY <2>1 DEF endsOf, q
  <2>3. q(i) \in Int
    BY <1>2
  <2> QED BY <2>2, <2>3
<1>5. q(divisions) = n
  <2>1. divisions * n \in Int /\ n * divisions <= divisions * n /\ divisions * n <= n * divisions
        /\ divisions * n < n * divisions + divisions
    BY <1>1
  <2> QED BY <2>1, QuotientIs
<1> HIDE DEF q
<1>6. \A i \in 1 .. divisions : e[i] \in 0 .. n - 1
  BY <1>2, <1>4
<1>7. ASSUME NEW i \in 1 .. divisions, NEW j \in 1 .. divisions, i < j
      PROVE  e[i] < e[j]
  <2>1. q(i) + 2 <= q(j) /\ q(i) \in Int /\ q(j) \in Int
    BY <1>2, <1>3, <1>7
  <2> QED BY <1>4, <2>1
<1>8. e[divisions] = n - 1
  <2>1. divisions \in 1 .. divisions
    OBVIOUS
  <2> QED BY <1>4, <1>5, <2>1
<1> QED BY <1>6, <1>7, <1>8

\* With two requests or more for each division no division is without its table, the
\* last table is that of the end, and so PiecesAreTables gives the pieces.
THEOREM DivisionsReachedAlways == StudySpec => []DivisionsReached
<1>1. Dumped /\ Divided => DivisionsReached
  <2> SUFFICES ASSUME Dumped, Divided, phase = "compressing", n = Requests, n >= 2 * divisions
               PROVE  Len(tables) = divisions /\ Last(tables) = n - 1
    BY DEF DivisionsReached
  <2>1. /\ divisions \in Nat \ {0} /\ n \in Nat
        /\ logpoints \in [1 .. divisions -> Int]
        /\ \A i \in 1 .. divisions : logpoints[i] \in endsOf(i)
    BY DEF Divided
  <2>2. /\ \A i \in 1 .. divisions : logpoints[i] \in 0 .. n - 1
        /\ \A i, j \in 1 .. divisions : i < j => logpoints[i] < logpoints[j]
        /\ logpoints[divisions] = n - 1
    BY <2>1, Ends
  <2>3. ToSet(logpoints) = {logpoints[i] : i \in 1 .. divisions}
    BY <2>1 DEF ToSet
  <2>4. ToSet(logpoints) \subseteq 0 .. n - 1
    BY <2>2, <2>3
  <2>5. pointsReached = ToSet(logpoints)
    BY <2>4 DEF pointsReached
  <2>6. logpoints \in Surjection(1 .. divisions, pointsReached)
    BY <2>1, <2>3, <2>5 DEF Surjection
  <2>7. logpoints \in Injection(1 .. divisions, pointsReached)
    <3>1. logpoints \in [1 .. divisions -> pointsReached]
      BY <2>6 DEF Surjection
    <3>2. ASSUME NEW i \in 1 .. divisions, NEW j \in 1 .. divisions, logpoints[i] = logpoints[j]
          PROVE  i = j
      <4>1. logpoints[i] \in Int /\ logpoints[j] \in Int /\ i \in Int /\ j \in Int
        BY <2>1
      <4>2. ~(i < j) /\ ~(j < i)
        BY <2>2, <3>2, <4>1
      <4> QED BY <4>1, <4>2
    <3>3. DOMAIN logpoints = 1 .. divisions
      BY <2>1
    <3>4. IsInjective(logpoints)
      BY <3>2, <3>3, Zenon DEF IsInjective
    <3> QED BY <3>1, <3>4, Zenon DEF Injection
  <2>8. IsFiniteSet(1 .. divisions) /\ Cardinality(1 .. divisions) = divisions
    BY <2>1, FS_Interval
  <2>9. IsFiniteSet(pointsReached) /\ Cardinality(pointsReached) = divisions
    BY <2>6, <2>7, <2>8, FS_Surjection
  <2>10. Len(tables) = divisions
    BY <2>9, ReachedAll DEF Dumped
  <2> DEFINE x == tables[divisions]
  <2>11. divisions \in 1 .. Len(tables)
    BY <2>1, <2>10
  <2>12. x \in reachedBefore(processed) /\ Cardinality(reachedBefore(x)) = divisions - 1
    BY <2>11, Zenon DEF Dumped, Paired
  <2>13. x \in pointsReached /\ x \in Int /\ x <= n - 1
    <3>1. x \in pointsReached
      BY <2>12 DEF reachedBefore
    <3> QED BY <2>1, <2>4, <2>5, <3>1
  <2> HIDE DEF x
  <2>14. x = n - 1
    <3> SUFFICES ASSUME x # n - 1 PROVE FALSE
      OBVIOUS
    <3>1. IsFiniteSet(reachedBefore(x)) /\ x \notin reachedBefore(x)
      BY <2>13, ReachedBefore DEF Dumped, reachedBefore
    <3>2. Cardinality(reachedBefore(x) \cup {x}) = divisions
      <4>1. Cardinality(reachedBefore(x) \cup {x}) = Cardinality(reachedBefore(x)) + 1
        BY <3>1, FS_AddElement
      <4> QED BY <2>1, <2>12, <4>1
    <3>3. n - 1 \in pointsReached
      BY <2>1, <2>2, <2>3, <2>5
    <3>4. /\ IsFiniteSet(pointsReached \ {n - 1})
          /\ Cardinality(pointsReached \ {n - 1}) = divisions - 1
      BY <2>9, <3>3, FS_RemoveElement
    <3>5. reachedBefore(x) \cup {x} \subseteq pointsReached \ {n - 1}
      <4>1. reachedBefore(x) \subseteq pointsReached /\ \A p \in reachedBefore(x) : p < x
        BY DEF reachedBefore
      <4>2. n - 1 \notin reachedBefore(x)
        BY <2>1, <2>13, <4>1
      <4> QED BY <2>13, <4>1, <4>2
    <3>6. Cardinality(reachedBefore(x) \cup {x}) <= divisions - 1
      BY <3>4, <3>5, FS_Subset
    <3> QED BY <2>1, <3>2, <3>6
  <2>15. Last(tables) = x
    BY <2>10 DEF Last, x
  <2> QED BY <2>10, <2>14, <2>15
<1> QED BY StudyAlways, DividedInit, DividedStep, <1>1, PTL DEF StudySpec
=============================================================================
