--------------------------- MODULE PhoenixLemmas ---------------------------
(***************************************************************************)
(* What the proofs about both Phoenix controllers rest on: what updateTWS  *)
(* does to the working set, for every twsSize and both replacement rules,  *)
(* and how the pages with DRAM change over the steps of a handler.         *)
(***************************************************************************)
EXTENDS DramSteps, TagWorkingSet, SequenceTheorems, FiniteSetTheorems, TLAPS

-----------------------------------------------------------------------------
(* The tag working set *)

distinct(s) == \A i, j \in 1 .. Len(s) : s[i] = s[j] => i = j

\* Erasing position i of a vector closes the gap and keeps the rest in order.
LEMMA RemoveAtProperties ==
    ASSUME NEW S, NEW s \in Seq(S), NEW i \in 1 .. Len(s)
    PROVE  /\ RemoveAt(s, i) \in Seq(S)
           /\ Len(RemoveAt(s, i)) = Len(s) - 1
           /\ \A j \in 1 .. Len(s) - 1 :
                 RemoveAt(s, i)[j] = IF j < i THEN s[j] ELSE s[j + 1]
<1> DEFINE before == SubSeq(s, 1, i - 1)
           after  == SubSeq(s, i + 1, Len(s))
<1>1. /\ before \in Seq(S)
      /\ Len(before) = i - 1
      /\ \A j \in 1 .. i - 1 : before[j] = s[j]
  <2>1. \A j \in 1 .. i - 1 : s[j] \in S
    BY ElementOfSeq, LenProperties
  <2> QED BY <2>1, SubSeqProperties
<1>2. /\ after \in Seq(S)
      /\ Len(after) = Len(s) - i
      /\ \A j \in 1 .. Len(s) - i : after[j] = s[i + j]
  <2>1. \A j \in i + 1 .. Len(s) : s[j] \in S
    BY ElementOfSeq, LenProperties
  <2>2. Len(s) \in Nat
    BY LenProperties
  <2> QED BY <2>1, <2>2, SubSeqProperties
<1>3. RemoveAt(s, i) = before \o after
  BY DEF RemoveAt
<1> HIDE DEF before, after
<1>4. /\ before \o after \in Seq(S)
      /\ Len(before \o after) = Len(before) + Len(after)
      /\ \A j \in 1 .. Len(before) + Len(after) :
            (before \o after)[j] = IF j <= Len(before) THEN before[j]
                                   ELSE after[j - Len(before)]
  BY <1>1, <1>2, ConcatProperties
<1> QED BY <1>1, <1>2, <1>3, <1>4, LenProperties

\* What erasing position i takes from a vector of distinct elements.
LEMMA RemoveAtDistinct ==
    ASSUME NEW S, NEW s \in Seq(S), distinct(s), NEW i \in 1 .. Len(s)
    PROVE  /\ distinct(RemoveAt(s, i))
           /\ ToSet(RemoveAt(s, i)) = ToSet(s) \ {s[i]}
<1> DEFINE r == RemoveAt(s, i)
<1>1. /\ r \in Seq(S)
      /\ Len(r) = Len(s) - 1
      /\ \A j \in 1 .. Len(s) - 1 : r[j] = IF j < i THEN s[j] ELSE s[j + 1]
  BY RemoveAtProperties
<1>2. Len(s) \in Nat /\ DOMAIN s = 1 .. Len(s) /\ DOMAIN r = 1 .. Len(r)
  BY <1>1, LenProperties
<1> HIDE DEF r
<1>3. distinct(r)
  BY <1>1, <1>2 DEF distinct
<1>4. ASSUME NEW e \in ToSet(r) PROVE e \in ToSet(s) \ {s[i]}
  <2>1. PICK j \in 1 .. Len(r) : e = r[j]
    BY <1>2 DEF ToSet
  <2> QED BY <1>1, <1>2, <2>1 DEF ToSet, distinct
<1>5. ASSUME NEW e \in ToSet(s) \ {s[i]} PROVE e \in ToSet(r)
  <2>1. PICK j \in 1 .. Len(s) : e = s[j] /\ j # i
    BY <1>2 DEF ToSet
  <2>2. CASE j < i
    BY <1>1, <1>2, <2>1, <2>2 DEF ToSet
  <2>3. CASE j > i
    <3>1. j - 1 \in 1 .. Len(r) /\ r[j - 1] = e
      BY <1>1, <1>2, <2>1, <2>3
    <3> QED BY <1>2, <3>1 DEF ToSet
  <2> QED BY <1>2, <2>1, <2>2, <2>3
<1> QED BY <1>3, <1>4, <1>5 DEF r

\* What adding a new element at the back gives.
LEMMA AppendDistinct ==
    ASSUME NEW S, NEW s \in Seq(S), distinct(s), NEW e \in S, e \notin ToSet(s)
    PROVE  /\ Append(s, e) \in Seq(S)
           /\ Len(Append(s, e)) = Len(s) + 1
           /\ Append(s, e)[Len(s) + 1] = e
           /\ \A i \in 1 .. Len(s) : Append(s, e)[i] = s[i]
           /\ distinct(Append(s, e))
           /\ ToSet(Append(s, e)) = ToSet(s) \cup {e}
<1>1. /\ Append(s, e) \in Seq(S)
      /\ Len(Append(s, e)) = Len(s) + 1
      /\ \A i \in 1 .. Len(s) : Append(s, e)[i] = s[i]
      /\ Append(s, e)[Len(s) + 1] = e
  BY AppendProperties
<1>2. /\ Len(s) \in Nat
      /\ DOMAIN s = 1 .. Len(s)
      /\ DOMAIN Append(s, e) = 1 .. Len(s) + 1
  BY <1>1, LenProperties
<1>3. \A i \in 1 .. Len(s) : s[i] # e
  BY <1>2 DEF ToSet
<1>4. distinct(Append(s, e))
  BY <1>1, <1>2, <1>3 DEF distinct
<1>5. ToSet(Append(s, e)) = ToSet(s) \cup {e}
  BY <1>1, <1>2 DEF ToSet
<1> QED BY <1>1, <1>4, <1>5

\* promote erases the one occurrence of p and pushes it at the back.
LEMMA PromoteProperties ==
    ASSUME NEW S, NEW s \in Seq(S), distinct(s), NEW p \in S, isInTWS(s, p)
    PROVE  /\ promote(s, p) \in Seq(S)
           /\ Len(promote(s, p)) = Len(s)
           /\ distinct(promote(s, p))
           /\ ToSet(promote(s, p)) = ToSet(s)
           /\ promote(s, p)[Len(promote(s, p))] = p
<1>1. PICK i \in 1 .. Len(s) : s[i] = p
  BY DEF isInTWS, Contains
<1>2. RemoveFirst(s, p) = RemoveAt(s, i)
  <2>1. {j \in 1 .. Len(s) : s[j] = p} = {i}
    BY <1>1 DEF distinct
  <2>2. SelectInSeq(s, LAMBDA v : v = p) = i
    BY <2>1 DEF SelectInSeq, Min
  <2> QED BY <1>1, <2>2 DEF RemoveFirst
<1> DEFINE r == RemoveAt(s, i)
<1>3. r \in Seq(S) /\ Len(r) = Len(s) - 1 /\ distinct(r) /\ ToSet(r) = ToSet(s) \ {p}
  BY <1>1, RemoveAtProperties, RemoveAtDistinct
<1>4. promote(s, p) = Append(r, p) /\ p \in ToSet(s) /\ Len(s) \in Nat
  BY <1>1, <1>2, LenProperties DEF promote, ToSet
<1> HIDE DEF r
<1>5. /\ Append(r, p) \in Seq(S)
      /\ Len(Append(r, p)) = Len(r) + 1
      /\ Append(r, p)[Len(r) + 1] = p
      /\ distinct(Append(r, p))
      /\ ToSet(Append(r, p)) = ToSet(r) \cup {p}
  BY <1>3, AppendDistinct
<1> QED BY <1>3, <1>4, <1>5

\* updateTWS(p): p is in the set, at the back; at most one page, never p, leaves
\* it, and none does while there is room.
THEOREM TouchedProperties ==
    ASSUME NEW S, NEW s \in Seq(S), distinct(s), Len(s) <= twsSize, NEW p \in S
    PROVE  /\ touched(s, p) \in Seq(S)
           /\ distinct(touched(s, p))
           /\ Len(touched(s, p)) <= twsSize
           /\ isInTWS(s, p) <=> p \in ToSet(s)
           /\ evicts(s, p) => evicted(s, p) \in ToSet(s) \ {p}
           /\ ToSet(touched(s, p)) = (ToSet(s) \cup {p})
                                     \ (IF evicts(s, p) THEN {evicted(s, p)} ELSE {})
           /\ touched(s, p)[Len(touched(s, p))] = p
<1> USE twsAssumption
<1>1. Len(s) \in Nat /\ DOMAIN s = 1 .. Len(s)
  BY LenProperties
<1>2. isInTWS(s, p) <=> p \in ToSet(s)
  BY <1>1 DEF isInTWS, Contains, ToSet
<1>3. CASE isInTWS(s, p)
  <2>1. ~evicts(s, p) /\ touched(s, p) = promote(s, p)
    BY <1>3 DEF evicts, touched
  <2> QED BY <1>2, <1>3, <2>1, PromoteProperties
<1>4. CASE ~isInTWS(s, p) /\ Len(s) < twsSize
  <2>1. ~evicts(s, p) /\ touched(s, p) = Append(s, p)
    BY <1>1, <1>4 DEF evicts, touched
  <2>2. /\ Append(s, p) \in Seq(S)
        /\ Len(Append(s, p)) = Len(s) + 1
        /\ Append(s, p)[Len(s) + 1] = p
        /\ distinct(Append(s, p))
        /\ ToSet(Append(s, p)) = ToSet(s) \cup {p}
    BY <1>2, <1>4, AppendDistinct
  <2> QED BY <1>1, <1>2, <1>4, <2>1, <2>2
<1>5. CASE ~isInTWS(s, p) /\ Len(s) = twsSize
  <2> DEFINE long == Append(s, p)
  <2>1. /\ long \in Seq(S)
        /\ Len(long) = twsSize + 1
        /\ long[twsSize + 1] = p
        /\ \A i \in 1 .. twsSize : long[i] = s[i]
        /\ distinct(long)
        /\ ToSet(long) = ToSet(s) \cup {p}
    BY <1>2, <1>5, AppendDistinct
  <2>2. evicts(s, p) /\ touched(s, p) = RemoveAt(long, victim) /\ evicted(s, p) = long[victim]
    BY <1>1, <1>5 DEF evicts, touched, evicted
  <2> HIDE DEF long
  <2>3. victim \in 1 .. twsSize
    BY DEF victim
  <2>4. evicted(s, p) = s[victim] /\ s[victim] \in ToSet(s)
    BY <1>1, <1>5, <2>1, <2>2, <2>3 DEF ToSet
  <2>5. /\ RemoveAt(long, victim) \in Seq(S)
        /\ Len(RemoveAt(long, victim)) = twsSize
        /\ RemoveAt(long, victim)[twsSize] = p
        /\ distinct(RemoveAt(long, victim))
        /\ ToSet(RemoveAt(long, victim)) = ToSet(long) \ {long[victim]}
    <3>1. victim \in 1 .. Len(long)
      BY <2>1, <2>3
    <3>2. /\ RemoveAt(long, victim) \in Seq(S)
          /\ Len(RemoveAt(long, victim)) = Len(long) - 1
          /\ \A j \in 1 .. Len(long) - 1 :
                RemoveAt(long, victim)[j] = IF j < victim THEN long[j] ELSE long[j + 1]
      BY <2>1, <3>1, RemoveAtProperties
    <3>3. /\ distinct(RemoveAt(long, victim))
          /\ ToSet(RemoveAt(long, victim)) = ToSet(long) \ {long[victim]}
      BY <2>1, <3>1, RemoveAtDistinct
    <3>4. RemoveAt(long, victim)[twsSize] = p
      BY <2>1, <2>3, <3>2
    <3> QED BY <2>1, <3>2, <3>3, <3>4
  <2> QED BY <1>2, <1>5, <2>1, <2>2, <2>4, <2>5
<1>6. Len(s) < twsSize \/ Len(s) = twsSize
  <2>1. ASSUME NEW m \in Nat, NEW n \in Nat, m <= n PROVE m < n \/ m = n
    BY <2>1
  <2>2. Len(s) \in Nat /\ twsSize \in Nat
    BY <1>1
  <2> QED BY <2>1, <2>2
<1> QED BY <1>3, <1>4, <1>5, <1>6, Zenon

\* Neither victim rule evicts the page that was at the back, unless there is room for
\* one page only.
LEMMA BackStays ==
    ASSUME NEW S, NEW s \in Seq(S), distinct(s), Len(s) <= twsSize, NEW p \in S,
           twsSize > 1, s # <<>>
    PROVE  s[Len(s)] \in ToSet(touched(s, p))
<1> USE twsAssumption
<1>1. Len(s) \in Nat \ {0} /\ DOMAIN s = 1 .. Len(s)
  BY LenProperties, EmptySeq
<1>2. s[Len(s)] \in ToSet(s)
  BY <1>1 DEF ToSet
<1>3. ToSet(touched(s, p)) = (ToSet(s) \cup {p})
                             \ (IF evicts(s, p) THEN {evicted(s, p)} ELSE {})
  BY TouchedProperties
<1>4. ASSUME evicts(s, p) PROVE evicted(s, p) # s[Len(s)]
  <2>1. Len(s) = twsSize /\ victim \in 1 .. Len(s) /\ victim # Len(s)
    <3>1. twsSize <= Len(s)
      BY <1>4 DEF evicts
    <3>2. victim \in 1 .. twsSize /\ victim # twsSize
      BY DEF victim
    <3>3. \A m, n \in Nat : m <= n /\ n <= m => m = n
      OBVIOUS
    <3>4. Len(s) = twsSize
      BY <1>1, <3>1, <3>3
    <3> QED BY <3>2, <3>4
  <2>2. evicted(s, p) = s[victim]
    BY <2>1, AppendProperties DEF evicted
  <2> QED BY <1>1, <2>1, <2>2 DEF distinct
<1> QED BY <1>2, <1>3, <1>4

-----------------------------------------------------------------------------
(* The pages with DRAM over a sequence of steps *)

\* The pages with DRAM at a step, and how often a handler allocates or frees.
holders(s, had, i) == {p \in Page : hasDram(s, had, p, i)}
marked(s, op)      == {i \in DOMAIN s : s[i].op = op}
count(s, op)       == Cardinality(marked(s, op))

\* A step that may be taken while the pages of now have DRAM, if own gives the
\* lines of a page that lie in its DRAM.
allowed(x, now, own) ==
    \A p \in Page : /\ x = Alloc(p) => p \notin now
                    /\ x = Free(p) => p \in now
                    /\ x.line \in own[p] => p \in now

\* No line of a page is what DRAMAllocate or DRAMFree name.
ownLines(own) == \A p, q \in Page : <<"dram", p>> \notin own[q]

\* Steps on the lines ids that take the pages with DRAM from had to now, each of
\* them allowed.
Orderly(s, had, now, own, ids) ==
    /\ s \in Seq(Actions(ids)) /\ had \subseteq Page /\ now \subseteq Page
    /\ \A i \in 1 .. Len(s) : allowed(s[i], holders(s, had, i), own)
    /\ now = holders(s, had, Len(s) + 1)
    /\ IsFiniteSet(had) =>
          /\ IsFiniteSet(now)
          /\ count(s, "alloc") - count(s, "free") = Cardinality(now) - Cardinality(had)

\* The allocations or frees of a sequence are finitely many.
LEMMA Marked ==
    ASSUME NEW S, NEW s \in Seq(S), NEW op
    PROVE  /\ marked(s, op) \subseteq 1 .. Len(s) /\ Len(s) \in Nat
           /\ IsFiniteSet(marked(s, op)) /\ count(s, op) \in Nat
<1>1. /\ marked(s, op) \subseteq 1 .. Len(s) /\ Len(s) \in Nat
  BY LenProperties DEF marked
<1>2. IsFiniteSet(marked(s, op))
  <2>1. IsFiniteSet(1 .. Len(s)) /\ marked(s, op) \in SUBSET (1 .. Len(s))
    BY <1>1, FS_Interval
  <2> QED BY <2>1, FS_Subset
<1> QED BY <1>1, <1>2, FS_CardinalityType DEF count

\* Those of a concatenation are those of its parts.
LEMMA CountCat ==
    ASSUME NEW S, NEW s \in Seq(S), NEW t \in Seq(S), NEW op
    PROVE  count(s \o t, op) = count(s, op) + count(t, op)
<1> DEFINE u == s \o t
           A == marked(s, op)
           B == marked(t, op)
           f == [i \in B |-> Len(s) + i]
           C == {Len(s) + i : i \in B}
<1>1. /\ A \subseteq 1 .. Len(s) /\ B \subseteq 1 .. Len(t)
      /\ Len(s) \in Nat /\ Len(t) \in Nat
      /\ IsFiniteSet(A) /\ IsFiniteSet(B)
      /\ DOMAIN s = 1 .. Len(s) /\ DOMAIN t = 1 .. Len(t) /\ DOMAIN u = 1 .. Len(s) + Len(t)
  BY Marked, LenProperties, ConcatProperties
<1>2. \A i \in 1 .. Len(s) + Len(t) : u[i] = IF i <= Len(s) THEN s[i] ELSE t[i - Len(s)]
  BY ConcatProperties
<1> HIDE DEF u
<1>3. marked(u, op) = A \cup C
  <2>1. \A i \in Nat : i \in marked(u, op) => i \in A \/ i \in C
    <3> SUFFICES ASSUME NEW i \in Nat, i \in marked(u, op), i \notin A PROVE i \in C
      OBVIOUS
    <3>1. i \in 1 .. Len(s) + Len(t) /\ u[i].op = op
      BY <1>1 DEF marked
    <3>2. ~(i <= Len(s))
      BY <1>1, <1>2, <3>1 DEF marked
    <3>3. i - Len(s) \in B
      BY <1>1, <1>2, <3>1, <3>2 DEF marked
    <3> QED BY <1>1, <3>3
  <2>2. \A i \in A : i \in marked(u, op)
    BY <1>1, <1>2 DEF marked
  <2>3. \A i \in B : Len(s) + i \in marked(u, op)
    <3> SUFFICES ASSUME NEW i \in B PROVE Len(s) + i \in marked(u, op)
      OBVIOUS
    <3>1. i \in 1 .. Len(t) /\ t[i].op = op
      BY <1>1 DEF marked
    <3>2. u[Len(s) + i] = t[i] /\ Len(s) + i \in DOMAIN u
      BY <1>1, <1>2, <3>1
    <3> QED BY <3>1, <3>2 DEF marked
  <2>4. marked(u, op) \subseteq Nat
    BY <1>1 DEF marked
  <2> QED BY <2>1, <2>2, <2>3, <2>4
<1>4. f \in Bijection(B, C)
  <2>1. f \in [B -> C]
    OBVIOUS
  <2>2. \A i, j \in B : f[i] = f[j] => i = j
    BY <1>1
  <2>3. \A k \in C : \E i \in B : f[i] = k
    OBVIOUS
  <2> QED BY <2>1, <2>2, <2>3 DEF Bijection, Injection, Surjection, IsInjective
<1>5. IsFiniteSet(C) /\ Cardinality(C) = Cardinality(B)
  BY <1>1, <1>4, FS_Bijection DEF ExistsBijection
<1>6. A \cap C = {}
  BY <1>1
<1>7. /\ Cardinality(A \cup C) = Cardinality(A) + Cardinality(C) - Cardinality(A \cap C)
      /\ Cardinality(A) \in Nat /\ Cardinality(C) \in Nat
  BY <1>1, <1>5, FS_Union, FS_CardinalityType
<1>8. count(u, op) = Cardinality(A) + Cardinality(B)
  <2>1. Cardinality(A \cap C) = 0
    BY <1>6, FS_EmptySet
  <2> HIDE DEF A, B, C
  <2> QED BY <1>3, <1>5, <1>7, <2>1 DEF count
<1> QED BY <1>8 DEF count, u

\* The first part of the steps sees the pages as if it were alone.
LEMMA FirstPart ==
    ASSUME NEW S, NEW s \in Seq(S), NEW t \in Seq(S), NEW had, NEW i \in 1 .. Len(s) + 1
    PROVE  holders(s \o t, had, i) = holders(s, had, i)
<1>1. Len(s) \in Nat /\ Len(t) \in Nat
  BY LenProperties
<1>2. \A k \in 1 .. i - 1 : (s \o t)[k] = s[k]
  BY <1>1, ConcatProperties
<1>3. \A j \in 1 .. i - 1 : \A k \in j .. i - 1 : k \in 1 .. i - 1
  BY <1>1
<1> QED BY <1>2, <1>3 DEF holders, hasDram

\* The second part sees them as the first part left them.
LEMMA SecondPart ==
    ASSUME NEW S, NEW s \in Seq(S), NEW t \in Seq(S), NEW had, NEW i \in 1 .. Len(t) + 1
    PROVE  holders(s \o t, had, Len(s) + i) = holders(t, holders(s, had, Len(s) + 1), i)
<1> DEFINE u == s \o t
           n == Len(s)
<1>1. n \in Nat /\ Len(t) \in Nat
  BY LenProperties
<1>2. /\ \A k \in 1 .. n : u[k] = s[k]
      /\ \A k \in 1 .. i - 1 : u[n + k] = t[k]
  BY <1>1, ConcatProperties
<1> HIDE DEF u, n
<1> SUFFICES ASSUME NEW p \in Page
             PROVE  hasDram(u, had, p, n + i)
                      <=> \/ hasDram(s, had, p, n + 1) /\ \A k \in 1 .. i - 1 : t[k] # Free(p)
                          \/ \E j \in 1 .. i - 1 : /\ t[j] = Alloc(p)
                                                   /\ \A k \in j .. i - 1 : t[k] # Free(p)
  BY DEF holders, hasDram, u, n
<1>3. \A k \in 1 .. n + i - 1 : k \in 1 .. n \/ (k - n \in 1 .. i - 1 /\ k = n + (k - n))
  BY <1>1
<1>4. (\A k \in 1 .. n + i - 1 : u[k] # Free(p))
         <=> (\A k \in 1 .. n : s[k] # Free(p)) /\ (\A k \in 1 .. i - 1 : t[k] # Free(p))
  <2>1. \A k \in 1 .. i - 1 : n + k \in 1 .. n + i - 1
    BY <1>1
  <2>2. \A k \in 1 .. n : k \in 1 .. n + i - 1
    BY <1>1
  <2> QED BY <1>2, <1>3, <2>1, <2>2, Zenon
<1>5. ASSUME NEW j \in 1 .. n
      PROVE  (\A k \in j .. n + i - 1 : u[k] # Free(p))
               <=> (\A k \in j .. n : s[k] # Free(p)) /\ (\A k \in 1 .. i - 1 : t[k] # Free(p))
  <2>1. \A k \in 1 .. i - 1 : n + k \in j .. n + i - 1
    BY <1>1
  <2>2. \A k \in j .. n : k \in j .. n + i - 1 /\ k \in 1 .. n
    BY <1>1
  <2>3. \A k \in j .. n + i - 1 : k \in j .. n \/ (k - n \in 1 .. i - 1 /\ k = n + (k - n))
    BY <1>1
  <2> QED BY <1>2, <2>1, <2>2, <2>3, Zenon
<1>6. ASSUME NEW j \in 1 .. i - 1
      PROVE  (\A k \in n + j .. n + i - 1 : u[k] # Free(p)) <=> (\A k \in j .. i - 1 : t[k] # Free(p))
  <2>1. \A k \in j .. i - 1 : n + k \in n + j .. n + i - 1 /\ k \in 1 .. i - 1
    BY <1>1
  <2>2. \A k \in n + j .. n + i - 1 : k - n \in j .. i - 1 /\ k - n \in 1 .. i - 1 /\ k = n + (k - n)
    BY <1>1
  <2>3. ASSUME \A k \in n + j .. n + i - 1 : u[k] # Free(p), NEW k \in j .. i - 1
        PROVE  t[k] # Free(p)
    BY <1>2, <2>1, <2>3, Zenon
  <2>4. ASSUME \A k \in j .. i - 1 : t[k] # Free(p), NEW k \in n + j .. n + i - 1
        PROVE  u[k] # Free(p)
    <3>1. u[n + (k - n)] = t[k - n] /\ u[n + (k - n)] = u[k]
      BY <1>2, <2>2
    <3> QED BY <2>2, <2>4, <3>1, Zenon
  <2> QED BY <2>3, <2>4, Zenon
<1>7. hasDram(u, had, p, n + i)
        <=> \/ p \in had /\ \A k \in 1 .. n + i - 1 : u[k] # Free(p)
            \/ \E j \in 1 .. n : s[j] = Alloc(p) /\ \A k \in j .. n + i - 1 : u[k] # Free(p)
            \/ \E j \in 1 .. i - 1 : t[j] = Alloc(p) /\ \A k \in n + j .. n + i - 1 : u[k] # Free(p)
  <2>1. /\ \A j \in 1 .. n : j \in 1 .. n + i - 1
        /\ \A j \in 1 .. i - 1 : n + j \in 1 .. n + i - 1
    BY <1>1
  <2>2. ASSUME NEW j \in 1 .. n + i - 1, j \notin 1 .. n
        PROVE  j - n \in 1 .. i - 1 /\ u[j] = t[j - n] /\ j = n + (j - n)
    <3>1. j - n \in 1 .. i - 1 /\ j = n + (j - n)
      BY <1>1, <2>2
    <3> QED BY <1>2, <3>1
  <2>3. hasDram(u, had, p, n + i)
          <=> \/ p \in had /\ \A k \in 1 .. n + i - 1 : u[k] # Free(p)
              \/ \E j \in 1 .. n + i - 1 : /\ u[j] = Alloc(p)
                                           /\ \A k \in j .. n + i - 1 : u[k] # Free(p)
    <3>1. (n + i) - 1 = n + i - 1
      BY <1>1
    <3> QED BY <3>1, Zenon DEF hasDram
  <2> DEFINE kept(j) == \A k \in j .. n + i - 1 : u[k] # Free(p)
  <2>4. ASSUME NEW j \in 1 .. n + i - 1, u[j] = Alloc(p), kept(j)
        PROVE  \/ \E l \in 1 .. n : s[l] = Alloc(p) /\ kept(l)
               \/ \E l \in 1 .. i - 1 : t[l] = Alloc(p) /\ kept(n + l)
    <3> HIDE DEF kept
    <3>1. CASE j \in 1 .. n
      BY <1>2, <2>4, <3>1, Zenon
    <3>2. CASE j \notin 1 .. n
      BY <2>2, <2>4, <3>2
    <3> QED BY <3>1, <3>2
  <2>5. ASSUME NEW l \in 1 .. i - 1, t[l] = Alloc(p), kept(n + l)
        PROVE  \E j \in 1 .. n + i - 1 : u[j] = Alloc(p) /\ kept(j)
    <3> HIDE DEF kept
    <3> QED BY <1>2, <2>1, <2>5, Zenon
  <2>6. ASSUME NEW l \in 1 .. n, s[l] = Alloc(p), kept(l)
        PROVE  \E j \in 1 .. n + i - 1 : u[j] = Alloc(p) /\ kept(j)
    <3> HIDE DEF kept
    <3> QED BY <1>2, <2>1, <2>6, Zenon
  <2> QED BY <2>3, <2>4, <2>5, <2>6, Zenon
<1>8. hasDram(s, had, p, n + 1)
        <=> \/ p \in had /\ \A k \in 1 .. n : s[k] # Free(p)
            \/ \E j \in 1 .. n : s[j] = Alloc(p) /\ \A k \in j .. n : s[k] # Free(p)
  <2>1. (n + 1) - 1 = n
    BY <1>1
  <2> QED BY <2>1, Zenon DEF hasDram
<1> QED BY <1>4, <1>5, <1>6, <1>7, <1>8, Zenon

\* Handlers are put together from orderly pieces.
LEMMA OrderlyCat ==
    ASSUME NEW own, NEW ids, NEW s, NEW t, NEW had, NEW mid, NEW now,
           Orderly(s, had, mid, own, ids), Orderly(t, mid, now, own, ids)
    PROVE  Orderly(s \o t, had, now, own, ids)
<1> DEFINE u == s \o t
           n == Len(s)
           m == Len(t)
<1> s \in Seq(Actions(ids)) /\ t \in Seq(Actions(ids))
  BY DEF Orderly
<1>1. n \in Nat /\ m \in Nat /\ Len(u) = n + m /\ u \in Seq(Actions(ids))
  BY LenProperties, ConcatProperties
<1>2. /\ \A i \in 1 .. n : u[i] = s[i] /\ holders(u, had, i) = holders(s, had, i)
      /\ \A i \in 1 .. m : u[n + i] = t[i]
  BY <1>1, ConcatProperties, FirstPart
<1>3. \A i \in 1 .. m + 1 : holders(u, had, n + i) = holders(t, mid, i)
  BY SecondPart DEF Orderly
<1>4. \A op : count(u, op) = count(s, op) + count(t, op) /\ count(s, op) \in Nat /\ count(t, op) \in Nat
  BY CountCat, Marked
<1> HIDE DEF u, n, m
<1>5. \A i \in 1 .. Len(u) : allowed(u[i], holders(u, had, i), own)
  <2> SUFFICES ASSUME NEW i \in 1 .. Len(u) PROVE allowed(u[i], holders(u, had, i), own)
    OBVIOUS
  <2>1. CASE i \in 1 .. n
    BY <1>2, <2>1 DEF Orderly, n
  <2>2. CASE i \notin 1 .. n
    <3>1. i - n \in 1 .. m /\ i - n \in 1 .. m + 1 /\ i = n + (i - n)
      BY <1>1, <2>2
    <3>2. u[i] = t[i - n] /\ holders(u, had, i) = holders(t, mid, i - n)
      BY <1>2, <1>3, <3>1
    <3> QED BY <3>1, <3>2 DEF Orderly, m
  <2> QED BY <2>1, <2>2
<1>6. now = holders(u, had, Len(u) + 1)
  <2>1. m + 1 \in 1 .. m + 1 /\ Len(u) + 1 = n + (m + 1)
    BY <1>1
  <2> QED BY <1>3, <2>1 DEF Orderly, m
<1>7. IsFiniteSet(had) =>
         /\ IsFiniteSet(now)
         /\ count(u, "alloc") - count(u, "free") = Cardinality(now) - Cardinality(had)
  <2> SUFFICES ASSUME IsFiniteSet(had)
               PROVE  /\ IsFiniteSet(now)
                      /\ count(u, "alloc") - count(u, "free") = Cardinality(now) - Cardinality(had)
    OBVIOUS
  <2>1. IsFiniteSet(mid) /\ IsFiniteSet(now)
    BY DEF Orderly
  <2>2. Cardinality(had) \in Nat /\ Cardinality(mid) \in Nat /\ Cardinality(now) \in Nat
    BY <2>1, FS_CardinalityType
  <2>3. /\ count(s, "alloc") - count(s, "free") = Cardinality(mid) - Cardinality(had)
        /\ count(t, "alloc") - count(t, "free") = Cardinality(now) - Cardinality(mid)
    BY <2>1 DEF Orderly
  <2> QED BY <1>4, <2>1, <2>2, <2>3
<1> QED BY <1>1, <1>5, <1>6, <1>7 DEF Orderly, u

\* Accesses that name lines of pages with DRAM only, and change nothing of that.
LEMMA OrderlyAccesses ==
    ASSUME NEW own, NEW ids, NEW had \in SUBSET Page, NEW S, S \subseteq Accesses(ids),
           \A x \in S, p \in Page : x.line \in own[p] => p \in had,
           NEW s \in Seq(S)
    PROVE  Orderly(s, had, had, own, ids)
<1>1. Len(s) \in Nat /\ DOMAIN s = 1 .. Len(s) /\ \A i \in 1 .. Len(s) : s[i] \in S
  BY LenProperties, ElementOfSeq
<1>2. \A i \in 1 .. Len(s) : s[i].op \notin {"alloc", "free"}
  BY <1>1 DEF Accesses
<1>3. \A i \in 1 .. Len(s), p \in Page : s[i] # Alloc(p) /\ s[i] # Free(p)
  BY <1>2 DEF Alloc, Free
<1>4. \A i \in 1 .. Len(s) + 1 : holders(s, had, i) = had
  <2>1. \A i \in 1 .. Len(s) + 1 : \A k \in 1 .. i - 1 : k \in 1 .. Len(s)
    BY <1>1
  <2> QED BY <1>3, <2>1 DEF holders, hasDram
<1>5. count(s, "alloc") = 0 /\ count(s, "free") = 0
  BY <1>1, <1>2, FS_EmptySet DEF count, marked
<1>6. \A i \in 1 .. Len(s) : allowed(s[i], had, own)
  BY <1>1, <1>3 DEF allowed
<1>7. IsFiniteSet(had) => Cardinality(had) \in Nat
  BY FS_CardinalityType
<1>8. Len(s) + 1 \in 1 .. Len(s) + 1 /\ \A i \in 1 .. Len(s) : i \in 1 .. Len(s) + 1
  BY <1>1
<1>9. s \in Seq(Actions(ids))
  BY SeqMonotonic DEF Actions
<1> QED BY <1>9, <1>4, <1>5, <1>6, <1>7, <1>8 DEF Orderly

\* A page without DRAM gets some.
LEMMA OrderlyAlloc ==
    ASSUME NEW own, NEW ids, ownLines(own), NEW had \in SUBSET Page, NEW p \in Page \ had
    PROVE  Orderly(<<Alloc(p)>>, had, had \cup {p}, own, ids)
<1> DEFINE s == <<Alloc(p)>>
<1>1. Len(s) = 1 /\ s[1] = Alloc(p) /\ DOMAIN s = {1} /\ s \in Seq(Actions(ids))
  BY DEF Actions
<1> HIDE DEF s
<1>2. \A q, r \in Page : Alloc(q) # Free(r) /\ (Alloc(q) = Alloc(r) => q = r)
  BY DEF Alloc, Free
<1>3. holders(s, had, 1) = had
  BY <1>1 DEF holders, hasDram
<1>4. holders(s, had, 2) = had \cup {p}
  <2>1. \A k : k \in 1 .. 2 - 1 <=> k = 1
    OBVIOUS
  <2> QED BY <1>1, <1>2, <2>1 DEF holders, hasDram
<1>5. count(s, "alloc") = 1 /\ count(s, "free") = 0
  <2>1. marked(s, "alloc") = {1} /\ marked(s, "free") = {}
    BY <1>1 DEF marked, Alloc
  <2> QED BY <2>1, FS_EmptySet, FS_Singleton DEF count
<1>6. allowed(s[1], had, own)
  <2>1. \A q \in Page : s[1].line \notin own[q]
    BY <1>1 DEF ownLines, Alloc
  <2> QED BY <1>1, <1>2, <2>1 DEF allowed
<1>7. IsFiniteSet(had) => /\ IsFiniteSet(had \cup {p}) /\ Cardinality(had) \in Nat
                          /\ Cardinality(had \cup {p}) = Cardinality(had) + 1
  BY FS_AddElement, FS_CardinalityType
<1> QED BY <1>1, <1>3, <1>4, <1>5, <1>6, <1>7 DEF Orderly, s

\* A page with DRAM loses it.
LEMMA OrderlyFree ==
    ASSUME NEW own, NEW ids, ownLines(own), NEW had \in SUBSET Page, NEW p \in had
    PROVE  Orderly(<<Free(p)>>, had, had \ {p}, own, ids)
<1> DEFINE s == <<Free(p)>>
<1>1. Len(s) = 1 /\ s[1] = Free(p) /\ DOMAIN s = {1} /\ s \in Seq(Actions(ids))
  BY DEF Actions
<1> HIDE DEF s
<1>2. \A q, r \in Page : Alloc(q) # Free(r) /\ (Free(q) = Free(r) => q = r)
  BY DEF Alloc, Free
<1>3. holders(s, had, 1) = had
  BY <1>1 DEF holders, hasDram
<1>4. holders(s, had, 2) = had \ {p}
  <2>1. \A k : k \in 1 .. 2 - 1 <=> k = 1
    OBVIOUS
  <2> QED BY <1>1, <1>2, <2>1 DEF holders, hasDram
<1>5. count(s, "alloc") = 0 /\ count(s, "free") = 1
  <2>1. marked(s, "alloc") = {} /\ marked(s, "free") = {1}
    BY <1>1 DEF marked, Free
  <2> QED BY <2>1, FS_EmptySet, FS_Singleton DEF count
<1>6. allowed(s[1], had, own)
  <2>1. \A q \in Page : s[1].line \notin own[q]
    BY <1>1 DEF ownLines, Free
  <2> QED BY <1>1, <1>2, <2>1 DEF allowed
<1>7. IsFiniteSet(had) => /\ IsFiniteSet(had \ {p}) /\ Cardinality(had) \in Nat
                          /\ Cardinality(had \ {p}) = Cardinality(had) - 1
  BY FS_RemoveElement, FS_CardinalityType
<1> QED BY <1>1, <1>3, <1>4, <1>5, <1>6, <1>7 DEF Orderly, s

-----------------------------------------------------------------------------
(* How many pages have DRAM while a handler runs *)

\* What may be among steps that allocate nothing, and among steps that free nothing.
Frees(ids)  == Accesses(ids) \cup {Free(p) : p \in Page}
Allocs(ids) == Accesses(ids) \cup {Alloc(p) : p \in Page}

\* Over steps that allocate nothing pages only lose DRAM.
LEMMA Falling ==
    ASSUME NEW ids, NEW s \in Seq(Frees(ids)), NEW had, had \subseteq Page,
           NEW i \in 1 .. Len(s) + 1
    PROVE  /\ holders(s, had, Len(s) + 1) \subseteq holders(s, had, i)
           /\ holders(s, had, i) \subseteq had
<1>1. Len(s) \in Nat /\ \A k \in 1 .. Len(s) : s[k] \in Frees(ids)
  BY LenProperties, ElementOfSeq
<1>2. \A k \in 1 .. Len(s), p \in Page : s[k] # Alloc(p)
  <2>1. \A x \in Frees(ids) : x.op # "alloc"
    BY DEF Frees, Accesses, Free
  <2> QED BY <1>1, <2>1 DEF Alloc
<1>3. \A j \in 1 .. Len(s) + 1 : \A k \in 1 .. j - 1 : k \in 1 .. Len(s)
  BY <1>1
<1>4. \A j \in 1 .. Len(s) + 1, p \in Page :
         hasDram(s, had, p, j) <=> p \in had /\ \A k \in 1 .. j - 1 : s[k] # Free(p)
  BY <1>2, <1>3, Zenon DEF hasDram
<1>5. Len(s) + 1 \in 1 .. Len(s) + 1 /\ \A k \in 1 .. i - 1 : k \in 1 .. (Len(s) + 1) - 1
  BY <1>1
<1> QED BY <1>4, <1>5, Zenon DEF holders

\* Over steps that free nothing pages only get DRAM.
LEMMA Rising ==
    ASSUME NEW ids, NEW s \in Seq(Allocs(ids)), NEW had, had \subseteq Page,
           NEW i \in 1 .. Len(s) + 1
    PROVE  /\ had \subseteq holders(s, had, i)
           /\ holders(s, had, i) \subseteq holders(s, had, Len(s) + 1)
<1>1. Len(s) \in Nat /\ \A k \in 1 .. Len(s) : s[k] \in Allocs(ids)
  BY LenProperties, ElementOfSeq
<1>2. \A k \in 1 .. Len(s), p \in Page : s[k] # Free(p)
  <2>1. \A x \in Allocs(ids) : x.op # "free"
    BY DEF Allocs, Accesses, Alloc
  <2> QED BY <1>1, <2>1 DEF Free
<1>3. \A j \in 1 .. Len(s) + 1 : \A l \in 1 .. j - 1 : \A k \in l .. j - 1 : k \in 1 .. Len(s)
  BY <1>1
<1>4. \A j \in 1 .. Len(s) + 1 : \A k \in 1 .. j - 1 : k \in 1 .. Len(s)
  BY <1>1
<1>5. \A j \in 1 .. Len(s) + 1, p \in Page :
         hasDram(s, had, p, j) <=> p \in had \/ \E l \in 1 .. j - 1 : s[l] = Alloc(p)
  BY <1>2, <1>3, <1>4, Zenon DEF hasDram
<1>6. Len(s) + 1 \in 1 .. Len(s) + 1 /\ \A k \in 1 .. i - 1 : k \in 1 .. (Len(s) + 1) - 1
  BY <1>1
<1> QED BY <1>5, <1>6, Zenon DEF holders

\* If all frees come before all allocations, the pages with DRAM are never more than
\* before or never more than afterwards.
LEMMA Valley ==
    ASSUME NEW ids, NEW s \in Seq(Frees(ids)), NEW t \in Seq(Allocs(ids)),
           NEW had, had \subseteq Page, NEW i \in 1 .. Len(s \o t) + 1
    PROVE  /\ holders(s, had, Len(s) + 1) \subseteq holders(s \o t, had, i)
           /\ \/ holders(s \o t, had, i) \subseteq had
              \/ holders(s \o t, had, i) \subseteq holders(s \o t, had, Len(s \o t) + 1)
<1> DEFINE S == Frees(ids) \cup Allocs(ids)
           u == s \o t
           mid == holders(s, had, Len(s) + 1)
<1>1. s \in Seq(S) /\ t \in Seq(S)
  BY SeqMonotonic
<1>2. Len(s) \in Nat /\ Len(t) \in Nat /\ Len(u) = Len(s) + Len(t)
  BY LenProperties, ConcatProperties
<1> HIDE DEF S
<1>3. CASE i \in 1 .. Len(s) + 1
  <2>1. holders(u, had, i) = holders(s, had, i)
    BY <1>1, <1>3, FirstPart
  <2> QED BY <1>3, <2>1, Falling
<1>4. CASE i \notin 1 .. Len(s) + 1
  <2>1. /\ i - Len(s) \in 1 .. Len(t) + 1 /\ i = Len(s) + (i - Len(s))
        /\ Len(t) + 1 \in 1 .. Len(t) + 1 /\ Len(u) + 1 = Len(s) + (Len(t) + 1)
    BY <1>2, <1>4
  <2> DEFINE j == i - Len(s)
  <2>2. \A k \in 1 .. Len(t) + 1 : holders(u, had, Len(s) + k) = holders(t, mid, k)
    BY <1>1, SecondPart
  <2>3. mid \subseteq Page
    BY DEF holders
  <2> HIDE DEF u, mid
  <2>4. mid \subseteq holders(t, mid, j) /\ holders(t, mid, j) \subseteq holders(t, mid, Len(t) + 1)
    BY <2>1, <2>3, Rising
  <2>5. holders(u, had, i) = holders(t, mid, j) /\ holders(u, had, Len(u) + 1) = holders(t, mid, Len(t) + 1)
    BY <2>1, <2>2
  <2> QED BY <2>4, <2>5 DEF u, mid
<1> QED BY <1>3, <1>4

\* Sizes of sets of pages that lie one page below the old ones, and not beyond the
\* old or the new ones, among the sizes sampled before and after.
LEMMA SizeBetween ==
    ASSUME NEW had, IsFiniteSet(had), NEW now, IsFiniteSet(now), NEW h, NEW e,
           had \ {e} \subseteq h, h \subseteq had \/ h \subseteq now,
           NEW low \in Int, NEW high \in Int,
           low <= Cardinality(had), Cardinality(had) <= high, Cardinality(now) <= high
    PROVE  Cardinality(h) \in low - 1 .. high
<1>1. IsFiniteSet(h) /\ (Cardinality(h) <= Cardinality(had) \/ Cardinality(h) <= Cardinality(now))
  BY FS_Subset
<1>2. /\ IsFiniteSet(had \ {e})
      /\ Cardinality(had \ {e}) = IF e \in had THEN Cardinality(had) - 1 ELSE Cardinality(had)
  BY FS_RemoveElement
<1>3. Cardinality(had \ {e}) <= Cardinality(h)
  BY <1>1, FS_Subset
<1>4. /\ Cardinality(h) \in Nat /\ Cardinality(had) \in Nat /\ Cardinality(now) \in Nat
      /\ Cardinality(had \ {e}) \in Nat
  BY <1>1, <1>2, FS_CardinalityType
<1> QED BY <1>1, <1>2, <1>3, <1>4

-----------------------------------------------------------------------------
(* Samples *)

\* Induction on natural numbers, over the set of those a fact holds of.
LEMMA NatSetInduction ==
    ASSUME NEW S \in SUBSET Nat, 0 \in S, \A n \in S : n + 1 \in S
    PROVE  S = Nat
<1> SUFFICES ASSUME Nat \ S # {} PROVE FALSE
  OBVIOUS
<1> DEFINE R == OpToRel(<, Nat)
<1>1. IsWellFoundedOn(R, Nat) /\ Nat \ S \subseteq Nat
  BY NatLessThanWellFounded
<1> HIDE DEF R
<1>2. PICK x \in Nat \ S : \A y \in Nat \ S : ~(<<y, x>> \in R)
  BY <1>1, WFMin, Zenon
<1>3. x # 0 /\ x - 1 \in Nat \ S
  BY <1>2
<1>4. <<x - 1, x>> \in R
  BY <1>3 DEF R, OpToRel
<1> QED BY <1>2, <1>3, <1>4

\* A finite set of numbers that has one has a smallest and a largest.
LEMMA Extremes ==
    ASSUME NEW S \in SUBSET Nat, IsFiniteSet(S), S # {}
    PROVE  /\ \E low \in S : \A j \in S : low <= j
           /\ \E high \in S : \A j \in S : j <= high
<1> DEFINE bounded(T) == /\ \E low \in T : \A j \in T : low <= j
                         /\ \E high \in T : \A j \in T : j <= high
           sized(n)   == {T \in SUBSET Nat : IsFiniteSet(T) /\ Cardinality(T) = n + 1}
           good       == {n \in Nat : \A T \in sized(n) : bounded(T)}
<1>1. 0 \in good
  <2> SUFFICES ASSUME NEW T \in sized(0) PROVE bounded(T)
    OBVIOUS
  <2>1. IsFiniteSet(T) /\ Cardinality(T) = 1 /\ T \subseteq Nat
    OBVIOUS
  <2>2. PICK x : T = {x}
    BY <2>1, FS_Singleton
  <2> QED BY <2>1, <2>2
<1>2. ASSUME NEW n \in good PROVE n + 1 \in good
  <2> SUFFICES ASSUME NEW T \in sized(n + 1) PROVE bounded(T)
    OBVIOUS
  <2>1. IsFiniteSet(T) /\ Cardinality(T) = n + 2 /\ T \subseteq Nat
    OBVIOUS
  <2>2. PICK x \in T : TRUE
    <3>1. T # {}
      BY <2>1, FS_EmptySet
    <3> QED BY <3>1
  <2>3. T \ {x} \in sized(n)
    <3>1. IsFiniteSet(T \ {x}) /\ Cardinality(T \ {x}) = Cardinality(T) - 1
      BY <2>1, FS_RemoveElement
    <3> QED BY <2>1, <3>1
  <2>4. bounded(T \ {x})
    BY <2>3
  <2>5. PICK low \in T \ {x} : \A j \in T \ {x} : low <= j
    BY <2>4
  <2>6. PICK high \in T \ {x} : \A j \in T \ {x} : j <= high
    BY <2>4
  <2>7. \E l \in T : \A j \in T : l <= j
    <3>1. CASE x <= low
      BY <2>1, <2>2, <2>5, <3>1
    <3>2. CASE ~(x <= low)
      BY <2>1, <2>2, <2>5, <3>2
    <3> QED BY <3>1, <3>2
  <2>8. \E h \in T : \A j \in T : j <= h
    <3>1. CASE high <= x
      BY <2>1, <2>2, <2>6, <3>1
    <3>2. CASE ~(high <= x)
      BY <2>1, <2>2, <2>6, <3>2
    <3> QED BY <3>1, <3>2
  <2> QED BY <2>7, <2>8
<1> HIDE DEF bounded
<1>3. good = Nat
  <2> HIDE DEF good
  <2>1. good \in SUBSET Nat
    BY DEF good
  <2> QED BY <1>1, <1>2, <2>1, NatSetInduction
<1>4. Cardinality(S) - 1 \in Nat /\ (Cardinality(S) - 1) + 1 = Cardinality(S)
  BY FS_EmptySet, FS_CardinalityType
<1>5. S \in sized(Cardinality(S) - 1)
  BY <1>4
<1> QED BY <1>3, <1>4, <1>5 DEF bounded
=============================================================================
