----------------------------- MODULE SetupProofs -----------------------------
(***************************************************************************)
(* The setup loops, for every geometry and every initial-state file: what  *)
(* is in the bytes and lines that are being gathered, in memory and among  *)
(* the pages with DRAM is a function of the leaf lines done so far.  Then, *)
(* with the real sizes: the address arithmetic of the handlers finds the   *)
(* tables setup has left; and the addresses and the helpers of utils.h     *)
(* have the shape of pages, slots and granules the other modules give      *)
(* them.                                                                   *)
(***************************************************************************)
EXTENDS Setup, TagGeometry, TLAPS

-----------------------------------------------------------------------------
(* Products and quotients *)

\* Facts about products the solver does not find among other terms.
LEMMA Product ==
    ASSUME NEW a \in Nat, NEW b \in Nat
    PROVE  a * b \in Nat /\ a * b = b * a /\ (a # 0 /\ b # 0 => a * b # 0)
  OBVIOUS

LEMMA ProductOfSum ==
    ASSUME NEW a \in Int, NEW b \in Int, NEW c \in Int
    PROVE  (a + b) * c = a * c + b * c /\ c * (a + b) = c * a + c * b
  OBVIOUS

LEMMA ProductOfProduct ==
    ASSUME NEW a \in Int, NEW b \in Int, NEW c \in Int
    PROVE  (a * b) * c = a * (b * c)
  OBVIOUS

LEMMA ProductGrows ==
    ASSUME NEW a \in Int, NEW b \in Int, NEW c \in Nat, a <= b
    PROVE  a * c <= b * c
  OBVIOUS

LEMMA ProductLess ==
    ASSUME NEW a \in Int, NEW b \in Int, NEW c \in Nat \ {0}, a * c < b * c
    PROVE  a < b
  OBVIOUS

\* What the quotient and the rest of a division are.
LEMMA Quotient ==
    ASSUME NEW a \in Nat, NEW d \in Nat \ {0}
    PROVE  /\ a \div d \in Nat /\ a % d \in 0 .. d - 1
           /\ a = (a \div d) * d + (a % d)
  OBVIOUS

\* There is only one quotient, and one rest.
LEMMA QuotientIs ==
    ASSUME NEW x \in Nat, NEW d \in Nat \ {0}, NEW y \in 0 .. d - 1
    PROVE  (x * d + y) \div d = x /\ (x * d + y) % d = y
<1> DEFINE a == x * d + y
           q == a \div d
           r == a % d
<1>1. a \in Nat
  BY Product
<1>2. q \in Nat /\ r \in 0 .. d - 1 /\ a = q * d + r
  BY <1>1, Quotient
<1>3. q * d + r = x * d + y
  BY <1>2
<1> HIDE DEF q, r, a
<1>4. q * d \in Nat /\ x * d \in Nat
  BY <1>2, Product
<1>5. (q + 1) * d = q * d + d /\ (x + 1) * d = x * d + d
  <2>1. 1 * d = d
    OBVIOUS
  <2> QED BY <1>2, <2>1, ProductOfSum
<1>6. x < q + 1
  BY <1>2, <1>3, <1>4, <1>5, ProductLess
<1>7. q < x + 1
  BY <1>2, <1>3, <1>4, <1>5, ProductLess
<1>8. q = x
  BY <1>2, <1>6, <1>7
<1>9. r = y
  BY <1>2, <1>3, <1>4, <1>8
<1> QED BY <1>8, <1>9 DEF q, r, a

\* One more: either it completes a group of d, or it goes into the present one.
LEMMA NextQuotient ==
    ASSUME NEW n \in Nat, NEW d \in Nat \ {0}
    PROVE  IF (n + 1) % d = 0
           THEN (n + 1) \div d = (n \div d) + 1 /\ n % d = d - 1
           ELSE (n + 1) \div d = n \div d /\ (n + 1) % d = (n % d) + 1
<1> DEFINE q == n \div d
           r == n % d
<1>1. q \in Nat /\ r \in 0 .. d - 1 /\ n = q * d + r
  BY Quotient
<1> HIDE DEF q, r
<1>2. q * d \in Nat /\ (q + 1) * d = q * d + d
  <2>1. 1 * d = d
    OBVIOUS
  <2> QED BY <1>1, <2>1, Product, ProductOfSum
<1>3. CASE r = d - 1
  <2>1. n + 1 = (q + 1) * d + 0 /\ q + 1 \in Nat /\ 0 \in 0 .. d - 1
    BY <1>1, <1>2, <1>3
  <2>2. ((q + 1) * d + 0) \div d = q + 1 /\ ((q + 1) * d + 0) % d = 0
    BY <2>1, QuotientIs, Zenon
  <2>3. (n + 1) \div d = q + 1 /\ (n + 1) % d = 0
    BY <2>1, <2>2
  <2> QED BY <1>3, <2>3 DEF q, r
<1>4. CASE r # d - 1
  <2>1. n + 1 = q * d + (r + 1) /\ r + 1 \in 0 .. d - 1
    BY <1>1, <1>2, <1>4
  <2>2. (n + 1) \div d = q /\ (n + 1) % d = r + 1
    BY <1>1, <2>1, QuotientIs
  <2>3. r + 1 # 0
    BY <1>1
  <2> QED BY <2>2, <2>3 DEF q, r
<1> QED BY <1>3, <1>4

\* The last of a group of d.
LEMMA LastOfGroup ==
    ASSUME NEW n \in Nat, NEW d \in Nat \ {0}, (n + 1) % d = 0
    PROVE  n + 1 = ((n \div d) + 1) * d
<1> DEFINE q == (n + 1) \div d
           t == (n + 1) % d
           z == q * d
<1>1. n + 1 \in Nat
  OBVIOUS
<1>2. q \in Nat /\ n + 1 = z + t /\ t = 0
  BY <1>1, Quotient
<1>3. q = (n \div d) + 1
  BY NextQuotient
<1>4. z \in Nat
  BY <1>2, Product
<1> HIDE DEF z
<1>5. n + 1 = z
  BY <1>2, <1>4
<1> QED BY <1>3, <1>5 DEF z

\* Less than c groups.
LEMMA QuotientLess ==
    ASSUME NEW n \in Nat, NEW d \in Nat \ {0}, NEW c \in Nat, n < c * d
    PROVE  n \div d \in 0 .. c - 1
<1> DEFINE q == n \div d
           z == q * d
           y == c * d
<1>1. q \in Nat /\ n % d \in Nat /\ n = z + (n % d)
  BY Quotient
<1> HIDE DEF q
<1>2. z \in Nat /\ y \in Nat
  BY <1>1, Product
<1> HIDE DEF z, y
<1>3. z < y
  BY <1>1, <1>2 DEF y
<1>4. q < c
  BY <1>1, <1>3, ProductLess DEF z, y
<1> QED BY <1>1, <1>4 DEF q

\* Groups of groups: c groups of b each.
LEMMA QuotientOfQuotient ==
    ASSUME NEW n \in Nat, NEW b \in Nat \ {0}, NEW c \in Nat \ {0}
    PROVE  /\ n \div (b * c) = (n \div b) \div c
           /\ n % (b * c) = ((n \div b) % c) * b + (n % b)
<1> DEFINE q == n \div b
           s == q \div c
           t == q % c
           u == n % b
<1>1. q \in Nat /\ u \in 0 .. b - 1 /\ n = q * b + u
  BY Quotient
<1>2. s \in Nat /\ t \in 0 .. c - 1 /\ q = s * c + t
  BY <1>1, Quotient
<1> HIDE DEF q, s, t, u
<1>3. /\ s * c \in Nat /\ t * b \in Nat /\ b * c \in Nat \ {0} /\ c * b = b * c
      /\ s * (b * c) \in Nat
  BY <1>1, <1>2, Product
<1>4. q * b = s * (b * c) + t * b
  BY <1>2, <1>3, ProductOfSum, ProductOfProduct
<1>5. t * b + u \in 0 .. b * c - 1
  <2>1. (t + 1) * b <= c * b
    BY <1>2, ProductGrows
  <2>2. (t + 1) * b = t * b + b
    <3>1. 1 * b = b
      OBVIOUS
    <3> QED BY <1>2, <3>1, ProductOfSum
  <2> QED BY <1>1, <1>3, <2>1, <2>2
<1>6. n = s * (b * c) + (t * b + u)
  BY <1>1, <1>3, <1>4
<1> HIDE DEF q, s, t, u
<1>7. n \div (b * c) = s /\ n % (b * c) = t * b + u
  BY <1>2, <1>3, <1>5, <1>6, QuotientIs
<1> QED BY <1>7 DEF q, s, t, u

\* So a group of groups is complete with its last group.
LEMMA CompleteWithLast ==
    ASSUME NEW n \in Nat, NEW b \in Nat \ {0}, NEW c \in Nat \ {0}
    PROVE  (n + 1) % (b * c) = 0
           <=> (n + 1) % b = 0 /\ ((n \div b) + 1) % c = 0
<1> DEFINE q == (n + 1) \div b
           t == q % c
           u == (n + 1) % b
<1>0. n + 1 \in Nat
  OBVIOUS
<1>1. n + 1 \in Nat /\ q \in Nat /\ u \in 0 .. b - 1
  BY <1>0, Quotient
<1>2. t \in 0 .. c - 1 /\ t * b \in Nat /\ (t # 0 => t * b # 0)
  <2>1. t \in 0 .. c - 1
    BY <1>1, Quotient
  <2> HIDE DEF t
  <2> QED BY <2>1, Product
<1>3. (n + 1) % (b * c) = t * b + u
  BY <1>1, QuotientOfQuotient
<1>4. u = 0 => q = (n \div b) + 1
  BY NextQuotient
<1> HIDE DEF q, t, u
<1>5. t * b + u = 0 <=> u = 0 /\ t = 0
  <2>1. t = 0 => t * b = 0
    OBVIOUS
  <2> QED BY <1>1, <1>2, <2>1
<1> QED BY <1>3, <1>4, <1>5 DEF q, t, u

\* Two numbers less than d apart have different rests.
LEMMA RestsApart ==
    ASSUME NEW a \in Nat, NEW b \in Nat, NEW d \in Nat \ {0}, a < b, b < a + d
    PROVE  a % d # b % d
<1> DEFINE p == a \div d
           q == b \div d
           r == a % d
           t == b % d
<1>1. p \in Nat /\ r \in 0 .. d - 1 /\ a = p * d + r
  BY Quotient
<1>2. q \in Nat /\ t \in 0 .. d - 1 /\ b = q * d + t
  BY Quotient
<1> HIDE DEF p, q, r, t
<1>3. ASSUME r = t PROVE FALSE
  <2>1. p * d \in Nat /\ q * d \in Nat /\ (p + 1) * d = p * d + d
    <3>1. 1 * d = d
      OBVIOUS
    <3> QED BY <1>1, <1>2, <3>1, Product, ProductOfSum
  <2>2. p * d < q * d /\ q * d < (p + 1) * d
    BY <1>1, <1>2, <1>3, <2>1
  <2>3. p < q /\ q < p + 1
    BY <1>1, <1>2, <2>2, ProductLess
  <2> QED BY <1>1, <1>2, <2>3
<1> QED BY <1>3 DEF r, t

-----------------------------------------------------------------------------
(* Gathering bits into bytes and bytes into lines *)

\* Byte q and line r of a table with the set of bits X, the first bit in the
\* highest place of the first byte.
byteOf(X, q) == {b \in 0 .. BYTE - 1 : q * BYTE + (BYTE - 1 - b) \in X}
lineOf(X, r) == [j \in 0 .. LINE - 1 |-> byteOf(X, r * LINE + j)]

\* What is in byte and line when n bits of X were pushed: the bits since the last
\* byte was complete, and the last LINE bytes.
Gathered(n, byte, line, X) ==
    /\ byte = {b \in 0 .. BYTE - 1 : b < n % BYTE /\ n - 1 - b \in X}
    /\ line \in [0 .. LINE - 1 -> Byte \cup {Junk}]
    /\ \A q \in Nat :
          (n \div BYTE) - LINE <= q /\ q < n \div BYTE => line[q % LINE] = byteOf(X, q)

\* The parameters are positive.
LEMMA Parameters == BYTE \in Nat \ {0} /\ LINE \in Nat \ {0} /\ Bits \in Nat \ {0}
<1>1. BYTE \in Nat \ {0} /\ LINE \in Nat \ {0}
  BY SetupAssumption
<1> QED BY <1>1, Product DEF Bits

\* Before the first bit there is nothing to gather.
LEMMA GatherNothing ==
    ASSUME NEW X
    PROVE  Gathered(0, {}, [i \in 0 .. LINE - 1 |-> Junk], X)
<1>1. 0 \div BYTE = 0 /\ 0 % BYTE = 0
  BY Parameters
<1> QED BY <1>1 DEF Gathered

\* A bit is pushed; every BYTE-th completes a byte, which joins the line.
LEMMA Gather ==
    ASSUME NEW n \in Nat, NEW byte, NEW line, NEW X, Gathered(n, byte, line, X),
           NEW clear \in BOOLEAN, clear <=> n \notin X
    PROVE  LET b2 == pushed(byte, clear)
               l2 == [line EXCEPT ![(n \div BYTE) % LINE] = b2]
           IN  IF (n + 1) % BYTE = 0 THEN Gathered(n + 1, {}, l2, X)
               ELSE Gathered(n + 1, b2, line, X)
<1> DEFINE b2 == pushed(byte, clear)
           q  == n \div BYTE
           m  == n % BYTE
           l2 == [line EXCEPT ![q % LINE] = b2]
<1>0. BYTE \in Nat \ {0} /\ LINE \in Nat \ {0}
  BY Parameters
<1>1. q \in Nat /\ m \in 0 .. BYTE - 1 /\ n = q * BYTE + m
  BY <1>0, Quotient
<1>2. IF (n + 1) % BYTE = 0 THEN (n + 1) \div BYTE = q + 1 /\ m = BYTE - 1
      ELSE (n + 1) \div BYTE = q /\ (n + 1) % BYTE = m + 1
  BY <1>0, NextQuotient
<1>3. byte = {b \in 0 .. BYTE - 1 : b < m /\ n - 1 - b \in X}
  BY DEF Gathered
<1>4. /\ line \in [0 .. LINE - 1 -> Byte \cup {Junk}]
      /\ \A p \in Nat : q - LINE <= p /\ p < q => line[p % LINE] = byteOf(X, p)
  BY DEF Gathered
<1> HIDE DEF q, m
<1>5. b2 = {b \in 0 .. BYTE - 1 : b < m + 1 /\ n - b \in X}
  <2>1. ASSUME NEW b \in 0 .. BYTE - 1
        PROVE  (IF b = 0 THEN ~clear ELSE b - 1 \in byte) <=> b < m + 1 /\ n - b \in X
    <3>1. CASE b = 0
      <4>1. b < m + 1 /\ n - b = n
        BY <1>1, <3>1
      <4> QED BY <3>1, <4>1
    <3>2. CASE b # 0
      <4>1. b - 1 \in 0 .. BYTE - 1 /\ n - 1 - (b - 1) = n - b
            /\ (b - 1 < m <=> b < m + 1)
        BY <1>0, <1>1, <3>2
      <4> QED BY <1>3, <3>2, <4>1
    <3> QED BY <3>1, <3>2
  <2> QED BY <2>1 DEF pushed
<1> HIDE DEF b2
<1>6. CASE (n + 1) % BYTE = 0
  <2>1. b2 = byteOf(X, q)
    <3>1. ASSUME NEW b \in 0 .. BYTE - 1
          PROVE  b < m + 1 /\ n - b = q * BYTE + (BYTE - 1 - b)
      <4>1. q * BYTE \in Nat
        BY <1>0, <1>1, Product
      <4> HIDE DEF q
      <4> QED BY <1>0, <1>1, <1>2, <1>6, <4>1
    <3> QED BY <1>5, <3>1 DEF byteOf
  <2>2. q % LINE \in 0 .. LINE - 1
    BY <1>0, <1>1, Quotient
  <2>3. b2 \in Byte
    BY <1>5 DEF Byte
  <2>4. l2 \in [0 .. LINE - 1 -> Byte \cup {Junk}]
    BY <1>4, <2>2, <2>3
  <2>5. ASSUME NEW p \in Nat, q + 1 - LINE <= p, p < q + 1
        PROVE  l2[p % LINE] = byteOf(X, p)
    <3>1. p % LINE \in 0 .. LINE - 1
      BY <1>0, Quotient
    <3>2. CASE p = q
      BY <1>4, <2>1, <2>2, <3>2
    <3>3. CASE p # q
      <4>1. p < q /\ q < p + LINE /\ q - LINE <= p
        BY <1>0, <1>1, <2>5, <3>3
      <4>2. p % LINE # q % LINE
        BY <1>0, <1>1, <4>1, RestsApart
      <4>3. line[p % LINE] = byteOf(X, p)
        BY <1>4, <4>1
      <4> QED BY <1>4, <3>1, <4>2, <4>3
    <3> QED BY <3>2, <3>3
  <2>6. {} = {b \in 0 .. BYTE - 1 : b < (n + 1) % BYTE /\ (n + 1) - 1 - b \in X}
    BY <1>6
  <2> HIDE DEF l2
  <2>7. (n + 1) \div BYTE = q + 1
    BY <1>2, <1>6
  <2>8. \A p \in Nat : ((n + 1) \div BYTE) - LINE <= p /\ p < (n + 1) \div BYTE
                      => l2[p % LINE] = byteOf(X, p)
    BY <1>0, <1>1, <2>5, <2>7
  <2>9. Gathered(n + 1, {}, l2, X)
    BY <2>4, <2>6, <2>8, Zenon DEF Gathered
  <2> QED BY <1>6, <2>9 DEF b2, q, l2
<1>7. CASE (n + 1) % BYTE # 0
  <2>1. b2 = {b \in 0 .. BYTE - 1 : b < (n + 1) % BYTE /\ (n + 1) - 1 - b \in X}
    <3>1. \A b \in 0 .. BYTE - 1 : (n + 1) - 1 - b = n - b
      OBVIOUS
    <3> QED BY <1>2, <1>5, <1>7, <3>1
  <2>2. Gathered(n + 1, b2, line, X)
    BY <1>2, <1>4, <1>7, <2>1 DEF Gathered
  <2> QED BY <1>7, <2>2 DEF b2
<1> QED BY <1>6, <1>7

\* After whole groups of W bytes, the last W bytes are still in the line.
LEMMA LastBytes ==
    ASSUME NEW p \in Nat, NEW W \in 1 .. LINE, NEW n \in Nat, n = (p + 1) * (W * BYTE),
           NEW byte, NEW line, NEW X, Gathered(n, byte, line, X), NEW j \in 0 .. W - 1
    PROVE  line[(p * W + j) % LINE] = byteOf(X, p * W + j)
<1>0. BYTE \in Nat \ {0} /\ LINE \in Nat \ {0} /\ W \in Nat /\ W <= LINE
  BY Parameters
<1>1. p * W \in Nat /\ (p + 1) * W = p * W + W /\ (p + 1) * W \in Nat
  <2>1. 1 * W = W /\ p + 1 \in Nat
    BY <1>0
  <2> QED BY <1>0, <2>1, Product, ProductOfSum
<1>2. n = ((p + 1) * W) * BYTE + 0
  <2>1. p + 1 \in Int /\ W \in Int /\ BYTE \in Int
    BY <1>0
  <2>2. ((p + 1) * W) * BYTE = (p + 1) * (W * BYTE)
    BY <2>1, ProductOfProduct
  <2> QED BY <2>2
<1>3. n \div BYTE = (p + 1) * W
  <2>1. 0 \in 0 .. BYTE - 1
    BY <1>0
  <2>2. (((p + 1) * W) * BYTE + 0) \div BYTE = (p + 1) * W
    BY <1>0, <1>1, <2>1, QuotientIs, Zenon
  <2> QED BY <1>2, <2>2
<1> DEFINE q == p * W + j
           e == (p + 1) * W
<1>4. q \in Nat /\ e - LINE <= q /\ q < e
  <2> DEFINE pw == p * W
  <2>1. e = pw + W /\ pw \in Nat
    BY <1>1
  <2> HIDE DEF pw, e
  <2>2. pw + j \in Nat /\ e - LINE <= pw + j /\ pw + j < e
    BY <1>0, <2>1
  <2> QED BY <2>2 DEF pw
<1>5. n \div BYTE = e
  BY <1>3
<1> HIDE DEF q, e
<1>6. line[q % LINE] = byteOf(X, q)
  BY <1>4, <1>5 DEF Gathered
<1> QED BY <1>6 DEF q

\* So a complete line is that of the table.
LEMMA FullLine ==
    ASSUME NEW r \in Nat, NEW byte, NEW line, NEW X, Gathered((r + 1) * Bits, byte, line, X)
    PROVE  line = lineOf(X, r)
<1>0. BYTE \in Nat \ {0} /\ LINE \in Nat \ {0} /\ LINE \in 1 .. LINE
  BY Parameters
<1>1. (r + 1) * Bits = (r + 1) * (LINE * BYTE) /\ (r + 1) * Bits \in Nat
  BY <1>0, Product, Parameters DEF Bits
<1> DEFINE n == (r + 1) * Bits
<1>a. n \in Nat /\ n = (r + 1) * (LINE * BYTE) /\ Gathered(n, byte, line, X)
  BY <1>1
<1> HIDE DEF n
<1>b. \A W \in 1 .. LINE :
         n = (r + 1) * (W * BYTE)
         => \A j \in 0 .. W - 1 : line[(r * W + j) % LINE] = byteOf(X, r * W + j)
  BY <1>a, LastBytes
<1>2. ASSUME NEW j \in 0 .. LINE - 1 PROVE line[j] = byteOf(X, r * LINE + j)
  <2>1. line[(r * LINE + j) % LINE] = byteOf(X, r * LINE + j)
    BY <1>0, <1>a, <1>b, Zenon
  <2>2. (r * LINE + j) % LINE = j
    BY <1>0, QuotientIs
  <2> QED BY <2>1, <2>2
<1>3. line = [j \in 0 .. LINE - 1 |-> line[j]]
  BY DEF Gathered
<1> QED BY <1>2, <1>3 DEF lineOf

\* The bits of a byte are those whose number, divided by BYTE, is that of the byte.
LEMMA ByteEmpty ==
    ASSUME NEW q \in Nat, NEW X
    PROVE  byteOf(X, q) = {} <=> \A i \in Nat : i \div BYTE = q => i \notin X
<1>0. BYTE \in Nat \ {0} /\ q * BYTE \in Nat
  BY Parameters, Product
<1>1. ASSUME NEW i \in Nat, i \div BYTE = q, i \in X PROVE byteOf(X, q) # {}
  <2> DEFINE b == BYTE - 1 - (i % BYTE)
  <2>1. i % BYTE \in 0 .. BYTE - 1 /\ i = q * BYTE + (i % BYTE)
    BY <1>0, <1>1, Quotient
  <2>2. b \in 0 .. BYTE - 1 /\ BYTE - 1 - b = i % BYTE
    BY <1>0, <2>1
  <2> HIDE DEF b
  <2>3. q * BYTE + (BYTE - 1 - b) \in X
    BY <1>1, <2>1, <2>2
  <2> QED BY <2>2, <2>3 DEF byteOf
<1>2. ASSUME NEW b \in 0 .. BYTE - 1, q * BYTE + (BYTE - 1 - b) \in X
      PROVE  \E i \in Nat : i \div BYTE = q /\ i \in X
  <2>1. BYTE - 1 - b \in 0 .. BYTE - 1
    BY <1>0
  <2>2. (q * BYTE + (BYTE - 1 - b)) \div BYTE = q
    BY <1>0, <2>1, QuotientIs
  <2>3. q * BYTE + (BYTE - 1 - b) \in Nat
    BY <1>0, <2>1
  <2> QED BY <1>2, <2>2, <2>3
<1> QED BY <1>1, <1>2 DEF byteOf

\* The same for the W bytes of a page.
LEMMA PageEmpty ==
    ASSUME NEW p \in Nat, NEW W \in Nat \ {0}, NEW X
    PROVE  (\A j \in 0 .. W - 1 : byteOf(X, p * W + j) = {})
           <=> \A i \in Nat : i \div (W * BYTE) = p => i \notin X
<1>0. BYTE \in Nat \ {0} /\ p * W \in Nat
  BY Parameters, Product
<1>1. ASSUME NEW i \in Nat PROVE i \div (W * BYTE) = (i \div BYTE) \div W
  <2>1. i \div (BYTE * W) = (i \div BYTE) \div W
    BY <1>0, QuotientOfQuotient
  <2>2. BYTE * W = W * BYTE
    BY <1>0, Product
  <2> QED BY <2>1, <2>2
<1>2. ASSUME NEW i \in Nat, i \div (W * BYTE) = p
      PROVE  \E j \in 0 .. W - 1 : i \div BYTE = p * W + j
  <2> DEFINE q == i \div BYTE
  <2>1. q \in Nat /\ q \div W = p
    BY <1>0, <1>1, <1>2, Quotient
  <2> HIDE DEF q
  <2>2. q % W \in 0 .. W - 1 /\ q = p * W + (q % W)
    BY <2>1, Quotient
  <2> QED BY <2>2 DEF q
<1>3. ASSUME NEW i \in Nat, NEW j \in 0 .. W - 1, i \div BYTE = p * W + j
      PROVE  i \div (W * BYTE) = p
  <2>1. (p * W + j) \div W = p
    BY QuotientIs
  <2> QED BY <1>1, <1>3, <2>1
<1>4. \A j \in 0 .. W - 1 : p * W + j \in Nat
  <2> DEFINE pw == p * W
  <2>1. pw \in Nat
    BY <1>0
  <2> HIDE DEF pw
  <2>2. \A j \in 0 .. W - 1 : pw + j \in Nat
    BY <2>1
  <2> QED BY <2>2 DEF pw
<1>5. \A j \in 0 .. W - 1 :
         byteOf(X, p * W + j) = {} <=> \A i \in Nat : i \div BYTE = p * W + j => i \notin X
  BY <1>4, ByteEmpty
<1> QED BY <1>2, <1>3, <1>5, Zenon

\* getTag finds the bits of the table again.
LEMMA ReadBack ==
    ASSUME NEW i \in Nat, NEW X
    PROVE  getTag(lineOf(X, i \div Bits), i % Bits) <=> i \in X
<1> DEFINE q == i \div BYTE
           u == i % BYTE
           r == i \div Bits
           o == i % Bits
           j == q % LINE
<1>0. BYTE \in Nat \ {0} /\ LINE \in Nat \ {0}
  BY Parameters
<1>1. q \in Nat /\ u \in 0 .. BYTE - 1 /\ i = q * BYTE + u
  BY <1>0, Quotient
<1>2. r = q \div LINE /\ o = j * BYTE + u
  BY <1>0, QuotientOfQuotient DEF Bits
<1> HIDE DEF q, u, o
<1>3. j \in 0 .. LINE - 1 /\ q = r * LINE + j
  BY <1>0, <1>1, <1>2, Quotient
<1> HIDE DEF j, r
<1>4. o \div BYTE = j /\ o % BYTE = u
  BY <1>0, <1>1, <1>2, <1>3, QuotientIs
<1>5. BYTE - 1 - u \in 0 .. BYTE - 1 /\ BYTE - 1 - (BYTE - 1 - u) = u
  BY <1>0, <1>1
<1>6. BYTE - 1 - u \in byteOf(X, q) <=> i \in X
  BY <1>1, <1>5 DEF byteOf
<1>7. lineOf(X, r)[j] = byteOf(X, q)
  BY <1>3 DEF lineOf
<1> QED BY <1>4, <1>6, <1>7 DEF getTag, r, o

-----------------------------------------------------------------------------
(* The sizes of the tables *)

Schemes == {"flat", "etm", "phoenix", "phoenixs"}

\* Bytes of a root line for each superroot bit, and superroot bits for a root line.
pageBytes   == IF scheme = "phoenixs" THEN EIGHT ELSE LINE
pagesOfLine == LINE \div pageBytes

\* Lines of the superroot and the root table.
superLines == IF hasSuper THEN pagesOfLine ELSE 0
rootLines  == IF scheme = "flat" THEN 0 ELSE ROOT_LINES

\* A page is a whole number of bytes of a root line, and a root line a whole
\* number of pages.
LEMMA Sizes ==
    /\ pageBytes \in 1 .. LINE /\ pagesOfLine \in Nat \ {0}
    /\ LINE = pagesOfLine * pageBytes
    /\ pageLeaves \in Nat \ {0} /\ pageLeaves = pageBytes * BYTE
    /\ leafLines = Bits * Bits /\ ROOT_LINES = Bits
<1>0. /\ BYTE \in Nat \ {0} /\ LINE \in Nat \ {0} /\ Bits \in Nat \ {0}
      /\ EIGHT \in Nat \ {0} /\ LINE % EIGHT = 0 /\ ROOT_LINES = Bits
  BY Parameters, SetupAssumption
<1>1. pageBytes \in Nat \ {0} /\ LINE % pageBytes = 0
  BY <1>0 DEF pageBytes
<1> DEFINE W == pageBytes
           P == pagesOfLine
<1>2. P \in Nat /\ LINE = P * W
  <2>1. LINE = (LINE \div W) * W + (LINE % W) /\ LINE \div W \in Nat
    BY <1>0, <1>1, Quotient
  <2>2. LINE % W = 0
    BY <1>1
  <2> DEFINE p == LINE \div W
             e == p * W
  <2>3. e \in Nat /\ LINE = e + (LINE % W)
    BY <1>1, <2>1, Product
  <2> HIDE DEF e
  <2>4. LINE = e
    BY <2>2, <2>3
  <2> QED BY <2>1, <2>4 DEF e, pagesOfLine
<1> HIDE DEF W, P
<1>3. P # 0
  <2>1. 0 * W = 0
    BY <1>1 DEF W
  <2> QED BY <1>0, <1>2, <2>1
<1>4. W <= LINE
  <2>1. 1 * W <= P * W
    BY <1>1, <1>2, <1>3, ProductGrows DEF W
  <2>2. 1 * W = W
    BY <1>1 DEF W
  <2> QED BY <1>2, <2>1, <2>2
<1>5. pageLeaves = pageBytes * BYTE
  BY <1>0, Product DEF pageLeaves, pageBytes, Bits
<1>6. pageLeaves \in Nat \ {0}
  BY <1>0, <1>1, <1>5, Product
<1>7. leafLines = Bits * Bits
  BY <1>0 DEF leafLines
<1> QED BY <1>0, <1>1, <1>2, <1>3, <1>4, <1>5, <1>6, <1>7 DEF W, P

\* The leaf table is whole pages, as many as the superroot lines have bits.
LEMMA Pages ==
    /\ pages = pagesOfLine * Bits /\ pages \in Nat
    /\ leafLines = pages * pageLeaves /\ leafLines \in Nat
<1> DEFINE W == pageBytes
           P == pagesOfLine
           pl == pageLeaves
<1>0. /\ BYTE \in Nat \ {0} /\ LINE \in Nat \ {0} /\ Bits \in Nat \ {0}
      /\ W \in Nat \ {0} /\ P \in Nat \ {0} /\ LINE = P * W
      /\ pl \in Nat \ {0} /\ pl = W * BYTE /\ leafLines = Bits * Bits
  BY Parameters, Sizes
<1> HIDE DEF W, P, pl
<1>1. Bits = P * pl
  <2>1. BYTE * LINE = LINE * BYTE
    BY <1>0, Product
  <2>2. (P * W) * BYTE = P * (W * BYTE)
    BY <1>0, ProductOfProduct
  <2> QED BY <1>0, <2>1, <2>2 DEF Bits
<1>2. Bits * Bits = (P * Bits) * pl
  <2>1. Bits * Bits = (P * pl) * Bits
    BY <1>1
  <2>2. (P * pl) * Bits = P * (pl * Bits)
    BY <1>0, ProductOfProduct
  <2>3. pl * Bits = Bits * pl
    BY <1>0, Product
  <2>4. P * (Bits * pl) = (P * Bits) * pl
    BY <1>0, ProductOfProduct
  <2> QED BY <2>1, <2>2, <2>3, <2>4
<1>3. P * Bits \in Nat /\ Bits * Bits \in Nat
  BY <1>0, Product
<1>4. leafLines \div pl = P * Bits
  <2> DEFINE x == P * Bits
  <2>1. 0 \in 0 .. pl - 1 /\ x \in Nat
    BY <1>0, <1>3
  <2> HIDE DEF x
  <2>2. (x * pl + 0) \div pl = x
    BY <1>0, <2>1, QuotientIs
  <2>3. x * pl \in Nat
    BY <1>0, <2>1, Product
  <2>4. leafLines = x * pl + 0
    BY <1>0, <1>2, <2>3 DEF x
  <2> QED BY <2>2, <2>4 DEF x
<1> QED BY <1>0, <1>2, <1>3, <1>4 DEF pages, P, pl

\* The tables are whole lines.
LEMMA TableSizes ==
    /\ superLines \in Nat /\ rootLines \in Nat
    /\ superrootSize = LINE * superLines
    /\ rootSize = LINE * rootLines /\ (rootSize > 0 <=> scheme # "flat")
<1> DEFINE P == pagesOfLine
<1>0. /\ BYTE \in Nat \ {0} /\ LINE \in Nat \ {0} /\ Bits \in Nat \ {0}
      /\ P \in Nat \ {0} /\ ROOT_LINES = Bits
  BY Parameters, Sizes
<1>1. superLines \in Nat /\ rootLines \in Nat
  BY <1>0 DEF superLines, rootLines
<1>2. superrootSize = LINE * superLines
  <2>1. CASE hasSuper
    <3>1. pages \div BYTE = LINE * P
      <4>1. pages = P * (LINE * BYTE)
        <5>1. BYTE * LINE = LINE * BYTE
          BY <1>0, Product
        <5> QED BY <5>1, Pages DEF Bits
      <4> HIDE DEF P
      <4>2. P * (LINE * BYTE) = (P * LINE) * BYTE
        BY <1>0, ProductOfProduct
      <4> DEFINE x == P * LINE
      <4>3. x \in Nat /\ x = LINE * P /\ 0 \in 0 .. BYTE - 1
        BY <1>0, Product
      <4> HIDE DEF x
      <4>4. (x * BYTE + 0) \div BYTE = x
        BY <1>0, <4>3, QuotientIs
      <4>5. x * BYTE \in Nat
        BY <1>0, <4>3, Product
      <4>6. pages = x * BYTE + 0
        BY <4>1, <4>2, <4>5 DEF x
      <4> QED BY <4>3, <4>4, <4>6
    <3> QED BY <2>1, <3>1 DEF superrootSize, superLines
  <2>2. CASE ~hasSuper
    BY <1>0, <2>2 DEF superrootSize, superLines
  <2> QED BY <2>1, <2>2
<1>3. rootSize = LINE * rootLines /\ (rootSize > 0 <=> scheme # "flat")
  <2>1. CASE scheme = "flat"
    BY <1>0, <2>1 DEF rootSize, rootLines
  <2>2. CASE scheme # "flat"
    <3> DEFINE x == Bits * LINE
    <3>1. x = LINE * Bits /\ x \in Nat /\ x # 0
      BY <1>0, Product
    <3>2. rootSize = x /\ rootLines = Bits
      BY <1>0, <2>2 DEF rootSize, rootLines
    <3> HIDE DEF x
    <3> QED BY <2>2, <3>1, <3>2
  <2> QED BY <2>1, <2>2
<1> QED BY <1>1, <1>2, <1>3

-----------------------------------------------------------------------------
(* The invariant: all the variables are functions of the leaf lines done *)

Tagged      == {i \in Leaves : ~isClear(initial[i])}
TaggedPages == {i \div pageLeaves : i \in Tagged}

\* The lines of the tables, in the order of their addresses.
table ==
    [n \in Nat |->
        IF n < superLines THEN lineOf(TaggedPages, n)
        ELSE IF n < superLines + rootLines THEN lineOf(Tagged, n - superLines)
        ELSE initial[n - superLines - rootLines]]

\* mem has the lines of T with the numbers in D.
Holds(mem, D, T) ==
    /\ DOMAIN mem = {LINE * n : n \in D}
    /\ \A n \in D : mem[LINE * n] = T[n]

\* The lines stored so far: the first of each table.
supersDone == IF hasSuper THEN (k \div pageLeaves) \div Bits ELSE 0
rootsDone  == IF scheme = "flat" THEN 0 ELSE k \div Bits

stored ==
    (0 .. supersDone - 1)
        \cup (superLines .. superLines + rootsDone - 1)
        \cup (superLines + rootLines .. superLines + rootLines + k - 1)

Inv ==
    /\ scheme \in Schemes
    /\ initial \in [Leaves -> Line]
    /\ k \in 0 .. leafLines
    /\ Gathered(k, root_byte, root_line, Tagged)
    /\ Gathered(k \div pageLeaves, superroot_byte, superroot_line, TaggedPages)
    /\ allocated = {p \in TaggedPages : hasSuper /\ p < k \div pageLeaves}
    /\ Holds(memory, stored, table)

\* The numbers of lines, pages and bits in one place, for the steps below.
LEMMA Numbers ==
    /\ BYTE \in Nat \ {0} /\ LINE \in Nat \ {0} /\ Bits \in Nat \ {0}
    /\ pageBytes \in Nat \ {0} /\ pageBytes \in 1 .. LINE
    /\ pagesOfLine \in Nat \ {0} /\ LINE = pagesOfLine * pageBytes
    /\ pageLeaves \in Nat \ {0} /\ pageLeaves = pageBytes * BYTE
    /\ ROOT_LINES = Bits
    /\ pages = pagesOfLine * Bits /\ pages \in Nat
    /\ leafLines = pages * pageLeaves /\ leafLines = Bits * Bits /\ leafLines \in Nat
    /\ superLines \in Nat /\ rootLines \in Nat
<1>1. LINE \in Nat /\ pageBytes \in 1 .. LINE => pageBytes \in Nat \ {0}
  OBVIOUS
<1> QED BY <1>1, Parameters, Sizes, Pages, TableSizes

\* Addresses are apart.
LEMMA LinesApart ==
    ASSUME NEW m \in Nat, NEW n \in Nat, LINE * m = LINE * n
    PROVE  m = n
<1>0. LINE \in Nat \ {0}
  BY Parameters
<1>1. LINE * m = m * LINE /\ LINE * n = n * LINE /\ m * LINE \in Nat /\ n * LINE \in Nat
  BY <1>0, Product
<1>2. ASSUME m < n PROVE FALSE
  <2>1. (m + 1) * LINE <= n * LINE /\ (m + 1) * LINE = m * LINE + LINE
    <3>1. 1 * LINE = LINE /\ m + 1 <= n /\ m + 1 \in Int /\ n \in Int /\ m \in Int
      BY <1>0, <1>2
    <3> QED BY <1>0, <3>1, ProductGrows, ProductOfSum
  <2> QED BY <1>0, <1>1, <2>1
<1>3. ASSUME n < m PROVE FALSE
  <2>1. (n + 1) * LINE <= m * LINE /\ (n + 1) * LINE = n * LINE + LINE
    <3>1. 1 * LINE = LINE /\ n + 1 <= m /\ n + 1 \in Int /\ n \in Int /\ m \in Int
      BY <1>0, <1>3
    <3> QED BY <1>0, <3>1, ProductGrows, ProductOfSum
  <2> QED BY <1>0, <1>1, <2>1
<1> QED BY <1>2, <1>3

\* Memory::set of a line of the tables.
LEMMA SetLine ==
    ASSUME NEW mem, NEW D \in SUBSET Nat, NEW T, Holds(mem, D, T),
           NEW n \in Nat, NEW at, at = LINE * n, NEW line, line = T[n]
    PROVE  Holds(set(mem, at, line), D \cup {n}, T)
<1>1. DOMAIN set(mem, at, line) = {LINE * m : m \in D \cup {n}}
  BY DEF Holds, set
<1>2. ASSUME NEW m \in D \cup {n} PROVE set(mem, at, line)[LINE * m] = T[m]
  <2>1. LINE * m \in DOMAIN set(mem, at, line)
    BY <1>1
  <2>2. CASE m = n
    BY <2>1, <2>2 DEF set
  <2>3. CASE m # n
    <3>1. LINE * m # at
      BY <2>3, LinesApart
    <3> QED BY <2>1, <2>3, <3>1 DEF set, Holds
  <2> QED BY <2>2, <2>3
<1> QED BY <1>1, <1>2 DEF Holds

\* No page beyond the last.
LEMMA PageOfLeaf ==
    ASSUME NEW i \in Leaves
    PROVE  i \in Nat /\ i < leafLines /\ i \div pageLeaves \in 0 .. pages - 1
<1>0. pageLeaves \in Nat \ {0} /\ pages \in Nat /\ leafLines = pages * pageLeaves
      /\ leafLines \in Nat
  BY Numbers
<1>1. i \in Nat /\ i < leafLines
  BY <1>0 DEF Leaves
<1> QED BY <1>0, <1>1, QuotientLess

\* Setup starts with nothing gathered and nothing stored.
LEMMA InvInit == Init => Inv
<1> SUFFICES ASSUME Init PROVE Inv
  OBVIOUS
<1>0. /\ pageLeaves \in Nat \ {0} /\ Bits \in Nat \ {0} /\ leafLines \in Nat
      /\ superLines \in Nat /\ rootLines \in Nat
  BY Numbers
<1>1. k = 0 /\ k \div pageLeaves = 0 /\ k \div Bits = 0
  BY <1>0 DEF Init
<1>2. scheme \in Schemes /\ initial \in [Leaves -> Line]
  BY SetupAssumption DEF Init, Schemes
<1>3. /\ Gathered(k, root_byte, root_line, Tagged)
      /\ Gathered(k \div pageLeaves, superroot_byte, superroot_line, TaggedPages)
  BY <1>1, GatherNothing DEF Init
<1>4. allocated = {p \in TaggedPages : hasSuper /\ p < k \div pageLeaves}
  <2>1. \A p \in TaggedPages : ~(p < 0)
    BY PageOfLeaf, <1>0, Numbers DEF TaggedPages, Tagged
  <2> QED BY <1>1, <2>1 DEF Init
<1>5. stored = {}
  <2>1. supersDone = 0 /\ rootsDone = 0
    BY <1>0, <1>1 DEF supersDone, rootsDone
  <2> QED BY <1>0, <1>1, <2>1 DEF stored
<1>6. Holds(memory, stored, table)
  BY <1>5 DEF Init, Holds
<1> QED BY <1>0, <1>1, <1>2, <1>3, <1>4, <1>6 DEF Inv

\* Neither the file nor what is computed from it changes.
LEMMA SameFile ==
    ASSUME UNCHANGED <<scheme, initial>>
    PROVE  UNCHANGED <<hasSuper, pageLeaves, superLines, rootLines, Tagged, TaggedPages,
                       table>>
<1>1. UNCHANGED <<hasSuper, pageLeaves, superLines, rootLines>>
  BY DEF hasSuper, pageLeaves, superLines, pagesOfLine, pageBytes, rootLines
<1>2. UNCHANGED <<Tagged, TaggedPages>>
  BY <1>1 DEF Tagged, TaggedPages
<1>3. UNCHANGED table
  BY <1>1, <1>2 DEF table
<1> QED BY <1>1, <1>2, <1>3

\* The bit of a leaf line goes to its place in the root line.
LEMMA RootStep ==
    ASSUME Inv, setLeaf
    PROVE  Gathered(k + 1, root_byte', rootLine, Tagged)
<1>0. k \in Nat /\ k \in Leaves /\ BYTE \in Nat \ {0}
  BY Numbers DEF setLeaf, Leaves
<1> DEFINE clear == isClear(initial[k])
<1>1. clear \in BOOLEAN /\ (clear <=> k \notin Tagged)
  BY <1>0 DEF Tagged, isClear
<1> HIDE DEF clear
<1>2. Gathered(k, root_byte, root_line, Tagged)
  BY DEF Inv
<1>3. rootByte = pushed(root_byte, clear)
  BY DEF rootByte, clear
<1>4. IF (k + 1) % BYTE = 0
      THEN Gathered(k + 1, {}, [root_line EXCEPT ![(k \div BYTE) % LINE] = rootByte],
                    Tagged)
      ELSE Gathered(k + 1, rootByte, root_line, Tagged)
  BY <1>0, <1>1, <1>2, <1>3, Gather
<1> QED BY <1>4 DEF setLeaf, rootLine, completes

\* When the bits of a page are complete, the test of the root line finds it clear
\* exactly if its leaf lines are.
LEMMA PageClear ==
    ASSUME Inv, setLeaf, completes(pageLeaves)
    PROVE  /\ k + 1 = (page + 1) * pageLeaves /\ page \in Nat
           /\ pageClear \in BOOLEAN /\ (pageClear <=> page \notin TaggedPages)
<1> DEFINE W == pageBytes
           P == pagesOfLine
           w == page % P
<1>0. /\ BYTE \in Nat \ {0} /\ LINE \in Nat \ {0} /\ W \in Nat \ {0} /\ W \in 1 .. LINE
      /\ P \in Nat \ {0} /\ LINE = P * W
      /\ pageLeaves \in Nat \ {0} /\ pageLeaves = W * BYTE
  BY Numbers
<1> HIDE DEF W, P
<1>1. k \in Nat
  BY Numbers DEF setLeaf, Leaves
<1>2. page \in Nat /\ k + 1 = (page + 1) * pageLeaves
  BY <1>0, <1>1, Quotient, LastOfGroup DEF page, completes
<1>3. w \in 0 .. P - 1
  BY <1>0, <1>2, Quotient
<1>4. ASSUME NEW j \in 0 .. W - 1
      PROVE  rootLine[w * W + j] = byteOf(Tagged, page * W + j)
  <2>1. k + 1 \in Nat /\ k + 1 = (page + 1) * (W * BYTE)
    BY <1>0, <1>1, <1>2
  <2>2. Gathered(k + 1, root_byte', rootLine, Tagged)
    BY RootStep
  <2> DEFINE n == k + 1
  <2>3. n \in Nat /\ n = (page + 1) * (W * BYTE)
        /\ Gathered(n, root_byte', rootLine, Tagged)
    BY <2>1, <2>2
  <2> HIDE DEF n
  <2> DEFINE gl == rootLine
             gp == page
  <2>4. \A V \in 1 .. LINE :
           n = (gp + 1) * (V * BYTE)
           => \A i \in 0 .. V - 1 : gl[(gp * V + i) % LINE] = byteOf(Tagged, gp * V + i)
    <3>1. gp \in Nat /\ n \in Nat /\ Gathered(n, root_byte', gl, Tagged)
      BY <1>2, <2>3
    <3> HIDE DEF gl, gp
    <3> QED BY <3>1, LastBytes
  <2>a. rootLine[(page * W + j) % LINE] = byteOf(Tagged, page * W + j)
    BY <1>0, <2>3, <2>4, Zenon
  <2>5. (page * W + j) % LINE = w * W + j
    <3> DEFINE n1 == page * W + j
    <3>1. n1 \div W = page /\ n1 % W = j
      BY <1>0, <1>2, QuotientIs
    <3>2. n1 \in Nat
      <4> DEFINE pw == page * W
      <4>1. pw \in Nat
        BY <1>0, <1>2, Product
      <4> HIDE DEF pw
      <4>2. pw + j \in Nat
        BY <4>1
      <4> QED BY <4>2 DEF pw
    <3> HIDE DEF n1
    <3>3. n1 % (W * P) = ((n1 \div W) % P) * W + (n1 % W)
      BY <1>0, <3>2, QuotientOfQuotient
    <3>4. W * P = LINE
      BY <1>0, Product
    <3> QED BY <3>1, <3>3, <3>4 DEF n1
  <2> QED BY <2>5, <2>a
<1>5. pageClear <=> \A j \in 0 .. W - 1 : rootLine[w * W + j] = {}
  <2>1. CASE scheme = "phoenixs"
    <3>1. W = EIGHT /\ pageClear = eightBytesClear(rootLine, w)
      BY <2>1 DEF pageClear, W, P, pageBytes, pagesOfLine
    <3> DEFINE a == w * W
    <3>2. a \in Nat
      BY <1>0, <1>3, Product
    <3>3. eightBytesClear(rootLine, w) <=> \A i \in a .. a + W - 1 : rootLine[i] = {}
      BY <3>1 DEF eightBytesClear
    <3> HIDE DEF a
    <3>4. (\A i \in a .. a + W - 1 : rootLine[i] = {})
          <=> \A j \in 0 .. W - 1 : rootLine[a + j] = {}
      <4>1. \A j \in 0 .. W - 1 : a + j \in a .. a + W - 1
        BY <1>0, <3>2
      <4>2. \A i \in a .. a + W - 1 : i - a \in 0 .. W - 1 /\ a + (i - a) = i
        BY <1>0, <3>2
      <4> QED BY <4>1, <4>2
    <3> QED BY <3>1, <3>3, <3>4 DEF a
  <2>2. CASE scheme # "phoenixs"
    <3>1. W = LINE /\ P = 1
      BY <1>0, <2>2 DEF W, P, pageBytes, pagesOfLine
    <3>2. w = 0
      BY <1>3, <3>1
    <3>3. w * W = 0
      BY <1>0, <3>2
    <3>4. \A j \in 0 .. W - 1 : w * W + j = j
      BY <3>3
    <3> QED BY <2>2, <3>1, <3>4 DEF pageClear, isClear
  <2> QED BY <2>1, <2>2
<1>6. pageClear <=> \A j \in 0 .. W - 1 : byteOf(Tagged, page * W + j) = {}
  BY <1>4, <1>5
<1>7. pageClear <=> \A i \in Nat : i \div pageLeaves = page => i \notin Tagged
  BY <1>0, <1>2, <1>6, PageEmpty
<1>8. Tagged \subseteq Nat
  BY PageOfLeaf DEF Tagged
<1>9. pageClear \in BOOLEAN
  BY DEF pageClear, eightBytesClear, isClear
<1> QED BY <1>2, <1>7, <1>8, <1>9 DEF TaggedPages

\* The bit of a page goes to its place in the superroot line, when the page is
\* complete.
LEMMA SuperrootStep ==
    ASSUME Inv, setLeaf
    PROVE  Gathered((k + 1) \div pageLeaves, superroot_byte', superrootLine, TaggedPages)
<1>0. k \in Nat /\ BYTE \in Nat \ {0} /\ pageLeaves \in Nat \ {0} /\ page \in Nat
  <2>1. k \in Nat /\ BYTE \in Nat \ {0} /\ pageLeaves \in Nat \ {0}
    BY Numbers DEF setLeaf, Leaves
  <2> QED BY <2>1, Quotient DEF page
<1>1. completes(pageLeaves * BYTE) <=> completes(pageLeaves) /\ (page + 1) % BYTE = 0
  BY <1>0, CompleteWithLast DEF completes, page
<1>2. Gathered(page, superroot_byte, superroot_line, TaggedPages)
  BY DEF Inv, page
<1>3. CASE completes(pageLeaves)
  <2>1. (k + 1) \div pageLeaves = page + 1
    BY <1>0, <1>3, NextQuotient DEF completes, page
  <2>2. pageClear \in BOOLEAN /\ (pageClear <=> page \notin TaggedPages)
    BY <1>3, PageClear
  <2> DEFINE n == page
             clear == pageClear
  <2>3. n \in Nat /\ clear \in BOOLEAN /\ (clear <=> n \notin TaggedPages)
        /\ Gathered(n, superroot_byte, superroot_line, TaggedPages)
    BY <1>0, <1>2, <2>2
  <2>4. superrootByte = pushed(superroot_byte, clear)
    BY <1>3 DEF superrootByte
  <2> HIDE DEF n, clear
  <2>5. IF (n + 1) % BYTE = 0
        THEN Gathered(n + 1, {},
                      [superroot_line EXCEPT ![(n \div BYTE) % LINE] = superrootByte],
                      TaggedPages)
        ELSE Gathered(n + 1, superrootByte, superroot_line, TaggedPages)
    BY <2>3, <2>4, Gather
  <2>6. /\ superroot_byte' = IF (n + 1) % BYTE = 0 THEN {} ELSE superrootByte
        /\ superrootLine = IF (n + 1) % BYTE = 0
                           THEN [superroot_line EXCEPT ![(n \div BYTE) % LINE] = superrootByte]
                           ELSE superroot_line
    BY <1>1, <1>3 DEF setLeaf, superrootLine, n
  <2>7. Gathered(n + 1, superroot_byte', superrootLine, TaggedPages)
    BY <2>5, <2>6
  <2> QED BY <2>1, <2>7 DEF n
<1>4. CASE ~completes(pageLeaves)
  <2>1. (k + 1) \div pageLeaves = page
    BY <1>0, <1>4, NextQuotient DEF completes, page
  <2>2. superroot_byte' = superroot_byte /\ superrootLine = superroot_line
    BY <1>1, <1>4 DEF setLeaf, superrootByte, superrootLine
  <2> QED BY <1>2, <2>1, <2>2
<1> QED BY <1>3, <1>4

\* The pages with DRAM are those with tags, as far as the loop got.
LEMMA AllocatedStep ==
    ASSUME Inv, setLeaf
    PROVE  allocated' = {p \in TaggedPages : hasSuper /\ p < (k + 1) \div pageLeaves}
<1>0. k \in Nat /\ pageLeaves \in Nat \ {0} /\ page \in Nat
  <2>1. k \in Nat /\ pageLeaves \in Nat \ {0}
    BY Numbers DEF setLeaf, Leaves
  <2> QED BY <2>1, Quotient DEF page
<1>1. allocated = {p \in TaggedPages : hasSuper /\ p < page}
  BY DEF Inv, page
<1>2. \A p \in TaggedPages : p \in Nat
  BY PageOfLeaf DEF TaggedPages, Tagged
<1>3. CASE completes(pageLeaves)
  <2>1. (k + 1) \div pageLeaves = page + 1
    BY <1>0, <1>3, NextQuotient DEF completes, page
  <2>2. pageClear <=> page \notin TaggedPages
    BY <1>3, PageClear
  <2>3. \A p \in TaggedPages : p < page + 1 <=> p < page \/ p = page
    BY <1>0, <1>2
  <2>4. allocated' = IF hasSuper /\ page \in TaggedPages THEN allocated \cup {page}
                     ELSE allocated
    BY <1>3, <2>2 DEF setLeaf
  <2> HIDE DEF page
  <2>5. allocated' = {p \in TaggedPages : hasSuper /\ p < page + 1}
    BY <1>1, <2>3, <2>4
  <2> QED BY <2>1, <2>5
<1>4. CASE ~completes(pageLeaves)
  <2>1. (k + 1) \div pageLeaves = page
    BY <1>0, <1>4, NextQuotient DEF completes, page
  <2>2. allocated' = allocated
    BY <1>4 DEF setLeaf
  <2> QED BY <1>1, <2>1, <2>2
<1> QED BY <1>3, <1>4

\* The addresses the code computes are those of lines in a row.
LEMMA AddressOfRoot ==
    ASSUME NEW r \in Nat
    PROVE  LINE * r + superrootSize = LINE * (superLines + r)
<1> DEFINE a == LINE * superLines
           b == LINE * r
           c == LINE * (superLines + r)
<1>0. LINE \in Nat /\ superLines \in Nat
  BY Numbers
<1>1. a \in Nat /\ b \in Nat /\ c = a + b
  BY <1>0, Product, ProductOfSum
<1>2. superrootSize = a
  BY TableSizes
<1> HIDE DEF a, b, c
<1>3. b + superrootSize = c
  BY <1>1, <1>2
<1> QED BY <1>3 DEF b, c

\* Where the leaf lines are, counted in lines.
LEMMA AddressOfLeaf ==
    ASSUME NEW i \in Nat
    PROVE  LINE * i + rootSize + superrootSize = LINE * (superLines + rootLines + i)
<1> DEFINE n == rootLines + i
           a == LINE * rootLines
           b == LINE * i
           c == LINE * n
           d == LINE * (superLines + n)
<1>0. LINE \in Nat /\ superLines \in Nat /\ rootLines \in Nat /\ n \in Nat
  BY Numbers
<1>1. a \in Nat /\ b \in Nat /\ c = a + b
  BY <1>0, Product, ProductOfSum
<1>2. rootSize = a /\ superrootSize \in Int
  BY <1>0, Product, TableSizes
<1>3. d = c + superrootSize
  BY <1>0, AddressOfRoot
<1>4. superLines + n = superLines + rootLines + i
  BY <1>0
<1> HIDE DEF a, b, c, n
<1>5. d = b + rootSize + superrootSize
  <2> HIDE DEF d
  <2> QED BY <1>1, <1>2, <1>3
<1> QED BY <1>4, <1>5 DEF b

\* The three calls of Memory::set: each stores the next line of its table.
LEMMA LeafLineSet ==
    ASSUME Inv, setLeaf
    PROVE  Holds(leafSet(memory), stored \cup {superLines + rootLines + k}, table)
<1>0. k \in Nat /\ LINE \in Nat /\ superLines \in Nat /\ rootLines \in Nat
  BY Numbers DEF setLeaf, Leaves
<1> DEFINE n == superLines + rootLines + k
<1>1. n \in Nat /\ ~(n < superLines) /\ ~(n < superLines + rootLines)
      /\ n - superLines - rootLines = k
  BY <1>0
<1>2. table[n] = initial[k]
  BY <1>1 DEF table
<1>3. LINE * k + rootSize + superrootSize = LINE * n
  BY <1>0, AddressOfLeaf
<1>4. Holds(memory, stored, table)
  BY DEF Inv
<1>5. stored \subseteq Nat
  <2>1. supersDone \in Int /\ rootsDone \in Int
    <3>1. pageLeaves \in Nat \ {0} /\ Bits \in Nat \ {0}
      BY Numbers
    <3>2. k \div pageLeaves \in Nat /\ k \div Bits \in Nat
      BY <1>0, <3>1, Quotient
    <3>3. (k \div pageLeaves) \div Bits \in Nat
      BY <3>1, <3>2, Quotient
    <3> QED BY <3>2, <3>3 DEF supersDone, rootsDone
  <2> QED BY <1>0, <2>1 DEF stored
<1> HIDE DEF n
<1>6. Holds(set(memory, LINE * k + rootSize + superrootSize, initial[k]),
            stored \cup {n}, table)
  BY <1>1, <1>2, <1>3, <1>4, <1>5, SetLine
<1> QED BY <1>6 DEF leafSet, n

\* A root line is stored when its last bit is in, as the next line of the table.
LEMMA RootLineSet ==
    ASSUME Inv, setLeaf, NEW mem, NEW D \in SUBSET Nat, Holds(mem, D, table)
    PROVE  Holds(rootSet(mem),
                 IF scheme # "flat" /\ completes(Bits)
                 THEN D \cup {superLines + (k \div Bits)} ELSE D,
                 table)
<1> DEFINE q == k \div Bits
           n == superLines + q
<1>0. k \in Nat /\ LINE \in Nat /\ superLines \in Nat /\ Bits \in Nat \ {0} /\ q \in Nat
  <2>1. k \in Nat /\ LINE \in Nat /\ superLines \in Nat /\ Bits \in Nat \ {0}
    BY Numbers DEF setLeaf, Leaves
  <2> QED BY <2>1, Quotient
<1>1. rootSize > 0 <=> scheme # "flat"
  BY TableSizes
<1>2. CASE scheme # "flat" /\ completes(Bits)
  <2>1. k + 1 = (q + 1) * Bits
    BY <1>0, <1>2, LastOfGroup DEF completes
  <2>2. q < rootLines
    <3>1. k \in Nat /\ k < Bits * Bits
      BY PageOfLeaf, Sizes DEF setLeaf
    <3>2. q \in 0 .. Bits - 1
      BY <1>0, <3>1, QuotientLess
    <3>3. rootLines = Bits
      BY <1>2, Numbers DEF rootLines
    <3> QED BY <1>0, <3>2, <3>3
  <2> HIDE DEF q
  <2>3. rootLine = lineOf(Tagged, q)
    <3>1. Gathered((q + 1) * Bits, root_byte', rootLine, Tagged)
      BY <2>1, RootStep
    <3> DEFINE l == rootLine
    <3> HIDE DEF l
    <3>2. l = lineOf(Tagged, q)
      BY <1>0, <3>1, FullLine DEF l
    <3> QED BY <3>2 DEF l
  <2>4. n \in Nat /\ ~(n < superLines) /\ n < superLines + rootLines /\ n - superLines = q
    BY <1>0, <2>2, TableSizes
  <2>5. table[n] = rootLine
    BY <2>3, <2>4 DEF table
  <2>6. LINE * q + superrootSize = LINE * n
    BY <1>0, AddressOfRoot
  <2> DEFINE l == rootLine
  <2> HIDE DEF n, l
  <2>7. Holds(set(mem, LINE * q + superrootSize, l), D \cup {n}, table)
    BY <2>4, <2>5, <2>6, SetLine DEF l
  <2> QED BY <1>1, <1>2, <2>7 DEF rootSet, n, l, q
<1>3. CASE ~(scheme # "flat" /\ completes(Bits))
  <2>1. rootSet(mem) = mem
    BY <1>1, <1>3 DEF rootSet
  <2> QED BY <1>3, <2>1
<1> QED BY <1>2, <1>3

\* A superroot line is stored when its last bit is in.
LEMMA SuperrootLineSet ==
    ASSUME Inv, setLeaf, NEW mem, NEW D \in SUBSET Nat, Holds(mem, D, table)
    PROVE  Holds(superrootSet(mem),
                 IF hasSuper /\ completes(pageLeaves * Bits)
                 THEN D \cup {page \div Bits} ELSE D,
                 table)
<1> DEFINE n == page \div Bits
<1>0. k \in Nat /\ pageLeaves \in Nat \ {0} /\ Bits \in Nat \ {0} /\ page \in Nat /\ n \in Nat
  <2>1. k \in Nat /\ pageLeaves \in Nat \ {0} /\ Bits \in Nat \ {0}
    BY Numbers DEF setLeaf, Leaves
  <2>2. page \in Nat
    BY <2>1, Quotient DEF page
  <2> QED BY <2>1, <2>2, Quotient
<1>1. CASE hasSuper /\ completes(pageLeaves * Bits)
  <2>1. completes(pageLeaves) /\ (page + 1) % Bits = 0
    BY <1>0, <1>1, CompleteWithLast DEF completes, page
  <2>2. (k + 1) \div pageLeaves = page + 1
    BY <1>0, <2>1, NextQuotient DEF completes, page
  <2>3. page + 1 = (n + 1) * Bits
    BY <1>0, <2>1, LastOfGroup
  <2>4. n < superLines
    <3>1. page \in 0 .. pages - 1 /\ pages = pagesOfLine * Bits /\ pagesOfLine \in Nat
      BY PageOfLeaf, Numbers DEF setLeaf, page
    <3>2. page < pagesOfLine * Bits
      BY <1>0, <3>1
    <3>3. n \in 0 .. pagesOfLine - 1
      BY <1>0, <3>1, <3>2, QuotientLess
    <3> QED BY <1>1, <3>1, <3>3 DEF superLines
  <2> HIDE DEF n
  <2>5. superrootLine = lineOf(TaggedPages, n)
    <3>1. Gathered((n + 1) * Bits, superroot_byte', superrootLine, TaggedPages)
      BY <2>2, <2>3, SuperrootStep
    <3> DEFINE l == superrootLine
    <3> HIDE DEF l
    <3>2. l = lineOf(TaggedPages, n)
      BY <1>0, <3>1, FullLine DEF l
    <3> QED BY <3>2 DEF l
  <2>6. table[n] = superrootLine
    BY <1>0, <2>4, <2>5 DEF table
  <2> DEFINE l == superrootLine
  <2> HIDE DEF l
  <2>7. Holds(set(mem, LINE * n, l), D \cup {n}, table)
    BY <1>0, <2>6, SetLine DEF l
  <2> QED BY <1>1, <2>7 DEF superrootSet, n, l
<1>2. CASE ~(hasSuper /\ completes(pageLeaves * Bits))
  <2>1. superrootSet(mem) = mem
    BY <1>2 DEF superrootSet
  <2> QED BY <1>2, <2>1
<1> QED BY <1>1, <1>2

\* The lines in memory are the first ones of each table after a round as before.
LEMMA StoredStep ==
    ASSUME Inv, setLeaf
    PROVE  Holds(memory', stored', table)
<1> DEFINE a  == superLines + rootLines
           r  == k \div Bits
           p  == page \div Bits
           D1 == stored \cup {a + k}
           D2 == IF scheme # "flat" /\ completes(Bits) THEN D1 \cup {superLines + r} ELSE D1
           D3 == IF hasSuper /\ completes(pageLeaves * Bits) THEN D2 \cup {p} ELSE D2
<1>0. k \in Nat /\ pageLeaves \in Nat \ {0} /\ Bits \in Nat \ {0}
      /\ superLines \in Nat /\ rootLines \in Nat
  BY Numbers DEF setLeaf, Leaves
<1>1. r \in Nat /\ p \in Nat /\ pageLeaves * Bits \in Nat \ {0}
  <2>1. page \in Nat
    BY <1>0, Quotient DEF page
  <2> QED BY <1>0, <2>1, Quotient, Product
<1>2. a \in Nat /\ supersDone = (IF hasSuper THEN p ELSE 0)
      /\ rootsDone = IF scheme = "flat" THEN 0 ELSE r
  BY <1>0 DEF supersDone, rootsDone, page
<1>3. /\ supersDone' = IF hasSuper /\ completes(pageLeaves * Bits) THEN supersDone + 1
                       ELSE supersDone
      /\ rootsDone' = IF scheme # "flat" /\ completes(Bits) THEN rootsDone + 1
                      ELSE rootsDone
  <2>1. k' = k + 1 /\ UNCHANGED <<scheme, initial>>
    BY DEF setLeaf
  <2>2. UNCHANGED <<hasSuper, pageLeaves>>
    BY <2>1, SameFile
  <2>3. supersDone' = IF hasSuper THEN ((k + 1) \div pageLeaves) \div Bits ELSE 0
    BY <2>1, <2>2 DEF supersDone
  <2>4. rootsDone' = IF scheme = "flat" THEN 0 ELSE (k + 1) \div Bits
    BY <2>1 DEF rootsDone
  <2>5. ((k + 1) \div pageLeaves) \div Bits = (k + 1) \div (pageLeaves * Bits)
    <3>1. k + 1 \in Nat
      BY <1>0
    <3> QED BY <1>0, <3>1, QuotientOfQuotient
  <2>6. p = k \div (pageLeaves * Bits)
    BY <1>0, QuotientOfQuotient DEF page
  <2>7. (k + 1) \div (pageLeaves * Bits) = IF completes(pageLeaves * Bits) THEN p + 1 ELSE p
    BY <1>0, <1>1, <2>6, NextQuotient DEF completes
  <2>8. (k + 1) \div Bits = IF completes(Bits) THEN r + 1 ELSE r
    BY <1>0, NextQuotient DEF completes
  <2> HIDE DEF r, p
  <2> QED BY <1>2, <2>3, <2>4, <2>5, <2>7, <2>8
<1>4. stored = (0 .. supersDone - 1) \cup (superLines .. superLines + rootsDone - 1)
                  \cup (a .. a + k - 1)
  BY DEF stored
<1>5. stored' = (0 .. supersDone' - 1) \cup (superLines .. superLines + rootsDone' - 1)
                   \cup (a .. a + (k + 1) - 1)
  <2>1. k' = k + 1 /\ superLines' = superLines /\ rootLines' = rootLines
    BY SameFile DEF setLeaf
  <2> QED BY <2>1 DEF stored
<1>6. stored' = D3
  <2> HIDE DEF a, r, p
  <2>1. \A x, m \in Nat : x .. x + (m + 1) - 1 = (x .. x + m - 1) \cup {x + m}
    OBVIOUS
  <2>2. a .. a + (k + 1) - 1 = (a .. a + k - 1) \cup {a + k}
    BY <1>0, <1>2, <2>1
  <2>3. superLines .. superLines + rootsDone' - 1 =
            IF scheme # "flat" /\ completes(Bits)
            THEN (superLines .. superLines + rootsDone - 1) \cup {superLines + r}
            ELSE superLines .. superLines + rootsDone - 1
    <3>1. CASE scheme # "flat" /\ completes(Bits)
      <4>1. rootsDone' = r + 1 /\ rootsDone = r
        BY <1>2, <1>3, <3>1
      <4>2. superLines .. superLines + (r + 1) - 1
            = (superLines .. superLines + r - 1) \cup {superLines + r}
        BY <1>0, <1>1, <2>1
      <4> QED BY <3>1, <4>1, <4>2
    <3>2. CASE ~(scheme # "flat" /\ completes(Bits))
      BY <1>3, <3>2
    <3> QED BY <3>1, <3>2
  <2>4. 0 .. supersDone' - 1 =
            IF hasSuper /\ completes(pageLeaves * Bits) THEN (0 .. supersDone - 1) \cup {p}
            ELSE 0 .. supersDone - 1
    <3>1. CASE hasSuper /\ completes(pageLeaves * Bits)
      <4>1. supersDone' = p + 1 /\ supersDone = p
        BY <1>2, <1>3, <3>1
      <4>2. 0 .. (p + 1) - 1 = (0 .. p - 1) \cup {p}
        BY <1>1
      <4> QED BY <3>1, <4>1, <4>2
    <3>2. CASE ~(hasSuper /\ completes(pageLeaves * Bits))
      BY <1>3, <3>2
    <3> QED BY <3>1, <3>2
  <2> DEFINE A == 0 .. supersDone - 1
             B == superLines .. superLines + rootsDone - 1
             C == a .. a + k - 1
  <2>5. D1 = A \cup B \cup (C \cup {a + k})
    BY <1>4
  <2> HIDE DEF A, B, C, D1
  <2>6. D2 = A \cup (IF scheme # "flat" /\ completes(Bits) THEN B \cup {superLines + r} ELSE B)
               \cup (C \cup {a + k})
    BY <2>5
  <2> HIDE DEF D2
  <2>7. D3 = (IF hasSuper /\ completes(pageLeaves * Bits) THEN A \cup {p} ELSE A)
               \cup (IF scheme # "flat" /\ completes(Bits) THEN B \cup {superLines + r} ELSE B)
               \cup (C \cup {a + k})
    BY <2>6
  <2> QED BY <1>5, <2>2, <2>3, <2>4, <2>7 DEF A, B, C
<1>7. D1 \in SUBSET Nat /\ D2 \in SUBSET Nat
  <2>1. stored \subseteq Nat
    BY <1>0, <1>1, <1>2, <1>4
  <2>2. a + k \in Nat /\ superLines + r \in Nat
    BY <1>0, <1>1, <1>2
  <2> QED BY <2>1, <2>2
<1>8. Holds(leafSet(memory), D1, table)
  BY LeafLineSet
<1> HIDE DEF D1
<1>9. Holds(rootSet(leafSet(memory)), D2, table)
  <2> DEFINE m == leafSet(memory)
  <2>1. Holds(m, D1, table)
    BY <1>8
  <2> HIDE DEF m
  <2>2. Holds(rootSet(m), D2, table)
    BY <1>7, <2>1, RootLineSet
  <2> QED BY <2>2 DEF m
<1> HIDE DEF D2
<1>10. Holds(superrootSet(rootSet(leafSet(memory))), D3, table)
  <2> DEFINE m == rootSet(leafSet(memory))
  <2>1. Holds(m, D2, table)
    BY <1>9
  <2> HIDE DEF m
  <2>2. Holds(superrootSet(m), D3, table)
    BY <1>7, <2>1, SuperrootLineSet
  <2> QED BY <2>2 DEF m
<1> QED BY <1>6, <1>10 DEF setLeaf

\* Every step of setup preserves the invariant.
LEMMA InvStep == Inv /\ [Next]_vars => Inv'
<1> SUFFICES ASSUME Inv, [Next]_vars PROVE Inv'
  OBVIOUS
<1>1. CASE setLeaf
  <2>1. k' = k + 1 /\ UNCHANGED <<scheme, initial>> /\ k \in Leaves
        /\ root_line' = rootLine /\ superroot_line' = superrootLine
    BY <1>1 DEF setLeaf
  <2>2. UNCHANGED <<hasSuper, pageLeaves, Tagged, TaggedPages, table>>
    BY <2>1, SameFile
  <2>3. k' \in 0 .. leafLines
    BY <2>1, PageOfLeaf, Numbers
  <2>4. Gathered(k', root_byte', root_line', Tagged)
    BY <1>1, <2>1, RootStep
  <2>5. Gathered(k' \div pageLeaves, superroot_byte', superroot_line', TaggedPages)
    BY <1>1, <2>1, SuperrootStep
  <2>6. allocated' = {p \in TaggedPages : hasSuper /\ p < k' \div pageLeaves}
    BY <1>1, <2>1, AllocatedStep
  <2>7. Holds(memory', stored', table)
    BY <1>1, StoredStep
  <2>8. scheme \in Schemes /\ initial \in [Leaves -> Line]
    BY DEF Inv
  <2>9. /\ scheme' \in Schemes /\ initial' \in [Leaves -> Line]
        /\ k' \in 0 .. leafLines
        /\ Gathered(k', root_byte', root_line', Tagged')
        /\ Gathered(k' \div pageLeaves', superroot_byte', superroot_line', TaggedPages')
        /\ allocated' = {p \in TaggedPages' : hasSuper' /\ p < k' \div pageLeaves'}
        /\ Holds(memory', stored', table')
    BY <2>1, <2>2, <2>3, <2>4, <2>5, <2>6, <2>7, <2>8
  <2> QED BY <2>9 DEF Inv
<1>2. CASE UNCHANGED vars
  <2>1. UNCHANGED <<scheme, initial, k, root_byte, superroot_byte, root_line,
                    superroot_line, allocated, memory>>
    BY <1>2 DEF vars
  <2>2. UNCHANGED <<hasSuper, pageLeaves, superLines, rootLines, Tagged, TaggedPages,
                    table>>
    BY <2>1, SameFile
  <2>3. UNCHANGED stored
    BY <2>1, <2>2 DEF stored, supersDone, rootsDone
  <2> QED BY <2>1, <2>2, <2>3 DEF Inv
<1> QED BY <1>1, <1>2 DEF Next, return

\* The invariant of setup.
LEMMA Invariance == Spec => []Inv
<1> QED BY InvInit, InvStep, PTL DEF Spec

-----------------------------------------------------------------------------
(* What setup leaves behind *)

\* Groups of d among the first n of c * d: all of them at the end.
LEMMA DoneCounts ==
    ASSUME NEW n \in Nat, NEW d \in Nat \ {0}, NEW c \in Nat, n <= c * d
    PROVE  n \div d <= c /\ (n = c * d => n \div d = c)
<1> DEFINE z == c * d
<1>1. z \in Nat
  BY Product
<1>2. CASE n < c * d
  <2>1. n \div d \in 0 .. c - 1
    BY <1>2, QuotientLess
  <2>2. n # c * d
    BY <1>1, <1>2
  <2> QED BY <2>1, <2>2
<1>3. CASE n = c * d
  <2>1. 0 \in 0 .. d - 1 /\ n = z + 0
    BY <1>1, <1>3
  <2>2. (c * d + 0) \div d = c
    BY <2>1, QuotientIs
  <2>3. n \div d = c
    BY <2>1, <2>2
  <2> QED BY <2>3
<1>4. n < z \/ n = z
  BY <1>1
<1> QED BY <1>2, <1>3, <1>4

\* The upper tables are never longer than they should be, and complete in the end.
LEMMA TablesDone ==
    ASSUME Inv
    PROVE  /\ supersDone <= superLines /\ rootsDone <= rootLines
           /\ k \div pageLeaves <= pages
           /\ done => /\ k = leafLines /\ supersDone = superLines /\ rootsDone = rootLines
                      /\ k \div pageLeaves = pages
<1>0. /\ k \in Nat /\ k <= leafLines /\ leafLines \in Nat
      /\ pageLeaves \in Nat \ {0} /\ Bits \in Nat \ {0} /\ pages \in Nat /\ pagesOfLine \in Nat
      /\ leafLines = pages * pageLeaves /\ leafLines = Bits * Bits
      /\ pages = pagesOfLine * Bits /\ ROOT_LINES = Bits
  BY Numbers DEF Inv
<1> DEFINE q == k \div pageLeaves
<1>1. q \in Nat
  BY <1>0, Quotient
<1>2. q <= pages /\ (k = leafLines => q = pages)
  BY <1>0, DoneCounts
<1> HIDE DEF q
<1>3. q \div Bits <= pagesOfLine /\ (q = pages => q \div Bits = pagesOfLine)
  BY <1>0, <1>1, <1>2, DoneCounts
<1>4. k \div Bits <= Bits /\ (k = leafLines => k \div Bits = Bits)
  BY <1>0, DoneCounts
<1>5. done => k = leafLines
  BY <1>0 DEF done, Leaves
<1>6. /\ supersDone = (IF hasSuper THEN q \div Bits ELSE 0)
      /\ rootsDone = (IF scheme = "flat" THEN 0 ELSE k \div Bits)
  BY DEF supersDone, rootsDone, q
<1> QED BY <1>0, <1>2, <1>3, <1>4, <1>5, <1>6 DEF superLines, rootLines, q

\* A complete line has only bytes that were pushed.
LEMMA LineOfBytes ==
    ASSUME NEW X, NEW r
    PROVE  lineOf(X, r) \in Line
BY DEF lineOf, byteOf, Line, Byte

\* Setup: counters stay in range, and no byte of an uninitialised line reaches memory.
THEOREM TypeCorrect == Spec => []TypeOK
<1>1. Inv => TypeOK
  <2> SUFFICES ASSUME Inv PROVE TypeOK
    OBVIOUS
  <2>1. root_byte \in Byte /\ superroot_byte \in Byte
    BY DEF Inv, Gathered, Byte
  <2>2. allocated \subseteq 0 .. pages - 1
    BY PageOfLeaf DEF Inv, TaggedPages, Tagged
  <2>3. ASSUME NEW addr \in DOMAIN memory PROVE memory[addr] \in Line
    <3>1. PICK n \in stored : addr = LINE * n
      BY DEF Inv, Holds
    <3>2. memory[addr] = table[n]
      BY <3>1 DEF Inv, Holds
    <3>3. /\ k \in Nat /\ k <= leafLines /\ leafLines \in Nat
          /\ superLines \in Nat /\ rootLines \in Nat
          /\ pageLeaves \in Nat \ {0} /\ Bits \in Nat \ {0}
      BY Numbers DEF Inv
    <3>4. supersDone \in Nat /\ rootsDone \in Nat
      <4>1. k \div pageLeaves \in Nat /\ k \div Bits \in Nat
        BY <3>3, Quotient
      <4>2. (k \div pageLeaves) \div Bits \in Nat
        BY <3>3, <4>1, Quotient
      <4> QED BY <4>1, <4>2 DEF supersDone, rootsDone
    <3>5. n \in Nat /\ n < superLines + rootLines + leafLines
      <4>1. CASE n \in 0 .. supersDone - 1
        <5>1. supersDone <= superLines
          BY TablesDone
        <5> QED BY <3>3, <3>4, <4>1, <5>1
      <4>2. CASE n \in superLines .. superLines + rootsDone - 1
        <5>1. rootsDone <= rootLines
          BY TablesDone
        <5> QED BY <3>3, <3>4, <4>2, <5>1
      <4>3. CASE n \in superLines + rootLines .. superLines + rootLines + k - 1
        BY <3>3, <4>3
      <4> QED BY <3>1, <4>1, <4>2, <4>3 DEF stored
    <3>6. CASE n < superLines + rootLines
      BY <3>2, <3>5, <3>6, LineOfBytes DEF table
    <3>7. CASE ~(n < superLines + rootLines)
      <4>1. ~(n < superLines) /\ n - superLines - rootLines \in Leaves
        BY <3>3, <3>5, <3>7 DEF Leaves
      <4>2. table[n] = initial[n - superLines - rootLines]
        BY <3>5, <3>7, <4>1 DEF table
      <4> QED BY <3>2, <4>1, <4>2 DEF Inv
    <3> QED BY <3>6, <3>7
  <2>4. k \in 0 .. leafLines
    BY DEF Inv
  <2> QED BY <2>1, <2>2, <2>3, <2>4 DEF TypeOK
<1> QED BY <1>1, Invariance, PTL

\* In the end every line of every table is stored.
LEMMA AllStored ==
    ASSUME Inv, done
    PROVE  stored = 0 .. superLines + rootLines + leafLines - 1
<1>1. /\ superLines \in Nat /\ rootLines \in Nat /\ leafLines \in Nat
      /\ supersDone = superLines /\ rootsDone = rootLines /\ k = leafLines
  BY Numbers, TablesDone
<1>2. \A a, b, c \in Nat :
         (0 .. a - 1) \cup (a .. a + b - 1) \cup (a + b .. a + b + c - 1) = 0 .. a + b + c - 1
  OBVIOUS
<1>3. stored = (0 .. superLines - 1) \cup (superLines .. superLines + rootLines - 1)
                  \cup (superLines + rootLines .. superLines + rootLines + leafLines - 1)
  BY <1>1 DEF stored
<1> QED BY <1>1, <1>2, <1>3

\* Setup: the dumped tables are one line after the other, without gaps.
THEOREM DumpLayoutAlways == Spec => []DumpLayout
<1>1. Inv => DumpLayout
  <2> SUFFICES ASSUME Inv, done
               PROVE  DOMAIN memory =
                          {LINE * i : i \in 0 .. superrootSize \div LINE + rootSize \div LINE
                                                    + leafLines - 1}
    BY DEF DumpLayout
  <2>1. DOMAIN memory = {LINE * n : n \in 0 .. superLines + rootLines + leafLines - 1}
    BY AllStored DEF Inv, Holds
  <2>2. superrootSize \div LINE = superLines /\ rootSize \div LINE = rootLines
    <3>1. ASSUME NEW n \in Nat PROVE (LINE * n) \div LINE = n
      <4>1. LINE \in Nat \ {0}
        BY Numbers
      <4>2. LINE * n = n * LINE /\ n * LINE <= n * LINE
        BY <4>1, Product
      <4> DEFINE z == n * LINE
      <4>3. z \in Nat /\ z = n * LINE /\ z <= n * LINE
        BY <4>1, <4>2, Product
      <4> HIDE DEF z
      <4>4. z \div LINE = n
        BY <4>1, <4>3, DoneCounts
      <4> QED BY <4>2, <4>4 DEF z
    <3> QED BY <3>1, TableSizes
  <2> QED BY <2>1, <2>2
<1> QED BY <1>1, Invariance, PTL

\* The readers of the tables find the line of the file, whether it has tags, and
\* whether its page has.
LEMMA Readers ==
    ASSUME Inv, done
    PROVE  /\ \A i \in Leaves : leafNo(i) = initial[i]
           /\ scheme # "flat" => \A i \in Leaves : rootBit(i) <=> i \in Tagged
           /\ hasSuper => \A p \in 0 .. pages - 1 : superBit(p) <=> p \in TaggedPages
<1>0. /\ LINE \in Nat \ {0} /\ Bits \in Nat \ {0} /\ superLines \in Nat /\ rootLines \in Nat
      /\ leafLines \in Nat /\ leafLines = Bits * Bits /\ ROOT_LINES = Bits
      /\ pages = pagesOfLine * Bits /\ pages \in Nat /\ pagesOfLine \in Nat
  BY Numbers
<1>1. \A n \in 0 .. superLines + rootLines + leafLines - 1 : memory[LINE * n] = table[n]
  BY AllStored DEF Inv, Holds
<1>2. superrootSize = LINE * superLines /\ rootSize = LINE * rootLines
  BY TableSizes
<1>3. ASSUME NEW i \in Leaves PROVE leafNo(i) = initial[i]
  <2> DEFINE n == superLines + rootLines + i
  <2>1. i \in Nat /\ i < leafLines
    BY PageOfLeaf
  <2>2. n \in 0 .. superLines + rootLines + leafLines - 1 /\ n \in Nat
        /\ ~(n < superLines) /\ ~(n < superLines + rootLines)
        /\ n - superLines - rootLines = i
    BY <1>0, <2>1
  <2>3. LINE * i + rootSize + superrootSize = LINE * n
    BY <1>0, <2>1, AddressOfLeaf
  <2>4. table[n] = initial[i]
    BY <2>2 DEF table
  <2> HIDE DEF n
  <2> QED BY <1>1, <2>2, <2>3, <2>4 DEF leafNo
<1>4. ASSUME scheme # "flat", NEW i \in Leaves PROVE rootBit(i) <=> i \in Tagged
  <2> DEFINE q == i \div Bits
             n == superLines + q
  <2>1. i \in Nat /\ i < leafLines
    BY PageOfLeaf
  <2>2. q \in 0 .. Bits - 1
    BY <1>0, <2>1, QuotientLess
  <2>3. rootLines = Bits
    BY <1>0, <1>4 DEF rootLines
  <2> HIDE DEF q
  <2>4. n \in 0 .. superLines + rootLines + leafLines - 1 /\ n \in Nat
        /\ ~(n < superLines) /\ n < superLines + rootLines /\ n - superLines = q
    BY <1>0, <2>2, <2>3
  <2>5. LINE * q + superrootSize = LINE * n
    BY <1>0, <2>2, AddressOfRoot
  <2>6. table[n] = lineOf(Tagged, q)
    BY <2>4 DEF table
  <2> HIDE DEF n
  <2>7. memory[LINE * q + superrootSize] = lineOf(Tagged, q)
    BY <1>1, <2>4, <2>5, <2>6
  <2>8. getTag(lineOf(Tagged, i \div Bits), i % Bits) <=> i \in Tagged
    BY <2>1, ReadBack
  <2> QED BY <2>7, <2>8 DEF rootBit, q
<1>5. ASSUME hasSuper, NEW p \in 0 .. pages - 1 PROVE superBit(p) <=> p \in TaggedPages
  <2> DEFINE n == p \div Bits
  <2>1. p \in Nat /\ p < pagesOfLine * Bits
    BY <1>0
  <2>2. n \in 0 .. pagesOfLine - 1
    BY <1>0, <2>1, QuotientLess
  <2> HIDE DEF n
  <2>3. n \in 0 .. superLines + rootLines + leafLines - 1 /\ n \in Nat /\ n < superLines
    BY <1>0, <1>5, <2>2 DEF superLines
  <2>4. table[n] = lineOf(TaggedPages, n)
    BY <2>3 DEF table
  <2>5. memory[LINE * n] = lineOf(TaggedPages, n)
    BY <1>1, <2>3, <2>4
  <2>6. getTag(lineOf(TaggedPages, p \div Bits), p % Bits) <=> p \in TaggedPages
    BY <2>1, ReadBack
  <2> QED BY <2>5, <2>6 DEF superBit, lineNo, n
<1> QED BY <1>3, <1>4, <1>5

\* The leaf lines of a page.
LEMMA LeafOfPage ==
    ASSUME NEW p \in 0 .. pages - 1, NEW s \in 0 .. pageLeaves - 1
    PROVE  p * pageLeaves + s \in Leaves /\ (p * pageLeaves + s) \div pageLeaves = p
<1> DEFINE d == pageLeaves
           z == p * d
<1>0. d \in Nat \ {0} /\ pages \in Nat /\ leafLines = pages * d /\ leafLines \in Nat
  BY Numbers
<1>1. z \in Nat /\ p \in Nat /\ p + 1 <= pages
  BY <1>0, Product
<1>2. z + d <= pages * d
  <2>1. (p + 1) * d = z + d
    <3>1. 1 * d = d
      BY <1>0
    <3> QED BY <1>0, <1>1, <3>1, ProductOfSum
  <2>2. (p + 1) * d <= pages * d
    <3> HIDE DEF d
    <3>1. p + 1 \in Int /\ pages \in Int /\ d \in Nat
      BY <1>0, <1>1
    <3> QED BY <1>1, <3>1, ProductGrows
  <2> QED BY <2>1, <2>2
<1>3. (p * d + s) \div d = p
  BY <1>0, <1>1, QuotientIs
<1>4. z + s \in 0 .. leafLines - 1
  <2>1. s \in Nat /\ s < d
    BY <1>0
  <2> HIDE DEF z, d
  <2> QED BY <1>0, <1>1, <1>2, <2>1
<1> QED BY <1>3, <1>4 DEF Leaves

\* The three tables with the pages of the controller: root bits over the leaf lines
\* that are not clear, superroot bits and DRAM for the pages with root bits.
LEMMA TablesReady ==
    ASSUME Inv, done
    PROVE  /\ PageOf(pageLeaves) = 0 .. pages - 1
           /\ leafTable(pageLeaves) \in [0 .. pages - 1 -> [0 .. pageLeaves - 1 -> Line]]
           /\ scheme # "flat" =>
                 rootTable(pageLeaves) =
                    [p \in 0 .. pages - 1 |-> [s \in 0 .. pageLeaves - 1 |->
                        leafTable(pageLeaves)[p][s] # [g \in 0 .. LINE - 1 |-> {}]]]
           /\ hasSuper =>
                 /\ superTable(pageLeaves) =
                       [p \in 0 .. pages - 1 |->
                           rootTable(pageLeaves)[p] # [s \in 0 .. pageLeaves - 1 |-> FALSE]]
                 /\ allocated =
                       {p \in 0 .. pages - 1 :
                           rootTable(pageLeaves)[p] # [s \in 0 .. pageLeaves - 1 |-> FALSE]}
<1> DEFINE size == pageLeaves
           Page == 0 .. pages - 1
           Slot == 0 .. size - 1
           at(p, s) == p * size + s
<1>1. PageOf(size) = Page
  BY DEF PageOf, pages
<1>2. \A p \in Page, s \in Slot : at(p, s) \in Leaves /\ at(p, s) \div size = p
  BY LeafOfPage
<1>3. \A i \in Leaves : /\ i \div size \in Page /\ i % size \in Slot
                        /\ i = at(i \div size, i % size)
  <2> SUFFICES ASSUME NEW i \in Leaves
               PROVE  /\ i \div size \in Page /\ i % size \in Slot
                      /\ i = at(i \div size, i % size)
    OBVIOUS
  <2>1. i \in Nat /\ i \div size \in Page /\ size \in Nat \ {0}
    BY PageOfLeaf, Numbers
  <2> HIDE DEF size, Page
  <2>2. i % size \in Slot /\ i = (i \div size) * size + (i % size)
    BY <2>1, Quotient
  <2> QED BY <2>1, <2>2
<1>4. /\ \A i \in Leaves : leafNo(i) = initial[i] /\ initial[i] \in Line
      /\ scheme # "flat" => \A i \in Leaves : rootBit(i) <=> i \in Tagged
      /\ hasSuper => \A p \in Page : superBit(p) <=> p \in TaggedPages
  BY Readers DEF Inv
<1> DEFINE lt == leafTable(size)
           rt == rootTable(size)
           st == superTable(size)
<1>5. /\ lt = [p \in Page |-> [s \in Slot |-> leafNo(at(p, s))]]
      /\ rt = [p \in Page |-> [s \in Slot |-> rootBit(at(p, s))]]
      /\ st = [p \in Page |-> superBit(p)]
  BY <1>1 DEF leafTable, rootTable, superTable
<1> HIDE DEF size, Page, at, lt, rt, st
<1>6. lt \in [Page -> [Slot -> Line]]
  BY <1>2, <1>4, <1>5
<1>7. ASSUME NEW i \in Leaves
      PROVE  i \in Tagged <=> initial[i] # [g \in 0 .. LINE - 1 |-> {}]
  BY <1>4 DEF Tagged, isClear, Line
<1>8. ASSUME scheme # "flat", NEW p \in Page, NEW s \in Slot
      PROVE  /\ rt[p][s] = (lt[p][s] # [g \in 0 .. LINE - 1 |-> {}])
             /\ rt[p][s] <=> at(p, s) \in Tagged
             /\ rt[p][s] \in BOOLEAN
  <2>1. at(p, s) \in Leaves
    BY <1>2
  <2>2. lt[p][s] = initial[at(p, s)] /\ rt[p][s] = rootBit(at(p, s))
    BY <1>4, <1>5, <2>1
  <2>3. rootBit(at(p, s)) \in BOOLEAN
    BY DEF rootBit, getTag
  <2>4. rootBit(at(p, s)) <=> at(p, s) \in Tagged
    BY <1>4, <1>8, <2>1
  <2>5. at(p, s) \in Tagged <=> initial[at(p, s)] # [g \in 0 .. LINE - 1 |-> {}]
    BY <1>7, <2>1
  <2> QED BY <2>2, <2>3, <2>4, <2>5
<1>9. ASSUME scheme # "flat"
      PROVE  rt = [p \in Page |-> [s \in Slot |-> lt[p][s] # [g \in 0 .. LINE - 1 |-> {}]]]
  <2>1. rt = [p \in Page |-> [s \in Slot |-> rt[p][s]]]
    BY <1>5
  <2> QED BY <1>8, <1>9, <2>1
<1>10. ASSUME hasSuper, NEW p \in Page
       PROVE  /\ p \in TaggedPages <=> rt[p] # [s \in Slot |-> FALSE]
              /\ superBit(p) = (rt[p] # [s \in Slot |-> FALSE])
  <2>1. scheme # "flat"
    BY <1>10 DEF hasSuper
  <2>2. rt[p] = [s \in Slot |-> rt[p][s]]
    BY <1>5
  <2>3. rt[p] # [s \in Slot |-> FALSE] <=> \E s \in Slot : rt[p][s]
    BY <1>8, <2>1, <2>2
  <2>4. (\E s \in Slot : rt[p][s]) <=> \E s \in Slot : at(p, s) \in Tagged
    BY <1>8, <2>1
  <2>5. p \in TaggedPages <=> \E i \in Tagged : i \div size = p
    BY DEF TaggedPages, size
  <2>6. Tagged \subseteq Leaves
    BY DEF Tagged
  <2>7. (\E i \in Tagged : i \div size = p) <=> \E s \in Slot : at(p, s) \in Tagged
    BY <1>2, <1>3, <2>6
  <2>8. superBit(p) \in BOOLEAN /\ (superBit(p) <=> p \in TaggedPages)
    BY <1>4, <1>10 DEF superBit, getTag
  <2> QED BY <2>3, <2>4, <2>5, <2>7, <2>8
<1>11. ASSUME hasSuper PROVE st = [p \in Page |-> rt[p] # [s \in Slot |-> FALSE]]
  BY <1>5, <1>10, <1>11
<1>12. ASSUME hasSuper PROVE allocated = {p \in Page : rt[p] # [s \in Slot |-> FALSE]}
  <2>1. TaggedPages \subseteq Page /\ \A p \in Page : p < pages
    BY PageOfLeaf, Numbers DEF TaggedPages, Tagged, Page
  <2>2. allocated = {p \in TaggedPages : hasSuper /\ p < pages}
    BY TablesDone DEF Inv
  <2>3. allocated = TaggedPages
    BY <1>12, <2>1, <2>2
  <2> QED BY <1>10, <1>12, <2>1, <2>3
<1> QED BY <1>1, <1>6, <1>9, <1>11, <1>12 DEF size, Page, Slot, lt, rt, st

\* Setup ends in an initial state of the controller it sets up: what the proofs
\* about the controllers start from is what the setup loops leave in memory.
THEOREM SetsUpAlways == Spec => []SetsUp
<1>1. Inv => SetsUp
  <2> SUFFICES ASSUME Inv, done
               PROVE  /\ scheme = "flat" => FlatTable!Init
                      /\ scheme = "etm" => Etm!Init
                      /\ scheme = "phoenix" => PhoenixBig!Init
                      /\ scheme = "phoenixs" => PhoenixSmall!Init
                      /\ \A i \in Leaves : leafNo(i) = initial[i]
    BY DEF SetsUp
  <2>1. scheme # "phoenixs" => pageLeaves = Bits
    BY DEF pageLeaves
  <2>2. scheme = "phoenixs" => pageLeaves = small
    BY DEF pageLeaves, small
  <2>3. scheme \in {"phoenix", "phoenixs"} <=> hasSuper
    BY DEF hasSuper
  <2>4. CASE scheme = "flat"
    <3>1. FlatTable!Init
      BY <2>1, <2>4, TablesReady
      DEF FlatTable!Init, FlatTable!LeafTable, FlatTable!LeafLine, FlatTable!Ready, ready, Line
    <3> QED BY <2>4, <3>1, Readers
  <2>5. CASE scheme = "etm"
    <3>1. Bits = pageLeaves
      BY <2>1, <2>5
    <3>2. leafTable(Bits) \in Etm!LeafTable
      BY <3>1, TablesReady DEF Etm!LeafTable, Etm!LeafLine, Line
    <3>3. rootTable(Bits) = Etm!RootOf(leafTable(Bits))
      BY <2>5, <3>1, TablesReady DEF Etm!RootOf, Etm!ZeroLeaf
    <3>4. Etm!Init
      BY <3>2, <3>3, Zenon DEF Etm!Init, Etm!Ready, ready
    <3> QED BY <2>5, <3>4, Readers
  <2>6. CASE scheme = "phoenix"
    <3>1. Bits = pageLeaves
      BY <2>1, <2>6
    <3>2. leafTable(Bits) \in PhoenixBig!LeafTable
      BY <3>1, TablesReady DEF PhoenixBig!LeafTable, PhoenixBig!LeafLine, Line
    <3>3. rootTable(Bits) = PhoenixBig!RootOf(leafTable(Bits))
      BY <2>6, <3>1, TablesReady DEF PhoenixBig!RootOf, PhoenixBig!ZeroLeaf
    <3>4. /\ superTable(Bits) =
                 [p \in PageOf(Bits) |-> rootTable(Bits)[p] # PhoenixBig!ZeroRoot]
          /\ allocated = {p \in PageOf(Bits) : rootTable(Bits)[p] # PhoenixBig!ZeroRoot}
      BY <2>3, <2>6, <3>1, TablesReady DEF PhoenixBig!ZeroRoot
    <3>5. PhoenixBig!Init
      BY <3>2, <3>3, <3>4, Zenon DEF PhoenixBig!Init, PhoenixBig!Ready, ready
    <3> QED BY <2>6, <3>5, Readers
  <2>7. CASE scheme = "phoenixs"
    <3>1. small = pageLeaves
      BY <2>2, <2>7
    <3>2. leafTable(small) \in PhoenixSmall!LeafTable
      BY <3>1, TablesReady DEF PhoenixSmall!LeafTable, PhoenixSmall!LeafLine, Line
    <3>3. rootTable(small) = PhoenixSmall!RootOf(leafTable(small))
      BY <2>7, <3>1, TablesReady DEF PhoenixSmall!RootOf, PhoenixSmall!ZeroLeaf
    <3>4. /\ superTable(small) =
                 [p \in PageOf(small) |-> rootTable(small)[p] # PhoenixSmall!ZeroRoot]
          /\ allocated = {p \in PageOf(small) : rootTable(small)[p] # PhoenixSmall!ZeroRoot}
      BY <2>3, <2>7, <3>1, TablesReady DEF PhoenixSmall!ZeroRoot
    <3>5. PhoenixSmall!Init
      BY <3>2, <3>3, <3>4, Zenon DEF PhoenixSmall!Init, PhoenixSmall!Ready, ready
    <3> QED BY <2>7, <3>5, Readers
  <2> QED BY <2>4, <2>5, <2>6, <2>7 DEF Inv, Schemes
<1> QED BY <1>1, Invariance, PTL

-----------------------------------------------------------------------------
(* The handlers find the tables *)

\* What the handlers' own address arithmetic finds after setup, for a data address
\* whose tags are in leaf line i: the line of the file, a root bit that says whether it
\* has tags, and a superroot bit that says whether its page has DRAM.
Found(addr, i) ==
    /\ scheme = "flat" => memory[tagBase(addr)] = initial[i]
    /\ scheme = "etm" =>
          /\ memory[tagBase(addr) + ROOT_TABLE_SIZE] = initial[i]
          /\ getTag(memory[rootBase(addr)], rootOffset(addr)) <=> ~isClear(initial[i])
    /\ scheme = "phoenix" =>
          /\ memory[leafAddr(addr)] = initial[i]
          /\ getTag(memory[rootAddr(addr)], rootOffset(addr)) <=> ~isClear(initial[i])
          /\ getTag(memory[superrootBase(addr)], superrootOffset(addr))
             <=> blockIndex(addr) \in allocated
    /\ scheme = "phoenixs" =>
          /\ memory[sLeafAddr(addr)] = initial[i]
          /\ getTag(memory[sRootAddr(addr)], rootOffset(addr)) <=> ~isClear(initial[i])
          /\ getTag(memory[sSuperrootBase(addr)], sSuperrootOffset(addr))
             <=> sBlockIndex(addr) \in allocated

RealSizes == BYTE = 8 /\ LINE = 64 /\ EIGHT = 8

\* 8192 bytes of data for each leaf line.
HandlersFindTables == done => \A addr \in DataAddr : Found(addr, addr \div 8192)

\* The sizes of the code.
LEMMA Real ==
    ASSUME RealSizes
    PROVE  /\ Bits = 512 /\ ROOT_LINES = 512 /\ leafLines = 262144
           /\ pageLeaves = (IF scheme = "phoenixs" THEN 64 ELSE 512)
           /\ pages = (IF scheme = "phoenixs" THEN 4096 ELSE 512)
           /\ rootSize = (IF scheme = "flat" THEN 0 ELSE 32768)
           /\ superrootSize = (IF scheme = "phoenixs" THEN 512
                               ELSE IF scheme = "phoenix" THEN 64 ELSE 0)
<1>1. Bits = 512 /\ ROOT_LINES = 512
  BY SetupAssumption DEF RealSizes, Bits
<1>2. leafLines = 262144
  BY <1>1 DEF leafLines
<1>3. pageLeaves = IF scheme = "phoenixs" THEN 64 ELSE 512
  BY <1>1 DEF RealSizes, pageLeaves
<1>4. pages = IF scheme = "phoenixs" THEN 4096 ELSE 512
  BY <1>2, <1>3 DEF pages
<1>5. rootSize = IF scheme = "flat" THEN 0 ELSE 32768
  BY <1>1 DEF RealSizes, rootSize
<1>6. superrootSize = IF scheme = "phoenixs" THEN 512
                      ELSE IF scheme = "phoenix" THEN 64 ELSE 0
  BY <1>4 DEF RealSizes, superrootSize, hasSuper
<1> QED BY <1>1, <1>2, <1>3, <1>4, <1>5, <1>6

\* Setup puts every bit by counting, the handlers look for it by shifting: with the
\* sizes of the code both mean the same place, for every address and every file.
THEOREM HandlersFindTablesAlways == RealSizes /\ Spec => []HandlersFindTables
<1>1. RealSizes /\ Inv => HandlersFindTables
  <2> SUFFICES ASSUME RealSizes, Inv, done, NEW addr \in DataAddr
               PROVE  Found(addr, addr \div 8192)
    BY DEF HandlersFindTables
  <2> DEFINE i == addr \div 8192
             p == i \div pageLeaves
  <2>1. i \in Leaves /\ i \in Nat
    BY Real DEF Leaves, DataAddr, MEMORY_SIZE
  <2>2. p \in 0 .. pages - 1
    BY <2>1, PageOfLeaf
  <2>3. leafNo(i) = initial[i]
    BY <2>1, Readers
  <2>4. scheme # "flat" => (rootBit(i) <=> ~isClear(initial[i]))
    BY <2>1, Readers DEF Tagged
  <2>5. hasSuper => (superBit(p) <=> p \in allocated)
    <3>1. hasSuper => (superBit(p) <=> p \in TaggedPages)
      BY <2>2, Readers
    <3>2. pages \in Nat /\ k \div pageLeaves = pages
      BY TablesDone, Numbers
    <3> HIDE DEF p
    <3>3. hasSuper => (p \in allocated <=> p \in TaggedPages)
      BY <2>2, <3>2 DEF Inv
    <3> QED BY <3>1, <3>3
  <2>6. leafNo(i) = memory[tagBase(addr) + rootSize + superrootSize]
    <3>1. LINE * i = tagBase(addr)
      BY DEF RealSizes, tagBase, DataAddr
    <3> QED BY <3>1 DEF leafNo
  <2>7. rootBit(i) = getTag(memory[rootBase(addr) + superrootSize], rootOffset(addr))
    <3>1. LINE * (i \div Bits) = rootBase(addr) /\ i % Bits = rootOffset(addr)
      <4>1. 64 * ((addr \div 8192) \div 512) = rootBase(addr)
            /\ (addr \div 8192) % 512 = rootOffset(addr)
        BY DEF rootBase, rootOffset, DataAddr
      <4> QED BY <4>1, Real DEF RealSizes
    <3> QED BY <3>1 DEF rootBit
  <2>8. CASE scheme = "flat"
    <3>1. tagBase(addr) + rootSize + superrootSize = tagBase(addr)
      BY <2>8, Real DEF tagBase, DataAddr
    <3> QED BY <2>3, <2>6, <2>8, <3>1 DEF Found
  <2>9. CASE scheme = "etm"
    <3>1. /\ tagBase(addr) + rootSize + superrootSize = tagBase(addr) + ROOT_TABLE_SIZE
          /\ rootBase(addr) + superrootSize = rootBase(addr)
      BY <2>9, Real DEF tagBase, rootBase, DataAddr, ROOT_TABLE_SIZE
    <3> QED BY <2>3, <2>4, <2>6, <2>7, <2>9, <3>1 DEF Found
  <2>10. CASE scheme = "phoenix"
    <3>1. /\ tagBase(addr) + rootSize + superrootSize = leafAddr(addr)
          /\ rootBase(addr) + superrootSize = rootAddr(addr)
      BY <2>10, Real DEF tagBase, rootBase, DataAddr, ROOT_TABLE_SIZE, SUPERROOT_TABLE_SIZE,
                         leafAddr, rootAddr
    <3>2. p = blockIndex(addr) /\ LINE * (p \div Bits) = superrootBase(addr)
          /\ p % Bits = superrootOffset(addr)
      <4>1. p = (addr \div 8192) \div 512
        BY <2>10, Real
      <4>2. (addr \div 8192) \div 512 = blockIndex(addr)
        BY DEF blockIndex, DataAddr, MEMORY_SIZE
      <4>3. /\ 64 * (((addr \div 8192) \div 512) \div 512) = superrootBase(addr)
            /\ ((addr \div 8192) \div 512) % 512 = superrootOffset(addr)
        BY DEF superrootBase, superrootOffset, DataAddr, MEMORY_SIZE
      <4> QED BY <4>1, <4>2, <4>3, Real DEF RealSizes
    <3>3. superBit(p) = getTag(memory[superrootBase(addr)], superrootOffset(addr))
      BY <3>2 DEF superBit, lineNo
    <3>4. hasSuper
      BY <2>10 DEF hasSuper
    <3> HIDE DEF p, i
    <3>5. /\ memory[leafAddr(addr)] = initial[i]
          /\ getTag(memory[rootAddr(addr)], rootOffset(addr)) <=> ~isClear(initial[i])
          /\ getTag(memory[superrootBase(addr)], superrootOffset(addr))
             <=> blockIndex(addr) \in allocated
      BY <2>3, <2>4, <2>5, <2>6, <2>7, <2>10, <3>1, <3>2, <3>3, <3>4
    <3> QED BY <2>10, <3>5 DEF Found, i
  <2>11. CASE scheme = "phoenixs"
    <3>1. /\ tagBase(addr) + rootSize + superrootSize = sLeafAddr(addr)
          /\ rootBase(addr) + superrootSize = sRootAddr(addr)
      BY <2>11, Real DEF tagBase, rootBase, DataAddr, ROOT_TABLE_SIZE, S_SUPERROOT_TABLE_SIZE,
                         sLeafAddr, sRootAddr
    <3>2. p = sBlockIndex(addr) /\ LINE * (p \div Bits) = sSuperrootBase(addr)
          /\ p % Bits = sSuperrootOffset(addr)
      <4>1. p = (addr \div 8192) \div 64
        BY <2>11, Real
      <4>2. (addr \div 8192) \div 64 = sBlockIndex(addr)
        BY DEF sBlockIndex, DataAddr, MEMORY_SIZE
      <4>3. /\ 64 * (((addr \div 8192) \div 64) \div 512) = sSuperrootBase(addr)
            /\ ((addr \div 8192) \div 64) % 512 = sSuperrootOffset(addr)
        BY DEF sSuperrootBase, sSuperrootOffset, DataAddr, MEMORY_SIZE
      <4> QED BY <4>1, <4>2, <4>3, Real DEF RealSizes
    <3>3. superBit(p) = getTag(memory[sSuperrootBase(addr)], sSuperrootOffset(addr))
      BY <3>2 DEF superBit, lineNo
    <3>4. hasSuper
      BY <2>11 DEF hasSuper
    <3> HIDE DEF p, i
    <3>5. /\ memory[sLeafAddr(addr)] = initial[i]
          /\ getTag(memory[sRootAddr(addr)], rootOffset(addr)) <=> ~isClear(initial[i])
          /\ getTag(memory[sSuperrootBase(addr)], sSuperrootOffset(addr))
             <=> sBlockIndex(addr) \in allocated
      BY <2>3, <2>4, <2>5, <2>6, <2>7, <2>11, <3>1, <3>2, <3>3, <3>4
    <3> QED BY <2>11, <3>5 DEF Found, i
  <2> QED BY <2>8, <2>9, <2>10, <2>11 DEF Inv, Schemes
<1>2. RealSizes => []RealSizes
  <2>1. RealSizes => RealSizes'
    BY DEF RealSizes
  <2> QED BY <2>1, PTL
<1> QED BY <1>1, <1>2, Invariance, PTL

-----------------------------------------------------------------------------
(* The lines of utils.h, with the real sizes *)

Utils == INSTANCE LineBits

-----------------------------------------------------------------------------
(* Addresses: TagGeometry *)

\* The tags of the data cachelines follow each other in the leaf table, four bits
\* for each: no two cachelines share a tag, and none is left out.
THEOREM TagsInARow ==
    \A addr \in Nat :
        bitNumber(tagBase(addr), tagOffset(addr)) = 4 * (addr \div 64)
  BY SMT DEF bitNumber, tagBase, tagOffset

\* The root bit of an address is that of the leaf line its tags are in: the bits
\* of the root table follow each other like the lines of the leaf table.
THEOREM RootBitOfLeafLine ==
    \A addr \in Nat :
        bitNumber(rootBase(addr), rootOffset(addr)) = tagBase(addr) \div 64
  BY SMT DEF bitNumber, rootBase, rootOffset, tagBase

\* PhoenixController: the superroot bit of an address is that of the root line
\* with its root bit, and is the bit number blockIndex, so that isBlockClear of
\* the evicted page looks at the bit handleWrite changes.
THEOREM SuperrootBitOfRootLine ==
    \A addr \in DataAddr :
        /\ bitNumber(superrootBase(addr), superrootOffset(addr)) = rootBase(addr) \div 64
        /\ superrootBase(addr) = 0
        /\ blockIndex(addr) = superrootOffset(addr)
  BY SMT DEF bitNumber, superrootBase, superrootOffset, rootBase, blockIndex, DataAddr,
         MEMORY_SIZE

\* PhoenixSController: the superroot bit of an address is that of the eight bytes
\* of the root table with its root bit; blockIndex counts them, fits its sixteen
\* bits, and isBlockClear finds the line and the bit again.
THEOREM SuperrootBitOfEightBytes ==
    \A addr \in DataAddr :
        /\ bitNumber(sSuperrootBase(addr), sSuperrootOffset(addr)) = sBlockIndex(addr)
        /\ bitNumber(rootBase(addr), rootOffset(addr)) \div 64 = sBlockIndex(addr)
        /\ sBlockLine(sBlockIndex(addr)) = sSuperrootBase(addr)
        /\ sBlockBit(sBlockIndex(addr)) = sSuperrootOffset(addr)
  BY SMT DEF bitNumber, sSuperrootBase, sSuperrootOffset, sBlockIndex, rootBase,
         rootOffset, sBlockLine, sBlockBit, DataAddr, MEMORY_SIZE

\* The address of a data cacheline is its page (root line), slot (root bit) and
\* granule (bits of the leaf line), as in TagTables: no two share all three.
THEOREM ProductShape ==
    \A a, b \in Nat :
        /\ rootBase(a) = rootBase(b)
        /\ rootOffset(a) = rootOffset(b)
        /\ tagOffset(a) = tagOffset(b)
        => a \div 64 = b \div 64
  BY SMT DEF rootBase, rootOffset, tagOffset

\* The same for PhoenixSController, whose pages are eight bytes of a root line.
THEOREM ProductShapeS ==
    \A a, b \in DataAddr :
        /\ sBlockIndex(a) = sBlockIndex(b)
        /\ rootOffset(a) % 64 = rootOffset(b) % 64
        /\ tagOffset(a) = tagOffset(b)
        => a \div 64 = b \div 64
  BY SMT DEF sBlockIndex, rootOffset, tagOffset, DataAddr, MEMORY_SIZE

\* The tables do not overlap and nothing is accessed beyond what setup filled.
THEOREM TablesApart ==
    \A addr \in DataAddr :
        /\ superrootBase(addr) + 64 <= SUPERROOT_TABLE_SIZE
        /\ SUPERROOT_TABLE_SIZE <= rootAddr(addr)
        /\ rootAddr(addr) + 64 <= SUPERROOT_TABLE_SIZE + ROOT_TABLE_SIZE
        /\ SUPERROOT_TABLE_SIZE + ROOT_TABLE_SIZE <= leafAddr(addr)
        /\ leafAddr(addr) + 64
             <= SUPERROOT_TABLE_SIZE + ROOT_TABLE_SIZE + TAG_TABLE_SIZE
  BY SMT DEF superrootBase, rootAddr, rootBase, leafAddr, tagBase, DataAddr, MEMORY_SIZE,
         SUPERROOT_TABLE_SIZE, ROOT_TABLE_SIZE, TAG_TABLE_SIZE

\* The same for the tables of PhoenixSController.
THEOREM TablesApartS ==
    \A addr \in DataAddr :
        /\ sSuperrootBase(addr) + 64 <= S_SUPERROOT_TABLE_SIZE
        /\ S_SUPERROOT_TABLE_SIZE <= sRootAddr(addr)
        /\ sRootAddr(addr) + 64 <= S_SUPERROOT_TABLE_SIZE + ROOT_TABLE_SIZE
        /\ S_SUPERROOT_TABLE_SIZE + ROOT_TABLE_SIZE <= sLeafAddr(addr)
        /\ sLeafAddr(addr) + 64
             <= S_SUPERROOT_TABLE_SIZE + ROOT_TABLE_SIZE + TAG_TABLE_SIZE
  BY SMT DEF sSuperrootBase, sRootAddr, rootBase, sLeafAddr, tagBase, DataAddr, MEMORY_SIZE,
         S_SUPERROOT_TABLE_SIZE, ROOT_TABLE_SIZE, TAG_TABLE_SIZE

-----------------------------------------------------------------------------
(* Single tags: root and superroot lines *)

\* A tag is in one of the 64 bytes, and no two tags have the same place in the
\* same byte.
LEMMA TagPlace ==
    ASSUME NEW i \in Utils!Slot
    PROVE  /\ i \div 8 \in 0 .. 63 /\ Utils!place(i) \in 0 .. 7
           /\ \A j \in Utils!Slot :
                 i \div 8 = j \div 8 /\ Utils!place(i) = Utils!place(j) => i = j
BY DEF Utils!Slot, Utils!place

\* Every bit of every byte is a tag.
LEMMA PlaceOfTag ==
    ASSUME NEW c \in 0 .. 63, NEW b \in 0 .. 7
    PROVE  LET i == 8 * c + (7 - b)
           IN  i \in Utils!Slot /\ i \div 8 = c /\ Utils!place(i) = b
BY DEF Utils!Slot, Utils!place

\* modifyTag changes the tag it is given and no other, and the line keeps its form:
\* on root lines it is modifyTag of the tables.
THEOREM OneTag ==
    ASSUME NEW line \in Utils!Cacheline, NEW i \in Utils!Slot, NEW tag \in BOOLEAN
    PROVE  /\ Utils!modifyTag(line, i, tag) \in Utils!Cacheline
           /\ Utils!asRoot(Utils!modifyTag(line, i, tag))
                  = Utils!Tables!modifyTag(Utils!asRoot(line), i, tag)
<1>1. i \div 8 \in 0 .. 63 /\ Utils!place(i) \in 0 .. 7
  BY TagPlace
<1>2. Utils!modifyTag(line, i, tag) \in Utils!Cacheline
  BY <1>1 DEF Utils!modifyTag, Utils!Cacheline, Utils!Byte
<1>3. ASSUME NEW j \in Utils!Slot
      PROVE  Utils!getTag(Utils!modifyTag(line, i, tag), j)
                 = IF j = i THEN tag ELSE Utils!getTag(line, j)
  <2>1. /\ j \div 8 \in 0 .. 63
        /\ i \div 8 = j \div 8 /\ Utils!place(i) = Utils!place(j) => i = j
    BY <1>3, TagPlace
  <2> DEFINE c == i \div 8
             l == j \div 8
             a == Utils!place(i)
             b == Utils!place(j)
  <2>2. Utils!modifyTag(line, i, tag)[l] =
            IF l = c THEN IF tag THEN line[c] \cup {a} ELSE line[c] \ {a} ELSE line[l]
    BY <1>1, <2>1 DEF Utils!modifyTag, Utils!Cacheline
  <2>3. (i = j => c = l /\ a = b) /\ (c = l /\ a = b => i = j)
    BY <2>1
  <2> HIDE DEF c, l, a, b
  <2>4. b \in Utils!modifyTag(line, i, tag)[l] <=> IF j = i THEN tag ELSE b \in line[l]
    <3>1. CASE i = j
      BY <2>2, <2>3, <3>1
    <3>2. CASE i # j
      BY <2>2, <2>3, <3>2
    <3> QED BY <3>1, <3>2
  <2> QED BY <2>4 DEF Utils!getTag, c, l, a, b
<1> QED BY <1>2, <1>3 DEF Utils!asRoot, Utils!Tables!modifyTag

-----------------------------------------------------------------------------
(* Four tags at a time: leaf lines *)

\* The four tags of a granule are in one byte, and are those of no other.
LEMMA GranulePlace ==
    ASSUME NEW g \in Utils!Granule, NEW t \in 0 .. 3
    PROVE  /\ (4 * g) \div 8 \in 0 .. 63
           /\ Utils!place(4 * g + (3 - t)) = 4 - 4 * (g % 2) + t
           /\ \A h \in Utils!Granule :
                 (4 * h) \div 8 = (4 * g) \div 8 => h = g \/ (h % 2) # (g % 2)
BY DEF Utils!Granule, Utils!place

\* Where the code finds tag t of granule g.
granuleByte(g)     == (4 * g) \div 8
granulePlace(g, t) == Utils!place(4 * g + (3 - t))

\* So granules that share a byte have different places in it.
LEMMA GranulesApart ==
    ASSUME NEW g \in Utils!Granule, NEW t \in 0 .. 3,
           NEW h \in Utils!Granule, NEW u \in 0 .. 3,
           granuleByte(h) = granuleByte(g)
    PROVE  granulePlace(h, u) = granulePlace(g, t) <=> h = g /\ u = t
<1>1. /\ granulePlace(g, t) = 4 - 4 * (g % 2) + t
      /\ granulePlace(h, u) = 4 - 4 * (h % 2) + u
      /\ h = g \/ (h % 2) # (g % 2)
  BY GranulePlace DEF granuleByte, granulePlace
<1>2. g % 2 \in 0 .. 1 /\ h % 2 \in 0 .. 1
  BY DEF Utils!Granule
<1>3. \A r, q \in 0 .. 1 : 4 - 4 * q + u = 4 - 4 * r + t <=> q = r /\ u = t
  OBVIOUS
<1> QED BY <1>1, <1>2, <1>3, Zenon

\* modifyTags changes the four tags of one data cacheline and no others, and the
\* line keeps its form: on leaf lines it is modifyTags of the tables.
THEOREM FourTagsOfAGranule ==
    ASSUME NEW line \in Utils!Cacheline, NEW g \in Utils!Granule,
           NEW tags \in Utils!FourTags
    PROVE  /\ Utils!modifyTags(line, 4 * g, tags) \in Utils!Cacheline
           /\ Utils!asLeaf(Utils!modifyTags(line, 4 * g, tags))
                  = Utils!Tables!modifyTags(Utils!asLeaf(line), g, tags)
<1> DEFINE new == Utils!modifyTags(line, 4 * g, tags)
<1>1. \A h \in Utils!Granule : /\ granuleByte(h) \in 0 .. 63
                               /\ \A t \in 0 .. 3 : granulePlace(h, t) \in 0 .. 7
  <2> SUFFICES ASSUME NEW h \in Utils!Granule
               PROVE  /\ granuleByte(h) \in 0 .. 63
                      /\ \A t \in 0 .. 3 : granulePlace(h, t) \in 0 .. 7
    OBVIOUS
  <2>1. granuleByte(h) \in 0 .. 63
    BY DEF Utils!Granule, granuleByte
  <2>2. ASSUME NEW t \in 0 .. 3 PROVE granulePlace(h, t) \in 0 .. 7
    BY <2>2 DEF Utils!Granule, Utils!place, granulePlace
  <2> QED BY <2>1, <2>2
<1>2. ASSUME NEW h \in Utils!Granule, NEW t \in 0 .. 3, NEW u \in 0 .. 3,
             granuleByte(h) = granuleByte(g)
      PROVE  granulePlace(h, u) = granulePlace(g, t) <=> h = g /\ u = t
  BY <1>2, GranulesApart
<1>3. new = [line EXCEPT ![granuleByte(g)] =
                (@ \ {granulePlace(g, t) : t \in 0 .. 3})
                    \cup {granulePlace(g, t) : t \in 0 .. 3 \cap tags}]
  BY DEF Utils!modifyTags, granuleByte, granulePlace
<1>4. \A h \in Utils!Granule, l \in Utils!Cacheline, u \in 0 .. 3 :
         u \in Utils!getTags(l, 4 * h) <=> granulePlace(h, u) \in l[granuleByte(h)]
  BY DEF Utils!getTags, granuleByte, granulePlace
<1> HIDE DEF new
<1>5. new \in Utils!Cacheline
  BY <1>1, <1>3 DEF Utils!Cacheline, Utils!Byte
<1>6. ASSUME NEW h \in Utils!Granule, NEW u \in 0 .. 3
      PROVE  u \in Utils!getTags(new, 4 * h)
             <=> u \in (IF h = g THEN tags ELSE Utils!getTags(line, 4 * h))
  <2>1. CASE granuleByte(h) # granuleByte(g)
    <3>1. new[granuleByte(h)] = line[granuleByte(h)]
      BY <1>1, <1>3, <2>1 DEF Utils!Cacheline
    <3> QED BY <1>4, <1>5, <2>1, <3>1
  <2>2. CASE granuleByte(h) = granuleByte(g)
    <3>1. new[granuleByte(g)] = (line[granuleByte(g)] \ {granulePlace(g, t) : t \in 0 .. 3})
                         \cup {granulePlace(g, t) : t \in 0 .. 3 \cap tags}
      BY <1>1, <1>3 DEF Utils!Cacheline
    <3>2. \A t \in 0 .. 3 : granulePlace(h, u) = granulePlace(g, t) <=> h = g /\ u = t
      BY <1>2, <2>2
    <3>3. granulePlace(h, u) \in new[granuleByte(g)]
          <=> IF h = g THEN u \in tags ELSE granulePlace(h, u) \in line[granuleByte(g)]
      BY <3>1, <3>2
    <3> QED BY <1>4, <1>5, <2>2, <3>3
  <2> QED BY <2>1, <2>2
<1>7. ASSUME NEW h \in Utils!Granule
      PROVE  Utils!getTags(new, 4 * h) = IF h = g THEN tags ELSE Utils!getTags(line, 4 * h)
  <2>1. Utils!getTags(new, 4 * h) \subseteq 0 .. 3 /\ Utils!getTags(line, 4 * h) \subseteq 0 .. 3
        /\ tags \subseteq 0 .. 3
    BY DEF Utils!getTags, Utils!FourTags
  <2> QED BY <1>6, <1>7, <2>1
<1> QED BY <1>5, <1>7 DEF new, Utils!asLeaf, Utils!Tables!modifyTags

-----------------------------------------------------------------------------
(* Clear lines *)

\* isClear asks whether a line has no tags: as a root line, and as a leaf line.
THEOREM ClearLines ==
    ASSUME NEW line \in Utils!Cacheline
    PROVE  /\ Utils!isClear(line) <=> Utils!asRoot(line) = Utils!Tables!ZeroRoot
           /\ Utils!isClear(line) <=> Utils!asLeaf(line) = Utils!Tables!ZeroLeaf
<1>1. Utils!isClear(line) <=> \A i \in 0 .. 63, b \in 0 .. 7 : b \notin line[i]
  BY DEF Utils!isClear, Utils!Cacheline, Utils!Byte
<1>2. ASSUME NEW c \in 0 .. 63, NEW b \in 0 .. 7, b \in line[c]
      PROVE  /\ \E s \in Utils!Slot : Utils!getTag(line, s)
             /\ \E g \in Utils!Granule : Utils!getTags(line, 4 * g) # {}
  <2>1. \E s \in Utils!Slot : Utils!getTag(line, s)
    <3> DEFINE i == 8 * c + (7 - b)
    <3>1. i \in Utils!Slot /\ i \div 8 = c /\ Utils!place(i) = b
      BY PlaceOfTag
    <3> QED BY <1>2, <3>1 DEF Utils!getTag
  <2>2. \E g \in Utils!Granule : Utils!getTags(line, 4 * g) # {}
    <3> DEFINE g == 2 * c + (IF b > 3 THEN 0 ELSE 1)
               t == IF b > 3 THEN b - 4 ELSE b
    <3>1. g \in Utils!Granule /\ t \in 0 .. 3 /\ (4 * g) \div 8 = c /\ 4 - 4 * (g % 2) + t = b
      BY DEF Utils!Granule
    <3> HIDE DEF g, t
    <3>2. Utils!place(4 * g + (3 - t)) = b
      BY <3>1, GranulePlace
    <3>3. t \in Utils!getTags(line, 4 * g)
      BY <1>2, <3>1, <3>2 DEF Utils!getTags
    <3> QED BY <3>1, <3>3
  <2> QED BY <2>1, <2>2
<1>3. ASSUME \A c \in 0 .. 63, b \in 0 .. 7 : b \notin line[c]
      PROVE  /\ \A s \in Utils!Slot : ~Utils!getTag(line, s)
             /\ \A g \in Utils!Granule : Utils!getTags(line, 4 * g) = {}
  <2>1. \A s \in Utils!Slot : ~Utils!getTag(line, s)
    BY <1>3, TagPlace DEF Utils!getTag
  <2>2. ASSUME NEW g \in Utils!Granule, NEW t \in 0 .. 3
        PROVE  t \notin Utils!getTags(line, 4 * g)
    <3>1. (4 * g) \div 8 \in 0 .. 63 /\ g % 2 \in 0 .. 1
          /\ Utils!place(4 * g + (3 - t)) = 4 - 4 * (g % 2) + t
      BY GranulePlace DEF Utils!Granule
    <3>2. Utils!place(4 * g + (3 - t)) \in 0 .. 7
      BY <3>1
    <3> QED BY <1>3, <3>1, <3>2 DEF Utils!getTags
  <2>3. \A g \in Utils!Granule : Utils!getTags(line, 4 * g) \subseteq 0 .. 3
    BY DEF Utils!getTags
  <2> QED BY <2>1, <2>2, <2>3
<1>4. Utils!asRoot(line) = Utils!Tables!ZeroRoot
      <=> \A s \in Utils!Slot : ~Utils!getTag(line, s)
  <2>1. \A s \in Utils!Slot : Utils!getTag(line, s) \in BOOLEAN
    BY DEF Utils!getTag
  <2> QED BY <2>1 DEF Utils!asRoot, Utils!Tables!ZeroRoot
<1>5. Utils!asLeaf(line) = Utils!Tables!ZeroLeaf
      <=> \A g \in Utils!Granule : Utils!getTags(line, 4 * g) = {}
  BY DEF Utils!asLeaf, Utils!Tables!ZeroLeaf
<1> QED BY <1>1, <1>2, <1>3, <1>4, <1>5

\* eightBytesClear asks whether 64 root bits in a row, those of a small page, are
\* clear.
THEOREM EightBytesArePage ==
    ASSUME NEW line \in Utils!Cacheline, NEW w \in 0 .. 7
    PROVE  Utils!eightBytesClear(line, w)
           <=> \A s \in 64 * w .. 64 * w + 63 : ~Utils!getTag(line, s)
<1>1. ASSUME NEW c \in w * 8 .. w * 8 + 7, NEW b \in 0 .. 7
      PROVE  LET s == 8 * c + (7 - b)
             IN  s \in 64 * w .. 64 * w + 63 /\ (Utils!getTag(line, s) <=> b \in line[c])
  <2>1. c \in 0 .. 63 /\ 8 * c + (7 - b) \in 64 * w .. 64 * w + 63
    OBVIOUS
  <2> QED BY <2>1, PlaceOfTag DEF Utils!getTag
<1>2. ASSUME NEW s \in 64 * w .. 64 * w + 63
      PROVE  s \div 8 \in w * 8 .. w * 8 + 7 /\ Utils!place(s) \in 0 .. 7
  BY DEF Utils!place
<1>3. \A c \in w * 8 .. w * 8 + 7 : line[c] \subseteq 0 .. 7
  BY DEF Utils!Cacheline, Utils!Byte
<1> QED BY <1>1, <1>2, <1>3 DEF Utils!eightBytesClear, Utils!getTag
==============================================================================
