--------------------------- MODULE SimulatorProofs ---------------------------
(***************************************************************************)
(* processTrace under the programs that call it, for every CHUNK_SIZE,     *)
(* every trace and every n: the entries a controller serves are the next n *)
(* of the trace, in order.                                                 *)
(*                                                                         *)
(* The three places where a chunk may end, its size, n and the end of the  *)
(* trace, meet in Position: what was read is as far as the loop variable,  *)
(* n or the trace got.  Buffered ties the entries in the buffer to their   *)
(* places in the trace.                                                    *)
(***************************************************************************)
EXTENDS Verifier, SequenceTheorems, FiniteSetTheorems, TLAPS

read == pos - start           \* entries read for this controller
left == Len(trace) - start    \* entries there are for it

Counters ==
    /\ trace \in Seq(Misses)
    /\ n \in Nat /\ at \in Nat /\ start \in Nat /\ pos \in Nat /\ processed \in Nat
    /\ start <= pos /\ pos <= Len(trace)

Position ==
    /\ read <= at /\ read <= n
    /\ read \in {at, n, left}

Accesses == {access(initial, miss) : miss \in Misses}

Buffered ==
    /\ buffer \in Seq(Accesses)
    /\ processed + Len(buffer) = read
    /\ \A i \in 1 .. Len(buffer) :
          buffer[i] = access(initial, trace[start + processed + i])

Inv == Counters /\ Position /\ Buffered

-----------------------------------------------------------------------------
(* One chunk *)

\* The least of three numbers is one of them, and none is smaller.
LEMMA Least ==
    ASSUME NEW a \in Int, NEW b \in Int, NEW c \in Int
    PROVE  /\ least({a, b, c}) \in {a, b, c}
           /\ least({a, b, c}) <= a /\ least({a, b, c}) <= b /\ least({a, b, c}) <= c
<1>1. \E x \in {a, b, c} : \A y \in {a, b, c} : x <= y
  OBVIOUS
<1> QED BY <1>1 DEF least

\* Likewise for two.
LEMMA LeastOfTwo ==
    ASSUME NEW a \in Int, NEW b \in Int
    PROVE  /\ least({a, b}) \in {a, b}
           /\ least({a, b}) <= a /\ least({a, b}) <= b
<1>1. \E x \in {a, b} : \A y \in {a, b} : x <= y
  OBVIOUS
<1> QED BY <1>1 DEF least

\* A chunk takes the entries that follow those read before, and no others.
LEMMA ReadStep ==
    ASSUME Inv, readLLCMisses
    PROVE  Inv'
<1> USE SimulatorAssumption
<1> DEFINE c == chunk(at)
<1>1. /\ trace \in Seq(Misses) /\ Len(trace) \in Nat
      /\ n \in Nat /\ at \in Nat /\ start \in Nat /\ pos \in Nat /\ processed \in Nat
      /\ start <= pos /\ pos <= Len(trace) /\ at < n /\ CHUNK_SIZE \in Nat \ {0}
  BY LenProperties DEF Inv, Counters, readLLCMisses
<1>2. /\ c \in {CHUNK_SIZE, n - at, Len(trace) - pos}
      /\ c <= CHUNK_SIZE /\ c <= n - at /\ c <= Len(trace) - pos
  <2>1. CHUNK_SIZE \in Int /\ n - at \in Int /\ Len(trace) - pos \in Int
    BY <1>1
  <2> QED BY <2>1, Least DEF chunk
<1>3. c \in Nat
  BY <1>1, <1>2
<1>4. /\ buffer = <<>>
      /\ buffer' = [i \in 1 .. c |-> access(initial, trace[pos + i])]
      /\ pos' = pos + c /\ at' = at + CHUNK_SIZE
      /\ initial' = initial /\ trace' = trace /\ n' = n
      /\ start' = start /\ processed' = processed
  BY DEF readLLCMisses, nextAt, input
<1> HIDE DEF c
<1>5. Counters'
  BY <1>1, <1>2, <1>3, <1>4 DEF Counters
<1>6. Position'
  BY <1>1, <1>2, <1>3, <1>4 DEF Inv, Position, read, left
<1>7. processed = pos - start
  BY <1>1, <1>4 DEF Inv, Buffered, read
<1>8. Buffered'
  <2>1. \A i \in 1 .. c : access(initial, trace[pos + i]) \in Accesses
    <3>1. \A i \in 1 .. c : trace[pos + i] \in Misses
      BY <1>1, <1>2, <1>3, ElementOfSeq
    <3> QED BY <3>1 DEF Accesses
  <2>2. buffer' \in Seq(Accesses) /\ Len(buffer') = c
    BY <1>3, <1>4, <2>1, IsASeq
  <2>3. Accesses' = Accesses
    BY <1>4 DEF Accesses
  <2>4. \A i \in 1 .. c : buffer'[i] = access(initial, trace[start + processed + i])
    BY <1>1, <1>4, <1>7
  <2> QED BY <1>1, <1>3, <1>4, <1>7, <2>2, <2>3, <2>4 DEF Buffered, read
<1> QED BY <1>5, <1>6, <1>8 DEF Inv

-----------------------------------------------------------------------------
(* One access *)

\* What serve and serveDummy share: the first access of the buffer is served.
Served1 ==
    /\ buffer # <<>>
    /\ buffer' = Tail(buffer)
    /\ processed' = processed + 1
    /\ reply'.op = Head(buffer).op /\ reply'.addr = Head(buffer).addr
    /\ UNCHANGED <<input, start, pos, at>>

\* Whichever controller serves it.
LEMMA ServeIsServed1 == serve \/ serveDummy => Served1
BY DEF serve, serveDummy, Served1, firstOfBuffer, Served,
       controller!handleRead, controller!handleWrite, controller!Served

\* The access served comes from the place of the trace that its number says.
LEMMA ServeStep ==
    ASSUME Inv, Served1
    PROVE  /\ Inv'
           /\ reply'.op = trace[start + processed'].type
           /\ reply'.addr = trace[start + processed'].addr
<1>1. /\ buffer \in Seq(Accesses) /\ buffer # <<>>
      /\ buffer' = Tail(buffer) /\ processed' = processed + 1
      /\ initial' = initial /\ trace' = trace /\ n' = n
      /\ start' = start /\ pos' = pos /\ at' = at
  BY DEF Inv, Buffered, Served1, input
<1>2. /\ Len(buffer) \in Nat \ {0}
      /\ buffer' \in Seq(Accesses) /\ Len(buffer') = Len(buffer) - 1
      /\ \A i \in 1 .. Len(buffer') : buffer'[i] = buffer[i + 1]
      /\ Head(buffer) = buffer[1]
  BY <1>1, HeadTailProperties, LenProperties, EmptySeq
<1>3. /\ n \in Nat /\ at \in Nat /\ start \in Nat /\ pos \in Nat /\ processed \in Nat
      /\ processed + Len(buffer) = pos - start
  BY DEF Inv, Counters, Buffered, read
<1>4. \A i \in 1 .. Len(buffer) : buffer[i] = access(initial, trace[start + processed + i])
  BY DEF Inv, Buffered
<1>5. Counters' /\ Position'
  BY <1>1, <1>3 DEF Inv, Counters, Position, read, left
<1>6. Buffered'
  <2>1. Accesses' = Accesses
    BY <1>1 DEF Accesses
  <2>2. ASSUME NEW i \in 1 .. Len(buffer')
        PROVE  buffer'[i] = access(initial, trace[start + processed' + i])
    <3>1. i + 1 \in 1 .. Len(buffer) /\ start + processed' + i = start + processed + (i + 1)
      BY <1>1, <1>2, <1>3
    <3>2. buffer'[i] = buffer[i + 1]
      BY <1>2
    <3> QED BY <1>4, <3>1, <3>2
  <2>3. processed' + Len(buffer') = pos - start
    BY <1>1, <1>2, <1>3
  <2> QED BY <1>1, <1>2, <2>1, <2>2, <2>3 DEF Buffered, read
<1>7. Head(buffer) = access(initial, trace[start + processed'])
  BY <1>1, <1>2, <1>3, <1>4
<1> QED BY <1>5, <1>6, <1>7 DEF Inv, Served1, access

\* A second simulation starts with an empty buffer where the first has stopped.
LEMMA StartSecond ==
    ASSUME Inv, startSecond
    PROVE  Inv'
<1>1. /\ trace \in Seq(Misses) /\ Len(trace) \in Nat /\ n \in Nat
      /\ start \in Nat /\ pos \in Nat /\ pos <= Len(trace)
      /\ buffer = <<>>
  BY LenProperties DEF Inv, Counters, startSecond, finished
<1>2. /\ initial' = initial /\ trace' = trace /\ n' = n /\ buffer' = buffer
      /\ start' = pos /\ pos' = pos /\ at' = 0 /\ processed' = 0
  BY DEF startSecond, input
<1>3. Counters' /\ Position'
  BY <1>1, <1>2 DEF Counters, Position, read, left
<1>4. Buffered'
  BY <1>1, <1>2 DEF Buffered, Accesses, read
<1> QED BY <1>3, <1>4 DEF Inv

\* The other steps of the programs are after a simulation.
LEMMA OtherSteps ==
    ASSUME endOfOne \/ compare \/ ended \/ UNCHANGED allVars
    PROVE  UNCHANGED <<vars, mode>> /\ (phase' = "second" => phase = "second")
BY DEF endOfOne, compare, ended, allVars, verifier

\* The invariant is about the simulator's variables.
LEMMA InvUnchanged == Inv /\ UNCHANGED vars => Inv'
BY DEF Inv, vars, input, Counters, Position, Buffered, Accesses, read, left

\* Every step of the programs keeps the invariant.
LEMMA InvStep == Inv /\ [VNext]_allVars => Inv'
<1> SUFFICES ASSUME Inv, [VNext]_allVars PROVE Inv'
  OBVIOUS
<1>1. CASE readChunk
  BY <1>1, ReadStep DEF readChunk
<1>2. CASE serveNext
  BY <1>2, ServeIsServed1, ServeStep DEF serveNext
<1>3. CASE startSecond
  BY <1>3, StartSecond
<1>4. CASE endOfOne \/ compare \/ ended \/ UNCHANGED allVars
  BY <1>4, OtherSteps, InvUnchanged
<1> QED BY <1>1, <1>2, <1>3, <1>4 DEF VNext

\* Before the first chunk nothing is read, and the trace is one of entries.
LEMMA InvInit == VInit => Inv
<1> SUFFICES ASSUME Init PROVE Inv
  BY DEF VInit
<1>1. trace \in Seq(Misses)
  <2>1. PICK k \in 0 .. MaxTrace : trace \in [1 .. k -> Misses]
    BY DEF Init
  <2>2. k \in Nat
    BY SimulatorAssumption
  <2> QED BY <2>1, <2>2, SeqDef
<1>2. Len(trace) \in Nat
  BY <1>1, LenProperties
<1>3. n \in Nat
  BY SimulatorAssumption DEF Init
<1> QED BY <1>1, <1>2, <1>3 DEF Init, Inv, Counters, Position, Buffered, read, left

\* The invariant holds in every reachable state.
LEMMA Invariance == VSpec => []Inv
BY InvInit, InvStep, PTL DEF VSpec

\* No entry is lost, read twice or read beyond n, however chunks, n and the end of
\* the trace fall, and also for a controller that is simulated second.
THEOREM ServesWantedAlways == VSpec => []ServesWanted
<1>1. Inv => ServesWanted
  <2> SUFFICES ASSUME Inv PROVE ServesWanted
    OBVIOUS
  <2>1. /\ trace \in Seq(Misses) /\ Len(trace) \in Nat /\ processed \in Nat
        /\ n \in Nat /\ at \in Nat /\ start \in Nat /\ pos \in Nat /\ pos <= Len(trace)
        /\ processed + Len(buffer) = pos - start
    BY LenProperties DEF Inv, Counters, Buffered, read
  <2>2. ASSUME finished PROVE processed = least({n, Len(trace) - start})
    <3>1. Len(buffer) = 0 /\ at >= n
      BY <2>2 DEF finished
    <3>2. /\ processed \in {n, Len(trace) - start} \/ processed = at
          /\ processed <= n /\ processed <= at /\ processed <= Len(trace) - start
      BY <2>1, <3>1 DEF Inv, Position, read, left
    <3>3. processed \in {n, Len(trace) - start}
      BY <2>1, <3>1, <3>2
    <3>4. n \in Int /\ Len(trace) - start \in Int
      BY <2>1
    <3>5. /\ least({n, Len(trace) - start}) \in {n, Len(trace) - start}
          /\ least({n, Len(trace) - start}) <= n
          /\ least({n, Len(trace) - start}) <= Len(trace) - start
      BY <3>4, LeastOfTwo, Zenon
    <3> QED BY <3>2, <3>3, <3>4, <3>5
  <2> QED BY <2>1, <2>2 DEF ServesWanted
<1> QED BY Invariance, <1>1, PTL

\* The k-th request a controller gets is the k-th entry it should get.
THEOREM InOrderAlways == VSpec => InOrder
<1>1. Inv /\ [VNext]_allVars =>
        [processed' = processed + 1
           => /\ reply'.op = trace[start + processed'].type
              /\ reply'.addr = trace[start + processed'].addr]_vars
  <2> SUFFICES ASSUME Inv, [VNext]_allVars, processed' = processed + 1
               PROVE  /\ reply'.op = trace[start + processed'].type
                      /\ reply'.addr = trace[start + processed'].addr
    OBVIOUS
  <2>1. processed \in Nat /\ processed' # processed /\ processed' # 0
    BY DEF Inv, Counters
  <2>2. serveNext
    BY <2>1, OtherSteps DEF VNext, readChunk, readLLCMisses, startSecond, vars
  <2> QED BY <2>2, ServeIsServed1, ServeStep DEF serveNext
<1> QED BY Invariance, <1>1, PTL DEF VSpec, InOrder

-----------------------------------------------------------------------------
(* Log points *)

\* Appending the entry just served keeps the log in order and complete.
LEMMA Dump ==
    ASSUME Counters, log \in Seq(Nat), LogsAtPoints, log' = dump,
           processed' = processed + 1, log_points' = log_points
    PROVE  log' \in Seq(Nat) /\ LogsAtPoints'
<1>1. processed \in Nat
  BY DEF Counters
<1>2. /\ ToSet(log) = log_points \cap (0 .. processed - 1)
      /\ \A i \in 1 .. Len(log) - 1 : log[i] < log[i + 1]
  BY DEF LogsAtPoints
<1>3. DOMAIN log = 1 .. Len(log) /\ Len(log) \in Nat
  BY LenProperties
<1>4. \A i \in 1 .. Len(log) : log[i] \in 0 .. processed - 1
  BY <1>2, <1>3 DEF ToSet
<1>5. CASE processed \in log_points
  <2> DEFINE l == Append(log, processed)
  <2>1. log' = l
    BY <1>5 DEF dump
  <2>2. /\ l \in Seq(Nat) /\ Len(l) = Len(log) + 1
        /\ \A i \in 1 .. Len(log) : l[i] = log[i]
        /\ l[Len(log) + 1] = processed
    BY <1>1, AppendProperties
  <2>3. DOMAIN l = 1 .. Len(l)
    BY <2>2, LenProperties
  <2> HIDE DEF l
  <2>4. ToSet(l) = ToSet(log) \cup {processed}
    <3>1. DOMAIN l = DOMAIN log \cup {Len(log) + 1}
      BY <1>3, <2>2, <2>3
    <3>2. \A i \in DOMAIN log : l[i] = log[i]
      BY <1>3, <2>2
    <3> QED BY <2>2, <3>1, <3>2 DEF ToSet
  <2>5. log_points \cap (0 .. processed) = (log_points \cap (0 .. processed - 1)) \cup {processed}
    BY <1>1, <1>5
  <2>6. \A i \in 1 .. Len(l) - 1 : l[i] < l[i + 1]
    BY <1>1, <1>2, <1>3, <1>4, <2>2
  <2>7. processed' - 1 = processed
    BY <1>1
  <2> QED BY <1>2, <2>1, <2>2, <2>4, <2>5, <2>6, <2>7 DEF LogsAtPoints
<1>6. CASE processed \notin log_points
  <2>1. log' = log
    BY <1>6 DEF dump
  <2>2. log_points \cap (0 .. processed) = log_points \cap (0 .. processed - 1)
    BY <1>1, <1>6
  <2>3. processed' - 1 = processed
    BY <1>1
  <2> QED BY <1>2, <2>1, <2>2, <2>3 DEF LogsAtPoints
<1> QED BY <1>5, <1>6

\* Without log points there is nothing to log.
LEMMA NoDump ==
    ASSUME log_points = {}, LogsAtPoints, log' = log, log_points' = log_points
    PROVE  LogsAtPoints'
BY DEF LogsAtPoints

\* The program and its log points.
Modest == mode \in Modes /\ (mode.program # "simulate" => log_points = {})
                         /\ (mode.program = "simulate" => phase # "second")
Logs == log \in Seq(Nat) /\ LogsAtPoints

\* Log points are for the program that simulates one controller, no dummy.
LEMMA LogsStep ==
    ASSUME Inv, Modest, Logs, [VNext]_allVars
    PROVE  Modest' /\ Logs'
<1>1. log_points' = log_points /\ mode' = mode
  BY DEF VNext, readChunk, serveNext, serve, serveDummy, readLLCMisses, startSecond, endOfOne,
         compare, ended, allVars, verifier, vars, input
<1>2. Modest'
  <2>1. mode.program = "simulate" => phase' # "second"
    BY DEF Modest, VNext, readChunk, serveNext, startSecond, endOfOne, compare, ended,
           allVars, verifier
  <2> QED BY <1>1, <2>1 DEF Modest
<1>3. CASE serveNext
  <2>1. CASE serve
    BY <1>1, <1>2, <2>1, Dump DEF Inv, Logs, serve
  <2>2. CASE serveDummy /\ kind # "store"
    <3>1. log_points = {}
      BY <2>2, VerifierAssumption DEF Modest, kind
    <3> QED BY <1>1, <1>2, <2>2, <3>1, NoDump DEF Logs, serveDummy
  <2> QED BY <1>3, <2>1, <2>2 DEF serveNext
<1>4. CASE startSecond
  <2>1. log_points = {} /\ log' = log
    BY <1>4 DEF startSecond, Modest
  <2> QED BY <1>1, <1>2, <2>1, NoDump DEF Logs
<1>5. CASE readChunk \/ endOfOne \/ compare \/ ended \/ UNCHANGED allVars
  <2>1. log' = log /\ processed' = processed
    BY <1>5, OtherSteps DEF readChunk, readLLCMisses, vars
  <2>2. log_points' = log_points
    BY <1>1
  <2> QED BY <1>2, <2>1, <2>2 DEF Logs, LogsAtPoints
<1> QED BY <1>2, <1>3, <1>4, <1>5 DEF VNext

\* The table is dumped once for each log point reached, in ascending order,
\* wherever the log points are in a chunk.
THEOREM LogsAtPointsAlways == VSpec => []LogsAtPoints
<1>1. VInit => Modest /\ Logs
  <2> SUFFICES ASSUME VInit PROVE Modest /\ Logs
    OBVIOUS
  <2>1. log = <<>> /\ processed = 0 /\ phase = "first" /\ mode \in Modes
        /\ (mode.program # "simulate" => log_points = {})
    BY DEF VInit, Init
  <2>2. ToSet(log) = {}
    BY <2>1 DEF ToSet
  <2> QED BY <2>1, <2>2 DEF Modest, Logs, LogsAtPoints
<1>2. Inv /\ (Modest /\ Logs) /\ [VNext]_allVars => (Modest /\ Logs)'
  BY LogsStep
<1>3. Logs => LogsAtPoints
  BY DEF Logs
<1> QED BY Invariance, <1>1, <1>2, <1>3, PTL DEF VSpec

-----------------------------------------------------------------------------
(* The tags of an access *)

\* A set of natural numbers with 0 and every successor is all of them.
LEMMA NatSetInduction ==
    ASSUME NEW S \in SUBSET Nat, 0 \in S, \A i \in S : i + 1 \in S
    PROVE  S = Nat
<1> SUFFICES ASSUME Nat \ S # {} PROVE FALSE
  OBVIOUS
<1> DEFINE R == OpToRel(<, Nat)
<1>1. IsWellFoundedOn(R, Nat) /\ Nat \ S \subseteq Nat
  BY NatLessThanWellFounded
<1> HIDE DEF R
<1>2. PICK x \in Nat \ S : \A y \in Nat \ S : ~(<<y, x>> \in R)
  BY <1>1, WFMin, Zenon
<1>3. x # 0 /\ x - 1 \in Nat \ S
  BY <1>2
<1>4. <<x - 1, x>> \in R
  BY <1>3 DEF R, OpToRel
<1> QED BY <1>2, <1>3, <1>4

\* The loop that should reverse a word leaves nothing of it: in round a bit a - 1 joins
\* what was bit a - 2 before and is shifted with it, and 16 rounds shift it out.
THEOREM NothingReversed == \A w : reversed(w) = {}
<1> SUFFICES ASSUME NEW w PROVE reversed(w) = {}
  OBVIOUS
<1> DEFINE round(t, a) == shifted(t \cup (w \cap {a - 1}))
           loop(f) == f = [a \in 0 .. WordBits |-> IF a = 0 THEN {} ELSE round(f[a - 1], a)]
           temp == CHOOSE f : loop(f)
           bit(a) == IF a = WordBits \/ w \cap (0 .. a - 1) = {} THEN {} ELSE {a}
<1>1. reversed(w) = temp[WordBits]
  BY DEF reversed
<1>2. ASSUME NEW a \in 1 .. WordBits PROVE round(bit(a - 1), a) = bit(a)
  <2>1. a \in Nat /\ a - 1 \in Nat /\ a - 1 # WordBits /\ 0 .. a - 1 = (0 .. a - 1 - 1) \cup {a - 1}
    BY DEF WordBits
  <2>2. bit(a - 1) \cup (w \cap {a - 1}) = IF w \cap (0 .. a - 1) = {} THEN {} ELSE {a - 1}
    BY <2>1
  <2>3. shifted({}) = {} /\ shifted({a - 1}) = {a} \ {WordBits}
    BY <2>1 DEF shifted
  <2> QED BY <2>1, <2>2, <2>3
<1>3. loop([a \in 0 .. WordBits |-> bit(a)])
  <2> DEFINE g == [a \in 0 .. WordBits |-> bit(a)]
  <2>1. ASSUME NEW a \in 0 .. WordBits PROVE g[a] = IF a = 0 THEN {} ELSE round(g[a - 1], a)
    <3>1. CASE a = 0
      BY <3>1 DEF WordBits
    <3>2. CASE a # 0
      <4>1. a \in 1 .. WordBits /\ a - 1 \in 0 .. WordBits
        BY <3>2 DEF WordBits
      <4> HIDE DEF round, bit
      <4>2. g[a - 1] = bit(a - 1) /\ g[a] = bit(a)
        BY <4>1
      <4> QED BY <3>2, <4>1, <4>2, <1>2
    <3> QED BY <3>1, <3>2
  <2> HIDE DEF round, bit
  <2> QED BY <2>1
<1>4. loop(temp)
  BY <1>3, Zenon
<1> HIDE DEF temp
<1>5. \A a \in Nat : a \in 0 .. WordBits => temp[a] = bit(a)
  <2> DEFINE P == {a \in Nat : a \in 0 .. WordBits => temp[a] = bit(a)}
  <2>1. 0 \in P
    BY <1>4 DEF WordBits
  <2>2. ASSUME NEW a \in P PROVE a + 1 \in P
    <3> SUFFICES ASSUME a + 1 \in 0 .. WordBits PROVE temp[a + 1] = bit(a + 1)
      OBVIOUS
    <3>1. a \in 0 .. WordBits /\ a + 1 \in 1 .. WordBits /\ a + 1 # 0 /\ (a + 1) - 1 = a
      BY DEF WordBits
    <3>2. temp[a] = bit(a)
      BY <3>1
    <3> HIDE DEF round, bit
    <3>3. temp[a + 1] = round(temp[(a + 1) - 1], a + 1)
      BY <1>4, <3>1
    <3>4. round(bit((a + 1) - 1), a + 1) = bit(a + 1)
      BY <1>2, <3>1, Zenon
    <3> QED BY <3>1, <3>2, <3>3, <3>4
  <2> HIDE DEF P
  <2>3. P \subseteq Nat
    BY DEF P
  <2>4. P = Nat
    BY <2>1, <2>2, <2>3, NatSetInduction
  <2> QED BY <2>4 DEF P
<1>6. temp[WordBits] = bit(WordBits)
  <2>1. WordBits \in Nat /\ WordBits \in 0 .. WordBits
    BY DEF WordBits
  <2> QED BY <1>5, <2>1, Zenon
<1> QED BY <1>1, <1>6

\* So no tag is known, and an access has the tags the initial-state file says its
\* address starts with, whatever the trace says.
LEMMA InitialTagsOnly ==
    ASSUME NEW miss \in Misses
    PROVE  access(initial, miss).tags = setup[miss.addr]
<1>1. reversed(miss.tags) = {} /\ reversed(miss.known) = {}
  BY NothingReversed
<1>2. {} # allKnown
  <2>1. bitOf(0) \in allKnown
    BY DEF allKnown, TagIndex
  <2> QED BY <2>1
<1>3. furnishedTags(initial[miss.addr], {}, {}) = guessed(initial[miss.addr], {})
  BY <1>2 DEF furnishedTags
<1>4. guessed(initial[miss.addr], {}) = getInitialTags(initial[miss.addr])
  BY DEF guessed, getInitialTags
<1>5. setup[miss.addr] = getInitialTags(initial[miss.addr])
  BY SimulatorAssumption DEF setup
<1> QED BY <1>1, <1>3, <1>4, <1>5 DEF access

-----------------------------------------------------------------------------
(* The verdict *)

\* The reads among the entries served that the first controller, if it keeps the
\* tags of setup, answers otherwise than by them.
mistaken(i) ==
    /\ trace[i].type = "read"
    /\ tagsRead(mode.first, setup, trace[i].addr) # setup[trace[i].addr]
mistakes == Cardinality({i \in 1 .. processed : mistaken(i)})

\* No simulation ever changes a tag, and the discrepancies so far.
Verdict ==
    /\ mode \in Modes
    /\ phase \in {"first", "second", "returned", "aborted"}
    /\ table = setup /\ table1 = setup
    /\ mode.program # "crossVerify" => phase # "second" /\ start = 0
    /\ mode.program = "simulate" => discrepancies = 0
    /\ mode.program = "verify" => discrepancies = mistakes
    /\ mode.program = "crossVerify" /\ phase = "returned"
           => discrepancies = READS * Cardinality(differing(setup, setup))

\* The tables stay as they were set up: a write stores the tags that are there.
LEMMA TablesStay ==
    ASSUME Inv, Verdict, [VNext]_allVars
    PROVE  /\ UNCHANGED <<setup, trace, mode>>
           /\ table' = setup /\ table1' = setup
<1>1. UNCHANGED <<initial, trace, mode>>
  BY DEF VNext, readChunk, serveNext, serve, serveDummy, readLLCMisses, startSecond, endOfOne,
         compare, ended, allVars, verifier, vars, input
<1>2. UNCHANGED setup
  BY <1>1 DEF setup
<1>3. table = setup /\ table1 = setup
  BY DEF Verdict
<1>4. ASSUME serve PROVE table' = setup
  <2> DEFINE ax == Head(buffer)
  <2>1. buffer \in Seq(Accesses) /\ buffer # <<>>
    BY <1>4 DEF Inv, Buffered, serve
  <2>2. PICK miss \in Misses : ax = access(initial, miss)
    <3>1. ax \in Accesses
      BY <2>1, HeadTailProperties
    <3> QED BY <3>1 DEF Accesses
  <2>3. ax.addr \in Addr /\ ax.tags = setup[ax.addr]
    BY <2>2, InitialTagsOnly, SimulatorAssumption DEF access
  <2>4. table' = table \/ table' = [table EXCEPT ![ax.addr] = ax.tags]
    BY <1>4 DEF serve, firstOfBuffer, controller!handleRead, controller!handleWrite
  <2>5. table' = setup
    <3>1. setup = [a \in Addr |-> setup[a]]
      BY DEF setup
    <3> QED BY <1>3, <2>3, <2>4, <3>1
  <2> QED BY <2>5
<1>5. ASSUME ~serve PROVE table' = setup
  <2>1. table' = table \/ table' = setup
    BY <1>5 DEF VNext, readChunk, serveNext, serveDummy, readLLCMisses, startSecond, endOfOne,
         compare, ended, allVars, verifier, vars
  <2> QED BY <1>3, <2>1
<1>6. table1' = table1 \/ table1' = table
  BY DEF VNext, readChunk, serveNext, startSecond, endOfOne, compare, ended, allVars, verifier
<1> QED BY <1>1, <1>2, <1>3, <1>4, <1>5, <1>6

\* One entry more is served by the controller of this kind: it is counted as a
\* discrepancy if it is a read that the controller mistakes.
LEMMA CountMistake ==
    ASSUME Inv, Verdict, serveNext, mode.program = "verify",
           UNCHANGED <<setup, trace, mode>>
    PROVE  discrepancies' = mistakes'
<1> DEFINE i == processed + 1
           M  == {j \in 1 .. processed : mistaken(j)}
           M1 == {j \in 1 .. processed + 1 : mistaken(j)}
<1>1. /\ start = 0 /\ phase = "first" /\ kind = mode.first /\ table = setup
      /\ mode.first \in Kinds /\ discrepancies = Cardinality(M)
  BY VerifierAssumption DEF Verdict, serveNext, kind, mistakes
<1>2. /\ buffer \in Seq(Accesses) /\ processed \in Nat
      /\ \A j \in 1 .. Len(buffer) : buffer[j] = access(initial, trace[start + processed + j])
      /\ start + processed + Len(buffer) <= Len(trace) /\ trace \in Seq(Misses)
  BY DEF Inv, Buffered, Counters, read
<1>3. buffer # <<>> /\ processed' = i
  BY DEF serveNext, serve, serveDummy
<1>4. Len(buffer) \in Nat \ {0} /\ Head(buffer) = buffer[1]
  BY <1>2, <1>3, EmptySeq, LenProperties
<1>5. trace[i] \in Misses /\ Head(buffer) = access(initial, trace[i])
  <2>1. start + processed + 1 = i /\ i \in 1 .. Len(trace)
    BY <1>1, <1>2, <1>4
  <2> QED BY <1>2, <1>4, <2>1, ElementOfSeq
<1> DEFINE ax == Head(buffer)
<1>6. /\ ax.op = trace[i].type /\ ax.addr = trace[i].addr
      /\ ax.tags = setup[trace[i].addr]
  BY <1>5, InitialTagsOnly DEF access
<1>7. /\ reply'.op = ax.op
      /\ ax.op = "read" => reply'.tags = tagsRead(mode.first, setup, ax.addr)
  <2>1. CASE kind = "store" /\ serve
    <3>1. \/ ax.op = "read" /\ controller!handleRead(ax.addr)
          \/ ax.op = "write" /\ controller!handleWrite(ax.addr, ax.tags)
      BY <2>1 DEF serve, firstOfBuffer
    <3>2. tagsRead(mode.first, setup, ax.addr) = table[ax.addr]
      BY <1>1, <2>1 DEF tagsRead
    <3> HIDE DEF ax
    <3> QED BY <3>1, <3>2 DEF controller!handleRead, controller!handleWrite, controller!Served
  <2>2. CASE serveDummy
    <3>1. reply' = Served(ax.op, ax.addr,
                      IF ax.op = "read" THEN tagsRead(mode.first, setup, ax.addr) ELSE ax.tags)
      BY <1>1, <2>2, Zenon DEF serveDummy
    <3> HIDE DEF ax
    <3> QED BY <3>1 DEF Served
  <2> QED BY <2>1, <2>2 DEF serveNext
<1>8. differs <=> mistaken(i)
  BY <1>6, <1>7, Zenon DEF differs, mistaken
<1>9. discrepancies' = IF mistaken(i) THEN discrepancies + 1 ELSE discrepancies
  BY <1>8, Zenon DEF serveNext
<1>10. mistakes' = Cardinality(M1)
  BY <1>3 DEF mistakes, mistaken, tagsRead
<1>11. /\ i \notin M /\ IsFiniteSet(M)
       /\ mistaken(i) => M1 = M \cup {i}
       /\ ~mistaken(i) => M1 = M
  <2>1. IsFiniteSet(1 .. processed)
    BY <1>2, FS_Interval
  <2>2. M \subseteq 1 .. processed
    OBVIOUS
  <2>3. 1 .. processed + 1 = (1 .. processed) \cup {i} /\ i \notin 1 .. processed
    BY <1>2
  <2> QED BY <2>1, <2>2, <2>3, FS_Subset
<1> HIDE DEF M, M1
<1>12. CASE mistaken(i)
  <2>1. Cardinality(M1) = Cardinality(M) + 1
    BY <1>11, <1>12, FS_AddElement
  <2> QED BY <1>1, <1>9, <1>10, <1>12, <2>1
<1>13. CASE ~mistaken(i)
  BY <1>1, <1>9, <1>10, <1>11, <1>13
<1> QED BY <1>12, <1>13

\* Every step keeps what the verdict will be.
LEMMA VerdictStep ==
    ASSUME Inv, Verdict, [VNext]_allVars
    PROVE  Verdict'
<1>1. /\ UNCHANGED <<setup, trace, mode>>
      /\ table' = setup /\ table1' = setup
  BY TablesStay
<1>2. mode \in Modes /\ mode.program \in {"simulate", "verify", "crossVerify"}
  BY VerifierAssumption DEF Verdict
<1>3. /\ phase' \in {"first", "second", "returned", "aborted"}
      /\ mode.program # "crossVerify" => phase' # "second" /\ start' = 0
  BY DEF Verdict, VNext, readChunk, serveNext, serve, serveDummy, readLLCMisses, startSecond,
         endOfOne, compare, ended, allVars, verifier, vars
<1>4. mode.program = "simulate" => discrepancies' = 0
  BY DEF Verdict, VNext, readChunk, serveNext, startSecond, endOfOne, compare, ended, allVars,
         verifier
<1>5. ASSUME mode.program = "verify" PROVE discrepancies' = mistakes'
  <2>1. CASE serveNext
    BY <1>1, <1>5, <2>1, CountMistake
  <2>2. CASE readChunk \/ endOfOne \/ ended \/ UNCHANGED allVars
    <3>1. processed' = processed /\ discrepancies' = discrepancies
      BY <2>2 DEF readChunk, readLLCMisses, endOfOne, ended, allVars, vars, verifier
    <3> QED BY <1>1, <1>5, <3>1 DEF Verdict, mistakes, mistaken, tagsRead
  <2>3. ~startSecond /\ ~compare
    BY <1>5 DEF startSecond, compare, Verdict
  <2> QED BY <2>1, <2>2, <2>3 DEF VNext
<1>6. ASSUME mode.program = "crossVerify", phase' = "returned"
      PROVE  discrepancies' = READS * Cardinality(differing(setup, setup))'
  <2>1. differing(setup, setup)' = differing(setup, setup)
    BY <1>1 DEF differing, tagsRead
  <2>2. CASE compare
    BY <1>1, <1>6, <2>1, <2>2 DEF compare, Verdict
  <2>3. CASE ended \/ UNCHANGED allVars
    BY <1>6, <2>1, <2>3 DEF ended, allVars, verifier, Verdict
  <2>4. ~readChunk /\ ~serveNext /\ ~endOfOne /\ ~startSecond
    BY <1>6 DEF readChunk, serveNext, endOfOne, startSecond, verifier
  <2> QED BY <2>2, <2>3, <2>4 DEF VNext
<1> QED BY <1>1, <1>2, <1>3, <1>4, <1>5, <1>6 DEF Verdict

\* Before the first entry there are no discrepancies.
LEMMA VerdictInit == VInit => Verdict
<1> SUFFICES ASSUME VInit PROVE Verdict
  OBVIOUS
<1>1. /\ table = setup /\ table1 = table /\ phase = "first" /\ mode \in Modes
      /\ discrepancies = 0 /\ start = 0 /\ processed = 0
  BY DEF VInit, Init
<1>2. {i \in 1 .. processed : mistaken(i)} = {}
  BY <1>1
<1> QED BY <1>1, <1>2, FS_EmptySet DEF Verdict, mistakes

\* What the verifier prints depends on the initial-state file, on the controllers
\* and on the addresses read, and on no tag of the trace and no write.
THEOREM VerdictAlways == VSpec => []VerdictOnInitialState
<1>1. Inv /\ Verdict => VerdictOnInitialState
  BY VerifierAssumption, Zenon
     DEF Verdict, VerdictOnInitialState, mistakes, mistaken
<1>2. Inv /\ Verdict /\ [VNext]_allVars => Verdict'
  BY VerdictStep
<1> QED BY Invariance, VerdictInit, <1>1, <1>2, PTL DEF VSpec
=============================================================================
