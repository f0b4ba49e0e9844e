----------------------------- MODULE Dma_proofs -----------------------------
(***************************************************************************)
(* Proofs about Dma for any set of copies, any number of copies the engine *)
(* accepts, and any number of copies it can tell apart beyond that.        *)
(***************************************************************************)
EXTENDS Dma, TLAPS, SequenceTheorems

\* The rows of a copy do not overlap in its destination.  If they do, what is in
\* memory is not all of what was asked for.
RowsApart == \A c \in Copies : c.dim = 2 => c.dst_stride >= c.size

\* The safety part of Spec, which ends in fairness.
SafeSpec == Init /\ [][Next]_vars

-----------------------------------------------------------------------------
(***************************************************************************)
(* The inductive invariant.                                                *)
(***************************************************************************)
AsAsked(r, c) ==
  /\ Started(r) = Granted(c)
  /\ r.num_bytes > 0
  /\ \/ r.num_reps = 0
     \/ c.dim = 2 /\ r.num_bytes = c.size /\ r.dst_stride = c.dst_stride

\* The registers at a launch, and those of a copy in the queue, are those of its
\* call; of a call that waits, the copy is the last.
AskedInv ==
  /\ pc = "launch" => AsAsked(reg, call)
  /\ \A q \in DOMAIN queue : AsAsked(queue[q].reg, queue[q].call)
  /\ pc = "wait" /\ queue # <<>> => queue[Len(queue)].call = call

\* The n-th number given out before another one.
Before(id, n) == IF n < id THEN id - n ELSE id - n + MaxId

Running == [id : 1 .. MaxId, reg : Reg, call : Copies]

\* Numbers are given out one after the other, and the copies under way have the
\* last of them: DONE is the one before.
NumberInv ==
  /\ \A q \in DOMAIN queue : queue[q].id = Before(next_id, Len(queue) + 1 - q)
  /\ done \in {0, Before(next_id, Len(queue) + 1)}
  /\ pc = "wait" => tf_id = Before(next_id, 1)

\* The bytes that the engine has done are there; so are all of those of a call
\* that waits, once nothing is under way.
CopiedInv ==
  /\ queue = <<>> => at = 0
  /\ queue # <<>> =>
       LET r == Head(queue).reg IN
       \A i \in 0 .. Rows(r) - 1, j \in 0 .. r.num_bytes - 1 :
         i * r.num_bytes + j < at =>
           mem[r.dst + i * r.dst_stride + j] = r.src + i * r.src_stride + j
  /\ pc = "wait" /\ queue = <<>> =>
       \A move \in Granted(call) : mem[move[1]] = move[2]

-----------------------------------------------------------------------------
(***************************************************************************)
(* Rows and bytes.                                                         *)
(***************************************************************************)
\* A byte of the engine's count is one byte of one row.
LEMMA ByteOfRow ==
  ASSUME NEW a \in Nat, NEW n \in Nat, n > 0
  PROVE  /\ a \div n \in Nat /\ a % n \in 0 .. n - 1
         /\ a = (a \div n) * n + (a % n)
OBVIOUS

\* A product grows by at least a factor's difference.
LEMMA ProductGrows ==
  ASSUME NEW i \in Nat, NEW k \in Nat, NEW s \in Nat, i < k
  PROVE  i * s + s <= k * s
<1>1. k * s = i * s + (k - i) * s
  OBVIOUS
<1>2. (k - i) * s >= s
  <2>1. k - i - 1 \in Nat
    OBVIOUS
  <2>2. (k - i - 1) * s >= 0
    BY <2>1
  <2>3. (k - i) * s = (k - i - 1) * s + s
    OBVIOUS
  <2>4. QED
    BY <2>2, <2>3
<1>3. QED
  BY <1>1, <1>2

\* Rows at least as far apart as they are long share no byte.
LEMMA RowsShareNothing ==
  ASSUME NEW s \in Nat, NEW n \in Nat, n <= s,
         NEW i \in Nat, NEW k \in Nat,
         NEW j \in 0 .. n - 1, NEW l \in 0 .. n - 1,
         i * s + j = k * s + l
  PROVE  i = k /\ j = l
<1>0. i * s \in Nat /\ k * s \in Nat
  OBVIOUS
<1>1. CASE i < k
  BY <1>0, <1>1, ProductGrows
<1>2. CASE k < i
  BY <1>0, <1>2, ProductGrows
<1>3. CASE i = k
  BY <1>0, <1>3
<1>4. QED
  BY <1>1, <1>2, <1>3

\* No byte comes before the first.
LEMMA NoByteBefore ==
  ASSUME NEW n \in Nat, NEW i \in Nat, NEW j \in Nat
  PROVE  ~(i * n + j < 0)
<1>1. i * n \in Nat
  OBVIOUS
<1>2. QED
  BY <1>1

\* The last byte of the last row is the last of the count, and the rows of the
\* bytes before it are rows of the copy.
LEMMA ByteInside ==
  ASSUME NEW n \in Nat, NEW rows \in Nat, NEW i \in Nat, NEW j \in 0 .. n - 1
  PROVE  i * n + j < rows * n <=> i < rows
<1>1. i * n \in Nat /\ rows * n \in Nat
  OBVIOUS
<1>2. CASE i < rows
  BY <1>1, <1>2, ProductGrows
<1>3. CASE rows < i
  BY <1>1, <1>3, ProductGrows
<1>4. CASE i = rows
  BY <1>1, <1>4
<1>5. QED
  BY <1>2, <1>3, <1>4

Row(src, dst, n) == {<<dst + j, src + j>> : j \in 0 .. n - 1}

\* A single row is the same whatever the strides are: why dma_memcpy may leave
\* them as an earlier call set them.
LEMMA SingleRow ==
  ASSUME NEW src \in Nat, NEW dst \in Nat, NEW n \in Nat,
         NEW a \in Nat, NEW b \in Nat
  PROVE  Moves(src, dst, n, 1, a, b) = Row(src, dst, n)
<1>1. \A x \in Nat : 0 * x = 0
  OBVIOUS
<1>2. \A r \in 0 .. 1 - 1 : r = 0
  OBVIOUS
<1>3. QED
  BY <1>1, <1>2 DEF Moves, Row

\* Calls and registers hold numbers.
LEMMA CallFacts ==
  /\ Depth \in Nat /\ MaxId \in Nat /\ Depth < MaxId /\ Depth > 0
  /\ \A c \in Copies :
       /\ c.dim \in {1, 2} /\ c.src \in Nat /\ c.dst \in Nat
       /\ c.size \in Nat /\ c.size > 0 /\ c.num_reps \in Nat
       /\ c.src_stride \in Nat /\ c.dst_stride \in Nat
BY DmaAssumption

\* What the engine works on: the first copy is one of those it was given, and it
\* has bytes.
LEMMA HeadFacts ==
  ASSUME TypeOK, AskedInv, queue # <<>>
  PROVE  /\ Len(queue) \in Nat /\ Len(queue) > 0 /\ 1 \in DOMAIN queue
         /\ Head(queue) = queue[1]
         /\ Head(queue).reg \in Reg /\ Head(queue).call \in Copies
         /\ Head(queue).id \in 1 .. MaxId
         /\ AsAsked(Head(queue).reg, Head(queue).call)
         /\ Head(queue).reg.num_bytes > 0
<1>1. queue \in Seq(Running)
  BY DEF TypeOK, Running
<1>2. Len(queue) \in Nat /\ Len(queue) > 0 /\ 1 \in DOMAIN queue
  BY <1>1, LenProperties, EmptySeq
<1>3. Head(queue) = queue[1]
  BY <1>1
<1>4. queue[1] \in Running
  BY <1>1, <1>2, ElementOfSeq
<1>5. AsAsked(queue[1].reg, queue[1].call)
  BY <1>2 DEF AskedInv
<1>6. QED
  BY <1>2, <1>3, <1>4, <1>5 DEF AsAsked, Running

\* The queue, and what is left of it when its first copy has ended.
LEMMA QueueFacts ==
  ASSUME TypeOK
  PROVE  /\ DOMAIN queue = 1 .. Len(queue) /\ Len(queue) \in Nat
         /\ queue = <<>> <=> Len(queue) = 0
         /\ queue # <<>> =>
              /\ DOMAIN Tail(queue) = 1 .. Len(queue) - 1
              /\ Len(Tail(queue)) = Len(queue) - 1
              /\ \A n \in 1 .. Len(queue) - 1 : Tail(queue)[n] = queue[n + 1]
              /\ Tail(queue) = <<>> <=> Len(queue) = 1
              /\ Tail(queue) # <<>> => Head(Tail(queue)) \in Running
<1>1. queue \in Seq(Running)
  BY DEF TypeOK, Running
<1>2. DOMAIN queue = 1 .. Len(queue) /\ Len(queue) \in Nat
      /\ (queue = <<>> <=> Len(queue) = 0)
  BY <1>1, LenProperties, EmptySeq
<1>3. ASSUME queue # <<>>
      PROVE  /\ Tail(queue) \in Seq(Running)
             /\ Len(Tail(queue)) = Len(queue) - 1
             /\ \A n \in 1 .. Len(queue) - 1 : Tail(queue)[n] = queue[n + 1]
  BY <1>1, <1>3, HeadTailProperties
<1>4. ASSUME queue # <<>>
      PROVE  /\ DOMAIN Tail(queue) = 1 .. Len(queue) - 1
             /\ Tail(queue) = <<>> <=> Len(queue) = 1
  <2>1. Tail(queue) \in Seq(Running) /\ Len(Tail(queue)) = Len(queue) - 1
    BY <1>3, <1>4
  <2>2. DOMAIN Tail(queue) = 1 .. Len(queue) - 1
    BY <2>1, LenProperties
  <2>3. Tail(queue) = <<>> <=> Len(Tail(queue)) = 0
    BY <2>1, EmptySeq
  <2>4. QED
    BY <1>2, <2>1, <2>2, <2>3
<1>5. ASSUME queue # <<>>, Tail(queue) # <<>>
      PROVE  Head(Tail(queue)) \in Running
  BY <1>3, <1>5, HeadTailProperties
<1>6. QED
  BY <1>2, <1>3, <1>4, <1>5

\* The queue behind a launch.
LEMMA LaunchFacts ==
  ASSUME TypeOK, Launch
  PROVE  LET e == [id |-> next_id, reg |-> reg, call |-> call] IN
         /\ queue' \in Seq(Running) /\ queue' # <<>>
         /\ Len(queue') = Len(queue) + 1 /\ DOMAIN queue' = 1 .. Len(queue) + 1
         /\ \A n \in DOMAIN queue : queue'[n] = queue[n]
         /\ queue'[Len(queue) + 1] = e
<1> DEFINE e == [id |-> next_id, reg |-> reg, call |-> call]
<1>1. queue \in Seq(Running) /\ e \in Running
  BY CallFacts DEF TypeOK, Running
<1>2. queue' = Append(queue, e)
  BY DEF Launch
<1>3. QED
  BY <1>1, <1>2, AppendProperties, LenProperties

-----------------------------------------------------------------------------
(***************************************************************************)
(* A step keeps each part of the invariant.                                *)
(***************************************************************************)
\* Registers, numbers, queue and memory keep their types.
LEMMA TypeStep ==
  ASSUME TypeOK, AskedInv, [Next]_vars
  PROVE  TypeOK'
<1> USE CallFacts DEF engine
<1>1. ASSUME NEW c \in Copies, Call(c) PROVE TypeOK'
  <2>1. reg' \in Reg
    BY <1>1 DEF Call, SetUp1D, SetUp2D, Reg, TypeOK
  <2>2. QED
    BY <1>1, <2>1 DEF Call, TypeOK
<1>2. ASSUME Launch PROVE TypeOK'
  <2>1. queue' \in Seq(Running)
    BY <1>2, LaunchFacts
  <2>2. Len(queue') <= Depth
    BY <1>2, LaunchFacts, QueueFacts DEF Launch
  <2>3. next_id' \in 1 .. MaxId
    BY <1>2 DEF Launch, TypeOK
  <2>4. QED
    BY <1>2, <2>1, <2>2, <2>3 DEF Launch, TypeOK, Running
<1>3. ASSUME BlkReturn PROVE TypeOK'
  BY <1>3 DEF BlkReturn, TypeOK
<1>4. ASSUME CopyByte PROVE TypeOK'
  <2> DEFINE r == Head(queue).reg
             row == at \div r.num_bytes
             j == at % r.num_bytes
             v == r.src + row * r.src_stride + j
  <2>1. r \in Reg /\ r.num_bytes > 0
    BY <1>4, HeadFacts DEF CopyByte
  <2>2. row \in Nat /\ j \in Nat
    <3>1. at \in Nat /\ r.num_bytes \in Nat
      BY <2>1 DEF Reg, TypeOK
    <3>2. QED
      BY <2>1, <3>1, ByteOfRow
  <2>3. row * r.src_stride \in Nat
    BY <2>1, <2>2 DEF Reg
  <2>4. v \in Int
    BY <2>1, <2>2, <2>3 DEF Reg
  <2>5. \E x : mem' = [mem EXCEPT ![x] = v]
    BY <1>4 DEF CopyByte
  <2>6. mem' \in [Places -> Int]
    BY <2>4, <2>5 DEF TypeOK
  <2>7. UNCHANGED <<pc, call, reg, tf_id, queue, done, next_id>> /\ at' = at + 1
    BY <1>4 DEF CopyByte
  <2>8. QED
    BY <2>6, <2>7 DEF TypeOK
<1>5. ASSUME EndCopy PROVE TypeOK'
  <2>1. Head(queue).id \in 1 .. MaxId
    BY <1>5, HeadFacts DEF EndCopy
  <2>2. queue' \in Seq(Running) /\ Len(queue') <= Depth
    <3>1. queue \in Seq(Running) /\ queue # <<>> /\ Len(queue) <= Depth
      BY <1>5 DEF EndCopy, TypeOK, Running
    <3>2. QED
      BY <1>5, <3>1, HeadTailProperties, LenProperties DEF EndCopy
  <2>3. QED
    BY <1>5, <2>1, <2>2 DEF EndCopy, TypeOK, Running
<1>6. ASSUME UNCHANGED vars PROVE TypeOK'
  BY <1>6 DEF vars, TypeOK
<1>7. QED
  BY <1>1, <1>2, <1>3, <1>4, <1>5, <1>6 DEF Next, Hart, Engine

\* What a call leaves in the registers does what it asks for, whatever was in
\* them before.
LEMMA SetUpAsAsked ==
  ASSUME TypeOK, NEW c \in Copies
  PROVE  AsAsked(IF c.dim = 1 THEN SetUp1D(c) ELSE SetUp2D(c), c)
<1>1. CASE c.dim = 1
  <2> DEFINE r == SetUp1D(c)
  <2>1. r.src = c.src /\ r.dst = c.dst /\ r.num_bytes = c.size /\ r.num_reps = 0
        /\ r.src_stride \in Nat /\ r.dst_stride \in Nat
    BY DEF SetUp1D, TypeOK, Reg
  <2>2. Started(r) = Moves(c.src, c.dst, c.size, 1, r.src_stride, r.dst_stride)
    BY <2>1 DEF Started, Rows
  <2>3. Granted(c) = Moves(c.src, c.dst, c.size, 1, c.src_stride, c.dst_stride)
    BY <1>1 DEF Granted
  <2>4. Started(r) = Granted(c)
    <3>1. c.src \in Nat /\ c.dst \in Nat /\ c.size \in Nat
          /\ c.src_stride \in Nat /\ c.dst_stride \in Nat
      BY CallFacts
    <3>2. Granted(c) = Row(c.src, c.dst, c.size)
      BY <2>3, <3>1, SingleRow
    <3> HIDE DEF r
    <3>3. Started(r) = Row(c.src, c.dst, c.size)
      BY <2>1, <2>2, <3>1, SingleRow
    <3>4. QED
      BY <3>2, <3>3
  <2>5. QED
    BY <1>1, <2>1, <2>4, CallFacts DEF AsAsked
<1>2. CASE c.dim # 1
  BY <1>2, CallFacts DEF AsAsked, SetUp2D, Started, Rows, Granted
<1>3. QED
  BY <1>1, <1>2

\* The engine's registers and its queue hold what the calls asked for.
LEMMA AskedStep ==
  ASSUME TypeOK, AskedInv, [Next]_vars
  PROVE  AskedInv'
<1> USE QueueFacts DEF engine
<1>1. ASSUME NEW c \in Copies, Call(c) PROVE AskedInv'
  <2>1. AsAsked(reg', call')
    BY <1>1, SetUpAsAsked DEF Call
  <2>2. QED
    BY <1>1, <2>1 DEF Call, AskedInv
<1>2. ASSUME Launch PROVE AskedInv'
  BY <1>2, LaunchFacts DEF Launch, AskedInv
<1>3. ASSUME BlkReturn PROVE AskedInv'
  BY <1>3 DEF BlkReturn, AskedInv
<1>4. ASSUME CopyByte PROVE AskedInv'
  BY <1>4 DEF CopyByte, AskedInv
<1>5. ASSUME EndCopy PROVE AskedInv'
  <2>1. \A q \in DOMAIN queue' : queue'[q] = queue[q + 1] /\ q + 1 \in DOMAIN queue
    BY <1>5 DEF EndCopy
  <2>2. queue' # <<>> => queue'[Len(queue')] = queue[Len(queue)]
    BY <1>5, <2>1 DEF EndCopy
  <2>3. QED
    BY <1>5, <2>1, <2>2 DEF EndCopy, AskedInv
<1>6. ASSUME UNCHANGED vars PROVE AskedInv'
  BY <1>6 DEF vars, AskedInv
<1>7. QED
  BY <1>1, <1>2, <1>3, <1>4, <1>5, <1>6 DEF Next, Hart, Engine

\* The numbers of the copies under way and DONE are the last ones given out.
LEMMA NumberStep ==
  ASSUME TypeOK, NumberInv, [Next]_vars
  PROVE  NumberInv'
<1> USE CallFacts, QueueFacts DEF engine
<1>1. ASSUME NEW c \in Copies, Call(c) PROVE NumberInv'
  BY <1>1 DEF Call, NumberInv, Before
<1>2. ASSUME Launch PROVE NumberInv'
  <2>1. next_id \in 1 .. MaxId
        /\ next_id' = IF next_id = MaxId THEN 1 ELSE next_id + 1
    <3>1. next_id \in 1 .. MaxId /\ next_id' = (next_id % MaxId) + 1
      BY <1>2 DEF Launch, TypeOK
    <3>2. CASE next_id = MaxId
      BY <3>1, <3>2
    <3>3. CASE next_id # MaxId
      BY <3>1, <3>3
    <3>4. QED
      BY <3>1, <3>2, <3>3
  <2>2. \A n \in 1 .. MaxId - 1 : Before(next_id', n + 1) = Before(next_id, n)
    BY <2>1 DEF Before
  <2>3. Before(next_id', 1) = next_id
    BY <2>1 DEF Before
  <2>4. Len(queue) \in Nat /\ Len(queue) + 1 <= MaxId - 1
        /\ Len(queue') = Len(queue) + 1
    BY <1>2, LaunchFacts DEF Launch
  <2>5. \A q \in DOMAIN queue' : queue'[q].id = Before(next_id', Len(queue') + 1 - q)
    <3> SUFFICES ASSUME NEW q \in DOMAIN queue'
                 PROVE  queue'[q].id = Before(next_id', Len(queue') + 1 - q)
      OBVIOUS
    <3>1. CASE q = Len(queue) + 1
      BY <1>2, <2>3, <2>4, <3>1, LaunchFacts
    <3>2. CASE q # Len(queue) + 1
      <4>1. q \in DOMAIN queue /\ queue'[q] = queue[q] /\ q \in Nat
        BY <1>2, <3>2, LaunchFacts
      <4>2. queue[q].id = Before(next_id, Len(queue) + 1 - q)
        BY <4>1 DEF NumberInv
      <4>3. Len(queue) + 1 - q \in 1 .. MaxId - 1
        BY <2>4, <4>1
      <4>4. Before(next_id', (Len(queue) + 1 - q) + 1)
              = Before(next_id, Len(queue) + 1 - q)
        BY <2>2, <4>3
      <4>5. (Len(queue) + 1 - q) + 1 = Len(queue') + 1 - q
        BY <2>4, <4>1
      <4>6. QED
        BY <4>1, <4>2, <4>4, <4>5
    <3>3. QED
      BY <3>1, <3>2
  <2>6. done' \in {0, Before(next_id', Len(queue') + 1)}
    BY <1>2, <2>2, <2>4 DEF Launch, NumberInv
  <2>7. QED
    BY <1>2, <2>3, <2>5, <2>6 DEF Launch, NumberInv
<1>3. ASSUME BlkReturn PROVE NumberInv'
  BY <1>3 DEF BlkReturn, NumberInv, Before
<1>4. ASSUME CopyByte PROVE NumberInv'
  BY <1>4 DEF CopyByte, NumberInv, Before
<1>5. ASSUME EndCopy PROVE NumberInv'
  <2>1. Head(queue) = queue[1] /\ 1 \in DOMAIN queue
        /\ Len(queue') = Len(queue) - 1 /\ queue # <<>>
    BY <1>5 DEF EndCopy, TypeOK
  <2>2. done' = Before(next_id, Len(queue))
    BY <1>5, <2>1 DEF EndCopy, NumberInv
  <2>3. next_id' = next_id
    BY <1>5 DEF EndCopy
  <2>4. ASSUME NEW q \in DOMAIN queue'
        PROVE  queue'[q].id = Before(next_id, Len(queue') + 1 - q)
    <3>1. q \in Nat /\ q + 1 \in DOMAIN queue /\ queue'[q] = queue[q + 1]
      BY <1>5, <2>1 DEF EndCopy
    <3>2. Len(queue) + 1 - (q + 1) = Len(queue') + 1 - q
      BY <2>1, <3>1
    <3>3. QED
      BY <3>1, <3>2 DEF NumberInv
  <2>5. QED
    BY <1>5, <2>1, <2>2, <2>3, <2>4 DEF EndCopy, NumberInv
<1>6. ASSUME UNCHANGED vars PROVE NumberInv'
  BY <1>6 DEF vars, NumberInv, Before
<1>7. QED
  BY <1>1, <1>2, <1>3, <1>4, <1>5, <1>6 DEF Next, Hart, Engine

\* A byte that the engine copies is the next one of the first copy, and replaces
\* none of those it has copied before.
LEMMA ByteStep ==
  ASSUME TypeOK, AskedInv, CopiedInv, RowsApart, CopyByte
  PROVE  LET r == Head(queue).reg IN
         \A i \in 0 .. Rows(r) - 1, j \in 0 .. r.num_bytes - 1 :
           i * r.num_bytes + j < at + 1 =>
             mem'[r.dst + i * r.dst_stride + j] = r.src + i * r.src_stride + j
<1> DEFINE r == Head(queue).reg
           row == at \div r.num_bytes
           l == at % r.num_bytes
<1>1. queue # <<>> /\ at < Bytes(r)
      /\ mem' = [mem EXCEPT ![r.dst + row * r.dst_stride + l]
                              = r.src + row * r.src_stride + l]
  BY DEF CopyByte
<1>2. r \in Reg /\ r.num_bytes > 0 /\ AsAsked(r, Head(queue).call)
      /\ Head(queue).call \in Copies
  BY <1>1, HeadFacts
<1>3. at \in Nat /\ r.num_bytes \in Nat /\ r.dst \in Nat /\ r.src \in Nat
      /\ r.dst_stride \in Nat /\ r.src_stride \in Nat /\ Rows(r) \in Nat
      /\ mem \in [Places -> Int]
  BY <1>2 DEF TypeOK, Reg, Rows
<1> HIDE DEF r
<1>4. row \in Nat /\ l \in 0 .. r.num_bytes - 1 /\ at = row * r.num_bytes + l
  BY <1>2, <1>3, ByteOfRow
<1> HIDE DEF row, l
<1>5. row \in 0 .. Rows(r) - 1
  <2>1. row * r.num_bytes + l < Rows(r) * r.num_bytes
    BY <1>1, <1>4 DEF Bytes
  <2>2. row < Rows(r)
    BY <1>3, <1>4, <2>1, ByteInside
  <2>3. QED
    BY <1>3, <1>4, <2>2
<1>6. r.dst + row * r.dst_stride + l \in Places
  <2>1. <<r.dst + row * r.dst_stride + l, r.src + row * r.src_stride + l>>
          \in Started(r)
    BY <1>4, <1>5 DEF Started, Moves
  <2>2. Started(r) = Granted(Head(queue).call)
    BY <1>2 DEF AsAsked
  <2>3. QED
    BY <1>2, <2>1, <2>2, DmaAssumption
<1>7. ASSUME NEW i \in 0 .. Rows(r) - 1, NEW j \in 0 .. r.num_bytes - 1,
             i * r.num_bytes + j < at + 1
      PROVE  mem'[r.dst + i * r.dst_stride + j] = r.src + i * r.src_stride + j
  <2>0. i \in Nat /\ i * r.num_bytes \in Nat /\ row * r.num_bytes \in Nat
        /\ i * r.dst_stride \in Nat /\ row * r.dst_stride \in Nat
    BY <1>3, <1>4, <1>7
  <2>1. CASE i = row /\ j = l
    BY <1>1, <1>3, <1>6, <2>1
  <2>2. CASE ~(i = row /\ j = l)
    <3>1. i * r.num_bytes + j # at
      BY <1>3, <1>4, <2>0, <2>2, RowsShareNothing
    <3>2. mem[r.dst + i * r.dst_stride + j] = r.src + i * r.src_stride + j
      <4>1. i * r.num_bytes + j < at
        BY <1>3, <1>7, <2>0, <3>1
      <4>2. QED
        BY <1>1, <1>7, <4>1 DEF CopiedInv, r
    <3>3. r.dst + i * r.dst_stride + j # r.dst + row * r.dst_stride + l
      <4>1. CASE Rows(r) = 1
        <5>1. i = row
          BY <1>5, <1>7, <4>1
        <5>2. QED
          BY <1>3, <1>4, <2>0, <2>2, <5>1
      <4>2. CASE Rows(r) # 1
        <5>1. r.num_bytes <= r.dst_stride
          BY <1>2, <4>2 DEF AsAsked, RowsApart, Rows
        <5>2. i * r.dst_stride + j # row * r.dst_stride + l
          <6> SUFFICES ASSUME i * r.dst_stride + j = row * r.dst_stride + l
                       PROVE  FALSE
            OBVIOUS
          <6>1. r.dst_stride \in Nat /\ r.num_bytes \in Nat /\ i \in Nat
                /\ row \in Nat /\ j \in 0 .. r.num_bytes - 1
                /\ l \in 0 .. r.num_bytes - 1
            BY <1>3, <1>4, <2>0
          <6>2. i = row /\ j = l
            BY <5>1, <6>1, RowsShareNothing
          <6>3. QED
            BY <2>2, <6>2
        <5>3. QED
          BY <1>3, <1>4, <2>0, <5>2
      <4>3. QED
        BY <4>1, <4>2
    <3>4. QED
      BY <1>1, <1>3, <3>2, <3>3
  <2>3. QED
    BY <2>1, <2>2
<1>8. QED
  BY <1>7 DEF r

\* When the engine has done all bytes of a copy, every place has what was asked
\* for.
LEMMA AllBytesDone ==
  ASSUME TypeOK, AskedInv, CopiedInv, EndCopy
  PROVE  \A move \in Granted(Head(queue).call) : mem[move[1]] = move[2]
<1> DEFINE r == Head(queue).reg
<1>1. queue # <<>> /\ at = Bytes(r)
  BY DEF EndCopy
<1>2. r \in Reg /\ AsAsked(r, Head(queue).call)
  BY <1>1, HeadFacts
<1>3. r.num_bytes \in Nat /\ Rows(r) \in Nat
  BY <1>2 DEF Reg, Rows
<1>4. ASSUME NEW i \in 0 .. Rows(r) - 1, NEW j \in 0 .. r.num_bytes - 1
      PROVE  mem[r.dst + i * r.dst_stride + j] = r.src + i * r.src_stride + j
  <2>1. i * r.num_bytes + j < at
    <3> HIDE DEF r
    <3>1. i \in Nat /\ i < Rows(r)
      BY <1>3, <1>4
    <3>2. QED
      BY <1>1, <1>3, <1>4, <3>1, ByteInside DEF Bytes
  <2>2. QED
    BY <1>1, <2>1 DEF CopiedInv
<1>5. \A move \in Started(r) : mem[move[1]] = move[2]
  BY <1>4 DEF Started, Moves
<1>6. QED
  BY <1>2, <1>5 DEF AsAsked

\* What the engine has copied stays until the call that waits for it returns.
LEMMA CopiedStep ==
  ASSUME TypeOK, AskedInv, CopiedInv, RowsApart, [Next]_vars
  PROVE  CopiedInv'
<1> USE QueueFacts DEF engine
<1>1. ASSUME NEW c \in Copies, Call(c) PROVE CopiedInv'
  BY <1>1 DEF Call, CopiedInv
<1>2. ASSUME Launch PROVE CopiedInv'
  <2>1. queue' # <<>> /\ at' = at /\ mem' = mem
    BY <1>2, LaunchFacts DEF Launch
  <2>2. CASE queue = <<>>
    <3>1. at' = 0
      BY <2>1, <2>2 DEF CopiedInv
    <3>2. Head(queue').reg = reg /\ reg \in Reg
      BY <1>2, <2>2, LaunchFacts DEF TypeOK
    <3>3. \A i, j \in Nat : ~(i * reg.num_bytes + j < 0)
      BY <3>2, NoByteBefore DEF Reg
    <3>4. QED
      BY <2>1, <3>1, <3>2, <3>3 DEF CopiedInv
  <2>3. CASE queue # <<>>
    <3>1. Head(queue') = Head(queue)
      BY <1>2, <2>3, LaunchFacts DEF TypeOK
    <3>2. QED
      BY <2>1, <2>3, <3>1 DEF CopiedInv
  <2>4. QED
    BY <2>2, <2>3
<1>3. ASSUME BlkReturn PROVE CopiedInv'
  BY <1>3 DEF BlkReturn, CopiedInv
<1>4. ASSUME CopyByte PROVE CopiedInv'
  <2>1. queue # <<>> /\ queue' = queue /\ at' = at + 1
    BY <1>4 DEF CopyByte
  <2>2. QED
    BY <1>4, <2>1, ByteStep DEF CopiedInv
<1>5. ASSUME EndCopy PROVE CopiedInv'
  <2>1. queue # <<>> /\ queue' = Tail(queue) /\ at' = 0 /\ mem' = mem
        /\ pc' = pc /\ call' = call
    BY <1>5 DEF EndCopy
  <2>2. CASE queue' = <<>>
    <3>1. pc = "wait" => Head(queue).call = call
      BY <2>1, <2>2, HeadFacts DEF AskedInv
    <3>2. QED
      BY <1>5, <2>1, <2>2, <3>1, AllBytesDone DEF CopiedInv
  <2>3. CASE queue' # <<>>
    <3>1. Head(queue').reg \in Reg
      BY <2>1, <2>3 DEF Running
    <3>2. \A i, j \in Nat : ~(i * Head(queue').reg.num_bytes + j < 0)
      BY <3>1, NoByteBefore DEF Reg
    <3>3. QED
      BY <2>1, <2>3, <3>2 DEF CopiedInv
  <2>4. QED
    BY <2>2, <2>3
<1>6. ASSUME UNCHANGED vars PROVE CopiedInv'
  BY <1>6 DEF vars, CopiedInv
<1>7. QED
  BY <1>1, <1>2, <1>3, <1>4, <1>5, <1>6 DEF Next, Hart, Engine

-----------------------------------------------------------------------------
\* The registers at a launch and in the queue, and all types, in every reachable
\* state.
LEMMA AskedCorrect == SafeSpec => [](TypeOK /\ AskedInv /\ NumberInv)
<1>1. Init => TypeOK /\ AskedInv /\ NumberInv
  <2> SUFFICES ASSUME Init PROVE TypeOK /\ AskedInv /\ NumberInv
    OBVIOUS
  <2>1. queue = <<>> /\ Len(queue) = 0 /\ DOMAIN queue = {}
    BY DEF Init
  <2>2. queue \in Seq(Running)
    BY <2>1
  <2>3. reg \in Reg /\ mem \in [Places -> Int]
    BY DEF Init, Reg, Old
  <2>4. TypeOK
    BY <2>1, <2>2, <2>3, CallFacts DEF Init, TypeOK, Running
  <2>5. AskedInv /\ NumberInv
    BY <2>1 DEF Init, AskedInv, NumberInv
  <2>6. QED
    BY <2>4, <2>5
<1>2. TypeOK /\ AskedInv /\ NumberInv /\ [Next]_vars
        => TypeOK' /\ AskedInv' /\ NumberInv'
  BY TypeStep, AskedStep, NumberStep
<1>3. QED
  BY <1>1, <1>2, PTL DEF SafeSpec

\* Registers, numbers, queue and memory always have their types.
THEOREM TypeCorrect == Spec => []TypeOK
BY AskedCorrect, PTL DEF Spec, SafeSpec

\* A call that asks for a row gets what it asks for; one that asks for none is not
\* owed anything.
LEMMA WantedGranted ==
  ASSUME NEW c \in Copies
  PROVE  /\ Wanted(c) \subseteq Granted(c)
         /\ Wanted(c) # {} => Wanted(c) = Granted(c)
<1>1. CASE c.dim = 1 \/ c.num_reps # 0
  BY <1>1 DEF Wanted, Granted, Rows
<1>2. CASE c.dim # 1 /\ c.num_reps = 0
  <2>1. 0 .. c.num_reps - 1 = {}
    BY <1>2
  <2>2. Wanted(c) = {}
    BY <1>2, <2>1 DEF Wanted, Moves
  <2>3. QED
    BY <2>2
<1>3. QED
  BY <1>1, <1>2

\* A copy does what the call that started it asked for, whatever an earlier call
\* left in the registers, unless it asked for no row.
THEOREM CopiesAsAsked == Spec => []CopyAsAsked
<1>1. TypeOK /\ AskedInv => CopyAsAsked
  <2> SUFFICES ASSUME TypeOK, AskedInv, NEW q \in DOMAIN queue, Wanted(queue[q].call) # {}
               PROVE  Started(queue[q].reg) = Wanted(queue[q].call)
    BY DEF CopyAsAsked
  <2>1. queue[q].call \in Copies
    <3>1. queue \in Seq(Running)
      BY DEF TypeOK, Running
    <3>2. q \in 1 .. Len(queue)
      BY QueueFacts
    <3>3. queue[q] \in Running
      BY <3>1, <3>2, ElementOfSeq
    <3>4. QED
      BY <3>3 DEF Running
  <2>2. Started(queue[q].reg) = Granted(queue[q].call)
    BY DEF AskedInv, AsAsked
  <2>3. QED
    BY <2>1, <2>2, WantedGranted
<1>2. QED
  BY <1>1, AskedCorrect, PTL DEF Spec, SafeSpec

\* When a blocking copy returns, its bytes are there, those of no later copy have
\* replaced them, and nothing else is under way: DONE cannot show a number of
\* an earlier copy that means the same.
THEOREM CopiesOnReturn ==
  ASSUME RowsApart
  PROVE  Spec => CopiedOnReturn
<1>1. Init => CopiedInv
  BY DEF Init, CopiedInv
<1>2. TypeOK /\ AskedInv /\ CopiedInv /\ [Next]_vars => CopiedInv'
  BY CopiedStep
<1>3. SafeSpec => []CopiedInv
  BY <1>1, <1>2, AskedCorrect, PTL DEF SafeSpec
<1>4. TypeOK /\ NumberInv /\ CopiedInv /\ [Next]_vars
        => [pc = "wait" /\ pc' = "idle" =>
              queue = <<>> /\ \A move \in Wanted(call) :
                                mem[move[1]] = move[2]]_vars
  <2> SUFFICES ASSUME TypeOK, NumberInv, CopiedInv, [Next]_vars,
                      pc = "wait", pc' = "idle"
               PROVE  queue = <<>> /\ \A move \in Wanted(call) :
                                        mem[move[1]] = move[2]
    OBVIOUS
  <2>1. BlkReturn
    BY DEF Next, Hart, Engine, Call, Launch, CopyByte, EndCopy, vars
  <2>2. done = Before(next_id, 1)
    BY <2>1 DEF BlkReturn, DoneIsMine, NumberInv
  <2>3. done = Before(next_id, Len(queue) + 1)
    BY <2>2, CallFacts DEF NumberInv, Before, TypeOK
  <2>4. Len(queue) = 0
    <3>1. next_id \in 1 .. MaxId /\ Len(queue) \in Nat /\ Len(queue) < MaxId
      BY SMTT(30), CallFacts, QueueFacts DEF TypeOK
    <3>2. QED
      BY <2>2, <2>3, <3>1, CallFacts DEF Before
  <2>5. call \in Copies /\ queue = <<>>
    BY <2>4, QueueFacts DEF TypeOK
  <2>6. QED
    BY <2>5, WantedGranted DEF CopiedInv
<1>5. QED
  BY <1>3, <1>4, AskedCorrect, PTL DEF Spec, SafeSpec, CopiedOnReturn
=============================================================================
