-------------------------- MODULE UartDebug_proofs --------------------------
(***************************************************************************)
(* Proofs about UartDebug for any memory and bytes, commands of any        *)
(* length, FIFOs of any depth and any number of commands.                  *)
(***************************************************************************)
EXTENDS UartDebug, TLAPS, SequenceTheorems

\* The return code is longer than what the transmitter holds: when its last byte
\* is stored the byte before it, EOC, has been sent.
CodeOutgrowsFifo == TxDepth <= RetLen

\* No program prints what ends its output.
EocNotPrinted == Eoc \notin ConsoleByte

-----------------------------------------------------------------------------
(***************************************************************************)
(* The inductive invariant: where the server and the client are, and what  *)
(* is between them.                                                        *)
(***************************************************************************)
\* What the client has sent or will send now, and the server has not read.
Pending == rx \o hout

\* The server has read the client's command.
Known == cmd = hop.kind /\ addr = hop.addr /\ len = hop.len

\* The server is in the invoked program or behind it.
Invoked == spc \in {"invoke", "run", "eoc", "ret", "exit"}

\* Before the client speaks there is only noise, and no answer to it.
SettleInv ==
  hpc = "settle" =>
    /\ hop = NoOp /\ spc \in {"init", "poll"} /\ tx = <<>>
    /\ rx \in Seq(NoiseByte) /\ hout = <<>>

\* The first ACK is the client's, the second the server's.
HelloInv ==
  hpc = "hello" =>
    /\ hop = NoOp
    /\ \/ /\ spc = "poll" /\ tx = <<>>
          /\ Pending # <<>> /\ Pending[Len(Pending)] = Ack
          /\ \A k \in 1 .. Len(Pending) - 1 : Pending[k] \in NoiseByte
       \/ spc = "hello" /\ Pending = <<>> /\ tx = <<>>
       \/ spc = "cmd" /\ Pending = <<>> /\ tx = <<Ack>>

\* Between commands both are done.
IdleInv == hpc = "idle" => spc = "cmd" /\ Pending = <<>> /\ tx = <<>>

\* A command on its way, with what of it the server has not read.
RequestInv ==
  \/ spc = "cmd"
     /\ Pending = IF hop.kind = CmdExec THEN <<CmdExec, hop.addr>>
                  ELSE <<hop.kind, hop.addr, hop.len>>
  \/ spc = "addr" /\ cmd = hop.kind
     /\ Pending = IF cmd = CmdExec THEN <<hop.addr>> ELSE <<hop.addr, hop.len>>
  \/ spc = "len" /\ cmd = hop.kind /\ cmd # CmdExec /\ addr = hop.addr
     /\ Pending = <<hop.len>>
  \/ spc = "ack" /\ cmd = hop.kind /\ addr = hop.addr /\ (cmd # CmdExec => len = hop.len)
     /\ Pending = <<>>

\* The first n bytes of a write are in memory.
Stored(n) == \A k \in 1 .. n : mem[hop.addr + k - 1] = hop.data[k]

WriteInv ==
  hop.kind = CmdWrite =>
    /\ hpc = "ack" => i = 0
    /\ \/ /\ spc = "data" /\ i <= len /\ Stored(i)
          /\ Pending = IF hpc = "data" THEN SubSeq(hop.data, i + 1, len) ELSE <<>>
       \/ spc = "cmd" /\ i = len /\ Stored(len) /\ Pending = <<>>

\* The n bytes of a memory from an address on: those of a read.
Block(memory, a, n) == [k \in 1 .. n |-> memory[a + k - 1]]

\* What the server has sent behind its ACK.
Sent ==
  LET data == IF hop.kind = CmdRead THEN Block(mem, hop.addr, i) ELSE <<>> IN
  IF spc = "data" THEN data ELSE Append(data, Eot)

ReadInv ==
  hop.kind = CmdRead =>
    /\ Pending = <<>>
    /\ (spc = "data" /\ i <= len) \/ (spc = "cmd" /\ i = len)
    /\ Len(hin) <= len

OpInv ==
  hpc \in {"ack", "data"} =>
    /\ hop \in ReadOps \cup WriteOps /\ Fits(hop.addr, hop.len)
    /\ hpc = "ack" => hin = <<>>
    /\ hop.kind = CmdWrite => hin = <<>>
    /\ \/ hpc = "ack" /\ tx = <<>> /\ RequestInv
       \/ /\ Known /\ WriteInv /\ ReadInv
          /\ IF hpc = "ack" THEN tx = <<Ack>> \o Sent ELSE hin \o tx = Sent

\* Once a program is invoked the client is silent until it has the code; the
\* EOC and the bytes of the code are the last ones on the line.  Only a program
\* that dropped the ACK of its launch makes the client stop.
ExecInv ==
  /\ hpc = "execack" /\ ~Invoked => hop.kind = CmdExec /\ tx = <<>> /\ RequestInv
  /\ hpc \in {"running", "code", "done"} => Invoked
  /\ ackLost => Invoked
  /\ hpc = "fatal" => ackLost
  /\ Invoked => /\ hpc \in {"execack", "running", "code", "done", "fatal"}
                /\ Pending = <<>>
                /\ hpc = "execack" /\ ~ackLost => tx # <<>> /\ Head(tx) = Ack
                /\ hpc \in {"execack", "running"} /\ spc \in {"ret", "exit"} =>
                     i < Len(tx) /\ tx[Len(tx) - i] = Eoc
  /\ hpc \in {"execack", "running"} => hin = <<>>
  /\ spc = "ret" => i < RetLen
  /\ spc = "exit" => i = RetLen
  /\ IF spc \in {"eoc", "ret", "exit"} THEN ret \in [1 .. RetLen -> Data] ELSE ret = <<>>

\* EOC is on the line once, and what follows are the bytes of the code.
CodeInv ==
  EocNotPrinted =>
    /\ hpc \in {"execack", "running"} /\ spc \in {"invoke", "run", "eoc"} =>
         \A k \in 1 .. Len(tx) : tx[k] # Eoc
    /\ hpc \in {"execack", "running"} /\ spc \in {"ret", "exit"} =>
         /\ \A k \in 1 .. Len(tx) : k < Len(tx) - i => tx[k] # Eoc
         /\ \A k \in 1 .. i : tx[Len(tx) - i + k] = ret[k]
    /\ hpc = "code" =>
         /\ spc \in {"ret", "exit"} /\ Len(hin) < RetLen /\ Len(hin) + Len(tx) = i
         /\ \A k \in 1 .. Len(hin) : hin[k] = ret[k]
         /\ \A k \in 1 .. Len(tx) : tx[k] = ret[Len(hin) + k]
    /\ hpc = "done" => spc = "exit" /\ hin = ret /\ tx = <<>>

UartInv ==
  /\ TypeOK /\ TransferComplete
  /\ SettleInv /\ HelloInv /\ IdleInv /\ OpInv
  /\ ExecInv /\ CodeInv

-----------------------------------------------------------------------------
(***************************************************************************)
(* Sequences: a byte that goes from one end of the line to the other.      *)
(***************************************************************************)
LEMMA ShortSequences ==
  ASSUME NEW a, NEW b, NEW c
  PROVE  /\ <<a>> # <<>> /\ Head(<<a>>) = a /\ Tail(<<a>>) = <<>>
         /\ <<a, b>> # <<>> /\ Head(<<a, b>>) = a /\ Tail(<<a, b>>) = <<b>>
         /\ <<a, b, c>> # <<>> /\ Head(<<a, b, c>>) = a /\ Tail(<<a, b, c>>) = <<b, c>>
         /\ Append(<<>>, a) = <<a>> /\ Append(<<a>>, b) = <<a, b>>
<1>1. Append(<<a>>, b) = <<a, b>>
  <2>1. \E S : a \in S /\ b \in S
    <3>1. a \in {a, b} /\ b \in {a, b}
      OBVIOUS
    <3>2. QED
      BY <3>1
  <2>2. PICK S : a \in S /\ b \in S
    BY <2>1
  <2>3. /\ <<a>> \in Seq(S) /\ <<a, b>> \in Seq(S)
        /\ Len(<<a>>) = 1 /\ Len(<<a, b>>) = 2
        /\ <<a>>[1] = a /\ <<a, b>>[1] = a /\ <<a, b>>[2] = b
    BY <2>2
  <2>4. /\ Append(<<a>>, b) \in Seq(S) /\ Len(Append(<<a>>, b)) = 2
        /\ Append(<<a>>, b)[1] = a /\ Append(<<a>>, b)[2] = b
    BY <2>2, <2>3, AppendProperties
  <2>5. \A n \in 1 .. 2 : Append(<<a>>, b)[n] = <<a, b>>[n]
    BY <2>3, <2>4
  <2>6. QED
    BY <2>3, <2>4, <2>5, SeqEqual
<1>2. QED
  BY <1>1

\* The first element of the second of two sequences becomes the last of the first.
LEMMA HandOver ==
  ASSUME NEW S, NEW s \in Seq(S), NEW t \in Seq(S), t # <<>>
  PROVE  /\ Append(s, Head(t)) \o Tail(t) = s \o t
         /\ Append(s, Head(t)) \in Seq(S) /\ Tail(t) \in Seq(S)
         /\ Len(Append(s, Head(t))) = Len(s) + 1
<1>1. Head(t) \in S /\ Tail(t) \in Seq(S) /\ Head(t) = t[1]
  BY HeadTailProperties
<1>2. Append(s, Head(t)) \in Seq(S) /\ Len(Append(s, Head(t))) = Len(s) + 1
  BY <1>1, AppendProperties
<1>3. /\ Append(s, Head(t)) \o Tail(t) \in Seq(S) /\ s \o t \in Seq(S)
      /\ Len(Append(s, Head(t)) \o Tail(t)) = Len(s \o t)
  BY <1>1, <1>2, ConcatProperties, HeadTailProperties, LenProperties
<1>4. ASSUME NEW n \in 1 .. Len(s) + Len(t)
      PROVE  (Append(s, Head(t)) \o Tail(t))[n] = (s \o t)[n]
  <2>1. Len(s) \in Nat /\ Len(t) \in Nat /\ Len(Tail(t)) = Len(t) - 1
    BY HeadTailProperties, LenProperties
  <2>2. CASE n <= Len(s)
    BY <1>1, <1>2, <2>1, <2>2, ConcatProperties, AppendProperties
  <2>3. CASE n = Len(s) + 1
    BY <1>1, <1>2, <2>1, <2>3, ConcatProperties, AppendProperties
  <2>4. CASE n > Len(s) + 1
    <3>1. (Append(s, Head(t)) \o Tail(t))[n] = Tail(t)[n - Len(s) - 1]
      BY <1>1, <1>2, <2>1, <2>4, ConcatProperties
    <3>2. Tail(t)[n - Len(s) - 1] = t[n - Len(s)]
      BY <2>1, <2>4, HeadTailProperties
    <3>3. (s \o t)[n] = t[n - Len(s)]
      BY <2>1, <2>4, ConcatProperties
    <3>4. QED
      BY <3>1, <3>2, <3>3
  <2>5. QED
    BY <2>1, <2>2, <2>3, <2>4
<1>5. QED
  BY <1>1, <1>2, <1>3, <1>4, SeqEqual, ConcatProperties

\* Taking from two sequences in a row is taking from the first.
LEMMA TakeFirst ==
  ASSUME NEW S, NEW s \in Seq(S), NEW t \in Seq(S), s # <<>>
  PROVE  /\ s \o t # <<>> /\ Head(s \o t) = Head(s)
         /\ Tail(s \o t) = Tail(s) \o t
         /\ Tail(s) \in Seq(S) /\ Len(Tail(s)) = Len(s) - 1
<1>1. Tail(s) \in Seq(S) /\ Len(Tail(s)) = Len(s) - 1 /\ Head(s) = s[1]
  BY HeadTailProperties
<1>2. Len(s) \in Nat \ {0} /\ Len(t) \in Nat
  BY EmptySeq, LenProperties
<1>3. /\ s \o t \in Seq(S) /\ s \o t # <<>> /\ Len(s \o t) = Len(s) + Len(t)
      /\ Head(s \o t) = (s \o t)[1]
  BY <1>2, ConcatProperties, ConcatEqualIffEmpty
<1>4. Head(s \o t) = Head(s)
  BY <1>1, <1>2, <1>3, ConcatProperties
<1>5. /\ Tail(s \o t) \in Seq(S) /\ Tail(s) \o t \in Seq(S)
      /\ Len(Tail(s \o t)) = Len(s) + Len(t) - 1
      /\ Len(Tail(s) \o t) = Len(s) + Len(t) - 1
  BY <1>1, <1>2, <1>3, ConcatProperties, HeadTailProperties
<1>6. ASSUME NEW n \in 1 .. Len(s) + Len(t) - 1
      PROVE  Tail(s \o t)[n] = (Tail(s) \o t)[n]
  <2>1. Tail(s \o t)[n] = (s \o t)[n + 1]
    BY <1>2, <1>3, <1>5, HeadTailProperties
  <2>2. CASE n <= Len(s) - 1
    <3>1. (s \o t)[n + 1] = s[n + 1]
      BY <1>2, <2>2, ConcatProperties
    <3>2. (Tail(s) \o t)[n] = Tail(s)[n] /\ Tail(s)[n] = s[n + 1]
      BY <1>1, <1>2, <2>2, ConcatProperties, HeadTailProperties
    <3>3. QED
      BY <2>1, <3>1, <3>2
  <2>3. CASE n > Len(s) - 1
    <3>1. (s \o t)[n + 1] = t[n + 1 - Len(s)]
      BY <1>2, <2>3, ConcatProperties
    <3>2. (Tail(s) \o t)[n] = t[n - (Len(s) - 1)]
      BY <1>1, <1>2, <2>3, ConcatProperties
    <3>3. QED
      BY <1>2, <2>1, <3>1, <3>2
  <2>4. QED
    BY <1>2, <2>2, <2>3
<1>7. QED
  BY <1>1, <1>3, <1>4, <1>5, <1>6, SeqEqual

LEMMA AppendLast ==
  ASSUME NEW S, NEW s \in Seq(S), NEW t \in Seq(S), NEW e \in S
  PROVE  s \o Append(t, e) = Append(s \o t, e)
<1>1. Append(t, e) = t \o <<e>> /\ <<e>> \in Seq(S)
  BY AppendIsConcat
<1>2. Append(s \o t, e) = (s \o t) \o <<e>>
  BY AppendIsConcat, ConcatProperties
<1>3. QED
  BY <1>1, <1>2, ConcatAssociative
-----------------------------------------------------------------------------
(***************************************************************************)
(* Bytes, commands and the line.                                           *)
(***************************************************************************)
LEMMA Opcodes ==
  /\ CmdRead \in 0 .. 255 /\ CmdWrite \in 0 .. 255 /\ CmdExec \in 0 .. 255
  /\ Ack \in 0 .. 255 /\ Eot \in 0 .. 255 /\ Eoc \in 0 .. 255
  /\ CmdRead # CmdWrite /\ CmdRead # CmdExec /\ CmdWrite # CmdExec
  /\ Ack \notin {CmdRead, CmdWrite, CmdExec, Eot, Eoc}
BY DEF CmdRead, CmdWrite, CmdExec, Ack, Eot, Eoc

LEMMA Bounds ==
  /\ MaxLen \in Nat /\ RetLen \in Nat \ {0} /\ RxDepth \in Nat \ {0} /\ TxDepth \in Nat \ {0}
  /\ 0 \in 0 .. MaxLen
BY UartAssumption DEF UartAssumption

LEMMA Units ==
  /\ 0 .. 255 \subseteq Unit /\ Addr \subseteq Unit /\ 0 .. MaxLen \subseteq Unit
  /\ Data \subseteq 0 .. 255 /\ ConsoleByte \subseteq 0 .. 255 /\ NoiseByte \subseteq 0 .. 255
  /\ Ack \notin NoiseByte /\ 0 \in Addr /\ Addr \subseteq Nat
BY UartAssumption DEF UartAssumption, Unit

LEMMA Commands ==
  ASSUME NEW op \in ReadOps \cup WriteOps
  PROVE  /\ op.kind \in {CmdRead, CmdWrite}
         /\ op.addr \in Addr /\ op.len \in 0 .. MaxLen /\ op.len \in Nat
         /\ op.data \in Seq(Data)
         /\ op.kind = CmdWrite => Len(op.data) = op.len
         /\ op.kind = CmdRead => op.data = <<>> /\ op.len > 0
<1>1. CASE op \in ReadOps
  <2>1. op.kind = CmdRead /\ op.addr \in Addr /\ op.len \in 1 .. MaxLen /\ op.data = <<>>
    BY <1>1 DEF ReadOps
  <2>2. <<>> \in Seq(Data)
    BY EmptySeq
  <2>3. op.len \in 0 .. MaxLen /\ op.len \in Nat /\ op.len > 0
    <3>1. MaxLen \in Nat
      BY Bounds
    <3>2. QED
      BY <2>1, <3>1
  <2>4. QED
    BY <2>1, <2>2, <2>3, Opcodes
<1>2. CASE op \in WriteOps
  <2>1. PICK a \in Addr, d \in Blocks :
          op = [kind |-> CmdWrite, addr |-> a, len |-> Len(d), data |-> d]
    BY <1>2 DEF WriteOps
  <2>2. PICK n \in 0 .. MaxLen : d \in [1 .. n -> Data]
    BY <2>1 DEF Blocks
  <2>3. d \in Seq(Data) /\ Len(d) = n
    BY <2>2
  <2>4. QED
    BY <2>1, <2>2, <2>3, Opcodes
<1>3. QED
  BY <1>1, <1>2

\* A block grows by its next byte.
LEMMA BlockFacts ==
  ASSUME NEW memory \in [Addr -> Data], NEW a \in Nat, NEW n \in Nat,
         \A k \in 0 .. n - 1 : a + k \in Addr
  PROVE  /\ Block(memory, a, n) \in Seq(0 .. 255) /\ Len(Block(memory, a, n)) = n
         /\ n = 0 => Block(memory, a, n) = <<>>
         /\ \A k \in 1 .. n : Block(memory, a, n)[k] = memory[a + k - 1]
<1>1. ASSUME NEW k \in 1 .. n PROVE memory[a + k - 1] \in 0 .. 255
  <2>1. a + k - 1 = a + (k - 1) /\ k - 1 \in 0 .. n - 1
    OBVIOUS
  <2>2. memory[a + k - 1] \in Data
    BY <2>1
  <2>3. QED
    BY <2>2, Units
<1>2. Block(memory, a, n) \in [1 .. n -> 0 .. 255]
  BY <1>1 DEF Block
<1>3. Block(memory, a, n) \in Seq(0 .. 255) /\ Len(Block(memory, a, n)) = n
  BY <1>2
<1>4. n = 0 => Block(memory, a, n) = <<>>
  BY <1>3, EmptySeq
<1>5. QED
  BY <1>3, <1>4 DEF Block

LEMMA BlockGrows ==
  ASSUME NEW memory \in [Addr -> Data], NEW a \in Nat, NEW n \in Nat,
         \A k \in 0 .. n : a + k \in Addr
  PROVE  Append(Block(memory, a, n), memory[a + n]) = Block(memory, a, n + 1)
<1>1. /\ \A k \in 0 .. n - 1 : a + k \in Addr
      /\ \A k \in 0 .. (n + 1) - 1 : a + k \in Addr
  OBVIOUS
<1>2. memory[a + n] \in 0 .. 255
  <2>1. memory[a + n] \in Data
    OBVIOUS
  <2>2. QED
    BY <2>1, Units
<1> DEFINE s == Block(memory, a, n)
           t == Block(memory, a, n + 1)
           e == memory[a + n]
<1>3. /\ s \in Seq(0 .. 255) /\ Len(s) = n
      /\ \A k \in 1 .. n : s[k] = memory[a + k - 1]
  BY ZenonT(40), <1>1, BlockFacts
<1>4. /\ t \in Seq(0 .. 255) /\ Len(t) = n + 1
      /\ \A k \in 1 .. n + 1 : t[k] = memory[a + k - 1]
  <2>1. n + 1 \in Nat
    OBVIOUS
  <2>2. QED
    BY ZenonT(40), <1>1, <2>1, BlockFacts
<1>5. t[n + 1] = e
  BY <1>4
<1> HIDE DEF s, t, e
<1>6. /\ Append(s, e) \in Seq(0 .. 255) /\ Len(Append(s, e)) = n + 1
      /\ \A k \in 1 .. n : Append(s, e)[k] = s[k]
      /\ Append(s, e)[n + 1] = e
  BY <1>2, <1>3, AppendProperties DEF e
<1>7. ASSUME NEW k \in 1 .. n + 1 PROVE Append(s, e)[k] = t[k]
  <2>1. CASE k = n + 1
    BY <1>5, <1>6, <2>1
  <2>2. CASE k \in 1 .. n
    BY <1>3, <1>4, <1>6, <2>2
  <2>3. k = n + 1 \/ k \in 1 .. n
    OBVIOUS
  <2>4. QED
    BY <2>1, <2>2, <2>3
<1>8. Append(s, e) = t
  BY <1>4, <1>6, <1>7, SeqEqual
<1>9. QED
  BY <1>8 DEF s, t, e

LEMMA Executions ==
  ASSUME NEW op \in ExecOps
  PROVE  op.kind = CmdExec /\ op.addr \in Addr
BY DEF ExecOps

\* What is read off the line is what was pending first.
LEMMA ReadPending ==
  ASSUME TypeOK, NEW b, UartRead(b), hout' = hout
  PROVE  /\ Pending # <<>> /\ b = Head(Pending) /\ Pending' = Tail(Pending)
         /\ rx' \in Seq(Unit) /\ Len(rx') <= RxDepth
         /\ b = rx[1] /\ Len(rx) \in Nat \ {0} /\ Len(rx') = Len(rx) - 1
         /\ \A n \in 1 .. Len(rx') : rx'[n] = rx[n + 1]
<1>1. rx \in Seq(Unit) /\ hout \in Seq(Unit) /\ rx # <<>> /\ b = Head(rx) /\ rx' = Tail(rx)
      /\ Len(rx) <= RxDepth
  BY DEF TypeOK, UartRead
<1>2. Len(rx) \in Nat /\ RxDepth \in Nat /\ Len(rx) # 0
  BY <1>1, Bounds, LenProperties, EmptySeq
<1>3. QED
  BY SMTT(30), <1>1, <1>2, TakeFirst, HeadTailProperties DEF Pending

\* Sending a byte leaves what is pending as it is.
LEMMA SendPending ==
  ASSUME TypeOK, WriteByte
  PROVE  /\ Pending' = Pending
         /\ rx' \in Seq(Unit) /\ hout' \in Seq(Unit) /\ Len(rx') <= RxDepth
         /\ Pending # <<>> /\ hout # <<>>
<1>1. /\ rx \in Seq(Unit) /\ hout \in Seq(Unit) /\ hout # <<>> /\ Len(rx) < RxDepth
      /\ rx' = Append(rx, Head(hout)) /\ hout' = Tail(hout)
  BY DEF TypeOK, WriteByte
<1>2. Len(rx) \in Nat /\ RxDepth \in Nat
  BY <1>1, Bounds, LenProperties
<1>3. QED
  BY <1>1, <1>2, HandOver, ConcatEqualIffEmpty DEF Pending

LEMMA NothingPending ==
  ASSUME TypeOK
  PROVE  /\ Pending \in Seq(Unit)
         /\ Pending = <<>> <=> rx = <<>> /\ hout = <<>>
         /\ hout = <<>> => Pending = rx
         /\ rx = <<>> => Pending = hout
BY SMTT(30), ConcatProperties, ConcatEqualIffEmpty, ConcatEmptySeq DEF TypeOK, Pending

\* A byte sent by the server, or one taken by the client.
LEMMA WriteLine ==
  ASSUME TypeOK, NEW b \in 0 .. 255, UartWrite(b)
  PROVE  /\ tx' \in Seq(0 .. 255) /\ Len(tx') <= TxDepth
         /\ tx' = Append(tx, b) /\ Len(tx') = Len(tx) + 1 /\ tx'[Len(tx) + 1] = b
         /\ \A n \in 1 .. Len(tx) : tx'[n] = tx[n]
         /\ tx' # <<>> /\ Head(tx') = IF tx = <<>> THEN b ELSE Head(tx)
         /\ Len(tx) \in Nat
         /\ hin \o tx' = Append(hin \o tx, b)
<1>1. /\ tx \in Seq(0 .. 255) /\ hin \in Seq(0 .. 255) /\ Len(tx) < TxDepth
      /\ tx' = Append(tx, b)
  BY DEF TypeOK, UartWrite
<1>2. Len(tx) \in Nat /\ TxDepth \in Nat
  BY <1>1, Bounds, LenProperties
<1>3. QED
  BY <1>1, <1>2, AppendProperties, HeadTailAppend, AppendLast

LEMMA TakeLine ==
  ASSUME TypeOK, NEW b, Scoop(b)
  PROVE  /\ tx' \in Seq(0 .. 255) /\ Len(tx') <= TxDepth /\ b \in 0 .. 255
         /\ Len(tx) \in Nat \ {0} /\ Len(tx') = Len(tx) - 1
         /\ b = tx[1] /\ b = Head(tx) /\ tx' = Tail(tx) /\ tx # <<>>
         /\ \A n \in 1 .. Len(tx') : tx'[n] = tx[n + 1]
         /\ Append(hin, b) \o tx' = hin \o tx
         /\ Append(hin, b) \in Seq(0 .. 255) /\ Len(Append(hin, b)) = Len(hin) + 1
         /\ \A n \in 1 .. Len(hin) : Append(hin, b)[n] = hin[n]
         /\ Append(hin, b)[Len(hin) + 1] = b
         /\ Len(hin) \in Nat
<1>1. /\ tx \in Seq(0 .. 255) /\ hin \in Seq(0 .. 255) /\ Len(tx) <= TxDepth
      /\ tx # <<>> /\ b = Head(tx) /\ tx' = Tail(tx)
  BY DEF TypeOK, Scoop
<1>2. Len(tx) \in Nat /\ TxDepth \in Nat /\ Len(tx) # 0 /\ Len(hin) \in Nat
  BY <1>1, Bounds, LenProperties, EmptySeq
<1>3. b \in 0 .. 255 /\ b = tx[1]
  <2>1. Head(tx) \in 0 .. 255
    BY <1>1, HeadTailProperties
  <2>2. Head(tx) = tx[1]
    BY <1>1, <1>2
  <2>3. QED
    BY <1>1, <2>1, <2>2
<1>4. QED
  BY <1>1, <1>2, <1>3, HandOver, HeadTailProperties, AppendProperties
-----------------------------------------------------------------------------
(***************************************************************************)
(* Where the server is tells where the client is.                          *)
(***************************************************************************)
LEMMA Places ==
  ASSUME UartInv
  PROVE  /\ spc = "init" => hpc = "settle"
         /\ spc = "poll" => hpc \in {"settle", "hello"}
         /\ spc = "hello" => hpc = "hello"
         /\ spc = "cmd" /\ Pending # <<>> => hpc \in {"ack", "execack"} /\ RequestInv
         /\ spc \in {"addr", "ack"} => hpc \in {"ack", "execack"} /\ RequestInv
         /\ spc = "len" => hpc = "ack" /\ RequestInv
         /\ spc = "data" => hpc \in {"ack", "data"} /\ Known /\ WriteInv /\ ReadInv
         /\ hpc \in {"settle", "hello", "idle", "ack", "data"} => ~Invoked
         /\ hpc \in {"settle", "hello", "idle"} => spc \notin {"data", "addr", "len", "ack"}
<1> USE DEF UartInv, TypeOK, Invoked
<1>1. spc \in {"init", "poll", "hello"} => hpc \in {"settle", "hello"}
  BY DEF SettleInv, HelloInv, IdleInv, OpInv, ExecInv, RequestInv,
       WriteInv, ReadInv, Known,
         ReadOps, WriteOps
<1>2. hpc \in {"settle", "hello", "idle", "ack", "data"} => ~Invoked
  BY DEF ExecInv
<1>3. hpc \in {"settle", "hello", "idle"} => spc \notin {"data", "addr", "len", "ack"}
  BY DEF SettleInv, HelloInv, IdleInv
<1>4. ASSUME spc \in {"cmd", "addr", "len", "ack", "data"}, hpc \notin {"settle", "hello", "idle"}
      PROVE  hpc \in {"ack", "data", "execack"}
  BY <1>4 DEF ExecInv
<1>5. ASSUME hpc \in {"ack", "data"}
      PROVE  \/ hpc = "ack" /\ RequestInv
             \/ /\ Known /\ WriteInv /\ ReadInv
                /\ spc \in {"cmd", "data"} /\ (spc = "cmd" => Pending = <<>>)
  <2>1. hop.kind \in {CmdRead, CmdWrite}
    BY <1>5, Commands DEF OpInv
  <2>2. QED
    BY <1>5, <2>1 DEF OpInv, WriteInv, ReadInv
<1>6. hpc = "execack" /\ ~Invoked => RequestInv /\ spc # "len" /\ spc # "data"
  BY DEF ExecInv, RequestInv
<1>7. hpc \in {"hello", "idle"} /\ spc = "cmd" => Pending = <<>>
  BY DEF HelloInv, IdleInv
<1>8. RequestInv => spc # "data"
  BY DEF RequestInv
<1>9. spc = "init" => hpc = "settle"
  BY <1>1 DEF HelloInv
<1>10. spc = "hello" => hpc = "hello"
  BY <1>1 DEF SettleInv
<1>11. spc = "cmd" => hpc # "settle"
  BY DEF SettleInv
<1>12. QED
  BY <1>1, <1>2, <1>3, <1>4, <1>5, <1>6, <1>7, <1>8, <1>9, <1>10, <1>11

\* Before its ACK the server has sent nothing.
LEMMA RequestFacts ==
  ASSUME UartInv, spc \in {"addr", "len", "ack"} \/ (spc = "cmd" /\ Pending # <<>>)
  PROVE  /\ hpc \in {"ack", "execack"} /\ RequestInv
         /\ hpc = "ack" => /\ hop \in ReadOps \cup WriteOps /\ Fits(hop.addr, hop.len)
                          /\ hop.kind # CmdExec
         /\ hpc = "execack" => hop.kind = CmdExec
         /\ tx = <<>> /\ ret = <<>> /\ hin = <<>>
<1>1. hpc \in {"ack", "execack"} /\ RequestInv
  BY Places
<1>2. hpc = "ack" => /\ hop \in ReadOps \cup WriteOps /\ Fits(hop.addr, hop.len)
                     /\ hin = <<>> /\ hop.kind # CmdExec
  BY Commands, Opcodes DEF UartInv, OpInv
<1>3. hpc = "execack" => hop.kind = CmdExec /\ hin = <<>> /\ tx = <<>>
  BY DEF UartInv, ExecInv, Invoked
<1>4. ASSUME hpc = "ack", Known, WriteInv, ReadInv PROVE FALSE
  <2>1. hop.kind \in {CmdRead, CmdWrite}
    BY <1>4, Commands DEF UartInv, OpInv
  <2>2. spc = "data" \/ (spc = "cmd" /\ Pending = <<>>)
    BY <1>4, <2>1 DEF WriteInv, ReadInv
  <2>3. QED
    BY <2>2
<1>5. hpc = "ack" => tx = <<>>
  BY <1>4 DEF UartInv, OpInv
<1>6. ret = <<>>
  BY DEF UartInv, ExecInv
<1>7. QED
  BY <1>1, <1>2, <1>3, <1>5, <1>6

\* A command within memory.
LEMMA CommandFits ==
  ASSUME UartInv, spc = "data", i < len
  PROVE  /\ hop \in ReadOps \cup WriteOps
         /\ len = hop.len /\ addr = hop.addr /\ cmd = hop.kind
         /\ addr \in Nat /\ len \in Nat /\ i \in Nat
         /\ \A n \in 0 .. len - 1 : addr + n \in Addr
<1>1. /\ hop \in ReadOps \cup WriteOps /\ Known /\ Fits(hop.addr, hop.len)
  BY Places DEF UartInv, OpInv
<1>2. addr \in Nat /\ len \in Nat /\ addr \in Addr
  BY <1>1, Commands, Units DEF Known
<1>3. i \in Nat
  BY Bounds DEF UartInv, TypeOK
<1>4. QED
  BY <1>1, <1>2, <1>3 DEF Known, Fits

LEMMA TypeServer ==
  ASSUME UartInv, Server
  PROVE  TypeOK'
<1> USE DEF TypeOK
<1>0. TypeOK
  BY DEF UartInv
<1>1. CASE UartInit
  BY <1>0, <1>1, Bounds, EmptySeq DEF UartInit, ServerGoTo, hostVars, aux
<1>2. CASE UartDebugCheck
  BY <1>0, <1>2, ReadPending DEF UartDebugCheck, hostVars, aux
<1>3. CASE Hello
  <2>1. tx' \in Seq(0 .. 255) /\ Len(tx') <= TxDepth
    BY <1>0, <1>3, WriteLine, Opcodes DEF Hello
  <2>2. QED
    BY <1>0, <1>3, <2>1 DEF Hello, ServerGoTo, hostVars, aux
<1>4. CASE ReadCmd
  BY <1>0, <1>4, ReadPending DEF ReadCmd, hostVars, aux
<1>5. CASE ReadAddr
  BY <1>0, <1>5, ReadPending DEF ReadAddr, ServerGoTo, hostVars, aux
<1>6. CASE ReadLen
  BY <1>0, <1>6, ReadPending DEF ReadLen, ServerGoTo, hostVars, aux
<1>7. CASE SendAck
  <2>1. tx' \in Seq(0 .. 255) /\ Len(tx') <= TxDepth
    BY <1>0, <1>7, WriteLine, Opcodes DEF SendAck
  <2>2. QED
    BY <1>0, <1>7, <2>1, Bounds DEF SendAck, ServerGoTo, hostVars, aux
<1>8. CASE SendData
  <2>1. /\ addr + i \in Addr /\ i + 1 \in 0 .. MaxLen
    BY <1>0, <1>8, CommandFits, Bounds DEF SendData
  <2>2. mem[addr + i] \in 0 .. 255
    BY <1>0, <2>1, Units
  <2>3. tx' \in Seq(0 .. 255) /\ Len(tx') <= TxDepth
    BY <1>0, <1>8, <2>2, WriteLine DEF SendData
  <2>4. QED
    BY <1>0, <1>8, <2>1, <2>3 DEF SendData, hostVars, aux
<1>9. CASE ReceiveData
  <2>1. /\ addr + i \in Addr /\ i + 1 \in 0 .. MaxLen
    BY SMTT(30), <1>0, <1>9, CommandFits, Bounds DEF ReceiveData
  <2>2. rx' \in Seq(Unit) /\ Len(rx') <= RxDepth
    BY <1>0, <1>9, ReadPending DEF ReceiveData, hostVars
  <2>3. mem' \in [Addr -> Data]
    BY <1>0, <1>9, <2>1 DEF ReceiveData
  <2>4. QED
    BY <1>0, <1>9, <2>1, <2>2, <2>3 DEF ReceiveData, hostVars, aux
<1>10. CASE SendEot
  <2>1. tx' \in Seq(0 .. 255) /\ Len(tx') <= TxDepth
    BY <1>0, <1>10, WriteLine, Opcodes DEF SendEot
  <2>2. QED
    BY <1>0, <1>10, <2>1 DEF SendEot, ServerGoTo, hostVars, aux
<1>11. CASE Invoke
  BY <1>0, <1>11 DEF Invoke, ServerGoTo, hostVars, aux
<1>12. CASE SendEoc
  <2>1. tx' \in Seq(0 .. 255) /\ Len(tx') <= TxDepth
    BY <1>0, <1>12, WriteLine, Opcodes DEF SendEoc
  <2>2. QED
    BY <1>0, <1>12, <2>1, Bounds DEF SendEoc, ServerGoTo, hostVars, aux
<1>13. CASE SendRet
  <2>1. i \in Nat /\ i < RetLen /\ ret \in [1 .. RetLen -> Data]
    BY <1>0, <1>13, Bounds DEF SendRet, UartInv, ExecInv
  <2>2. ret[i + 1] \in 0 .. 255 /\ i + 1 \in 0 .. RetLen
    <3>1. i + 1 \in 1 .. RetLen /\ i + 1 \in 0 .. RetLen
      BY <2>1, Bounds
    <3>2. ret[i + 1] \in Data
      BY <2>1, <3>1
    <3>3. QED
      BY <3>1, <3>2, Units
  <2>3. tx' \in Seq(0 .. 255) /\ Len(tx') <= TxDepth
    BY <1>0, <1>13, <2>2, WriteLine DEF SendRet
  <2>4. QED
    BY <1>0, <1>13, <2>2, <2>3 DEF SendRet, hostVars, aux
<1>14. QED
  BY <1>1, <1>2, <1>3, <1>4, <1>5, <1>6, <1>7, <1>8, <1>9, <1>10, <1>11,
       <1>12, <1>13
     DEF Server

LEMMA TypeProgram ==
  ASSUME UartInv, Program
  PROVE  TypeOK'
<1> USE DEF TypeOK
<1>0. TypeOK
  BY DEF UartInv
<1>1. CASE ProgramInits
  <2>1. tx' \in Seq(0 .. 255) /\ Len(tx') <= TxDepth
    <3>1. CASE tx' = <<>>
      BY <3>1, Bounds, EmptySeq
    <3>2. CASE tx # <<>> /\ tx' = <<Head(tx)>>
      <4>1. tx' = <<Head(tx)>> /\ Head(tx) \in 0 .. 255
        BY <1>0, <3>2, HeadTailProperties
      <4>2. tx' \in Seq(0 .. 255) /\ Len(tx') = 1
        BY <4>1
      <4>3. QED
        BY <4>2, Bounds
    <3>3. QED
      BY <1>1, <3>1, <3>2 DEF ProgramInits
  <2>2. rx' \in Seq(Unit) /\ Len(rx') <= RxDepth
    BY <1>1, Bounds, EmptySeq DEF ProgramInits
  <2>3. ackLost' \in BOOLEAN
    BY <1>1 DEF ProgramInits
  <2>4. QED
    BY <1>0, <1>1, <2>1, <2>2, <2>3 DEF ProgramInits, serverVars, hostVars
<1>2. ASSUME NEW b \in ConsoleByte, ProgramPrints(b) PROVE TypeOK'
  <2>1. b \in 0 .. 255
    BY <1>2, Units
  <2>2. tx' \in Seq(0 .. 255) /\ Len(tx') <= TxDepth
    BY <1>0, <1>2, <2>1, WriteLine DEF ProgramPrints
  <2>3. MaxPrint \in Nat
    BY UartAssumption DEF UartAssumption
  <2>4. QED
    BY <1>0, <1>2, <2>2, <2>3 DEF ProgramPrints, serverVars, hostVars
<1>3. ASSUME NEW code \in [1 .. RetLen -> Data], ProgramReturns(code)
     PROVE  TypeOK'
  BY <1>0, <1>3 DEF ProgramReturns, ServerGoTo, hostVars, aux
<1>4. QED
  BY <1>1, <1>2, <1>3 DEF Program

LEMMA TypeHost ==
  ASSUME UartInv, HostReacts
  PROVE  TypeOK'
<1> USE DEF TypeOK
<1>0. TypeOK
  BY DEF UartInv
<1>1. CASE Challenge
  <2>1. <<Ack>> \in Seq(Unit)
    BY Opcodes, Units
  <2>2. QED
    BY <1>0, <1>1, <2>1 DEF Challenge, serverVars, aux
<1>2. CASE WriteByte
  BY <1>0, <1>2, SendPending DEF WriteByte, serverVars, aux
<1>3. CASE ScoopHello
  BY <1>0, <1>3, TakeLine DEF ScoopHello, Scoop, Expect, serverVars, aux
<1>4. CASE ScoopAck
  <2>1. hop.data \in Seq(Unit)
    <3>1. hop.data \in Seq(Data)
      BY <1>4, Commands DEF UartInv, OpInv, ScoopAck
    <3>2. Data \subseteq Unit
      BY Units
    <3>3. QED
      BY <3>1, <3>2, SeqMonotonic
  <2>2. PICK b \in 0 .. 255 : Scoop(b) /\ Expect(b, Ack, "data")
    BY <1>4 DEF ScoopAck
  <2>3. tx' \in Seq(0 .. 255) /\ Len(tx') <= TxDepth
    BY <1>0, <2>2, TakeLine
  <2>4. QED
    BY <1>0, <1>4, <2>1, <2>2, <2>3 DEF ScoopAck, Scoop, Expect,
         serverVars, aux
<1>5. CASE ScoopData
  <2>1. PICK b \in 0 .. 255 :
          /\ Scoop(b)
          /\ IF hop.kind = CmdRead /\ Len(hin) < hop.len
             THEN hin' = Append(hin, b) /\ hpc' = hpc
             ELSE hin' = hin /\ Expect(b, Eot, "idle")
    BY <1>5 DEF ScoopData
  <2>2. tx' \in Seq(0 .. 255) /\ Len(tx') <= TxDepth /\ Append(hin, b) \in Seq(0 .. 255)
    BY <1>0, <2>1, TakeLine
  <2>3. hin' \in Seq(0 .. 255) /\ hpc' \in {"data", "idle", "fatal"}
    BY <1>0, <1>5, <2>1, <2>2 DEF ScoopData, Expect
  <2>4. QED
    BY <1>0, <1>5, <2>1, <2>2, <2>3 DEF ScoopData, Scoop, serverVars, aux
<1>6. CASE ScoopExecAck
  BY <1>0, <1>6, TakeLine DEF ScoopExecAck, Scoop, Expect, serverVars, aux
<1>7. CASE Console
  BY <1>0, <1>7, TakeLine DEF Console, Scoop, serverVars, aux
<1>8. CASE ScoopCode
  <2>1. PICK b \in 0 .. 255 : Scoop(b) /\ hin' = Append(hin, b)
    BY <1>8 DEF ScoopCode
  <2>2. tx' \in Seq(0 .. 255) /\ Len(tx') <= TxDepth /\ Append(hin, b) \in Seq(0 .. 255)
    BY <1>0, <2>1, TakeLine
  <2>3. QED
    BY <1>0, <1>8, <2>1, <2>2 DEF ScoopCode, Scoop, serverVars, aux
<1>9. QED
  BY <1>1, <1>2, <1>3, <1>4, <1>5, <1>6, <1>7, <1>8 DEF HostReacts
-----------------------------------------------------------------------------
(***************************************************************************)
(* The protocol is kept by the steps of the server.                        *)
(***************************************************************************)
\* The invariant but for the types.
Protocol ==
  /\ TransferComplete
  /\ SettleInv /\ HelloInv /\ IdleInv /\ OpInv
  /\ ExecInv /\ CodeInv

LEMMA StartUp ==
  ASSUME UartInv, UartInit \/ UartDebugCheck \/ Hello
  PROVE  Protocol'
<1>0. TypeOK
  BY DEF UartInv
<1>1. /\ ret = <<>> /\ ret' = ret /\ hpc' = hpc /\ hout' = hout /\ hin' = hin
      /\ ~ackLost' /\ hop' = hop /\ (hpc \in {"settle", "hello"} => hop = NoOp)
  BY DEF UartInv, SettleInv, HelloInv, ExecInv, Invoked, UartInit,
       UartDebugCheck, Hello, ServerGoTo, hostVars, aux
<1>2. hpc \in {"settle", "hello"} /\ spc' \in {"poll", "hello", "cmd"}
  BY Places DEF UartInit, UartDebugCheck, Hello, ServerGoTo
<1>3. TransferComplete' /\ IdleInv' /\ OpInv' /\ ExecInv' /\ CodeInv'
  BY <1>1, <1>2 DEF TransferComplete, IdleInv, OpInv, ExecInv, Invoked, CodeInv
<1>4. CASE UartInit
  <2>1. hpc = "settle"
    BY <1>4, Places DEF UartInit, ServerGoTo
  <2>2. SettleInv'
    BY <1>1, <1>4, <2>1, EmptySeq DEF UartInv, SettleInv, UartInit, ServerGoTo
  <2>3. QED
    BY <1>1, <1>3, <2>1, <2>2 DEF Protocol, HelloInv
<1>5. CASE UartDebugCheck
  <2>1. PICK b \in 0 .. 255 : UartRead(b) /\ spc' = IF b = Ack THEN "hello" ELSE "poll"
    BY <1>5 DEF UartDebugCheck
  <2>2. /\ Pending # <<>> /\ b = Head(Pending) /\ Pending' = Tail(Pending)
        /\ tx' = tx /\ spc = "poll"
    BY <1>0, <1>1, <1>5, <2>1, ReadPending DEF UartDebugCheck
  <2>3. CASE hpc = "settle"
    <3>1. rx \in Seq(NoiseByte) /\ rx # <<>> /\ b = Head(rx) /\ rx' = Tail(rx)
      BY <2>1, <2>3 DEF UartInv, SettleInv, UartRead
    <3>2. b \in NoiseByte /\ rx' \in Seq(NoiseByte)
      BY <3>1, HeadTailProperties
    <3>3. spc' = "poll"
      BY <2>1, <3>2, Units
    <3>4. SettleInv'
      BY <1>1, <2>2, <2>3, <3>2, <3>3 DEF UartInv, SettleInv
    <3>5. QED
      BY <1>1, <1>3, <2>3, <3>4 DEF Protocol, HelloInv
  <2>4. CASE hpc = "hello"
    <3>1. /\ tx = <<>> /\ Pending[Len(Pending)] = Ack
          /\ \A k \in 1 .. Len(Pending) - 1 : Pending[k] \in NoiseByte
      BY <2>2, <2>4 DEF UartInv, HelloInv
    <3>2. /\ Pending \in Seq(Unit) /\ Len(Pending) \in Nat \ {0} /\ b = Pending[1]
          /\ Pending' \in Seq(Unit) /\ Len(Pending') = Len(Pending) - 1
          /\ \A k \in 1 .. Len(Pending) - 1 : Pending'[k] = Pending[k + 1]
      <4>1. Pending \in Seq(Unit)
        BY <1>0, NothingPending
      <4>2. Len(Pending) \in Nat \ {0}
        BY <2>2, <4>1, EmptySeq
      <4>3. Head(Pending) = Pending[1]
        BY <4>1, <4>2
      <4>4. QED
        BY <2>2, <4>1, <4>2, <4>3, HeadTailProperties
    <3>3. CASE Len(Pending) = 1
      <4>1. b = Ack /\ Pending' = <<>>
        BY <3>1, <3>2, <3>3
      <4>2. HelloInv'
        BY <1>1, <2>1, <2>2, <2>4, <3>1, <4>1 DEF HelloInv
      <4>3. QED
        BY <1>1, <1>3, <2>4, <4>2 DEF Protocol, SettleInv
    <3>4. CASE Len(Pending) > 1
      <4>1. b \in NoiseByte
        BY <3>1, <3>2, <3>4
      <4>2. b # Ack
        BY <4>1, Units
      <4>3. Pending' # <<>>
        BY <3>2, <3>4
      <4>4. Pending'[Len(Pending')] = Ack
        BY <3>1, <3>2, <3>4
      <4>5. \A k \in 1 .. Len(Pending') - 1 : Pending'[k] \in NoiseByte
        BY <3>1, <3>2, <3>4
      <4>6. HelloInv'
        BY <1>1, <2>1, <2>2, <2>4, <3>1, <4>2, <4>3, <4>4, <4>5 DEF HelloInv
      <4>7. QED
        BY <1>1, <1>3, <2>4, <4>6 DEF Protocol, SettleInv
    <3>5. QED
      BY <3>2, <3>3, <3>4
  <2>5. QED
    BY <1>2, <2>3, <2>4
<1>6. CASE Hello
  <2>1. spc = "hello" /\ spc' = "cmd" /\ hpc = "hello" /\ rx' = rx
    BY <1>6, Places DEF Hello, ServerGoTo
  <2>2. tx = <<>> /\ Pending = <<>>
    BY <2>1 DEF UartInv, HelloInv
  <2>3. tx' = <<Ack>> /\ Pending' = <<>>
    BY <1>1, <1>6, <2>1, <2>2, ShortSequences DEF Hello, UartWrite, Pending
  <2>4. HelloInv' /\ SettleInv'
    BY <1>1, <2>1, <2>3 DEF HelloInv, SettleInv
  <2>5. QED
    BY <1>1, <1>3, <2>4 DEF Protocol
<1>7. QED
  BY <1>4, <1>5, <1>6

\* Reading a command byte by byte.
LEMMA ReadRequest ==
  ASSUME UartInv, ReadCmd \/ ReadAddr \/ ReadLen
  PROVE  Protocol'
<1>0. TypeOK
  BY DEF UartInv
<1>1. UNCHANGED <<tx, i, mem, ret, hpc, hop, hout, hin>> /\ ~ackLost'
  BY DEF UartInv, ExecInv, Invoked, ReadCmd, ReadAddr, ReadLen, ServerGoTo, hostVars, aux
<1>2. PICK b : /\ UartRead(b)
               /\ ReadCmd => IF b \in {CmdRead, CmdWrite, CmdExec}
                             THEN cmd' = b /\ spc' = "addr" ELSE cmd' = cmd /\ spc' = "exit"
               /\ ReadAddr => addr' = b
               /\ ReadLen => len' = b
  <2>1. CASE ReadCmd
    BY <2>1 DEF ReadCmd, ReadAddr, ReadLen, ServerGoTo
  <2>2. CASE ReadAddr
    BY <2>2 DEF ReadCmd, ReadAddr, ReadLen, ServerGoTo
  <2>3. CASE ReadLen
    BY <2>3 DEF ReadCmd, ReadAddr, ReadLen, ServerGoTo
  <2>4. QED
    BY <2>1, <2>2, <2>3
<1>3. Pending # <<>> /\ b = Head(Pending) /\ Pending' = Tail(Pending)
  BY <1>0, <1>1, <1>2, ReadPending
<1>4. hpc \in {"ack", "execack"} /\ RequestInv /\ spc \in {"cmd", "addr", "len"}
  BY <1>3, Places DEF ReadCmd, ReadAddr, ReadLen, ServerGoTo
<1>5. /\ hpc = "ack" => /\ hop \in ReadOps \cup WriteOps /\ Fits(hop.addr, hop.len)
                       /\ hop.kind # CmdExec
      /\ hpc = "execack" => hop.kind = CmdExec
      /\ tx = <<>> /\ ret = <<>> /\ hin = <<>>
  BY <1>3, <1>4, RequestFacts
<1>6. RequestInv' /\ spc' \in {"addr", "len", "ack"}
  <2>1. hop.kind \in {CmdRead, CmdWrite, CmdExec}
    BY <1>4, <1>5, Commands
  <2>2. CASE ReadCmd
    <3>1. spc = "cmd" /\ UNCHANGED <<addr, len>>
      BY <2>2 DEF ReadCmd
    <3>2. b = hop.kind
          /\ Pending' = IF hop.kind = CmdExec THEN <<hop.addr>> ELSE <<hop.addr, hop.len>>
      <4>1. CASE hop.kind = CmdExec
        <5>1. Pending = <<CmdExec, hop.addr>>
          BY <1>4, <3>1, <4>1 DEF RequestInv
        <5>2. QED
          BY <1>3, <4>1, <5>1, ShortSequences
      <4>2. CASE hop.kind # CmdExec
        <5>1. Pending = <<hop.kind, hop.addr, hop.len>>
          BY <1>4, <3>1, <4>2 DEF RequestInv
        <5>2. QED
          BY <1>3, <4>2, <5>1, ShortSequences
      <4>3. QED
        BY <4>1, <4>2
    <3>3. cmd' = hop.kind /\ spc' = "addr"
      BY <1>2, <2>1, <2>2, <3>2
    <3>4. QED
      BY <1>1, <3>2, <3>3 DEF RequestInv
  <2>3. CASE ReadAddr
    <3>1. spc = "addr" /\ spc' = (IF cmd = CmdExec THEN "ack" ELSE "len") /\ UNCHANGED <<cmd, len>>
      BY <2>3 DEF ReadAddr, ServerGoTo
    <3>2. /\ b = hop.addr /\ cmd = hop.kind
          /\ Pending' = IF cmd = CmdExec THEN <<>> ELSE <<hop.len>>
      <4>1. cmd = hop.kind
            /\ Pending = IF cmd = CmdExec THEN <<hop.addr>> ELSE <<hop.addr, hop.len>>
        BY <1>4, <3>1 DEF RequestInv
      <4>2. CASE cmd = CmdExec
        BY <1>3, <4>1, <4>2, ShortSequences
      <4>3. CASE cmd # CmdExec
        BY <1>3, <4>1, <4>3, ShortSequences
      <4>4. QED
        BY <4>2, <4>3
    <3>3. addr' = hop.addr
      BY <1>2, <2>3, <3>2
    <3>4. QED
      BY <1>1, <3>1, <3>2, <3>3 DEF RequestInv
  <2>4. CASE ReadLen
    <3>1. spc = "len" /\ spc' = "ack" /\ UNCHANGED <<cmd, addr>>
      BY <2>4 DEF ReadLen, ServerGoTo
    <3>2. /\ b = hop.len /\ cmd = hop.kind /\ addr = hop.addr /\ Pending' = <<>>
      BY <1>3, <1>4, <3>1, ShortSequences DEF RequestInv
    <3>3. len' = hop.len
      BY <1>2, <2>4, <3>2
    <3>4. QED
      BY <1>1, <3>1, <3>2, <3>3 DEF RequestInv
  <2>5. QED
    BY <2>2, <2>3, <2>4
<1>7. OpInv'
  BY <1>1, <1>4, <1>5, <1>6 DEF OpInv
<1>8. ExecInv'
  BY <1>1, <1>4, <1>5, <1>6 DEF ExecInv, Invoked
<1>9. TransferComplete' /\ SettleInv' /\ HelloInv' /\ IdleInv' /\ CodeInv'
  BY <1>1, <1>4, <1>6 DEF TransferComplete, SettleInv, HelloInv,
       IdleInv, CodeInv
<1>10. QED
  BY <1>1, <1>7, <1>8, <1>9 DEF Protocol

\* The ACK of a command.
LEMMA Acknowledge ==
  ASSUME UartInv, SendAck
  PROVE  Protocol'
<1>0. TypeOK
  BY DEF UartInv
<1>1. /\ spc = "ack" /\ spc' = (IF cmd = CmdExec THEN "invoke" ELSE "data") /\ i' = 0
      /\ UNCHANGED <<rx, cmd, addr, len, mem, ret, hpc, hop, hout, hin, Pending>>
      /\ ~ackLost'
  BY DEF UartInv, ExecInv, Invoked, SendAck, ServerGoTo, hostVars, aux, Pending
<1>2. /\ hpc \in {"ack", "execack"} /\ RequestInv
      /\ hpc = "ack" => /\ hop \in ReadOps \cup WriteOps /\ Fits(hop.addr, hop.len)
                        /\ hop.kind # CmdExec
      /\ hpc = "execack" => hop.kind = CmdExec
      /\ tx = <<>> /\ ret = <<>> /\ hin = <<>>
  BY <1>1, RequestFacts
<1>3. cmd = hop.kind /\ addr = hop.addr /\ (cmd # CmdExec => len = hop.len) /\ Pending = <<>>
  BY <1>1, <1>2 DEF RequestInv
<1>4. tx' = <<Ack>>
  BY <1>2, ShortSequences DEF SendAck, UartWrite
<1>5. CASE hpc = "ack"
  <2>1. hop.addr \in Nat /\ hop.len \in Nat
    BY <1>2, <1>5, Commands, Units
  <2>2. Known' /\ spc' = "data"
    BY <1>1, <1>2, <1>3, <1>5 DEF Known
  <2>3. Len(hin) = 0
    BY <1>2
  <2>4. WriteInv' /\ ReadInv'
    BY <1>1, <1>2, <1>3, <1>5, <2>1, <2>2, <2>3 DEF WriteInv, ReadInv, Stored
  <2>5. Sent' = <<>>
    <3>1. Block(mem, hop.addr, 0) = <<>>
      BY <1>0, <2>1, BlockFacts DEF TypeOK
    <3>2. QED
      BY <1>1, <2>2, <3>1 DEF Sent
  <2>6. <<Ack>> \o <<>> = <<Ack>>
    OBVIOUS
  <2>7. OpInv'
    BY <1>1, <1>2, <1>4, <1>5, <2>2, <2>4, <2>5, <2>6 DEF OpInv
  <2>8. TransferComplete' /\ SettleInv' /\ HelloInv' /\ IdleInv' /\ ExecInv' /\ CodeInv'
    BY <1>1, <1>2, <1>5, <2>2
       DEF TransferComplete, SettleInv, HelloInv, IdleInv, ExecInv, CodeInv, Invoked
  <2>9. QED
    BY <1>1, <1>5, <2>7, <2>8 DEF Protocol
<1>6. CASE hpc = "execack"
  <2>1. spc' = "invoke" /\ hpc' = "execack"
    BY <1>1, <1>2, <1>3, <1>6
  <2>2. Len(tx') = 1 /\ tx'[1] = Ack /\ Ack # Eoc
    BY <1>4, Opcodes
  <2>3. ExecInv'
    BY <1>1, <1>2, <1>3, <1>4, <2>1, ShortSequences DEF ExecInv, Invoked
  <2>4. CodeInv'
    BY <2>1, <2>2 DEF CodeInv
  <2>5. TransferComplete' /\ SettleInv' /\ HelloInv' /\ IdleInv' /\ OpInv'
    BY <2>1 DEF TransferComplete, SettleInv, HelloInv, IdleInv, OpInv
  <2>6. QED
    BY <2>1, <2>3, <2>4, <2>5 DEF Protocol
<1>7. QED
  BY <1>2, <1>5, <1>6

\* What holds in the middle of a command.
LEMMA DataFacts ==
  ASSUME UartInv, spc = "data"
  PROVE  /\ hpc \in {"ack", "data"} /\ Known /\ WriteInv /\ ReadInv
         /\ hop \in ReadOps \cup WriteOps /\ Fits(hop.addr, hop.len)
         /\ IF hpc = "ack" THEN tx = <<Ack>> \o Sent ELSE hin \o tx = Sent
         /\ hpc = "ack" => hin = <<>>
         /\ hop.kind = CmdWrite => hin = <<>>
         /\ ret = <<>>
<1>1. hpc \in {"ack", "data"} /\ Known /\ WriteInv /\ ReadInv
  BY Places
<1>2. ~RequestInv
  BY DEF RequestInv
<1>3. ret = <<>>
  BY DEF UartInv, ExecInv
<1>4. QED
  BY <1>1, <1>2, <1>3 DEF UartInv, OpInv

\* In the middle of a command, and at its end, nothing but the command counts.
LEMMA OnlyOp ==
  ASSUME hpc' \in {"ack", "data"}, spc' \in {"cmd", "data"}, ret' = <<>>, ~ackLost', OpInv'
  PROVE  Protocol'
BY DEF Protocol, OpInv, TransferComplete, SettleInv, HelloInv, IdleInv,
     ExecInv, CodeInv,
       Invoked

\* A byte of a read.
LEMMA ReadByte ==
  ASSUME UartInv, SendData
  PROVE  Protocol'
<1>0. TypeOK
  BY DEF UartInv
<1>1. /\ spc = "data" /\ cmd = CmdRead /\ i < len /\ UartWrite(mem[addr + i]) /\ i' = i + 1
      /\ UNCHANGED <<rx, spc, cmd, addr, len, mem, ret, hpc, hop, hout, hin, Pending>>
      /\ ~ackLost'
  BY DEF UartInv, ExecInv, Invoked, SendData, hostVars, aux, Pending
<1>2. /\ hpc \in {"ack", "data"} /\ Known /\ WriteInv /\ ReadInv
      /\ hop \in ReadOps \cup WriteOps /\ Fits(hop.addr, hop.len)
      /\ IF hpc = "ack" THEN tx = <<Ack>> \o Sent ELSE hin \o tx = Sent
      /\ hpc = "ack" => hin = <<>>
      /\ ret = <<>>
  BY <1>1, DataFacts
<1>3. hop.kind = CmdRead /\ hop.kind # CmdWrite
  BY <1>1, <1>2, Opcodes DEF Known
<1>4. /\ addr = hop.addr /\ addr \in Nat /\ len \in Nat /\ i \in Nat
      /\ \A n \in 0 .. len - 1 : addr + n \in Addr
  BY <1>1, CommandFits
<1>5. mem \in [Addr -> Data] /\ mem[addr + i] \in 0 .. 255
  <2>1. addr + i \in Addr
    BY <1>1, <1>4
  <2>2. mem[addr + i] \in Data
    BY <1>0, <2>1 DEF TypeOK
  <2>3. QED
    BY <1>0, <2>2, Units DEF TypeOK
<1>6. Sent = Block(mem, addr, i) /\ Sent' = Block(mem, addr, i + 1)
  BY <1>1, <1>3, <1>4 DEF Sent
<1>7. /\ Append(Block(mem, addr, i), mem[addr + i]) = Block(mem, addr, i + 1)
      /\ Block(mem, addr, i) \in Seq(0 .. 255)
  <2>1. \A n \in 0 .. i : addr + n \in Addr
    BY <1>1, <1>4
  <2>2. \A n \in 0 .. i - 1 : addr + n \in Addr
    BY <2>1, <1>4
  <2>3. QED
    BY ZenonT(40), <1>4, <1>5, <2>1, <2>2, BlockGrows, BlockFacts
<1>8. tx' = Append(tx, mem[addr + i]) /\ hin \o tx' = Append(hin \o tx, mem[addr + i])
  BY <1>0, <1>1, <1>5, WriteLine
<1>9. hpc = "ack" => tx' = <<Ack>> \o Sent'
  <2>1. <<Ack>> \in Seq(0 .. 255)
    BY Opcodes
  <2>2. <<Ack>> \o Append(Block(mem, addr, i), mem[addr + i])
          = Append(<<Ack>> \o Block(mem, addr, i), mem[addr + i])
    BY <1>5, <1>7, <2>1, AppendLast
  <2>3. QED
    BY <1>2, <1>6, <1>7, <1>8, <2>2
<1>10. hpc = "data" => hin \o tx' = Sent'
  BY <1>2, <1>6, <1>7, <1>8
<1>11. Known' /\ ReadInv' /\ WriteInv'
  BY <1>1, <1>2, <1>3, <1>4 DEF Known, ReadInv, WriteInv
<1>12. OpInv'
  BY <1>1, <1>2, <1>3, <1>9, <1>10, <1>11 DEF OpInv
<1>13. QED
  BY <1>1, <1>2, <1>12, OnlyOp

\* A byte of a write.
LEMMA WrittenByte ==
  ASSUME UartInv, ReceiveData
  PROVE  Protocol'
<1>0. TypeOK
  BY DEF UartInv
<1>1. /\ spc = "data" /\ cmd = CmdWrite /\ i < len /\ i' = i + 1
      /\ UNCHANGED <<tx, spc, cmd, addr, len, ret, hpc, hop, hout, hin>>
      /\ ~ackLost'
  BY DEF UartInv, ExecInv, Invoked, ReceiveData, hostVars, aux
<1>2. PICK b \in Data : UartRead(b) /\ mem' = [mem EXCEPT ![addr + i] = b]
  BY DEF ReceiveData
<1>3. /\ hpc \in {"ack", "data"} /\ Known /\ WriteInv
      /\ hop \in ReadOps \cup WriteOps /\ Fits(hop.addr, hop.len)
      /\ IF hpc = "ack" THEN tx = <<Ack>> \o Sent ELSE hin \o tx = Sent
      /\ hin = <<>> /\ ret = <<>>
      /\ hop.kind = CmdWrite /\ hop.kind # CmdRead
  BY <1>1, DataFacts, Opcodes DEF Known
<1>4. /\ addr = hop.addr /\ len = hop.len /\ addr \in Nat /\ len \in Nat /\ i \in Nat
      /\ \A n \in 0 .. len - 1 : addr + n \in Addr
  BY <1>1, CommandFits
<1>5. Pending # <<>> /\ b = Head(Pending) /\ Pending' = Tail(Pending)
  BY <1>0, <1>1, <1>2, ReadPending
<1>6. hpc = "data" /\ Pending = SubSeq(hop.data, i + 1, len) /\ Stored(i)
  BY <1>1, <1>3, <1>5 DEF WriteInv
<1>7. b = hop.data[i + 1] /\ Pending' = SubSeq(hop.data, (i + 1) + 1, len)
  <2>1. hop.data \in Seq(Data) /\ Len(hop.data) = len
    BY <1>3, <1>4, Commands
  <2>2. i + 1 \in 1 .. Len(hop.data) /\ len \in i + 1 .. Len(hop.data)
    BY <1>1, <1>4, <2>1
  <2>3. QED
    BY <1>5, <1>6, <2>1, <2>2, HeadTailOfSubSeq
<1>8. Stored(i)'
  <2>1. mem \in [Addr -> Data] /\ addr + i \in Addr
    BY <1>0, <1>1, <1>4 DEF TypeOK
  <2>2. mem'[addr + i] = b /\ \A a \in Addr : a # addr + i => mem'[a] = mem[a]
    BY <1>2, <2>1
  <2>3. ASSUME NEW k \in 1 .. i + 1 PROVE mem'[addr + k - 1] = hop.data[k]
    <3>1. CASE k = i + 1
      BY <1>4, <1>7, <2>2, <3>1
    <3>2. CASE k # i + 1
      <4>1. k \in 1 .. i /\ k - 1 \in 0 .. len - 1 /\ addr + k - 1 = addr + (k - 1)
        BY <1>1, <1>4, <3>2
      <4>2. addr + k - 1 \in Addr /\ addr + k - 1 # addr + i
        BY <1>4, <4>1
      <4>3. mem[addr + k - 1] = hop.data[k]
        BY <1>4, <1>6, <4>1 DEF Stored
      <4>4. QED
        BY <2>2, <4>2, <4>3
    <3>3. QED
      BY <3>1, <3>2
  <2>4. QED
    BY <1>1, <1>4, <2>3 DEF Stored
<1>9. Sent = <<>> /\ Sent' = <<>>
  BY <1>1, <1>3 DEF Sent
<1>10. Known' /\ WriteInv' /\ ReadInv'
  BY <1>1, <1>3, <1>4, <1>6, <1>7, <1>8 DEF Known, WriteInv, ReadInv, Stored
<1>11. OpInv'
  BY <1>1, <1>3, <1>6, <1>9, <1>10 DEF OpInv
<1>12. QED
  BY <1>1, <1>3, <1>11, OnlyOp

\* The end of a transfer.
LEMMA EndOfTransfer ==
  ASSUME UartInv, SendEot
  PROVE  Protocol'
<1>0. TypeOK
  BY DEF UartInv
<1>1. /\ spc = "data" /\ spc' = "cmd" /\ i = len /\ UartWrite(Eot)
      /\ UNCHANGED <<rx, cmd, addr, len, i, mem, ret, hpc, hop, hout, hin, Pending>>
      /\ ~ackLost'
  BY DEF UartInv, ExecInv, Invoked, SendEot, ServerGoTo, hostVars, aux, Pending
<1>2. /\ hpc \in {"ack", "data"} /\ Known /\ WriteInv /\ ReadInv
      /\ hop \in ReadOps \cup WriteOps /\ Fits(hop.addr, hop.len)
      /\ IF hpc = "ack" THEN tx = <<Ack>> \o Sent ELSE hin \o tx = Sent
      /\ hpc = "ack" => hin = <<>>
      /\ hop.kind = CmdWrite => hin = <<>>
      /\ ret = <<>>
  BY <1>1, DataFacts
<1>3. len \in Nat /\ i \in Nat /\ hop.addr \in Nat /\ len = hop.len
      /\ hop.data \in Seq(Data)
  BY <1>1, <1>2, Commands, Units DEF Known
<1>4. Sent' = Append(Sent, Eot) /\ Sent \in Seq(0 .. 255)
  <2>1. Sent' = Append(Sent, Eot)
    BY <1>1 DEF Sent
  <2>2. Block(mem, hop.addr, i) \in Seq(0 .. 255)
    <3>1. ASSUME NEW k \in 0 .. i - 1 PROVE hop.addr + k \in Addr
      <4>1. hop.addr .. hop.addr + hop.len - 1 \subseteq Addr /\ i = hop.len
        BY <1>1, <1>2, <1>3 DEF Fits
      <4>2. hop.addr + k \in hop.addr .. hop.addr + hop.len - 1
        BY <1>3, <4>1
      <4>3. QED
        BY <4>1, <4>2
    <3>2. QED
      BY <1>0, <1>3, <3>1, BlockFacts DEF TypeOK
  <2>3. QED
    BY <1>1, <2>1, <2>2, EmptySeq DEF Sent
<1>5. tx' = Append(tx, Eot) /\ hin \o tx' = Append(hin \o tx, Eot)
  BY <1>0, <1>1, Opcodes, WriteLine
<1>6. hpc = "ack" => tx' = <<Ack>> \o Sent'
  <2>1. <<Ack>> \in Seq(0 .. 255) /\ Eot \in 0 .. 255
    BY Opcodes
  <2>2. <<Ack>> \o Append(Sent, Eot) = Append(<<Ack>> \o Sent, Eot)
    BY <1>4, <2>1, AppendLast
  <2>3. QED
    BY <1>2, <1>4, <1>5, <2>2
<1>7. hpc = "data" => hin \o tx' = Sent'
  BY <1>2, <1>4, <1>5
<1>8. WriteInv'
  <2>1. SubSeq(hop.data, i + 1, len) = <<>>
    BY <1>1, <1>3, SubSeqEmpty
  <2>2. QED
    BY <1>1, <1>2, <2>1 DEF WriteInv, Stored
<1>9. Known' /\ ReadInv'
  BY <1>1, <1>2 DEF Known, ReadInv
<1>10. OpInv'
  BY <1>1, <1>2, <1>6, <1>7, <1>8, <1>9 DEF OpInv
<1>11. QED
  BY <1>1, <1>2, <1>10, OnlyOp

-----------------------------------------------------------------------------
(***************************************************************************)
(* The protocol is kept by the invoked program and the report of its code. *)
(***************************************************************************)
\* What holds once a program is invoked.
LEMMA InvokedFacts ==
  ASSUME UartInv, Invoked
  PROVE  /\ hpc \in {"execack", "running", "code", "done", "fatal"} /\ Pending = <<>>
         /\ rx = <<>> /\ hout = <<>>
         /\ hpc = "execack" /\ ~ackLost => tx # <<>> /\ Head(tx) = Ack
         /\ hpc = "fatal" => ackLost
         /\ hpc \in {"execack", "running"} => hin = <<>>
         /\ hpc \in {"execack", "running"} /\ spc \in {"ret", "exit"} =>
              i < Len(tx) /\ tx[Len(tx) - i] = Eoc
         /\ spc = "ret" => i < RetLen
         /\ IF spc \in {"eoc", "ret", "exit"} THEN ret \in [1 .. RetLen -> Data] ELSE ret = <<>>
BY NothingPending DEF UartInv, ExecInv

\* While a program is invoked nothing but it and its code count.
LEMMA OnlyProgram ==
  ASSUME UartInv, Invoked, hpc' \in {"execack", "running", "code", "done", "fatal"},
         ExecInv', CodeInv'
  PROVE  Protocol'
BY DEF Protocol, OpInv, TransferComplete, SettleInv, HelloInv, IdleInv

LEMMA RunProgram ==
  ASSUME UartInv, Invoke \/ Program
  PROVE  Protocol'
<1>0. TypeOK
  BY DEF UartInv
<1>1. /\ spc \in {"invoke", "run"} /\ spc' \in {"run", "eoc"}
      /\ UNCHANGED <<i, hpc, hop, hout, hin>> /\ rx' \in {rx, <<>>}
      /\ spc' = "run" => ret' = ret
      /\ spc' = "eoc" => ret' \in [1 .. RetLen -> Data]
  BY DEF Invoke, Program, ProgramInits, ProgramPrints, ProgramReturns,
       ServerGoTo, hostVars, serverVars
<1>2. Invoked /\ Invoked'
  BY <1>1 DEF Invoked
<1>3. /\ hpc \in {"execack", "running", "code", "done", "fatal"} /\ rx = <<>> /\ hout = <<>>
      /\ hpc = "execack" /\ ~ackLost => tx # <<>> /\ Head(tx) = Ack
      /\ hpc = "fatal" => ackLost
      /\ hpc \in {"execack", "running"} => hin = <<>>
      /\ ret = <<>>
  BY <1>1, <1>2, InvokedFacts
<1>4. Pending' = <<>> /\ (ackLost => ackLost')
  <2>1. ProgramInits => (ackLost => ackLost')
    BY DEF ProgramInits
  <2>2. ~ProgramInits => ackLost' = ackLost
    BY DEF Invoke, Program, ProgramPrints, ProgramReturns, aux
  <2>3. Pending' = <<>>
    BY <1>1, <1>3, ConcatEmptySeq DEF Pending
  <2>4. QED
    BY <2>1, <2>2, <2>3
<1>5. /\ hpc = "execack" /\ ~ackLost' => tx' # <<>> /\ Head(tx') = Ack
      /\ EocNotPrinted /\ (\A k \in 1 .. Len(tx) : tx[k] # Eoc) =>
           \A k \in 1 .. Len(tx') : tx'[k] # Eoc
  <2>1. CASE Invoke \/ \E code \in [1 .. RetLen -> Data] : ProgramReturns(code)
    <3>1. tx' = tx
      BY <2>1 DEF Invoke, ProgramReturns
    <3>2. QED
      BY <1>3, <1>4, <3>1
  <2>2. CASE ProgramInits
    <3>1. CASE tx' = <<>>
      <4>1. hpc = "execack" => ackLost'
        BY <2>2, <3>1 DEF ProgramInits
      <4>2. QED
        BY <3>1, <4>1
    <3>2. CASE tx # <<>> /\ tx' = <<Head(tx)>>
      <4>1. tx' = <<Head(tx)>> /\ Len(tx) \in Nat \ {0}
        BY <1>0, <3>2, EmptySeq DEF TypeOK
      <4>2. Head(tx) = tx[1] /\ 1 \in 1 .. Len(tx)
        BY <1>0, <4>1 DEF TypeOK
      <4>3. Len(tx') = 1 /\ tx'[1] = tx[1] /\ tx' # <<>> /\ Head(tx') = Head(tx)
        BY <4>1, <4>2, ShortSequences
      <4>4. QED
        BY <1>3, <1>4, <4>2, <4>3
    <3>3. QED
      BY <2>2, <3>1, <3>2 DEF ProgramInits
  <2>3. CASE \E b \in ConsoleByte : ProgramPrints(b)
    <3>1. PICK b \in ConsoleByte : UartWrite(b)
      BY <2>3 DEF ProgramPrints
    <3>2. /\ Len(tx) \in Nat /\ Len(tx') = Len(tx) + 1 /\ tx'[Len(tx) + 1] = b
          /\ \A n \in 1 .. Len(tx) : tx'[n] = tx[n]
          /\ tx' # <<>> /\ Head(tx') = IF tx = <<>> THEN b ELSE Head(tx)
      <4>1. b \in 0 .. 255
        BY Units
      <4>2. QED
        BY <1>0, <3>1, <4>1, WriteLine
    <3>3. EocNotPrinted => b # Eoc
      BY DEF EocNotPrinted
    <3>4. QED
      BY <1>3, <1>4, <3>2, <3>3
  <2>4. QED
    BY <2>1, <2>2, <2>3 DEF Program
<1>6. ExecInv'
  BY <1>1, <1>2, <1>3, <1>4, <1>5 DEF ExecInv
<1>7. CodeInv'
  BY <1>1, <1>3, <1>5 DEF CodeInv, UartInv
<1>8. QED
  BY <1>1, <1>2, <1>3, <1>6, <1>7, OnlyProgram

\* The EOC and the bytes of the code.
LEMMA ReportCode ==
  ASSUME UartInv, SendEoc \/ SendRet
  PROVE  Protocol'
<1>0. TypeOK
  BY DEF UartInv
<1>1. spc \in {"eoc", "ret"} /\ UNCHANGED <<rx, ret, hpc, hop, hout, hin, ackLost, Pending>>
  BY DEF SendEoc, SendRet, ServerGoTo, hostVars, aux, Pending
<1>2. Invoked
  BY <1>1 DEF Invoked
<1>3. /\ hpc \in {"execack", "running", "code", "done", "fatal"} /\ Pending = <<>>
      /\ hpc = "execack" /\ ~ackLost => tx # <<>> /\ Head(tx) = Ack
      /\ hpc = "fatal" => ackLost
      /\ hpc \in {"execack", "running"} => hin = <<>>
      /\ hpc \in {"execack", "running"} /\ spc \in {"ret", "exit"} =>
           i < Len(tx) /\ tx[Len(tx) - i] = Eoc
      /\ spc = "ret" => i < RetLen
      /\ ret \in [1 .. RetLen -> Data]
  BY <1>1, <1>2, InvokedFacts
<1>4. i \in Nat /\ RetLen \in Nat \ {0} /\ Len(hin) \in Nat
  BY <1>0, Bounds, LenProperties DEF TypeOK
<1>5. CASE SendEoc
  <2>1. spc = "eoc" /\ spc' = "ret" /\ i' = 0 /\ UartWrite(Eoc)
    BY <1>5 DEF SendEoc, ServerGoTo
  <2>2. /\ Len(tx) \in Nat /\ Len(tx') = Len(tx) + 1 /\ tx'[Len(tx) + 1] = Eoc
        /\ \A n \in 1 .. Len(tx) : tx'[n] = tx[n]
        /\ tx' # <<>> /\ Head(tx') = IF tx = <<>> THEN Eoc ELSE Head(tx)
    BY <1>0, <2>1, Opcodes, WriteLine
  <2>3. tx'[Len(tx') - 0] = Eoc
    BY <2>2
  <2>4. ExecInv'
    BY <1>1, <1>3, <1>4, <2>1, <2>2, <2>3 DEF ExecInv, Invoked
  <2>5. CodeInv'
    <3>1. EocNotPrinted /\ hpc # "fatal" =>
            /\ hpc \in {"execack", "running"}
            /\ \A k \in 1 .. Len(tx) : tx[k] # Eoc
      BY <1>3, <2>1 DEF UartInv, CodeInv
    <3>2. QED
      BY <1>1, <2>1, <2>2, <3>1 DEF CodeInv
  <2>6. QED
    BY <1>1, <1>2, <1>3, <2>4, <2>5, OnlyProgram
<1>6. CASE SendRet
  <2>1. /\ spc = "ret" /\ i' = i + 1 /\ UartWrite(ret[i + 1])
        /\ spc' = IF i + 1 = RetLen THEN "exit" ELSE "ret"
    BY <1>6 DEF SendRet
  <2>2. ret[i + 1] \in 0 .. 255
    <3>1. i + 1 \in 1 .. RetLen
      BY <1>3, <1>4, <2>1
    <3>2. ret[i + 1] \in Data
      BY <1>3, <3>1
    <3>3. QED
      BY <3>2, Units
  <2>3. /\ Len(tx) \in Nat /\ Len(tx') = Len(tx) + 1 /\ tx'[Len(tx) + 1] = ret[i + 1]
        /\ \A n \in 1 .. Len(tx) : tx'[n] = tx[n]
        /\ tx' # <<>> /\ Head(tx') = IF tx = <<>> THEN ret[i + 1] ELSE Head(tx)
    BY <1>0, <2>1, <2>2, WriteLine
  <2>4. spc' \in {"ret", "exit"} /\ (spc' = "ret" => i' < RetLen) /\ (spc' = "exit" => i' = RetLen)
    BY <1>3, <1>4, <2>1
  <2>5. hpc \in {"execack", "running"} => i' < Len(tx') /\ tx'[Len(tx') - i'] = Eoc
    <3>1. ASSUME hpc \in {"execack", "running"}
          PROVE  i' < Len(tx') /\ tx'[Len(tx') - i'] = Eoc
      <4>1. i < Len(tx) /\ tx[Len(tx) - i] = Eoc
        BY <1>3, <2>1, <3>1
      <4>2. Len(tx') - i' = Len(tx) - i /\ Len(tx) - i \in 1 .. Len(tx)
        BY <1>4, <2>1, <2>3, <4>1
      <4>3. QED
        BY <1>4, <2>1, <2>3, <4>1, <4>2
    <3>2. QED
      BY <3>1
  <2>6. ExecInv'
    BY <1>1, <1>3, <2>3, <2>4, <2>5 DEF ExecInv, Invoked
  <2>7. CodeInv'
    <3> SUFFICES ASSUME EocNotPrinted PROVE CodeInv'
      BY DEF CodeInv
    <3>1. ASSUME hpc \in {"execack", "running"}
          PROVE  /\ \A k \in 1 .. Len(tx') : k < Len(tx') - i' => tx'[k] # Eoc
                 /\ \A k \in 1 .. i' : tx'[Len(tx') - i' + k] = ret[k]
      <4>1. /\ \A k \in 1 .. Len(tx) : k < Len(tx) - i => tx[k] # Eoc
            /\ \A k \in 1 .. i : tx[Len(tx) - i + k] = ret[k]
            /\ i < Len(tx)
        BY <1>3, <2>1, <3>1 DEF UartInv, CodeInv
      <4>2. Len(tx') - i' = Len(tx) - i
        BY <1>4, <2>1, <2>3
      <4>3. ASSUME NEW k \in 1 .. i' PROVE tx'[Len(tx') - i' + k] = ret[k]
        <5>1. CASE k = i + 1
          <6>1. Len(tx) - i + k = Len(tx) + 1
            BY <1>4, <2>3, <5>1
          <6>2. QED
            BY <2>3, <4>2, <5>1, <6>1
        <5>2. CASE k \in 1 .. i
          <6>1. Len(tx) - i + k \in 1 .. Len(tx)
            BY <1>4, <2>3, <4>1, <5>2
          <6>2. QED
            BY <2>3, <4>1, <4>2, <5>2, <6>1
        <5>3. k = i + 1 \/ k \in 1 .. i
          BY <1>4, <2>1
        <5>4. QED
          BY <5>1, <5>2, <5>3
      <4>4. ASSUME NEW k \in 1 .. Len(tx'), k < Len(tx') - i'
           PROVE  tx'[k] # Eoc
        <5>1. k \in 1 .. Len(tx) /\ k < Len(tx) - i
          BY <1>4, <2>3, <4>2, <4>4
        <5>2. QED
          BY <2>3, <4>1, <5>1
      <4>5. QED
        BY <4>3, <4>4
    <3>2. ASSUME hpc = "code"
          PROVE  /\ Len(hin) < RetLen /\ Len(hin) + Len(tx') = i'
                 /\ \A k \in 1 .. Len(hin) : hin[k] = ret[k]
                 /\ \A k \in 1 .. Len(tx') : tx'[k] = ret[Len(hin) + k]
      <4>1. /\ Len(hin) < RetLen /\ Len(hin) + Len(tx) = i
            /\ \A k \in 1 .. Len(hin) : hin[k] = ret[k]
            /\ \A k \in 1 .. Len(tx) : tx[k] = ret[Len(hin) + k]
        BY <3>2 DEF UartInv, CodeInv
      <4>2. ASSUME NEW k \in 1 .. Len(tx') PROVE tx'[k] = ret[Len(hin) + k]
        <5>1. CASE k = Len(tx) + 1
          <6>1. Len(hin) + k = i + 1
            <7>1. Len(hin) + Len(tx) = i /\ Len(hin) \in Nat /\ Len(tx) \in Nat
              BY <1>4, <2>3, <4>1
            <7>2. QED
              BY <5>1, <7>1
          <6>2. QED
            BY <2>3, <5>1, <6>1
        <5>2. CASE k \in 1 .. Len(tx)
          BY <2>3, <4>1, <5>2
        <5>3. k = Len(tx) + 1 \/ k \in 1 .. Len(tx)
          BY <2>3
        <5>4. QED
          BY <5>1, <5>2, <5>3
      <4>3. Len(hin) + Len(tx') = i'
        BY <1>4, <2>1, <2>3, <4>1
      <4>4. QED
        BY <4>1, <4>2, <4>3
    <3>3. hpc # "done"
      BY <2>1 DEF UartInv, CodeInv
    <3>4. QED
      BY <1>1, <2>4, <3>1, <3>2, <3>3 DEF CodeInv
  <2>8. QED
    BY <1>1, <1>2, <1>3, <2>6, <2>7, OnlyProgram
<1>7. QED
  BY <1>5, <1>6
-----------------------------------------------------------------------------
(***************************************************************************)
(* The protocol is kept by the steps of the client.                        *)
(***************************************************************************)
LEMMA SendBytes ==
  ASSUME UartInv, Challenge \/ WriteByte \/ \E b \in NoiseByte : Noise(b)
  PROVE  Protocol'
<1>0. TypeOK
  BY DEF UartInv
<1>1. /\ UNCHANGED <<tx, spc, cmd, addr, len, i, mem, ret, hop, hin, ackLost>>
  BY DEF Challenge, WriteByte, Noise, serverVars, hostVars, aux
<1>2. CASE Challenge
  <2>1. hpc = "settle" /\ spc # "init" /\ hpc' = "hello" /\ hout' = <<Ack>> /\ rx' = rx
    BY <1>2 DEF Challenge
  <2>2. hop = NoOp /\ spc = "poll" /\ tx = <<>> /\ rx \in Seq(NoiseByte)
    BY <2>1 DEF UartInv, SettleInv
  <2>3. ret = <<>> /\ ~ackLost
    BY <2>2 DEF UartInv, ExecInv, Invoked
  <2>4. /\ Pending' # <<>> /\ Pending'[Len(Pending')] = Ack
        /\ \A k \in 1 .. Len(Pending') - 1 : Pending'[k] \in NoiseByte
    <3>1. rx \in Seq(Unit) /\ <<Ack>> \in Seq(Unit) /\ Len(<<Ack>>) = 1 /\ <<Ack>>[1] = Ack
      <4>1. rx \in Seq(Unit)
        BY <1>0 DEF TypeOK
      <4>2. Ack \in Unit
        BY Opcodes, Units
      <4>3. <<Ack>> \in Seq(Unit)
        BY <4>2
      <4>4. QED
        BY <4>1, <4>3
    <3>2. Len(rx) \in Nat /\ \A k \in 1 .. Len(rx) : rx[k] \in NoiseByte
      BY <2>2, ElementOfSeq, LenProperties
    <3>3. /\ Len(Pending') = Len(rx) + 1 /\ Pending' # <<>>
          /\ Pending'[Len(rx) + 1] = Ack
          /\ \A k \in 1 .. Len(rx) : Pending'[k] = rx[k]
      <4>1. Pending' = rx \o <<Ack>>
        BY <2>1 DEF Pending
      <4>2. /\ Len(rx \o <<Ack>>) = Len(rx) + 1
            /\ \A k \in 1 .. Len(rx) + 1 :
                 (rx \o <<Ack>>)[k] = IF k <= Len(rx) THEN rx[k] ELSE <<Ack>>[k - Len(rx)]
        BY <3>1, ConcatProperties
      <4>3. rx \o <<Ack>> # <<>>
        BY <3>1, ConcatEqualIffEmpty
      <4>4. QED
        BY <3>1, <3>2, <4>1, <4>2, <4>3
    <3>4. QED
      BY <3>2, <3>3
  <2>5. HelloInv'
    BY <1>1, <2>1, <2>2, <2>4 DEF HelloInv
  <2>6. SettleInv' /\ IdleInv' /\ OpInv' /\ ExecInv' /\ CodeInv' /\ TransferComplete'
    BY <1>1, <2>1, <2>2, <2>3
       DEF SettleInv, IdleInv, OpInv, ExecInv, Invoked, CodeInv, TransferComplete
  <2>7. QED
    BY <2>1, <2>5, <2>6 DEF Protocol
<1>3. CASE WriteByte
  <2>1. Pending' = Pending /\ Pending # <<>> /\ hout # <<>> /\ hpc' = hpc
    BY <1>0, <1>3, SendPending DEF WriteByte
  <2>2. hpc # "settle"
    BY <2>1 DEF UartInv, SettleInv
  <2>3. SettleInv' /\ TransferComplete'
    BY <1>1, <2>1, <2>2 DEF UartInv, SettleInv, TransferComplete
  <2>4. HelloInv' /\ IdleInv'
    BY <1>1, <2>1 DEF UartInv, HelloInv, IdleInv
  <2>5. OpInv'
    BY <1>1, <2>1 DEF UartInv, OpInv, RequestInv, Known, WriteInv,
         Stored, ReadInv, Sent
  <2>6. ExecInv'
    BY <1>1, <2>1 DEF UartInv, ExecInv, Invoked, RequestInv
  <2>7. CodeInv'
    BY <1>1, <2>1 DEF UartInv, CodeInv
  <2>8. QED
    BY <2>3, <2>4, <2>5, <2>6, <2>7 DEF Protocol
<1>4. CASE \E b \in NoiseByte : Noise(b)
  <2>1. PICK b \in NoiseByte : Noise(b)
    BY <1>4
  <2>2. hpc = "settle" /\ hpc' = "settle" /\ hout' = hout /\ rx' = Append(rx, b)
    BY <2>1 DEF Noise, hostVars
  <2>3. SettleInv'
    BY <1>1, <2>2, AppendProperties DEF UartInv, SettleInv
  <2>4. spc \in {"init", "poll"} /\ ret = <<>> /\ ~ackLost
    BY <2>2 DEF UartInv, SettleInv, ExecInv, Invoked
  <2>5. HelloInv' /\ IdleInv' /\ OpInv' /\ ExecInv' /\ CodeInv' /\ TransferComplete'
    BY <1>1, <2>2, <2>4
       DEF HelloInv, IdleInv, OpInv, ExecInv, Invoked, CodeInv, TransferComplete
  <2>6. QED
    BY <2>2, <2>3, <2>5 DEF Protocol
<1>5. QED
  BY <1>2, <1>3, <1>4

\* The server's answer to the client's first ACK.
LEMMA Greeted ==
  ASSUME UartInv, ScoopHello
  PROVE  Protocol'
<1>1. PICK b \in 0 .. 255 : Scoop(b) /\ Expect(b, Ack, "idle")
  BY DEF ScoopHello
<1>2. /\ UNCHANGED <<rx, spc, cmd, addr, len, i, mem, ret, hop, hout, hin, ackLost, Pending>>
      /\ hpc = "hello" /\ tx # <<>> /\ b = Head(tx) /\ tx' = Tail(tx)
  BY <1>1 DEF ScoopHello, Scoop, serverVars, aux, Pending
<1>3. spc = "cmd" /\ Pending = <<>> /\ tx = <<Ack>> /\ hop = NoOp
  BY <1>2 DEF UartInv, HelloInv
<1>4. b = Ack /\ tx' = <<>> /\ hpc' = "idle"
  BY <1>1, <1>2, <1>3, ShortSequences DEF Expect
<1>5. ret = <<>> /\ ~ackLost
  BY <1>3 DEF UartInv, ExecInv, Invoked
<1>6. TransferComplete'
  BY <1>2, <1>3, Opcodes DEF TransferComplete, NoOp
<1>7. SettleInv' /\ HelloInv' /\ IdleInv' /\ OpInv' /\ ExecInv' /\ CodeInv'
  BY <1>2, <1>3, <1>4, <1>5
     DEF SettleInv, HelloInv, IdleInv, OpInv, ExecInv, Invoked, CodeInv
<1>8. QED
  BY <1>4, <1>6, <1>7 DEF Protocol

\* What the server has sent behind its ACK, case by case.
LEMMA SentFacts ==
  ASSUME UartInv, hpc \in {"ack", "data"}, Known, WriteInv, ReadInv
  PROVE  /\ hop \in ReadOps \cup WriteOps /\ hop.kind \in {CmdRead, CmdWrite}
         /\ len \in Nat /\ len = hop.len /\ i \in 0 .. len /\ spc \in {"data", "cmd"}
         /\ Sent \in Seq(0 .. 255)
         /\ hop.kind = CmdRead /\ spc = "data" => Len(Sent) = i
         /\ hop.kind = CmdRead /\ spc = "cmd" =>
              /\ Len(Sent) = len + 1 /\ Sent[len + 1] = Eot
              /\ \A k \in 1 .. len : Sent[k] = mem[hop.addr + k - 1]
         /\ hop.kind = CmdWrite /\ spc = "data" => Sent = <<>>
         /\ hop.kind = CmdWrite /\ spc = "cmd" => Sent = <<Eot>> /\ Stored(len) /\ i = len
<1>1. /\ hop \in ReadOps \cup WriteOps /\ hop.kind \in {CmdRead, CmdWrite}
      /\ Fits(hop.addr, hop.len) /\ hop.addr \in Nat /\ hop.len \in Nat
  BY Commands, Units DEF UartInv, OpInv
<1>2. len = hop.len
  BY DEF Known
<1>3. /\ i <= len /\ spc \in {"data", "cmd"} /\ (spc = "cmd" => i = len)
      /\ hop.kind = CmdWrite /\ spc = "cmd" => Stored(len)
  <2>1. CASE hop.kind = CmdWrite
    <3>1. (spc = "data" /\ i <= len) \/ (spc = "cmd" /\ i = len /\ Stored(len))
      BY <2>1 DEF WriteInv
    <3>2. i <= len
      BY <1>1, <1>2, <3>1
    <3>3. QED
      BY <3>1, <3>2
  <2>2. CASE hop.kind = CmdRead
    <3>1. (spc = "data" /\ i <= len) \/ (spc = "cmd" /\ i = len)
      BY <2>2 DEF ReadInv
    <3>2. i <= len
      BY <1>1, <1>2, <3>1
    <3>3. QED
      BY <2>2, <3>1, <3>2, Opcodes
  <2>3. QED
    BY <1>1, <2>1, <2>2
<1>4. i \in 0 .. len
  <2>1. i \in Nat
    BY Bounds DEF UartInv, TypeOK
  <2>2. QED
    BY <1>1, <1>2, <1>3, <2>1
<1> DEFINE s == Block(mem, hop.addr, i)
<1>5. /\ s \in Seq(0 .. 255) /\ Len(s) = i
      /\ \A k \in 1 .. i : s[k] = mem[hop.addr + k - 1]
  <2>1. \A k \in 0 .. i - 1 : hop.addr + k \in Addr
    BY <1>1, <1>2, <1>4 DEF Fits
  <2>2. mem \in [Addr -> Data]
    BY DEF UartInv, TypeOK
  <2>3. i \in Nat
    BY <1>1, <1>2, <1>4
  <2>4. QED
    BY ZenonT(40), <1>1, <2>1, <2>2, <2>3, BlockFacts
<1>6. Sent = (IF hop.kind = CmdRead
              THEN IF spc = "data" THEN s ELSE Append(s, Eot)
              ELSE IF spc = "data" THEN <<>> ELSE Append(<<>>, Eot))
  BY DEF Sent
<1> HIDE DEF s
<1>7. /\ Append(s, Eot) \in Seq(0 .. 255) /\ Len(Append(s, Eot)) = i + 1
      /\ Append(s, Eot)[i + 1] = Eot
      /\ \A k \in 1 .. i : Append(s, Eot)[k] = s[k]
  BY <1>5, Opcodes, AppendProperties
<1>8. Append(<<>>, Eot) = <<Eot>> /\ <<Eot>> \in Seq(0 .. 255) /\ <<>> \in Seq(0 .. 255)
  BY Opcodes, ShortSequences, EmptySeq
<1>9. CASE hop.kind = CmdRead
  <2>1. CASE spc = "data"
    <3>1. Sent = s
      BY <1>6, <1>9, <2>1
    <3>2. QED
      BY <1>1, <1>2, <1>4, <1>5, <1>9, <2>1, <3>1, Opcodes
  <2>2. CASE spc = "cmd"
    <3>1. Sent = Append(s, Eot) /\ i = len
      BY <1>3, <1>6, <1>9, <2>2
    <3>2. QED
      BY <1>1, <1>2, <1>4, <1>5, <1>7, <1>9, <2>2, <3>1, Opcodes
  <2>3. QED
    BY <1>3, <2>1, <2>2
<1>10. CASE hop.kind = CmdWrite
  <2>1. Sent = IF spc = "data" THEN <<>> ELSE <<Eot>>
    BY <1>6, <1>8, <1>10, Opcodes
  <2>2. QED
    BY <1>1, <1>2, <1>3, <1>4, <1>8, <1>10, <2>1, Opcodes
<1>11. QED
  BY <1>1, <1>9, <1>10

\* The ACK of a command, and the data of a write behind it.
LEMMA Acknowledged ==
  ASSUME UartInv, ScoopAck
  PROVE  Protocol'
<1>1. PICK b \in 0 .. 255 : Scoop(b) /\ Expect(b, Ack, "data")
  BY DEF ScoopAck
<1>2. /\ UNCHANGED <<rx, spc, cmd, addr, len, i, mem, ret, hop, hin, ackLost>>
      /\ hpc = "ack" /\ tx # <<>> /\ b = Head(tx) /\ tx' = Tail(tx)
      /\ hout = <<>> /\ hout' = hop.data
  BY <1>1 DEF ScoopAck, Scoop, serverVars, aux
<1>3. /\ Known /\ WriteInv /\ ReadInv /\ tx = <<Ack>> \o Sent /\ hin = <<>>
      /\ hop \in ReadOps \cup WriteOps /\ Fits(hop.addr, hop.len)
  BY <1>2 DEF UartInv, OpInv
<1>4. /\ hop.kind \in {CmdRead, CmdWrite} /\ len \in Nat /\ len = hop.len
      /\ spc \in {"data", "cmd"} /\ Sent \in Seq(0 .. 255)
      /\ i = len \/ spc = "data"
  BY <1>2, <1>3, SentFacts DEF WriteInv, ReadInv
<1>5. b = Ack /\ tx' = Sent /\ hpc' = "data"
  <2>1. <<Ack>> \in Seq(0 .. 255) /\ <<Ack>> # <<>>
    BY Opcodes
  <2>2. Head(tx) = Head(<<Ack>>) /\ Tail(tx) = Tail(<<Ack>>) \o Sent
    BY <1>3, <1>4, <2>1, TakeFirst
  <2>3. Tail(<<Ack>>) \o Sent = Sent
    BY <1>4, ShortSequences, ConcatEmptySeq
  <2>4. QED
    BY <1>1, <1>2, <2>2, <2>3, ShortSequences DEF Expect
<1>6. Pending = <<>>
  BY <1>2, <1>4 DEF UartInv, OpInv, WriteInv, ReadInv, RequestInv, Known
<1>7. /\ hop.data \in Seq(Data) /\ (hop.kind = CmdWrite => Len(hop.data) = len)
      /\ hop.kind = CmdRead => hop.data = <<>>
  BY <1>3, <1>4, Commands
<1>8. Pending' = hop.data
  <2>1. rx = <<>>
    BY <1>6, NothingPending DEF UartInv
  <2>2. QED
    BY <1>2, <1>7, <2>1, ConcatEmptySeq DEF Pending
<1>9. Known' /\ Sent' = Sent
  BY <1>2, <1>3 DEF Known, Sent
<1>10. WriteInv'
  <2>1. ASSUME hop.kind = CmdWrite
        PROVE  /\ i = 0 /\ hop.data = SubSeq(hop.data, 1, len)
               /\ len = 0 => hop.data = <<>>
               /\ \/ spc = "data" /\ i <= len /\ Stored(i)
                  \/ spc = "cmd" /\ i = len /\ Stored(len)
    <3>1. SubSeq(hop.data, 1, len) = hop.data
      BY <1>7, <2>1, SubSeqFull
    <3>2. len = 0 => hop.data = <<>>
      BY <1>7, <2>1, EmptySeq
    <3>3. QED
      BY <1>2, <1>3, <2>1, <3>1, <3>2 DEF WriteInv
  <2>2. Stored(i)' <=> Stored(i)
    BY <1>2 DEF Stored
  <2>3. Stored(len)' <=> Stored(len)
    BY <1>2 DEF Stored
  <2>4. QED
    BY <1>2, <1>4, <1>5, <1>8, <2>1, <2>2, <2>3 DEF WriteInv
<1>11. ReadInv'
  BY <1>2, <1>3, <1>7, <1>8 DEF ReadInv
<1>12. OpInv'
  <2>1. hin \o Sent = Sent
    BY <1>3, <1>4, ConcatEmptySeq
  <2>2. QED
    BY <1>2, <1>3, <1>5, <1>9, <1>10, <1>11, <2>1 DEF OpInv
<1>13. ret = <<>> /\ ~ackLost'
  BY <1>2, <1>4 DEF UartInv, ExecInv, Invoked
<1>14. QED
  BY <1>2, <1>4, <1>5, <1>12, <1>13, OnlyOp

\* The data of a read and the EOT of a read or a write.
LEMMA TakeData ==
  ASSUME UartInv, ScoopData
  PROVE  Protocol'
<1>0. TypeOK
  BY DEF UartInv
<1>1. PICK b \in 0 .. 255 :
        /\ Scoop(b)
        /\ IF hop.kind = CmdRead /\ Len(hin) < hop.len
           THEN hin' = Append(hin, b) /\ hpc' = hpc
           ELSE hin' = hin /\ Expect(b, Eot, "idle")
  BY DEF ScoopData
<1>2. /\ UNCHANGED <<rx, spc, cmd, addr, len, i, mem, ret, hop, hout, ackLost, Pending>>
      /\ hpc = "data" /\ hout = <<>>
  BY <1>1 DEF ScoopData, Scoop, serverVars, aux, Pending
<1>3. /\ Known /\ WriteInv /\ ReadInv /\ hin \o tx = Sent
      /\ hop.kind = CmdWrite => hin = <<>>
      /\ hop \in ReadOps \cup WriteOps /\ Fits(hop.addr, hop.len)
  BY <1>2 DEF UartInv, OpInv
<1>4. /\ hop.kind \in {CmdRead, CmdWrite} /\ len \in Nat /\ len = hop.len /\ i \in 0 .. len
      /\ spc \in {"data", "cmd"} /\ Sent \in Seq(0 .. 255)
      /\ hop.kind = CmdRead /\ spc = "data" => Len(Sent) = i
      /\ hop.kind = CmdRead /\ spc = "cmd" =>
           /\ Len(Sent) = len + 1 /\ Sent[len + 1] = Eot
           /\ \A k \in 1 .. len : Sent[k] = mem[hop.addr + k - 1]
      /\ hop.kind = CmdWrite /\ spc = "data" => Sent = <<>>
      /\ hop.kind = CmdWrite /\ spc = "cmd" => Sent = <<Eot>> /\ Stored(len) /\ i = len
  BY <1>2, <1>3, SentFacts
<1>5. /\ tx \in Seq(0 .. 255) /\ hin \in Seq(0 .. 255) /\ tx # <<>>
      /\ Len(tx) \in Nat \ {0} /\ Len(tx') = Len(tx) - 1 /\ tx' \in Seq(0 .. 255)
      /\ b = tx[1] /\ b = Head(tx) /\ tx' = Tail(tx)
      /\ Append(hin, b) \o tx' = hin \o tx
      /\ Len(Append(hin, b)) = Len(hin) + 1 /\ Len(hin) \in Nat
  BY ZenonT(40), <1>0, <1>1, TakeLine DEF TypeOK
<1>6. ret = <<>> /\ ~ackLost'
  BY <1>2, <1>4 DEF UartInv, ExecInv, Invoked
<1>7. Known' /\ Sent' = Sent /\ WriteInv'
  <2>1. hpc' # "ack"
    BY <1>1, <1>2 DEF Expect
  <2>2. Known' /\ Sent' = Sent
    BY <1>2, <1>3 DEF Known, Sent
  <2>3. WriteInv'
    <3>1. CASE hop.kind = CmdWrite
      <4>1. CASE spc = "data"
        <5>1. Sent = <<>> /\ hin = <<>>
          BY <1>3, <1>4, <3>1, <4>1
        <5>2. hin \o tx = tx
          BY <1>5, <5>1, ConcatEmptySeq
        <5>3. QED
          BY <1>3, <1>5, <5>1, <5>2
      <4>2. CASE spc = "cmd"
        <5>1. i = len /\ Stored(len) /\ Pending = <<>>
          BY <1>3, <3>1, <4>2 DEF WriteInv
        <5>2. QED
          BY <1>2, <2>1, <3>1, <4>2, <5>1 DEF WriteInv, Stored
      <4>3. QED
        BY <1>4, <4>1, <4>2
    <3>2. CASE hop.kind # CmdWrite
      BY <1>2, <3>2 DEF WriteInv
    <3>3. QED
      BY <3>1, <3>2
  <2>4. QED
    BY <2>2, <2>3
<1>8. CASE hop.kind = CmdRead /\ Len(hin) < hop.len
  <2>1. hin' = Append(hin, b) /\ hpc' = "data"
    BY <1>1, <1>2, <1>8
  <2>2. ReadInv'
    BY <1>2, <1>3, <1>4, <1>5, <1>8, <2>1 DEF ReadInv
  <2>3. OpInv'
    BY <1>2, <1>3, <1>5, <1>7, <1>8, <2>1, <2>2, Opcodes DEF OpInv
  <2>4. QED
    BY <1>2, <1>4, <1>6, <2>1, <2>3, OnlyOp
<1>9. CASE hop.kind = CmdRead /\ ~(Len(hin) < hop.len)
  <2>1. Len(hin) = len /\ Pending = <<>>
    BY <1>3, <1>4, <1>5, <1>9 DEF ReadInv
  <2>2. /\ Len(Sent) = Len(hin) + Len(tx)
        /\ \A k \in 1 .. Len(hin) : Sent[k] = hin[k]
        /\ Sent[Len(hin) + 1] = tx[1]
    <3>1. /\ Len(hin \o tx) = Len(hin) + Len(tx)
          /\ \A k \in 1 .. Len(hin) + Len(tx) :
               (hin \o tx)[k] = IF k <= Len(hin) THEN hin[k] ELSE tx[k - Len(hin)]
      BY <1>5, ConcatProperties
    <3>2. QED
      BY <1>3, <1>5, <3>1
  <2>3. spc = "cmd"
    BY <1>4, <1>5, <1>9, <2>1, <2>2
  <2>4. /\ Len(tx) = 1 /\ b = Eot
        /\ \A k \in 1 .. len : hin[k] = mem[hop.addr + k - 1]
    BY <1>4, <1>5, <1>9, <2>1, <2>2, <2>3
  <2>5. tx' = <<>> /\ hin' = hin /\ hpc' = "idle"
    BY <1>1, <1>5, <1>9, <2>4, EmptySeq DEF Expect
  <2>6. TransferComplete'
    BY <1>2, <1>4, <1>9, <2>1, <2>4, <2>5, Opcodes DEF TransferComplete
  <2>7. SettleInv' /\ HelloInv' /\ IdleInv' /\ OpInv' /\ ExecInv' /\ CodeInv'
    BY <1>2, <1>6, <2>1, <2>3, <2>5
       DEF SettleInv, HelloInv, IdleInv, OpInv, ExecInv, Invoked, CodeInv
  <2>8. QED
    BY <2>5, <2>6, <2>7 DEF Protocol
<1>10. CASE hop.kind = CmdWrite
  <2>1. tx = Sent
    <3>1. hin \o tx = tx
      BY <1>3, <1>5, <1>10, ConcatEmptySeq
    <3>2. QED
      BY <1>3, <3>1
  <2>2. spc = "cmd" /\ tx = <<Eot>> /\ Stored(len) /\ i = len
    BY <1>4, <1>5, <1>10, <2>1
  <2>3. b = Eot /\ tx' = <<>>
    BY <1>5, <2>2, ShortSequences
  <2>4. hin' = hin /\ hpc' = "idle"
    BY <1>1, <1>10, <2>3, Opcodes DEF Expect
  <2>5. Pending = <<>>
    BY <1>3, <1>10, <2>2 DEF WriteInv
  <2>6. TransferComplete'
    BY <1>2, <1>4, <1>10, <2>2, Opcodes DEF TransferComplete, Stored
  <2>7. SettleInv' /\ HelloInv' /\ IdleInv' /\ OpInv' /\ ExecInv' /\ CodeInv'
    BY <1>2, <1>6, <2>2, <2>3, <2>4, <2>5
       DEF SettleInv, HelloInv, IdleInv, OpInv, ExecInv, Invoked, CodeInv
  <2>8. QED
    BY <2>4, <2>6, <2>7 DEF Protocol
<1>11. QED
  BY <1>4, <1>8, <1>9, <1>10

\* A byte before EOC.
LEMMA TakeOutput ==
  ASSUME UartInv, Invoked, hpc \in {"execack", "running"},
         hpc' = "running" \/ (hpc' = "fatal" /\ ackLost),
         NEW b \in 0 .. 255, Scoop(b), b # Eoc, hout' = hout, hin' = hin
  PROVE  Protocol'
<1>0. TypeOK
  BY DEF UartInv
<1>1. UNCHANGED <<rx, spc, i, ret, hop, ackLost, Pending>>
  BY DEF Scoop, serverVars, aux, Pending
<1>2. /\ Len(tx) \in Nat \ {0} /\ Len(tx') = Len(tx) - 1 /\ b = tx[1]
      /\ \A n \in 1 .. Len(tx') : tx'[n] = tx[n + 1]
  BY <1>0, TakeLine
<1>3. i \in Nat
  BY <1>0, Bounds DEF TypeOK
<1>4. spc \in {"ret", "exit"} => i < Len(tx') /\ tx'[Len(tx') - i] = Eoc
  <2>1. ASSUME spc \in {"ret", "exit"}
       PROVE  i < Len(tx') /\ tx'[Len(tx') - i] = Eoc
    <3>1. i < Len(tx) /\ tx[Len(tx) - i] = Eoc
      BY <2>1, InvokedFacts
    <3>2. Len(tx) - i # 1
      BY <1>2, <3>1
    <3>3. /\ i < Len(tx') /\ Len(tx') - i \in 1 .. Len(tx')
          /\ (Len(tx') - i) + 1 = Len(tx) - i
      BY <1>2, <1>3, <3>1, <3>2
    <3>4. QED
      BY <1>2, <3>1, <3>3
  <2>2. QED
    BY <2>1
<1>5. ExecInv'
  BY <1>1, <1>4, InvokedFacts DEF UartInv, ExecInv, Invoked
<1>6. CodeInv'
  <2> SUFFICES ASSUME EocNotPrinted PROVE CodeInv'
    BY DEF CodeInv
  <2>1. ASSUME spc \in {"invoke", "run", "eoc"}
        PROVE  \A k \in 1 .. Len(tx') : tx'[k] # Eoc
    <3>1. \A k \in 1 .. Len(tx) : tx[k] # Eoc
      BY <2>1 DEF UartInv, CodeInv
    <3>2. \A k \in 1 .. Len(tx') : k + 1 \in 1 .. Len(tx)
      BY <1>2
    <3>3. QED
      BY <1>2, <3>1, <3>2
  <2>2. ASSUME spc \in {"ret", "exit"}
        PROVE  /\ \A k \in 1 .. Len(tx') : k < Len(tx') - i => tx'[k] # Eoc
               /\ \A k \in 1 .. i : tx'[Len(tx') - i + k] = ret[k]
    <3>1. /\ \A k \in 1 .. Len(tx) : k < Len(tx) - i => tx[k] # Eoc
          /\ \A k \in 1 .. i : tx[Len(tx) - i + k] = ret[k]
          /\ i < Len(tx')
      BY <1>4, <2>2 DEF UartInv, CodeInv
    <3>2. ASSUME NEW k \in 1 .. Len(tx'), k < Len(tx') - i PROVE tx'[k] # Eoc
      <4>1. k + 1 \in 1 .. Len(tx) /\ k + 1 < Len(tx) - i
        BY <1>2, <1>3, <3>2
      <4>2. QED
        BY <1>2, <3>1, <4>1
    <3>3. ASSUME NEW k \in 1 .. i PROVE tx'[Len(tx') - i + k] = ret[k]
      <4>1. /\ Len(tx') - i + k \in 1 .. Len(tx')
            /\ (Len(tx') - i + k) + 1 = Len(tx) - i + k
        BY <1>2, <1>3, <3>1
      <4>2. QED
        BY <1>2, <3>1, <4>1
    <3>4. QED
      BY <3>2, <3>3
  <2>3. QED
    BY <1>1, <2>1, <2>2 DEF CodeInv
<1>7. QED
  BY <1>5, <1>6, OnlyProgram

LEMMA TakeExecAck ==
  ASSUME UartInv, ScoopExecAck
  PROVE  Protocol'
<1>1. PICK b \in 0 .. 255 : Scoop(b) /\ Expect(b, Ack, "running")
  BY DEF ScoopExecAck
<1>2. hpc = "execack" /\ hout' = hout /\ hin' = hin /\ tx # <<>> /\ b = Head(tx)
  BY <1>1 DEF ScoopExecAck, Scoop
<1>3. Invoked
  BY <1>2 DEF UartInv, ExecInv
<1>4. b = Ack => b # Eoc /\ hpc' = "running"
  BY <1>1, Opcodes DEF Expect
<1>5. b # Ack => hpc' = "fatal" /\ ackLost
  BY <1>1, <1>2, <1>3, InvokedFacts DEF Expect
<1>6. CASE b # Eoc
  BY <1>1, <1>2, <1>3, <1>4, <1>5, <1>6, TakeOutput
<1>7. CASE b = Eoc
  <2>1. hpc' = "fatal" /\ ackLost
    BY <1>4, <1>5, <1>7
  <2>2. UNCHANGED <<rx, spc, i, ret, hop, ackLost, Pending>>
    BY <1>1, <1>2 DEF Scoop, serverVars, aux, Pending
  <2>3. ExecInv'
    BY <1>2, <1>3, <2>1, <2>2, InvokedFacts DEF UartInv, ExecInv, Invoked
  <2>4. CodeInv'
    BY <2>1 DEF CodeInv
  <2>5. QED
    BY <1>3, <2>1, <2>3, <2>4, OnlyProgram
<1>8. QED
  BY <1>6, <1>7

\* What the program prints, until the first EOC.
LEMMA TakePrinted ==
  ASSUME UartInv, Console
  PROVE  Protocol'
<1>0. TypeOK
  BY DEF UartInv
<1>1. PICK b \in 0 .. 255 : Scoop(b) /\ hpc' = IF b = Eoc THEN "code" ELSE hpc
  BY DEF Console
<1>2. hpc = "running" /\ hout' = hout /\ hin' = hin
  BY DEF Console
<1>3. Invoked
  BY <1>2 DEF UartInv, ExecInv
<1>4. CASE b # Eoc
  BY <1>1, <1>2, <1>3, <1>4, TakeOutput
<1>5. CASE b = Eoc
  <2>1. hpc' = "code" /\ UNCHANGED <<rx, spc, i, ret, hop, ackLost, Pending>>
    BY <1>1, <1>2, <1>5 DEF Scoop, serverVars, aux, Pending
  <2>2. /\ Len(tx) \in Nat \ {0} /\ Len(tx') = Len(tx) - 1 /\ tx[1] = Eoc
        /\ \A n \in 1 .. Len(tx') : tx'[n] = tx[n + 1]
    BY <1>0, <1>1, <1>5, TakeLine
  <2>3. i \in Nat /\ RetLen \in Nat \ {0}
    BY <1>0, Bounds DEF TypeOK
  <2>4. ExecInv'
    BY <1>2, <1>3, <2>1, InvokedFacts DEF UartInv, ExecInv, Invoked
  <2>5. CodeInv'
    <3> SUFFICES ASSUME EocNotPrinted PROVE CodeInv'
      BY DEF CodeInv
    <3>1. spc \in {"ret", "exit"}
      <4>1. 1 \in 1 .. Len(tx)
        BY <2>2
      <4>2. spc \notin {"invoke", "run", "eoc"}
        BY <1>2, <2>2, <4>1 DEF UartInv, CodeInv
      <4>3. QED
        BY <1>3, <4>2 DEF Invoked
    <3>2. /\ \A k \in 1 .. Len(tx) : k < Len(tx) - i => tx[k] # Eoc
          /\ \A k \in 1 .. i : tx[Len(tx) - i + k] = ret[k]
      BY <1>2, <3>1 DEF UartInv, CodeInv
    <3>3. i < Len(tx)
      BY <1>2, <1>3, <3>1, InvokedFacts
    <3>4. Len(tx) - i = 1
      <4>1. 1 \in 1 .. Len(tx)
        BY <2>2
      <4>2. ~(1 < Len(tx) - i)
        BY <2>2, <3>2, <4>1
      <4>3. QED
        BY <2>2, <2>3, <3>3, <4>2
    <3>5. Len(tx') = i /\ hin = <<>> /\ Len(hin) = 0
      BY <1>2, <1>3, <2>2, <2>3, <3>4, InvokedFacts
    <3>6. ASSUME NEW k \in 1 .. Len(tx') PROVE tx'[k] = ret[0 + k]
      <4>1. tx'[k] = tx[k + 1]
        BY <2>2
      <4>2. k + 1 = Len(tx) - i + k /\ 0 + k = k
        BY <2>2, <2>3, <3>4
      <4>3. k \in 1 .. i
        BY <3>5
      <4>4. QED
        BY <3>2, <4>1, <4>2, <4>3
    <3>7. 0 < RetLen /\ 0 + Len(tx') = i
      BY <2>3, <3>5
    <3>8. QED
      BY <1>2, <2>1, <3>1, <3>5, <3>6, <3>7 DEF CodeInv
  <2>6. QED
    BY <1>3, <2>1, <2>4, <2>5, OnlyProgram
<1>6. QED
  BY <1>4, <1>5

\* The bytes of the code.
LEMMA TakeCode ==
  ASSUME UartInv, ScoopCode
  PROVE  Protocol'
<1>0. TypeOK
  BY DEF UartInv
<1>1. PICK b \in 0 .. 255 : Scoop(b) /\ hin' = Append(hin, b)
  BY DEF ScoopCode
<1>2. /\ hpc = "code" /\ hpc' = (IF Len(hin) + 1 = RetLen THEN "done" ELSE "code")
      /\ UNCHANGED <<rx, spc, i, ret, hop, hout, ackLost, Pending>>
  BY <1>1 DEF ScoopCode, Scoop, serverVars, aux, Pending
<1>3. Invoked
  BY <1>2 DEF UartInv, ExecInv
<1>4. /\ Len(tx) \in Nat \ {0} /\ Len(tx') = Len(tx) - 1 /\ b = tx[1]
      /\ tx' \in Seq(0 .. 255)
      /\ \A n \in 1 .. Len(tx') : tx'[n] = tx[n + 1]
      /\ hin' \in Seq(0 .. 255) /\ Len(hin) \in Nat /\ Len(hin') = Len(hin) + 1
      /\ \A n \in 1 .. Len(hin) : hin'[n] = hin[n]
      /\ hin'[Len(hin) + 1] = b
  BY <1>0, <1>1, TakeLine
<1>5. i \in Nat /\ RetLen \in Nat \ {0}
  BY <1>0, Bounds DEF TypeOK
<1>6. ExecInv'
  BY <1>2, <1>3, InvokedFacts DEF UartInv, ExecInv, Invoked
<1>7. CodeInv'
  <2> SUFFICES ASSUME EocNotPrinted PROVE CodeInv'
    BY DEF CodeInv
  <2>1. /\ spc \in {"ret", "exit"} /\ Len(hin) < RetLen /\ Len(hin) + Len(tx) = i
        /\ \A k \in 1 .. Len(hin) : hin[k] = ret[k]
        /\ \A k \in 1 .. Len(tx) : tx[k] = ret[Len(hin) + k]
    BY <1>2 DEF UartInv, CodeInv
  <2>2. ASSUME NEW k \in 1 .. Len(hin') PROVE hin'[k] = ret[k]
    <3>1. CASE k \in 1 .. Len(hin)
      BY <1>4, <2>1, <3>1
    <3>2. CASE k = Len(hin) + 1
      <4>1. 1 \in 1 .. Len(tx)
        BY <1>4
      <4>2. QED
        BY <1>4, <2>1, <3>2, <4>1
    <3>3. k \in 1 .. Len(hin) \/ k = Len(hin) + 1
      BY <1>4
    <3>4. QED
      BY <3>1, <3>2, <3>3
  <2>3. ASSUME NEW k \in 1 .. Len(tx') PROVE tx'[k] = ret[Len(hin') + k]
    <3>1. k + 1 \in 1 .. Len(tx) /\ Len(hin) + (k + 1) = Len(hin') + k
      BY <1>4
    <3>2. QED
      BY <1>4, <2>1, <3>1
  <2>4. CASE Len(hin) + 1 = RetLen
    <3>1. spc = "exit" /\ i = RetLen
      <4>1. (spc = "ret" => i < RetLen) /\ (spc = "exit" => i = RetLen)
        BY DEF UartInv, ExecInv
      <4>2. QED
        BY <1>4, <1>5, <2>1, <2>4, <4>1
    <3>2. Len(tx') = 0
      BY <1>4, <2>1, <2>4, <3>1
    <3>3. tx' = <<>>
      BY <1>4, <3>2, EmptySeq
    <3>4. hin' = ret
      <4>1. ret \in [1 .. RetLen -> Data]
        BY <1>3, <2>1, InvokedFacts
      <4>2. ret \in Seq(Data) /\ Len(ret) = RetLen
        BY <1>5, <4>1
      <4>3. ret \in Seq(0 .. 255)
        <5>1. Data \subseteq 0 .. 255
          BY Units
        <5>2. ret \in [1 .. RetLen -> 0 .. 255]
          BY <4>1, <5>1
        <5>3. QED
          BY <1>5, <5>2
      <4>4. QED
        BY <1>4, <2>2, <2>4, <4>2, <4>3, SeqEqual
    <3>5. QED
      BY <1>2, <2>4, <3>1, <3>3, <3>4 DEF CodeInv
  <2>5. CASE Len(hin) + 1 # RetLen
    <3>1. Len(hin') < RetLen
      BY <1>4, <1>5, <2>1, <2>5
    <3>2. Len(hin') + Len(tx') = i
      BY <1>4, <2>1
    <3>3. QED
      BY <1>2, <2>1, <2>2, <2>3, <2>5, <3>1, <3>2 DEF CodeInv
  <2>6. QED
    BY <2>4, <2>5
<1>8. QED
  BY <1>2, <1>3, <1>6, <1>7, OnlyProgram

\* A new command, and the invocation of a program.
LEMMA StartCommand ==
  ASSUME UartInv, \/ \E op \in ReadOps \cup WriteOps : StartOp(op)
                  \/ \E op \in ExecOps : StartExec(op)
  PROVE  Protocol'
<1>0. TypeOK
  BY DEF UartInv
<1>1. /\ UNCHANGED <<rx, tx, spc, cmd, addr, len, i, mem, ret, ackLost>>
      /\ hpc = "idle" /\ hin' = <<>>
  BY DEF StartOp, StartExec, serverVars, aux
<1>2. spc = "cmd" /\ Pending = <<>> /\ tx = <<>>
  BY <1>1 DEF UartInv, IdleInv
<1>3. rx = <<>> /\ ret = <<>> /\ ~ackLost
  BY <1>0, <1>2, NothingPending DEF UartInv, ExecInv, Invoked
<1>4. CASE \E op \in ReadOps \cup WriteOps : StartOp(op)
  <2>1. PICK op \in ReadOps \cup WriteOps : StartOp(op)
    BY <1>4
  <2>2. /\ hpc' = "ack" /\ hop' = op /\ hout' = <<op.kind, op.addr, op.len>>
        /\ Fits(op.addr, op.len)
    BY <2>1 DEF StartOp
  <2>3. Pending' = <<op.kind, op.addr, op.len>>
    BY <1>1, <1>3, <2>2 DEF Pending
  <2>4. op.kind # CmdExec
    BY Commands, Opcodes
  <2>5. RequestInv'
    BY <1>1, <1>2, <2>2, <2>3, <2>4 DEF RequestInv
  <2>6. OpInv'
    BY <1>1, <1>2, <2>2, <2>5 DEF OpInv
  <2>7. SettleInv' /\ HelloInv' /\ IdleInv' /\ ExecInv' /\ CodeInv' /\ TransferComplete'
    BY <1>1, <1>2, <1>3, <2>2
       DEF SettleInv, HelloInv, IdleInv, ExecInv, Invoked, CodeInv, TransferComplete
  <2>8. QED
    BY <2>2, <2>6, <2>7 DEF Protocol
<1>5. CASE \E op \in ExecOps : StartExec(op)
  <2>1. PICK op \in ExecOps : StartExec(op)
    BY <1>5
  <2>2. hpc' = "execack" /\ hop' = op /\ hout' = <<op.kind, op.addr>> /\ op.kind = CmdExec
    BY <2>1, Executions DEF StartExec
  <2>3. Pending' = <<CmdExec, op.addr>>
    BY <1>1, <1>3, <2>2 DEF Pending
  <2>4. RequestInv'
    BY <1>1, <1>2, <2>2, <2>3 DEF RequestInv
  <2>5. ExecInv'
    BY <1>1, <1>2, <1>3, <2>2, <2>4 DEF ExecInv, Invoked
  <2>6. SettleInv' /\ HelloInv' /\ IdleInv' /\ OpInv' /\ CodeInv' /\ TransferComplete'
    BY <1>1, <1>2, <2>2
       DEF SettleInv, HelloInv, IdleInv, OpInv, CodeInv, TransferComplete
  <2>7. QED
    BY <2>2, <2>5, <2>6 DEF Protocol
<1>6. QED
  BY <1>4, <1>5

LEMMA TypeStart ==
  ASSUME UartInv, \/ \E op \in ReadOps \cup WriteOps : StartOp(op)
                  \/ \E op \in ExecOps : StartExec(op)
                  \/ \E b \in NoiseByte : Noise(b)
  PROVE  TypeOK'
<1>0. TypeOK
  BY DEF UartInv
<1>1. MaxOps \in Nat /\ MaxNoise \in Nat /\ RxDepth \in Nat
  BY UartAssumption DEF UartAssumption
<1>2. CASE \E op \in ReadOps \cup WriteOps : StartOp(op)
  <2>1. PICK op \in ReadOps \cup WriteOps : StartOp(op)
    BY <1>2
  <2>2. op.kind \in Unit /\ op.addr \in Unit /\ op.len \in Unit
    <3>1. op.kind \in 0 .. 255 /\ op.addr \in Addr /\ op.len \in 0 .. MaxLen
      BY ZenonT(40), Commands, Opcodes
    <3>2. QED
      BY <3>1, Units
  <2>3. <<op.kind, op.addr, op.len>> \in Seq(Unit) /\ <<>> \in Seq(0 .. 255)
    BY <2>2, EmptySeq
  <2>4. ops + 1 \in 0 .. MaxOps
    BY <1>0, <1>1, <2>1 DEF TypeOK, StartOp
  <2>5. QED
    BY <1>0, <2>1, <2>3, <2>4 DEF TypeOK, StartOp, serverVars
<1>3. CASE \E op \in ExecOps : StartExec(op)
  <2>1. PICK op \in ExecOps : StartExec(op)
    BY <1>3
  <2>2. op.kind \in Unit /\ op.addr \in Unit
    BY Executions, Opcodes, Units
  <2>3. <<op.kind, op.addr>> \in Seq(Unit) /\ <<>> \in Seq(0 .. 255)
    BY <2>2, EmptySeq
  <2>4. QED
    BY <1>0, <2>1, <2>3 DEF TypeOK, StartExec, serverVars, aux
<1>4. CASE \E b \in NoiseByte : Noise(b)
  <2>1. PICK b \in NoiseByte : Noise(b)
    BY <1>4
  <2>2. b \in Unit
    <3>1. b \in 0 .. 255
      BY Units
    <3>2. QED
      BY <3>1, Units
  <2>3. rx' \in Seq(Unit) /\ Len(rx') <= RxDepth
    <3>1. rx \in Seq(Unit) /\ Len(rx) < RxDepth /\ rx' = Append(rx, b)
      BY <1>0, <2>1 DEF TypeOK, Noise
    <3>2. rx' \in Seq(Unit) /\ Len(rx') = Len(rx) + 1 /\ Len(rx) \in Nat
      BY <2>2, <3>1, AppendProperties, LenProperties
    <3>3. QED
      BY <1>1, <3>1, <3>2
  <2>4. noise + 1 \in 0 .. MaxNoise
    BY <1>0, <1>1, <2>1 DEF TypeOK, Noise
  <2>5. QED
    BY <1>0, <2>1, <2>3, <2>4 DEF TypeOK, Noise, serverVars, hostVars
<1>5. QED
  BY <1>2, <1>3, <1>4
-----------------------------------------------------------------------------
(***************************************************************************)
(* The theorems.                                                           *)
(***************************************************************************)
LEMMA InitInv ==
  ASSUME Init
  PROVE  UartInv
<1>1. TypeOK
  <2>1. /\ <<>> \in Seq(Unit) /\ <<>> \in Seq(0 .. 255) /\ Len(<<>>) = 0
        /\ 0 <= RxDepth /\ 0 <= TxDepth /\ 0 \in 0 .. RetLen
    BY Bounds, EmptySeq
  <2>2. 0 \in 0 .. MaxOps /\ 0 \in 0 .. MaxPrint /\ 0 \in 0 .. MaxNoise
    BY UartAssumption DEF UartAssumption
  <2>3. QED
    BY <2>1, <2>2, Bounds, Units DEF Init, TypeOK
<1>2. SettleInv
  BY EmptySeq DEF Init, SettleInv
<1>3. /\ TransferComplete
      /\ HelloInv /\ IdleInv /\ OpInv /\ ExecInv /\ CodeInv
  BY DEF Init, TransferComplete, HelloInv, IdleInv, OpInv, ExecInv,
       Invoked, CodeInv
<1>4. QED
  BY <1>1, <1>2, <1>3 DEF UartInv

LEMMA StepInv ==
  ASSUME UartInv, [Next]_vars
  PROVE  UartInv'
<1>1. CASE Server
  <2>1. TypeOK'
    BY <1>1, TypeServer
  <2>2. Protocol'
    BY <1>1, StartUp, ReadRequest, Acknowledge, ReadByte, WrittenByte,
         EndOfTransfer,
       RunProgram, ReportCode DEF Server
  <2>3. QED
    BY <2>1, <2>2 DEF UartInv, Protocol
<1>2. CASE Program
  BY <1>2, TypeProgram, RunProgram DEF UartInv, Protocol
<1>3. CASE HostReacts
  <2>1. TypeOK'
    BY <1>3, TypeHost
  <2>2. Protocol'
    BY <1>3, SendBytes, Greeted, Acknowledged, TakeData, TakeExecAck,
         TakePrinted, TakeCode
       DEF HostReacts
  <2>3. QED
    BY <2>1, <2>2 DEF UartInv, Protocol
<1>4. CASE \/ \E op \in ReadOps \cup WriteOps : StartOp(op)
           \/ \E op \in ExecOps : StartExec(op)
  BY <1>4, TypeStart, StartCommand DEF UartInv, Protocol
<1>5. CASE \E b \in NoiseByte : Noise(b)
  BY <1>5, TypeStart, SendBytes DEF UartInv, Protocol
<1>6. CASE UNCHANGED vars
  <2>1. UNCHANGED <<rx, tx, spc, cmd, addr, len, i, mem, ret, hpc, hop, hout, hin,
                    ops, printed, noise, ackLost>>
    BY <1>6 DEF vars, serverVars, hostVars, aux
  <2>2. TypeOK'
    BY <2>1 DEF UartInv, TypeOK
  <2>3. /\ TransferComplete'
        /\ SettleInv' /\ HelloInv' /\ IdleInv'
    BY <2>1 DEF UartInv, TransferComplete, SettleInv, HelloInv, IdleInv,
         Pending
  <2>4. OpInv'
    BY <2>1 DEF UartInv, OpInv, RequestInv, Known, WriteInv, Stored,
         ReadInv, Sent, Pending
  <2>5. ExecInv' /\ CodeInv'
    BY <2>1 DEF UartInv, ExecInv, Invoked, RequestInv, CodeInv, Pending
  <2>6. QED
    BY <2>2, <2>3, <2>4, <2>5 DEF UartInv
<1>7. QED
  BY <1>1, <1>2, <1>3, <1>4, <1>5, <1>6 DEF Next

\* Server and client keep to the protocol, whatever the data, the addresses and
\* the code are: at every moment the line holds what both expect.
THEOREM UartCorrect == Spec => []UartInv
<1>1. Init => UartInv
  BY InitInv
<1>2. UartInv /\ [Next]_vars => UartInv'
  BY StepInv
<1>3. QED
  BY <1>1, <1>2, PTL DEF Spec

\* What travels and what the server and the client keep have the types the code
\* gives them; no FIFO overflows.
THEOREM TypeCorrect == Spec => []TypeOK
<1>1. UartInv => TypeOK
  BY DEF UartInv
<1>2. QED
  BY <1>1, UartCorrect, PTL

\* Unless a program drops the ACK of its own launch when it sets up the UART, the
\* client never sees a byte it did not expect (uart_boot_scoop_expect has no reason
\* to stop), and the server ends only behind the code of a program.
THEOREM ProtocolKept ==
  ASSUME CodeOutgrowsFifo
  PROVE  Spec => []NoProtocolError
<1>1. UartInv => NoProtocolError
  <2> SUFFICES ASSUME UartInv, ~ackLost
               PROVE  hpc # "fatal" /\ (spc = "exit" => hpc \in {"code", "done"})
    BY DEF NoProtocolError
  <2>1. ASSUME spc = "exit", hpc \in {"execack", "running"} PROVE FALSE
    <3>1. Invoked /\ i = RetLen
      BY <2>1 DEF UartInv, ExecInv, Invoked
    <3>2. i < Len(tx)
      BY <2>1, <3>1, InvokedFacts
    <3>3. Len(tx) <= TxDepth /\ Len(tx) \in Nat
      BY LenProperties DEF UartInv, TypeOK
    <3>4. QED
      BY <3>1, <3>2, <3>3, CodeOutgrowsFifo, Bounds DEF CodeOutgrowsFifo
  <2>2. hpc # "fatal"
    BY DEF UartInv, ExecInv
  <2>3. spc = "exit" => hpc \in {"execack", "running", "code", "done"}
    BY <2>2, InvokedFacts DEF Invoked
  <2>4. QED
    BY <2>1, <2>2, <2>3
<1>2. QED
  BY <1>1, UartCorrect, PTL

\* The line is used in one direction at a time: the server says nothing while
\* the client's bytes are on their way.
THEOREM LineHalfDuplex == Spec => []HalfDuplex
<1>1. UartInv => HalfDuplex
  <2> SUFFICES ASSUME UartInv, hpc # "settle", rx # <<>> \/ hout # <<>>
       PROVE  tx = <<>>
    BY DEF HalfDuplex
  <2>1. Pending # <<>>
    BY NothingPending DEF UartInv
  <2>2. CASE hpc \in {"hello", "idle"}
    BY <2>1, <2>2 DEF UartInv, HelloInv, IdleInv
  <2>3. CASE hpc \in {"ack", "data"}
    <3>1. CASE hpc = "ack" /\ tx = <<>>
      BY <3>1
    <3>2. CASE /\ Known /\ WriteInv /\ ReadInv
               /\ IF hpc = "ack" THEN tx = <<Ack>> \o Sent ELSE hin \o tx = Sent
      <4>1. hop.kind = CmdWrite /\ spc = "data" /\ hpc = "data"
        BY <2>1, <2>3, <3>2, SentFacts DEF WriteInv, ReadInv
      <4>2. hin \o tx = <<>> /\ hin = <<>>
        BY <2>3, <3>2, <4>1, SentFacts DEF UartInv, OpInv
      <4>3. QED
        BY <4>2, ConcatEmptySeq DEF UartInv, TypeOK
    <3>3. QED
      BY <2>3, <3>1, <3>2 DEF UartInv, OpInv
  <2>4. CASE hpc \in {"execack", "running", "code", "done", "fatal"}
    BY <2>1, <2>4, InvokedFacts DEF UartInv, ExecInv
  <2>5. QED
    BY <2>2, <2>3, <2>4 DEF UartInv, TypeOK
<1>2. QED
  BY <1>1, UartCorrect, PTL

\* A command is over for the client only when it is: what it wrote is in memory,
\* what it read is what memory holds.
THEOREM TransfersComplete == Spec => []TransferComplete
<1>1. UartInv => TransferComplete
  BY DEF UartInv
<1>2. QED
  BY <1>1, UartCorrect, PTL

\* A step that stores nothing, launches nothing and tells the client nothing.
LEMMA Unobserved ==
  ASSUME mem' = mem, ret' = ret,
         \/ spc' = spc
         \/ spc' \notin {"run", "eoc", "ret", "exit"} /\ spc \notin {"run", "eoc", "ret", "exit"}
         \/ spc \in {"eoc", "ret"} /\ spc' \in {"ret", "exit"} /\ ret # <<>>
         \/ spc = "cmd" /\ spc' = "exit" /\ ret = <<>>,
         (hpc' = hpc /\ hin' = hin) \/ (hpc # "done" /\ hpc' # "done")
  PROVE  UNCHANGED Load!loadVars
BY DEF Load!loadVars

\* Seen from the client the byte protocol is a preloading interface: bytes are
\* stored until the program is launched, and what the client is told is the code
\* the program returned.
THEOREM UartRefinement ==
  ASSUME EocNotPrinted
  PROVE  Spec => ImplementsProgramLoad
<1>1. Init => Load!Init
  BY DEF Init, Load!Init
<1>2. UartInv /\ UartInv' /\ [Next]_vars => [Load!Next]_(Load!loadVars)
  <2> SUFFICES ASSUME UartInv, UartInv', [Next]_vars
               PROVE  [Load!Next]_(Load!loadVars)
    OBVIOUS
  <2>1. CASE Server /\ ~ReceiveData /\ ~Invoke
    <3>1. mem' = mem /\ ret' = ret /\ hpc' = hpc /\ hin' = hin
      BY <2>1 DEF Server, UartInit, UartDebugCheck, Hello, ReadCmd,
           ReadAddr, ReadLen, SendAck,
                  SendData, SendEot, SendEoc, SendRet, hostVars
    <3>2. \/ spc' = spc
          \/ spc' \notin {"run", "eoc", "ret", "exit"} /\ spc \notin {"run", "eoc", "ret", "exit"}
          \/ spc \in {"eoc", "ret"} /\ spc' \in {"ret", "exit"} /\ ret # <<>>
          \/ spc = "cmd" /\ spc' = "exit" /\ ret = <<>>
      <4>1. CASE UartInit \/ UartDebugCheck \/ Hello \/ ReadAddr \/ ReadLen \/ SendAck
        BY <4>1 DEF UartInit, UartDebugCheck, Hello, ReadAddr, ReadLen,
             SendAck, ServerGoTo
      <4>2. CASE ReadCmd
        BY <4>2 DEF ReadCmd, UartInv, ExecInv
      <4>3. CASE SendData \/ SendEot
        BY <4>3 DEF SendData, SendEot, ServerGoTo
      <4>4. CASE SendEoc \/ SendRet
        <5>1. spc \in {"eoc", "ret"} /\ spc' \in {"ret", "exit"}
          BY <4>4 DEF SendEoc, SendRet, ServerGoTo
        <5>2. ret \in [1 .. RetLen -> Data] /\ RetLen \in Nat \ {0}
          BY <5>1, Bounds DEF UartInv, ExecInv
        <5>3. Len(ret) = RetLen
          BY <5>2
        <5>4. ret # <<>>
          BY <5>2, <5>3
        <5>5. QED
          BY <5>1, <5>4
      <4>5. QED
        BY <2>1, <4>1, <4>2, <4>3, <4>4 DEF Server
    <3>3. QED
      BY <3>1, <3>2, Unobserved
  <2>2. CASE ReceiveData
    <3>1. PICK b \in Data : mem' = [mem EXCEPT ![addr + i] = b]
      BY <2>2 DEF ReceiveData
    <3>2. addr + i \in Addr
      BY <2>2, CommandFits DEF ReceiveData
    <3>3. Load!Store(addr + i, b)
      BY <2>2, <3>1 DEF ReceiveData, hostVars, Load!Store
    <3>4. QED
      BY <3>2, <3>3 DEF Load!Next
  <2>3. CASE Invoke
    <3>1. Load!Launch
      BY <2>3 DEF Invoke, ServerGoTo, hostVars, Load!Launch
    <3>2. QED
      BY <3>1 DEF Load!Next
  <2>4. CASE ProgramInits \/ \E b \in ConsoleByte : ProgramPrints(b)
    BY <2>4, Unobserved DEF ProgramInits, ProgramPrints, serverVars, hostVars
  <2>5. CASE \E code \in [1 .. RetLen -> Data] : ProgramReturns(code)
    <3>1. PICK code \in [1 .. RetLen -> Data] : ProgramReturns(code)
      BY <2>5
    <3>2. Load!Finish(code)
      BY <3>1 DEF ProgramReturns, ServerGoTo, hostVars, Load!Finish
    <3>3. QED
      BY <3>2 DEF Load!Next
  <2>6. CASE HostReacts
    <3>1. mem' = mem /\ ret' = ret /\ spc' = spc
      BY <2>6 DEF HostReacts, Challenge, WriteByte, ScoopHello,
           ScoopAck, ScoopData,
                  ScoopExecAck, Console, ScoopCode, Scoop, serverVars
    <3>2. CASE ScoopCode /\ hpc' = "done"
      <4>1. spc = "exit" /\ hin' = ret /\ hpc = "code"
        BY <3>1, <3>2, EocNotPrinted DEF UartInv, CodeInv, ScoopCode
      <4>2. ret # <<>>
        <5>1. ret \in [1 .. RetLen -> Data] /\ RetLen \in Nat \ {0}
          BY <4>1, Bounds DEF UartInv, ExecInv
        <5>2. Len(ret) = RetLen
          BY <5>1
        <5>3. QED
          BY <5>1, <5>2
      <4>3. Load!Report
        BY <3>1, <3>2, <4>1, <4>2 DEF Load!Report
      <4>4. QED
        BY <4>3 DEF Load!Next
    <3>3. CASE ~(ScoopCode /\ hpc' = "done")
      <4>1. (hpc' = hpc /\ hin' = hin) \/ (hpc # "done" /\ hpc' # "done")
        BY <2>6, <3>3 DEF HostReacts, Challenge, WriteByte, ScoopHello,
             ScoopAck, ScoopData,
                          ScoopExecAck, Console, ScoopCode, Expect
      <4>2. QED
        BY <3>1, <4>1, Unobserved
    <3>4. QED
      BY <3>2, <3>3
  <2>7. CASE \/ \E op \in ReadOps \cup WriteOps : StartOp(op)
             \/ \E op \in ExecOps : StartExec(op)
             \/ \E b \in NoiseByte : Noise(b)
    <3>1. mem' = mem /\ ret' = ret /\ spc' = spc
      BY <2>7 DEF StartOp, StartExec, Noise, serverVars
    <3>2. (hpc' = hpc /\ hin' = hin) \/ (hpc # "done" /\ hpc' # "done")
      BY <2>7 DEF StartOp, StartExec, Noise, hostVars
    <3>3. QED
      BY <3>1, <3>2, Unobserved
  <2>8. CASE UNCHANGED vars
    BY <2>8, Unobserved DEF vars, serverVars, hostVars
  <2>9. QED
    BY <2>1, <2>2, <2>3, <2>4, <2>5, <2>6, <2>7, <2>8 DEF Next, Program
<1>3. QED
  BY <1>1, <1>2, UartCorrect, PTL DEF Spec, ImplementsProgramLoad, Load!Spec
======================================================================
