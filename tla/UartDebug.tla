----------------------------- MODULE UartDebug -----------------------------
(***************************************************************************)
(* Preloading over the UART: the boot ROM's debug server (sw/lib/hal/      *)
(* uart_debug.c on top of sw/lib/dif/uart.c, entered from boot_passive)    *)
(* and its client, the UART tasks of target/sim/src/vip_cheshire_soc.sv.   *)
(*                                                                         *)
(* rx and tx are the bytes on their way to and from the boot ROM; reading  *)
(* or writing one is one action.  A byte is its value; the 8 bytes of an   *)
(* address or a length travel as one.  Line rate: the server polls faster  *)
(* than bytes arrive and the client reacts within the time of a byte, so   *)
(* no byte is dropped at a full FIFO, and a byte is delivered only when    *)
(* the client is waiting for one.                                          *)
(***************************************************************************)
EXTENDS Integers, Sequences

CONSTANTS
  Addr,       \* addresses
  Data,       \* bytes that are written, opcode values among them
  NoiseByte,  \* bytes seen before the client speaks; not an ACK
  ConsoleByte,  \* bytes a program prints
  RxDepth,    \* bytes the receiver holds
  TxDepth,    \* bytes the transmitter holds: THR and shift register
  RetLen,     \* bytes of a return code (4 in the code)
  MaxLen,     \* bound: bytes of a read or a write
  MaxOps,     \* bound: read and write commands of a session
  MaxPrint,   \* bound: bytes a program prints
  MaxNoise    \* bound: bytes before the client speaks

\* uart_debug_opcode_t
CmdRead  == 17
CmdWrite == 18
CmdExec  == 19
Ack      == 6
Eot      == 4
Eoc      == 20

ASSUME UartAssumption ==
  /\ 0 \in Addr /\ Addr \subseteq Nat
  /\ Data \cup ConsoleByte \cup NoiseByte \subseteq 0 .. 255
  /\ Ack \notin NoiseByte
  /\ {RxDepth, TxDepth, RetLen} \subseteq Nat \ {0}
  /\ {MaxLen, MaxOps, MaxPrint, MaxNoise} \subseteq Nat

VARIABLES
  rx, tx,   \* bytes on the line
  spc,      \* where the boot ROM is
  cmd, addr, len, i,  \* the locals of uart_debug_serve and its read/write loops
  mem,      \* memory the server reads and writes
  ret,      \* the code the invoked program returned
  hpc,      \* where the client is
  hop,      \* the client's current command
  hout,     \* bytes the client has still to send
  hin,      \* data or code bytes the client has scooped
  ops, printed, noise,  \* counters of the bounds
  ackLost   \* history: a program's set-up of the UART dropped the ACK of EXEC

serverVars == <<spc, cmd, addr, len, i, mem, ret>>
hostVars   == <<hpc, hop, hout, hin>>
aux        == <<ops, printed, noise, ackLost>>
vars       == <<rx, tx, serverVars, hostVars, aux>>

Blocks == UNION {[1 .. n -> Data] : n \in 0 .. MaxLen}

\* The commands of uart_debug_rw within memory (read lengths are nonzero: a
\* zero length means a write there), and uart_debug_elf_run_and_wait's EXEC.
Fits(a, n) == a .. a + n - 1 \subseteq Addr
NoOp == [kind |-> Ack, addr |-> 0, len |-> 0, data |-> <<>>]
ReadOps  == [kind : {CmdRead}, addr : Addr, len : 1 .. MaxLen, data : {<<>>}]
WriteOps == {[kind |-> CmdWrite, addr |-> a, len |-> Len(d), data |-> d] :
               a \in Addr, d \in Blocks}
ExecOps  == [kind : {CmdExec}, addr : Addr, len : {0}, data : {<<>>}]

\* What travels as one.
Unit == 0 .. 255 \cup Addr \cup 0 .. MaxLen

TypeOK ==
  /\ rx \in Seq(Unit) /\ Len(rx) <= RxDepth
  /\ tx \in Seq(0 .. 255) /\ Len(tx) <= TxDepth
  /\ spc \in {"init", "poll", "hello", "cmd", "addr", "len", "ack", "data",
              "invoke", "run", "eoc", "ret", "exit"}
  /\ cmd \in {Ack, CmdRead, CmdWrite, CmdExec}
  /\ addr \in Addr /\ len \in 0 .. MaxLen
  /\ i \in 0 .. MaxLen \cup 0 .. RetLen
  /\ mem \in [Addr -> Data]
  /\ ret \in {<<>>} \cup [1 .. RetLen -> Data]
  /\ hpc \in {"settle", "hello", "idle", "ack", "data", "execack", "running",
              "code", "done", "fatal"}
  /\ hop \in {NoOp} \cup ReadOps \cup WriteOps \cup ExecOps
  /\ hout \in Seq(Unit)
  /\ hin \in Seq(0 .. 255)
  /\ ops \in 0 .. MaxOps /\ printed \in 0 .. MaxPrint /\ noise \in 0 .. MaxNoise
  /\ ackLost \in BOOLEAN

Init ==
  /\ rx = <<>> /\ tx = <<>>
  /\ spc = "init" /\ cmd = Ack /\ addr = 0 /\ len = 0 /\ i = 0
  /\ mem \in [Addr -> Data]
  /\ ret = <<>>
  /\ hpc = "settle" /\ hop = NoOp /\ hout = <<>> /\ hin = <<>>
  /\ ops = 0 /\ printed = 0 /\ noise = 0 /\ ackLost = FALSE

-----------------------------------------------------------------------------
(***************************************************************************)
(* The boot ROM.                                                           *)
(***************************************************************************)
\* Mutant: the byte is stored without looking at the line status.
UartWriteBlind(b) == tx' = Append(tx, b)

\* uart_write spins until the holding register is empty.
UartWrite(b) ==
  /\ Len(tx) < TxDepth
  /\ tx' = Append(tx, b)

\* uart_read spins until a byte is there.
UartRead(b) ==
  /\ rx # <<>>
  /\ b = Head(rx)
  /\ rx' = Tail(rx)

ServerGoTo(from, to) == spc = from /\ spc' = to

\* boot_passive: uart_debug_init sets up the UART and clears its FIFOs.
UartInit ==
  /\ ServerGoTo("init", "poll")
  /\ rx' = <<>>
  /\ UNCHANGED <<tx, cmd, addr, len, i, mem, ret, hostVars, aux>>

\* Mutant: any byte starts the server.
UartDebugCheckAny ==
  /\ spc = "poll"
  /\ \E b \in 0 .. 255 : UartRead(b)
  /\ spc' = "hello"
  /\ UNCHANGED <<tx, cmd, addr, len, i, mem, ret, hostVars, aux>>

\* uart_debug_check takes any byte off the line; an ACK starts the server.
UartDebugCheck ==
  /\ spc = "poll"
  /\ \E b \in 0 .. 255 :
       /\ UartRead(b)
       /\ spc' = IF b = Ack THEN "hello" ELSE "poll"
  /\ UNCHANGED <<tx, cmd, addr, len, i, mem, ret, hostVars, aux>>

Hello ==
  /\ ServerGoTo("hello", "cmd")
  /\ UartWrite(Ack)
  /\ UNCHANGED <<rx, cmd, addr, len, i, mem, ret, hostVars, aux>>

\* Any other opcode makes uart_debug_serve return 1, and main with it.
ReadCmd ==
  /\ spc = "cmd"
  /\ \E b \in 0 .. 255 :
       /\ UartRead(b)
       /\ IF b \in {CmdRead, CmdWrite, CmdExec}
          THEN cmd' = b /\ spc' = "addr"
          ELSE cmd' = cmd /\ spc' = "exit"
  /\ UNCHANGED <<tx, addr, len, i, mem, ret, hostVars, aux>>

ReadAddr ==
  /\ ServerGoTo("addr", IF cmd = CmdExec THEN "ack" ELSE "len")
  /\ \E b \in Addr : UartRead(b) /\ addr' = b
  /\ UNCHANGED <<tx, cmd, len, i, mem, ret, hostVars, aux>>

ReadLen ==
  /\ ServerGoTo("len", "ack")
  /\ \E b \in 0 .. MaxLen : UartRead(b) /\ len' = b
  /\ UNCHANGED <<tx, cmd, addr, i, mem, ret, hostVars, aux>>

\* Mutant: the index of the previous transfer is kept.
SendAckStaleIndex ==
  /\ ServerGoTo("ack", IF cmd = CmdExec THEN "invoke" ELSE "data")
  /\ UartWrite(Ack)
  /\ UNCHANGED <<rx, cmd, addr, len, i, mem, ret, hostVars, aux>>

SendAck ==
  /\ ServerGoTo("ack", IF cmd = CmdExec THEN "invoke" ELSE "data")
  /\ UartWrite(Ack)
  /\ i' = 0
  /\ UNCHANGED <<rx, cmd, addr, len, mem, ret, hostVars, aux>>

\* uart_write_str(addr, len)
SendData ==
  /\ spc = "data" /\ cmd = CmdRead /\ i < len
  /\ UartWrite(mem[addr + i])
  /\ i' = i + 1
  /\ UNCHANGED <<rx, spc, cmd, addr, len, mem, ret, hostVars, aux>>

\* uart_read_str(addr, len)
ReceiveData ==
  /\ spc = "data" /\ cmd = CmdWrite /\ i < len
  /\ \E b \in Data : UartRead(b) /\ mem' = [mem EXCEPT ![addr + i] = b]
  /\ i' = i + 1
  /\ UNCHANGED <<tx, spc, cmd, addr, len, ret, hostVars, aux>>

\* Mutant: the EOT does not wait for the data.
SendEotEarly ==
  /\ ServerGoTo("data", "cmd")
  /\ UartWrite(Eot)
  /\ UNCHANGED <<rx, cmd, addr, len, i, mem, ret, hostVars, aux>>

SendEot ==
  /\ ServerGoTo("data", "cmd")
  /\ i = len
  /\ UartWrite(Eot)
  /\ UNCHANGED <<rx, cmd, addr, len, i, mem, ret, hostVars, aux>>

Invoke ==
  /\ ServerGoTo("invoke", "run")
  /\ UNCHANGED <<rx, tx, cmd, addr, len, i, mem, ret, hostVars, aux>>

\* The program may print over the same UART, and may return.
ProgramPrints(b) ==
  /\ spc = "run" /\ printed < MaxPrint
  /\ UartWrite(b)
  /\ printed' = printed + 1
  /\ UNCHANGED <<rx, serverVars, hostVars, ops, noise, ackLost>>

\* ... having set it up again, which empties the FIFOs.  The byte in the shift
\* register is sent all the same; the ACK of EXEC may be there, or still in the FIFO.
ProgramInits ==
  /\ spc = "run"
  /\ rx' = <<>>
  /\ tx' = <<>> \/ (tx # <<>> /\ tx' = <<Head(tx)>>)
  /\ ackLost' = (ackLost \/ (hpc = "execack" /\ tx' = <<>>))
  /\ UNCHANGED <<serverVars, hostVars, ops, printed, noise>>

ProgramReturns(code) ==
  /\ ServerGoTo("run", "eoc")
  /\ ret' = code
  /\ UNCHANGED <<rx, tx, cmd, addr, len, i, mem, hostVars, aux>>

SendEoc ==
  /\ ServerGoTo("eoc", "ret")
  /\ UartWrite(Eoc)
  /\ i' = 0
  /\ UNCHANGED <<rx, cmd, addr, len, mem, ret, hostVars, aux>>

\* The return code byte by byte, j the next byte (mutants: the most significant
\* byte first; one byte short).
SendRetAs(j, n) ==
  /\ spc = "ret"
  /\ UartWrite(ret[j])
  /\ i' = i + 1
  /\ spc' = IF i + 1 = n THEN "exit" ELSE "ret"
  /\ UNCHANGED <<rx, cmd, addr, len, mem, ret, hostVars, aux>>
SendRetBigEndian == SendRetAs(RetLen - i, RetLen)
SendRetShort     == SendRetAs(i + 1, RetLen - 1)

\* uart_write_str(&ret, 4), then uart_debug_serve and main return.
SendRet ==
  /\ spc = "ret"
  /\ UartWrite(ret[i + 1])
  /\ i' = i + 1
  /\ spc' = IF i + 1 = RetLen THEN "exit" ELSE "ret"
  /\ UNCHANGED <<rx, cmd, addr, len, mem, ret, hostVars, aux>>

-----------------------------------------------------------------------------
(***************************************************************************)
(* The client.  It sends hout and then waits for the byte hpc names.       *)
(***************************************************************************)
Noise(b) ==
  /\ hpc = "settle" /\ noise < MaxNoise /\ Len(rx) < RxDepth
  /\ rx' = Append(rx, b)
  /\ noise' = noise + 1
  /\ UNCHANGED <<tx, serverVars, hostVars, ops, printed, ackLost>>

\* UartWaitCycles are enough for the boot ROM to reach its loop; then an ACK
\* challenges it.
Challenge ==
  /\ hpc = "settle" /\ spc # "init"
  /\ hpc' = "hello" /\ hout' = <<Ack>>
  /\ UNCHANGED <<rx, tx, serverVars, hop, hin, aux>>

WriteByte ==
  /\ hout # <<>> /\ Len(rx) < RxDepth
  /\ rx' = Append(rx, Head(hout))
  /\ hout' = Tail(hout)
  /\ UNCHANGED <<tx, serverVars, hpc, hop, hin, aux>>

StartOp(op) ==
  /\ hpc = "idle" /\ ops < MaxOps /\ Fits(op.addr, op.len)
  /\ hpc' = "ack" /\ hop' = op /\ hin' = <<>>
  /\ hout' = <<op.kind, op.addr, op.len>>
  /\ ops' = ops + 1
  /\ UNCHANGED <<rx, tx, serverVars, printed, noise, ackLost>>

StartExec(op) ==
  /\ hpc = "idle"
  /\ hpc' = "execack" /\ hop' = op /\ hin' = <<>>
  /\ hout' = <<op.kind, op.addr>>
  /\ UNCHANGED <<rx, tx, serverVars, aux>>

\* The reader process hands over a byte once the client is done sending.
Scoop(b) ==
  /\ hout = <<>> /\ hpc \notin {"settle", "idle", "fatal"}
  /\ tx # <<>> /\ b = Head(tx) /\ tx' = Tail(tx)
  /\ UNCHANGED <<rx, serverVars, hop, aux>>

\* uart_boot_scoop_expect: any byte but the expected one is fatal.
Expect(b, byte, next) == hpc' = IF b = byte THEN next ELSE "fatal"

ScoopHello ==
  /\ hpc = "hello"
  /\ \E b \in 0 .. 255 : Scoop(b) /\ Expect(b, Ack, "idle")
  /\ UNCHANGED <<hout, hin>>

\* Behind the ACK of a write the client sends its data.
ScoopAck ==
  /\ hpc = "ack"
  /\ \E b \in 0 .. 255 : Scoop(b) /\ Expect(b, Ack, "data")
  /\ hout' = hop.data
  /\ UNCHANGED hin

\* The data of a read, and then the EOT of a read or a write.
ScoopData ==
  /\ hpc = "data"
  /\ \E b \in 0 .. 255 :
       /\ Scoop(b)
       /\ IF hop.kind = CmdRead /\ Len(hin) < hop.len
          THEN hin' = Append(hin, b) /\ hpc' = hpc
          ELSE hin' = hin /\ Expect(b, Eot, "idle")
  /\ UNCHANGED hout

ScoopExecAck ==
  /\ hpc = "execack"
  /\ \E b \in 0 .. 255 : Scoop(b) /\ Expect(b, Ack, "running")
  /\ UNCHANGED <<hout, hin>>

\* While the program runs the reader prints what it reads, until it reads EOC.
Console ==
  /\ hpc = "running"
  /\ \E b \in 0 .. 255 : Scoop(b) /\ hpc' = IF b = Eoc THEN "code" ELSE hpc
  /\ UNCHANGED <<hout, hin>>

ScoopCode ==
  /\ hpc = "code"
  /\ \E b \in 0 .. 255 : Scoop(b) /\ hin' = Append(hin, b)
  /\ hpc' = IF Len(hin) + 1 = RetLen THEN "done" ELSE "code"
  /\ UNCHANGED hout

-----------------------------------------------------------------------------
Server ==
  \/ UartInit \/ UartDebugCheck \/ Hello
  \/ ReadCmd \/ ReadAddr \/ ReadLen \/ SendAck
  \/ SendData \/ ReceiveData \/ SendEot
  \/ Invoke \/ SendEoc \/ SendRet

Program ==
  \/ ProgramInits
  \/ \E b \in ConsoleByte : ProgramPrints(b)
  \/ \E code \in [1 .. RetLen -> Data] : ProgramReturns(code)

\* What the client does without deciding anything.
HostReacts ==
  \/ Challenge \/ WriteByte
  \/ ScoopHello \/ ScoopAck \/ ScoopData \/ ScoopExecAck
  \/ Console \/ ScoopCode

Next ==
  \/ Server
  \/ Program
  \/ HostReacts
  \/ \E op \in ReadOps \cup WriteOps : StartOp(op)
  \/ \E op \in ExecOps : StartExec(op)
  \/ \E b \in NoiseByte : Noise(b)

Spec == Init /\ [][Next]_vars

\* The hart and the client keep going.  Whether a session is started or ended
\* and whether a program returns is open.
FairSpec == Spec /\ WF_vars(Server) /\ WF_vars(HostReacts)

-----------------------------------------------------------------------------
\* The client never sees a byte it did not expect, whatever values its data
\* and addresses have: a data byte is never taken for an opcode.  A program that
\* sets up the UART before the ACK of EXEC has left ends this: the client then
\* takes the program's first byte for the ACK.
NoProtocolError ==
  ~ackLost => hpc # "fatal" /\ (spc = "exit" => hpc \in {"code", "done"})

\* The line is never used in both directions at once: while the client has
\* bytes on the line or to send, the server is silent.
HalfDuplex == (rx # <<>> \/ hout # <<>>) /\ hpc # "settle" => tx = <<>>

\* When the client has seen a write's EOT, the bytes are in memory; when it has
\* seen a read's, it holds what memory holds.
TransferComplete ==
  hpc = "idle" =>
    /\ hop.kind = CmdWrite =>
         \A k \in 1 .. hop.len : mem[hop.addr + k - 1] = hop.data[k]
    /\ hop.kind = CmdRead =>
         /\ Len(hin) = hop.len
         /\ \A k \in 1 .. hop.len : hin[k] = mem[hop.addr + k - 1]

\* Every command gets its EOT: the server and the client never both wait.
CommandsComplete == (hpc = "ack") ~> (hpc = "idle")

\* A program that returned is reported, and the client gets its code, unless the
\* program dropped the ACK of its own launch.
CodeArrives == (spc = "eoc" /\ ~ackLost) ~> (hpc = "done")

Load == INSTANCE ProgramLoad WITH
  Byte <- Data,
  Code <- [1 .. RetLen -> Data],
  NoCode <- <<>>,
  mem <- mem,
  status <- IF spc = "run" THEN "run"
            ELSE IF spc \in {"eoc", "ret"} \/ (spc = "exit" /\ ret # <<>>)
                 THEN "over" ELSE "load",
  result <- ret,
  seen <- IF hpc = "done" THEN hin ELSE <<>>

\* Seen from the client, the byte protocol is a preloading interface: stores up
\* to the launch, and then the program's own return code.
ImplementsProgramLoad == Load!Spec
=============================================================================
