----------------------------- MODULE I2cEeprom -----------------------------
(***************************************************************************)
(* Reads of the I2C EEPROM driver (sw/lib/hal/i2c_24fc1025.c) through the  *)
(* I2C host and its FIFOs, which run beside it.                            *)
(*                                                                         *)
(* The driver queues an address write and a read of a chunk while the host *)
(* is disabled, enables it, and polls the level of the receive FIFO.  A    *)
(* byte has Base values here instead of 256, so a block of the chip has    *)
(* Base * Base bytes; the medium is within one.                            *)
(***************************************************************************)
EXTENDS MediumCall

CONSTANTS
  Fifo,  \* I2C_PARAM_FIFO_DEPTH
  Base   \* values of an address byte

ASSUME I2cAssumption == {Fifo, Base} \subseteq Nat \ {0} /\ Size <= Base * Base

VARIABLES
  enabled,  \* the host takes entries
  fmt,      \* its format FIFO
  rx,       \* its receive FIFO
  chip      \* the chip's addressing: its direction and its address counter

i2cVars == <<enabled, fmt, rx, chip>>

Entries ==
  {<<"start", d>> : d \in {"write", "read"}} \cup {<<"tx", v>> : v \in 0 .. Base - 1}
    \cup {<<"rx", n>> : n \in 1 .. Fifo}

I2cTypeOK ==
  /\ enabled \in BOOLEAN
  /\ fmt \in Seq(Entries)
  /\ rx \in Seq(0 .. 255) /\ Len(rx) <= Fifo
  /\ chip \in [dir : {"write", "read"}, at : 0 .. Base * Base - 1]

\* i2c_24fc1025_init: the FIFOs are reset and the host is enabled.
I2cInit ==
  /\ enabled = TRUE /\ fmt = <<>> /\ rx = <<>>
  /\ chip = [dir |-> "write", at |-> 0]

-----------------------------------------------------------------------------
(***************************************************************************)
(* The host and the chip: a start with the control byte, an address byte,  *)
(* or one byte received.                                                   *)
(***************************************************************************)
HostStart ==
  /\ Head(fmt)[1] = "start"
  /\ chip' = [chip EXCEPT !.dir = Head(fmt)[2]]
  /\ fmt' = Tail(fmt) /\ UNCHANGED rx

HostSend ==
  /\ Head(fmt)[1] = "tx"
  /\ chip' = [chip EXCEPT !.at = (@ * Base + Head(fmt)[2]) % (Base * Base)]
  /\ fmt' = Tail(fmt) /\ UNCHANGED rx

HostReceive ==
  /\ Head(fmt)[1] = "rx"
  /\ Len(rx) < Fifo
  /\ rx' = Append(rx, IF chip.at < Size THEN Medium[chip.at] ELSE 255)
  /\ chip' = [chip EXCEPT !.at = (@ + 1) % (Base * Base)]
  /\ fmt' = IF Head(fmt)[2] = 1 THEN Tail(fmt)
            ELSE <<<<"rx", Head(fmt)[2] - 1>>>> \o Tail(fmt)

I2cHost ==
  /\ enabled /\ fmt # <<>>
  /\ HostStart \/ HostSend \/ HostReceive
  /\ UNCHANGED <<enabled, pc, addr, len, offs, buf>>

-----------------------------------------------------------------------------
(***************************************************************************)
(* The driver.                                                             *)
(***************************************************************************)
I2cRead(a, n) == Call(a, n) /\ pc' = "i2cWait" /\ UNCHANGED i2cVars

\* The first chunk of an unaligned read ends at the next FIFO boundary, however
\* many bytes are wanted.
I2cLength ==
  IF (addr + offs) % Fifo # 0 THEN Fifo - (addr % Fifo) ELSE Smaller(Fifo, len - offs)

\* All FIFOs are vacated, and the host is disabled.
I2cWait ==
  /\ pc = "i2cWait" /\ pc' = "i2cQueue"
  /\ fmt = <<>> /\ rx = <<>>
  /\ enabled' = FALSE
  /\ UNCHANGED <<fmt, rx, chip, addr, len, offs, buf>>

\* Nobody takes an entry before the last is queued.  Block and chip select bits
\* lie above bit 7 of the control byte and are lost.
I2cQueue ==
  /\ pc = "i2cQueue" /\ pc' = "i2cPoll"
  /\ LET at == addr + offs IN
     fmt' = <<<<"start", "write">>, <<"tx", (at \div Base) % Base>>, <<"tx", at % Base>>,
              <<"start", "read">>, <<"rx", I2cLength>>>>
  /\ enabled' = TRUE
  /\ UNCHANGED <<rx, chip, addr, len, offs, buf>>

\* Mutant: the last byte is not waited for.
AllButOne == Len(rx) >= I2cLength - 1

ChunkReceived == Len(rx) >= I2cLength

\* dif_i2c_read_byte for every byte of the chunk, and the next chunk.  An empty
\* FIFO reads as zero.
I2cCopy ==
  /\ pc = "i2cPoll" /\ ChunkReceived
  /\ LET n == I2cLength IN
     /\ buf' = Stored([j \in 1 .. n |-> IF j <= Len(rx) THEN rx[j] ELSE 0], offs)
     /\ rx' = SubSeq(rx, n + 1, Len(rx))
  /\ offs' = offs + Fifo - ((addr + offs) % Fifo)
  /\ pc' = IF offs' < len THEN "i2cWait" ELSE "ready"
  /\ UNCHANGED <<enabled, fmt, chip, addr, len>>

I2cDriver == I2cWait \/ I2cQueue \/ I2cCopy
=============================================================================
