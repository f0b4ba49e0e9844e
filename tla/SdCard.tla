------------------------------- MODULE SdCard -------------------------------
(***************************************************************************)
(* The SD card driver (sw/lib/hal/spi_sdcard.c), from its activation on,   *)
(* against a card on the SPI bus.                                          *)
(*                                                                         *)
(* The host clocks every byte.  out holds what the card has still to send  *)
(* for the host's next bytes; when it is empty the line reads 255.  The    *)
(* card answers after a latency of its choice, may send an error token     *)
(* instead of a block, and one byte of a block may be corrupted on its way.*)
(* CRC16 is what it is for: it tells a block from one that differs from    *)
(* it.  Calls of the SPI host's driver do not fail: its arguments are      *)
(* legal.                                                                  *)
(***************************************************************************)
EXTENDS MediumCall

CONSTANTS
  BlockSize,  \* bytes of a block (512 in the code)
  NumBlocks,  \* blocks of the card
  CmdTimeout, DataTimeout, BusyTimeout,  \* bytes polled (8, 10000, 10000)
  MaxLatency, \* bound: bytes the card lets pass before it answers
  Lines,      \* what may be at the other end
  CheckCrc    \* spi_sdcard_read_checkcrc, not ..._ignorecrc

ASSUME SdCardAssumption ==
  /\ {BlockSize, NumBlocks} \subseteq Nat \ {0}
  /\ Size = BlockSize * NumBlocks /\ Margin >= BlockSize
  /\ {CmdTimeout, DataTimeout, BusyTimeout} \subseteq Nat \ {0, 1}
  /\ MaxLatency \in Nat
  /\ Lines \subseteq {"card", "silent", "low"}
  /\ CheckCrc \in BOOLEAN

Token == 254

VARIABLES
  line,     \* a card, none with the line pulled up, or none with it low
  out,      \* what the card has still to send
  sent,     \* the block whose CRC the card sends behind it
  stream,   \* the block a CMD18 has come to, or -1
  cs,       \* chip select is "held" or "free"
  cmd,      \* the command the driver is in
  r1,       \* the first byte of the response
  timeout,  \* polls left
  b,        \* the block of the read
  swap      \* the swap buffer

cardVars == <<line, out, sent, stream>>
readVars == <<addr, len, b, offs, swap, buf>>
sdVars   == <<cardVars, cs, cmd, r1, timeout, b, swap>>

Offset == 0 .. BlockSize - 1

\* The commands in the order of __spi_sdcard_activate, and those of a read.
Activation == {"CMD0", "CMD8", "CMD55", "ACMD41", "CMD58", "CMD16"}
Reading    == {"CMD17", "CMD18", "CMD12"}

SdTypeOK ==
  /\ line \in Lines
  /\ out \in Seq(0 .. 255)
  /\ sent \in [Offset -> ByteOrNone]
  /\ stream \in -1 .. NumBlocks
  /\ cs \in {"free", "held"}
  /\ cmd \in Activation \cup Reading
  /\ r1 \in 0 .. 255
  /\ timeout \in 0 .. CmdTimeout + DataTimeout + BusyTimeout
  /\ b \in 0 .. NumBlocks
  /\ swap \in [Offset -> ByteOrNone]

NoBlock == [j \in Offset |-> Unread]

SdInit ==
  /\ line \in Lines
  /\ out = <<>> /\ sent = NoBlock /\ stream = -1
  /\ cs = "free"
  /\ cmd = "CMD0" /\ r1 = 0 /\ timeout = 0
  /\ b = 0 /\ swap = NoBlock

-----------------------------------------------------------------------------
(***************************************************************************)
(* The card.                                                               *)
(***************************************************************************)
Times(n, byte) == [j \in 1 .. n |-> byte]

Block(n) == [j \in Offset |-> Medium[BlockSize * n + j]]

\* A block on the line, whole or with one byte changed.
Transfers(n) ==
  LET whole == [j \in 1 .. BlockSize |-> Block(n)[j - 1]] IN
  {whole} \cup {[whole EXCEPT ![j] = (@ + 1) % 256] : j \in 1 .. BlockSize}

\* Block n, or an error token.
SendsBlock(n, before) ==
  \E wait \in 0 .. MaxLatency :
    \/ \E bytes \in Transfers(n) :
         /\ out' = before \o Times(wait, 255) \o <<Token>> \o bytes
         /\ sent' = Block(n)
    \/ out' = before \o Times(wait, 255) \o <<8>> /\ UNCHANGED sent

\* Answers behind R1: R7 and R3 have four more bytes, CMD12 a stuff byte before
\* and a busy signal behind.  A read may be refused.
R1(c) == IF c \in {"CMD0", "CMD8", "CMD55"} THEN {1}
         ELSE IF c = "ACMD41" THEN {0, 1} ELSE {0}

CardAnswers(c, n) ==
  \E wait \in 0 .. MaxLatency, r \in R1(c) :
    LET answer == Times(wait, 255) \o <<r>> IN
    CASE c \in {"CMD17", "CMD18"} ->
           \/ /\ SendsBlock(n, answer)
              /\ stream' = IF c = "CMD18" THEN n ELSE -1
           \/ /\ out' = Times(wait, 255) \o <<64>>
              /\ UNCHANGED <<sent, stream>>
      [] c \in {"CMD8", "CMD58"} ->
           out' = answer \o <<0, 0, 1, 170>> /\ UNCHANGED <<sent, stream>>
      [] c = "CMD12" ->
           /\ \E busy \in 0 .. MaxLatency :
                out' = <<127>> \o answer \o Times(busy, 0)
           /\ stream' = -1 /\ UNCHANGED sent
      [] OTHER -> out' = answer /\ UNCHANGED <<sent, stream>>

\* Without a card nothing answers.
LineAnswers(c, n) ==
  /\ IF line = "card" THEN CardAnswers(c, n) ELSE UNCHANGED <<out, sent, stream>>
  /\ UNCHANGED line

\* __spi_sdcard_xfer_csaat, receiving one byte.
Xfer(byte) ==
  /\ byte = IF line = "low" THEN 0 ELSE IF out = <<>> THEN 255 ELSE Head(out)
  /\ out' = IF out = <<>> THEN <<>> ELSE Tail(out)
  /\ UNCHANGED <<line, sent, stream, cs>>

-----------------------------------------------------------------------------
(***************************************************************************)
(* The driver: commands.                                                   *)
(***************************************************************************)
Fails(p) == p' = "fail"

\* 80 dummy cycles, with the chip select held.
Wake ==
  /\ pc = "wake" /\ pc' = "send"
  /\ cs' = "held"
  /\ UNCHANGED <<cardVars, cmd, r1, timeout, readVars>>

\* __spi_sdcard_read's and __spi_sdcard_read_blocks' arithmetic.
FirstOffs == addr % BlockSize
PteOffs   == (addr + len) % BlockSize
LastLen   == IF PteOffs = 0 THEN BlockSize ELSE PteOffs
LenBlocks == (len + FirstOffs + BlockSize - 1) \div BlockSize

\* The command's six bytes.
SendCmd ==
  /\ pc = "send"
  /\ pc' = IF cmd = "CMD12" THEN "stuff" ELSE "response"
  /\ timeout' = CmdTimeout
  /\ cs' = "held"
  /\ LineAnswers(cmd, addr \div BlockSize)
  /\ UNCHANGED <<cmd, r1, readVars>>

DiscardStuffByte ==
  /\ pc = "stuff" /\ pc' = "response"
  /\ \E byte \in 0 .. 255 : Xfer(byte)
  /\ UNCHANGED <<cmd, r1, timeout, readVars>>

\* What follows the first byte of a response.
AfterR1 ==
  CASE cmd = "CMD12"             -> "busy"
    [] cmd \in {"CMD8", "CMD58"} -> "rest"
    [] cmd \in {"CMD17", "CMD18"} -> "token"
    [] OTHER                     -> "free"

TimeoutAt(place) ==
  IF place = "busy" THEN BusyTimeout ELSE DataTimeout

\* do ... while (--timeout && *rdata & 0x80): an answer in the last poll counts
\* as none.
PollResponse ==
  /\ pc = "response"
  /\ \E byte \in 0 .. 255 :
       /\ Xfer(byte)
       /\ r1' = byte
       /\ pc' = IF timeout = 1 THEN "fail"
                ELSE IF byte >= 128 THEN "response" ELSE AfterR1
  /\ timeout' = IF pc' \in {"busy", "token"} THEN TimeoutAt(pc') ELSE timeout - 1
  /\ UNCHANGED <<cmd, readVars>>

\* The other four bytes of an R3 or an R7.
ReadRest ==
  /\ pc = "rest" /\ pc' = "free"
  /\ out' = IF line = "card" THEN SubSeq(out, 5, Len(out)) ELSE out
  /\ UNCHANGED <<line, sent, stream, cs, cmd, r1, timeout, readVars>>

PollBusy ==
  /\ pc = "busy"
  /\ \E byte \in 0 .. 255 :
       /\ Xfer(byte)
       /\ pc' = IF timeout = 1 THEN "fail"
                ELSE IF byte = 0 THEN "busy" ELSE "free"
  /\ timeout' = timeout - 1
  /\ UNCHANGED <<cmd, r1, readVars>>

\* __spi_sdcard_csfree: the card leaves the line.
CsFree ==
  /\ pc = "free" /\ pc' = "check"
  /\ cs' = "free" /\ out' = <<>>
  /\ UNCHANGED <<line, sent, stream, cmd, r1, timeout, readVars>>

\* The expected responses.  Only the first byte counts: the mask of an R7 is
\* 1 << 40 in an int, of which the build keeps 1 << 8.
Expected == [c \in {"CMD0", "CMD8", "CMD16"} |-> IF c = "CMD16" THEN 0 ELSE 1]

NextCmd ==
  CASE cmd = "CMD0"   -> "CMD8"
    [] cmd = "CMD8"   -> "CMD55"
    [] cmd = "CMD55"  -> "ACMD41"
    [] cmd = "ACMD41" -> IF r1 # 0 THEN "CMD55" ELSE "CMD58"
    [] cmd = "CMD58"  -> "CMD16"
    [] OTHER          -> cmd

\* __spi_sdcard_cmd_check returns an unexpected response as its error code, and
\* zero is none.
CheckResponse ==
  /\ pc = "check"
  /\ IF cmd \in DOMAIN Expected /\ r1 # Expected[cmd] /\ r1 # 0
     THEN Fails(pc) /\ UNCHANGED cmd
     ELSE /\ cmd' = NextCmd
          /\ pc' = IF cmd \in {"CMD16"} \cup Reading THEN "ready" ELSE "send"
  /\ UNCHANGED <<cardVars, cs, r1, timeout, readVars>>

-----------------------------------------------------------------------------
(***************************************************************************)
(* The driver: reads.                                                      *)
(***************************************************************************)
\* Mutant: the block counter is that of the read before.
SdReadStaleBlock(a, n) ==
  /\ Call(a, n) /\ pc' = "send"
  /\ cmd' = IF LenBlocks' > 1 THEN "CMD18" ELSE "CMD17"
  /\ swap' = NoBlock
  /\ UNCHANGED <<cardVars, cs, r1, timeout, b>>

\* One block is read with CMD17, more with CMD18.
SdRead(a, n) ==
  /\ Call(a, n) /\ pc' = "send"
  /\ cmd' = IF LenBlocks' > 1 THEN "CMD18" ELSE "CMD17"
  /\ b' = 0 /\ swap' = NoBlock
  /\ UNCHANGED <<cardVars, cs, r1, timeout>>

\* Mutant: the polls are not counted.
PollTokenForever ==
  /\ pc = "token"
  /\ \E byte \in 0 .. 255 :
       /\ Xfer(byte)
       /\ pc' = IF byte = 255 THEN "token" ELSE IF byte = Token THEN "data" ELSE "fail"
  /\ UNCHANGED <<timeout, cmd, r1, readVars>>

PollToken ==
  /\ pc = "token"
  /\ \E byte \in 0 .. 255 :
       /\ Xfer(byte)
       /\ pc' = IF timeout = 1 THEN "fail"
                ELSE IF byte = 255 THEN "token"
                ELSE IF byte = Token THEN "data" ELSE "fail"
  /\ timeout' = timeout - 1
  /\ UNCHANGED <<cmd, r1, readVars>>

FirstBlock == b = 0 /\ FirstOffs # 0
LastBlock  == b = LenBlocks - 1 /\ LastLen # BlockSize
Buffered   == FirstBlock \/ LastBlock

\* Where block b goes: buf -= first_offs, block_dst = buf + 512 * b.
Dst == BlockSize * b - FirstOffs

\* The next segment of the block, to the swap buffer or straight to memory.
ReadChunk ==
  /\ pc = "data"
  /\ LET n     == Smaller(Chunk, BlockSize - offs)
         at(j) == j \in offs .. offs + n - 1
     IN
     /\ IF Buffered
        THEN /\ swap' = [j \in Offset |-> IF at(j) THEN out[j - offs + 1] ELSE swap[j]]
             /\ UNCHANGED buf
        ELSE /\ buf' = [k \in Around |-> IF at(k - Dst) THEN out[k - Dst - offs + 1]
                                         ELSE buf[k]]
             /\ UNCHANGED swap
     /\ out' = SubSeq(out, n + 1, Len(out))
     /\ offs' = offs + n
  /\ pc' = IF offs' = BlockSize THEN "crc" ELSE "data"
  /\ UNCHANGED <<line, sent, stream, cs, cmd, r1, timeout, addr, len, b>>

Received == IF Buffered THEN swap ELSE [j \in Offset |-> buf[Dst + j]]

\* The CRC; behind it the card of a CMD18 goes on with the next block.
CheckBlock ==
  /\ pc = "crc"
  /\ pc' = IF CheckCrc /\ Received # sent THEN "fail" ELSE "copy"
  /\ IF stream >= 0 /\ stream + 1 < NumBlocks
     THEN stream' = stream + 1 /\ SendsBlock(stream', <<>>)
     ELSE UNCHANGED <<out, sent, stream>>
  /\ UNCHANGED <<line, cs, cmd, r1, timeout, readVars>>

\* The bytes of the swap buffer that are wanted (mutant: all behind the first).
WantedToEnd(j) == FirstBlock => j >= FirstOffs

Wanted(j) == (FirstBlock => j >= FirstOffs) /\ (LastBlock => j < LastLen)

Copied ==
  [k \in Around |-> IF Buffered /\ k - Dst \in Offset /\ Wanted(k - Dst)
                    THEN swap[k - Dst] ELSE buf[k]]

\* Mutant: a CMD18 is left running.
CopyBlockNoStop ==
  /\ pc = "copy"
  /\ buf' = Copied
  /\ b' = b + 1 /\ offs' = 0
  /\ pc' = IF b + 1 < LenBlocks THEN "token" ELSE "free"
  /\ timeout' = DataTimeout
  /\ UNCHANGED <<cardVars, cs, cmd, r1, addr, len, swap>>

\* ... and the next block; behind the last, CMD12 if there were several.
CopyBlock ==
  /\ pc = "copy"
  /\ buf' = Copied
  /\ b' = b + 1 /\ offs' = 0
  /\ IF b + 1 < LenBlocks THEN pc' = "token" /\ cmd' = cmd
     ELSE IF LenBlocks > 1 THEN pc' = "send" /\ cmd' = "CMD12"
     ELSE pc' = "free" /\ cmd' = cmd
  /\ timeout' = DataTimeout
  /\ UNCHANGED <<cardVars, cs, r1, addr, len, swap>>

-----------------------------------------------------------------------------
SdDriver ==
  \/ Wake \/ SendCmd \/ DiscardStuffByte \/ PollResponse \/ ReadRest \/ PollBusy
  \/ CsFree \/ CheckResponse
  \/ PollToken \/ ReadChunk \/ CheckBlock \/ CopyBlock
=============================================================================
