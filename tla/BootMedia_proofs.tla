-------------------------- MODULE BootMedia_proofs --------------------------
(***************************************************************************)
(* Proofs about BootMedia for media, blocks, FIFOs and segments of any     *)
(* size, any limits of the polls and any latency of the card.              *)
(***************************************************************************)
EXTENDS BootMedia, TLAPS, SequenceTheorems

\* FairSpec implies Spec, of which the theorems are.  Without the CRC the SD driver
\* takes what the line has corrupted for the medium's bytes: what is said of the
\* data needs CheckCrc.

-----------------------------------------------------------------------------
(***************************************************************************)
(* The inductive invariant: where the driver is, and what the device has   *)
(* still to send.                                                          *)
(***************************************************************************)
BlockPlaces == {"token", "data", "crc", "copy"}
SdPlaces    == {"wake", "send", "stuff", "response", "rest", "busy", "free", "check"}
                 \cup BlockPlaces
I2cPlaces   == {"i2cWait", "i2cQueue", "i2cPoll"}

\* A medium's driver leaves the other devices alone.
PlaceInv ==
  /\ pc \in SdPlaces => mode = "sd"
  /\ pc = "norChunk" => mode = "nor"
  /\ pc \in I2cPlaces => mode = "i2c"
  /\ mode # "sd" => cs = "free" /\ stream = -1
  /\ pc # "i2cPoll" => fmt = <<>> /\ rx = <<>>

\* Which command the SD driver is in, and that a CMD18 is not left without CMD12.
CmdInv ==
  mode = "sd" =>
    /\ pc \in {"main", "wake"} => cmd = "CMD0"
    /\ pc = "rest" => cmd \in {"CMD8", "CMD58"}
    /\ pc \in {"stuff", "busy"} => cmd = "CMD12"
    /\ pc \in BlockPlaces => cmd \in {"CMD17", "CMD18"}
    /\ pc \in {"free", "check", "ready"} => cmd # "CMD18"
    /\ pc \in {"check", "ready"} => cs = "free"
    /\ pc \in {"stuff", "response", "busy", "token"} => timeout >= 1
    /\ stream # -1 => cmd = "CMD18" \/ (cmd = "CMD12" /\ pc = "send")
    /\ line # "card" => out = <<>> /\ stream = -1

\* The first token in bytes o behind the k-th, with idle bytes before it, has all of
\* block n behind it; s is what its CRC is of, and t where a CMD18 (c) has come to.
Ahead(o, s, t, c, k, n) ==
  \A m \in k + 1 .. Len(o) :
    o[m] = Token /\ (\A l \in k + 1 .. m - 1 : o[l] = 255) =>
      Len(o) - m = BlockSize /\ s = Block(n) /\ (c = "CMD18" => t = n)

\* The same behind the first byte that is a response.
Answered(o, s, t, c, n) ==
  \A k \in 1 .. Len(o) :
    o[k] < 128 /\ (\A l \in 1 .. k - 1 : o[l] >= 128) => Ahead(o, s, t, c, k, n)

\* The block of the medium that block b of the read is.
At == (addr \div BlockSize) + b

Asked == len >= 1 /\ addr + len <= Size

\* A read of the card is at block b of those it has, and so is the card.
BlockInv ==
  mode = "sd" /\ cmd \in Reading =>
    /\ Asked
    /\ cmd = "CMD17" <=> LenBlocks = 1
    /\ b \in 0 .. LenBlocks
    /\ pc \in {"send", "response"} /\ cmd # "CMD12" => b = 0 /\ offs = 0
    /\ pc \in BlockPlaces => b < LenBlocks
    /\ cmd = "CMD12" \/ pc \in {"free", "check"} => b = LenBlocks
    /\ pc = "response" /\ cmd # "CMD12" => Answered(out, sent, stream, cmd, At)
    /\ pc = "token" => offs = 0 /\ Ahead(out, sent, stream, cmd, 0, At)
    /\ pc = "data" => offs < BlockSize
    /\ pc \in {"data", "crc"} =>
         /\ line = "card" /\ Len(out) = BlockSize - offs
         /\ sent = Block(At) /\ (cmd = "CMD18" => stream = At)
    /\ pc = "crc" => offs = BlockSize
    /\ pc = "copy" => Ahead(out, sent, stream, cmd, 0, At + 1)

NorInv == pc = "norChunk" => Asked /\ offs < len

High == (addr + offs) \div Base
Low  == (addr + offs) % Base

\* The commands of a chunk from the one the host is at, with n bytes to receive.
Queued(n) ==
  {<<<<"start", "write">>, <<"tx", High % Base>>, <<"tx", Low>>, <<"start", "read">>,
     <<"rx", n>>>>,
   <<<<"tx", High % Base>>, <<"tx", Low>>, <<"start", "read">>, <<"rx", n>>>>,
   <<<<"tx", Low>>, <<"start", "read">>, <<"rx", n>>>>,
   <<<<"start", "read">>, <<"rx", n>>>>}

\* What was asked for has been received in r or is to come by the commands f.
Going(f, r) ==
  \/ r = <<>> /\ f \in Queued(I2cLength)
  \/ f = <<<<"rx", I2cLength - Len(r)>>>> /\ Len(r) < I2cLength
  \/ f = <<>> /\ Len(r) = I2cLength

\* Chunks begin at FIFO boundaries but for the first.
ChunkInv ==
  pc \in I2cPlaces =>
    /\ Asked /\ offs < len
    /\ offs = 0 \/ (addr + offs) % Fifo = 0
    /\ pc = "i2cPoll" => Going(fmt, rx)

BootInv == TypeOK /\ PlaceInv /\ CmdInv /\ BlockInv /\ NorInv /\ ChunkInv

\* The bytes that are done are the medium's.
DoneTo(n) == \A k \in 0 .. len - 1 : k < n => buf[k] = Medium[addr + k]

\* A block whose CRC was right is the medium's.
SdDataInv ==
  mode = "sd" /\ cmd \in Reading =>
    /\ DoneTo(Dst)
    /\ pc = "copy" => Received = Block(At)

\* The chip's counter is at the byte that comes next, once the address is there.
ChipInv ==
  pc = "i2cPoll" =>
    /\ Len(fmt) = 3 => chip.at % Base = High % Base
    /\ Len(fmt) <= 2 /\ addr + offs + Len(rx) < Size => chip.at = addr + offs + Len(rx)
    /\ \A j \in 1 .. Len(rx) :
         addr + offs + j - 1 < Size => rx[j] = Medium[addr + offs + j - 1]

DataInv ==
  /\ SdDataInv /\ ChipInv
  /\ pc \in I2cPlaces \cup {"norChunk"} => DoneTo(offs)

-----------------------------------------------------------------------------
(***************************************************************************)
(* Blocks.                                                                 *)
(***************************************************************************)
LEMMA Division ==
  ASSUME NEW n \in Nat, NEW w \in Nat \ {0}
  PROVE  n % w \in 0 .. w - 1 /\ n = w * (n \div w) + (n % w) /\ n \div w \in Nat
OBVIOUS

\* And back: q and r are what w times q, and r, divide into.
LEMMA Quotient ==
  ASSUME NEW w \in Nat \ {0}, NEW q \in Nat, NEW r \in 0 .. w - 1
  PROVE  (w * q + r) \div w = q /\ (w * q + r) % w = r
OBVIOUS

\* Products keep the order.
LEMMA Product ==
  ASSUME NEW w \in Nat, NEW p \in Int, NEW q \in Int, p <= q
  PROVE  w * p <= w * q /\ w * p \in Int /\ w * q \in Int
<1>1. q - p \in Nat
  OBVIOUS
<1>2. w * (q - p) \in Nat
  BY <1>1
<1>3. QED
  BY <1>2

\* A product of a sum, for the solver.
LEMMA Distributive ==
  ASSUME NEW w \in Int, NEW p \in Int, NEW q \in Int
  PROVE  w * (p + q) = w * p + w * q
OBVIOUS

\* What the assumptions say of each constant.
LEMMA Constants ==
  /\ BlockSize \in Nat \ {0} /\ NumBlocks \in Nat \ {0} /\ Size = BlockSize * NumBlocks
  /\ Margin \in Nat /\ Margin >= BlockSize /\ Size \in Nat \ {0} /\ Chunk \in Nat \ {0}
  /\ CmdTimeout \in Nat \ {0, 1} /\ DataTimeout \in Nat \ {0, 1} /\ BusyTimeout \in Nat \ {0, 1}
  /\ Medium \in [0 .. Size - 1 -> 0 .. 255] /\ Unread \notin 0 .. 255
  /\ Fifo \in Nat \ {0} /\ Base \in Nat \ {0} /\ Size <= Base * Base
  /\ MaxLatency \in Nat
BY MediumAssumption, SdCardAssumption, I2cAssumption

\* The blocks of a read of n bytes from a: l of them, z bytes of the last.
LEMMA BlockArithmetic ==
  ASSUME NEW a \in Nat, NEW n \in Nat \ {0}, a + n <= Size,
         NEW q, NEW r, NEW l, NEW e,
         q = a \div BlockSize, r = a % BlockSize,
         l = (n + r + BlockSize - 1) \div BlockSize, e = (a + n) % BlockSize
  PROVE  /\ q \in Nat /\ r \in 0 .. BlockSize - 1 /\ a = BlockSize * q + r
         /\ l \in Nat \ {0} /\ q + l <= NumBlocks
         /\ (IF e = 0 THEN BlockSize ELSE e) \in 1 .. BlockSize
         /\ n + r = BlockSize * (l - 1) + (IF e = 0 THEN BlockSize ELSE e)
<1>0. BlockSize \in Nat \ {0} /\ NumBlocks \in Nat /\ Size = BlockSize * NumBlocks
  BY Constants
<1>1. q \in Nat /\ r \in 0 .. BlockSize - 1 /\ a = BlockSize * q + r
  BY <1>0, Division
<1>2. n + r \in Nat /\ n + r + BlockSize - 1 \in Nat
  BY <1>0, <1>1
<1>3. /\ l \in Nat /\ BlockSize * l <= n + r + BlockSize - 1
      /\ n + r + BlockSize - 1 < BlockSize * l + BlockSize
  <2>1. /\ (n + r + BlockSize - 1) % BlockSize \in 0 .. BlockSize - 1
        /\ n + r + BlockSize - 1 = BlockSize * l + ((n + r + BlockSize - 1) % BlockSize)
        /\ l \in Nat
    BY <1>0, <1>2, Division
  <2>2. BlockSize * l \in Nat
    BY <1>0, <2>1
  <2>3. QED
    BY <1>0, <1>2, <2>1, <2>2
<1>4. l # 0
  BY <1>0, <1>1, <1>3
<1>5. l - 1 \in Nat /\ BlockSize * (l - 1) = BlockSize * l - BlockSize
      /\ BlockSize * l \in Nat
  BY <1>0, <1>3, <1>4
<1>6. PICK z \in 1 .. BlockSize : n + r = BlockSize * (l - 1) + z
  <2>1. \A x \in Int : n + r = x + (n + r - x)
    BY <1>2
  <2>2. n + r - BlockSize * (l - 1) \in 1 .. BlockSize /\ BlockSize * (l - 1) \in Int
    BY <1>0, <1>2, <1>3, <1>5
  <2>3. QED
    BY <2>1, <2>2
<1>7. a + n = BlockSize * (q + (l - 1)) + z
  <2>1. BlockSize * (q + (l - 1)) = BlockSize * q + BlockSize * (l - 1)
    <3>1. BlockSize \in Int /\ q \in Int /\ l - 1 \in Int
      BY <1>0, <1>1, <1>5
    <3>2. QED
      BY <3>1, Distributive
  <2>2. BlockSize * q \in Nat /\ BlockSize * (l - 1) \in Nat
    BY <1>0, <1>1, <1>5
  <2>3. QED
    BY <1>1, <1>6, <2>1, <2>2
<1>8. z = IF e = 0 THEN BlockSize ELSE e
  <2>1. CASE z = BlockSize
    <3>1. a + n = BlockSize * (q + l) + 0
      BY <1>0, <1>1, <1>3, <1>5, <1>7, <2>1
    <3>2. e = 0
      <4>1. q + l \in Nat /\ 0 \in 0 .. BlockSize - 1
        BY <1>0, <1>1, <1>3
      <4>2. (BlockSize * (q + l) + 0) % BlockSize = 0
        BY <1>0, <4>1, Quotient
      <4>3. QED
        BY <3>1, <4>2
    <3>3. QED
      BY <2>1, <3>2
  <2>2. CASE z # BlockSize
    <3>1. z \in 0 .. BlockSize - 1 /\ z # 0 /\ q + (l - 1) \in Nat
      BY <1>0, <1>1, <1>5, <1>6, <2>2
    <3>2. e = z
      <4>1. (BlockSize * (q + (l - 1)) + z) % BlockSize = z
        BY <1>0, <3>1, Quotient
      <4>2. QED
        BY <1>7, <4>1
    <3>3. QED
      BY <3>1, <3>2
  <2>3. QED
    BY <2>1, <2>2
<1>9. q + l <= NumBlocks
  <2>1. SUFFICES ASSUME NumBlocks <= q + (l - 1) PROVE FALSE
    BY <1>0, <1>1, <1>3
  <2>2. BlockSize * NumBlocks <= BlockSize * (q + (l - 1))
    BY <1>0, <1>1, <1>5, <2>1, Product
  <2>3. BlockSize * (q + (l - 1)) \in Nat /\ BlockSize * NumBlocks \in Nat
    BY <1>0, <1>1, <1>5
  <2>4. QED
    BY <1>0, <1>6, <1>7, <2>2, <2>3
<1>10. QED
  BY <1>1, <1>3, <1>4, <1>6, <1>8, <1>9

\* The same of the read that is under way.
LEMMA BlockFacts ==
  ASSUME TypeOK, Asked
  PROVE  /\ addr \div BlockSize \in Nat /\ FirstOffs \in 0 .. BlockSize - 1
         /\ addr = BlockSize * (addr \div BlockSize) + FirstOffs
         /\ LenBlocks \in Nat \ {0} /\ (addr \div BlockSize) + LenBlocks <= NumBlocks
         /\ LastLen \in 1 .. BlockSize
         /\ len + FirstOffs = BlockSize * (LenBlocks - 1) + LastLen
<1>1. addr \in Nat /\ len \in Nat \ {0} /\ addr + len <= Size
  BY DEF TypeOK, CallTypeOK, Asked
<1>2. QED
  BY <1>1, BlockArithmetic DEF FirstOffs, LenBlocks, LastLen, PteOffs

\* Block b's place in memory, and in the medium.
LEMMA BlockPlace ==
  ASSUME TypeOK, Asked, b \in 0 .. LenBlocks - 1
  PROVE  /\ At \in 0 .. NumBlocks - 1 /\ b \in Nat
         /\ Dst \in Int /\ \A j \in Offset : Dst + j \in Around
         /\ BlockSize * (b + 1) - FirstOffs = Dst + BlockSize
         /\ b = 0 => Dst = -FirstOffs
         /\ b # 0 => Dst >= 0
         /\ b # LenBlocks - 1 => Dst + BlockSize <= len
         /\ b = LenBlocks - 1 => Dst + LastLen = len
         /\ \A j \in Offset : addr + (Dst + j) = BlockSize * At + j
<1>0. BlockSize \in Nat \ {0} /\ Margin \in Nat /\ Margin >= BlockSize /\ Size \in Nat
  BY Constants
<1>1. /\ addr \div BlockSize \in Nat /\ FirstOffs \in 0 .. BlockSize - 1
      /\ addr = BlockSize * (addr \div BlockSize) + FirstOffs
      /\ LenBlocks \in Nat \ {0} /\ (addr \div BlockSize) + LenBlocks <= NumBlocks
      /\ LastLen \in 1 .. BlockSize
      /\ len + FirstOffs = BlockSize * (LenBlocks - 1) + LastLen
  BY BlockFacts
<1>2. b \in Nat /\ b <= LenBlocks - 1 /\ len \in 0 .. Size /\ NumBlocks \in Nat
  BY <1>1, Constants DEF TypeOK, CallTypeOK
<1>3. At \in 0 .. NumBlocks - 1
  BY <1>1, <1>2 DEF At
<1>4. /\ BlockSize * b \in Nat /\ BlockSize * (LenBlocks - 1) \in Nat
      /\ BlockSize * (b + 1) = BlockSize * b + BlockSize
      /\ BlockSize * b <= BlockSize * (LenBlocks - 1)
  <2>1. BlockSize * b <= BlockSize * (LenBlocks - 1)
    BY <1>0, <1>1, <1>2, Product
  <2>2. QED
    BY <1>0, <1>1, <1>2, <2>1
<1>5. Dst \in Int /\ Dst = BlockSize * b - FirstOffs
  BY <1>1, <1>4 DEF Dst
<1>6. BlockSize * (b + 1) - FirstOffs = Dst + BlockSize
  BY <1>0, <1>1, <1>4, <1>5
<1>7. b = 0 => Dst = -FirstOffs
  BY <1>0, <1>1, <1>5
<1>8. b # 0 => Dst >= 0
  <2>1. b # 0 => BlockSize * 1 <= BlockSize * b
    BY <1>0, <1>2, Product
  <2>2. QED
    BY <1>0, <1>1, <1>4, <1>5, <2>1
<1>9. b # LenBlocks - 1 => Dst + BlockSize <= len
  <2>1. b # LenBlocks - 1 => BlockSize * (b + 1) <= BlockSize * (LenBlocks - 1)
    BY <1>0, <1>1, <1>2, Product
  <2>2. QED
    BY <1>0, <1>1, <1>2, <1>4, <1>5, <2>1
<1>10. b = LenBlocks - 1 => Dst + LastLen = len
  BY <1>1, <1>2, <1>4, <1>5
<1>11. ASSUME NEW j \in Offset PROVE Dst + j \in Around
  <2>1. j \in 0 .. BlockSize - 1
    BY DEF Offset
  <2>2. Dst >= -BlockSize /\ Dst + BlockSize <= len + BlockSize
    BY <1>0, <1>1, <1>2, <1>4, <1>5
  <2>3. Dst + j >= -Margin /\ Dst + j <= Size + Margin /\ Dst + j \in Int
    BY <1>0, <1>2, <1>5, <2>1, <2>2
  <2>4. QED
    BY <1>0, <2>3 DEF Around
<1>12. ASSUME NEW j \in Offset PROVE addr + (Dst + j) = BlockSize * At + j
  <2>1. j \in Int
    BY <1>0 DEF Offset
  <2>2. /\ BlockSize * At = BlockSize * (addr \div BlockSize) + BlockSize * b
        /\ BlockSize * (addr \div BlockSize) \in Nat
    BY <1>0, <1>1, <1>2 DEF At
  <2>3. QED
    BY <1>1, <1>4, <1>5, <2>1, <2>2
<1>13. QED
  BY <1>2, <1>3, <1>5, <1>6, <1>7, <1>8, <1>9, <1>10, <1>11, <1>12

-----------------------------------------------------------------------------
(***************************************************************************)
(* What is on the line.                                                    *)
(***************************************************************************)
LEMMA TimesFacts ==
  ASSUME NEW n \in Nat, NEW v \in 0 .. 255
  PROVE  /\ Times(n, v) \in Seq(0 .. 255) /\ Len(Times(n, v)) = n
         /\ \A k \in 1 .. n : Times(n, v)[k] = v
<1>1. Times(n, v) \in [1 .. n -> 0 .. 255]
  BY DEF Times
<1>2. QED
  BY <1>1 DEF Times

\* o, then idle bytes, then v.
Behind(o, w, v) == (o \o Times(w, 255)) \o <<v>>

Waited(p, o, w, v) ==
  /\ p \in Seq(0 .. 255) /\ Len(o) \in Nat /\ Len(p) = Len(o) + w + 1
  /\ \A k \in 1 .. Len(o) : p[k] = o[k]
  /\ \A k \in Len(o) + 1 .. Len(o) + w : p[k] = 255
  /\ p[Len(o) + w + 1] = v

\* Behind is a sequence of bytes, and its bytes are where Waited says.
LEMMA WaitFacts ==
  ASSUME NEW o \in Seq(0 .. 255), NEW w \in Nat, NEW v \in 0 .. 255
  PROVE  Waited(Behind(o, w, v), o, w, v)
<1> DEFINE q == o \o Times(w, 255)
<1>1. /\ q \in Seq(0 .. 255) /\ Len(q) = Len(o) + w /\ Len(o) \in Nat
      /\ \A k \in 1 .. Len(o) + w : q[k] = IF k <= Len(o) THEN o[k] ELSE 255
  <2>1. 255 \in 0 .. 255 /\ w \in Nat
    OBVIOUS
  <2>2. /\ Times(w, 255) \in Seq(0 .. 255) /\ Len(Times(w, 255)) = w
        /\ \A k \in 1 .. w : Times(w, 255)[k] = 255
    <3>1. Times(w, 255) \in [1 .. w -> 0 .. 255]
      BY <2>1 DEF Times
    <3>2. QED
      BY <3>1 DEF Times
  <2>3. Len(o) \in Nat
    OBVIOUS
  <2>4. \A k \in 1 .. Len(o) + w : ~(k <= Len(o)) => k - Len(o) \in 1 .. w
    BY <2>3
  <2>5. /\ q \in Seq(0 .. 255) /\ Len(q) = Len(o) + Len(Times(w, 255))
        /\ \A k \in 1 .. Len(o) + Len(Times(w, 255)) :
             q[k] = IF k <= Len(o) THEN o[k] ELSE Times(w, 255)[k - Len(o)]
    BY <2>2, ConcatProperties
  <2>6. ASSUME NEW k \in 1 .. Len(o) + w
        PROVE  q[k] = IF k <= Len(o) THEN o[k] ELSE 255
    <3>1. q[k] = IF k <= Len(o) THEN o[k] ELSE Times(w, 255)[k - Len(o)]
      BY <2>2, <2>5
    <3>2. CASE k <= Len(o)
      BY <3>1, <3>2
    <3>3. CASE ~(k <= Len(o))
      BY <2>2, <2>4, <3>1, <3>3
    <3>4. QED
      BY <3>2, <3>3
  <2>7. QED
    BY <2>2, <2>3, <2>5, <2>6
<1> HIDE DEF q
<1>2. /\ q \o <<v>> \in Seq(0 .. 255) /\ Len(q \o <<v>>) = Len(q) + Len(<<v>>)
      /\ \A k \in 1 .. Len(q) + Len(<<v>>) :
           (q \o <<v>>)[k] = IF k <= Len(q) THEN q[k] ELSE <<v>>[k - Len(q)]
  <2>1. <<v>> \in Seq(0 .. 255)
    OBVIOUS
  <2>2. q \in Seq(0 .. 255)
    BY <1>1
  <2>3. QED
    BY <2>1, <2>2, ConcatProperties
<1>3. Len(<<v>>) = 1 /\ <<v>>[1] = v
  OBVIOUS
<1>4. /\ Len(q \o <<v>>) = Len(o) + w + 1
      /\ \A k \in 1 .. Len(o) + w : (q \o <<v>>)[k] = q[k]
      /\ (q \o <<v>>)[Len(o) + w + 1] = v
  <2>1. (Len(o) + w + 1) - Len(q) = 1
    BY <1>1
  <2>2. QED
    BY <1>1, <1>2, <1>3, <2>1
<1>5. QED
  <2>1. \A k \in 1 .. Len(o) : (q \o <<v>>)[k] = o[k]
    BY <1>1, <1>4
  <2>2. \A k \in Len(o) + 1 .. Len(o) + w : (q \o <<v>>)[k] = 255
    BY <1>1, <1>4
  <2>3. Behind(o, w, v) = q \o <<v>>
    BY DEF Behind, q
  <2>4. QED
    BY <1>1, <1>2, <1>4, <2>1, <2>2, <2>3 DEF Waited

\* The line without its first byte.
LEMMA Rest ==
  ASSUME NEW o \in Seq(0 .. 255), o # <<>>
  PROVE  /\ Head(o) = o[1] /\ o[1] \in 0 .. 255 /\ Tail(o) \in Seq(0 .. 255)
         /\ Len(o) \in Nat /\ Len(Tail(o)) = Len(o) - 1 /\ Len(o) >= 1
         /\ \A k \in 1 .. Len(o) - 1 : Tail(o)[k] = o[k + 1]
<1>1. /\ Head(o) \in 0 .. 255 /\ Tail(o) \in Seq(0 .. 255) /\ Len(Tail(o)) = Len(o) - 1
      /\ \A k \in 1 .. Len(Tail(o)) : Tail(o)[k] = o[k + 1]
  BY HeadTailProperties
<1>2. Len(o) \in Nat \ {0}
  BY EmptySeq
<1>3. Head(o) = o[1]
  OBVIOUS
<1>4. QED
  BY <1>1, <1>2, <1>3

\* What is ahead of a place stays ahead when the first byte is gone.
LEMMA TailAhead ==
  ASSUME NEW o \in Seq(0 .. 255), o # <<>>, NEW s, NEW t, NEW c, NEW k \in Nat, NEW n,
         Ahead(o, s, t, c, k + 1, n)
  PROVE  Ahead(Tail(o), s, t, c, k, n)
<1>1. /\ Len(o) \in Nat /\ Len(Tail(o)) = Len(o) - 1
      /\ \A j \in 1 .. Len(o) - 1 : Tail(o)[j] = o[j + 1]
  BY Rest
<1>2. ASSUME NEW m \in k + 1 .. Len(Tail(o)), Tail(o)[m] = Token,
             \A l \in k + 1 .. m - 1 : Tail(o)[l] = 255
      PROVE  Len(Tail(o)) - m = BlockSize /\ s = Block(n) /\ (c = "CMD18" => t = n)
  <2>1. m + 1 \in (k + 1) + 1 .. Len(o) /\ m \in 1 .. Len(o) - 1
    BY <1>1
  <2>2. o[m + 1] = Token
    BY <1>1, <1>2, <2>1
  <2>3. ASSUME NEW l \in (k + 1) + 1 .. (m + 1) - 1 PROVE o[l] = 255
    <3>1. l - 1 \in k + 1 .. m - 1 /\ l - 1 \in 1 .. Len(o) - 1 /\ (l - 1) + 1 = l
      BY <1>1, <2>1
    <3>2. Tail(o)[l - 1] = 255 /\ Tail(o)[l - 1] = o[(l - 1) + 1]
      BY <1>1, <1>2, <3>1
    <3>3. QED
      BY <3>1, <3>2
  <2>4. Len(o) - (m + 1) = BlockSize /\ s = Block(n) /\ (c = "CMD18" => t = n)
    BY <2>1, <2>2, <2>3 DEF Ahead
  <2>5. Len(Tail(o)) - m = Len(o) - (m + 1)
    BY <1>1, <2>1
  <2>6. QED
    BY <2>4, <2>5
<1>3. QED
  BY <1>2 DEF Ahead

\* An idle byte before the token may be taken.
LEMMA SkipAhead ==
  ASSUME NEW o \in Seq(0 .. 255), o # <<>>, NEW s, NEW t, NEW c, NEW n,
         o[1] = 255, Ahead(o, s, t, c, 0, n)
  PROVE  Ahead(Tail(o), s, t, c, 0, n)
<1>1. Ahead(o, s, t, c, 0 + 1, n)
  <2>1. ASSUME NEW m \in (0 + 1) + 1 .. Len(o), o[m] = Token,
               \A l \in (0 + 1) + 1 .. m - 1 : o[l] = 255
        PROVE  Len(o) - m = BlockSize /\ s = Block(n) /\ (c = "CMD18" => t = n)
    <3>1. m \in 0 + 1 .. Len(o) /\ m >= 2
      BY LenProperties
    <3>2. ASSUME NEW l \in 0 + 1 .. m - 1 PROVE o[l] = 255
      <4>1. l = 1 \/ l \in (0 + 1) + 1 .. m - 1
        BY <3>1
      <4>2. QED
        BY <2>1, <4>1
    <3>3. QED
      BY <2>1, <3>1, <3>2 DEF Ahead
  <2>2. QED
    BY <2>1 DEF Ahead
<1>2. QED
  BY <1>1, TailAhead

\* The token itself.
LEMMA FirstAhead ==
  ASSUME NEW o \in Seq(0 .. 255), o # <<>>, NEW s, NEW t, NEW c, NEW n,
         o[1] = Token, Ahead(o, s, t, c, 0, n)
  PROVE  Len(o) - 1 = BlockSize /\ s = Block(n) /\ (c = "CMD18" => t = n)
<1>1. Len(o) \in Nat /\ Len(o) >= 1
  BY Rest
<1>2. 1 \in 0 + 1 .. Len(o) /\ \A l \in 0 + 1 .. 1 - 1 : o[l] = 255
  BY <1>1
<1>3. QED
  BY <1>2 DEF Ahead

\* Behind a byte that is no response, and behind one that is.
LEMMA TailAnswered ==
  ASSUME NEW o \in Seq(0 .. 255), o # <<>>, NEW s, NEW t, NEW c, NEW n,
         Answered(o, s, t, c, n)
  PROVE  /\ o[1] >= 128 => Answered(Tail(o), s, t, c, n)
         /\ o[1] < 128 => Ahead(Tail(o), s, t, c, 0, n)
<1>1. /\ Len(o) \in Nat /\ Len(Tail(o)) = Len(o) - 1 /\ Len(o) >= 1 /\ o[1] \in 0 .. 255
      /\ \A j \in 1 .. Len(o) - 1 : Tail(o)[j] = o[j + 1]
  BY Rest
<1>2. ASSUME o[1] >= 128 PROVE Answered(Tail(o), s, t, c, n)
  <2>1. ASSUME NEW k \in 1 .. Len(Tail(o)), Tail(o)[k] < 128,
               \A l \in 1 .. k - 1 : Tail(o)[l] >= 128
        PROVE  Ahead(Tail(o), s, t, c, k, n)
    <3>1. k + 1 \in 1 .. Len(o) /\ k \in 1 .. Len(o) - 1 /\ k \in Nat
      BY <1>1
    <3>2. o[k + 1] < 128
      BY <1>1, <2>1, <3>1
    <3>3. ASSUME NEW l \in 1 .. (k + 1) - 1 PROVE o[l] >= 128
      <4>1. CASE l = 1
        BY <1>2, <4>1
      <4>2. CASE l # 1
        <5>1. l - 1 \in 1 .. k - 1 /\ l - 1 \in 1 .. Len(o) - 1 /\ (l - 1) + 1 = l
          BY <3>1, <4>2
        <5>2. Tail(o)[l - 1] >= 128 /\ Tail(o)[l - 1] = o[(l - 1) + 1]
          BY <1>1, <2>1, <5>1
        <5>3. QED
          BY <5>1, <5>2
      <4>3. QED
        BY <4>1, <4>2
    <3>4. Ahead(o, s, t, c, k + 1, n)
      BY <3>1, <3>2, <3>3 DEF Answered
    <3>5. QED
      BY <3>1, <3>4, TailAhead
  <2>2. QED
    BY <2>1 DEF Answered
<1>3. ASSUME o[1] < 128 PROVE Ahead(Tail(o), s, t, c, 0, n)
  <2>1. 1 \in 1 .. Len(o) /\ \A l \in 1 .. 1 - 1 : o[l] >= 128
    BY <1>1
  <2>2. Ahead(o, s, t, c, 0 + 1, n)
    BY <1>3, <2>1 DEF Answered
  <2>3. QED
    BY <2>2, TailAhead
<1>4. QED
  BY <1>2, <1>3

\* On an empty line nothing is ahead.
LEMMA EmptyAhead ==
  ASSUME NEW s, NEW t, NEW c, NEW n
  PROVE  Ahead(<<>>, s, t, c, 0, n) /\ Answered(<<>>, s, t, c, n)
BY DEF Ahead, Answered

\* A block of the medium.
LEMMA BlockBytes ==
  ASSUME NEW n \in 0 .. NumBlocks - 1
  PROVE  Block(n) \in [Offset -> 0 .. 255]
<1>1. ASSUME NEW j \in Offset PROVE Medium[BlockSize * n + j] \in 0 .. 255
  <2>1. /\ BlockSize \in Nat \ {0} /\ NumBlocks \in Nat /\ Size = BlockSize * NumBlocks
        /\ Medium \in [0 .. Size - 1 -> 0 .. 255]
    BY Constants
  <2>2. j \in 0 .. BlockSize - 1
    BY DEF Offset
  <2>3. BlockSize * (n + 1) <= BlockSize * NumBlocks
    BY <2>1, Product
  <2>4. /\ BlockSize * (n + 1) = BlockSize * n + BlockSize /\ BlockSize * n \in Nat
        /\ BlockSize * NumBlocks \in Nat
    BY <2>1
  <2>5. BlockSize * n + j \in 0 .. Size - 1
    BY <2>1, <2>2, <2>3, <2>4
  <2>6. QED
    BY <2>1, <2>5
<1>2. QED
  BY <1>1 DEF Block

\* A block on the line has the bytes of a block, whole or not.
LEMMA TransferBytes ==
  ASSUME NEW n \in 0 .. NumBlocks - 1, NEW bytes \in Transfers(n)
  PROVE  bytes \in Seq(0 .. 255) /\ Len(bytes) = BlockSize
<1> DEFINE whole == [j \in 1 .. BlockSize |-> Block(n)[j - 1]]
<1>0. BlockSize \in Nat \ {0}
  BY Constants
<1>1. whole \in [1 .. BlockSize -> 0 .. 255]
  <2>1. \A j \in 1 .. BlockSize : j - 1 \in Offset
    BY <1>0 DEF Offset
  <2>2. QED
    BY <2>1, BlockBytes
<1>2. bytes \in {whole} \cup {[whole EXCEPT ![j] = (@ + 1) % 256] : j \in 1 .. BlockSize}
  BY DEF Transfers
<1> HIDE DEF whole
<1>3. ASSUME NEW j \in 1 .. BlockSize
      PROVE  [whole EXCEPT ![j] = (@ + 1) % 256] \in [1 .. BlockSize -> 0 .. 255]
  <2>0. whole[j] \in 0 .. 255
    BY <1>1
  <2>1. (whole[j] + 1) % 256 \in 0 .. 255
    BY <2>0
  <2>2. QED
    BY <1>1, <2>1
<1>4. bytes \in [1 .. BlockSize -> 0 .. 255]
  <2>1. CASE bytes = whole
    BY <1>1, <2>1
  <2>2. CASE \E j \in 1 .. BlockSize : bytes = [whole EXCEPT ![j] = (@ + 1) % 256]
    BY <1>3, <2>2
  <2>3. QED
    BY <1>2, <2>1, <2>2
<1>5. bytes \in Seq(0 .. 255)
  BY <1>0, <1>4, SeqDef
<1>6. Len(bytes) \in Nat /\ DOMAIN bytes = 1 .. Len(bytes)
  BY <1>5, LenProperties
<1>7. Len(bytes) = BlockSize
  <2>1. DOMAIN bytes = 1 .. BlockSize
    BY <1>4
  <2>2. PICK l \in Nat : l = Len(bytes)
    BY <1>6
  <2>3. 1 .. l = 1 .. BlockSize
    BY <1>6, <2>1, <2>2
  <2>4. l = BlockSize
    BY <1>0, <2>3
  <2>5. QED
    BY <2>2, <2>4
<1>8. QED
  BY <1>5, <1>7

\* p is o and something behind it; the first token there has all of block n behind it.
Sent(p, o, s, t, c, n) ==
  /\ p \in Seq(0 .. 255) /\ Len(o) \in Nat /\ Len(p) \in Nat /\ Len(o) < Len(p)
  /\ \A k \in 1 .. Len(o) : p[k] = o[k]
  /\ Ahead(p, s, t, c, Len(o), n)

\* o, then idle bytes and a block: the first token has the block behind it.
LEMMA SentAhead ==
  ASSUME NEW o \in Seq(0 .. 255), NEW w \in Nat, NEW n \in 0 .. NumBlocks - 1,
         NEW bytes \in Transfers(n), NEW c, NEW t, c = "CMD18" => t = n, NEW p,
         p = Behind(o, w, Token) \o bytes
  PROVE  Sent(p, o, Block(n), t, c, n)
<1>0. Token \in 0 .. 255 /\ BlockSize \in Nat
  BY Constants DEF Token
<1>1. PICK q : q = Behind(o, w, Token)
  OBVIOUS
<1>2. /\ q \in Seq(0 .. 255) /\ Len(o) \in Nat /\ Len(q) = Len(o) + w + 1
      /\ \A k \in 1 .. Len(o) : q[k] = o[k]
      /\ \A k \in Len(o) + 1 .. Len(o) + w : q[k] = 255
      /\ q[Len(o) + w + 1] = Token
  <2>1. Waited(q, o, w, Token)
    BY <1>0, <1>1, WaitFacts
  <2>2. QED
    BY <2>1 DEF Waited
<1>3. bytes \in Seq(0 .. 255) /\ Len(bytes) = BlockSize
  BY TransferBytes
<1>4. /\ p \in Seq(0 .. 255) /\ Len(p) = Len(q) + Len(bytes)
      /\ \A k \in 1 .. Len(q) + Len(bytes) :
           p[k] = IF k <= Len(q) THEN q[k] ELSE bytes[k - Len(q)]
  <2>1. q \in Seq(0 .. 255) /\ bytes \in Seq(0 .. 255)
    BY <1>2, <1>3
  <2>2. /\ q \o bytes \in Seq(0 .. 255) /\ Len(q \o bytes) = Len(q) + Len(bytes)
        /\ \A k \in 1 .. Len(q) + Len(bytes) :
             (q \o bytes)[k] = IF k <= Len(q) THEN q[k] ELSE bytes[k - Len(q)]
    BY <2>1, ConcatProperties
  <2>3. p = q \o bytes
    BY <1>1
  <2>4. QED
    BY <2>2, <2>3
<1>5. Len(p) = Len(o) + w + 1 + BlockSize
  BY <1>2, <1>3, <1>4
<1>6. \A k \in 1 .. Len(o) + w + 1 : p[k] = q[k]
  BY <1>0, <1>2, <1>3, <1>4
<1>7. ASSUME NEW m \in Len(o) + 1 .. Len(p), p[m] = Token,
             \A l \in Len(o) + 1 .. m - 1 : p[l] = 255
      PROVE  Len(p) - m = BlockSize
  <2>1. m <= Len(o) + w + 1
    <3>1. SUFFICES ASSUME m > Len(o) + w + 1 PROVE FALSE
      BY <1>2
    <3>2. Len(o) + w + 1 \in Len(o) + 1 .. m - 1 /\ Len(o) + w + 1 \in 1 .. Len(o) + w + 1
      BY <1>2, <3>1
    <3>3. p[Len(o) + w + 1] = 255
      BY <1>7, <3>2
    <3>4. p[Len(o) + w + 1] = Token
      BY <1>2, <1>6, <3>2
    <3>5. 255 # Token
      BY DEF Token
    <3>6. QED
      BY <3>3, <3>4, <3>5, Zenon
  <2>2. m = Len(o) + w + 1
    <3>1. SUFFICES ASSUME m # Len(o) + w + 1 PROVE FALSE
      OBVIOUS
    <3>2. m \in Len(o) + 1 .. Len(o) + w /\ m \in 1 .. Len(o) + w + 1
      BY <1>2, <2>1, <3>1
    <3>3. QED
      BY <1>2, <1>6, <1>7, <3>2 DEF Token
  <2>3. QED
    BY <1>0, <1>2, <1>5, <2>2
<1>8. QED
  <2>1. Ahead(p, Block(n), t, c, Len(o), n)
    BY <1>7 DEF Ahead
  <2>2. ASSUME NEW k \in 1 .. Len(o) PROVE p[k] = o[k]
    <3>1. k \in 1 .. Len(o) + w + 1
      BY <1>2
    <3>2. QED
      BY <1>2, <1>6, <3>1
  <2>3. QED
    BY <1>0, <1>2, <1>4, <1>5, <2>1, <2>2 DEF Sent

\* o, then idle bytes and an error: no token.
LEMMA ErrorAhead ==
  ASSUME NEW o \in Seq(0 .. 255), NEW w \in Nat, NEW s, NEW c, NEW t, NEW n, NEW p,
         p = Behind(o, w, 8)
  PROVE  Sent(p, o, s, t, c, n)
<1>1. 8 \in 0 .. 255
  OBVIOUS
<1>2. /\ p \in Seq(0 .. 255) /\ Len(o) \in Nat /\ Len(p) = Len(o) + w + 1
      /\ \A k \in 1 .. Len(o) : p[k] = o[k]
      /\ \A k \in Len(o) + 1 .. Len(o) + w : p[k] = 255
      /\ p[Len(o) + w + 1] = 8
  <2>1. Waited(p, o, w, 8)
    BY <1>1, WaitFacts
  <2>2. QED
    BY <2>1 DEF Waited
<1>3. \A m \in Len(o) + 1 .. Len(p) : p[m] # Token
  <2>1. \A m \in Len(o) + 1 .. Len(p) : m \in Len(o) + 1 .. Len(o) + w \/ m = Len(o) + w + 1
    BY <1>2
  <2>2. QED
    BY <1>2, <2>1 DEF Token
<1>4. QED
  BY <1>2, <1>3 DEF Ahead, Sent

\* What the card sends when it sends a block, behind o.
LEMMA SendsFacts ==
  ASSUME NEW n \in 0 .. NumBlocks - 1, NEW o \in Seq(0 .. 255), NEW c, NEW t,
         c = "CMD18" => t = n, sent \in [Offset -> ByteOrNone], SendsBlock(n, o)
  PROVE  sent' \in [Offset -> ByteOrNone] /\ Sent(out', o, sent', t, c, n)
<1>1. PICK w \in 0 .. MaxLatency :
        \/ \E bytes \in Transfers(n) :
             /\ out' = Behind(o, w, Token) \o bytes
             /\ sent' = Block(n)
        \/ out' = Behind(o, w, 8) /\ UNCHANGED sent
  BY DEF SendsBlock, Behind
<1>2. w \in Nat
  BY <1>1, Constants
<1>3. Block(n) \in [Offset -> ByteOrNone]
  BY BlockBytes DEF ByteOrNone
<1>4. CASE /\ \E bytes \in Transfers(n) :
                out' = Behind(o, w, Token) \o bytes
           /\ sent' = Block(n)
  <2>1. PICK bytes \in Transfers(n) : out' = Behind(o, w, Token) \o bytes
    BY <1>4
  <2>2. PICK p : p = out'
    OBVIOUS
  <2>3. Sent(p, o, Block(n), t, c, n)
    BY <1>2, <2>1, <2>2, SentAhead
  <2>4. QED
    BY <1>3, <1>4, <2>2, <2>3
<1>5. CASE out' = Behind(o, w, 8) /\ UNCHANGED sent
  <2>1. PICK p : p = out'
    OBVIOUS
  <2>2. Sent(p, o, sent, t, c, n)
    BY <1>2, <1>5, <2>1, ErrorAhead
  <2>3. QED
    BY <1>5, <2>1, <2>2
<1>6. QED
  BY <1>1, <1>4, <1>5

\* Idle bytes and the first byte of a response.
LEMMA AnswerFacts ==
  ASSUME NEW w \in Nat, NEW r \in 0 .. 127, NEW p, p = Times(w, 255) \o <<r>>
  PROVE  Waited(p, <<>>, w, r)
<1>1. <<>> \in Seq(0 .. 255) /\ Len(<<>>) = 0 /\ r \in 0 .. 255
  OBVIOUS
<1>2. Times(w, 255) \in Seq(0 .. 255)
  <2>1. Times(w, 255) \in [1 .. w -> 0 .. 255]
    BY DEF Times
  <2>2. QED
    BY <2>1
<1>3. Behind(<<>>, w, r) = Times(w, 255) \o <<r>>
  <2>1. <<>> \o Times(w, 255) = Times(w, 255)
    BY <1>2, ConcatEmptySeq
  <2>2. QED
    BY <2>1 DEF Behind
<1>4. QED
  BY <1>1, <1>3, WaitFacts

\* A response and what comes behind it.
LEMMA AheadAnswered ==
  ASSUME NEW o \in Seq(0 .. 255), NEW w \in Nat, NEW r \in 0 .. 127,
         NEW s, NEW t, NEW c, NEW n,
         Len(o) \in Nat, w + 1 <= Len(o),
         \A k \in 1 .. w : o[k] = 255,
         o[w + 1] = r,
         Ahead(o, s, t, c, w + 1, n)
  PROVE  Answered(o, s, t, c, n)
<1>1. ASSUME NEW k \in 1 .. Len(o), o[k] < 128, \A l \in 1 .. k - 1 : o[l] >= 128
      PROVE  Ahead(o, s, t, c, k, n)
  <2>1. ~(k <= w)
    BY <1>1
  <2>2. ~(k > w + 1)
    <3>1. k > w + 1 => w + 1 \in 1 .. k - 1
      BY <1>1
    <3>2. QED
      BY <1>1, <3>1
  <2>3. k = w + 1
    BY <1>1, <2>1, <2>2
  <2>4. QED
    BY <2>3
<1>2. QED
  BY <1>1 DEF Answered

\* Two sequences of bytes in a row are one.
LEMMA JoinType ==
  ASSUME NEW p \in Seq(0 .. 255), NEW q \in Seq(0 .. 255)
  PROVE  p \o q \in Seq(0 .. 255)
BY ConcatProperties

\* Idle bytes are bytes.
LEMMA TimesType ==
  ASSUME NEW n \in Nat, NEW v \in 0 .. 255
  PROVE  Times(n, v) \in Seq(0 .. 255)
<1>1. Times(n, v) \in [1 .. n -> 0 .. 255]
  BY DEF Times
<1>2. QED
  BY <1>1

\* What the card sends for a command, and where a CMD18 is then.
AnswerOK(c, n) ==
  /\ out' \in Seq(0 .. 255) /\ sent' \in [Offset -> ByteOrNone]
  /\ stream' = stream \/ stream' = -1 \/ (c = "CMD18" /\ stream' = n)
  /\ c = "CMD12" => stream' = -1
  /\ c \in {"CMD17", "CMD18"} => Answered(out', sent', stream', c, n)

\* The card answers a read with R1, and block n or an error behind it.
LEMMA ReadAnswered ==
  ASSUME SdTypeOK, NEW c \in {"CMD17", "CMD18"}, NEW n \in 0 .. NumBlocks - 1,
         c = "CMD17" => stream = -1, CardAnswers(c, n)
  PROVE  AnswerOK(c, n)
<1>1. sent \in [Offset -> ByteOrNone]
  BY DEF SdTypeOK
<1>2. PICK w \in 0 .. MaxLatency :
        \/ /\ SendsBlock(n, Times(w, 255) \o <<0>>)
           /\ stream' = IF c = "CMD18" THEN n ELSE -1
        \/ /\ out' = Times(w, 255) \o <<64>>
           /\ UNCHANGED <<sent, stream>>
  BY DEF CardAnswers, R1
<1>3. w \in Nat /\ 0 \in 0 .. 127 /\ 64 \in 0 .. 127
  BY <1>2, Constants
<1>4. CASE /\ SendsBlock(n, Times(w, 255) \o <<0>>)
           /\ stream' = IF c = "CMD18" THEN n ELSE -1
  <2>1. PICK o : o = Times(w, 255) \o <<0>>
    OBVIOUS
  <2>2. Waited(o, <<>>, w, 0)
    BY <1>3, <2>1, AnswerFacts
  <2>3. /\ o \in Seq(0 .. 255) /\ Len(o) = w + 1 /\ o[w + 1] = 0
        /\ \A k \in 1 .. w : o[k] = 255
    <3>1. Len(<<>>) = 0
      OBVIOUS
    <3>2. QED
      BY <2>2, <3>1 DEF Waited
  <2>4. SendsBlock(n, o) /\ (c = "CMD18" => stream' = n)
    BY <1>4, <2>1
  <2>5. sent' \in [Offset -> ByteOrNone] /\ Sent(out', o, sent', stream', c, n)
    BY <1>1, <2>3, <2>4, SendsFacts
  <2>6. PICK p, t : p = out' /\ t = stream'
    OBVIOUS
  <2>7. /\ p \in Seq(0 .. 255) /\ Len(p) \in Nat /\ w + 1 <= Len(p)
        /\ Ahead(p, sent', t, c, w + 1, n)
    BY <1>3, <2>3, <2>5, <2>6 DEF Sent
  <2>8. p[w + 1] = 0 /\ \A k \in 1 .. w : p[k] = 255
    <3>1. \A k \in 1 .. w + 1 : p[k] = o[k]
      BY <2>3, <2>5, <2>6 DEF Sent
    <3>2. w + 1 \in 1 .. w + 1 /\ \A k \in 1 .. w : k \in 1 .. w + 1
      BY <1>3
    <3>3. QED
      BY <2>3, <3>1, <3>2
  <2>9. Answered(p, sent', t, c, n)
    BY <1>3, <2>7, <2>8, AheadAnswered
  <2>10. QED
    BY <1>4, <2>5, <2>6, <2>7, <2>9 DEF AnswerOK
<1>5. CASE /\ out' = Times(w, 255) \o <<64>>
           /\ UNCHANGED <<sent, stream>>
  <2>1. PICK p : p = out'
    OBVIOUS
  <2>2. Waited(p, <<>>, w, 64)
    BY <1>3, <1>5, <2>1, AnswerFacts
  <2>3. /\ p \in Seq(0 .. 255) /\ Len(p) = w + 1 /\ p[w + 1] = 64
        /\ \A k \in 1 .. w : p[k] = 255
    <3>1. Len(<<>>) = 0
      OBVIOUS
    <3>2. QED
      BY <2>2, <3>1 DEF Waited
  <2>4. Ahead(p, sent, stream, c, w + 1, n) /\ w + 1 <= Len(p) /\ Len(p) \in Nat
    BY <1>3, <2>3 DEF Ahead
  <2>5. p \in Seq(0 .. 255) /\ p[w + 1] = 64 /\ \A k \in 1 .. w : p[k] = 255
    BY <2>3
  <2>6. Answered(p, sent, stream, c, n)
    BY <1>3, <2>4, <2>5, AheadAnswered
  <2>7. QED
    BY <1>1, <1>5, <2>1, <2>5, <2>6 DEF AnswerOK
<1>6. QED
  BY <1>2, <1>4, <1>5

\* It answers the other commands with no block.
LEMMA OtherAnswered ==
  ASSUME SdTypeOK, NEW c, c \notin {"CMD17", "CMD18"}, NEW n, CardAnswers(c, n)
  PROVE  AnswerOK(c, n)
<1>1. sent \in [Offset -> ByteOrNone]
  BY DEF SdTypeOK
<1>2. PICK w \in 0 .. MaxLatency, r \in R1(c) :
        LET answer == Times(w, 255) \o <<r>> IN
        CASE c \in {"CMD17", "CMD18"} ->
               \/ /\ SendsBlock(n, answer)
                  /\ stream' = IF c = "CMD18" THEN n ELSE -1
               \/ /\ out' = Times(w, 255) \o <<64>>
                  /\ UNCHANGED <<sent, stream>>
          [] c \in {"CMD8", "CMD58"} ->
               out' = answer \o <<0, 0, 1, 170>> /\ UNCHANGED <<sent, stream>>
          [] c = "CMD12" ->
               /\ \E busy \in 0 .. MaxLatency :
                    out' = <<127>> \o answer \o Times(busy, 0)
               /\ stream' = -1 /\ UNCHANGED sent
          [] OTHER -> out' = answer /\ UNCHANGED <<sent, stream>>
  BY DEF CardAnswers
<1>3. Times(w, 255) \o <<r>> \in Seq(0 .. 255)
  <2>1. w \in Nat /\ 255 \in 0 .. 255 /\ r \in 0 .. 255
    BY Constants DEF R1
  <2>2. <<r>> \in Seq(0 .. 255)
    BY <2>1
  <2>3. Times(w, 255) \in Seq(0 .. 255)
    BY <2>1, TimesType
  <2>4. QED
    BY <2>2, <2>3, JoinType
<1>4. PICK o : o = Times(w, 255) \o <<r>>
  OBVIOUS
<1>5. CASE c \in {"CMD8", "CMD58"}
  <2>1. out' = o \o <<0, 0, 1, 170>> /\ UNCHANGED <<sent, stream>>
    BY <1>2, <1>4, <1>5
  <2>2. o \o <<0, 0, 1, 170>> \in Seq(0 .. 255)
    <3>1. <<0, 0, 1, 170>> \in Seq(0 .. 255)
      OBVIOUS
    <3>2. QED
      BY <1>3, <1>4, <3>1, JoinType
  <2>3. QED
    BY <1>1, <1>5, <2>1, <2>2 DEF AnswerOK
<1>6. CASE c = "CMD12"
  <2>1. PICK busy \in 0 .. MaxLatency : out' = (<<127>> \o o) \o Times(busy, 0)
    BY <1>2, <1>4, <1>6
  <2>2. stream' = -1 /\ UNCHANGED sent
    BY <1>2, <1>6
  <2>3. (<<127>> \o o) \o Times(busy, 0) \in Seq(0 .. 255)
    <3>1. busy \in Nat /\ 0 \in 0 .. 255
      BY Constants
    <3>2. Times(busy, 0) \in Seq(0 .. 255) /\ <<127>> \in Seq(0 .. 255)
      BY <3>1, TimesType
    <3>3. <<127>> \o o \in Seq(0 .. 255)
      BY <1>3, <1>4, <3>2, JoinType
    <3>4. QED
      BY <3>2, <3>3, JoinType
  <2>4. QED
    BY <1>1, <1>6, <2>1, <2>2, <2>3 DEF AnswerOK
<1>7. CASE c \notin {"CMD8", "CMD58", "CMD12"}
  <2>1. out' = o /\ UNCHANGED <<sent, stream>>
    BY <1>2, <1>4, <1>7
  <2>2. QED
    BY <1>1, <1>3, <1>4, <1>7, <2>1 DEF AnswerOK
<1>8. QED
  BY <1>5, <1>6, <1>7

\* Every address is in a block of the card.
LEMMA AddrBlock ==
  ASSUME NEW a \in 0 .. Size - 1
  PROVE  a \div BlockSize \in 0 .. NumBlocks - 1
<1>1. /\ BlockSize \in Nat \ {0} /\ NumBlocks \in Nat \ {0} /\ Size = BlockSize * NumBlocks
      /\ Size \in Nat /\ a \in Nat
  BY Constants
<1>2. PICK q : q = a \div BlockSize
  OBVIOUS
<1>3. /\ q \in Nat /\ a % BlockSize \in 0 .. BlockSize - 1
      /\ a = BlockSize * q + (a % BlockSize)
  BY <1>1, <1>2, Division
<1>4. NumBlocks <= q => BlockSize * NumBlocks <= BlockSize * q /\ BlockSize * q \in Int
  BY <1>1, <1>3, Product
<1>5. ~(NumBlocks <= q)
  BY <1>1, <1>3, <1>4
<1>6. QED
  BY <1>1, <1>2, <1>3, <1>5

-----------------------------------------------------------------------------
(***************************************************************************)
(* The steps of the SD driver keep BootInv.                                *)
(***************************************************************************)
SdKept == /\ pc \in SdPlaces \cup {"ready", "fail"}
          /\ CallTypeOK /\ SdTypeOK /\ CmdInv /\ BlockInv

\* A step of the SD driver that keeps its part keeps the whole invariant.
LEMMA SdFrame ==
  ASSUME BootInv, mode = "sd", UNCHANGED <<mode, i2cVars>>, SdKept'
  PROVE  BootInv'
<1>1. TypeOK /\ PlaceInv
  BY DEF BootInv
<1>2. pc' \in SdPlaces \cup {"ready", "fail"} /\ mode' = "sd" /\ pc \notin I2cPlaces
  BY <1>1 DEF SdKept, PlaceInv
<1>3. I2cTypeOK'
  BY <1>1 DEF TypeOK, I2cTypeOK, i2cVars
<1>4. TypeOK'
  BY <1>2, <1>3 DEF TypeOK, SdKept, SdPlaces, BlockPlaces
<1>5. PlaceInv'
  BY <1>1, <1>2 DEF PlaceInv, SdPlaces, BlockPlaces, I2cPlaces, i2cVars
<1>6. NorInv' /\ ChunkInv'
  BY <1>2 DEF NorInv, ChunkInv, SdPlaces, BlockPlaces, I2cPlaces
<1>7. QED
  BY <1>4, <1>5, <1>6 DEF BootInv, SdKept

\* What a step that leaves the read alone leaves with it.
LEMMA ReadFrame ==
  ASSUME UNCHANGED <<addr, len, b>>
  PROVE  /\ Asked' = Asked /\ At' = At /\ LenBlocks' = LenBlocks /\ Dst' = Dst
         /\ FirstOffs' = FirstOffs /\ LastLen' = LastLen /\ Buffered' = Buffered
         /\ FirstBlock' = FirstBlock /\ LastBlock' = LastBlock
BY DEF Asked, At, LenBlocks, Dst, FirstOffs, LastLen, PteOffs, Buffered,
     FirstBlock, LastBlock

\* A byte received.
LEMMA XferFacts ==
  ASSUME TypeOK, CmdInv, mode = "sd", NEW byte \in 0 .. 255, Xfer(byte)
  PROVE  /\ out' \in Seq(0 .. 255) /\ UNCHANGED <<line, sent, stream, cs>>
         /\ out = <<>> => out' = <<>> /\ byte \in {0, 255}
         /\ out # <<>> => out' = Tail(out) /\ byte = out[1]
<1>1. /\ byte = IF line = "low" THEN 0 ELSE IF out = <<>> THEN 255 ELSE Head(out)
      /\ out' = IF out = <<>> THEN <<>> ELSE Tail(out)
      /\ UNCHANGED <<line, sent, stream, cs>>
  BY DEF Xfer
<1>2. out \in Seq(0 .. 255) /\ (line # "card" => out = <<>>)
  BY DEF TypeOK, SdTypeOK, CmdInv
<1>3. CASE out = <<>>
  <2>1. <<>> \in Seq(0 .. 255)
    OBVIOUS
  <2>2. QED
    BY <1>1, <1>3, <2>1
<1>4. CASE out # <<>>
  <2>1. Head(out) = out[1] /\ Tail(out) \in Seq(0 .. 255)
    BY <1>2, <1>4, Rest
  <2>2. line # "low"
    BY <1>2, <1>4
  <2>3. QED
    BY <1>1, <1>4, <2>1, <2>2
<1>5. QED
  BY <1>3, <1>4

\* What the driver's places and commands say of each other.
LEMMA Timeouts ==
  /\ CmdTimeout >= 1 /\ BusyTimeout >= 1 /\ DataTimeout >= 1
  /\ {CmdTimeout, BusyTimeout, DataTimeout} \subseteq 0 .. CmdTimeout + DataTimeout + BusyTimeout
BY Constants

\* The dummy cycles send nothing.
LEMMA WakeStep ==
  ASSUME BootInv, mode = "sd", UNCHANGED mode, Wake
  PROVE  SdKept'
<1>0. /\ pc = "wake" /\ pc' = "send" /\ cs' = "held"
      /\ UNCHANGED <<line, out, sent, stream, cmd, r1, timeout, addr, len, b, offs, swap, buf>>
      /\ CallTypeOK /\ SdTypeOK /\ CmdInv
  BY DEF Wake, cardVars, readVars, BootInv, TypeOK
<1>1. CallTypeOK' /\ SdTypeOK'
  BY <1>0 DEF CallTypeOK, SdTypeOK
<1>2. CmdInv' /\ cmd' \notin Reading
  BY <1>0 DEF CmdInv, BlockPlaces, Reading
<1>3. QED
  BY <1>0, <1>1, <1>2 DEF SdKept, BlockInv, SdPlaces

\* A command is sent, and the card answers it.
LEMMA SendCmdStep ==
  ASSUME BootInv, mode = "sd", UNCHANGED mode, SendCmd
  PROVE  SdKept'
<1>0. /\ pc = "send" /\ pc' = IF cmd = "CMD12" THEN "stuff" ELSE "response"
      /\ timeout' = CmdTimeout /\ cs' = "held"
      /\ UNCHANGED <<line, cmd, r1, addr, len, b, offs, swap, buf>>
      /\ TypeOK /\ CallTypeOK /\ SdTypeOK /\ CmdInv /\ BlockInv
  BY DEF SendCmd, LineAnswers, readVars, BootInv, TypeOK
<1>1. PICK n : n = addr \div BlockSize
  OBVIOUS
<1>2. n \in 0 .. NumBlocks - 1
  BY <1>0, <1>1, AddrBlock DEF CallTypeOK
<1>3. IF line = "card" THEN CardAnswers(cmd, n) ELSE UNCHANGED <<out, sent, stream>>
  BY <1>1 DEF SendCmd, LineAnswers
<1>4. stream # -1 => cmd \in {"CMD18", "CMD12"} /\ line = "card"
  BY <1>0 DEF CmdInv
<1>5. /\ AnswerOK(cmd, n)
      /\ line # "card" => out' = <<>>
  <2>1. CASE line = "card"
    <3>1. CardAnswers(cmd, n) /\ (cmd = "CMD17" => stream = -1)
      BY <1>3, <1>4, <2>1
    <3>2. cmd \in {"CMD17", "CMD18"} => AnswerOK(cmd, n)
      BY <1>0, <1>2, <3>1, ReadAnswered
    <3>3. cmd \notin {"CMD17", "CMD18"} => AnswerOK(cmd, n)
      BY <1>0, <3>1, OtherAnswered
    <3>4. QED
      BY <2>1, <3>2, <3>3
  <2>2. CASE line # "card"
    <3>1. /\ UNCHANGED <<out, sent, stream>> /\ out = <<>> /\ stream = -1
          /\ out \in Seq(0 .. 255) /\ sent \in [Offset -> ByteOrNone]
      BY <1>0, <1>3, <2>2 DEF CmdInv, SdTypeOK
    <3>2. Answered(out', sent', stream', cmd, n)
      BY <3>1, EmptyAhead
    <3>3. QED
      BY <3>1, <3>2 DEF AnswerOK
  <2>3. QED
    BY <2>1, <2>2
<1>6. SdTypeOK'
  <2>1. stream' \in -1 .. NumBlocks
    <3>1. stream \in -1 .. NumBlocks /\ NumBlocks \in Nat
      BY <1>0, Constants DEF SdTypeOK
    <3>2. n \in -1 .. NumBlocks /\ -1 \in -1 .. NumBlocks
      BY <1>2, <3>1
    <3>3. QED
      BY <1>5, <3>1, <3>2 DEF AnswerOK
  <2>2. timeout' \in 0 .. CmdTimeout + DataTimeout + BusyTimeout
    BY <1>0, Timeouts
  <2>3. QED
    BY <1>0, <1>5, <2>1, <2>2 DEF SdTypeOK, AnswerOK
<1>7. CallTypeOK' /\ pc' \in {"stuff", "response"}
  BY <1>0 DEF CallTypeOK
<1>8. CmdInv'
  <2>1. stream' # -1 => cmd = "CMD18"
    BY <1>4, <1>5 DEF AnswerOK
  <2>2. line # "card" => out' = <<>> /\ stream' = -1
    <3>1. line # "card" => UNCHANGED stream
      BY <1>3
    <3>2. QED
      BY <1>4, <1>5, <3>1
  <2>3. timeout' >= 1
    BY <1>0, Timeouts
  <2>4. QED
    BY <1>0, <1>7, <2>1, <2>2, <2>3 DEF CmdInv, BlockPlaces
<1>9. BlockInv'
  <2>1. SUFFICES ASSUME cmd \in Reading PROVE BlockInv'
    BY <1>0 DEF BlockInv
  <2>2. Asked' = Asked /\ At' = At /\ LenBlocks' = LenBlocks
    BY <1>0, ReadFrame
  <2>3. cmd # "CMD12" => b = 0 /\ offs = 0 /\ cmd \in {"CMD17", "CMD18"}
    BY <1>0, <2>1 DEF BlockInv, Reading
  <2>4. cmd # "CMD12" => At = n
    BY <1>1, <1>2, <2>3 DEF At
  <2>5. cmd # "CMD12" => Answered(out', sent', stream', cmd, At)
    BY <1>5, <2>3, <2>4 DEF AnswerOK
  <2>6. cmd' # "CMD12" => Answered(out', sent', stream', cmd', At')
    BY <1>0, <2>2, <2>5
  <2>7. QED
    BY <1>0, <1>7, <2>1, <2>2, <2>3, <2>6 DEF BlockInv, BlockPlaces
<1>10. QED
  BY <1>6, <1>7, <1>8, <1>9 DEF SdKept, SdPlaces

\* The stuff byte of CMD12 is no answer.
LEMMA DiscardStuffByteStep ==
  ASSUME BootInv, mode = "sd", UNCHANGED mode, DiscardStuffByte
  PROVE  SdKept'
<1>0. /\ pc = "stuff" /\ pc' = "response"
      /\ UNCHANGED <<cmd, r1, timeout, addr, len, b, offs, swap, buf>>
      /\ TypeOK /\ CallTypeOK /\ SdTypeOK /\ CmdInv /\ BlockInv
  BY DEF DiscardStuffByte, readVars, BootInv, TypeOK
<1>1. PICK byte \in 0 .. 255 : Xfer(byte)
  BY DEF DiscardStuffByte
<1>2. /\ out' \in Seq(0 .. 255) /\ UNCHANGED <<line, sent, stream, cs>>
      /\ out = <<>> => out' = <<>>
  BY <1>0, <1>1, XferFacts
<1>3. CallTypeOK' /\ SdTypeOK'
  BY <1>0, <1>2 DEF CallTypeOK, SdTypeOK
<1>4. CmdInv'
  BY <1>0, <1>2 DEF CmdInv, BlockPlaces
<1>5. BlockInv'
  <2>1. Asked' = Asked /\ At' = At /\ LenBlocks' = LenBlocks
    BY <1>0, ReadFrame
  <2>2. cmd = "CMD12"
    BY <1>0 DEF CmdInv
  <2>3. QED
    BY <1>0, <2>1, <2>2 DEF BlockInv, BlockPlaces
<1>6. QED
  BY <1>0, <1>3, <1>4, <1>5 DEF SdKept, SdPlaces

\* Behind the response to a read is its block.
LEMMA PollResponseStep ==
  ASSUME BootInv, mode = "sd", UNCHANGED mode, PollResponse
  PROVE  SdKept'
<1>0. /\ pc = "response" /\ UNCHANGED <<cmd, addr, len, b, offs, swap, buf>>
      /\ TypeOK /\ CallTypeOK /\ SdTypeOK /\ CmdInv /\ BlockInv
      /\ timeout' = IF pc' \in {"busy", "token"} THEN TimeoutAt(pc') ELSE timeout - 1
  BY DEF PollResponse, readVars, BootInv, TypeOK
<1>1. PICK byte \in 0 .. 255 :
        /\ Xfer(byte) /\ r1' = byte
        /\ pc' = IF timeout = 1 THEN "fail" ELSE IF byte >= 128 THEN "response" ELSE AfterR1
  BY DEF PollResponse
<1>2. /\ out' \in Seq(0 .. 255) /\ UNCHANGED <<line, sent, stream, cs>>
      /\ out = <<>> => out' = <<>>
      /\ out # <<>> => out' = Tail(out) /\ byte = out[1]
  BY <1>0, <1>1, XferFacts
<1>3. /\ pc' \in {"fail", "response", "busy", "rest", "token", "free"}
      /\ pc' = "busy" => cmd = "CMD12"
      /\ pc' = "rest" => cmd \in {"CMD8", "CMD58"}
      /\ pc' = "token" => cmd \in {"CMD17", "CMD18"}
      /\ pc' = "free" => cmd \notin Reading
      /\ pc' = "response" => byte >= 128 /\ timeout # 1
      /\ pc' = "token" => byte < 128
  <2>1. cmd = "CMD12" => AfterR1 = "busy"
    BY DEF AfterR1
  <2>2. cmd \in {"CMD8", "CMD58"} => AfterR1 = "rest"
    BY DEF AfterR1
  <2>3. cmd \in {"CMD17", "CMD18"} => AfterR1 = "token"
    BY DEF AfterR1
  <2>4. cmd \notin {"CMD12", "CMD8", "CMD58", "CMD17", "CMD18"} => AfterR1 = "free"
    BY DEF AfterR1
  <2>5. byte >= 128 <=> ~(byte < 128)
    BY <1>1
  <2>6. QED
    BY <1>1, <2>1, <2>2, <2>3, <2>4, <2>5 DEF Reading
<1>4. timeout \in 0 .. CmdTimeout + DataTimeout + BusyTimeout /\ timeout >= 1 /\ timeout \in Int
  BY <1>0, Timeouts DEF SdTypeOK, CmdInv
<1>5. /\ timeout' \in 0 .. CmdTimeout + DataTimeout + BusyTimeout
      /\ pc' \in {"response", "busy", "token"} => timeout' >= 1
  <2>1. CASE pc' \in {"busy", "token"}
    <3>1. timeout' \in {BusyTimeout, DataTimeout}
      BY <1>0, <2>1 DEF TimeoutAt
    <3>2. QED
      BY <3>1, Timeouts
  <2>2. CASE pc' \notin {"busy", "token"}
    <3>1. timeout' = timeout - 1
      BY <1>0, <2>2
    <3>2. timeout - 1 \in 0 .. CmdTimeout + DataTimeout + BusyTimeout
      BY <1>4, Constants
    <3>3. QED
      BY <1>3, <1>4, <2>2, <3>1, <3>2
  <2>3. QED
    BY <2>1, <2>2
<1>6. CallTypeOK' /\ SdTypeOK'
  <2>1. r1' \in 0 .. 255
    BY <1>1
  <2>2. QED
    BY <1>0, <1>2, <1>5, <2>1 DEF CallTypeOK, SdTypeOK
<1>7. CmdInv'
  BY <1>0, <1>2, <1>3, <1>5 DEF CmdInv, BlockPlaces, Reading
<1>8. BlockInv'
  <2>1. SUFFICES ASSUME cmd \in Reading PROVE BlockInv'
    BY <1>0 DEF BlockInv
  <2>2. Asked' = Asked /\ At' = At /\ LenBlocks' = LenBlocks
    BY <1>0, ReadFrame
  <2>3. /\ Asked /\ (cmd = "CMD17" <=> LenBlocks = 1) /\ b \in 0 .. LenBlocks
        /\ cmd # "CMD12" => b = 0 /\ offs = 0
        /\ cmd = "CMD12" => b = LenBlocks
        /\ cmd # "CMD12" => Answered(out, sent, stream, cmd, At)
    BY <1>0, <2>1 DEF BlockInv
  <2>4. pc' = "response" /\ cmd # "CMD12" => Answered(out', sent', stream', cmd', At')
    <3>1. out = <<>> => Answered(out', sent', stream', cmd', At')
      BY <1>2, EmptyAhead
    <3>2. out # <<>> /\ byte >= 128 /\ cmd # "CMD12" => Answered(out', sent', stream', cmd', At')
      <4>1. out \in Seq(0 .. 255)
        BY <1>0 DEF SdTypeOK
      <4>2. out # <<>> /\ Answered(out, sent, stream, cmd, At) /\ out[1] >= 128 =>
              Answered(Tail(out), sent, stream, cmd, At)
        BY <4>1, TailAnswered
      <4>3. QED
        BY <1>0, <1>2, <2>2, <2>3, <4>2
    <3>3. QED
      BY <1>3, <3>1, <3>2
  <2>5. pc' = "token" => Ahead(out', sent', stream', cmd', 0, At')
    <3>1. out = <<>> => Ahead(out', sent', stream', cmd', 0, At')
      BY <1>2, EmptyAhead
    <3>2. out # <<>> /\ byte < 128 /\ cmd # "CMD12" => Ahead(out', sent', stream', cmd', 0, At')
      <4>1. out \in Seq(0 .. 255)
        BY <1>0 DEF SdTypeOK
      <4>2. out # <<>> /\ Answered(out, sent, stream, cmd, At) /\ out[1] < 128 =>
              Ahead(Tail(out), sent, stream, cmd, 0, At)
        BY <4>1, TailAnswered
      <4>3. QED
        BY <1>0, <1>2, <2>2, <2>3, <4>2
    <3>3. QED
      BY <1>3, <3>1, <3>2
  <2>6. b < LenBlocks \/ cmd = "CMD12"
    <3>1. LenBlocks \in Nat \ {0}
      BY <1>0, <2>3, BlockFacts
    <3>2. QED
      BY <2>3, <3>1
  <2>7. /\ Asked' /\ (cmd' = "CMD17" <=> LenBlocks' = 1) /\ b' \in 0 .. LenBlocks'
        /\ cmd' # "CMD12" => b' = 0 /\ offs' = 0
        /\ cmd' = "CMD12" => b' = LenBlocks'
        /\ cmd' # "CMD12" => b' < LenBlocks'
        /\ pc' = "token" => cmd' # "CMD12"
        /\ pc' \in {"fail", "response", "busy", "rest", "token", "free"}
        /\ pc' = "free" => cmd' \notin Reading
    BY <1>0, <1>3, <2>2, <2>3, <2>6
  <2>8. CASE pc' = "token"
    BY <2>1, <2>5, <2>7, <2>8 DEF BlockInv, BlockPlaces
  <2>9. CASE pc' = "response"
    <3>1. cmd' # "CMD12" => Answered(out', sent', stream', cmd', At')
      BY <2>4, <2>9, <1>0
    <3>2. cmd' = "CMD12" \/ (b' = 0 /\ offs' = 0)
      BY <2>7
    <3>3. pc' \notin BlockPlaces \cup {"free", "check", "send"}
      BY <2>9 DEF BlockPlaces
    <3>4. QED
      BY <2>7, <2>9, <3>1, <3>2, <3>3 DEF BlockInv, BlockPlaces
  <2>10. CASE pc' \notin {"token", "response"}
    BY <2>1, <2>7, <2>10 DEF BlockInv, BlockPlaces
  <2>11. QED
    BY <2>8, <2>9, <2>10
<1>9. QED
  BY <1>3, <1>6, <1>7, <1>8 DEF SdKept, SdPlaces, BlockPlaces

\* The rest of an R3 or R7 is skipped.
LEMMA ReadRestStep ==
  ASSUME BootInv, mode = "sd", UNCHANGED mode, ReadRest
  PROVE  SdKept'
<1>0. /\ pc = "rest" /\ pc' = "free"
      /\ out' = IF line = "card" THEN SubSeq(out, 5, Len(out)) ELSE out
      /\ UNCHANGED <<line, sent, stream, cs, cmd, r1, timeout, addr, len, b, offs, swap, buf>>
      /\ CallTypeOK /\ SdTypeOK /\ CmdInv
  BY DEF ReadRest, readVars, BootInv, TypeOK
<1>1. out' \in Seq(0 .. 255)
  <2>1. out \in Seq(0 .. 255)
    BY <1>0 DEF SdTypeOK
  <2>2. SubSeq(out, 5, Len(out)) \in Seq(0 .. 255)
    <3>1. 5 \in Int /\ Len(out) \in Int
      BY <2>1
    <3>2. \A j \in 5 .. Len(out) : j \in 1 .. Len(out)
      BY <3>1
    <3>3. \A j \in 5 .. Len(out) : out[j] \in 0 .. 255
      BY <2>1, <3>2, ElementOfSeq
    <3>4. QED
      BY <3>1, <3>3, SubSeqProperties
  <2>3. QED
    BY <1>0, <2>1, <2>2
<1>2. CallTypeOK' /\ SdTypeOK'
  BY <1>0, <1>1 DEF CallTypeOK, SdTypeOK
<1>3. CmdInv' /\ cmd' \notin Reading
  BY <1>0 DEF CmdInv, BlockPlaces, Reading
<1>4. QED
  BY <1>0, <1>2, <1>3 DEF SdKept, BlockInv, SdPlaces

\* The busy signal belongs to CMD12, no block is expected then.
LEMMA PollBusyStep ==
  ASSUME BootInv, mode = "sd", UNCHANGED mode, PollBusy
  PROVE  SdKept'
<1>0. /\ pc = "busy" /\ UNCHANGED <<cmd, r1, addr, len, b, offs, swap, buf>>
      /\ timeout' = timeout - 1
      /\ TypeOK /\ CallTypeOK /\ SdTypeOK /\ CmdInv /\ BlockInv
  BY DEF PollBusy, readVars, BootInv, TypeOK
<1>1. PICK byte \in 0 .. 255 :
        /\ Xfer(byte)
        /\ pc' = IF timeout = 1 THEN "fail" ELSE IF byte = 0 THEN "busy" ELSE "free"
  BY DEF PollBusy
<1>2. /\ out' \in Seq(0 .. 255) /\ UNCHANGED <<line, sent, stream, cs>>
      /\ out = <<>> => out' = <<>>
  BY <1>0, <1>1, XferFacts
<1>3. /\ pc' \in {"fail", "busy", "free"} /\ cmd = "CMD12"
      /\ pc' = "busy" => timeout # 1
  BY <1>0, <1>1 DEF CmdInv
<1>4. timeout' \in 0 .. CmdTimeout + DataTimeout + BusyTimeout /\ (pc' = "busy" => timeout' >= 1)
  <2>1. timeout \in 0 .. CmdTimeout + DataTimeout + BusyTimeout /\ timeout >= 1
    BY <1>0 DEF SdTypeOK, CmdInv
  <2>2. QED
    BY <1>0, <1>3, <2>1, Constants
<1>5. CallTypeOK' /\ SdTypeOK'
  BY <1>0, <1>2, <1>4 DEF CallTypeOK, SdTypeOK
<1>6. CmdInv'
  BY <1>0, <1>2, <1>3, <1>4 DEF CmdInv, BlockPlaces
<1>7. BlockInv'
  <2>1. Asked' = Asked /\ At' = At /\ LenBlocks' = LenBlocks
    BY <1>0, ReadFrame
  <2>2. QED
    BY <1>0, <1>3, <2>1 DEF BlockInv, BlockPlaces
<1>8. QED
  BY <1>3, <1>5, <1>6, <1>7 DEF SdKept, SdPlaces

\* With the chip select the card is gone from the line.
LEMMA CsFreeStep ==
  ASSUME BootInv, mode = "sd", UNCHANGED mode, CsFree
  PROVE  SdKept'
<1>0. /\ pc = "free" /\ pc' = "check" /\ cs' = "free" /\ out' = <<>>
      /\ UNCHANGED <<line, sent, stream, cmd, r1, timeout, addr, len, b, offs, swap, buf>>
      /\ TypeOK /\ CallTypeOK /\ SdTypeOK /\ CmdInv /\ BlockInv
  BY DEF CsFree, readVars, BootInv, TypeOK
<1>1. CallTypeOK' /\ SdTypeOK'
  <2>1. <<>> \in Seq(0 .. 255)
    OBVIOUS
  <2>2. QED
    BY <1>0, <2>1 DEF CallTypeOK, SdTypeOK
<1>2. CmdInv'
  BY <1>0 DEF CmdInv, BlockPlaces
<1>3. BlockInv'
  <2>1. Asked' = Asked /\ At' = At /\ LenBlocks' = LenBlocks
    BY <1>0, ReadFrame
  <2>2. QED
    BY <1>0, <2>1 DEF BlockInv, BlockPlaces
<1>4. QED
  BY <1>0, <1>1, <1>2, <1>3 DEF SdKept, SdPlaces

\* The next command of the activation, or the end of a call.
LEMMA CheckResponseStep ==
  ASSUME BootInv, mode = "sd", UNCHANGED mode, CheckResponse
  PROVE  SdKept'
<1>0. /\ pc = "check"
      /\ UNCHANGED <<line, out, sent, stream, cs, r1, timeout, addr, len, b, offs, swap, buf>>
      /\ TypeOK /\ CallTypeOK /\ SdTypeOK /\ CmdInv /\ BlockInv
  BY DEF CheckResponse, cardVars, readVars, BootInv, TypeOK
<1>1. \/ pc' = "fail" /\ UNCHANGED cmd
      \/ /\ cmd' = NextCmd
         /\ pc' = IF cmd \in {"CMD16"} \cup Reading THEN "ready" ELSE "send"
  BY DEF CheckResponse, Fails
<1>2. /\ cmd' \in Activation \cup Reading /\ (cmd \in Reading \/ cmd' \in Reading => cmd' = cmd)
      /\ pc' \in {"fail", "ready", "send"}
      /\ cmd \in Reading => pc' # "send"
  BY <1>0, <1>1 DEF NextCmd, Activation, Reading, SdTypeOK
<1>3. CallTypeOK' /\ SdTypeOK'
  BY <1>0, <1>2 DEF CallTypeOK, SdTypeOK
<1>4. CmdInv'
  <2>1. cs = "free" /\ cmd # "CMD18" /\ stream = -1 /\ (line # "card" => out = <<>>)
    BY <1>0 DEF CmdInv
  <2>2. cmd' # "CMD18"
    BY <1>2, <2>1 DEF Reading
  <2>3. QED
    BY <1>0, <1>2, <2>1, <2>2 DEF CmdInv, BlockPlaces
<1>5. BlockInv'
  <2>1. Asked' = Asked /\ At' = At /\ LenBlocks' = LenBlocks
    BY <1>0, ReadFrame
  <2>2. QED
    BY <1>0, <1>2, <2>1 DEF BlockInv, BlockPlaces
<1>6. QED
  BY <1>2, <1>3, <1>4, <1>5 DEF SdKept, SdPlaces

\* Behind the token is all of the block.
LEMMA PollTokenStep ==
  ASSUME BootInv, mode = "sd", UNCHANGED mode, PollToken
  PROVE  SdKept'
<1>0. /\ pc = "token" /\ UNCHANGED <<cmd, r1, addr, len, b, offs, swap, buf>>
      /\ timeout' = timeout - 1
      /\ TypeOK /\ CallTypeOK /\ SdTypeOK /\ CmdInv /\ BlockInv
  BY DEF PollToken, readVars, BootInv, TypeOK
<1>1. PICK byte \in 0 .. 255 :
        /\ Xfer(byte)
        /\ pc' = IF timeout = 1 THEN "fail" ELSE IF byte = 255 THEN "token"
                 ELSE IF byte = Token THEN "data" ELSE "fail"
  BY DEF PollToken
<1>2. /\ out' \in Seq(0 .. 255) /\ UNCHANGED <<line, sent, stream, cs>>
      /\ out = <<>> => out' = <<>> /\ byte \in {0, 255}
      /\ out # <<>> => out' = Tail(out) /\ byte = out[1]
  BY <1>0, <1>1, XferFacts
<1>3. /\ pc' \in {"fail", "token", "data"} /\ cmd \in {"CMD17", "CMD18"}
      /\ pc' = "token" => byte = 255 /\ timeout # 1
      /\ pc' = "data" => byte = Token
  BY <1>0, <1>1 DEF CmdInv, BlockPlaces
<1>4. timeout' \in 0 .. CmdTimeout + DataTimeout + BusyTimeout /\ (pc' = "token" => timeout' >= 1)
  <2>1. timeout \in 0 .. CmdTimeout + DataTimeout + BusyTimeout /\ timeout >= 1
    BY <1>0 DEF SdTypeOK, CmdInv
  <2>2. QED
    BY <1>0, <1>3, <2>1, Constants
<1>5. CallTypeOK' /\ SdTypeOK'
  BY <1>0, <1>2, <1>4 DEF CallTypeOK, SdTypeOK
<1>6. CmdInv'
  BY <1>0, <1>2, <1>3, <1>4 DEF CmdInv, BlockPlaces
<1>7. BlockInv'
  <2>1. Asked' = Asked /\ At' = At /\ LenBlocks' = LenBlocks
    BY <1>0, ReadFrame
  <2>2. /\ Asked /\ (cmd = "CMD17" <=> LenBlocks = 1) /\ b \in 0 .. LenBlocks
        /\ b < LenBlocks /\ offs = 0 /\ Ahead(out, sent, stream, cmd, 0, At)
    BY <1>0, <1>3 DEF BlockInv, BlockPlaces, Reading
  <2>3. out \in Seq(0 .. 255)
    BY <1>0 DEF SdTypeOK
  <2>4. pc' = "token" => Ahead(out', sent', stream', cmd', 0, At')
    <3>1. out = <<>> => Ahead(out', sent', stream', cmd', 0, At')
      BY <1>2, EmptyAhead
    <3>2. out # <<>> /\ out[1] = 255 => Ahead(Tail(out), sent, stream, cmd, 0, At)
      BY <2>2, <2>3, SkipAhead
    <3>3. QED
      BY <1>0, <1>2, <1>3, <2>1, <3>1, <3>2
  <2>5. pc' = "data" =>
          /\ line' = "card" /\ Len(out') = BlockSize - offs'
          /\ sent' = Block(At') /\ (cmd' = "CMD18" => stream' = At') /\ offs' < BlockSize
    <3>1. SUFFICES ASSUME pc' = "data" PROVE
            /\ line' = "card" /\ Len(out') = BlockSize - offs'
            /\ sent' = Block(At') /\ (cmd' = "CMD18" => stream' = At') /\ offs' < BlockSize
      OBVIOUS
    <3>2. out # <<>>
      BY <1>2, <1>3, <3>1 DEF Token
    <3>3. line = "card"
      BY <1>0, <3>2 DEF CmdInv
    <3>4. /\ Len(out) - 1 = BlockSize /\ sent = Block(At) /\ (cmd = "CMD18" => stream = At)
      BY <1>2, <1>3, <2>2, <2>3, <3>1, <3>2, FirstAhead
    <3>5. Len(Tail(out)) = Len(out) - 1
      BY <2>3, <3>2, Rest
    <3>6. Len(out') = BlockSize - offs' /\ offs' < BlockSize
      BY <1>0, <1>2, <2>2, <3>2, <3>4, <3>5, Constants
    <3>7. QED
      BY <1>0, <1>2, <2>1, <3>3, <3>4, <3>6
  <2>6. /\ Asked' /\ (cmd' = "CMD17" <=> LenBlocks' = 1) /\ b' \in 0 .. LenBlocks'
        /\ b' < LenBlocks' /\ offs' = 0 /\ cmd' \in {"CMD17", "CMD18"}
        /\ pc' \in {"fail", "token", "data"}
    BY <1>0, <1>3, <2>1, <2>2
  <2>7. QED
    BY <2>4, <2>5, <2>6 DEF BlockInv, BlockPlaces
<1>8. QED
  BY <1>3, <1>5, <1>6, <1>7 DEF SdKept, SdPlaces, BlockPlaces

\* A block is read within its bounds: the line holds what is left of it.
LEMMA DataPlace ==
  ASSUME BootInv, mode = "sd", pc \in {"data", "crc"}
  PROVE  /\ Asked /\ b \in 0 .. LenBlocks - 1 /\ b \in Nat /\ cmd \in {"CMD17", "CMD18"}
         /\ offs \in Nat /\ BlockSize \in Nat \ {0}
         /\ Len(out) = BlockSize - offs /\ out \in Seq(0 .. 255)
         /\ pc = "data" => offs < BlockSize
         /\ pc = "crc" => offs = BlockSize
<1>1. /\ TypeOK /\ offs \in Nat /\ out \in Seq(0 .. 255) /\ CmdInv /\ BlockInv
  BY DEF BootInv, TypeOK, CallTypeOK, SdTypeOK
<1>2. cmd \in {"CMD17", "CMD18"} /\ cmd \in Reading
  BY <1>1 DEF CmdInv, BlockPlaces, Reading
<1>3. /\ Asked /\ b \in 0 .. LenBlocks /\ b < LenBlocks
      /\ Len(out) = BlockSize - offs
      /\ pc = "data" => offs < BlockSize
      /\ pc = "crc" => offs = BlockSize
  BY <1>1, <1>2 DEF BlockInv, BlockPlaces
<1>4. LenBlocks \in Nat \ {0}
  BY <1>1, <1>3, BlockFacts
<1>5. QED
  BY <1>1, <1>2, <1>3, <1>4, Constants

\* The bytes of a segment go to their places in the swap buffer or in memory.
LEMMA ReadChunkFacts ==
  ASSUME BootInv, mode = "sd", ReadChunk
  PROVE  \E n \in Nat \ {0} :
           /\ offs + n <= BlockSize /\ offs' = offs + n
           /\ out' = SubSeq(out, n + 1, Len(out))
           /\ \A j \in offs .. offs + n - 1 : out[j - offs + 1] \in 0 .. 255
           /\ IF Buffered
              THEN /\ swap' = [j \in Offset |-> IF j \in offs .. offs + n - 1
                                                THEN out[j - offs + 1] ELSE swap[j]]
                   /\ UNCHANGED buf
              ELSE /\ buf' = [k \in Around |-> IF k - Dst \in offs .. offs + n - 1
                                               THEN out[k - Dst - offs + 1] ELSE buf[k]]
                   /\ UNCHANGED swap
<1>0. /\ offs \in Nat /\ BlockSize \in Nat \ {0} /\ offs < BlockSize
      /\ Len(out) = BlockSize - offs /\ out \in Seq(0 .. 255)
  BY DataPlace DEF ReadChunk
<1>1. PICK n : n = Smaller(Chunk, BlockSize - offs)
  OBVIOUS
<1>2. n \in Nat \ {0} /\ n <= BlockSize - offs /\ offs + n <= BlockSize
  BY <1>0, <1>1, Constants DEF Smaller
<1>3. ASSUME NEW j \in offs .. offs + n - 1
     PROVE  out[j - offs + 1] \in 0 .. 255
  <2>1. j - offs + 1 \in 1 .. Len(out)
    BY <1>0, <1>2
  <2>2. QED
    BY <1>0, <2>1, ElementOfSeq
<1>4. QED
  BY <1>1, <1>2, <1>3 DEF ReadChunk

\* A segment leaves the rest of the block on the line.
LEMMA ReadChunkStep ==
  ASSUME BootInv, mode = "sd", UNCHANGED mode, ReadChunk
  PROVE  SdKept'
<1>0. /\ pc = "data" /\ pc' = IF offs' = BlockSize THEN "crc" ELSE "data"
      /\ UNCHANGED <<line, sent, stream, cs, cmd, r1, timeout, addr, len, b>>
      /\ TypeOK /\ CallTypeOK /\ SdTypeOK /\ CmdInv /\ BlockInv
  BY DEF ReadChunk, BootInv, TypeOK
<1>1. /\ Asked /\ cmd \in {"CMD17", "CMD18"} /\ offs \in Nat /\ BlockSize \in Nat \ {0}
      /\ offs < BlockSize /\ Len(out) = BlockSize - offs /\ out \in Seq(0 .. 255)
  BY <1>0, DataPlace
<1>2. PICK n \in Nat \ {0} :
           /\ offs + n <= BlockSize /\ offs' = offs + n
           /\ out' = SubSeq(out, n + 1, Len(out))
           /\ \A j \in offs .. offs + n - 1 : out[j - offs + 1] \in 0 .. 255
           /\ IF Buffered
              THEN /\ swap' = [j \in Offset |-> IF j \in offs .. offs + n - 1
                                                THEN out[j - offs + 1] ELSE swap[j]]
                   /\ UNCHANGED buf
              ELSE /\ buf' = [k \in Around |-> IF k - Dst \in offs .. offs + n - 1
                                               THEN out[k - Dst - offs + 1] ELSE buf[k]]
                   /\ UNCHANGED swap
  BY ReadChunkFacts
<1>3. swap' \in [Offset -> ByteOrNone] /\ buf' \in [Around -> ByteOrNone]
  <2>1. swap \in [Offset -> ByteOrNone] /\ buf \in [Around -> ByteOrNone]
    BY <1>0 DEF CallTypeOK, SdTypeOK
  <2>2. \A j \in offs .. offs + n - 1 : out[j - offs + 1] \in ByteOrNone
    BY <1>2 DEF ByteOrNone
  <2>3. CASE Buffered
    BY <1>2, <2>1, <2>2, <2>3
  <2>4. CASE ~Buffered
    BY <1>2, <2>1, <2>2, <2>4
  <2>5. QED
    BY <2>3, <2>4
<1>4. out' \in Seq(0 .. 255) /\ Len(out') = BlockSize - offs'
  <2>1. n + 1 \in Int /\ Len(out) \in Int /\ n <= Len(out)
    BY <1>1, <1>2
  <2>2. \A j \in n + 1 .. Len(out) : j \in 1 .. Len(out)
    BY <1>2, <2>1
  <2>3. \A j \in n + 1 .. Len(out) : out[j] \in 0 .. 255
    BY <1>1, <2>2, ElementOfSeq
  <2>4. /\ SubSeq(out, n + 1, Len(out)) \in Seq(0 .. 255)
        /\ Len(SubSeq(out, n + 1, Len(out)))
             = IF n + 1 <= Len(out) THEN Len(out) - (n + 1) + 1 ELSE 0
    BY <2>1, <2>3, SubSeqProperties
  <2>5. QED
    BY <1>1, <1>2, <2>1, <2>4
<1>5. CallTypeOK' /\ SdTypeOK'
  <2>1. offs' \in Nat
    BY <1>1, <1>2
  <2>2. QED
    BY <1>0, <1>3, <1>4, <2>1 DEF CallTypeOK, SdTypeOK
<1>6. CmdInv' /\ pc' \in {"crc", "data"}
  <2>1. pc' \in {"crc", "data"}
    BY <1>0
  <2>2. QED
    BY <1>0, <1>1, <2>1 DEF CmdInv, BlockPlaces
<1>7. BlockInv'
  <2>1. Asked' = Asked /\ At' = At /\ LenBlocks' = LenBlocks
    BY <1>0, ReadFrame
  <2>2. /\ Asked /\ (cmd = "CMD17" <=> LenBlocks = 1) /\ b \in 0 .. LenBlocks
        /\ b < LenBlocks /\ line = "card" /\ sent = Block(At) /\ (cmd = "CMD18" => stream = At)
    BY <1>0, <1>1 DEF BlockInv, BlockPlaces, Reading
  <2>3. (pc' = "data" => offs' < BlockSize) /\ (pc' = "crc" => offs' = BlockSize)
    BY <1>0, <1>1, <1>2
  <2>4. QED
    BY <1>0, <1>1, <1>4, <1>6, <2>1, <2>2, <2>3 DEF BlockInv, BlockPlaces
<1>8. QED
  BY <1>5, <1>6, <1>7 DEF SdKept, SdPlaces, BlockPlaces

\* Behind the CRC the card of a CMD18 has the next block.
LEMMA CheckBlockStep ==
  ASSUME BootInv, mode = "sd", UNCHANGED mode, CheckBlock
  PROVE  SdKept'
<1>0. /\ pc = "crc" /\ pc' = IF CheckCrc /\ Received # sent THEN "fail" ELSE "copy"
      /\ IF stream >= 0 /\ stream + 1 < NumBlocks
         THEN stream' = stream + 1 /\ SendsBlock(stream', <<>>)
         ELSE UNCHANGED <<out, sent, stream>>
      /\ UNCHANGED <<line, cs, cmd, r1, timeout, addr, len, b, offs, swap, buf>>
      /\ TypeOK /\ CallTypeOK /\ SdTypeOK /\ CmdInv /\ BlockInv
  BY DEF CheckBlock, readVars, BootInv, TypeOK
<1>1. /\ Asked /\ b \in 0 .. LenBlocks - 1 /\ cmd \in {"CMD17", "CMD18"}
      /\ Len(out) = 0 /\ out \in Seq(0 .. 255) /\ NumBlocks \in Nat
      /\ BlockSize \in Nat \ {0} /\ offs = BlockSize /\ offs \in Nat
  BY <1>0, DataPlace, Constants
<1>2. /\ Asked /\ (cmd = "CMD17" <=> LenBlocks = 1) /\ b \in 0 .. LenBlocks
      /\ b < LenBlocks /\ line = "card" /\ (cmd = "CMD18" => stream = At)
  BY <1>0, <1>1 DEF BlockInv, BlockPlaces, Reading
<1>3. stream \in -1 .. NumBlocks /\ sent \in [Offset -> ByteOrNone]
      /\ (stream # -1 => cmd = "CMD18")
  BY <1>0 DEF SdTypeOK, CmdInv
<1>4. At \in 0 .. NumBlocks - 1
  BY <1>0, <1>1, BlockPlace
<1>5. /\ out' \in Seq(0 .. 255) /\ sent' \in [Offset -> ByteOrNone]
      /\ stream' \in -1 .. NumBlocks /\ (stream' # -1 => cmd = "CMD18")
      /\ Ahead(out', sent', stream', cmd, 0, At + 1)
  <2>1. CASE stream >= 0 /\ stream + 1 < NumBlocks
    <3>1. PICK n : n = stream + 1
      OBVIOUS
    <3>2. n \in 0 .. NumBlocks - 1 /\ cmd = "CMD18" /\ n = At + 1 /\ n \in -1 .. NumBlocks
      BY <1>1, <1>2, <1>3, <2>1, <3>1
    <3>3. stream' = n /\ SendsBlock(n, <<>>)
      BY <1>0, <2>1, <3>1
    <3>4. <<>> \in Seq(0 .. 255) /\ Len(<<>>) = 0
      OBVIOUS
    <3>5. sent' \in [Offset -> ByteOrNone] /\ Sent(out', <<>>, sent', stream', cmd, n)
      BY <1>3, <3>2, <3>3, <3>4, SendsFacts
    <3>6. QED
      BY <3>2, <3>3, <3>4, <3>5 DEF Sent
  <2>2. CASE ~(stream >= 0 /\ stream + 1 < NumBlocks)
    <3>1. UNCHANGED <<out, sent, stream>>
      BY <1>0, <2>2
    <3>2. out = <<>>
      BY <1>1, EmptySeq
    <3>3. Ahead(<<>>, sent, stream, cmd, 0, At + 1)
      BY EmptyAhead
    <3>4. QED
      BY <1>1, <1>3, <3>1, <3>2, <3>3
  <2>3. QED
    BY <2>1, <2>2
<1>6. CallTypeOK' /\ SdTypeOK'
  BY <1>0, <1>5 DEF CallTypeOK, SdTypeOK
<1>7. CmdInv' /\ pc' \in {"fail", "copy"}
  BY <1>0, <1>1, <1>2, <1>5 DEF CmdInv, BlockPlaces
<1>8. BlockInv'
  <2>1. Asked' = Asked /\ At' = At /\ LenBlocks' = LenBlocks
    BY <1>0, ReadFrame
  <2>2. QED
    BY <1>0, <1>1, <1>2, <1>5, <1>7, <2>1 DEF BlockInv, BlockPlaces
<1>9. QED
  BY <1>6, <1>7, <1>8 DEF SdKept, SdPlaces, BlockPlaces

\* The next block, CMD12, or the end.
LEMMA CopyBlockStep ==
  ASSUME BootInv, mode = "sd", UNCHANGED mode, CopyBlock
  PROVE  SdKept'
<1>0. /\ pc = "copy" /\ buf' = Copied /\ b' = b + 1 /\ offs' = 0 /\ timeout' = DataTimeout
      /\ UNCHANGED <<line, out, sent, stream, cs, r1, addr, len, swap>>
      /\ TypeOK /\ CallTypeOK /\ SdTypeOK /\ CmdInv /\ BlockInv
  BY DEF CopyBlock, cardVars, BootInv, TypeOK
<1>1. IF b + 1 < LenBlocks THEN pc' = "token" /\ cmd' = cmd
      ELSE IF LenBlocks > 1 THEN pc' = "send" /\ cmd' = "CMD12"
      ELSE pc' = "free" /\ cmd' = cmd
  BY DEF CopyBlock
<1>2. /\ cmd \in {"CMD17", "CMD18"} /\ Asked /\ (cmd = "CMD17" <=> LenBlocks = 1)
      /\ b \in 0 .. LenBlocks /\ b < LenBlocks /\ Ahead(out, sent, stream, cmd, 0, At + 1)
  BY <1>0 DEF BlockInv, CmdInv, BlockPlaces, Reading
<1>3. LenBlocks \in Nat \ {0} /\ addr \div BlockSize \in Nat
      /\ (addr \div BlockSize) + LenBlocks <= NumBlocks
  BY <1>0, <1>2, BlockFacts
<1>4. /\ pc' \in {"token", "send", "free"} /\ cmd' \in {"CMD17", "CMD18", "CMD12"}
      /\ pc' = "token" => b' < LenBlocks /\ cmd' = cmd
      /\ pc' = "send" => cmd' = "CMD12" /\ b' = LenBlocks /\ LenBlocks # 1
      /\ pc' = "free" => cmd' = "CMD17" /\ cmd = "CMD17" /\ b' = LenBlocks
      /\ b' \in 0 .. LenBlocks
  BY <1>0, <1>1, <1>2, <1>3
<1>5. CallTypeOK' /\ SdTypeOK'
  <2>1. buf' \in [Around -> ByteOrNone]
    <3>1. swap \in [Offset -> ByteOrNone] /\ buf \in [Around -> ByteOrNone]
      BY <1>0 DEF CallTypeOK, SdTypeOK
    <3>2. QED
      BY <1>0, <3>1 DEF Copied
  <2>2. b' \in 0 .. NumBlocks /\ offs' \in Nat
    <3>1. NumBlocks \in Nat
      BY Constants
    <3>2. PICK q \in Nat : q = addr \div BlockSize
      BY <1>3
    <3>3. LenBlocks <= NumBlocks
      BY <1>3, <3>1, <3>2
    <3>4. QED
      BY <1>0, <1>3, <1>4, <3>1, <3>3
  <2>3. timeout' \in 0 .. CmdTimeout + DataTimeout + BusyTimeout
    BY <1>0, Timeouts
  <2>4. QED
    BY <1>0, <1>4, <2>1, <2>2, <2>3 DEF CallTypeOK, SdTypeOK, Reading
<1>6. CmdInv'
  <2>1. timeout' >= 1
    BY <1>0, Timeouts
  <2>2. (stream # -1 => cmd = "CMD18") /\ (line # "card" => out = <<>> /\ stream = -1)
    BY <1>0 DEF CmdInv
  <2>3. stream' # -1 => cmd' = "CMD18" \/ (cmd' = "CMD12" /\ pc' = "send")
    BY <1>0, <1>4, <2>2
  <2>4. QED
    BY <1>0, <1>2, <1>4, <2>1, <2>2, <2>3 DEF CmdInv, BlockPlaces
<1>7. BlockInv'
  <2>1. Asked' = Asked /\ LenBlocks' = LenBlocks
    BY <1>0 DEF Asked, LenBlocks, FirstOffs
  <2>2. At' = At + 1
    BY <1>0, <1>2, <1>3 DEF At
  <2>3. pc' = "token" => Ahead(out', sent', stream', cmd', 0, At')
    BY <1>0, <1>2, <1>4, <2>2
  <2>4. cmd' = "CMD17" <=> LenBlocks' = 1
    BY <1>2, <1>4, <2>1
  <2>5. QED
    BY <1>0, <1>2, <1>4, <2>1, <2>3, <2>4 DEF BlockInv, BlockPlaces
<1>8. QED
  BY <1>4, <1>5, <1>6, <1>7 DEF SdKept, SdPlaces, BlockPlaces

\* A request is of bytes the medium has, and of at least one.
LEMMA RequestFacts ==
  ASSUME NEW q \in Requests
  PROVE  /\ q[1] \in 0 .. Size - 1 /\ q[2] \in 1 .. Size /\ q[1] + q[2] <= Size
         /\ q[1] \in Nat /\ q[2] \in Nat \ {0}
<1>1. DOMAIN Medium = 0 .. Size - 1 /\ Size \in Nat
  BY Constants
<1>2. QED
  BY <1>1 DEF Requests

\* A call begins with nothing done and the destination unwritten.
LEMMA CallFacts ==
  ASSUME NEW q \in Requests, Call(q[1], q[2])
  PROVE  /\ pc = "ready" /\ offs' = 0 /\ addr' = q[1] /\ len' = q[2]
         /\ buf' = [k \in Around |-> Unread]
         /\ CallTypeOK' /\ Asked'
<1>1. /\ q[1] \in 0 .. Size - 1 /\ q[2] \in 1 .. Size /\ q[1] + q[2] <= Size
  BY RequestFacts
<1>2. pc = "ready" /\ offs' = 0 /\ addr' = q[1] /\ len' = q[2]
      /\ buf' = [k \in Around |-> Unread]
  BY DEF Call
<1>3. CallTypeOK'
  BY <1>1, <1>2 DEF CallTypeOK, ByteOrNone
<1>4. QED
  BY <1>1, <1>2, <1>3 DEF Asked

\* A read of the card begins at its first block.
LEMMA SdReadStep ==
  ASSUME BootInv, mode = "sd", UNCHANGED mode, NEW q \in Requests, SdRead(q[1], q[2])
  PROVE  SdKept'
<1>0. /\ TypeOK /\ SdTypeOK /\ CmdInv /\ pc' = "send" /\ b' = 0 /\ swap' = NoBlock
      /\ cmd' = IF LenBlocks' > 1 THEN "CMD18" ELSE "CMD17"
      /\ UNCHANGED <<line, out, sent, stream, cs, r1, timeout>>
      /\ Call(q[1], q[2])
  BY DEF SdRead, cardVars, BootInv, TypeOK
<1>1. /\ pc = "ready" /\ offs' = 0 /\ addr' = q[1] /\ len' = q[2] /\ CallTypeOK' /\ Asked'
  BY <1>0, CallFacts
<1>2. cmd' \in {"CMD17", "CMD18"}
  BY <1>0
<1>3. SdTypeOK'
  <2>1. swap' \in [Offset -> ByteOrNone]
    BY <1>0 DEF NoBlock, ByteOrNone
  <2>2. b' \in 0 .. NumBlocks
    BY <1>0, Constants
  <2>3. QED
    BY <1>0, <1>2, <2>1, <2>2 DEF SdTypeOK, Reading
<1>4. CmdInv'
  BY <1>0, <1>1, <1>2 DEF CmdInv, BlockPlaces
<1>5. LenBlocks' \in Nat \ {0}
  <2>1. q[1] \in Nat /\ q[2] \in Nat \ {0} /\ q[1] + q[2] <= Size
    BY RequestFacts
  <2>2. (q[2] + (q[1] % BlockSize) + BlockSize - 1) \div BlockSize \in Nat \ {0}
    BY <2>1, BlockArithmetic
  <2>3. LenBlocks' = (q[2] + (q[1] % BlockSize) + BlockSize - 1) \div BlockSize
    BY <1>1 DEF LenBlocks, FirstOffs
  <2>4. QED
    BY <2>2, <2>3
<1>6. BlockInv'
  <2>1. (cmd' = "CMD17" <=> LenBlocks' = 1) /\ b' \in 0 .. LenBlocks'
    BY <1>0, <1>5
  <2>2. QED
    BY <1>0, <1>1, <1>2, <2>1 DEF BlockInv, BlockPlaces
<1>7. QED
  BY <1>0, <1>1, <1>3, <1>4, <1>6 DEF SdKept, SdPlaces

-----------------------------------------------------------------------------
(***************************************************************************)
(* The NOR flash and the EEPROM.                                           *)
(***************************************************************************)
\* Memory m after n bytes came to a place in it.
Placed(m, bytes, n, at) ==
  /\ m \in [Around -> ByteOrNone]
  /\ \A k \in Around :
       /\ k \in Int
       /\ m[k] = IF k - at \in 0 .. n - 1 THEN bytes[k - at + 1] ELSE buf[k]

\* Bytes that are stored are where Placed says.
LEMMA StoredFacts ==
  ASSUME NEW bytes, NEW n \in Nat, DOMAIN bytes = 1 .. n,
         \A j \in 1 .. n : bytes[j] \in 0 .. 255,
         NEW at \in Int, buf \in [Around -> ByteOrNone]
  PROVE  Placed(Stored(bytes, at), bytes, n, at)
<1>1. Around \subseteq Int
  BY Constants DEF Around
<1>2. ASSUME NEW k \in Around
      PROVE  /\ Stored(bytes, at)[k] \in ByteOrNone
             /\ Stored(bytes, at)[k] =
                   IF k - at \in 0 .. n - 1 THEN bytes[k - at + 1] ELSE buf[k]
  <2>1. Stored(bytes, at)[k] = IF k - at + 1 \in 1 .. n THEN bytes[k - at + 1] ELSE buf[k]
    BY DEF Stored
  <2>2. k - at + 1 \in 1 .. n <=> k - at \in 0 .. n - 1
    BY <1>1
  <2>3. k - at + 1 \in 1 .. n => bytes[k - at + 1] \in ByteOrNone
    BY DEF ByteOrNone
  <2>4. buf[k] \in ByteOrNone
    OBVIOUS
  <2>5. QED
    BY <2>1, <2>2, <2>3, <2>4
<1>3. Stored(bytes, at) = [k \in Around |-> Stored(bytes, at)[k]]
  BY DEF Stored
<1>4. QED
  BY <1>1, <1>2, <1>3 DEF Placed

\* A segment of the NOR flash.
LEMMA NorFacts ==
  ASSUME BootInv, NorChunk
  PROVE  \E n \in Nat \ {0} :
           /\ n = NorLength /\ offs + n <= len /\ (offs + n = len \/ n = Chunk)
           /\ buf' \in [Around -> ByteOrNone]
           /\ \A k \in Around :
                buf'[k] = IF k - offs \in 0 .. n - 1 THEN Medium[addr + k] ELSE buf[k]
<1>1. /\ addr \in 0 .. Size - 1 /\ len \in 0 .. Size /\ offs \in Nat /\ Asked
      /\ offs < len /\ buf \in [Around -> ByteOrNone] /\ Size \in Nat
  BY Constants DEF NorChunk, BootInv, NorInv, TypeOK, CallTypeOK
<1>2. PICK n : n = NorLength
  OBVIOUS
<1>3. n \in Nat \ {0} /\ offs + n <= len /\ (offs + n = len \/ n = Chunk)
  <2>1. Chunk \in Nat \ {0}
    BY Constants
  <2>2. QED
    BY <1>1, <1>2, <2>1 DEF NorLength, Smaller
<1>4. PICK bytes : bytes = [j \in 1 .. n |-> Medium[addr + offs + j - 1]]
  OBVIOUS
<1>5. buf' = Stored(bytes, offs)
  BY <1>2, <1>4 DEF NorChunk, ReadData
<1>6. DOMAIN bytes = 1 .. n /\ \A j \in 1 .. n : bytes[j] = Medium[addr + offs + j - 1]
  BY <1>4
<1>7. ASSUME NEW j \in 1 .. n PROVE bytes[j] \in 0 .. 255
  <2>1. addr + offs + j - 1 \in 0 .. Size - 1
    BY <1>1, <1>3 DEF Asked
  <2>2. Medium \in [0 .. Size - 1 -> 0 .. 255]
    BY Constants
  <2>3. bytes[j] = Medium[addr + offs + j - 1]
    BY <1>6
  <2>4. QED
    BY <2>1, <2>2, <2>3
<1>8. offs \in Int /\ n \in Nat
  BY <1>1, <1>3
<1>9. Placed(buf', bytes, n, offs)
  <2>1. DOMAIN bytes = 1 .. n /\ buf \in [Around -> ByteOrNone]
    BY <1>1, <1>6
  <2>2. QED
    BY <1>5, <1>7, <1>8, <2>1, StoredFacts
<1>10. ASSUME NEW k \in Around, k - offs \in 0 .. n - 1
       PROVE  bytes[k - offs + 1] = Medium[addr + k]
  <2>1. k \in Int
    BY <1>9 DEF Placed
  <2>2. k - offs + 1 \in 1 .. n /\ addr + offs + (k - offs + 1) - 1 = addr + k
    BY <1>1, <1>3, <1>10, <2>1
  <2>3. QED
    BY <1>6, <2>2
<1>11. QED
  BY <1>2, <1>3, <1>9, <1>10 DEF Placed

\* A segment of the flash stays within what was asked for.
LEMMA NorStepKeeps ==
  ASSUME BootInv, NorStep
  PROVE  BootInv'
<1>0. /\ mode = "nor" /\ pc = "norChunk" /\ NorChunk /\ offs' = offs + Chunk
      /\ pc' = IF offs' < len THEN "norChunk" ELSE "ready"
      /\ UNCHANGED <<mode, addr, len, line, out, sent, stream, cs, cmd, r1, timeout, b, swap>>
      /\ UNCHANGED <<enabled, fmt, rx, chip>>
      /\ TypeOK /\ PlaceInv /\ CmdInv /\ NorInv /\ CallTypeOK /\ SdTypeOK /\ I2cTypeOK
  BY DEF NorStep, NorChunk, sdVars, cardVars, i2cVars, BootInv, TypeOK
<1>1. buf' \in [Around -> ByteOrNone]
  BY <1>0, NorFacts
<1>2. pc' \in {"norChunk", "ready"} /\ (pc' = "norChunk" => offs' < len)
  BY <1>0
<1>3. TypeOK'
  <2>1. offs' \in Nat
    BY <1>0, Constants DEF CallTypeOK
  <2>2. CallTypeOK'
    BY <1>0, <1>1, <2>1 DEF CallTypeOK
  <2>3. SdTypeOK' /\ I2cTypeOK'
    BY <1>0 DEF SdTypeOK, I2cTypeOK
  <2>4. QED
    BY <1>0, <1>2, <2>2, <2>3 DEF TypeOK
<1>4. PlaceInv'
  BY <1>0, <1>2 DEF PlaceInv, SdPlaces, BlockPlaces, I2cPlaces
<1>5. CmdInv' /\ BlockInv'
  BY <1>0 DEF CmdInv, BlockInv
<1>6. NorInv'
  BY <1>0, <1>2 DEF NorInv, Asked
<1>7. ChunkInv'
  BY <1>2 DEF ChunkInv, I2cPlaces
<1>8. QED
  BY <1>3, <1>4, <1>5, <1>6, <1>7 DEF BootInv

\* Arithmetic of a chunk of the EEPROM that begins at o of a read from a: r of a FIFO
\* are before it.
LEMMA ChunkArithmetic ==
  ASSUME NEW a \in Nat, NEW o \in Nat, NEW r, r = (a + o) % Fifo
  PROVE  /\ r \in 0 .. Fifo - 1
         /\ (a + (o + Fifo - r)) % Fifo = 0
         /\ (a + (o + (Fifo - r))) % Fifo = 0
<1>1. Fifo \in Nat \ {0} /\ a + o \in Nat
  BY Constants
<1>2. PICK q : q = (a + o) \div Fifo
  OBVIOUS
<1>3. r \in 0 .. Fifo - 1 /\ a + o = Fifo * q + r /\ q \in Nat
  BY <1>1, <1>2, Division
<1>4. q + 1 \in Nat /\ 0 \in 0 .. Fifo - 1 /\ Fifo * (q + 1) = Fifo * q + Fifo /\ Fifo * q \in Nat
  BY <1>1, <1>3
<1>5. (Fifo * (q + 1) + 0) % Fifo = 0
  BY <1>1, <1>4, Quotient
<1>6. /\ a + (o + Fifo - r) = Fifo * (q + 1) + 0
      /\ a + (o + (Fifo - r)) = Fifo * (q + 1) + 0
  BY <1>1, <1>3, <1>4
<1>7. QED
  BY <1>3, <1>5, <1>6

\* The bytes asked for, up to the next chunk or further at the end of a read.
LEMMA LengthFacts ==
  ASSUME BootInv, pc \in I2cPlaces
  PROVE  \E r \in 0 .. Fifo - 1 :
           /\ r = (addr + offs) % Fifo /\ (addr + (offs + Fifo - r)) % Fifo = 0
           /\ I2cLength \in 1 .. Fifo
           /\ offs \in Nat /\ len \in Nat /\ addr \in Nat /\ Fifo \in Nat \ {0}
           /\ addr + len <= Size /\ offs < len
           /\ \/ r # 0 /\ offs = 0 /\ r = addr % Fifo /\ I2cLength = Fifo - r
              \/ r = 0 /\ I2cLength = Smaller(Fifo, len - offs)
<1>1. /\ addr \in Nat /\ len \in Nat /\ offs \in Nat /\ ChunkInv /\ Size \in Nat
  BY Constants DEF BootInv, TypeOK, CallTypeOK
<1>2. Asked /\ offs < len /\ (offs = 0 \/ (addr + offs) % Fifo = 0)
  BY <1>1 DEF ChunkInv
<1>3. PICK r : r = (addr + offs) % Fifo
  OBVIOUS
<1>4. r \in 0 .. Fifo - 1 /\ (addr + (offs + Fifo - r)) % Fifo = 0
  BY <1>1, <1>3, ChunkArithmetic
<1>5. Fifo \in Nat \ {0}
  BY Constants
<1>6. CASE r # 0
  <2>1. offs = 0 /\ addr + offs = addr
    BY <1>1, <1>2, <1>3, <1>6
  <2>2. r = addr % Fifo
    BY <1>3, <2>1
  <2>3. I2cLength = Fifo - r
    BY <1>3, <1>6, <2>2 DEF I2cLength
  <2>4. QED
    BY <1>1, <1>2, <1>3, <1>4, <1>5, <1>6, <2>1, <2>2, <2>3 DEF Asked
<1>7. CASE r = 0
  <2>1. I2cLength = Smaller(Fifo, len - offs)
    BY <1>3, <1>7 DEF I2cLength
  <2>2. I2cLength \in 1 .. Fifo
    BY <1>1, <1>2, <1>5, <2>1 DEF Smaller
  <2>3. QED
    BY <1>1, <1>2, <1>3, <1>4, <1>5, <1>7, <2>1, <2>2 DEF Asked
<1>8. QED
  BY <1>6, <1>7

\* A step of the EEPROM driver leaves the SD card alone.
LEMMA I2cFrame ==
  ASSUME BootInv, mode = "i2c", UNCHANGED <<mode, sdVars>>, CallTypeOK', I2cTypeOK',
         pc' \in I2cPlaces \cup {"ready"}, ChunkInv',
         pc' # "i2cPoll" => fmt' = <<>> /\ rx' = <<>>
  PROVE  BootInv'
<1>0. /\ TypeOK /\ SdTypeOK /\ PlaceInv
      /\ UNCHANGED <<line, out, sent, stream, cs, cmd, r1, timeout, b, swap>>
  BY DEF BootInv, TypeOK, sdVars, cardVars
<1>1. SdTypeOK'
  BY <1>0 DEF SdTypeOK
<1>2. TypeOK'
  BY <1>0, <1>1 DEF TypeOK, I2cPlaces
<1>3. PlaceInv'
  BY <1>0 DEF PlaceInv, SdPlaces, BlockPlaces, I2cPlaces
<1>4. CmdInv' /\ BlockInv' /\ NorInv'
  BY DEF CmdInv, BlockInv, NorInv, I2cPlaces
<1>5. QED
  BY <1>2, <1>3, <1>4 DEF BootInv

\* What stays with a chunk.
LEMMA ChunkFrame ==
  ASSUME UNCHANGED <<addr, len, offs>>
  PROVE  /\ I2cLength' = I2cLength /\ Asked' = Asked
         /\ High' = High /\ Low' = Low /\ \A n : Queued(n)' = Queued(n)
<1>1. High' = High /\ Low' = Low
  BY DEF High, Low
<1>2. QED
  BY <1>1 DEF I2cLength, Smaller, Asked, Queued

\* The entries of the format FIFO are what the host takes.
LEMMA EntryFacts ==
  ASSUME BootInv, pc \in I2cPlaces
  PROVE  /\ I2cLength \in 1 .. Fifo /\ Fifo \in Nat \ {0}
         /\ High % Base \in 0 .. Base - 1 /\ Low \in 0 .. Base - 1
         /\ {<<"start", "write">>, <<"start", "read">>} \subseteq Entries
         /\ {<<"tx", High % Base>>, <<"tx", Low>>, <<"rx", I2cLength>>} \subseteq Entries
<1>1. addr + offs \in Nat /\ Base \in Nat \ {0} /\ I2cLength \in 1 .. Fifo /\ Fifo \in Nat \ {0}
  <2>1. addr \in Nat /\ offs \in Nat /\ I2cLength \in 1 .. Fifo
    BY LengthFacts
  <2>2. Base \in Nat \ {0} /\ Fifo \in Nat \ {0}
    BY Constants
  <2>3. QED
    BY <2>1, <2>2
<1>2. High \in Nat /\ Low \in 0 .. Base - 1
  BY <1>1, Division DEF High, Low
<1>3. High % Base \in 0 .. Base - 1
  BY <1>1, <1>2, Division
<1>4. QED
  BY <1>1, <1>2, <1>3 DEF Entries

\* The FIFOs are empty when the host is disabled.
LEMMA I2cWaitStep ==
  ASSUME BootInv, I2cStep, I2cWait
  PROVE  BootInv'
<1>0. /\ mode = "i2c" /\ pc = "i2cWait" /\ pc' = "i2cQueue" /\ fmt = <<>> /\ rx = <<>>
      /\ enabled' = FALSE /\ UNCHANGED <<fmt, rx, chip, addr, len, offs, buf, mode, sdVars>>
      /\ CallTypeOK /\ I2cTypeOK /\ ChunkInv
  BY DEF I2cStep, I2cWait, BootInv, TypeOK
<1>1. CallTypeOK' /\ I2cTypeOK'
  BY <1>0 DEF CallTypeOK, I2cTypeOK
<1>2. ChunkInv'
  BY <1>0 DEF ChunkInv, I2cPlaces, Asked
<1>3. QED
  BY <1>0, <1>1, <1>2, I2cFrame DEF I2cPlaces

\* All that a chunk needs is queued at once.
LEMMA I2cQueueStep ==
  ASSUME BootInv, I2cStep, I2cQueue
  PROVE  BootInv'
<1>0. /\ mode = "i2c" /\ pc = "i2cQueue" /\ pc' = "i2cPoll" /\ enabled' = TRUE
      /\ UNCHANGED <<rx, chip, addr, len, offs, buf, mode, sdVars>>
      /\ CallTypeOK /\ I2cTypeOK /\ ChunkInv /\ PlaceInv
  BY DEF I2cStep, I2cQueue, BootInv, TypeOK
<1>1. fmt' = <<<<"start", "write">>, <<"tx", High % Base>>, <<"tx", Low>>, <<"start", "read">>,
               <<"rx", I2cLength>>>>
  BY DEF I2cQueue, High, Low
<1>2. CallTypeOK' /\ I2cTypeOK'
  <2>1. fmt' \in Seq(Entries)
    <3>1. /\ {<<"start", "write">>, <<"start", "read">>} \subseteq Entries
          /\ {<<"tx", High % Base>>, <<"tx", Low>>, <<"rx", I2cLength>>} \subseteq Entries
      BY <1>0, EntryFacts DEF I2cPlaces
    <3>2. QED
      BY <1>1, <3>1
  <2>2. QED
    BY <1>0, <2>1 DEF CallTypeOK, I2cTypeOK
<1>3. ChunkInv'
  <2>1. Asked' = Asked /\ I2cLength' = I2cLength /\ \A n : Queued(n)' = Queued(n)
    BY <1>0, ChunkFrame
  <2>2. rx = <<>> /\ Asked /\ offs < len /\ (offs = 0 \/ (addr + offs) % Fifo = 0)
    BY <1>0 DEF PlaceInv, ChunkInv, I2cPlaces
  <2>3. fmt' \in Queued(I2cLength)
    BY <1>1 DEF Queued
  <2>4. fmt' \in Queued(I2cLength)'
    BY <1>0, <2>1, <2>3 DEF Queued, High, Low
  <2>5. QED
    BY <1>0, <2>1, <2>2, <2>4 DEF ChunkInv, I2cPlaces, Going
<1>4. QED
  BY <1>0, <1>2, <1>3, I2cFrame DEF I2cPlaces

\* A step of the host in a chunk.
LEMMA HostFrame ==
  ASSUME BootInv, HostStep, Going(fmt', rx'), fmt' \in Seq(Entries),
         rx' \in Seq(0 .. 255), Len(rx') <= Fifo,
         chip' \in [dir : {"write", "read"}, at : 0 .. Base * Base - 1]
  PROVE  BootInv'
<1>0. /\ fmt # <<>> /\ UNCHANGED <<mode, sdVars, enabled, pc, addr, len, offs, buf>>
      /\ CallTypeOK /\ I2cTypeOK /\ PlaceInv /\ ChunkInv
  BY DEF HostStep, I2cHost, BootInv, TypeOK
<1>1. mode = "i2c" /\ pc = "i2cPoll"
  BY <1>0 DEF PlaceInv, I2cPlaces
<1>2. CallTypeOK' /\ I2cTypeOK'
  BY <1>0 DEF CallTypeOK, I2cTypeOK
<1>3. ChunkInv'
  <2>1. Asked' = Asked /\ I2cLength' = I2cLength /\ \A n : Queued(n)' = Queued(n)
    BY <1>0, ChunkFrame
  <2>2. Going(fmt, rx)'
    <3>1. fmt' \in Queued(I2cLength) => fmt' \in Queued(I2cLength)'
      BY <1>0, <2>1 DEF Queued, High, Low
    <3>2. QED
      BY <2>1, <3>1 DEF Going
  <2>3. Asked /\ offs < len /\ (offs = 0 \/ (addr + offs) % Fifo = 0)
    BY <1>0, <1>1 DEF ChunkInv, I2cPlaces
  <2>4. QED
    BY <1>0, <1>1, <2>1, <2>2, <2>3 DEF ChunkInv, I2cPlaces
<1>4. QED
  BY <1>0, <1>1, <1>2, <1>3, I2cFrame DEF I2cPlaces

\* Where the host is in the commands of a chunk.
LEMMA HostPlace ==
  ASSUME BootInv, HostStep
  PROVE  /\ mode = "i2c" /\ pc = "i2cPoll" /\ fmt # <<>>
         /\ UNCHANGED <<addr, len, offs, buf, pc, mode>>
         /\ fmt \in Seq(Entries) /\ rx \in Seq(0 .. 255) /\ Len(rx) <= Fifo
         /\ chip \in [dir : {"write", "read"}, at : 0 .. Base * Base - 1]
         /\ Head(fmt) \in Entries /\ Tail(fmt) \in Seq(Entries)
         /\ \/ rx = <<>> /\ fmt \in Queued(I2cLength)
            \/ fmt = <<<<"rx", I2cLength - Len(rx)>>>> /\ Len(rx) < I2cLength
<1>0. /\ fmt # <<>> /\ PlaceInv /\ ChunkInv /\ I2cTypeOK
      /\ UNCHANGED <<addr, len, offs, buf, pc, mode>>
  BY DEF HostStep, I2cHost, BootInv, TypeOK
<1>1. mode = "i2c" /\ pc = "i2cPoll"
  BY <1>0 DEF PlaceInv, I2cPlaces
<1>2. Going(fmt, rx)
  BY <1>0, <1>1 DEF ChunkInv, I2cPlaces
<1>3. fmt \in Seq(Entries) /\ rx \in Seq(0 .. 255) /\ Len(rx) <= Fifo
  BY <1>0 DEF I2cTypeOK
<1>4. Head(fmt) \in Entries /\ Tail(fmt) \in Seq(Entries)
  BY <1>0, <1>3, HeadTailProperties
<1>5. QED
  BY <1>0, <1>1, <1>2, <1>3, <1>4 DEF I2cTypeOK, Going

\* The host takes a start condition.
LEMMA HostStartStep ==
  ASSUME BootInv, HostStep, HostStart
  PROVE  BootInv'
<1>0. /\ Head(fmt)[1] = "start" /\ chip' = [chip EXCEPT !.dir = Head(fmt)[2]]
      /\ fmt' = Tail(fmt) /\ rx' = rx
  BY DEF HostStart
<1>1. /\ fmt # <<>> /\ rx \in Seq(0 .. 255) /\ Len(rx) <= Fifo /\ pc = "i2cPoll"
      /\ chip \in [dir : {"write", "read"}, at : 0 .. Base * Base - 1]
      /\ Head(fmt) \in Entries /\ Tail(fmt) \in Seq(Entries)
      /\ \/ rx = <<>> /\ fmt \in Queued(I2cLength)
         \/ fmt = <<<<"rx", I2cLength - Len(rx)>>>> /\ Len(rx) < I2cLength
  BY HostPlace
<1>2. chip' \in [dir : {"write", "read"}, at : 0 .. Base * Base - 1]
  <2>1. Head(fmt)[2] \in {"write", "read"}
    BY <1>0, <1>1 DEF Entries
  <2>2. QED
    BY <1>0, <1>1, <2>1
<1>3. Going(fmt', rx')
  <2>1. rx = <<>> /\ fmt \in Queued(I2cLength)
    BY <1>0, <1>1
  <2>2. \/ fmt = <<<<"start", "write">>, <<"tx", High % Base>>, <<"tx", Low>>, <<"start", "read">>,
                   <<"rx", I2cLength>>>>
        \/ fmt = <<<<"start", "read">>, <<"rx", I2cLength>>>>
    BY <1>0, <2>1 DEF Queued
  <2>3. CASE fmt = <<<<"start", "write">>, <<"tx", High % Base>>,
                     <<"tx", Low>>, <<"start", "read">>,
                     <<"rx", I2cLength>>>>
    <3>1. fmt' = <<<<"tx", High % Base>>, <<"tx", Low>>, <<"start", "read">>, <<"rx", I2cLength>>>>
      BY <1>0, <2>3
    <3>2. QED
      BY <1>0, <2>1, <3>1 DEF Going, Queued
  <2>4. CASE fmt = <<<<"start", "read">>, <<"rx", I2cLength>>>>
    <3>1. fmt' = <<<<"rx", I2cLength>>>>
      BY <1>0, <2>4
    <3>2. Len(rx') = 0 /\ I2cLength >= 1 /\ I2cLength \in Nat
      BY <1>0, <1>1, <2>1, EntryFacts DEF I2cPlaces
    <3>3. QED
      BY <3>1, <3>2 DEF Going
  <2>5. QED
    BY <2>2, <2>3, <2>4
<1>4. QED
  BY <1>0, <1>1, <1>2, <1>3, HostFrame

\* The host sends an address byte.
LEMMA HostSendStep ==
  ASSUME BootInv, HostStep, HostSend
  PROVE  BootInv'
<1>0. /\ Head(fmt)[1] = "tx" /\ fmt' = Tail(fmt) /\ rx' = rx
      /\ chip' = [chip EXCEPT !.at = (@ * Base + Head(fmt)[2]) % (Base * Base)]
  BY DEF HostSend
<1>1. /\ fmt # <<>> /\ rx \in Seq(0 .. 255) /\ Len(rx) <= Fifo /\ pc = "i2cPoll"
      /\ chip \in [dir : {"write", "read"}, at : 0 .. Base * Base - 1]
      /\ Head(fmt) \in Entries /\ Tail(fmt) \in Seq(Entries)
      /\ \/ rx = <<>> /\ fmt \in Queued(I2cLength)
         \/ fmt = <<<<"rx", I2cLength - Len(rx)>>>> /\ Len(rx) < I2cLength
  BY HostPlace
<1>2. chip' \in [dir : {"write", "read"}, at : 0 .. Base * Base - 1]
  <2>1. Base \in Nat \ {0} /\ Base * Base \in Nat \ {0}
    BY Constants
  <2>2. Head(fmt)[2] \in 0 .. Base - 1
    BY <1>0, <1>1 DEF Entries
  <2>3. chip.at \in 0 .. Base * Base - 1
    BY <1>1
  <2>4. chip.at * Base + Head(fmt)[2] \in Nat
    BY <2>1, <2>2, <2>3
  <2>5. (chip.at * Base + Head(fmt)[2]) % (Base * Base) \in 0 .. Base * Base - 1
    BY <2>1, <2>4, Division
  <2>6. QED
    BY <1>0, <1>1, <2>5
<1>3. Going(fmt', rx')
  <2>1. rx = <<>> /\ fmt \in Queued(I2cLength)
    BY <1>0, <1>1
  <2>2. \/ fmt = <<<<"tx", High % Base>>, <<"tx", Low>>, <<"start", "read">>, <<"rx", I2cLength>>>>
        \/ fmt = <<<<"tx", Low>>, <<"start", "read">>, <<"rx", I2cLength>>>>
    BY <1>0, <2>1 DEF Queued
  <2>3. CASE fmt = <<<<"tx", High % Base>>,
                     <<"tx", Low>>, <<"start", "read">>, <<"rx", I2cLength>>>>
    <3>1. fmt' = <<<<"tx", Low>>, <<"start", "read">>, <<"rx", I2cLength>>>>
      BY <1>0, <2>3
    <3>2. QED
      BY <1>0, <2>1, <3>1 DEF Going, Queued
  <2>4. CASE fmt = <<<<"tx", Low>>, <<"start", "read">>, <<"rx", I2cLength>>>>
    <3>1. fmt' = <<<<"start", "read">>, <<"rx", I2cLength>>>>
      BY <1>0, <2>4
    <3>2. QED
      BY <1>0, <2>1, <3>1 DEF Going, Queued
  <2>5. QED
    BY <2>2, <2>3, <2>4
<1>4. QED
  BY <1>0, <1>1, <1>2, <1>3, HostFrame

\* A byte is received behind those in the FIFO, and one less is to come.
LEMMA ReceiveFacts ==
  ASSUME BootInv, HostStep, HostReceive
  PROVE  \E v \in 0 .. 255 :
           /\ v = IF chip.at < Size THEN Medium[chip.at] ELSE 255
           /\ rx' = Append(rx, v) /\ rx' \in Seq(0 .. 255) /\ Len(rx') = Len(rx) + 1
           /\ \A j \in 1 .. Len(rx) : rx'[j] = rx[j]
           /\ rx'[Len(rx) + 1] = v /\ Len(rx) \in Nat
           /\ fmt = <<<<"rx", I2cLength - Len(rx)>>>> /\ Len(rx) < I2cLength
           /\ fmt' = IF I2cLength - Len(rx) = 1 THEN <<>>
                     ELSE <<<<"rx", I2cLength - Len(rx) - 1>>>>
           /\ chip' = [chip EXCEPT !.at = (@ + 1) % (Base * Base)]
           /\ chip.at \in 0 .. Base * Base - 1 /\ pc = "i2cPoll"
           /\ Len(rx') <= Fifo
<1>0. /\ Head(fmt)[1] = "rx" /\ Len(rx) < Fifo
      /\ rx' = Append(rx, IF chip.at < Size THEN Medium[chip.at] ELSE 255)
      /\ chip' = [chip EXCEPT !.at = (@ + 1) % (Base * Base)]
      /\ fmt' = IF Head(fmt)[2] = 1 THEN Tail(fmt)
                ELSE <<<<"rx", Head(fmt)[2] - 1>>>> \o Tail(fmt)
  BY DEF HostReceive
<1>1. /\ fmt # <<>> /\ rx \in Seq(0 .. 255) /\ pc = "i2cPoll"
      /\ chip \in [dir : {"write", "read"}, at : 0 .. Base * Base - 1]
      /\ \/ rx = <<>> /\ fmt \in Queued(I2cLength)
         \/ fmt = <<<<"rx", I2cLength - Len(rx)>>>> /\ Len(rx) < I2cLength
  BY HostPlace
<1>2. fmt = <<<<"rx", I2cLength - Len(rx)>>>> /\ Len(rx) < I2cLength
  BY <1>0, <1>1 DEF Queued
<1>3. PICK v : v = IF chip.at < Size THEN Medium[chip.at] ELSE 255
  OBVIOUS
<1>4. v \in 0 .. 255 /\ chip.at \in 0 .. Base * Base - 1
  <2>1. chip.at \in 0 .. Base * Base - 1 /\ chip.at \in Nat
    BY <1>1
  <2>2. Medium \in [0 .. Size - 1 -> 0 .. 255] /\ Size \in Nat
    BY Constants
  <2>3. CASE chip.at < Size
    <3>1. chip.at \in 0 .. Size - 1
      BY <2>1, <2>2, <2>3
    <3>2. QED
      BY <1>3, <2>1, <2>2, <2>3, <3>1
  <2>4. CASE ~(chip.at < Size)
    <3>1. v = 255
      BY <1>3, <2>4
    <3>2. QED
      BY <2>1, <3>1
  <2>5. QED
    BY <2>3, <2>4
<1>5. /\ rx' = Append(rx, v) /\ rx' \in Seq(0 .. 255) /\ Len(rx') = Len(rx) + 1
      /\ \A j \in 1 .. Len(rx) : rx'[j] = rx[j]
      /\ rx'[Len(rx) + 1] = v /\ Len(rx) \in Nat
  <2>1. rx' = Append(rx, v)
    BY <1>0, <1>3
  <2>2. QED
    BY <1>1, <1>4, <2>1
<1>6. fmt' = IF I2cLength - Len(rx) = 1 THEN <<>> ELSE <<<<"rx", I2cLength - Len(rx) - 1>>>>
  <2>1. PICK m : m = I2cLength - Len(rx)
    OBVIOUS
  <2>2. Head(fmt)[2] = m /\ Tail(fmt) = <<>>
    BY <1>2, <2>1
  <2>3. <<<<"rx", m - 1>>>> \o <<>> = <<<<"rx", m - 1>>>>
    OBVIOUS
  <2>4. QED
    BY <1>0, <2>1, <2>2, <2>3
<1>7. Len(rx') <= Fifo
  <2>1. Fifo \in Nat
    BY Constants
  <2>2. QED
    BY <1>0, <1>5, <2>1
<1>8. QED
  BY <1>0, <1>1, <1>2, <1>3, <1>4, <1>5, <1>6, <1>7

\* The host receives a byte of those asked for.
LEMMA HostReceiveStep ==
  ASSUME BootInv, HostStep, HostReceive
  PROVE  BootInv'
<1>0. /\ rx' \in Seq(0 .. 255) /\ Len(rx') = Len(rx) + 1 /\ Len(rx) \in Nat
      /\ Len(rx) < I2cLength /\ Len(rx') <= Fifo /\ pc = "i2cPoll"
      /\ fmt' = IF I2cLength - Len(rx) = 1 THEN <<>> ELSE <<<<"rx", I2cLength - Len(rx) - 1>>>>
      /\ chip' = [chip EXCEPT !.at = (@ + 1) % (Base * Base)]
      /\ chip.at \in 0 .. Base * Base - 1
  BY ReceiveFacts
<1>1. I2cLength \in 1 .. Fifo /\ Fifo \in Nat \ {0}
  BY <1>0, EntryFacts DEF I2cPlaces
<1>2. chip' \in [dir : {"write", "read"}, at : 0 .. Base * Base - 1]
  <2>1. chip \in [dir : {"write", "read"}, at : 0 .. Base * Base - 1]
    BY HostPlace
  <2>2. chip.at + 1 \in Nat /\ Base * Base \in Nat \ {0}
    <3>1. Base * Base \in Nat \ {0}
      BY Constants
    <3>2. QED
      BY <1>0, <3>1
  <2>3. (chip.at + 1) % (Base * Base) \in 0 .. Base * Base - 1
    BY <2>2, Division
  <2>4. QED
    BY <1>0, <2>1, <2>3
<1>3. fmt' \in Seq(Entries) /\ Going(fmt', rx')
  <2>1. CASE I2cLength - Len(rx) = 1
    <3>1. fmt' = <<>> /\ Len(rx') = I2cLength
      BY <1>0, <1>1, <2>1
    <3>2. QED
      BY <3>1 DEF Going
  <2>2. CASE I2cLength - Len(rx) # 1
    <3>1. PICK m : m = I2cLength - Len(rx) - 1
      OBVIOUS
    <3>2. m \in 1 .. Fifo /\ m = I2cLength - Len(rx') /\ Len(rx') < I2cLength
      BY <1>0, <1>1, <2>2, <3>1
    <3>3. fmt' = <<<<"rx", m>>>> /\ <<"rx", m>> \in Entries
      BY <1>0, <2>2, <3>1, <3>2 DEF Entries
    <3>4. QED
      BY <3>2, <3>3 DEF Going
  <2>3. QED
    BY <2>1, <2>2
<1>4. QED
  BY <1>0, <1>2, <1>3, HostFrame

\* The chunk comes from the FIFO to memory.
LEMMA CopyFacts ==
  ASSUME BootInv, I2cStep, I2cCopy
  PROVE  /\ mode = "i2c" /\ pc = "i2cPoll" /\ fmt = <<>> /\ rx' = <<>>
         /\ UNCHANGED <<mode, sdVars, enabled, fmt, chip, addr, len>>
         /\ Len(rx) = I2cLength /\ rx \in Seq(0 .. 255)
         /\ offs' = offs + Fifo - ((addr + offs) % Fifo)
         /\ pc' = IF offs' < len THEN "i2cWait" ELSE "ready"
         /\ Placed(buf', rx, I2cLength, offs)
<1>0. /\ mode = "i2c" /\ pc = "i2cPoll" /\ ChunkReceived
      /\ buf' = Stored([j \in 1 .. I2cLength |-> IF j <= Len(rx) THEN rx[j] ELSE 0], offs)
      /\ rx' = SubSeq(rx, I2cLength + 1, Len(rx))
      /\ offs' = offs + Fifo - ((addr + offs) % Fifo)
      /\ pc' = IF offs' < len THEN "i2cWait" ELSE "ready"
      /\ UNCHANGED <<mode, sdVars, enabled, fmt, chip, addr, len>>
      /\ CallTypeOK /\ I2cTypeOK /\ ChunkInv
  BY DEF I2cStep, I2cCopy, BootInv, TypeOK
<1>1. I2cLength \in 1 .. Fifo /\ Fifo \in Nat \ {0}
  BY <1>0, EntryFacts DEF I2cPlaces
<1>2. rx \in Seq(0 .. 255) /\ Len(rx) \in Nat /\ Going(fmt, rx)
  BY <1>0 DEF I2cTypeOK, ChunkInv, I2cPlaces
<1>3. fmt = <<>> /\ Len(rx) = I2cLength
  <2>1. Len(rx) >= I2cLength
    BY <1>0 DEF ChunkReceived
  <2>2. rx # <<>> /\ ~(Len(rx) < I2cLength)
    BY <1>1, <1>2, <2>1
  <2>3. QED
    BY <1>2, <2>2 DEF Going
<1>4. rx' = <<>>
  <2>1. I2cLength + 1 \in Int /\ Len(rx) \in Int /\ Len(rx) < I2cLength + 1
    BY <1>1, <1>3
  <2>2. QED
    BY <1>0, <2>1, SubSeqEmpty
<1>5. [j \in 1 .. I2cLength |-> IF j <= Len(rx) THEN rx[j] ELSE 0] = rx
  <2>1. rx = [j \in 1 .. Len(rx) |-> rx[j]]
    BY <1>2
  <2>2. \A j \in 1 .. I2cLength : j <= Len(rx)
    BY <1>1, <1>3
  <2>3. QED
    BY <1>3, <2>1, <2>2
<1>6. Placed(buf', rx, I2cLength, offs)
  <2>1. DOMAIN rx = 1 .. I2cLength /\ I2cLength \in Nat /\ offs \in Int
        /\ buf \in [Around -> ByteOrNone]
    BY <1>0, <1>1, <1>2, <1>3 DEF CallTypeOK
  <2>2. \A j \in 1 .. I2cLength : rx[j] \in 0 .. 255
    BY <1>2, <1>3, ElementOfSeq
  <2>3. buf' = Stored(rx, offs)
    BY <1>0, <1>5
  <2>4. QED
    BY <2>1, <2>2, <2>3, StoredFacts
<1>7. QED
  BY <1>0, <1>2, <1>3, <1>4, <1>6

\* A chunk that is copied leaves the FIFOs empty.
LEMMA I2cCopyStep ==
  ASSUME BootInv, I2cStep, I2cCopy
  PROVE  BootInv'
<1>0. /\ mode = "i2c" /\ pc = "i2cPoll" /\ fmt = <<>> /\ rx' = <<>>
      /\ UNCHANGED <<mode, sdVars, enabled, fmt, chip, addr, len>>
      /\ offs' = offs + Fifo - ((addr + offs) % Fifo)
      /\ pc' = IF offs' < len THEN "i2cWait" ELSE "ready"
      /\ Placed(buf', rx, I2cLength, offs)
  BY CopyFacts
<1>1. CallTypeOK /\ I2cTypeOK /\ ChunkInv
  BY DEF BootInv, TypeOK
<1>2. PICK r \in 0 .. Fifo - 1 :
        /\ r = (addr + offs) % Fifo /\ (addr + (offs + Fifo - r)) % Fifo = 0
        /\ offs \in Nat /\ Fifo \in Nat \ {0}
  BY <1>0, LengthFacts DEF I2cPlaces
<1>3. offs' = offs + Fifo - r /\ offs' \in Nat /\ (addr + offs') % Fifo = 0
  BY <1>0, <1>2
<1>4. CallTypeOK' /\ I2cTypeOK'
  <2>1. <<>> \in Seq(0 .. 255) /\ Len(<<>>) = 0 /\ Fifo >= 0
    BY <1>2
  <2>2. CallTypeOK'
    BY <1>0, <1>1, <1>3 DEF CallTypeOK, Placed
  <2>3. I2cTypeOK'
    BY <1>0, <1>1, <2>1 DEF I2cTypeOK
  <2>4. QED
    BY <2>2, <2>3
<1>5. pc' \in {"i2cWait", "ready"} /\ (pc' = "i2cWait" => offs' < len)
  BY <1>0
<1>6. ChunkInv'
  <2>1. Asked
    BY <1>0, <1>1 DEF ChunkInv, I2cPlaces
  <2>2. QED
    BY <1>0, <1>3, <1>5, <2>1 DEF ChunkInv, I2cPlaces, Asked
<1>7. QED
  BY <1>0, <1>4, <1>5, <1>6, I2cFrame DEF I2cPlaces

\* The host, whatever it does.
LEMMA HostStepKeeps ==
  ASSUME BootInv, HostStep
  PROVE  BootInv'
<1>1. HostStart \/ HostSend \/ HostReceive
  BY DEF HostStep, I2cHost
<1>2. QED
  BY <1>1, HostStartStep, HostSendStep, HostReceiveStep

\* The EEPROM driver, whatever it does.
LEMMA I2cStepKeeps ==
  ASSUME BootInv, I2cStep
  PROVE  BootInv'
<1>1. I2cWait \/ I2cQueue \/ I2cCopy
  BY DEF I2cStep, I2cDriver
<1>2. QED
  BY <1>1, I2cWaitStep, I2cQueueStep, I2cCopyStep

\* The SD driver, whatever it does.
LEMMA SdStepKeeps ==
  ASSUME BootInv, SdStep
  PROVE  BootInv'
<1>1. mode = "sd" /\ SdDriver /\ UNCHANGED <<mode, i2cVars>> /\ UNCHANGED mode
  BY DEF SdStep
<1>2. SdKept'
  BY <1>1, WakeStep, SendCmdStep, DiscardStuffByteStep,
       PollResponseStep, ReadRestStep,
     PollBusyStep, CsFreeStep, CheckResponseStep, PollTokenStep, ReadChunkStep,
     CheckBlockStep, CopyBlockStep DEF SdDriver
<1>3. QED
  BY <1>1, <1>2, SdFrame

\* Setting up a medium starts no transfer.
LEMMA MainStep ==
  ASSUME BootInv, Main
  PROVE  BootInv'
<1>0. /\ pc = "main" /\ pc' \in {"fail", "wake", "ready"}
      /\ pc' = "wake" => mode = "sd"
      /\ pc' = "ready" => mode # "sd"
      /\ UNCHANGED <<mode, addr, len, offs, buf, line, out, sent, stream, cs, cmd, r1, timeout, b,
                     swap, enabled, fmt, rx, chip>>
      /\ TypeOK /\ PlaceInv /\ CmdInv
  BY DEF Main, sdVars, cardVars, i2cVars, BootInv
<1>1. TypeOK'
  BY <1>0 DEF TypeOK, CallTypeOK, SdTypeOK, I2cTypeOK
<1>2. PlaceInv'
  BY <1>0 DEF PlaceInv, SdPlaces, BlockPlaces, I2cPlaces
<1>3. CmdInv' /\ (mode' = "sd" => cmd' \notin Reading)
  BY <1>0 DEF CmdInv, BlockPlaces, Reading
<1>4. BlockInv' /\ NorInv' /\ ChunkInv'
  BY <1>0, <1>3 DEF BlockInv, NorInv, ChunkInv, I2cPlaces
<1>5. QED
  BY <1>1, <1>2, <1>3, <1>4 DEF BootInv

\* Whichever medium is read, its driver begins in its own places.
LEMMA ReadStep ==
  ASSUME BootInv, NEW q \in Requests, Read(q[1], q[2])
  PROVE  BootInv'
<1>1. CASE mode = "sd" /\ SdRead(q[1], q[2]) /\ UNCHANGED i2cVars
  <2>1. UNCHANGED mode /\ UNCHANGED <<mode, i2cVars>>
    BY <1>1 DEF Read
  <2>2. SdKept'
    BY <1>1, <2>1, SdReadStep
  <2>3. QED
    BY <1>1, <2>1, <2>2, SdFrame
<1>2. CASE mode = "nor" /\ NorRead(q[1], q[2]) /\ UNCHANGED <<sdVars, i2cVars>>
  <2>0. /\ Call(q[1], q[2]) /\ pc' = "norChunk" /\ mode' = "nor"
        /\ UNCHANGED <<line, out, sent, stream, cs, cmd, r1, timeout, b, swap>>
        /\ UNCHANGED <<enabled, fmt, rx, chip>>
        /\ TypeOK /\ PlaceInv
    BY <1>2 DEF Read, NorRead, sdVars, cardVars, i2cVars, BootInv
  <2>1. /\ pc = "ready" /\ offs' = 0 /\ len' = q[2] /\ CallTypeOK' /\ Asked'
    BY <2>0, CallFacts
  <2>2. TypeOK'
    BY <2>0, <2>1 DEF TypeOK, SdTypeOK, I2cTypeOK
  <2>3. PlaceInv'
    BY <1>2, <2>0, <2>1 DEF PlaceInv, SdPlaces, BlockPlaces, I2cPlaces
  <2>4. CmdInv' /\ BlockInv' /\ ChunkInv'
    BY <2>0 DEF CmdInv, BlockInv, ChunkInv, I2cPlaces
  <2>5. NorInv'
    <3>1. offs' < len'
      BY <2>1, RequestFacts
    <3>2. QED
      BY <2>1, <3>1 DEF NorInv
  <2>6. QED
    BY <2>2, <2>3, <2>4, <2>5 DEF BootInv
<1>3. CASE mode = "i2c" /\ I2cRead(q[1], q[2]) /\ UNCHANGED sdVars
  <2>0. /\ Call(q[1], q[2]) /\ pc' = "i2cWait" /\ mode' = mode
        /\ UNCHANGED <<enabled, fmt, rx, chip>> /\ I2cTypeOK /\ PlaceInv
    BY <1>3 DEF Read, I2cRead, i2cVars, BootInv, TypeOK
  <2>1. /\ pc = "ready" /\ offs' = 0 /\ len' = q[2] /\ CallTypeOK' /\ Asked'
    BY <2>0, CallFacts
  <2>2. I2cTypeOK'
    BY <2>0 DEF I2cTypeOK
  <2>3. ChunkInv'
    <3>1. offs' < len'
      BY <2>1, RequestFacts
    <3>2. QED
      BY <2>0, <2>1, <3>1 DEF ChunkInv
  <2>4. fmt' = <<>> /\ rx' = <<>>
    BY <2>0, <2>1 DEF PlaceInv
  <2>5. QED
    BY <1>3, <2>0, <2>1, <2>2, <2>3, <2>4, I2cFrame DEF I2cPlaces
<1>4. QED
  BY <1>1, <1>2, <1>3 DEF Read

\* BootInv is about the variables alone.
LEMMA StutterStep ==
  ASSUME BootInv, UNCHANGED vars
  PROVE  BootInv'
<1>1. UNCHANGED <<mode, pc, addr, len, offs, buf, line, out, sent, stream, cs, cmd, r1, timeout, b,
                  swap, enabled, fmt, rx, chip>>
  BY DEF vars, sdVars, cardVars, i2cVars
<1>2. TypeOK' /\ PlaceInv' /\ CmdInv' /\ NorInv'
  BY <1>1 DEF BootInv, TypeOK, CallTypeOK, SdTypeOK, I2cTypeOK,
       PlaceInv, CmdInv, NorInv, Asked
<1>3. BlockInv'
  <2>1. Asked' = Asked /\ At' = At /\ LenBlocks' = LenBlocks
    BY <1>1, ReadFrame
  <2>2. QED
    BY <1>1, <2>1 DEF BootInv, BlockInv
<1>4. ChunkInv'
  <2>1. Asked' = Asked /\ I2cLength' = I2cLength /\ High' = High /\ Low' = Low
    BY <1>1, ChunkFrame
  <2>2. Going(fmt, rx) => Going(fmt, rx)'
    BY <1>1, <2>1 DEF Going, Queued
  <2>3. QED
    BY <1>1, <2>1, <2>2 DEF BootInv, ChunkInv
<1>5. QED
  BY <1>2, <1>3, <1>4 DEF BootInv

\* The invariant holds when the boot ROM comes here.
LEMMA BootInit ==
  ASSUME Init
  PROVE  BootInv
<1>0. /\ mode \in {"sd", "nor", "i2c"} /\ pc = "main"
      /\ CallInit /\ SdInit /\ I2cInit
  BY DEF Init
<1>1. CallTypeOK
  <2>1. 0 \in 0 .. Size - 1 /\ 0 \in 0 .. Size
    <3>1. Size \in Nat \ {0}
      BY Constants
    <3>2. QED
      BY <3>1
  <2>2. QED
    BY <1>0, <2>1 DEF CallInit, CallTypeOK, ByteOrNone
<1>2. SdTypeOK
  <2>1. NumBlocks \in Nat /\ CmdTimeout + DataTimeout + BusyTimeout \in Nat
    BY Constants
  <2>2. <<>> \in Seq(0 .. 255) /\ 0 \in 0 .. 255
    OBVIOUS
  <2>3. NoBlock \in [Offset -> ByteOrNone]
    BY DEF NoBlock, ByteOrNone
  <2>4. 0 \in 0 .. NumBlocks /\ -1 \in -1 .. NumBlocks
        /\ 0 \in 0 .. CmdTimeout + DataTimeout + BusyTimeout
    BY <2>1
  <2>5. QED
    BY <1>0, <2>2, <2>3, <2>4 DEF SdInit, SdTypeOK, Activation
<1>3. I2cTypeOK
  <2>1. Base * Base \in Nat \ {0} /\ Fifo \in Nat
    BY Constants
  <2>2. <<>> \in Seq(0 .. 255) /\ <<>> \in Seq(Entries) /\ Len(<<>>) = 0
    OBVIOUS
  <2>3. 0 \in 0 .. Base * Base - 1 /\ 0 <= Fifo
    BY <2>1
  <2>4. QED
    BY <1>0, <2>2, <2>3 DEF I2cInit, I2cTypeOK
<1>4. TypeOK
  BY <1>0, <1>1, <1>2, <1>3 DEF TypeOK
<1>5. PlaceInv
  BY <1>0 DEF SdInit, I2cInit, PlaceInv, SdPlaces, BlockPlaces, I2cPlaces
<1>6. CmdInv /\ cmd \notin Reading
  BY <1>0 DEF SdInit, CmdInv, BlockPlaces, Reading
<1>7. BlockInv /\ NorInv /\ ChunkInv
  BY <1>0, <1>6 DEF BlockInv, NorInv, ChunkInv, I2cPlaces
<1>8. QED
  BY <1>4, <1>5, <1>6, <1>7 DEF BootInv

\* The drivers keep their places: the inductive step, one case per component.
LEMMA BootStep ==
  ASSUME BootInv, [Next]_vars
  PROVE  BootInv'
<1>1. CASE Main
  BY <1>1, MainStep
<1>2. CASE SdStep
  BY <1>2, SdStepKeeps
<1>3. CASE NorStep
  BY <1>3, NorStepKeeps
<1>4. CASE I2cStep
  BY <1>4, I2cStepKeeps
<1>5. CASE HostStep
  BY <1>5, HostStepKeeps
<1>6. CASE \E q \in Requests : Read(q[1], q[2])
  BY <1>6, ReadStep
<1>7. CASE UNCHANGED vars
  BY <1>7, StutterStep
<1>8. QED
  BY <1>1, <1>2, <1>3, <1>4, <1>5, <1>6, <1>7 DEF Next, Driver

\* The drivers never leave the places of BootInv: a block is taken from the line
\* only where the card has put it, a CMD18 is not left without CMD12, and a chunk
\* of the EEPROM is what was queued.
THEOREM Invariance == Spec => []BootInv
<1>1. Init => BootInv
  BY BootInit
<1>2. BootInv /\ [Next]_vars => BootInv'
  BY BootStep
<1>3. QED
  BY <1>1, <1>2, PTL DEF Spec

\* The types, and with them the bounds: no counter of blocks or polls leaves its
\* range, and neither FIFO holds more than its depth.
THEOREM TypeCorrect == Spec => []TypeOK
<1>1. BootInv => TypeOK
  BY DEF BootInv
<1>2. QED
  BY <1>1, Invariance, PTL

\* Whoever is called next finds the chip select free, no transfer of the card
\* under way, and the I2C host with empty FIFOs, after every return of a
\* gpt_read_t (__spi_sdcard_csfree, CMD12, i2c_24fc1025_read's polls).
THEOREM LineIsClean == Spec => []CleanLine
<1>1. ASSUME BootInv PROVE CleanLine
  <2>1. PlaceInv /\ CmdInv
    BY <1>1 DEF BootInv
  <2>2. SUFFICES ASSUME pc = "ready"
       PROVE  cs = "free" /\ stream = -1 /\ fmt = <<>> /\ rx = <<>>
    BY DEF CleanLine
  <2>3. fmt = <<>> /\ rx = <<>>
    BY <2>1, <2>2 DEF PlaceInv
  <2>4. mode # "sd" => cs = "free" /\ stream = -1
    BY <2>1 DEF PlaceInv
  <2>5. mode = "sd" => cs = "free" /\ stream = -1
    BY <2>1, <2>2 DEF CmdInv
  <2>6. QED
    BY <2>3, <2>4, <2>5
<1>2. BootInv => CleanLine
  BY <1>1
<1>3. QED
  BY <1>2, Invariance, PTL

-----------------------------------------------------------------------------
(***************************************************************************)
(* What has been read are the medium's bytes.                              *)
(***************************************************************************)
LEMMA DestPlaces ==
  ASSUME TypeOK, NEW k \in 0 .. len - 1
  PROVE  k \in Around /\ k \in Int
<1>1. Size \in Nat /\ Margin \in Nat /\ len \in 0 .. Size
  BY Constants DEF TypeOK, CallTypeOK
<1>2. QED
  BY <1>1 DEF Around

\* A step that leaves the read alone.
LEMMA ReadLeft ==
  ASSUME SdDataInv, mode = "sd", UNCHANGED <<mode, addr, len, b, offs, swap, buf>>,
         cmd' \in Reading => cmd' = cmd, pc' = "copy" => pc = "copy"
  PROVE  SdDataInv'
<1>1. SUFFICES ASSUME cmd' \in Reading PROVE SdDataInv'
  BY DEF SdDataInv
<1>2. /\ At' = At /\ Dst' = Dst /\ Buffered' = Buffered
  BY ReadFrame
<1>3. DoneTo(Dst) /\ (pc = "copy" => Received = Block(At))
  BY <1>1 DEF SdDataInv
<1>4. Received' = Received
  BY <1>2 DEF Received
<1>5. DoneTo(Dst)'
  BY <1>2, <1>3 DEF DoneTo
<1>6. QED
  BY <1>2, <1>3, <1>4, <1>5 DEF SdDataInv

\* A segment comes behind what is done.
LEMMA ReadChunkData ==
  ASSUME BootInv, SdDataInv, mode = "sd", UNCHANGED mode, ReadChunk
  PROVE  SdDataInv'
<1>0. /\ UNCHANGED <<cmd, addr, len, b>> /\ pc' \in {"crc", "data"} /\ pc = "data" /\ TypeOK
  BY DEF ReadChunk, BootInv
<1>1. /\ Asked /\ b \in 0 .. LenBlocks - 1 /\ cmd \in {"CMD17", "CMD18"} /\ offs \in Nat
  BY <1>0, DataPlace
<1>2. Dst' = Dst /\ Dst \in Int
  BY <1>0, <1>1, ReadFrame, BlockPlace
<1>3. DoneTo(Dst)
  BY <1>1 DEF SdDataInv, Reading
<1>4. ASSUME NEW k \in 0 .. len - 1, k < Dst PROVE buf'[k] = buf[k]
  <2>1. k \in Around /\ k \in Int
    BY <1>0, DestPlaces
  <2>2. PICK n \in Nat \ {0} :
          \/ UNCHANGED buf
          \/ buf' = [j \in Around |-> IF j - Dst \in offs .. offs + n - 1
                                      THEN out[j - Dst - offs + 1] ELSE buf[j]]
    BY ReadChunkFacts
  <2>3. ~(k - Dst \in offs .. offs + n - 1)
    BY <1>1, <1>2, <1>4, <2>1
  <2>4. QED
    BY <2>1, <2>2, <2>3
<1>5. DoneTo(Dst)'
  BY <1>0, <1>2, <1>3, <1>4 DEF DoneTo
<1>6. QED
  BY <1>0, <1>5 DEF SdDataInv

\* With the CRC, what goes on to be copied is the block of the medium.
LEMMA CheckBlockData ==
  ASSUME BootInv, SdDataInv, CheckCrc, mode = "sd", UNCHANGED mode, CheckBlock
  PROVE  SdDataInv'
<1>0. /\ pc = "crc" /\ pc' = IF CheckCrc /\ Received # sent THEN "fail" ELSE "copy"
      /\ UNCHANGED <<cmd, addr, len, b, offs, swap, buf>>
      /\ TypeOK /\ BlockInv
  BY DEF CheckBlock, readVars, BootInv
<1>1. cmd \in {"CMD17", "CMD18"}
  BY <1>0, DataPlace
<1>2. At' = At /\ Dst' = Dst /\ Buffered' = Buffered
  BY <1>0, ReadFrame
<1>3. DoneTo(Dst)'
  BY <1>0, <1>1, <1>2 DEF SdDataInv, DoneTo, Reading
<1>4. pc' = "copy" => Received' = Block(At)'
  <2>1. sent = Block(At)
    BY <1>0, <1>1 DEF BlockInv, Reading
  <2>2. pc' = "copy" => Received = sent
    BY <1>0
  <2>3. Received' = Received /\ Block(At)' = Block(At)
    BY <1>0, <1>2 DEF Received, Block
  <2>4. QED
    BY <2>1, <2>2, <2>3
<1>5. QED
  BY <1>3, <1>4 DEF SdDataInv

\* Where a block that is copied lies in memory, and which of its bytes are wanted.
LEMMA CopyPlace ==
  ASSUME BootInv, mode = "sd", pc = "copy"
  PROVE  /\ Asked /\ cmd \in {"CMD17", "CMD18"} /\ b \in Nat /\ b \in 0 .. LenBlocks - 1
         /\ Dst \in Int /\ BlockSize * (b + 1) - FirstOffs = Dst + BlockSize
         /\ \A k \in 0 .. len - 1 :
              k - Dst \in Offset => Wanted(k - Dst) /\ addr + k = BlockSize * At + (k - Dst)
         /\ \A j \in Offset : Wanted(j) \/ ~Buffered => Dst + j \in 0 .. len - 1
<1>0. TypeOK /\ CmdInv /\ BlockInv /\ BlockSize \in Nat \ {0}
  BY Constants DEF BootInv
<1>1. cmd \in {"CMD17", "CMD18"} /\ cmd \in Reading
  BY <1>0 DEF CmdInv, BlockPlaces, Reading
<1>2. Asked /\ b \in 0 .. LenBlocks /\ b < LenBlocks
  BY <1>0, <1>1 DEF BlockInv, BlockPlaces
<1>3. /\ FirstOffs \in 0 .. BlockSize - 1 /\ LenBlocks \in Nat \ {0} /\ LastLen \in 1 .. BlockSize
  BY <1>0, <1>2, BlockFacts
<1>4. b \in 0 .. LenBlocks - 1 /\ len \in Int /\ addr \in Int
  BY <1>0, <1>2, <1>3 DEF TypeOK, CallTypeOK
<1>5. /\ b \in Nat /\ Dst \in Int /\ BlockSize * (b + 1) - FirstOffs = Dst + BlockSize
      /\ b = 0 => Dst = -FirstOffs
      /\ b # 0 => Dst >= 0
      /\ b # LenBlocks - 1 => Dst + BlockSize <= len
      /\ b = LenBlocks - 1 => Dst + LastLen = len
      /\ \A j \in Offset : addr + (Dst + j) = BlockSize * At + j
  BY <1>0, <1>2, <1>4, BlockPlace
<1>6. ASSUME NEW k \in 0 .. len - 1, k - Dst \in Offset
      PROVE  Wanted(k - Dst) /\ addr + k = BlockSize * At + (k - Dst)
  <2>1. k \in Int /\ Dst + (k - Dst) = k
    BY <1>4, <1>5
  <2>2. addr + k = BlockSize * At + (k - Dst)
    BY <1>5, <1>6, <2>1
  <2>3. FirstBlock => k - Dst >= FirstOffs
    BY <1>3, <1>5, <2>1 DEF FirstBlock
  <2>4. LastBlock => k - Dst < LastLen
    BY <1>3, <1>4, <1>5, <2>1 DEF LastBlock
  <2>5. QED
    BY <2>2, <2>3, <2>4 DEF Wanted
<1>7. ASSUME NEW j \in Offset, Wanted(j) \/ ~Buffered
     PROVE  Dst + j \in 0 .. len - 1
  <2>1. j \in 0 .. BlockSize - 1
    BY DEF Offset
  <2>2. /\ b = 0 /\ FirstOffs # 0 => j >= FirstOffs
        /\ b = LenBlocks - 1 /\ LastLen # BlockSize => j < LastLen
    BY <1>7 DEF Wanted, Buffered, FirstBlock, LastBlock
  <2>3. Dst + j >= 0
    BY <1>3, <1>5, <2>1, <2>2
  <2>4. Dst + j < len
    BY <1>0, <1>3, <1>4, <1>5, <2>1, <2>2
  <2>5. QED
    BY <1>4, <1>5, <2>1, <2>3, <2>4
<1>8. QED
  BY <1>1, <1>2, <1>4, <1>5, <1>6, <1>7

\* With the block that is copied, everything before the next one is done.
LEMMA CopyBlockData ==
  ASSUME BootInv, SdDataInv, mode = "sd", UNCHANGED mode, CopyBlock
  PROVE  SdDataInv'
<1>0. /\ pc = "copy" /\ buf' = Copied /\ b' = b + 1 /\ pc' # "copy"
      /\ UNCHANGED <<addr, len>> /\ TypeOK
  BY DEF CopyBlock, BootInv
<1>1. /\ cmd \in {"CMD17", "CMD18"} /\ b \in Nat /\ Dst \in Int
      /\ BlockSize * (b + 1) - FirstOffs = Dst + BlockSize
      /\ \A k \in 0 .. len - 1 :
           k - Dst \in Offset => Wanted(k - Dst) /\ addr + k = BlockSize * At + (k - Dst)
  BY <1>0, CopyPlace
<1>2. DoneTo(Dst) /\ Received = Block(At) /\ BlockSize \in Nat \ {0}
  BY <1>0, <1>1, Constants DEF SdDataInv, Reading
<1>3. Dst' = Dst + BlockSize
  BY <1>0, <1>1 DEF Dst, FirstOffs
<1>4. ASSUME NEW k \in 0 .. len - 1, k < Dst + BlockSize
     PROVE  buf'[k] = Medium[addr + k]
  <2>1. /\ k \in Around /\ k \in Int
    BY <1>0, DestPlaces
  <2>2. buf'[k] = IF Buffered /\ k - Dst \in Offset /\ Wanted(k - Dst)
                  THEN swap[k - Dst] ELSE buf[k]
    BY <1>0, <2>1 DEF Copied
  <2>3. CASE k < Dst
    <3>1. k - Dst \notin Offset
      BY <1>1, <1>2, <2>1, <2>3 DEF Offset
    <3>2. QED
      BY <1>2, <2>2, <2>3, <3>1 DEF DoneTo
  <2>4. CASE ~(k < Dst)
    <3>1. k - Dst \in Offset /\ Dst + (k - Dst) = k
      BY <1>1, <1>2, <1>4, <2>1, <2>4 DEF Offset
    <3>2. Wanted(k - Dst) /\ addr + k = BlockSize * At + (k - Dst)
      BY <1>1, <3>1
    <3>3. buf'[k] = Received[k - Dst]
      <4>1. CASE Buffered
        BY <2>2, <3>1, <3>2, <4>1 DEF Received
      <4>2. CASE ~Buffered
        BY <2>2, <3>1, <4>2 DEF Received
      <4>3. QED
        BY <4>1, <4>2
    <3>4. Block(At)[k - Dst] = Medium[BlockSize * At + (k - Dst)]
      BY <3>1 DEF Block
    <3>5. QED
      BY <1>2, <3>2, <3>3, <3>4
  <2>5. QED
    BY <2>3, <2>4
<1>5. DoneTo(Dst)'
  BY <1>0, <1>3, <1>4 DEF DoneTo
<1>6. QED
  BY <1>0, <1>5 DEF SdDataInv

\* Nothing is done when a read begins.
LEMMA SdReadData ==
  ASSUME BootInv, mode = "sd", UNCHANGED mode, NEW q \in Requests, SdRead(q[1], q[2])
  PROVE  SdDataInv'
<1>0. /\ pc' = "send" /\ b' = 0 /\ Call(q[1], q[2])
  BY DEF SdRead
<1>1. addr' = q[1] /\ len' = q[2] /\ q[1] \in Nat /\ q[2] \in Nat
  BY <1>0, CallFacts, RequestFacts
<1>2. BlockSize \in Nat \ {0}
  BY Constants
<1>3. FirstOffs' = q[1] % BlockSize /\ q[1] % BlockSize \in Nat
  BY <1>1, <1>2, Division DEF FirstOffs
<1>4. Dst' = -(q[1] % BlockSize)
  BY <1>0, <1>2, <1>3 DEF Dst
<1>5. DoneTo(Dst)'
  <2>1. ASSUME NEW k \in 0 .. q[2] - 1 PROVE ~(k < -(q[1] % BlockSize))
    BY <1>1, <1>3
  <2>2. QED
    BY <1>1, <1>4, <2>1 DEF DoneTo
<1>6. QED
  BY <1>0, <1>5 DEF SdDataInv

\* The SD driver keeps what it has read.
LEMMA SdStepData ==
  ASSUME BootInv, SdDataInv, CheckCrc, SdStep
  PROVE  SdDataInv'
<1>0. mode = "sd" /\ UNCHANGED mode /\ SdDriver
  BY DEF SdStep
<1>1. CASE Wake \/ SendCmd \/ DiscardStuffByte \/ PollResponse \/ ReadRest \/ PollBusy
           \/ CsFree \/ PollToken
  <2>1. UNCHANGED <<cmd, addr, len, b, offs, swap, buf>>
    BY <1>1 DEF Wake, SendCmd, DiscardStuffByte, PollResponse, ReadRest,
         PollBusy, CsFree,
                PollToken, readVars
  <2>2. pc' # "copy"
    BY <1>1 DEF Wake, SendCmd, DiscardStuffByte, PollResponse, ReadRest,
         PollBusy, CsFree,
                PollToken, AfterR1
  <2>3. QED
    BY <1>0, <2>1, <2>2, ReadLeft
<1>2. CASE CheckResponse
  <2>1. UNCHANGED <<addr, len, b, offs, swap, buf>> /\ (cmd' = cmd \/ cmd' = NextCmd)
        /\ pc' # "copy"
    BY <1>2 DEF CheckResponse, readVars, Fails
  <2>2. cmd' \in Reading => cmd' = cmd
    BY <2>1 DEF NextCmd, Reading
  <2>3. QED
    BY <1>0, <2>1, <2>2, ReadLeft
<1>3. CASE ReadChunk
  BY <1>0, <1>3, ReadChunkData
<1>4. CASE CheckBlock
  BY <1>0, <1>4, CheckBlockData
<1>5. CASE CopyBlock
  BY <1>0, <1>5, CopyBlockData
<1>6. QED
  BY <1>0, <1>1, <1>2, <1>3, <1>4, <1>5 DEF SdDriver

-----------------------------------------------------------------------------
(***************************************************************************)
(* The address that two bytes bring to the chip.                           *)
(***************************************************************************)
LEMMA ShiftIn ==
  ASSUME NEW w \in Nat \ {0}, NEW x \in Nat, NEW h \in 0 .. w - 1
  PROVE  ((x * w + h) % (w * w)) % w = h
<1>1. w * w \in Nat \ {0} /\ x * w + h \in Nat
  OBVIOUS
<1>2. PICK q, r : q = (x * w + h) \div (w * w) /\ r = (x * w + h) % (w * w)
  OBVIOUS
<1>3. r \in 0 .. w * w - 1 /\ x * w + h = (w * w) * q + r /\ q \in Nat
  BY <1>1, <1>2, Division
<1>4. r = w * (x - w * q) + h /\ x - w * q \in Int
  BY <1>3
<1>5. x - w * q >= 0
  <2>1. SUFFICES ASSUME x - w * q <= -1 PROVE FALSE
    BY <1>4
  <2>2. w * (x - w * q) <= w * (-1)
    BY <1>4, <2>1, Product
  <2>3. w * (x - w * q) \in Int /\ r \in Int /\ r >= 0
    BY <1>1, <1>3, <1>4
  <2>4. QED
    BY <1>4, <2>2, <2>3
<1>6. (w * (x - w * q) + h) % w = h
  <2>1. x - w * q \in Nat
    BY <1>4, <1>5
  <2>2. QED
    BY <2>1, Quotient
<1>7. QED
  BY <1>2, <1>4, <1>6

\* After the second byte the counter is the address.
LEMMA BothIn ==
  ASSUME NEW w \in Nat \ {0}, NEW x \in Nat, NEW h \in 0 .. w - 1, NEW l \in 0 .. w - 1,
         x % w = h
  PROVE  (x * w + l) % (w * w) = w * h + l
<1>1. PICK t : t = x \div w
  OBVIOUS
<1>2. t \in Nat /\ x = w * t + h
  BY <1>1, Division
<1>3. w * w \in Nat \ {0} /\ w * h \in Nat /\ w * h <= w * (w - 1)
  <2>1. h <= w - 1 /\ h \in Int /\ w - 1 \in Int
    OBVIOUS
  <2>2. w * h <= w * (w - 1)
    BY <2>1, Product
  <2>3. QED
    BY <2>2
<1>4. w * h + l \in 0 .. w * w - 1
  <2>1. w * (w - 1) = w * w - w
    OBVIOUS
  <2>2. QED
    BY <1>3, <2>1
<1>5. x * w + l = (w * w) * t + (w * h + l)
  BY <1>2
<1>6. ((w * w) * t + (w * h + l)) % (w * w) = w * h + l
  BY <1>2, <1>3, <1>4, Quotient
<1>7. QED
  BY <1>5, <1>6

\* An address of the medium is its two bytes.
LEMMA TwoBytes ==
  ASSUME NEW w \in Nat \ {0}, NEW x \in Nat, x < w * w
  PROVE  /\ x \div w \in 0 .. w - 1 /\ (x \div w) % w = x \div w
         /\ x % w \in 0 .. w - 1 /\ x = w * (x \div w) + (x % w)
<1>1. PICK q, r : q = x \div w /\ r = x % w
  OBVIOUS
<1>2. r \in 0 .. w - 1 /\ x = w * q + r /\ q \in Nat
  BY <1>1, Division
<1>3. q < w
  <2>1. SUFFICES ASSUME w <= q PROVE FALSE
    BY <1>2
  <2>2. w * w <= w * q
    BY <1>2, <2>1, Product
  <2>3. w * w \in Nat /\ w * q \in Nat
    BY <1>2
  <2>4. QED
    BY <1>2, <2>2, <2>3
<1>4. q % w = q
  <2>1. (w * 0 + q) % w = q
    <3>1. 0 \in Nat /\ q \in 0 .. w - 1
      BY <1>2, <1>3
    <3>2. QED
      BY <3>1, Quotient
  <2>2. w * 0 + q = q
    BY <1>2
  <2>3. QED
    BY <2>1, <2>2
<1>5. QED
  BY <1>1, <1>2, <1>3, <1>4

-----------------------------------------------------------------------------
(***************************************************************************)
(* The host's steps keep ChipInv.                                          *)
(***************************************************************************)
LEMMA Addresses ==
  ASSUME BootInv, pc \in I2cPlaces
  PROVE  /\ addr \in Nat /\ offs \in Nat /\ len \in Nat /\ addr + len <= Size /\ offs < len
         /\ Size \in Nat /\ Base \in Nat \ {0}
         /\ High \in 0 .. Base - 1 /\ High % Base = High /\ Low \in 0 .. Base - 1
         /\ addr + offs = Base * High + Low
<1>1. /\ addr \in Nat /\ offs \in Nat /\ len \in Nat /\ addr + len <= Size /\ offs < len
  BY LengthFacts
<1>2. Size \in Nat /\ Base \in Nat \ {0} /\ Size <= Base * Base /\ Base * Base \in Nat
  BY Constants
<1>3. PICK x : x = addr + offs
  OBVIOUS
<1>4. x \in Nat /\ x < Base * Base
  BY <1>1, <1>2, <1>3
<1>5. /\ x \div Base \in 0 .. Base - 1 /\ (x \div Base) % Base = x \div Base
      /\ x % Base \in 0 .. Base - 1 /\ x = Base * (x \div Base) + (x % Base)
  BY <1>2, <1>4, TwoBytes
<1>6. High = x \div Base /\ Low = x % Base
  BY <1>3 DEF High, Low
<1>7. QED
  BY <1>1, <1>2, <1>3, <1>5, <1>6

\* A start leaves the counter alone.
LEMMA HostStartData ==
  ASSUME BootInv, ChipInv, HostStep, HostStart
  PROVE  ChipInv'
<1>0. /\ Head(fmt)[1] = "start" /\ chip' = [chip EXCEPT !.dir = Head(fmt)[2]]
      /\ fmt' = Tail(fmt) /\ rx' = rx
  BY DEF HostStart
<1>1. /\ pc = "i2cPoll" /\ UNCHANGED <<addr, len, offs, pc>>
      /\ chip \in [dir : {"write", "read"}, at : 0 .. Base * Base - 1]
      /\ \/ rx = <<>> /\ fmt \in Queued(I2cLength)
         \/ fmt = <<<<"rx", I2cLength - Len(rx)>>>> /\ Len(rx) < I2cLength
  BY HostPlace
<1>2. rx = <<>> /\ fmt \in Queued(I2cLength) /\ chip'.at = chip.at
  BY <1>0, <1>1
<1>3. \/ fmt = <<<<"start", "write">>, <<"tx", High % Base>>, <<"tx", Low>>, <<"start", "read">>,
                 <<"rx", I2cLength>>>>
      \/ fmt = <<<<"start", "read">>, <<"rx", I2cLength>>>>
  BY <1>0, <1>2 DEF Queued
<1>4. CASE fmt = <<<<"start", "write">>, <<"tx", High % Base>>, <<"tx", Low>>, <<"start", "read">>,
                   <<"rx", I2cLength>>>>
  <2>1. Len(fmt') = 4 /\ rx' = <<>> /\ Len(rx') = 0
    BY <1>0, <1>2, <1>4
  <2>2. QED
    BY <2>1 DEF ChipInv
<1>5. CASE fmt = <<<<"start", "read">>, <<"rx", I2cLength>>>>
  <2>1. Len(fmt') = 1 /\ Len(fmt) = 2 /\ rx' = <<>> /\ Len(rx') = 0 /\ Len(rx) = 0
    BY <1>0, <1>2, <1>5
  <2>2. addr + offs + 0 < Size => chip.at = addr + offs + 0
    BY <1>1, <2>1 DEF ChipInv
  <2>3. QED
    BY <1>1, <1>2, <2>1, <2>2 DEF ChipInv
<1>6. QED
  BY <1>3, <1>4, <1>5

\* The first byte comes to the counter, then the second.
LEMMA HostSendData ==
  ASSUME BootInv, ChipInv, HostStep, HostSend
  PROVE  ChipInv'
<1>0. /\ Head(fmt)[1] = "tx" /\ fmt' = Tail(fmt) /\ rx' = rx
      /\ chip' = [chip EXCEPT !.at = (@ * Base + Head(fmt)[2]) % (Base * Base)]
  BY DEF HostSend
<1>1. /\ pc = "i2cPoll" /\ UNCHANGED <<addr, len, offs, pc>>
      /\ chip \in [dir : {"write", "read"}, at : 0 .. Base * Base - 1]
      /\ \/ rx = <<>> /\ fmt \in Queued(I2cLength)
         \/ fmt = <<<<"rx", I2cLength - Len(rx)>>>> /\ Len(rx) < I2cLength
  BY HostPlace
<1>2. rx = <<>> /\ fmt \in Queued(I2cLength)
      /\ chip'.at = (chip.at * Base + Head(fmt)[2]) % (Base * Base)
  BY <1>0, <1>1
<1>3. /\ Base \in Nat \ {0} /\ High \in 0 .. Base - 1 /\ High % Base = High
      /\ Low \in 0 .. Base - 1 /\ addr + offs = Base * High + Low
  BY <1>1, Addresses DEF I2cPlaces
<1>4. chip.at \in Nat
  <2>1. Base * Base \in Nat
    BY <1>3
  <2>2. QED
    BY <1>1, <2>1
<1>5. High' = High
  BY <1>1, ChunkFrame
<1>6. \/ fmt = <<<<"tx", High % Base>>, <<"tx", Low>>, <<"start", "read">>, <<"rx", I2cLength>>>>
      \/ fmt = <<<<"tx", Low>>, <<"start", "read">>, <<"rx", I2cLength>>>>
  BY <1>0, <1>2 DEF Queued
<1>7. CASE fmt = <<<<"tx", High % Base>>, <<"tx", Low>>, <<"start", "read">>, <<"rx", I2cLength>>>>
  <2>1. Len(fmt') = 3 /\ rx' = <<>> /\ Len(rx') = 0 /\ Head(fmt)[2] = High % Base
    BY <1>0, <1>2, <1>7
  <2>2. chip'.at = (chip.at * Base + High) % (Base * Base)
    BY <1>2, <1>3, <2>1
  <2>3. chip'.at % Base = High
    BY <1>3, <1>4, <2>2, ShiftIn
  <2>4. chip'.at % Base = High' % Base
    BY <1>3, <1>5, <2>3
  <2>5. QED
    BY <2>1, <2>4 DEF ChipInv
<1>8. CASE fmt = <<<<"tx", Low>>, <<"start", "read">>, <<"rx", I2cLength>>>>
  <2>1. /\ Len(fmt') = 2 /\ Len(fmt) = 3 /\ rx' = <<>> /\ Len(rx') = 0
        /\ Head(fmt)[2] = Low
    BY <1>0, <1>2, <1>8
  <2>2. chip.at % Base = High
    BY <1>1, <1>3, <2>1 DEF ChipInv
  <2>3. (chip.at * Base + Low) % (Base * Base) = Base * High + Low
    BY <1>3, <1>4, <2>2, BothIn
  <2>4. chip'.at = addr + offs /\ addr + offs \in Int
    BY <1>2, <1>3, <2>1, <2>3
  <2>5. chip'.at = addr' + offs' + Len(rx')
    BY <1>1, <2>1, <2>4
  <2>6. QED
    BY <2>1, <2>5 DEF ChipInv
<1>9. QED
  BY <1>6, <1>7, <1>8

\* The byte received is the one the counter is at.
LEMMA HostReceiveData ==
  ASSUME BootInv, ChipInv, HostStep, HostReceive
  PROVE  ChipInv'
<1>1. PICK v \in 0 .. 255 :
           /\ v = IF chip.at < Size THEN Medium[chip.at] ELSE 255
           /\ Len(rx') = Len(rx) + 1
           /\ \A j \in 1 .. Len(rx) : rx'[j] = rx[j]
           /\ rx'[Len(rx) + 1] = v /\ Len(rx) \in Nat
           /\ fmt = <<<<"rx", I2cLength - Len(rx)>>>> /\ Len(rx) < I2cLength
           /\ fmt' = IF I2cLength - Len(rx) = 1 THEN <<>>
                     ELSE <<<<"rx", I2cLength - Len(rx) - 1>>>>
           /\ chip' = [chip EXCEPT !.at = (@ + 1) % (Base * Base)]
           /\ chip.at \in 0 .. Base * Base - 1 /\ pc = "i2cPoll"
  BY ReceiveFacts
<1>2. /\ UNCHANGED <<addr, len, offs, pc>>
      /\ chip \in [dir : {"write", "read"}, at : 0 .. Base * Base - 1]
  BY HostPlace
<1>3. /\ addr \in Nat /\ offs \in Nat /\ Size \in Nat /\ Base \in Nat \ {0}
  BY <1>1, Addresses DEF I2cPlaces
<1>4. Len(fmt) = 1 /\ Len(fmt') # 3
  <2>1. PICK m : m = I2cLength - Len(rx) - 1
    OBVIOUS
  <2>2. fmt' = <<>> \/ fmt' = <<<<"rx", m>>>>
    BY <1>1, <2>1
  <2>3. Len(fmt') # 3
    BY <2>2
  <2>4. QED
    BY <1>1, <2>3
<1>5. /\ addr + offs + Len(rx) < Size => chip.at = addr + offs + Len(rx)
      /\ \A j \in 1 .. Len(rx) :
           addr + offs + j - 1 < Size => rx[j] = Medium[addr + offs + j - 1]
  BY <1>1, <1>4 DEF ChipInv
<1>6. ASSUME addr + offs + Len(rx') < Size
     PROVE  chip'.at = addr + offs + Len(rx')
  <2>1. chip.at = addr + offs + Len(rx) /\ chip.at + 1 = addr + offs + Len(rx')
    BY <1>1, <1>3, <1>5, <1>6
  <2>2. Size <= Base * Base /\ Base * Base \in Nat \ {0}
    BY Constants
  <2>3. PICK w : w = Base * Base
    OBVIOUS
  <2>4. w \in Nat \ {0} /\ chip.at + 1 \in 0 .. w - 1
    <3>1. w \in Nat \ {0} /\ Size <= w
      BY <2>2, <2>3
    <3>2. chip.at \in 0 .. w - 1
      BY <1>1, <2>3
    <3>3. chip.at + 1 < Size
      BY <1>6, <2>1
    <3>4. QED
      BY <1>3, <3>1, <3>2, <3>3
  <2>5. (chip.at + 1) % w = chip.at + 1
    <3>1. (w * 0 + (chip.at + 1)) % w = chip.at + 1
      BY <2>4, Quotient
    <3>2. w * 0 + (chip.at + 1) = chip.at + 1
      BY <2>4
    <3>3. QED
      BY <3>1, <3>2
  <2>6. chip'.at = (chip.at + 1) % w
    BY <1>1, <1>2, <2>3
  <2>7. QED
    BY <2>1, <2>5, <2>6
<1>7. ASSUME NEW j \in 1 .. Len(rx'), addr + offs + j - 1 < Size
      PROVE  rx'[j] = Medium[addr + offs + j - 1]
  <2>1. CASE j <= Len(rx)
    BY <1>1, <1>5, <1>7, <2>1
  <2>2. CASE ~(j <= Len(rx))
    <3>1. j = Len(rx) + 1 /\ addr + offs + j - 1 = addr + offs + Len(rx)
      <4>1. Len(rx') = Len(rx) + 1 /\ Len(rx) \in Nat
        BY <1>1
      <4>2. j \in 1 .. Len(rx) + 1
        BY <4>1
      <4>3. j = Len(rx) + 1
        BY <2>2, <4>1, <4>2
      <4>4. QED
        BY <1>3, <4>1, <4>3
    <3>2. chip.at = addr + offs + Len(rx) /\ chip.at < Size
      BY <1>5, <1>7, <3>1
    <3>3. QED
      BY <1>1, <3>1, <3>2
  <2>3. QED
    BY <2>1, <2>2
<1>8. QED
  BY <1>2, <1>4, <1>6, <1>7 DEF ChipInv

\* The host moves no bytes of the destination.
LEMMA HostStepData ==
  ASSUME BootInv, DataInv, HostStep
  PROVE  DataInv'
<1>1. HostStart \/ HostSend \/ HostReceive
  BY DEF HostStep, I2cHost
<1>2. ChipInv'
  BY <1>1, HostStartData, HostSendData, HostReceiveData DEF DataInv
<1>3. mode = "i2c" /\ UNCHANGED <<addr, len, offs, buf, pc, mode>>
  BY HostPlace
<1>4. SdDataInv'
  BY <1>3 DEF SdDataInv
<1>5. DoneTo(offs) => DoneTo(offs)'
  BY <1>3 DEF DoneTo
<1>6. QED
  BY <1>2, <1>3, <1>4, <1>5 DEF DataInv

\* The bytes of the FIFO come to their places.
LEMMA I2cCopyDone ==
  ASSUME BootInv, DataInv, I2cStep, I2cCopy
  PROVE  DoneTo(offs)'
<1>0. /\ mode = "i2c" /\ pc = "i2cPoll" /\ UNCHANGED <<mode, addr, len>>
      /\ Len(rx) = I2cLength
      /\ offs' = offs + Fifo - ((addr + offs) % Fifo)
      /\ pc' \in {"i2cWait", "ready"} /\ Placed(buf', rx, I2cLength, offs)
  BY CopyFacts
<1>1. PICK r \in 0 .. Fifo - 1 :
           /\ r = (addr + offs) % Fifo
           /\ I2cLength \in 1 .. Fifo
           /\ offs \in Nat /\ len \in Nat /\ addr \in Nat /\ Fifo \in Nat \ {0}
           /\ addr + len <= Size /\ offs < len
           /\ \/ r # 0 /\ offs = 0 /\ r = addr % Fifo /\ I2cLength = Fifo - r
              \/ r = 0 /\ I2cLength = Smaller(Fifo, len - offs)
  BY <1>0, LengthFacts DEF I2cPlaces
<1>2. DoneTo(offs) /\ TypeOK /\ Size \in Nat
  BY <1>0, Constants DEF DataInv, I2cPlaces, BootInv
<1>3. \A j \in 1 .. I2cLength :
           addr + offs + j - 1 < Size => rx[j] = Medium[addr + offs + j - 1]
  BY <1>0 DEF DataInv, ChipInv
<1>4. ASSUME NEW k \in 0 .. len - 1, k < offs' PROVE buf'[k] = Medium[addr + k]
  <2>1. k \in Around /\ k \in Int
    BY <1>2, DestPlaces
  <2>2. buf'[k] = IF k - offs \in 0 .. I2cLength - 1 THEN rx[k - offs + 1] ELSE buf[k]
    BY <1>0, <2>1 DEF Placed
  <2>3. CASE k < offs
    <3>1. ~(k - offs \in 0 .. I2cLength - 1)
      BY <1>1, <2>1, <2>3
    <3>2. QED
      BY <1>2, <2>2, <2>3, <3>1 DEF DoneTo
  <2>4. CASE ~(k < offs)
    <3>1. k - offs < I2cLength
      <4>1. k < offs + Fifo - r
        BY <1>0, <1>1, <1>4
      <4>2. QED
        BY <1>1, <2>1, <2>4, <4>1 DEF Smaller
    <3>2. k - offs \in 0 .. I2cLength - 1 /\ k - offs + 1 \in 1 .. I2cLength
      BY <1>1, <2>1, <2>4, <3>1
    <3>3. addr + offs + (k - offs + 1) - 1 = addr + k /\ addr + k < Size
      BY <1>1, <1>2, <2>1
    <3>4. QED
      BY <1>3, <2>2, <3>2, <3>3
  <2>5. QED
    BY <2>3, <2>4
<1>5. QED
  BY <1>0, <1>4 DEF DoneTo

\* The EEPROM driver keeps what it has read.
LEMMA I2cStepData ==
  ASSUME BootInv, DataInv, I2cStep
  PROVE  DataInv'
<1>0. mode = "i2c" /\ UNCHANGED mode
  BY DEF I2cStep
<1>1. CASE I2cWait
  <2>1. pc = "i2cWait" /\ pc' = "i2cQueue" /\ UNCHANGED <<addr, len, offs, buf>>
    BY <1>1 DEF I2cWait
  <2>2. DoneTo(offs)'
    BY <2>1 DEF DataInv, I2cPlaces, DoneTo
  <2>3. QED
    BY <1>0, <2>1, <2>2 DEF DataInv, SdDataInv, ChipInv
<1>2. CASE I2cQueue
  <2>1. /\ pc = "i2cQueue" /\ pc' = "i2cPoll" /\ UNCHANGED <<rx, addr, len, offs, buf>>
        /\ fmt' = <<<<"start", "write">>, <<"tx", High % Base>>, <<"tx", Low>>,
                    <<"start", "read">>, <<"rx", I2cLength>>>>
    BY <1>2 DEF I2cQueue, High, Low
  <2>2. DoneTo(offs)'
    BY <2>1 DEF DataInv, I2cPlaces, DoneTo
  <2>3. rx' = <<>> /\ Len(rx') = 0
    BY <2>1 DEF BootInv, PlaceInv
  <2>4. Len(fmt') = 5
    BY <2>1
  <2>5. ChipInv'
    BY <2>3, <2>4 DEF ChipInv
  <2>6. QED
    BY <1>0, <2>2, <2>5 DEF DataInv, SdDataInv
<1>3. CASE I2cCopy
  <2>1. pc' \in {"i2cWait", "ready"}
    BY <1>3 DEF I2cCopy
  <2>2. DoneTo(offs)'
    BY <1>3, I2cCopyDone
  <2>3. QED
    BY <1>0, <2>1, <2>2 DEF DataInv, SdDataInv, ChipInv
<1>4. QED
  BY <1>1, <1>2, <1>3 DEF I2cStep, I2cDriver

\* A segment of the NOR flash comes to its place.
LEMMA NorDone ==
  ASSUME BootInv, DataInv, NorStep
  PROVE  DoneTo(offs)'
<1>0. /\ mode = "nor" /\ mode' = mode /\ NorChunk /\ pc = "norChunk" /\ offs' = offs + Chunk
      /\ pc' \in {"norChunk", "ready"} /\ UNCHANGED <<addr, len>>
  BY DEF NorStep, NorChunk
<1>1. PICK n \in Nat \ {0} :
           /\ offs + n <= len /\ (offs + n = len \/ n = Chunk)
           /\ \A k \in Around :
                buf'[k] = IF k - offs \in 0 .. n - 1 THEN Medium[addr + k] ELSE buf[k]
  BY <1>0, NorFacts
<1>2. TypeOK /\ DoneTo(offs) /\ offs \in Nat
  BY <1>0 DEF DataInv, BootInv, TypeOK, CallTypeOK
<1>3. ASSUME NEW k \in 0 .. len - 1, k < offs' PROVE buf'[k] = Medium[addr + k]
  <2>1. k \in Around /\ k \in Int
    BY <1>2, DestPlaces
  <2>2. buf'[k] = IF k - offs \in 0 .. n - 1 THEN Medium[addr + k] ELSE buf[k]
    BY <1>1, <2>1
  <2>3. k - offs \in 0 .. n - 1 \/ k < offs
    <3>1. len \in Int /\ Chunk \in Int
      BY <1>2, Constants DEF TypeOK, CallTypeOK
    <3>2. QED
      BY <1>0, <1>1, <1>2, <1>3, <2>1, <3>1
  <2>4. QED
    BY <1>2, <2>2, <2>3 DEF DoneTo
<1>4. QED
  BY <1>0, <1>3 DEF DoneTo

\* The flash driver keeps what it has read.
LEMMA NorStepData ==
  ASSUME BootInv, DataInv, NorStep
  PROVE  DataInv'
<1>1. mode' = "nor" /\ pc' \in {"norChunk", "ready"}
  BY DEF NorStep, NorChunk
<1>2. QED
  BY <1>1, NorDone DEF DataInv, SdDataInv, ChipInv

-----------------------------------------------------------------------------
(***************************************************************************)
(* DataInv is inductive, given BootInv.                                    *)
(***************************************************************************)

\* Nothing is read before a medium is set up.
LEMMA MainData ==
  ASSUME BootInv, Main
  PROVE  DataInv'
<1>1. /\ pc = "main" /\ pc' \in {"fail", "wake", "ready"} /\ UNCHANGED <<mode, cmd>> /\ CmdInv
  BY DEF Main, sdVars, BootInv
<1>2. mode' = "sd" => cmd' \notin Reading
  BY <1>1 DEF CmdInv, Reading
<1>3. QED
  BY <1>1, <1>2 DEF DataInv, SdDataInv, ChipInv, I2cPlaces

\* Nothing is done when a call begins.
LEMMA CallData ==
  ASSUME BootInv, NEW q \in Requests, Read(q[1], q[2])
  PROVE  DataInv'
<1>1. CASE mode = "sd" /\ SdRead(q[1], q[2])
  <2>1. UNCHANGED mode /\ pc' = "send"
    BY <1>1 DEF Read, SdRead
  <2>2. SdDataInv'
    BY <1>1, <2>1, SdReadData
  <2>3. QED
    BY <2>1, <2>2 DEF DataInv, ChipInv, I2cPlaces
<1>2. CASE \/ mode = "nor" /\ NorRead(q[1], q[2])
           \/ mode = "i2c" /\ I2cRead(q[1], q[2])
  <2>1. /\ mode' \in {"nor", "i2c"} /\ pc' \in {"norChunk", "i2cWait"} /\ Call(q[1], q[2])
    BY <1>2 DEF Read, NorRead, I2cRead
  <2>2. offs' = 0
    BY <2>1, CallFacts
  <2>3. \A k \in 0 .. len' - 1 : ~(k < offs')
    BY <2>2
  <2>4. DoneTo(offs)'
    BY <2>3 DEF DoneTo
  <2>5. QED
    BY <2>1, <2>4 DEF DataInv, SdDataInv, ChipInv
<1>3. QED
  BY <1>1, <1>2 DEF Read

\* DataInv is about the variables alone.
LEMMA StutterData ==
  ASSUME DataInv, UNCHANGED vars
  PROVE  DataInv'
<1>1. UNCHANGED <<mode, pc, addr, len, offs, buf, cmd, b, swap, fmt, rx, chip>>
  BY DEF vars, sdVars, cardVars, i2cVars
<1>2. UNCHANGED <<mode, addr, len, b, offs, swap, buf>>
  BY <1>1
<1>3. SdDataInv'
  <2>1. CASE mode = "sd"
    BY <1>1, <1>2, <2>1, ReadLeft DEF DataInv
  <2>2. CASE mode # "sd"
    BY <1>1, <2>2 DEF SdDataInv
  <2>3. QED
    BY <2>1, <2>2
<1>4. ChipInv'
  <2>1. High' = High
    BY <1>1, ChunkFrame
  <2>2. QED
    BY <1>1, <2>1 DEF DataInv, ChipInv
<1>5. pc' \in I2cPlaces \cup {"norChunk"} => DoneTo(offs)'
  BY <1>1 DEF DataInv, DoneTo
<1>6. QED
  BY <1>3, <1>4, <1>5 DEF DataInv

\* The SD driver is in none of the other drivers' places.
LEMMA SdData ==
  ASSUME BootInv, DataInv, CheckCrc, SdStep
  PROVE  DataInv'
<1>1. mode' = "sd" /\ SdDataInv
  BY DEF SdStep, DataInv
<1>2. SdDataInv'
  BY <1>1, SdStepData
<1>3. PlaceInv'
  BY SdStepKeeps DEF BootInv
<1>4. pc' \notin I2cPlaces \cup {"norChunk"}
  BY <1>1, <1>3 DEF PlaceInv
<1>5. QED
  BY <1>2, <1>4 DEF DataInv, ChipInv, I2cPlaces

\* The inductive step of DataInv, one case per component.
LEMMA DataStep ==
  ASSUME BootInv, DataInv, CheckCrc, [Next]_vars
  PROVE  DataInv'
<1>1. CASE Main
  BY <1>1, MainData
<1>2. CASE SdStep
  BY <1>2, SdData
<1>3. CASE NorStep
  BY <1>3, NorStepData
<1>4. CASE I2cStep
  BY <1>4, I2cStepData
<1>5. CASE HostStep
  BY <1>5, HostStepData
<1>6. CASE \E q \in Requests : Read(q[1], q[2])
  BY <1>6, CallData
<1>7. CASE UNCHANGED vars
  BY <1>7, StutterData
<1>8. QED
  BY <1>1, <1>2, <1>3, <1>4, <1>5, <1>6, <1>7 DEF Next, Driver

\* No read is under way at first.
LEMMA DataInit ==
  ASSUME Init
  PROVE  DataInv
<1>1. pc = "main" /\ cmd = "CMD0"
  BY DEF Init, SdInit
<1>2. QED
  BY <1>1 DEF DataInv, SdDataInv, ChipInv, I2cPlaces, Reading

\* With the CRC, what a driver takes as read are the bytes of the medium, whatever
\* the line did to them: the drivers' loops in spi_sdcard.c, spi_s25fs512s.c and
\* i2c_24fc1025.c.
THEOREM DataRead == CheckCrc => (Spec => []DataInv)
<1>1. SUFFICES ASSUME CheckCrc PROVE Spec => []DataInv
  OBVIOUS
<1>2. Init => DataInv
  BY DataInit
<1>3. BootInv /\ DataInv /\ [Next]_vars => DataInv'
  BY <1>1, DataStep
<1>4. QED
  BY <1>2, <1>3, Invariance, PTL DEF Spec

-----------------------------------------------------------------------------
(***************************************************************************)
(* BootMedia implements BlockRead: what its status and its destination are *)
(* here, and how the steps map.                                            *)
(***************************************************************************)
Status == IF pc = "fail" THEN "failed" ELSE IF pc = "ready" THEN "idle"
          ELSE IF Off THEN "off" ELSE "busy"
Dest   == [k \in Around |-> IF k \in Overrun THEN Unread ELSE buf[k]]

Mapped == <<Status, addr, len, Dest>>

\* The status depends on three variables only.
LEMMA StatusKept ==
  ASSUME UNCHANGED <<mode, cmd, pc>>
  PROVE  Status' = Status
BY DEF Status, Off

\* What is shown of memory stays when memory does.
LEMMA DestKept ==
  ASSUME UNCHANGED <<mode, addr, len, buf>>
  PROVE  Dest' = Dest
BY DEF Dest, Overrun

\* A step that changes neither is none of the device's.
LEMMA Stutters ==
  ASSUME Status' = Status, UNCHANGED <<mode, addr, len, buf>>
  PROVE  [Device!Next]_(Device!readVars)
BY DestKept DEF Device!readVars, Status, Dest

\* A step while the medium is set up.
LEMMA SetsUp ==
  ASSUME Status = "off", Status' \in {"off", "idle", "failed"},
         UNCHANGED <<mode, addr, len, buf>>
  PROVE  [Device!Next]_(Device!readVars)
<1>1. CASE Status' = "off"
  BY <1>1, Stutters
<1>2. CASE Status' \in {"idle", "failed"}
  <2>1. Dest' = Dest
    BY DestKept
  <2>2. Device!SetUp
    BY <1>2, <2>1 DEF Device!SetUp, Status, Dest
  <2>3. QED
    BY <2>2 DEF Device!Next
<1>3. QED
  BY <1>1, <1>2

\* Memory but for the destination, and what the EEPROM's driver puts behind it, stays.
Touched == \A k \in Around : k \notin Overrun /\ buf'[k] # buf[k] => k \in 0 .. len - 1

\* What is shown of memory changes within the destination only.
LEMMA OnlyDestMapped ==
  ASSUME UNCHANGED <<mode, addr, len>>, Touched
  PROVE  Device!OnlyDest
<1>1. Overrun' = Overrun
  BY DEF Overrun
<1>2. ASSUME NEW k \in Around, k \notin 0 .. len - 1 PROVE Dest'[k] = Dest[k]
  BY <1>1, <1>2 DEF Dest, Touched
<1>3. DOMAIN Dest = Around
  BY DEF Dest
<1>4. QED
  BY <1>2, <1>3 DEF Device!OnlyDest, Device!Within, Dest

\* A step of a read that goes on, or fails.
LEMMA Transferred ==
  ASSUME Status = "busy", Status' \in {"busy", "failed"}, UNCHANGED <<mode, addr, len>>, Touched
  PROVE  [Device!Next]_(Device!readVars)
<1>1. Device!OnlyDest
  BY OnlyDestMapped
<1>2. Device!Transfer
  BY <1>1 DEF Device!Transfer, Status
<1>3. QED
  BY <1>2 DEF Device!Next

\* A step that ends a read, with all bytes of the destination right.
LEMMA Returns ==
  ASSUME TypeOK, Status = "busy", Status' = "idle", UNCHANGED <<mode, addr, len>>, Touched,
         \A k \in 0 .. len - 1 : buf'[k] = Medium[addr + k]
  PROVE  [Device!Next]_(Device!readVars)
<1>1. Device!OnlyDest
  BY OnlyDestMapped
<1>2. ASSUME NEW k \in Around, k \in 0 .. len - 1
     PROVE  Dest'[k] = Medium[addr + k]
  <2>1. len' = len /\ len \in Int
    BY DEF TypeOK, CallTypeOK
  <2>2. k \notin Overrun'
    BY <1>2, <2>1 DEF Overrun
  <2>3. QED
    BY <1>2, <2>2 DEF Dest
<1>3. DOMAIN Dest = Around
  BY DEF Dest
<1>4. Device!Return
  BY <1>1, <1>2, <1>3 DEF Device!Return, Device!Within, Status, Dest
<1>5. QED
  BY <1>4 DEF Device!Next

-----------------------------------------------------------------------------
(***************************************************************************)
(* Every step is one of the device's, or none.                             *)
(***************************************************************************)

\* main sets the medium up, or fails.
LEMMA MainMaps ==
  ASSUME BootInv, Main
  PROVE  [Device!Next]_(Device!readVars)
<1>1. /\ pc = "main" /\ pc' \in {"fail", "wake", "ready"}
      /\ UNCHANGED <<mode, cmd, addr, len, buf>>
  BY DEF Main, sdVars
<1>2. Status = "off" /\ Status' \in {"off", "idle", "failed"}
  BY <1>1 DEF Status, Off
<1>3. QED
  BY <1>1, <1>2, SetsUp

\* A call is a Read of the device.
LEMMA ReadMaps ==
  ASSUME BootInv, NEW q \in Requests, Read(q[1], q[2])
  PROVE  [Device!Next]_(Device!readVars)
<1>1. /\ mode' = mode /\ Call(q[1], q[2])
      /\ \/ mode = "sd" /\ pc' = "send" /\ cmd' \in {"CMD17", "CMD18"}
         \/ mode \in {"nor", "i2c"} /\ pc' \in {"norChunk", "i2cWait"}
  BY DEF Read, SdRead, NorRead, I2cRead
<1>2. /\ pc = "ready" /\ addr' = q[1] /\ len' = q[2]
      /\ buf' = [k \in Around |-> Unread]
  BY <1>1, CallFacts
<1>3. Status = "idle"
  BY <1>2 DEF Status
<1>4. Status' = "busy"
  BY <1>1 DEF Status, Off, Activation
<1>5. \A k \in Around : Dest'[k] = Unread
  BY <1>2 DEF Dest
<1>6. DOMAIN Dest = Around
  BY DEF Dest
<1>7. len' > 0 /\ addr' \in DOMAIN Medium /\ addr' + len' - 1 \in DOMAIN Medium
  <2>1. /\ q[1] \in 0 .. Size - 1 /\ q[2] \in 1 .. Size /\ q[1] + q[2] <= Size
        /\ q[1] \in Nat /\ q[2] \in Nat \ {0}
    BY RequestFacts
  <2>2. DOMAIN Medium = 0 .. Size - 1 /\ Size \in Nat
    BY Constants
  <2>3. QED
    BY <1>2, <2>1, <2>2
<1>8. Device!Read
  BY <1>3, <1>4, <1>5, <1>6, <1>7 DEF Device!Read, Status, Dest
<1>9. QED
  BY <1>8 DEF Device!Next

\* A segment of the flash is a Transfer, the last one a Return.
LEMMA NorMaps ==
  ASSUME BootInv, DataInv, NorStep
  PROVE  [Device!Next]_(Device!readVars)
<1>1. /\ mode = "nor" /\ NorChunk /\ pc = "norChunk" /\ offs' = offs + Chunk
      /\ pc' = IF offs' < len THEN "norChunk" ELSE "ready"
      /\ UNCHANGED <<mode, addr, len>>
  BY DEF NorStep, NorChunk
<1>2. TypeOK /\ offs \in Nat /\ len \in Nat /\ Chunk \in Nat
  BY Constants DEF BootInv, TypeOK, CallTypeOK
<1>3. PICK n \in Nat \ {0} :
           /\ offs + n <= len
           /\ \A k \in Around :
                buf'[k] = IF k - offs \in 0 .. n - 1 THEN Medium[addr + k] ELSE buf[k]
  BY <1>1, NorFacts
<1>4. Touched
  <2>1. SUFFICES ASSUME NEW k \in Around, buf'[k] # buf[k]
       PROVE  k \in 0 .. len - 1
    BY DEF Touched
  <2>2. k - offs \in 0 .. n - 1 /\ k \in Int
    BY <1>3, <2>1 DEF Around
  <2>3. QED
    BY <1>2, <1>3, <2>2
<1>5. Status = "busy"
  BY <1>1 DEF Status, Off
<1>6. CASE offs' < len
  <2>1. Status' = "busy"
    BY <1>1, <1>6 DEF Status, Off
  <2>2. QED
    BY <1>1, <1>4, <1>5, <2>1, Transferred
<1>7. CASE ~(offs' < len)
  <2>1. Status' = "idle"
    BY <1>1, <1>7 DEF Status
  <2>2. DoneTo(offs)'
    BY NorDone
  <2>3. ASSUME NEW k \in 0 .. len - 1 PROVE buf'[k] = Medium[addr + k]
    <3>1. k < offs'
      BY <1>1, <1>2, <1>7
    <3>2. QED
      BY <1>1, <2>2, <3>1 DEF DoneTo
  <2>4. QED
    BY <1>1, <1>2, <1>4, <1>5, <2>1, <2>3, Returns
<1>8. QED
  BY <1>6, <1>7

\* A chunk comes to the destination, or as far behind it as Overrun says.
LEMMA I2cCopyTouched ==
  ASSUME BootInv, I2cStep, I2cCopy
  PROVE  Touched
<1>1. /\ mode = "i2c" /\ pc = "i2cPoll" /\ Len(rx) = I2cLength
      /\ Placed(buf', rx, I2cLength, offs)
  BY CopyFacts
<1>2. PICK r \in 0 .. Fifo - 1 :
           /\ I2cLength \in 1 .. Fifo
           /\ offs \in Nat /\ len \in Nat /\ Fifo \in Nat \ {0} /\ offs < len
           /\ \/ r # 0 /\ offs = 0 /\ r = addr % Fifo /\ I2cLength = Fifo - r
              \/ r = 0 /\ I2cLength = Smaller(Fifo, len - offs)
  BY <1>1, LengthFacts DEF I2cPlaces
<1>3. SUFFICES ASSUME NEW k \in Around, k \notin Overrun, buf'[k] # buf[k]
               PROVE  k \in 0 .. len - 1
  BY DEF Touched
<1>4. k - offs \in 0 .. I2cLength - 1
  BY <1>1, <1>3 DEF Placed
<1>5. k \in Int
  BY Constants DEF Around
<1>6. CASE r # 0 /\ offs = 0 /\ r = addr % Fifo /\ I2cLength = Fifo - r
  <2>1. k >= 0 /\ k < Fifo - (addr % Fifo) /\ addr % Fifo # 0
    BY <1>2, <1>4, <1>5, <1>6
  <2>2. ~(k >= len)
    BY <1>1, <1>3, <2>1 DEF Overrun
  <2>3. QED
    BY <1>2, <1>5, <2>1, <2>2
<1>7. CASE r = 0 /\ I2cLength = Smaller(Fifo, len - offs)
  <2>1. I2cLength <= len - offs
    BY <1>2, <1>7 DEF Smaller
  <2>2. QED
    BY <1>2, <1>4, <1>5, <2>1
<1>8. QED
  BY <1>2, <1>6, <1>7

\* A chunk of the EEPROM is a Transfer, the last one a Return.
LEMMA I2cMaps ==
  ASSUME BootInv, DataInv, I2cStep
  PROVE  [Device!Next]_(Device!readVars)
<1>1. mode = "i2c" /\ UNCHANGED <<mode, addr, len, cmd>> /\ TypeOK
  BY DEF I2cStep, I2cDriver, I2cWait, I2cQueue, I2cCopy, sdVars, BootInv
<1>2. CASE I2cWait \/ I2cQueue
  <2>1. /\ pc \in {"i2cWait", "i2cQueue"} /\ pc' \in {"i2cQueue", "i2cPoll"}
        /\ UNCHANGED buf
    BY <1>2 DEF I2cWait, I2cQueue
  <2>2. Status = "busy" /\ Status' = "busy"
    BY <1>1, <2>1 DEF Status, Off
  <2>3. QED
    BY <1>1, <2>1, <2>2, Stutters
<1>3. CASE I2cCopy
  <2>1. pc = "i2cPoll" /\ pc' = IF offs' < len THEN "i2cWait" ELSE "ready"
    BY <1>3 DEF I2cCopy
  <2>2. Status = "busy" /\ Touched
    BY <1>1, <1>3, <2>1, I2cCopyTouched DEF Status, Off
  <2>3. CASE offs' < len
    <3>1. Status' = "busy"
      BY <1>1, <2>1, <2>3 DEF Status, Off
    <3>2. QED
      BY <1>1, <2>2, <3>1, Transferred
  <2>4. CASE ~(offs' < len)
    <3>1. Status' = "idle"
      BY <2>1, <2>4 DEF Status
    <3>2. DoneTo(offs)'
      BY <1>3, I2cCopyDone
    <3>3. ASSUME NEW k \in 0 .. len - 1 PROVE buf'[k] = Medium[addr + k]
      <4>1. offs' \in Int /\ len \in Int
        <5>1. BootInv'
          BY I2cStepKeeps
        <5>2. QED
          BY <1>1, <5>1 DEF BootInv, TypeOK, CallTypeOK
      <4>2. k < offs'
        BY <2>4, <4>1
      <4>3. QED
        BY <1>1, <3>2, <4>2 DEF DoneTo
    <3>4. QED
      BY <1>1, <2>2, <3>1, <3>3, Returns
  <2>5. QED
    BY <2>3, <2>4
<1>4. QED
  BY <1>2, <1>3 DEF I2cStep, I2cDriver

\* The host does nothing that the caller sees.
LEMMA HostMaps ==
  ASSUME BootInv, HostStep
  PROVE  [Device!Next]_(Device!readVars)
<1>1. UNCHANGED <<mode, cmd, pc, addr, len, buf>>
  BY HostPlace DEF HostStep, sdVars
<1>2. QED
  BY <1>1, StatusKept, Stutters

\* The SD card's driver before the card is set up: no command but of the activation.
LEMMA SetUpMaps ==
  ASSUME BootInv, SdStep, cmd \in Activation
  PROVE  [Device!Next]_(Device!readVars)
<1>1. mode = "sd" /\ UNCHANGED mode /\ SdDriver /\ CmdInv
  BY DEF SdStep, BootInv
<1>2. pc \notin {"stuff", "busy", "copy", "data", "token", "crc"}
  BY <1>1 DEF CmdInv, BlockPlaces, Activation
<1>3. Wake \/ SendCmd \/ PollResponse \/ ReadRest \/ CsFree \/ CheckResponse
  BY <1>1, <1>2 DEF SdDriver, DiscardStuffByte, PollBusy, PollToken,
       ReadChunk, CheckBlock,
                    CopyBlock
<1>4. /\ UNCHANGED <<addr, len, buf>> /\ cmd' \in Activation /\ pc \notin {"ready", "fail"}
  BY <1>3 DEF Wake, SendCmd, PollResponse, ReadRest, CsFree,
       CheckResponse, NextCmd, Activation,
              Fails, readVars
<1>5. Status = "off" /\ Status' \in {"off", "idle", "failed"}
  BY <1>1, <1>4 DEF Status, Off
<1>6. QED
  BY <1>1, <1>4, <1>5, SetsUp

\* A block comes to memory by ReadChunk, or from the swap buffer by CopyBlock.
LEMMA ReadChunkTouched ==
  ASSUME BootInv, mode = "sd", ReadChunk
  PROVE  Touched
<1>0. pc = "data" /\ TypeOK
  BY DEF ReadChunk, BootInv
<1>1. /\ Asked /\ b \in 0 .. LenBlocks - 1 /\ offs \in Nat /\ BlockSize \in Nat \ {0}
  BY <1>0, DataPlace
<1>2. /\ Dst \in Int
      /\ b = 0 => Dst = -FirstOffs
      /\ b # 0 => Dst >= 0
      /\ b # LenBlocks - 1 => Dst + BlockSize <= len
      /\ b = LenBlocks - 1 => Dst + LastLen = len
  BY <1>0, <1>1, BlockPlace
<1>3. PICK n \in Nat \ {0} :
        /\ offs + n <= BlockSize
        /\ \/ UNCHANGED buf
           \/ /\ ~Buffered
              /\ buf' = [k \in Around |-> IF k - Dst \in offs .. offs + n - 1
                                          THEN out[k - Dst - offs + 1] ELSE buf[k]]
  BY ReadChunkFacts
<1>4. SUFFICES ASSUME NEW k \in Around, buf'[k] # buf[k]
     PROVE  k \in 0 .. len - 1
  BY DEF Touched
<1>5. k - Dst \in offs .. offs + n - 1 /\ ~Buffered
  BY <1>3, <1>4
<1>6. (b = 0 => FirstOffs = 0) /\ (b = LenBlocks - 1 => LastLen = BlockSize)
  BY <1>5 DEF Buffered, FirstBlock, LastBlock
<1>7. k \in Int /\ len \in Int
  BY <1>0, Constants DEF Around, TypeOK, CallTypeOK
<1>8. k - Dst >= 0 /\ k - Dst <= BlockSize - 1
  BY <1>1, <1>2, <1>3, <1>5, <1>7
<1>9. Dst >= 0 /\ Dst + BlockSize <= len
  <2>1. Dst >= 0
    <3>1. CASE b = 0
      <4>1. FirstOffs = 0
        BY <1>6, <3>1
      <4>2. Dst = -FirstOffs
        BY <1>2, <3>1
      <4>3. Dst = -0
        BY <4>1, <4>2
      <4>4. QED
        BY <4>3
    <3>2. QED
      BY <1>2, <3>1
  <2>2. Dst + BlockSize <= len
    <3>1. CASE b = LenBlocks - 1
      <4>1. Dst + BlockSize = len
        BY <1>2, <1>6, <3>1
      <4>2. QED
        BY <1>7, <4>1
    <3>2. QED
      BY <1>2, <3>1
  <2>3. QED
    BY <2>1, <2>2
<1>10. QED
  BY <1>1, <1>2, <1>7, <1>8, <1>9

\* Of the swap buffer only the bytes that are wanted are copied.
LEMMA CopyBlockTouched ==
  ASSUME BootInv, mode = "sd", CopyBlock
  PROVE  Touched
<1>1. pc = "copy" /\ buf' = Copied
  BY DEF CopyBlock
<1>2. Dst \in Int /\ \A j \in Offset : Wanted(j) \/ ~Buffered => Dst + j \in 0 .. len - 1
  BY <1>1, CopyPlace
<1>3. SUFFICES ASSUME NEW k \in Around, buf'[k] # buf[k]
     PROVE  k \in 0 .. len - 1
  BY DEF Touched
<1>4. k - Dst \in Offset /\ Wanted(k - Dst)
  BY <1>1, <1>3 DEF Copied
<1>5. Dst + (k - Dst) = k
  BY <1>2, Constants DEF Around
<1>6. QED
  BY <1>2, <1>4, <1>5

\* A step of a read of the card is a Transfer, or the Return behind its last block.
LEMMA SdTransferMaps ==
  ASSUME BootInv, DataInv, CheckCrc, SdStep, cmd \in Reading
  PROVE  [Device!Next]_(Device!readVars)
<1>1. mode = "sd" /\ UNCHANGED mode /\ SdDriver /\ CmdInv /\ BlockInv /\ TypeOK /\ SdDataInv
  BY DEF SdStep, BootInv, DataInv
<1>2. pc \notin {"main", "wake"}
  BY <1>1 DEF CmdInv, Reading
<1>3. UNCHANGED <<addr, len>> /\ cmd' \in Reading /\ pc \notin {"ready", "fail"}
      /\ pc' \notin {"main", "wake"}
  BY <1>1, <1>2 DEF SdDriver, Wake, SendCmd, DiscardStuffByte,
       PollResponse, ReadRest, PollBusy,
                    CsFree, CheckResponse, PollToken, ReadChunk, CheckBlock, CopyBlock, NextCmd,
                    AfterR1, Fails, Reading, readVars
<1>4. Status = "busy"
  BY <1>2, <1>3 DEF Status, Off, Reading, Activation
<1>5. Status' = IF pc' = "fail" THEN "failed" ELSE IF pc' = "ready" THEN "idle" ELSE "busy"
  BY <1>3 DEF Status, Off, Reading, Activation
<1>6. Touched
  <2>1. CASE ReadChunk
    BY <1>1, <2>1, ReadChunkTouched
  <2>2. CASE CopyBlock
    BY <1>1, <2>2, CopyBlockTouched
  <2>3. CASE ~ReadChunk /\ ~CopyBlock
    <3>1. UNCHANGED buf
      BY <1>1, <2>3 DEF SdDriver, Wake, SendCmd, DiscardStuffByte,
           PollResponse, ReadRest,
                        PollBusy, CsFree, CheckResponse, PollToken, CheckBlock, readVars
    <3>2. QED
      BY <3>1 DEF Touched
  <2>4. QED
    BY <2>1, <2>2, <2>3
<1>7. CASE pc' # "ready"
  BY <1>1, <1>3, <1>4, <1>5, <1>6, <1>7, Transferred
<1>8. CASE pc' = "ready"
  <2>1. CheckResponse
    BY <1>1, <1>8 DEF SdDriver, Wake, SendCmd, DiscardStuffByte,
         PollResponse, ReadRest, PollBusy,
                      CsFree, PollToken, ReadChunk, CheckBlock, CopyBlock, AfterR1
  <2>2. pc = "check" /\ UNCHANGED buf
    BY <2>1 DEF CheckResponse, readVars
  <2>3. Asked /\ b = LenBlocks /\ DoneTo(Dst)
    BY <1>1, <2>2 DEF BlockInv, SdDataInv
  <2>4. /\ FirstOffs \in 0 .. BlockSize - 1 /\ LenBlocks \in Nat \ {0}
        /\ LastLen \in 1 .. BlockSize
        /\ len + FirstOffs = BlockSize * (LenBlocks - 1) + LastLen
    BY <1>1, <2>3, BlockFacts
  <2>5. BlockSize \in Nat \ {0} /\ len \in Int
    BY <1>1, Constants DEF TypeOK, CallTypeOK
  <2>6. BlockSize * LenBlocks = BlockSize * (LenBlocks - 1) + BlockSize
        /\ BlockSize * (LenBlocks - 1) \in Int
    BY <2>4, <2>5
  <2>7. Dst \in Int /\ Dst >= len
    BY <2>3, <2>4, <2>5, <2>6 DEF Dst
  <2>8. ASSUME NEW k \in 0 .. len - 1 PROVE buf'[k] = Medium[addr + k]
    <3>1. k < Dst
      BY <2>5, <2>7
    <3>2. QED
      BY <2>2, <2>3, <3>1 DEF DoneTo
  <2>9. QED
    BY <1>1, <1>3, <1>4, <1>5, <1>6, <1>8, <2>8, Returns
<1>9. QED
  BY <1>7, <1>8

\* Every step of BootMedia, one case per component.
LEMMA NextMaps ==
  ASSUME BootInv, DataInv, CheckCrc, [Next]_vars
  PROVE  [Device!Next]_(Device!readVars)
<1>1. CASE Main
  BY <1>1, MainMaps
<1>2. CASE SdStep
  <2>1. cmd \in Activation \/ cmd \in Reading
    BY DEF BootInv, TypeOK, SdTypeOK
  <2>2. QED
    BY <1>2, <2>1, SetUpMaps, SdTransferMaps
<1>3. CASE NorStep
  BY <1>3, NorMaps
<1>4. CASE I2cStep
  BY <1>4, I2cMaps
<1>5. CASE HostStep
  BY <1>5, HostMaps
<1>6. CASE \E q \in Requests : Read(q[1], q[2])
  BY <1>6, ReadMaps
<1>7. CASE UNCHANGED vars
  <2>1. UNCHANGED <<mode, cmd, pc, addr, len, buf>>
    BY <1>7 DEF vars, sdVars
  <2>2. QED
    BY <2>1, StatusKept, Stutters
<1>8. QED
  BY <1>1, <1>2, <1>3, <1>4, <1>5, <1>6, <1>7 DEF Next, Driver

\* The medium is off at first, and the destination unwritten.
LEMMA InitMaps ==
  ASSUME Init
  PROVE  Device!Init
<1>1. pc = "main" /\ addr = 0 /\ len = 0 /\ buf = [k \in Around |-> Unread]
  BY DEF Init, CallInit
<1>2. Status = "off"
  BY <1>1 DEF Status, Off
<1>3. DOMAIN Dest = Around /\ \A k \in Around : Dest[k] = Unread
  BY <1>1 DEF Dest
<1>4. QED
  BY <1>1, <1>2, <1>3 DEF Device!Init, Status, Dest

\* With the CRC (the boot ROM reads with spi_sdcard_read_checkcrc), a read that
\* reports success has put the medium's bytes into the destination and touched
\* nothing else, whatever its alignment and whatever the line did: BootMedia
\* implements what gpt.h asks of a gpt_read_t, but for the bytes that the EEPROM's
\* driver puts behind a short destination.
THEOREM ImplementsRead == CheckCrc => (Spec => ImplementsBlockRead)
<1>1. SUFFICES ASSUME CheckCrc PROVE Spec => Device!Spec
  BY DEF ImplementsBlockRead
<1>2. Init => Device!Init
  BY InitMaps
<1>3. BootInv /\ DataInv /\ [Next]_vars => [Device!Next]_(Device!readVars)
  BY <1>1, NextMaps
<1>4. Spec => []DataInv
  BY <1>1, DataRead
<1>5. QED
  BY <1>2, <1>3, <1>4, Invariance, PTL DEF Spec, Device!Spec

=============================================================================
