----------------------------- MODULE MediumCall -----------------------------
(***************************************************************************)
(* A call of a gpt_read_t: what the boot media's drivers share.            *)
(***************************************************************************)
EXTENDS Integers, Sequences

CONSTANTS
  Size, Medium,  \* the medium's bytes
  Margin,  \* bytes of memory shown on either side of the destination
  Chunk,   \* bytes of an SPI segment: 4 * SPI_HOST_PARAM_RX_DEPTH in the code
  Unread   \* a byte of the destination that was not written

ASSUME MediumAssumption ==
  /\ {Size, Chunk} \subseteq Nat \ {0} /\ Margin \in Nat
  /\ Medium \in [0 .. Size - 1 -> 0 .. 255]
  /\ Unread \notin 0 .. 255

VARIABLES
  pc,         \* where the driver is; "ready" between calls
  addr, len,  \* the read
  offs,       \* bytes of it, or of a block of it, that are done
  buf         \* memory around the destination; buf[0] is its first byte

ByteOrNone == (0 .. 255) \cup {Unread}
Around     == -Margin .. Size + Margin

CallTypeOK ==
  /\ addr \in 0 .. Size - 1 /\ len \in 0 .. Size
  /\ offs \in Nat
  /\ buf \in [Around -> ByteOrNone]

CallInit == addr = 0 /\ len = 0 /\ offs = 0 /\ buf = [k \in Around |-> Unread]

\* Reads of bytes the medium has; a read of no bytes returns at once.
Requests == {q \in (DOMAIN Medium) \X (1 .. Size) : q[1] + q[2] <= Size}

Call(a, n) ==
  /\ pc = "ready"
  /\ addr' = a /\ len' = n /\ offs' = 0
  /\ buf' = [k \in Around |-> Unread]

Smaller(m, n) == IF m <= n THEN m ELSE n

\* Memory after bytes, a sequence, came to buf + at.
Stored(bytes, at) ==
  [k \in Around |-> IF k - at + 1 \in DOMAIN bytes THEN bytes[k - at + 1] ELSE buf[k]]
=============================================================================
