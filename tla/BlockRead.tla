----------------------------- MODULE BlockRead -----------------------------
(***************************************************************************)
(* What a gpt_read_t promises its callers (sw/include/gpt.h): once the     *)
(* medium is set up, a read of any bytes of it ends with these bytes in    *)
(* the destination, or it reports an error; and it touches nothing but     *)
(* the destination.  Its callers stop at the first error.                  *)
(***************************************************************************)
EXTENDS Integers

CONSTANTS
  Medium,  \* the bytes of the medium: a function on addresses from zero
  Unread   \* what the destination holds before

VARIABLES
  status,  \* "off", "idle", "busy" or "failed"
  addr, len,  \* the read
  dest     \* memory around the destination; dest[0] is its first byte

readVars == <<status, addr, len, dest>>

Within(k) == k \in 0 .. len - 1

OnlyDest == \A k \in DOMAIN dest : ~Within(k) => dest'[k] = dest[k]

Init ==
  /\ status = "off"
  /\ addr = 0 /\ len = 0
  /\ \A k \in DOMAIN dest : dest[k] = Unread

SetUp ==
  /\ status = "off" /\ status' \in {"idle", "failed"}
  /\ UNCHANGED <<addr, len, dest>>

Read ==
  /\ status = "idle" /\ status' = "busy"
  /\ len' > 0 /\ addr' \in DOMAIN Medium /\ addr' + len' - 1 \in DOMAIN Medium
  /\ \A k \in DOMAIN dest : dest'[k] = Unread

Transfer ==
  /\ status = "busy" /\ status' \in {"busy", "failed"}
  /\ OnlyDest
  /\ UNCHANGED <<addr, len>>

Return ==
  /\ status = "busy" /\ status' = "idle"
  /\ \A k \in DOMAIN dest : Within(k) => dest'[k] = Medium[addr + k]
  /\ OnlyDest
  /\ UNCHANGED <<addr, len>>

Next == SetUp \/ Read \/ Transfer \/ Return

Spec == Init /\ [][Next]_readVars
=============================================================================
