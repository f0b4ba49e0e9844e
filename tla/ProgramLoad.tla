---------------------------- MODULE ProgramLoad ----------------------------
(***************************************************************************)
(* What a preloading interface promises to whoever drives it: bytes can be *)
(* put into memory until the program is launched, not after; the program   *)
(* is launched once; and the return code its driver sees is the one the    *)
(* program returned.                                                       *)
(***************************************************************************)
CONSTANTS Addr, Byte, Code, NoCode

VARIABLES
  mem,     \* the memory of the system, as the preloader leaves it
  status,  \* "load", "run" or "over"
  result,  \* what the program returned
  seen     \* what the driver was told

loadVars == <<mem, status, result, seen>>

Init ==
  /\ mem \in [Addr -> Byte]
  /\ status = "load"
  /\ result = NoCode
  /\ seen = NoCode

Store(a, b) ==
  /\ status = "load"
  /\ mem' = [mem EXCEPT ![a] = b]
  /\ UNCHANGED <<status, result, seen>>

Launch ==
  /\ status = "load"
  /\ status' = "run"
  /\ UNCHANGED <<mem, result, seen>>

Finish(c) ==
  /\ status = "run"
  /\ status' = "over"
  /\ result' = c
  /\ UNCHANGED <<mem, seen>>

Report ==
  /\ status = "over"
  /\ seen = NoCode
  /\ seen' = result
  /\ UNCHANGED <<mem, status, result>>

Next ==
  \/ \E a \in Addr, b \in Byte : Store(a, b)
  \/ Launch
  \/ \E c \in Code : Finish(c)
  \/ Report

Spec == Init /\ [][Next]_loadVars
=============================================================================
