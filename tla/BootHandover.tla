---------------------------- MODULE BootHandover ----------------------------
(***************************************************************************)
(* What boot_next_stage promises, whatever it is made of: one address is   *)
(* published, every hart arrives, and only when all have arrived do they   *)
(* leave, each for the published address and none twice.                   *)
(***************************************************************************)
CONSTANTS Hart, Entry, NoEntry

VARIABLES
  entry,    \* the published address
  arrived,  \* harts at the meeting point
  left      \* where each hart went, NoEntry while it is still here

abstractVars == <<entry, arrived, left>>

Init ==
  /\ entry = NoEntry
  /\ arrived = {}
  /\ left = [h \in Hart |-> NoEntry]

Announce(e) ==
  /\ entry = NoEntry
  /\ entry' = e
  /\ UNCHANGED <<arrived, left>>

Arrive(h) ==
  /\ entry # NoEntry
  /\ h \notin arrived
  /\ arrived' = arrived \cup {h}
  /\ UNCHANGED <<entry, left>>

Leave(h) ==
  /\ arrived = Hart
  /\ left[h] = NoEntry
  /\ left' = [left EXCEPT ![h] = entry]
  /\ UNCHANGED <<entry, arrived>>

Next ==
  \/ \E e \in Entry : Announce(e)
  \/ \E h \in Hart : Arrive(h) \/ Leave(h)

Spec == Init /\ [][Next]_abstractVars
=============================================================================
