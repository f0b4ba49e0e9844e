------------------------------- MODULE SmpBoot -------------------------------
(***************************************************************************)
(* The multi-hart start of Cheshire's boot ROM: hw/bootrom/                *)
(* cheshire_bootrom.S with the smp_pause and smp_resume macros of          *)
(* sw/include/smp.h.                                                       *)
(*                                                                         *)
(* All harts leave reset together.  smp_pause lets hart NONSMP_HART go on  *)
(* and sends every other hart to label 2 of smp_resume, where it sleeps    *)
(* until its software-interrupt bit (CLINT MSIP) is set.  When the         *)
(* NONSMP_HART knows the next stage's address, boot_next_stage publishes   *)
(* it in SCRATCH[4] and SCRATCH[5], raises every MSIP bit, and all harts   *)
(* meet in a barrier made of the MSIP bits themselves: each clears its own *)
(* and then waits, from hart 0 upwards, until it has seen every bit zero.  *)
(* Past the barrier each hart loads the address and jumps.                 *)
(*                                                                         *)
(* One action is one memory access of the code (loops over the MSIP words  *)
(* are one action per word).  A store to the register file stays in sbuf   *)
(* until it is drained, in either order: the register file and the CLINT   *)
(* are different devices, and only the fence of line 95 orders stores to   *)
(* the one before stores to the other.                                     *)
(***************************************************************************)
EXTENDS Integers

CONSTANTS
  NUM_INT_HARTS,  \* number of internal harts (register of the same name)
  NONSMP_HART,    \* the hart that runs the boot ROM's C code
  Word,           \* the 32-bit words an address is made of
  ZeroWord,       \* reset value of the scratch registers
  NoWord,         \* no word: nothing stored, no address published
  MaxIpis         \* bound: software interrupts the next stage may raise

ASSUME HartsAssumption ==
  /\ NUM_INT_HARTS \in Nat \ {0}
  /\ NONSMP_HART \in 0 .. NUM_INT_HARTS - 1
  /\ ZeroWord \in Word
  /\ NoWord \notin Word
  /\ MaxIpis \in Nat

Harts == 0 .. NUM_INT_HARTS - 1

\* SCRATCH[4] holds the low word of the address, SCRATCH[5] the high one.
ScratchRegs == {4, 5}

Address == [lo : Word, hi : Word]

VARIABLES
  pc,       \* where each hart is
  msip,     \* the CLINT's MSIP bit of each hart
  scratch,  \* SCRATCH[4] and SCRATCH[5]
  sbuf,     \* words stored to scratch that have not reached it yet
  idx,      \* reg1 of smp_resume: the MSIP word a hart's loop is at
  a0,       \* boot_next_stage's argument
  dest,     \* the address each hart has loaded from scratch
  ipis      \* software interrupts the next stage has raised

vars == <<pc, msip, scratch, sbuf, idx, a0, dest, ipis>>

(***************************************************************************)
(* Locations.  "reset" .. smp_pause; "main" the boot ROM's C code; "lo",   *)
(* "hi", "fence" publishing; "send" loop 1; "wait" label 2; "clear" own    *)
(* MSIP; "scan" loop 3; "ldhi", "ldlo" the loads; "next" inside the next   *)
(* stage; "spin" the ret that returns to itself; "exit" _exit's wfi loop.  *)
(***************************************************************************)
BeforeSend == {"reset", "main", "lo", "hi", "fence"}
PastScan   == {"ldhi", "ldlo", "next", "spin"}
Cleared    == {"scan"} \cup PastScan
Location   == BeforeSend \cup {"send", "wait", "clear", "exit"} \cup Cleared

TypeOK ==
  /\ pc \in [Harts -> Location]
  /\ msip \in [Harts -> {0, 1}]
  /\ scratch \in [ScratchRegs -> Word]
  /\ sbuf \in [ScratchRegs -> Word \cup {NoWord}]
  /\ idx \in [Harts -> Harts]
  /\ a0 \in Address
  /\ dest \in [Harts -> Address]
  /\ ipis \in 0 .. MaxIpis

Init ==
  /\ pc = [h \in Harts |-> "reset"]
  /\ msip = [h \in Harts |-> 0]
  /\ scratch = [r \in ScratchRegs |-> ZeroWord]
  /\ sbuf = [r \in ScratchRegs |-> NoWord]
  /\ idx = [h \in Harts |-> 0]
  /\ a0 = [lo |-> ZeroWord, hi |-> ZeroWord]
  /\ dest = [h \in Harts |-> [lo |-> ZeroWord, hi |-> ZeroWord]]
  /\ ipis = 0

GoTo(h, from, to) ==
  /\ pc[h] = from
  /\ pc' = [pc EXCEPT ![h] = to]

-----------------------------------------------------------------------------
\* smp_pause: the other harts jump into smp_resume and sleep there.
SmpPause(h) ==
  /\ GoTo(h, "reset", IF h = NONSMP_HART THEN "main" ELSE "wait")
  /\ UNCHANGED <<msip, scratch, sbuf, idx, a0, dest, ipis>>

\* main (or a platform ROM) calls boot_next_stage(addr) ...
CallNextStage(addr) ==
  /\ GoTo(NONSMP_HART, "main", "lo")
  /\ a0' = addr
  /\ UNCHANGED <<msip, scratch, sbuf, idx, dest, ipis>>

\* ... or returns, and the boot ROM's _exit sleeps for ever.
Exit ==
  /\ GoTo(NONSMP_HART, "main", "exit")
  /\ UNCHANGED <<msip, scratch, sbuf, idx, a0, dest, ipis>>

StoreScratch(reg, val) == sbuf' = [sbuf EXCEPT ![reg] = val]

Drained == \A r \in ScratchRegs : sbuf[r] = NoWord

WriteLo ==
  /\ GoTo(NONSMP_HART, "lo", "hi")
  /\ StoreScratch(4, a0.lo)
  /\ UNCHANGED <<msip, scratch, idx, a0, dest, ipis>>

WriteHi ==
  /\ GoTo(NONSMP_HART, "hi", "fence")
  /\ StoreScratch(5, a0.hi)
  /\ UNCHANGED <<msip, scratch, idx, a0, dest, ipis>>

\* A store reaches the register file.
Drain(r) ==
  /\ sbuf[r] # NoWord
  /\ scratch' = [scratch EXCEPT ![r] = sbuf[r]]
  /\ sbuf' = [sbuf EXCEPT ![r] = NoWord]
  /\ UNCHANGED <<pc, msip, idx, a0, dest, ipis>>

\* Mutant: without the fence the stores may still be on their way.
FenceDropped ==
  /\ GoTo(NONSMP_HART, "fence", "send")
  /\ idx' = [idx EXCEPT ![NONSMP_HART] = 0]
  /\ UNCHANGED <<msip, scratch, sbuf, a0, dest, ipis>>

Fence ==
  /\ Drained
  /\ GoTo(NONSMP_HART, "fence", "send")
  /\ idx' = [idx EXCEPT ![NONSMP_HART] = 0]
  /\ UNCHANGED <<msip, scratch, sbuf, a0, dest, ipis>>

\* Loop 1 with its end at word n (mutants: one word short, one word over).
SendIpiUpTo(n) ==
  LET h == NONSMP_HART IN
  /\ pc[h] = "send"
  /\ msip' = [g \in Harts |-> IF g = idx[h] THEN 1 ELSE msip[g]]
  /\ IF idx[h] + 1 < n
     THEN idx' = [idx EXCEPT ![h] = @ + 1] /\ pc' = pc
     ELSE idx' = idx /\ pc' = [pc EXCEPT ![h] = "wait"]
  /\ UNCHANGED <<scratch, sbuf, a0, dest, ipis>>
SendIpiShort == SendIpiUpTo(NUM_INT_HARTS - 1)
SendIpiOver  == SendIpiUpTo(NUM_INT_HARTS + 1)

\* Loop 1 of smp_resume: raise the MSIP bit of every hart in turn.
SendIpi ==
  LET h == NONSMP_HART IN
  /\ pc[h] = "send"
  /\ msip' = [msip EXCEPT ![idx[h]] = 1]
  /\ IF idx[h] + 1 < NUM_INT_HARTS
     THEN idx' = [idx EXCEPT ![h] = @ + 1] /\ pc' = pc
     ELSE idx' = idx /\ pc' = [pc EXCEPT ![h] = "wait"]
  /\ UNCHANGED <<scratch, sbuf, a0, dest, ipis>>

\* Mutant: wfi alone, which any interrupt or none may end.
WakeUpSpurious(h) ==
  /\ GoTo(h, "wait", "clear")
  /\ UNCHANGED <<msip, scratch, sbuf, idx, a0, dest, ipis>>

\* Label 2: wfi, then leave only if the software interrupt is pending.
WakeUp(h) ==
  /\ msip[h] = 1
  /\ GoTo(h, "wait", "clear")
  /\ UNCHANGED <<msip, scratch, sbuf, idx, a0, dest, ipis>>

\* Mutant: the bit is left set.
ClearIpiForgotten(h) ==
  /\ GoTo(h, "clear", "scan")
  /\ idx' = [idx EXCEPT ![h] = 0]
  /\ UNCHANGED <<msip, scratch, sbuf, a0, dest, ipis>>

ClearIpi(h) ==
  /\ GoTo(h, "clear", "scan")
  /\ msip' = [msip EXCEPT ![h] = 0]
  /\ idx' = [idx EXCEPT ![h] = 0]
  /\ UNCHANGED <<scratch, sbuf, a0, dest, ipis>>

\* Mutant: loop 3 does not wait for the bits of the others.
ScanNoWait(h) ==
  /\ GoTo(h, "scan", "ldhi")
  /\ UNCHANGED <<msip, scratch, sbuf, idx, a0, dest, ipis>>

\* Loop 3: step over each MSIP word once it reads as zero.
Scan(h) ==
  /\ pc[h] = "scan"
  /\ msip[idx[h]] = 0
  /\ IF idx[h] + 1 < NUM_INT_HARTS
     THEN idx' = [idx EXCEPT ![h] = @ + 1] /\ pc' = pc
     ELSE idx' = idx /\ pc' = [pc EXCEPT ![h] = "ldhi"]
  /\ UNCHANGED <<msip, scratch, sbuf, a0, dest, ipis>>

\* A hart's own pending stores to a device come before its loads from it.
MayLoad(h) == h = NONSMP_HART => Drained

LoadHi(h) ==
  /\ MayLoad(h)
  /\ GoTo(h, "ldhi", "ldlo")
  /\ dest' = [dest EXCEPT ![h].hi = scratch[5]]
  /\ UNCHANGED <<msip, scratch, sbuf, idx, a0, ipis>>

LoadLoAndJump(h) ==
  /\ MayLoad(h)
  /\ GoTo(h, "ldlo", "next")
  /\ dest' = [dest EXCEPT ![h].lo = scratch[4]]
  /\ UNCHANGED <<msip, scratch, sbuf, idx, a0, ipis>>

\* The next stage returns to the ret behind jalr, whose ra is that same ret.
\* It leaves no software interrupt behind: a hart in loop 3 would hang on it.
Return(h) ==
  /\ msip[h] = 0
  /\ GoTo(h, "next", "spin")
  /\ UNCHANGED <<msip, scratch, sbuf, idx, a0, dest, ipis>>

-----------------------------------------------------------------------------
(***************************************************************************)
(* The next stage (OpenSBI or a bare-metal program) owns the MSIP bits of  *)
(* the harts that have entered it.  It must leave the others alone: a hart *)
(* still in loop 3 would wait for its own bit, which nobody clears then.   *)
(***************************************************************************)
NextStageIpi(h, t) ==
  /\ pc[h] = "next" /\ pc[t] = "next"
  /\ ipis < MaxIpis
  /\ msip' = [msip EXCEPT ![t] = 1]
  /\ ipis' = ipis + 1
  /\ UNCHANGED <<pc, scratch, sbuf, idx, a0, dest>>

NextStageAck(h) ==
  /\ pc[h] = "next"
  /\ msip[h] = 1
  /\ msip' = [msip EXCEPT ![h] = 0]
  /\ UNCHANGED <<pc, scratch, sbuf, idx, a0, dest, ipis>>

-----------------------------------------------------------------------------
HartStep(h) ==
  \/ SmpPause(h)
  \/ WakeUp(h)
  \/ ClearIpi(h)
  \/ Scan(h)
  \/ LoadHi(h)
  \/ LoadLoAndJump(h)

Publish ==
  \/ WriteLo
  \/ WriteHi
  \/ Fence
  \/ SendIpi

NextStage ==
  \/ \E h, t \in Harts : NextStageIpi(h, t)
  \/ \E h \in Harts : NextStageAck(h)
  \/ \E h \in Harts : Return(h)

Next ==
  \/ \E h \in Harts : HartStep(h)
  \/ \E addr \in Address : CallNextStage(addr)
  \/ Exit
  \/ Publish
  \/ \E r \in ScratchRegs : Drain(r)
  \/ NextStage

Spec == Init /\ [][Next]_vars

(***************************************************************************)
(* Every hart is clocked: it keeps executing.  A store reaches its device. *)
(* The next stage serves the interrupts it raised.  Whether the C code     *)
(* calls boot_next_stage at all, and whether the next stage returns, is    *)
(* left open.                                                              *)
(***************************************************************************)
Fairness ==
  /\ \A h \in Harts : WF_vars(HartStep(h)) /\ WF_vars(NextStageAck(h))
  /\ WF_vars(Publish)
  /\ \A r \in ScratchRegs : WF_vars(Drain(r))

FairSpec == Spec /\ Fairness

-----------------------------------------------------------------------------
\* Every hart that enters the next stage enters it at the address that was
\* passed to boot_next_stage: not at a word of the reset value, and not at
\* one word of the address and one of another.
EntryAgreement ==
  \A h \in Harts : pc[h] \in {"next", "spin"} => dest[h] = a0

\* No hart is past loop 3 while another has still to wake up and clear its
\* MSIP bit.  Holds because hart 0, the sender, is also the first hart every
\* scan looks at: its bit is set first and cleared after all were set.
Barrier ==
  (\E h \in Harts : pc[h] \in PastScan) => \A g \in Harts : pc[g] \in Cleared

\* A hart is handed over without a software interrupt left from the boot ROM:
\* a set bit past ClearIpi can only be the next stage's.
CleanHandover ==
  \A h \in Harts : pc[h] \in Cleared /\ msip[h] = 1 => ipis > 0

\* No wake-up is lost and the barrier does not hang: once boot_next_stage is
\* called, every hart gets to the next stage, however late it left reset.
AllHartsBoot ==
  (pc[NONSMP_HART] = "lo") ~> (\A h \in Harts : pc[h] \in {"next", "spin"})

\* Without a call to boot_next_stage (the boot ROM's main returned an error),
\* no other hart ever leaves its sleep.
ParkedOnExit ==
  [](pc[NONSMP_HART] = "exit" =>
       [](\A h \in Harts \ {NONSMP_HART} : pc[h] \in {"reset", "wait"}))

-----------------------------------------------------------------------------
(***************************************************************************)
(* The inductive invariant behind EntryAgreement, CleanHandover and        *)
(* Barrier.  Its parts: which harts can be where; what an MSIP bit says    *)
(* about its hart; how far the address is in the scratch registers; what   *)
(* was loaded; and what loop 3 has established so far.                     *)
(***************************************************************************)
SenderOnly == {"main", "lo", "hi", "fence", "send", "exit"}

\* The boot ROM's loop 1 has raised hart g's bit.
Sent(g) ==
  \/ pc[NONSMP_HART] \in {"wait", "clear"} \cup Cleared
  \/ pc[NONSMP_HART] = "send" /\ g < idx[NONSMP_HART]

PlaceInv == \A h \in Harts : pc[h] \in SenderOnly => h = NONSMP_HART

MsipInv == \A g \in Harts :
  /\ ~Sent(g) => msip[g] = 0
  /\ ~Sent(g) /\ g # NONSMP_HART => pc[g] \in {"reset", "wait"}
  /\ Sent(g) /\ pc[g] \notin Cleared => msip[g] = 1
  /\ pc[g] \in Cleared /\ msip[g] = 1 => pc[g] = "next" /\ ipis > 0

\* Register r holds word w, or will when its pending store is drained.
Holds(r, w) == IF sbuf[r] = NoWord THEN scratch[r] = w ELSE sbuf[r] = w

ScratchInv ==
  LET p == pc[NONSMP_HART] IN
  /\ p \in {"reset", "main", "exit", "lo"} => Drained
  /\ p = "hi" => Holds(4, a0.lo) /\ sbuf[5] = NoWord
  /\ p = "fence" => Holds(4, a0.lo) /\ Holds(5, a0.hi)
  /\ p \notin BeforeSend \cup {"exit"} =>
       Drained /\ scratch[4] = a0.lo /\ scratch[5] = a0.hi

DestInv == \A h \in Harts :
  /\ pc[h] = "ldlo" => dest[h].hi = a0.hi
  /\ pc[h] \in {"next", "spin"} => dest[h] = a0

\* Every bit a scan has stepped over belongs to a hart that has cleared it.
ScanInv == \A h, g \in Harts :
  /\ pc[h] = "scan" /\ g < idx[h] => pc[g] \in Cleared
  /\ pc[h] \in PastScan => pc[g] \in Cleared

\* What one bit, one store and one scan position tell about the other harts,
\* at every point of boot_next_stage; the barrier's part needs hart 0 as sender.
HandoverInv ==
  /\ PlaceInv
  /\ MsipInv
  /\ ScratchInv
  /\ DestInv
  /\ NONSMP_HART = 0 => ScanInv

-----------------------------------------------------------------------------
NoAddress == [lo |-> NoWord, hi |-> NoWord]

\* The address is announced when boot_next_stage is called; a hart arrives
\* when it clears its MSIP bit and leaves with the jump.
Handover == INSTANCE BootHandover WITH
  Hart    <- Harts,
  Entry   <- Address,
  NoEntry <- NoAddress,
  entry   <- IF pc[NONSMP_HART] \in {"reset", "main", "exit"}
             THEN NoAddress ELSE a0,
  arrived <- {h \in Harts : pc[h] \in Cleared},
  left    <- [h \in Harts |-> IF pc[h] \in {"next", "spin"}
                              THEN dest[h] ELSE NoAddress]

\* The barrier of MSIP bits and the two scratch words implement the abstract
\* handover: one address, and nobody leaves before everybody arrived.
ImplementsHandover == Handover!Spec
=============================================================================
