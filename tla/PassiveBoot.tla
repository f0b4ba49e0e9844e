---------------------------- MODULE PassiveBoot ----------------------------
(***************************************************************************)
(* Passive boot through the scratch registers: hart 0 in the boot ROM      *)
(* (hw/bootrom/cheshire_bootrom.S, boot_passive in cheshire_bootrom.c),    *)
(* the preloaded program's start-up code (sw/lib/crt0.S), and the driver   *)
(* that preloads it over the serial link or over JTAG (tasks slink_* and   *)
(* jtag_* of target/sim/src/vip_cheshire_soc.sv).                          *)
(*                                                                         *)
(* SCRATCH[1:0] carry the entry point, SCRATCH[2] the launch signal in one *)
(* direction and the return code in the other.  A JTAG driver does not use *)
(* the launch signal: it halts hart 0 wherever that is and repoints it, so *)
(* the program's ret goes wherever the interrupted code's ra pointed.      *)
(* The other harts are BootHandover's; boot_next_stage is one step here.   *)
(***************************************************************************)
EXTENDS Integers

CONSTANTS
  TopBit,        \* value of a register's top bit (2^31 in the code)
  EntryLo, EntryHi,  \* the two words of the program's entry point
  Addr, Byte,    \* the memory the program is loaded to
  ZeroByte,      \* what is there before
  Image,         \* bytes of the program
  Codes,         \* return codes programs end with
  JtagCodes,     \* those of them that a program preloaded over JTAG ends with
  PreloadModes,  \* the drivers: "slink", "jtag" or both, one per system
  LaunchWord,    \* what a serial-link driver writes to SCRATCH[2]
  LlcNotBypass,  \* there is an LLC whose ways become scratchpad memory
  MayAck         \* somebody may send an ACK over the UART

Words == 0 .. 2 * TopBit - 1
NoCode == -1

ASSUME PassiveAssumption ==
  /\ TopBit \in Nat \ {0} /\ TopBit % 2 = 0
  /\ {EntryLo, EntryHi, LaunchWord} \subseteq Words
  /\ Codes \subseteq Words
  /\ ZeroByte \in Byte /\ Image \in Byte
  /\ JtagCodes \subseteq Codes
  /\ PreloadModes \subseteq {"slink", "jtag"}
  /\ {LlcNotBypass, MayAck} \subseteq BOOLEAN

VARIABLES
  scratch,  \* SCRATCH[0], [1], [2]
  llc,      \* the LLC: "bist", "ready", then how far its set-up is
  rpc,      \* where hart 0 is
  halted,   \* hart 0 is in debug mode
  ra,       \* hart 0's return address while it runs the program
  tgt,      \* the entry point hart 0 was sent to
  ack,      \* an ACK waits in the UART's receiver
  code,     \* what the program returned
  preloadMode,  \* which driver it is
  dpc,      \* where the driver is
  sent,     \* addresses the driver has stored to
  mem,      \* memory
  hadMemory,  \* history: memory took the driver's first store
  seen      \* the exit code the driver took from SCRATCH[2]

romVars == <<llc, rpc, ra, tgt, code>>
memVars == <<sent, mem, hadMemory>>
drvVars == <<dpc, memVars, seen>>
vars    == <<preloadMode, scratch, romVars, halted, ack, drvVars>>

SetUp == {"start", "bist", "low", "high", "commit"}
InRom == SetUp \cup {"freq", "uart", "poll", "check", "clear", "hi", "lo"}
After == {"spin", "exit", "wfi", "nowhere", "serve"}

TypeOK ==
  /\ preloadMode \in PreloadModes
  /\ scratch \in [0 .. 2 -> Words]
  /\ llc \in {"bist", "ready", "low", "high", "spm"}
  /\ rpc \in InRom \cup After \cup {"run"}
  /\ halted \in BOOLEAN /\ ack \in BOOLEAN
  /\ ra \in After \cup {"uart"}
  /\ tgt \in [lo : Words, hi : Words]
  /\ code \in Codes \cup {NoCode}
  /\ dpc \in {"wait", "halt", "load", "entryhi", "entrylo", "launch",
              "repoint", "eoc", "done"}
  /\ sent \subseteq Addr /\ mem \in [Addr -> Byte] /\ hadMemory \in BOOLEAN
  /\ seen \in Words \cup {NoCode}

Init ==
  /\ preloadMode \in PreloadModes
  /\ scratch = [r \in 0 .. 2 |-> 0]
  /\ llc = "bist" /\ rpc = "start" /\ halted = FALSE
  /\ ra = "nowhere"
  /\ tgt = [lo |-> 0, hi |-> 0]
  /\ ack = FALSE /\ code = NoCode
  /\ dpc = "wait" /\ seen = NoCode
  /\ sent = {} /\ mem = [a \in Addr |-> ZeroByte] /\ hadMemory = FALSE

\* The bit of word v that is worth b.
Bit(b, v) == (v \div b) % 2 = 1

RomGoTo(from, to) ==
  /\ ~halted
  /\ rpc = from
  /\ rpc' = to

-----------------------------------------------------------------------------
(***************************************************************************)
(* Hart 0 in the boot ROM.                                                 *)
(***************************************************************************)
LlcBist ==
  /\ llc = "bist" /\ llc' = "ready"
  /\ UNCHANGED <<preloadMode, scratch, rpc, ra, tgt, code, halted, ack, drvVars>>

CheckLlc ==
  /\ RomGoTo("start", IF LlcNotBypass THEN "bist" ELSE "freq")
  /\ UNCHANGED <<preloadMode, scratch, llc, ra, tgt, code, halted, ack, drvVars>>

WaitLlcBist ==
  /\ llc # "bist"
  /\ RomGoTo("bist", "low")
  /\ UNCHANGED <<preloadMode, scratch, llc, ra, tgt, code, halted, ack, drvVars>>

\* Mutant: nothing is committed.
ConfigLlcUncommitted(from, to, set) ==
  /\ RomGoTo(from, to)
  /\ llc' = IF set = "spm" THEN llc ELSE set
  /\ UNCHANGED <<preloadMode, scratch, ra, tgt, code, halted, ack, drvVars>>

\* CFG_SPM_LOW, CFG_SPM_HIGH, and only then the CFG_COMMIT that applies them.
ConfigLlc(from, to, set) ==
  /\ RomGoTo(from, to)
  /\ llc' = set
  /\ UNCHANGED <<preloadMode, scratch, ra, tgt, code, halted, ack, drvVars>>

\* main calls clint_get_core_freq ...
GetCoreFreq ==
  /\ RomGoTo("freq", "uart")
  /\ UNCHANGED <<preloadMode, scratch, llc, ra, tgt, code, halted, ack, drvVars>>

\* ... and boot_passive, whose uart_debug_init clears the FIFOs unless core_freq
\* is zero.  A program that returns into main brings its code as core_freq.
DebugInit ==
  /\ RomGoTo("uart", "poll")
  /\ ack' = (ack /\ code = 0)
  /\ UNCHANGED <<preloadMode, scratch, llc, ra, tgt, code, halted, drvVars>>

\* Mutant: the launch signal taken for bit 0.
PollBit0 ==
  /\ RomGoTo("poll", IF Bit(1, scratch[2]) THEN "clear" ELSE "check")
  /\ UNCHANGED <<preloadMode, scratch, llc, ra, tgt, code, halted, ack, drvVars>>

\* The loop's condition, and only then its body: a launch may come in between.
PollScratch ==
  /\ RomGoTo("poll", IF Bit(2, scratch[2]) THEN "clear" ELSE "check")
  /\ UNCHANGED <<preloadMode, scratch, llc, ra, tgt, code, halted, ack, drvVars>>

\* If uart_debug_check finds an ACK, module UartDebug takes over.
PollUart ==
  /\ RomGoTo("check", IF ack THEN "serve" ELSE "poll")
  /\ ack' = FALSE
  /\ UNCHANGED <<preloadMode, scratch, llc, ra, tgt, code, halted, drvVars>>

ClearScratch ==
  /\ RomGoTo("clear", "hi")
  /\ scratch' = [scratch EXCEPT ![2] = 0]
  /\ UNCHANGED <<preloadMode, llc, ra, tgt, code, halted, ack, drvVars>>

ReadEntryHi ==
  /\ RomGoTo("hi", "lo")
  /\ tgt' = [tgt EXCEPT !.hi = scratch[1]]
  /\ UNCHANGED <<preloadMode, scratch, llc, ra, code, halted, ack, drvVars>>

\* Mutant: boot_next_stage is called, not jumped to.
ReadEntryLoCalled ==
  /\ RomGoTo("lo", "run")
  /\ tgt' = [tgt EXCEPT !.lo = scratch[0]]
  /\ ra' = "uart"
  /\ UNCHANGED <<preloadMode, scratch, llc, code, halted, ack, drvVars>>

\* boot_next_stage: the jalr leaves ra at the ret behind it.
ReadEntryLo ==
  /\ RomGoTo("lo", "run")
  /\ tgt' = [tgt EXCEPT !.lo = scratch[0]]
  /\ ra' = "spin"
  /\ UNCHANGED <<preloadMode, scratch, llc, code, halted, ack, drvVars>>

\* Mutants: bit 0 is not set; the code is shifted too far.
EocWordUnmarked(c) == (2 * c) % (2 * TopBit)
EocWordShifted(c) == 4 * c + 1

\* What _exit stores: the code one to the left, with bit 0 set.
EocWord(c) == (2 * c + 1) % (2 * TopBit)

\* crt0's _exit: SCRATCH[2], then ret to whatever ra points to.
ProgramReturns(c) ==
  /\ RomGoTo("run", ra)
  /\ code' = c
  /\ scratch' = [scratch EXCEPT ![2] = EocWord(c)]
  /\ UNCHANGED <<preloadMode, llc, ra, tgt, halted, ack, drvVars>>

\* The boot ROM's own _exit behind main, with the program's code in a0.
RomExit ==
  /\ RomGoTo("exit", "wfi")
  /\ scratch' = [scratch EXCEPT ![2] = EocWord(code)]
  /\ UNCHANGED <<preloadMode, llc, ra, tgt, code, halted, ack, drvVars>>

-----------------------------------------------------------------------------
(***************************************************************************)
(* The driver.                                                             *)
(***************************************************************************)
DriverGoTo(from, to) == dpc = from /\ dpc' = to

\* With an LLC: poll bit 0 of CFG_SPM_LOW, which is written before CFG_COMMIT.
WaitForLlc ==
  /\ LlcNotBypass => llc \in {"low", "high", "spm"}
  /\ DriverGoTo("wait", IF preloadMode = "jtag" THEN "halt" ELSE "load")
  /\ UNCHANGED <<preloadMode, scratch, romVars, halted, ack, memVars, seen>>

JtagHalt ==
  /\ DriverGoTo("halt", "load")
  /\ halted' = TRUE
  /\ UNCHANGED <<preloadMode, scratch, romVars, ack, memVars, seen>>

\* There is memory for the program: the LLC's ways are none before the commit.
MemoryThere == LlcNotBypass => llc = "spm"

\* The driver goes on whether its store reached memory or not.
Store(a) ==
  /\ dpc = "load" /\ a \notin sent
  /\ sent' = sent \cup {a}
  /\ mem' = IF MemoryThere THEN [mem EXCEPT ![a] = Image] ELSE mem
  /\ hadMemory' = IF sent = {} THEN MemoryThere ELSE hadMemory
  /\ UNCHANGED <<preloadMode, scratch, romVars, halted, ack, dpc, seen>>

Preloaded ==
  /\ sent = Addr
  /\ DriverGoTo("load", IF preloadMode = "jtag" THEN "repoint" ELSE "entryhi")
  /\ UNCHANGED <<preloadMode, scratch, romVars, halted, ack, memVars, seen>>

WriteScratch(r, v) == scratch' = [scratch EXCEPT ![r] = v]

SlinkEntryHi ==
  /\ DriverGoTo("entryhi", "entrylo")
  /\ WriteScratch(1, EntryHi)
  /\ UNCHANGED <<preloadMode, romVars, halted, ack, memVars, seen>>

SlinkEntryLo ==
  /\ DriverGoTo("entrylo", "launch")
  /\ WriteScratch(0, EntryLo)
  /\ UNCHANGED <<preloadMode, romVars, halted, ack, memVars, seen>>

SlinkLaunch ==
  /\ DriverGoTo("launch", "eoc")
  /\ WriteScratch(2, LaunchWord)
  /\ UNCHANGED <<preloadMode, romVars, halted, ack, memVars, seen>>

\* ra where hart 0 was halted, as src/hw/bootrom/cheshire_bootrom.sv is built:
\* zero from reset until main is called; back into main inside the call of
\* clint_get_core_freq; main's own return address in boot_passive, which main
\* ends with.
RaAt(loc) ==
  IF loc \in SetUp THEN "nowhere"
  ELSE IF loc = "freq" THEN "uart" ELSE "exit"

\* Data0/1 to DPC, resume.
JtagRepoint ==
  /\ DriverGoTo("repoint", "eoc")
  /\ rpc' = "run" /\ ra' = RaAt(rpc)
  /\ tgt' = [lo |-> EntryLo, hi |-> EntryHi]
  /\ halted' = FALSE
  /\ UNCHANGED <<preloadMode, scratch, llc, code, ack, memVars, seen>>

\* Mutant: any SCRATCH[2] but zero is taken for a return code.
PollEocNonzero ==
  /\ scratch[2] # 0
  /\ DriverGoTo("eoc", "done")
  /\ seen' = scratch[2] \div 2
  /\ UNCHANGED <<preloadMode, scratch, romVars, halted, ack, memVars>>

PollEoc ==
  /\ Bit(1, scratch[2])
  /\ DriverGoTo("eoc", "done")
  /\ seen' = scratch[2] \div 2
  /\ UNCHANGED <<preloadMode, scratch, romVars, halted, ack, memVars>>

UartAck ==
  /\ MayAck /\ ~ack /\ rpc \in InRom
  /\ ack' = TRUE
  /\ UNCHANGED <<preloadMode, scratch, romVars, halted, drvVars>>

-----------------------------------------------------------------------------
RomStep ==
  \/ CheckLlc \/ WaitLlcBist
  \/ ConfigLlc("low", "high", "low")
  \/ ConfigLlc("high", "commit", "high")
  \/ ConfigLlc("commit", "freq", "spm")
  \/ GetCoreFreq \/ DebugInit
  \/ PollScratch \/ PollUart \/ ClearScratch \/ ReadEntryHi \/ ReadEntryLo
  \/ RomExit

DriverStep ==
  \/ WaitForLlc \/ JtagHalt
  \/ (\E a \in Addr : Store(a)) \/ Preloaded
  \/ SlinkEntryHi \/ SlinkEntryLo \/ SlinkLaunch
  \/ JtagRepoint
  \/ PollEoc

ReturnCodes == IF preloadMode = "jtag" THEN JtagCodes ELSE Codes

Next ==
  \/ LlcBist
  \/ RomStep
  \/ DriverStep
  \/ \E c \in ReturnCodes : ProgramReturns(c)
  \/ UartAck

Spec == Init /\ [][Next]_vars

\* The hart is clocked, the LLC's self test ends, the testbench goes on.
FairSpec == Spec /\ WF_vars(LlcBist) /\ WF_vars(RomStep) /\ WF_vars(DriverStep)

-----------------------------------------------------------------------------
\* The program runs where its entry point is; with all of it in memory if its
\* first store reached memory, and in any case if JTAG halted hart 0 in main or
\* later (ra is then not "nowhere").  A driver that saw CFG_SPM_LOW and stores
\* before CFG_COMMIT loses what it stores.
ProgramIntact ==
  rpc = "run" =>
    /\ tgt = [lo |-> EntryLo, hi |-> EntryHi]
    /\ hadMemory \/ (preloadMode = "jtag" /\ ra # "nowhere") =>
         \A a \in Addr : mem[a] = Image

\* A return code in SCRATCH[2] stays there until the driver has taken it.
CodeStays ==
  [][code # NoCode /\ dpc # "done" => scratch'[2] = scratch[2]]_vars

\* A launch signal is acted on wherever the boot ROM is, unless it has just read
\* SCRATCH[2] and the UART is next.  If there is no ACK then, it is back at "poll"
\* and acts on the signal after all; if there is, the signal stays unread.
LaunchTakesEffect ==
  (dpc = "eoc" /\ rpc \notin {"check", "serve"}) ~> (rpc = "run" \/ code # NoCode)

\* The driver learns of every program that returned.
EocSeen == (code # NoCode) ~> (dpc = "done")

Load == INSTANCE ProgramLoad WITH
  Code <- Codes,
  mem <- mem,
  status <- IF code # NoCode THEN "over"
            ELSE IF rpc = "run" THEN "run" ELSE "load",
  result <- code,
  seen <- seen

\* The scratch-register protocol is a preloading interface.
ImplementsProgramLoad == Load!Spec
=============================================================================
