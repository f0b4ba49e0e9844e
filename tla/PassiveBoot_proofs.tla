------------------------- MODULE PassiveBoot_proofs -------------------------
(***************************************************************************)
(* Proofs about PassiveBoot for any width of the registers, any program,   *)
(* any memory and either driver.                                           *)
(***************************************************************************)
EXTENDS PassiveBoot, TLAPS

\* What the code relies on: the launch word of the serial-link driver sets bit 1
\* and not bit 0, and a program preloaded over JTAG ends with an even code (with
\* an odd one CodeStays fails: run PassiveJtagOddCode).
LaunchIsMarked == Bit(2, LaunchWord) /\ ~Bit(1, LaunchWord)
JtagCodesEven  == \A c \in JtagCodes : c % 2 = 0

\* What else the driver needs to be told the right code: crt0 loses the top bit.
CodesFit == \A c \in Codes : c < TopBit

-----------------------------------------------------------------------------
(***************************************************************************)
(* The inductive invariant.                                                *)
(***************************************************************************)
\* Where hart 0 is unless it was launched, or has come back into main.
Unlaunched == SetUp \cup {"freq", "uart", "poll", "check", "serve"}
Launched == dpc \in {"eoc", "done"}

\* The driver is in its own task, halts the hart for as long as it writes over
\* JTAG, and launches behind its last store.
DriverInv ==
  /\ preloadMode \in {"slink", "jtag"}
  /\ preloadMode = "slink" => dpc \notin {"halt", "repoint"}
  /\ preloadMode = "jtag" => dpc \notin {"entryhi", "entrylo", "launch"}
  /\ halted <=> preloadMode = "jtag" /\ dpc \in {"load", "repoint"}
  /\ dpc \notin {"wait", "halt", "load"} => sent = Addr

\* There is memory behind the set-up of the LLC, and then for good: what a hart
\* halted there leaves in place, and what the driver stores.
MemoryInv ==
  /\ rpc \in SetUp => llc # "spm"
  /\ ~Launched /\ rpc \notin SetUp => MemoryThere
  /\ hadMemory => MemoryThere /\ \A a \in sent : mem[a] = Image
  /\ dpc \in {"wait", "halt"} => sent = {}
  /\ preloadMode = "jtag" =>
       /\ dpc \in {"load", "repoint"} /\ rpc \notin SetUp => \A a \in sent : mem[a] = Image
       /\ rpc = "run" /\ ra # "nowhere" => \A a \in Addr : mem[a] = Image

\* SCRATCH[0], [1] hold what a serial-link driver has written, and hart 0 has
\* of them what it has read.
EntryInv ==
  /\ preloadMode = "slink" /\ (Launched \/ dpc \in {"entrylo", "launch"})
       => scratch[1] = EntryHi
  /\ preloadMode = "slink" /\ (Launched \/ dpc = "launch")
       => scratch[0] = EntryLo
  /\ rpc \in {"lo", "run"} => tgt.hi = EntryHi
  /\ rpc = "run" => tgt.lo = EntryLo

\* Hart 0 goes where a launch sends it, and from there to where the program's
\* ra points, which over JTAG may be back in main.
PlaceInv ==
  /\ ~Launched => rpc \in Unlaunched /\ code = NoCode
  /\ rpc = "run" => code = NoCode
  /\ preloadMode = "slink" =>
       /\ rpc = "run" => ra = "spin"
       /\ code = NoCode => rpc \in Unlaunched \cup {"clear", "hi", "lo", "run"}
       /\ code # NoCode => rpc = "spin"
  /\ preloadMode = "jtag" =>
       /\ rpc = "run" => ra \in {"nowhere", "uart", "exit"}
       /\ Launched /\ code = NoCode => rpc = "run"
       /\ code # NoCode =>
            rpc \in {"nowhere", "uart", "poll", "check", "serve", "exit", "wfi"}

\* SCRATCH[2] is the launch signal in one direction and the code in the other.
SignalInv ==
  /\ code = NoCode => scratch[2] \in {0, LaunchWord}
  /\ code = NoCode /\ (~Launched \/ preloadMode = "jtag") => scratch[2] = 0
  /\ code # NoCode => code \in ReturnCodes /\ scratch[2] = EocWord(code)
  /\ seen # NoCode <=> dpc = "done"
  /\ dpc = "done" => code # NoCode

PassiveInv == DriverInv /\ MemoryInv /\ EntryInv /\ PlaceInv /\ SignalInv

-----------------------------------------------------------------------------
(***************************************************************************)
(* The words in SCRATCH[2].                                                *)
(***************************************************************************)
\* A return word has bit 0 set, bit 1 as bit 0 of the code, and the code above
\* bit 0 unless its top bit is set: what _exit of crt0.S stores.
LEMMA EocBits ==
  ASSUME NEW c \in Words
  PROVE  /\ Bit(1, EocWord(c))
         /\ c % 2 = 0 => ~Bit(2, EocWord(c))
         /\ c < TopBit => EocWord(c) \div 2 = c
<1> DEFINE n == 2 * TopBit
<1>1. TopBit \in Nat /\ TopBit > 0 /\ TopBit % 2 = 0 /\ c \in 0 .. n - 1
  BY PassiveAssumption DEF Words
<1>2. PICK k \in Nat : TopBit = 2 * k
  <2>1. TopBit = 2 * (TopBit \div 2) /\ TopBit \div 2 \in Nat
    BY <1>1
  <2>2. QED
    BY <2>1
<1>3. CASE 2 * c + 1 < n
  <2>1. EocWord(c) = 2 * c + 1
    BY <1>1, <1>3 DEF EocWord
  <2>2. QED
    BY <1>1, <1>3, <2>1 DEF Words, Bit
<1>4. CASE 2 * c + 1 >= n
  <2>1. EocWord(c) = 2 * c + 1 - n
    BY <1>1, <1>4 DEF EocWord
  <2>2. QED
    BY <1>1, <1>2, <1>4, <2>1 DEF Words, Bit
<1>5. QED
  BY <1>1, <1>3, <1>4

\* What the words the model uses are, and what bits of zero are.
LEMMA WordFacts ==
  /\ 0 \in Words /\ EntryLo \in Words /\ EntryHi \in Words
  /\ LaunchWord \in Words
  /\ NoCode \notin Words /\ Words \cup {NoCode} \subseteq Int
  /\ Codes \subseteq Words /\ JtagCodes \subseteq Codes
  /\ ReturnCodes \subseteq Codes
  /\ \A w \in Words : w \div 2 \in Words
  /\ ~Bit(1, 0) /\ ~Bit(2, 0)
<1>1. TopBit \in Nat /\ TopBit > 0
  BY PassiveAssumption
<1>2. \A w \in Words : w \div 2 \in Words
  BY <1>1 DEF Words
<1>3. 0 \in Words /\ NoCode \notin Words /\ Words \cup {NoCode} \subseteq Int
  BY <1>1 DEF Words, NoCode
<1>4. ~Bit(1, 0) /\ ~Bit(2, 0)
  BY DEF Bit
<1>5. QED
  BY <1>2, <1>3, <1>4, PassiveAssumption DEF ReturnCodes

\* Whatever is in a0, _exit stores a word.
LEMMA EocWords ==
  ASSUME NEW c \in Int
  PROVE  EocWord(c) \in Words
BY PassiveAssumption DEF EocWord, Words

-----------------------------------------------------------------------------
\* Every register, place and byte always has its type.
THEOREM TypeCorrect == Spec => []TypeOK
<1> USE WordFacts DEF TypeOK, SetUp, InRom, After, memVars
<1>1. Init => TypeOK
  <2> SUFFICES ASSUME Init PROVE TypeOK
    OBVIOUS
  <2>1. mem \in [Addr -> Byte]
    BY PassiveAssumption DEF Init
  <2>2. QED
    BY <2>1 DEF Init
<1>2. TypeOK /\ [Next]_vars => TypeOK'
  <2> SUFFICES ASSUME TypeOK, [Next]_vars PROVE TypeOK'
    OBVIOUS
  <2>1. ASSUME LlcBist PROVE TypeOK'
    BY <2>1 DEF LlcBist, drvVars
  <2>2. ASSUME CheckLlc PROVE TypeOK'
    BY <2>2 DEF CheckLlc, RomGoTo, drvVars
  <2>3. ASSUME WaitLlcBist PROVE TypeOK'
    BY <2>3 DEF WaitLlcBist, RomGoTo, drvVars
  <2>4. ASSUME ConfigLlc("low", "high", "low") PROVE TypeOK'
    BY <2>4 DEF ConfigLlc, RomGoTo, drvVars
  <2>5. ASSUME ConfigLlc("high", "commit", "high") PROVE TypeOK'
    BY <2>5 DEF ConfigLlc, RomGoTo, drvVars
  <2>6. ASSUME ConfigLlc("commit", "freq", "spm") PROVE TypeOK'
    BY <2>6 DEF ConfigLlc, RomGoTo, drvVars
  <2>7. ASSUME GetCoreFreq PROVE TypeOK'
    BY <2>7 DEF GetCoreFreq, RomGoTo, drvVars
  <2>8. ASSUME DebugInit PROVE TypeOK'
    BY <2>8 DEF DebugInit, RomGoTo, drvVars
  <2>9. ASSUME PollScratch PROVE TypeOK'
    BY <2>9 DEF PollScratch, RomGoTo, drvVars
  <2>10. ASSUME PollUart PROVE TypeOK'
    BY <2>10 DEF PollUart, RomGoTo, drvVars
  <2>11. ASSUME ClearScratch PROVE TypeOK'
    BY <2>11 DEF ClearScratch, RomGoTo, drvVars
  <2>12. ASSUME ReadEntryHi PROVE TypeOK'
    BY <2>12 DEF ReadEntryHi, RomGoTo, drvVars
  <2>13. ASSUME ReadEntryLo PROVE TypeOK'
    BY <2>13 DEF ReadEntryLo, RomGoTo, drvVars
  <2>14. ASSUME RomExit PROVE TypeOK'
    BY <2>14, EocWords DEF RomExit, RomGoTo, drvVars
  <2>15. ASSUME WaitForLlc PROVE TypeOK'
    BY <2>15 DEF WaitForLlc, DriverGoTo, romVars
  <2>16. ASSUME JtagHalt PROVE TypeOK'
    BY <2>16 DEF JtagHalt, DriverGoTo, romVars
  <2>17. ASSUME NEW a \in Addr, Store(a) PROVE TypeOK'
    <3>1. MemoryThere \in BOOLEAN /\ [mem EXCEPT ![a] = Image] \in [Addr -> Byte]
      BY PassiveAssumption DEF MemoryThere
    <3>2. /\ sent' = sent \cup {a} /\ dpc' = dpc /\ seen' = seen
          /\ mem' \in [Addr -> Byte] /\ hadMemory' \in BOOLEAN
      BY <2>17, <3>1 DEF Store
    <3>3. QED
      BY <2>17, <3>2 DEF Store, romVars
  <2>18. ASSUME Preloaded PROVE TypeOK'
    BY <2>18 DEF Preloaded, DriverGoTo, romVars
  <2>19. ASSUME SlinkEntryHi PROVE TypeOK'
    BY <2>19 DEF SlinkEntryHi, WriteScratch, DriverGoTo, romVars
  <2>20. ASSUME SlinkEntryLo PROVE TypeOK'
    BY <2>20 DEF SlinkEntryLo, WriteScratch, DriverGoTo, romVars
  <2>21. ASSUME SlinkLaunch PROVE TypeOK'
    BY <2>21 DEF SlinkLaunch, WriteScratch, DriverGoTo, romVars
  <2>22. ASSUME JtagRepoint PROVE TypeOK'
    BY <2>22 DEF JtagRepoint, RaAt, DriverGoTo
  <2>23. ASSUME PollEoc PROVE TypeOK'
    BY <2>23 DEF PollEoc, DriverGoTo, romVars
  <2>24. ASSUME NEW c \in ReturnCodes, ProgramReturns(c) PROVE TypeOK'
    BY <2>24, EocWords DEF ProgramReturns, RomGoTo, drvVars
  <2>25. ASSUME UartAck PROVE TypeOK'
    BY <2>25 DEF UartAck, romVars, drvVars
  <2>26. ASSUME UNCHANGED vars PROVE TypeOK'
    BY <2>26 DEF vars, romVars, drvVars
  <2>27. QED
    BY <2>1, <2>2, <2>3, <2>4, <2>5, <2>6, <2>7, <2>8, <2>9, <2>10, <2>11,
       <2>12, <2>13, <2>14, <2>15, <2>16, <2>17, <2>18, <2>19, <2>20, <2>21,
       <2>22, <2>23, <2>24, <2>25, <2>26 DEF Next, RomStep, DriverStep
<1>3. QED
  BY <1>1, <1>2, PTL DEF Spec

\* The driver keeps to its task, and the hart stays halted while it writes.
LEMMA DriverInvStep ==
  ASSUME TypeOK, PassiveInv, [Next]_vars
  PROVE  DriverInv'
<1> USE WordFacts DEF TypeOK, PassiveInv, DriverInv, EntryInv, PlaceInv,
       SignalInv, Launched, Unlaunched, SetUp, InRom, ReturnCodes, memVars
<1>1. ASSUME LlcBist PROVE DriverInv'
  BY <1>1 DEF LlcBist, drvVars
<1>2. ASSUME CheckLlc PROVE DriverInv'
  BY <1>2 DEF CheckLlc, RomGoTo, drvVars
<1>3. ASSUME WaitLlcBist PROVE DriverInv'
  BY <1>3 DEF WaitLlcBist, RomGoTo, drvVars
<1>4. ASSUME ConfigLlc("low", "high", "low") PROVE DriverInv'
  BY <1>4 DEF ConfigLlc, RomGoTo, drvVars
<1>5. ASSUME ConfigLlc("high", "commit", "high") PROVE DriverInv'
  BY <1>5 DEF ConfigLlc, RomGoTo, drvVars
<1>6. ASSUME ConfigLlc("commit", "freq", "spm") PROVE DriverInv'
  BY <1>6 DEF ConfigLlc, RomGoTo, drvVars
<1>7. ASSUME GetCoreFreq PROVE DriverInv'
  BY <1>7 DEF GetCoreFreq, RomGoTo, drvVars
<1>8. ASSUME DebugInit PROVE DriverInv'
  BY <1>8 DEF DebugInit, RomGoTo, drvVars
<1>9. ASSUME PollScratch PROVE DriverInv'
  BY <1>9 DEF PollScratch, RomGoTo, drvVars
<1>10. ASSUME PollUart PROVE DriverInv'
  BY <1>10 DEF PollUart, RomGoTo, drvVars
<1>11. ASSUME ClearScratch PROVE DriverInv'
  BY <1>11 DEF ClearScratch, RomGoTo, drvVars
<1>12. ASSUME ReadEntryHi PROVE DriverInv'
  BY <1>12 DEF ReadEntryHi, RomGoTo, drvVars
<1>13. ASSUME ReadEntryLo PROVE DriverInv'
  BY <1>13 DEF ReadEntryLo, RomGoTo, drvVars
<1>14. ASSUME RomExit PROVE DriverInv'
  BY <1>14 DEF RomExit, RomGoTo, drvVars
<1>15. ASSUME WaitForLlc PROVE DriverInv'
  BY <1>15 DEF WaitForLlc, DriverGoTo, romVars
<1>16. ASSUME JtagHalt PROVE DriverInv'
  BY <1>16 DEF JtagHalt, DriverGoTo, romVars
<1>17. ASSUME NEW a \in Addr, Store(a) PROVE DriverInv'
  BY <1>17 DEF Store, romVars
<1>18. ASSUME Preloaded PROVE DriverInv'
  BY <1>18 DEF Preloaded, DriverGoTo, romVars
<1>19. ASSUME SlinkEntryHi PROVE DriverInv'
  BY <1>19 DEF SlinkEntryHi, WriteScratch, DriverGoTo, romVars
<1>20. ASSUME SlinkEntryLo PROVE DriverInv'
  BY <1>20 DEF SlinkEntryLo, WriteScratch, DriverGoTo, romVars
<1>21. ASSUME SlinkLaunch PROVE DriverInv'
  BY <1>21 DEF SlinkLaunch, WriteScratch, DriverGoTo, romVars
<1>22. ASSUME JtagRepoint PROVE DriverInv'
  BY <1>22 DEF JtagRepoint, RaAt, DriverGoTo
<1>23. ASSUME PollEoc PROVE DriverInv'
  BY <1>23 DEF PollEoc, DriverGoTo, romVars
<1>24. ASSUME NEW c \in ReturnCodes, ProgramReturns(c) PROVE DriverInv'
  BY <1>24 DEF ProgramReturns, RomGoTo, drvVars
<1>25. ASSUME UartAck PROVE DriverInv'
  BY <1>25 DEF UartAck, romVars, drvVars
<1>26. ASSUME UNCHANGED vars PROVE DriverInv'
  BY <1>26 DEF vars, romVars, drvVars
<1>27. QED
  BY <1>1, <1>2, <1>3, <1>4, <1>5, <1>6, <1>7, <1>8, <1>9, <1>10, <1>11,
     <1>12, <1>13, <1>14, <1>15, <1>16, <1>17, <1>18, <1>19, <1>20, <1>21,
     <1>22, <1>23, <1>24, <1>25, <1>26 DEF Next, RomStep, DriverStep

\* No step takes memory away, and a store that finds memory gets there.
LEMMA MemoryInvStep ==
  ASSUME TypeOK, PassiveInv, [Next]_vars
  PROVE  MemoryInv'
<1> USE WordFacts DEF TypeOK, PassiveInv, DriverInv, MemoryInv, PlaceInv,
       SignalInv, Launched, Unlaunched, SetUp, InRom, MemoryThere, memVars
<1>1. ASSUME LlcBist PROVE MemoryInv'
  BY <1>1 DEF LlcBist, drvVars
<1>2. ASSUME CheckLlc PROVE MemoryInv'
  BY <1>2 DEF CheckLlc, RomGoTo, drvVars
<1>3. ASSUME WaitLlcBist PROVE MemoryInv'
  BY <1>3 DEF WaitLlcBist, RomGoTo, drvVars
<1>4. ASSUME ConfigLlc("low", "high", "low") PROVE MemoryInv'
  BY <1>4 DEF ConfigLlc, RomGoTo, drvVars
<1>5. ASSUME ConfigLlc("high", "commit", "high") PROVE MemoryInv'
  BY <1>5 DEF ConfigLlc, RomGoTo, drvVars
<1>6. ASSUME ConfigLlc("commit", "freq", "spm") PROVE MemoryInv'
  BY <1>6 DEF ConfigLlc, RomGoTo, drvVars
<1>7. ASSUME GetCoreFreq PROVE MemoryInv'
  BY <1>7 DEF GetCoreFreq, RomGoTo, drvVars
<1>8. ASSUME DebugInit PROVE MemoryInv'
  BY <1>8 DEF DebugInit, RomGoTo, drvVars
<1>9. ASSUME PollScratch PROVE MemoryInv'
  BY <1>9 DEF PollScratch, RomGoTo, drvVars
<1>10. ASSUME PollUart PROVE MemoryInv'
  BY <1>10 DEF PollUart, RomGoTo, drvVars
<1>11. ASSUME ClearScratch PROVE MemoryInv'
  BY <1>11 DEF ClearScratch, RomGoTo, drvVars
<1>12. ASSUME ReadEntryHi PROVE MemoryInv'
  BY <1>12 DEF ReadEntryHi, RomGoTo, drvVars
<1>13. ASSUME ReadEntryLo PROVE MemoryInv'
  BY <1>13 DEF ReadEntryLo, RomGoTo, drvVars
<1>14. ASSUME RomExit PROVE MemoryInv'
  BY <1>14 DEF RomExit, RomGoTo, drvVars
<1>15. ASSUME WaitForLlc PROVE MemoryInv'
  BY <1>15 DEF WaitForLlc, DriverGoTo, romVars
<1>16. ASSUME JtagHalt PROVE MemoryInv'
  BY <1>16 DEF JtagHalt, DriverGoTo, romVars
<1>17. ASSUME NEW a \in Addr, Store(a) PROVE MemoryInv'
  BY <1>17 DEF Store, romVars
<1>18. ASSUME Preloaded PROVE MemoryInv'
  BY <1>18 DEF Preloaded, DriverGoTo, romVars
<1>19. ASSUME SlinkEntryHi PROVE MemoryInv'
  BY <1>19 DEF SlinkEntryHi, WriteScratch, DriverGoTo, romVars
<1>20. ASSUME SlinkEntryLo PROVE MemoryInv'
  BY <1>20 DEF SlinkEntryLo, WriteScratch, DriverGoTo, romVars
<1>21. ASSUME SlinkLaunch PROVE MemoryInv'
  BY <1>21 DEF SlinkLaunch, WriteScratch, DriverGoTo, romVars
<1>22. ASSUME JtagRepoint PROVE MemoryInv'
  BY <1>22 DEF JtagRepoint, RaAt, DriverGoTo
<1>23. ASSUME PollEoc PROVE MemoryInv'
  BY <1>23 DEF PollEoc, DriverGoTo, romVars
<1>24. ASSUME NEW c \in ReturnCodes, ProgramReturns(c) PROVE MemoryInv'
  BY <1>24 DEF ProgramReturns, RomGoTo, drvVars
<1>25. ASSUME UartAck PROVE MemoryInv'
  BY <1>25 DEF UartAck, romVars, drvVars
<1>26. ASSUME UNCHANGED vars PROVE MemoryInv'
  BY <1>26 DEF vars, romVars, drvVars
<1>27. QED
  BY <1>1, <1>2, <1>3, <1>4, <1>5, <1>6, <1>7, <1>8, <1>9, <1>10, <1>11,
     <1>12, <1>13, <1>14, <1>15, <1>16, <1>17, <1>18, <1>19, <1>20, <1>21,
     <1>22, <1>23, <1>24, <1>25, <1>26 DEF Next, RomStep, DriverStep

\* Nobody but the driver writes the entry point, and hart 0 reads it behind
\* the launch signal.
LEMMA EntryInvStep ==
  ASSUME TypeOK, PassiveInv, [Next]_vars
  PROVE  EntryInv'
<1> USE WordFacts DEF TypeOK, PassiveInv, DriverInv, EntryInv, PlaceInv,
       SignalInv, Launched, Unlaunched, SetUp, InRom, ReturnCodes, memVars
<1>1. ASSUME LlcBist PROVE EntryInv'
  BY <1>1 DEF LlcBist, drvVars
<1>2. ASSUME CheckLlc PROVE EntryInv'
  BY <1>2 DEF CheckLlc, RomGoTo, drvVars
<1>3. ASSUME WaitLlcBist PROVE EntryInv'
  BY <1>3 DEF WaitLlcBist, RomGoTo, drvVars
<1>4. ASSUME ConfigLlc("low", "high", "low") PROVE EntryInv'
  BY <1>4 DEF ConfigLlc, RomGoTo, drvVars
<1>5. ASSUME ConfigLlc("high", "commit", "high") PROVE EntryInv'
  BY <1>5 DEF ConfigLlc, RomGoTo, drvVars
<1>6. ASSUME ConfigLlc("commit", "freq", "spm") PROVE EntryInv'
  BY <1>6 DEF ConfigLlc, RomGoTo, drvVars
<1>7. ASSUME GetCoreFreq PROVE EntryInv'
  BY <1>7 DEF GetCoreFreq, RomGoTo, drvVars
<1>8. ASSUME DebugInit PROVE EntryInv'
  BY <1>8 DEF DebugInit, RomGoTo, drvVars
<1>9. ASSUME PollScratch PROVE EntryInv'
  BY <1>9 DEF PollScratch, RomGoTo, drvVars
<1>10. ASSUME PollUart PROVE EntryInv'
  BY <1>10 DEF PollUart, RomGoTo, drvVars
<1>11. ASSUME ClearScratch PROVE EntryInv'
  BY <1>11 DEF ClearScratch, RomGoTo, drvVars
<1>12. ASSUME ReadEntryHi PROVE EntryInv'
  BY <1>12 DEF ReadEntryHi, RomGoTo, drvVars
<1>13. ASSUME ReadEntryLo PROVE EntryInv'
  BY <1>13 DEF ReadEntryLo, RomGoTo, drvVars
<1>14. ASSUME RomExit PROVE EntryInv'
  BY <1>14 DEF RomExit, RomGoTo, drvVars
<1>15. ASSUME WaitForLlc PROVE EntryInv'
  BY <1>15 DEF WaitForLlc, DriverGoTo, romVars
<1>16. ASSUME JtagHalt PROVE EntryInv'
  BY <1>16 DEF JtagHalt, DriverGoTo, romVars
<1>17. ASSUME NEW a \in Addr, Store(a) PROVE EntryInv'
  BY <1>17 DEF Store, romVars
<1>18. ASSUME Preloaded PROVE EntryInv'
  BY <1>18 DEF Preloaded, DriverGoTo, romVars
<1>19. ASSUME SlinkEntryHi PROVE EntryInv'
  BY <1>19 DEF SlinkEntryHi, WriteScratch, DriverGoTo, romVars
<1>20. ASSUME SlinkEntryLo PROVE EntryInv'
  BY <1>20 DEF SlinkEntryLo, WriteScratch, DriverGoTo, romVars
<1>21. ASSUME SlinkLaunch PROVE EntryInv'
  BY <1>21 DEF SlinkLaunch, WriteScratch, DriverGoTo, romVars
<1>22. ASSUME JtagRepoint PROVE EntryInv'
  BY <1>22 DEF JtagRepoint, RaAt, DriverGoTo
<1>23. ASSUME PollEoc PROVE EntryInv'
  BY <1>23 DEF PollEoc, DriverGoTo, romVars
<1>24. ASSUME NEW c \in ReturnCodes, ProgramReturns(c) PROVE EntryInv'
  BY <1>24 DEF ProgramReturns, RomGoTo, drvVars
<1>25. ASSUME UartAck PROVE EntryInv'
  BY <1>25 DEF UartAck, romVars, drvVars
<1>26. ASSUME UNCHANGED vars PROVE EntryInv'
  BY <1>26 DEF vars, romVars, drvVars
<1>27. QED
  BY <1>1, <1>2, <1>3, <1>4, <1>5, <1>6, <1>7, <1>8, <1>9, <1>10, <1>11,
     <1>12, <1>13, <1>14, <1>15, <1>16, <1>17, <1>18, <1>19, <1>20, <1>21,
     <1>22, <1>23, <1>24, <1>25, <1>26 DEF Next, RomStep, DriverStep

\* Hart 0 leaves the poll loop for a launch signal and nothing else: a return
\* word left in SCRATCH[2] is not taken for one.
LEMMA PlaceInvStep ==
  ASSUME TypeOK, PassiveInv, LaunchIsMarked, JtagCodesEven, [Next]_vars
  PROVE  PlaceInv'
<1> USE WordFacts DEF TypeOK, PassiveInv, DriverInv, EntryInv, PlaceInv,
       SignalInv, Launched, Unlaunched, SetUp, InRom, ReturnCodes, memVars
<1>1. ASSUME LlcBist PROVE PlaceInv'
  BY <1>1 DEF LlcBist, drvVars
<1>2. ASSUME CheckLlc PROVE PlaceInv'
  BY <1>2 DEF CheckLlc, RomGoTo, drvVars
<1>3. ASSUME WaitLlcBist PROVE PlaceInv'
  BY <1>3 DEF WaitLlcBist, RomGoTo, drvVars
<1>4. ASSUME ConfigLlc("low", "high", "low") PROVE PlaceInv'
  BY <1>4 DEF ConfigLlc, RomGoTo, drvVars
<1>5. ASSUME ConfigLlc("high", "commit", "high") PROVE PlaceInv'
  BY <1>5 DEF ConfigLlc, RomGoTo, drvVars
<1>6. ASSUME ConfigLlc("commit", "freq", "spm") PROVE PlaceInv'
  BY <1>6 DEF ConfigLlc, RomGoTo, drvVars
<1>7. ASSUME GetCoreFreq PROVE PlaceInv'
  BY <1>7 DEF GetCoreFreq, RomGoTo, drvVars
<1>8. ASSUME DebugInit PROVE PlaceInv'
  BY <1>8 DEF DebugInit, RomGoTo, drvVars
<1>9. ASSUME PollScratch PROVE PlaceInv'
  BY <1>9, EocBits
     DEF LaunchIsMarked, JtagCodesEven, PollScratch, RomGoTo, drvVars
<1>10. ASSUME PollUart PROVE PlaceInv'
  BY <1>10 DEF PollUart, RomGoTo, drvVars
<1>11. ASSUME ClearScratch PROVE PlaceInv'
  BY <1>11 DEF ClearScratch, RomGoTo, drvVars
<1>12. ASSUME ReadEntryHi PROVE PlaceInv'
  BY <1>12 DEF ReadEntryHi, RomGoTo, drvVars
<1>13. ASSUME ReadEntryLo PROVE PlaceInv'
  BY <1>13 DEF ReadEntryLo, RomGoTo, drvVars
<1>14. ASSUME RomExit PROVE PlaceInv'
  BY <1>14 DEF RomExit, RomGoTo, drvVars
<1>15. ASSUME WaitForLlc PROVE PlaceInv'
  BY <1>15 DEF WaitForLlc, DriverGoTo, romVars
<1>16. ASSUME JtagHalt PROVE PlaceInv'
  BY <1>16 DEF JtagHalt, DriverGoTo, romVars
<1>17. ASSUME NEW a \in Addr, Store(a) PROVE PlaceInv'
  BY <1>17 DEF Store, romVars
<1>18. ASSUME Preloaded PROVE PlaceInv'
  BY <1>18 DEF Preloaded, DriverGoTo, romVars
<1>19. ASSUME SlinkEntryHi PROVE PlaceInv'
  BY <1>19 DEF SlinkEntryHi, WriteScratch, DriverGoTo, romVars
<1>20. ASSUME SlinkEntryLo PROVE PlaceInv'
  BY <1>20 DEF SlinkEntryLo, WriteScratch, DriverGoTo, romVars
<1>21. ASSUME SlinkLaunch PROVE PlaceInv'
  BY <1>21 DEF SlinkLaunch, WriteScratch, DriverGoTo, romVars
<1>22. ASSUME JtagRepoint PROVE PlaceInv'
  BY <1>22 DEF JtagRepoint, RaAt, DriverGoTo
<1>23. ASSUME PollEoc PROVE PlaceInv'
  BY <1>23 DEF PollEoc, DriverGoTo, romVars
<1>24. ASSUME NEW c \in ReturnCodes, ProgramReturns(c) PROVE PlaceInv'
  BY <1>24 DEF ProgramReturns, RomGoTo, drvVars
<1>25. ASSUME UartAck PROVE PlaceInv'
  BY <1>25 DEF UartAck, romVars, drvVars
<1>26. ASSUME UNCHANGED vars PROVE PlaceInv'
  BY <1>26 DEF vars, romVars, drvVars
<1>27. QED
  BY <1>1, <1>2, <1>3, <1>4, <1>5, <1>6, <1>7, <1>8, <1>9, <1>10, <1>11,
     <1>12, <1>13, <1>14, <1>15, <1>16, <1>17, <1>18, <1>19, <1>20, <1>21,
     <1>22, <1>23, <1>24, <1>25, <1>26 DEF Next, RomStep, DriverStep

\* SCRATCH[2] is zero or the launch word until the program returns, and its
\* return word from then on.
LEMMA SignalInvStep ==
  ASSUME TypeOK, PassiveInv, LaunchIsMarked, JtagCodesEven, [Next]_vars
  PROVE  SignalInv'
<1> USE WordFacts DEF TypeOK, PassiveInv, DriverInv, EntryInv, PlaceInv,
       SignalInv, Launched, Unlaunched, SetUp, InRom, ReturnCodes, memVars
<1>1. ASSUME LlcBist PROVE SignalInv'
  BY <1>1 DEF LlcBist, drvVars
<1>2. ASSUME CheckLlc PROVE SignalInv'
  BY <1>2 DEF CheckLlc, RomGoTo, drvVars
<1>3. ASSUME WaitLlcBist PROVE SignalInv'
  BY <1>3 DEF WaitLlcBist, RomGoTo, drvVars
<1>4. ASSUME ConfigLlc("low", "high", "low") PROVE SignalInv'
  BY <1>4 DEF ConfigLlc, RomGoTo, drvVars
<1>5. ASSUME ConfigLlc("high", "commit", "high") PROVE SignalInv'
  BY <1>5 DEF ConfigLlc, RomGoTo, drvVars
<1>6. ASSUME ConfigLlc("commit", "freq", "spm") PROVE SignalInv'
  BY <1>6 DEF ConfigLlc, RomGoTo, drvVars
<1>7. ASSUME GetCoreFreq PROVE SignalInv'
  BY <1>7 DEF GetCoreFreq, RomGoTo, drvVars
<1>8. ASSUME DebugInit PROVE SignalInv'
  BY <1>8 DEF DebugInit, RomGoTo, drvVars
<1>9. ASSUME PollScratch PROVE SignalInv'
  BY <1>9, EocBits
     DEF LaunchIsMarked, JtagCodesEven, PollScratch, RomGoTo, drvVars
<1>10. ASSUME PollUart PROVE SignalInv'
  BY <1>10 DEF PollUart, RomGoTo, drvVars
<1>11. ASSUME ClearScratch PROVE SignalInv'
  BY <1>11 DEF ClearScratch, RomGoTo, drvVars
<1>12. ASSUME ReadEntryHi PROVE SignalInv'
  BY <1>12 DEF ReadEntryHi, RomGoTo, drvVars
<1>13. ASSUME ReadEntryLo PROVE SignalInv'
  BY <1>13 DEF ReadEntryLo, RomGoTo, drvVars
<1>14. ASSUME RomExit PROVE SignalInv'
  BY <1>14 DEF RomExit, RomGoTo, drvVars
<1>15. ASSUME WaitForLlc PROVE SignalInv'
  BY <1>15 DEF WaitForLlc, DriverGoTo, romVars
<1>16. ASSUME JtagHalt PROVE SignalInv'
  BY <1>16 DEF JtagHalt, DriverGoTo, romVars
<1>17. ASSUME NEW a \in Addr, Store(a) PROVE SignalInv'
  BY <1>17 DEF Store, romVars
<1>18. ASSUME Preloaded PROVE SignalInv'
  BY <1>18 DEF Preloaded, DriverGoTo, romVars
<1>19. ASSUME SlinkEntryHi PROVE SignalInv'
  BY <1>19 DEF SlinkEntryHi, WriteScratch, DriverGoTo, romVars
<1>20. ASSUME SlinkEntryLo PROVE SignalInv'
  BY <1>20 DEF SlinkEntryLo, WriteScratch, DriverGoTo, romVars
<1>21. ASSUME SlinkLaunch PROVE SignalInv'
  BY <1>21 DEF SlinkLaunch, WriteScratch, DriverGoTo, romVars
<1>22. ASSUME JtagRepoint PROVE SignalInv'
  BY <1>22 DEF JtagRepoint, RaAt, DriverGoTo
<1>23. ASSUME PollEoc PROVE SignalInv'
  BY <1>23, EocBits
     DEF LaunchIsMarked, PollEoc, DriverGoTo, romVars
<1>24. ASSUME NEW c \in ReturnCodes, ProgramReturns(c) PROVE SignalInv'
  BY <1>24, EocBits
     DEF ProgramReturns, RomGoTo, drvVars
<1>25. ASSUME UartAck PROVE SignalInv'
  BY <1>25 DEF UartAck, romVars, drvVars
<1>26. ASSUME UNCHANGED vars PROVE SignalInv'
  BY <1>26 DEF vars, romVars, drvVars
<1>27. QED
  BY <1>1, <1>2, <1>3, <1>4, <1>5, <1>6, <1>7, <1>8, <1>9, <1>10, <1>11,
     <1>12, <1>13, <1>14, <1>15, <1>16, <1>17, <1>18, <1>19, <1>20, <1>21,
     <1>22, <1>23, <1>24, <1>25, <1>26 DEF Next, RomStep, DriverStep

-----------------------------------------------------------------------------
\* The inductive invariant holds in every reachable state.
THEOREM PassiveCorrect ==
  ASSUME LaunchIsMarked, JtagCodesEven
  PROVE  Spec => []PassiveInv
<1>1. Init => PassiveInv
  <2> USE DEF Init, Launched, Unlaunched, SetUp
  <2>1. Init => DriverInv /\ MemoryInv
    BY PassiveAssumption DEF DriverInv, MemoryInv, SetUp
  <2>2. Init => EntryInv /\ PlaceInv
    BY DEF EntryInv, PlaceInv
  <2>3. Init => SignalInv
    BY DEF SignalInv
  <2>4. QED
    BY <2>1, <2>2, <2>3 DEF PassiveInv
<1>2. TypeOK /\ PassiveInv /\ [Next]_vars => PassiveInv'
  <2> SUFFICES ASSUME TypeOK, PassiveInv, [Next]_vars PROVE PassiveInv'
    OBVIOUS
  <2>1. DriverInv' /\ MemoryInv' /\ EntryInv'
    BY DriverInvStep, MemoryInvStep, EntryInvStep
  <2>2. PlaceInv' /\ SignalInv'
    BY LaunchIsMarked, JtagCodesEven, PlaceInvStep, SignalInvStep
  <2>3. QED
    BY <2>1, <2>2 DEF PassiveInv
<1>3. QED
  BY <1>1, <1>2, TypeCorrect, PTL DEF Spec

\* The program runs where its entry point is, with all of it in memory if its
\* first store reached memory or if JTAG halted hart 0 behind the LLC's set-up:
\* memory that is there stays, and what is stored after the first is not lost.
THEOREM RunsIntact ==
  ASSUME LaunchIsMarked, JtagCodesEven
  PROVE  Spec => []ProgramIntact
<1>1. TypeOK /\ PassiveInv => ProgramIntact
  BY DEF TypeOK, PassiveInv, DriverInv, MemoryInv, EntryInv, PlaceInv, Launched,
     Unlaunched, SetUp, ProgramIntact
<1>2. QED
  BY <1>1, TypeCorrect, PassiveCorrect, PTL

\* A return code in SCRATCH[2] stays there until the driver has taken it.
THEOREM ReturnCodeStays ==
  ASSUME LaunchIsMarked, JtagCodesEven
  PROVE  Spec => CodeStays
<1>1. TypeOK /\ PassiveInv /\ PassiveInv' /\ [Next]_vars
        => [code # NoCode /\ dpc # "done" => scratch'[2] = scratch[2]]_vars
  <2> SUFFICES ASSUME TypeOK, PassiveInv, PassiveInv', [Next]_vars,
                      code # NoCode
               PROVE  scratch'[2] = scratch[2]
    OBVIOUS
  <2>1. code' = code
    <3> USE WordFacts DEF TypeOK, PassiveInv, DriverInv, PlaceInv, Launched, SetUp, memVars
    <3>1. ASSUME LlcBist PROVE code' = code
      BY <3>1 DEF LlcBist, drvVars
    <3>2. ASSUME CheckLlc PROVE code' = code
      BY <3>2 DEF CheckLlc, RomGoTo, drvVars
    <3>3. ASSUME WaitLlcBist PROVE code' = code
      BY <3>3 DEF WaitLlcBist, RomGoTo, drvVars
    <3>4. ASSUME ConfigLlc("low", "high", "low") PROVE code' = code
      BY <3>4 DEF ConfigLlc, RomGoTo, drvVars
    <3>5. ASSUME ConfigLlc("high", "commit", "high") PROVE code' = code
      BY <3>5 DEF ConfigLlc, RomGoTo, drvVars
    <3>6. ASSUME ConfigLlc("commit", "freq", "spm") PROVE code' = code
      BY <3>6 DEF ConfigLlc, RomGoTo, drvVars
    <3>7. ASSUME GetCoreFreq PROVE code' = code
      BY <3>7 DEF GetCoreFreq, RomGoTo, drvVars
    <3>8. ASSUME DebugInit PROVE code' = code
      BY <3>8 DEF DebugInit, RomGoTo, drvVars
    <3>9. ASSUME PollScratch PROVE code' = code
      BY <3>9 DEF PollScratch, RomGoTo, drvVars
    <3>10. ASSUME PollUart PROVE code' = code
      BY <3>10 DEF PollUart, RomGoTo, drvVars
    <3>11. ASSUME ClearScratch PROVE code' = code
      BY <3>11 DEF ClearScratch, RomGoTo, drvVars
    <3>12. ASSUME ReadEntryHi PROVE code' = code
      BY <3>12 DEF ReadEntryHi, RomGoTo, drvVars
    <3>13. ASSUME ReadEntryLo PROVE code' = code
      BY <3>13 DEF ReadEntryLo, RomGoTo, drvVars
    <3>14. ASSUME RomExit PROVE code' = code
      BY <3>14 DEF RomExit, RomGoTo, drvVars
    <3>15. ASSUME WaitForLlc PROVE code' = code
      BY <3>15 DEF WaitForLlc, DriverGoTo, romVars
    <3>16. ASSUME JtagHalt PROVE code' = code
      BY <3>16 DEF JtagHalt, DriverGoTo, romVars
    <3>17. ASSUME NEW a \in Addr, Store(a) PROVE code' = code
      BY <3>17 DEF Store, romVars
    <3>18. ASSUME Preloaded PROVE code' = code
      BY <3>18 DEF Preloaded, DriverGoTo, romVars
    <3>19. ASSUME SlinkEntryHi PROVE code' = code
      BY <3>19 DEF SlinkEntryHi, WriteScratch, DriverGoTo, romVars
    <3>20. ASSUME SlinkEntryLo PROVE code' = code
      BY <3>20 DEF SlinkEntryLo, WriteScratch, DriverGoTo, romVars
    <3>21. ASSUME SlinkLaunch PROVE code' = code
      BY <3>21 DEF SlinkLaunch, WriteScratch, DriverGoTo, romVars
    <3>22. ASSUME JtagRepoint PROVE code' = code
      BY <3>22 DEF JtagRepoint, RaAt, DriverGoTo
    <3>23. ASSUME PollEoc PROVE code' = code
      BY <3>23 DEF PollEoc, DriverGoTo, romVars
    <3>24. ASSUME NEW c \in ReturnCodes, ProgramReturns(c) PROVE code' = code
      BY <3>24 DEF ProgramReturns, RomGoTo, drvVars
    <3>25. ASSUME UartAck PROVE code' = code
      BY <3>25 DEF UartAck, romVars, drvVars
    <3>26. ASSUME UNCHANGED vars PROVE code' = code
      BY <3>26 DEF vars, romVars, drvVars
    <3>27. QED
      BY <3>1, <3>2, <3>3, <3>4, <3>5, <3>6, <3>7, <3>8, <3>9, <3>10, <3>11,
         <3>12, <3>13, <3>14, <3>15, <3>16, <3>17, <3>18, <3>19, <3>20,
         <3>21, <3>22, <3>23, <3>24, <3>25, <3>26 DEF Next, RomStep,
         DriverStep
  <2>2. QED
    BY <2>1 DEF PassiveInv, SignalInv
<1>2. QED
  BY <1>1, TypeCorrect, PassiveCorrect, PTL DEF Spec, CodeStays

\* The scratch registers are a preloading interface: bytes are stored until the
\* launch and not after, the program is launched once, and the driver is told
\* the code it returned.
THEOREM PassiveRefinement ==
  ASSUME LaunchIsMarked, JtagCodesEven, CodesFit
  PROVE  Spec => ImplementsProgramLoad
<1>1. Init => Load!Init
  BY PassiveAssumption DEF Init, Load!Init
<1>2. TypeOK /\ PassiveInv /\ PassiveInv' /\ [Next]_vars
        => [Load!Next]_(Load!loadVars)
  <2> SUFFICES ASSUME TypeOK, PassiveInv, PassiveInv', [Next]_vars
               PROVE  [Load!Next]_(Load!loadVars)
    OBVIOUS
  <2> USE WordFacts DEF TypeOK, PassiveInv, DriverInv, PlaceInv, Launched,
         Unlaunched, SetUp, InRom, memVars, Load!loadVars
  <2>1. ASSUME LlcBist PROVE [Load!Next]_(Load!loadVars)
    BY <2>1 DEF LlcBist, drvVars
  <2>2. ASSUME CheckLlc PROVE [Load!Next]_(Load!loadVars)
    BY <2>2 DEF CheckLlc, RomGoTo, drvVars
  <2>3. ASSUME WaitLlcBist PROVE [Load!Next]_(Load!loadVars)
    BY <2>3 DEF WaitLlcBist, RomGoTo, drvVars
  <2>4. ASSUME ConfigLlc("low", "high", "low")
       PROVE  [Load!Next]_(Load!loadVars)
    BY <2>4 DEF ConfigLlc, RomGoTo, drvVars
  <2>5. ASSUME ConfigLlc("high", "commit", "high")
       PROVE  [Load!Next]_(Load!loadVars)
    BY <2>5 DEF ConfigLlc, RomGoTo, drvVars
  <2>6. ASSUME ConfigLlc("commit", "freq", "spm")
       PROVE  [Load!Next]_(Load!loadVars)
    BY <2>6 DEF ConfigLlc, RomGoTo, drvVars
  <2>7. ASSUME GetCoreFreq PROVE [Load!Next]_(Load!loadVars)
    BY <2>7 DEF GetCoreFreq, RomGoTo, drvVars
  <2>8. ASSUME DebugInit PROVE [Load!Next]_(Load!loadVars)
    BY <2>8 DEF DebugInit, RomGoTo, drvVars
  <2>9. ASSUME PollScratch PROVE [Load!Next]_(Load!loadVars)
    BY <2>9 DEF PollScratch, RomGoTo, drvVars
  <2>10. ASSUME PollUart PROVE [Load!Next]_(Load!loadVars)
    BY <2>10 DEF PollUart, RomGoTo, drvVars
  <2>11. ASSUME ClearScratch PROVE [Load!Next]_(Load!loadVars)
    BY <2>11 DEF ClearScratch, RomGoTo, drvVars
  <2>12. ASSUME ReadEntryHi PROVE [Load!Next]_(Load!loadVars)
    BY <2>12 DEF ReadEntryHi, RomGoTo, drvVars
  <2>13. ASSUME ReadEntryLo PROVE [Load!Next]_(Load!loadVars)
    <3>1. Load!Launch
      BY <2>13 DEF ReadEntryLo, RomGoTo, drvVars, Load!Launch
    <3>2. QED
      BY <3>1 DEF Load!Next
  <2>14. ASSUME RomExit PROVE [Load!Next]_(Load!loadVars)
    BY <2>14 DEF RomExit, RomGoTo, drvVars
  <2>15. ASSUME WaitForLlc PROVE [Load!Next]_(Load!loadVars)
    BY <2>15 DEF WaitForLlc, DriverGoTo, romVars
  <2>16. ASSUME JtagHalt PROVE [Load!Next]_(Load!loadVars)
    BY <2>16 DEF JtagHalt, DriverGoTo, romVars
  <2>17. ASSUME NEW a \in Addr, Store(a)
         PROVE  [Load!Next]_(Load!loadVars)
    <3>1. CASE MemoryThere
      <4>1. Load!Store(a, Image) /\ Image \in Byte
        BY <2>17, <3>1, PassiveAssumption DEF Store, romVars, Load!Store
      <4>2. QED
        BY <4>1 DEF Load!Next
    <3>2. CASE ~MemoryThere
      BY <2>17, <3>2 DEF Store, romVars
    <3>3. QED
      BY <3>1, <3>2
  <2>18. ASSUME Preloaded PROVE [Load!Next]_(Load!loadVars)
    BY <2>18 DEF Preloaded, DriverGoTo, romVars
  <2>19. ASSUME SlinkEntryHi PROVE [Load!Next]_(Load!loadVars)
    BY <2>19 DEF SlinkEntryHi, WriteScratch, DriverGoTo, romVars
  <2>20. ASSUME SlinkEntryLo PROVE [Load!Next]_(Load!loadVars)
    BY <2>20 DEF SlinkEntryLo, WriteScratch, DriverGoTo, romVars
  <2>21. ASSUME SlinkLaunch PROVE [Load!Next]_(Load!loadVars)
    BY <2>21 DEF SlinkLaunch, WriteScratch, DriverGoTo, romVars
  <2>22. ASSUME JtagRepoint PROVE [Load!Next]_(Load!loadVars)
    <3>1. Load!Launch
      BY <2>22 DEF JtagRepoint, RaAt, DriverGoTo, Load!Launch
    <3>2. QED
      BY <3>1 DEF Load!Next
  <2>23. ASSUME PollEoc PROVE [Load!Next]_(Load!loadVars)
    <3>1. Bit(1, scratch[2]) /\ code # NoCode
      BY <2>23 DEF PollEoc, DriverGoTo, romVars, SignalInv, LaunchIsMarked
    <3>2. code \in Codes /\ scratch[2] = EocWord(code) /\ seen = NoCode
      BY <2>23, <3>1 DEF PollEoc, DriverGoTo, romVars, SignalInv
    <3>3. seen' = code
      BY <2>23, <3>2, EocBits DEF PollEoc, DriverGoTo, romVars, CodesFit
    <3>4. Load!Report
      BY <2>23, <3>1, <3>2, <3>3 DEF PollEoc, DriverGoTo, romVars, Load!Report
    <3>5. QED
      BY <3>4 DEF Load!Next
  <2>24. ASSUME NEW c \in ReturnCodes, ProgramReturns(c)
         PROVE  [Load!Next]_(Load!loadVars)
    <3>1. c \in Codes /\ Load!Finish(c)
      BY <2>24 DEF ProgramReturns, RomGoTo, drvVars, Load!Finish
    <3>2. QED
      BY <3>1 DEF Load!Next
  <2>25. ASSUME UartAck PROVE [Load!Next]_(Load!loadVars)
    BY <2>25 DEF UartAck, romVars, drvVars
  <2>26. ASSUME UNCHANGED vars PROVE [Load!Next]_(Load!loadVars)
    BY <2>26 DEF vars, romVars, drvVars
  <2>27. QED
    BY <2>1, <2>2, <2>3, <2>4, <2>5, <2>6, <2>7, <2>8, <2>9, <2>10, <2>11,
       <2>12, <2>13, <2>14, <2>15, <2>16, <2>17, <2>18, <2>19, <2>20, <2>21,
       <2>22, <2>23, <2>24, <2>25, <2>26 DEF Next, RomStep, DriverStep
<1>3. QED
  BY <1>1, <1>2, TypeCorrect, PassiveCorrect, PTL
     DEF Spec, Load!Spec, ImplementsProgramLoad
=============================================================================
