# Cheshire: a verification development of the boot path and its drivers

Cheshire is a RISC-V SoC with 64-bit CVA6 harts.  What runs before an operating
system is small, has no second try (the boot ROM is in silicon) and is
concurrent: several harts, a preloading driver outside the chip, and devices
that answer when they like.  This directory models that part of the repository,
the drivers beneath it and the testbench's preloading in TLA+, model-checks it
with TLC and proves with TLAPS every safety property and every refinement that
the passing runs check.

Paths are relative to the repository; line numbers are those of `PROJECT.json`,
whose `map` names the source lines of every definition.

## 1. Inventory

| Component | State it keeps | Operations | Models |
|---|---|---|---|
| Boot ROM, hart start-up (`hw/bootrom/cheshire_bootrom.S`, `sw/include/smp.h`) | per-hart registers, MSIP bits, `SCRATCH[4:5]` | `smp_pause`, `boot_next_stage`, `smp_resume`, `_exit` | `SmpBoot`, `BootHandover` |
| Boot ROM, passive boot (`hw/bootrom/cheshire_bootrom.c`) | `SCRATCH[0:2]`, the LLC's configuration | LLC set-up, `boot_passive` | `PassiveBoot`, `ProgramLoad` |
| C runtime (`sw/lib/crt0.S`) | saved `sp`, `gp`, `ra` | start, `_exit`, trap entry | `_exit` in `PassiveBoot` |
| UART debug server (`sw/lib/hal/uart_debug.c`, `sw/lib/dif/uart.c`) | a command and its counters, the FIFOs | `uart_debug_check`, READ, WRITE, EXEC | `UartDebug` |
| GPT search (`sw/lib/gpt.c`) | the partition found | signature, search, load | `AutoBoot` |
| Zero-stage loader (`sw/boot/zsl.c`) | the read function passed in `SCRATCH[0]` | load device tree, load firmware, launch | `AutoBoot` |
| Boot media: SD card (`spi_sdcard.c`), NOR flash (`spi_s25fs512s.c`), EEPROM (`i2c_24fc1025.c`), chosen by `main` | chip select and swap buffer; the I2C host's FIFOs | activation, commands, reads | `MediumCall`, `SdCard`, `NorFlash`, `I2cEeprom`, `BootMedia`, `BlockRead` |
| CLINT driver (`sw/lib/dif/clint.c`) | `mtime`, `mtimecmp`, interrupt enables | spin, sleep, frequency measurement | `Clint` |
| DMA driver (`sw/include/dif/dma.h`) | the engine's registers and numbers of copies | one- and two-dimensional copies, blocking or not | `Dma` |
| Testbench drivers (`target/sim/src/vip_cheshire_soc.sv`) | a client's position, bytes to send | serial link, JTAG and UART preload and run | `ElfPreload`, `PassiveBoot`, `UartDebug` |
| ELF loader (`target/sim/src/elfloader.cpp`) | sections and their bytes | read, iterate | `ElfPreload` |
| SoC top level, register file, FPGA wrapper, fan control | structure and generated code | | not modelled |

**How they interact.**  The harts share the MSIP bits of the CLINT and the
scratch registers.  A driver outside the chip shares `SCRATCH[0:2]` with hart 0
and may halt it (JTAG), or talks to it byte by byte (UART).  The program it
loads shares `SCRATCH[2]` too: it writes its return code where the launch signal
was.  In the autonomous modes `gpt.c` calls a device driver through a function
pointer (`gpt_read_t`), and the zero-stage loader calls the same function again,
in the boot ROM, through a pointer left in `SCRATCH[0]`.  Every mode but one
begins with `clint_get_core_freq`, whose result sets the clocks of UART and SPI.
The testbench's drivers cut the sections the ELF loader found into the words,
blocks or bursts of their interface.

**What is hard to test.**  `PROJECT.json` lists every hazard with its line.  In
short: stores to two peripherals seen out of order; a barrier made of interrupt
bits; one register used in both directions by two masters; a hart halted at any
instruction; one byte stream for opcodes, data and console output; inclusive
bounds; errors in the middle of a search; block arithmetic and a device that is
late, corrupts or is missing; FIFO levels polled while they fill; a timer read
and written in two halves while it runs; numbers of copies that are used again.

**What makes each part correct.**

* Handover: every hart enters the next stage at the published address, none
  before all are awake, none twice, none with an interrupt left.
* Preloading, over whatever interface: stores until the launch, one launch, and
  the driver gets the code the program returned.  `ProgramLoad` says it once,
  and both `UartDebug` and `PassiveBoot` implement it.
* Autonomous boot: what is loaded is the first partition of its type that fits;
  the load fits; an error stops the boot.
* A device's read: the medium's bytes in the destination, or an error, and
  nothing else touched.  `BlockRead` says it, `BootMedia` implements it for each
  of the three media (but for what the EEPROM's driver writes behind a short
  destination), and `AutoBoot` relies on it (its reads succeed or fail whole).
* Time: a wait is never short and always ends, a measured frequency is right.
* Copies: what is copied is what was asked for, and it is there on return.
* Images: a preload that completes left every segment, zeros included, in memory.

## 2. Plan

Written, in this order: `BootHandover`, `SmpBoot`; `ProgramLoad`, `UartDebug`,
`PassiveBoot`; `AutoBoot`; `BlockRead`, `SdCard`; `MediumCall`, `NorFlash`,
`I2cEeprom` and their composition `BootMedia`; `ElfPreload`; `Clint`; `Dma`.  Then
the proofs: `SmpBoot_proofs`, `PassiveBoot_proofs`, `AutoBoot_proofs`, `Dma_proofs`,
`Clint_proofs`, `UartDebug_proofs`, `ElfPreload_proofs`, `BootMedia_proofs`.

Left to model: `fan_ctrl.sv`, the address maps of `cheshire_pkg.sv`, and damaged
partition tables.  Section 6 says what will stay outside and why.

## 3. Modules

### `BootHandover` and `SmpBoot`

`BootHandover` is the abstract promise: an address is announced once, harts
arrive, and when all have arrived each leaves once, for that address.

`SmpBoot` is the code.  `pc[h]` is where hart h is; each access to a shared
register is one action.  `SmpPause` is `smp_pause`; `CallNextStage` enters
`boot_next_stage` with an address; `WriteLo`, `WriteHi`, `Fence` publish it;
`SendIpi` is loop 1 of `smp_resume`, `WakeUp` loop 2, `ClearIpi` the clear of the
hart's own bit, `Scan` loop 3; `LoadHi` and `LoadLoAndJump` read the entry.
Stores go through a store buffer (`Drain`) that may deliver to different
peripherals in either order until the `fence`.  `Exit` is the end of `main`.  The
next stage may set and clear MSIP bits (`NextStageIpi`, `NextStageAck`); it is
external.  `NONSMP_HART` is a constant as in the code.  The barrier property
holds if it is hart 0, the code's value: with a later hart as the sender an
earlier one may pass the scan before the later bits are set.

### `ProgramLoad`, `UartDebug`, `PassiveBoot`

`UartDebug` is `uart_debug_serve` against the UART tasks of the testbench, one
byte per action.  `rx` and `tx` are the line with its FIFOs; `UartWrite` waits for
room as `uart_write` does.  The eight bytes of an address or a length travel as
one.  The invoked program may print, may initialise the UART again
(`ProgramInits`) and may return.  `uart_init` clears the transmitter's FIFO: a byte
still in it is lost, one in the shift register is not, and which of the two the ACK
of EXEC is then depends on time.  `ackLost` is the history of the ACK having been
lost, and the properties that need the ACK claim nothing after it.  Bytes may arrive
before the client speaks.  A
program that prints the value of EOC is kept out by `ConsoleByte`: the client
cannot tell it from the end of the program.

`PassiveBoot` is hart 0 from reset to what follows the program: `CheckLlc` to
`ConfigLlc` (the three stores of the LLC set-up are three actions),
`GetCoreFreq`, `DebugInit`, the poll loop (`PollScratch` its condition and `PollUart`
its body: a launch signal may come between the two reads), the clear of
`SCRATCH[2]` and the two reads of the entry point.  `preloadMode` says which driver
there is.  Both drivers start when bit 0 of `CFG_SPM_LOW` is set, so they may run
into the two stores that follow it: `MemoryThere` is false until `CFG_COMMIT`, what
is stored before reaches nothing (`sent` goes on, `mem` does not), and `hadMemory` is
the history of what the first store met.  The serial-link driver writes the entry and the launch word; the JTAG
driver halts the hart anywhere and repoints it, and `RaAt` gives the return
address the program then has (read off the committed `cheshire_bootrom.sv`):
zero before `main`, back into `main` within `clint_get_core_freq`, `_exit` in the
poll loop, which is entered by tail calls.  `EocWord` is what `crt0.S` stores.

### `AutoBoot`

`gpt_boot_part_else_raw` and the zero-stage loader over every partition table of
bounded size.  Every call of the read function is an action that succeeds or
fails.  `Init` also starts in a preloaded zero-stage loader.  A table is well
formed (a partition ends no earlier than it begins); entries may be unused.
The branch of `gpt_find_partition` that searches by partition GUID has no
caller and is left out.

### `BlockRead`, `MediumCall`, `SdCard`, `NorFlash`, `I2cEeprom`, `BootMedia`

`BlockRead` is the contract of a `gpt_read_t`.  `MediumCall` holds what the three
drivers share: the request, the offset, and the memory around the destination.
`BootMedia` is `main` choosing the medium (with the checks of the clocks that the
initialisations make) and calls of the driver chosen.

`SdCard` is the SD driver, a byte per action on the polls and a segment per action
in a block, against a card that answers late, refuses, sends error tokens,
corrupts a byte, or is not there.  The CRC16 is modelled by what it is for: a
received block that differs from the one sent is told from it.  `Expected`
follows the committed build, in which the mask of a five-byte response covers its
first byte only.

`NorFlash` is the loop over segments; nothing in it can fail.

`I2cEeprom` queues an address and a read (`I2cQueue`) while the host is disabled,
polls the level of the receive FIFO and empties it (`I2cCopy`).  The host and the
chip are one entry or one byte per step beside it, so the poll meets every level.
`I2cLength` is the length of a chunk as the code has it: of an unaligned read the
first one goes to the next FIFO boundary, wanted or not.  `ImplementsBlockRead`
leaves those bytes out (`Overrun`), and `OnlyDestination` shows them.  The medium
is within one block of the chip: behind it the code's control byte is wrong.

Calls of the external SPI host driver do not fail.  A driver is not called again
after an error, which is what the boot ROM does.

### `ElfPreload`

The ELF loader and the three preload tasks.  `ReadElf` and `LoadSegment` have each
exit of `read_elf` and `load_elf` as a fault of the file; `GetSection` is
`get_section` and `read_section`; `JtagWord`, `UartBlock` and `SlinkBeats` each
write what one pass of the loop writes.  The loops run while `i <= sec_len`, so
each may have a pass with nothing left; over the serial link that is a fatal
error unless the offset in the bus leaves a beat (`SlinkFatal`).  A byte is its
segment and its place there.  `Reached` is where the code stops short: the last
bytes of an unaligned section are dropped when they and the offset exceed a burst.
For such a section `ImageLoaded` claims nothing; the linker scripts of the
repository align theirs.

### `Clint`

One hart calling the driver again and again beside `mtime`.  A step takes one to
`MaxDelay` cycles.  `ReadHigh` and the step that follows are the two reads of
`clint_get_mtime`, high word first as compiled; `SetCmpHigh` and `SetCmpLow` are
the two stores.  `Trap` is a handler that masks the timer or puts it off: which,
is the program's.  `Wfi` may return at any time.  The high word can only be too
old, so a time read in two halves is too early and never too late: hence
`SpinNotEarly` holds of a spin across a carry, but of `spin_ticks`, which adds to
such a time, only if there was none.

### `Dma`

One hart and the engine, a byte per step.  The registers are written in one step:
nobody reads them before `NEXT_ID` is read, which is what starts the copy
(`Launch`).  A call with zero repetitions is in the model: `Wanted` is then nothing,
but the engine copies a row (`Granted`).  A size of zero is not: nothing in the
repository says what the engine makes of it.  `dma_memcpy` leaves the strides of an earlier call in place, and
relies on zero repetitions to make them irrelevant.  The engine is external; it
accepts `Depth` copies and works in order.  Its numbers wrap; `Depth < MaxId` is
what keeps a number from meaning two copies under way.

## 4. Runs

| Run | What it shows |
|---|---|
| `SmpBoot` | three harts, one sender: type, agreement, barrier, no stale interrupt, every hart gets out, nobody leaves if nothing was published, refinement of `BootHandover` |
| `UartDebug` | no byte is misread, the line is never used both ways, transfers are complete, every command gets its answer, the code arrives, refinement of `ProgramLoad`; no misread byte and the code's arrival are claimed unless a program drops the ACK of its launch |
| `PassiveBoot` | both drivers: the program is whole when it runs, if its first store reached memory or JTAG halted the hart behind the LLC's set-up; its code stays and is reported; a launch is acted on unless it falls between the two reads of the poll loop with an ACK pending; refinement of `ProgramLoad` |
| `PassiveJtagOddCode` | *violated*: a program halted into from `clint_get_core_freq` returns into `main`, and an odd code is then cleared as a launch signal |
| `AutoBoot` | every table of up to three entries, a failing read anywhere: search, errors, termination |
| `AutoBootFirmware` | *violated*: the zero-stage loader ignores a failed load |
| `BootMedia` | three media, every alignment and length: success means the right bytes and nothing else written, every read ends, bus and FIFOs are left clean |
| `EepromOverrun` | *violated*: an unaligned EEPROM read writes behind its destination |
| `ElfPreload` | damaged and sound files over three interfaces: what completes is in memory, and at most a word of padding is written outside it |
| `Clint` | a spin is never early (`clint_spin_ticks` unless the words carry within its own first read) and ends, the measured frequency is within a loop at either end, over carries between the words |
| `ClintSleep` | *violated*: `clint_sleep_until` returns while its target is in the future |
| `Dma` | what is copied is what was asked, it is there when a blocking copy returns, and every call returns, with numbers used again at once |

The violated ones are disagreements between the code and its documents; the
findings of `PROJECT.json` quote both.  Others were met that have no run:

* `docs/um/sw.md:60` promises an ACK after EXEC where the code sends EOC.
* `docs/um/sw.md:52` has the launch bit in `SCRATCH[2][0]`; the code polls bit 1, and
  bit 0 reads back as the end of a program.
* `docs/um/sw.md:17` has the return code in the upper bits of `SCRATCH[2]`: the shift
  of `crt0.S` loses the top one, so a code may be reported as success.
* `docs/um/sw.md:67`: without a partition of the type the first is loaded; the code
  takes entry 0 even if it is unused, and then loads LBA 0.
* `spi_sdcard.c:154` means to compare whole responses; of a five-byte one the
  committed build compares the first byte, and a zero passes.
* `vip_cheshire_soc.sv:864`, "We handle incomplete bursts": not the end of an unaligned
  section that does not fit beside its offset (see `Reached`).
* `elfloader.cpp:243-245` warns that the zeros of a segment "will NOT be preloaded!".
  They are: line 239 gives the section its length in memory, the buffer of that
  length (`vip_cheshire_soc.sv:302`) is zero behind the bytes of the file, and all of
  it is written.  `ImageLoaded` claims what the code does.  The warning is right only
  of a segment with no byte in the file, which line 237 leaves out.
* `vip_cheshire_soc.sv:324`, "Wait until bootrom initialized LLC": the wait there (`:328`,
  and `:893` over the serial link) ends with the first of three stores
  (`cheshire_bootrom.S:69-72`).  A store of the driver before the last, `CFG_COMMIT`,
  reaches no memory, and a hart halted before it never commits.  The program is then
  launched without what was lost: `ProgramIntact` without its condition on
  `hadMemory` and `ra` is violated under `PassiveBoot.cfg`.
* `cheshire_bootrom.c:30-31`: a launch signal that comes between the two reads with an
  ACK in the receiver finds hart 0 in the debug server, which never reads
  `SCRATCH[2]`.  `LaunchTakesEffect` leaves out this one place (`check`, and `serve`
  behind it); with `dpc = "eoc"` alone on its left side it is violated.
* `uart.c:20`, called by a program (`sw/tests/helloworld.c` does) right after EXEC: the
  ACK may be cleared with the FIFO, and the client stops at what it reads instead.
  `NoProtocolError` without `~ackLost` is violated under `UartDebug.cfg`.
* `dma.h:98-112` passes zero repetitions on, for which the engine copies a row: with
  it `CopyAsAsked` would be violated if it did not leave out calls that want nothing.

**Bounds and why they are enough.**  Three harts: a sender, a hart the sender has
passed in its loops and one it has not; the theorems cover the rest.  UART: two
commands, blocks of up to `MaxLen` = 2 bytes, two addresses: a second command meets the
state the first left, and the data are the opcodes a confusion would need;
FIFOs of two bytes are the real depth `uart_write` allows itself (holding and
shift register).  Passive boot: registers of three bits (`TopBit` is 4) keep the three
bits that matter (mark, launch, top); two addresses let a launch fall between two stores.
GPT: three entries have a first, a middle and a last; sizes 1 to 3 lie below,
on and above the limits.  Media: nine bytes are three blocks of three in segments
of two, and for the EEPROM three chunks of a FIFO of four, so that reads have a
first, a whole and a last part, partial ones included; a latency of up to two
against limits of three bytes is in time, on the last poll, or late.  ELF: two
segments adjacent or apart, lengths up to nine against words of two and bursts of
four end before, on and behind the end of a word and of a burst.  CLINT: five
cycles a tick, so that a slow pass of a loop misses one and a quick one does not;
words of four values, with calls that begin before, around and behind a carry; the
clock stops at `MaxNow`, behind every target and before the high word is all ones
(in the code, 584 years at 1 GHz).  DMA: two copies under way with
three numbers; overlapping destinations, in one row and in two.

**Fairness.**  Harts are clocked and run: weak fairness of each hart's step and of
its store buffer.  The testbench's tasks go on, the LLC's self-test ends, and the
I2C host and the DMA engine do what they have been given.
Nothing is assumed of what is a choice: whether a program returns, a session is
opened, something is read or copied, a card gets ready, a UART client appears, or
a `wfi` returns.

**Deadlock** is not checked where the system really stops: harts end in `wfi`, in
a loop or in the next stage, testbench clients are done, drivers end at an error,
`Clint` makes no call behind `MaxStart`.  It is checked in `Dma`.

## 5. Proofs

Each proved component has a module `X_proofs`.  What it proves holds for every
value of the constants that the component's `ASSUME` admits; the argument is one
inductive invariant, a conjunction of named parts, with a lemma for each part or
each group of actions.  TLC checked each of these invariants on the bounds of
section 4 before it was proved.  What a theorem needs beyond the `ASSUME` is a
named hypothesis of that theorem:

| Theorem | States | Hypotheses |
|---|---|---|
| `SmpBoot_proofs!TypeCorrect`, `HandoverCorrect`, `Agreement`, `NoStaleInterrupt` | `TypeOK`, `HandoverInv`, `EntryAgreement`, `CleanHandover` | |
| `SmpBoot_proofs!ParkedForEver` | `ParkedOnExit` | |
| `SmpBoot_proofs!BarrierCorrect`, `HandoverRefinement` | `Barrier`, `ImplementsHandover` | `NONSMP_HART = 0`, the code's value |
| `PassiveBoot_proofs!TypeCorrect` | `TypeOK` | |
| `PassiveBoot_proofs!RunsIntact`, `ReturnCodeStays` | `ProgramIntact`, `CodeStays` | `LaunchIsMarked`, `JtagCodesEven` |
| `PassiveBoot_proofs!PassiveRefinement` | `ImplementsProgramLoad` | also `CodesFit` |
| `AutoBoot_proofs!TypeCorrect`, `SearchesRight`, `ErrorsStop` | `TypeOK`, `SearchCorrect`, `ErrorsHalt` | |
| `Dma_proofs!TypeCorrect`, `CopiesAsAsked` | `TypeOK`, `CopyAsAsked` | |
| `Dma_proofs!CopiesOnReturn` | `CopiedOnReturn` | `RowsApart` |
| `Clint_proofs!TypeCorrect`, `FrequencyAccurate`, `SpinsLast` | `TypeOK`, `FreqAccurate`, `SpinNotEarly` | |
| `UartDebug_proofs!TypeCorrect`, `LineHalfDuplex`, `TransfersComplete` | `TypeOK`, `HalfDuplex`, `TransferComplete` | |
| `UartDebug_proofs!ProtocolKept` | `NoProtocolError` | `CodeOutgrowsFifo` |
| `UartDebug_proofs!UartRefinement` | `ImplementsProgramLoad` | `EocNotPrinted` |
| `ElfPreload_proofs!TypeCorrect`, `PaddingOnly` | `TypeOK`, `OnlyPadding` | |
| `ElfPreload_proofs!ImageComplete` | `ImageLoaded` | `InOrder` |
| `BootMedia_proofs!TypeCorrect`, `LineIsClean` | `TypeOK`, `CleanLine` | |
| `BootMedia_proofs!ImplementsRead` | `ImplementsBlockRead` | `CheckCrc` |

**Hypotheses and what justifies them.**

* `LaunchIsMarked`: the word `slink_elf_run` stores is 2: bit 1 is what the ROM
  polls, bit 0 what the driver polls.
* `JtagCodesEven`: without it `CodeStays` fails, which `PassiveJtagOddCode` shows.
* `CodesFit`: the shift of `crt0.S` loses the top bit, so the code reported is the
  code returned only below it.
* `RowsApart`: with rows that overlap in the destination later bytes replace
  earlier ones, and what was asked for is not one result.
* `CodeOutgrowsFifo`: the server goes on to its `_exit` when the last byte of the
  code is stored, not sent.  A code of four bytes behind a transmitter that
  holds two cannot leave the EOC before it unsent; a shorter one could.
* `EocNotPrinted`: EOC is sent in band (section 3).
* `InOrder`: the ELF standard orders PT_LOAD by virtual address, and the linker
  scripts of `sw/link` give no other load address.  With segments over each other
  no order of writing leaves both.
* `CheckCrc`: the boot ROM reads with `spi_sdcard_read_checkcrc`
  (`cheshire_bootrom.c:47`).  Without the check a corrupted byte is read as the
  medium's.

**The invariants and why they are needed.**

`SmpBoot`: `EntryAgreement` speaks of harts that have arrived, and says nothing of
what makes them arrive at the right place.  `HandoverInv` does: `PlaceInv` (only the
sender is in the sender's places), `MsipInv` (a bit that is set was set by the
sender's loop; who is past loop 2 was woken by it), `ScratchInv` (how far the entry
words have got, in the store buffer and in the registers), `DestInv` (what a hart
loads is the published address, word by word) and `ScanInv` (what a scanning hart
has seen clear stays clear, as long as all bits were set before its own: here hart
0 as the sender comes in).

`PassiveBoot`: `PassiveInv` says whose `SCRATCH[2]` is at every moment (`SignalInv`):
the driver's launch word, the ROM's zero or the program's code.  `PlaceInv` ties it
to where hart 0 may be, which over JTAG is anywhere until the driver repoints it
and afterwards what `RaAt` makes of where it was; `DriverInv` and `EntryInv` say
which stores the driver has behind it.  `MemoryInv` is what `ProgramIntact` rests on:
memory that is there stays, so a driver whose first store reached it has lost none;
and behind the set-up there is memory, so nothing is lost when JTAG halted the hart
there, before its first store.

`AutoBoot`: `SearchCorrect` is about a load; `SearchInv` adds what leads to it: no
entry before the current one was wanted (`PassedInv`), and what is kept for the
case that none is (`FallbackInv`).  For tables of any size "the first wanted entry"
is a least element, hence the lemmas about it.

`Dma`: `AskedInv` says of every copy in the queue that its registers are those of
its call, up to strides of a call before it, which zero repetitions disarm.
`NumberInv` says that the numbers under way are the last ones given out, and `DONE`
the one before them: so `DONE` equals a call's number only when its copy is behind
the engine, although numbers wrap.  `CopiedInv` says what has been copied so far.

`Clint`: `HighInv`, that the high word read lies between those of the call's
beginning and of now, is what makes a torn read early and never late.  `StartInv`
and `EndInv` bound how far behind a tick the two cycle counts are read.
`TimerInv` says that nothing but a sleep is interrupted, without which no bound on
a loop would hold.  Quotients by words and ticks of any length need the lemmas on
division that the module begins with.

`UartDebug`: `UartInv` gives for each place of the client what the server may be
doing and what exactly is on the line in both directions (`SettleInv`, `HelloInv`,
`IdleInv`, `OpInv`, `ExecInv`, `CodeInv`), whatever the bytes are.  That is stronger than
what is to be shown, and has to be: that no byte is misread follows only from what
all the bytes in the FIFOs are.  After a lost ACK `ExecInv` keeps only that the
program was invoked, and says that nothing else makes the client stop.

`ElfPreload`: `LoadedInv` relates sections and buffers to the program headers passed,
`SectionInv` says that no buffer is longer than its section (a file with more bytes
than memory is refused).  With `OnlyPadding` they are inductive for segments in any
order.  `ImageInv` adds what is in memory so far (`PutInv`), and needs the order of
the sections (`OrderInv`): the padding of each write may fall into the next segment,
and is right only because that one is written later.

`BootMedia`: `BootInv` says where each driver is (`PlaceInv`), which command the SD
driver is in (`CmdInv`), and what the card has still to send (`BlockInv`).  The last
is the part `CleanLine` cannot do without: behind the first byte that is a
response, and behind the idle bytes, a token has exactly one block behind it
(`Ahead`), so the segments that are read are that block's whatever the latency;
and `ChunkInv` says that the receive FIFO and what the host has still to do make
up the chunk that was queued.  `DataInv` adds what is in memory: all bytes before
the current block or chunk are the medium's, a block behind its CRC is the
medium's, and the chip's address counter is at the byte that comes next
(`ChipInv`), which the two address bytes shifted into it have to give.  Then each
step is one of `BlockRead`'s or none; that a block's bytes end within the destination
is `BlockPlace`, the arithmetic of `__spi_sdcard_read_blocks`.

**Only model-checked.**  All liveness properties: TLAPS 1.4.5 has no ENABLED.  The
properties of the violated runs, of which TLC has the counterexamples.

## 6. Not modelled

* Writes: the flashing functions of the NOR flash driver and the EEPROM's write
  have no caller in the repository.  Reading them: `s25fs512s` programs pages after
  one write enable, which the flash clears after each, and receives where it means
  to send; a long EEPROM write calls itself with the arguments of what follows, and
  leaves out the stop its comment asks for.
* EEPROM addresses behind the first block; damaged partition tables; a search by
  partition GUID, which has no caller.
* A second preload in one simulation (the loader keeps the first one's sections);
  DMA from several harts, for which the driver has no lock; sections that the debug
  module refuses as unaligned; SD commands after an error in a transfer.
* What a platform ROM does (`cheshire_bootrom.S:81-86`); `SmpBoot!CallNextStage` is its
  way into `boot_next_stage`, and the passive boot is that of a chip without one.
* Baud rates, clock frequencies and signal timing; console output.
* The hardware of SPI host, I2C, DMA and LLC beyond what the drivers see, and the
  `dif_*` drivers of OpenTitan: external, not in this repository.
* The generated register file and headers; the SoC top level and the FPGA wrapper,
  which are structure; fan control; tests and utilities.

The components list of `PROJECT.json` gives the reason for each.
