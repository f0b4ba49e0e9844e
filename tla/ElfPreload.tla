----------------------------- MODULE ElfPreload -----------------------------
(***************************************************************************)
(* The testbench's ELF loader (target/sim/src/elfloader.cpp) and the three *)
(* preload tasks of vip_cheshire_soc.sv that write its sections to memory: *)
(* over JTAG word by word, over the UART's debug server in blocks, over    *)
(* the serial link in bursts of beats as wide as the bus.                  *)
(*                                                                         *)
(* Lengths are scaled: Word is 8 bytes, UartBurst 256, SlinkBurst 1024 in  *)
(* the testbench.  A byte of a file stands for its segment and place.      *)
(***************************************************************************)
EXTENDS Integers, Sequences

CONSTANTS
  Files,       \* the ELF files: a fault, an entry and program headers
  Places,      \* addresses of memory
  Word,        \* AxiStrbWidth, and bytes of a JTAG access
  UartBurst,   \* UartBurstBytes
  SlinkBurst   \* SlinkBurstBytes

\* What may be wrong with a file: found by read_elf, or by load_elf before or
\* after the program headers.  A program header is a record of load, addr, filesz
\* and memsz, and of beyond: its bytes are not all in the file.
Refused == {"open", "stat", "small", "mmap", "magic"}
Faults  == {"none", "headers", "sectionHeaders"} \cup Refused

ProgramHeader == [load : BOOLEAN, addr : Nat, filesz : Nat, memsz : Nat, beyond : BOOLEAN]

\* What load_elf keeps of a program header: PT_LOAD, with bytes.
Kept(seg) == seg.load /\ seg.memsz # 0 /\ seg.filesz # 0

\* The places of a program header.
Span(seg) == seg.addr .. seg.addr + seg.memsz - 1

\* What is kept lies in memory.
ASSUME ElfAssumption ==
  /\ {Word, UartBurst, SlinkBurst} \subseteq Nat \ {0}
  /\ SlinkBurst % Word = 0
  /\ Places \subseteq Nat
  /\ \A f \in Files :
       /\ f.fault \in Faults
       /\ f.segments \in Seq(ProgramHeader)
       /\ \A s \in DOMAIN f.segments :
            Kept(f.segments[s]) => Span(f.segments[s]) \subseteq Places

VARIABLES
  file, method,
  pc,
  entry, sections, mems, section_index,  \* the loader's globals
  i,     \* the byte of the section the task is at, or the program header
  mem    \* memory

vars == <<file, method, pc, entry, sections, mems, section_index, i, mem>>

Old  == <<"old">>
Zero == <<"zero">>
Headers == DOMAIN file.segments
Loaded(s) == Kept(file.segments[s])

\* The bytes of segment s in the file.
Content(s) == [j \in 1 .. file.segments[s].filesz |-> <<s, j - 1>>]
Bytes == (Headers \X Nat) \cup {Zero}

TypeOK ==
  /\ file \in Files /\ method \in {"jtag", "uart", "slink"}
  /\ pc \in {"open", "segments", "section", "write", "done", "fatal"}
  /\ entry \in {0, file.entry}
  /\ sections \in Seq(Places \X Nat)
  /\ DOMAIN mems \subseteq Places /\ \A a \in DOMAIN mems : mems[a] \in Seq(Bytes)
  /\ section_index \in 0 .. Len(sections)
  /\ i \in Nat
  /\ mem \in [Places -> Bytes \cup {Old}]

\* The debug module refuses accesses that are not aligned.
Accessible == method = "jtag" => \A s \in Headers : file.segments[s].addr % Word = 0

Init ==
  /\ file \in Files /\ method \in {"jtag", "uart", "slink"}
  /\ Accessible
  /\ pc = "open"
  /\ entry = 0 /\ sections = <<>> /\ mems = <<>> /\ section_index = 0
  /\ i = 0
  /\ mem = [a \in Places |-> Old]

loader == <<entry, sections, mems>>

-----------------------------------------------------------------------------
(***************************************************************************)
(* The loader.                                                             *)
(***************************************************************************)
\* read_elf up to load_elf: the tasks take -1 as fatal.  Program headers beyond
\* the end of the file make load_elf return with nothing, and read_elf with 0.
ReadElf ==
  /\ pc = "open"
  /\ pc' = CASE file.fault \in Refused -> "fatal"
             [] file.fault = "headers" -> "section"
             [] OTHER                  -> "segments"
  /\ entry' = IF pc' = "segments" THEN file.entry ELSE 0
  /\ i' = 1
  /\ UNCHANGED <<file, method, sections, mems, section_index, mem>>

Inserted(a, bytes) ==
  [x \in DOMAIN mems \cup {a} |-> IF x \in DOMAIN mems THEN mems[x] ELSE bytes]

\* A program header.  That its bytes are in the file is asserted; errors in the
\* section headers, behind it, change nothing.
LoadSegment ==
  /\ pc = "segments" /\ i \in Headers
  /\ LET seg == file.segments[i] IN
     IF ~Loaded(i)
     THEN UNCHANGED <<pc, sections, mems>>
     ELSE IF seg.beyond
     THEN pc' = "fatal" /\ UNCHANGED <<sections, mems>>
     ELSE /\ sections' = Append(sections, <<seg.addr, seg.memsz>>)
          /\ mems' = Inserted(seg.addr, Content(i))
          /\ UNCHANGED pc
  /\ i' = i + 1
  /\ UNCHANGED <<file, method, entry, section_index, mem>>

LoadEnds ==
  /\ pc = "segments" /\ i \notin Headers
  /\ pc' = "section"
  /\ UNCHANGED <<file, method, loader, section_index, i, mem>>

-----------------------------------------------------------------------------
(***************************************************************************)
(* The preload tasks.                                                      *)
(***************************************************************************)
\* Mutant: the index is advanced behind the last section.
GetSectionUnchecked ==
  /\ pc = "section" /\ section_index <= Len(sections)
  /\ section_index' = section_index + 1
  /\ pc' = IF section_index' \in DOMAIN sections THEN "write" ELSE "done"
  /\ i' = 0
  /\ UNCHANGED <<file, method, loader, mem>>

\* get_section, and read_section into a buffer of the section's length.
GetSection ==
  /\ pc = "section" /\ section_index < Len(sections)
  /\ section_index' = section_index + 1
  /\ LET sec == sections[section_index'] IN
     pc' = IF sec[1] \in DOMAIN mems /\ Len(mems[sec[1]]) <= sec[2]
           THEN "write" ELSE "fatal"
  /\ i' = 0
  /\ UNCHANGED <<file, method, loader, mem>>

Finish ==
  /\ pc = "section" /\ section_index = Len(sections)
  /\ pc' = "done"
  /\ UNCHANGED <<file, method, loader, section_index, i, mem>>

SecAddr == sections[section_index][1]
SecLen  == sections[section_index][2]

\* A byte of the section's buffer; beyond its end the simulator reads zero.
Bf(j) == IF j + 1 \in DOMAIN mems[SecAddr] THEN mems[SecAddr][j + 1] ELSE Zero

\* Bytes of the buffer to their places.
WriteBytes(range) ==
  mem' = [a \in Places |-> IF a - SecAddr \in range THEN Bf(a - SecAddr) ELSE mem[a]]

\* Mutant: the loops run while i < sec_len - 1.
AdvanceShort(step) ==
  /\ i' = i + step
  /\ pc' = IF i' < SecLen - 1 THEN "write" ELSE "section"
  /\ UNCHANGED <<file, method, loader, section_index>>

\* The loops run while i <= sec_len.
Advance(step) ==
  /\ i' = i + step
  /\ pc' = IF i' <= SecLen THEN "write" ELSE "section"
  /\ UNCHANGED <<file, method, loader, section_index>>

\* There is a word for i = sec_len too.
JtagWord ==
  /\ pc = "write" /\ method = "jtag"
  /\ WriteBytes(i .. i + Word - 1)
  /\ Advance(Word)

\* The last write may be of no bytes.
UartBlock ==
  /\ pc = "write" /\ method = "uart"
  /\ WriteBytes({j \in i .. i + UartBurst - 1 : j < SecLen})
  /\ Advance(UartBurst)

BusOffset == SecAddr % Word

\* Mutant: a beat is in the burst if the one before it is.
BeatsOneMore ==
  {b \in 0 .. SlinkBurst - 1 : b % Word = 0 /\ i + b - BusOffset - Word < SecLen}

\* Where the beats of the burst begin.
Beats == {b \in 0 .. SlinkBurst - 1 : b % Word = 0 /\ i + b - BusOffset < SecLen}

\* Whole beats, with zeros behind the section's end; the strobe of the first
\* spares the bytes before the section.
SlinkBeats ==
  /\ pc = "write" /\ method = "slink" /\ Beats # {}
  /\ WriteBytes({j \in UNION {i + b - BusOffset .. i + b - BusOffset + Word - 1 : b \in Beats} :
                  j >= 0})
  /\ Advance(SlinkBurst)

\* "Zero-length write requested!"
SlinkFatal ==
  /\ pc = "write" /\ method = "slink" /\ Beats = {}
  /\ pc' = "fatal"
  /\ UNCHANGED <<file, method, loader, section_index, i, mem>>

Next ==
  \/ ReadElf \/ LoadSegment \/ LoadEnds
  \/ GetSection \/ Finish
  \/ JtagWord \/ UartBlock \/ SlinkBeats \/ SlinkFatal

Spec == Init /\ [][Next]_vars

-----------------------------------------------------------------------------
Segments == {s \in Headers : Loaded(s)}
Extent(s) == Span(file.segments[s])

\* The bytes of the segment, then zeros.
Right(s) ==
  \A a \in Extent(s) :
    mem[a] = LET j == a - file.segments[s].addr IN
             IF j < file.segments[s].filesz THEN <<s, j>> ELSE Zero

\* Over the serial link the last burst of an unaligned segment holds its rest and
\* the offset; of a rest that does not fit the code drops the end silently.
Reached(s) ==
  method = "slink" =>
    (file.segments[s].addr % Word) + (file.segments[s].memsz % SlinkBurst) <= SlinkBurst

\* A preload that completes has left every segment with bytes in the file in
\* memory, its zeros included, although sections are written beyond their end and
\* may touch; and no file that was found bad is launched.  (With program headers
\* beyond the end of the file nothing is loaded and zero is the entry.)  load_elf
\* warns of every segment with zeros that these "will NOT be preloaded!"
\* (elfloader.cpp:243-245), but gives the section its length in memory (:239), over
\* which the buffer is filled with zeros: only a segment of nothing but zeros is
\* left out (Loaded).
ImageLoaded ==
  pc = "done" =>
    \/ file.fault = "headers"
    \/ /\ file.fault \in {"none", "sectionHeaders"} /\ entry = file.entry
       /\ \A s \in Segments : ~file.segments[s].beyond /\ (Reached(s) => Right(s))

\* At no time is anything written outside the segments but zeros, less than a
\* word and a byte behind one.
OnlyPadding ==
  \A a \in Places :
    mem[a] # Old =>
      \E s \in Segments :
        \/ a \in Extent(s)
        \/ mem[a] = Zero /\ a - file.segments[s].addr - file.segments[s].memsz \in 0 .. Word - 1
=============================================================================
