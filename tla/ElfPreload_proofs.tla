------------------------- MODULE ElfPreload_proofs -------------------------
(***************************************************************************)
(* Proofs about ElfPreload for any files, any number of program headers,   *)
(* and bursts and words of any length.                                     *)
(***************************************************************************)
EXTENDS ElfPreload, TLAPS, SequenceTheorems

\* What is kept of a file is in the order of its addresses and does not overlap.
\* The ELF standard orders PT_LOAD by virtual address, and the linker scripts in
\* sw/link give no other load address.
InOrder ==
  \A f \in Files : \A s, t \in DOMAIN f.segments :
    s < t /\ Kept(f.segments[s]) /\ Kept(f.segments[t]) =>
      f.segments[s].addr + f.segments[s].memsz <= f.segments[t].addr

-----------------------------------------------------------------------------
(***************************************************************************)
(* The inductive invariants.                                               *)
(***************************************************************************)
\* The section of a segment.
Entry(s) == <<file.segments[s].addr, file.segments[s].memsz>>

\* The program headers that were looked at.
Passed == {s \in Segments : pc = "segments" => s < i}

\* Sections and contents are those of segments; what has been passed is there.
LoadedInv ==
  /\ pc = "open" => sections = <<>> /\ mems = <<>> /\ section_index = 0
  /\ pc = "segments" => i \in Nat \ {0} /\ section_index = 0
  /\ pc \notin {"open", "fatal"} =>
       /\ file.fault \notin Refused
       /\ file.fault = "headers" => pc # "segments"
       /\ file.fault # "headers" => entry = file.entry
  /\ \A k \in 1 .. Len(sections) :
       /\ \E s \in Passed : sections[k] = Entry(s)
       /\ sections[k][1] \in DOMAIN mems
  /\ \A a \in DOMAIN mems :
       \E s \in Segments : a = file.segments[s].addr /\ mems[a] = Content(s)
  /\ pc \notin {"open", "fatal"} /\ file.fault # "headers" =>
       \A s \in Passed :
         ~file.segments[s].beyond /\ \E k \in 1 .. Len(sections) : sections[k] = Entry(s)

\* The task is within a section, and the buffer holds all of the section's bytes.
SectionInv ==
  /\ pc = "write" =>
       /\ section_index \in 1 .. Len(sections)
       /\ Len(mems[SecAddr]) <= SecLen /\ i <= SecLen
       /\ method = "slink" => \E n \in 0 .. i : i = SlinkBurst * n
  /\ pc = "done" => section_index = Len(sections)

PreloadInv == TypeOK /\ LoadedInv /\ SectionInv /\ OnlyPadding

\* The sections are in the order of their addresses.
OrderInv ==
  \A k, l \in 1 .. Len(sections) :
    k < l => sections[k][1] + sections[k][2] <= sections[l][1]

\* Byte j of section k.
ByteOf(k, j) ==
  IF j + 1 \in DOMAIN mems[sections[k][1]] THEN mems[sections[k][1]][j + 1] ELSE Zero

\* The bytes from first to last of section k are in memory.
Put(k, n) == \A j \in 0 .. sections[k][2] - 1 : j < n => mem[sections[k][1] + j] = ByteOf(k, j)

WholeReached(k) ==
  method = "slink" =>
    (sections[k][1] % Word) + (sections[k][2] % SlinkBurst) <= SlinkBurst

\* The sections before the current one are in memory, and of it what comes before
\* the next burst.
PutInv ==
  /\ \A k \in 1 .. section_index :
       (pc = "write" => k < section_index) /\ WholeReached(k) => Put(k, sections[k][2])
  /\ pc = "write" =>
       Put(section_index, IF method = "slink" THEN i - BusOffset ELSE i)

ImageInv == OrderInv /\ (pc # "fatal" => PutInv)
-----------------------------------------------------------------------------
(***************************************************************************)
(* Arithmetic.                                                             *)
(***************************************************************************)
LEMMA Division ==
  ASSUME NEW n \in Nat, NEW w \in Nat \ {0}
  PROVE  n % w \in 0 .. w - 1 /\ n = w * (n \div w) + (n % w) /\ n \div w \in Nat
OBVIOUS

LEMMA Multiple ==
  ASSUME NEW w \in Nat \ {0}, NEW q \in Nat
  PROVE  (w * q) % w = 0 /\ w * q \in Nat
OBVIOUS

LEMMA Remainder ==
  ASSUME NEW w \in Nat \ {0}, NEW q \in Nat, NEW r \in 0 .. w - 1
  PROVE  (w * q + r) % w = r
OBVIOUS

LEMMA Within ==
  ASSUME NEW n \in Nat, NEW m \in Nat, NEW a \in n .. n + m - 1
  PROVE  \E j \in 0 .. m - 1 : j = a - n /\ a = n + j
<1>1. a - n \in 0 .. m - 1 /\ a = n + (a - n)
  OBVIOUS
<1>2. QED
  BY <1>1

\* The multiple of w at or before n.
LEMMA Aligned ==
  ASSUME NEW n \in Nat, NEW w \in Nat \ {0}
  PROVE  \E m \in 0 .. n : m % w = 0 /\ n < m + w
<1>1. /\ n % w \in 0 .. w - 1 /\ n = w * (n \div w) + (n % w) /\ n \div w \in Nat
  BY Division
<1>2. w * (n \div w) \in 0 .. n /\ n < w * (n \div w) + w
  <2>1. w * (n \div w) \in Nat
    BY <1>1, Multiple
  <2>2. QED
    BY <1>1, <2>1
<1>3. (w * (n \div w)) % w = 0
  BY <1>1, Multiple
<1>4. QED
  BY <1>2, <1>3

\* Beyond the next multiple of m behind n what is left of n is n % m.
LEMMA LastBurst ==
  ASSUME NEW n \in Nat, NEW m \in Nat \ {0}, NEW q \in Nat,
         m * q <= n, n < m * q + m
  PROVE  n % m = n - m * q
<1>1. m * q \in Nat
  BY Multiple
<1>2. n - m * q \in 0 .. m - 1 /\ n = m * q + (n - m * q)
  BY <1>1
<1>3. QED
  BY <1>2, Remainder
-----------------------------------------------------------------------------
(***************************************************************************)
(* Files and sections.                                                     *)
(***************************************************************************)
LEMMA Lengths ==
  /\ Word \in Nat \ {0} /\ UartBurst \in Nat \ {0} /\ SlinkBurst \in Nat \ {0}
  /\ Places \subseteq Nat
BY ElfAssumption DEF ElfAssumption

LEMMA FileFacts ==
  ASSUME TypeOK
  PROVE  /\ file.fault \in Faults
         /\ Headers = 1 .. Len(file.segments) /\ Len(file.segments) \in Nat
         /\ \A s \in Segments :
              /\ s \in Headers /\ s \in Nat \ {0} /\ Kept(file.segments[s])
              /\ file.segments[s].addr \in Nat /\ file.segments[s].addr \in Places
              /\ file.segments[s].memsz \in Nat \ {0}
              /\ file.segments[s].filesz \in Nat \ {0}
              /\ Extent(s) \subseteq Places
              /\ Content(s) \in Seq(Bytes) /\ Len(Content(s)) = file.segments[s].filesz
<1>1. /\ file.fault \in Faults /\ file.segments \in Seq(ProgramHeader)
      /\ \A s \in DOMAIN file.segments :
           Kept(file.segments[s]) => Span(file.segments[s]) \subseteq Places
  BY ElfAssumption DEF ElfAssumption, TypeOK
<1>2. Headers = 1 .. Len(file.segments) /\ Len(file.segments) \in Nat
  BY <1>1, LenProperties DEF Headers
<1>3. ASSUME NEW s \in Segments
      PROVE  /\ s \in Headers /\ s \in Nat \ {0} /\ Kept(file.segments[s])
             /\ file.segments[s].addr \in Nat /\ file.segments[s].addr \in Places
             /\ file.segments[s].memsz \in Nat \ {0}
             /\ file.segments[s].filesz \in Nat \ {0}
             /\ Extent(s) \subseteq Places
             /\ Content(s) \in Seq(Bytes) /\ Len(Content(s)) = file.segments[s].filesz
  <2>1. s \in Headers /\ s \in Nat \ {0} /\ Kept(file.segments[s])
    BY <1>2 DEF Segments, Loaded
  <2>2. file.segments[s] \in ProgramHeader
    BY <1>1, <1>2, <2>1, ElementOfSeq
  <2>3. /\ file.segments[s].addr \in Nat
        /\ file.segments[s].memsz \in Nat \ {0} /\ file.segments[s].filesz \in Nat \ {0}
    BY <2>1, <2>2 DEF ProgramHeader, Kept
  <2>4. Extent(s) \subseteq Places
    BY <1>1, <2>1 DEF Headers, Extent
  <2>5. file.segments[s].addr \in Places
    BY <2>3, <2>4 DEF Extent, Span
  <2>6. Content(s) \in [1 .. file.segments[s].filesz -> Bytes]
    <3>1. ASSUME NEW j \in 1 .. file.segments[s].filesz
         PROVE  <<s, j - 1>> \in Bytes
      BY <2>1, <2>3 DEF Bytes
    <3>2. QED
      BY <3>1 DEF Content
  <2>7. Content(s) \in Seq(Bytes) /\ Len(Content(s)) = file.segments[s].filesz
    BY <2>3, <2>6
  <2>8. QED
    BY <2>1, <2>3, <2>4, <2>5, <2>7
<1>4. QED
  BY <1>1, <1>2, <1>3

LEMMA SectionFacts ==
  ASSUME TypeOK, LoadedInv, NEW k \in 1 .. Len(sections)
  PROVE  /\ \E s \in Segments : /\ sections[k][1] = file.segments[s].addr
                                /\ sections[k][2] = file.segments[s].memsz
         /\ sections[k][1] \in Nat /\ sections[k][2] \in Nat \ {0}
         /\ sections[k][1] .. sections[k][1] + sections[k][2] - 1 \subseteq Places
         /\ sections[k][1] \in DOMAIN mems /\ mems[sections[k][1]] \in Seq(Bytes)
         /\ \A j \in Nat : /\ ByteOf(k, j) \in Bytes
                           /\ Len(mems[sections[k][1]]) <= j => ByteOf(k, j) = Zero
<1>1. PICK s \in Segments : sections[k] = Entry(s)
  BY DEF LoadedInv, Passed
<1>2. sections[k][1] = file.segments[s].addr /\ sections[k][2] = file.segments[s].memsz
  BY <1>1 DEF Entry
<1>3. /\ sections[k][1] \in Nat /\ sections[k][2] \in Nat \ {0}
      /\ sections[k][1] .. sections[k][1] + sections[k][2] - 1 \subseteq Places
  BY <1>2, FileFacts DEF Extent, Span
<1>4. sections[k][1] \in DOMAIN mems /\ mems[sections[k][1]] \in Seq(Bytes)
  BY DEF LoadedInv, TypeOK
<1>5. ASSUME NEW j \in Nat
      PROVE  /\ ByteOf(k, j) \in Bytes
             /\ Len(mems[sections[k][1]]) <= j => ByteOf(k, j) = Zero
  <2>1. DOMAIN mems[sections[k][1]] = 1 .. Len(mems[sections[k][1]])
        /\ Len(mems[sections[k][1]]) \in Nat
    BY <1>4, LenProperties
  <2>2. CASE j + 1 \in DOMAIN mems[sections[k][1]]
    <3>1. mems[sections[k][1]][j + 1] \in Bytes
      BY <1>4, <2>1, <2>2, ElementOfSeq
    <3>2. QED
      BY <2>1, <2>2, <3>1 DEF ByteOf
  <2>3. CASE j + 1 \notin DOMAIN mems[sections[k][1]]
    BY <2>3 DEF ByteOf, Bytes
  <2>4. QED
    BY <2>2, <2>3
<1>6. QED
  BY <1>2, <1>3, <1>4, <1>5

\* The section that is being written.
LEMMA CurrentSection ==
  ASSUME TypeOK, LoadedInv, SectionInv, pc = "write"
  PROVE  /\ section_index \in 1 .. Len(sections) /\ i \in Nat
         /\ SecAddr \in Nat /\ SecLen \in Nat \ {0} /\ BusOffset \in 0 .. Word - 1
         /\ SecAddr .. SecAddr + SecLen - 1 \subseteq Places
         /\ \E s \in Segments : /\ SecAddr = file.segments[s].addr
                                /\ SecLen = file.segments[s].memsz
         /\ \A j : Bf(j) = ByteOf(section_index, j)
         /\ \A j \in Nat : Bf(j) \in Bytes /\ (SecLen <= j => Bf(j) = Zero)
<1>1. section_index \in 1 .. Len(sections) /\ i \in Nat /\ Len(mems[SecAddr]) <= SecLen
  BY DEF SectionInv, TypeOK
<1>2. SecAddr = sections[section_index][1] /\ SecLen = sections[section_index][2]
  BY DEF SecAddr, SecLen
<1>3. \A j : Bf(j) = ByteOf(section_index, j)
  BY DEF Bf, ByteOf, SecAddr
<1>4. /\ SecAddr \in Nat /\ SecLen \in Nat \ {0}
      /\ SecAddr .. SecAddr + SecLen - 1 \subseteq Places
      /\ \E s \in Segments : SecAddr = file.segments[s].addr /\ SecLen = file.segments[s].memsz
      /\ mems[SecAddr] \in Seq(Bytes)
      /\ \A j \in Nat : /\ ByteOf(section_index, j) \in Bytes
                        /\ Len(mems[SecAddr]) <= j => ByteOf(section_index, j) = Zero
  BY <1>1, <1>2, SectionFacts
<1>5. BusOffset \in 0 .. Word - 1
  BY <1>4, Lengths, Division DEF BusOffset
<1>6. ASSUME NEW j \in Nat
     PROVE  Bf(j) \in Bytes /\ (SecLen <= j => Bf(j) = Zero)
  <2>1. Len(mems[SecAddr]) \in Nat
    BY <1>4, LenProperties
  <2>2. QED
    BY <1>1, <1>3, <1>4, <2>1
<1>7. QED
  BY <1>1, <1>3, <1>4, <1>5, <1>6

Writing == JtagWord \/ UartBlock \/ SlinkBeats

\* Where the next write begins in the section.
First == IF method = "slink" THEN i - BusOffset ELSE i

\* Each of the three ways of writing covers step bytes of the section from First
\* on, and stays within a word and a byte behind it.
LEMMA WritingStep ==
  ASSUME TypeOK, LoadedInv, SectionInv, Writing
  PROVE  /\ pc = "write" /\ UNCHANGED <<file, method, loader, section_index>>
         /\ \E range, step :
              /\ WriteBytes(range) /\ Advance(step)
              /\ step \in Nat \ {0} /\ (method = "slink" => step = SlinkBurst)
              /\ \A j \in range : j \in 0 .. SecLen + Word - 1
              /\ \A j \in 0 .. SecLen - 1 : First <= j /\ j < First + step => j \in range
<1>1. pc = "write" /\ UNCHANGED <<file, method, loader, section_index>>
  BY DEF Writing, JtagWord, UartBlock, SlinkBeats, Advance
<1>2. i \in Nat /\ SecLen \in Nat \ {0} /\ BusOffset \in 0 .. Word - 1
  BY <1>1, CurrentSection
<1>3. Word \in Nat \ {0} /\ UartBurst \in Nat \ {0} /\ SlinkBurst \in Nat \ {0}
  BY Lengths
<1>4. i <= SecLen
  BY <1>1 DEF SectionInv
<1>5. CASE JtagWord
  <2>1. method = "jtag" /\ WriteBytes(i .. i + Word - 1) /\ Advance(Word)
    BY <1>5 DEF JtagWord
  <2>2. \A j \in i .. i + Word - 1 : j \in 0 .. SecLen + Word - 1
    BY <1>2, <1>3, <1>4
  <2>3. \A j \in 0 .. SecLen - 1 : First <= j /\ j < First + Word => j \in i .. i + Word - 1
    BY <1>2, <1>3, <2>1 DEF First
  <2>4. QED
    BY <1>1, <1>3, <2>1, <2>2, <2>3
<1>6. CASE UartBlock
  <2> DEFINE range == {j \in i .. i + UartBurst - 1 : j < SecLen}
  <2>1. method = "uart" /\ WriteBytes(range) /\ Advance(UartBurst)
    BY <1>6 DEF UartBlock
  <2>2. \A j \in range : j \in 0 .. SecLen + Word - 1
    BY <1>2, <1>3
  <2>3. \A j \in 0 .. SecLen - 1 : First <= j /\ j < First + UartBurst => j \in range
    BY <1>2, <1>3, <2>1 DEF First
  <2> HIDE DEF range
  <2>4. QED
    BY <1>1, <1>3, <2>1, <2>2, <2>3
<1>7. CASE SlinkBeats
  <2> DEFINE range ==
        {j \in UNION {i + b - BusOffset .. i + b - BusOffset + Word - 1 : b \in Beats} : j >= 0}
  <2>1. method = "slink" /\ WriteBytes(range) /\ Advance(SlinkBurst)
    BY <1>7 DEF SlinkBeats
  <2>2. \A j \in range : j \in 0 .. SecLen + Word - 1
    <3>1. ASSUME NEW j \in range PROVE j \in 0 .. SecLen + Word - 1
      <4>1. PICK b \in Beats : j \in i + b - BusOffset .. i + b - BusOffset + Word - 1
        OBVIOUS
      <4>2. b \in Nat /\ i + b - BusOffset < SecLen
        BY <1>3 DEF Beats
      <4>3. j \in Int /\ j <= i + b - BusOffset + Word - 1 /\ j >= 0
        BY <1>2, <1>3, <4>1, <4>2
      <4>4. QED
        BY <1>2, <1>3, <4>2, <4>3
    <3>2. QED
      BY <3>1
  <2>3. ASSUME NEW j \in 0 .. SecLen - 1, First <= j, j < First + SlinkBurst
        PROVE  j \in range
    <3>1. First = i - BusOffset
      BY <2>1 DEF First
    <3>2. j - (i - BusOffset) \in Nat /\ j - (i - BusOffset) < SlinkBurst
      BY <1>2, <1>3, <2>3, <3>1
    <3>3. PICK b \in 0 .. j - (i - BusOffset) : b % Word = 0 /\ j - (i - BusOffset) < b + Word
      BY <1>3, <3>2, Aligned
    <3>4. b \in Beats
      <4>1. b \in 0 .. SlinkBurst - 1
        BY <1>2, <1>3, <3>2, <3>3
      <4>2. i + b - BusOffset < SecLen
        BY <1>2, <3>2, <3>3
      <4>3. QED
        BY <3>3, <4>1, <4>2 DEF Beats
    <3>5. j \in i + b - BusOffset .. i + b - BusOffset + Word - 1
      BY <1>2, <1>3, <3>2, <3>3
    <3>6. j >= 0
      BY <1>2
    <3>7. QED
      BY <3>4, <3>5, <3>6
  <2> HIDE DEF range
  <2>4. QED
    BY <1>1, <1>3, <2>1, <2>2, <2>3
<1>8. QED
  BY <1>5, <1>6, <1>7 DEF Writing
-----------------------------------------------------------------------------
(***************************************************************************)
(* The loader and the tasks keep the first invariant, for files in any     *)
(* order.                                                                  *)
(***************************************************************************)
LEMMA WritesInPlace ==
  ASSUME PreloadInv, Writing
  PROVE  PreloadInv'
<1>0. TypeOK /\ LoadedInv /\ SectionInv /\ OnlyPadding
  BY DEF PreloadInv
<1>1. pc = "write" /\ UNCHANGED <<file, method, entry, sections, mems, section_index>>
  BY <1>0, WritingStep DEF loader
<1>2. PICK range, step :
        /\ WriteBytes(range) /\ Advance(step)
        /\ step \in Nat \ {0} /\ (method = "slink" => step = SlinkBurst)
        /\ \A j \in range : j \in 0 .. SecLen + Word - 1
  BY <1>0, WritingStep
<1>3. /\ SecAddr \in Nat /\ SecLen \in Nat \ {0} /\ Word \in Nat \ {0} /\ i \in Nat
      /\ \A j \in Nat : Bf(j) \in Bytes /\ (SecLen <= j => Bf(j) = Zero)
      /\ Places \subseteq Nat
  BY <1>0, <1>1, CurrentSection, Lengths
<1>4. PICK s \in Segments : SecAddr = file.segments[s].addr /\ SecLen = file.segments[s].memsz
  BY <1>0, <1>1, CurrentSection
<1>5. mem' = [a \in Places |-> IF a - SecAddr \in range THEN Bf(a - SecAddr) ELSE mem[a]]
  BY <1>2 DEF WriteBytes
<1>6. /\ i' = i + step /\ pc' \in {"write", "section"}
      /\ pc' = "write" => i' <= SecLen
  BY <1>2 DEF Advance
<1>7. TypeOK'
  <2>1. mem' \in [Places -> Bytes \cup {Old}]
    <3>1. ASSUME NEW a \in Places
          PROVE  (IF a - SecAddr \in range THEN Bf(a - SecAddr) ELSE mem[a]) \in Bytes \cup {Old}
      <4>1. a - SecAddr \in range => a - SecAddr \in Nat
        BY <1>2, <1>3
      <4>2. mem[a] \in Bytes \cup {Old}
        BY <1>0 DEF TypeOK
      <4>3. QED
        BY <1>3, <4>1, <4>2
    <3>2. QED
      BY <1>5, <3>1
  <2>2. i' \in Nat
    BY <1>2, <1>3, <1>6
  <2>3. QED
    BY <1>0, <1>1, <1>6, <2>1, <2>2 DEF TypeOK, Bytes, Headers
<1>8. LoadedInv'
  <2>1. Segments' = Segments /\ pc # "segments" /\ pc' # "segments"
    BY <1>1, <1>6 DEF Segments, Headers, Loaded
  <2>2. Passed' = Passed
    BY <2>1 DEF Passed
  <2>3. \A t : Entry(t)' = Entry(t) /\ Content(t)' = Content(t)
    BY <1>1 DEF Entry, Content
  <2>4. QED
    BY <1>0, <1>1, <1>6, <2>1, <2>2, <2>3 DEF LoadedInv
<1>9. SectionInv'
  <2>1. ASSUME method = "slink" PROVE \E n \in 0 .. i' : i' = SlinkBurst * n
    <3>1. PICK n \in 0 .. i : i = SlinkBurst * n
      BY <1>0, <1>1, <2>1 DEF SectionInv
    <3>2. SlinkBurst \in Nat \ {0} /\ step = SlinkBurst
      BY <1>2, <2>1, Lengths
    <3>3. n + 1 \in 0 .. i' /\ i' = SlinkBurst * (n + 1)
      BY <1>3, <1>6, <3>1, <3>2
    <3>4. QED
      BY <3>3
  <2>2. section_index \in 1 .. Len(sections) /\ Len(mems[SecAddr]) <= SecLen
    BY <1>0, <1>1 DEF SectionInv
  <2>3. SecAddr' = SecAddr /\ SecLen' = SecLen
    BY <1>1 DEF SecAddr, SecLen
  <2>4. QED
    BY <1>1, <1>6, <2>1, <2>2, <2>3 DEF SectionInv
<1>10. OnlyPadding'
  <2>1. ASSUME NEW a \in Places, mem'[a] # Old
        PROVE  \E t \in Segments :
                 \/ a \in Extent(t)
                 \/ /\ mem'[a] = Zero
                    /\ a - file.segments[t].addr - file.segments[t].memsz \in 0 .. Word - 1
    <3>1. CASE a - SecAddr \in range
      <4>1. a - SecAddr \in 0 .. SecLen + Word - 1 /\ mem'[a] = Bf(a - SecAddr) /\ a \in Nat
        BY <1>2, <1>3, <1>5, <3>1
      <4>2. CASE a - SecAddr < SecLen
        <5>1. a \in Extent(s)
          BY <1>3, <1>4, <4>1, <4>2 DEF Extent, Span
        <5>2. QED
          BY <5>1
      <4>3. CASE SecLen <= a - SecAddr
        <5>1. mem'[a] = Zero
          BY <1>3, <4>1, <4>3
        <5>2. a - SecAddr - SecLen \in 0 .. Word - 1
          BY <1>3, <4>1, <4>3
        <5>3. QED
          BY <1>4, <5>1, <5>2
      <4>4. QED
        BY <1>3, <4>1, <4>2, <4>3
    <3>2. CASE a - SecAddr \notin range
      <4>1. mem'[a] = mem[a]
        BY <1>5, <3>2
      <4>2. QED
        BY <1>0, <2>1, <4>1 DEF OnlyPadding
    <3>3. QED
      BY <3>1, <3>2
  <2>2. QED
    BY <1>1, <2>1 DEF OnlyPadding, Segments, Headers, Loaded, Extent
<1>11. QED
  BY <1>7, <1>8, <1>9, <1>10 DEF PreloadInv

LEMMA InitPreload ==
  ASSUME Init
  PROVE  PreloadInv
<1>1. TypeOK
  <2>1. <<>> \in Seq(Places \X Nat) /\ Len(<<>>) = 0 /\ DOMAIN <<>> = {}
    BY EmptySeq
  <2>2. mem \in [Places -> Bytes \cup {Old}]
    BY DEF Init
  <2>3. QED
    BY <2>1, <2>2 DEF Init, TypeOK
<1>2. LoadedInv
  BY EmptySeq DEF Init, LoadedInv
<1>3. SectionInv /\ OnlyPadding
  BY DEF Init, SectionInv, OnlyPadding
<1>4. QED
  BY <1>1, <1>2, <1>3 DEF PreloadInv

\* A step that writes nothing and keeps the sections.
LEMMA Quiet ==
  ASSUME PreloadInv, UNCHANGED <<file, method, entry, sections, mems, mem>>,
         i' \in Nat, section_index' \in 0 .. Len(sections),
         pc' \in {"section", "write", "done", "fatal"}
  PROVE  TypeOK' /\ OnlyPadding'
BY DEF PreloadInv, TypeOK, OnlyPadding, Bytes, Headers, Segments,
     Loaded, Extent

LEMMA ReadsFile ==
  ASSUME PreloadInv, ReadElf
  PROVE  PreloadInv'
<1>0. TypeOK /\ LoadedInv /\ SectionInv /\ OnlyPadding
  BY DEF PreloadInv
<1>1. /\ pc = "open" /\ i' = 1
      /\ UNCHANGED <<file, method, sections, mems, section_index, mem>>
      /\ entry' = IF pc' = "segments" THEN file.entry ELSE 0
  BY DEF ReadElf
<1>2. sections = <<>> /\ mems = <<>> /\ section_index = 0
  BY <1>0, <1>1 DEF LoadedInv
<1>3. /\ pc' = "fatal" \/ (pc' = "section" /\ file.fault = "headers")
                       \/ (pc' = "segments" /\ file.fault # "headers")
      /\ pc' # "fatal" => file.fault \notin Refused
  BY DEF ReadElf, Refused
<1>4. TypeOK'
  BY <1>0, <1>1, <1>3 DEF TypeOK, Bytes, Headers
<1>5. LoadedInv'
  <2>1. pc' = "segments" => Passed' = {}
    <3>1. \A s \in Segments : s \in Nat \ {0}
      BY <1>0, FileFacts
    <3>2. QED
      BY <1>1, <3>1 DEF Passed, Segments, Headers, Loaded
  <2>2. Len(sections) = 0 /\ DOMAIN mems = {}
    BY <1>2
  <2>3. QED
    BY <1>1, <1>2, <1>3, <2>1, <2>2 DEF LoadedInv
<1>6. SectionInv'
  BY <1>3 DEF SectionInv
<1>7. OnlyPadding'
  BY <1>0, <1>1 DEF OnlyPadding, Segments, Headers, Loaded, Extent
<1>8. QED
  BY <1>4, <1>5, <1>6, <1>7 DEF PreloadInv

LEMMA ReadsHeader ==
  ASSUME PreloadInv, LoadSegment
  PROVE  PreloadInv'
<1>0. TypeOK /\ LoadedInv /\ SectionInv /\ OnlyPadding
  BY DEF PreloadInv
<1>1. /\ pc = "segments" /\ i \in Headers /\ i' = i + 1
      /\ UNCHANGED <<file, method, entry, section_index, mem>>
      /\ section_index = 0 /\ i \in Nat \ {0}
  BY <1>0 DEF LoadSegment, LoadedInv
<1>2. Segments' = Segments /\ Headers' = Headers
  BY <1>1 DEF Segments, Headers, Loaded
<1>3. OnlyPadding'
  BY <1>0, <1>1, <1>2 DEF OnlyPadding, Extent
<1>4. CASE ~Loaded(i)
  <2>1. UNCHANGED <<pc, sections, mems>>
    BY <1>4 DEF LoadSegment
  <2>2. TypeOK' /\ SectionInv'
    BY <1>0, <1>1, <1>2, <2>1 DEF TypeOK, SectionInv, Bytes
  <2>3. Passed' = Passed
    <3>1. i \notin Segments /\ \A s \in Segments : s \in Nat
      BY <1>0, <1>4, FileFacts DEF Segments
    <3>2. \A s \in Segments : s < i + 1 <=> s < i
      BY <1>1, <3>1
    <3>3. QED
      BY <1>1, <1>2, <2>1, <3>2 DEF Passed
  <2>4. LoadedInv'
    BY <1>0, <1>1, <1>2, <2>1, <2>3 DEF LoadedInv, Entry, Content
  <2>5. QED
    BY <1>3, <2>2, <2>4 DEF PreloadInv
<1>5. CASE Loaded(i) /\ file.segments[i].beyond
  <2>1. pc' = "fatal" /\ UNCHANGED <<sections, mems>>
    BY <1>5 DEF LoadSegment
  <2>2. TypeOK' /\ SectionInv'
    BY <1>0, <1>1, <1>2, <2>1 DEF TypeOK, SectionInv, Bytes
  <2>3. Passed \subseteq Passed'
    BY <1>2, <2>1 DEF Passed
  <2>4. LoadedInv'
    BY <1>0, <1>1, <1>2, <2>1, <2>3 DEF LoadedInv, Entry, Content
  <2>5. QED
    BY <1>3, <2>2, <2>4 DEF PreloadInv
<1>6. CASE Loaded(i) /\ ~file.segments[i].beyond
  <2>1. /\ pc' = pc /\ sections' = Append(sections, Entry(i))
        /\ mems' = Inserted(file.segments[i].addr, Content(i))
    BY <1>6 DEF LoadSegment, Entry
  <2>2. i \in Segments
    BY <1>1, <1>6 DEF Segments
  <2>3. /\ file.segments[i].addr \in Places /\ file.segments[i].memsz \in Nat
        /\ Content(i) \in Seq(Bytes)
    BY <1>0, <2>2, FileFacts
  <2>4. /\ DOMAIN mems' = DOMAIN mems \cup {file.segments[i].addr}
        /\ \A a \in DOMAIN mems' : mems'[a] = IF a \in DOMAIN mems THEN mems[a] ELSE Content(i)
    BY <2>1 DEF Inserted
  <2>5. /\ sections \in Seq(Places \X Nat) /\ Entry(i) \in Places \X Nat
        /\ sections' \in Seq(Places \X Nat) /\ Len(sections) \in Nat
        /\ Len(sections') = Len(sections) + 1
        /\ \A k \in 1 .. Len(sections) : sections'[k] = sections[k]
        /\ sections'[Len(sections) + 1] = Entry(i)
    <3>1. sections \in Seq(Places \X Nat) /\ Entry(i) \in Places \X Nat
      BY <1>0, <2>3 DEF TypeOK, Entry
    <3>2. QED
      BY <2>1, <3>1, AppendProperties, LenProperties
  <2>6. TypeOK'
    <3>1. DOMAIN mems' \subseteq Places /\ \A a \in DOMAIN mems' : mems'[a] \in Seq(Bytes)
      BY <1>0, <2>3, <2>4 DEF TypeOK
    <3>2. Bytes' = Bytes
      BY <1>2 DEF Bytes
    <3>3. i' \in Nat /\ 0 \in 0 .. Len(sections')
      BY <1>1, <2>5
    <3>4. QED
      BY <1>0, <1>1, <2>1, <2>5, <3>1, <3>2, <3>3 DEF TypeOK
  <2>7. Passed' = Passed \cup {i}
    <3>1. \A s \in Segments : s \in Nat
      BY <1>0, FileFacts
    <3>2. \A s \in Segments : s < i + 1 <=> s < i \/ s = i
      BY <1>1, <3>1
    <3>3. QED
      BY <1>1, <1>2, <2>1, <2>2, <3>2 DEF Passed
  <2>8. ASSUME NEW k \in 1 .. Len(sections')
        PROVE  (\E s \in Passed' : sections'[k] = Entry(s)) /\ sections'[k][1] \in DOMAIN mems'
    <3>1. CASE k \in 1 .. Len(sections)
      <4>1. (\E s \in Passed : sections[k] = Entry(s)) /\ sections[k][1] \in DOMAIN mems
        BY <1>0, <3>1 DEF LoadedInv
      <4>2. QED
        BY <2>4, <2>5, <2>7, <3>1, <4>1
    <3>2. CASE k = Len(sections) + 1
      <4>1. sections'[k] = Entry(i) /\ Entry(i)[1] = file.segments[i].addr
        BY <2>5, <3>2 DEF Entry
      <4>2. QED
        BY <2>4, <2>7, <4>1
    <3>3. k \in 1 .. Len(sections) \/ k = Len(sections) + 1
      BY <2>5
    <3>4. QED
      BY <3>1, <3>2, <3>3
  <2>9. ASSUME NEW a \in DOMAIN mems'
        PROVE  \E s \in Segments : a = file.segments[s].addr /\ mems'[a] = Content(s)
    BY <1>0, <2>2, <2>4 DEF LoadedInv
  <2>10. ASSUME file.fault # "headers", NEW s \in Passed'
         PROVE  ~file.segments[s].beyond /\ \E k \in 1 .. Len(sections') : sections'[k] = Entry(s)
    <3>1. CASE s \in Passed
      <4>1. PICK k \in 1 .. Len(sections) : sections[k] = Entry(s)
        BY <1>0, <1>1, <2>10, <3>1 DEF LoadedInv
      <4>2. ~file.segments[s].beyond
        BY <1>0, <1>1, <2>10, <3>1 DEF LoadedInv
      <4>3. k \in 1 .. Len(sections') /\ sections'[k] = Entry(s)
        BY <2>5, <4>1
      <4>4. QED
        BY <4>2, <4>3
    <3>2. CASE s = i
      <4>1. Len(sections) + 1 \in 1 .. Len(sections')
        BY <2>5
      <4>2. QED
        BY <1>6, <2>5, <3>2, <4>1
    <3>3. QED
      BY <2>7, <3>1, <3>2
  <2>11. LoadedInv'
    <3>1. /\ pc' = "segments" /\ i' \in Nat \ {0} /\ section_index' = 0
          /\ file'.fault \notin Refused /\ (file'.fault # "headers" => entry' = file'.entry)
          /\ file'.fault # "headers"
      BY <1>0, <1>1, <2>1 DEF LoadedInv
    <3>2. \A s : Entry(s)' = Entry(s) /\ Content(s)' = Content(s)
      BY <1>1 DEF Entry, Content
    <3>3. \A k \in 1 .. Len(sections') :
            (\E s \in Passed' : sections'[k] = Entry(s)') /\ sections'[k][1] \in DOMAIN mems'
      BY <2>8, <3>2
    <3>4. \A a \in DOMAIN mems' :
            \E s \in Segments' : a = file'.segments[s].addr /\ mems'[a] = Content(s)'
      BY <1>1, <1>2, <2>9, <3>2
    <3>5. \A s \in Passed' : /\ ~file'.segments[s].beyond
                            /\ \E k \in 1 .. Len(sections') : sections'[k] = Entry(s)'
      BY <1>1, <2>10, <3>1, <3>2
    <3>6. QED
      BY <3>1, <3>3, <3>4, <3>5 DEF LoadedInv
  <2>12. SectionInv'
    BY <1>1, <2>1 DEF SectionInv
  <2>13. QED
    BY <1>3, <2>6, <2>11, <2>12 DEF PreloadInv
<1>7. QED
  BY <1>4, <1>5, <1>6

\* Behind the last program header, from section to section, and at the end.
LEMMA GoesOn ==
  ASSUME PreloadInv, LoadEnds \/ GetSection \/ Finish \/ SlinkFatal
  PROVE  PreloadInv'
<1>0. TypeOK /\ LoadedInv /\ SectionInv /\ OnlyPadding
  BY DEF PreloadInv
<1>1. /\ UNCHANGED <<file, method, entry, sections, mems, mem>>
      /\ pc' \in {"section", "write", "done", "fatal"} /\ pc # "open"
      /\ pc = "segments" => pc' = "section" /\ i \notin Headers
      /\ pc = "fatal" => pc' = "fatal"
      /\ pc' = "done" => section_index' = Len(sections)
  BY DEF LoadEnds, GetSection, Finish, SlinkFatal, loader
<1>2. Segments' = Segments
  BY <1>1 DEF Segments, Headers, Loaded
<1>3. Passed' = Passed
  <2>1. CASE pc = "segments"
    <3>1. \A s \in Segments : s < i
      BY <1>0, <1>1, <2>1, FileFacts DEF LoadedInv
    <3>2. QED
      BY <1>1, <1>2, <2>1, <3>1 DEF Passed
  <2>2. CASE pc # "segments"
    BY <1>1, <1>2, <2>2 DEF Passed
  <2>3. QED
    BY <2>1, <2>2
<1>4. LoadedInv'
  BY <1>0, <1>1, <1>2, <1>3 DEF LoadedInv, Entry, Content
<1>5. /\ section_index' \in 0 .. Len(sections) /\ i' \in Nat
      /\ pc' = "write" => /\ section_index' \in 1 .. Len(sections) /\ i' = 0
                          /\ Len(mems[SecAddr']) <= SecLen'
  <2>1. Len(sections) \in Nat /\ section_index \in 0 .. Len(sections) /\ i \in Nat
    BY <1>0, LenProperties DEF TypeOK
  <2>2. CASE GetSection
    <3>1. /\ section_index' = section_index + 1 /\ section_index < Len(sections) /\ i' = 0
          /\ pc' = "write" =>
               Len(mems[sections[section_index'][1]]) <= sections[section_index'][2]
      BY <2>2 DEF GetSection
    <3>2. section_index' \in 1 .. Len(sections)
      BY <2>1, <3>1
    <3>3. QED
      BY <1>1, <2>1, <3>1, <3>2 DEF SecAddr, SecLen
  <2>3. CASE LoadEnds \/ Finish \/ SlinkFatal
    BY <2>1, <2>3 DEF LoadEnds, Finish, SlinkFatal
  <2>4. QED
    BY <2>2, <2>3
<1>6. TypeOK' /\ OnlyPadding'
  BY <1>1, <1>5, Quiet
<1>7. SectionInv'
  <2>1. ASSUME pc' = "write"
       PROVE  i' <= SecLen' /\ \E n \in 0 .. i' : i' = SlinkBurst * n
    <3>1. SecLen' \in Nat
      <4>1. sections[section_index'] \in Places \X Nat
        BY <1>0, <1>5, <2>1, ElementOfSeq DEF TypeOK
      <4>2. QED
        BY <1>1, <4>1 DEF SecLen
    <3>2. SlinkBurst * 0 = 0
      BY Lengths
    <3>3. QED
      BY <1>5, <2>1, <3>1, <3>2
  <2>2. QED
    BY <1>1, <1>5, <2>1 DEF SectionInv
<1>8. QED
  BY <1>4, <1>6, <1>7 DEF PreloadInv

LEMMA StepPreload ==
  ASSUME PreloadInv, [Next]_vars
  PROVE  PreloadInv'
<1>1. CASE UNCHANGED vars
  <2>1. UNCHANGED <<file, method, pc, entry, sections, mems, section_index, i, mem>>
    BY <1>1 DEF vars
  <2>2. Segments' = Segments
    BY <2>1 DEF Segments, Headers, Loaded
  <2>3. TypeOK'
    BY <2>1 DEF PreloadInv, TypeOK, Bytes, Headers
  <2>4. LoadedInv'
    BY <2>1, <2>2 DEF PreloadInv, LoadedInv, Passed, Entry, Content
  <2>5. SectionInv' /\ OnlyPadding'
    BY <2>1, <2>2 DEF PreloadInv, SectionInv, SecAddr, SecLen,
         OnlyPadding, Extent
  <2>6. QED
    BY <2>3, <2>4, <2>5 DEF PreloadInv
<1>2. QED
  BY <1>1, ReadsFile, ReadsHeader, GoesOn, WritesInPlace DEF Next, Writing

\* The loader's sections are those of the file, and the tasks stay within them but
\* for the padding of the last write.
THEOREM PreloadCorrect == Spec => []PreloadInv
<1>1. Init => PreloadInv
  BY InitPreload
<1>2. PreloadInv /\ [Next]_vars => PreloadInv'
  BY StepPreload
<1>3. QED
  BY <1>1, <1>2, PTL DEF Spec

\* The loader's lists, the tasks' index into them and memory have their types, for
\* every file.
THEOREM TypeCorrect == Spec => []TypeOK
<1>1. PreloadInv => TypeOK
  BY DEF PreloadInv
<1>2. QED
  BY <1>1, PreloadCorrect, PTL

\* The loops of the three tasks run while i <= sec_len and so write behind a
\* section: never anything but zeros, and less than a word and a byte of them.
THEOREM PaddingOnly == Spec => []OnlyPadding
<1>1. PreloadInv => OnlyPadding
  BY DEF PreloadInv
<1>2. QED
  BY <1>1, PreloadCorrect, PTL
-----------------------------------------------------------------------------
(***************************************************************************)
(* What is written stays: the second invariant, for files in order.        *)
(***************************************************************************)
LEMMA SegmentsInOrder ==
  ASSUME InOrder, TypeOK, NEW s \in Segments, NEW t \in Segments
  PROVE  /\ s < t => file.segments[s].addr + file.segments[s].memsz <= file.segments[t].addr
         /\ file.segments[s].addr = file.segments[t].addr => s = t
<1>1. \A u, v \in Segments :
        u < v => file.segments[u].addr + file.segments[u].memsz <= file.segments[v].addr
  BY FileFacts DEF InOrder, TypeOK, Headers
<1>2. \A u \in Segments : /\ u \in Nat /\ file.segments[u].addr \in Nat
                          /\ file.segments[u].memsz \in Nat \ {0}
  BY FileFacts
<1>3. ASSUME file.segments[s].addr = file.segments[t].addr, s # t PROVE FALSE
  <2>1. s < t \/ t < s
    BY <1>2, <1>3
  <2>2. QED
    BY <1>1, <1>2, <1>3, <2>1
<1>4. QED
  BY <1>1, <1>3

\* The task writes the section's own bytes, and none of the sections before it.
LEMMA WritesStay ==
  ASSUME PreloadInv, ImageInv, Writing
  PROVE  ImageInv'
<1>0. TypeOK /\ LoadedInv /\ SectionInv
  BY DEF PreloadInv
<1>1. pc = "write" /\ UNCHANGED <<file, method, entry, sections, mems, section_index>>
  BY <1>0, WritingStep DEF loader
<1>2. PICK range, step :
        /\ WriteBytes(range) /\ Advance(step)
        /\ step \in Nat \ {0} /\ (method = "slink" => step = SlinkBurst)
        /\ \A j \in range : j \in 0 .. SecLen + Word - 1
        /\ \A j \in 0 .. SecLen - 1 : First <= j /\ j < First + step => j \in range
  BY <1>0, WritingStep
<1>3. /\ section_index \in 1 .. Len(sections) /\ i \in Nat
      /\ SecAddr \in Nat /\ SecLen \in Nat \ {0} /\ BusOffset \in 0 .. Word - 1
      /\ SecAddr .. SecAddr + SecLen - 1 \subseteq Places
      /\ \A j : Bf(j) = ByteOf(section_index, j)
      /\ Word \in Nat \ {0} /\ Places \subseteq Nat
  BY <1>0, <1>1, CurrentSection, Lengths
<1>4. /\ SecAddr = sections[section_index][1] /\ SecLen = sections[section_index][2]
      /\ Len(sections) \in Nat /\ section_index \in Nat
  BY <1>0, <1>3, LenProperties DEF SecAddr, SecLen, TypeOK
<1>5. \A a \in Places : mem'[a] = IF a - SecAddr \in range THEN Bf(a - SecAddr) ELSE mem[a]
  BY <1>2 DEF WriteBytes
<1>6. /\ i' = i + step /\ pc' = IF i + step <= SecLen THEN "write" ELSE "section"
  BY <1>2 DEF Advance
<1>7. OrderInv /\ PutInv
  BY <1>1 DEF ImageInv
<1>8. /\ OrderInv' /\ BusOffset' = BusOffset /\ \A k : WholeReached(k)' <=> WholeReached(k)
      /\ \A k, j : ByteOf(k, j)' = ByteOf(k, j)
  BY <1>1, <1>7 DEF OrderInv, BusOffset, SecAddr, WholeReached, ByteOf
<1>9. ASSUME NEW k \in 1 .. section_index, k < section_index, WholeReached(k)
      PROVE  Put(k, sections[k][2])'
  <2>1. Put(k, sections[k][2]) /\ k \in 1 .. Len(sections)
    BY <1>3, <1>4, <1>7, <1>9 DEF PutInv
  <2>2. /\ sections[k][1] \in Nat /\ sections[k][2] \in Nat
        /\ sections[k][1] .. sections[k][1] + sections[k][2] - 1 \subseteq Places
    BY <1>0, <2>1, SectionFacts
  <2>3. sections[k][1] + sections[k][2] <= SecAddr
    BY <1>3, <1>4, <1>7, <1>9, <2>1 DEF OrderInv
  <2>4. ASSUME NEW j \in 0 .. sections[k][2] - 1
        PROVE  mem'[sections[k][1] + j] = ByteOf(k, j)
    <3>1. sections[k][1] + j \in Places /\ sections[k][1] + j < SecAddr
      BY SMTT(30), <1>3, <2>2, <2>3
    <3>2. (sections[k][1] + j) - SecAddr \notin range
      BY <1>2, <1>3, <2>2, <3>1
    <3>3. mem'[sections[k][1] + j] = mem[sections[k][1] + j]
      BY <1>5, <3>1, <3>2
    <3>4. j < sections[k][2]
      BY <2>2
    <3>5. QED
      BY <2>1, <3>3, <3>4 DEF Put
  <2>5. QED
    BY <1>1, <1>8, <2>4 DEF Put
<1>10. First \in Int
  BY <1>3 DEF First
<1>11. ASSUME NEW j \in 0 .. SecLen - 1, j < First + step
       PROVE  mem'[SecAddr + j] = ByteOf(section_index, j)
  <2>1. SecAddr + j \in Places /\ (SecAddr + j) - SecAddr = j
    BY <1>3
  <2>2. mem'[SecAddr + j] = IF j \in range THEN Bf(j) ELSE mem[SecAddr + j]
    BY <1>5, <2>1
  <2>3. CASE j \in range
    BY <1>3, <2>2, <2>3
  <2>4. CASE j \notin range
    <3>1. j < First
      BY <1>2, <1>3, <1>10, <1>11, <2>4
    <3>2. Put(section_index, First)
      BY <1>1, <1>7 DEF PutInv, First
    <3>3. mem[SecAddr + j] = ByteOf(section_index, j)
      BY <1>4, <3>1, <3>2 DEF Put
    <3>4. QED
      BY <2>2, <2>4, <3>3
  <2>5. QED
    BY <2>3, <2>4
<1>12. CASE i + step <= SecLen
  <2>1. pc' = "write"
    BY <1>6, <1>12
  <2>2. (IF method = "slink" THEN i - BusOffset ELSE i)' = First + step
    BY <1>1, <1>2, <1>3, <1>6, <1>8 DEF First
  <2>3. \A j \in 0 .. sections'[section_index'][2] - 1 : j < First + step =>
          mem'[sections'[section_index'][1] + j] = ByteOf(section_index, j)'
    BY <1>1, <1>4, <1>8, <1>11
  <2>4. Put(section_index, IF method = "slink" THEN i - BusOffset ELSE i)'
    BY <2>2, <2>3 DEF Put
  <2>5. PutInv'
    BY <1>1, <1>8, <1>9, <2>1, <2>4 DEF PutInv
  <2>6. QED
    BY <1>8, <2>5 DEF ImageInv
<1>13. CASE ~(i + step <= SecLen)
  <2>1. pc' = "section"
    BY <1>6, <1>13
  <2>2. ASSUME WholeReached(section_index) PROVE SecLen <= First + step
    <3>1. CASE method # "slink"
      BY <1>2, <1>3, <1>13, <3>1 DEF First
    <3>2. CASE method = "slink"
      <4>1. PICK n \in 0 .. i : i = SlinkBurst * n
        BY <1>0, <1>1, <3>2 DEF SectionInv
      <4>2. step = SlinkBurst /\ SlinkBurst \in Nat \ {0} /\ n \in Nat
        BY <1>2, <1>3, <3>2, Lengths
      <4>3. i <= SecLen
        BY <1>0, <1>1 DEF SectionInv
      <4>4. SecLen < SlinkBurst * n + SlinkBurst
        BY <1>3, <1>13, <4>1, <4>2
      <4>5. SecLen % SlinkBurst = SecLen - i
        BY <1>3, <4>1, <4>2, <4>3, <4>4, LastBurst
      <4>6. BusOffset + (SecLen % SlinkBurst) <= SlinkBurst
        BY <1>4, <2>2, <3>2 DEF WholeReached, BusOffset
      <4>7. QED
        BY <1>3, <3>2, <4>2, <4>5, <4>6 DEF First
    <3>3. QED
      BY <3>1, <3>2
  <2>3. ASSUME WholeReached(section_index)
       PROVE  Put(section_index, sections[section_index][2])'
    <3>1. ASSUME NEW j \in 0 .. SecLen - 1
         PROVE  mem'[SecAddr + j] = ByteOf(section_index, j)'
      <4>1. j < First + step
        BY <1>2, <1>3, <1>10, <2>2, <2>3
      <4>2. QED
        BY <1>1, <1>8, <1>11, <4>1
    <3>2. \A j \in 0 .. sections'[section_index'][2] - 1 :
            mem'[sections'[section_index'][1] + j] = ByteOf(section_index, j)'
      BY <1>1, <1>4, <3>1
    <3>3. QED
      BY <3>2 DEF Put
  <2>4. ASSUME NEW k \in 1 .. section_index', WholeReached(k)'
       PROVE  Put(k, sections[k][2])'
    <3>1. CASE k = section_index
      <4>1. Put(section_index, sections[section_index][2])'
        BY <1>8, <2>3, <2>4, <3>1
      <4>2. QED
        BY <1>1, <3>1, <4>1 DEF Put, ByteOf
    <3>2. CASE k < section_index
      BY <1>1, <1>8, <1>9, <2>4, <3>2
    <3>3. QED
      BY <1>1, <1>4, <2>4, <3>1, <3>2
  <2>5. PutInv'
    BY <2>1, <2>4 DEF PutInv
  <2>6. QED
    BY <1>8, <2>5 DEF ImageInv
<1>14. QED
  BY <1>12, <1>13

\* The loader puts a section behind those it has.
LEMMA LoadsInOrder ==
  ASSUME InOrder, PreloadInv, ImageInv, ReadElf \/ LoadSegment \/ LoadEnds
  PROVE  ImageInv'
<1>0. TypeOK /\ LoadedInv /\ SectionInv
  BY DEF PreloadInv
<1>1. /\ section_index' = 0 /\ pc' # "write" /\ UNCHANGED file
  BY <1>0 DEF LoadedInv, ReadElf, LoadSegment, LoadEnds
<1>2. PutInv'
  BY <1>1 DEF PutInv
<1>3. OrderInv'
  <2>1. CASE sections' = sections
    BY <2>1 DEF ImageInv, OrderInv
  <2>2. CASE sections' # sections
    <3>1. /\ pc = "segments" /\ Loaded(i) /\ i \in Headers /\ i \in Nat
          /\ sections' = Append(sections, Entry(i))
      BY <1>0, <2>2 DEF ReadElf, LoadSegment, LoadEnds, loader,
           LoadedInv, Entry
    <3>2. i \in Segments
      BY <3>1 DEF Segments
    <3>3. /\ sections \in Seq(Places \X Nat) /\ Entry(i) \in Places \X Nat
          /\ file.segments[i].addr \in Nat /\ file.segments[i].memsz \in Nat
      BY <1>0, <3>2, FileFacts DEF TypeOK, Entry
    <3>4. /\ Len(sections) \in Nat /\ Len(sections') = Len(sections) + 1
          /\ \A k \in 1 .. Len(sections) : sections'[k] = sections[k]
          /\ sections'[Len(sections) + 1] = Entry(i)
      BY <3>1, <3>3, AppendProperties, LenProperties
    <3>5. ASSUME NEW k \in 1 .. Len(sections)
          PROVE  sections[k][1] + sections[k][2] <= file.segments[i].addr
      <4>1. PICK s \in Segments : s < i /\ sections[k] = Entry(s)
        BY <1>0, <3>1 DEF LoadedInv, Passed
      <4>2. QED
        BY <1>0, <3>2, <4>1, SegmentsInOrder DEF Entry
    <3>6. ASSUME NEW k \in 1 .. Len(sections'), NEW l \in 1 .. Len(sections'), k < l
          PROVE  sections'[k][1] + sections'[k][2] <= sections'[l][1]
      <4>1. k \in 1 .. Len(sections)
        BY <3>4, <3>6
      <4>2. CASE l \in 1 .. Len(sections)
        <5>1. sections[k][1] + sections[k][2] <= sections[l][1]
          BY <3>6, <4>1, <4>2 DEF ImageInv, OrderInv
        <5>2. QED
          BY <3>4, <4>1, <4>2, <5>1
      <4>3. CASE l = Len(sections) + 1
        <5>1. sections'[l][1] = file.segments[i].addr
          BY <3>4, <4>3 DEF Entry
        <5>2. QED
          BY <3>4, <3>5, <4>1, <5>1
      <4>4. l \in 1 .. Len(sections) \/ l = Len(sections) + 1
        BY <3>4
      <4>5. QED
        BY <4>2, <4>3, <4>4
    <3>7. QED
      BY <3>6 DEF OrderInv
  <2>3. QED
    BY <2>1, <2>2
<1>4. QED
  BY <1>2, <1>3 DEF ImageInv

\* From section to section, and at the end.
LEMMA GoesOnInOrder ==
  ASSUME PreloadInv, ImageInv, GetSection \/ Finish \/ SlinkFatal \/ UNCHANGED vars
  PROVE  ImageInv'
<1>0. TypeOK /\ LoadedInv /\ SectionInv
  BY DEF PreloadInv
<1>1. UNCHANGED <<file, method, sections, mems, mem>>
  BY DEF GetSection, Finish, SlinkFatal, loader, vars
<1>2. OrderInv'
  BY <1>1 DEF ImageInv, OrderInv
<1>3. /\ \A k, j : ByteOf(k, j)' = ByteOf(k, j)
      /\ \A k : WholeReached(k)' <=> WholeReached(k)
  BY <1>1 DEF ByteOf, WholeReached
<1>4. \A k, n : Put(k, n)' <=> Put(k, n)
  BY <1>1, <1>3 DEF Put
<1>5. Len(sections) \in Nat /\ section_index \in Nat
  BY <1>0, LenProperties DEF TypeOK
<1>6. ASSUME pc' # "fatal" PROVE PutInv'
  <2>1. CASE GetSection
    <3>1. /\ pc = "section" /\ section_index' = section_index + 1 /\ pc' = "write" /\ i' = 0
          /\ section_index < Len(sections)
      BY <1>6, <2>1 DEF GetSection
    <3>2. \A k \in 1 .. section_index : WholeReached(k) => Put(k, sections[k][2])
      BY <3>1 DEF ImageInv, PutInv
    <3>3. ASSUME NEW k \in 1 .. section_index', k < section_index', WholeReached(k)'
          PROVE  Put(k, sections[k][2])'
      <4>1. k \in 1 .. section_index
        BY <1>5, <3>1, <3>3
      <4>2. Put(k, sections[k][2])
        BY <1>3, <3>2, <3>3, <4>1
      <4>3. QED
        BY <1>1, <1>4, <4>2
    <3>4. /\ (IF method = "slink" THEN i - BusOffset ELSE i)' <= 0
          /\ (IF method = "slink" THEN i - BusOffset ELSE i)' \in Int
      <4>1. BusOffset' \in Nat
        <5>1. section_index' \in 1 .. Len(sections)
          BY <1>5, <3>1
        <5>2. sections[section_index'][1] \in Nat
          BY <1>0, <5>1, SectionFacts
        <5>3. sections[section_index'][1] % Word \in Nat
          BY <5>2, Lengths, Division
        <5>4. QED
          BY <1>1, <5>3 DEF BusOffset, SecAddr
      <4>2. CASE method = "slink"
        <5>1. method' = "slink"
          BY <1>1, <4>2
        <5>2. (IF method = "slink" THEN i - BusOffset ELSE i)' = i' - BusOffset'
          BY <5>1
        <5>3. i' - BusOffset' <= 0 /\ i' - BusOffset' \in Int
          <6>1. \A n \in Nat : 0 - n <= 0 /\ 0 - n \in Int
            OBVIOUS
          <6>2. i' = 0
            BY <3>1
          <6>3. QED
            BY <4>1, <6>1, <6>2
        <5>4. QED
          BY <5>2, <5>3
      <4>3. CASE method # "slink"
        BY <1>1, <3>1, <4>1, <4>3
      <4>4. QED
        BY <4>2, <4>3
    <3>5. Put(section_index, IF method = "slink" THEN i - BusOffset ELSE i)'
      <4>1. section_index' \in 1 .. Len(sections)
        BY <1>5, <3>1
      <4>2. sections[section_index'][2] \in Nat
        BY <1>0, <4>1, SectionFacts
      <4>3. (IF method = "slink" THEN i - BusOffset ELSE i)' \in Int
        BY <3>4
      <4>4. QED
        BY <1>1, <3>4, <4>2, <4>3 DEF Put
    <3>6. QED
      BY <3>1, <3>3, <3>5 DEF PutInv
  <2>2. CASE Finish
    <3>1. pc = "section" /\ pc' = "done" /\ section_index' = section_index
      BY <2>2 DEF Finish
    <3>2. QED
      BY <1>1, <1>3, <1>4, <3>1 DEF ImageInv, PutInv
  <2>3. CASE SlinkFatal
    BY <1>6, <2>3 DEF SlinkFatal
  <2>4. CASE UNCHANGED vars
    <3>1. UNCHANGED <<pc, section_index, i>> /\ BusOffset' = BusOffset
      BY <1>1, <2>4 DEF vars, BusOffset, SecAddr
    <3>2. QED
      BY <1>1, <1>3, <1>4, <1>6, <3>1 DEF ImageInv, PutInv
  <2>5. QED
    BY <2>1, <2>2, <2>3, <2>4
<1>7. QED
  BY <1>2, <1>6 DEF ImageInv

\* What a completed preload has left is the program, bytes and zeros, wherever
\* its segments are in memory and however they are cut into bursts.
THEOREM ImageComplete ==
  ASSUME InOrder
  PROVE  Spec => []ImageLoaded
<1>1. Init => ImageInv
  BY EmptySeq DEF Init, ImageInv, OrderInv, PutInv
<1>2. PreloadInv /\ ImageInv /\ [Next]_vars => ImageInv'
  BY InOrder, LoadsInOrder, WritesStay, GoesOnInOrder DEF Next, Writing
<1>3. PreloadInv /\ ImageInv => ImageLoaded
  <2> SUFFICES ASSUME PreloadInv, ImageInv, pc = "done", file.fault # "headers"
               PROVE  /\ file.fault \in {"none", "sectionHeaders"} /\ entry = file.entry
                      /\ \A s \in Segments : /\ ~file.segments[s].beyond
                                             /\ Reached(s) => Right(s)
    BY DEF ImageLoaded
  <2>0. TypeOK /\ LoadedInv /\ SectionInv /\ PutInv
    BY DEF PreloadInv, ImageInv
  <2>1. file.fault \in {"none", "sectionHeaders"} /\ entry = file.entry
    <3>1. file.fault \in Faults /\ file.fault \notin Refused /\ entry = file.entry
      BY <2>0, FileFacts DEF LoadedInv
    <3>2. QED
      BY <3>1 DEF Faults
  <2>2. ASSUME NEW s \in Segments
        PROVE  ~file.segments[s].beyond /\ (Reached(s) => Right(s))
    <3>1. PICK k \in 1 .. Len(sections) : sections[k] = Entry(s)
      BY <2>0 DEF LoadedInv, Passed
    <3>2. ~file.segments[s].beyond
      BY <2>0 DEF LoadedInv, Passed
    <3>3. sections[k][1] = file.segments[s].addr /\ sections[k][2] = file.segments[s].memsz
      BY <3>1 DEF Entry
    <3>4. mems[sections[k][1]] = Content(s)
      <4>1. sections[k][1] \in DOMAIN mems
        BY <2>0 DEF LoadedInv
      <4>2. PICK t \in Segments : /\ sections[k][1] = file.segments[t].addr
                                  /\ mems[sections[k][1]] = Content(t)
        BY <2>0, <4>1 DEF LoadedInv
      <4>3. s = t
        BY <2>0, <3>3, <4>2, InOrder, SegmentsInOrder
      <4>4. QED
        BY <4>2, <4>3
    <3>5. ASSUME Reached(s), NEW a \in Extent(s)
          PROVE  mem[a] = LET j == a - file.segments[s].addr IN
                          IF j < file.segments[s].filesz THEN <<s, j>> ELSE Zero
      <4>1. /\ file.segments[s].addr \in Nat /\ file.segments[s].memsz \in Nat
            /\ file.segments[s].filesz \in Nat
        BY <2>0, FileFacts
      <4>2. PICK j \in 0 .. file.segments[s].memsz - 1 :
              j = a - file.segments[s].addr /\ a = file.segments[s].addr + j
        <5>1. a \in file.segments[s].addr .. file.segments[s].addr + file.segments[s].memsz - 1
          BY <3>5 DEF Extent, Span
        <5>2. QED
          BY <4>1, <5>1, Within
      <4>3. WholeReached(k)
        BY <3>3, <3>5 DEF Reached, WholeReached
      <4>4. k \in 1 .. section_index
        BY <2>0 DEF SectionInv
      <4>5. Put(k, sections[k][2])
        BY <2>0, <4>3, <4>4 DEF PutInv
      <4>6. mem[a] = ByteOf(k, j)
        <5>1. j < file.segments[s].memsz
          BY <4>1, <4>2
        <5>2. QED
          BY <3>3, <4>2, <4>5, <5>1 DEF Put
      <4>7. ByteOf(k, j) = IF j < file.segments[s].filesz THEN <<s, j>> ELSE Zero
        <5>1. DOMAIN Content(s) = 1 .. file.segments[s].filesz
              /\ \A n \in 1 .. file.segments[s].filesz : Content(s)[n] = <<s, n - 1>>
          BY DEF Content
        <5>2. j + 1 \in 1 .. file.segments[s].filesz <=> j < file.segments[s].filesz
          <6>1. j \in Nat
            BY <4>1, <4>2
          <6>2. QED
            BY <4>1, <6>1
        <5>3. (j + 1) - 1 = j
          BY <4>2
        <5>4. QED
          BY <3>4, <5>1, <5>2, <5>3 DEF ByteOf
      <4>8. QED
        BY <4>2, <4>6, <4>7
    <3>6. QED
      BY <3>2, <3>5 DEF Right
  <2>3. QED
    BY <2>1, <2>2
<1>4. QED
  BY <1>1, <1>2, <1>3, PreloadCorrect, PTL DEF Spec
======================================================================
