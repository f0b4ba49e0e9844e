------------------------------ MODULE NorFlash ------------------------------
(***************************************************************************)
(* Reads of the NOR flash driver (sw/lib/hal/spi_s25fs512s.c): segments    *)
(* of at most Chunk bytes, of any alignment.  A transaction of the SPI     *)
(* host's driver is a step: opcode, four address bytes, data.              *)
(***************************************************************************)
EXTENDS MediumCall

\* The check of the clock at each read never fails: SpiFreq is at most 40 MHz.
NorRead(a, n) == Call(a, n) /\ pc' = "norChunk"

ReadData(a, n) == [j \in 1 .. n |-> Medium[a + j - 1]]

\* Mutant: every segment is a whole one, the last one too.
NorLengthWhole == Smaller(Chunk, Size - addr - offs)

NorLength == Smaller(Chunk, len - offs)

\* __spi_s25fs512s_single_read_chunk, and the loop around it.
NorChunk ==
  /\ pc = "norChunk"
  /\ buf' = Stored(ReadData(addr + offs, NorLength), offs)
  /\ offs' = offs + Chunk
  /\ pc' = IF offs' < len THEN "norChunk" ELSE "ready"
  /\ UNCHANGED <<addr, len>>
=============================================================================
