----------------------------- MODULE BootMedia -----------------------------
(***************************************************************************)
(* The boot ROM's main (hw/bootrom/cheshire_bootrom.c) choosing a medium,  *)
(* and reads of it: an SD card, a NOR flash or an I2C EEPROM.              *)
(***************************************************************************)
EXTENDS SdCard, NorFlash, I2cEeprom

CONSTANT CoreFreqs  \* core frequencies the boot ROM may find, in Hz

VARIABLE mode  \* BOOT_MODE 1, 2 or 3; the others do not come here

vars == <<mode, pc, addr, len, offs, buf, sdVars, i2cVars>>

Million == 1000 * 1000

TypeOK ==
  /\ mode \in {"sd", "nor", "i2c"}
  /\ pc \in {"main", "wake", "send", "stuff", "response", "rest", "busy", "free",
             "check", "token", "data", "crc", "copy", "norChunk", "i2cWait",
             "i2cQueue", "i2cPoll", "ready", "fail"}
  /\ CallTypeOK /\ SdTypeOK /\ I2cTypeOK

Init ==
  /\ mode \in {"sd", "nor", "i2c"} /\ pc = "main"
  /\ CallInit /\ SdInit /\ I2cInit

\* The SPI clock boot_spi_sdcard and boot_spi_s25fs512s ask for: within the 25 MHz
\* of the card and the 50 MHz of the flash's reads, whatever the core's is.
SpiFreq(freq) == IF mode = "sd" THEN 24 * Million ELSE Smaller(40 * Million, freq \div 4)

\* Nor may it be zero or exceed the core's; the I2C timing divides by the core's.
Legal(freq) ==
  IF mode = "i2c" THEN freq # 0 ELSE SpiFreq(freq) # 0 /\ SpiFreq(freq) <= freq

\* The switch, and what the drivers' initialisations check.
Main ==
  /\ pc = "main"
  /\ \E freq \in CoreFreqs :
       pc' = IF ~Legal(freq) THEN "fail" ELSE IF mode = "sd" THEN "wake" ELSE "ready"
  /\ UNCHANGED <<mode, addr, len, offs, buf, sdVars, i2cVars>>

SdStep ==
  /\ mode = "sd"
  /\ SdDriver
  /\ UNCHANGED <<mode, i2cVars>>

NorStep ==
  /\ mode = "nor"
  /\ NorChunk
  /\ UNCHANGED <<mode, sdVars, i2cVars>>

I2cStep ==
  /\ mode = "i2c"
  /\ I2cDriver
  /\ UNCHANGED <<mode, sdVars>>

HostStep == I2cHost /\ UNCHANGED <<mode, sdVars>>

\* A gpt_read_t of the medium.
Read(a, n) ==
  /\ UNCHANGED mode
  /\ \/ mode = "sd" /\ SdRead(a, n) /\ UNCHANGED i2cVars
     \/ mode = "nor" /\ NorRead(a, n) /\ UNCHANGED <<sdVars, i2cVars>>
     \/ mode = "i2c" /\ I2cRead(a, n) /\ UNCHANGED sdVars

Driver == Main \/ SdStep \/ NorStep \/ I2cStep

Next ==
  \/ Driver \/ HostStep
  \/ \E q \in Requests : Read(q[1], q[2])

Spec == Init /\ [][Next]_vars

\* The hart and the I2C host go on; whether something is read is open.
FairSpec == Spec /\ WF_vars(Driver) /\ WF_vars(HostStep)

-----------------------------------------------------------------------------
Off == pc \in {"main", "wake"} \/ (mode = "sd" /\ cmd \in Activation)

InCall == pc \notin {"ready", "fail"} /\ ~Off

\* Whoever is called next finds the chip select free, no transfer of the card
\* under way, and the I2C host with empty FIFOs.
CleanLine == pc = "ready" => cs = "free" /\ stream = -1 /\ fmt = <<>> /\ rx = <<>>

\* A read returns, whatever the card does: no poll is without a limit, and the
\* I2C host delivers the bytes that are polled for.
ReadEnds == InCall ~> (pc \in {"ready", "fail"})

\* Behind a short destination, up to the next FIFO boundary.
Overrun == {k \in Around : mode = "i2c" /\ addr % Fifo # 0
                           /\ k >= len /\ k < Fifo - (addr % Fifo)}

Device == INSTANCE BlockRead WITH
  status <- IF pc = "fail" THEN "failed" ELSE IF pc = "ready" THEN "idle"
            ELSE IF Off THEN "off" ELSE "busy",
  dest <- [k \in Around |-> IF k \in Overrun THEN Unread ELSE buf[k]]

\* A read that reports success has put the medium's bytes into the destination
\* and touched nothing else, whatever its alignment and whatever the line
\* corrupted: the switch on BOOT_MODE hands GPT the same promise three times.
\* The bytes the EEPROM's driver puts behind a short destination are left out.
ImplementsBlockRead == Device!Spec

\* i2c_24fc1025.c:79, "Request read of len bytes": nothing but the len bytes of
\* the destination is written.  The EEPROM's driver asks for all bytes up to the
\* next FIFO boundary first.
OnlyDestination == \A k \in Around : k \notin 0 .. len - 1 => buf[k] = Unread
=============================================================================
