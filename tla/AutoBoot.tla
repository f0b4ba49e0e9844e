----------------------------- MODULE AutoBoot -----------------------------
(***************************************************************************)
(* Autonomous boot: gpt_boot_part_else_raw in the boot ROM (sw/lib/gpt.c)  *)
(* finds and loads the zero-stage loader, and the zero-stage loader        *)
(* (sw/boot/zsl.c) finds and loads the device tree and the firmware with   *)
(* the same gpt_find_partition and the same read function, whose address   *)
(* the boot ROM left in SCRATCH[0].                                        *)
(*                                                                         *)
(* Every read of the medium is an action, and may fail.  A partition is    *)
(* known by its sectors and its type; no caller searches by partition      *)
(* GUID.  Tables are well formed: a partition does not end before it       *)
(* begins.                                                                 *)
(***************************************************************************)
EXTENDS Integers, FiniteSets

CONSTANTS
  Type,      \* partition types: those of Stage and others
  MaxLbas,   \* sectors each stage may load: a function on Stage
  MaxParts,  \* entries of a partition table
  MaxSize,   \* sectors of a partition
  MaxFails   \* bound: reads that fail

\* What is searched: the zero-stage loader by the boot ROM, then the others.
Stage == {"zsl", "dtb", "fw"}

ASSUME AutoBootAssumption ==
  /\ Stage \subseteq Type
  /\ MaxLbas \in [Stage -> Nat \ {0}]
  /\ {MaxParts, MaxSize, MaxFails} \subseteq Nat

\* Partition p lies behind partition p - 1; unused entries are all zero.
Unused == [begin |-> 0, end |-> 0, type |-> "none"]
Entries(p) ==
  LET b == (p + 1) * MaxSize IN
  {Unused} \cup [begin : {b}, end : b .. b + MaxSize - 1, type : Type]
Entry == {Unused} \cup UNION {Entries(p) : p \in 0 .. MaxParts - 1}

Disk == UNION {
  [sig : BOOLEAN, count : {n},
   parts : {t \in [0 .. n - 1 -> Entry] : \A p \in 0 .. n - 1 : t[p] \in Entries(p)}]
  : n \in 0 .. MaxParts}

Nothing == [begin |-> 0, len |-> 0, ok |-> FALSE]

VARIABLES
  disk,    \* the boot medium
  stage,   \* what is being searched
  pc,      \* where the search is
  p, dim,  \* gpt_find_partition's entry number and its extent
  partIdx, lbaBegin, lbaEnd,  \* what it has found
  rread,   \* SCRATCH[0] holds a read function: the zero-stage loader was loaded
  loaded,  \* what each stage has read to its destination
  failed   \* the reads that failed: <<stage, pc>>

found == <<partIdx, lbaBegin, lbaEnd>>
vars  == <<disk, stage, pc, p, dim, found, rread, loaded, failed>>

TypeOK ==
  /\ disk \in [sig : BOOLEAN, count : 0 .. MaxParts,
                parts : [0 .. disk.count - 1 -> Entry]]
  /\ stage \in Stage
  /\ pc \in {"sig", "hdr", "entry", "guid", "found", "copy", "zsl",
             "bmp", "exit", "spin", "launch"}
  /\ p \in 0 .. disk.count /\ dim \in Entry
  /\ partIdx \in -1 .. disk.count - 1
  /\ {lbaBegin, lbaEnd} \subseteq Nat
  /\ rread \in BOOLEAN
  /\ loaded \in [Stage -> [begin : Nat, len : Nat, ok : BOOLEAN]]
  /\ failed \subseteq Stage \X {"sig", "hdr", "entry", "guid", "copy"}

\* Boot modes 1 to 3 start in the boot ROM; a preloaded zero-stage loader starts
\* with an even entry point in SCRATCH[0], or with zero.
Init ==
  /\ disk \in Disk
  /\ pc \in {"sig", "zsl"}
  /\ stage = "zsl"
  /\ p = 0 /\ dim = Unused /\ partIdx = -1
  /\ lbaBegin = 0 /\ lbaEnd = MaxLbas["zsl"] - 1
  /\ rread = FALSE
  /\ loaded = [s \in Stage |-> Nothing]
  /\ failed = {}

Smaller(a, b) == IF a <= b THEN a ELSE b

GoTo(from, to) == pc = from /\ pc' = to

\* A read succeeds, or it fails and control goes to onError.
Read(at, to, onError, ok) ==
  /\ ok \/ Cardinality(failed) < MaxFails
  /\ GoTo(at, IF ok THEN to ELSE onError)
  /\ failed' = IF ok THEN failed ELSE failed \cup {<<stage, at>>}

\* CHECK_CALL returns the error through main to the boot ROM's _exit; the
\* zero-stage loader's load_part_or_spin spins.
OnError == IF stage = "zsl" THEN "exit" ELSE "spin"

-----------------------------------------------------------------------------
\* gpt_check_signature: a failed read is reported as no signature.
CheckSignature(ok) ==
  /\ Read("sig", IF disk.sig THEN "hdr" ELSE "copy", "copy", ok)
  /\ UNCHANGED <<disk, stage, p, dim, found, rread, loaded>>

ReadHeader(ok) ==
  /\ Read("hdr", "entry", OnError, ok)
  /\ p' = 0
  /\ UNCHANGED <<disk, stage, dim, found, rread, loaded>>

\* Mutant: the inclusive end is forgotten.
TooLargeOffByOne(e) == e.end - e.begin > MaxLbas[stage]

TooLarge(e) == e.end - e.begin >= MaxLbas[stage]

\* Mutant: the inclusive end is taken for the sector behind it.
RecordFirstPastEnd(e) ==
  IF p = 0
  THEN /\ lbaBegin' = e.begin
       /\ lbaEnd' = Smaller(e.end, e.begin + MaxLbas[stage]) - 1
  ELSE UNCHANGED <<lbaBegin, lbaEnd>>

\* The first partition is recorded in any case, cut to what may be loaded.
RecordFirst(e) ==
  IF p = 0
  THEN /\ lbaBegin' = e.begin
       /\ lbaEnd' = Smaller(e.end, e.begin + MaxLbas[stage] - 1)
  ELSE UNCHANGED <<lbaBegin, lbaEnd>>

ReadEntry(ok) ==
  LET e == disk.parts[p] IN
  /\ pc = "entry" /\ p < disk.count
  /\ Read("entry", IF TooLarge(e) THEN "entry" ELSE "guid", OnError, ok)
  /\ IF ok
     THEN /\ dim' = e /\ RecordFirst(e)
          /\ p' = IF TooLarge(e) THEN p + 1 ELSE p
     ELSE UNCHANGED <<p, dim, lbaBegin, lbaEnd>>
  /\ UNCHANGED <<disk, stage, partIdx, rread, loaded>>

\* Mutant: an entry of another type is not stepped over.
ReadGuidStuck(ok) ==
  /\ Read("guid", IF disk.parts[p].type = stage THEN "found" ELSE "entry",
          OnError, ok)
  /\ UNCHANGED p
  /\ UNCHANGED <<disk, stage, dim, found, rread, loaded>>

\* Mutant: an error ends the search instead of the boot.
ReadGuidErrorIgnored(ok) ==
  /\ Read("guid", IF disk.parts[p].type = stage THEN "found" ELSE "entry",
          "entry", ok)
  /\ p' = IF ok /\ disk.parts[p].type = stage THEN p ELSE p + 1
  /\ UNCHANGED <<disk, stage, dim, found, rread, loaded>>

ReadGuid(ok) ==
  /\ Read("guid", IF disk.parts[p].type = stage THEN "found" ELSE "entry",
          OnError, ok)
  /\ p' = IF ok /\ disk.parts[p].type # stage THEN p + 1 ELSE p
  /\ UNCHANGED <<disk, stage, dim, found, rread, loaded>>

\* The loop's break: the extent is written out.
Found ==
  /\ GoTo("found", "copy")
  /\ partIdx' = p
  /\ lbaBegin' = dim.begin /\ lbaEnd' = dim.end
  /\ UNCHANGED <<disk, stage, p, dim, rread, loaded, failed>>

\* No entry left: the boot ROM boots what it has, the zero-stage loader spins.
NotFound ==
  /\ p = disk.count
  /\ GoTo("entry", IF stage = "zsl" THEN "copy" ELSE "spin")
  /\ partIdx' = -1
  /\ UNCHANGED <<disk, stage, p, dim, lbaBegin, lbaEnd, rread, loaded, failed>>

\* The range is read to its destination, completely or not.
Load(ok) ==
  loaded' = [loaded EXCEPT ![stage] =
    [begin |-> lbaBegin, len |-> lbaEnd - lbaBegin + 1, ok |-> ok]]

\* gpt_boot_part_else_raw: then the scratch registers and boot_next_stage.
BootCopy(ok) ==
  /\ stage = "zsl"
  /\ Read("copy", IF partIdx >= 0 THEN "zsl" ELSE "bmp", "exit", ok)
  /\ Load(ok)
  /\ rread' = (rread \/ ok)
  /\ UNCHANGED <<disk, stage, p, dim, found>>

\* load_part_or_spin: the read's return value is not looked at.
ZslCopy(ok) ==
  /\ stage # "zsl"
  /\ LET next == IF stage = "dtb" THEN "hdr" ELSE "launch" IN
       Read("copy", next, next, ok)
  /\ Load(ok)
  /\ stage' = "fw"
  /\ UNCHANGED <<disk, p, dim, found, rread>>

ZslMain ==
  /\ GoTo("zsl", IF rread THEN "hdr" ELSE "launch")
  /\ stage' = IF rread THEN "dtb" ELSE stage
  /\ UNCHANGED <<disk, p, dim, found, rread, loaded, failed>>

-----------------------------------------------------------------------------
ReadStep(ok) ==
  \/ CheckSignature(ok)
  \/ ReadHeader(ok)
  \/ ReadEntry(ok)
  \/ ReadGuid(ok)
  \/ BootCopy(ok)
  \/ ZslCopy(ok)

Next ==
  \/ ReadStep(TRUE)
  \/ ReadStep(FALSE)
  \/ Found
  \/ NotFound
  \/ ZslMain

Spec == Init /\ [][Next]_vars

\* The hart executes; reads return.
FairSpec == Spec /\ WF_vars(Next)

-----------------------------------------------------------------------------
(***************************************************************************)
(* What a search is to find, stated over the whole table.                  *)
(***************************************************************************)
Wanted(s) ==
  {q \in 0 .. disk.count - 1 :
     /\ disk.parts[q].type = s
     /\ disk.parts[q].end - disk.parts[q].begin + 1 <= MaxLbas[s]}

First(S) == CHOOSE q \in S : \A r \in S : q <= r

Extent(e) == [begin |-> e.begin, len |-> e.end - e.begin + 1]

Cut(x, n) == [x EXCEPT !.len = Smaller(@, n)]

\* The boot ROM saw a GPT with at least one entry.
IsGpt == disk.sig /\ <<"zsl", "sig">> \notin failed /\ disk.count > 0

Expected(s) ==
  IF Wanted(s) # {} /\ (s = "zsl" => IsGpt)
  THEN Extent(disk.parts[First(Wanted(s))])
  ELSE IF IsGpt THEN Cut(Extent(disk.parts[0]), MaxLbas[s])
  ELSE [begin |-> 0, len |-> MaxLbas[s]]

Range(s) == [begin |-> loaded[s].begin, len |-> loaded[s].len]

\* Every stage loads the first partition of its type that fits; only the boot
\* ROM has a fallback, the first entry or the start of the medium.  What an
\* earlier search left in its variables never shows in a later one.
SearchCorrect ==
  \A s \in Stage : loaded[s] # Nothing =>
    /\ Range(s) = Expected(s)
    /\ s # "zsl" => Wanted(s) # {}

\* An error of the boot ROM's search or load ends in its _exit: nothing is
\* booted after it.  (An error reading the signature counts as no signature.)
ErrorsHalt ==
  (\E at \in {"hdr", "entry", "guid", "copy"} : <<"zsl", at>> \in failed) =>
    pc = "exit"

\* The searches and loads come to an end.
Terminates == <>(pc \in {"bmp", "exit", "spin", "launch"})

-----------------------------------------------------------------------------
\* What the manual says the zero-stage loader does before it invokes the
\* firmware: it loads both.
FirmwareLoaded ==
  pc = "launch" /\ rread => loaded["dtb"].ok /\ loaded["fw"].ok
=============================================================================
