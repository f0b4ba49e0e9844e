-------------------------- MODULE AutoBoot_proofs --------------------------
(***************************************************************************)
(* Proofs about AutoBoot for tables of any size, partitions of any length, *)
(* any limits of the stages and any number of reads that fail.             *)
(***************************************************************************)
EXTENDS AutoBoot, TLAPS

\* The range that the variables of gpt_boot_part_else_raw and of
\* load_part_or_spin name, and the one the boot ROM begins with.
Kept == [begin |-> lbaBegin, len |-> lbaEnd - lbaBegin + 1]
Raw  == [begin |-> 0, len |-> MaxLbas[stage]]

FirstCut == Cut(Extent(disk.parts[0]), MaxLbas[stage])

\* The boot ROM's stage comes first, and it searches only a medium with a
\* signature.
StageInv ==
  /\ lbaBegin <= lbaEnd
  /\ pc \in {"sig", "zsl"} => stage = "zsl"
  /\ pc = "sig" => <<"zsl", "sig">> \notin failed
                   /\ \A s \in Stage : loaded[s] = Nothing
  /\ pc \in {"hdr", "entry", "guid", "found"} /\ stage = "zsl" =>
       disk.sig /\ <<"zsl", "sig">> \notin failed

\* What the search has passed is not wanted, and what it has found is.
PassedInv ==
  /\ pc \in {"entry", "guid", "found"} =>
       \A r \in 0 .. p - 1 : r \notin Wanted(stage)
  /\ pc \in {"guid", "found"} =>
       p < disk.count /\ dim = disk.parts[p] /\ ~TooLarge(dim)
  /\ pc = "found" => dim.type = stage

\* What the boot ROM falls back to if its search finds nothing.
FallbackInv ==
  stage = "zsl" =>
    /\ pc \in {"sig", "hdr"} => Kept = Raw
    /\ pc = "entry" => Kept = IF p = 0 THEN Raw ELSE FirstCut
    /\ pc \in {"guid", "found"} => Kept = FirstCut

\* What is about to be loaded.
CopyInv ==
  pc = "copy" =>
    /\ Kept = Expected(stage)
    /\ stage # "zsl" => Wanted(stage) # {}

SearchInv ==
  TypeOK /\ StageInv /\ PassedInv /\ FallbackInv /\ CopyInv /\ SearchCorrect

-----------------------------------------------------------------------------
(***************************************************************************)
(* Tables, ranges and the first wanted entry.                              *)
(***************************************************************************)
\* A limit is a positive number of sectors; an entry ends no earlier than it
\* begins.
LEMMA TableFacts ==
  /\ \A s \in Stage : MaxLbas[s] \in Nat /\ MaxLbas[s] > 0
  /\ Unused \in Entry
  /\ \A e \in Entry : e.begin \in Nat /\ e.end \in Nat /\ e.begin <= e.end
<1>1. \A s \in Stage : MaxLbas[s] \in Nat /\ MaxLbas[s] > 0
  BY AutoBootAssumption
<1>2. Unused \in Entry
  BY DEF Entry
<1>3. ASSUME NEW e \in Entry
      PROVE  e.begin \in Nat /\ e.end \in Nat /\ e.begin <= e.end
  <2>1. CASE e = Unused
    BY <2>1 DEF Unused
  <2>2. CASE e # Unused
    <3>1. PICK q \in 0 .. MaxParts - 1 : e \in Entries(q)
      BY <1>3, <2>2 DEF Entry
    <3>2. MaxSize \in Nat /\ q + 1 \in Nat
      BY AutoBootAssumption, <3>1
    <3>3. (q + 1) * MaxSize \in Nat
      BY <3>2
    <3>4. QED
      BY <2>2, <3>1, <3>2, <3>3 DEF Entries
  <2>3. QED
    BY <2>1, <2>2
<1>4. QED
  BY <1>1, <1>2, <1>3

\* If q is wanted and nothing before it is, q is the first wanted entry: the
\* search of gpt_find_partition stops at what Expected asks for.
LEMMA FirstWanted ==
  ASSUME NEW S, S \subseteq Nat, NEW q \in S, \A r \in 0 .. q - 1 : r \notin S
  PROVE  First(S) = q
<1>1. \A r \in S : q <= r
  <2> SUFFICES ASSUME NEW r \in S, ~(q <= r) PROVE FALSE
    OBVIOUS
  <2>1. r \in 0 .. q - 1
    OBVIOUS
  <2>2. QED
    BY <2>1
<1>2. First(S) \in S /\ \A r \in S : First(S) <= r
  BY <1>1 DEF First
<1>3. First(S) <= q /\ q <= First(S) /\ First(S) \in Nat
  BY <1>1, <1>2
<1>4. QED
  BY <1>3

\* The first entry is recorded cut to what may be loaded, and it is not empty;
\* a later entry leaves the record alone.
LEMMA RecordedRange ==
  ASSUME SearchInv, NEW e \in Entry, RecordFirst(e)
  PROVE  /\ lbaBegin' \in Nat /\ lbaEnd' \in Nat /\ lbaBegin' <= lbaEnd'
         /\ Kept' = IF p = 0 THEN Cut(Extent(e), MaxLbas[stage]) ELSE Kept
<1>1. CASE p = 0
  <2>1. e.begin \in Nat /\ e.end \in Nat /\ e.begin <= e.end
    BY TableFacts
  <2>2. MaxLbas[stage] \in Nat /\ MaxLbas[stage] > 0
    BY TableFacts DEF SearchInv, TypeOK
  <2>3. lbaBegin' = e.begin
        /\ lbaEnd' = Smaller(e.end, e.begin + MaxLbas[stage] - 1)
    BY <1>1 DEF RecordFirst
  <2>4. lbaEnd' - lbaBegin' + 1
          = Smaller(e.end - e.begin + 1, MaxLbas[stage])
    BY <2>1, <2>2, <2>3 DEF Smaller
  <2>5. Kept' = Cut(Extent(e), MaxLbas[stage])
    BY <2>3, <2>4 DEF Kept, Cut, Extent
  <2>6. QED
    BY <1>1, <2>1, <2>2, <2>3, <2>5 DEF Smaller
<1>2. CASE p # 0
  BY <1>2 DEF SearchInv, TypeOK, StageInv, RecordFirst, Kept
<1>3. QED
  BY <1>1, <1>2

\* What ReadEntry reads is an entry of the table.
LEMMA EntryRead ==
  ASSUME SearchInv,
         (pc = "entry" /\ p < disk.count) \/ pc \in {"guid", "found"}
  PROVE  /\ disk.parts[p] \in Entry
         /\ disk.count \in Nat /\ p \in 0 .. disk.count - 1
BY AutoBootAssumption DEF SearchInv, TypeOK, PassedInv
-----------------------------------------------------------------------------
(***************************************************************************)
(* A step keeps each part of the invariant.                                *)
(***************************************************************************)
\* Every variable keeps its type: an index stays in the table because the search
\* tests it before it reads, and a length is never negative.
LEMMA TypeStep ==
  ASSUME SearchInv, [Next]_vars
  PROVE  TypeOK'
<1> USE TableFacts DEF SearchInv, TypeOK, StageInv, PassedInv, Stage, found,
       OnError
<1>1. ASSUME CheckSignature(TRUE) PROVE TypeOK'
  BY <1>1 DEF CheckSignature, Read, GoTo, found
<1>2. ASSUME CheckSignature(FALSE) PROVE TypeOK'
  BY <1>2 DEF CheckSignature, Read, GoTo, found
<1>3. ASSUME ReadHeader(TRUE) PROVE TypeOK'
  BY <1>3 DEF ReadHeader, Read, GoTo, found
<1>4. ASSUME ReadHeader(FALSE) PROVE TypeOK'
  BY SMTT(30), <1>4 DEF ReadHeader, Read, GoTo, found
<1>5. ASSUME ReadEntry(TRUE) PROVE TypeOK'
  <2>1. disk.parts[p] \in Entry
        /\ p \in 0 .. disk.count - 1 /\ disk.count \in Nat
    BY <1>5, EntryRead DEF ReadEntry
  <2>2. lbaBegin' \in Nat /\ lbaEnd' \in Nat
    BY <1>5, <2>1, RecordedRange DEF ReadEntry
  <2>3. dim' = disk.parts[p] /\ p' \in 0 .. disk.count
    BY SMTT(30), <1>5, <2>1 DEF ReadEntry
  <2>4. QED
    BY <1>5, <2>1, <2>2, <2>3 DEF ReadEntry, Read, GoTo, found
<1>6. ASSUME ReadEntry(FALSE) PROVE TypeOK'
  BY <1>6 DEF ReadEntry, RecordFirst, Smaller, Read, GoTo, found
<1>7. ASSUME ReadGuid(TRUE) PROVE TypeOK'
  BY SMTT(30), <1>7 DEF ReadGuid, Read, GoTo, found
<1>8. ASSUME ReadGuid(FALSE) PROVE TypeOK'
  BY SMTT(30), <1>8 DEF ReadGuid, Read, GoTo, found
<1>9. ASSUME BootCopy(TRUE) PROVE TypeOK'
  BY SMTT(30), <1>9 DEF BootCopy, Load, Read, GoTo, found
<1>10. ASSUME BootCopy(FALSE) PROVE TypeOK'
  BY SMTT(30), <1>10 DEF BootCopy, Load, Read, GoTo, found
<1>11. ASSUME ZslCopy(TRUE) PROVE TypeOK'
  BY SMTT(30), <1>11 DEF ZslCopy, Load, Read, GoTo, found
<1>12. ASSUME ZslCopy(FALSE) PROVE TypeOK'
  BY SMTT(30), <1>12 DEF ZslCopy, Load, Read, GoTo, found
<1>13. ASSUME Found PROVE TypeOK'
  BY SMTT(30), <1>13 DEF Found, GoTo
<1>14. ASSUME NotFound PROVE TypeOK'
  BY SMTT(30), <1>14 DEF NotFound, GoTo, found
<1>15. ASSUME ZslMain PROVE TypeOK'
  BY <1>15 DEF ZslMain, GoTo, found
<1>16. ASSUME UNCHANGED vars PROVE TypeOK'
  BY <1>16 DEF vars
<1>17. QED
  BY <1>1, <1>2, <1>3, <1>4, <1>5, <1>6, <1>7, <1>8, <1>9, <1>10, <1>11,
     <1>12, <1>13, <1>14, <1>15, <1>16 DEF Next, ReadStep

\* The boot ROM's stage comes first, and needs a signature to search.
LEMMA StageStep ==
  ASSUME SearchInv, [Next]_vars
  PROVE  StageInv'
<1> USE TableFacts DEF SearchInv, TypeOK, StageInv, PassedInv, Stage, found,
       OnError
<1>1. ASSUME CheckSignature(TRUE) PROVE StageInv'
  <2>1. CASE disk.sig
    BY <1>1, <2>1 DEF CheckSignature, Read, GoTo, found
  <2>2. CASE ~disk.sig
    BY <1>1, <2>2 DEF CheckSignature, Read, GoTo, found
  <2>3. QED
    BY <2>1, <2>2
<1>2. ASSUME CheckSignature(FALSE) PROVE StageInv'
  BY <1>2 DEF CheckSignature, Read, GoTo, found
<1>3. ASSUME ReadHeader(TRUE) PROVE StageInv'
  BY <1>3 DEF ReadHeader, Read, GoTo, found
<1>4. ASSUME ReadHeader(FALSE) PROVE StageInv'
  BY <1>4 DEF ReadHeader, Read, GoTo, found
<1>5. ASSUME ReadEntry(TRUE) PROVE StageInv'
  <2>1. disk.parts[p] \in Entry
    BY <1>5, EntryRead DEF ReadEntry
  <2>2. lbaBegin' <= lbaEnd'
    BY <1>5, <2>1, RecordedRange DEF ReadEntry
  <2>3. QED
    BY <1>5, <2>2 DEF ReadEntry, Read, GoTo, found
<1>6. ASSUME ReadEntry(FALSE) PROVE StageInv'
  BY <1>6 DEF ReadEntry, RecordFirst, Smaller, Read, GoTo, found
<1>7. ASSUME ReadGuid(TRUE) PROVE StageInv'
  BY <1>7 DEF ReadGuid, Read, GoTo, found
<1>8. ASSUME ReadGuid(FALSE) PROVE StageInv'
  BY <1>8 DEF ReadGuid, Read, GoTo, found
<1>9. ASSUME BootCopy(TRUE) PROVE StageInv'
  BY <1>9 DEF BootCopy, Load, Read, GoTo, found
<1>10. ASSUME BootCopy(FALSE) PROVE StageInv'
  BY <1>10 DEF BootCopy, Load, Read, GoTo, found
<1>11. ASSUME ZslCopy(TRUE) PROVE StageInv'
  BY <1>11 DEF ZslCopy, Load, Read, GoTo, found
<1>12. ASSUME ZslCopy(FALSE) PROVE StageInv'
  BY <1>12 DEF ZslCopy, Load, Read, GoTo, found
<1>13. ASSUME Found PROVE StageInv'
  BY <1>13 DEF Found, GoTo
<1>14. ASSUME NotFound PROVE StageInv'
  BY <1>14 DEF NotFound, GoTo, found
<1>15. ASSUME ZslMain PROVE StageInv'
  BY <1>15 DEF ZslMain, GoTo, found
<1>16. ASSUME UNCHANGED vars PROVE StageInv'
  BY <1>16 DEF vars
<1>17. QED
  BY <1>1, <1>2, <1>3, <1>4, <1>5, <1>6, <1>7, <1>8, <1>9, <1>10, <1>11,
     <1>12, <1>13, <1>14, <1>15, <1>16 DEF Next, ReadStep

\* The medium does not change, and what the first read found is settled when it
\* is over.
LEMMA TableStays ==
  ASSUME SearchInv, [Next]_vars
  PROVE  /\ disk' = disk
         /\ pc # "sig" => (<<"zsl", "sig">> \in failed'
                             <=> <<"zsl", "sig">> \in failed)
<1> DEFINE Settled == (<<"zsl", "sig">> \in failed'
                         <=> <<"zsl", "sig">> \in failed)
<1> SUFFICES disk' = disk /\ (pc # "sig" => Settled)
  OBVIOUS
<1> USE DEF found
<1>1. ASSUME CheckSignature(TRUE) PROVE disk' = disk /\ (pc # "sig" => Settled)
  BY <1>1 DEF CheckSignature, Read, GoTo, found
<1>2. ASSUME CheckSignature(FALSE)
     PROVE  disk' = disk /\ (pc # "sig" => Settled)
  BY <1>2 DEF CheckSignature, Read, GoTo, found
<1>3. ASSUME ReadHeader(TRUE) PROVE disk' = disk /\ (pc # "sig" => Settled)
  BY <1>3 DEF ReadHeader, Read, GoTo, found
<1>4. ASSUME ReadHeader(FALSE) PROVE disk' = disk /\ (pc # "sig" => Settled)
  BY <1>4 DEF ReadHeader, Read, GoTo, found
<1>5. ASSUME ReadEntry(TRUE) PROVE disk' = disk /\ (pc # "sig" => Settled)
  BY <1>5 DEF ReadEntry, RecordFirst, Smaller, Read, GoTo, found
<1>6. ASSUME ReadEntry(FALSE) PROVE disk' = disk /\ (pc # "sig" => Settled)
  BY <1>6 DEF ReadEntry, RecordFirst, Smaller, Read, GoTo, found
<1>7. ASSUME ReadGuid(TRUE) PROVE disk' = disk /\ (pc # "sig" => Settled)
  BY <1>7 DEF ReadGuid, Read, GoTo, found
<1>8. ASSUME ReadGuid(FALSE) PROVE disk' = disk /\ (pc # "sig" => Settled)
  BY <1>8 DEF ReadGuid, Read, GoTo, found
<1>9. ASSUME BootCopy(TRUE) PROVE disk' = disk /\ (pc # "sig" => Settled)
  BY <1>9 DEF BootCopy, Load, Read, GoTo, found
<1>10. ASSUME BootCopy(FALSE) PROVE disk' = disk /\ (pc # "sig" => Settled)
  BY <1>10 DEF BootCopy, Load, Read, GoTo, found
<1>11. ASSUME ZslCopy(TRUE) PROVE disk' = disk /\ (pc # "sig" => Settled)
  BY <1>11 DEF ZslCopy, Load, Read, GoTo, found
<1>12. ASSUME ZslCopy(FALSE) PROVE disk' = disk /\ (pc # "sig" => Settled)
  BY <1>12 DEF ZslCopy, Load, Read, GoTo, found
<1>13. ASSUME Found PROVE disk' = disk /\ (pc # "sig" => Settled)
  BY <1>13 DEF Found, GoTo
<1>14. ASSUME NotFound PROVE disk' = disk /\ (pc # "sig" => Settled)
  BY <1>14 DEF NotFound, GoTo, found
<1>15. ASSUME ZslMain PROVE disk' = disk /\ (pc # "sig" => Settled)
  BY <1>15 DEF ZslMain, GoTo, found
<1>16. ASSUME UNCHANGED vars PROVE disk' = disk /\ (pc # "sig" => Settled)
  BY <1>16 DEF vars
<1>17. QED
  BY <1>1, <1>2, <1>3, <1>4, <1>5, <1>6, <1>7, <1>8, <1>9, <1>10, <1>11,
     <1>12, <1>13, <1>14, <1>15, <1>16 DEF Next, ReadStep

\* So what the table asks for does not change either.
LEMMA ExpectedStays ==
  ASSUME SearchInv, [Next]_vars, NEW s \in Stage
  PROVE  /\ Wanted(s)' = Wanted(s)
         /\ pc # "sig" => IsGpt' = IsGpt /\ Expected(s)' = Expected(s)
<1>1. Wanted(s)' = Wanted(s)
  BY TableStays DEF Wanted
<1>2. pc # "sig" => IsGpt' = IsGpt
  BY TableStays DEF IsGpt
<1>3. QED
  BY <1>1, <1>2, TableStays DEF Expected

\* What was loaded and is not loaded again is still what the table asks for.
LEMMA LoadedStays ==
  ASSUME SearchInv, [Next]_vars, NEW s \in Stage,
         loaded'[s] = loaded[s], loaded'[s] # Nothing
  PROVE  Range(s)' = Expected(s)' /\ (s # "zsl" => Wanted(s)' # {})
<1>1. pc # "sig"
  BY DEF SearchInv, StageInv
<1>2. Range(s) = Expected(s) /\ (s # "zsl" => Wanted(s) # {})
  BY DEF SearchInv, SearchCorrect
<1>3. Range(s)' = Range(s)
  BY DEF Range
<1>4. QED
  BY <1>1, <1>2, <1>3, ExpectedStays

\* A passing entry stays passed; which ones are, is known by the types.
LEMMA TooLargeUnwanted ==
  ASSUME SearchInv, NEW q \in 0 .. disk.count - 1
  PROVE  q \in Wanted(stage)
           <=> ~TooLarge(disk.parts[q]) /\ disk.parts[q].type = stage
<1>1. disk.parts[q] \in Entry /\ stage \in Stage
  BY DEF SearchInv, TypeOK
<1>2. QED
  BY <1>1, TableFacts DEF Wanted, TooLarge

\* An entry is passed only if it is too large or of another type.
LEMMA PassedStep ==
  ASSUME SearchInv, [Next]_vars
  PROVE  PassedInv'
<1> USE TableFacts DEF SearchInv, TypeOK, StageInv, PassedInv, Stage, found,
       OnError
<1>1. ASSUME CheckSignature(TRUE) PROVE PassedInv'
  BY <1>1 DEF CheckSignature, Read, GoTo, found
<1>2. ASSUME CheckSignature(FALSE) PROVE PassedInv'
  BY <1>2 DEF CheckSignature, Read, GoTo, found
<1>3. ASSUME ReadHeader(TRUE) PROVE PassedInv'
  BY <1>3 DEF ReadHeader, Read, GoTo, found
<1>4. ASSUME ReadHeader(FALSE) PROVE PassedInv'
  BY <1>4 DEF ReadHeader, Read, GoTo, found
<1>5. ASSUME ReadEntry(TRUE) PROVE PassedInv'
  <2>1. disk.parts[p] \in Entry
        /\ p \in 0 .. disk.count - 1 /\ disk.count \in Nat
    BY <1>5, EntryRead DEF ReadEntry
  <2>2. disk' = disk /\ stage' = stage /\ Wanted(stage)' = Wanted(stage)
    BY <1>5, ExpectedStays, TableStays DEF ReadEntry
  <2>3. CASE TooLarge(disk.parts[p])
    <3>1. p \notin Wanted(stage)
      BY <2>1, <2>3, TooLargeUnwanted
    <3>2. pc' = "entry" /\ p' = p + 1
      BY <1>5, <2>3 DEF ReadEntry, Read, GoTo
    <3>3. \A r \in 0 .. p : r \notin Wanted(stage)
      BY <1>5, <2>1, <3>1 DEF ReadEntry
    <3>4. QED
      BY <2>1, <2>2, <3>2, <3>3
  <2>4. CASE ~TooLarge(disk.parts[p])
    <3>1. pc' = "guid" /\ p' = p /\ dim' = disk.parts[p]
      BY <1>5, <2>4 DEF ReadEntry, Read, GoTo
    <3>2. QED
      BY <1>5, <2>1, <2>2, <2>4, <3>1 DEF ReadEntry, TooLarge
  <2>5. QED
    BY <2>3, <2>4
<1>6. ASSUME ReadEntry(FALSE) PROVE PassedInv'
  BY <1>6 DEF ReadEntry, RecordFirst, Smaller, Read, GoTo, found
<1>7. ASSUME ReadGuid(TRUE) PROVE PassedInv'
  <2>1. disk.parts[p] \in Entry
        /\ p \in 0 .. disk.count - 1 /\ disk.count \in Nat
    BY <1>7, EntryRead DEF ReadGuid, Read, GoTo
  <2>2. disk' = disk /\ stage' = stage /\ Wanted(stage)' = Wanted(stage)
    BY <1>7, ExpectedStays, TableStays DEF ReadGuid
  <2>3. CASE disk.parts[p].type = stage
    BY <1>7, <2>2, <2>3 DEF ReadGuid, Read, GoTo, TooLarge
  <2>4. CASE disk.parts[p].type # stage
    <3>1. p \notin Wanted(stage)
      BY <2>1, <2>4, TooLargeUnwanted
    <3>2. pc' = "entry" /\ p' = p + 1
      BY <1>7, <2>4 DEF ReadGuid, Read, GoTo
    <3>3. \A r \in 0 .. p : r \notin Wanted(stage)
      BY <1>7, <2>1, <3>1 DEF ReadGuid, Read, GoTo
    <3>4. QED
      BY <2>1, <2>2, <3>2, <3>3
  <2>5. QED
    BY <2>3, <2>4
<1>8. ASSUME ReadGuid(FALSE) PROVE PassedInv'
  BY <1>8 DEF ReadGuid, Read, GoTo, found
<1>9. ASSUME BootCopy(TRUE) PROVE PassedInv'
  BY <1>9 DEF BootCopy, Load, Read, GoTo, found
<1>10. ASSUME BootCopy(FALSE) PROVE PassedInv'
  BY <1>10 DEF BootCopy, Load, Read, GoTo, found
<1>11. ASSUME ZslCopy(TRUE) PROVE PassedInv'
  BY <1>11 DEF ZslCopy, Load, Read, GoTo, found
<1>12. ASSUME ZslCopy(FALSE) PROVE PassedInv'
  BY <1>12 DEF ZslCopy, Load, Read, GoTo, found
<1>13. ASSUME Found PROVE PassedInv'
  BY <1>13 DEF Found, GoTo
<1>14. ASSUME NotFound PROVE PassedInv'
  BY <1>14 DEF NotFound, GoTo, found
<1>15. ASSUME ZslMain PROVE PassedInv'
  BY <1>15 DEF ZslMain, GoTo, found
<1>16. ASSUME UNCHANGED vars PROVE PassedInv'
  <2>1. Wanted(stage)' = Wanted(stage)
    BY <1>16 DEF vars, Wanted
  <2>2. QED
    BY <1>16, <2>1 DEF vars, TooLarge
<1>17. QED
  BY <1>1, <1>2, <1>3, <1>4, <1>5, <1>6, <1>7, <1>8, <1>9, <1>10, <1>11,
     <1>12, <1>13, <1>14, <1>15, <1>16 DEF Next, ReadStep

\* The fallback is the start of the medium until the first entry is read, and
\* that entry from then on.
LEMMA FallbackStep ==
  ASSUME SearchInv, [Next]_vars
  PROVE  FallbackInv'
<1> USE TableFacts DEF SearchInv, TypeOK, StageInv, PassedInv, FallbackInv,
       Kept, Raw, FirstCut, Stage, found, OnError
<1>1. ASSUME CheckSignature(TRUE) PROVE FallbackInv'
  <2>1. CASE disk.sig
    BY <1>1, <2>1 DEF CheckSignature, Read, GoTo
  <2>2. CASE ~disk.sig
    BY <1>1, <2>2 DEF CheckSignature, Read, GoTo
  <2>3. QED
    BY <2>1, <2>2
<1>2. ASSUME CheckSignature(FALSE) PROVE FallbackInv'
  BY <1>2 DEF CheckSignature, Read, GoTo, found
<1>3. ASSUME ReadHeader(TRUE) PROVE FallbackInv'
  BY <1>3 DEF ReadHeader, Read, GoTo, found
<1>4. ASSUME ReadHeader(FALSE) PROVE FallbackInv'
  BY <1>4 DEF ReadHeader, Read, GoTo, found
<1>5. ASSUME ReadEntry(TRUE) PROVE FallbackInv'
  <2>1. disk.parts[p] \in Entry
        /\ p \in 0 .. disk.count - 1 /\ disk.count \in Nat
    BY <1>5, EntryRead DEF ReadEntry
  <2>2. disk' = disk /\ stage' = stage
    BY <1>5 DEF ReadEntry
  <2>3. ASSUME stage = "zsl" PROVE Kept' = FirstCut
    BY <1>5, <2>1, <2>3, RecordedRange DEF ReadEntry
  <2>4. pc' \in {"entry", "guid"} /\ (pc' = "entry" => p' = p + 1)
    BY <1>5 DEF ReadEntry, Read, GoTo
  <2>5. QED
    BY <2>1, <2>2, <2>3, <2>4
<1>6. ASSUME ReadEntry(FALSE) PROVE FallbackInv'
  BY <1>6 DEF ReadEntry, RecordFirst, Smaller, Read, GoTo, found
<1>7. ASSUME ReadGuid(TRUE) PROVE FallbackInv'
  <2>1. p \in Nat
    BY <1>7, EntryRead DEF ReadGuid, Read, GoTo
  <2>2. CASE disk.parts[p].type = stage
    BY <1>7, <2>2 DEF ReadGuid, Read, GoTo
  <2>3. CASE disk.parts[p].type # stage
    BY <1>7, <2>1, <2>3 DEF ReadGuid, Read, GoTo
  <2>4. QED
    BY <2>2, <2>3
<1>8. ASSUME ReadGuid(FALSE) PROVE FallbackInv'
  BY <1>8 DEF ReadGuid, Read, GoTo, found
<1>9. ASSUME BootCopy(TRUE) PROVE FallbackInv'
  BY <1>9 DEF BootCopy, Load, Read, GoTo, found
<1>10. ASSUME BootCopy(FALSE) PROVE FallbackInv'
  BY <1>10 DEF BootCopy, Load, Read, GoTo, found
<1>11. ASSUME ZslCopy(TRUE) PROVE FallbackInv'
  BY <1>11 DEF ZslCopy, Load, Read, GoTo, found
<1>12. ASSUME ZslCopy(FALSE) PROVE FallbackInv'
  BY <1>12 DEF ZslCopy, Load, Read, GoTo, found
<1>13. ASSUME Found PROVE FallbackInv'
  BY <1>13 DEF Found, GoTo
<1>14. ASSUME NotFound PROVE FallbackInv'
  BY <1>14 DEF NotFound, GoTo, found
<1>15. ASSUME ZslMain PROVE FallbackInv'
  BY <1>15 DEF ZslMain, GoTo, found
<1>16. ASSUME UNCHANGED vars PROVE FallbackInv'
  BY <1>16 DEF vars
<1>17. QED
  BY <1>1, <1>2, <1>3, <1>4, <1>5, <1>6, <1>7, <1>8, <1>9, <1>10, <1>11,
     <1>12, <1>13, <1>14, <1>15, <1>16 DEF Next, ReadStep

\* The search ends with the range that the table asks for, and a stage that has
\* no fallback does not end it without a partition.
LEMMA CopyStep ==
  ASSUME SearchInv, [Next]_vars
  PROVE  CopyInv'
<1> USE TableFacts DEF SearchInv, TypeOK, StageInv, PassedInv, Stage, found,
       OnError, CopyInv
<1>1. ASSUME CheckSignature(TRUE) PROVE CopyInv'
  <2>1. CASE disk.sig
    BY <1>1, <2>1 DEF CheckSignature, Read, GoTo, CopyInv
  <2>2. CASE ~disk.sig
    <3>1. stage' = "zsl" /\ ~IsGpt' /\ Kept' = Raw
      BY <1>1, <2>2 DEF CheckSignature, Read, GoTo, FallbackInv, Kept, IsGpt
    <3>2. Expected(stage)' = Raw
      BY <1>1, <3>1 DEF CheckSignature, Expected, Raw
    <3>3. QED
      BY <3>1, <3>2
  <2>3. QED
    BY <2>1, <2>2
<1>2. ASSUME CheckSignature(FALSE) PROVE CopyInv'
  <2>1. stage = "zsl" /\ <<"zsl", "sig">> \in failed' /\ Kept' = Raw
    BY <1>2 DEF CheckSignature, Read, GoTo, FallbackInv, Kept
  <2>2. QED
    BY <1>2, <2>1 DEF CheckSignature, CopyInv, Raw, Expected, IsGpt
<1>3. ASSUME ReadHeader(TRUE) PROVE CopyInv'
  BY <1>3 DEF ReadHeader, Read, GoTo, found
<1>4. ASSUME ReadHeader(FALSE) PROVE CopyInv'
  BY <1>4 DEF ReadHeader, Read, GoTo, found
<1>5. ASSUME ReadEntry(TRUE) PROVE CopyInv'
  BY <1>5 DEF ReadEntry, RecordFirst, Smaller, Read, GoTo, found
<1>6. ASSUME ReadEntry(FALSE) PROVE CopyInv'
  BY <1>6 DEF ReadEntry, RecordFirst, Smaller, Read, GoTo, found
<1>7. ASSUME ReadGuid(TRUE) PROVE CopyInv'
  BY <1>7 DEF ReadGuid, Read, GoTo, found
<1>8. ASSUME ReadGuid(FALSE) PROVE CopyInv'
  BY <1>8 DEF ReadGuid, Read, GoTo, found
<1>9. ASSUME BootCopy(TRUE) PROVE CopyInv'
  BY <1>9 DEF BootCopy, Load, Read, GoTo, found
<1>10. ASSUME BootCopy(FALSE) PROVE CopyInv'
  BY <1>10 DEF BootCopy, Load, Read, GoTo, found
<1>11. ASSUME ZslCopy(TRUE) PROVE CopyInv'
  BY <1>11 DEF ZslCopy, Load, Read, GoTo, found
<1>12. ASSUME ZslCopy(FALSE) PROVE CopyInv'
  BY <1>12 DEF ZslCopy, Load, Read, GoTo, found
<1>13. ASSUME Found PROVE CopyInv'
  <2>1. disk.parts[p] \in Entry /\ p \in 0 .. disk.count - 1
    BY <1>13, EntryRead DEF Found, GoTo
  <2>2. pc = "found" /\ dim = disk.parts[p] /\ p \in Wanted(stage)
    BY <1>13, <2>1, TooLargeUnwanted DEF Found, GoTo
  <2>3. First(Wanted(stage)) = p
    <3>1. Wanted(stage) \subseteq Nat
          /\ \A r \in 0 .. p - 1 : r \notin Wanted(stage)
      BY <1>13 DEF Found, GoTo, Wanted
    <3>2. QED
      BY <2>2, <3>1, FirstWanted
  <2>4. stage = "zsl" => IsGpt
    BY <2>1, <2>2 DEF IsGpt
  <2>5. Expected(stage) = Extent(dim)
    BY <2>2, <2>3, <2>4 DEF Expected
  <2>6. Kept' = Extent(dim) /\ stage' = stage
    BY <1>13 DEF Found, Kept, Extent
  <2>7. QED
    BY <2>2, <2>5, <2>6, ExpectedStays DEF CopyInv
<1>14. ASSUME NotFound PROVE CopyInv'
  <2>1. CASE stage = "zsl"
    <3>1. p = disk.count /\ pc = "entry" /\ disk.count \in Nat
      BY <1>14 DEF NotFound, GoTo
    <3>2. Wanted(stage) = {}
      BY <3>1 DEF Wanted
    <3>3. IsGpt <=> p # 0
      BY <2>1, <3>1 DEF IsGpt
    <3>4. Kept = Expected(stage)
      BY <2>1, <3>1, <3>2, <3>3 DEF Expected, FallbackInv, Raw, FirstCut
    <3>5. Kept' = Kept /\ stage' = stage
      BY <1>14 DEF NotFound, Kept
    <3>6. QED
      BY <2>1, <3>1, <3>4, <3>5, ExpectedStays DEF CopyInv
  <2>2. CASE stage # "zsl"
    BY <1>14, <2>2 DEF NotFound, GoTo, CopyInv
  <2>3. QED
    BY <2>1, <2>2
<1>15. ASSUME ZslMain PROVE CopyInv'
  BY <1>15 DEF ZslMain, GoTo, found
<1>16. ASSUME UNCHANGED vars PROVE CopyInv'
  <2>1. Kept' = Kept /\ stage' = stage /\ pc' = pc
    BY <1>16 DEF vars, Kept
  <2>2. QED
    BY <2>1, ExpectedStays
<1>17. QED
  BY <1>1, <1>2, <1>3, <1>4, <1>5, <1>6, <1>7, <1>8, <1>9, <1>10, <1>11,
     <1>12, <1>13, <1>14, <1>15, <1>16 DEF Next, ReadStep

\* A load of the range that the variables name keeps SearchCorrect, whether the
\* read completes or not.
LEMMA LoadedAtCopy ==
  ASSUME SearchInv, [Next]_vars, pc = "copy", NEW o,
         loaded'[stage] = [begin |-> Kept.begin, len |-> Kept.len, ok |-> o],
         \A s \in Stage : s # stage => loaded'[s] = loaded[s]
  PROVE  SearchCorrect'
<1>1. Kept = Expected(stage) /\ (stage # "zsl" => Wanted(stage) # {})
  BY DEF SearchInv, CopyInv
<1> SUFFICES ASSUME NEW s \in Stage, loaded'[s] # Nothing
             PROVE  Range(s)' = Expected(s)' /\ (s # "zsl" => Wanted(s)' # {})
  BY DEF SearchCorrect
<1>2. CASE s = stage
  <2>1. Range(s)' = Kept
    BY <1>2 DEF Range, Kept
  <2>2. QED
    BY <1>1, <1>2, <2>1, ExpectedStays
<1>3. CASE s # stage
  BY <1>3, LoadedStays
<1>4. QED
  BY <1>2, <1>3

\* What a stage loads is what it is to load, and stays so.
LEMMA SearchStep ==
  ASSUME SearchInv, [Next]_vars
  PROVE  SearchCorrect'
<1>1. ASSUME CheckSignature(TRUE) PROVE SearchCorrect'
  <2>1. loaded' = loaded
    BY <1>1 DEF CheckSignature
  <2>2. QED
    BY <2>1, LoadedStays DEF SearchCorrect
<1>2. ASSUME CheckSignature(FALSE) PROVE SearchCorrect'
  <2>1. loaded' = loaded
    BY <1>2 DEF CheckSignature
  <2>2. QED
    BY <2>1, LoadedStays DEF SearchCorrect
<1>3. ASSUME ReadHeader(TRUE) PROVE SearchCorrect'
  <2>1. loaded' = loaded
    BY <1>3 DEF ReadHeader
  <2>2. QED
    BY <2>1, LoadedStays DEF SearchCorrect
<1>4. ASSUME ReadHeader(FALSE) PROVE SearchCorrect'
  <2>1. loaded' = loaded
    BY <1>4 DEF ReadHeader
  <2>2. QED
    BY <2>1, LoadedStays DEF SearchCorrect
<1>5. ASSUME ReadEntry(TRUE) PROVE SearchCorrect'
  <2>1. loaded' = loaded
    BY <1>5 DEF ReadEntry
  <2>2. QED
    BY <2>1, LoadedStays DEF SearchCorrect
<1>6. ASSUME ReadEntry(FALSE) PROVE SearchCorrect'
  <2>1. loaded' = loaded
    BY <1>6 DEF ReadEntry
  <2>2. QED
    BY <2>1, LoadedStays DEF SearchCorrect
<1>7. ASSUME ReadGuid(TRUE) PROVE SearchCorrect'
  <2>1. loaded' = loaded
    BY <1>7 DEF ReadGuid
  <2>2. QED
    BY <2>1, LoadedStays DEF SearchCorrect
<1>8. ASSUME ReadGuid(FALSE) PROVE SearchCorrect'
  <2>1. loaded' = loaded
    BY <1>8 DEF ReadGuid
  <2>2. QED
    BY <2>1, LoadedStays DEF SearchCorrect
<1>9. ASSUME BootCopy(TRUE) PROVE SearchCorrect'
  <2>1. pc = "copy" /\ stage \in Stage
        /\ loaded \in [Stage -> [begin : Nat, len : Nat, ok : BOOLEAN]]
    BY <1>9 DEF BootCopy, Read, GoTo, SearchInv, TypeOK
  <2>2. loaded'[stage] = [begin |-> Kept.begin, len |-> Kept.len, ok |-> TRUE]
        /\ \A s \in Stage : s # stage => loaded'[s] = loaded[s]
    BY <1>9, <2>1 DEF BootCopy, Load, Kept
  <2>3. QED
    BY <2>1, <2>2, LoadedAtCopy
<1>10. ASSUME BootCopy(FALSE) PROVE SearchCorrect'
  <2>1. pc = "copy" /\ stage \in Stage
        /\ loaded \in [Stage -> [begin : Nat, len : Nat, ok : BOOLEAN]]
    BY <1>10 DEF BootCopy, Read, GoTo, SearchInv, TypeOK
  <2>2. loaded'[stage] = [begin |-> Kept.begin, len |-> Kept.len, ok |-> FALSE]
        /\ \A s \in Stage : s # stage => loaded'[s] = loaded[s]
    BY <1>10, <2>1 DEF BootCopy, Load, Kept
  <2>3. QED
    BY <2>1, <2>2, LoadedAtCopy
<1>11. ASSUME ZslCopy(TRUE) PROVE SearchCorrect'
  <2>1. pc = "copy" /\ stage \in Stage
        /\ loaded \in [Stage -> [begin : Nat, len : Nat, ok : BOOLEAN]]
    BY <1>11 DEF ZslCopy, Read, GoTo, SearchInv, TypeOK
  <2>2. loaded'[stage] = [begin |-> Kept.begin, len |-> Kept.len, ok |-> TRUE]
        /\ \A s \in Stage : s # stage => loaded'[s] = loaded[s]
    BY <1>11, <2>1 DEF ZslCopy, Load, Kept
  <2>3. QED
    BY <2>1, <2>2, LoadedAtCopy
<1>12. ASSUME ZslCopy(FALSE) PROVE SearchCorrect'
  <2>1. pc = "copy" /\ stage \in Stage
        /\ loaded \in [Stage -> [begin : Nat, len : Nat, ok : BOOLEAN]]
    BY <1>12 DEF ZslCopy, Read, GoTo, SearchInv, TypeOK
  <2>2. loaded'[stage] = [begin |-> Kept.begin, len |-> Kept.len, ok |-> FALSE]
        /\ \A s \in Stage : s # stage => loaded'[s] = loaded[s]
    BY <1>12, <2>1 DEF ZslCopy, Load, Kept
  <2>3. QED
    BY <2>1, <2>2, LoadedAtCopy
<1>13. ASSUME Found PROVE SearchCorrect'
  <2>1. loaded' = loaded
    BY <1>13 DEF Found
  <2>2. QED
    BY <2>1, LoadedStays DEF SearchCorrect
<1>14. ASSUME NotFound PROVE SearchCorrect'
  <2>1. loaded' = loaded
    BY <1>14 DEF NotFound
  <2>2. QED
    BY <2>1, LoadedStays DEF SearchCorrect
<1>15. ASSUME ZslMain PROVE SearchCorrect'
  <2>1. loaded' = loaded
    BY <1>15 DEF ZslMain
  <2>2. QED
    BY <2>1, LoadedStays DEF SearchCorrect
<1>16. ASSUME UNCHANGED vars PROVE SearchCorrect'
  <2>1. loaded' = loaded
    BY <1>16 DEF vars
  <2>2. QED
    BY <2>1, LoadedStays DEF SearchCorrect
<1>17. QED
  BY <1>1, <1>2, <1>3, <1>4, <1>5, <1>6, <1>7, <1>8, <1>9, <1>10, <1>11,
     <1>12, <1>13, <1>14, <1>15, <1>16 DEF Next, ReadStep

-----------------------------------------------------------------------------
\* The inductive invariant holds in every reachable state.
THEOREM SearchInvCorrect == Spec => []SearchInv
<1>1. Init => SearchInv
  <2> SUFFICES ASSUME Init PROVE SearchInv
    OBVIOUS
  <2>1. MaxLbas["zsl"] \in Nat /\ MaxLbas["zsl"] > 0 /\ Unused \in Entry
    BY TableFacts DEF Stage
  <2>2. disk \in [sig : BOOLEAN, count : 0 .. MaxParts,
                  parts : [0 .. disk.count - 1 -> Entry]]
    BY DEF Init, Disk
  <2>3. disk.count \in Nat
    BY <2>2, AutoBootAssumption
  <2>4. TypeOK
    <3>1. loaded \in [Stage -> [begin : Nat, len : Nat, ok : BOOLEAN]]
      BY DEF Init, Nothing
    <3>2. {lbaBegin, lbaEnd} \subseteq Nat /\ dim \in Entry
      BY <2>1 DEF Init
    <3>3. p \in 0 .. disk.count /\ partIdx \in -1 .. disk.count - 1
      BY <2>3 DEF Init
    <3>4. QED
      BY <2>2, <3>1, <3>2, <3>3 DEF Init, TypeOK, Stage
  <2>5. StageInv /\ PassedInv /\ FallbackInv
    BY <2>1 DEF Init, StageInv, PassedInv, FallbackInv, Kept, Raw
  <2>6. CopyInv /\ SearchCorrect
    BY DEF Init, CopyInv, SearchCorrect
  <2>7. QED
    BY <2>4, <2>5, <2>6 DEF SearchInv
<1>2. SearchInv /\ [Next]_vars => SearchInv'
  BY TypeStep, StageStep, PassedStep, FallbackStep, CopyStep, SearchStep
     DEF SearchInv
<1>3. QED
  BY <1>1, <1>2, PTL DEF Spec

\* Every variable of the search always has its type.
THEOREM TypeCorrect == Spec => []TypeOK
BY SearchInvCorrect, PTL DEF SearchInv

\* Every stage loads the first partition of its type that fits, cut to what it
\* may load if it is the boot ROM's fallback; only the boot ROM has one.
THEOREM SearchesRight == Spec => []SearchCorrect
BY SearchInvCorrect, PTL DEF SearchInv

\* An error of the boot ROM's search or load ends in its _exit: nothing is
\* booted after it.
THEOREM ErrorsStop == Spec => []ErrorsHalt
<1>1. Init => ErrorsHalt
  BY DEF Init, ErrorsHalt
<1>2. SearchInv /\ ErrorsHalt /\ [Next]_vars => ErrorsHalt'
  <2> SUFFICES ASSUME SearchInv, ErrorsHalt, [Next]_vars PROVE ErrorsHalt'
    OBVIOUS
  <2> USE DEF ErrorsHalt, SearchInv, StageInv, OnError
  <2>1. ASSUME CheckSignature(TRUE) PROVE ErrorsHalt'
    BY <2>1 DEF CheckSignature, Read, GoTo, found
  <2>2. ASSUME CheckSignature(FALSE) PROVE ErrorsHalt'
    BY <2>2 DEF CheckSignature, Read, GoTo, found
  <2>3. ASSUME ReadHeader(TRUE) PROVE ErrorsHalt'
    BY <2>3 DEF ReadHeader, Read, GoTo, found
  <2>4. ASSUME ReadHeader(FALSE) PROVE ErrorsHalt'
    BY <2>4 DEF ReadHeader, Read, GoTo, found
  <2>5. ASSUME ReadEntry(TRUE) PROVE ErrorsHalt'
    BY <2>5 DEF ReadEntry, RecordFirst, Smaller, Read, GoTo, found
  <2>6. ASSUME ReadEntry(FALSE) PROVE ErrorsHalt'
    BY <2>6 DEF ReadEntry, RecordFirst, Smaller, Read, GoTo, found
  <2>7. ASSUME ReadGuid(TRUE) PROVE ErrorsHalt'
    BY <2>7 DEF ReadGuid, Read, GoTo, found
  <2>8. ASSUME ReadGuid(FALSE) PROVE ErrorsHalt'
    BY <2>8 DEF ReadGuid, Read, GoTo, found
  <2>9. ASSUME BootCopy(TRUE) PROVE ErrorsHalt'
    BY <2>9 DEF BootCopy, Load, Read, GoTo, found
  <2>10. ASSUME BootCopy(FALSE) PROVE ErrorsHalt'
    BY <2>10 DEF BootCopy, Load, Read, GoTo, found
  <2>11. ASSUME ZslCopy(TRUE) PROVE ErrorsHalt'
    BY <2>11 DEF ZslCopy, Load, Read, GoTo, found
  <2>12. ASSUME ZslCopy(FALSE) PROVE ErrorsHalt'
    BY <2>12 DEF ZslCopy, Load, Read, GoTo, found
  <2>13. ASSUME Found PROVE ErrorsHalt'
    BY <2>13 DEF Found, GoTo
  <2>14. ASSUME NotFound PROVE ErrorsHalt'
    BY <2>14 DEF NotFound, GoTo, found
  <2>15. ASSUME ZslMain PROVE ErrorsHalt'
    BY <2>15 DEF ZslMain, GoTo, found
  <2>16. ASSUME UNCHANGED vars PROVE ErrorsHalt'
    BY <2>16 DEF vars
  <2>17. QED
    BY <2>1, <2>2, <2>3, <2>4, <2>5, <2>6, <2>7, <2>8, <2>9, <2>10, <2>11,
       <2>12, <2>13, <2>14, <2>15, <2>16 DEF Next, ReadStep
<1>3. QED
  BY <1>1, <1>2, SearchInvCorrect, PTL DEF Spec
=============================================================================
