--------------------------- MODULE SmpBoot_proofs ---------------------------
(***************************************************************************)
(* Proofs about SmpBoot for any number of harts, any address and any       *)
(* number of next-stage interrupts.                                        *)
(***************************************************************************)
EXTENDS SmpBoot, TLAPS

\* Hart numbers: the sender and hart 0 are harts, and a loop over the harts
\* that is not at its end steps to another hart.
LEMMA HartNumbers ==
  /\ Harts \subseteq Nat
  /\ 0 \in Harts
  /\ NONSMP_HART \in Harts
  /\ \A i \in Harts : i \in Nat /\ 0 <= i /\ (i # 0 => 0 < i)
  /\ \A i \in Harts : i + 1 < NUM_INT_HARTS => i + 1 \in Harts
  /\ \A i \in Harts : ~(i + 1 < NUM_INT_HARTS) => \A j \in Harts : j <= i
BY HartsAssumption DEF Harts

\* The program location and the MSIP bits always have their types, and so
\* have the scratch registers, the pending stores and the loaded addresses.
THEOREM TypeCorrect == Spec => []TypeOK
<1> USE HartNumbers, HartsAssumption DEF TypeOK,
        BeforeSend, PastScan, Cleared, Location
<1>1. Init => TypeOK
  BY DEF Init, Address, ScratchRegs
<1>2. TypeOK /\ [Next]_vars => TypeOK'
  <2> SUFFICES ASSUME TypeOK, [Next]_vars PROVE TypeOK'
    OBVIOUS
  <2>1. ASSUME NEW h \in Harts, SmpPause(h) PROVE TypeOK'
    BY <2>1 DEF SmpPause, GoTo
  <2>2. ASSUME NEW h \in Harts, WakeUp(h) PROVE TypeOK'
    BY <2>2 DEF WakeUp, GoTo
  <2>3. ASSUME NEW h \in Harts, ClearIpi(h) PROVE TypeOK'
    BY <2>3 DEF ClearIpi, GoTo
  <2>4. ASSUME NEW h \in Harts, Scan(h) PROVE TypeOK'
    <3>1. pc[h] = "scan" /\ idx[h] \in Harts
      BY <2>4 DEF Scan
    <3>2. idx' \in [Harts -> Harts]
      BY <2>4, <3>1 DEF Scan
    <3>3. pc' \in [Harts -> Location]
      BY <2>4 DEF Scan
    <3>4. QED
      BY <2>4, <3>2, <3>3 DEF Scan
  <2>5. ASSUME NEW h \in Harts, LoadHi(h) PROVE TypeOK'
    <3>1. dest[h] \in [lo : Word, hi : Word] /\ scratch[5] \in Word
      BY DEF Address, ScratchRegs
    <3>2. [dest[h] EXCEPT !.hi = scratch[5]] \in Address
      BY <3>1 DEF Address
    <3>3. QED
      BY <2>5, <3>2 DEF LoadHi, GoTo
  <2>6. ASSUME NEW h \in Harts, LoadLoAndJump(h) PROVE TypeOK'
    BY <2>6 DEF LoadLoAndJump, GoTo, Address, ScratchRegs
  <2>7. ASSUME NEW addr \in Address, CallNextStage(addr) PROVE TypeOK'
    BY <2>7 DEF CallNextStage, GoTo
  <2>8. CASE Exit
    BY <2>8 DEF Exit, GoTo
  <2>9. CASE WriteLo
    BY <2>9 DEF WriteLo, GoTo, StoreScratch, Address, ScratchRegs
  <2>10. CASE WriteHi
    BY <2>10 DEF WriteHi, GoTo, StoreScratch, Address, ScratchRegs
  <2>11. CASE Fence
    BY <2>11 DEF Fence, GoTo, Drained
  <2>12. CASE SendIpi
    BY ZenonT(40), <2>12 DEF SendIpi
  <2>13. ASSUME NEW r \in ScratchRegs, Drain(r) PROVE TypeOK'
    BY <2>13 DEF Drain
  <2>14. ASSUME NEW h \in Harts, NEW t \in Harts, NextStageIpi(h, t)
         PROVE TypeOK'
    BY <2>14 DEF NextStageIpi
  <2>15. ASSUME NEW h \in Harts, NextStageAck(h) PROVE TypeOK'
    BY <2>15 DEF NextStageAck
  <2>16. ASSUME NEW h \in Harts, Return(h) PROVE TypeOK'
    BY <2>16 DEF Return, GoTo
  <2>17. CASE UNCHANGED vars
    BY <2>17 DEF vars
  <2>18. QED
    BY <2>1, <2>2, <2>3, <2>4, <2>5, <2>6, <2>7, <2>8, <2>9, <2>10, <2>11,
       <2>12, <2>13, <2>14, <2>15, <2>16, <2>17
       DEF Next, HartStep, Publish, NextStage
<1>3. QED
  BY <1>1, <1>2, PTL DEF Spec
\* Only the boot ROM's hart runs the boot ROM's C code and publishes.
LEMMA PlaceInvStep ==
  ASSUME TypeOK, HandoverInv, [Next]_vars
  PROVE  PlaceInv'
<1> USE HartNumbers DEF TypeOK, HandoverInv, PlaceInv, SenderOnly, Sent,
     SenderOnly, Cleared, PastScan, BeforeSend, Location, MsipInv
<1>1. ASSUME NEW h \in Harts, SmpPause(h) PROVE PlaceInv'
  BY <1>1 DEF SmpPause, GoTo
<1>2. ASSUME NEW h \in Harts, WakeUp(h) PROVE PlaceInv'
  BY <1>2 DEF WakeUp, GoTo
<1>3. ASSUME NEW h \in Harts, ClearIpi(h) PROVE PlaceInv'
  BY <1>3 DEF ClearIpi, GoTo
<1>4. ASSUME NEW h \in Harts, Scan(h) PROVE PlaceInv'
  BY <1>4 DEF Scan
<1>5. ASSUME NEW h \in Harts, LoadHi(h) PROVE PlaceInv'
  BY <1>5 DEF LoadHi, GoTo
<1>6. ASSUME NEW h \in Harts, LoadLoAndJump(h) PROVE PlaceInv'
  BY <1>6 DEF LoadLoAndJump, GoTo
<1>7. ASSUME NEW addr \in Address, CallNextStage(addr) PROVE PlaceInv'
  BY <1>7 DEF CallNextStage, GoTo
<1>8. ASSUME Exit PROVE PlaceInv'
  BY <1>8 DEF Exit, GoTo
<1>9. ASSUME WriteLo PROVE PlaceInv'
  BY <1>9 DEF WriteLo, GoTo, StoreScratch
<1>10. ASSUME WriteHi PROVE PlaceInv'
  BY <1>10 DEF WriteHi, GoTo, StoreScratch
<1>11. ASSUME Fence PROVE PlaceInv'
  BY <1>11 DEF Fence, GoTo, Drained
<1>12. ASSUME SendIpi PROVE PlaceInv'
  BY <1>12 DEF SendIpi
<1>13. ASSUME NEW r \in ScratchRegs, Drain(r) PROVE PlaceInv'
  BY <1>13 DEF Drain
<1>14. ASSUME NEW h \in Harts, NEW t \in Harts, NextStageIpi(h, t) PROVE
     PlaceInv'
  BY <1>14 DEF NextStageIpi
<1>15. ASSUME NEW h \in Harts, NextStageAck(h) PROVE PlaceInv'
  BY <1>15 DEF NextStageAck
<1>16. ASSUME NEW h \in Harts, Return(h) PROVE PlaceInv'
  BY <1>16 DEF Return, GoTo
<1>17. ASSUME UNCHANGED vars PROVE PlaceInv'
  BY <1>17 DEF vars
<1>18. QED
  BY <1>1, <1>2, <1>3, <1>4, <1>5, <1>6, <1>7, <1>8, <1>9, <1>10, <1>11,
       <1>12, <1>13, <1>14, <1>15, <1>16, <1>17
     DEF Next, HartStep, Publish, NextStage

\* A hart's MSIP bit tells, at any moment, whether it was woken and whether it
\* has taken the wake-up.
LEMMA MsipInvStep ==
  ASSUME TypeOK, HandoverInv, [Next]_vars
  PROVE  MsipInv'
<1> USE HartNumbers DEF TypeOK, HandoverInv, PlaceInv, MsipInv, Sent,
     SenderOnly, Cleared, PastScan, BeforeSend, Location
<1>1. ASSUME NEW h \in Harts, SmpPause(h) PROVE MsipInv'
  BY <1>1 DEF SmpPause, GoTo
<1>2. ASSUME NEW h \in Harts, WakeUp(h) PROVE MsipInv'
  BY <1>2 DEF WakeUp, GoTo
<1>3. ASSUME NEW h \in Harts, ClearIpi(h) PROVE MsipInv'
  BY <1>3 DEF ClearIpi, GoTo
<1>4. ASSUME NEW h \in Harts, Scan(h) PROVE MsipInv'
  BY <1>4 DEF Scan
<1>5. ASSUME NEW h \in Harts, LoadHi(h) PROVE MsipInv'
  BY <1>5 DEF LoadHi, GoTo
<1>6. ASSUME NEW h \in Harts, LoadLoAndJump(h) PROVE MsipInv'
  BY <1>6 DEF LoadLoAndJump, GoTo
<1>7. ASSUME NEW addr \in Address, CallNextStage(addr) PROVE MsipInv'
  BY <1>7 DEF CallNextStage, GoTo
<1>8. ASSUME Exit PROVE MsipInv'
  BY <1>8 DEF Exit, GoTo
<1>9. ASSUME WriteLo PROVE MsipInv'
  BY <1>9 DEF WriteLo, GoTo, StoreScratch
<1>10. ASSUME WriteHi PROVE MsipInv'
  BY <1>10 DEF WriteHi, GoTo, StoreScratch
<1>11. ASSUME Fence PROVE MsipInv'
  BY <1>11 DEF Fence, GoTo, Drained
<1>12. ASSUME SendIpi PROVE MsipInv'
  <2> DEFINE S == NONSMP_HART
  <2>1. pc[S] = "send" /\ idx[S] \in Harts /\ msip' = [msip EXCEPT ![idx[S]] =
       1]
    BY <1>12 DEF SendIpi
  <2>2. \A g \in Harts : g # S => pc'[g] = pc[g]
    BY <1>12 DEF SendIpi
  <2>3. pc'[S] \in {"send", "wait"} /\ pc[S] \notin Cleared /\ pc'[S] \notin
       Cleared
    BY <1>12, <2>1 DEF SendIpi
  <2>4. ASSUME NEW g \in Harts PROVE Sent(g)' <=> Sent(g) \/ g = idx[S]
    <3> g \in Nat /\ idx[S] \in Nat
      BY <2>1
    <3>0. Sent(g) <=> g < idx[S]
      BY <2>1
    <3>1. CASE idx[S] + 1 < NUM_INT_HARTS
      <4>1. pc'[S] = "send" /\ idx'[S] = idx[S] + 1
        BY <1>12, <2>1, <3>1 DEF SendIpi
      <4>2. Sent(g)' <=> g < idx[S] + 1
        BY <4>1
      <4>3. QED
        BY <3>0, <4>2
    <3>2. CASE ~(idx[S] + 1 < NUM_INT_HARTS)
      <4>1. g <= idx[S]
        BY <2>1, <3>2
      <4>2. pc'[S] = "wait"
        BY <1>12, <3>2 DEF SendIpi
      <4>3. Sent(g)'
        BY <4>2
      <4>4. QED
        BY <3>0, <4>1, <4>3
    <3>3. QED
      BY <3>1, <3>2
  <2>5. ASSUME NEW g \in Harts
        PROVE  /\ ~Sent(g)' => msip'[g] = 0
               /\ ~Sent(g)' /\ g # S => pc'[g] \in {"reset", "wait"}
               /\ Sent(g)' /\ pc'[g] \notin Cleared => msip'[g] = 1
    BY <2>1, <2>2, <2>3, <2>4
  <2>6. ASSUME NEW g \in Harts, pc'[g] \in Cleared, msip'[g] = 1
        PROVE  pc'[g] = "next" /\ ipis' > 0
    <3>1. g # S /\ pc'[g] = pc[g]
      BY <2>2, <2>3, <2>6
    <3>2. Sent(g)
      BY <2>6, <3>1
    <3>3. g # idx[S]
      BY <2>1, <3>2
    <3>4. msip[g] = 1 /\ ipis' = ipis
      BY <1>12, <2>1, <2>6, <3>3 DEF SendIpi
    <3>5. QED
      BY <2>6, <3>1, <3>4
  <2>7. QED
    BY <2>5, <2>6
<1>13. ASSUME NEW r \in ScratchRegs, Drain(r) PROVE MsipInv'
  BY <1>13 DEF Drain
<1>14. ASSUME NEW h \in Harts, NEW t \in Harts, NextStageIpi(h, t) PROVE
     MsipInv'
  BY <1>14 DEF NextStageIpi
<1>15. ASSUME NEW h \in Harts, NextStageAck(h) PROVE MsipInv'
  BY <1>15 DEF NextStageAck
<1>16. ASSUME NEW h \in Harts, Return(h) PROVE MsipInv'
  BY <1>16 DEF Return, GoTo
<1>17. ASSUME UNCHANGED vars PROVE MsipInv'
  BY <1>17 DEF vars
<1>18. QED
  BY <1>1, <1>2, <1>3, <1>4, <1>5, <1>6, <1>7, <1>8, <1>9, <1>10, <1>11,
       <1>12, <1>13, <1>14, <1>15, <1>16, <1>17
     DEF Next, HartStep, Publish, NextStage

\* The words of the address are in the registers, or on their way, as far as
\* boot_next_stage has come; behind the fence they have arrived.
LEMMA ScratchInvStep ==
  ASSUME TypeOK, HandoverInv, [Next]_vars
  PROVE  ScratchInv'
<1> USE HartNumbers DEF TypeOK, HandoverInv, PlaceInv, ScratchInv, Sent,
     SenderOnly, Cleared, PastScan, BeforeSend, Location, MsipInv, ScratchInv,
     Holds, Drained, ScratchRegs, Address
<1>1. ASSUME NEW h \in Harts, SmpPause(h) PROVE ScratchInv'
  BY <1>1 DEF SmpPause, GoTo
<1>2. ASSUME NEW h \in Harts, WakeUp(h) PROVE ScratchInv'
  BY <1>2 DEF WakeUp, GoTo
<1>3. ASSUME NEW h \in Harts, ClearIpi(h) PROVE ScratchInv'
  BY <1>3 DEF ClearIpi, GoTo
<1>4. ASSUME NEW h \in Harts, Scan(h) PROVE ScratchInv'
  BY <1>4 DEF Scan
<1>5. ASSUME NEW h \in Harts, LoadHi(h) PROVE ScratchInv'
  BY <1>5 DEF LoadHi, GoTo
<1>6. ASSUME NEW h \in Harts, LoadLoAndJump(h) PROVE ScratchInv'
  BY <1>6 DEF LoadLoAndJump, GoTo
<1>7. ASSUME NEW addr \in Address, CallNextStage(addr) PROVE ScratchInv'
  BY <1>7 DEF CallNextStage, GoTo
<1>8. ASSUME Exit PROVE ScratchInv'
  BY <1>8 DEF Exit, GoTo
<1>9. ASSUME WriteLo PROVE ScratchInv'
  BY <1>9, HartsAssumption DEF WriteLo, GoTo, StoreScratch
<1>10. ASSUME WriteHi PROVE ScratchInv'
  BY <1>10, HartsAssumption DEF WriteHi, GoTo, StoreScratch
<1>11. ASSUME Fence PROVE ScratchInv'
  BY <1>11 DEF Fence, GoTo, Drained
<1>12. ASSUME SendIpi PROVE ScratchInv'
  BY <1>12 DEF SendIpi
<1>13. ASSUME NEW r \in ScratchRegs, Drain(r) PROVE ScratchInv'
  BY <1>13 DEF Drain
<1>14. ASSUME NEW h \in Harts, NEW t \in Harts, NextStageIpi(h, t) PROVE
     ScratchInv'
  BY <1>14 DEF NextStageIpi
<1>15. ASSUME NEW h \in Harts, NextStageAck(h) PROVE ScratchInv'
  BY <1>15 DEF NextStageAck
<1>16. ASSUME NEW h \in Harts, Return(h) PROVE ScratchInv'
  BY <1>16 DEF Return, GoTo
<1>17. ASSUME UNCHANGED vars PROVE ScratchInv'
  BY <1>17 DEF vars
<1>18. QED
  BY <1>1, <1>2, <1>3, <1>4, <1>5, <1>6, <1>7, <1>8, <1>9, <1>10, <1>11,
       <1>12, <1>13, <1>14, <1>15, <1>16, <1>17
     DEF Next, HartStep, Publish, NextStage

\* What a hart has loaded so far is part of the published address.
LEMMA DestInvStep ==
  ASSUME TypeOK, HandoverInv, [Next]_vars
  PROVE  DestInv'
<1> USE HartNumbers DEF TypeOK, HandoverInv, PlaceInv, DestInv, Sent,
     SenderOnly, Cleared, PastScan, BeforeSend, Location, MsipInv, ScratchInv,
     Holds, Drained, ScratchRegs, Address
<1>1. ASSUME NEW h \in Harts, SmpPause(h) PROVE DestInv'
  BY <1>1 DEF SmpPause, GoTo
<1>2. ASSUME NEW h \in Harts, WakeUp(h) PROVE DestInv'
  BY <1>2 DEF WakeUp, GoTo
<1>3. ASSUME NEW h \in Harts, ClearIpi(h) PROVE DestInv'
  BY <1>3 DEF ClearIpi, GoTo
<1>4. ASSUME NEW h \in Harts, Scan(h) PROVE DestInv'
  BY <1>4 DEF Scan
<1>5. ASSUME NEW h \in Harts, LoadHi(h) PROVE DestInv'
  <2>1. pc[h] = "ldhi" /\ pc' = [pc EXCEPT ![h] = "ldlo"] /\ a0' = a0
    BY <1>5 DEF LoadHi, GoTo
  <2>2. dest' = [dest EXCEPT ![h].hi = scratch[5]]
    BY <1>5 DEF LoadHi
  <2>3. scratch[5] = a0.hi
    BY <2>1
  <2>4. dest'[h].hi = a0.hi
    BY <2>2, <2>3 DEF Address
  <2>5. \A g \in Harts : g # h => dest'[g] = dest[g]
    BY <2>2
  <2>6. QED
    BY <2>1, <2>4, <2>5
<1>6. ASSUME NEW h \in Harts, LoadLoAndJump(h) PROVE DestInv'
  <2>1. pc[h] = "ldlo" /\ pc' = [pc EXCEPT ![h] = "next"] /\ a0' = a0
    BY <1>6 DEF LoadLoAndJump, GoTo
  <2>2. dest' = [dest EXCEPT ![h].lo = scratch[4]]
    BY <1>6 DEF LoadLoAndJump
  <2>3. scratch[4] = a0.lo /\ dest[h].hi = a0.hi
    BY <2>1
  <2>4. dest'[h] = a0
    BY <2>2, <2>3 DEF Address
  <2>5. \A g \in Harts : g # h => dest'[g] = dest[g]
    BY <2>2
  <2>6. QED
    BY <2>1, <2>4, <2>5
<1>7. ASSUME NEW addr \in Address, CallNextStage(addr) PROVE DestInv'
  BY <1>7 DEF CallNextStage, GoTo
<1>8. ASSUME Exit PROVE DestInv'
  BY <1>8 DEF Exit, GoTo
<1>9. ASSUME WriteLo PROVE DestInv'
  BY <1>9 DEF WriteLo, GoTo, StoreScratch
<1>10. ASSUME WriteHi PROVE DestInv'
  BY <1>10 DEF WriteHi, GoTo, StoreScratch
<1>11. ASSUME Fence PROVE DestInv'
  BY <1>11 DEF Fence, GoTo, Drained
<1>12. ASSUME SendIpi PROVE DestInv'
  BY <1>12 DEF SendIpi
<1>13. ASSUME NEW r \in ScratchRegs, Drain(r) PROVE DestInv'
  BY <1>13 DEF Drain
<1>14. ASSUME NEW h \in Harts, NEW t \in Harts, NextStageIpi(h, t) PROVE
     DestInv'
  BY <1>14 DEF NextStageIpi
<1>15. ASSUME NEW h \in Harts, NextStageAck(h) PROVE DestInv'
  BY <1>15 DEF NextStageAck
<1>16. ASSUME NEW h \in Harts, Return(h) PROVE DestInv'
  BY <1>16 DEF Return, GoTo
<1>17. ASSUME UNCHANGED vars PROVE DestInv'
  BY <1>17 DEF vars
<1>18. QED
  BY <1>1, <1>2, <1>3, <1>4, <1>5, <1>6, <1>7, <1>8, <1>9, <1>10, <1>11,
       <1>12, <1>13, <1>14, <1>15, <1>16, <1>17
     DEF Next, HartStep, Publish, NextStage

\* With hart 0 as sender, a scan steps only over harts that have cleared their
\* bit: bit 0 is clear only behind the whole of loop 1.
LEMMA ScanInvStep ==
  ASSUME TypeOK, HandoverInv, [Next]_vars, NONSMP_HART = 0
  PROVE  ScanInv'
<1> USE HartNumbers DEF TypeOK, HandoverInv, PlaceInv, ScanInv, Sent,
     SenderOnly, Cleared, PastScan, BeforeSend, Location, MsipInv
<1>1. ASSUME NEW h \in Harts, SmpPause(h) PROVE ScanInv'
  BY <1>1 DEF SmpPause, GoTo
<1>2. ASSUME NEW h \in Harts, WakeUp(h) PROVE ScanInv'
  BY <1>2 DEF WakeUp, GoTo
<1>3. ASSUME NEW h \in Harts, ClearIpi(h) PROVE ScanInv'
  BY <1>3 DEF ClearIpi, GoTo
<1>4. ASSUME NEW h \in Harts, Scan(h) PROVE ScanInv'
  <2>1. pc[h] = "scan" /\ msip[idx[h]] = 0 /\ idx[h] \in Harts
    BY <1>4 DEF Scan
  <2>2. pc[idx[h]] \in Cleared
    <3>1. Sent(h)
      BY <2>1
    <3>2. Sent(0)
      <4>1. CASE pc[0] \in {"wait", "clear"} \cup Cleared
        BY <4>1
      <4>2. CASE pc[0] = "send" /\ h < idx[0]
        <5>1. h \in Nat /\ idx[0] \in Nat
          OBVIOUS
        <5>2. QED
          BY <4>2, <5>1
      <4>3. QED
        BY <3>1, <4>1, <4>2
    <3>3. CASE idx[h] = 0
      BY <2>1, <3>2, <3>3
    <3>4. CASE idx[h] # 0
      <4>1. pc[0] \in Cleared
        <5>1. idx[h] \in Nat /\ 0 < idx[h]
          BY <2>1, <3>4
        <5>2. QED
          BY <2>1, <5>1
      <4>2. Sent(idx[h])
        BY <4>1
      <4>3. QED
        BY ZenonT(40), <2>1, <4>2
    <3>5. QED
      BY <3>3, <3>4
  <2>3. \A g \in Harts : pc[g] \in Cleared => pc'[g] \in Cleared
    BY <1>4 DEF Scan
  <2>4. \A k \in Harts : k # h => pc'[k] = pc[k] /\ idx'[k] = idx[k]
    BY <1>4 DEF Scan
  <2>5. ASSUME NEW g \in Harts, g <= idx[h] PROVE pc[g] \in Cleared
    <3>1. g \in Nat /\ idx[h] \in Nat
      BY <2>1
    <3>2. g = idx[h] \/ g < idx[h]
      BY <2>5, <3>1
    <3>3. QED
      BY <2>1, <2>2, <3>2
  <2>6. CASE idx[h] + 1 < NUM_INT_HARTS
    <3>1. idx'[h] = idx[h] + 1 /\ pc' = pc
      BY <1>4, <2>1, <2>6 DEF Scan
    <3>2. \A g \in Harts : g < idx'[h] => pc[g] \in Cleared
      <4>1. \A g \in Harts : g \in Nat /\ idx[h] \in Nat
        BY <2>1
      <4>2. QED
        BY <2>5, <3>1, <4>1
    <3>3. pc'[h] = "scan"
      BY <2>1, <3>1
    <3>4. QED
      BY <2>3, <2>4, <3>2, <3>3
  <2>7. CASE ~(idx[h] + 1 < NUM_INT_HARTS)
    <3>1. \A g \in Harts : pc[g] \in Cleared
      BY <2>1, <2>5, <2>7
    <3>2. QED
      BY <2>3, <3>1
  <2>8. QED
    BY <2>6, <2>7
<1>5. ASSUME NEW h \in Harts, LoadHi(h) PROVE ScanInv'
  BY <1>5 DEF LoadHi, GoTo
<1>6. ASSUME NEW h \in Harts, LoadLoAndJump(h) PROVE ScanInv'
  BY <1>6 DEF LoadLoAndJump, GoTo
<1>7. ASSUME NEW addr \in Address, CallNextStage(addr) PROVE ScanInv'
  BY <1>7 DEF CallNextStage, GoTo
<1>8. ASSUME Exit PROVE ScanInv'
  BY <1>8 DEF Exit, GoTo
<1>9. ASSUME WriteLo PROVE ScanInv'
  BY <1>9 DEF WriteLo, GoTo, StoreScratch
<1>10. ASSUME WriteHi PROVE ScanInv'
  BY <1>10 DEF WriteHi, GoTo, StoreScratch
<1>11. ASSUME Fence PROVE ScanInv'
  BY <1>11 DEF Fence, GoTo, Drained
<1>12. ASSUME SendIpi PROVE ScanInv'
  BY <1>12 DEF SendIpi
<1>13. ASSUME NEW r \in ScratchRegs, Drain(r) PROVE ScanInv'
  BY <1>13 DEF Drain
<1>14. ASSUME NEW h \in Harts, NEW t \in Harts, NextStageIpi(h, t) PROVE
     ScanInv'
  BY <1>14 DEF NextStageIpi
<1>15. ASSUME NEW h \in Harts, NextStageAck(h) PROVE ScanInv'
  BY <1>15 DEF NextStageAck
<1>16. ASSUME NEW h \in Harts, Return(h) PROVE ScanInv'
  BY <1>16 DEF Return, GoTo
<1>17. ASSUME UNCHANGED vars PROVE ScanInv'
  BY <1>17 DEF vars
<1>18. QED
  BY <1>1, <1>2, <1>3, <1>4, <1>5, <1>6, <1>7, <1>8, <1>9, <1>10, <1>11,
       <1>12, <1>13, <1>14, <1>15, <1>16, <1>17
     DEF Next, HartStep, Publish, NextStage
-----------------------------------------------------------------------------
\* At every point of the boot, the MSIP bits, the pending stores, the scratch
\* registers and the scan positions say of the other harts what HandoverInv
\* states.
THEOREM HandoverCorrect == Spec => []HandoverInv
<1>1. Init => HandoverInv
  BY HartNumbers DEF Init, HandoverInv, PlaceInv, MsipInv, ScratchInv, DestInv,
     ScanInv, SenderOnly, Sent, Cleared, PastScan, BeforeSend, Drained
<1>2. TypeOK /\ HandoverInv /\ [Next]_vars => HandoverInv'
  <2> SUFFICES ASSUME TypeOK, HandoverInv, [Next]_vars PROVE HandoverInv'
    OBVIOUS
  <2>1. PlaceInv' /\ MsipInv' /\ ScratchInv' /\ DestInv'
    BY PlaceInvStep, MsipInvStep, ScratchInvStep, DestInvStep
  <2>2. ASSUME NONSMP_HART = 0 PROVE ScanInv'
    BY <2>2, ScanInvStep
  <2>3. QED
    BY <2>1, <2>2 DEF HandoverInv
<1>3. QED
  BY <1>1, <1>2, TypeCorrect, PTL DEF Spec

\* Whichever hart runs the boot ROM, every hart that enters the next stage
\* enters it at the address passed to boot_next_stage.
THEOREM Agreement == Spec => []EntryAgreement
<1>1. HandoverInv => EntryAgreement
  BY DEF HandoverInv, DestInv, EntryAgreement
<1>2. QED
  BY <1>1, HandoverCorrect, PTL

\* No software interrupt of the boot ROM reaches the next stage.
THEOREM NoStaleInterrupt == Spec => []CleanHandover
<1>1. HandoverInv => CleanHandover
  BY DEF HandoverInv, MsipInv, CleanHandover
<1>2. QED
  BY <1>1, HandoverCorrect, PTL

\* With hart 0 as the sender, for any number of harts, the MSIP bits make a
\* barrier: nobody passes loop 3 before everybody has cleared its bit.
THEOREM BarrierCorrect ==
  ASSUME NONSMP_HART = 0
  PROVE  Spec => []Barrier
<1>1. HandoverInv => Barrier
  BY DEF HandoverInv, ScanInv, Barrier
<1>2. QED
  BY <1>1, HandoverCorrect, PTL

\* Nobody leaves _exit: its loop around wfi has no other end.
LEMMA ExitStays ==
  ASSUME TypeOK, pc[NONSMP_HART] = "exit", [Next]_vars
  PROVE  pc'[NONSMP_HART] = "exit"
<1> USE HartNumbers DEF TypeOK
<1>1. ASSUME NEW h \in Harts, HartStep(h) PROVE pc'[NONSMP_HART] = "exit"
  BY <1>1 DEF HartStep, SmpPause, WakeUp, ClearIpi, Scan, LoadHi, LoadLoAndJump, GoTo
<1>2. ASSUME NEW addr \in Address, CallNextStage(addr) PROVE pc'[NONSMP_HART] = "exit"
  BY <1>2 DEF CallNextStage, GoTo
<1>3. ASSUME Exit \/ Publish PROVE pc'[NONSMP_HART] = "exit"
  BY <1>3 DEF Exit, Publish, WriteLo, WriteHi, Fence, SendIpi, GoTo
<1>4. ASSUME NEW r \in ScratchRegs, Drain(r) PROVE pc'[NONSMP_HART] = "exit"
  BY <1>4 DEF Drain
<1>5. ASSUME NextStage PROVE pc'[NONSMP_HART] = "exit"
  BY <1>5 DEF NextStage, NextStageIpi, NextStageAck, Return, GoTo
<1>6. ASSUME UNCHANGED vars PROVE pc'[NONSMP_HART] = "exit"
  BY <1>6 DEF vars
<1>7. QED
  BY <1>1, <1>2, <1>3, <1>4, <1>5, <1>6 DEF Next

\* When the boot ROM's main returns instead of calling boot_next_stage, the other
\* harts sleep in smp_pause for ever: no MSIP bit is raised then, nor later.
THEOREM ParkedForEver == Spec => ParkedOnExit
<1> DEFINE Returned == pc[NONSMP_HART] = "exit"
           Parked   == \A h \in Harts \ {NONSMP_HART} : pc[h] \in {"reset", "wait"}
<1>1. HandoverInv => (Returned => Parked)
  BY DEF HandoverInv, MsipInv, Sent, Cleared, PastScan
<1>2. TypeOK /\ Returned /\ [Next]_vars => Returned'
  BY ExitStays
<1> HIDE DEF Returned, Parked
<1>3. Spec => [](Returned => []Parked)
  BY <1>1, <1>2, TypeCorrect, HandoverCorrect, PTL DEF Spec
<1>4. QED
  BY <1>3 DEF ParkedOnExit, Returned, Parked

-----------------------------------------------------------------------------
\* An address of two words is not the address not published yet.
LEMMA NoAddressIsNone == NoAddress \notin Address
BY HartsAssumption DEF NoAddress, Address

\* boot_next_stage implements the abstract handover: one address, nobody
\* leaves before everybody arrived, each leaves once, for that address.
THEOREM HandoverRefinement ==
  ASSUME NONSMP_HART = 0
  PROVE  Spec => ImplementsHandover
<1> DEFINE entryM == IF pc[NONSMP_HART] \in {"reset", "main", "exit"}
                     THEN NoAddress ELSE a0
           arrivedM == {h \in Harts : pc[h] \in Cleared}
           leftM == [h \in Harts |-> IF pc[h] \in {"next", "spin"}
                                     THEN dest[h] ELSE NoAddress]
<1>1. Init => Handover!Init
  BY HartNumbers DEF Init, Handover!Init, Cleared, PastScan
<1>2. TypeOK /\ HandoverInv /\ HandoverInv' /\ [Next]_vars
        => [Handover!Next]_(Handover!abstractVars)
  <2> SUFFICES ASSUME TypeOK, HandoverInv, HandoverInv', [Next]_vars
               PROVE  Handover!Next \/ UNCHANGED Handover!abstractVars
    OBVIOUS
  <2> USE HartNumbers DEF TypeOK
  <2> USE HartNumbers DEF Cleared, PastScan, Handover!abstractVars
  <2>0. \A h \in Harts : pc[h] \in SenderOnly => h = NONSMP_HART
    BY DEF HandoverInv, PlaceInv
  <2> USE <2>0 DEF SenderOnly
  <2>1. ASSUME NEW h \in Harts, SmpPause(h)
        PROVE  UNCHANGED Handover!abstractVars
    BY <2>1 DEF SmpPause, GoTo
  <2>2. ASSUME NEW h \in Harts, WakeUp(h)
        PROVE  UNCHANGED Handover!abstractVars
    BY <2>2 DEF WakeUp, GoTo
  <2>3. ASSUME NEW h \in Harts, Scan(h)
        PROVE  UNCHANGED Handover!abstractVars
    BY <2>3 DEF Scan
  <2>4. ASSUME NEW h \in Harts, LoadHi(h)
        PROVE  UNCHANGED Handover!abstractVars
    BY <2>4 DEF LoadHi, GoTo
  <2>5. ASSUME Exit
        PROVE  UNCHANGED Handover!abstractVars
    BY <2>5 DEF Exit, GoTo
  <2>6. ASSUME WriteLo
        PROVE  UNCHANGED Handover!abstractVars
    BY <2>6 DEF WriteLo, GoTo
  <2>7. ASSUME WriteHi
        PROVE  UNCHANGED Handover!abstractVars
    BY <2>7 DEF WriteHi, GoTo
  <2>8. ASSUME Fence
        PROVE  UNCHANGED Handover!abstractVars
    BY <2>8 DEF Fence, GoTo
  <2>9. ASSUME SendIpi
        PROVE  UNCHANGED Handover!abstractVars
    BY <2>9 DEF SendIpi
  <2>10. ASSUME NEW r \in ScratchRegs, Drain(r)
        PROVE  UNCHANGED Handover!abstractVars
    BY <2>10 DEF Drain
  <2>11. ASSUME NEW h \in Harts, NEW t \in Harts, NextStageIpi(h, t)
        PROVE  UNCHANGED Handover!abstractVars
    BY <2>11 DEF NextStageIpi
  <2>12. ASSUME NEW h \in Harts, NextStageAck(h)
        PROVE  UNCHANGED Handover!abstractVars
    BY <2>12 DEF NextStageAck
  <2>13. ASSUME NEW h \in Harts, Return(h)
        PROVE  UNCHANGED Handover!abstractVars
    BY <2>13 DEF Return, GoTo
  <2>14. ASSUME UNCHANGED vars
        PROVE  UNCHANGED Handover!abstractVars
    BY <2>14 DEF vars
  <2>15. ASSUME NEW addr \in Address, CallNextStage(addr)
         PROVE  Handover!Next
    <3>1. pc[NONSMP_HART] = "main" /\ pc' = [pc EXCEPT ![NONSMP_HART] = "lo"]
      BY <2>15 DEF CallNextStage, GoTo
    <3>2. a0' = addr /\ dest' = dest
      BY <2>15 DEF CallNextStage
    <3>3. entryM = NoAddress /\ entryM' = addr
      BY <3>1, <3>2
    <3>4. arrivedM' = arrivedM /\ leftM' = leftM
      BY <3>1, <3>2
    <3>5. Handover!Announce(addr)
      BY <3>3, <3>4 DEF Handover!Announce
    <3>6. QED
      BY <3>5 DEF Handover!Next
  <2>16. ASSUME NEW h \in Harts, ClearIpi(h)
         PROVE  Handover!Next
    <3>1. pc[h] = "clear" /\ pc' = [pc EXCEPT ![h] = "scan"]
      BY <2>16 DEF ClearIpi, GoTo
    <3>2. a0' = a0 /\ dest' = dest
      BY <2>16 DEF ClearIpi
    <3>3. pc[NONSMP_HART] \notin {"reset", "main", "exit"}
      BY <3>1 DEF HandoverInv, MsipInv, Sent
    <3>4. entryM = a0 /\ entryM' = a0 /\ a0 # NoAddress
      BY <3>1, <3>2, <3>3, NoAddressIsNone
    <3>5. h \notin arrivedM /\ arrivedM' = arrivedM \cup {h}
      BY <3>1
    <3>6. leftM' = leftM
      BY <3>1, <3>2
    <3>7. Handover!Arrive(h)
      BY <3>4, <3>5, <3>6 DEF Handover!Arrive
    <3>8. QED
      BY <3>7 DEF Handover!Next
  <2>17. ASSUME NEW h \in Harts, LoadLoAndJump(h)
         PROVE  Handover!Next
    <3>1. pc[h] = "ldlo" /\ pc' = [pc EXCEPT ![h] = "next"]
      BY <2>17 DEF LoadLoAndJump, GoTo
    <3>2. a0' = a0 /\ \A g \in Harts : g # h => dest'[g] = dest[g]
      BY <2>17 DEF LoadLoAndJump
    <3>3. dest'[h] = a0
      BY <3>1, <3>2 DEF HandoverInv, DestInv
    <3>4. \A g \in Harts : pc[g] \in Cleared
      BY <3>1 DEF HandoverInv, ScanInv
    <3>5. arrivedM = Harts /\ arrivedM' = arrivedM
      BY <3>1, <3>4
    <3>6. entryM = a0 /\ entryM' = a0
      BY <3>1, <3>2, <3>4
    <3>7. leftM[h] = NoAddress /\ leftM' = [leftM EXCEPT ![h] = a0]
      BY <3>1, <3>2, <3>3
    <3>8. Handover!Leave(h)
      BY <3>5, <3>6, <3>7 DEF Handover!Leave
    <3>9. QED
      BY <3>8 DEF Handover!Next
  <2>18. QED
    BY <2>1, <2>2, <2>3, <2>4, <2>5, <2>6, <2>7, <2>8, <2>9, <2>10, <2>11,
       <2>12, <2>13, <2>14, <2>15, <2>16, <2>17
       DEF Next, HartStep, Publish, NextStage
<1>3. QED
  BY <1>1, <1>2, TypeCorrect, HandoverCorrect, PTL DEF Spec, Handover!Spec, ImplementsHandover
=============================================================================
