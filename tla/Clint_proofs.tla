---------------------------- MODULE Clint_proofs ----------------------------
(***************************************************************************)
(* Proofs about Clint for words and ticks of any length, any delays of the *)
(* hart up to a bound, and any times at which calls begin.                 *)
(***************************************************************************)
EXTENDS Clint, TLAPS

-----------------------------------------------------------------------------
(***************************************************************************)
(* The inductive invariant.                                                *)
(***************************************************************************)
\* The first cycle of a tick.
Cycle(t) == CyclesPerTick * t

\* The read of mtime's high word with this next, or what follows it.
At(place) == pc = place \/ (pc = "high" /\ k = place)

\* The high word read is of a time since the call began.
HighInv ==
  pc \in Reads => /\ Time(began) \div Base <= high
                  /\ high <= Time(now) \div Base

\* Without a carry spin_ticks waits for what it was asked for.
SpinInv ==
  op # "spin_until" /\ NoCarry /\ At("spin") => tgt >= Time(began) + ticks

\* The timer is set to a time that mtime does not reach.
Far == mtimecmp >= Base * (Base - 1)
Masked == ~mie \/ ~mtie

\* The timer interrupts nothing but a sleep.
TimerInv ==
  /\ pc \notin {"cmpLow", "enable", "wfi"} => Masked \/ Far
  /\ pc = "cmpLow" => mtimecmp \div Base \in {tgt \div Base, Base - 1}
  /\ pc \in {"enable", "wfi"} => mtimecmp = tgt \/ Far
  /\ pc \in {"cmpHigh", "cmpLow", "enable", "wfi"} => tgt <= Time(now)

\* Where get_core_freq is.
CallInv ==
  op = "get_core_freq" =>
    /\ pc \in {"idle", "high", "first", "startCycle", "start", "endCycle", "end"}
    /\ pc = "high" => k \in {"first", "start", "end"}

\* The start cycle is read less than a step behind the tick seen before, and
\* the start time two steps later at most.
StartInv ==
  NoCarry =>
    /\ pc = "startCycle" \/ At("start") => end_mtime <= Time(now)
    /\ pc = "startCycle" => now < Cycle(end_mtime + 1) + MaxDelay
    /\ At("start") => start_mcycle < Cycle(end_mtime + 1) + MaxDelay
    /\ At("start") => start_mcycle <= now
    /\ pc = "high" /\ k = "start" => now <= start_mcycle + MaxDelay
    /\ pc = "start" => now <= start_mcycle + 2 * MaxDelay

\* So is the end cycle; and the start cycle is that near to the start of its tick.
EndInv ==
  NoCarry =>
    /\ pc = "endCycle" \/ At("end") =>
         /\ Cycle(start_mtime) - 2 * MaxDelay <= start_mcycle
         /\ start_mcycle < Cycle(start_mtime) + MaxDelay
    /\ pc = "endCycle" => now < Cycle(start_mtime + NumTicks) + MaxDelay
    /\ At("end") => end_mcycle < Cycle(start_mtime + NumTicks) + MaxDelay
    /\ At("end") => end_mcycle <= now
    /\ pc = "high" /\ k = "end" => now <= end_mcycle + MaxDelay
    /\ pc = "end" => now <= end_mcycle + 2 * MaxDelay

ClintInv ==
  /\ TypeOK /\ HighInv /\ TimerInv
  /\ SpinInv
  /\ CallInv /\ StartInv /\ EndInv /\ FreqAccurate

-----------------------------------------------------------------------------
(***************************************************************************)
(* Words, ticks and cycles.                                                *)
(***************************************************************************)
LEMMA Division ==
  ASSUME NEW a \in Nat, NEW n \in Nat \ {0}
  PROVE  /\ a \div n \in Nat /\ a % n \in 0 .. n - 1
         /\ a = (a \div n) * n + (a % n)
OBVIOUS

LEMMA ProductMonotone ==
  ASSUME NEW p \in Int, NEW q \in Int, NEW n \in Nat, p <= q
  PROVE  p * n <= q * n /\ n * p <= n * q
<1>1. (q - p) * n >= 0
  <2>1. q - p \in Nat
    OBVIOUS
  <2>2. QED
    BY <2>1
<1>2. QED
  BY <1>1

\* The quotient is the only number whose multiple and the next one have the
\* number between them.
LEMMA Quotient ==
  ASSUME NEW a \in Nat, NEW n \in Nat \ {0}, NEW q \in Nat,
         NEW r \in 0 .. n - 1, a = q * n + r
  PROVE  a \div n = q /\ a % n = r
OBVIOUS

LEMMA QuotientMonotone ==
  ASSUME NEW a \in Nat, NEW b \in Nat, NEW n \in Nat \ {0}, a <= b
  PROVE  a \div n <= b \div n
<1> DEFINE q == a \div n
           r == b \div n
<1>1. /\ q \in Nat /\ r \in Nat
      /\ q * n <= a /\ b < r * n + n
  BY Division
<1> HIDE DEF q, r
<1>2. ASSUME r < q PROVE FALSE
  <2>1. (r + 1) * n <= q * n
    BY <1>1, <1>2, ProductMonotone
  <2>2. (r + 1) * n = r * n + n
    BY <1>1
  <2>3. r * n \in Nat /\ q * n \in Nat
    BY <1>1
  <2>4. QED
    BY <1>1, <2>1, <2>2, <2>3
<1>3. q <= r
  BY <1>1, <1>2
<1>4. QED
  BY <1>3 DEF q, r

LEMMA QuotientBelow ==
  ASSUME NEW a \in Nat, NEW n \in Nat \ {0}, NEW m \in Nat, a < n * m
  PROVE  a \div n < m
<1>1. a \div n \in Nat /\ (a \div n) * n <= a
  BY Division
<1>2. ASSUME m <= a \div n PROVE FALSE
  <2>1. m * n <= (a \div n) * n
    BY <1>1, <1>2, ProductMonotone
  <2>2. m * n = n * m /\ m * n \in Nat /\ (a \div n) * n \in Nat
    BY <1>1
  <2>3. QED
    BY <1>1, <2>1, <2>2
<1>3. QED
  BY <1>1, <1>2

\* A cycle is in its tick; time does not go back.
LEMMA TimeFacts ==
  ASSUME NEW c \in Nat
  PROVE  /\ Time(c) \in Nat
         /\ Cycle(Time(c)) \in Nat /\ Cycle(Time(c) + 1) \in Nat
         /\ Cycle(Time(c)) <= c /\ c < Cycle(Time(c) + 1)
<1>1. CyclesPerTick \in Nat \ {0}
  BY ClintAssumption DEF ClintAssumption
<1>2. /\ c \div CyclesPerTick \in Nat
      /\ c % CyclesPerTick \in 0 .. CyclesPerTick - 1
      /\ c = (c \div CyclesPerTick) * CyclesPerTick + (c % CyclesPerTick)
  BY <1>1, Division
<1>3. CyclesPerTick * ((c \div CyclesPerTick) + 1)
        = (c \div CyclesPerTick) * CyclesPerTick + CyclesPerTick
  BY <1>1, <1>2
<1>4. QED
  BY <1>1, <1>2, <1>3 DEF Time, Cycle

LEMMA TimeMonotone ==
  ASSUME NEW b \in Nat, NEW c \in Nat, b <= c
  PROVE  Time(b) <= Time(c) /\ Time(b) \div Base <= Time(c) \div Base
<1>1. {CyclesPerTick, Base} \subseteq Nat \ {0}
  BY ClintAssumption DEF ClintAssumption
<1>2. Time(b) \in Nat /\ Time(c) \in Nat
  BY TimeFacts
<1>3. Time(b) <= Time(c)
  BY <1>1, QuotientMonotone DEF Time
<1>4. QED
  BY <1>1, <1>2, <1>3, QuotientMonotone

LEMMA CycleMonotone ==
  ASSUME NEW s \in Int, NEW t \in Int
  PROVE  /\ Cycle(s) \in Int
         /\ s <= t => Cycle(s) <= Cycle(t)
         /\ Cycle(t) - Cycle(s) = CyclesPerTick * (t - s)
<1>1. CyclesPerTick \in Nat
  BY ClintAssumption DEF ClintAssumption
<1>2. QED
  BY <1>1, ProductMonotone DEF Cycle

\* Two words make a time no later than any with as large a high word.
LEMMA Words ==
  ASSUME NEW h \in 0 .. Base - 1, NEW t \in 0 .. Never
  PROVE  /\ t \div Base \in 0 .. Base - 1 /\ t % Base \in 0 .. Base - 1
         /\ t = (t \div Base) * Base + (t % Base)
         /\ \A l \in 0 .. Base - 1 :
              /\ h * Base + l \in 0 .. Never
              /\ (h * Base + l) \div Base = h
              /\ h = Base - 1 => h * Base + l >= Base * (Base - 1)
         /\ h <= t \div Base => h * Base + (t % Base) <= t
<1>1. Base \in Nat \ {0}
  BY ClintAssumption DEF ClintAssumption
<1>2. t \in Nat /\ t < Base * Base
  BY <1>1 DEF Never
<1>3. /\ t \div Base \in Nat /\ t % Base \in 0 .. Base - 1
      /\ t = (t \div Base) * Base + (t % Base)
  BY <1>1, <1>2, Division
<1>4. t \div Base < Base
  BY <1>1, <1>2, QuotientBelow
<1>5. ASSUME NEW l \in 0 .. Base - 1
      PROVE  /\ h * Base + l \in 0 .. Never
             /\ (h * Base + l) \div Base = h
             /\ h = Base - 1 => h * Base + l >= Base * (Base - 1)
  <2>1. h * Base \in Nat /\ h * Base <= (Base - 1) * Base
    BY <1>1, ProductMonotone
  <2>2. (Base - 1) * Base = Base * Base - Base /\ Base * (Base - 1) = Base * Base - Base
    BY <1>1
  <2>3. Base * Base \in Nat
    BY <1>1
  <2>4. h * Base + l \in 0 .. Never
    BY <1>1, <2>1, <2>2, <2>3 DEF Never
  <2>5. (h * Base + l) \div Base = h
    BY <1>1, <2>4, Quotient DEF Never
  <2>6. h = Base - 1 => h * Base + l >= Base * (Base - 1)
    BY <1>1, <2>2, <2>3
  <2>7. QED
    BY <2>4, <2>5, <2>6
<1>6. ASSUME h <= t \div Base PROVE h * Base + (t % Base) <= t
  <2>1. h * Base <= (t \div Base) * Base
    BY <1>1, <1>3, <1>6, ProductMonotone
  <2>2. h * Base \in Nat /\ (t \div Base) * Base \in Nat
    BY <1>1, <1>3
  <2>3. QED
    BY <1>1, <1>3, <2>1, <2>2
<1>7. QED
  BY <1>1, <1>3, <1>4, <1>5, <1>6
-----------------------------------------------------------------------------
(***************************************************************************)
(* Time while a call goes on.                                              *)
(***************************************************************************)
\* No time comes whose high word is all ones.
LEMMA NowFacts ==
  ASSUME TypeOK
  PROVE  /\ now \in Nat /\ began \in Nat /\ began <= now
         /\ Time(began) \in Nat /\ Time(now) \in Nat
         /\ Time(began) <= Time(now) /\ Time(now) <= now
         /\ Time(now) < Base * (Base - 1) /\ Time(now) \in 0 .. Never
         /\ Time(began) \div Base \in Nat /\ Time(now) \div Base \in 0 .. Base - 1
<1>1. {CyclesPerTick, Base} \subseteq Nat \ {0}
  BY ClintAssumption DEF ClintAssumption
<1>2. now \in Nat /\ began \in Nat /\ began <= now /\ now < CyclesPerTick * (Base * (Base - 1))
  <2>1. CyclesPerTick * (Base * (Base - 1)) \in Nat
    <3>1. Base - 1 \in Nat
      BY <1>1
    <3>2. Base * (Base - 1) \in Nat
      BY <1>1, <3>1
    <3>3. QED
      BY <1>1, <3>2
  <2>2. QED
    BY <2>1, ClintAssumption DEF TypeOK, ClintAssumption
<1>3. Time(began) \in Nat /\ Time(now) \in Nat /\ Time(began) <= Time(now)
  BY <1>2, TimeFacts, TimeMonotone
<1>4. Time(now) <= now
  <2>1. now = Time(now) * CyclesPerTick + (now % CyclesPerTick)
        /\ now % CyclesPerTick \in Nat
    <3>1. /\ now % CyclesPerTick \in 0 .. CyclesPerTick - 1
          /\ now = (now \div CyclesPerTick) * CyclesPerTick + (now % CyclesPerTick)
      BY <1>1, <1>2, Division
    <3>2. now % CyclesPerTick \in Nat
      BY <1>1, <3>1
    <3>3. QED
      BY <3>1, <3>2 DEF Time
  <2>2. Time(now) * 1 <= Time(now) * CyclesPerTick
    BY <1>1, <1>3, ProductMonotone
  <2>3. Time(now) * CyclesPerTick \in Nat
    BY <1>1, <1>3
  <2>4. QED
    BY <1>2, <1>3, <2>1, <2>2, <2>3
<1>5. Base * (Base - 1) \in Nat /\ Never \in Nat /\ Base * (Base - 1) <= Never
  <2>1. Base - 1 \in Nat
    BY <1>1
  <2>2. Base * (Base - 1) = Base * Base - Base
    BY <1>1
  <2>3. Base * (Base - 1) \in Nat
    BY <1>1, <2>1
  <2>4. QED
    BY <1>1, <2>2, <2>3 DEF Never
<1>6. Time(now) < Base * (Base - 1)
  BY <1>1, <1>2, <1>5, QuotientBelow DEF Time
<1>7. Time(now) \in 0 .. Never
  BY <1>3, <1>5, <1>6
<1>8. 0 \in 0 .. Base - 1
  BY <1>1
<1>9. Time(began) \div Base \in Nat /\ Time(now) \div Base \in 0 .. Base - 1
  BY <1>1, <1>3, <1>7, <1>8, Division, Words
<1>10. QED
  BY <1>2, <1>3, <1>4, <1>6, <1>7, <1>9

\* Every step takes time.
LEMMA StepTime ==
  ASSUME TypeOK, Next
  PROVE  /\ now' \in 0 .. MaxNow /\ now' \in Nat
         /\ now <= now' /\ now' <= now + MaxDelay
         /\ began' \in {began, now}
         /\ Time(now') \in Nat /\ Time(now) <= Time(now')
         /\ Time(now) \div Base <= Time(now') \div Base
         /\ Time(now) \div Base \in Nat /\ Time(now') \div Base \in Nat
<1>1. MaxNow \in Nat /\ MaxDelay \in Nat
  <2>1. MaxNow \in Int /\ MaxNow >= 0
    BY ClintAssumption DEF ClintAssumption
  <2>2. QED
    BY <2>1, ClintAssumption DEF ClintAssumption
<1>2. Elapse
  BY DEF Next, Running, ReadHigh, AddTicks, Spin, FreqFirst, StartCycle,
       FreqStart, EndCycle,
         FreqEnd, Sleep, SetCmpHigh, SetCmpLow, Enable, Trap, Wfi, Call, GetMtime, Step
<1>3. now' \in 0 .. MaxNow /\ now <= now' /\ now' <= now + MaxDelay
  BY <1>1, <1>2 DEF TypeOK, Elapse
<1>4. began' \in {began, now}
  BY DEF Next, Running, ReadHigh, AddTicks, Spin, FreqFirst, StartCycle,
       FreqStart, EndCycle,
         FreqEnd, Sleep, SetCmpHigh, SetCmpLow, Enable, Trap, Wfi, Call
<1>5. now \in Nat /\ now' \in Nat
  BY <1>1, <1>3 DEF TypeOK
<1>6. Base \in Nat \ {0}
  BY ClintAssumption DEF ClintAssumption
<1>7. Time(now) \in Nat /\ Time(now') \in Nat
  BY <1>5, TimeFacts
<1>8. QED
  BY <1>3, <1>4, <1>5, <1>6, <1>7, TimeMonotone, Division

\* What is read of mtime is no later than it, and is it if there was no carry.
LEMMA MtimeFacts ==
  ASSUME TypeOK, HighInv, pc \in Reads
  PROVE  /\ Mtime \in Nat /\ Mtime <= Time(now)
         /\ NoCarry => Mtime = Time(now)
<1>1. Base \in Nat \ {0}
  BY ClintAssumption DEF ClintAssumption
<1>2. Time(now) \in 0 .. Never /\ high \in 0 .. Base - 1
  BY NowFacts DEF TypeOK
<1>3. Time(began) \div Base \in Nat /\ Time(now) \div Base \in Nat
  BY <1>1, NowFacts
<1>4. high <= Time(now) \div Base /\ (NoCarry => high = Time(now) \div Base)
  BY <1>2, <1>3 DEF HighInv, NoCarry
<1>5. /\ Time(now) % Base \in 0 .. Base - 1
      /\ Time(now) = (Time(now) \div Base) * Base + (Time(now) % Base)
      /\ Mtime \in 0 .. Never
      /\ Mtime <= Time(now)
  BY <1>2, <1>4, Words DEF Mtime
<1>6. NoCarry => Mtime = Time(now)
  BY <1>4, <1>5 DEF Mtime
<1>7. QED
  BY <1>5, <1>6

\* A step outside a sleep is not an interrupt.
LEMMA NoTrap ==
  ASSUME TypeOK, TimerInv, pc \notin {"cmpLow", "enable", "wfi"}
  PROVE  ~Interrupted
<1>1. Time(now) \in Nat /\ Time(now) < Base * (Base - 1)
  BY NowFacts
<1>2. Base * (Base - 1) \in Int /\ mtimecmp \in Int
  BY ClintAssumption DEF ClintAssumption, TypeOK
<1>3. QED
  BY <1>1, <1>2 DEF TimerInv, Masked, Far, Interrupted
-----------------------------------------------------------------------------
(***************************************************************************)
(* Every part of the invariant holds at first and is kept by every step.   *)
(***************************************************************************)
LEMMA InitInv == Init => ClintInv
<1> SUFFICES ASSUME Init PROVE ClintInv
  OBVIOUS
<1>1. {CyclesPerTick, Base, MaxDelay, NumTicks} \subseteq Nat \ {0}
  BY ClintAssumption DEF ClintAssumption
<1>2. now \in 0 .. MaxNow /\ now \in Nat /\ 0 \in 0 .. Base - 1
  BY <1>1, ClintAssumption DEF Init, ClintAssumption
<1>3. 0 \in 0 .. Never
  <2>1. Base * Base >= 1
    <3>1. Base * 1 <= Base * Base
      BY <1>1, ProductMonotone
    <3>2. QED
      BY <1>1, <3>1
  <2>2. QED
    BY <1>1, <2>1 DEF Never
<1>4. TypeOK
  <2>1. now \in 0 .. MaxNow /\ began \in 0 .. now
    BY <1>2 DEF Init
  <2>2. {start_mcycle, start_mtime, end_mcycle, end_mtime} \subseteq 0 .. now
    BY <1>2 DEF Init
  <2>3. QED
    BY <1>2, <1>3, <2>1, <2>2 DEF Init, TypeOK, Reads, Calls
<1>5. HighInv /\ TimerInv /\ SpinInv /\ CallInv /\ StartInv /\ EndInv /\ FreqAccurate
  BY DEF Init, HighInv, TimerInv, Masked, Far, SpinInv, CallInv,
       StartInv, EndInv,
         FreqAccurate, Reads, At
<1>6. QED
  BY <1>4, <1>5 DEF ClintInv

LEMMA TypeStep ==
  ASSUME TypeOK, HighInv, Next
  PROVE  TypeOK'
<1>1. /\ now' \in 0 .. MaxNow /\ now <= now'
      /\ now \in Nat /\ Time(now) \in 0 .. Never
      /\ Time(now) <= now /\ Time(now) \div Base \in 0 .. Base - 1
  BY StepTime, NowFacts
<1>2. pc \in Reads => Mtime \in 0 .. now /\ Mtime <= Time(now)
  BY <1>1, MtimeFacts
<1>3. Base \in Nat \ {0}
  BY ClintAssumption DEF ClintAssumption
<1>4. Never \in Nat
  <2>1. Never \in Int
    BY <1>3 DEF Never
  <2>2. QED
    BY <1>1, <2>1
<1>5. CASE ReadHigh
  BY <1>1, <1>5 DEF TypeOK, ReadHigh, Step, waitVars, freqVars,
       timerVars, Reads
<1>6. CASE AddTicks
  <2>1. Mtime + ticks \in 0 .. Never
    <3>1. Time(now) <= MaxNow \div CyclesPerTick
      BY <1>1, QuotientMonotone, ClintAssumption DEF ClintAssumption,
           Time, TypeOK
    <3>2. Mtime \in Nat /\ Mtime <= Time(now)
      <4>1. pc \in Reads
        BY <1>6 DEF AddTicks, GetMtime, Step, Reads
      <4>2. QED
        BY <1>1, <1>2, <4>1
    <3>3. CASE ticks = 0
      BY <1>1, <1>4, <3>2, <3>3
    <3>4. CASE ticks \in Ticks
      <4>1. ticks \in Nat /\ (MaxNow \div CyclesPerTick) + ticks <= Never
        BY <3>4, ClintAssumption DEF ClintAssumption
      <4>2. MaxNow \div CyclesPerTick \in Int /\ Time(now) \in Int
        BY <1>1, ClintAssumption DEF ClintAssumption
      <4>3. QED
        BY <1>4, <3>1, <3>2, <4>1, <4>2
    <3>5. QED
      BY <3>3, <3>4 DEF TypeOK
  <2>2. QED
    BY <1>1, <1>6, <2>1 DEF TypeOK, AddTicks, GetMtime, Step, freqVars,
         timerVars, Reads
<1>7. CASE Spin
  BY <1>1, <1>7 DEF TypeOK, Spin, GetMtime, Step, waitVars, freqVars,
       timerVars, Reads
<1>8. CASE FreqFirst \/ FreqStart \/ FreqEnd
  BY <1>1, <1>2, <1>8
     DEF TypeOK, FreqFirst, FreqStart, FreqEnd, Step, waitVars, timerVars, Reads
<1>9. CASE StartCycle \/ EndCycle
  BY <1>1, <1>9 DEF TypeOK, StartCycle, EndCycle, GetMtime, Step,
       waitVars, timerVars, Reads
<1>10. CASE Sleep \/ Enable \/ Wfi
  <2>1. CASE Sleep
    BY <1>1, <2>1 DEF TypeOK, Sleep, Step, waitVars, freqVars, timerVars, Reads
  <2>2. CASE Enable
    BY <1>1, <2>2 DEF TypeOK, Enable, Step, waitVars, freqVars, Reads
  <2>3. CASE Wfi
    BY <1>1, <2>3 DEF TypeOK, Wfi, Step, waitVars, freqVars, timerVars, Reads
  <2>4. QED
    BY <1>10, <2>1, <2>2, <2>3
<1>11. CASE SetCmpHigh \/ SetCmpLow
  <2>1. mtimecmp' \in 0 .. Never
    <3>1. /\ tgt \div Base \in 0 .. Base - 1 /\ tgt % Base \in 0 .. Base - 1
          /\ mtimecmp \div Base \in 0 .. Base - 1 /\ mtimecmp % Base \in 0 .. Base - 1
      BY <1>3, Words DEF TypeOK
    <3>2. QED
      BY <1>1, <1>11, <3>1, Words DEF SetCmpHigh, SetCmpLow
  <2>2. QED
    BY <1>1, <1>11, <2>1
       DEF TypeOK, SetCmpHigh, SetCmpLow, Step, waitVars, freqVars, Reads
<1>12. CASE Trap
  <2>1. mtimecmp' \in 0 .. Never
    BY <1>4, <1>12 DEF TypeOK, Trap
  <2>2. mtie' \in BOOLEAN
    BY <1>12 DEF TypeOK, Trap
  <2>3. /\ now' \in 0 .. MaxNow /\ began' \in 0 .. now'
        /\ {start_mcycle', start_mtime', end_mcycle', end_mtime'} \subseteq 0 .. now'
    BY <1>1, <1>12 DEF TypeOK, Trap, freqVars
  <2>4. QED
    BY <1>12, <2>1, <2>2, <2>3 DEF TypeOK, Trap, waitVars, Reads
<1>13. ASSUME NEW c \in Calls, NEW t \in Args(c), Call(c, t) PROVE TypeOK'
  <2>1. /\ c \in {"spin_ticks", "sleep_ticks"} => t \in Ticks
        /\ c \notin {"spin_ticks", "sleep_ticks"} => t \in 0 .. Never
    BY <1>4, ClintAssumption DEF Args, Calls, ClintAssumption
  <2>2. First[c] \in Reads
    BY DEF First, Calls, Reads
  <2>3. QED
    BY <1>1, <1>4, <1>13, <2>1, <2>2
       DEF TypeOK, Call, GetMtime, Step, timerVars, Reads, Calls
<1>14. QED
  BY <1>5, <1>6, <1>7, <1>8, <1>9, <1>10, <1>11, <1>12, <1>13 DEF Next, Running

LEMMA HighStep ==
  ASSUME TypeOK, HighInv, Next
  PROVE  HighInv'
<1>1. /\ began' \in {began, now}
      /\ now \in Nat /\ began \in Nat /\ began <= now /\ now' \in Nat
      /\ Time(now) \div Base \in Nat /\ Time(now') \div Base \in Nat
      /\ Time(began) \div Base \in Nat
      /\ Time(now) \div Base <= Time(now') \div Base
      /\ Time(began) \div Base <= Time(now) \div Base
  BY StepTime, NowFacts, TimeMonotone
<1>2. high \in Int
  BY ClintAssumption DEF TypeOK, ClintAssumption
<1>3. CASE ReadHigh
  BY <1>1, <1>3 DEF ReadHigh, HighInv
<1>4. CASE Trap
  BY <1>1, <1>2, <1>4 DEF Trap, HighInv
<1>5. CASE pc' \notin Reads
  BY <1>5 DEF HighInv
<1>6. ReadHigh \/ Trap \/ pc' \notin Reads
  BY DEF Next, Running, AddTicks, Spin, FreqFirst, StartCycle,
       FreqStart, EndCycle,
         FreqEnd, Sleep, SetCmpHigh, SetCmpLow, Enable, Wfi, Call, GetMtime, Step, Reads
<1>7. QED
  BY <1>3, <1>4, <1>5, <1>6

\* The comparison register changes only in a sleep, and if a handler puts the
\* timer off.
LEMMA TimerStep ==
  ASSUME TypeOK, HighInv, TimerInv, Next
  PROVE  TimerInv'
<1>1. /\ Time(now) \in Nat /\ Time(now') \in Nat /\ Time(now) <= Time(now')
      /\ Time(now) < Base * (Base - 1)
  BY StepTime, NowFacts
<1>2. /\ Base \in Nat \ {0} /\ 0 \in 0 .. Base - 1 /\ Base * (Base - 1) \in Int
      /\ Never \in Int /\ Never \div Base = Base - 1 /\ Base * (Base - 1) <= Never
  <2>1. Base \in Nat \ {0}
    BY ClintAssumption DEF ClintAssumption
  <2>2. Base * Base = (Base - 1) * Base + Base /\ Base * (Base - 1) = (Base - 1) * Base
        /\ (Base - 1) * Base \in Nat
    <3>1. Base - 1 \in Nat
      BY <2>1
    <3>2. QED
      BY <2>1, <3>1
  <2>3. Never \in Nat /\ Never = (Base - 1) * Base + (Base - 1)
    BY <2>1, <2>2 DEF Never
  <2>4. Never \div Base = Base - 1
    BY <2>1, <2>3, Quotient
  <2>5. QED
    BY <2>1, <2>2, <2>3, <2>4
<1>3. tgt \in 0 .. Never /\ mtimecmp \in 0 .. Never /\ tgt \in Int /\ mtimecmp \in Int
  BY <1>2 DEF TypeOK
<1>4. CASE Sleep
  <2>1. Mtime \in Nat /\ Mtime <= Time(now)
    BY <1>4, MtimeFacts DEF Sleep, Step, Reads
  <2>2. QED
    BY <1>1, <1>3, <1>4, <2>1
       DEF TimerInv, Masked, Far, Sleep, Step, timerVars, waitVars
<1>5. CASE SetCmpHigh
  <2>1. /\ tgt \div Base \in 0 .. Base - 1 /\ mtimecmp % Base \in 0 .. Base - 1
    BY <1>2, <1>3, Words
  <2>2. mtimecmp' \div Base = tgt \div Base
    BY <1>3, <1>5, <2>1, Words DEF SetCmpHigh
  <2>3. QED
    BY <1>1, <1>3, <1>5, <2>2 DEF TimerInv, SetCmpHigh, Step, waitVars
<1>6. CASE SetCmpLow
  <2>1. /\ tgt \div Base \in 0 .. Base - 1 /\ tgt % Base \in 0 .. Base - 1
        /\ mtimecmp \div Base \in 0 .. Base - 1
        /\ tgt = (tgt \div Base) * Base + (tgt % Base)
    BY <1>2, <1>3, Words
  <2>2. mtimecmp \div Base = Base - 1 => Far'
    BY <1>3, <1>6, <2>1, Words DEF SetCmpLow, Far
  <2>3. mtimecmp \div Base = tgt \div Base => mtimecmp' = tgt
    BY <1>6, <2>1 DEF SetCmpLow
  <2>4. QED
    BY <1>1, <1>3, <1>6, <2>2, <2>3 DEF TimerInv, SetCmpLow, Step, waitVars
<1>7. CASE Wfi
  BY <1>1, <1>2, <1>3, <1>7
     DEF TimerInv, Masked, Far, Wfi, Step, Interrupted, timerVars, waitVars
<1>8. CASE Enable
  BY <1>1, <1>3, <1>8 DEF TimerInv, Far, Enable, Step, waitVars
<1>9. CASE Trap
  BY <1>1, <1>2, <1>3, <1>9 DEF TimerInv, Masked, Far, Trap, waitVars
<1>10. CASE \/ ReadHigh \/ AddTicks \/ Spin \/ FreqFirst \/ StartCycle \/ FreqStart
            \/ EndCycle \/ FreqEnd \/ \E c \in Calls : \E t \in Args(c) : Call(c, t)
  <2>1. /\ pc \notin {"cmpLow", "enable", "wfi"}
        /\ pc' \notin {"cmpHigh", "cmpLow", "enable", "wfi"}
    BY <1>10 DEF TypeOK, ReadHigh, AddTicks, Spin, FreqFirst,
         StartCycle, FreqStart, EndCycle,
                 FreqEnd, Call, GetMtime, Step, Reads
  <2>2. UNCHANGED timerVars
    BY <1>10 DEF ReadHigh, AddTicks, Spin, FreqFirst, StartCycle,
         FreqStart, EndCycle,
                 FreqEnd, Call
  <2>3. QED
    BY <2>1, <2>2 DEF TimerInv, Masked, Far, timerVars
<1>11. QED
  BY <1>4, <1>5, <1>6, <1>7, <1>8, <1>9, <1>10 DEF Next, Running

\* A carry does not go away while a call lasts.
LEMMA CarryStays ==
  ASSUME TypeOK, Next, began' = began, NoCarry'
  PROVE  NoCarry
<1>1. /\ Time(began) \div Base <= Time(now) \div Base
      /\ Time(now) \div Base <= Time(now') \div Base
      /\ Time(began) \div Base \in Nat /\ Time(now) \div Base \in Nat
      /\ Time(now') \div Base \in Nat
  BY StepTime, NowFacts, TimeMonotone
<1>2. Time(began) \div Base = Time(now') \div Base
  BY DEF NoCarry
<1>3. QED
  BY <1>1, <1>2 DEF NoCarry

LEMMA SpinStep ==
  ASSUME TypeOK, HighInv, SpinInv, Next
  PROVE  SpinInv'
<1>1. ticks \in Nat /\ tgt \in Int /\ Time(began) \in Nat /\ Time(now) \in Nat
      /\ Time(began) <= Time(now)
  BY NowFacts, ClintAssumption DEF TypeOK, ClintAssumption
<1>2. CASE \E c \in Calls : \E t \in Args(c) : Call(c, t)
  BY <1>2 DEF Call, GetMtime, Step, SpinInv, At, First, Calls
<1>3. CASE AddTicks
  <2>1. Mtime \in Nat /\ (NoCarry => Mtime = Time(now))
    BY <1>3, MtimeFacts DEF AddTicks, GetMtime, Step, Reads
  <2>2. NoCarry' => NoCarry
    BY <1>3, CarryStays DEF AddTicks
  <2>3. QED
    BY <1>1, <1>3, <2>1, <2>2 DEF AddTicks, SpinInv
<1>4. CASE ~(\E c \in Calls : \E t \in Args(c) : Call(c, t)) /\ ~AddTicks
  <2>1. UNCHANGED <<op, began, ticks, tgt>>
    BY <1>4 DEF Next, Running, ReadHigh, Spin, FreqFirst, StartCycle,
         FreqStart, EndCycle,
                FreqEnd, Sleep, SetCmpHigh, SetCmpLow, Enable, Trap, Wfi, waitVars
  <2>2. At("spin")' => At("spin")
    BY <1>4 DEF At, Next, Running, ReadHigh, Spin, FreqFirst,
         StartCycle, FreqStart, EndCycle,
                FreqEnd, Sleep, SetCmpHigh, SetCmpLow, Enable, Trap, Wfi, GetMtime, Step
  <2>3. NoCarry' => NoCarry
    BY <2>1, CarryStays
  <2>4. QED
    BY <2>1, <2>2, <2>3 DEF SpinInv
<1>5. QED
  BY <1>2, <1>3, <1>4

LEMMA CallStep ==
  ASSUME TypeOK, TimerInv, CallInv, Next
  PROVE  CallInv'
<1>1. CASE \E c \in Calls : \E t \in Args(c) : Call(c, t)
  BY <1>1 DEF Call, GetMtime, Step, CallInv, First, Calls
<1>2. CASE ~(\E c \in Calls : \E t \in Args(c) : Call(c, t))
  BY <1>2 DEF CallInv, Next, Running, ReadHigh, AddTicks, Spin,
       FreqFirst, StartCycle,
              FreqStart, EndCycle, FreqEnd, Sleep, SetCmpHigh, SetCmpLow, Enable, Trap, Wfi,
              GetMtime, Step
<1>3. QED
  BY <1>1, <1>2

\* The types of what is added and compared in a measurement.
LEMMA FreqTypes ==
  ASSUME TypeOK, Next
  PROVE  /\ {now, now', start_mcycle, start_mtime, end_mcycle, end_mtime, MaxDelay} \subseteq Nat
         /\ NumTicks \in Nat \ {0} /\ CyclesPerTick \in Nat
         /\ Time(now) \in Nat /\ Time(now') \in Nat
         /\ Time(now) <= Time(now') /\ now <= now' /\ now' <= now + MaxDelay
         /\ Cycle(Time(now)) \in Nat /\ Cycle(Time(now) + 1) \in Nat
         /\ Cycle(Time(now)) <= now /\ now < Cycle(Time(now) + 1)
         /\ Cycle(end_mtime + 1) \in Int /\ Cycle(start_mtime) \in Int
         /\ Cycle(start_mtime + NumTicks) \in Int
<1>1. now \in Nat
  BY NowFacts
<1>2. /\ {CyclesPerTick, MaxDelay, NumTicks} \subseteq Nat \ {0}
  BY ClintAssumption DEF ClintAssumption
<1>3. {now, start_mcycle, start_mtime, end_mcycle, end_mtime} \subseteq Nat
  BY <1>1 DEF TypeOK
<1>4. now <= now' /\ now' <= now + MaxDelay /\ now' \in Nat
      /\ Time(now) \in Nat /\ Time(now') \in Nat /\ Time(now) <= Time(now')
  BY StepTime, NowFacts
<1>5. /\ Cycle(Time(now)) \in Nat /\ Cycle(Time(now) + 1) \in Nat
      /\ Cycle(Time(now)) <= now /\ now < Cycle(Time(now) + 1)
  BY <1>1, TimeFacts
<1>6. /\ end_mtime + 1 \in Int /\ start_mtime \in Int /\ start_mtime + NumTicks \in Int
  BY <1>2, <1>3
<1>7. /\ Cycle(end_mtime + 1) \in Int /\ Cycle(start_mtime) \in Int
      /\ Cycle(start_mtime + NumTicks) \in Int
  BY <1>6, CycleMonotone
<1>8. QED
  BY <1>2, <1>3, <1>4, <1>5, <1>7

LEMMA StartStep ==
  ASSUME TypeOK, HighInv, TimerInv, StartInv, Next
  PROVE  StartInv'
<1> USE FreqTypes
<1>1. CASE FreqFirst
  <2>1. NoCarry' => NoCarry
    BY <1>1, CarryStays DEF FreqFirst
  <2>2. Mtime \in Nat /\ (NoCarry => Mtime = Time(now))
    BY <1>1, MtimeFacts DEF FreqFirst, Step, Reads
  <2>3. QED
    BY <1>1, <2>1, <2>2 DEF StartInv, FreqFirst, Step, At
<1>2. CASE StartCycle
  <2>1. NoCarry' => NoCarry
    BY <1>2, CarryStays DEF StartCycle
  <2>2. QED
    BY <1>2, <2>1 DEF StartInv, StartCycle, GetMtime, Step, At
<1>3. CASE ReadHigh
  <2>1. NoCarry' => NoCarry
    BY <1>3, CarryStays DEF ReadHigh
  <2>2. pc' # "startCycle" /\ pc' # "high"
    BY <1>3 DEF ReadHigh, Step, TypeOK, Reads
  <2>3. QED
    BY <1>3, <2>1, <2>2 DEF StartInv, ReadHigh, Step, At, freqVars
<1>4. CASE FreqStart
  <2>1. NoCarry' => NoCarry
    BY <1>4, CarryStays DEF FreqStart
  <2>2. Mtime \in Nat /\ (NoCarry => Mtime = Time(now))
    BY <1>4, MtimeFacts DEF FreqStart, Step, Reads
  <2>3. QED
    BY <1>4, <2>1, <2>2 DEF StartInv, FreqStart, Step, At
<1>5. CASE Trap
  <2>1. pc' \in {"cmpLow", "enable", "wfi"}
    BY <1>5, NoTrap DEF Trap
  <2>2. QED
    BY <2>1 DEF StartInv, At
<1>6. CASE ~FreqFirst /\ ~StartCycle /\ ~ReadHigh /\ ~FreqStart /\ ~Trap
  <2>1. pc' # "startCycle" /\ ~At("start")'
    BY <1>6 DEF At, Next, Running, AddTicks, Spin, EndCycle, FreqEnd,
         Sleep, SetCmpHigh,
                SetCmpLow, Enable, Wfi, Call, First, Calls, GetMtime, Step
  <2>2. QED
    BY <2>1 DEF StartInv, At
<1>7. QED
  BY <1>1, <1>2, <1>3, <1>4, <1>5, <1>6

LEMMA EndStep ==
  ASSUME TypeOK, HighInv, TimerInv, StartInv, EndInv, Next
  PROVE  EndInv'
<1> USE FreqTypes
<1>1. CASE FreqStart
  <2>1. NoCarry' => NoCarry
    BY <1>1, CarryStays DEF FreqStart
  <2>2. Mtime \in Nat /\ (NoCarry => Mtime = Time(now))
    BY <1>1, MtimeFacts DEF FreqStart, Step, Reads
  <2>3. ASSUME NoCarry, Mtime # end_mtime
        PROVE  /\ Cycle(end_mtime + 1) <= Cycle(Time(now))
               /\ Cycle(Time(now) + 1) <= Cycle(Time(now) + NumTicks)
               /\ Cycle(Time(now) + NumTicks) \in Int
    <3>1. end_mtime <= Time(now)
      BY <1>1, <2>3 DEF StartInv, FreqStart, Step, At
    <3>2. /\ end_mtime + 1 \in Int /\ Time(now) \in Int /\ end_mtime + 1 <= Time(now)
          /\ Time(now) + 1 \in Int /\ Time(now) + NumTicks \in Int
          /\ Time(now) + 1 <= Time(now) + NumTicks
      BY <2>2, <2>3, <3>1
    <3>3. QED
      BY <3>2, CycleMonotone
  <2>4. QED
    BY <1>1, <2>1, <2>2, <2>3 DEF StartInv, EndInv, FreqStart, Step, At
<1>2. CASE EndCycle
  <2>1. NoCarry' => NoCarry
    BY <1>2, CarryStays DEF EndCycle
  <2>2. QED
    BY <1>2, <2>1 DEF EndInv, EndCycle, GetMtime, Step, At
<1>3. CASE ReadHigh
  <2>1. NoCarry' => NoCarry
    BY <1>3, CarryStays DEF ReadHigh
  <2>2. pc' # "endCycle" /\ pc' # "high"
    BY <1>3 DEF ReadHigh, Step, TypeOK, Reads
  <2>3. QED
    BY <1>3, <2>1, <2>2 DEF EndInv, ReadHigh, Step, At, freqVars
<1>4. CASE FreqEnd
  <2>1. NoCarry' => NoCarry
    BY <1>4, CarryStays DEF FreqEnd
  <2>2. Mtime \in Nat /\ (NoCarry => Mtime = Time(now))
    BY <1>4, MtimeFacts DEF FreqEnd, Step, Reads
  <2>3. ASSUME NoCarry, Mtime < start_mtime + NumTicks
        PROVE  Cycle(Time(now) + 1) <= Cycle(start_mtime + NumTicks)
    <3>1. /\ Time(now) + 1 \in Int /\ start_mtime + NumTicks \in Int
          /\ Time(now) + 1 <= start_mtime + NumTicks
      BY <2>2, <2>3
    <3>2. QED
      BY <3>1, CycleMonotone
  <2>4. QED
    BY <1>4, <2>1, <2>2, <2>3 DEF EndInv, FreqEnd, Step, At
<1>5. CASE Trap
  <2>1. pc' \in {"cmpLow", "enable", "wfi"}
    BY <1>5, NoTrap DEF Trap
  <2>2. QED
    BY <2>1 DEF EndInv, At
<1>6. CASE ~FreqStart /\ ~EndCycle /\ ~ReadHigh /\ ~FreqEnd /\ ~Trap
  <2>1. pc' # "endCycle" /\ ~At("end")'
    BY <1>6 DEF At, Next, Running, AddTicks, Spin, FreqFirst,
         StartCycle, Sleep, SetCmpHigh,
                SetCmpLow, Enable, Wfi, Call, First, Calls, GetMtime, Step
  <2>2. QED
    BY <2>1 DEF EndInv, At
<1>7. QED
  BY <1>1, <1>2, <1>3, <1>4, <1>5, <1>6

\* Each end of the measurement is off by less than its loop takes.
LEMMA FreqStep ==
  ASSUME TypeOK, HighInv, TimerInv, CallInv, EndInv, FreqAccurate, Next
  PROVE  FreqAccurate'
<1> USE FreqTypes
<1>1. CASE FreqEnd
  <2>1. NoCarry' => NoCarry
    BY <1>1, CarryStays DEF FreqEnd
  <2>2. Mtime \in Nat /\ (NoCarry => Mtime = Time(now))
    BY <1>1, MtimeFacts DEF FreqEnd, Step, Reads
  <2> SUFFICES ASSUME NoCarry', pc' = "idle"
               PROVE  /\ end_mtime' - start_mtime' >= NumTicks
                      /\ LET off == end_mcycle' - start_mcycle'
                                      - CyclesPerTick * (end_mtime' - start_mtime')
                         IN  -3 * MaxDelay < off /\ off < 3 * MaxDelay
    BY DEF FreqAccurate
  <2>3. /\ end_mtime' = Time(now) /\ Time(now) >= start_mtime + NumTicks
        /\ UNCHANGED <<start_mcycle, start_mtime, end_mcycle>>
    BY <1>1, <2>1, <2>2 DEF FreqEnd, Step
  <2>4. /\ Cycle(start_mtime) - 2 * MaxDelay <= start_mcycle
        /\ start_mcycle < Cycle(start_mtime) + MaxDelay
        /\ end_mcycle < Cycle(start_mtime + NumTicks) + MaxDelay
        /\ now <= end_mcycle + 2 * MaxDelay /\ end_mcycle <= now
    BY <1>1, <2>1 DEF EndInv, At, FreqEnd, Step
  <2>5. /\ Cycle(start_mtime + NumTicks) <= Cycle(Time(now))
        /\ Cycle(Time(now)) - Cycle(start_mtime) = CyclesPerTick * (Time(now) - start_mtime)
    <3>1. /\ start_mtime + NumTicks \in Int /\ Time(now) \in Int /\ start_mtime \in Int
          /\ start_mtime + NumTicks <= Time(now)
      BY <2>3
    <3>2. QED
      BY <3>1, CycleMonotone
  <2>6. QED
    BY <2>3, <2>4, <2>5
<1>2. CASE ~FreqEnd /\ pc' = "idle" /\ op' = "get_core_freq"
  <2>1. Trap
    BY <1>2 DEF CallInv, TypeOK, Next, Running, ReadHigh, AddTicks,
         Spin, FreqFirst,
                StartCycle, FreqStart, EndCycle, Sleep, SetCmpHigh, SetCmpLow, Enable, Wfi,
                Call, GetMtime, Step, Reads
  <2>2. FALSE
    BY <1>2, <2>1, NoTrap DEF Trap
  <2>3. QED
    BY <2>2
<1>3. CASE ~(pc' = "idle" /\ op' = "get_core_freq")
  BY <1>3 DEF FreqAccurate
<1>4. QED
  BY <1>1, <1>2, <1>3
-----------------------------------------------------------------------------
\* A step that changes nothing keeps the invariant.
LEMMA StutterInv == ClintInv /\ UNCHANGED vars => ClintInv'
BY DEF ClintInv, TypeOK, HighInv, TimerInv, Masked, Far, SpinInv,
     CallInv, StartInv, EndInv,
       FreqAccurate, NoCarry, At, vars, waitVars, freqVars, timerVars

\* The waits, the timer's settings and the two ends of a measurement are as the
\* calls need them, in every state.
THEOREM ClintCorrect == Spec => []ClintInv
<1>1. ClintInv /\ [Next]_vars => ClintInv'
  <2>1. ASSUME ClintInv, Next PROVE ClintInv'
    BY <2>1, TypeStep, HighStep, TimerStep, SpinStep, CallStep,
         StartStep, EndStep, FreqStep
       DEF ClintInv
  <2>2. QED
    BY <2>1, StutterInv
<1>2. QED
  BY InitInv, <1>1, PTL DEF Spec

\* Every variable of the driver, the timer and the hart has its type; the sum
\* of the time and the ticks to wait does not overflow.
THEOREM TypeCorrect == Spec => []TypeOK
<1>1. ClintInv => TypeOK
  BY DEF ClintInv
<1>2. QED
  BY ClintCorrect, <1>1, PTL

\* The cycles that clint_get_core_freq measures are those of its ticks but for
\* less than three steps of the hart, whatever the lengths of ticks and words.
THEOREM FrequencyAccurate == Spec => []FreqAccurate
<1>1. ClintInv => FreqAccurate
  BY DEF ClintInv
<1>2. QED
  BY ClintCorrect, <1>1, PTL

\* spin_until returns no earlier than its time although it reads mtime in two
\* parts; so does spin_ticks if there is no carry between them.
THEOREM SpinsLast == Spec => SpinNotEarly
<1>1. ASSUME ClintInv, [Next]_vars
      PROVE  [pc = "spin" /\ pc' = "idle" =>
                IF op = "spin_until" THEN Time(now) >= tgt
                ELSE NoCarry => Time(now) >= Time(began) + ticks]_vars
  <2> SUFFICES ASSUME pc = "spin", pc' = "idle"
               PROVE  /\ op = "spin_until" => Time(now) >= tgt
                      /\ op # "spin_until" /\ NoCarry => Time(now) >= Time(began) + ticks
    OBVIOUS
  <2>1. Spin
    BY <1>1 DEF vars, Next, Running, ReadHigh, AddTicks, FreqFirst,
         StartCycle, FreqStart,
                EndCycle, FreqEnd, Sleep, SetCmpHigh, SetCmpLow, Enable, Trap, Wfi, Call,
                GetMtime, Step
  <2>2. Mtime >= tgt
    BY <2>1, <1>1, MtimeFacts DEF ClintInv, TypeOK, Spin, SpinGoesOn,
         GetMtime, Step, Reads
  <2>3. Mtime \in Nat /\ Mtime <= Time(now) /\ (NoCarry => Mtime = Time(now))
        /\ Time(now) \in Nat /\ tgt \in Int
    BY <1>1, MtimeFacts, NowFacts DEF ClintInv, TypeOK, Reads
  <2>4. op # "spin_until" /\ NoCarry => tgt >= Time(began) + ticks
    BY <1>1 DEF ClintInv, SpinInv, At
  <2>5. Time(began) \in Nat /\ ticks \in Nat
    BY <1>1, NowFacts, ClintAssumption DEF ClintInv, TypeOK, ClintAssumption
  <2>6. QED
    BY <2>2, <2>3, <2>4, <2>5
<1>2. QED
  BY ClintCorrect, <1>1, PTL DEF Spec, SpinNotEarly
=============================================================================
