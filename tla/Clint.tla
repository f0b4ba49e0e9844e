------------------------------- MODULE Clint -------------------------------
(***************************************************************************)
(* The CLINT driver (sw/lib/dif/clint.c) on one hart, beside a running     *)
(* timer.                                                                  *)
(*                                                                         *)
(* now counts core cycles; mtime counts ticks of CyclesPerTick cycles and  *)
(* is read as two words of Base values, the high one first as in the       *)
(* committed boot ROM.  A step of the hart takes 1 to MaxDelay cycles and  *)
(* its access is made as it begins.                                        *)
(***************************************************************************)
EXTENDS Integers

CONSTANTS
  CyclesPerTick,
  Base,      \* values of a word (2 ^ 32)
  MaxDelay,  \* bound: cycles of a step
  Starts,    \* cycles at which the calls may begin
  MaxStart,  \* bound: no call begins behind it
  MaxNow,    \* bound: the clock stops there
  Targets,   \* times to wait for
  Ticks,     \* numbers of ticks to wait
  NumTicks   \* ticks of a measurement: ref_freq / ref_time_inv

Never == Base * Base - 1

\* The clock stops before mtime's high word is all ones (after half a million
\* years, if a tick is a microsecond), and no time waited for is behind the last.
ASSUME ClintAssumption ==
  /\ {CyclesPerTick, Base, MaxDelay, NumTicks} \subseteq Nat \ {0}
  /\ MaxNow \in 0 .. CyclesPerTick * (Base * (Base - 1)) - 1
  /\ Starts \subseteq 0 .. MaxNow /\ MaxStart \in 0 .. MaxNow
  /\ Targets \subseteq 0 .. Never
  /\ Ticks \subseteq Nat
  /\ \A t \in Ticks : (MaxNow \div CyclesPerTick) + t <= Never

VARIABLES
  now,
  pc,        \* "high" is the read of mtime's high word, with k next
  k,
  op,        \* the call
  began,     \* when it began
  ticks, tgt,  \* its argument, or arguments
  high,      \* the high word read
  start_mcycle, start_mtime, end_mcycle, end_mtime,  \* of a measurement
  mtimecmp, mtie, mie

waitVars  == <<ticks, tgt>>
freqVars  == <<start_mcycle, start_mtime, end_mcycle, end_mtime>>
timerVars == <<mtimecmp, mtie, mie>>
vars      == <<now, pc, k, op, began, high, waitVars, freqVars, timerVars>>

Calls  == {"spin_until", "spin_ticks", "get_core_freq", "sleep_until", "sleep_ticks"}
Reads  == {"spin", "addTicks", "first", "start", "end", "sleep"}
Time(cycle) == cycle \div CyclesPerTick

TypeOK ==
  /\ now \in 0 .. MaxNow /\ began \in 0 .. now
  /\ pc \in Reads \cup {"idle", "high", "startCycle", "endCycle", "cmpHigh", "cmpLow",
                        "enable", "wfi"}
  /\ k \in Reads /\ op \in Calls
  /\ ticks \in Ticks \cup {0} /\ tgt \in 0 .. Never
  /\ high \in 0 .. Base - 1
  /\ {start_mcycle, start_mtime, end_mcycle, end_mtime} \subseteq 0 .. now
  /\ mtimecmp \in 0 .. Never /\ {mtie, mie} \subseteq BOOLEAN

Init ==
  /\ now \in Starts /\ began = now
  /\ pc = "idle" /\ k = "spin" /\ op = "spin_until"
  /\ ticks = 0 /\ tgt = 0 /\ high = 0
  /\ start_mcycle = 0 /\ start_mtime = 0 /\ end_mcycle = 0 /\ end_mtime = 0
  /\ mtimecmp = 0 /\ mtie = FALSE /\ mie = FALSE

Elapse == \E d \in 1 .. MaxDelay : now' = IF now + d <= MaxNow THEN now + d ELSE MaxNow

\* The timer interrupt is taken before the hart's next instruction.
Interrupted == mie /\ mtie /\ Time(now) >= mtimecmp

\* A step of the hart from one place to another.
Step(from, to) == pc = from /\ pc' = to /\ ~Interrupted /\ Elapse

-----------------------------------------------------------------------------
(***************************************************************************)
(* clint_get_mtime: the high word, and with the low word what its caller   *)
(* makes of the time.                                                      *)
(***************************************************************************)
ReadHigh ==
  /\ Step("high", k)
  /\ high' = Time(now) \div Base
  /\ UNCHANGED <<k, op, began, waitVars, freqVars, timerVars>>

\* Mutant: the low word goes with a high word of after it.
MtimeLowFirst == (Time(now + MaxDelay) \div Base) * Base + (Time(now) % Base)

Mtime == high * Base + (Time(now) % Base)

\* Another call of clint_get_mtime.
GetMtime(from, then) == Step(from, "high") /\ k' = then

-----------------------------------------------------------------------------
(***************************************************************************)
(* The calls.                                                              *)
(***************************************************************************)
First == [spin_until |-> "spin", spin_ticks |-> "addTicks", get_core_freq |-> "first",
          sleep_until |-> "sleep", sleep_ticks |-> "addTicks"]

Call(c, t) ==
  /\ now <= MaxStart
  /\ GetMtime("idle", First[c])
  /\ op' = c /\ began' = now
  /\ IF c \in {"spin_ticks", "sleep_ticks"} THEN ticks' = t /\ tgt' = 0
     ELSE ticks' = 0 /\ tgt' = t
  /\ start_mcycle' = 0 /\ start_mtime' = 0 /\ end_mcycle' = 0 /\ end_mtime' = 0
  /\ UNCHANGED <<high, timerVars>>

Args(c) ==
  CASE c \in {"spin_until", "sleep_until"} -> Targets
    [] c = "get_core_freq"                 -> {0}
    [] OTHER                               -> Ticks

\* The time that spin_ticks and sleep_ticks add to.
AddTicks ==
  /\ GetMtime("addTicks", IF op = "spin_ticks" THEN "spin" ELSE "sleep")
  /\ tgt' = Mtime + ticks
  /\ UNCHANGED <<op, began, ticks, high, freqVars, timerVars>>

\* Mutant: waiting for the target itself.
SpinDifferent == Mtime # tgt

SpinGoesOn == Mtime < tgt

Spin ==
  /\ IF SpinGoesOn THEN GetMtime("spin", "spin") ELSE Step("spin", "idle") /\ UNCHANGED k
  /\ UNCHANGED <<op, began, waitVars, high, freqVars, timerVars>>

FreqFirst ==
  /\ Step("first", "startCycle")
  /\ end_mtime' = Mtime
  /\ UNCHANGED <<k, op, began, waitVars, high, start_mcycle, start_mtime, end_mcycle,
                 timerVars>>

StartCycle ==
  /\ GetMtime("startCycle", "start")
  /\ start_mcycle' = now
  /\ UNCHANGED <<op, began, waitVars, high, start_mtime, end_mcycle, end_mtime, timerVars>>

\* Mutant: the measurement begins in the middle of a tick.
FreqStartAtOnce ==
  /\ Step("start", "endCycle")
  /\ start_mtime' = Mtime
  /\ UNCHANGED <<k, op, began, waitVars, high, start_mcycle, end_mcycle, end_mtime, timerVars>>

\* Start times are captured until the tick changes ...
FreqStart ==
  /\ Step("start", IF Mtime = end_mtime THEN "startCycle" ELSE "endCycle")
  /\ start_mtime' = Mtime
  /\ UNCHANGED <<k, op, began, waitVars, high, start_mcycle, end_mcycle, end_mtime, timerVars>>

EndCycle ==
  /\ GetMtime("endCycle", "end")
  /\ end_mcycle' = now
  /\ UNCHANGED <<op, began, waitVars, high, start_mcycle, start_mtime, end_mtime, timerVars>>

\* ... and end times until the last one is over.
FreqEnd ==
  /\ Step("end", IF Mtime < start_mtime + NumTicks THEN "endCycle" ELSE "idle")
  /\ end_mtime' = Mtime
  /\ UNCHANGED <<k, op, began, waitVars, high, start_mcycle, start_mtime, end_mcycle,
                 timerVars>>

-----------------------------------------------------------------------------
(***************************************************************************)
(* clint_sleep_until: it returns at once before the target, and sets the   *)
(* timer behind it.                                                        *)
(***************************************************************************)
Sleep ==
  /\ Step("sleep", IF Mtime < tgt THEN "idle" ELSE "cmpHigh")
  /\ UNCHANGED <<k, op, began, waitVars, high, freqVars, timerVars>>

\* Mutant: the target is not shifted.
SetCmpHighUnshifted ==
  /\ Step("cmpHigh", "cmpLow")
  /\ mtimecmp' = tgt * Base + (mtimecmp % Base)
  /\ UNCHANGED <<k, op, began, waitVars, high, freqVars, mtie, mie>>

SetCmpHigh ==
  /\ Step("cmpHigh", "cmpLow")
  /\ mtimecmp' = (tgt \div Base) * Base + (mtimecmp % Base)
  /\ UNCHANGED <<k, op, began, waitVars, high, freqVars, mtie, mie>>

SetCmpLow ==
  /\ Step("cmpLow", "enable")
  /\ mtimecmp' = (mtimecmp \div Base) * Base + (tgt % Base)
  /\ UNCHANGED <<k, op, began, waitVars, high, freqVars, mtie, mie>>

Enable ==
  /\ Step("enable", "wfi")
  /\ mtie' = TRUE /\ mie' = TRUE
  /\ UNCHANGED <<k, op, began, waitVars, high, freqVars, mtimecmp>>

\* It may return without an interrupt.
Wfi ==
  /\ Step("wfi", "idle")
  /\ UNCHANGED <<k, op, began, waitVars, high, freqVars, timerVars>>

\* The program's handler behind _trap_handler_wrap, which restores the caller's
\* registers: it masks the timer or puts it off.
Trap ==
  /\ Interrupted
  /\ \/ mtie' = FALSE /\ UNCHANGED mtimecmp
     \/ mtimecmp' = Never /\ UNCHANGED mtie
  /\ Elapse
  /\ UNCHANGED <<pc, k, op, began, waitVars, high, freqVars, mie>>

-----------------------------------------------------------------------------
Running ==
  \/ ReadHigh \/ AddTicks \/ Spin
  \/ FreqFirst \/ StartCycle \/ FreqStart \/ EndCycle \/ FreqEnd
  \/ Sleep \/ SetCmpHigh \/ SetCmpLow \/ Enable
  \/ Trap

Next == Running \/ Wfi \/ \E c \in Calls : \E t \in Args(c) : Call(c, t)

\* The hart goes on; whether wfi ever returns is open.
Spec == Init /\ [][Next]_vars /\ WF_vars(Running)

-----------------------------------------------------------------------------
\* No carry into mtime's high word since the call began.
NoCarry == Time(began) \div Base = Time(now) \div Base

\* A spin never ends before its time, although the two words of mtime are read at
\* different times; spin_ticks, if there was no carry.
SpinNotEarly ==
  [][pc = "spin" /\ pc' = "idle" =>
       IF op = "spin_until" THEN Time(now) >= tgt
       ELSE NoCarry => Time(now) >= Time(began) + ticks]_vars

\* A spin ends, although a read may miss any tick and a carry may make it read a
\* time of the past.
SpinEnds == (op \in {"spin_until", "spin_ticks"} /\ pc # "idle") ~> (pc = "idle")

\* The measured cycles are those of the measured ticks, within the cycles of a
\* loop at either end, whatever its phase to the ticks; if there was no carry.
FreqAccurate ==
  pc = "idle" /\ op = "get_core_freq" /\ NoCarry =>
    LET cycles   == end_mcycle - start_mcycle
        measured == CyclesPerTick * (end_mtime - start_mtime)
    IN
    /\ end_mtime - start_mtime >= NumTicks
    /\ -3 * MaxDelay < cycles - measured /\ cycles - measured < 3 * MaxDelay

\* clint.c:64, "Wait for interrupt, resuming from here": sleep_until resumes when
\* the time has come.  Its test is the wrong way round.
SleepWaits ==
  [][pc' = "idle" /\ pc \in {"sleep", "wfi"} => Time(now) >= tgt]_vars
=============================================================================
