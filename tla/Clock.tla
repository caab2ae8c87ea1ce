--------------------------------- MODULE Clock ---------------------------------
(* The timer (devices/timer.c, devices/pit.c): the tick count, which is     *)
(* wider than a word and read by two loads, threads that sleep by yielding  *)
(* until their tick, and delays by counted loops, calibrated at boot.       *)
(* Interrupts are off between the loads, so nothing else moves there.       *)
EXTENDS Integers
CONSTANTS
  Thread,
  Half,        \* values of a word of the tick count
  MaxTicks,    \* ticks in a behaviour (bound)
  TimerFreq,   \* ticks per second
  Scale,       \* 1000 in the code
  Speeds,      \* loops the machine may do in a tick
  FirstLoops, RefineBits, LoopWrap,  \* 2^10, 10 and 2^32 in the code
  Times,       \* <<num, denom>> of the delays (bound)
  PitHz, PitMin, PitWrap             \* 1193180, 19 and 2^16 in the code

\* FirstLoops is 2^RefineBits, no speed is less, and denoms are multiples of
\* Scale, as the callers' are (an ASSERT of real_time_delay).
ClockAssumption ==
  /\ {Half, TimerFreq, Scale, FirstLoops, LoopWrap, PitHz, PitMin} \subseteq Nat \ {0}
  /\ FirstLoops = 2 ^ RefineBits /\ \A s \in Speeds : s \in Nat /\ s >= FirstLoops
  /\ \A d \in Times : d[1] \in Nat /\ d[2] \in Nat \ {0} /\ d[2] % Scale = 0
  /\ PitMin > 1 /\ PitWrap \in Nat /\ PitHz + PitMin < PitMin * PitWrap

VARIABLES
  high, low,   \* the words of ticks
  speed,       \* loops in a tick, which nobody knows
  loopsPerTick,
  pc, want, start, seen,  \* of a thread in timer_sleep: "out", "sleep", "half", "test"
  began        \* the tick at which a thread called timer_sleep (ghost)

vars == <<high, low, speed, loopsPerTick, pc, want, start, seen, began>>

ticks == high * Half + low
NoTime == -1
-----------------------------------------------------------------------------
\* too_many_loops, from the start of a tick.
TooManyLoops(loops) == loops > speed

\* timer_calibrate: the power of two below a tick, then the bits below it.
\* Mutant: a bit that is too many stays.
RefineAll[loops \in Nat, bit \in Nat, last \in Nat] ==
  IF bit = last THEN loops ELSE RefineAll[loops + bit, bit \div 2, last]
RefinedAlways(loops, bit, last) == RefineAll[loops, bit, last]
Doubled[loops \in Nat] ==
  LET twice == (2 * loops) % LoopWrap IN
  IF TooManyLoops(twice) THEN loops ELSE IF twice = 0 THEN 0 ELSE Doubled[twice]
Refine[loops \in Nat, bit \in Nat, last \in Nat] ==
  IF bit = last THEN loops
  ELSE Refine[IF TooManyLoops(loops + bit) THEN loops ELSE loops + bit, bit \div 2, last]
Refined(loops, bit, last) == Refine[loops, bit, last]
Highest == Doubled[FirstLoops]

Init ==
  /\ high = 0 /\ low = 0 /\ speed \in Speeds /\ loopsPerTick = 0
  /\ pc = [t \in Thread |-> "out"] /\ want = [t \in Thread |-> 0]
  /\ start = [t \in Thread |-> NoTime] /\ seen = [t \in Thread |-> 0]
  /\ began = [t \in Thread |-> 0]

InterruptsOn == \A t \in Thread : pc[t] # "half"

\* The loop count that wraps fails the ASSERT, and nothing goes on.
Calibrate ==
  /\ loopsPerTick = 0 /\ Highest # 0
  /\ loopsPerTick' = Refined(Highest, Highest \div 2, Highest \div 2 ^ RefineBits)
  /\ UNCHANGED <<high, low, speed, pc, want, start, seen, began>>

\* timer_interrupt: the carry is part of the handler.
Tick ==
  /\ InterruptsOn /\ loopsPerTick # 0 /\ ticks < MaxTicks
  /\ low' = (low + 1) % Half /\ high' = IF low' = 0 THEN high + 1 ELSE high
  /\ UNCHANGED <<speed, loopsPerTick, pc, want, start, seen, began>>

\* real_time_delay, scaled down before it can overflow.
\* Mutant: only the denominator is.
LoopsUnscaled(num, denom) == (loopsPerTick * num * TimerFreq) \div (denom \div Scale)
Loops(num, denom) == (((loopsPerTick * num) \div Scale) * TimerFreq) \div (denom \div Scale)

(* real_time_sleep for whole ticks.  A sleep of less is a busy wait, which  *)
(* changes nothing; Loops says how long it is.                              *)
Sleep(t, num, denom) ==
  LET n == (num * TimerFreq) \div denom IN
  /\ InterruptsOn /\ loopsPerTick # 0 /\ pc[t] = "out" /\ n > 0 /\ ticks + n <= MaxTicks
  /\ pc' = [pc EXCEPT ![t] = "sleep"] /\ want' = [want EXCEPT ![t] = n]
  /\ began' = [began EXCEPT ![t] = ticks]
  /\ UNCHANGED <<high, low, speed, loopsPerTick, start, seen>>

(* timer_ticks: one word, then the other, with interrupts off.  The first   *)
(* call's answer is the start of the sleep.  Mutant: interrupts stay on.    *)
LoadLowOpen(t) ==
  /\ InterruptsOn /\ pc[t] = "sleep"
  /\ seen' = [seen EXCEPT ![t] = low] /\ pc' = [pc EXCEPT ![t] = "open"]
  /\ UNCHANGED <<high, low, speed, loopsPerTick, want, start, began>>
LoadLow(t) ==
  /\ InterruptsOn /\ pc[t] = "sleep"
  /\ seen' = [seen EXCEPT ![t] = low] /\ pc' = [pc EXCEPT ![t] = "half"]
  /\ UNCHANGED <<high, low, speed, loopsPerTick, want, start, began>>
LoadHigh(t) ==
  /\ pc[t] \in {"half", "open"}
  /\ seen' = [seen EXCEPT ![t] = high * Half + @] /\ pc' = [pc EXCEPT ![t] = "test"]
  /\ UNCHANGED <<high, low, speed, loopsPerTick, want, start, began>>

(* timer_elapsed is less than what is wanted: yield, and read again.        *)
(* Mutant: a thread that was away at its tick sleeps on.                    *)
TestExactly(t) ==
  /\ InterruptsOn /\ pc[t] = "test"
  /\ LET from == IF start[t] = NoTime THEN seen[t] ELSE start[t]
         over == start[t] # NoTime /\ seen[t] - from = want[t] IN
     /\ start' = [start EXCEPT ![t] = from]
     /\ pc' = [pc EXCEPT ![t] = IF over THEN "woken" ELSE "sleep"]
  /\ UNCHANGED <<high, low, speed, loopsPerTick, want, seen, began>>
Test(t) ==
  /\ InterruptsOn /\ pc[t] = "test"
  /\ LET from == IF start[t] = NoTime THEN seen[t] ELSE start[t]
         over == start[t] # NoTime /\ seen[t] - from >= want[t] IN
     /\ start' = [start EXCEPT ![t] = from]
     /\ pc' = [pc EXCEPT ![t] = IF over THEN "woken" ELSE "sleep"]
  /\ UNCHANGED <<high, low, speed, loopsPerTick, want, seen, began>>
Return(t) ==
  /\ InterruptsOn /\ pc[t] = "woken" /\ pc' = [pc EXCEPT ![t] = "out"]
  /\ want' = [want EXCEPT ![t] = 0] /\ start' = [start EXCEPT ![t] = NoTime]
  /\ seen' = [seen EXCEPT ![t] = 0] /\ began' = [began EXCEPT ![t] = 0]
  /\ UNCHANGED <<high, low, speed, loopsPerTick>>

Step(t) == LoadLow(t) \/ LoadHigh(t) \/ Test(t) \/ Return(t)

Next ==
  \/ Calibrate \/ Tick
  \/ \E t \in Thread : Step(t) \/ \E d \in Times : Sleep(t, d[1], d[2])

(* A timer interrupt is taken once interrupts are on again, and a thread    *)
(* that yields runs again, though others turn interrupts off in between.    *)
Spec == Init /\ [][Next]_vars /\ SF_vars(Tick) /\ \A t \in Thread : SF_vars(Step(t))
-----------------------------------------------------------------------------
\* No thread wakes before the ticks it asked for have come (timer_sleep).
WakesInTime == \A t \in Thread : pc[t] = "woken" => ticks - began[t] >= want[t]

(* The calibration is the largest count of its precision that is less than  *)
(* a tick (timer_calibrate), and a delay is short by its rounding only.     *)
CalibratedRight ==
  loopsPerTick # 0 =>
    loopsPerTick <= speed /\ speed < loopsPerTick + Highest \div 2 ^ (RefineBits - 1)
DelayRight ==
  \A d \in Times :
    LET wanted == loopsPerTick * d[1] * TimerFreq
        waited == Loops(d[1], d[2]) * d[2] IN
    waited <= wanted /\ waited > wanted - Scale * TimerFreq - d[2]

(* The count for a frequency is the nearest there is and fits the register, *)
(* which takes 0 for the largest count (pit_configure_channel).  A count of *)
(* 1 comes out for frequencies near PitHz, though mode 2 has none.          *)
PitCount(frequency) ==
  IF frequency < PitMin THEN 0 ELSE IF frequency > PitHz THEN 2
  ELSE (PitHz + frequency \div 2) \div frequency
PitRight ==
  \A f \in PitMin..PitHz :
    /\ PitCount(f) \in 1..PitWrap - 1
    /\ 2 * (PitCount(f) * f - PitHz) \in -f..f

\* Every sleep whose time comes within the bound ends.
SleepEnds ==
  \A t \in Thread :
    pc[t] # "out" /\ start[t] # NoTime /\ start[t] + want[t] <= MaxTicks ~> pc[t] = "out"

(* Sleeps are long enough and end, delays and the calibration behind them   *)
(* are right to their precision (timer.c).                                  *)
TimerExact == WakesInTime /\ CalibratedRight /\ DelayRight /\ PitRight
TimerRight == []TimerExact /\ SleepEnds
=============================================================================
