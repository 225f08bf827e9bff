----------------------------- MODULE TimedLoop -----------------------------
(***************************************************************************)
(* The send loop with the Timers of timer.go and the Averagers of          *)
(* averager.go in it: how long each of them really sleeps, and what a      *)
(* compensating Timer learns from it.  A wake-up is late by what the       *)
(* system adds to the sleep asked of it; it is early only when a Timer     *)
(* asked for less than it was told to wait.                                *)
(*                                                                         *)
(* An error factor, a float64 in the code, is kept in Scale-ths, rounded   *)
(* down: 1 tick in 12 of a sleep is told apart from none, and no more.     *)
(***************************************************************************)
EXTENDS SendLoop, Functions

CONSTANTS
    TimerChoices,   \* pairs of a Timer and an Averager to choose from
    Latencies,      \* what the system may add to a sleep
    LatencyShare,   \* a compensated sleep is at least so many times its latency
    Scale,          \* the error factor 1
    Alpha,          \* Alpha of the exponential average, in hundredths
    Window,         \* Window of the moving average
    SleepTenths     \* the sleep factor of the hybrid Timer, in tenths

TimerKinds == {"any", "simple", "comp", "hybrid", "busy"}
AveragerKinds == {"none", "avg", "win", "exp"}

ASSUME TimedLoopAssumption ==
    /\ TimerChoices \subseteq TimerKinds \X AveragerKinds
    /\ Latencies \subseteq 0 .. MaxLate
    /\ {LatencyShare, Scale, Window} \subseteq Nat \ {0}
    /\ Alpha \in 0 .. 100
    /\ SleepTenths \in 1 .. 9

VARIABLES
    timer,      \* ClientConfig.Timer and the Averager it was made with
    avg         \* the state of the Averager

timedVars == <<vars, timer, avg>>

NewAverager == [sum |-> 0, n |-> 0, values |-> [i \in 0 .. Window - 1 |-> 0], pos |-> 0]

MaxErrorFactor == 2 * Scale     \* DefaultCompTimerMaxErrorFactor

-----------------------------------------------------------------------------
(* The Averagers.  n counts the values pushed; for the moving average, n = Window
   stands for `filled'.  The sum of the exponential one is its average.            *)

PushWindow(a, val) ==
    [a EXCEPT !.values[a.pos] = val,
              !.pos           = IF @ + 1 = Window THEN 0 ELSE @ + 1,
              !.n             = IF @ < Window THEN @ + 1 ELSE @]

\* Faulty variant of PushExponential: the first value is averaged with zero.
PushExponentialFromZero(a, val) ==
    [a EXCEPT !.sum = (Alpha * val + (100 - Alpha) * @) \div 100]

PushExponential(a, val) ==
    [a EXCEPT !.sum = IF @ = 0 THEN val ELSE (Alpha * val + (100 - Alpha) * @) \div 100]

PushCumulative(a, val) == [a EXCEPT !.sum = @ + val, !.n = @ + 1]

Push(kind, a, val) ==
    IF kind = "win" THEN PushWindow(a, val)
    ELSE IF kind = "exp" THEN PushExponential(a, val)
    ELSE PushCumulative(a, val)

Mean(sum, n) == IF n = 0 THEN 0 ELSE sum \div n

Average(kind, a) ==
    IF kind = "win" THEN Mean(SumFunctionOnSet(a.values, 0 .. a.n - 1), a.n)
    ELSE IF kind = "exp" THEN a.sum
    ELSE Mean(a.sum, a.n)

-----------------------------------------------------------------------------
(* The Timers *)

\* The sleep a CompTimer asks of the system when it is to wait d.
Compensated(d, comp) == IF comp = 0 THEN d ELSE (d * Scale) \div comp

ErrorFactor(slept, asked) == (slept * Scale) \div asked

Learn(kind, slept, asked) ==
    avg' = IF asked > 0 /\ ErrorFactor(slept, asked) <= MaxErrorFactor
           THEN Push(kind, avg, ErrorFactor(slept, asked))
           ELSE avg

WakeAt(t) ==
    /\ now' = t
    /\ pc' = "send"
    /\ UNCHANGED <<tsent, slot, count, sc, lost, verdict>>

\* What the loop hands to Sleep: the time to the slot.
ToWait == slot * Interval - now

\* SimpleTimer: never early.
SimpleSleep ==
    /\ pc = "sleep"
    /\ timer[1] = "simple"
    /\ \E late \in Latencies : WakeAt(slot * Interval + late)
    /\ UNCHANGED <<timer, avg>>

\* BusyTimer: the first look at the clock after the time has come.
BusySleep ==
    /\ pc = "sleep"
    /\ timer[1] = "busy"
    /\ \E late \in Latencies : WakeAt(slot * Interval + late)
    /\ UNCHANGED <<timer, avg>>

CompSleep ==
    /\ pc = "sleep"
    /\ timer[1] = "comp"
    /\ LET asked == Compensated(ToWait, Average(timer[2], avg))
       IN  \E late \in Latencies :
             /\ LatencyShare * late <= asked
             /\ WakeAt(now + asked + late)
             /\ Learn(timer[2], asked + late, asked)
    /\ UNCHANGED timer

\* HybridTimer: a compensated sleep of part of the time, and a busy wait for the rest.
HybridSleep ==
    /\ pc = "sleep"
    /\ timer[1] = "hybrid"
    /\ LET part  == (ToWait * SleepTenths) \div 10
           asked == Compensated(part, Average(timer[2], avg))
       IN  \E late \in Latencies :
             /\ LatencyShare * late <= asked
             /\ WakeAt(IF asked + late < ToWait THEN slot * Interval
                       ELSE now + asked + late)
             /\ Learn(timer[2], asked + late, asked)
    /\ UNCHANGED timer

\* Any other Timer that is registered, as SendLoop assumes it to be.
OtherSleep ==
    /\ timer[1] = "any"
    /\ Sleep
    /\ UNCHANGED <<timer, avg>>

Timed(A) == A /\ UNCHANGED <<timer, avg>>

TimedInit ==
    /\ Init
    /\ timer \in TimerChoices
    /\ avg = NewAverager

TimedNext ==
    \/ Timed(Send)
    \/ Timed(Prepare)
    \/ SimpleSleep
    \/ BusySleep
    \/ CompSleep
    \/ HybridSleep
    \/ OtherSleep

TimedSpec == TimedInit /\ [][TimedNext]_timedVars

-----------------------------------------------------------------------------
(* Properties *)

\* Half an interval, rounded up.
HalfInterval == Interval - Interval \div 2

Schedule == INSTANCE SendLoop WITH MaxEarly <- HalfInterval

(* Each Timer, with each Averager, is one that SendLoop takes a Timer to be: it wakes
   the loop at most half an interval early, rounded up, and no later than the system
   makes it, as long as the system's latency stays within a third of a sleep.  What
   SendLoop says of the buffer and of the server's limits holds for the program's
   Timers.                                                                            *)
KeepsSchedule == Schedule!Spec
=============================================================================
