------------------------------ MODULE SendLoop ------------------------------
(***************************************************************************)
(* The schedule of Client.send (client.go): when each packet is sent, how  *)
(* many there are before the loop breaks, and what the limits of the       *)
(* server, that the client's parameters were restricted to, do to them.    *)
(*                                                                         *)
(* Times are ticks since the start of the test.  A Timer may wake the loop *)
(* late, and a compensating one early; sending and preparing a packet take *)
(* time; requests reach the server with a delay that varies, or not at     *)
(* all.  What is sent is of no interest here.                              *)
(***************************************************************************)
EXTENDS SConn

CONSTANTS
    client,         \* the address of the client
    Interval,       \* Params.Interval, as the server allows it
    Duration,       \* Params.Duration
    MaxSendTime,    \* bound of the time a send call takes
    MaxPrepareTime, \* bound of the time the next packet's payload takes
    MaxEarly,       \* how much before its time a Timer may wake
    MaxLate,        \* how much after it
    MaxJitter,      \* variation of the delay to the server
    MaxLost         \* requests lost in a row

(* What restrictParams leaves of the interval and the duration, a Timer whose
   compensation is right to half an interval, and timing errors that the server's
   graces cover.                                                                   *)
ASSUME SendLoopAssumption ==
    /\ client \in Addrs
    /\ {Interval, Duration} \subseteq Nat \ {0}
    /\ {MaxSendTime, MaxPrepareTime, MaxEarly, MaxLate, MaxJitter} \subseteq Nat
    /\ MaxLost \in 0 .. 1
    /\ MaxEarly <= Interval - Interval \div 2
    /\ MinInterval <= Interval
    /\ MaxDuration > 0 =>
         /\ Duration <= MaxDuration
         /\ MaxSendTime + MaxLate + MaxJitter <= MaxDurationGrace
    /\ Timeout > 0 =>
         /\ 4 * Interval <= Timeout
         /\ 2 * (MaxSendTime + MaxPrepareTime + MaxLate) + MaxJitter <= TimeoutGrace

VARIABLES
    pc,         \* where the loop is
    now,        \* TimeSource.Now, since rec.Start
    tsent,      \* packet.tsent, since rec.Start
    slot,       \* tnext in Intervals since rec.Start
    count,      \* packets sent
    sc,         \* the connection at the server
    lost,       \* requests lost since one arrived
    verdict     \* what the server did with the latest request

vars == <<pc, now, tsent, slot, count, sc, lost, verdict>>

\* Faulty variant of PCount: the packet at the start is not counted.
PCountFloor == Duration \div Interval

PCount == 1 + Duration \div Interval

Init ==
    /\ pc = "send"
    /\ now = 0
    /\ tsent = 0
    /\ slot = 0
    /\ count = 0
    /\ sc = NewSconn(client, 0)
    /\ lost = 0
    /\ verdict = "none"

(* The server's handling of a request that arrives at time t.  An expired connection
   is out of the table after this request, which serveEcho still answers: what a client
   meets then is Server's subject, and here the verdict is enough.                      *)
Serve(t) ==
    /\ lost' = 0
    /\ \/ /\ Expired(sc, t)
          /\ verdict' = "expired"
          /\ UNCHANGED sc
       \/ /\ ~Expired(sc, t)
          /\ ShortInterval(sc, t)
          /\ verdict' = "dropped"
          /\ sc' = Throttled(sc, t)
       \/ /\ ~Expired(sc, t)
          /\ ~ShortInterval(sc, t)
          /\ ExceededDuration(sc, t)
          /\ verdict' = "closed"
          /\ UNCHANGED sc
       \/ /\ ~Expired(sc, t)
          /\ ~ShortInterval(sc, t)
          /\ ~ExceededDuration(sc, t)
          /\ verdict' = "served"
          /\ sc' = Received(sc, t, 0)

Lose ==
    /\ lost < MaxLost
    /\ lost' = lost + 1
    /\ verdict' = "none"
    /\ UNCHANGED sc

Send ==
    /\ pc = "send"
    /\ \E d \in 0 .. MaxSendTime : now' = now + d
    /\ tsent' = now'
    /\ count' = count + 1
    /\ pc' = "prepare"
    /\ \/ \E d \in 0 .. MaxJitter :
            /\ tsent' + d >= sc.lastUsed
            /\ Serve(tsent' + d)
       \/ Lose
    /\ UNCHANGED slot

-----------------------------------------------------------------------------
\* Faulty variant of NextSlot: always the next interval.
NextSlotAlways(t) == t \div Interval + 1

\* Under half-way to the next interval it is that one, over half-way the one after.
NextSlot(t) ==
    t \div Interval + IF (tsent % Interval) < Interval \div 2 THEN 1 ELSE 2

\* Faulty variant of Prepare: asks whether the end has passed, not whether it will.
PrepareEndPassed ==
    /\ pc = "prepare"
    /\ IF now < Duration
       THEN slot' = NextSlot(now) /\ pc' = "sleep"
       ELSE pc' = "done" /\ UNCHANGED slot
    /\ UNCHANGED <<now, tsent, count, sc, lost, verdict>>

Prepare ==
    /\ pc = "prepare"
    /\ \E d \in 0 .. MaxPrepareTime : now' = now + d
    /\ LET next == NextSlot(now')
       IN  IF next * Interval < Duration
           THEN slot' = next /\ pc' = "sleep"
           ELSE pc' = "done" /\ UNCHANGED slot
    /\ UNCHANGED <<tsent, count, sc, lost, verdict>>

Sleep ==
    /\ pc = "sleep"
    /\ \E t \in slot * Interval - MaxEarly .. slot * Interval + MaxLate :
         /\ t >= now
         /\ now' = t
    /\ pc' = "send"
    /\ UNCHANGED <<tsent, slot, count, sc, lost, verdict>>

Next == Send \/ Prepare \/ Sleep

Spec == Init /\ [][Next]_vars

-----------------------------------------------------------------------------
(* Properties *)

\* The values the state can take.
TypeOK ==
    /\ pc \in {"send", "prepare", "sleep", "done"}
    /\ {now, tsent, count} \subseteq Nat
    /\ slot \in 0 .. (Duration - 1) \div Interval
    /\ lost \in 0 .. MaxLost
    /\ sc \in SConnType
    /\ verdict \in {"none", "served", "dropped", "expired", "closed"}

(* newRecorder's buffer of a test that is not streamed has room for pcount round
   trips, and recordPreSend would silently overwrite the first ones after that:
   however early and late the Timer wakes, no more packets are sent.             *)
FitsBuffer == count <= PCount

(* The token bucket of serveEcho never drops a client that keeps to the interval it
   was given: two packets of the burst, and what covers an early Timer and the
   jitter of the network, are enough, however late packets are sent.               *)
PacedServed ==
    (PacketBurst - 2) * MinInterval >= MaxEarly + MaxJitter => verdict # "dropped"

(* restrictParams keeps the interval to a fourth of the timeout: a lost request, and
   the loop's skipping of an interval before and after it, do not let the connection
   expire.                                                                           *)
StaysOpen == verdict # "expired"

(* The duration the client was given is the one the server closes a connection after,
   and the loop stops before a packet that would come later than its grace.          *)
NotCutOff == verdict # "closed"
=============================================================================
