------------------------------- MODULE SConn -------------------------------
(***************************************************************************)
(* One client's connection as the server keeps it (sconn.go), as a record  *)
(* and the operators the handlers apply to it.  Nothing here is a state    *)
(* machine: Server.tla gives the records a life.                           *)
(*                                                                         *)
(* Times are ticks of the server's clock.  The token bucket, a float64     *)
(* number of packets in the code, is kept in ticks (packets times          *)
(* MinInterval), so that an idle tick earns exactly one unit and a packet  *)
(* costs MinInterval: the arithmetic is the code's without its rounding.   *)
(***************************************************************************)
EXTENDS Integers

CONSTANTS
    Addrs,              \* the clients' UDP addresses
    MinInterval,        \* ServerConfig.MinInterval, 0 for no rate limit
    PacketBurst,        \* ServerConfig.PacketBurst
    MaxDuration,        \* ServerConfig.MaxDuration, 0 for no limit
    MaxDurationGrace,   \* maxDurationGrace
    Timeout,            \* ServerConfig.Timeout, 0 for no timeout
    TimeoutGrace,       \* timeoutGrace
    SeqnoMod,           \* number of Seqno values: 2^32 in the code
    WindowBits          \* width of ReceivedWindow: 64 in the code

ASSUME SConnAssumption ==
    /\ {MinInterval, PacketBurst, MaxDuration, MaxDurationGrace} \subseteq Nat
    /\ {Timeout, TimeoutGrace} \subseteq Nat
    /\ {SeqnoMod, WindowBits} \subseteq Nat \ {0}

NoTime == -1                        \* the zero time.Time

Seqno == 0 .. SeqnoMod - 1

InvalidSeqno == SeqnoMod - 1

BucketCap == PacketBurst * MinInterval

SConnType ==
    [raddr          : Addrs,
     created        : Nat,
     firstUsed      : Nat \cup {NoTime},
     lastUsed       : Nat \cup {NoTime},
     bucket         : Nat,
     lastSeqno      : Seqno,
     receivedCount  : Nat,
     receivedWindow : SUBSET (0 .. WindowBits - 1)]

\* Faulty variant of NewSconn: the bucket starts empty.
NewSconnEmptyBucket(raddr, now) ==
    [raddr |-> raddr, created |-> now, firstUsed |-> NoTime, lastUsed |-> NoTime,
     bucket |-> 0, lastSeqno |-> InvalidSeqno, receivedCount |-> 0,
     receivedWindow |-> {}]

NewSconn(raddr, now) ==
    [raddr          |-> raddr,
     created        |-> now,
     firstUsed      |-> NoTime,
     lastUsed       |-> NoTime,
     bucket         |-> BucketCap,
     lastSeqno      |-> InvalidSeqno,
     receivedCount  |-> 0,
     receivedWindow |-> {}]

\* Faulty variant of Expired: without the grace.
ExpiredNoGrace(sc, now) ==
    Timeout # 0 /\ sc.lastUsed # NoTime /\ now - sc.lastUsed > Timeout

Expired(sc, now) ==
    /\ Timeout # 0
    /\ sc.lastUsed # NoTime
    /\ now - sc.lastUsed > Timeout + TimeoutGrace

-----------------------------------------------------------------------------
(* The steps of serveEcho *)

FirstUsed(sc, now) == IF sc.firstUsed = NoTime THEN now ELSE sc.firstUsed

\* Credit before the request is paid for: idle time is added, up to the burst.
Refill(sc, now) ==
    IF MinInterval > 0 /\ sc.lastUsed # NoTime
    THEN LET filled == sc.bucket + (now - sc.lastUsed)
         IN  IF filled > BucketCap THEN BucketCap ELSE filled
    ELSE sc.bucket

ShortInterval(sc, now) == MinInterval > 0 /\ Refill(sc, now) < MinInterval

\* Faulty variant of Throttled: a dropped request does not update lastUsed, and
\* the time before it is earned again by the next request.
ThrottledEarnsTwice(sc, now) ==
    [sc EXCEPT !.firstUsed = FirstUsed(sc, now),
               !.lastUsed  = IF @ = NoTime THEN now ELSE @,
               !.bucket    = Refill(sc, now)]

\* A request dropped by the bucket counts as a use, not as a packet received.
Throttled(sc, now) ==
    [sc EXCEPT !.firstUsed = FirstUsed(sc, now),
               !.lastUsed  = now,
               !.bucket    = Refill(sc, now)]

\* Faulty variant of SinceLast: the window stays when a packet is late, while
\* lastSeqno goes back.
SinceLastClamped(sc, seqno) ==
    IF sc.lastSeqno # InvalidSeqno /\ seqno < sc.lastSeqno THEN 0
    ELSE (seqno - sc.lastSeqno) % SeqnoMod

\* seqno - lastSeqno on uint32: a late packet is a large advance, so the code's
\* test sinceLastSeqno >= 0 always holds and its late branch (with the reset of
\* rwinValid) is never taken; rwinValid is true from the first packet on.
SinceLast(sc, seqno) == (seqno - sc.lastSeqno) % SeqnoMod

\* Faulty variant of Slide: starts over with each packet.
SlideForgets(window, d) == {0}

Slide(window, d) ==
    {0} \cup {b \in 0 .. WindowBits - 1 : b - d \in window}

Received(sc, now, seqno) ==
    [sc EXCEPT !.firstUsed      = FirstUsed(sc, now),
               !.lastUsed       = now,
               !.bucket         = Refill(sc, now) - MinInterval,
               !.lastSeqno      = seqno,
               !.receivedCount  = @ + 1,
               !.receivedWindow = Slide(@, SinceLast(sc, seqno))]

\* Faulty variant of ExceededDuration: the limit runs from the latest request.
ExceededDurationSinceLast(sc, now) ==
    MaxDuration > 0 /\ sc.lastUsed # NoTime
        /\ now - sc.lastUsed > MaxDuration + MaxDurationGrace

ExceededDuration(sc, now) ==
    MaxDuration > 0 /\ now - FirstUsed(sc, now) > MaxDuration + MaxDurationGrace
=============================================================================
