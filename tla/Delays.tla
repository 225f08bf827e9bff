------------------------------- MODULE Delays -------------------------------
(***************************************************************************)
(* Times of two clocks (time.go) and the delays that are measured with     *)
(* them (RoundTripData's methods, recorder.go).  A time is a record of a   *)
(* wall and a mono value, 0 for one that is not there; a round trip is the *)
(* client's send and receive times and the server's.                       *)
(***************************************************************************)
EXTENDS Integers

Clocks == {"wall", "mono"}

InvalidDuration == 2^30      \* more than any delay

IsZero(t) == t.wall = 0 /\ t.mono = 0

\* Time.Sub: the monotonic values if both have one.
TimeSub(t, u) == IF t.mono # 0 /\ u.mono # 0 THEN t.mono - u.mono ELSE t.wall - u.wall

TimeAdd(t, d) == [k \in Clocks |-> IF t[k] # 0 THEN t[k] + d ELSE 0]

\* Division truncates, and u is not before t.
Midpoint(t, u) == TimeAdd(t, TimeSub(u, t) \div 2)

KeepClocks(t, kinds) == [k \in Clocks |-> IF k \in kinds THEN t[k] ELSE 0]

BestSend(ts) == IF IsZero(ts.send) THEN ts.receive ELSE ts.send
BestReceive(ts) == IF IsZero(ts.receive) THEN ts.send ELSE ts.receive

-----------------------------------------------------------------------------
(* RoundTripData *)

\* The server returned any time of this clock.
Timestamped(rtd, k) == rtd.server.receive[k] # 0 \/ rtd.server.send[k] # 0

ServerProcessingTime(rtd) ==
    LET s == rtd.server
        Both(k) == s.receive[k] # 0 /\ s.send[k] # 0
    IN  IF Both("mono") THEN s.send.mono - s.receive.mono
        ELSE IF Both("wall") THEN s.send.wall - s.receive.wall
        ELSE InvalidDuration

\* Of a reply that was received.
RTT(rtd) ==
    LET rtt == rtd.client.receive.mono - rtd.client.send.mono
        spt == ServerProcessingTime(rtd)
    IN  IF spt = InvalidDuration THEN rtt ELSE rtt - spt

\* SendMonoDiff and SendWallDiff; SendDelay is the latter.
SendDiff(rtd, k) == BestReceive(rtd.server)[k] - rtd.client.send[k]

\* ReceiveMonoDiff and ReceiveWallDiff; ReceiveDelay is the latter.
ReceiveDiff(rtd, k) == rtd.client.receive[k] - BestSend(rtd.server)[k]

SendDelay(rtd) == IF Timestamped(rtd, "wall") THEN SendDiff(rtd, "wall") ELSE InvalidDuration
ReceiveDelay(rtd) ==
    IF Timestamped(rtd, "wall") THEN ReceiveDiff(rtd, "wall") ELSE InvalidDuration

\* Faulty variant of BestClock: the wall clock first.
BestClockWall(rtd, prior) ==
    IF Timestamped(rtd, "wall") /\ Timestamped(prior, "wall") THEN "wall" ELSE "mono"

\* The clock of the two IPDVs: the monotonic one if both round trips have it.
BestClock(rtd, prior) ==
    IF Timestamped(rtd, "mono") /\ Timestamped(prior, "mono") THEN "mono" ELSE "wall"

SendIPDVSince(rtd, prior) ==
    LET k == BestClock(rtd, prior) IN SendDiff(rtd, k) - SendDiff(prior, k)
ReceiveIPDVSince(rtd, prior) ==
    LET k == BestClock(rtd, prior) IN ReceiveDiff(rtd, k) - ReceiveDiff(prior, k)
=============================================================================
