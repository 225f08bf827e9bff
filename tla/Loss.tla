-------------------------------- MODULE Loss --------------------------------
(***************************************************************************)
(* Which way a packet was lost: the received window and count that the     *)
(* server returns with each reply (sconn.go), what the client keeps of     *)
(* them (recorder.go) and what the result makes of it (result.go), over a  *)
(* network that loses, repeats and reorders requests and replies.          *)
(*                                                                         *)
(* Outside stream mode and without limits on the server: the buffer has a  *)
(* slot for every packet and the server echoes whatever arrives.           *)
(***************************************************************************)
EXTENDS SConn, RoundTrips, Sequences

CONSTANTS
    MaxSends,           \* bound of the number of packets sent
    MaxEchoes,          \* bound of the requests echoed, repeated ones included
    MaxDeliveries,      \* bound of the replies delivered, repeated ones included
    UintMod             \* number of uint values: 2^64

ASSUME LossAssumption ==
    /\ {MaxSends, MaxEchoes, MaxDeliveries} \subseteq Nat
    /\ MinInterval = 0
    /\ MaxSends <= BufCap
    /\ MaxSends + WindowBits <= SeqnoMod
    /\ UintMod \in Nat \ {0}

VARIABLES
    sc,         \* the server's connection
    replies,    \* the replies it sent, in order
    rec,        \* the client's Recorder
    windows,    \* RoundTripData[i].receivedWindow
    serverPacketsReceived,
    delivered   \* history: the replies that reached the client

vars == <<sc, replies, rec, windows, serverPacketsReceived, delivered>>

ReplyType ==
    [seqno : Seqno, count : Nat, window : SUBSET (0 .. WindowBits - 1)]

-----------------------------------------------------------------------------
Init ==
    /\ \E addr \in Addrs : sc = NewSconn(addr, 0)
    /\ replies = <<>>
    /\ rec = NewRecorder
    /\ windows = [i \in Slots |-> {}]
    /\ serverPacketsReceived = 0
    /\ delivered = {}

\* An iteration of the send loop, its two calls of the Recorder in one.
Send ==
    /\ rec.len < MaxSends
    /\ rec' = PostSend(PreSend(rec, rec.len))
    /\ UNCHANGED <<sc, replies, windows, serverPacketsReceived, delivered>>

\* serveEcho of a request, the first of its number or another.
Echo(s) ==
    /\ s < rec.len
    /\ Len(replies) < MaxEchoes
    /\ sc' = Received(sc, 0, s)
    /\ replies' = Append(replies, [seqno  |-> s,
                                   count  |-> sc'.receivedCount,
                                   window |-> sc'.receivedWindow])
    /\ UNCHANGED <<rec, windows, serverPacketsReceived, delivered>>

Deliver(k) ==
    /\ rec.rttN + rec.duplicates < MaxDeliveries
    /\ delivered' = delivered \cup {k}
    /\ UNCHANGED <<sc, replies>>

\* recordReceive of a duplicate leaves the received count and window alone.
ReceiveDuplicate(k) ==
    /\ IsDuplicate(rec, replies[k].seqno)
    /\ rec' = Duplicate(rec)
    /\ Deliver(k)
    /\ UNCHANGED <<windows, serverPacketsReceived>>

\* Faulty variant of ReceiveReply: the window goes to the newest round trip.
ReceiveReplyNewest(k) ==
    /\ ~IsDuplicate(rec, replies[k].seqno)
    /\ rec' = Receive(rec, replies[k].seqno)
    /\ windows' = [windows EXCEPT ![rec.sentIndex] = replies[k].window]
    /\ serverPacketsReceived' = replies[k].count
    /\ Deliver(k)

ReceiveReply(k) ==
    /\ ~IsDuplicate(rec, replies[k].seqno)
    /\ rec' = Receive(rec, replies[k].seqno)
    /\ windows' = [windows EXCEPT ![SlotOf(rec, replies[k].seqno)] = replies[k].window]
    /\ serverPacketsReceived' = replies[k].count
    /\ Deliver(k)

Next ==
    \/ Send
    \/ \E s \in 0 .. MaxSends - 1 : Echo(s)
    \/ \E k \in DOMAIN replies : ReceiveDuplicate(k) \/ ReceiveReply(k)

Spec == Init /\ [][Next]_vars

-----------------------------------------------------------------------------
(* newResult: the lost status of the packets in the buffer *)

Sent == 0 .. rec.len - 1

Answered(i) == rec.rtds[i].replied

\* Faulty variant of MarkPrior: a later window takes a LostDown back.
MarkPriorForgets(lost, i) ==
    [j \in DOMAIN lost |->
        IF j \notin i - (WindowBits - 1) .. i - 1 \/ lost[j] = "false" THEN lost[j]
        ELSE IF i - j \in windows[i] THEN "true_down"
        ELSE "true_up"]

\* The inner loop: what the window of packet i says of the packets before it.
MarkPrior(lost, i) ==
    [j \in DOMAIN lost |->
        IF j \notin i - (WindowBits - 1) .. i - 1 \/ lost[j] = "false" THEN lost[j]
        ELSE IF i - j \in windows[i] THEN "true_down"
        ELSE IF lost[j] = "true_down" THEN lost[j]
        ELSE "true_up"]

\* An iteration of the outer loop.
Mark(lost, i) ==
    IF ~Answered(i) THEN lost
    ELSE LET now == [lost EXCEPT ![i] = "false"]
         IN  IF 0 \in windows[i] THEN MarkPrior(now, i) ELSE now

Lost ==
    LET after[n \in 0 .. rec.len] ==
            IF n = 0 THEN [j \in Sent |-> "true"] ELSE Mark(after[n - 1], n - 1)
    IN  after[rec.len]

PacketsReceived == rec.rttN + rec.duplicates

\* The unsigned differences of which the loss percentages are computed.
UpstreamLoss == (rec.sendCallN - serverPacketsReceived) % UintMod

DownstreamLoss == (serverPacketsReceived - PacketsReceived) % UintMod

-----------------------------------------------------------------------------
(* Properties *)

\* The values the state can take.
TypeOK ==
    /\ sc \in SConnType
    /\ replies \in Seq(ReplyType)
    /\ rec \in RecType
    /\ windows \in [Slots -> SUBSET (0 .. WindowBits - 1)]
    /\ serverPacketsReceived \in Nat
    /\ delivered \subseteq DOMAIN replies

Echoed(s) == \E k \in DOMAIN replies : replies[k].seqno = s

(* serveEcho: whatever the order of the requests, how often they are repeated
   and however far apart their numbers are, a bit of a window that was sent
   out stands for a packet that had been received.                            *)
WindowSound ==
    \A k \in DOMAIN replies : \A b \in replies[k].window :
        \E m \in 1 .. k : replies[m].seqno = replies[k].seqno - b

\* What the windows that arrived say of a packet, the loops left out.
Covers(i, j) == j < i /\ i - j < WindowBits /\ Answered(i) /\ 0 \in windows[i]

Attribution(j) ==
    IF Answered(j) THEN "false"
    ELSE IF \E i \in Sent : Covers(i, j) /\ i - j \in windows[i] THEN "true_down"
    ELSE IF \E i \in Sent : Covers(i, j) THEN "true_up"
    ELSE "true"

(* The nested loops of newResult, which change a status they gave before: the
   result does not depend on the order in which windows are looked at.        *)
LoopAgrees == Lost = [j \in Sent |-> Attribution(j)]

(* doc/irtt.md:176, "any packet marked LostDown is guaranteed to be marked
   properly": the server received it, and no reply to it got through.         *)
DownTruthful ==
    \A j \in Sent :
        Attribution(j) = "true_down" =>
            Echoed(j) /\ \A k \in delivered : replies[k].seqno # j

InOrder ==
    \A m, k \in DOMAIN replies : m < k => replies[m].seqno <= replies[k].seqno

(* doc/irtt.md:177-181 names the ways a packet may be marked LostUp in error: as
   long as requests arrive in order, it is never.                              *)
UpTruthfulInOrder ==
    InOrder => \A j \in Sent : Attribution(j) = "true_up" => ~Echoed(j)

(* doc/irtt-client.md:578-581, upstream_loss_percent is 100 * (packets_sent -
   server_packets_received / packets_sent) and downstream_loss_percent 100 *
   (server_packets_received - packets_received / server_packets_received).     *)
PercentagesAsDocumented ==
    serverPacketsReceived > 0 =>
        /\ UpstreamLoss = rec.sendCallN - serverPacketsReceived
        /\ DownstreamLoss = serverPacketsReceived - PacketsReceived
=============================================================================
