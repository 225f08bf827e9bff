------------------------------ MODULE Recorder ------------------------------
(***************************************************************************)
(* The Recorder at work: the client's send loop and its receive loop call  *)
(* it under its mutex, so each method is one action, but a send is two of  *)
(* them, recordPreSend before the packet is written and recordPostSend     *)
(* after, and replies are recorded in between.                             *)
(***************************************************************************)
EXTENDS RoundTrips, FiniteSets

CONSTANTS
    MaxSends,           \* bound of the number of packets sent
    MaxDuplicates       \* bound of the duplicates recorded

ASSUME RecorderAssumption == {MaxSends, MaxDuplicates} \subseteq Nat

VARIABLES
    stream,     \* ClientConfig.Stream: the buffer may wrap
    rec,        \* the Recorder
    sender,     \* where the send loop is
    seqno,      \* the sequence number of its packet
    wire,       \* the packets that went out, which are those the server echoes
    counted,    \* history: the packets whose round trip time was recorded
    event       \* the RecorderHandler call or the outcome of the last step

vars == <<stream, rec, sender, seqno, wire, counted, event>>

\* A handler is given round trips: the sends they were created for.
Event(what, s, rtd, prtd) == [what |-> what, packet |-> s, rtd |-> rtd, prtd |-> prtd]

NoEvent == Event("none", None, None, None)

TagAt(slot) == IF slot = None THEN None ELSE rec.rtds[slot].sent

-----------------------------------------------------------------------------
Init ==
    /\ stream \in BOOLEAN
    /\ rec = NewRecorder
    /\ sender = "ready"
    /\ seqno = 0
    /\ wire = {}
    /\ counted = {}
    /\ event = NoEvent

(* The send loop; outside stream mode the buffer has room for every packet. *)
RecordPreSend ==
    /\ sender = "ready"
    /\ seqno < MaxSends
    /\ stream \/ seqno < BufCap
    /\ rec' = PreSend(rec, seqno)
    /\ sender' = "writing"
    /\ event' = NoEvent
    /\ UNCHANGED <<stream, seqno, wire, counted>>

Write ==
    /\ sender = "writing"
    /\ wire' = wire \cup {seqno}
    /\ sender' = "written"
    /\ event' = NoEvent
    /\ UNCHANGED <<stream, rec, seqno, counted>>

RecordPostSend ==
    /\ sender = "written"
    /\ rec' = PostSend(rec)
    /\ event' = Event("OnSent", seqno, TagAt(SentSlot(rec)), None)
    /\ seqno' = seqno + 1
    /\ sender' = "ready"
    /\ UNCHANGED <<stream, wire, counted>>

\* conn.send fails: the send loop takes the round trip back and returns.
WriteFails ==
    /\ sender = "writing"
    /\ rec' = IF stream THEN rec ELSE RemoveLast(rec)
    /\ sender' = "stopped"
    /\ event' = NoEvent
    /\ UNCHANGED <<stream, seqno, wire, counted>>

(* The receive loop, for replies that come late, twice, out of order or never. *)
RecordUnexpected(s) ==
    /\ s > rec.priorSent
    /\ event' = Event("UnexpectedSequenceNumber", s, None, None)
    /\ UNCHANGED <<stream, rec, sender, seqno, wire, counted>>

RecordAgedOut(s) ==
    /\ s <= rec.priorSent
    /\ AgedOut(rec, s)
    /\ event' = Event("aged out", s, None, None)
    /\ UNCHANGED <<stream, rec, sender, seqno, wire, counted>>

RecordDuplicate(s) ==
    /\ s <= rec.priorSent
    /\ ~AgedOut(rec, s)
    /\ IsDuplicate(rec, s)
    /\ rec.duplicates < MaxDuplicates
    /\ rec' = Duplicate(rec)
    /\ event' = Event("OnReceived dup", s, TagAt(SlotOf(rec, s)), TagAt(PriorSlot(rec, s)))
    /\ UNCHANGED <<stream, sender, seqno, wire, counted>>

RecordReceive(s) ==
    /\ s <= rec.priorSent
    /\ ~AgedOut(rec, s)
    /\ ~IsDuplicate(rec, s)
    /\ rec' = Receive(rec, s)
    /\ counted' = counted \cup {s}
    /\ event' = Event("OnReceived", s, TagAt(SlotOf(rec, s)), TagAt(PriorSlot(rec, s)))
    /\ UNCHANGED <<stream, sender, seqno, wire>>

Reply(s) ==
    \/ RecordAgedOut(s)
    \/ RecordDuplicate(s)
    \/ RecordReceive(s)

Next ==
    \/ RecordPreSend
    \/ Write
    \/ RecordPostSend
    \/ WriteFails
    \/ \E s \in wire : Reply(s)
    \/ RecordUnexpected(rec.priorSent + 1)

Spec == Init /\ [][Next]_vars

-----------------------------------------------------------------------------
(* Properties *)

\* The values of the Recorder's state.
TypeOK ==
    /\ stream \in BOOLEAN
    /\ rec \in RecType
    /\ sender \in {"ready", "writing", "written", "stopped"}
    /\ seqno \in 0 .. MaxSends
    /\ wire \subseteq 0 .. MaxSends
    /\ counted \subseteq wire

(* While packets are sent, the last len of them are found where recordReceive
   looks for them, counting back from sentIndex and around the end of the ring. *)
RingLayout ==
    sender # "stopped" =>
        \A s \in 0 .. rec.priorSent :
            ~AgedOut(rec, s) => rec.rtds[SlotOf(rec, s)].sent = s

(* recordReceive writes a reply, duplicate or not, late or not, to the round
   trip of the packet it answers, and to no other.                            *)
ReplyFindsRoundTrip ==
    event.what \in {"OnReceived", "OnReceived dup"} => event.rtd = event.packet

(* recorder.go:152-157: a reply is discarded as aged out only when its round trip is no
   longer in the buffer.  Of a test whose send failed and was taken back, the reply to the
   first packet is discarded as well, and that to no other: removeLastStamps leaves the
   priorSent from which recordReceive counts back.                                        *)
AgedOutMeansOverwritten ==
    event.what = "aged out" =>
      \/ \A i \in Slots : rec.rtds[i].sent # event.packet
      \/ sender = "stopped" /\ ~stream /\ event.packet = 0

(* However often a packet is answered, and after its slot went to another one,
   it counts at most once in RTTStats; and newResult may subtract RTTStats.N from
   SendCallStats.N as unsigned integers: no round trip is counted before its send,
   unless that send is on its way to recordPostSend.                          *)
CountedOnce ==
    /\ rec.rttN = Cardinality(counted)
    /\ rec.rttN <= rec.sendCallN + (IF sender = "written" THEN 1 ELSE 0)

(* recorder.go:542, "OnSent is called when a packet is sent", and recorder.go:167,
   "set prior RoundTripData, if available": with a buffer that does not wrap, a
   handler is given the round trip of the packet sent, and with a reply that of the
   packet before, from which it computes the delay variation.                 *)
HandlersGivenTheirs ==
    ~stream =>
        /\ event.what = "OnSent" => event.rtd = event.packet
        /\ event.what \in {"OnReceived", "OnReceived dup"} =>
             event.prtd = IF event.packet = 0 THEN None ELSE event.packet - 1
=============================================================================
