----------------------------- MODULE RoundTrips -----------------------------
(***************************************************************************)
(* The Recorder's buffer of round trips (recorder.go) as a record, and     *)
(* what its methods do to it.  RoundTripData is a Go slice of a fixed      *)
(* capacity that is appended to until it is full and is a ring from then   *)
(* on: rtds holds its array, len its length.                               *)
(*                                                                         *)
(* Time is abstracted: of a RoundTripData the client send time is kept as  *)
(* the number of the send it was taken at, which is what tells two round   *)
(* trips apart, and the client receive time as the fact that it is set.    *)
(***************************************************************************)
EXTENDS Integers

CONSTANTS BufCap        \* capacity of the buffer given to newRecorder

ASSUME BufCapAssumption == BufCap \in Nat \ {0}

None == -1

Slots == 0 .. BufCap - 1

RoundTripData == [sent : Nat \cup {None}, replied : BOOLEAN, late : BOOLEAN]

SentAt(seqno) == [sent |-> seqno, replied |-> FALSE, late |-> FALSE]

RecType ==
    [rtds          : [Slots -> RoundTripData],
     len           : 0 .. BufCap,
     sentIndex     : Slots,
     priorSent     : Nat,
     priorReceived : Nat,
     sendCallN     : Nat,           \* SendCallStats.N
     rttN          : Nat,           \* RTTStats.N
     duplicates    : Nat,
     latePackets   : Nat]

NewRecorder ==
    [rtds          |-> [i \in Slots |-> SentAt(None)],
     len           |-> 0,
     sentIndex     |-> 0,
     priorSent     |-> 0,
     priorReceived |-> 0,
     sendCallN     |-> 0,
     rttN          |-> 0,
     duplicates    |-> 0,
     latePackets   |-> 0]

-----------------------------------------------------------------------------
(* recordPreSend *)

NextIndex(rec) ==
    LET next == IF rec.len > 0 THEN rec.sentIndex + 1 ELSE rec.sentIndex
    IN  IF rec.len = BufCap /\ next = rec.len THEN 0 ELSE next

PreSend(rec, seqno) ==
    LET slot == IF rec.len < BufCap THEN rec.len ELSE NextIndex(rec)
    IN  [rec EXCEPT !.rtds[slot] = SentAt(seqno),
                    !.len        = IF @ < BufCap THEN @ + 1 ELSE @,
                    !.sentIndex  = NextIndex(rec),
                    !.priorSent  = seqno]

\* recordPostSend, and the slot it hands to OnSent.
PostSend(rec) == [rec EXCEPT !.sendCallN = @ + 1]

\* Faulty variant of SentSlot: the index from before the increment.
SentSlotStale(rec) == IF rec.sentIndex = 0 THEN rec.len - 1 ELSE rec.sentIndex - 1

SentSlot(rec) == IF rec.sentIndex = 0 THEN rec.len - 1 ELSE rec.sentIndex

\* removeLastRoundTrip shortens the slice and nothing else.
RemoveLast(rec) == [rec EXCEPT !.len = @ - 1]

-----------------------------------------------------------------------------
(* recordReceive *)

Offset(rec, seqno) == rec.priorSent - seqno

\* Faulty variant of AgedOut: off by one.
AgedOutEarly(rec, seqno) == Offset(rec, seqno) >= rec.len - 1

AgedOut(rec, seqno) == Offset(rec, seqno) >= rec.len

\* Faulty variant of SlotOf: wraps to the last index instead of the length.
SlotOfOffByOne(rec, seqno) ==
    LET i == rec.sentIndex - Offset(rec, seqno)
    IN  IF i < 0 THEN i + rec.len - 1 ELSE i

SlotOf(rec, seqno) ==
    LET i == rec.sentIndex - Offset(rec, seqno)
    IN  IF i < 0 THEN i + rec.len ELSE i

\* The slot handed to OnReceived as the one of the packet before, if any.
PriorSlot(rec, seqno) ==
    IF seqno = 0 THEN None
    ELSE IF SlotOf(rec, seqno) = 0 THEN rec.len - 1
    ELSE SlotOf(rec, seqno) - 1

\* Faulty variant of IsDuplicate: no check.
IsDuplicateNever(rec, seqno) == FALSE

IsDuplicate(rec, seqno) == rec.rtds[SlotOf(rec, seqno)].replied

Duplicate(rec) == [rec EXCEPT !.duplicates = @ + 1]

Late(rec, seqno) == seqno < rec.priorReceived

Replied(rtd, late) == [rtd EXCEPT !.replied = TRUE, !.late = late]

Receive(rec, seqno) ==
    LET slot == SlotOf(rec, seqno)
        late == Late(rec, seqno)
    IN  [rec EXCEPT !.rtds[slot]    = Replied(@, late),
                    !.priorReceived = seqno,
                    !.rttN          = @ + 1,
                    !.latePackets   = IF late THEN @ + 1 ELSE @]
=============================================================================
