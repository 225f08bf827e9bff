--------------------------- MODULE RecorderProofs ---------------------------
(***************************************************************************)
(* Proofs about Recorder: for a buffer of any size and any number of       *)
(* packets, replies are recorded in the round trip of the packet they      *)
(* answer, however they are delayed, reordered or repeated and however     *)
(* often the ring was written over.                                        *)
(***************************************************************************)
EXTENDS Recorder, FiniteSetTheorems, TLAPS

USE BufCapAssumption, RecorderAssumption

(* Where the send loop is, in terms of the Recorder: priorSent is the packet
   being sent or, between two sends, the last one, and what is on the wire is
   what was written before it, and itself once it was.                        *)
Position ==
    /\ sender = "ready" =>
         \/ seqno = 0 /\ rec.len = 0 /\ rec.priorSent = 0
         \/ seqno > 0 /\ rec.len > 0 /\ rec.priorSent = seqno - 1
    /\ sender \in {"writing", "written"} => rec.len > 0
    /\ sender # "ready" => rec.priorSent = seqno /\ seqno < MaxSends
    /\ \A s \in wire : s < seqno \/ (s = seqno /\ sender = "written")

(* While packets are sent, sentIndex is the end of the slice until the ring is
   full; outside stream mode a failed send leaves it one past the end.        *)
Ring ==
    /\ (sender # "stopped" \/ stream) =>
         /\ rec.len > 0 => rec.sentIndex < rec.len
         /\ rec.len < BufCap => rec.sentIndex = (IF rec.len = 0 THEN 0 ELSE rec.len - 1)
         /\ rec.len <= rec.priorSent + 1
    /\ ~stream =>
         /\ sender # "stopped" /\ rec.len > 0 => rec.sentIndex = rec.len - 1
         /\ sender = "ready" => rec.len = seqno
         /\ sender \in {"writing", "written"} => rec.len = seqno + 1
         /\ sender = "stopped" => rec.len = seqno /\ rec.sentIndex = seqno

(* The age of slot i: how many sends ago its round trip was created. *)
Age(i, index, len) == IF i <= index THEN index - i ELSE index + len - i

(* Counting back from sentIndex and around the end, the slots hold the sends
   counting back from priorSent; the slots past the end hold none.            *)
Layout ==
    \A i \in Slots :
        /\ i < rec.len =>
             rec.rtds[i].sent = rec.priorSent - Age(i, rec.sentIndex, rec.len)
        /\ (i >= rec.len /\ (sender # "stopped" \/ stream)) => rec.rtds[i].sent = None

Inv == TypeOK /\ Position /\ Ring /\ Layout

LEMMA InvInit == Init => Inv
  BY DEF Init, Inv, TypeOK, Position, Ring, Layout, RecType, NewRecorder, Slots,
         RoundTripData, SentAt, None

LEMMA RecFields ==
  ASSUME TypeOK
  PROVE  /\ rec.len \in 0 .. BufCap /\ rec.sentIndex \in Slots
         /\ rec.priorSent \in Nat /\ seqno \in 0 .. MaxSends
         /\ rec.rtds \in [Slots -> RoundTripData]
  BY DEF TypeOK, RecType

(* Starting a send: the new round trip takes the next slot, and every other
   slot becomes one send older.                                               *)
LEMMA PreSendInv == ASSUME Inv, RecordPreSend PROVE Inv'
<1> DEFINE slot == IF rec.len < BufCap THEN rec.len ELSE NextIndex(rec)
<1>1. TypeOK /\ Position /\ Ring /\ Layout /\ sender = "ready"
  BY DEF Inv, RecordPreSend
<1>2. NextIndex(rec) \in Slots /\ slot \in Slots /\ slot = NextIndex(rec)
  BY <1>1, RecFields, SMTT(30) DEF NextIndex, Slots, Ring
<1>3. /\ rec'.rtds = [rec.rtds EXCEPT ![slot] = SentAt(seqno)]
      /\ rec'.len = IF rec.len < BufCap THEN rec.len + 1 ELSE rec.len
      /\ rec'.sentIndex = NextIndex(rec)
      /\ rec'.priorSent = seqno
      /\ sender' = "writing" /\ seqno' = seqno /\ wire' = wire /\ stream' = stream
  BY <1>1 DEF RecordPreSend, PreSend, TypeOK, RecType
<1>4. SentAt(seqno) \in RoundTripData
  BY <1>1 DEF SentAt, RoundTripData, TypeOK
<1>5. rec' \in RecType
  <2>1. rec'.rtds \in [Slots -> RoundTripData]
    BY <1>1, <1>3, <1>4, RecFields
  <2>2. rec'.len \in 0 .. BufCap /\ rec'.sentIndex \in Slots /\ rec'.priorSent \in Nat
    BY <1>1, <1>2, <1>3, RecFields
  <2> QED BY <1>1, <2>1, <2>2, <1>3 DEF RecordPreSend, PreSend, TypeOK, RecType
<1>6. TypeOK'
  BY <1>1, <1>5, <1>3 DEF TypeOK, RecordPreSend
<1>7. Position'
  <2>1. seqno < MaxSends
    BY DEF RecordPreSend
  <2> QED BY <1>1, <1>3, <2>1, RecFields DEF Position
<1>8. Ring'
  <2>1. /\ rec'.len > 0
        /\ rec'.sentIndex < rec'.len
        /\ rec'.len < BufCap => rec'.sentIndex = rec'.len - 1
    BY <1>1, <1>2, <1>3, RecFields, SMTT(30) DEF Ring, NextIndex, Slots
  <2>2. rec'.len <= rec'.priorSent + 1
    BY <1>1, <1>3, RecFields DEF Ring, Position
  <2>3. ~stream => rec'.len = seqno + 1 /\ rec'.sentIndex = rec'.len - 1
    <3>1. ~stream => rec.len = seqno /\ rec.len < BufCap
      BY <1>1, RecFields DEF Ring, RecordPreSend
    <3>2. ~stream => rec'.len = seqno + 1
      BY <1>1, <1>3, <3>1, RecFields
    <3>3. ~stream => rec'.sentIndex = rec'.len - 1
      <4> HIDE DEF slot
      <4>1. ASSUME ~stream PROVE NextIndex(rec) = seqno
        BY <1>1, <1>2, <3>1, <4>1, RecFields DEF NextIndex, Ring, Position
      <4> QED BY <1>1, <1>3, <3>2, <4>1, RecFields
    <3> QED BY <3>2, <3>3
  <2> QED BY <1>3, <2>1, <2>2, <2>3 DEF Ring
<1>9. Layout'
  <2> SUFFICES ASSUME NEW i \in Slots
               PROVE  /\ i < rec'.len =>
                           rec'.rtds[i].sent =
                             rec'.priorSent - Age(i, rec'.sentIndex, rec'.len)
                      /\ i >= rec'.len => rec'.rtds[i].sent = None
    BY DEF Layout
  <2>1. CASE i = slot
    <3>1. rec'.rtds[i].sent = seqno
      BY <1>1, <1>3, <2>1, RecFields DEF SentAt
    <3> QED BY <1>1, <1>2, <1>3, <2>1, <3>1, RecFields DEF Slots, Age
  <2>2. CASE i # slot
    <3>1. rec'.rtds[i] = rec.rtds[i]
      BY <1>1, <1>3, <2>2, RecFields
    <3>2. CASE rec.len = 0
      BY <1>1, <1>2, <1>3, <2>2, <3>1, <3>2, RecFields DEF Layout, NextIndex, Slots, Age
    <3>3. CASE rec.len > 0
      <4>1. rec'.priorSent = rec.priorSent + 1
        BY <1>1, <1>3, <3>3, RecFields DEF Position
      <4>2. /\ i < rec.len =>
                 rec.rtds[i].sent = rec.priorSent - Age(i, rec.sentIndex, rec.len)
            /\ i >= rec.len => rec.rtds[i].sent = None
        BY <1>1 DEF Layout
      <4>3. CASE rec.len < BufCap
        <5>1. /\ rec.sentIndex = rec.len - 1 /\ slot = rec.len
              /\ rec'.sentIndex = rec.len /\ rec'.len = rec.len + 1
          BY <1>1, <1>2, <1>3, <3>3, <4>3, RecFields DEF Ring, NextIndex
        <5>2. i < rec'.len => /\ i < rec.len
                              /\ Age(i, rec'.sentIndex, rec'.len)
                                   = Age(i, rec.sentIndex, rec.len) + 1
                              /\ Age(i, rec.sentIndex, rec.len) \in Int
          <6> HIDE DEF slot
          <6> QED BY <1>1, <2>2, <3>3, <5>1, RecFields, SMTT(30) DEF Slots, Age
        <5>3. i < rec'.len => rec'.rtds[i].sent
                                = rec'.priorSent - Age(i, rec'.sentIndex, rec'.len)
          BY <1>1, <3>1, <4>1, <4>2, <5>2, RecFields
        <5>4. i >= rec'.len => i >= rec.len
          BY <1>1, <5>1, RecFields DEF Slots
        <5> QED BY <3>1, <4>2, <5>3, <5>4
      <4>4. CASE rec.len = BufCap /\ rec.sentIndex + 1 < rec.len
        <5>1. /\ slot = rec.sentIndex + 1
              /\ rec'.sentIndex = rec.sentIndex + 1 /\ rec'.len = rec.len
          BY <1>1, <1>2, <1>3, <3>3, <4>4, RecFields DEF NextIndex
        <5>2. i < rec'.len => /\ i < rec.len
                              /\ Age(i, rec'.sentIndex, rec'.len)
                                   = Age(i, rec.sentIndex, rec.len) + 1
                              /\ Age(i, rec.sentIndex, rec.len) \in Int
          <6>1. i \in Int /\ rec.sentIndex \in Int /\ rec.len \in Int /\ i # rec.sentIndex + 1
            BY <1>1, <2>2, <5>1, RecFields DEF Slots
          <6>2. CASE i <= rec.sentIndex
            BY <5>1, <6>1, <6>2 DEF Age
          <6>3. CASE i > rec.sentIndex + 1
            BY <5>1, <6>1, <6>3 DEF Age
          <6> QED BY <6>1, <6>2, <6>3
        <5>3. i < rec'.len => rec'.rtds[i].sent
                                = rec'.priorSent - Age(i, rec'.sentIndex, rec'.len)
          BY <1>1, <3>1, <4>1, <4>2, <5>2, RecFields
        <5>4. i >= rec'.len => i >= rec.len
          BY <1>1, <5>1, RecFields DEF Slots
        <5> QED BY <3>1, <4>2, <5>3, <5>4
      <4>5. CASE rec.len = BufCap /\ rec.sentIndex + 1 = rec.len
        <5>1. slot = 0 /\ rec'.sentIndex = 0 /\ rec'.len = rec.len
          BY <1>1, <1>2, <1>3, <3>3, <4>5, RecFields DEF NextIndex
        <5>2. i < rec'.len => /\ i < rec.len
                              /\ Age(i, rec'.sentIndex, rec'.len)
                                   = Age(i, rec.sentIndex, rec.len) + 1
                              /\ Age(i, rec.sentIndex, rec.len) \in Int
          <6> HIDE DEF slot
          <6> QED BY <1>1, <2>2, <3>3, <4>5, <5>1, RecFields, SMTT(30) DEF Slots, Age
        <5>3. i < rec'.len => rec'.rtds[i].sent
                                = rec'.priorSent - Age(i, rec'.sentIndex, rec'.len)
          BY <1>1, <3>1, <4>1, <4>2, <5>2, RecFields
        <5>4. i >= rec'.len => i >= rec.len
          BY <1>1, <5>1, RecFields DEF Slots
        <5> QED BY <3>1, <4>2, <5>3, <5>4
      <4> QED BY <1>1, <3>3, <4>3, <4>4, <4>5, RecFields, SMTT(30) DEF Slots, Ring
    <3> QED BY <1>1, <3>2, <3>3, RecFields
  <2> QED BY <2>1, <2>2
<1> QED BY <1>6, <1>7, <1>8, <1>9 DEF Inv

-----------------------------------------------------------------------------
(* Where recordReceive looks is a slot of the slice, and it holds the round
   trip of the packet that is answered.                                       *)
LEMMA SlotFound ==
  ASSUME Inv, NEW s \in Nat, s <= rec.priorSent, ~AgedOut(rec, s),
         sender # "stopped" \/ stream \/ s < rec.priorSent
  PROVE  /\ SlotOf(rec, s) \in Slots
         /\ rec.rtds[SlotOf(rec, s)].sent = s
<1> DEFINE i == SlotOf(rec, s)
           o == rec.priorSent - s
<1>1. /\ rec.len \in 0 .. BufCap /\ rec.sentIndex \in Slots
      /\ rec.priorSent \in Nat /\ rec.sentIndex \in Int
  BY RecFields DEF Inv, Slots
<1>2. o \in Nat /\ o < rec.len
  BY <1>1 DEF AgedOut, Offset
<1>3. \/ rec.sentIndex < rec.len
      \/ rec.sentIndex = rec.len /\ o > 0
  BY <1>1, <1>2 DEF Inv, Ring, Position
<1>4. i = IF rec.sentIndex - o < 0 THEN rec.sentIndex - o + rec.len ELSE rec.sentIndex - o
  BY DEF SlotOf, Offset
<1> HIDE DEF i
<1>5. i \in Slots /\ i < rec.len /\ Age(i, rec.sentIndex, rec.len) = o
  <2> HIDE DEF o
  <2>1. CASE rec.sentIndex - o < 0
    BY <1>1, <1>2, <1>3, <1>4, <2>1 DEF Slots, Age
  <2>2. CASE ~(rec.sentIndex - o < 0)
    BY <1>1, <1>2, <1>3, <1>4, <2>2 DEF Slots, Age
  <2> QED BY <2>1, <2>2
<1>6. rec.rtds[i].sent = rec.priorSent - o
  BY <1>5 DEF Inv, Layout
<1>7. rec.priorSent - o = s
  BY <1>1
<1> QED BY <1>5, <1>6, <1>7 DEF i

LEMMA WireFound ==
  ASSUME Inv, NEW s \in wire, s <= rec.priorSent, ~AgedOut(rec, s)
  PROVE  /\ SlotOf(rec, s) \in Slots
         /\ rec.rtds[SlotOf(rec, s)].sent = s
<1>1. s \in Nat /\ seqno \in Nat
  BY DEF Inv, TypeOK
<1>2. sender # "stopped" \/ s < rec.priorSent
  BY <1>1 DEF Inv, Position
<1> QED BY <1>1, <1>2, SlotFound

LEMMA SendStepsInv ==
  ASSUME Inv, Write \/ RecordPostSend
  PROVE  Inv'
<1>1. /\ rec'.rtds = rec.rtds /\ rec'.len = rec.len /\ rec'.sentIndex = rec.sentIndex
      /\ rec'.priorSent = rec.priorSent /\ stream' = stream
  BY DEF Write, RecordPostSend, PostSend, Inv, TypeOK, RecType
<1>2. TypeOK'
  <2>1. CASE Write
    BY <2>1 DEF Inv, TypeOK, Write
  <2>2. CASE RecordPostSend
    <3>1. seqno + 1 \in 0 .. MaxSends
      BY <2>2 DEF RecordPostSend, Inv, Position, TypeOK
    <3> QED BY <2>2, <3>1 DEF Inv, TypeOK, RecordPostSend, PostSend, RecType
  <2> QED BY <2>1, <2>2
<1>3. Position'
  <2>1. CASE Write
    BY <1>1, <2>1, RecFields DEF Inv, Position, Write
  <2>2. CASE RecordPostSend
    <3>1. /\ sender = "written" /\ sender' = "ready" /\ seqno' = seqno + 1 /\ wire' = wire
          /\ rec.len > 0 /\ rec.priorSent = seqno /\ rec.len \in Nat
          /\ seqno \in Nat
      BY <2>2, RecFields DEF RecordPostSend, Inv, Position
    <3>2. \A s \in wire' : s < seqno'
      BY <3>1 DEF Inv, Position, TypeOK
    <3> QED BY <1>1, <3>1, <3>2 DEF Position
  <2> QED BY <2>1, <2>2
<1>4. Ring'
  BY <1>1, RecFields DEF Inv, Ring, Write, RecordPostSend
<1>5. Layout'
  BY <1>1 DEF Inv, Layout, Write, RecordPostSend
<1> QED BY <1>2, <1>3, <1>4, <1>5 DEF Inv

LEMMA FailInv == ASSUME Inv, WriteFails PROVE Inv'
<1>1. /\ rec'.rtds = rec.rtds /\ rec'.sentIndex = rec.sentIndex
      /\ rec'.priorSent = rec.priorSent
      /\ rec'.len = IF stream THEN rec.len ELSE rec.len - 1
      /\ sender = "writing" /\ sender' = "stopped" /\ seqno' = seqno /\ wire' = wire
      /\ stream' = stream
  BY DEF WriteFails, RemoveLast, Inv, TypeOK, RecType
<1>2. rec.len \in 1 .. BufCap
  BY <1>1, RecFields DEF Inv, Position
<1>3. TypeOK'
  BY <1>1, <1>2 DEF Inv, TypeOK, WriteFails, RemoveLast, RecType
<1>4. Position'
  BY <1>1, RecFields DEF Inv, Position
<1>5. Ring'
  BY <1>1, <1>2, RecFields, SMTT(30) DEF Inv, Ring, Slots
<1>6. Layout'
  <2>1. CASE stream
    BY <1>1, <2>1 DEF Inv, Layout
  <2>2. CASE ~stream
    <3>1. rec.len = seqno + 1 /\ rec.priorSent = seqno /\ rec.sentIndex = rec.len - 1
      BY <1>1, <2>2, RecFields DEF Inv, Ring, Position, Slots
    <3>2. ASSUME NEW i \in Slots, i < rec'.len
          PROVE  rec'.rtds[i].sent = rec'.priorSent - Age(i, rec'.sentIndex, rec'.len)
      <4>1. rec.rtds[i].sent = rec.priorSent - Age(i, rec.sentIndex, rec.len)
        BY <1>1, <1>2, <2>2, <3>2 DEF Inv, Layout, Slots
      <4>2. Age(i, rec'.sentIndex, rec'.len) = Age(i, rec.sentIndex, rec.len)
        BY <1>1, <1>2, <2>2, <3>1, <3>2 DEF Age, Slots
      <4> QED BY <1>1, <4>1, <4>2
    <3> QED BY <1>1, <2>2, <3>2 DEF Layout
  <2> QED BY <2>1, <2>2
<1> QED BY <1>3, <1>4, <1>5, <1>6 DEF Inv

(* A reply changes flags and counters of the Recorder, not the ring. *)
LEMMA ReplyInv ==
  ASSUME Inv, NEW s \in wire, Reply(s)
  PROVE  Inv'
<1>1. CASE RecordAgedOut(s)
  BY <1>1 DEF Inv, TypeOK, Position, Ring, Layout, RecordAgedOut
<1>2. CASE RecordDuplicate(s)
  <2>1. rec' = Duplicate(rec) /\ UNCHANGED <<stream, sender, seqno, wire, counted>>
    BY <1>2 DEF RecordDuplicate
  <2>2. /\ rec' \in RecType /\ rec'.rtds = rec.rtds /\ rec'.len = rec.len
        /\ rec'.sentIndex = rec.sentIndex /\ rec'.priorSent = rec.priorSent
    BY <2>1 DEF Duplicate, Inv, TypeOK, RecType
  <2> QED BY <2>1, <2>2 DEF Inv, TypeOK, Position, Ring, Layout
<1>3. CASE RecordReceive(s)
  <2> DEFINE j == SlotOf(rec, s)
             r == Replied(rec.rtds[j], Late(rec, s))
             n == IF Late(rec, s) THEN rec.latePackets + 1 ELSE rec.latePackets
  <2>1. j \in Slots /\ s \in Nat
    <3>1. j \in Slots
      BY <1>3, WireFound DEF RecordReceive
    <3>2. s \in Nat
      BY DEF Inv, TypeOK
    <3> QED BY <3>1, <3>2
  <2>2. /\ rec' = Receive(rec, s) /\ counted' = counted \cup {s}
        /\ UNCHANGED <<stream, sender, seqno, wire>>
    BY <1>3 DEF RecordReceive
  <2>3. rec.rtds[j] \in RoundTripData /\ rec.rtds \in [Slots -> RoundTripData]
    BY <2>1, RecFields DEF Inv
  <2>4. n \in Nat
    BY DEF Inv, TypeOK, RecType
  <2>5. rec' = [rec EXCEPT !.rtds = [rec.rtds EXCEPT ![j] = r],
                           !.priorReceived = s,
                           !.rttN = rec.rttN + 1,
                           !.latePackets = n]
    BY <2>2 DEF Receive
  <2>6. r \in RoundTripData /\ r.sent = rec.rtds[j].sent
    <3>1. Late(rec, s) \in BOOLEAN
      BY DEF Late
    <3> HIDE DEF j
    <3> QED BY <2>3, <3>1 DEF Replied, RoundTripData
  <2> HIDE DEF j, r, n
  <2>7. /\ rec'.rtds = [rec.rtds EXCEPT ![j] = r] /\ rec'.len = rec.len
        /\ rec'.sentIndex = rec.sentIndex /\ rec'.priorSent = rec.priorSent
    BY <2>5 DEF Inv, TypeOK, RecType
  <2>8. [rec.rtds EXCEPT ![j] = r] \in [Slots -> RoundTripData]
    BY <2>3, <2>6
  <2>9. rec' \in RecType
    <3>1. rec.rttN + 1 \in Nat /\ rec \in RecType /\ s \in Nat
      BY <2>1 DEF Inv, TypeOK, RecType
    <3> QED BY <2>4, <2>5, <2>8, <3>1 DEF RecType
  <2>10. \A i \in Slots : rec'.rtds[i].sent = rec.rtds[i].sent
    BY <2>1, <2>3, <2>6, <2>7
  <2>11. TypeOK'
    BY <2>2, <2>9 DEF Inv, TypeOK
  <2> QED BY <2>2, <2>7, <2>10, <2>11 DEF Inv, Position, Ring, Layout
<1> QED BY <1>1, <1>2, <1>3 DEF Reply

LEMMA InvNext == Inv /\ [Next]_vars => Inv'
<1> SUFFICES ASSUME Inv, [Next]_vars PROVE Inv'
  OBVIOUS
<1>1. CASE UNCHANGED vars
  BY <1>1 DEF vars, Inv, TypeOK, Position, Ring, Layout
<1>2. CASE RecordUnexpected(rec.priorSent + 1)
  BY <1>2 DEF RecordUnexpected, Inv, TypeOK, Position, Ring, Layout
<1> QED BY <1>1, <1>2, PreSendInv, SendStepsInv, FailInv, ReplyInv DEF Next

LEMMA Invariance == Spec => []Inv
  BY InvInit, InvNext, PTL DEF Spec

(* The values of the Recorder's state. *)
THEOREM TypeCorrect == Spec => []TypeOK
<1>1. Inv => TypeOK
  BY DEF Inv
<1> QED BY <1>1, Invariance, PTL

(* The ring of recordPreSend and the index arithmetic of recordReceive agree,
   for a buffer of any capacity and after any number of wraps.                *)
THEOREM RingFound == Spec => []RingLayout
<1>1. Inv => RingLayout
  <2> SUFFICES ASSUME Inv, sender # "stopped", NEW s \in 0 .. rec.priorSent,
                      ~AgedOut(rec, s)
               PROVE  rec.rtds[SlotOf(rec, s)].sent = s
    BY DEF RingLayout
  <2>1. s \in Nat /\ s <= rec.priorSent
    BY RecFields DEF Inv
  <2> QED BY <2>1, SlotFound
<1> QED BY <1>1, Invariance, PTL

(* A reply is recorded in the round trip of the packet it answers: nothing is
   ever written to the round trip of another packet.                          *)
THEOREM ReplyRecorded == Spec => []ReplyFindsRoundTrip
<1>1. Init => ReplyFindsRoundTrip
  BY DEF Init, ReplyFindsRoundTrip, NoEvent, Event
<1>2. Inv /\ ReplyFindsRoundTrip /\ [Next]_vars => ReplyFindsRoundTrip'
  <2> SUFFICES ASSUME Inv, ReplyFindsRoundTrip, [Next]_vars PROVE ReplyFindsRoundTrip'
    OBVIOUS
  <2>1. CASE UNCHANGED vars
    BY <2>1 DEF vars, ReplyFindsRoundTrip
  <2>2. ASSUME NEW s \in wire, RecordDuplicate(s) \/ RecordReceive(s)
        PROVE  ReplyFindsRoundTrip'
    <3>1. SlotOf(rec, s) \in Slots /\ rec.rtds[SlotOf(rec, s)].sent = s
      BY <2>2, WireFound DEF RecordDuplicate, RecordReceive
    <3>2. TagAt(SlotOf(rec, s)) = s
      BY <3>1 DEF TagAt, Slots, None
    <3>3. \/ event' = Event("OnReceived dup", s, s, TagAt(PriorSlot(rec, s)))
          \/ event' = Event("OnReceived", s, s, TagAt(PriorSlot(rec, s)))
      BY <2>2, <3>2 DEF RecordDuplicate, RecordReceive
    <3>4. event'.rtd = event'.packet
      <4>1. CASE event' = Event("OnReceived dup", s, s, TagAt(PriorSlot(rec, s)))
        BY <4>1 DEF Event
      <4>2. CASE event' = Event("OnReceived", s, s, TagAt(PriorSlot(rec, s)))
        BY <4>2 DEF Event
      <4> QED BY <3>3, <4>1, <4>2
    <3> QED BY <3>4 DEF ReplyFindsRoundTrip
  <2>3. CASE RecordPreSend \/ Write \/ RecordPostSend \/ WriteFails
    <3>1. event' = NoEvent \/ event' = Event("OnSent", seqno, TagAt(SentSlot(rec)), None)
      BY <2>3 DEF RecordPreSend, Write, RecordPostSend, WriteFails
    <3>2. event'.what \in {"none", "OnSent"}
      BY <3>1 DEF NoEvent, Event
    <3> QED BY <3>2 DEF ReplyFindsRoundTrip
  <2>4. CASE \/ RecordUnexpected(rec.priorSent + 1)
             \/ \E s \in wire : RecordAgedOut(s)
    <3>1. event'.what \in {"UnexpectedSequenceNumber", "aged out"}
      <4>1. ASSUME NEW s \in wire, RecordAgedOut(s) PROVE event'.what = "aged out"
        BY <4>1 DEF RecordAgedOut, Event
      <4>2. CASE RecordUnexpected(rec.priorSent + 1)
        BY <4>2 DEF RecordUnexpected, Event
      <4> QED BY <2>4, <4>1, <4>2
    <3> QED BY <3>1 DEF ReplyFindsRoundTrip
  <2> QED BY <2>1, <2>2, <2>3, <2>4 DEF Next, Reply
<1> QED BY <1>1, <1>2, Invariance, PTL DEF Spec

(* A reply that is discarded as aged out belongs to no round trip of the buffer:
   its slot was given to a later packet.                                         *)
LEMMA AgedOutGone ==
  ASSUME Inv, sender # "stopped" \/ stream, NEW s \in wire, RecordAgedOut(s)
  PROVE  \A i \in Slots : rec'.rtds[i].sent # s
<1> SUFFICES ASSUME NEW i \in Slots PROVE rec.rtds[i].sent # s
  BY DEF RecordAgedOut
<1>1. s \in Nat /\ s <= rec.priorSent - rec.len
  <2>1. s \in Nat
    BY DEF Inv, TypeOK
  <2>2. rec.priorSent - s >= rec.len
    BY DEF RecordAgedOut, AgedOut, Offset
  <2> QED BY <2>1, <2>2, RecFields DEF Inv
<1>2. CASE i < rec.len
  <2>1. rec.rtds[i].sent = rec.priorSent - Age(i, rec.sentIndex, rec.len)
    BY <1>2 DEF Inv, Layout
  <2>2. Age(i, rec.sentIndex, rec.len) < rec.len
    BY <1>2, RecFields, SMTT(30) DEF Inv, Ring, Age, Slots
  <2>3. Age(i, rec.sentIndex, rec.len) \in Int
    BY RecFields DEF Inv, Age, Slots
  <2> QED BY <1>1, <2>1, <2>2, <2>3, RecFields DEF Inv
<1>3. CASE i >= rec.len
  BY <1>1, <1>3, RecFields DEF Inv, Layout, None
<1> QED BY <1>2, <1>3, RecFields DEF Inv, Slots

(* After a failed send was taken back, the slice is as long as the number of the
   packet that failed, and priorSent is that number: counting back from it, the
   first packet alone is out of the slice.                                       *)
LEMMA AgedOutFirst ==
  ASSUME Inv, sender = "stopped", ~stream, NEW s \in wire, RecordAgedOut(s)
  PROVE  s = 0
<1>1. s \in Nat /\ rec.priorSent \in Nat
  BY RecFields DEF Inv, TypeOK
<1>2. rec.len = rec.priorSent
  BY DEF Inv, Ring, Position
<1>3. rec.priorSent - s >= rec.len
  BY DEF RecordAgedOut, AgedOut, Offset
<1> QED BY <1>1, <1>2, <1>3

(* recordReceive discards as aged out no reply whose round trip is still in the
   buffer, whatever its capacity; of a test whose failed send was taken back, it
   discards no reply but that to the first packet.                               *)
THEOREM AgedOutOverwritten == Spec => []AgedOutMeansOverwritten
<1>1. Init => AgedOutMeansOverwritten
  BY DEF Init, AgedOutMeansOverwritten, NoEvent, Event
<1>2. Inv /\ AgedOutMeansOverwritten /\ [Next]_vars => AgedOutMeansOverwritten'
  <2> SUFFICES ASSUME Inv, AgedOutMeansOverwritten, [Next]_vars
               PROVE  AgedOutMeansOverwritten'
    OBVIOUS
  <2>1. CASE UNCHANGED vars
    BY <2>1 DEF vars, AgedOutMeansOverwritten
  <2>2. ASSUME NEW s \in wire, RecordAgedOut(s) PROVE AgedOutMeansOverwritten'
    <3>1. event' = Event("aged out", s, None, None) /\ sender' = sender /\ stream' = stream
      BY <2>2 DEF RecordAgedOut
    <3>2. event'.packet = s
      BY <3>1 DEF Event
    <3>3. CASE sender # "stopped" \/ stream
      BY <2>2, <3>2, <3>3, AgedOutGone DEF AgedOutMeansOverwritten
    <3>4. CASE sender = "stopped" /\ ~stream
      BY <2>2, <3>1, <3>2, <3>4, AgedOutFirst DEF AgedOutMeansOverwritten
    <3> QED BY <3>3, <3>4
  <2>3. ASSUME NEW s \in wire, RecordDuplicate(s) \/ RecordReceive(s)
        PROVE  AgedOutMeansOverwritten'
    <3>1. event'.what \in {"OnReceived", "OnReceived dup"}
      <4>1. CASE RecordDuplicate(s)
        BY <4>1 DEF RecordDuplicate, Event
      <4>2. CASE RecordReceive(s)
        BY <4>2 DEF RecordReceive, Event
      <4> QED BY <2>3, <4>1, <4>2
    <3> QED BY <3>1 DEF AgedOutMeansOverwritten
  <2>4. CASE RecordPreSend \/ Write \/ RecordPostSend \/ WriteFails
    <3>1. event' = NoEvent \/ event' = Event("OnSent", seqno, TagAt(SentSlot(rec)), None)
      BY <2>4 DEF RecordPreSend, Write, RecordPostSend, WriteFails
    <3>2. event'.what \in {"none", "OnSent"}
      BY <3>1 DEF NoEvent, Event
    <3> QED BY <3>2 DEF AgedOutMeansOverwritten
  <2>5. CASE RecordUnexpected(rec.priorSent + 1)
    BY <2>5 DEF RecordUnexpected, Event, AgedOutMeansOverwritten
  <2> QED BY <2>1, <2>2, <2>3, <2>4, <2>5 DEF Next, Reply
<1> QED BY <1>1, <1>2, Invariance, PTL DEF Spec

-----------------------------------------------------------------------------
(* What RTTStats.N counts: one for each packet whose round trip is recorded,
   and the sends that were accounted for are those before seqno.              *)
Counts ==
    /\ IsFiniteSet(counted)
    /\ rec.rttN = Cardinality(counted)
    /\ rec.sendCallN = seqno

(* No two slots hold the round trip of one packet, and the round trip of a
   packet that was counted, if it is still in the buffer, says so.            *)
Marked ==
    \A i \in Slots :
        /\ \A j \in Slots :
             rec.rtds[i].sent = rec.rtds[j].sent /\ rec.rtds[i].sent # None => i = j
        /\ rec.rtds[i].sent \in counted => rec.rtds[i].replied

CountInv == Counts /\ Marked

LEMMA CountInit == Init => CountInv
  BY FS_EmptySet DEF Init, CountInv, Counts, Marked, NewRecorder, SentAt, None

\* The number of a packet that is about to be sent is in no slot of the buffer.
LEMMA NewNumber ==
  ASSUME Inv, sender = "ready", NEW i \in Slots
  PROVE  rec.rtds[i].sent # seqno
<1>1. /\ rec.len \in 0 .. BufCap /\ rec.sentIndex \in Slots /\ rec.priorSent \in Nat
      /\ seqno \in Nat /\ i \in Nat /\ rec.sentIndex \in Nat
  BY RecFields DEF Inv, Slots
<1>2. CASE i < rec.len
  <2>1. rec.rtds[i].sent = rec.priorSent - Age(i, rec.sentIndex, rec.len)
    BY <1>2 DEF Inv, Layout
  <2>2. Age(i, rec.sentIndex, rec.len) \in Nat
    BY <1>1, <1>2 DEF Inv, Ring, Age
  <2>3. rec.priorSent = seqno - 1
    BY <1>1, <1>2 DEF Inv, Position
  <2> QED BY <1>1, <2>1, <2>2, <2>3
<1>3. CASE i >= rec.len
  BY <1>1, <1>3 DEF Inv, Layout, None
<1> QED BY <1>1, <1>2, <1>3

LEMMA PreSendCount == ASSUME Inv, CountInv, RecordPreSend PROVE CountInv'
<1> DEFINE slot == IF rec.len < BufCap THEN rec.len ELSE NextIndex(rec)
<1>1. slot \in Slots /\ rec.rtds \in [Slots -> RoundTripData] /\ sender = "ready"
  BY RecFields, SMTT(30) DEF Inv, RecordPreSend, NextIndex, Slots, Ring
<1>2. /\ rec'.rtds = [rec.rtds EXCEPT ![slot] = SentAt(seqno)]
      /\ rec'.rttN = rec.rttN /\ rec'.sendCallN = rec.sendCallN
      /\ counted' = counted /\ seqno' = seqno
  BY DEF RecordPreSend, PreSend, Inv, TypeOK, RecType
<1>3. seqno \notin counted
  BY <1>1 DEF Inv, TypeOK, Position
<1> HIDE DEF slot
<1>4. /\ rec'.rtds[slot].sent = seqno
      /\ \A i \in Slots : i # slot => rec'.rtds[i] = rec.rtds[i] /\ rec'.rtds[i].sent # seqno
  BY <1>1, <1>2, NewNumber DEF SentAt
<1>5. Marked'
  BY <1>3, <1>4, <1>1, <1>2 DEF Marked, CountInv
<1>6. Counts'
  BY <1>2 DEF CountInv, Counts
<1> QED BY <1>5, <1>6 DEF CountInv

LEMMA SendStepsCount ==
  ASSUME Inv, CountInv, Write \/ RecordPostSend \/ WriteFails
  PROVE  CountInv'
<1>1. rec'.rtds = rec.rtds /\ rec'.rttN = rec.rttN /\ counted' = counted
  BY DEF Write, RecordPostSend, WriteFails, PostSend, RemoveLast, Inv, TypeOK, RecType
<1>2. rec'.sendCallN = seqno'
  <2>1. CASE Write \/ WriteFails
    BY <2>1 DEF Write, WriteFails, RemoveLast, Inv, TypeOK, RecType, CountInv, Counts
  <2>2. CASE RecordPostSend
    BY <2>2 DEF RecordPostSend, PostSend, Inv, TypeOK, RecType, CountInv, Counts
  <2> QED BY <2>1, <2>2
<1> QED BY <1>1, <1>2 DEF CountInv, Counts, Marked

(* A round trip that was not replied to belongs to a packet that was not counted. *)
LEMMA ReceiveCount ==
  ASSUME Inv, CountInv, NEW s \in wire, RecordReceive(s)
  PROVE  CountInv'
<1> DEFINE j == SlotOf(rec, s)
<1>1. j \in Slots /\ rec.rtds[j].sent = s /\ ~rec.rtds[j].replied
  BY WireFound DEF RecordReceive, IsDuplicate
<1>2. rec.rtds \in [Slots -> RoundTripData] /\ s \in Nat
  BY RecFields DEF Inv, TypeOK
<1>3. /\ rec'.rtds = [rec.rtds EXCEPT ![j] = Replied(rec.rtds[j], Late(rec, s))]
      /\ rec'.rttN = rec.rttN + 1 /\ rec'.sendCallN = rec.sendCallN
      /\ counted' = counted \cup {s} /\ seqno' = seqno
  BY DEF RecordReceive, Receive, Inv, TypeOK, RecType
<1> HIDE DEF j
<1>4. Replied(rec.rtds[j], Late(rec, s)).sent = s /\ Replied(rec.rtds[j], Late(rec, s)).replied
  BY <1>1, <1>2 DEF Replied, RoundTripData
<1>5. /\ rec'.rtds[j].sent = s /\ rec'.rtds[j].replied
      /\ \A i \in Slots : i # j => rec'.rtds[i] = rec.rtds[i] /\ rec.rtds[i].sent # s
  <2>1. \A i \in Slots : i # j => rec.rtds[i].sent # s
    BY <1>1, <1>2 DEF CountInv, Marked, None
  <2> QED BY <1>1, <1>2, <1>3, <1>4, <2>1
<1>6. s \notin counted
  BY <1>1 DEF CountInv, Marked
<1>7. Marked'
  <2> SUFFICES ASSUME NEW i \in Slots
               PROVE  /\ \A k \in Slots :
                           rec'.rtds[i].sent = rec'.rtds[k].sent /\ rec'.rtds[i].sent # None
                             => i = k
                      /\ rec'.rtds[i].sent \in counted' => rec'.rtds[i].replied
    BY DEF Marked
  <2>1. \A k \in Slots : rec'.rtds[k].sent = rec.rtds[k].sent
    BY <1>1, <1>5
  <2>2. rec'.rtds[i].sent \in counted' => rec'.rtds[i].replied
    BY <1>1, <1>3, <1>5 DEF CountInv, Marked
  <2> QED BY <2>1, <2>2 DEF CountInv, Marked
<1>8. Counts'
  BY <1>3, <1>6, FS_AddElement DEF CountInv, Counts
<1> QED BY <1>7, <1>8 DEF CountInv

LEMMA CountNext == Inv /\ CountInv /\ [Next]_vars => CountInv'
<1> SUFFICES ASSUME Inv, CountInv, [Next]_vars PROVE CountInv'
  OBVIOUS
<1>1. CASE UNCHANGED vars
  BY <1>1 DEF vars, CountInv, Counts, Marked
<1>2. CASE RecordUnexpected(rec.priorSent + 1)
  BY <1>2 DEF RecordUnexpected, CountInv, Counts, Marked
<1>3. ASSUME NEW s \in wire, RecordAgedOut(s) \/ RecordDuplicate(s) PROVE CountInv'
  <2>1. /\ rec'.rtds = rec.rtds /\ rec'.rttN = rec.rttN /\ rec'.sendCallN = rec.sendCallN
        /\ counted' = counted /\ seqno' = seqno
    BY <1>3 DEF RecordAgedOut, RecordDuplicate, Duplicate, Inv, TypeOK, RecType
  <2> QED BY <2>1 DEF CountInv, Counts, Marked
<1> QED BY <1>1, <1>2, <1>3, PreSendCount, SendStepsCount, ReceiveCount DEF Next, Reply

LEMMA CountInvariance == Spec => [](Inv /\ CountInv)
  BY InvInit, InvNext, CountInit, CountNext, PTL DEF Spec

(* Each packet counts at most once in RTTStats, over any number of duplicates and
   of wraps of the ring, and never before its send, so the unsigned subtraction
   SendCallStats.N - RTTStats.N of newResult is off by one packet at most.       *)
THEOREM EachCountedOnce == Spec => []CountedOnce
<1>1. Inv /\ CountInv => CountedOnce
  <2> SUFFICES ASSUME Inv, CountInv PROVE CountedOnce
    OBVIOUS
  <2> DEFINE top == IF sender = "written" THEN seqno ELSE seqno - 1
  <2>1. seqno \in Nat /\ wire \subseteq Nat /\ counted \subseteq wire
    BY RecFields DEF Inv, TypeOK
  <2>2. top \in Int /\ top >= -1 /\ counted \subseteq 0 .. top
    BY <2>1 DEF Inv, Position
  <2>3. IsFiniteSet(0 .. top) /\ Cardinality(0 .. top) = top + 1
    <3> HIDE DEF top
    <3>1. 0 \in Int OBVIOUS
    <3>2. /\ IsFiniteSet(0 .. top)
          /\ Cardinality(0 .. top) = IF 0 > top THEN 0 ELSE top - 0 + 1
      BY <2>2, <3>1, FS_Interval
    <3> QED BY <2>2, <3>2
  <2>4. Cardinality(counted) <= top + 1
    BY <2>2, <2>3, FS_Subset
  <2> QED BY <2>1, <2>4 DEF CountInv, Counts, CountedOnce
<1> QED BY <1>1, CountInvariance, PTL

(* With a buffer that does not wrap, packet s has slot s. *)
LEMMA OwnSlot ==
  ASSUME Inv, ~stream, NEW s \in wire, s <= rec.priorSent
  PROVE  /\ SlotOf(rec, s) = s
         /\ s > 0 => PriorSlot(rec, s) = s - 1 /\ rec.rtds[s - 1].sent = s - 1
<1>1. /\ rec.len \in 0 .. BufCap /\ rec.priorSent \in Nat
      /\ seqno \in Nat /\ s \in Nat
  BY RecFields DEF Inv, TypeOK
<1>2. rec.sentIndex = rec.priorSent /\ s < rec.len
  BY <1>1 DEF Inv, TypeOK, Ring, Position
<1>3. SlotOf(rec, s) = s
  BY <1>1, <1>2 DEF SlotOf, Offset
<1>4. ASSUME s > 0 PROVE PriorSlot(rec, s) = s - 1 /\ rec.rtds[s - 1].sent = s - 1
  <2>1. s - 1 \in Slots /\ s - 1 < rec.len
    BY <1>1, <1>2, <1>4 DEF Slots
  <2>2. rec.rtds[s - 1].sent = rec.priorSent - Age(s - 1, rec.sentIndex, rec.len)
    BY <2>1 DEF Inv, Layout
  <2>3. Age(s - 1, rec.sentIndex, rec.len) = rec.priorSent - (s - 1)
    BY <1>1, <1>2 DEF Age
  <2>4. PriorSlot(rec, s) = s - 1
    BY <1>1, <1>3, <1>4 DEF PriorSlot
  <2> QED BY <1>1, <2>2, <2>3, <2>4
<1> QED BY <1>3, <1>4

\* recordPostSend hands the round trip of the packet just sent to OnSent.
LEMMA SentSlotFound ==
  ASSUME Inv, ~stream, sender = "written"
  PROVE  TagAt(SentSlot(rec)) = seqno
<1>1. /\ rec.len = seqno + 1 /\ rec.sentIndex = seqno /\ rec.priorSent = seqno
      /\ seqno \in Nat /\ rec.len \in 0 .. BufCap
  BY RecFields DEF Inv, Ring, Position
<1>2. SentSlot(rec) = seqno /\ seqno \in Slots
  BY <1>1 DEF SentSlot, Slots
<1>3. rec.rtds[seqno].sent = rec.priorSent - Age(seqno, rec.sentIndex, rec.len)
  BY <1>1, <1>2 DEF Inv, Layout
<1>4. Age(seqno, rec.sentIndex, rec.len) = 0
  BY <1>1 DEF Age
<1> QED BY <1>1, <1>2, <1>3, <1>4 DEF TagAt, None

(* Outside stream mode a RecorderHandler is given the round trip of the packet it
   is told of and that of the packet before, for a test of any length.           *)
THEOREM HandlersServed == Spec => []HandlersGivenTheirs
<1>1. Init => HandlersGivenTheirs
  BY DEF Init, HandlersGivenTheirs, NoEvent, Event
<1>2. Inv /\ HandlersGivenTheirs /\ [Next]_vars => HandlersGivenTheirs'
  <2> SUFFICES ASSUME Inv, HandlersGivenTheirs, [Next]_vars, ~stream'
               PROVE  HandlersGivenTheirs'
    BY DEF HandlersGivenTheirs
  <2>1. CASE UNCHANGED vars
    BY <2>1 DEF vars, HandlersGivenTheirs
  <2>2. ASSUME NEW s \in wire, RecordDuplicate(s) \/ RecordReceive(s)
        PROVE  HandlersGivenTheirs'
    <3>1. ~stream /\ s <= rec.priorSent /\ s \in Nat
      <4>1. stream' = stream /\ s <= rec.priorSent
        BY <2>2 DEF RecordDuplicate, RecordReceive
      <4> QED BY <4>1 DEF Inv, TypeOK
    <3>2. TagAt(PriorSlot(rec, s)) = IF s = 0 THEN None ELSE s - 1
      BY <3>1, OwnSlot DEF TagAt, PriorSlot, None
    <3>3. \/ event' = Event("OnReceived dup", s, TagAt(SlotOf(rec, s)), TagAt(PriorSlot(rec, s)))
          \/ event' = Event("OnReceived", s, TagAt(SlotOf(rec, s)), TagAt(PriorSlot(rec, s)))
      BY <2>2 DEF RecordDuplicate, RecordReceive
    <3>4. /\ event'.what # "OnSent"
          /\ event'.packet = s /\ event'.prtd = TagAt(PriorSlot(rec, s))
      <4>1. CASE event' = Event("OnReceived dup", s, TagAt(SlotOf(rec, s)), TagAt(PriorSlot(rec, s)))
        BY <4>1 DEF Event
      <4>2. CASE event' = Event("OnReceived", s, TagAt(SlotOf(rec, s)), TagAt(PriorSlot(rec, s)))
        BY <4>2 DEF Event
      <4> QED BY <3>3, <4>1, <4>2
    <3> QED BY <3>2, <3>4 DEF HandlersGivenTheirs
  <2>3. CASE RecordPostSend
    <3>1. event' = Event("OnSent", seqno, seqno, None)
      BY <2>3, SentSlotFound DEF RecordPostSend
    <3> QED BY <3>1 DEF Event, HandlersGivenTheirs
  <2>4. CASE \/ RecordPreSend \/ Write \/ WriteFails
             \/ RecordUnexpected(rec.priorSent + 1)
             \/ \E s \in wire : RecordAgedOut(s)
    <3>1. event'.what \notin {"OnSent", "OnReceived", "OnReceived dup"}
      <4>1. CASE RecordPreSend \/ Write \/ WriteFails
        <5>1. event' = NoEvent
          BY <4>1 DEF RecordPreSend, Write, WriteFails
        <5> QED BY <5>1 DEF NoEvent, Event
      <4>2. CASE RecordUnexpected(rec.priorSent + 1)
        BY <4>2 DEF RecordUnexpected, Event
      <4>3. ASSUME NEW s \in wire, RecordAgedOut(s)
            PROVE  event'.what \notin {"OnSent", "OnReceived", "OnReceived dup"}
        BY <4>3 DEF RecordAgedOut, Event
      <4> QED BY <2>4, <4>1, <4>2, <4>3
    <3> QED BY <3>1 DEF HandlersGivenTheirs
  <2> QED BY <2>1, <2>2, <2>3, <2>4 DEF Next, Reply
<1> QED BY <1>1, <1>2, Invariance, PTL DEF Spec
=============================================================================
