----------------------------- MODULE LossProofs -----------------------------
(***************************************************************************)
(* Proofs about Loss: for windows of any width, tests of any length and a  *)
(* network that loses, repeats and reorders at will, what a received       *)
(* window says was received had been received, and so every packet marked  *)
(* LostDown was lost on its way back.                                      *)
(***************************************************************************)
EXTENDS Loss, FiniteSetTheorems, TLAPS

-----------------------------------------------------------------------------
(* Induction up to a number *)

(* What holds of 0 and passes from each number to the next holds up to any bound:
   subtracting 1 maps the exceptions up to n into themselves one to one, so it maps
   onto them, and n, the largest number of all, cannot be one of them.              *)
LEMMA UpTo ==
  ASSUME NEW n \in Nat, NEW S, 0 \in S, \A k \in Nat : k < n /\ k \in S => k + 1 \in S
  PROVE  n \in S
<1> SUFFICES ASSUME n \notin S PROVE FALSE
  OBVIOUS
<1> DEFINE T == {k \in 0 .. n : k \notin S}
           f == [k \in T |-> k - 1]
<1>1. n \in T /\ T \subseteq Nat /\ \A k \in T : k <= n /\ k \notin S
  OBVIOUS
<1>2. \A k \in T : k - 1 \in T
  <2> SUFFICES ASSUME NEW k \in T PROVE k - 1 \in T
    OBVIOUS
  <2>1. k \in Nat /\ k # 0 /\ k <= n /\ k \notin S
    BY <1>1
  <2>2. k - 1 \in Nat /\ k - 1 < n /\ (k - 1) + 1 = k
    BY <2>1
  <2>3. k - 1 \notin S
    BY <2>1, <2>2
  <2> QED BY <2>2, <2>3
<1>3. IsFiniteSet(T)
  BY <1>1, FS_BoundedSetOfNaturals
<1> HIDE DEF T
<1>4. f \in Injection(T, T)
  <2>1. f \in [T -> T]
    BY <1>2
  <2>2. \A a, b \in T : f[a] = f[b] => a = b
    BY <1>1
  <2> QED BY <2>1, <2>2 DEF Injection, IsInjective
<1>5. f \in Surjection(T, T)
  BY <1>3, <1>4, FS_Injection
<1>6. PICK k \in T : f[k] = n
  BY <1>1, <1>5 DEF Surjection
<1> QED BY <1>1, <1>6

USE BufCapAssumption, SConnAssumption, LossAssumption

Bits == 0 .. WindowBits - 1

LEMMA Bounds == MaxSends \in Nat /\ BufCap \in Nat /\ MaxSends <= BufCap
  OBVIOUS

LEMMA Interval ==
  ASSUME NEW a \in Nat, NEW b \in Nat, a <= b, NEW x \in 0 .. a - 1
  PROVE  x \in 0 .. b - 1
  OBVIOUS

(* The server's connection stands where its last reply was sent. *)
ServerOK ==
    /\ \A k \in DOMAIN replies : replies[k].seqno \in 0 .. rec.len - 1
    /\ replies = <<>> => sc.lastSeqno = InvalidSeqno /\ sc.receivedWindow = {}
    /\ replies # <<>> => /\ sc.lastSeqno = replies[Len(replies)].seqno
                         /\ sc.receivedWindow = replies[Len(replies)].window

(* The buffer has not wrapped: packet s is in slot s. *)
BufferOK ==
    /\ rec.len <= MaxSends
    /\ rec.sentIndex = IF rec.len = 0 THEN 0 ELSE rec.len - 1
    /\ rec.priorSent = rec.sentIndex

(* A window the client holds came with a reply to the packet it is stored with,
   and what was delivered is marked as received.                               *)
ClientOK ==
    /\ \A i \in Slots : windows[i] # {} =>
         \E k \in DOMAIN replies : replies[k].seqno = i /\ windows[i] = replies[k].window
    /\ \A k \in delivered : Answered(replies[k].seqno)

Inv == TypeOK /\ ServerOK /\ BufferOK /\ ClientOK /\ WindowSound

LEMMA InvInit == Init => Inv
<1> SUFFICES ASSUME Init PROVE Inv
  OBVIOUS
<1>1. TypeOK
  <2>1. sc \in SConnType
    BY SMTT(30) DEF Init, SConnType, NewSconn, Seqno, InvalidSeqno, BucketCap, NoTime
  <2>2. rec \in RecType
    BY DEF Init, RecType, NewRecorder, Slots, RoundTripData, SentAt, None
  <2> QED BY <2>1, <2>2 DEF Init, TypeOK
<1>2. ServerOK
  BY DEF Init, ServerOK, NewSconn
<1>3. BufferOK
  BY DEF Init, BufferOK, NewRecorder
<1>4. ClientOK
  BY DEF Init, ClientOK
<1>5. WindowSound
  BY DEF Init, WindowSound
<1> QED BY <1>1, <1>2, <1>3, <1>4, <1>5 DEF Inv

-----------------------------------------------------------------------------
(* The difference of two sequence numbers as uint32: how far a packet is ahead
   of another, or, if it is behind, more than a window is wide.               *)
LEMMA Difference ==
  ASSUME NEW s \in 0 .. MaxSends - 1, NEW last \in 0 .. MaxSends - 1,
         NEW d, d = (s - last) % SeqnoMod
  PROVE  d \in Nat /\ (d = s - last \/ d >= WindowBits)
<1>1. CASE s >= last
  <2>1. s - last \in 0 .. SeqnoMod - 1
    BY <1>1
  <2>2. (s - last) % SeqnoMod = s - last
    BY <2>1
  <2> QED BY <2>1, <2>2
<1>2. CASE s < last
  <2>1. s - last \in Int /\ -SeqnoMod <= s - last /\ s - last < 0
    BY <1>2
  <2>2. (s - last) % SeqnoMod = s - last + SeqnoMod
    BY <2>1
  <2>3. s - last + SeqnoMod >= WindowBits
    BY <1>2
  <2> QED BY <2>1, <2>2, <2>3
<1> QED BY <1>1, <1>2

(* What serveEcho does to the connection. *)
LEMMA EchoFields ==
  ASSUME TypeOK, NEW s \in 0 .. MaxSends - 1
  PROVE  /\ Received(sc, 0, s) \in SConnType
         /\ Received(sc, 0, s).lastSeqno = s
         /\ Received(sc, 0, s).receivedCount = sc.receivedCount + 1
         /\ Received(sc, 0, s).receivedWindow = Slide(sc.receivedWindow, SinceLast(sc, s))
<1>1. sc \in SConnType /\ s \in Seqno
  BY SMTT(30) DEF TypeOK, Seqno
<1>2. FirstUsed(sc, 0) \in Nat \cup {NoTime}
  BY <1>1 DEF FirstUsed, SConnType
<1>3. Refill(sc, 0) - MinInterval \in Nat
  BY <1>1 DEF Refill, SConnType
<1>4. Slide(sc.receivedWindow, SinceLast(sc, s)) \in SUBSET (0 .. WindowBits - 1)
  BY DEF Slide
<1>5. sc.receivedCount + 1 \in Nat
  BY <1>1 DEF SConnType
<1>6. Received(sc, 0, s) \in SConnType
  BY <1>1, <1>2, <1>3, <1>4, <1>5 DEF Received, SConnType
<1>7. /\ Received(sc, 0, s).lastSeqno = s
      /\ Received(sc, 0, s).receivedCount = sc.receivedCount + 1
      /\ Received(sc, 0, s).receivedWindow = Slide(sc.receivedWindow, SinceLast(sc, s))
  BY <1>1 DEF Received, SConnType
<1> QED BY <1>6, <1>7

(* A packet that is echoed: its window stands for packets received before it
   and for the packet itself.                                                *)
LEMMA EchoInv ==
  ASSUME Inv, NEW s \in 0 .. MaxSends - 1, Echo(s)
  PROVE  Inv'
<1> DEFINE n == Len(replies) + 1
           reply == [seqno |-> s, count |-> sc'.receivedCount, window |-> sc'.receivedWindow]
<1>1. TypeOK /\ ServerOK /\ BufferOK /\ ClientOK /\ WindowSound
  BY DEF Inv
<1>2. /\ sc' = Received(sc, 0, s) /\ s < rec.len /\ replies' = Append(replies, reply)
      /\ UNCHANGED <<rec, windows, serverPacketsReceived, delivered>>
  BY DEF Echo
<1>3. /\ sc' \in SConnType
      /\ sc'.lastSeqno = s
      /\ sc'.receivedCount \in Nat
      /\ sc'.receivedWindow = Slide(sc.receivedWindow, SinceLast(sc, s))
      /\ sc'.receivedWindow \in SUBSET (0 .. WindowBits - 1)
  BY <1>1, <1>2, EchoFields DEF SConnType
<1>4. reply \in ReplyType
  BY <1>3 DEF ReplyType, Seqno
<1>5. /\ replies' \in Seq(ReplyType) /\ Len(replies') = n /\ Len(replies) \in Nat
      /\ replies'[n].seqno = s /\ replies'[n].window = sc'.receivedWindow
      /\ \A k \in DOMAIN replies : replies'[k] = replies[k]
      /\ DOMAIN replies' = DOMAIN replies \cup {n}
      /\ DOMAIN replies = 1 .. Len(replies)
  <2> HIDE DEF reply
  <2>1. replies \in Seq(ReplyType)
    BY <1>1 DEF TypeOK
  <2>2. /\ replies' \in Seq(ReplyType) /\ Len(replies') = n /\ Len(replies) \in Nat
        /\ replies'[n] = reply
        /\ \A k \in 1 .. Len(replies) : replies'[k] = replies[k]
        /\ DOMAIN replies = 1 .. Len(replies) /\ DOMAIN replies' = 1 .. n
    <3>1. replies' = Append(replies, reply)
      BY <1>2
    <3>2. Len(replies) \in Nat /\ DOMAIN replies = 1 .. Len(replies)
      BY <2>1
    <3>3. replies' \in Seq(ReplyType) /\ Len(replies') = n
      BY <1>4, <2>1, <3>1
    <3>4. DOMAIN replies' = 1 .. n
      BY <3>3
    <3>5. replies'[n] = reply
      BY <1>4, <2>1, <3>1
    <3>6. \A k \in 1 .. Len(replies) : replies'[k] = replies[k]
      BY <1>4, <2>1, <3>1
    <3> QED BY <3>2, <3>3, <3>4, <3>5, <3>6
  <2>3. reply.seqno = s /\ reply.window = sc'.receivedWindow
    BY DEF reply
  <2> QED BY <2>2, <2>3, SMTT(30)
<1> HIDE DEF reply
<1>6. TypeOK'
  BY <1>1, <1>2, <1>3, <1>5 DEF TypeOK
<1>7. ServerOK'
  <2>1. rec.len \in Nat
    BY <1>1 DEF TypeOK, RecType
  <2>2. s \in 0 .. rec.len - 1
    BY <1>2, <2>1, SMTT(30)
  <2>3. \A k \in DOMAIN replies' : replies'[k].seqno \in 0 .. rec.len - 1
    BY <1>1, <1>5, <2>2 DEF ServerOK
  <2>4. replies' # <<>> /\ rec' = rec /\ sc'.lastSeqno = replies'[Len(replies')].seqno
        /\ sc'.receivedWindow = replies'[Len(replies')].window
    BY <1>2, <1>3, <1>5, SMTT(30)
  <2> QED BY <2>3, <2>4 DEF ServerOK
<1>8. BufferOK'
  BY <1>1, <1>2 DEF BufferOK
<1>9. ClientOK'
  <2>1. \A k \in delivered : replies'[k] = replies[k]
    BY <1>1, <1>5 DEF TypeOK
  <2>2. ASSUME NEW i \in Slots, windows'[i] # {}
        PROVE  \E k \in DOMAIN replies' : replies'[k].seqno = i /\ windows'[i] = replies'[k].window
    <3>1. PICK k \in DOMAIN replies : replies[k].seqno = i /\ windows[i] = replies[k].window
      BY <1>1, <1>2, <2>2 DEF ClientOK
    <3> QED BY <1>2, <1>5, <3>1
  <2>3. ASSUME NEW k \in delivered' PROVE rec'.rtds[replies'[k].seqno].replied
    BY <1>1, <1>2, <2>1, <2>3 DEF ClientOK, Answered
  <2> QED BY <2>2, <2>3 DEF ClientOK, Answered
<1>10. WindowSound'
  <2> SUFFICES ASSUME NEW k \in DOMAIN replies', NEW b \in replies'[k].window
               PROVE  \E m \in 1 .. k : replies'[m].seqno = replies'[k].seqno - b
    BY DEF WindowSound
  <2>1. CASE k \in DOMAIN replies
    <3>1. PICK m \in 1 .. k : replies[m].seqno = replies[k].seqno - b
      BY <1>1, <1>5, <2>1 DEF WindowSound
    <3>2. m \in DOMAIN replies
      BY <1>5, <2>1, <3>1, SMTT(30)
    <3> QED BY <1>5, <2>1, <3>1, <3>2
  <2>2. CASE k = n /\ b = 0
    BY <1>5, <2>2, SMTT(30)
  <2>3. CASE k = n /\ b # 0
    <3> DEFINE last == sc.lastSeqno
               d == SinceLast(sc, s)
    <3>1. b \in 0 .. WindowBits - 1 /\ b - d \in sc.receivedWindow
      BY <1>3, <1>5, <2>3 DEF Slide
    <3>2. replies # <<>> /\ Len(replies) \in DOMAIN replies
      BY <1>1, <1>5, <3>1, SMTT(30) DEF ServerOK
    <3>3. last = replies[Len(replies)].seqno /\ last \in 0 .. MaxSends - 1
      <4>1. last = replies[Len(replies)].seqno /\ last \in 0 .. rec.len - 1
        BY <1>1, <3>2 DEF ServerOK
      <4>2. rec.len \in Nat /\ rec.len <= MaxSends /\ MaxSends \in Nat
        BY <1>1 DEF BufferOK, TypeOK, RecType
      <4> HIDE DEF last
      <4> QED BY <4>1, <4>2, Interval, SMTT(30)
    <3>4. PICK m \in 1 .. Len(replies) : replies[m].seqno = last - (b - d)
      <4>1. sc.receivedWindow = replies[Len(replies)].window
        BY <1>1, <3>2 DEF ServerOK
      <4>2. b - d \in replies[Len(replies)].window
        BY <3>1, <4>1
      <4>3. \E m \in 1 .. Len(replies) :
               replies[m].seqno = replies[Len(replies)].seqno - (b - d)
        <5> HIDE DEF d
        <5> QED BY <1>1, <3>2, <4>2 DEF WindowSound
      <4> QED BY <3>3, <4>3
    <3>5. d \in Nat /\ (d = s - last \/ d >= WindowBits)
      BY <3>3, Difference DEF SinceLast
    <3>6. b - d \in 0 .. WindowBits - 1
      BY <1>1, <3>1 DEF TypeOK, SConnType
    <3> HIDE DEF d, last
    <3>7. d = s - last
      <4>1. b \in Int /\ b < WindowBits /\ b - d >= 0 /\ WindowBits \in Int
        BY <3>1, <3>6, SMTT(30)
      <4> QED BY <3>5, <4>1
    <3>8. last - (b - d) = s - b
      <4>1. last \in Int /\ s \in Int /\ b \in Int
        BY <3>1, <3>3, SMTT(30)
      <4> QED BY <3>7, <4>1
    <3>9. replies'[m].seqno = s - b /\ m \in 1 .. k
      <4>1. m \in DOMAIN replies /\ m \in 1 .. k
        BY <1>5, <2>3
      <4> QED BY <1>5, <3>4, <3>8, <4>1
    <3>10. replies'[k].seqno = s
      BY <1>5, <2>3
    <3> QED BY <3>9, <3>10
  <2> QED BY <1>5, <2>1, <2>2, <2>3
<1> QED BY <1>6, <1>7, <1>8, <1>9, <1>10 DEF Inv

-----------------------------------------------------------------------------
(* What a reply that arrives finds: its packet's slot. *)
LEMMA DeliverFacts ==
  ASSUME Inv, NEW k \in DOMAIN replies
  PROVE  /\ replies[k].seqno \in Slots /\ replies[k].seqno < rec.len
         /\ SlotOf(rec, replies[k].seqno) = replies[k].seqno
         /\ replies[k].window \in SUBSET (0 .. WindowBits - 1)
         /\ replies[k].count \in Nat
<1> DEFINE s == replies[k].seqno
<1>1. rec.len \in Nat /\ rec.len <= MaxSends /\ MaxSends <= BufCap /\ MaxSends \in Nat
      /\ BufCap \in Nat
  BY DEF Inv, BufferOK, TypeOK, RecType
<1>2. s \in 0 .. rec.len - 1
  BY DEF Inv, ServerOK
<1>3. rec.sentIndex = rec.len - 1 /\ rec.priorSent = rec.len - 1
  BY <1>1, <1>2 DEF Inv, BufferOK
<1>4. replies[k] \in ReplyType
  BY DEF Inv, TypeOK
<1>5. SlotOf(rec, s) = s
  <2> HIDE DEF s
  <2> QED BY <1>1, <1>2, <1>3 DEF SlotOf, Offset
<1>6. s \in Slots /\ s < rec.len
  <2> HIDE DEF s
  <2> QED BY <1>1, <1>2 DEF Slots
<1> QED BY <1>4, <1>5, <1>6 DEF ReplyType

LEMMA SendInv == ASSUME Inv, Send PROVE Inv'
<1>1. TypeOK /\ ServerOK /\ BufferOK /\ ClientOK /\ WindowSound
  BY DEF Inv
<1>2. /\ rec' = PostSend(PreSend(rec, rec.len)) /\ rec.len < MaxSends
      /\ UNCHANGED <<sc, replies, windows, serverPacketsReceived, delivered>>
  BY DEF Send
<1>3. rec \in RecType /\ rec.len \in Nat /\ rec.len < BufCap /\ rec.len \in Slots
  <2>1. rec \in RecType /\ rec.len \in Nat
    BY <1>1 DEF TypeOK, RecType
  <2> QED BY <1>2, <2>1, Bounds DEF Slots
<1>4. NextIndex(rec) = rec.len
  BY <1>1, <1>3 DEF BufferOK, NextIndex
<1>5. SentAt(rec.len) \in RoundTripData
  BY <1>3 DEF SentAt, RoundTripData
<1>6. /\ rec' \in RecType
      /\ rec'.rtds = [rec.rtds EXCEPT ![rec.len] = SentAt(rec.len)]
      /\ rec'.len = rec.len + 1 /\ rec'.sentIndex = rec.len /\ rec'.priorSent = rec.len
  <2> DEFINE pre == PreSend(rec, rec.len)
  <2>1. /\ pre \in RecType
        /\ pre.rtds = [rec.rtds EXCEPT ![rec.len] = SentAt(rec.len)]
        /\ pre.len = rec.len + 1 /\ pre.sentIndex = rec.len /\ pre.priorSent = rec.len
    <3>1. pre = [rec EXCEPT !.rtds = [rec.rtds EXCEPT ![rec.len] = SentAt(rec.len)],
                            !.len = rec.len + 1,
                            !.sentIndex = rec.len,
                            !.priorSent = rec.len]
      BY <1>3, <1>4 DEF PreSend
    <3>2. [rec.rtds EXCEPT ![rec.len] = SentAt(rec.len)] \in [Slots -> RoundTripData]
      BY <1>3, <1>5 DEF RecType
    <3>3. rec.len + 1 \in 0 .. BufCap
      BY <1>3
    <3> HIDE DEF pre
    <3> QED BY <1>3, <3>1, <3>2, <3>3 DEF RecType
  <2>2. rec' = [pre EXCEPT !.sendCallN = pre.sendCallN + 1]
    BY <1>2 DEF PostSend
  <2> HIDE DEF pre
  <2> QED BY <2>1, <2>2 DEF RecType
<1>7. TypeOK'
  BY <1>1, <1>2, <1>6 DEF TypeOK
<1>8. ServerOK'
  <2>1. ASSUME NEW k \in DOMAIN replies PROVE replies[k].seqno \in 0 .. rec'.len - 1
    <3>1. replies[k].seqno \in 0 .. rec.len - 1
      BY <1>1 DEF ServerOK
    <3> QED BY <1>3, <1>6, <3>1
  <2> QED BY <1>1, <1>2, <2>1 DEF ServerOK
<1>9. BufferOK'
  BY <1>2, <1>3, <1>6 DEF BufferOK
<1>10. ClientOK'
  <2>1. ASSUME NEW k \in delivered PROVE rec'.rtds[replies[k].seqno].replied
    <3>1. k \in DOMAIN replies /\ Answered(replies[k].seqno)
      BY <1>1 DEF TypeOK, ClientOK
    <3>2. replies[k].seqno \in Slots /\ replies[k].seqno < rec.len
      BY <3>1, DeliverFacts
    <3> QED BY <1>3, <1>6, <3>1, <3>2 DEF Answered, RecType
  <2> QED BY <1>1, <1>2, <2>1 DEF ClientOK, Answered
<1>11. WindowSound'
  BY <1>1, <1>2 DEF WindowSound
<1> QED BY <1>7, <1>8, <1>9, <1>10, <1>11 DEF Inv

(* A reply, the first to its packet or a duplicate, is delivered. *)
LEMMA DeliverInv ==
  ASSUME Inv, NEW k \in DOMAIN replies, ReceiveDuplicate(k) \/ ReceiveReply(k)
  PROVE  Inv'
<1> DEFINE s == replies[k].seqno
<1>1. TypeOK /\ ServerOK /\ BufferOK /\ ClientOK /\ WindowSound
  BY DEF Inv
<1>2. s \in Slots /\ s < rec.len /\ SlotOf(rec, s) = s
      /\ replies[k].window \in SUBSET (0 .. WindowBits - 1) /\ replies[k].count \in Nat
  BY DeliverFacts
<1>3. /\ delivered' = delivered \cup {k}
      /\ sc' = sc /\ replies' = replies
  BY DEF ReceiveDuplicate, ReceiveReply, Deliver
<1>4. /\ rec' \in RecType /\ rec'.len = rec.len /\ rec'.sentIndex = rec.sentIndex
      /\ rec'.priorSent = rec.priorSent
      /\ rec'.rtds[s].replied
      /\ \A i \in Slots : rec.rtds[i].replied => rec'.rtds[i].replied
  <2>1. rec \in RecType
    BY <1>1 DEF TypeOK
  <2>2. CASE ReceiveDuplicate(k)
    <3>1. rec' = Duplicate(rec) /\ rec.rtds[s].replied
      BY <1>2, <2>2 DEF ReceiveDuplicate, IsDuplicate
    <3>2. rec' \in RecType /\ rec'.len = rec.len /\ rec'.sentIndex = rec.sentIndex
          /\ rec'.priorSent = rec.priorSent /\ rec'.rtds = rec.rtds
      BY <2>1, <3>1 DEF Duplicate, RecType
    <3> QED BY <3>1, <3>2
  <2>3. CASE ReceiveReply(k)
    <3> DEFINE r == Replied(rec.rtds[s], Late(rec, s))
               l == IF Late(rec, s) THEN rec.latePackets + 1 ELSE rec.latePackets
               rt == [rec.rtds EXCEPT ![s] = r]
    <3>1. rec' = Receive(rec, s)
      BY <2>3 DEF ReceiveReply
    <3>2. rec' = [rec EXCEPT !.rtds = rt, !.priorReceived = s,
                             !.rttN = rec.rttN + 1, !.latePackets = l]
      <4> HIDE DEF s
      <4> QED BY <1>2, <3>1 DEF Receive
    <3>3. rec.rtds[s] \in RoundTripData /\ rec.rtds \in [Slots -> RoundTripData]
      BY <1>2, <2>1 DEF RecType
    <3>4. r \in RoundTripData /\ r.replied
      <4>1. Late(rec, s) \in BOOLEAN
        BY DEF Late
      <4> HIDE DEF s
      <4> QED BY <3>3, <4>1 DEF Replied, RoundTripData
    <3>5. l \in Nat /\ s \in Nat /\ rec.rttN + 1 \in Nat
      <4>1. rec.latePackets \in Nat /\ rec.rttN \in Nat
        BY <2>1 DEF RecType
      <4>2. s \in Nat
        BY <1>2, Bounds DEF Slots
      <4> HIDE DEF s
      <4> QED BY <4>1, <4>2
    <3> HIDE DEF s, r, l
    <3>6. /\ rt \in [Slots -> RoundTripData] /\ rt[s] = r
          /\ \A i \in Slots : i # s => rt[i] = rec.rtds[i]
      BY <1>2, <3>3, <3>4
    <3> HIDE DEF rt
    <3>7. rec' \in RecType
      BY <2>1, <3>2, <3>5, <3>6 DEF RecType
    <3>8. rec'.len = rec.len /\ rec'.sentIndex = rec.sentIndex
          /\ rec'.priorSent = rec.priorSent /\ rec'.rtds = rt
      BY <2>1, <3>2 DEF RecType
    <3>9. \A i \in Slots : rec.rtds[i].replied => rt[i].replied
      BY <3>4, <3>6
    <3> QED BY <3>4, <3>6, <3>7, <3>8, <3>9
  <2> QED BY <2>2, <2>3
<1>5. /\ windows' \in [Slots -> SUBSET (0 .. WindowBits - 1)]
      /\ serverPacketsReceived' \in Nat
      /\ \A i \in Slots : \/ windows'[i] = windows[i]
                          \/ (i = s /\ windows'[i] = replies[k].window)
  <2>1. CASE ReceiveDuplicate(k)
    <3>1. windows' = windows /\ serverPacketsReceived' = serverPacketsReceived
      BY <2>1 DEF ReceiveDuplicate
    <3> QED BY <1>1, <3>1 DEF TypeOK
  <2>2. CASE ReceiveReply(k)
    <3>1. /\ windows' = [windows EXCEPT ![s] = replies[k].window]
          /\ serverPacketsReceived' = replies[k].count
      BY <1>2, <2>2 DEF ReceiveReply
    <3> HIDE DEF s
    <3>2. windows \in [Slots -> SUBSET (0 .. WindowBits - 1)]
      BY <1>1 DEF TypeOK
    <3>3. \A i \in Slots : windows'[i] = IF i = s THEN replies[k].window ELSE windows[i]
      BY <1>2, <3>1, <3>2
    <3>4. windows' \in [Slots -> SUBSET (0 .. WindowBits - 1)]
      BY <1>2, <3>1, <3>2
    <3> QED BY <1>2, <3>1, <3>3, <3>4 DEF s
  <2> QED BY <2>1, <2>2
<1>6. TypeOK'
  BY <1>1, <1>3, <1>4, <1>5 DEF TypeOK
<1>7. ServerOK'
  BY <1>1, <1>3, <1>4 DEF ServerOK
<1>8. BufferOK'
  BY <1>1, <1>4 DEF BufferOK
<1>9. ClientOK'
  <2>1. ASSUME NEW i \in Slots, windows'[i] # {}
        PROVE  \E m \in DOMAIN replies : replies[m].seqno = i /\ windows'[i] = replies[m].window
    BY <1>1, <1>5, <2>1 DEF ClientOK
  <2>2. ASSUME NEW m \in delivered' PROVE rec'.rtds[replies[m].seqno].replied
    <3>1. CASE m = k
      BY <1>4, <3>1
    <3>2. CASE m \in delivered
      <4>1. m \in DOMAIN replies /\ rec.rtds[replies[m].seqno].replied
        BY <1>1, <3>2 DEF TypeOK, ClientOK, Answered
      <4>2. replies[m].seqno \in Slots
        BY <4>1, DeliverFacts
      <4> QED BY <1>4, <4>1, <4>2
    <3> QED BY <1>3, <2>2, <3>1, <3>2
  <2> QED BY <1>3, <2>1, <2>2 DEF ClientOK, Answered
<1>10. WindowSound'
  BY <1>1, <1>3 DEF WindowSound
<1> QED BY <1>6, <1>7, <1>8, <1>9, <1>10 DEF Inv

LEMMA InvNext == Inv /\ [Next]_vars => Inv'
<1> SUFFICES ASSUME Inv, [Next]_vars PROVE Inv'
  OBVIOUS
<1>1. CASE UNCHANGED vars
  BY <1>1, SMTT(30) DEF vars, Inv, TypeOK, ServerOK, BufferOK, ClientOK, WindowSound, Answered
<1> QED BY <1>1, SendInv, EchoInv, DeliverInv DEF Next

LEMMA Invariance == Spec => []Inv
  BY InvInit, InvNext, PTL DEF Spec

-----------------------------------------------------------------------------
(* The values the state can take. *)
THEOREM TypeCorrect == Spec => []TypeOK
<1>1. Inv => TypeOK
  BY DEF Inv
<1> QED BY <1>1, Invariance, PTL

(* Whatever the network does to the requests, a window bit that the server
   sends out stands for a packet it had received.                           *)
THEOREM WindowsSound == Spec => []WindowSound
<1>1. Inv => WindowSound
  BY DEF Inv
<1> QED BY <1>1, Invariance, PTL

(* doc/irtt.md:176: a packet marked LostDown was received by the server, and
   none of the replies to it reached the client.                             *)
THEOREM LostDownGuaranteed == Spec => []DownTruthful
<1>1. Inv => DownTruthful
  <2> SUFFICES ASSUME Inv, NEW j \in Sent, Attribution(j) = "true_down"
               PROVE  Echoed(j) /\ \A k \in delivered : replies[k].seqno # j
    BY DEF DownTruthful
  <2>1. ~Answered(j)
    BY DEF Attribution
  <2>2. PICK i \in Sent : Covers(i, j) /\ i - j \in windows[i]
    BY <2>1 DEF Attribution
  <2>3. i \in Slots /\ i \in Int /\ j \in Int
    <3>1. rec.len \in Nat /\ rec.len <= MaxSends
      BY DEF Inv, BufferOK, TypeOK, RecType
    <3>2. i \in 0 .. rec.len - 1 /\ j \in 0 .. rec.len - 1
      BY <2>2 DEF Sent
    <3> QED BY <3>1, <3>2, Bounds DEF Slots
  <2>4. PICK k \in DOMAIN replies : replies[k].seqno = i /\ windows[i] = replies[k].window
    BY <2>2, <2>3 DEF Inv, ClientOK
  <2>5. PICK m \in 1 .. k : replies[m].seqno = i - (i - j)
    BY <2>2, <2>4 DEF Inv, WindowSound
  <2>6. m \in DOMAIN replies /\ replies[m].seqno = j
    <3>1. DOMAIN replies = 1 .. Len(replies) /\ Len(replies) \in Nat
      BY DEF Inv, TypeOK
    <3>2. i - (i - j) = j
      BY <2>3
    <3> QED BY <2>4, <2>5, <3>1, <3>2
  <2>7. Echoed(j)
    BY <2>6 DEF Echoed
  <2>8. \A d \in delivered : replies[d].seqno # j
    BY <2>1 DEF Inv, ClientOK
  <2> QED BY <2>7, <2>8
<1> QED BY <1>1, Invariance, PTL

-----------------------------------------------------------------------------
(* What no bit of a window says: as long as requests arrive in order, a packet
   that was received within the width of a window has its bit in it.          *)
Complete ==
    InOrder =>
      \A k \in DOMAIN replies : \A m \in 1 .. k :
        replies[k].seqno - replies[m].seqno < WindowBits =>
          replies[k].seqno - replies[m].seqno \in replies[k].window

LEMMA EchoComplete ==
  ASSUME Inv, Complete, NEW s \in 0 .. MaxSends - 1, Echo(s)
  PROVE  Complete'
<1> DEFINE n == Len(replies) + 1
           reply == [seqno |-> s, count |-> sc'.receivedCount, window |-> sc'.receivedWindow]
<1>1. TypeOK /\ ServerOK
  BY DEF Inv
<1>2. /\ replies \in Seq(ReplyType) /\ Len(replies) \in Nat /\ DOMAIN replies = 1 .. Len(replies)
      /\ sc' = Received(sc, 0, s) /\ replies' = Append(replies, reply)
      /\ sc'.receivedWindow = Slide(sc.receivedWindow, SinceLast(sc, s))
      /\ sc'.receivedCount \in Nat /\ sc'.receivedWindow \in SUBSET (0 .. WindowBits - 1)
  <2>1. sc' = Received(sc, 0, s) /\ replies' = Append(replies, reply)
    BY DEF Echo
  <2>2. replies \in Seq(ReplyType) /\ Len(replies) \in Nat /\ DOMAIN replies = 1 .. Len(replies)
    BY <1>1 DEF TypeOK
  <2>3. /\ sc' \in SConnType
        /\ sc'.receivedWindow = Slide(sc.receivedWindow, SinceLast(sc, s))
    BY <1>1, <2>1, EchoFields
  <2>4. sc'.receivedCount \in Nat /\ sc'.receivedWindow \in SUBSET (0 .. WindowBits - 1)
    BY <2>3 DEF SConnType
  <2> QED BY <2>1, <2>2, <2>3, <2>4
<1>3. reply \in ReplyType /\ reply.seqno = s /\ reply.window = sc'.receivedWindow
  BY <1>2, SMTT(30) DEF ReplyType, Seqno
<1> HIDE DEF reply
<1>4. /\ replies'[n] = reply /\ DOMAIN replies' = 1 .. n
      /\ \A k \in 1 .. Len(replies) : replies'[k] = replies[k]
  <2>1. replies' \in Seq(ReplyType) /\ Len(replies') = n
    BY <1>2, <1>3
  <2>2. replies'[n] = reply
    BY <1>2, <1>3
  <2>3. \A k \in 1 .. Len(replies) : replies'[k] = replies[k]
    BY <1>2, <1>3
  <2> QED BY <2>1, <2>2, <2>3, SMTT(30)
<1> SUFFICES ASSUME InOrder', NEW k \in DOMAIN replies', NEW m \in 1 .. k,
                    replies'[k].seqno - replies'[m].seqno < WindowBits
             PROVE  replies'[k].seqno - replies'[m].seqno \in replies'[k].window
  BY DEF Complete
<1>5. InOrder
  BY <1>2, <1>4, SMTT(30) DEF InOrder
<1>6. k \in 1 .. n /\ m \in 1 .. n /\ m <= k /\ n \in Nat
  BY <1>2, <1>4, SMTT(30)
<1>7. CASE k < n
  <2>1. k \in DOMAIN replies /\ m \in DOMAIN replies
    BY <1>2, <1>6, <1>7, SMTT(30)
  <2>2. replies'[k] = replies[k] /\ replies'[m] = replies[m]
    BY <1>2, <1>4, <2>1
  <2> QED BY <1>5, <2>1, <2>2 DEF Complete
<1>8. CASE k = n /\ m = n
  <2>1. replies'[k].seqno - replies'[m].seqno = 0
    BY <1>3, <1>4, <1>8, SMTT(30)
  <2>2. replies'[k].window = Slide(sc.receivedWindow, SinceLast(sc, s))
    BY <1>2, <1>3, <1>4, <1>8
  <2> QED BY <2>1, <2>2 DEF Slide
<1>9. CASE k = n /\ m < n
  <2> DEFINE z == Len(replies)
             last == replies[z].seqno
             sm == replies[m].seqno
  <2>1. m \in DOMAIN replies /\ z \in DOMAIN replies /\ m <= z
    BY <1>2, <1>6, <1>9, SMTT(30)
  <2>2. replies # <<>>
    BY <2>1
  <2>3. sc.lastSeqno = last /\ sc.receivedWindow = replies[z].window
    BY <1>1, <2>2 DEF ServerOK
  <2>4. last \in 0 .. MaxSends - 1 /\ sm \in 0 .. MaxSends - 1
    <3>1. last \in 0 .. rec.len - 1 /\ sm \in 0 .. rec.len - 1
      BY <1>1, <2>1 DEF ServerOK
    <3>2. rec.len \in Nat /\ rec.len <= MaxSends /\ MaxSends \in Nat
      BY DEF Inv, BufferOK, TypeOK, RecType
    <3> HIDE DEF last, sm
    <3> QED BY <3>1, <3>2, Interval
  <2>5. replies'[k].seqno = s /\ replies'[m].seqno = sm /\ replies'[z].seqno = last
        /\ replies'[k].window = Slide(replies[z].window, SinceLast(sc, s))
    BY <1>2, <1>3, <1>4, <1>9, <2>1, <2>3
  <2>6. last <= s /\ sm <= last
    <3>1. last <= s
      <4>1. z \in DOMAIN replies' /\ k \in DOMAIN replies' /\ z < k
        BY <1>2, <1>4, <1>6, <1>9, <2>1, SMTT(30)
      <4> QED BY <2>5, <4>1 DEF InOrder
    <3>2. sm <= last
      <4>1. CASE m = z
        BY <2>4, <4>1, SMTT(30)
      <4>2. CASE m < z
        BY <1>5, <2>1, <4>2 DEF InOrder
      <4> QED BY <1>2, <2>1, <4>1, <4>2, SMTT(30)
    <3> QED BY <3>1, <3>2
  <2>7. SinceLast(sc, s) = s - last
    <3> DEFINE d == SinceLast(sc, s)
    <3>1. d = (s - last) % SeqnoMod
      BY <2>3 DEF SinceLast
    <3> HIDE DEF d, last
    <3>2. s - last \in 0 .. SeqnoMod - 1
      BY <2>4, <2>6
    <3>3. (s - last) % SeqnoMod = s - last
      BY <3>2
    <3> QED BY <3>1, <3>3 DEF d
  <2>8. last - sm < WindowBits => last - sm \in replies[z].window
    <3>1. m \in 1 .. z
      BY <1>2, <1>6, <2>1
    <3> QED BY <1>5, <2>1, <3>1 DEF Complete
  <2>9. s - sm < WindowBits
    BY <2>5
  <2> HIDE DEF last, sm
  <2>10. s - sm \in 0 .. WindowBits - 1 /\ last - sm < WindowBits /\ (s - sm) - (s - last) = last - sm
    BY <2>4, <2>6, <2>9
  <2>11. s - sm \in Slide(replies[z].window, s - last)
    BY <2>8, <2>10 DEF Slide
  <2> QED BY <2>5, <2>7, <2>11
<1> QED BY <1>6, <1>7, <1>8, <1>9, SMTT(30)

LEMMA CompleteNext == Inv /\ Complete /\ [Next]_vars => Complete'
<1> SUFFICES ASSUME Inv, Complete, [Next]_vars PROVE Complete'
  OBVIOUS
<1>1. ASSUME replies' = replies PROVE Complete'
  BY <1>1 DEF Complete, InOrder
<1>2. CASE UNCHANGED vars \/ Send
  BY <1>1, <1>2 DEF vars, Send
<1>3. ASSUME NEW k \in DOMAIN replies, ReceiveDuplicate(k) \/ ReceiveReply(k)
      PROVE  Complete'
  BY <1>1, <1>3 DEF ReceiveDuplicate, ReceiveReply, Deliver
<1> QED BY <1>2, <1>3, EchoComplete DEF Next

LEMMA CompleteHolds == Spec => [](Inv /\ Complete)
<1>1. Init => Complete
  BY DEF Init, Complete
<1> QED BY <1>1, InvInit, InvNext, CompleteNext, PTL DEF Spec

(* doc/irtt.md:177-181: while requests arrive in order, a packet marked LostUp
   never reached the server, whatever became of the replies.                  *)
THEOREM LostUpInOrder == Spec => []UpTruthfulInOrder
<1>1. Inv /\ Complete => UpTruthfulInOrder
  <2> SUFFICES ASSUME Inv, Complete, InOrder, NEW j \in Sent, Attribution(j) = "true_up",
                      Echoed(j)
               PROVE  FALSE
    BY DEF UpTruthfulInOrder
  <2>1. /\ ~\E i \in Sent : Covers(i, j) /\ i - j \in windows[i]
        /\ \E i \in Sent : Covers(i, j)
    BY DEF Attribution
  <2>2. PICK i \in Sent : Covers(i, j)
    BY <2>1
  <2>3. i \in Slots /\ i \in Int /\ j \in Int
    <3>1. rec.len \in Nat /\ rec.len <= MaxSends
      BY DEF Inv, BufferOK, TypeOK, RecType
    <3>2. i \in 0 .. rec.len - 1 /\ j \in 0 .. rec.len - 1
      BY DEF Sent
    <3> QED BY <3>1, <3>2, Bounds DEF Slots
  <2>4. j < i /\ i - j < WindowBits /\ windows[i] # {} /\ i - j \notin windows[i]
    BY <2>1, <2>2 DEF Covers
  <2>5. PICK k \in DOMAIN replies : replies[k].seqno = i /\ windows[i] = replies[k].window
    BY <2>3, <2>4 DEF Inv, ClientOK
  <2>6. PICK m \in DOMAIN replies : replies[m].seqno = j
    BY DEF Echoed
  <2>7. DOMAIN replies = 1 .. Len(replies) /\ Len(replies) \in Nat
    BY DEF Inv, TypeOK
  <2>8. ~(k <= m)
    <3>1. k # m
      BY <2>3, <2>4, <2>5, <2>6
    <3>2. k < m => i <= j
      BY <2>5, <2>6 DEF InOrder
    <3> QED BY <2>3, <2>4, <2>7, <3>1, <3>2, SMTT(30)
  <2>9. m \in 1 .. k
    BY <2>7, <2>8
  <2> QED BY <2>4, <2>5, <2>6, <2>9 DEF Complete
<1> QED BY <1>1, CompleteHolds, PTL

-----------------------------------------------------------------------------
(* The loops of newResult *)

(* The status of packet j after n iterations of the outer loop, in closed form. *)
DownBy(n, j) == \E i \in Sent : i < n /\ Covers(i, j) /\ i - j \in windows[i]

CoveredBy(n, j) == \E i \in Sent : i < n /\ Covers(i, j)

Status(n, j) ==
    IF Answered(j) /\ j < n THEN "false"
    ELSE IF DownBy(n, j) /\ ~Answered(j) THEN "true_down"
    ELSE IF CoveredBy(n, j) /\ ~Answered(j) THEN "true_up"
    ELSE "true"

\* An iteration adds what the window of its packet says.
LEMMA OneMore ==
  ASSUME rec.len \in Nat, NEW i \in Sent, NEW j \in Sent
  PROVE  /\ DownBy(i + 1, j) <=> DownBy(i, j) \/ (Covers(i, j) /\ i - j \in windows[i])
         /\ CoveredBy(i + 1, j) <=> CoveredBy(i, j) \/ Covers(i, j)
         /\ i \in Int /\ j \in Int
<1>1. i \in Int /\ \A k \in Sent : k \in Int /\ (k < i + 1 <=> k < i \/ k = i)
  BY DEF Sent
<1> QED BY <1>1 DEF DownBy, CoveredBy

LEMMA MarkStatus ==
  ASSUME rec.len \in Nat, NEW i \in Sent, NEW lost, lost = [j \in Sent |-> Status(i, j)]
  PROVE  Mark(lost, i) = [j \in Sent |-> Status(i + 1, j)]
<1>1. CASE ~Answered(i)
  <2>1. \A j \in Sent : Status(i + 1, j) = Status(i, j)
    <3> SUFFICES ASSUME NEW j \in Sent PROVE Status(i + 1, j) = Status(i, j)
      OBVIOUS
    <3>1. /\ DownBy(i + 1, j) <=> DownBy(i, j)
          /\ CoveredBy(i + 1, j) <=> CoveredBy(i, j)
          /\ i \in Int /\ j \in Int
      BY <1>1, OneMore DEF Covers
    <3>2. Answered(j) /\ j < i + 1 <=> Answered(j) /\ j < i
      BY <1>1, <3>1
    <3> QED BY <3>1, <3>2 DEF Status
  <2> QED BY <1>1, <2>1 DEF Mark
<1>2. CASE Answered(i)
  <2> DEFINE now == [lost EXCEPT ![i] = "false"]
  <2>1. DOMAIN now = Sent /\ now[i] = "false" /\ \A j \in Sent : j # i => now[j] = Status(i, j)
    OBVIOUS
  <2>2. Status(i + 1, i) = "false"
    BY <1>2, OneMore DEF Status
  <2> HIDE DEF now
  <2>3. CASE 0 \notin windows[i]
    <3>1. \A j \in Sent : j # i => Status(i + 1, j) = Status(i, j)
      <4> SUFFICES ASSUME NEW j \in Sent, j # i PROVE Status(i + 1, j) = Status(i, j)
        OBVIOUS
      <4>1. /\ DownBy(i + 1, j) <=> DownBy(i, j)
            /\ CoveredBy(i + 1, j) <=> CoveredBy(i, j)
            /\ i \in Int /\ j \in Int
        BY <2>3, OneMore DEF Covers
      <4>2. j < i + 1 <=> j < i
        BY <4>1
      <4> QED BY <4>1, <4>2 DEF Status
    <3>2. now = [j \in Sent |-> Status(i + 1, j)]
      <4>1. now = [j \in Sent |-> now[j]]
        BY <2>1 DEF now
      <4>2. \A j \in Sent : now[j] = Status(i + 1, j)
        BY <2>1, <2>2, <3>1
      <4> QED BY <4>1, <4>2
    <3>3. Mark(lost, i) = now
      BY <1>2, <2>3 DEF Mark, now
    <3> QED BY <3>2, <3>3
  <2>4. CASE 0 \in windows[i]
    <3> DEFINE prior == [j \in Sent |->
                  IF j \notin i - (WindowBits - 1) .. i - 1 \/ now[j] = "false" THEN now[j]
                  ELSE IF i - j \in windows[i] THEN "true_down"
                  ELSE IF now[j] = "true_down" THEN now[j]
                  ELSE "true_up"]
    <3>1. Mark(lost, i) = prior
      <4>1. Mark(lost, i) = MarkPrior(now, i)
        BY <1>2, <2>4 DEF Mark, now
      <4>2. MarkPrior(now, i) = prior
        BY <2>1 DEF MarkPrior
      <4> QED BY <4>1, <4>2
    <3>2. ASSUME NEW j \in Sent PROVE prior[j] = Status(i + 1, j)
      <4>1. i \in Int /\ j \in Int
        BY OneMore
      <4>2. j \in i - (WindowBits - 1) .. i - 1 <=> Covers(i, j)
        BY <1>2, <2>4, <4>1 DEF Covers
      <4>3. CASE j = i
        BY <2>1, <2>2, <4>2, <4>3
      <4>4. CASE j # i /\ Answered(j) /\ j < i
        <5>1. now[j] = "false" /\ Status(i + 1, j) = "false"
          BY <2>1, <4>1, <4>4 DEF Status
        <5> QED BY <5>1
      <4>5. CASE Answered(j) /\ j > i
        <5>1. ~Covers(i, j) /\ now[j] = "true" /\ Status(i + 1, j) = "true"
          BY <2>1, <4>1, <4>5 DEF Status, Covers
        <5> QED BY <4>2, <5>1
      <4>6. CASE j # i /\ ~Answered(j)
        <5>1. /\ DownBy(i + 1, j) <=> DownBy(i, j) \/ (Covers(i, j) /\ i - j \in windows[i])
              /\ CoveredBy(i + 1, j) <=> CoveredBy(i, j) \/ Covers(i, j)
          BY OneMore
        <5>2. now[j] = Status(i, j)
          BY <2>1, <4>6
        <5> QED BY <4>2, <4>6, <5>1, <5>2 DEF Status
      <4> QED BY <4>1, <4>3, <4>4, <4>5, <4>6
    <3> QED BY <3>1, <3>2
  <2> QED BY <2>3, <2>4
<1> QED BY <1>1, <1>2

\* The loops compute the closed form: there is one function that satisfies after's equation.
LEMMA LoopsCompute ==
  ASSUME rec.len \in Nat
  PROVE  Lost = [j \in Sent |-> Status(rec.len, j)]
<1> DEFINE Step(f) == [n \in 0 .. rec.len |->
                        IF n = 0 THEN [j \in Sent |-> "true"] ELSE Mark(f[n - 1], n - 1)]
           closed == [n \in 0 .. rec.len |-> [j \in Sent |-> Status(n, j)]]
           after == CHOOSE f : f = Step(f)
<1>1. \A n \in 1 .. rec.len : n - 1 \in Sent /\ n - 1 \in 0 .. rec.len /\ (n - 1) + 1 = n
  BY DEF Sent
<1>2. \A n \in 1 .. rec.len : Mark(closed[n - 1], n - 1) = closed[n]
  <2> SUFFICES ASSUME NEW n \in 1 .. rec.len PROVE Mark(closed[n - 1], n - 1) = closed[n]
    OBVIOUS
  <2>1. closed[n - 1] = [j \in Sent |-> Status(n - 1, j)]
    BY <1>1
  <2> QED BY <1>1, <2>1, MarkStatus, SMTT(30)
<1>3. closed[0] = [j \in Sent |-> "true"]
  <2>1. \A j \in Sent : Status(0, j) = "true"
    BY DEF Status, Sent, DownBy, CoveredBy
  <2> QED BY <2>1
<1>4. \A n \in 0 .. rec.len : n = 0 \/ n \in 1 .. rec.len
  OBVIOUS
<1>5. closed = Step(closed)
  <2>1. \A n \in 0 .. rec.len :
          closed[n] = IF n = 0 THEN [j \in Sent |-> "true"] ELSE Mark(closed[n - 1], n - 1)
    BY <1>2, <1>3, <1>4
  <2> HIDE DEF closed
  <2>2. closed = [n \in 0 .. rec.len |-> closed[n]]
    BY DEF closed
  <2> QED BY <2>1, <2>2
<1> HIDE DEF closed
<1>6. after = Step(after)
  BY <1>5
<1> HIDE DEF after
<1>7. /\ after[0] = [j \in Sent |-> "true"]
      /\ \A n \in 1 .. rec.len : after[n] = Mark(after[n - 1], n - 1)
  <2>1. ASSUME NEW n \in 0 .. rec.len
        PROVE  after[n] = IF n = 0 THEN [j \in Sent |-> "true"] ELSE Mark(after[n - 1], n - 1)
    <3>1. after[n] = Step(after)[n]
      BY <1>6
    <3>2. Step(after)[n]
            = IF n = 0 THEN [j \in Sent |-> "true"] ELSE Mark(after[n - 1], n - 1)
      OBVIOUS
    <3> QED BY <3>1, <3>2
  <2>2. 0 \in 0 .. rec.len /\ \A n \in 1 .. rec.len : n \in 0 .. rec.len /\ n # 0
    OBVIOUS
  <2> QED BY <2>1, <2>2
<1> HIDE DEF Step
<1>8. after[rec.len] = closed[rec.len]
  <2> DEFINE S == {n \in 0 .. rec.len : after[n] = closed[n]}
  <2>1. 0 \in S
    BY <1>3, <1>7
  <2>2. ASSUME NEW k \in Nat, k < rec.len, k \in S PROVE k + 1 \in S
    <3>1. k + 1 \in 1 .. rec.len /\ (k + 1) - 1 = k /\ k + 1 \in 0 .. rec.len
      BY <2>2
    <3>2. after[k + 1] = Mark(after[k], k) /\ closed[k + 1] = Mark(closed[k], k)
      BY <1>2, <1>7, <3>1
    <3> QED BY <2>2, <3>1, <3>2
  <2> HIDE DEF S
  <2>3. rec.len \in S
    BY <2>1, <2>2, UpTo
  <2> QED BY <2>3 DEF S
<1>9. Lost = after[rec.len]
  BY DEF Lost, after, Step
<1> QED BY <1>8, <1>9 DEF closed

(* The result of the nested loops of newResult is what the windows say, whatever
   the order of the replies, the width of a window and the length of the test.   *)
THEOREM LoopsAgree == Spec => []LoopAgrees
<1>1. Inv => LoopAgrees
  <2> SUFFICES ASSUME Inv PROVE Lost = [j \in Sent |-> Attribution(j)]
    BY DEF LoopAgrees
  <2>1. rec.len \in Nat
    BY DEF Inv, TypeOK, RecType
  <2>2. ASSUME NEW j \in Sent PROVE Status(rec.len, j) = Attribution(j)
    <3>1. \A i \in Sent : i < rec.len
      BY <2>1 DEF Sent
    <3>2. /\ DownBy(rec.len, j) <=> \E i \in Sent : Covers(i, j) /\ i - j \in windows[i]
          /\ CoveredBy(rec.len, j) <=> \E i \in Sent : Covers(i, j)
      BY <3>1 DEF DownBy, CoveredBy
    <3> QED BY <3>1, <3>2 DEF Status, Attribution
  <2> QED BY <2>1, <2>2, LoopsCompute
<1> QED BY <1>1, Invariance, PTL
=============================================================================
