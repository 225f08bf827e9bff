---------------------------- MODULE ServerProofs ----------------------------
(***************************************************************************)
(* Proofs about Server: its state is well typed, the rate limit and the    *)
(* duration limit of serveEcho hold of every connection over its whole     *)
(* life, whatever the limits are and however many clients there are, and   *)
(* no client can touch another client's connection.                        *)
(***************************************************************************)
EXTENDS Server, TLAPS

USE SConnAssumption, ServerAssumption

-----------------------------------------------------------------------------
(* Typing of the operators of SConn *)

\* The bucket's capacity is a number of ticks.
LEMMA CapIsNat == BucketCap \in Nat
  BY DEF BucketCap

\* A connection starts at a sequence number.
LEMMA SeqnoIsInt == InvalidSeqno \in Seqno
  BY DEF InvalidSeqno, Seqno

(* What the handlers do to one record keeps it a record of its type. *)
LEMMA NewSconnType ==
  ASSUME NEW a \in Addrs, NEW t \in Nat
  PROVE  NewSconn(a, t) \in SConnType
  BY CapIsNat, SeqnoIsInt DEF NewSconn, SConnType

\* A refill never takes credit away.
LEMMA RefillType ==
  ASSUME NEW sc \in SConnType, NEW t \in Nat,
         sc.lastUsed # NoTime => sc.lastUsed <= t
  PROVE  Refill(sc, t) \in Nat
<1>1. sc.bucket \in Nat /\ sc.lastUsed \in Int
  BY DEF SConnType, NoTime
<1>2. CASE MinInterval > 0 /\ sc.lastUsed # NoTime
  BY <1>1, <1>2, CapIsNat DEF Refill
<1>3. CASE ~(MinInterval > 0 /\ sc.lastUsed # NoTime)
  BY <1>1, <1>3 DEF Refill
<1> QED BY <1>2, <1>3

\* A window stays as wide as it is.
LEMMA SlideType ==
  ASSUME NEW w, NEW d
  PROVE  Slide(w, d) \in SUBSET (0 .. WindowBits - 1)
  BY DEF Slide

\* A dropped request leaves a connection a connection.
LEMMA ThrottledType ==
  ASSUME NEW sc \in SConnType, NEW t \in Nat,
         sc.lastUsed # NoTime => sc.lastUsed <= t
  PROVE  Throttled(sc, t) \in SConnType
<1>1. FirstUsed(sc, t) \in Nat \cup {NoTime}
  BY DEF FirstUsed, SConnType
<1> QED BY <1>1, RefillType DEF Throttled, SConnType

\* So does an answered one: it was paid for.
LEMMA ReceivedType ==
  ASSUME NEW sc \in SConnType, NEW t \in Nat, NEW s \in Seqno,
         sc.lastUsed # NoTime => sc.lastUsed <= t,
         ~ShortInterval(sc, t)
  PROVE  Received(sc, t, s) \in SConnType
<1>1. FirstUsed(sc, t) \in Nat \cup {NoTime}
  BY DEF FirstUsed, SConnType
<1>2. Refill(sc, t) - MinInterval \in Nat
  BY RefillType DEF ShortInterval
<1>3. sc.receivedCount + 1 \in Nat
  BY DEF SConnType
<1>4. Slide(sc.receivedWindow, SinceLast(sc, s)) \in SUBSET (0 .. WindowBits - 1)
  BY SlideType
<1> QED BY <1>1, <1>2, <1>3, <1>4 DEF Received, SConnType

-----------------------------------------------------------------------------
(* The account of one connection at time t, and what keeps it balanced. *)
LEMMA NewSconnAccounted ==
  ASSUME NEW a \in Addrs, NEW t \in Nat
  PROVE  Accounted(NewSconn(a, t), t)
  BY CapIsNat DEF NewSconn, Accounted, Span, NoTime

LEMMA AccountedLater ==
  ASSUME NEW sc \in SConnType, NEW t \in Nat, Accounted(sc, t)
  PROVE  Accounted(sc, t + 1)
<1>1. sc.lastUsed \in Int
  BY DEF SConnType, NoTime
<1> QED BY <1>1 DEF Accounted

(* A refill never earns more than the time that passed since the last use. *)
LEMMA RefillBounded ==
  ASSUME NEW sc \in SConnType, NEW t \in Nat, Accounted(sc, t)
  PROVE  /\ Refill(sc, t) \in Nat
         /\ Refill(sc, t) <= BucketCap
         /\ MinInterval > 0 =>
              sc.receivedCount * MinInterval + Refill(sc, t)
                  <= BucketCap + (t - FirstUsed(sc, t))
<1>1. /\ sc.bucket \in Nat
      /\ sc.lastUsed \in Int
      /\ sc.firstUsed \in Int
      /\ sc.receivedCount * MinInterval \in Nat
  BY DEF SConnType, NoTime
<1>2. Refill(sc, t) \in Nat
  BY RefillType DEF Accounted
<1>3. CASE MinInterval > 0 /\ sc.lastUsed # NoTime
  BY <1>1, <1>2, <1>3, CapIsNat DEF Refill, Accounted, FirstUsed, Span
<1>4. CASE ~(MinInterval > 0 /\ sc.lastUsed # NoTime)
  BY <1>1, <1>2, <1>4, CapIsNat DEF Refill, Accounted, FirstUsed, Span
<1> QED BY <1>3, <1>4

LEMMA FirstUsedBounds ==
  ASSUME NEW sc \in SConnType, NEW t \in Nat, Accounted(sc, t)
  PROVE  FirstUsed(sc, t) \in Nat /\ FirstUsed(sc, t) <= t
<1>1. sc.firstUsed \in Nat \cup {NoTime} /\ sc.lastUsed \in Nat \cup {NoTime}
  BY DEF SConnType
<1> QED BY <1>1 DEF FirstUsed, Accounted, NoTime

LEMMA ThrottledAccounted ==
  ASSUME NEW sc \in SConnType, NEW t \in Nat, Accounted(sc, t)
  PROVE  Accounted(Throttled(sc, t), t)
<1> DEFINE th == Throttled(sc, t)
<1>1. /\ th.firstUsed = FirstUsed(sc, t)
      /\ th.lastUsed = t
      /\ th.bucket = Refill(sc, t)
      /\ th.receivedCount = sc.receivedCount
  BY DEF Throttled, SConnType
<1>2. t # NoTime /\ FirstUsed(sc, t) # NoTime
  BY FirstUsedBounds DEF NoTime
<1>3. Span(th) = t - FirstUsed(sc, t)
  BY <1>1, <1>2 DEF Span
<1> HIDE DEF th
<1>4. Accounted(th, t)
  BY <1>1, <1>2, <1>3, RefillBounded, FirstUsedBounds DEF Accounted
<1> QED BY <1>4 DEF th

LEMMA ReceivedAccounted ==
  ASSUME NEW sc \in SConnType, NEW t \in Nat, NEW s \in Seqno,
         Accounted(sc, t), ~ShortInterval(sc, t), ~ExceededDuration(sc, t)
  PROVE  Accounted(Received(sc, t, s), t)
<1> DEFINE re == Received(sc, t, s)
           n == sc.receivedCount
<1>1. /\ re.firstUsed = FirstUsed(sc, t)
      /\ re.lastUsed = t
      /\ re.bucket = Refill(sc, t) - MinInterval
      /\ re.receivedCount = n + 1
  BY DEF Received, SConnType
<1>2. t # NoTime /\ FirstUsed(sc, t) # NoTime
  BY FirstUsedBounds DEF NoTime
<1>3. Span(re) = t - FirstUsed(sc, t)
  BY <1>1, <1>2 DEF Span
<1>4. n \in Nat
  BY DEF SConnType
<1>5. (n + 1) * MinInterval = n * MinInterval + MinInterval /\ n * MinInterval \in Nat
  BY <1>4
<1>6. MinInterval > 0 =>
        (n + 1) * MinInterval + (Refill(sc, t) - MinInterval)
            <= BucketCap + (t - FirstUsed(sc, t))
  BY <1>5, RefillBounded, CapIsNat, FirstUsedBounds
<1>7. Refill(sc, t) - MinInterval \in Nat
  BY RefillBounded DEF ShortInterval
<1>8. (MinInterval > 0 /\ MaxDuration > 0) =>
        (n + 1) * MinInterval <= BucketCap + MaxDuration + MaxDurationGrace
  BY <1>5, <1>6, <1>7, CapIsNat, FirstUsedBounds DEF ExceededDuration
<1>9. Refill(sc, t) - MinInterval <= BucketCap
  BY RefillBounded, CapIsNat
<1> HIDE DEF re
<1>10. Accounted(re, t)
  BY <1>1, <1>2, <1>3, <1>6, <1>8, <1>9, FirstUsedBounds DEF Accounted
<1> QED BY <1>10 DEF re

-----------------------------------------------------------------------------
(* The inductive invariant: the state is well typed and every connection's
   account is balanced.                                                       *)
Inv == TypeOK /\ Accounting

LEMMA InvAt ==
  ASSUME Inv, NEW ct \in Registered
  PROVE  /\ sconns[ct] \in SConnType
         /\ Accounted(sconns[ct], now)
         /\ now \in Nat
         /\ sconns[ct].lastUsed # NoTime => sconns[ct].lastUsed <= now
  BY DEF Inv, TypeOK, Accounting, Accounted

LEMMA InvInit == Init => Inv
  BY DEF Init, Inv, TypeOK, Accounting, Registered, Quiet, Out, Codes

(* A step that leaves the clock alone keeps the invariant when what it leaves
   in the table are old connections, or well-typed and accounted new ones.    *)
LEMMA TableStep ==
  ASSUME Inv, now' = now,
         NEW T \in SUBSET Tokens,
         sconns' = [t \in T |-> sconns'[t]],
         \A t \in T :
           (t \in Registered /\ sconns'[t] = sconns[t])
           \/ (sconns'[t] \in SConnType /\ Accounted(sconns'[t], now)),
         out' \in [code : Codes, ct : Tokens \cup {NoToken}, addr : Addrs \cup {NoAddr}]
  PROVE  Inv'
<1>1. DOMAIN sconns' = T
  OBVIOUS
<1>2. \A t \in T : sconns'[t] \in SConnType /\ Accounted(sconns'[t], now)
  BY InvAt
<1>3. TypeOK'
  BY <1>1, <1>2 DEF Inv, TypeOK, Registered
<1>4. Accounting'
  BY <1>1, <1>2 DEF Accounting, Accounted, Registered, Span
<1> QED BY <1>3, <1>4 DEF Inv

LEMMA TickInv == ASSUME Inv, Tick PROVE Inv'
<1>1. TypeOK'
  BY DEF Inv, TypeOK, Tick, Registered, Quiet, Out, Codes
<1>2. ASSUME NEW ct \in Registered PROVE Accounted(sconns[ct], now + 1)
  BY InvAt, AccountedLater
<1>3. Accounting'
  BY <1>2 DEF Tick, Accounting, Registered, Accounted, Span
<1> QED BY <1>1, <1>3 DEF Inv

LEMMA AcceptInv ==
  ASSUME Inv, NEW addr \in Addrs, HandleOpen(addr)
  PROVE  Inv'
<1>1. ASSUME NEW checked \in SUBSET Registered, Accept(addr, checked)
      PROVE  Inv'
  <2> DEFINE kept ==
        {t \in Registered : ~(t \in checked /\ Expired(sconns[t], now))}
  <2>1. PICK ct \in Tokens \ kept :
          /\ sconns' = [t \in kept \cup {ct} |->
                           IF t = ct THEN NewSconn(addr, now) ELSE sconns[t]]
          /\ out' = Out("NewConn", ct, addr)
    BY <1>1 DEF Accept
  <2>2. kept \cup {ct} \in SUBSET Tokens
    BY DEF Inv, TypeOK
  <2>3. now \in Nat
    BY DEF Inv, TypeOK
  <2>4. NewSconn(addr, now) \in SConnType /\ Accounted(NewSconn(addr, now), now)
    BY <2>3, NewSconnType, NewSconnAccounted
  <2>5. out' \in [code : Codes, ct : Tokens \cup {NoToken}, addr : Addrs \cup {NoAddr}]
    BY <2>1 DEF Out, Codes
  <2>6. now' = now
    BY <1>1 DEF Accept
  <2> DEFINE T == kept \cup {ct}
  <2>7. sconns' = [t \in T |-> sconns'[t]]
    BY <2>1
  <2>8. \A t \in T :
           (t \in Registered /\ sconns'[t] = sconns[t])
           \/ (sconns'[t] \in SConnType /\ Accounted(sconns'[t], now))
    BY <2>1, <2>4
  <2> HIDE DEF T
  <2>9. T \in SUBSET Tokens
    BY <2>2 DEF T
  <2> QED BY <2>5, <2>6, <2>7, <2>8, <2>9, TableStep
<1>2. ASSUME AcceptClose(addr) \/ AcceptUnreadable(addr)
      PROVE  Inv'
  BY <1>2 DEF AcceptClose, AcceptUnreadable, Inv, TypeOK, Accounting, Accounted,
              Registered, Span, Out, Codes
<1> QED BY <1>1, <1>2 DEF HandleOpen

(* The tables that get, serveClose and serveEcho leave behind. *)
LEMMA DropInv ==
  ASSUME Inv, NEW ct \in Registered, NEW addr \in Addrs, NEW code \in Codes,
         now' = now, out' = Out(code, ct, addr),
         sconns' = Drop(ct) \/ sconns' = Table(ct)
  PROVE  Inv'
<1>1. out' \in [code : Codes, ct : Tokens \cup {NoToken}, addr : Addrs \cup {NoAddr}]
  BY DEF Out, Inv, TypeOK
<1>2. CASE sconns' = Drop(ct)
  <2> DEFINE T == Registered \ {ct}
  <2>1. T \in SUBSET Tokens /\ sconns' = [t \in T |-> sconns'[t]]
        /\ \A t \in T : t \in Registered /\ sconns'[t] = sconns[t]
    BY <1>2 DEF Drop, Inv, TypeOK
  <2> HIDE DEF T
  <2> QED BY <1>1, <2>1, TableStep
<1>3. CASE sconns' = sconns
  BY <1>1, <1>3 DEF Inv, TypeOK, Accounting, Accounted, Registered, Span
<1> QED BY <1>2, <1>3 DEF Table

LEMMA UpdateInv ==
  ASSUME Inv, NEW ct \in Registered, NEW addr \in Addrs, NEW code \in Codes,
         now' = now, out' = Out(code, ct, addr),
         NEW sc \in SConnType, Accounted(sc, now), sconns' = Update(ct, sc)
  PROVE  Inv'
<1> DEFINE T == DOMAIN Table(ct)
<1>1. out' \in [code : Codes, ct : Tokens \cup {NoToken}, addr : Addrs \cup {NoAddr}]
  BY DEF Out, Inv, TypeOK
<1>2. T \subseteq Registered
  BY DEF Table, Drop, Registered
<1>3. \A t \in T :
           (t \in Registered /\ sconns'[t] = sconns[t])
           \/ (sconns'[t] \in SConnType /\ Accounted(sconns'[t], now))
  BY <1>2 DEF Update
<1>4. sconns' = [t \in T |-> sconns'[t]] /\ T \in SUBSET Tokens
  BY <1>2 DEF Update, Inv, TypeOK
<1> HIDE DEF T
<1> QED BY <1>1, <1>3, <1>4, TableStep

LEMMA RequestInv ==
  ASSUME Inv, NEW ct \in Tokens, NEW addr \in Addrs, HandleRequest(ct, addr)
  PROVE  Inv'
<1> USE DEF Codes
<1>1. CASE Unknown(ct, addr)
  BY <1>1 DEF Unknown, Inv, TypeOK, Accounting, Accounted, Registered, Span, Out
<1>2. CASE Mismatch(ct, addr)
  BY <1>2, DropInv DEF Mismatch
<1>3. CASE Close(ct, addr)
  BY <1>3, DropInv DEF Close
<1>4. CASE EchoLarge(ct, addr)
  BY <1>4, DropInv DEF EchoLarge
<1>5. CASE EchoThrottled(ct, addr)
  <2>1. ct \in Registered
    BY <1>5 DEF EchoThrottled
  <2>2. /\ Throttled(sconns[ct], now) \in SConnType
        /\ Accounted(Throttled(sconns[ct], now), now)
    BY <2>1, InvAt, ThrottledType, ThrottledAccounted
  <2> QED BY <1>5, <2>1, <2>2, UpdateInv DEF EchoThrottled
<1>6. ASSUME NEW seqno \in Seqno, Echo(ct, addr, seqno)
      PROVE  Inv'
  <2>1. ct \in Registered /\ ~ShortInterval(sconns[ct], now)
    BY <1>6 DEF Echo
  <2>2. CASE ExceededDuration(sconns[ct], now)
    BY <1>6, <2>1, <2>2, DropInv DEF Echo
  <2>3. CASE ~ExceededDuration(sconns[ct], now)
    <3>1. /\ Received(sconns[ct], now, seqno) \in SConnType
          /\ Accounted(Received(sconns[ct], now, seqno), now)
      BY <2>1, <2>3, InvAt, ReceivedType, ReceivedAccounted
    <3> QED BY <1>6, <2>1, <2>3, <3>1, UpdateInv DEF Echo
  <2> QED BY <2>2, <2>3
<1> QED BY <1>1, <1>2, <1>3, <1>4, <1>5, <1>6 DEF HandleRequest

LEMMA InvNext == Inv /\ [Next]_vars => Inv'
<1> SUFFICES ASSUME Inv, [Next]_vars PROVE Inv'
  OBVIOUS
<1>1. CASE UNCHANGED vars
  BY <1>1 DEF vars, Inv, TypeOK, Accounting, Accounted, Registered, Span
<1> QED BY <1>1, TickInv, AcceptInv, RequestInv DEF Next

LEMMA Invariance == Spec => []Inv
  BY InvInit, InvNext, PTL DEF Spec

(* The values of the server's state: TypeOK holds in every reachable state. *)
THEOREM TypeCorrect == Spec => []TypeOK
<1>1. Inv => TypeOK
  BY DEF Inv
<1> QED BY <1>1, Invariance, PTL

(* The token bucket of serveEcho, for every interval, burst and number of
   connections: no connection is answered more packets than its burst and one
   per MinInterval of the time between its first and its latest request.      *)
THEOREM RateLimited == Spec => []RateBound
<1>1. Inv => RateBound
  <2> SUFFICES ASSUME Inv, MinInterval > 0, NEW ct \in Registered
               PROVE  sconns[ct].receivedCount * MinInterval
                        <= BucketCap + Span(sconns[ct])
    BY DEF RateBound
  <2> DEFINE sc == sconns[ct]
  <2>1. sc \in SConnType /\ Accounted(sc, now)
    BY InvAt
  <2>2. /\ sc.bucket \in Nat /\ sc.receivedCount * MinInterval \in Nat
        /\ sc.lastUsed \in Int /\ sc.firstUsed \in Int
    BY <2>1 DEF SConnType, NoTime
  <2>3. Span(sc) \in Int
    BY <2>2 DEF Span
  <2> QED BY <2>1, <2>2, <2>3, CapIsNat DEF Accounted
<1> QED BY <1>1, Invariance, PTL

(* The rate limit and the duration limit together: whatever a client sends, a
   connection in the table was answered a bounded number of packets.          *)
THEOREM LifetimeLimited == Spec => []LifetimeBound
<1>1. Inv => LifetimeBound
  BY InvAt DEF LifetimeBound, Accounted
<1> QED BY <1>1, Invariance, PTL

(* The account behind both limits is balanced in every reachable state. *)
THEOREM AccountBalanced == Spec => []Accounting
<1>1. Inv => Accounting
  BY DEF Inv
<1> QED BY <1>1, Invariance, PTL

-----------------------------------------------------------------------------
(* serveEcho never drops a request for a short interval unless the one before
   it on the same connection came less than MinInterval earlier.              *)
THEOREM ConformingAnswered == Spec => NoConformingDrop
<1> DEFINE A == (PacketBurst > 0 /\ out'.code = "ShortInterval") =>
                   /\ sconns[out'.ct].lastUsed # NoTime
                   /\ now - sconns[out'.ct].lastUsed < MinInterval
<1>1. ASSUME Inv, Next, PacketBurst > 0, out'.code = "ShortInterval"
      PROVE  /\ sconns[out'.ct].lastUsed # NoTime
             /\ now - sconns[out'.ct].lastUsed < MinInterval
  <2>1. PICK ct \in Tokens, addr \in Addrs : EchoThrottled(ct, addr)
    <3> USE DEF Quiet, Out
    <3>1. ~Tick
      BY <1>1 DEF Tick
    <3>2. ASSUME NEW addr \in Addrs PROVE ~HandleOpen(addr)
      <4>1. ~AcceptClose(addr) /\ ~AcceptUnreadable(addr)
        BY <1>1 DEF AcceptClose, AcceptUnreadable
      <4>2. ASSUME NEW checked \in SUBSET Registered, Accept(addr, checked)
            PROVE  FALSE
        <5>1. \E ct \in Tokens : out' = Out("NewConn", ct, addr)
          BY <4>2 DEF Accept
        <5> QED BY <1>1, <5>1
      <4> QED BY <4>1, <4>2 DEF HandleOpen
    <3>3. ASSUME NEW ct \in Tokens, NEW addr \in Addrs, HandleRequest(ct, addr)
          PROVE  EchoThrottled(ct, addr)
      <4>1. /\ ~Unknown(ct, addr) /\ ~Mismatch(ct, addr)
            /\ ~Close(ct, addr) /\ ~EchoLarge(ct, addr)
        BY <1>1 DEF Unknown, Mismatch, Close, EchoLarge
      <4>2. \A seqno \in Seqno : ~Echo(ct, addr, seqno)
        BY <1>1 DEF Echo
      <4> QED BY <3>3, <4>1, <4>2 DEF HandleRequest
    <3> QED BY <1>1, <3>1, <3>2, <3>3 DEF Next
  <2> DEFINE sc == sconns[ct]
  <2>2. out'.ct = ct /\ ct \in Registered /\ ShortInterval(sc, now)
    BY <2>1 DEF EchoThrottled, Out
  <2>3. sc \in SConnType /\ Accounted(sc, now) /\ now \in Nat
    BY <1>1, <2>2, InvAt
  <2>4. /\ sc.bucket \in Nat /\ sc.lastUsed \in Int
        /\ MinInterval \in Nat /\ MinInterval > 0 /\ BucketCap \in Nat
    BY <2>2, <2>3, CapIsNat DEF SConnType, NoTime, ShortInterval
  <2>5. BucketCap >= MinInterval
    <3>1. \E k \in Nat : PacketBurst = k + 1
      BY <1>1
    <3>2. PICK k \in Nat : PacketBurst = k + 1
      BY <3>1
    <3>3. (k + 1) * MinInterval = k * MinInterval + MinInterval /\ k * MinInterval \in Nat
      BY <2>4
    <3> QED BY <3>2, <3>3, <2>4 DEF BucketCap
  <2>6. sc.lastUsed # NoTime
    BY <2>2, <2>3, <2>4, <2>5 DEF Accounted, ShortInterval, Refill
  <2>7. now - sc.lastUsed < MinInterval
    BY <2>2, <2>3, <2>4, <2>5, <2>6 DEF ShortInterval, Refill
  <2> QED BY <2>2, <2>6, <2>7
<1>2. Inv /\ [Next]_vars => [A]_vars
  BY <1>1
<1> QED BY <1>2, Invariance, PTL DEF Spec, NoConformingDrop

(* No packet of another address, and no open of another client, changes or
   removes a connection that has not expired.                                 *)
THEOREM OwnerOnly == Spec => OnlyOwnerOrExpiry
<1> DEFINE Safe(ct) == \/ ct \in DOMAIN sconns' /\ sconns'[ct] = sconns[ct]
                       \/ Expired(sconns[ct], now)
                       \/ out'.ct = ct /\ out'.addr = sconns[ct].raddr
<1>1. ASSUME NEW c \in Registered, Next PROVE Safe(c)
  <2>1. CASE Tick
    BY <2>1 DEF Tick, Registered
  <2>2. ASSUME NEW addr \in Addrs, HandleOpen(addr) PROVE Safe(c)
    <3>1. ASSUME NEW checked \in SUBSET Registered, Accept(addr, checked)
          PROVE  Safe(c)
      BY <3>1 DEF Accept, Registered
    <3> QED BY <2>2, <3>1 DEF HandleOpen, AcceptClose, AcceptUnreadable, Registered
  <2>3. ASSUME NEW ct \in Tokens, NEW addr \in Addrs, HandleRequest(ct, addr)
        PROVE  Safe(c)
    <3> USE DEF Registered, Table, Drop, Update, Out
    <3>1. CASE Unknown(ct, addr)
      BY <3>1 DEF Unknown
    <3>2. CASE Mismatch(ct, addr)
      BY <3>2 DEF Mismatch
    <3>3. CASE Close(ct, addr)
      BY <3>3 DEF Close
    <3>4. CASE EchoLarge(ct, addr)
      BY <3>4 DEF EchoLarge
    <3>5. CASE EchoThrottled(ct, addr)
      BY <3>5 DEF EchoThrottled
    <3>6. ASSUME NEW seqno \in Seqno, Echo(ct, addr, seqno) PROVE Safe(c)
      BY <3>6 DEF Echo
    <3> QED BY <2>3, <3>1, <3>2, <3>3, <3>4, <3>5, <3>6 DEF HandleRequest
  <2> QED BY <1>1, <2>1, <2>2, <2>3 DEF Next
<1>2. [Next]_vars => [\A ct \in Registered : Safe(ct)]_vars
  BY <1>1
<1> QED BY <1>2, PTL DEF Spec, OnlyOwnerOrExpiry

(* What a reply says of the connection is what became of it: with the close flag the
   connection is gone, without it the connection is kept, unless get took it out
   before it was served.                                                              *)
THEOREM CloseFlagTold == Spec => CloseFlagTruthful
<1> DEFINE Told == /\ out'.code = "ReplyClose" => out'.ct \notin DOMAIN sconns'
                   /\ out'.code = "Reply" => \/ out'.ct \in DOMAIN sconns'
                                             \/ Expired(sconns[out'.ct], now)
           NoReply == out'.code \notin {"Reply", "ReplyClose"}
<1>1. NoReply => Told
  OBVIOUS
<1>2. ASSUME Tick PROVE NoReply
  BY <1>2 DEF Tick, Quiet, Out
<1>3. ASSUME NEW addr \in Addrs, HandleOpen(addr) PROVE NoReply
  <2>1. ASSUME NEW checked \in SUBSET Registered, Accept(addr, checked) PROVE NoReply
    <3>1. PICK ct \in Tokens : out' = Out("NewConn", ct, addr)
      BY <2>1 DEF Accept
    <3> QED BY <3>1 DEF Out
  <2>2. ASSUME AcceptClose(addr) \/ AcceptUnreadable(addr) PROVE NoReply
    BY <2>2 DEF AcceptClose, AcceptUnreadable, Out
  <2> QED BY <1>3, <2>1, <2>2 DEF HandleOpen
<1>4. ASSUME NEW ct \in Tokens, NEW addr \in Addrs, NEW seqno \in Seqno, Echo(ct, addr, seqno)
      PROVE  Told
  <2>1. ct \in Registered
    BY <1>4 DEF Echo
  <2>2. CASE ExceededDuration(sconns[ct], now)
    <3>1. sconns' = Drop(ct) /\ out'.code = "ReplyClose" /\ out'.ct = ct
      BY <1>4, <2>2 DEF Echo, Out
    <3> QED BY <3>1 DEF Drop
  <2>3. CASE ~ExceededDuration(sconns[ct], now)
    <3>1. /\ sconns' = Update(ct, Received(sconns[ct], now, seqno))
          /\ out'.code = "Reply" /\ out'.ct = ct
      BY <1>4, <2>3 DEF Echo, Out
    <3>2. DOMAIN sconns' = DOMAIN Table(ct)
      BY <3>1 DEF Update
    <3>3. Expired(sconns[ct], now) \/ ct \in DOMAIN Table(ct)
      BY <2>1 DEF Table, Registered
    <3> QED BY <3>1, <3>2, <3>3
  <2> QED BY <2>2, <2>3
<1>5. ASSUME NEW ct \in Tokens, NEW addr \in Addrs, HandleRequest(ct, addr) PROVE Told
  <2>1. ASSUME \/ Unknown(ct, addr) \/ Mismatch(ct, addr) \/ Close(ct, addr)
               \/ EchoLarge(ct, addr) \/ EchoThrottled(ct, addr)
        PROVE  NoReply
    BY <2>1 DEF Unknown, Mismatch, Close, EchoLarge, EchoThrottled, Out
  <2> QED BY <1>1, <1>4, <1>5, <2>1 DEF HandleRequest
<1>6. Next => Told
  BY <1>1, <1>2, <1>3, <1>5 DEF Next
<1>7. [Next]_vars => [Told]_vars
  BY <1>6
<1> QED BY <1>7, PTL DEF Spec, CloseFlagTruthful
=============================================================================
