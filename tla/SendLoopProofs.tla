--------------------------- MODULE SendLoopProofs ---------------------------
(***************************************************************************)
(* SendLoop.tla proved for every interval, duration, limit of the server   *)
(* and bound of the timing errors that its assumption admits; and          *)
(* TimedLoop.tla, the loop with the program's Timers, proved to implement  *)
(* it, for every Averager, window and smoothing factor.                    *)
(***************************************************************************)
EXTENDS TimedLoop, FiniteSetTheorems, TLAPS

\* When the packet of the current slot is due.
Due == slot * Interval

-----------------------------------------------------------------------------
(* Induction up to a number *)

(* What holds of 0 and passes from each number to the next holds up to any bound:
   subtracting 1 maps the exceptions up to n into themselves one to one, so it maps
   onto them, and n, the largest number of all, cannot be one of them.              *)
LEMMA UpTo ==
  ASSUME NEW n \in Nat, NEW S, 0 \in S, \A k \in Nat : k < n /\ k \in S => k + 1 \in S
  PROVE  n \in S
<1> SUFFICES ASSUME n \notin S PROVE FALSE
  OBVIOUS
<1> DEFINE T == {k \in 0 .. n : k \notin S}
           f == [k \in T |-> k - 1]
<1>1. n \in T /\ T \subseteq Nat /\ \A k \in T : k <= n /\ k \notin S
  OBVIOUS
<1>2. \A k \in T : k - 1 \in T
  <2> SUFFICES ASSUME NEW k \in T PROVE k - 1 \in T
    OBVIOUS
  <2>1. k \in Nat /\ k # 0 /\ k <= n /\ k \notin S
    BY <1>1
  <2>2. k - 1 \in Nat /\ k - 1 < n /\ (k - 1) + 1 = k
    BY <2>1
  <2>3. k - 1 \notin S
    BY <2>1, <2>2
  <2> QED BY <2>2, <2>3
<1>3. IsFiniteSet(T)
  BY <1>1, FS_BoundedSetOfNaturals
<1> HIDE DEF T
<1>4. f \in Injection(T, T)
  <2>1. f \in [T -> T]
    BY <1>2
  <2>2. \A a, b \in T : f[a] = f[b] => a = b
    BY <1>1
  <2> QED BY <2>1, <2>2 DEF Injection, IsInjective
<1>5. f \in Surjection(T, T)
  BY <1>3, <1>4, FS_Injection
<1>6. PICK k \in T : f[k] = n
  BY <1>1, <1>5 DEF Surjection
<1> QED BY <1>1, <1>6

-----------------------------------------------------------------------------
(* Typing of the operators of SConn *)

\* The bucket's capacity is a number of ticks.
LEMMA CapIsNat == BucketCap \in Nat
  BY SConnAssumption DEF BucketCap

\* A connection starts at a sequence number.
LEMMA SeqnoIsInt == InvalidSeqno \in Seqno
  BY SConnAssumption DEF InvalidSeqno, Seqno

(* What the handlers do to one record keeps it a record of its type. *)
LEMMA NewSconnType ==
  ASSUME NEW a \in Addrs, NEW t \in Nat
  PROVE  NewSconn(a, t) \in SConnType
  BY CapIsNat, SeqnoIsInt DEF NewSconn, SConnType

\* A refill never takes credit away.
LEMMA RefillType ==
  ASSUME NEW c \in SConnType, NEW t \in Nat,
         c.lastUsed # NoTime => c.lastUsed <= t
  PROVE  Refill(c, t) \in Nat
<1>1. c.bucket \in Nat /\ c.lastUsed \in Int
  BY DEF SConnType, NoTime
<1>2. CASE MinInterval > 0 /\ c.lastUsed # NoTime
  BY <1>1, <1>2, CapIsNat, SConnAssumption DEF Refill
<1>3. CASE ~(MinInterval > 0 /\ c.lastUsed # NoTime)
  BY <1>1, <1>3 DEF Refill
<1> QED BY <1>2, <1>3

\* A window stays as wide as it is.
LEMMA SlideType ==
  ASSUME NEW w, NEW d
  PROVE  Slide(w, d) \in SUBSET (0 .. WindowBits - 1)
  BY SConnAssumption DEF Slide

\* A dropped request leaves a connection a connection.
LEMMA ThrottledType ==
  ASSUME NEW c \in SConnType, NEW t \in Nat,
         c.lastUsed # NoTime => c.lastUsed <= t
  PROVE  Throttled(c, t) \in SConnType
<1>1. FirstUsed(c, t) \in Nat \cup {NoTime}
  BY DEF FirstUsed, SConnType
<1> QED BY <1>1, RefillType, SConnAssumption DEF Throttled, SConnType

\* So does an answered one: it was paid for.
LEMMA ReceivedType ==
  ASSUME NEW c \in SConnType, NEW t \in Nat, NEW s \in Seqno,
         c.lastUsed # NoTime => c.lastUsed <= t,
         ~ShortInterval(c, t)
  PROVE  Received(c, t, s) \in SConnType
<1>1. FirstUsed(c, t) \in Nat \cup {NoTime}
  BY DEF FirstUsed, SConnType
<1>2. Refill(c, t) - MinInterval \in Nat
  BY RefillType, SConnAssumption DEF ShortInterval
<1>3. c.receivedCount + 1 \in Nat
  BY DEF SConnType
<1>4. Slide(c.receivedWindow, SinceLast(c, s)) \in SUBSET (0 .. WindowBits - 1)
  BY SlideType
<1> QED BY <1>1, <1>2, <1>3, <1>4 DEF Received, SConnType

-----------------------------------------------------------------------------
(* Arithmetic of slots *)

\* Division by the interval, in the facts the schedule needs.
LEMMA DivMod ==
  ASSUME NEW t \in Nat, NEW i \in Nat, i > 0, NEW q \in Int, q = t \div i,
         NEW r \in Int, r = t % i
  PROVE  /\ t = q * i + r
         /\ q \in Nat
         /\ r \in 0 .. i - 1
<1>1. t = i * q + r OBVIOUS
<1>2. r \in 0 .. i - 1 OBVIOUS
<1>3. q >= 0
  <2>1. CASE q <= -1
    <3>1. i * q <= -i BY <2>1
    <3> QED BY <1>1, <1>2, <3>1
  <2> QED BY <2>1
<1> QED BY <1>1, <1>2, <1>3

LEMMA DivInterval ==
  ASSUME NEW t \in Nat
  PROVE  /\ t \div Interval \in Nat
         /\ t % Interval \in 0 .. Interval - 1
         /\ t = (t \div Interval) * Interval + (t % Interval)
<1>1. Interval \in Nat /\ Interval > 0 BY SendLoopAssumption
<1>2. t \div Interval \in Int /\ t % Interval \in Int BY <1>1
<1> QED BY <1>1, <1>2, DivMod

\* Multiples of the interval are ordered as their factors are.
LEMMA Multiples ==
  ASSUME NEW k \in Int, NEW m \in Int, k < m
  PROVE  k * Interval + Interval <= m * Interval
<1>1. Interval \in Nat /\ Interval > 0 BY SendLoopAssumption
<1>2. (m - k - 1) * Interval >= 0 BY <1>1
<1>3. (m - k - 1) * Interval = m * Interval - k * Interval - Interval BY <1>1
<1> QED BY <1>1, <1>2, <1>3

LEMMA Ordered ==
  ASSUME NEW k \in Int, NEW m \in Int, k * Interval < m * Interval
  PROVE  k < m
<1>1. Interval \in Nat /\ Interval > 0 BY SendLoopAssumption
<1>2. CASE k = m BY <1>2, <1>1
<1>3. CASE m < k
  <2>1. m * Interval + Interval <= k * Interval BY <1>3, Multiples
  <2> QED BY <2>1, <1>1
<1> QED BY <1>2, <1>3
(* The half-way rule: whatever the Timer did, the next slot is a later one, it is in
   the future, and it is at most two intervals away.                                *)
LEMMA NextSlotLater ==
  ASSUME NEW t \in Nat, NEW u \in Nat, tsent = u, u <= t,
         slot \in Nat, Due \in Nat, Due - MaxEarly <= u
  PROVE  /\ NextSlot(t) \in Nat
         /\ slot < NextSlot(t)
         /\ t < NextSlot(t) * Interval
         /\ NextSlot(t) * Interval <= t + 2 * Interval
<1> DEFINE q == t \div Interval
           p == u \div Interval
           h == Interval \div 2
<1>0. /\ Interval \in Nat /\ Interval > 0
      /\ MaxEarly \in Nat /\ h \in Nat /\ MaxEarly <= Interval - h
  BY SendLoopAssumption
<1>1. /\ q \in Nat /\ p \in Nat
      /\ q * Interval <= t /\ t < q * Interval + Interval
      /\ u = p * Interval + (u % Interval)
      /\ u % Interval \in 0 .. Interval - 1
  BY <1>0, DivInterval
<1> HIDE DEF p, q, h
<1>2. CASE (u % Interval) < h
  <2>1. NextSlot(t) = q + 1 BY <1>2 DEF NextSlot, q, h
  <2>2. (q + 1) * Interval = q * Interval + Interval BY <1>0, <1>1
  <2>3. slot <= q
    <3>1. CASE q < slot
      <4>1. q * Interval + Interval <= Due BY <3>1, <1>1, Multiples DEF Due
      <4>2. t < Due BY <4>1, <1>0, <1>1
      <4>3. u < Due /\ Due <= u + MaxEarly BY <4>2, <1>0
      <4>4. p < slot BY <4>3, <1>1, <1>0, Ordered DEF Due
      <4>5. p * Interval + Interval <= Due BY <4>4, <1>1, Multiples DEF Due
      <4> QED BY <4>3, <4>5, <1>0, <1>1, <1>2
    <3> QED BY <3>1, <1>1
  <2> QED BY <2>1, <2>2, <2>3, <1>0, <1>1
<1>3. CASE ~((u % Interval) < h)
  <2>1. NextSlot(t) = q + 2 BY <1>3 DEF NextSlot, q, h
  <2>2. (q + 2) * Interval = q * Interval + 2 * Interval BY <1>0, <1>1
  <2>3. slot <= q + 1
    <3>1. CASE q + 1 < slot
      <4>1. (q + 1) * Interval + Interval <= Due BY <3>1, <1>1, Multiples DEF Due
      <4>2. (q + 1) * Interval = q * Interval + Interval BY <1>0, <1>1
      <4> QED BY <4>1, <4>2, <1>0, <1>1
    <3> QED BY <3>1, <1>1
  <2> QED BY <2>1, <2>2, <2>3, <1>0, <1>1
<1> QED BY <1>2, <1>3

\* A slot before the end of the test is one the buffer has room for.
LEMMA SlotFits ==
  ASSUME NEW k \in Nat, k * Interval < Duration
  PROVE  /\ k \in 0 .. (Duration - 1) \div Interval
         /\ k <= Duration \div Interval
<1> DEFINE q == (Duration - 1) \div Interval
           p == Duration \div Interval
<1>0. Interval \in Nat /\ Interval > 0 /\ Duration \in Nat /\ Duration - 1 \in Nat
  BY SendLoopAssumption
<1>1. /\ q \in Nat /\ p \in Nat
      /\ Duration - 1 < q * Interval + Interval
      /\ Duration < p * Interval + Interval
  BY <1>0, DivInterval
<1> HIDE DEF p, q
<1>2. (q + 1) * Interval = q * Interval + Interval BY <1>0, <1>1
<1>3. (p + 1) * Interval = p * Interval + Interval BY <1>0, <1>1
<1>4. k < q + 1
  <2>1. k * Interval \in Int BY <1>0
  <2>2. k * Interval < (q + 1) * Interval BY <2>1, <1>0, <1>1, <1>2
  <2> QED BY <2>2, <1>1, Ordered
<1>5. k < p + 1
  <2>1. k * Interval \in Int BY <1>0
  <2>2. k * Interval < (p + 1) * Interval BY <2>1, <1>0, <1>1, <1>3
  <2> QED BY <2>2, <1>1, Ordered
<1>6. k \in 0 .. q /\ k <= p BY <1>1, <1>4, <1>5
<1> QED BY <1>6 DEF p, q

-----------------------------------------------------------------------------
(* The inductive invariant *)

\* The values, with the slot before the end of the test instead of TypeOK's quotient.
Typed ==
    /\ pc \in {"send", "prepare", "sleep", "done"}
    /\ now \in Nat
    /\ tsent \in Nat
    /\ count \in Nat
    /\ slot \in Nat
    /\ Due < Duration
    /\ lost \in 0 .. MaxLost
    /\ sc \in SConnType
    /\ verdict \in {"none", "served", "dropped", "expired", "closed"}

\* Where the clock is with respect to the current slot.
Timing ==
    /\ pc = "send" => Due - MaxEarly <= now /\ now <= Due + MaxLate
    /\ pc = "prepare" =>
         /\ now = tsent
         /\ Due - MaxEarly <= tsent
         /\ tsent <= Due + MaxLate + MaxSendTime
    /\ pc = "sleep" => now < Due

\* At most one packet in each slot so far.
Counting ==
    /\ pc \in {"send", "sleep"} => count <= slot
    /\ count <= slot + 1

\* How far the loop can get from the last request that arrived, for each one lost.
Gap == MaxPrepareTime + 2 * Interval + MaxLate + MaxSendTime

Opening ==
    sc.lastUsed # NoTime =>
      /\ sc.lastUsed <= now + MaxJitter
      /\ pc = "prepare" => tsent <= sc.lastUsed + lost * Gap
      /\ pc \in {"send", "sleep"} =>
           Due <= sc.lastUsed + MaxPrepareTime + 2 * Interval + lost * Gap

(* What the bucket holds: a burst less one, less the time by which packets came ahead
   of their slots; between a packet and the choice of the next slot, one less.       *)
Reserve == (PacketBurst - 2) * MinInterval

Paying ==
    /\ sc.lastUsed = NoTime => sc.bucket = BucketCap
    /\ sc.lastUsed # NoTime =>
         /\ pc \in {"send", "sleep"} =>
              sc.bucket >= Reserve + MinInterval + sc.lastUsed - Due - MaxJitter
         /\ pc = "prepare" =>
              \/ sc.bucket >= Reserve + MinInterval
              \/ sc.bucket >= Reserve + sc.lastUsed - Due - MaxJitter

Calm == Reserve >= MaxEarly + MaxJitter /\ MinInterval > 0

Verdicts ==
    /\ FitsBuffer
    /\ verdict \notin {"expired", "closed"}
    /\ Calm => verdict # "dropped"
    /\ MinInterval = 0 => verdict # "dropped"

Invariant ==
    /\ Typed
    /\ Timing
    /\ Counting
    /\ Opening
    /\ Calm => Paying
    /\ Verdicts

\* The constants as numbers.
LEMMA Numbers ==
  /\ Interval \in Nat /\ Interval > 0
  /\ Duration \in Nat /\ Duration > 0
  /\ MaxSendTime \in Nat /\ MaxPrepareTime \in Nat
  /\ MaxEarly \in Nat /\ MaxLate \in Nat /\ MaxJitter \in Nat
  /\ MinInterval \in Nat /\ MinInterval <= Interval
  /\ PacketBurst \in Nat /\ Reserve \in Int
  /\ BucketCap = Reserve + 2 * MinInterval
  /\ MaxLost \in 0 .. 1
<1>1. MinInterval \in Nat /\ PacketBurst \in Nat BY SConnAssumption
<1>2. PacketBurst * MinInterval = (PacketBurst - 2) * MinInterval + 2 * MinInterval
  BY <1>1
<1>3. (PacketBurst - 2) * MinInterval \in Int BY <1>1
<1> QED BY <1>1, <1>2, <1>3, SendLoopAssumption DEF Reserve, BucketCap

LEMMA GapIsNat ==
  /\ Gap \in Nat
  /\ 0 * Gap = 0
  /\ 1 * Gap = Gap
<1>1. Gap \in Nat BY Numbers DEF Gap
<1> QED BY <1>1

LEMMA DueIsNat ==
  ASSUME NEW k \in Nat
  PROVE  k * Interval \in Nat
<1>1. Interval \in Nat BY SendLoopAssumption
<1> QED BY <1>1

\* The next slot, seen from the latest request that arrived.
LEMMA SlotFromLast ==
  ASSUME NEW u \in Nat, NEW s \in Nat, NEW n \in Nat, NEW d \in Nat, NEW g \in Nat,
         s <= u + g, n <= s + MaxPrepareTime, d <= n + 2 * Interval
  PROVE  d <= u + MaxPrepareTime + 2 * Interval + g
  BY Numbers

\* The loop starts with the invariant.
LEMMA Initially == Init => Invariant
<1> SUFFICES ASSUME Init PROVE Invariant OBVIOUS
<1>1. Due = 0 BY Numbers DEF Init, Due
<1>2. Typed
  <2>1. client \in Addrs BY SendLoopAssumption
  <2>2. sc \in SConnType BY <2>1, NewSconnType DEF Init
  <2> QED BY <1>1, <2>2, Numbers DEF Init, Typed
<1>3. Timing BY <1>1, Numbers DEF Init, Timing
<1>4. Counting BY DEF Init, Counting
<1>5. sc.lastUsed = NoTime /\ sc.bucket = BucketCap BY DEF Init, NewSconn
<1>6. Opening BY <1>5 DEF Opening
<1>7. Paying BY <1>5 DEF Paying
<1>8. Verdicts
  <2>1. Duration \div Interval \in Nat BY Numbers, DivInterval
  <2> QED BY <2>1 DEF Init, Verdicts, FitsBuffer, PCount
<1> QED BY <1>2, <1>3, <1>4, <1>6, <1>7, <1>8 DEF Invariant

-----------------------------------------------------------------------------
(* Sleep and Prepare *)

LEMMA SleepKeeps == Invariant /\ Sleep => Invariant'
<1> SUFFICES ASSUME Invariant, Sleep PROVE Invariant' OBVIOUS
<1> USE Numbers
<1>1. Due' = Due /\ Due \in Nat BY DueIsNat DEF Invariant, Typed, Sleep, Due
<1>2. /\ now \in Nat /\ now' \in Int /\ now' >= now
      /\ Due - MaxEarly <= now' /\ now' <= Due + MaxLate
      /\ pc = "sleep" /\ pc' = "send"
  BY <1>1 DEF Invariant, Typed, Sleep, Due
<1>3. Typed' BY <1>1, <1>2 DEF Invariant, Typed, Sleep
<1>4. Timing' BY <1>1, <1>2 DEF Timing
<1>5. Counting' BY <1>2 DEF Invariant, Counting, Sleep
<1>6. Opening'
  <2>1. sc' = sc /\ lost' = lost BY DEF Sleep
  <2>2. sc.lastUsed # NoTime => sc.lastUsed \in Nat BY DEF Invariant, Typed, SConnType
  <2> QED BY <1>1, <1>2, <2>1, <2>2 DEF Invariant, Opening
<1>7. Calm => Paying' BY <1>1, <1>2 DEF Invariant, Paying, Sleep
<1>8. Verdicts' BY DEF Invariant, Verdicts, FitsBuffer, Sleep, Calm
<1> QED BY <1>3, <1>4, <1>5, <1>6, <1>7, <1>8 DEF Invariant, Calm

LEMMA PrepareKeeps == Invariant /\ Prepare => Invariant'
<1> SUFFICES ASSUME Invariant, Prepare PROVE Invariant' OBVIOUS
<1> USE Numbers
<1>0. /\ now \in Nat /\ slot \in Nat /\ tsent \in Nat /\ Due \in Nat /\ count \in Nat
      /\ pc = "prepare" /\ now = tsent /\ Due - MaxEarly <= tsent
      /\ UNCHANGED <<tsent, count, sc, lost, verdict>>
  BY DueIsNat DEF Invariant, Typed, Timing, Prepare, Due
<1>1. now' \in Nat /\ now <= now' /\ now' <= now + MaxPrepareTime
  BY <1>0 DEF Prepare
<1>2. sc.lastUsed # NoTime => sc.lastUsed \in Nat
  BY DEF Invariant, Typed, SConnType
<1>3. lost \in {0, 1} BY DEF Invariant, Typed
<1>4. CASE pc' = "done" /\ slot' = slot
  <2>1. Due' = Due BY <1>4 DEF Due
  <2>2. Typed' BY <1>0, <1>1, <1>4, <2>1 DEF Invariant, Typed
  <2>3. Timing' BY <1>4 DEF Timing
  <2>4. Counting' BY <1>0, <1>4 DEF Invariant, Counting
  <2>5. Opening' BY <1>0, <1>1, <1>2, <1>4 DEF Invariant, Opening
  <2>6. Calm => Paying' BY <1>0, <1>4 DEF Invariant, Paying
  <2>7. Verdicts' BY <1>0 DEF Invariant, Verdicts, FitsBuffer, Calm
  <2> QED BY <2>2, <2>3, <2>4, <2>5, <2>6, <2>7 DEF Invariant, Calm
<1>5. CASE pc' = "sleep" /\ slot' = NextSlot(now') /\ NextSlot(now') * Interval < Duration
  <2>1. /\ slot' \in Nat /\ slot < slot' /\ now' < Due' /\ Due' <= now' + 2 * Interval
        /\ Due' < Duration
    BY <1>0, <1>1, <1>5, NextSlotLater DEF Due
  <2>2. Due' \in Nat BY <2>1, DueIsNat DEF Due
  <2>3. Due + Interval <= Due'
    <3>1. slot \in Int /\ slot' \in Int /\ slot < slot' BY <1>0, <2>1
    <3>2. slot * Interval + Interval <= slot' * Interval BY ONLY <3>1, Multiples
    <3> QED BY <3>2 DEF Due
  <2>4. Typed' BY <1>0, <1>1, <1>5, <2>1 DEF Invariant, Typed
  <2>5. Timing' BY <1>5, <2>1 DEF Timing
  <2>6. Counting' BY <1>0, <1>5, <2>1 DEF Invariant, Counting
  <2>7. Opening'
    <3>1. lost * Gap \in Nat /\ lost' * Gap = lost * Gap BY <1>0, <1>3, GapIsNat
    <3> SUFFICES ASSUME sc.lastUsed # NoTime
                 PROVE  /\ sc.lastUsed <= now' + MaxJitter
                        /\ Due' <= sc.lastUsed + MaxPrepareTime + 2 * Interval + lost * Gap
      BY <1>0, <1>5, <3>1 DEF Opening
    <3>2. /\ sc.lastUsed \in Nat /\ sc.lastUsed <= now + MaxJitter
          /\ tsent <= sc.lastUsed + lost * Gap
      BY <1>0, <1>2 DEF Invariant, Opening
    <3>3. PICK g \in Nat : g = lost * Gap BY <3>1
    <3>4. tsent <= sc.lastUsed + g BY <3>2, <3>3
    <3>5. Due' <= sc.lastUsed + MaxPrepareTime + 2 * Interval + g
      <4>1. /\ sc.lastUsed \in Nat /\ tsent \in Nat /\ now' \in Nat /\ now' <= tsent + MaxPrepareTime
            /\ Due' \in Nat /\ Due' <= now' + 2 * Interval
            /\ Interval \in Nat /\ MaxPrepareTime \in Nat
        BY <1>0, <1>1, <2>1, <2>2, <3>2
      <4>2. g \in Nat BY <3>3
      <4> QED BY <4>1, <4>2, <3>4, SlotFromLast
    <3> QED BY <1>0, <1>1, <3>2, <3>3, <3>5
  <2>8. Calm => Paying'
    <3>1. sc.bucket \in Nat BY DEF Invariant, Typed, SConnType
    <3>2. sc.lastUsed # NoTime => sc.lastUsed < Due' + MaxJitter
      BY <1>0, <1>1, <1>2, <2>1, <2>2 DEF Invariant, Opening
    <3> QED BY <3>1, <3>2, <1>0, <1>2, <1>5, <2>2, <2>3 DEF Invariant, Paying
  <2>9. Verdicts' BY <1>0 DEF Invariant, Verdicts, FitsBuffer, Calm
  <2> QED BY <2>4, <2>5, <2>6, <2>7, <2>8, <2>9 DEF Invariant, Calm
<1> QED BY <1>4, <1>5 DEF Prepare

-----------------------------------------------------------------------------
(* What the server makes of a request that arrives at time t *)

LEMMA NotExpired ==
  ASSUME Invariant, pc = "send", NEW t \in Nat,
         t <= Due + MaxLate + MaxSendTime + MaxJitter
  PROVE  ~Expired(sc, t)
<1>1. sc.lastUsed \in Nat \cup {NoTime} BY DEF Invariant, Typed, SConnType
<1> SUFFICES ASSUME Timeout # 0, sc.lastUsed # NoTime
             PROVE  ~(t - sc.lastUsed > Timeout + TimeoutGrace)
  BY DEF Expired
<1>2. sc.lastUsed \in Nat /\ Due \in Nat
  BY <1>1, DueIsNat DEF Invariant, Typed, Due
<1>3. lost * Gap <= Gap /\ lost * Gap \in Nat
  BY GapIsNat, Numbers DEF Invariant, Typed
<1>4. Due <= sc.lastUsed + MaxPrepareTime + 2 * Interval + Gap
  <2>1. Due <= sc.lastUsed + MaxPrepareTime + 2 * Interval + lost * Gap
    BY DEF Invariant, Opening
  <2>2. PICK g \in Nat : g = lost * Gap BY <1>3
  <2>3. g \in Nat /\ g <= Gap BY <1>3, <2>2
  <2>4. Due <= sc.lastUsed + MaxPrepareTime + 2 * Interval + g BY <2>1, <2>2
  <2> QED BY <2>3, <2>4, <1>2, GapIsNat, Numbers
<1>5. /\ Timeout \in Nat /\ TimeoutGrace \in Nat /\ 4 * Interval <= Timeout
      /\ 2 * (MaxSendTime + MaxPrepareTime + MaxLate) + MaxJitter <= TimeoutGrace
  BY SConnAssumption, SendLoopAssumption
<1> QED BY <1>2, <1>4, <1>5, Numbers DEF Gap

LEMMA NotExceeded ==
  ASSUME Invariant, pc = "send", NEW t \in Nat,
         t <= Due + MaxLate + MaxSendTime + MaxJitter
  PROVE  ~ExceededDuration(sc, t)
<1> SUFFICES ASSUME MaxDuration > 0
             PROVE  ~(t - FirstUsed(sc, t) > MaxDuration + MaxDurationGrace)
  BY DEF ExceededDuration
<1>1. FirstUsed(sc, t) \in Nat
  <2>1. sc.firstUsed \in Nat \cup {NoTime} BY DEF Invariant, Typed, SConnType
  <2> QED BY <2>1 DEF FirstUsed
<1>2. Due \in Nat /\ Due < Duration
  BY DueIsNat DEF Invariant, Typed, Due
<1>3. /\ MaxDuration \in Nat /\ MaxDurationGrace \in Nat /\ Duration <= MaxDuration
      /\ MaxSendTime + MaxLate + MaxJitter <= MaxDurationGrace
  BY SConnAssumption, SendLoopAssumption
<1> QED BY <1>1, <1>2, <1>3, Numbers

LEMMA Affordable ==
  ASSUME Invariant, pc = "send", Calm, NEW t \in Nat,
         sc.lastUsed # NoTime => sc.lastUsed <= t,
         Due - MaxEarly <= t
  PROVE  /\ Refill(sc, t) >= MinInterval
         /\ \/ Refill(sc, t) - MinInterval >= Reserve + MinInterval
            \/ Refill(sc, t) - MinInterval >= Reserve + t - Due - MaxJitter
<1>0. MinInterval > 0 /\ Reserve >= MaxEarly + MaxJitter BY DEF Calm
<1>1. sc.bucket \in Nat /\ sc.lastUsed \in Nat \cup {NoTime} /\ Due \in Nat
  BY DueIsNat DEF Invariant, Typed, SConnType, Due
<1>2. CASE sc.lastUsed = NoTime
  <2>1. Refill(sc, t) = BucketCap BY <1>2 DEF Refill, Invariant, Paying
  <2> QED BY <2>1, <1>0, Numbers
<1>3. CASE sc.lastUsed # NoTime
  <2>1. sc.bucket >= Reserve + MinInterval + sc.lastUsed - Due - MaxJitter
    BY <1>3 DEF Invariant, Paying
  <2>2. \/ Refill(sc, t) = BucketCap
        \/ Refill(sc, t) = sc.bucket + (t - sc.lastUsed)
    BY <1>0, <1>3 DEF Refill
  <2>3. CASE Refill(sc, t) = BucketCap BY <2>3, <1>0, Numbers
  <2>4. CASE Refill(sc, t) = sc.bucket + (t - sc.lastUsed)
    <3>1. sc.lastUsed \in Nat BY <1>1, <1>3
    <3>2. Refill(sc, t) >= Reserve + MinInterval + t - Due - MaxJitter
      BY <2>1, <2>4, <3>1, <1>1, Numbers
    <3>3. Refill(sc, t) \in Int BY <2>4, <3>1, <1>1
    <3> QED BY <3>2, <3>3, <1>0, <1>1, Numbers
  <2> QED BY <2>2, <2>3, <2>4
<1> QED BY <1>2, <1>3

-----------------------------------------------------------------------------
(* Send *)

\* When a packet sent at time n arrives, and when if it was sent for a slot due at e.
LEMMA ArrivalIsLater ==
  ASSUME NEW n \in Nat, NEW d \in 0 .. MaxJitter
  PROVE  n + d \in Nat /\ n <= n + d /\ n + d <= n + MaxJitter
  BY Numbers

LEMMA ArrivalFromDue ==
  ASSUME NEW e \in Nat, NEW n \in Nat, NEW t \in Nat,
         e - MaxEarly <= n, n <= e + MaxLate + MaxSendTime,
         n <= t, t <= n + MaxJitter
  PROVE  e - MaxEarly <= t /\ t <= e + MaxLate + MaxSendTime + MaxJitter
  BY Numbers

\* What every send call does, whatever becomes of the packet.
Sent ==
    /\ pc = "send" /\ pc' = "prepare"
    /\ now' \in Nat /\ now <= now' /\ now' <= now + MaxSendTime /\ tsent' = now'
    /\ count' = count + 1
    /\ slot' = slot /\ Due' = Due

LEMMA SendIsSent == Invariant /\ Send => Sent
<1> SUFFICES ASSUME Invariant, Send PROVE Sent OBVIOUS
<1>1. now \in Nat BY DEF Invariant, Typed
<1>2. PICK d \in 0 .. MaxSendTime : now' = now + d BY DEF Send
<1>3. now' \in Nat /\ now <= now' /\ now' <= now + MaxSendTime
  BY <1>1, <1>2, Numbers
<1>4. slot' = slot BY DEF Send
<1>5. Due' = Due BY <1>4 DEF Due
<1> QED BY <1>3, <1>4, <1>5 DEF Send, Sent

LEMMA SentKeeps ==
  ASSUME Invariant, Sent
  PROVE  /\ Timing'
         /\ Counting'
         /\ FitsBuffer'
         /\ Due \in Nat
         /\ Due - MaxEarly <= now' /\ now' <= Due + MaxLate + MaxSendTime
<1>1. now \in Nat /\ count \in Nat /\ slot \in Nat /\ Due \in Nat /\ Due < Duration
  BY DueIsNat DEF Invariant, Typed, Due
<1>2. Due - MaxEarly <= now' /\ now' <= Due + MaxLate + MaxSendTime
  BY <1>1, Numbers DEF Sent, Invariant, Timing
<1>3. Timing' BY <1>2 DEF Sent, Timing
<1>4. Counting' /\ count' <= slot + 1 BY <1>1 DEF Sent, Invariant, Counting
<1>5. FitsBuffer'
  <2>1. slot <= Duration \div Interval BY <1>1, SlotFits DEF Due
  <2>2. Duration \div Interval \in Nat BY Numbers, DivInterval
  <2>3. count' \in Nat BY <1>1 DEF Sent
  <2> QED BY <1>1, <1>4, <2>1, <2>2, <2>3 DEF FitsBuffer, PCount
<1> QED BY <1>1, <1>2, <1>3, <1>4, <1>5

LEMMA LoseKeeps == Invariant /\ Sent /\ Lose => Invariant'
<1> SUFFICES ASSUME Invariant, Sent, Lose PROVE Invariant' OBVIOUS
<1>1. lost = 0 /\ lost' = 1 /\ MaxLost = 1 BY Numbers DEF Lose, Invariant, Typed
<1>2. sc' = sc /\ verdict' = "none" BY DEF Lose
<1>3. /\ now \in Nat /\ now' \in Nat /\ now <= now' /\ tsent' = now' /\ count \in Nat
      /\ sc.bucket \in Nat /\ sc.lastUsed \in Nat \cup {NoTime}
  BY DEF Invariant, Typed, SConnType, Sent
<1>4. Typed' BY <1>1, <1>2, <1>3 DEF Invariant, Typed, Sent
<1>5. Opening'
  <2> SUFFICES ASSUME sc.lastUsed # NoTime
               PROVE  /\ sc.lastUsed <= now' + MaxJitter
                      /\ now' <= sc.lastUsed + Gap
    BY <1>1, <1>2, <1>3, GapIsNat DEF Opening, Sent
  <2>1. sc.lastUsed <= now + MaxJitter BY DEF Invariant, Opening
  <2>2. Due <= sc.lastUsed + MaxPrepareTime + 2 * Interval
    BY <1>1, <1>3, GapIsNat, Numbers DEF Invariant, Opening, Sent
  <2> QED BY <1>3, <2>1, <2>2, SentKeeps, Numbers DEF Gap
<1>6. Calm => Paying'
  BY <1>2, <1>3, SentKeeps, Numbers DEF Invariant, Paying, Sent
<1>7. Verdicts' BY <1>2, SentKeeps DEF Verdicts
<1> QED BY <1>4, <1>5, <1>6, <1>7, SentKeeps DEF Invariant, Calm

LEMMA ServeKeeps ==
  ASSUME Invariant, Sent, NEW t \in Nat, t >= sc.lastUsed,
         tsent' <= t, t <= tsent' + MaxJitter,
         Serve(t)
  PROVE  Invariant'
<1>1. /\ now' \in Nat /\ tsent' = now' /\ count \in Nat /\ pc = "send" /\ pc' = "prepare"
      /\ sc \in SConnType /\ sc.lastUsed \in Nat \cup {NoTime} /\ lost' = 0
  BY DEF Invariant, Typed, SConnType, Sent, Serve
<1>2. Due \in Nat /\ Due - MaxEarly <= t /\ t <= Due + MaxLate + MaxSendTime + MaxJitter
  <2>1. Due \in Nat /\ Due - MaxEarly <= now' /\ now' <= Due + MaxLate + MaxSendTime
    BY SentKeeps
  <2>2. now' \in Nat /\ now' <= t /\ t <= now' + MaxJitter BY <1>1
  <2> QED BY <2>1, <2>2, ArrivalFromDue
<1>3. ~Expired(sc, t) /\ ~ExceededDuration(sc, t)
  BY <1>1, <1>2, NotExpired, NotExceeded
<1>4. sc.lastUsed # NoTime => sc.lastUsed <= t OBVIOUS
<1>5. t # NoTime BY DEF NoTime
<1>6. /\ Refill(sc, t) \in Nat
      /\ Calm => ~ShortInterval(sc, t)
      /\ MinInterval = 0 => ~ShortInterval(sc, t)
  BY <1>1, <1>2, <1>4, RefillType, Affordable, Numbers DEF ShortInterval
<1>7. CASE verdict' = "dropped" /\ sc' = Throttled(sc, t) /\ ShortInterval(sc, t)
  <2>1. sc' \in SConnType BY <1>1, <1>4, <1>7, ThrottledType
  <2>2. sc'.lastUsed = t BY <1>1, <1>7 DEF Throttled, SConnType
  <2>3. Typed' BY <1>1, <1>7, <2>1, Numbers DEF Invariant, Typed, Sent
  <2>4. Opening' BY <1>1, <2>2, GapIsNat DEF Opening
  <2>5. Verdicts' BY <1>6, <1>7, SentKeeps DEF Verdicts, Calm
  <2> QED BY <1>6, <1>7, <2>3, <2>4, <2>5, SentKeeps DEF Invariant, Calm
<1>8. CASE verdict' = "served" /\ sc' = Received(sc, t, 0) /\ ~ShortInterval(sc, t)
  <2>0. 0 \in Seqno BY SConnAssumption DEF Seqno
  <2>1. sc' \in SConnType BY <1>1, <1>4, <1>8, <2>0, ReceivedType
  <2>2. sc'.lastUsed = t /\ sc'.bucket = Refill(sc, t) - MinInterval
    BY <1>1, <1>8 DEF Received, SConnType
  <2>3. Typed' BY <1>1, <1>8, <2>1, Numbers DEF Invariant, Typed, Sent
  <2>4. Opening' BY <1>1, <2>2, GapIsNat DEF Opening
  <2>5. Calm => Paying'
    BY <1>1, <1>2, <1>4, <1>5, <2>2, Affordable DEF Paying, Sent
  <2>6. Verdicts' BY <1>8, SentKeeps DEF Verdicts
  <2> QED BY <2>3, <2>4, <2>5, <2>6, SentKeeps DEF Invariant, Calm
<1> QED BY <1>3, <1>7, <1>8 DEF Serve

LEMMA SendKeeps == Invariant /\ Send => Invariant'
<1> SUFFICES ASSUME Invariant, Send PROVE Invariant' OBVIOUS
<1>1. Sent BY SendIsSent
<1>2. CASE Lose BY <1>1, <1>2, LoseKeeps
<1>3. ASSUME NEW d \in 0 .. MaxJitter, tsent' + d >= sc.lastUsed, Serve(tsent' + d)
      PROVE  Invariant'
  <2>1. tsent' \in Nat BY <1>1 DEF Sent
  <2>2. tsent' + d \in Nat /\ tsent' <= tsent' + d /\ tsent' + d <= tsent' + MaxJitter
    BY <2>1, ArrivalIsLater
  <2> QED BY <1>1, <1>3, <2>2, ServeKeeps
<1> QED BY <1>2, <1>3 DEF Send

-----------------------------------------------------------------------------
(* The theorems *)

\* A step that changes nothing keeps the invariant.
LEMMA StutterKeeps == Invariant /\ UNCHANGED vars => Invariant'
<1> SUFFICES ASSUME Invariant, UNCHANGED vars PROVE Invariant' OBVIOUS
<1>1. UNCHANGED <<pc, now, tsent, slot, count, sc, lost, verdict>> BY DEF vars
<1>2. Due' = Due BY <1>1 DEF Due
<1>3. Typed' BY <1>1, <1>2 DEF Invariant, Typed
<1>4. Timing' /\ Counting' BY <1>1, <1>2 DEF Invariant, Timing, Counting
<1>5. Opening' BY <1>1, <1>2 DEF Invariant, Opening
<1>6. Calm => Paying' BY <1>1, <1>2 DEF Invariant, Paying
<1>7. Verdicts' BY <1>1 DEF Invariant, Verdicts, FitsBuffer, Calm
<1> QED BY <1>3, <1>4, <1>5, <1>6, <1>7 DEF Invariant, Calm

LEMMA InvariantHolds == Spec => []Invariant
<1>1. Invariant /\ [Next]_vars => Invariant'
  BY SendKeeps, PrepareKeeps, SleepKeeps, StutterKeeps DEF Next
<1> QED BY Initially, <1>1, PTL DEF Spec

(* The state keeps its types, and the loop never leaves the slots of the test. *)
THEOREM TypeCorrect == Spec => []TypeOK
<1>1. Invariant => TypeOK
  <2> SUFFICES ASSUME Invariant PROVE TypeOK OBVIOUS
  <2>1. slot \in 0 .. (Duration - 1) \div Interval
    BY SlotFits DEF Invariant, Typed, Due
  <2> QED BY <2>1 DEF Invariant, Typed, TypeOK
<1> QED BY InvariantHolds, <1>1, PTL

(* Client.send never sends more packets than newRecorder made room for. *)
THEOREM BufferFits == Spec => []FitsBuffer
<1>1. Invariant => FitsBuffer BY DEF Invariant, Verdicts
<1> QED BY InvariantHolds, <1>1, PTL

(* serveEcho never drops a client that paces itself, under the margin the bucket has. *)
THEOREM PacedIsServed == Spec => []PacedServed
<1>1. Invariant => PacedServed BY Numbers DEF Invariant, Verdicts, PacedServed, Calm, Reserve
<1> QED BY InvariantHolds, <1>1, PTL

(* One lost request and the loop's longest sleeps around it fit in the timeout. *)
THEOREM StaysConnected == Spec => []StaysOpen
<1>1. Invariant => StaysOpen BY DEF Invariant, Verdicts, StaysOpen
<1> QED BY InvariantHolds, <1>1, PTL

(* No packet of a test comes after the grace of its duration. *)
THEOREM NeverCutOff == Spec => []NotCutOff
<1>1. Invariant => NotCutOff BY DEF Invariant, Verdicts, NotCutOff
<1> QED BY InvariantHolds, <1>1, PTL

-----------------------------------------------------------------------------
(* Sums: SumFunctionOnSet of the community modules, over the values of a window *)

\* A sum of values is the fold of the community modules, written out.
LEMMA SumIsFold ==
  ASSUME NEW fun, NEW S
  PROVE  SumFunctionOnSet(fun, S) =
           (CHOOSE iter : iter = [s \in SUBSET S |->
              IF s = {} THEN 0
              ELSE fun[CHOOSE x \in s : TRUE] + iter[s \ {CHOOSE x \in s : TRUE}]])[S]
  BY DEF SumFunctionOnSet, FoldFunctionOnSet, MapThenFoldSet

(* A sum lies between as many times the least and the greatest of its values.  The
   recursive function that folds them is CHOSEN: first there is one, as those for the
   sets of k values make one for the sets of k + 1, and then it keeps the bounds.      *)
LEMMA SumBounds ==
  ASSUME NEW S, IsFiniteSet(S), NEW fun, NEW lo \in Nat, NEW hi \in Nat,
         \A i \in S : fun[i] \in Nat /\ lo <= fun[i] /\ fun[i] <= hi
  PROVE  /\ SumFunctionOnSet(fun, S) \in Nat
         /\ Cardinality(S) * lo <= SumFunctionOnSet(fun, S)
         /\ SumFunctionOnSet(fun, S) <= Cardinality(S) * hi
<1> DEFINE c(s) == CHOOSE x \in s : TRUE
           Step(f) == [s \in SUBSET S |-> IF s = {} THEN 0 ELSE fun[c(s)] + f[s \ {c(s)}]]
           Upto(k) == {s \in SUBSET S : Cardinality(s) <= k}
           Agrees(f, k) == /\ f = [s \in SUBSET S |-> f[s]]
                           /\ \A s \in Upto(k) : f[s] = Step(f)[s]
           Solved == {k \in Nat : \E f : Agrees(f, k)}
           n == Cardinality(S)
           sum == CHOOSE f : f = Step(f)
<1>0. n \in Nat BY FS_CardinalityType
<1>1. \A s \in SUBSET S : /\ Cardinality(s) \in Nat
                          /\ Cardinality(s) <= n
                          /\ s = {} => Cardinality(s) = 0
                          /\ Cardinality(s) = 0 => s = {}
                          /\ s # {} => /\ c(s) \in s
                                       /\ s \ {c(s)} \in SUBSET S
                                       /\ Cardinality(s \ {c(s)}) = Cardinality(s) - 1
  <2> SUFFICES ASSUME NEW s \in SUBSET S
               PROVE  /\ Cardinality(s) \in Nat
                      /\ Cardinality(s) <= n
                      /\ s = {} => Cardinality(s) = 0
                      /\ Cardinality(s) = 0 => s = {}
                      /\ s # {} => /\ c(s) \in s
                                   /\ s \ {c(s)} \in SUBSET S
                                   /\ Cardinality(s \ {c(s)}) = Cardinality(s) - 1
    OBVIOUS
  <2>1. IsFiniteSet(s) /\ Cardinality(s) \in Nat /\ Cardinality(s) <= n
    BY FS_Subset, FS_CardinalityType
  <2>2. Cardinality(s) = 0 <=> s = {}
    BY <2>1, FS_EmptySet
  <2>3. s # {} => c(s) \in s
    OBVIOUS
  <2>4. s # {} => Cardinality(s \ {c(s)}) = Cardinality(s) - 1
    BY <2>1, <2>3, FS_RemoveElement
  <2> QED BY <2>1, <2>2, <2>3, <2>4
<1> HIDE DEF c, n
<1>2. 0 \in Solved
  <2> DEFINE f == [s \in SUBSET S |-> 0]
  <2>1. \A s \in Upto(0) : s = {}
    <3> SUFFICES ASSUME NEW s \in SUBSET S, Cardinality(s) <= 0 PROVE s = {}
      OBVIOUS
    <3>1. Cardinality(s) \in Nat /\ (Cardinality(s) = 0 => s = {})
      BY <1>1
    <3> QED BY <3>1
  <2>2. Agrees(f, 0)
    BY <2>1
  <2> QED BY <2>2
<1>3. \A k \in Nat : k < n /\ k \in Solved => k + 1 \in Solved
  <2> SUFFICES ASSUME NEW k \in Nat, k \in Solved PROVE k + 1 \in Solved
    OBVIOUS
  <2>1. PICK f : Agrees(f, k)
    OBVIOUS
  <2> DEFINE g == Step(f)
  <2>2. \A s \in Upto(k) : g[s] = f[s]
    BY <2>1
  <2>3. \A s \in Upto(k + 1) : g[s] = Step(g)[s]
    <3> SUFFICES ASSUME NEW s \in SUBSET S, Cardinality(s) <= k + 1
                 PROVE  g[s] = Step(g)[s]
      OBVIOUS
    <3>1. CASE s = {}
      BY <3>1
    <3>2. CASE s # {}
      <4>1. s \ {c(s)} \in Upto(k)
        BY <1>1, <3>2
      <4>2. g[s \ {c(s)}] = f[s \ {c(s)}]
        BY <2>2, <4>1
      <4>3. g[s] = fun[c(s)] + f[s \ {c(s)}]
        BY <3>2
      <4>4. Step(g)[s] = fun[c(s)] + g[s \ {c(s)}]
        BY <3>2
      <4> QED BY <4>2, <4>3, <4>4
    <3> QED BY <3>1, <3>2
  <2>4. Agrees(g, k + 1)
    BY <2>3
  <2>5. k + 1 \in Nat
    OBVIOUS
  <2> QED BY <2>4, <2>5
<1>4. n \in Solved
  <2> HIDE DEF Solved
  <2> QED BY <1>0, <1>2, <1>3, UpTo
<1>5. sum = Step(sum)
  <2>1. PICK f : Agrees(f, n)
    BY <1>4
  <2>2. Upto(n) = SUBSET S
    BY <1>1
  <2>3. f = Step(f)
    <3>1. f = [s \in SUBSET S |-> f[s]] /\ \A s \in SUBSET S : f[s] = Step(f)[s]
      BY <2>1, <2>2
    <3>2. Step(f) = [s \in SUBSET S |-> Step(f)[s]]
      OBVIOUS
    <3> HIDE DEF Step
    <3> QED BY <3>1, <3>2
  <2> HIDE DEF Step
  <2> QED BY <2>3
<1> DEFINE Within == {k \in Nat : \A s \in Upto(k) :
                        /\ sum[s] \in Nat
                        /\ Cardinality(s) * lo <= sum[s]
                        /\ sum[s] <= Cardinality(s) * hi}
<1>6. \A s \in SUBSET S : sum[s] = IF s = {} THEN 0 ELSE fun[c(s)] + sum[s \ {c(s)}]
  <2> DEFINE f == sum
  <2>1. f = Step(f)
    BY <1>5
  <2> HIDE DEF f
  <2>2. \A s \in SUBSET S : f[s] = IF s = {} THEN 0 ELSE fun[c(s)] + f[s \ {c(s)}]
    BY <2>1
  <2> QED BY <2>2 DEF f
<1> HIDE DEF sum
<1>7. 0 \in Within
  <2> SUFFICES ASSUME NEW s \in SUBSET S, Cardinality(s) <= 0
               PROVE  /\ sum[s] \in Nat
                      /\ Cardinality(s) * lo <= sum[s]
                      /\ sum[s] <= Cardinality(s) * hi
    OBVIOUS
  <2>1. Cardinality(s) = 0 /\ s = {}
    <3>1. Cardinality(s) \in Nat /\ (Cardinality(s) = 0 => s = {})
      BY <1>1
    <3> QED BY <3>1
  <2>2. sum[s] = 0
    BY <1>6, <2>1
  <2> QED BY <2>1, <2>2
<1>8. \A k \in Nat : k < n /\ k \in Within => k + 1 \in Within
  <2> SUFFICES ASSUME NEW k \in Nat, k \in Within,
                      NEW s \in SUBSET S, Cardinality(s) <= k + 1
               PROVE  /\ sum[s] \in Nat
                      /\ Cardinality(s) * lo <= sum[s]
                      /\ sum[s] <= Cardinality(s) * hi
    OBVIOUS
  <2>1. CASE s = {}
    <3>1. Cardinality(s) = 0 /\ sum[s] = 0
      BY <1>1, <1>6, <2>1
    <3> QED BY <3>1
  <2>2. CASE s # {}
    <3> DEFINE r == s \ {c(s)}
               m == Cardinality(r)
    <3>1. /\ Cardinality(s) \in Nat /\ m = Cardinality(s) - 1 /\ m \in Nat
          /\ r \in Upto(k) /\ c(s) \in S
      BY <1>1, <2>2
    <3>2. sum[r] \in Nat /\ m * lo <= sum[r] /\ sum[r] <= m * hi
      BY <3>1
    <3>3. sum[s] = fun[c(s)] + sum[r]
      BY <1>6, <2>2
    <3>4. fun[c(s)] \in Nat /\ lo <= fun[c(s)] /\ fun[c(s)] <= hi
      BY <3>1
    <3> HIDE DEF r, m
    <3>5. Cardinality(s) = m + 1
      BY <3>1
    <3>6. (m + 1) * lo = m * lo + lo /\ (m + 1) * hi = m * hi + hi
          /\ m * lo \in Nat /\ m * hi \in Nat
      BY <3>1
    <3> QED BY <3>2, <3>3, <3>4, <3>5, <3>6
  <2> QED BY <2>1, <2>2
<1>9. n \in Within
  <2> HIDE DEF Within
  <2> QED BY <1>0, <1>7, <1>8, UpTo
<1>10. S \in Upto(n)
  BY <1>0 DEF n
<1>11. sum[S] \in Nat /\ n * lo <= sum[S] /\ sum[S] <= n * hi
  BY <1>9, <1>10 DEF n
<1>12. SumFunctionOnSet(fun, S) = sum[S]
  BY SumIsFold DEF sum, c
<1> QED BY <1>11, <1>12 DEF n

-----------------------------------------------------------------------------
(* Error factors and their averages *)

\* Division with a remainder, without the remainder.
LEMMA Quotient ==
  ASSUME NEW a \in Nat, NEW b \in Nat, b > 0
  PROVE  /\ a \div b \in Nat
         /\ (a \div b) * b <= a
         /\ a < (a \div b) * b + b
<1>1. a \div b \in Int /\ a % b \in Int OBVIOUS
<1>2. a \div b \in Nat /\ a = (a \div b) * b + (a % b) /\ a % b \in 0 .. b - 1
  BY <1>1, DivMod
<1> DEFINE q == a \div b
           r == a % b
           p == q * b
<1>3. q \in Nat /\ p \in Int /\ a = p + r /\ r \in 0 .. b - 1 BY <1>2
<1> HIDE DEF p, q, r
<1>4. p <= a /\ a < p + b BY <1>3
<1> QED BY <1>3, <1>4 DEF p, q

\* A common factor can be dropped from an inequality.
LEMMA Cancel ==
  ASSUME NEW x \in Int, NEW y \in Int, NEW b \in Nat, b > 0, x * b < y * b + b
  PROVE  x <= y
<1> SUFFICES ASSUME y < x PROVE FALSE OBVIOUS
<1>1. (x - y - 1) * b >= 0 OBVIOUS
<1>2. (x - y - 1) * b = x * b - y * b - b OBVIOUS
<1>3. x * b \in Int /\ y * b \in Int OBVIOUS
<1> QED BY <1>1, <1>2, <1>3

\* The largest error factor a sleep can have whose latency is within its share.
Slowest == ((LatencyShare + 1) * Scale) \div LatencyShare

Factors == Scale .. Slowest

\* LatencyShare times the largest factor, rounding included.
LEMMA SlowestIs ==
  /\ LatencyShare \in Nat /\ LatencyShare > 0 /\ Scale \in Nat /\ Scale > 0
  /\ Slowest \in Nat
  /\ LatencyShare * Slowest <= (LatencyShare + 1) * Scale
  /\ (LatencyShare + 1) * Scale < LatencyShare * Slowest + LatencyShare
<1>1. LatencyShare \in Nat /\ LatencyShare > 0 /\ Scale \in Nat /\ Scale > 0
  BY TimedLoopAssumption
<1>2. (LatencyShare + 1) * Scale \in Nat BY <1>1
<1>3. /\ Slowest \in Nat
      /\ Slowest * LatencyShare <= (LatencyShare + 1) * Scale
      /\ (LatencyShare + 1) * Scale < Slowest * LatencyShare + LatencyShare
  BY <1>1, <1>2, Quotient DEF Slowest
<1>4. Slowest * LatencyShare = LatencyShare * Slowest BY <1>1, <1>3
<1> QED BY <1>1, <1>3, <1>4

(* What a compensated sleep teaches: a factor of at least 1, as no sleep ends early, and
   at most what its latency's share allows.                                           *)
LEMMA ErrorFactorWithin ==
  ASSUME NEW asked \in Nat, asked > 0, NEW late \in Nat, LatencyShare * late <= asked
  PROVE  ErrorFactor(asked + late, asked) \in Factors
<1> DEFINE e == ((asked + late) * Scale) \div asked
<1>0. LatencyShare \in Nat /\ LatencyShare > 0 /\ Scale \in Nat /\ Scale > 0 /\ Slowest \in Nat
  BY SlowestIs
<1>1. (asked + late) * Scale \in Nat BY <1>0
<1>2. e \in Nat /\ e * asked <= (asked + late) * Scale /\ (asked + late) * Scale < e * asked + asked
  BY <1>1, Quotient
<1> HIDE DEF e
<1>3. Scale <= e
  <2>1. Scale * asked <= (asked + late) * Scale
    <3>1. (asked + late) * Scale = Scale * asked + late * Scale BY <1>0
    <3>2. late * Scale >= 0 /\ Scale * asked \in Int BY <1>0
    <3> QED BY <3>1, <3>2, <1>0
  <2>2. Scale * asked < e * asked + asked BY <2>1, <1>0, <1>1, <1>2
  <2> QED BY <2>2, <1>0, <1>2, Cancel
<1>4. e <= Slowest
  <2>1. LatencyShare * e <= (LatencyShare + 1) * Scale
    <3>1. (LatencyShare * e) * asked = LatencyShare * (e * asked) BY <1>0, <1>2
    <3>2. LatencyShare * (e * asked) <= LatencyShare * ((asked + late) * Scale)
      <4> DEFINE x == e * asked
                 y == (asked + late) * Scale
      <4>1. x \in Int /\ y \in Int /\ x <= y BY <1>0, <1>1, <1>2
      <4> HIDE DEF x, y
      <4>2. LatencyShare * x <= LatencyShare * y
        <5>1. LatencyShare * (y - x) >= 0 BY <4>1, <1>0
        <5>2. LatencyShare * (y - x) = LatencyShare * y - LatencyShare * x BY <4>1, <1>0
        <5>3. LatencyShare * y \in Int /\ LatencyShare * x \in Int BY <4>1, <1>0
        <5> QED BY <5>1, <5>2, <5>3
      <4> QED BY <4>2 DEF x, y
    <3>3. LatencyShare * ((asked + late) * Scale) = (LatencyShare * asked + LatencyShare * late) * Scale
      BY <1>0
    <3>4. (LatencyShare * asked + LatencyShare * late) * Scale <= (LatencyShare * asked + asked) * Scale
      <4> DEFINE x == asked - LatencyShare * late
      <4>1. x \in Nat BY <1>0
      <4> HIDE DEF x
      <4>2. x * Scale >= 0 BY <4>1, <1>0
      <4>3. (asked - LatencyShare * late) * Scale
              = (LatencyShare * asked + asked) * Scale
                - (LatencyShare * asked + LatencyShare * late) * Scale
        BY <1>0
      <4>4. /\ (LatencyShare * asked + asked) * Scale \in Int
            /\ (LatencyShare * asked + LatencyShare * late) * Scale \in Int
        BY <1>0
      <4> QED BY <4>2, <4>3, <4>4 DEF x
    <3>5. (LatencyShare * asked + asked) * Scale = ((LatencyShare + 1) * Scale) * asked
      BY <1>0
    <3> DEFINE u == LatencyShare * e
               w == (LatencyShare + 1) * Scale
    <3>6. u \in Int /\ w \in Int /\ u * asked <= w * asked
      <4>1. u \in Int /\ w \in Int BY <1>0, <1>2
      <4>2. /\ (LatencyShare * e) * asked \in Int
            /\ LatencyShare * ((asked + late) * Scale) \in Int
            /\ (LatencyShare * asked + asked) * Scale \in Int
        BY <1>0, <1>2
      <4> QED BY <4>1, <4>2, <3>1, <3>2, <3>3, <3>4, <3>5
    <3> HIDE DEF u, w
    <3>7. u * asked < w * asked + asked BY <3>6
    <3>8. u <= w BY <3>6, <3>7, Cancel
    <3> QED BY <3>8 DEF u, w
  <2>2. LatencyShare * e < LatencyShare * Slowest + LatencyShare
    <3>1. LatencyShare * e \in Int /\ (LatencyShare + 1) * Scale \in Int
          /\ LatencyShare * Slowest \in Int
      BY <1>0, <1>2
    <3> QED BY <2>1, <3>1, SlowestIs
  <2>3. e * LatencyShare < Slowest * LatencyShare + LatencyShare
    BY <2>2, <1>0, <1>2
  <2> QED BY <2>3, <1>0, <1>2, Cancel
<1> QED BY <1>0, <1>2, <1>3, <1>4 DEF ErrorFactor, Factors, e

\* The mean of some factors is one, and that of none is zero.
LEMMA MeanWithin ==
  ASSUME NEW n \in Nat, NEW sum \in Nat, n * Scale <= sum, sum <= n * Slowest
  PROVE  Mean(sum, n) \in {0} \cup Factors
<1>1. CASE n = 0 BY <1>1 DEF Mean
<1>2. CASE n > 0
  <2> DEFINE q == sum \div n
  <2>0. Scale \in Nat /\ Slowest \in Nat BY SlowestIs
  <2>1. q \in Nat /\ q * n <= sum /\ sum < q * n + n BY <1>2, Quotient
  <2> HIDE DEF q
  <2>2. Scale <= q
    <3>1. Scale * n < q * n + n
      <4>1. Scale * n = n * Scale /\ Scale * n \in Int /\ q * n \in Int BY <2>0, <2>1
      <4> QED BY <4>1, <2>1
    <3> QED BY <3>1, <2>0, <2>1, <1>2, Cancel
  <2>3. q <= Slowest
    <3>1. q * n < Slowest * n + n
      <4>1. Slowest * n = n * Slowest /\ Slowest * n \in Int /\ q * n \in Int BY <2>0, <2>1
      <4> QED BY <4>1, <2>1, <1>2
    <3> QED BY <3>1, <2>0, <2>1, <1>2, Cancel
  <2> QED BY <2>0, <2>1, <2>2, <2>3, <1>2 DEF Mean, Factors, q
<1> QED BY <1>1, <1>2

\* So is a weighted average of two.
LEMMA SmoothWithin ==
  ASSUME NEW val \in Factors, NEW old \in Factors
  PROVE  (Alpha * val + (100 - Alpha) * old) \div 100 \in Factors
<1>0. Scale \in Nat /\ Slowest \in Nat /\ Alpha \in 0 .. 100 BY SlowestIs, TimedLoopAssumption
<1>1. val \in Nat /\ old \in Nat /\ Scale <= val /\ val <= Slowest /\ Scale <= old /\ old <= Slowest
  BY <1>0 DEF Factors
<1> DEFINE b == 100 - Alpha
           s == Alpha * val + b * old
<1>2. b \in Nat /\ Alpha \in Nat /\ Alpha + b = 100 BY <1>0
<1> HIDE DEF b
<1>3. /\ Alpha * Scale <= Alpha * val /\ Alpha * val <= Alpha * Slowest
      /\ b * Scale <= b * old /\ b * old <= b * Slowest
  <2>1. \A x, y, z \in Nat : x <= y => z * x <= z * y
    <3> SUFFICES ASSUME NEW x \in Nat, NEW y \in Nat, NEW z \in Nat, x <= y
                 PROVE  z * x <= z * y
      OBVIOUS
    <3>1. z * (y - x) >= 0 /\ z * (y - x) = z * y - z * x /\ z * y \in Int /\ z * x \in Int OBVIOUS
    <3> QED BY <3>1
  <2> QED BY <2>1, <1>0, <1>1, <1>2
<1>4. /\ Alpha * Scale + b * Scale = 100 * Scale
      /\ Alpha * Slowest + b * Slowest = 100 * Slowest
  <2>1. \A x \in Nat : Alpha * x + b * x = (Alpha + b) * x BY <1>2
  <2> QED BY <2>1, <1>0, <1>2
<1>5. s \in Nat /\ 100 * Scale <= s /\ s <= 100 * Slowest
  <2>1. Alpha * val \in Nat /\ b * old \in Nat BY <1>1, <1>2
  <2>2. Alpha * Scale \in Nat /\ b * Scale \in Nat /\ Alpha * Slowest \in Nat /\ b * Slowest \in Nat
    BY <1>0, <1>2
  <2> QED BY <2>1, <2>2, <1>3, <1>4, <1>0
<1> HIDE DEF s
<1>6. Mean(s, 100) \in {0} \cup Factors BY <1>5, MeanWithin
<1>7. Mean(s, 100) = s \div 100 BY DEF Mean
<1>8. s \div 100 >= 1 BY <1>5, SlowestIs
<1> QED BY <1>6, <1>7, <1>8 DEF s, b

-----------------------------------------------------------------------------
(* The Averagers *)

(* What every Averager has been pushed is an error factor, and the sum, the average or
   the window it keeps shows it.                                                        *)
Averaging(kind, a) ==
    /\ a \in [sum : Nat, n : Nat, values : [0 .. Window - 1 -> Nat], pos : 0 .. Window - 1]
    /\ kind = "exp" => a.sum \in {0} \cup Factors
    /\ kind = "win" =>
         /\ a.n \in 0 .. Window
         /\ a.n < Window => a.pos = a.n
         /\ \A i \in 0 .. a.n - 1 : a.values[i] \in Factors
    /\ kind \notin {"exp", "win"} => a.n * Scale <= a.sum /\ a.sum <= a.n * Slowest

\* An Averager starts with nothing.
LEMMA NewAveraging ==
  ASSUME NEW kind
  PROVE  Averaging(kind, NewAverager)
<1>1. Window \in Nat /\ Window > 0 BY TimedLoopAssumption
<1>2. 0 * Scale = 0 /\ 0 * Slowest = 0 BY SlowestIs
<1> QED BY <1>1, <1>2 DEF Averaging, NewAverager

\* Factors are positive numbers.
LEMMA FactorIsNat == \A f \in Factors : f \in Nat /\ f > 0 /\ Scale <= f /\ f <= Slowest
  BY SlowestIs DEF Factors

\* Each kind of Averager keeps what Averaging says when it is pushed a factor.
LEMMA PushAverages ==
  ASSUME NEW kind, NEW a, Averaging(kind, a), NEW val \in Factors
  PROVE  Averaging(kind, Push(kind, a, val))
<1>0. Window \in Nat /\ Window > 0 BY TimedLoopAssumption
<1>1. val \in Nat /\ Scale <= val /\ val <= Slowest BY FactorIsNat
<1>2. a \in [sum : Nat, n : Nat, values : [0 .. Window - 1 -> Nat], pos : 0 .. Window - 1]
  BY DEF Averaging
<1>3. CASE kind = "win"
  <2> DEFINE b == PushWindow(a, val)
  <2>1. /\ b.sum = a.sum
        /\ b.values = [a.values EXCEPT ![a.pos] = val]
        /\ b.pos = IF a.pos + 1 = Window THEN 0 ELSE a.pos + 1
        /\ b.n = IF a.n < Window THEN a.n + 1 ELSE a.n
        /\ b = [sum |-> b.sum, n |-> b.n, values |-> b.values, pos |-> b.pos]
    <3> DEFINE v == [a.values EXCEPT ![a.pos] = val]
               i == IF a.pos + 1 = Window THEN 0 ELSE a.pos + 1
               c == IF a.n < Window THEN a.n + 1 ELSE a.n
    <3>1. b = [a EXCEPT !.values = v, !.pos = i, !.n = c] BY <1>2 DEF PushWindow
    <3>2. a = [sum |-> a.sum, n |-> a.n, values |-> a.values, pos |-> a.pos] BY <1>2
    <3> HIDE DEF v, i, c
    <3>3. b = [sum |-> a.sum, n |-> c, values |-> v, pos |-> i] BY <3>1, <3>2
    <3> HIDE DEF b
    <3> QED BY <3>3 DEF v, i, c
  <2> HIDE DEF b
  <2>2. /\ a.n \in 0 .. Window
        /\ a.n < Window => a.pos = a.n
        /\ \A i \in 0 .. a.n - 1 : a.values[i] \in Factors
    BY <1>3 DEF Averaging
  <2>3. b \in [sum : Nat, n : Nat, values : [0 .. Window - 1 -> Nat], pos : 0 .. Window - 1]
    <3>1. b.sum \in Nat /\ b.n \in Nat /\ b.pos \in 0 .. Window - 1
      BY <2>1, <2>2, <1>0, <1>2
    <3>2. b.values \in [0 .. Window - 1 -> Nat] BY <2>1, <1>1, <1>2
    <3> QED BY <3>1, <3>2, <2>1
  <2>4. b.n \in 0 .. Window /\ (b.n < Window => b.pos = b.n)
    BY <2>1, <2>2, <1>0, <1>2
  <2>5. \A i \in 0 .. b.n - 1 : b.values[i] \in Factors
    <3> SUFFICES ASSUME NEW i \in 0 .. b.n - 1 PROVE b.values[i] \in Factors
      OBVIOUS
    <3>1. i \in 0 .. Window - 1 /\ (i \in 0 .. a.n - 1 \/ i = a.pos)
      BY <2>1, <2>2, <2>4, <1>0, <1>2
    <3> QED BY <3>1, <2>1, <2>2, <1>2
  <2>6. Averaging(kind, b) BY <1>3, <2>3, <2>4, <2>5 DEF Averaging
  <2> QED BY <1>3, <2>6 DEF Push, b
<1>4. CASE kind = "exp"
  <2> DEFINE b == PushExponential(a, val)
             s == IF a.sum = 0 THEN val ELSE (Alpha * val + (100 - Alpha) * a.sum) \div 100
  <2>1. b = [a EXCEPT !.sum = s] BY <1>2 DEF PushExponential
  <2>2. s \in Factors
    <3>1. a.sum \in {0} \cup Factors BY <1>4 DEF Averaging
    <3>2. CASE a.sum = 0 BY <3>2
    <3>3. CASE a.sum # 0
      <4>1. a.sum \in Factors BY <3>1, <3>3
      <4> QED BY <4>1, <3>3, SmoothWithin
    <3> QED BY <3>2, <3>3
  <2> HIDE DEF s, b
  <2>3. s \in Nat BY <2>2, FactorIsNat
  <2>4. b \in [sum : Nat, n : Nat, values : [0 .. Window - 1 -> Nat], pos : 0 .. Window - 1]
        /\ b.sum = s
    BY <1>2, <2>1, <2>3
  <2>5. Averaging(kind, b) BY <1>4, <2>2, <2>4 DEF Averaging
  <2> QED BY <1>4, <2>5 DEF Push, b
<1>5. CASE kind \notin {"win", "exp"}
  <2> DEFINE b == PushCumulative(a, val)
  <2>1. /\ b \in [sum : Nat, n : Nat, values : [0 .. Window - 1 -> Nat], pos : 0 .. Window - 1]
        /\ b.sum = a.sum + val
        /\ b.n = a.n + 1
    <3>1. b = [a EXCEPT !.sum = a.sum + val, !.n = a.n + 1] BY <1>2 DEF PushCumulative
    <3> HIDE DEF b
    <3>2. a.sum + val \in Nat /\ a.n + 1 \in Nat BY <1>1, <1>2
    <3> QED BY <1>2, <3>1, <3>2
  <2> HIDE DEF b
  <2>2. a.n \in Nat /\ a.sum \in Nat /\ a.n * Scale <= a.sum /\ a.sum <= a.n * Slowest
    BY <1>2, <1>5 DEF Averaging
  <2>3. b.n * Scale <= b.sum /\ b.sum <= b.n * Slowest
    <3>1. Scale \in Nat /\ Slowest \in Nat BY SlowestIs
    <3>2. /\ (a.n + 1) * Scale = a.n * Scale + Scale
          /\ (a.n + 1) * Slowest = a.n * Slowest + Slowest
          /\ a.n * Scale \in Nat /\ a.n * Slowest \in Nat
      BY <2>2, <3>1
    <3>3. b.n * Scale = a.n * Scale + Scale /\ b.n * Slowest = a.n * Slowest + Slowest
      BY <2>1, <3>2
    <3> DEFINE lo == a.n * Scale
               hi == a.n * Slowest
    <3>4. lo \in Nat /\ hi \in Nat /\ lo <= a.sum /\ a.sum <= hi BY <2>2, <3>2
    <3>5. b.n * Scale = lo + Scale /\ b.n * Slowest = hi + Slowest BY <3>3
    <3> HIDE DEF lo, hi
    <3>6. lo + Scale <= a.sum + val /\ a.sum + val <= hi + Slowest
      BY <2>2, <3>1, <3>4, <1>1
    <3> QED BY <2>1, <3>5, <3>6
  <2>4. Averaging(kind, b) BY <1>5, <2>1, <2>3 DEF Averaging
  <2> QED BY <1>5, <2>4 DEF Push, b
<1> QED BY <1>3, <1>4, <1>5

\* An average is zero, before the first sleep, or an error factor a sleep can have.
LEMMA AverageWithin ==
  ASSUME NEW kind, NEW a, Averaging(kind, a)
  PROVE  Average(kind, a) \in {0} \cup Factors
<1>1. a \in [sum : Nat, n : Nat, values : [0 .. Window - 1 -> Nat], pos : 0 .. Window - 1]
  BY DEF Averaging
<1>2. CASE kind = "win"
  <2> DEFINE S == 0 .. a.n - 1
             sum == SumFunctionOnSet(a.values, S)
  <2>1. a.n \in Nat /\ \A i \in S : a.values[i] \in Factors
    BY <1>1, <1>2 DEF Averaging
  <2>2. IsFiniteSet(S) /\ Cardinality(S) = a.n
    <3>1. 0 \in Int /\ a.n - 1 \in Int BY <2>1
    <3>2. IsFiniteSet(S) /\ Cardinality(S) = IF 0 > a.n - 1 THEN 0 ELSE (a.n - 1) - 0 + 1
      BY <3>1, FS_Interval
    <3> QED BY <3>2, <2>1
  <2>3. \A i \in S : a.values[i] \in Nat /\ Scale <= a.values[i] /\ a.values[i] <= Slowest
    BY <2>1, FactorIsNat
  <2> HIDE DEF S
  <2>4. Scale \in Nat /\ Slowest \in Nat BY SlowestIs
  <2>5. sum \in Nat /\ a.n * Scale <= sum /\ sum <= a.n * Slowest
    BY <2>2, <2>3, <2>4, SumBounds
  <2> HIDE DEF sum
  <2>6. Mean(sum, a.n) \in {0} \cup Factors BY <2>1, <2>5, MeanWithin
  <2> QED BY <1>2, <2>6 DEF Average, sum, S
<1>3. CASE kind = "exp"
  BY <1>3 DEF Average, Averaging
<1>4. CASE kind \notin {"win", "exp"}
  <2>1. a.n \in Nat /\ a.sum \in Nat /\ a.n * Scale <= a.sum /\ a.sum <= a.n * Slowest
    BY <1>1, <1>4 DEF Averaging
  <2>2. Mean(a.sum, a.n) \in {0} \cup Factors BY <2>1, MeanWithin
  <2> QED BY <1>4, <2>2 DEF Average
<1> QED BY <1>2, <1>3, <1>4

-----------------------------------------------------------------------------
(* How much too short a compensated sleep is *)

(* Dividing by an average factor never lengthens a sleep, and shortens it by no more than
   the share of the latency, and a rounding.                                             *)
LEMMA CompensatedWithin ==
  ASSUME NEW d \in Nat, NEW comp \in {0} \cup Factors
  PROVE  /\ Compensated(d, comp) \in Nat
         /\ Compensated(d, comp) <= d
         /\ LatencyShare * d < (LatencyShare + 1) * Compensated(d, comp) + LatencyShare + 1
<1>0. /\ LatencyShare \in Nat /\ LatencyShare > 0 /\ Scale \in Nat /\ Scale > 0
      /\ Slowest \in Nat
      /\ LatencyShare * Slowest <= (LatencyShare + 1) * Scale
  BY SlowestIs
<1>1. CASE comp = 0
  <2>1. Compensated(d, comp) = d BY <1>1 DEF Compensated
  <2>2. (LatencyShare + 1) * d = LatencyShare * d + d /\ LatencyShare * d \in Nat BY <1>0
  <2> QED BY <2>1, <2>2, <1>0
<1>2. CASE comp # 0
  <2> DEFINE q == (d * Scale) \div comp
  <2>1. comp \in Nat /\ comp > 0 /\ Scale <= comp /\ comp <= Slowest
    BY <1>2, FactorIsNat
  <2>2. d * Scale \in Nat BY <1>0
  <2>3. q \in Nat /\ q * comp <= d * Scale /\ d * Scale < q * comp + comp
    BY <2>1, <2>2, Quotient
  <2>4. Compensated(d, comp) = q BY <1>2 DEF Compensated
  <2> HIDE DEF q
  <2>5. q <= d
    <3>1. d * Scale <= d * comp
      <4>1. d * (comp - Scale) >= 0 BY <1>0, <2>1
      <4>2. d * (comp - Scale) = d * comp - d * Scale BY <1>0, <2>1
      <4>3. d * comp \in Int BY <2>1
      <4> QED BY <4>1, <4>2, <4>3, <2>2
    <3>2. q * comp < d * comp + comp
      <4>1. q * comp \in Int /\ d * comp \in Int BY <2>1, <2>3
      <4> QED BY <4>1, <3>1, <2>1, <2>2, <2>3
    <3> QED BY <3>2, <2>1, <2>3, Cancel
  <2>6. LatencyShare * d < (LatencyShare + 1) * q + LatencyShare + 1
    <3> DEFINE m == LatencyShare * d
               r == (LatencyShare + 1) * (q + 1)
    <3>1. m * Scale < r * Scale
      <4>1. m * Scale = LatencyShare * (d * Scale) BY <1>0
      <4>2. LatencyShare * (d * Scale) < LatencyShare * (q * comp + comp)
        <5> DEFINE x == d * Scale
                   y == q * comp + comp
        <5>1. x \in Int /\ y \in Int /\ x < y BY <2>1, <2>2, <2>3
        <5> HIDE DEF x, y
        <5>2. LatencyShare * (y - x - 1) >= 0 BY <5>1, <1>0
        <5>3. LatencyShare * (y - x - 1) = LatencyShare * y - LatencyShare * x - LatencyShare
          BY <5>1, <1>0
        <5>4. LatencyShare * y \in Int /\ LatencyShare * x \in Int BY <5>1, <1>0
        <5>5. LatencyShare * x < LatencyShare * y BY <5>2, <5>3, <5>4, <1>0
        <5> QED BY <5>5 DEF x, y
      <4>3. LatencyShare * (q * comp + comp) = (q + 1) * (LatencyShare * comp)
        BY <1>0, <2>1, <2>3
      <4>4. (q + 1) * (LatencyShare * comp) <= (q + 1) * ((LatencyShare + 1) * Scale)
        <5>1. LatencyShare * comp <= LatencyShare * Slowest
          <6>1. LatencyShare * (Slowest - comp) >= 0 BY <1>0, <2>1
          <6>2. LatencyShare * (Slowest - comp) = LatencyShare * Slowest - LatencyShare * comp
            BY <1>0, <2>1
          <6>3. LatencyShare * Slowest \in Int /\ LatencyShare * comp \in Int BY <1>0, <2>1
          <6> QED BY <6>1, <6>2, <6>3
        <5> DEFINE x == LatencyShare * comp
                   y == (LatencyShare + 1) * Scale
        <5>2. x \in Int /\ y \in Int /\ x <= y
          <6>1. LatencyShare * comp \in Int /\ LatencyShare * Slowest \in Int BY <1>0, <2>1
          <6>2. (LatencyShare + 1) * Scale \in Int BY <1>0
          <6> QED BY <6>1, <6>2, <5>1, <1>0
        <5> HIDE DEF x, y
        <5>3. (q + 1) * (y - x) >= 0 BY <5>2, <2>3
        <5>4. (q + 1) * (y - x) = (q + 1) * y - (q + 1) * x BY <5>2, <2>3
        <5>5. (q + 1) * y \in Int /\ (q + 1) * x \in Int BY <5>2, <2>3
        <5>6. (q + 1) * x <= (q + 1) * y BY <5>3, <5>4, <5>5
        <5> QED BY <5>6 DEF x, y
      <4>5. (q + 1) * ((LatencyShare + 1) * Scale) = r * Scale BY <1>0, <2>3
      <4>6. /\ LatencyShare * (d * Scale) \in Int
            /\ LatencyShare * (q * comp + comp) \in Int
            /\ (q + 1) * ((LatencyShare + 1) * Scale) \in Int
        BY <1>0, <2>1, <2>3
      <4> QED BY <4>1, <4>2, <4>3, <4>4, <4>5, <4>6
    <3>2. m \in Int /\ r \in Int BY <1>0, <2>3
    <3>3. r = (LatencyShare + 1) * q + LatencyShare + 1 BY <1>0, <2>3
    <3> HIDE DEF m, r
    <3>4. m < r
      <4> SUFFICES ASSUME r <= m PROVE FALSE BY <3>2
      <4>1. (m - r) * Scale >= 0 /\ (m - r) * Scale = m * Scale - r * Scale
            /\ m * Scale \in Int /\ r * Scale \in Int
        BY <3>2, <1>0
      <4> QED BY <4>1, <3>1
    <3> QED BY <3>3, <3>4 DEF m
  <2> QED BY <2>3, <2>4, <2>5, <2>6
<1> QED BY <1>1, <1>2

\* With latencies within a third of a sleep, at most half an interval of two is missing.
LEMMA ShortSleep ==
  ASSUME LatencyShare >= 3, NEW d \in Nat, d <= 2 * Interval, NEW asked \in Nat, asked <= d,
         LatencyShare * d < (LatencyShare + 1) * asked + LatencyShare + 1
  PROVE  d - asked <= HalfInterval
<1>0. LatencyShare \in Nat /\ Interval \in Nat /\ Interval > 0
  BY SlowestIs, SendLoopAssumption
<1> DEFINE h == Interval \div 2
           x == d - asked
<1>1. h \in Nat /\ h * 2 <= Interval /\ Interval < h * 2 + 2 BY <1>0, Quotient
<1> HIDE DEF h
<1>2. x \in Nat /\ d = asked + x OBVIOUS
<1> HIDE DEF x
<1>3. LatencyShare * x < asked + LatencyShare + 1
  <2>1. LatencyShare * (asked + x) = LatencyShare * asked + LatencyShare * x BY <1>0, <1>2
  <2>2. (LatencyShare + 1) * asked = LatencyShare * asked + asked BY <1>0
  <2>3. LatencyShare * x \in Int /\ LatencyShare * asked \in Int BY <1>0, <1>2
  <2> QED BY <1>0, <1>2, <2>1, <2>2, <2>3
<1>4. CASE x = 0 BY <1>4, <1>0, <1>1 DEF HalfInterval, h, x
<1>5. CASE x > 0
  <2>1. 3 * (x - 1) <= LatencyShare * (x - 1)
    <3>1. (LatencyShare - 3) * (x - 1) >= 0 BY <1>0, <1>2, <1>5
    <3>2. (LatencyShare - 3) * (x - 1) = LatencyShare * (x - 1) - 3 * (x - 1) BY <1>0, <1>2
    <3>3. LatencyShare * (x - 1) \in Int BY <1>0, <1>2
    <3> QED BY <3>1, <3>2, <3>3, <1>2
  <2>2. LatencyShare * (x - 1) = LatencyShare * x - LatencyShare BY <1>0, <1>2
  <2>3. LatencyShare * x \in Int BY <1>0, <1>2
  <2>4. 3 * (x - 1) < asked + 1 BY <2>1, <2>2, <2>3, <1>0, <1>2, <1>3
  <2>5. x <= Interval - h BY <2>4, <1>0, <1>1, <1>2
  <2> QED BY <2>5 DEF HalfInterval, h, x
<1> QED BY <1>2, <1>4, <1>5

-----------------------------------------------------------------------------
(* The invariant of the timed loop *)

Waiting ==
    /\ now \in Nat
    /\ slot \in Nat
    /\ pc = "sleep" => now < Due /\ Due <= now + 2 * Interval

TimedInvariant == Waiting /\ Averaging(timer[2], avg)

\* The timed loop starts with its invariant.
LEMMA TimedInitially == TimedInit => TimedInvariant
<1> SUFFICES ASSUME TimedInit PROVE TimedInvariant OBVIOUS
<1>1. Waiting BY DEF TimedInit, Init, Waiting
<1>2. Averaging(timer[2], avg) BY NewAveraging DEF TimedInit
<1> QED BY <1>1, <1>2 DEF TimedInvariant

\* The next slot is in the future and at most two intervals away.
LEMMA NextSlotNear ==
  ASSUME NEW t \in Nat
  PROVE  /\ NextSlot(t) \in Nat
         /\ t < NextSlot(t) * Interval
         /\ NextSlot(t) * Interval <= t + 2 * Interval
<1> DEFINE q == t \div Interval
<1>0. Interval \in Nat /\ Interval > 0 BY SendLoopAssumption
<1>1. q \in Nat /\ q * Interval <= t /\ t < q * Interval + Interval BY <1>0, Quotient
<1>2. NextSlot(t) = q + 1 \/ NextSlot(t) = q + 2 BY DEF NextSlot
<1> HIDE DEF q
<1>3. /\ (q + 1) * Interval = q * Interval + Interval
      /\ (q + 2) * Interval = q * Interval + 2 * Interval
      /\ q * Interval \in Nat
  BY <1>0, <1>1
<1>4. CASE NextSlot(t) = q + 1 BY <1>0, <1>1, <1>3, <1>4
<1>5. CASE NextSlot(t) = q + 2 BY <1>0, <1>1, <1>3, <1>5
<1> QED BY <1>2, <1>4, <1>5

(* What a compensated sleep of part of the time to the slot comes to. *)
LEMMA AskedWithin ==
  ASSUME LatencyShare >= 3, TimedInvariant, pc = "sleep",
         NEW d \in Nat, d <= ToWait, NEW asked,
         asked = Compensated(d, Average(timer[2], avg)),
         NEW late \in Latencies, LatencyShare * late <= asked
  PROVE  /\ ToWait \in Nat /\ now + ToWait = Due /\ Due \in Nat
         /\ asked \in Nat /\ asked <= d /\ d - asked <= HalfInterval
         /\ late \in 0 .. MaxLate
         /\ asked > 0 => ErrorFactor(asked + late, asked) \in Factors
<1>0. Interval \in Nat /\ now \in Nat /\ slot \in Nat /\ now < Due /\ Due <= now + 2 * Interval
  BY SendLoopAssumption DEF TimedInvariant, Waiting
<1>1. Due \in Nat BY <1>0, DueIsNat DEF Due
<1>2. ToWait = Due - now BY DEF ToWait, Due
<1>3. ToWait \in Nat /\ now + ToWait = Due /\ ToWait <= 2 * Interval BY <1>0, <1>1, <1>2
<1>4. Average(timer[2], avg) \in {0} \cup Factors BY AverageWithin DEF TimedInvariant
<1>5. /\ asked \in Nat /\ asked <= d
      /\ LatencyShare * d < (LatencyShare + 1) * asked + LatencyShare + 1
  BY <1>4, CompensatedWithin
<1>6. d <= 2 * Interval BY <1>0, <1>3
<1>7. d - asked <= HalfInterval BY <1>5, <1>6, ShortSleep
<1>8. late \in 0 .. MaxLate BY TimedLoopAssumption
<1>9. MaxLate \in Nat BY SendLoopAssumption
<1>10. asked > 0 => ErrorFactor(asked + late, asked) \in Factors
  BY <1>5, <1>8, <1>9, ErrorFactorWithin
<1> QED BY <1>1, <1>3, <1>5, <1>7, <1>8, <1>10

\* Whether or not a sleep's factor is taken for an outlier, the Averager is sound after it.
LEMMA LearnAverages ==
  ASSUME TimedInvariant, timer' = timer, NEW slept, NEW asked \in Nat,
         asked > 0 => ErrorFactor(slept, asked) \in Factors,
         Learn(timer[2], slept, asked)
  PROVE  Averaging(timer[2], avg)'
<1>1. Averaging(timer[2], avg) BY DEF TimedInvariant
<1>2. CASE avg' = avg BY <1>1, <1>2
<1>3. CASE avg' = Push(timer[2], avg, ErrorFactor(slept, asked)) /\ asked > 0
  <2>1. Averaging(timer[2], Push(timer[2], avg, ErrorFactor(slept, asked)))
    BY <1>1, <1>3, PushAverages
  <2> QED BY <2>1, <1>3
<1> QED BY <1>2, <1>3 DEF Learn

(* Every Timer wakes the loop as SendLoop's Sleep, with half an interval, allows. *)
WakesInTime ==
    /\ pc = "sleep" /\ pc' = "send"
    /\ now' \in Nat
    /\ now <= now' /\ Due - HalfInterval <= now' /\ now' <= Due + MaxLate
    /\ UNCHANGED <<tsent, slot, count, sc, lost, verdict, timer>>
    /\ Averaging(timer[2], avg)'

\* Half an interval is a number, and the most that SendLoop lets a Timer be early.
LEMMA HalfIsNat == HalfInterval \in Nat /\ MaxEarly <= HalfInterval
<1>1. Interval \in Nat /\ Interval > 0 BY SendLoopAssumption
<1>2. Interval \div 2 \in Nat /\ (Interval \div 2) * 2 <= Interval BY <1>1, Quotient
<1> QED BY <1>1, <1>2, SendLoopAssumption DEF HalfInterval

(* SimpleTimer and BusyTimer wake late only; CompTimer at most half an interval early;
   HybridTimer, which waits busily for the rest, not early at all.                       *)
LEMMA SleepsWake ==
  ASSUME LatencyShare >= 3, TimedInvariant,
         SimpleSleep \/ BusySleep \/ CompSleep \/ HybridSleep \/ OtherSleep
  PROVE  WakesInTime
<1>0. /\ Interval \in Nat /\ MaxLate \in Nat /\ MaxEarly \in Nat /\ now \in Nat /\ slot \in Nat
      /\ HalfInterval \in Nat /\ MaxEarly <= HalfInterval
  BY SendLoopAssumption, HalfIsNat DEF TimedInvariant, Waiting
<1>1. Due \in Nat /\ Due = slot * Interval BY <1>0, DueIsNat DEF Due
<1>2. pc = "sleep"
  BY DEF SimpleSleep, BusySleep, CompSleep, HybridSleep, OtherSleep, Sleep
<1>3. now < Due BY <1>2 DEF TimedInvariant, Waiting
<1>4. Averaging(timer[2], avg) BY DEF TimedInvariant
<1>5. CASE SimpleSleep \/ BusySleep
  <2>1. PICK late \in Latencies : WakeAt(slot * Interval + late)
    BY <1>5 DEF SimpleSleep, BusySleep
  <2>2. late \in 0 .. MaxLate BY TimedLoopAssumption
  <2>3. now' = Due + late BY <2>1, <1>1 DEF WakeAt
  <2>4. timer' = timer /\ avg' = avg BY <1>5 DEF SimpleSleep, BusySleep
  <2>5. Averaging(timer[2], avg)' BY <1>4, <2>4
  <2>6. now' \in Nat /\ now <= now' /\ Due - HalfInterval <= now' /\ now' <= Due + MaxLate
    BY <1>0, <1>1, <1>3, <2>2, <2>3
  <2> QED BY <1>2, <2>1, <2>4, <2>5, <2>6 DEF WakesInTime, WakeAt
<1>6. CASE CompSleep
  <2> DEFINE asked == Compensated(ToWait, Average(timer[2], avg))
  <2>1. PICK late \in Latencies : /\ LatencyShare * late <= asked
                                  /\ WakeAt(now + asked + late)
                                  /\ Learn(timer[2], asked + late, asked)
    BY <1>6 DEF CompSleep
  <2>2. ToWait \in Nat
    <3>1. ToWait = Due - now BY <1>1 DEF ToWait
    <3> QED BY <3>1, <1>0, <1>1, <1>3
  <2>3. /\ now + ToWait = Due
        /\ asked \in Nat /\ asked <= ToWait /\ ToWait - asked <= HalfInterval
        /\ late \in 0 .. MaxLate
        /\ asked > 0 => ErrorFactor(asked + late, asked) \in Factors
    <3>1. ToWait <= ToWait BY <2>2
    <3> QED BY <1>2, <2>1, <2>2, <3>1, AskedWithin
  <2>4. timer' = timer BY <1>6 DEF CompSleep
  <2>5. Averaging(timer[2], avg)' BY <2>1, <2>3, <2>4, LearnAverages
  <2> HIDE DEF asked
  <2>6. now' = now + asked + late BY <2>1 DEF WakeAt
  <2>7. now' \in Nat /\ now <= now' /\ Due - HalfInterval <= now' /\ now' <= Due + MaxLate
    BY <1>0, <1>1, <2>2, <2>3, <2>6
  <2> QED BY <1>2, <2>1, <2>4, <2>5, <2>7 DEF WakesInTime, WakeAt
<1>7. CASE HybridSleep
  <2> DEFINE part == (ToWait * SleepTenths) \div 10
             asked == Compensated(part, Average(timer[2], avg))
  <2>1. PICK late \in Latencies :
          /\ LatencyShare * late <= asked
          /\ WakeAt(IF asked + late < ToWait THEN slot * Interval ELSE now + asked + late)
          /\ Learn(timer[2], asked + late, asked)
    BY <1>7 DEF HybridSleep
  <2>2. ToWait \in Nat
    <3>1. ToWait = Due - now BY <1>1 DEF ToWait
    <3> QED BY <3>1, <1>0, <1>1, <1>3
  <2>3. part \in Nat /\ part <= ToWait
    <3>1. SleepTenths \in 1 .. 9 BY TimedLoopAssumption
    <3>2. ToWait * SleepTenths \in Nat /\ ToWait * SleepTenths <= ToWait * 10
      <4>1. ToWait * (10 - SleepTenths) >= 0 BY <2>2, <3>1
      <4>2. ToWait * (10 - SleepTenths) = ToWait * 10 - ToWait * SleepTenths BY <2>2, <3>1
      <4>3. ToWait * SleepTenths \in Nat BY <2>2, <3>1
      <4> QED BY <2>2, <4>1, <4>2, <4>3
    <3>3. part \in Nat /\ part * 10 <= ToWait * SleepTenths BY <3>2, Quotient
    <3> QED BY <2>2, <3>2, <3>3
  <2> HIDE DEF part
  <2>4. /\ now + ToWait = Due
        /\ asked \in Nat /\ asked <= part
        /\ late \in 0 .. MaxLate
        /\ asked > 0 => ErrorFactor(asked + late, asked) \in Factors
    BY <1>2, <2>1, <2>3, AskedWithin
  <2>5. timer' = timer BY <1>7 DEF HybridSleep
  <2>6. Averaging(timer[2], avg)' BY <2>1, <2>4, <2>5, LearnAverages
  <2> HIDE DEF asked
  <2>7. now' = IF asked + late < ToWait THEN Due ELSE now + asked + late
    BY <2>1, <1>1 DEF WakeAt
  <2>8. now' \in Nat /\ now <= now' /\ Due - HalfInterval <= now' /\ now' <= Due + MaxLate
    BY <1>0, <1>1, <1>3, <2>2, <2>3, <2>4, <2>7
  <2> QED BY <1>2, <2>1, <2>5, <2>6, <2>8 DEF WakesInTime, WakeAt
<1>8. CASE OtherSleep
  <2>1. timer' = timer /\ avg' = avg BY <1>8 DEF OtherSleep
  <2>2. Averaging(timer[2], avg)' BY <1>4, <2>1
  <2>3. PICK t \in slot * Interval - MaxEarly .. slot * Interval + MaxLate : t >= now /\ now' = t
    BY <1>8 DEF OtherSleep, Sleep
  <2>4. now' \in Nat /\ now <= now' /\ Due - HalfInterval <= now' /\ now' <= Due + MaxLate
    BY <1>0, <1>1, <2>3
  <2> QED BY <1>2, <1>8, <2>1, <2>2, <2>4 DEF WakesInTime, OtherSleep, Sleep
<1> QED BY <1>5, <1>6, <1>7, <1>8

-----------------------------------------------------------------------------
(* The refinement *)

\* Every step keeps the invariant of the timed loop.
LEMMA TimedKeeps ==
  ASSUME LatencyShare >= 3
  PROVE  TimedInvariant /\ [TimedNext]_timedVars => TimedInvariant'
<1> SUFFICES ASSUME TimedInvariant, [TimedNext]_timedVars PROVE TimedInvariant'
  OBVIOUS
<1>0. /\ now \in Nat /\ slot \in Nat /\ Averaging(timer[2], avg)
      /\ MaxSendTime \in Nat /\ MaxPrepareTime \in Nat
  BY SendLoopAssumption DEF TimedInvariant, Waiting
<1>1. CASE WakesInTime
  BY <1>0, <1>1 DEF WakesInTime, TimedInvariant, Waiting
<1>2. CASE Timed(Send)
  <2>1. now' \in Nat /\ slot' = slot /\ pc' = "prepare" BY <1>0, <1>2 DEF Timed, Send
  <2>2. Averaging(timer[2], avg)' BY <1>0, <1>2 DEF Timed
  <2> QED BY <1>0, <2>1, <2>2 DEF TimedInvariant, Waiting
<1>3. CASE Timed(Prepare)
  <2>1. now' \in Nat BY <1>0, <1>3 DEF Timed, Prepare
  <2>2. Averaging(timer[2], avg)' BY <1>0, <1>3 DEF Timed
  <2>3. Waiting'
    <3>1. CASE slot' = NextSlot(now') /\ pc' = "sleep"
      BY <2>1, <3>1, NextSlotNear DEF Waiting, Due
    <3>2. CASE pc' = "done" /\ slot' = slot
      BY <1>0, <2>1, <3>2 DEF Waiting
    <3> QED BY <1>3, <3>1, <3>2 DEF Timed, Prepare
  <2> QED BY <2>2, <2>3 DEF TimedInvariant
<1>4. CASE UNCHANGED timedVars
  <2>1. UNCHANGED <<pc, now, slot, timer, avg>> BY <1>4 DEF timedVars, vars
  <2> QED BY <2>1 DEF TimedInvariant, Waiting, Due
<1> QED BY <1>1, <1>2, <1>3, <1>4, SleepsWake DEF TimedNext

(* The server that the instance of SendLoop talks to handles a request as the loop's own
   does: none of it mentions how early a Timer is.                                       *)
LEMMA SameServer ==
  ASSUME NEW c, NEW t, NEW q
  PROVE  /\ Schedule!NewSconn(c, t) = NewSconn(c, t)
         /\ Schedule!Expired(c, t) = Expired(c, t)
         /\ Schedule!ShortInterval(c, t) = ShortInterval(c, t)
         /\ Schedule!ExceededDuration(c, t) = ExceededDuration(c, t)
         /\ Schedule!Throttled(c, t) = Throttled(c, t)
         /\ Schedule!Received(c, t, q) = Received(c, t, q)
<1>1. Schedule!NoTime = NoTime BY DEF Schedule!NoTime, NoTime
<1>2. Schedule!BucketCap = BucketCap BY DEF Schedule!BucketCap, BucketCap
<1>3. Schedule!InvalidSeqno = InvalidSeqno BY DEF Schedule!InvalidSeqno, InvalidSeqno
<1>4. Schedule!FirstUsed(c, t) = FirstUsed(c, t)
  BY <1>1 DEF Schedule!FirstUsed, FirstUsed
<1>5. Schedule!Refill(c, t) = Refill(c, t)
  BY <1>1, <1>2 DEF Schedule!Refill, Refill
<1>6. Schedule!SinceLast(c, q) = SinceLast(c, q)
  BY DEF Schedule!SinceLast, SinceLast
<1>7. \A w, d : Schedule!Slide(w, d) = Slide(w, d)
  BY DEF Schedule!Slide, Slide
<1>8. Schedule!NewSconn(c, t) = NewSconn(c, t)
  BY <1>1, <1>2, <1>3 DEF Schedule!NewSconn, NewSconn
<1>9. Schedule!Expired(c, t) = Expired(c, t)
  BY <1>1 DEF Schedule!Expired, Expired
<1>10. Schedule!ShortInterval(c, t) = ShortInterval(c, t)
  BY <1>5 DEF Schedule!ShortInterval, ShortInterval
<1>11. Schedule!ExceededDuration(c, t) = ExceededDuration(c, t)
  BY <1>4 DEF Schedule!ExceededDuration, ExceededDuration
<1>12. Schedule!Throttled(c, t) = Throttled(c, t)
  BY <1>4, <1>5 DEF Schedule!Throttled, Throttled
<1>13. Schedule!Received(c, t, q) = Received(c, t, q)
  BY <1>4, <1>5, <1>6, <1>7 DEF Schedule!Received, Received
<1> QED BY <1>8, <1>9, <1>10, <1>11, <1>12, <1>13

\* The actions of SendLoop that no Timer takes part in are those of the refined loop.
LEMMA SameActions ==
  /\ Init => Schedule!Init
  /\ Send => Schedule!Send
  /\ Prepare => Schedule!Prepare
  /\ UNCHANGED vars => UNCHANGED Schedule!vars
<1>1. Init => Schedule!Init
  BY SameServer DEF Init, Schedule!Init
<1>2. Send => Schedule!Send
  <2>1. \A t : Serve(t) => Schedule!Serve(t)
    BY SameServer DEF Serve, Schedule!Serve
  <2>2. Lose => Schedule!Lose BY DEF Lose, Schedule!Lose
  <2> QED BY <2>1, <2>2 DEF Send, Schedule!Send
<1>3. Prepare => Schedule!Prepare
  BY DEF Prepare, NextSlot, Schedule!Prepare, Schedule!NextSlot
<1>4. UNCHANGED vars => UNCHANGED Schedule!vars
  BY DEF vars, Schedule!vars
<1> QED BY <1>1, <1>2, <1>3, <1>4

\* A Timer's wake-up is a Sleep of SendLoop.
LEMMA WakesAsSleep ==
  ASSUME WakesInTime, slot \in Nat
  PROVE  Schedule!Sleep
<1>1. Due = slot * Interval /\ Due \in Nat BY DueIsNat DEF Due
<1>2. HalfInterval \in Nat /\ MaxLate \in Nat BY HalfIsNat, SendLoopAssumption
<1>3. now' \in slot * Interval - HalfInterval .. slot * Interval + MaxLate /\ now' >= now
  BY <1>1, <1>2 DEF WakesInTime
<1> QED BY <1>3 DEF WakesInTime, Schedule!Sleep

\* Every step of the timed loop is one of SendLoop, or none.
LEMMA TimedStep ==
  ASSUME LatencyShare >= 3
  PROVE  TimedInvariant /\ [TimedNext]_timedVars => [Schedule!Next]_(Schedule!vars)
<1> SUFFICES ASSUME TimedInvariant, [TimedNext]_timedVars
             PROVE  Schedule!Next \/ UNCHANGED Schedule!vars
  OBVIOUS
<1>1. CASE WakesInTime
  <2>1. slot \in Nat BY DEF TimedInvariant, Waiting
  <2> QED BY <1>1, <2>1, WakesAsSleep DEF Schedule!Next
<1>2. CASE Timed(Send) BY <1>2, SameActions DEF Timed, Schedule!Next
<1>3. CASE Timed(Prepare) BY <1>3, SameActions DEF Timed, Schedule!Next
<1>4. CASE UNCHANGED timedVars
  <2>1. UNCHANGED vars BY <1>4 DEF timedVars
  <2> QED BY <2>1, SameActions
<1> QED BY <1>1, <1>2, <1>3, <1>4, SleepsWake DEF TimedNext

(* The program's Timers, with its Averagers, are Timers as SendLoop assumes them. *)
THEOREM TimersKeepSchedule ==
  ASSUME LatencyShare >= 3
  PROVE  TimedSpec => KeepsSchedule
<1>1. TimedInit => Schedule!Init BY SameActions DEF TimedInit
<1> QED BY TimedInitially, TimedKeeps, TimedStep, <1>1, PTL
        DEF TimedSpec, KeepsSchedule, Schedule!Spec

(* With the earliest Timer that SendLoop admits, what is proved of SendLoop is proved of
   the loop with the program's Timers: no packet without room in the buffer, none
   dropped for its interval, and no connection that expires or is cut off.             *)
THEOREM TimersServed ==
  ASSUME LatencyShare >= 3, MaxEarly = HalfInterval
  PROVE  TimedSpec => [](FitsBuffer /\ PacedServed /\ StaysOpen /\ NotCutOff)
<1>1. TimedInit => Init
  BY DEF TimedInit
<1>2. TimedInvariant /\ [TimedNext]_timedVars => [Next]_vars
  <2> SUFFICES ASSUME TimedInvariant, [TimedNext]_timedVars PROVE Next \/ UNCHANGED vars
    OBVIOUS
  <2>1. CASE WakesInTime
    <3>1. slot \in Nat BY DEF TimedInvariant, Waiting
    <3>2. Due = slot * Interval /\ Due \in Nat BY <3>1, DueIsNat DEF Due
    <3>3. MaxEarly \in Nat /\ MaxLate \in Nat BY SendLoopAssumption
    <3>4. now' \in slot * Interval - MaxEarly .. slot * Interval + MaxLate /\ now' >= now
      BY <2>1, <3>2, <3>3 DEF WakesInTime
    <3>5. Sleep BY <2>1, <3>4 DEF WakesInTime, Sleep
    <3> QED BY <3>5 DEF Next
  <2>2. CASE Timed(Send) \/ Timed(Prepare) BY <2>2 DEF Timed, Next
  <2>3. CASE UNCHANGED timedVars BY <2>3 DEF timedVars
  <2> QED BY <2>1, <2>2, <2>3, SleepsWake DEF TimedNext
<1>3. TimedSpec => Spec
  BY TimedInitially, TimedKeeps, <1>1, <1>2, PTL DEF TimedSpec, Spec
<1> QED BY <1>3, BufferFits, PacedIsServed, StaysConnected, NeverCutOff, PTL
=============================================================================
