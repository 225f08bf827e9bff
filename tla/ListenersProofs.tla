-------------------------- MODULE ListenersProofs --------------------------
(***************************************************************************)
(* Proofs about Listeners for any number of bind addresses, listeners and  *)
(* callers of Shutdown.  Mutex is the part of the inductive invariant that *)
(* says who may close shutdownC, ListenInv the part that follows a         *)
(* listener to its end, and Counted ties the loop over errC to the         *)
(* listeners that are done.  What they listen on comes first: the sort of  *)
(* resolveListenAddrs keeps equal addresses together.                      *)
(***************************************************************************)
EXTENDS Listeners, FiniteSetTheorems, TLAPS
LOCAL INSTANCE SequencesExt

-----------------------------------------------------------------------------
(* Sequences of addresses *)

(* Induction up to n: each number outside S has its predecessor outside S, and n is the predecessor
   of none, so that there would be as many of them as there are without n.                      *)
LEMMA UpTo ==
    ASSUME NEW n \in Nat, NEW S, 0 \in S, \A k \in Nat : k < n /\ k \in S => k + 1 \in S
    PROVE  n \in S
<1> SUFFICES ASSUME n \notin S PROVE FALSE
    OBVIOUS
<1> DEFINE T == {k \in 0 .. n : k \notin S}
           f == [k \in T |-> k - 1]
<1>1. n \in T /\ T \subseteq Nat /\ \A k \in T : k <= n /\ k \notin S
    OBVIOUS
<1>2. \A k \in T : k - 1 \in T
    <2> SUFFICES ASSUME NEW k \in T PROVE k - 1 \in T
        OBVIOUS
    <2>1. k \in Nat /\ k # 0 /\ k <= n /\ k \notin S
        BY <1>1
    <2>2. k - 1 \in Nat /\ k - 1 < n /\ (k - 1) + 1 = k
        BY <2>1
    <2>3. k - 1 \notin S
        BY <2>1, <2>2
    <2> QED
        BY <2>2, <2>3
<1>3. IsFiniteSet(T)
    BY <1>1, FS_BoundedSetOfNaturals
<1> HIDE DEF T
<1>4. f \in [T -> T \ {n}]
    BY <1>1, <1>2
<1>5. IsFiniteSet(T \ {n}) /\ Cardinality(T \ {n}) < Cardinality(T)
    <2>1. Cardinality(T) \in Nat
        BY <1>3, FS_CardinalityType
    <2>2. IsFiniteSet(T \ {n}) /\ Cardinality(T \ {n}) = Cardinality(T) - 1
        BY <1>1, <1>3, FS_RemoveElement
    <2> QED
        BY <2>1, <2>2
<1>6. \E a, b \in T : a # b /\ f[a] = f[b]
    <2> HIDE DEF f
    <2> QED
        BY <1>3, <1>4, <1>5, FS_PigeonHole
<1> QED
    BY <1>1, <1>6

Elements(s) == {s[i] : i \in DOMAIN s}

(* What the sort makes of Less: an element is less than those after it, or equal to them,
   and equal ones are next to each other, though Less is no order.                       *)
Ascending(s) == \A i, j \in DOMAIN s : i < j => Less(s[i], s[j]) \/ s[i] = s[j]
Grouped(s) == \A i, j, k \in DOMAIN s : i < j /\ j < k /\ s[i] = s[k] => s[j] = s[i]

\* Where the sort stops an element that comes after m others, and what it makes of them.
Stop(x, before, m) ==
    LET stops == {0} \cup {k \in 1 .. m : ~Less(x, before[k])}
    IN  CHOOSE k \in stops : \A j \in stops : j <= k

Insert(x, before, m) == InsertAt(before, Stop(x, before, m) + 1, x)

LEMMA Largest ==
    ASSUME NEW m \in Nat, NEW S \in SUBSET (0 .. m), S # {}
    PROVE  \E k \in S : \A j \in S : j <= k
<1> SUFFICES ASSUME \A k \in S : \E j \in S : j > k PROVE FALSE
    OBVIOUS
<1> DEFINE T == {k \in Nat : \E j \in S : j >= k}
<1>1. PICK s \in S : TRUE
    OBVIOUS
<1>2. 0 \in T
    BY <1>1
<1>3. \A k \in Nat : k < m + 1 /\ k \in T => k + 1 \in T
    <2> SUFFICES ASSUME NEW k \in Nat, k \in T PROVE k + 1 \in T
        OBVIOUS
    <2>1. PICK j \in S : j >= k
        OBVIOUS
    <2>2. PICK i \in S : i > j
        BY <2>1
    <2>3. i \in Nat /\ j \in Nat /\ i >= k + 1
        BY <2>1, <2>2
    <2> QED
        BY <2>2, <2>3
<1> HIDE DEF T
<1>4. m + 1 \in T
    <2>1. m + 1 \in Nat
        OBVIOUS
    <2> QED
        BY <2>1, <1>2, <1>3, UpTo
<1> QED
    BY <1>4 DEF T

LEMMA StopIs ==
    ASSUME NEW x, NEW before, NEW m \in Nat
    PROVE  /\ Stop(x, before, m) \in 0 .. m
           /\ Stop(x, before, m) # 0 => ~Less(x, before[Stop(x, before, m)])
           /\ \A k \in 1 .. m : Stop(x, before, m) < k => Less(x, before[k])
<1> DEFINE stops == {0} \cup {k \in 1 .. m : ~Less(x, before[k])}
<1>1. stops \in SUBSET (0 .. m) /\ stops # {}
    OBVIOUS
<1>2. \E k \in stops : \A j \in stops : j <= k
    <2> HIDE DEF stops
    <2> QED
        BY <1>1, Largest
<1>3. Stop(x, before, m) \in stops /\ \A j \in stops : j <= Stop(x, before, m)
    <2>1. Stop(x, before, m) = CHOOSE k \in stops : \A j \in stops : j <= k
        BY DEF Stop
    <2> HIDE DEF stops
    <2> QED
        BY <1>2, <2>1
<1>4. \A k \in 1 .. m : ~Less(x, before[k]) => k <= Stop(x, before, m)
    BY <1>3
<1> DEFINE at == Stop(x, before, m)
<1>5. at \in 0 .. m /\ (at # 0 => ~Less(x, before[at])) /\ \A k \in 1 .. m : ~Less(x, before[k]) => k <= at
    BY <1>3, <1>4
<1> HIDE DEF at
<1>6. \A k \in 1 .. m : at < k => Less(x, before[k])
    <2> SUFFICES ASSUME NEW k \in 1 .. m, at < k, ~Less(x, before[k]) PROVE FALSE
        OBVIOUS
    <2>1. k <= at /\ at \in Int
        BY <1>5
    <2> QED
        BY <2>1
<1> QED
    BY <1>5, <1>6 DEF at

LEMMA Concat ==
    ASSUME NEW S, NEW a \in Seq(S), NEW b \in Seq(S)
    PROVE  /\ a \o b \in Seq(S)
           /\ Len(a \o b) = Len(a) + Len(b)
           /\ \A j \in 1 .. Len(a) + Len(b) : (a \o b)[j] = IF j <= Len(a) THEN a[j] ELSE b[j - Len(a)]
OBVIOUS

LEMMA InsertAtIs ==
    ASSUME NEW S, NEW s \in Seq(S), NEW x \in S, NEW at \in 0 .. Len(s)
    PROVE  /\ InsertAt(s, at + 1, x) \in Seq(S)
           /\ Len(InsertAt(s, at + 1, x)) = Len(s) + 1
           /\ \A j \in 1 .. Len(s) + 1 :
                InsertAt(s, at + 1, x)[j] = IF j <= at THEN s[j]
                                            ELSE IF j = at + 1 THEN x ELSE s[j - 1]
<1> DEFINE l == SubSeq(s, 1, at)
           r == SubSeq(s, at + 1, Len(s))
<1>0. Len(s) \in Nat
    OBVIOUS
<1>1. l \in Seq(S) /\ Len(l) = at /\ \A j \in 1 .. at : l[j] = s[j]
    BY <1>0
<1>2. r \in Seq(S) /\ Len(r) = Len(s) - at /\ \A j \in 1 .. Len(s) - at : r[j] = s[j + at]
    BY <1>0
<1>3. InsertAt(s, at + 1, x) = l \o <<x>> \o r
    <2>1. (at + 1) - 1 = at
        BY <1>0
    <2> QED
        BY <2>1 DEF InsertAt
<1> HIDE DEF l, r
<1>4. l \o <<x>> \in Seq(S) /\ Len(l \o <<x>>) = at + 1
      /\ \A j \in 1 .. at + 1 : (l \o <<x>>)[j] = IF j <= at THEN s[j] ELSE x
    BY <1>1
<1> DEFINE h == l \o <<x>>
<1>5. h \in Seq(S) /\ Len(h) = at + 1 /\ \A j \in 1 .. at + 1 : h[j] = IF j <= at THEN s[j] ELSE x
    BY <1>4
<1> HIDE DEF h
<1>6. h \o r \in Seq(S) /\ Len(h \o r) = Len(s) + 1
    <2>1. h \o r \in Seq(S) /\ Len(h \o r) = Len(h) + Len(r)
        BY <1>2, <1>5, Concat
    <2> QED
        BY <2>1, <1>0, <1>2, <1>5
<1>7. \A j \in 1 .. Len(s) + 1 :
        (h \o r)[j] = IF j <= at THEN s[j] ELSE IF j = at + 1 THEN x ELSE s[j - 1]
    <2> SUFFICES ASSUME NEW j \in 1 .. Len(s) + 1
                 PROVE  (h \o r)[j] = IF j <= at THEN s[j] ELSE IF j = at + 1 THEN x ELSE s[j - 1]
        OBVIOUS
    <2>1. (h \o r)[j] = IF j <= at + 1 THEN h[j] ELSE r[j - (at + 1)]
        <3>1. j \in 1 .. Len(h) + Len(r)
            BY <1>0, <1>2, <1>5
        <3> QED
            BY <3>1, <1>2, <1>5, Concat, SMTT(30)
    <2>2. CASE j <= at + 1
        BY <2>1, <2>2, <1>5
    <2>3. CASE ~(j <= at + 1)
        <3>1. j - (at + 1) \in 1 .. Len(s) - at /\ (j - (at + 1)) + at = j - 1
            BY <2>3, <1>0
        <3> QED
            BY <2>1, <2>3, <3>1, <1>2, SMTT(30)
    <2> QED
        BY <2>2, <2>3
<1>8. InsertAt(s, at + 1, x) = h \o r
    BY <1>3 DEF h
<1>9. \A t : t = h \o r =>
        /\ t \in Seq(S) /\ Len(t) = Len(s) + 1
        /\ \A j \in 1 .. Len(s) + 1 : t[j] = IF j <= at THEN s[j] ELSE IF j = at + 1 THEN x ELSE s[j - 1]
    BY <1>6, <1>7
<1> QED
    BY <1>8, <1>9

LEMMA LessFacts ==
    ASSUME NEW a \in Addrs, NEW b \in Addrs, NEW c \in Addrs
    PROVE  /\ ~Less(a, a)
           /\ ~Less(c, a) => Less(a, c) \/ a = c
           /\ (Less(a, b) \/ a = b) /\ ~Less(c, b) => Less(a, c) \/ a = c
<1>1. \A d \in Addrs : d.ip \in Nat /\ d.port \in Nat /\ d.zone \in Nat
    BY DEF Addrs
<1>2. \A d, e \in Addrs : d.ip = e.ip /\ d.port = e.port /\ d.zone = e.zone => d = e
    BY DEF Addrs
<1> QED
    BY <1>1, <1>2 DEF Less

\* The sort puts x behind the last element that it is not less than.
LEMMA Inserted ==
    ASSUME NEW s \in Seq(Addrs), NEW x \in Addrs, NEW at \in 0 .. Len(s),
           NEW t \in Seq(Addrs), Len(t) = Len(s) + 1,
           \A j \in 1 .. Len(s) + 1 :
               t[j] = IF j <= at THEN s[j] ELSE IF j = at + 1 THEN x ELSE s[j - 1],
           at # 0 => ~Less(x, s[at]),
           \A k \in 1 .. Len(s) : at < k => Less(x, s[k]),
           Ascending(s), Grouped(s)
    PROVE  Ascending(t) /\ Grouped(t) /\ Elements(t) = Elements(s) \cup {x}
<1> DEFINE n == Len(s)
           Old(j) == IF j <= at THEN j ELSE j - 1
<1>1. n \in Nat /\ at \in Nat /\ at <= n /\ DOMAIN s = 1 .. n /\ DOMAIN t = 1 .. n + 1
    OBVIOUS
<1>2. \A k \in 1 .. n : s[k] \in Addrs
    OBVIOUS
<1> HIDE DEF n
<1>3. t[at + 1] = x
    BY <1>1 DEF n
<1>4. \A j \in 1 .. n + 1 : j # at + 1 => Old(j) \in 1 .. n /\ t[j] = s[Old(j)]
    BY <1>1 DEF n
<1>5. \A i, j \in 1 .. n + 1 : i < j /\ i # at + 1 /\ j # at + 1 => Old(i) < Old(j)
    BY <1>1
<1>6. \A i \in 1 .. n : i <= at => Less(s[i], x) \/ s[i] = x
    <2> SUFFICES ASSUME NEW i \in 1 .. n, i <= at PROVE Less(s[i], x) \/ s[i] = x
        OBVIOUS
    <2>1. at \in 1 .. n /\ at # 0
        BY <1>1
    <2>2. Less(s[i], s[at]) \/ s[i] = s[at]
        <3>1. CASE i = at
            BY <3>1
        <3>2. CASE i < at
            BY <2>1, <3>2, <1>1 DEF Ascending
        <3> QED
            BY <3>1, <3>2, <1>1
    <2> QED
        BY <2>1, <2>2, <1>2, LessFacts
<1>7. \A k \in 1 .. n : at < k => Less(x, s[k])
    BY DEF n
<1>8. Ascending(t)
    <2> SUFFICES ASSUME NEW i \in 1 .. n + 1, NEW j \in 1 .. n + 1, i < j
                 PROVE  Less(t[i], t[j]) \/ t[i] = t[j]
        BY <1>1 DEF Ascending
    <2>1. CASE i = at + 1
        <3>1. Old(j) \in 1 .. n /\ t[j] = s[Old(j)] /\ at < Old(j)
            BY <2>1, <1>1, <1>4
        <3> HIDE DEF Old
        <3> QED
            BY <2>1, <3>1, <1>3, <1>7
    <2>2. CASE j = at + 1
        <3>1. Old(i) \in 1 .. n /\ t[i] = s[Old(i)] /\ Old(i) <= at
            BY <2>2, <1>1, <1>4
        <3> HIDE DEF Old
        <3> QED
            BY <2>2, <3>1, <1>3, <1>6
    <2>3. CASE i # at + 1 /\ j # at + 1
        <3>1. Old(i) \in 1 .. n /\ Old(j) \in 1 .. n /\ Old(i) < Old(j)
              /\ t[i] = s[Old(i)] /\ t[j] = s[Old(j)]
            BY <2>3, <1>4, <1>5
        <3> HIDE DEF Old
        <3> QED
            BY <3>1, <1>1 DEF Ascending
    <2> QED
        BY <2>1, <2>2, <2>3
<1>9. Grouped(t)
    <2> SUFFICES ASSUME NEW i \in 1 .. n + 1, NEW j \in 1 .. n + 1, NEW k \in 1 .. n + 1,
                        i < j, j < k, t[i] = t[k]
                 PROVE  t[j] = t[i]
        BY <1>1 DEF Grouped
    <2>0. \A a, b, c \in 1 .. n : a < b /\ b < c /\ s[a] = s[c] => s[b] = s[a]
        BY <1>1 DEF Grouped
    <2>1. CASE i = at + 1
        <3>1. Old(k) \in 1 .. n /\ t[k] = s[Old(k)] /\ at < Old(k)
            BY <2>1, <1>1, <1>4
        <3> HIDE DEF Old
        <3>2. Less(x, x)
            BY <2>1, <3>1, <1>3, <1>7
        <3> QED
            BY <3>2, LessFacts
    <2>2. CASE j = at + 1
        <3>1. Old(i) \in 1 .. n /\ Old(k) \in 1 .. n /\ Old(i) <= at /\ at < Old(k)
              /\ t[i] = s[Old(i)] /\ t[k] = s[Old(k)]
            BY <2>2, <1>1, <1>4
        <3> HIDE DEF Old
        <3>2. at \in 1 .. n /\ ~Less(x, s[at])
            BY <3>1, <1>1
        <3>3. s[at] = s[Old(i)]
            <4>1. CASE Old(i) = at
                BY <4>1
            <4>2. CASE Old(i) < at
                BY <4>2, <3>1, <3>2, <2>0
            <4> QED
                BY <4>1, <4>2, <3>1, <3>2
        <3> QED
            BY <3>1, <3>2, <3>3, <1>7
    <2>3. CASE k = at + 1
        <3>1. Old(i) \in 1 .. n /\ Old(j) \in 1 .. n /\ Old(i) < Old(j) /\ Old(j) <= at
              /\ t[i] = s[Old(i)] /\ t[j] = s[Old(j)] /\ s[Old(i)] = x
            BY <2>3, <1>1, <1>3, <1>4
        <3> HIDE DEF Old
        <3>2. at \in 1 .. n /\ ~Less(x, s[at]) /\ Old(i) < at
            BY <3>1, <1>1
        <3>3. s[at] = s[Old(i)]
            BY <3>1, <3>2, <1>1 DEF Ascending
        <3>4. s[Old(j)] = s[Old(i)]
            <4>1. CASE Old(j) = at
                BY <4>1, <3>3
            <4>2. CASE Old(j) < at
                BY <4>2, <3>1, <3>2, <3>3, <2>0
            <4> QED
                BY <4>1, <4>2, <3>1, <3>2
        <3> QED
            BY <3>1, <3>4
    <2>4. CASE i # at + 1 /\ j # at + 1 /\ k # at + 1
        <3>1. /\ Old(i) \in 1 .. n /\ Old(j) \in 1 .. n /\ Old(k) \in 1 .. n
              /\ Old(i) < Old(j) /\ Old(j) < Old(k)
              /\ t[i] = s[Old(i)] /\ t[j] = s[Old(j)] /\ t[k] = s[Old(k)]
            BY <2>4, <1>4, <1>5
        <3> HIDE DEF Old
        <3> QED
            BY <3>1, <2>0
    <2> QED
        BY <2>1, <2>2, <2>3, <2>4
<1>10. Elements(t) = Elements(s) \cup {x}
    <2>1. \A j \in 1 .. n + 1 : t[j] \in Elements(s) \cup {x}
        <3> HIDE DEF Old
        <3> QED
            BY <1>1, <1>3, <1>4 DEF Elements
    <2>2. \A k \in 1 .. n : \E j \in 1 .. n + 1 : t[j] = s[k]
        <3> SUFFICES ASSUME NEW k \in 1 .. n PROVE \E j \in 1 .. n + 1 : t[j] = s[k]
            OBVIOUS
        <3>1. CASE k <= at
            BY <3>1, <1>1 DEF n
        <3>2. CASE ~(k <= at)
            <4>1. k + 1 \in 1 .. n + 1 /\ t[k + 1] = s[(k + 1) - 1] /\ (k + 1) - 1 = k
                BY <3>2, <1>1 DEF n
            <4> QED
                BY <4>1
        <3> QED
            BY <3>1, <3>2
    <2>3. at + 1 \in 1 .. n + 1
        BY <1>1
    <2>4. Elements(t) \subseteq Elements(s) \cup {x}
        BY <2>1, <1>1 DEF Elements
    <2>5. Elements(s) \subseteq Elements(t)
        <3> SUFFICES ASSUME NEW k \in 1 .. n PROVE s[k] \in Elements(t)
            BY <1>1 DEF Elements
        <3>1. PICK j \in 1 .. n + 1 : t[j] = s[k]
            BY <2>2
        <3> QED
            BY <3>1, <1>1 DEF Elements
    <2>6. x \in Elements(t)
        BY <2>3, <1>1, <1>3 DEF Elements
    <2> QED
        BY <2>4, <2>5, <2>6
<1> QED
    BY <1>8, <1>9, <1>10

LEMMA InsertKeeps ==
    ASSUME NEW s \in Seq(Addrs), NEW x \in Addrs, Ascending(s), Grouped(s)
    PROVE  /\ Insert(x, s, Len(s)) \in Seq(Addrs)
           /\ Len(Insert(x, s, Len(s))) = Len(s) + 1
           /\ Ascending(Insert(x, s, Len(s)))
           /\ Grouped(Insert(x, s, Len(s)))
           /\ Elements(Insert(x, s, Len(s))) = Elements(s) \cup {x}
<1> DEFINE at == Stop(x, s, Len(s))
           t == Insert(x, s, Len(s))
<1>1. Len(s) \in Nat
    OBVIOUS
<1>2. at \in 0 .. Len(s) /\ (at # 0 => ~Less(x, s[at])) /\ \A k \in 1 .. Len(s) : at < k => Less(x, s[k])
    BY <1>1, StopIs, Zenon
<1>3. t = InsertAt(s, at + 1, x)
    BY DEF Insert
<1> HIDE DEF at, t
<1>4. /\ t \in Seq(Addrs) /\ Len(t) = Len(s) + 1
      /\ \A j \in 1 .. Len(s) + 1 : t[j] = IF j <= at THEN s[j] ELSE IF j = at + 1 THEN x ELSE s[j - 1]
    <2>1. InsertAt(s, at + 1, x) \in Seq(Addrs) /\ Len(InsertAt(s, at + 1, x)) = Len(s) + 1
        BY <1>2, InsertAtIs
    <2>2. \A j \in 1 .. Len(s) + 1 :
            InsertAt(s, at + 1, x)[j] = IF j <= at THEN s[j] ELSE IF j = at + 1 THEN x ELSE s[j - 1]
        BY <1>2, InsertAtIs
    <2> QED
        BY <2>1, <2>2, <1>3
<1>5. Ascending(t) /\ Grouped(t) /\ Elements(t) = Elements(s) \cup {x}
    BY <1>2, <1>4, Inserted
<1> QED
    BY <1>4, <1>5 DEF t

(* InsertionSorted is the last of the sequences that the sort makes; the recursive function of them is
   CHOSEN, so that first there has to be one.                                               *)
LEMMA SortedIs ==
    ASSUME NEW addrs \in Seq(Addrs)
    PROVE  \E f : /\ InsertionSorted(addrs) = f[Len(addrs)]
                  /\ f[0] = <<>>
                  /\ \A k \in 1 .. Len(addrs) : f[k] = Insert(addrs[k], f[k - 1], k - 1)
<1> DEFINE n == Len(addrs)
           Step(f, k) == IF k = 0 THEN <<>> ELSE Insert(addrs[k], f[k - 1], k - 1)
           Solves(f, m) == /\ f = [k \in 0 .. n |-> f[k]]
                           /\ \A k \in 0 .. n : k <= m => f[k] = Step(f, k)
           Solved == {m \in Nat : \E f : Solves(f, m)}
           sorted == CHOOSE f : f = [k \in 0 .. n |-> Step(f, k)]
<1>0. n \in Nat
    OBVIOUS
<1>1. InsertionSorted(addrs) = sorted[n]
    BY DEF InsertionSorted, Insert, Stop
<1> HIDE DEF n
<1>2. 0 \in Solved
    <2> DEFINE f == [k \in 0 .. n |-> <<>>]
    <2>1. f = [k \in 0 .. n |-> f[k]]
        OBVIOUS
    <2>2. \A k \in 0 .. n : k <= 0 => f[k] = Step(f, k)
        <3> SUFFICES ASSUME NEW k \in 0 .. n, k <= 0 PROVE f[k] = Step(f, k)
            OBVIOUS
        <3>1. k = 0
            OBVIOUS
        <3> QED
            BY <3>1
    <2> QED
        BY <2>1, <2>2
<1>3. \A m \in Nat : m < n /\ m \in Solved => m + 1 \in Solved
    <2> SUFFICES ASSUME NEW m \in Nat, m < n, m \in Solved PROVE m + 1 \in Solved
        OBVIOUS
    <2>1. PICK f : Solves(f, m)
        OBVIOUS
    <2> DEFINE new == Insert(addrs[m + 1], f[m], m)
               g == [k \in 0 .. n |-> IF k = m + 1 THEN new ELSE f[k]]
    <2>2. m + 1 \in 0 .. n /\ m \in 0 .. n /\ (m + 1) - 1 = m
        BY <1>0
    <2>3. g[m + 1] = new /\ \A k \in 0 .. n : k # m + 1 => g[k] = f[k]
        <3> HIDE DEF new
        <3> QED
            BY <2>2
    <2>4. g = [k \in 0 .. n |-> g[k]]
        <3> HIDE DEF new
        <3> QED
            OBVIOUS
    <2>5. \A k \in 0 .. n : k <= m + 1 => g[k] = Step(g, k)
        <3> SUFFICES ASSUME NEW k \in 0 .. n, k <= m + 1 PROVE g[k] = Step(g, k)
            OBVIOUS
        <3>1. CASE k = m + 1
            <4>1. g[k] = new /\ k # 0 /\ k - 1 = m
                BY <3>1, <2>2, <2>3
            <4>2. g[m] = f[m]
                BY <2>2, <2>3
            <4> HIDE DEF g
            <4> QED
                BY <3>1, <4>1, <4>2
        <3>2. CASE k # m + 1
            <4>0. k <= m /\ g[k] = f[k]
                BY <3>2, <2>3, <1>0
            <4>1. k <= m /\ g[k] = f[k] /\ f[k] = Step(f, k)
                <5> HIDE DEF g, Step
                <5> QED
                    BY <4>0, <2>1
            <4>2. k # 0 => g[k - 1] = f[k - 1]
                BY <4>1, <2>3, <1>0
            <4> HIDE DEF g
            <4> QED
                BY <4>1, <4>2
        <3> QED
            BY <3>1, <3>2
    <2> HIDE DEF g
    <2>6. Solves(g, m + 1)
        BY <2>4, <2>5
    <2> HIDE DEF Solves
    <2> QED
        BY <2>6
<1> HIDE DEF Solved
<1>4. n \in Solved
    BY <1>0, <1>2, <1>3, UpTo
<1>5. PICK f : Solves(f, n)
    BY <1>4 DEF Solved
<1>6. f = [k \in 0 .. n |-> Step(f, k)]
    BY <1>0, <1>5
<1>7. sorted = [k \in 0 .. n |-> Step(sorted, k)]
    BY <1>6
<1> HIDE DEF sorted
<1>8. sorted[0] = <<>> /\ \A k \in 1 .. n : sorted[k] = Insert(addrs[k], sorted[k - 1], k - 1)
    BY <1>0, <1>7
<1> QED
    BY <1>1, <1>8 DEF n

\* It loses no address and makes none up; and though Less is no order, equal ones meet.
LEMMA SortedGroups ==
    ASSUME NEW addrs \in Seq(Addrs)
    PROVE  /\ InsertionSorted(addrs) \in Seq(Addrs)
           /\ Grouped(InsertionSorted(addrs))
           /\ Elements(InsertionSorted(addrs)) = Elements(addrs)
<1> DEFINE n == Len(addrs)
           Initial(k) == {addrs[i] : i \in 1 .. k}
<1>0. n \in Nat /\ \A k \in 1 .. n : addrs[k] \in Addrs
    OBVIOUS
<1>1. PICK f : /\ InsertionSorted(addrs) = f[n] /\ f[0] = <<>>
               /\ \A k \in 1 .. n : f[k] = Insert(addrs[k], f[k - 1], k - 1)
    BY SortedIs
<1> DEFINE Good(k) == /\ f[k] \in Seq(Addrs) /\ Len(f[k]) = k
                      /\ Ascending(f[k]) /\ Grouped(f[k]) /\ Elements(f[k]) = Initial(k)
           AllGood == {k \in Nat : Good(k)}
<1>2. 0 \in AllGood
    <2>1. <<>> \in Seq(Addrs) /\ Len(<<>>) = 0 /\ DOMAIN <<>> = {}
        OBVIOUS
    <2>2. Ascending(<<>>) /\ Grouped(<<>>) /\ Elements(<<>>) = {} /\ Initial(0) = {}
        BY DEF Ascending, Grouped, Elements
    <2> QED
        BY <1>1, <2>1, <2>2
<1>3. \A k \in Nat : k < n /\ k \in AllGood => k + 1 \in AllGood
    <2> SUFFICES ASSUME NEW k \in Nat, k < n, k \in AllGood PROVE k + 1 \in AllGood
        OBVIOUS
    <2>0. Good(k)
        OBVIOUS
    <2>1. k + 1 \in 1 .. n /\ (k + 1) - 1 = k /\ addrs[k + 1] \in Addrs
        BY <1>0
    <2> DEFINE s == f[k]
               x == addrs[k + 1]
               t == f[k + 1]
    <2>2. s \in Seq(Addrs) /\ Len(s) = k /\ Ascending(s) /\ Grouped(s) /\ Elements(s) = Initial(k)
        BY <2>0
    <2>3. t = Insert(x, s, k)
        BY <1>1, <2>1
    <2>4. x \in Addrs
        BY <2>1
    <2> HIDE DEF s, t, x
    <2>5. /\ t \in Seq(Addrs) /\ Len(t) = k + 1 /\ Ascending(t) /\ Grouped(t)
          /\ Elements(t) = Initial(k) \cup {x}
        BY <2>2, <2>3, <2>4, InsertKeeps
    <2>6. Initial(k + 1) = Initial(k) \cup {x}
        <3>1. 1 .. k + 1 = (1 .. k) \cup {k + 1}
            OBVIOUS
        <3> QED
            BY <3>1 DEF x
    <2>7. Good(k + 1)
        BY <2>5, <2>6 DEF t
    <2> QED
        BY <2>7
<1> HIDE DEF AllGood
<1>4. n \in AllGood
    BY <1>0, <1>2, <1>3, UpTo
<1>5. Good(n)
    BY <1>4 DEF AllGood
<1>6. Initial(n) = Elements(addrs)
    BY DEF Elements
<1> QED
    BY <1>1, <1>5, <1>6
\* Whatever the sort makes of its addresses, they are the same; short lists are grouped as well.
LEMMA SortingsAre ==
    ASSUME NEW addrs \in Seq(Addrs), NEW s \in Sortings(addrs)
    PROVE  /\ s \in Seq(Addrs)
           /\ Elements(s) = Elements(addrs)
           /\ Len(addrs) <= InsertionSortMax => Grouped(s)
<1>1. CASE Len(addrs) <= InsertionSortMax
    <2>1. s = InsertionSorted(addrs)
        BY <1>1 DEF Sortings
    <2> QED
        BY <1>1, <2>1, SortedGroups
<1>2. CASE ~(Len(addrs) <= InsertionSortMax)
    <2> DEFINE n == Len(addrs)
    <2>0. n \in Nat /\ DOMAIN addrs = 1 .. n /\ \A k \in 1 .. n : addrs[k] \in Addrs
        OBVIOUS
    <2> DEFINE places == DOMAIN addrs
               All == {p \in [places -> places] : \A j \in places : \E k \in places : p[k] = j}
    <2>1. PICK p \in All : s = [k \in places |-> addrs[p[k]]]
        <3>1. s \in {[k \in places |-> addrs[from[k]]] : from \in All}
            BY <1>2, Zenon DEF Sortings
        <3> HIDE DEF All, places
        <3> QED
            BY <3>1
    <2>2. places = 1 .. n /\ p \in [places -> places] /\ \A j \in places : \E k \in places : p[k] = j
        BY <2>0
    <2> HIDE DEF n, places, All
    <2>3. s \in Seq(Addrs) /\ DOMAIN s = 1 .. n
        BY <2>0, <2>1, <2>2
    <2>4. Elements(s) \subseteq Elements(addrs)
        BY <2>0, <2>1, <2>2, <2>3 DEF Elements
    <2>5. Elements(addrs) \subseteq Elements(s)
        <3> SUFFICES ASSUME NEW j \in 1 .. n PROVE addrs[j] \in Elements(s)
            BY <2>0 DEF Elements
        <3>1. PICK k \in 1 .. n : p[k] = j
            BY <2>2
        <3> QED
            BY <2>1, <2>3, <3>1 DEF Elements
    <2> QED
        BY <1>2, <2>3, <2>4, <2>5
<1> QED
    BY <1>1, <1>2

Distinct(s) == \A i, j \in DOMAIN s : s[i] = s[j] => i = j

LEMMA DistinctCount ==
    ASSUME NEW S, NEW s \in Seq(S), Distinct(s)
    PROVE  Len(s) = Cardinality(Elements(s))
<1> DEFINE n == Len(s)
           Initial(k) == {s[i] : i \in 1 .. k}
           Counted == {k \in Nat : IsFiniteSet(Initial(k)) /\ Cardinality(Initial(k)) = k}
<1>1. n \in Nat /\ DOMAIN s = 1 .. n
    OBVIOUS
<1> HIDE DEF n
<1>2. 0 \in Counted
    <2>1. Initial(0) = {}
        OBVIOUS
    <2> QED
        BY <2>1, FS_EmptySet
<1>3. \A k \in Nat : k < n /\ k \in Counted => k + 1 \in Counted
    <2> SUFFICES ASSUME NEW k \in Nat, k < n, k \in Counted PROVE k + 1 \in Counted
        OBVIOUS
    <2>1. IsFiniteSet(Initial(k)) /\ Cardinality(Initial(k)) = k
        OBVIOUS
    <2>2. Initial(k + 1) = Initial(k) \cup {s[k + 1]}
        <3>1. 1 .. k + 1 = (1 .. k) \cup {k + 1}
            OBVIOUS
        <3> QED
            BY <3>1
    <2>3. s[k + 1] \notin Initial(k)
        <3>1. k + 1 \in 1 .. n /\ \A i \in 1 .. k : i \in 1 .. n /\ i # k + 1
            BY <1>1
        <3> QED
            BY <1>1, <3>1 DEF Distinct
    <2> HIDE DEF Initial
    <2>4. IsFiniteSet(Initial(k + 1)) /\ Cardinality(Initial(k + 1)) = k + 1
        <3>1. /\ IsFiniteSet(Initial(k) \cup {s[k + 1]})
              /\ Cardinality(Initial(k) \cup {s[k + 1]}) = Cardinality(Initial(k)) + 1
            BY <2>1, <2>3, FS_AddElement
        <3> QED
            BY <2>1, <2>2, <3>1
    <2> QED
        BY <2>4
<1> HIDE DEF Counted
<1>4. n \in Counted
    BY <1>1, <1>2, <1>3, UpTo
<1>5. Initial(n) = Elements(s)
    BY <1>1 DEF Elements
<1> QED
    BY <1>4, <1>5 DEF Counted, n

-----------------------------------------------------------------------------
(* Of all bind addresses *)

LEMMA ConcatElements ==
    ASSUME NEW S, NEW a \in Seq(S), NEW b \in Seq(S)
    PROVE  Elements(a \o b) = Elements(a) \cup Elements(b)
<1> DEFINE c == a \o b
<1>1. Len(a) \in Nat /\ Len(b) \in Nat /\ DOMAIN a = 1 .. Len(a) /\ DOMAIN b = 1 .. Len(b)
    OBVIOUS
<1>2. /\ DOMAIN c = 1 .. Len(a) + Len(b)
      /\ \A j \in 1 .. Len(a) + Len(b) : c[j] = IF j <= Len(a) THEN a[j] ELSE b[j - Len(a)]
    BY Concat
<1> HIDE DEF c
<1>3. \A j \in DOMAIN c : c[j] \in Elements(a) \cup Elements(b)
    BY <1>1, <1>2 DEF Elements
<1>4. \A i \in DOMAIN a : a[i] \in Elements(c)
    <2> SUFFICES ASSUME NEW i \in DOMAIN a PROVE a[i] \in Elements(c)
        OBVIOUS
    <2>1. i \in DOMAIN c /\ c[i] = a[i]
        BY <1>1, <1>2
    <2> QED
        BY <2>1 DEF Elements
<1>5. \A i \in DOMAIN b : b[i] \in Elements(c)
    <2> SUFFICES ASSUME NEW i \in DOMAIN b PROVE b[i] \in Elements(c)
        OBVIOUS
    <2>1. /\ Len(a) + i \in 1 .. Len(a) + Len(b)
          /\ ~(Len(a) + i <= Len(a)) /\ (Len(a) + i) - Len(a) = i
        BY <1>1
    <2>2. Len(a) + i \in DOMAIN c /\ c[Len(a) + i] = b[i]
        BY <1>2, <2>1
    <2> QED
        BY <2>2 DEF Elements
<1>6. Elements(c) = Elements(a) \cup Elements(b)
    BY <1>3, <1>4, <1>5 DEF Elements
<1> QED
    BY <1>6 DEF c

LEMMA FlattenIs ==
    ASSUME NEW S, NEW seqs \in Seq(Seq(S)), Len(seqs) # 0
    PROVE  \E f : /\ FlattenSeq(seqs) = f[Len(seqs)]
                  /\ f[1] = seqs[1]
                  /\ \A k \in 2 .. Len(seqs) : f[k] = f[k - 1] \o seqs[k]
<1> DEFINE n == Len(seqs)
           Step(f, k) == IF k = 1 THEN seqs[k] ELSE f[k - 1] \o seqs[k]
           Solves(f, m) == /\ f = [k \in 1 .. n |-> f[k]]
                           /\ \A k \in 1 .. n : k <= m => f[k] = Step(f, k)
           Solved == {m \in Nat : \E f : Solves(f, m)}
           flatten == CHOOSE f : f = [k \in 1 .. n |-> Step(f, k)]
<1>0. n \in Nat /\ n # 0
    OBVIOUS
<1>1. FlattenSeq(seqs) = flatten[n]
    BY DEF FlattenSeq
<1> HIDE DEF n
<1>2. 0 \in Solved
    <2> DEFINE f == [k \in 1 .. n |-> <<>>]
    <2>1. f = [k \in 1 .. n |-> f[k]] /\ \A k \in 1 .. n : ~(k <= 0)
        OBVIOUS
    <2> HIDE DEF f
    <2>2. Solves(f, 0)
        BY <2>1
    <2> QED
        BY <2>2
<1>3. \A m \in Nat : m < n /\ m \in Solved => m + 1 \in Solved
    <2> SUFFICES ASSUME NEW m \in Nat, m < n, m \in Solved PROVE m + 1 \in Solved
        OBVIOUS
    <2>1. PICK f : Solves(f, m)
        OBVIOUS
    <2> DEFINE new == Step(f, m + 1)
               g == [k \in 1 .. n |-> IF k = m + 1 THEN new ELSE f[k]]
    <2>2. m + 1 \in 1 .. n /\ (m + 1) - 1 = m
        BY <1>0
    <2>3. g[m + 1] = new /\ \A k \in 1 .. n : k # m + 1 => g[k] = f[k]
        <3> HIDE DEF new
        <3> QED
            BY <2>2
    <2>4. g = [k \in 1 .. n |-> g[k]]
        <3> HIDE DEF new
        <3> QED
            OBVIOUS
    <2>5. \A k \in 1 .. n : k <= m + 1 => g[k] = Step(g, k)
        <3> SUFFICES ASSUME NEW k \in 1 .. n, k <= m + 1 PROVE g[k] = Step(g, k)
            OBVIOUS
        <3>1. k # 1 => k - 1 \in 1 .. n /\ k - 1 # m + 1
            BY <1>0
        <3>2. k # 1 => g[k - 1] = f[k - 1]
            <4> HIDE DEF g
            <4> QED
                BY <3>1, <2>3
        <3>3. g[k] = Step(f, k)
            <4>1. CASE k = m + 1
                <5> HIDE DEF g, Step
                <5> QED
                    BY <4>1, <2>3
            <4>2. CASE k # m + 1
                <5>1. k <= m
                    BY <4>2, <1>0
                <5> HIDE DEF g, Step
                <5> QED
                    BY <4>2, <5>1, <2>1, <2>3
            <4> QED
                BY <4>1, <4>2
        <3> HIDE DEF g
        <3> QED
            BY <3>2, <3>3
    <2> HIDE DEF g
    <2>6. Solves(g, m + 1)
        BY <2>4, <2>5
    <2> HIDE DEF Solves
    <2> QED
        BY <2>6
<1> HIDE DEF Solved
<1>4. n \in Solved
    BY <1>0, <1>2, <1>3, UpTo
<1>5. PICK f : Solves(f, n)
    BY <1>4 DEF Solved
<1>6. f = [k \in 1 .. n |-> Step(f, k)]
    <2>1. \A k \in 1 .. n : k <= n
        BY <1>0
    <2>2. f = [k \in 1 .. n |-> f[k]] /\ \A k \in 1 .. n : f[k] = Step(f, k)
        <3> HIDE DEF Step
        <3> QED
            BY <1>5, <2>1
    <2> HIDE DEF Step
    <2> QED
        BY <2>2, Zenon
<1>7. flatten = [k \in 1 .. n |-> Step(flatten, k)]
    BY <1>6
<1> HIDE DEF flatten
<1>8. flatten[1] = seqs[1] /\ \A k \in 2 .. n : flatten[k] = flatten[k - 1] \o seqs[k]
    <2>1. \A k \in 1 .. n : flatten[k] = Step(flatten, k)
        <3> HIDE DEF Step
        <3> QED
            BY <1>7, Zenon
    <2>2. 1 \in 1 .. n /\ \A k \in 2 .. n : k \in 1 .. n /\ k # 1
        BY <1>0
    <2> QED
        BY <2>1, <2>2
<1> QED
    BY <1>1, <1>8 DEF n

LEMMA FlattenElements ==
    ASSUME NEW S, NEW seqs \in Seq(Seq(S))
    PROVE  /\ FlattenSeq(seqs) \in Seq(S)
           /\ Elements(FlattenSeq(seqs)) = UNION {Elements(seqs[k]) : k \in DOMAIN seqs}
<1> DEFINE n == Len(seqs)
           Initial(k) == UNION {Elements(seqs[i]) : i \in 1 .. k}
<1>0. n \in Nat /\ DOMAIN seqs = 1 .. n /\ \A k \in 1 .. n : seqs[k] \in Seq(S)
    OBVIOUS
<1>1. CASE n = 0
    <2>1. FlattenSeq(seqs) = seqs /\ seqs = <<>>
        BY <1>1 DEF FlattenSeq
    <2> QED
        BY <2>1 DEF Elements
<1>2. CASE n # 0
    <2>1. PICK f : /\ FlattenSeq(seqs) = f[n] /\ f[1] = seqs[1]
                   /\ \A k \in 2 .. n : f[k] = f[k - 1] \o seqs[k]
        BY <1>2, FlattenIs
    <2> DEFINE Good(k) == f[k] \in Seq(S) /\ Elements(f[k]) = Initial(k)
               AllGood == {k \in Nat : k = 0 \/ Good(k)}
    <2> HIDE DEF n
    <2>2. 0 \in AllGood
        OBVIOUS
    <2>3. \A k \in Nat : k < n /\ k \in AllGood => k + 1 \in AllGood
        <3> SUFFICES ASSUME NEW k \in Nat, k < n, k \in AllGood PROVE k + 1 \in AllGood
            OBVIOUS
        <3> SUFFICES Good(k + 1)
            OBVIOUS
        <3>1. k + 1 \in 1 .. n
            BY <1>0
        <3>2. CASE k = 0
            <4>1. f[k + 1] = seqs[1] /\ seqs[1] \in Seq(S)
                BY <3>1, <3>2, <2>1, <1>0
            <4>2. Initial(k + 1) = Elements(seqs[1])
                <5>1. 1 .. k + 1 = {1}
                    BY <3>2
                <5> QED
                    BY <5>1
            <4> QED
                BY <4>1, <4>2
        <3>3. CASE k # 0
            <4>1. k + 1 \in 2 .. n /\ (k + 1) - 1 = k
                BY <3>1, <3>3
            <4>2. f[k] \in Seq(S) /\ Elements(f[k]) = Initial(k) /\ seqs[k + 1] \in Seq(S)
                BY <3>1, <3>3, <1>0
            <4>3. f[k + 1] = f[k] \o seqs[k + 1]
                BY <4>1, <2>1
            <4>4. Initial(k + 1) = Initial(k) \cup Elements(seqs[k + 1])
                <5>1. 1 .. k + 1 = (1 .. k) \cup {k + 1}
                    OBVIOUS
                <5> QED
                    BY <5>1
            <4> HIDE DEF Initial
            <4>5. f[k] \o seqs[k + 1] \in Seq(S)
                BY <4>2, Concat
            <4>6. Elements(f[k] \o seqs[k + 1]) = Elements(f[k]) \cup Elements(seqs[k + 1])
                BY <4>2, ConcatElements
            <4> QED
                BY <4>2, <4>3, <4>4, <4>5, <4>6
        <3> QED
            BY <3>2, <3>3
    <2> HIDE DEF AllGood
    <2>4. n \in AllGood
        BY <1>0, <2>2, <2>3, UpTo
    <2>5. Good(n)
        BY <1>2, <2>4 DEF AllGood
    <2> QED
        BY <1>0, <2>1, <2>5
<1> QED
    BY <1>1, <1>2

LEMMA DuplicatesGone ==
    ASSUME NEW s \in Seq(Addrs)
    PROVE  /\ WithoutDuplicates(s) \in Seq(Addrs)
           /\ Elements(WithoutDuplicates(s)) = Elements(s)
           /\ Grouped(s) => \A i, j \in DOMAIN WithoutDuplicates(s) :
                 WithoutDuplicates(s)[i] = WithoutDuplicates(s)[j] => i = j
<1> DEFINE n == Len(s)
           first == {k \in DOMAIN s : k = 1 \/ ~UDPAddrsEqual(s[k], s[k - 1])}
           upto(k) == {j \in first : j <= k}
           m == Cardinality(first)
           rank == [k \in first |-> Cardinality(upto(k))]
           at(i) == CHOOSE k \in first : Cardinality(upto(k)) = i
           w == WithoutDuplicates(s)
<1>0. n \in Nat /\ DOMAIN s = 1 .. n /\ \A k \in 1 .. n : s[k] \in Addrs
    OBVIOUS
<1>1. w = [i \in 1 .. m |-> s[at(i)]]
    BY DEF WithoutDuplicates
<1>2. \A a, b \in Addrs : UDPAddrsEqual(a, b) <=> a = b
    <2>1. \A a, b \in Addrs : a.ip = b.ip /\ a.port = b.port /\ a.zone = b.zone => a = b
        BY SMTT(30) DEF Addrs
    <2> QED
        BY <2>1 DEF UDPAddrsEqual
<1>3. first = {k \in 1 .. n : k = 1 \/ s[k] # s[k - 1]}
    <2>1. \A k \in 1 .. n : k # 1 => k - 1 \in 1 .. n
        BY <1>0
    <2> QED
        BY <1>0, <1>2, <2>1
<1> HIDE DEF n, w, first
<1>4. first \subseteq 1 .. n /\ IsFiniteSet(first) /\ m \in Nat
    <2>1. first \subseteq Nat /\ \A k \in first : k <= n
        BY <1>0, <1>3
    <2>2. IsFiniteSet(first)
        BY <1>0, <2>1, FS_BoundedSetOfNaturals
    <2> QED
        BY <1>3, <2>2, FS_CardinalityType
<1>5. \A k \in first : rank[k] \in 1 .. m
    <2> SUFFICES ASSUME NEW k \in first PROVE Cardinality(upto(k)) \in 1 .. m
        OBVIOUS
    <2>1. upto(k) \in SUBSET first /\ k \in upto(k)
        BY <1>4
    <2> HIDE DEF upto
    <2>2. IsFiniteSet(upto(k)) /\ Cardinality(upto(k)) \in Nat /\ Cardinality(upto(k)) <= m
        BY <1>4, <2>1, FS_Subset, FS_CardinalityType
    <2>3. Cardinality(upto(k)) # 0
        BY <2>1, <2>2, FS_EmptySet
    <2> QED
        BY <1>4, <2>2, <2>3
<1>6. \A j, k \in first : j < k => rank[j] # rank[k]
    <2> SUFFICES ASSUME NEW j \in first, NEW k \in first, j < k, Cardinality(upto(j)) = Cardinality(upto(k))
                 PROVE  FALSE
        OBVIOUS
    <2>0. j \in Nat /\ k \in Nat /\ \A i \in first : i \in Nat
        BY <1>0, <1>4
    <2>1. upto(j) \subseteq upto(k) /\ k \in upto(k) /\ k \notin upto(j) /\ upto(k) \in SUBSET first
        <3>1. \A i \in first : i <= j => i <= k
            BY <2>0
        <3>2. k <= k /\ ~(k <= j)
            BY <2>0
        <3> QED
            BY <3>1, <3>2
    <2> HIDE DEF upto
    <2>2. IsFiniteSet(upto(k))
        BY <1>4, <2>1, FS_Subset
    <2>3. upto(j) = upto(k)
        BY <2>1, <2>2, FS_Subset
    <2> QED
        BY <2>1, <2>3
<1>7. IsFiniteSet(1 .. m) /\ Cardinality(1 .. m) = m
    <2>1. 1 \in Int /\ m \in Int
        BY <1>4
    <2> QED
        BY <1>4, <2>1, FS_Interval
<1>8. rank \in [first -> 1 .. m] /\ \A j, k \in first : rank[j] = rank[k] => j = k
    <2>1. rank \in [first -> 1 .. m]
        BY <1>5
    <2>2. \A k \in first : k \in Nat
        BY <1>0, <1>4
    <2> HIDE DEF rank
    <2> QED
        BY <2>1, <2>2, <1>6
<1>9. \A i \in 1 .. m : \E k \in first : rank[k] = i
    <2> HIDE DEF rank, m
    <2> SUFFICES ASSUME NEW i \in 1 .. m, \A k \in first : rank[k] # i PROVE FALSE
        OBVIOUS
    <2> DEFINE T == (1 .. m) \ {i}
    <2>1. IsFiniteSet(T) /\ Cardinality(T) = m - 1
        BY <1>7, FS_RemoveElement
    <2>2. rank \in [first -> T]
        BY <1>8
    <2>3. Cardinality(T) < Cardinality(first)
        BY <2>1, <1>4 DEF m
    <2> HIDE DEF T
    <2>4. \E j, k \in first : j # k /\ rank[j] = rank[k]
        BY <1>4, <2>1, <2>2, <2>3, FS_PigeonHole
    <2> QED
        BY <2>4, <1>8
<1>10. \A i \in 1 .. m : at(i) \in first /\ rank[at(i)] = i
    <2> SUFFICES ASSUME NEW i \in 1 .. m PROVE at(i) \in first /\ rank[at(i)] = i
        OBVIOUS
    <2>1. \E k \in first : rank[k] = i
        BY <1>9
    <2>2. \E k \in first : Cardinality(upto(k)) = i
        BY <2>1
    <2>3. at(i) \in first /\ Cardinality(upto(at(i))) = i
        BY <2>2
    <2> QED
        BY <2>3
<1>11. \A k \in first : rank[k] \in 1 .. m /\ at(rank[k]) = k
    <2> SUFFICES ASSUME NEW k \in first PROVE rank[k] \in 1 .. m /\ at(rank[k]) = k
        OBVIOUS
    <2>1. rank[k] \in 1 .. m
        BY <1>5
    <2> HIDE DEF rank, at
    <2>2. at(rank[k]) \in first /\ rank[at(rank[k])] = rank[k]
        BY <2>1, <1>10
    <2> QED
        BY <2>1, <2>2, <1>8
<1> HIDE DEF rank, at, m
<1>12. w \in Seq(Addrs) /\ DOMAIN w = 1 .. m /\ \A i \in 1 .. m : w[i] = s[at(i)]
    <2>1. \A i \in 1 .. m : s[at(i)] \in Addrs
        BY <1>0, <1>4, <1>10
    <2> QED
        BY <1>1, <1>4, <2>1
<1>13. Grouped(s) => \A i, j \in 1 .. m : w[i] = w[j] => i = j
    <2> HAVE Grouped(s)
    <2>1. ASSUME NEW i \in first, NEW k \in first, i < k, s[i] = s[k] PROVE FALSE
        <3>1. k # 1 /\ s[k] # s[k - 1] /\ i \in 1 .. n /\ k \in 1 .. n /\ k - 1 \in 1 .. n /\ k - 1 < k
            BY <1>0, <1>3, <2>1
        <3>2. CASE i = k - 1
            BY <3>1, <3>2, <2>1
        <3>3. CASE i < k - 1
            BY <3>1, <3>3, <2>1, <1>0 DEF Grouped
        <3> QED
            BY <3>1, <3>2, <3>3, <2>1
    <2> SUFFICES ASSUME NEW i \in 1 .. m, NEW j \in 1 .. m, w[i] = w[j] PROVE i = j
        OBVIOUS
    <2>2. /\ at(i) \in first /\ at(j) \in first /\ s[at(i)] = s[at(j)]
          /\ rank[at(i)] = i /\ rank[at(j)] = j
        BY <1>10, <1>12
    <2>3. at(i) = at(j)
        <3>1. \A k \in first : k \in Nat
            BY <1>0, <1>4
        <3>2. ~(at(i) < at(j)) /\ ~(at(j) < at(i))
            BY <2>1, <2>2
        <3>3. \A k, l \in Nat : ~(k < l) /\ ~(l < k) => k = l
            OBVIOUS
        <3> QED
            BY <2>2, <3>1, <3>2, <3>3, Zenon
    <2> QED
        BY <2>2, <2>3
<1>14. Elements(w) \subseteq Elements(s)
    <2>1. \A i \in 1 .. m : at(i) \in DOMAIN s
        BY <1>0, <1>4, <1>10
    <2> QED
        BY <1>12, <2>1 DEF Elements
<1>15. Elements(s) \subseteq Elements(w)
    <2>1. ASSUME NEW i \in 1 .. n PROVE \E k \in first : s[k] = s[i]
        <3> DEFINE Missed == {j \in Nat : \A k \in 1 .. n : k <= j => s[k] # s[i]}
        <3> SUFFICES ASSUME \A k \in first : s[k] # s[i] PROVE FALSE
            OBVIOUS
        <3>1. 0 \in Missed
            OBVIOUS
        <3>2. \A j \in Nat : j < n /\ j \in Missed => j + 1 \in Missed
            <4> SUFFICES ASSUME NEW j \in Nat, j < n, j \in Missed, NEW k \in 1 .. n, k <= j + 1, s[k] = s[i]
                         PROVE  FALSE
                OBVIOUS
            <4>1. k = j + 1
                OBVIOUS
            <4>2. k \in first
                <5>1. k = 1 \/ (k - 1 \in 1 .. n /\ k - 1 <= j)
                    BY <4>1, <1>0
                <5>2. k = 1 \/ s[k - 1] # s[i]
                    BY <5>1
                <5> QED
                    BY <5>2, <1>3
            <4> QED
                BY <4>2
        <3> HIDE DEF Missed
        <3>3. n \in Missed
            BY <1>0, <3>1, <3>2, UpTo
        <3> QED
            BY <3>3, <1>0 DEF Missed
    <2> SUFFICES ASSUME NEW i \in 1 .. n PROVE s[i] \in Elements(w)
        BY <1>0 DEF Elements
    <2>2. PICK k \in first : s[k] = s[i]
        BY <2>1
    <2>3. rank[k] \in DOMAIN w /\ w[rank[k]] = s[i]
        BY <2>2, <1>11, <1>12
    <2> QED
        BY <2>3 DEF Elements
<1> QED
    BY <1>12, <1>13, <1>14, <1>15 DEF w

-----------------------------------------------------------------------------
(* What a configuration asks for, and what ListenAndServe makes of it *)

Asked(s) ==
    UNION {{AddrsOf(s.binds[k], s.ipVer)[i] : i \in DOMAIN AddrsOf(s.binds[k], s.ipVer)} :
              k \in DOMAIN s.binds}
Mixed(s) == \E a, b \in Asked(s) : a.port = b.port /\ IsUnspecified(a) /\ ~IsUnspecified(b)
Unresolved(s) == \E k \in DOMAIN s.binds : CannotResolve(s.binds[k], s.ipVer)

LEMMA ResolvedIs ==
    ASSUME NEW s \in Scenarios, NEW r \in Resolved[s]
    PROVE  /\ r.addrs \in Seq(Addrs)
           /\ r.ok => Elements(r.addrs) = Asked(s) /\ ~Mixed(s)
           /\ ~r.ok => r.addrs = <<>> /\ (Unresolved(s) \/ Mixed(s))
           /\ FewAddrs => Distinct(r.addrs)
<1> DEFINE seqs == [k \in DOMAIN s.binds |-> AddrsOf(s.binds[k], s.ipVer)]
           found == FoundAddrs(s.binds, s.ipVer)
           fails(addrs) == Unresolved(s) \/ InvalidCombination(addrs)
           outcome(addrs) == [ok |-> ~fails(addrs), addrs |-> IF fails(addrs) THEN <<>> ELSE addrs]
<1>1. seqs \in Seq(Seq(Addrs)) /\ DOMAIN seqs = DOMAIN s.binds
    <2>1. /\ s.binds \in Seq(BindAddrs)
          /\ \A k \in DOMAIN s.binds : AddrsOf(s.binds[k], s.ipVer) \in Seq(Addrs)
        BY ListenersAssumption
    <2>2. Len(s.binds) \in Nat /\ DOMAIN s.binds = 1 .. Len(s.binds)
        BY <2>1
    <2> QED
        BY <2>1, <2>2
<1>2. PICK sorted \in Sortings(found) : r = outcome(WithoutDuplicates(sorted))
    <2>1. Resolved[s] = ResolveListenAddrs(s.binds, s.ipVer)
        BY DEF Resolved
    <2> QED
        BY <2>1 DEF ResolveListenAddrs, Unresolved
<1> DEFINE addrs == WithoutDuplicates(sorted)
<1>3. UNION {Elements(seqs[k]) : k \in DOMAIN seqs} = Asked(s)
    <2>1. \A k \in DOMAIN s.binds : seqs[k] = AddrsOf(s.binds[k], s.ipVer)
        OBVIOUS
    <2>2. DOMAIN seqs = DOMAIN s.binds
        OBVIOUS
    <2> HIDE DEF seqs
    <2> QED
        BY <2>1, <2>2 DEF Asked, Elements
<1>4. found = FlattenSeq(seqs)
    BY DEF FoundAddrs
<1> HIDE DEF seqs, found
<1>5. found \in Seq(Addrs) /\ Elements(found) = Asked(s)
    BY <1>1, <1>3, <1>4, FlattenElements
<1>6. /\ sorted \in Seq(Addrs) /\ Elements(sorted) = Asked(s)
      /\ Len(found) <= InsertionSortMax => Grouped(sorted)
    BY <1>5, SortingsAre
<1>7. FewAddrs => Len(found) <= InsertionSortMax
    BY DEF FewAddrs, found
<1>8. /\ addrs \in Seq(Addrs) /\ Elements(addrs) = Asked(s)
      /\ FewAddrs => Distinct(addrs)
    BY <1>6, <1>7, DuplicatesGone DEF Distinct
<1> HIDE DEF addrs
<1>9. InvalidCombination(addrs) <=> Mixed(s)
    BY <1>8 DEF InvalidCombination, Mixed, Elements
<1>10. <<>> \in Seq(Addrs) /\ Distinct(<<>>)
    BY DEF Distinct
<1>11. r = outcome(addrs)
    BY <1>2 DEF addrs
<1>12. CASE fails(addrs)
    <2>1. r.addrs = <<>> /\ ~r.ok
        <3> HIDE DEF fails
        <3> QED
            BY <1>11, <1>12
    <2> QED
        BY <2>1, <1>9, <1>10, <1>12
<1>13. CASE ~fails(addrs)
    <2>1. r.addrs = addrs /\ r.ok
        <3> HIDE DEF fails
        <3> QED
            BY <1>11, <1>13
    <2> QED
        BY <2>1, <1>8, <1>9, <1>13
<1> QED
    BY <1>12, <1>13

-----------------------------------------------------------------------------
(* Shutdown *)

(* Who is in Shutdown holds its mutex, and the channel was closed by whom the flag tells
   of, or by the one who is about to set it.                                           *)
CallerType == caller \in [Everyone -> {"out", "lock", "in", "set", "done"}]
DownType == closes \in Nat /\ shutdown \in BOOLEAN
Exclusive == \A c \in Everyone : caller[c] \in {"in", "set"} => shutdownMtx = c
Setting == \A c \in Everyone : caller[c] = "set" => closes = 1 /\ ~shutdown
WasSet == shutdown => closes = 1
NotYet == closes # 0 => shutdown \/ \E c \in Everyone : caller[c] = "set"
Mutex == CallerType /\ DownType /\ Exclusive /\ Setting /\ WasSet /\ NotYet

LEMMA MutexInit == Init => Mutex
<1> SUFFICES ASSUME Init PROVE Mutex
    OBVIOUS
<1>1. closes = 0 /\ shutdown = FALSE /\ caller = [c \in Everyone |-> "out"]
    BY DEF Init
<1>2. CallerType /\ Exclusive /\ Setting
    BY <1>1 DEF CallerType, Exclusive, Setting
<1>3. DownType /\ NotYet
    BY <1>1 DEF DownType, NotYet
<1>4. WasSet
    BY <1>1 DEF WasSet
<1> QED
    BY <1>2, <1>3, <1>4 DEF Mutex

\* The steps of Shutdown are the only ones that change it, but for the main loop's calls.
LEMMA MutexShutsDown ==
    ASSUME Mutex, NEW d \in Everyone, ShutsDown(d)
    PROVE  Mutex'
<1> USE DEF CallerType, DownType, Exclusive, Setting, WasSet, NotYet, Mutex
<1>1. CASE Lock(d)
    <2>1. \A c \in Everyone : caller[c] \notin {"in", "set"}
        BY <1>1, ListenersAssumption DEF Lock
    <2>2. CallerType' /\ Exclusive'
        BY <1>1, <2>1 DEF Lock
    <2>3. \A c \in Everyone : caller'[c] = "set" <=> caller[c] = "set"
        BY <1>1 DEF Lock
    <2>4. DownType' /\ Setting' /\ WasSet' /\ NotYet'
        BY <1>1, <2>1, <2>3 DEF Lock
    <2> QED
        BY <2>2, <2>4
<1>2. CASE CloseShutdownC(d)
    BY <1>2 DEF CloseShutdownC
<1>3. CASE Leave(d)
    BY <1>3 DEF Leave
<1> QED
    BY <1>1, <1>2, <1>3 DEF ShutsDown

LEMMA MutexCalled ==
    ASSUME Mutex, NEW d \in Everyone, caller[d] \notin {"in", "set"},
           NEW w \in {"out", "lock"}, caller' = [caller EXCEPT ![d] = w],
           UNCHANGED <<closes, shutdown, shutdownMtx>>
    PROVE  Mutex'
<1> USE DEF CallerType, DownType, Exclusive, Setting, WasSet, NotYet, Mutex
<1>1. \A c \in Everyone : caller'[c] \in {"in", "set"} => caller'[c] = caller[c]
    OBVIOUS
<1>2. \A c \in Everyone : caller[c] = "set" => caller'[c] = "set"
    OBVIOUS
<1> QED
    BY <1>1, <1>2

LEMMA MutexKept ==
    ASSUME Mutex, UNCHANGED downVars
    PROVE  Mutex'
BY DEF Mutex, CallerType, DownType, Exclusive, Setting, WasSet, NotYet, downVars

-----------------------------------------------------------------------------
(* A listener from its socket to its result *)

LisStates == {"none", "setup", "read", "ended", "log", "close", "report", "done"}
Ended == {"log", "close", "report", "done"}

ListsType ==
    /\ sock \in [Places -> {"none", "open", "closed"}]
    /\ lis \in [Places -> LisStates]
    /\ cause \in [Places -> {"none", "setup", "ttlClosed", "fault", "closed"}]
    /\ err \in [Places -> BOOLEAN]
    /\ event \in [Places -> {"none", "ListenerError", "ListenerStop"}]
    /\ closed \in [Places -> BOOLEAN]

MainType ==
    /\ scenario \in Scenarios
    /\ laddrs \in Seq(Addrs) /\ next \in Nat
    /\ main \in {"start", "bind", "spawn", "wait", "stop", "returned", "refused"}
    /\ watcher \in {"none", "wait", "next", "closing"}
    /\ watched \in Nat /\ (watcher = "closing" => watched \in Places)

\* Nothing runs before the sockets are bound.
Early ==
    /\ main \in {"start", "bind", "refused"} => \A l \in Places : lis[l] = "none"
    /\ main = "spawn" => \A l \in Places : l >= next => lis[l] = "none"
    /\ main \in {"start", "bind", "refused", "spawn"} => watcher = "none"

\* A socket is closed by its own goroutine at the end, or by the watcher.
SockClosed ==
    \A l \in Places :
        /\ sock[l] = "closed" /\ lis[l] \notin {"report", "done"} => closed[l] \/ Held(l)
        /\ lis[l] \in {"report", "done"} => sock[l] = "closed"

Causes ==
    \A l \in Places :
        /\ cause[l] = "closed" =>
              /\ closed[l] \/ Held(l)
              /\ lis[l] \in Ended => ~err[l]
        /\ lis[l] \in Ended /\ ~err[l] => cause[l] \in {"closed", "fault"}
        /\ lis[l] = "ended" => cause[l] \in {"closed", "fault"}

Events ==
    \A l \in Places :
        /\ event[l] = "ListenerError" => err[l] /\ lis[l] \in Ended
        /\ event[l] = "ListenerStop" => ~err[l] /\ lis[l] \in Ended
        /\ lis[l] \in Ended \ {"log"} => event[l] # "none"
        /\ lis[l] \in Ended /\ ~err[l] => closed[l]

Woken ==
    /\ watcher \in {"next", "closing"} => closes # 0
    /\ \A l \in Places : closed[l] => closes # 0

ListenInv == ListsType /\ MainType /\ Early /\ SockClosed /\ Causes /\ Events /\ Woken

LEMMA ListenInit == Init => ListenInv
<1> SUFFICES ASSUME Init PROVE ListenInv
    OBVIOUS
<1>1. Places = {} /\ laddrs \in Seq(Addrs)
    BY DEF Init, Places
<1>2. ListsType
    BY <1>1 DEF Init, ListsType
<1>3. MainType
    BY <1>1 DEF Init, MainType
<1>4. Early /\ SockClosed /\ Causes /\ Events /\ Woken
    BY <1>1 DEF Init, Early, SockClosed, Causes, Events, Woken
<1> QED
    BY <1>2, <1>3, <1>4 DEF ListenInv

LEMMA ListenResolve == ListenInv /\ Resolve => ListenInv'
<1> SUFFICES ASSUME ListenInv, Resolve PROVE ListenInv'
    OBVIOUS
<1>1. laddrs' \in Seq(Addrs) /\ Places' = DOMAIN laddrs'
    BY ResolvedIs DEF Resolve, ListenInv, MainType, Places
<1>2. /\ sock' = [l \in Places' |-> "none"] /\ lis' = [l \in Places' |-> "none"]
      /\ cause' = [l \in Places' |-> "none"] /\ err' = [l \in Places' |-> FALSE]
      /\ event' = [l \in Places' |-> "none"] /\ closed' = [l \in Places' |-> FALSE]
    BY <1>1 DEF Resolve, Each
<1>3. watcher = "none" /\ next' = next /\ watcher' = "none" /\ main' \in {"bind", "refused"} /\ watched' = watched
      /\ scenario' = scenario
    BY DEF Resolve, ListenInv, Early
<1>4. ListsType'
    BY <1>2 DEF ListsType, LisStates
<1>5. MainType'
    BY <1>1, <1>3 DEF MainType, ListenInv
<1>6. Early' /\ SockClosed' /\ Causes' /\ Events' /\ Woken'
    BY <1>2, <1>3 DEF Early, SockClosed, Causes, Events, Woken, Ended
<1> QED
    BY <1>4, <1>5, <1>6 DEF ListenInv

LEMMA ListenBind == ListenInv /\ Bind => ListenInv'
<1> SUFFICES ASSUME ListenInv, Bind PROVE ListenInv'
    OBVIOUS
<1>1. /\ UNCHANGED <<scenario, laddrs, lis, cause, err, event, closed, watcher, watched, closes>>
      /\ Places' = Places /\ main = "bind" /\ next \in Places
    BY DEF Bind, Places, lisVars, watchVars, downVars
<1>2. /\ main' \in {"refused", "spawn", "bind"} /\ next' \in Nat
      /\ main' = "spawn" => next' = 1
      /\ sock' \in [Places -> {"none", "open", "closed"}]
      /\ \A l \in Places : sock'[l] = "closed" => sock[l] = "closed"
    BY DEF Bind, ListenInv, ListsType, MainType, Places
<1>3. ListsType' /\ MainType'
    BY <1>1, <1>2 DEF ListenInv, ListsType, MainType
<1>4. \A l \in Places : lis[l] = "none"
    BY <1>1 DEF ListenInv, Early
<1>5. Early' /\ SockClosed'
    BY <1>1, <1>2, <1>4 DEF ListenInv, Early, SockClosed, Held
<1>6. Causes' /\ Events' /\ Woken'
    BY <1>1, <1>4 DEF ListenInv, Causes, Events, Woken, Held, Ended
<1> QED
    BY <1>3, <1>5, <1>6 DEF ListenInv

LEMMA ListenSpawn == ListenInv /\ Spawn => ListenInv'
<1> SUFFICES ASSUME ListenInv, Spawn PROVE ListenInv'
    OBVIOUS
<1> USE DEF ListenInv, Places, Held, watchVars, downVars
<1>1. next \in Places /\ lis[next] = "none" /\ lis' = [lis EXCEPT ![next] = "setup"]
    BY DEF Spawn, Early, MainType
<1>2. Places' = Places /\ Places \subseteq Nat /\ next \in Nat /\ next' = next + 1
    BY DEF Spawn, MainType
<1>3. \A l \in Places : l # next => lis'[l] = lis[l]
    BY <1>1 DEF ListsType
<1>4. ListsType'
    BY <1>1, <1>2 DEF Spawn, ListsType, LisStates
<1>5. MainType'
    BY <1>2 DEF Spawn, MainType
<1>6. Early'
    BY <1>2, <1>3 DEF Spawn, Early
<1>7. SockClosed' /\ Causes' /\ Events' /\ Woken'
    BY <1>1, <1>2, <1>3, <1>4 DEF Spawn, ListsType, SockClosed, Causes, Events, Woken, Ended
<1> QED
    BY <1>4, <1>5, <1>6, <1>7

LEMMA ListenMain == ListenInv /\ (SpawnWatcher \/ Resume \/ Return) => ListenInv'
BY DEF SpawnWatcher, Resume, Return, ListenInv, ListsType, MainType, Early, SockClosed, Causes,
       Events, Woken, Places, Held, lisVars, watchVars, downVars

LEMMA ListenReport ==
    ASSUME ListenInv, NEW l \in Places, Report(l)
    PROVE  ListenInv'
BY DEF Report, ListenInv, ListsType, MainType, Early, SockClosed, Causes, Events, Woken, Places,
       Held, LisStates, Ended, watchVars

LEMMA ListenListens ==
    ASSUME ListenInv, NEW l \in Places, Listens(l) \/ Fault(l)
    PROVE  ListenInv'
<1> USE DEF ListenInv, ListsType, MainType, Early, SockClosed, Causes, Events, Woken, Places,
            Held, LisStates, Ended, mainVars, watchVars, downVars
<1>1. CASE SetUp(l)
    BY <1>1 DEF SetUp
<1>2. ASSUME NEW why \in {"setup", "ttlClosed"}, SetUpFails(l, why) PROVE ListenInv'
    BY <1>2 DEF SetUpFails
<1>3. ASSUME NEW why \in {"closed", "fault"}, ReadFails(l, why) PROVE ListenInv'
    BY <1>3 DEF ReadFails
<1>4. CASE CheckClosed(l)
    <2>1. CASE closed[l]
        <3>1. err' = [err EXCEPT ![l] = FALSE]
            BY <1>4, <2>1 DEF CheckClosed
        <3> QED
            BY <1>4, <2>1, <3>1 DEF CheckClosed
    <2>2. CASE ~closed[l]
        <3>1. err' = [err EXCEPT ![l] = TRUE]
            BY <1>4, <2>2 DEF CheckClosed
        <3> QED
            BY <1>4, <2>2, <3>1 DEF CheckClosed
    <2> QED
        BY <2>1, <2>2
<1>5. CASE Log(l)
    BY <1>5 DEF Log
<1>6. CASE CloseConn(l)
    BY <1>6 DEF CloseConn
<1> QED
    BY <1>1, <1>2, <1>3, <1>4, <1>5, <1>6 DEF Listens, Fault

LEMMA ListenWatches ==
    ASSUME ListenInv, Watches
    PROVE  ListenInv'
<1> USE DEF ListenInv, ListsType, MainType, Early, SockClosed, Causes, Events, Woken, Places,
            Held, LisStates, Ended, mainVars, lisVars, downVars
<1>1. CASE Wake
    BY <1>1 DEF Wake
<1>2. CASE CloseListener
    BY <1>2 DEF CloseListener
<1>3. CASE SetClosed
    BY <1>3 DEF SetClosed
<1> QED
    BY <1>1, <1>2, <1>3 DEF Watches

-----------------------------------------------------------------------------
(* The main loop *)

Done == {l \in Places : lis[l] = "done"}

\* ListenAndServe is in Shutdown only after a failure; who has left it has seen the flag.
MainCalls ==
    /\ main = "stop" <=> caller[Main] # "out"
    /\ \A c \in Everyone : caller[c] = "done" => shutdown

Failed == \A l \in Done : err[l] => main = "stop" \/ shutdown

NonEmpty == main \notin {"start", "refused"} => laddrs # <<>>

Counted ==
    /\ told = Cardinality(Done)
    /\ main = "returned" => told = Len(laddrs)

LoopInv == MainCalls /\ Failed /\ NonEmpty /\ Counted

Inv == Mutex /\ ListenInv /\ LoopInv

LEMMA DoneFinite ==
    ASSUME ListenInv
    PROVE  IsFiniteSet(Done) /\ IsFiniteSet(Places) /\ Cardinality(Places) = Len(laddrs)
<1>1. laddrs \in Seq(Addrs) /\ Places = 1 .. Len(laddrs) /\ Len(laddrs) \in Nat
    BY DEF ListenInv, MainType, Places
<1>2. IsFiniteSet(Places) /\ Cardinality(Places) = Len(laddrs)
    BY <1>1, FS_Interval, SMTT(30)
<1>3. Done \subseteq Places
    BY DEF Done
<1> QED
    BY <1>2, <1>3, FS_Subset

LEMMA LoopInit == Init => LoopInv
<1> SUFFICES ASSUME Init PROVE LoopInv
    OBVIOUS
<1>1. Done = {} /\ told = 0 /\ main = "start" /\ caller = [c \in Everyone |-> "out"]
    BY DEF Init, Done, Places
<1>2. MainCalls
    BY <1>1 DEF MainCalls, Everyone
<1>3. Counted
    BY <1>1, FS_EmptySet DEF Counted
<1> QED
    BY <1>1, <1>2, <1>3 DEF LoopInv, Failed, NonEmpty

\* Steps that leave the loop, and the results it has counted, as they were.
LEMMA LoopKept ==
    ASSUME LoopInv, Done' = Done, \A l \in Done : err'[l] = err[l],
           UNCHANGED <<main, laddrs, told, shutdown, caller>>
    PROVE  LoopInv'
BY DEF LoopInv, MainCalls, Failed, NonEmpty, Counted

LEMMA LoopListens ==
    ASSUME Inv, NEW l \in Places, Listens(l) \/ Fault(l)
    PROVE  LoopInv'
<1>1. /\ lis[l] \notin {"done"} /\ laddrs' = laddrs /\ UNCHANGED <<main, laddrs, told, shutdown, caller>>
      /\ \E w \in LisStates \ {"done"} : lis' = [lis EXCEPT ![l] = w]
      /\ err' = err \/ \E b \in BOOLEAN : err' = [err EXCEPT ![l] = b]
    BY DEF Inv, ListenInv, ListsType, LisStates, Listens, Fault, SetUp, SetUpFails, ReadFails,
           CheckClosed, Log, CloseConn, mainVars, downVars
<1>2. lis \in [Places -> LisStates] /\ err \in [Places -> BOOLEAN] /\ Places' = Places
    BY <1>1 DEF Inv, ListenInv, ListsType, Places
<1>3. Done' = Done /\ l \notin Done
    BY <1>1, <1>2 DEF Done
<1>4. \A k \in Done : err'[k] = err[k]
    BY <1>1, <1>2, <1>3 DEF Done
<1> QED
    BY <1>1, <1>3, <1>4, LoopKept DEF Inv

LEMMA LoopReport ==
    ASSUME Inv, NEW l \in Places, Report(l)
    PROVE  LoopInv' /\ Mutex'
<1>1. /\ main = "wait" /\ lis[l] = "report" /\ told' = told + 1 /\ UNCHANGED <<laddrs, err, shutdown>>
      /\ lis' = [lis EXCEPT ![l] = "done"]
    BY DEF Report
<1>2. lis \in [Places -> LisStates] /\ Places' = Places
    BY <1>1 DEF Inv, ListenInv, ListsType, Places
<1>3. l \notin Done /\ Done' = Done \cup {l}
    BY <1>1, <1>2 DEF Done
<1>4. Cardinality(Done') = Cardinality(Done) + 1
    BY <1>3, DoneFinite, FS_AddElement DEF Inv
<1>5. caller[Main] = "out" /\ Main \in Everyone /\ caller \in [Everyone -> {"out", "lock", "in", "set", "done"}]
    BY <1>1 DEF Inv, LoopInv, MainCalls, Everyone, Mutex, CallerType
<1>6. CASE err[l]
    <2>1. main' = "stop" /\ caller' = [caller EXCEPT ![Main] = "lock"]
        BY <1>6 DEF Report
    <2>2. MainCalls' /\ Failed' /\ NonEmpty' /\ Counted'
        BY <1>1, <1>4, <1>5, <2>1 DEF Inv, LoopInv, MainCalls, Failed, NonEmpty, Counted
    <2>3. Mutex'
        BY <1>5, <2>1, MutexCalled DEF Report, Inv
    <2> QED
        BY <2>2, <2>3 DEF LoopInv
<1>7. CASE ~err[l]
    <2>1. main' = main /\ caller' = caller /\ UNCHANGED downVars
        BY <1>1, <1>7 DEF Report, downVars
    <2>2. MainCalls' /\ NonEmpty' /\ Counted'
        BY <1>1, <1>4, <2>1 DEF Inv, LoopInv, MainCalls, NonEmpty, Counted
    <2>3. Failed'
        BY <1>1, <1>3, <1>7, <2>1 DEF Inv, LoopInv, Failed
    <2>4. Mutex'
        BY <2>1, MutexKept DEF Inv
    <2> QED
        BY <2>2, <2>3, <2>4 DEF LoopInv
<1> QED
    BY <1>6, <1>7

LEMMA LoopMain ==
    ASSUME Inv, Resolve \/ Bind \/ Spawn \/ SpawnWatcher \/ Resume \/ Return
    PROVE  LoopInv' /\ Mutex'
<1>1. CASE Resolve
    <2>1. Done = {} /\ Done' = {} /\ told' = told /\ UNCHANGED downVars
        BY <1>1, ListenResolve DEF Inv, ListenInv, Early, Resolve, Done, Each, Places
    <2>2. main = "start" /\ main' \in {"bind", "refused"} /\ (main' = "bind" => laddrs' # <<>>)
        BY <1>1 DEF Resolve
    <2> QED
        BY <2>1, <2>2, MutexKept
           DEF Inv, LoopInv, MainCalls, Failed, NonEmpty, Counted, downVars
<1>2. CASE Bind
    <2>1. Done' = Done /\ UNCHANGED <<told, laddrs, err, downVars>>
        BY <1>2 DEF Bind, Done, Places, lisVars
    <2>2. main = "bind" /\ main' \in {"bind", "spawn", "refused"}
        BY <1>2 DEF Bind
    <2> QED
        BY <2>1, <2>2, MutexKept
           DEF Inv, LoopInv, MainCalls, Failed, NonEmpty, Counted, downVars
<1>3. CASE Spawn
    <2>1. lis' = [lis EXCEPT ![next] = "setup"] /\ lis[next] = "none" /\ Places' = Places
        BY <1>3 DEF Inv, ListenInv, Early, MainType, Spawn, Places
    <2>2. Done' = Done
        BY <2>1 DEF Inv, ListenInv, ListsType, Done
    <2> QED
        BY <1>3, <2>2, LoopKept, MutexKept DEF Inv, Spawn, downVars
<1>4. CASE SpawnWatcher
    <2>1. main = "spawn" /\ main' = "wait" /\ Done' = Done /\ UNCHANGED <<told, laddrs, err, downVars>>
        BY <1>4 DEF SpawnWatcher, Done, Places, lisVars
    <2> QED
        BY <2>1, MutexKept DEF Inv, LoopInv, MainCalls, Failed, NonEmpty, Counted, downVars
<1>5. CASE Resume
    <2>1. /\ main = "stop" /\ main' = "wait" /\ Done' = Done
          /\ caller[Main] = "done" /\ caller' = [caller EXCEPT ![Main] = "out"]
          /\ UNCHANGED <<told, laddrs, err, closes, shutdown, shutdownMtx>>
        BY <1>5 DEF Resume, Done, Places, lisVars
    <2>2. Main \in Everyone /\ caller \in [Everyone -> {"out", "lock", "in", "set", "done"}]
        BY DEF Inv, Mutex, CallerType, Everyone
    <2>3. shutdown
        BY <2>1, <2>2 DEF Inv, LoopInv, MainCalls
    <2>4. MainCalls' /\ Failed' /\ NonEmpty' /\ Counted'
        BY <2>1, <2>2, <2>3 DEF Inv, LoopInv, MainCalls, Failed, NonEmpty, Counted
    <2> QED
        BY <2>1, <2>2, <2>4, MutexCalled DEF Inv, LoopInv
<1>6. CASE Return
    <2>1. main = "wait" /\ main' = "returned" /\ told = Len(laddrs) /\ Done' = Done
          /\ UNCHANGED <<told, laddrs, err, downVars>>
        BY <1>6 DEF Return, Done, Places, lisVars
    <2> QED
        BY <2>1, MutexKept DEF Inv, LoopInv, MainCalls, Failed, NonEmpty, Counted, downVars
<1> QED
    BY <1>1, <1>2, <1>3, <1>4, <1>5, <1>6

\* What Shutdown and its callers do is no step of the others.
LEMMA CallersStep ==
    ASSUME Inv, NEW d \in Everyone, ShutsDown(d) \/ Call(d)
    PROVE  Inv'
<1>1. UNCHANGED <<mainVars, sock, lisVars, watchVars>> /\ (closes # 0 => closes' # 0)
    BY DEF ShutsDown, Call, Lock, CloseShutdownC, Leave, Inv, Mutex, DownType
<1>2. ListenInv'
    BY <1>1 DEF Inv, ListenInv, ListsType, MainType, Early, SockClosed, Causes, Events, Woken,
                Places, Held, mainVars, lisVars, watchVars
<1>3. Done' = Done /\ UNCHANGED <<main, laddrs, told, err>>
    BY <1>1 DEF Done, Places, mainVars, lisVars
<1>4. caller \in [Everyone -> {"out", "lock", "in", "set", "done"}] /\ Main \in Everyone
    BY DEF Inv, Mutex, CallerType, Everyone
<1>5. MainCalls'
    <2>1. CASE Call(d)
        BY <1>3, <1>4, <2>1, ListenersAssumption DEF Call, Inv, LoopInv, MainCalls
    <2>2. CASE Lock(d)
        BY <1>3, <1>4, <2>2 DEF Lock, Inv, LoopInv, MainCalls
    <2>3. CASE CloseShutdownC(d)
        BY <1>3, <1>4, <2>3 DEF CloseShutdownC, Inv, LoopInv, MainCalls
    <2>4. CASE Leave(d)
        BY <1>3, <1>4, <2>4 DEF Leave, Inv, LoopInv, MainCalls
    <2> QED
        BY <2>1, <2>2, <2>3, <2>4 DEF ShutsDown
<1>6. shutdown => shutdown'
    BY DEF ShutsDown, Call, Lock, CloseShutdownC, Leave
<1>7. Failed' /\ NonEmpty' /\ Counted'
    BY <1>3, <1>6 DEF Inv, LoopInv, Failed, NonEmpty, Counted
<1>8. Mutex'
    <2>1. CASE Call(d)
        BY <2>1, MutexCalled DEF Call, Inv
    <2>2. CASE ShutsDown(d)
        BY <2>2, MutexShutsDown DEF Inv
    <2> QED
        BY <2>1, <2>2
<1> QED
    BY <1>2, <1>5, <1>7, <1>8 DEF Inv, LoopInv

-----------------------------------------------------------------------------
(* The loop over the addresses *)

(* The listeners are what was resolved; the loop of listenAll goes on only past addresses
   that nobody has, and the server is refused for no other reason.                     *)
Bound ==
    /\ scenario \in Scenarios
    /\ main = "start" => laddrs = <<>> /\ next = 1
    /\ main # "start" => \E r \in Resolved[scenario] : laddrs = r.addrs /\ (r.ok \/ main = "refused")
    /\ main = "bind" =>
          next \in Nat \ {0} /\ \A k \in Places : k < next => laddrs[k] \notin scenario.taken
    /\ main \in {"spawn", "wait", "stop", "returned"} =>
          \A k \in Places : laddrs[k] \notin scenario.taken
    /\ main = "refused" => laddrs = <<>> \/ \E k \in Places : laddrs[k] \in scenario.taken
    /\ main \in {"start", "bind", "spawn", "wait", "stop", "returned", "refused"}

LEMMA BoundResolve == ASSUME Bound, Resolve PROVE Bound'
<1>0. scenario \in Scenarios /\ main = "start" /\ next = 1
    BY DEF Bound, Resolve
<1>1. PICK r \in Resolved[scenario] :
        /\ main' = IF r.ok /\ r.addrs # <<>> THEN "bind" ELSE "refused"
        /\ laddrs' = r.addrs /\ UNCHANGED <<scenario, next>>
    BY DEF Resolve
<1>2. r.addrs \in Seq(Addrs) /\ (~r.ok => r.addrs = <<>>)
    BY <1>0, ResolvedIs
<1>3. r \in Resolved[scenario]'
    BY <1>1 DEF Resolved
<1>4. \A k \in Places' : ~(k < 1)
    BY <1>1, <1>2 DEF Places
<1> QED
    BY <1>0, <1>1, <1>2, <1>3, <1>4 DEF Bound

LEMMA BoundBind == ASSUME FewAddrs, Bound, Bind PROVE Bound'
<1>0. /\ scenario \in Scenarios /\ main = "bind" /\ next \in Places
      /\ UNCHANGED <<scenario, laddrs>>
    BY DEF Bound, Bind
<1>1. PICK r \in Resolved[scenario] : laddrs = r.addrs /\ r.ok
    BY <1>0 DEF Bound
<1>2. laddrs \in Seq(Addrs) /\ Distinct(laddrs) /\ Places = 1 .. Len(laddrs) /\ Len(laddrs) \in Nat
    <2>1. laddrs \in Seq(Addrs) /\ Distinct(laddrs)
        BY <1>0, <1>1, ResolvedIs
    <2> QED
        BY <2>1 DEF Places
<1>3. \E q \in Resolved[scenario]' : laddrs' = q.addrs /\ q.ok
    <2>1. Resolved[scenario]' = Resolved[scenario]
        BY <1>0 DEF Resolved
    <2> QED
        BY <1>0, <1>1, <2>1
<1>4. \A k \in Places : k < next => laddrs[k] \notin scenario.taken
    BY <1>0 DEF Bound
<1>5. CASE InUse(next)
    <2>1. main' = "refused" /\ next' = next
        BY <1>5 DEF Bind
    <2>2. laddrs[next] \in scenario.taken
        <3>1. \A k \in 1 .. next - 1 : k \in Places /\ k # next
            BY <1>0, <1>2
        <3> QED
            BY <1>0, <1>2, <1>5, <3>1 DEF InUse, Distinct, Places
    <2> QED
        BY <1>0, <1>3, <2>1, <2>2 DEF Bound, Places
<1>6. CASE ~InUse(next)
    <2>1. laddrs[next] \notin scenario.taken
        BY <1>6 DEF InUse
    <2>2. CASE next = Len(laddrs)
        <3>1. main' = "spawn"
            BY <1>6, <2>2 DEF Bind
        <3>2. \A k \in Places : laddrs[k] \notin scenario.taken
            <4>1. \A k \in Places : k = next \/ k < next
                BY <1>2, <2>2
            <4> QED
                BY <1>4, <2>1, <4>1
        <3> QED
            BY <1>0, <1>3, <3>1, <3>2 DEF Bound, Places
    <2>3. CASE next # Len(laddrs)
        <3>1. main' = "bind" /\ next' = next + 1
            BY <1>6, <2>3 DEF Bind
        <3>2. next + 1 \in Nat \ {0} /\ \A k \in Places : k < next + 1 => k = next \/ k < next
            BY <1>0, <1>2
        <3> QED
            BY <1>0, <1>3, <1>4, <2>1, <3>1, <3>2 DEF Bound, Places
    <2> QED
        BY <2>2, <2>3
<1> QED
    BY <1>5, <1>6

LEMMA BoundKept ==
    ASSUME Bound, UNCHANGED <<scenario, laddrs>>,
           \/ UNCHANGED <<main, next>>
           \/ main \in {"spawn", "wait", "stop"} /\ main' \in {"spawn", "wait", "stop", "returned"}
    PROVE  Bound'
<1>1. Resolved[scenario]' = Resolved[scenario]
    BY DEF Resolved
<1> QED
    BY <1>1 DEF Bound, Places

LEMMA BoundNext == FewAddrs /\ Bound /\ [Next]_vars => Bound'
<1> SUFFICES ASSUME FewAddrs, Bound, [Next]_vars PROVE Bound'
    OBVIOUS
<1>1. CASE Resolve
    BY <1>1, BoundResolve
<1>2. CASE Bind
    BY <1>2, BoundBind
<1>3. CASE Spawn \/ SpawnWatcher \/ Resume \/ Return
    BY <1>3, BoundKept DEF Spawn, SpawnWatcher, Resume, Return
<1>4. ASSUME NEW l \in Places, Report(l) PROVE Bound'
    BY <1>4, BoundKept DEF Report
<1>5. ASSUME NEW l \in Places, Listens(l) \/ Fault(l) PROVE Bound'
    BY <1>5, BoundKept DEF Listens, Fault, SetUp, SetUpFails, ReadFails, CheckClosed, Log, CloseConn, mainVars
<1>6. CASE Watches
    BY <1>6, BoundKept DEF Watches, Wake, CloseListener, SetClosed, mainVars
<1>7. ASSUME NEW c \in Everyone, ShutsDown(c) \/ Call(c) PROVE Bound'
    BY <1>7, BoundKept DEF ShutsDown, Call, Lock, CloseShutdownC, Leave, mainVars
<1>8. CASE UNCHANGED vars
    BY <1>8, BoundKept DEF vars, mainVars
<1> QED
    BY <1>1, <1>2, <1>3, <1>4, <1>5, <1>6, <1>7, <1>8 DEF Next, MainStep

LEMMA BoundAsAsked == FewAddrs /\ Bound => ListensWhereAsked
<1> SUFFICES ASSUME FewAddrs, Bound PROVE ListensWhereAsked
    OBVIOUS
<1> DEFINE s == scenario
<1>1. ASSUME main # "start"
      PROVE  /\ laddrs \in Seq(Addrs) /\ Distinct(laddrs)
             /\ \/ Elements(laddrs) = Asked(s) /\ ~Mixed(s)
                \/ main = "refused" /\ laddrs = <<>> /\ (Unresolved(s) \/ Mixed(s))
    <2>1. s \in Scenarios
        BY DEF Bound
    <2>2. PICK r \in Resolved[s] : laddrs = r.addrs /\ (r.ok \/ main = "refused")
        BY <1>1 DEF Bound
    <2> QED
        BY <2>1, <2>2, ResolvedIs
<1>2. ASSUME laddrs # <<>> PROVE Elements(laddrs) = Asked(s) /\ Len(laddrs) = Cardinality(Asked(s))
    <2>1. main # "start"
        BY <1>2 DEF Bound
    <2>2. laddrs \in Seq(Addrs) /\ Distinct(laddrs) /\ Elements(laddrs) = Asked(s)
        BY <1>1, <1>2, <2>1
    <2> QED
        BY <2>2, DistinctCount
<1>3. ASSUME main = "refused"
      PROVE  Asked(s) \cap s.taken # {} \/ Mixed(s) \/ Asked(s) = {} \/ Unresolved(s)
    <2>1. CASE laddrs = <<>>
        BY <1>1, <1>3, <2>1 DEF Elements
    <2>2. CASE laddrs # <<>> /\ \E k \in Places : laddrs[k] \in s.taken
        BY <1>2, <2>2 DEF Elements, Places
    <2> QED
        BY <1>3, <2>1, <2>2 DEF Bound
<1>4. ASSUME main \in {"spawn", "wait"} PROVE ~Mixed(s) /\ Asked(s) \cap s.taken = {}
    <2>1. Elements(laddrs) = Asked(s) /\ ~Mixed(s) /\ \A k \in Places : laddrs[k] \notin s.taken
        BY <1>1, <1>4 DEF Bound
    <2> QED
        BY <2>1 DEF Elements, Places
<1>5. Elements(laddrs) = {laddrs[l] : l \in Places}
    BY DEF Elements, Places
<1> HIDE DEF s
<1> QED
    BY <1>2, <1>3, <1>4, <1>5 DEF ListensWhereAsked, Asked, Mixed, Unresolved, s

-----------------------------------------------------------------------------
(* Theorems *)

LEMMA InvNext == Inv /\ [Next]_vars => Inv'
<1> SUFFICES ASSUME Inv, [Next]_vars PROVE Inv'
    OBVIOUS
<1>1. CASE Resolve \/ Bind \/ Spawn \/ SpawnWatcher \/ Resume \/ Return
    BY <1>1, LoopMain, ListenResolve, ListenBind, ListenSpawn, ListenMain DEF Inv
<1>2. ASSUME NEW l \in Places, Report(l) PROVE Inv'
    BY <1>2, LoopReport, ListenReport DEF Inv
<1>3. ASSUME NEW l \in Places, Listens(l) \/ Fault(l) PROVE Inv'
    <2>1. UNCHANGED downVars
        BY <1>3 DEF Listens, Fault, SetUp, SetUpFails, ReadFails, CheckClosed, Log, CloseConn
    <2> QED
        BY <1>3, <2>1, LoopListens, ListenListens, MutexKept DEF Inv
<1>4. CASE Watches
    <2>1. UNCHANGED <<mainVars, lisVars, downVars>>
        BY <1>4 DEF Watches, Wake, CloseListener, SetClosed
    <2>2. Done' = Done /\ UNCHANGED <<main, laddrs, told, err, shutdown, caller>>
        BY <2>1 DEF Done, Places, mainVars, lisVars, downVars
    <2> QED
        BY <1>4, <2>1, <2>2, ListenWatches, LoopKept, MutexKept DEF Inv
<1>5. ASSUME NEW c \in Everyone, ShutsDown(c) \/ Call(c) PROVE Inv'
    BY <1>5, CallersStep
<1>6. CASE UNCHANGED vars
    <2>1. UNCHANGED <<mainVars, sock, lisVars, watchVars, downVars>>
        BY <1>6 DEF vars
    <2>2. ListenInv'
        BY <2>1 DEF Inv, ListenInv, ListsType, MainType, Early, SockClosed, Causes, Events, Woken,
                    Places, Held, mainVars, lisVars, watchVars, downVars
    <2>3. Done' = Done /\ UNCHANGED <<main, laddrs, told, err, shutdown, caller>>
        BY <2>1 DEF Done, Places, mainVars, lisVars, downVars
    <2> QED
        BY <2>1, <2>2, <2>3, LoopKept, MutexKept DEF Inv
<1> QED
    BY <1>1, <1>2, <1>3, <1>4, <1>5, <1>6 DEF Next, MainStep

LEMMA Invariant == Spec => []Inv
<1>1. Init => Inv
    BY MutexInit, ListenInit, LoopInit DEF Inv
<1> QED
    BY <1>1, InvNext, PTL DEF Spec

(* However many callers Shutdown has, and whenever listeners fail beside them, the shutdown
   channel is closed once at most.                                                         *)
THEOREM NeverClosedTwice == Spec => []ClosedOnce
<1>1. Inv => ClosedOnce
    BY DEF Inv, Mutex, DownType, Setting, WasSet, NotYet, ClosedOnce
<1> QED
    BY <1>1, Invariant, PTL

(* A listener whose read failed because shutdown closed its socket reports no error: the flag is
   set before isClosed can look at it.  One that reports that it stopped was reading and was shut
   down; whatever ended the setting of its options, a socket that shutdown closed included, is
   reported as an error.                                                                        *)
THEOREM ReportsTrue == Spec => []ErrorsReported
<1>1. Inv => ErrorsReported
    <2> SUFFICES ASSUME Inv, NEW l \in Places
                 PROVE  /\ event[l] = "ListenerError" => cause[l] # "closed"
                        /\ event[l] = "ListenerStop" =>
                              cause[l] \in {"closed", "fault"} /\ closed[l] /\ closes > 0
        BY DEF ErrorsReported
    <2>1. event[l] = "ListenerError" => cause[l] # "closed"
        BY DEF Inv, ListenInv, Events, Causes
    <2>2. event[l] = "ListenerStop" => closed[l] /\ closes # 0
        BY DEF Inv, ListenInv, Events, Woken
    <2>3. event[l] = "ListenerStop" => cause[l] \in {"closed", "fault"}
        BY DEF Inv, ListenInv, Events, Causes
    <2> QED
        BY <2>1, <2>2, <2>3 DEF Inv, Mutex, DownType
<1> QED
    BY <1>1, Invariant, PTL

LEMMA AllDone ==
    ASSUME Inv, told = Len(laddrs)
    PROVE  \A l \in Places : lis[l] = "done"
<1>1. Done \in SUBSET Places /\ Cardinality(Done) = Cardinality(Places)
    BY DoneFinite DEF Inv, LoopInv, Counted, Done
<1> QED
    BY <1>1, DoneFinite, FS_Subset DEF Inv, Done

LEMMA SomePlace ==
    ASSUME Inv, main \notin {"start", "refused"}
    PROVE  Places # {}
<1>1. laddrs # <<>> /\ laddrs \in Seq(Addrs)
    BY DEF Inv, LoopInv, NonEmpty, ListenInv, MainType
<1> QED
    BY <1>1 DEF Places

LEMMA StoppedThen == Inv => ReturnMeansStopped
<1> SUFFICES ASSUME Inv, main = "returned"
             PROVE  /\ closes > 0
                    /\ \A l \in Places : lis[l] = "done" /\ sock[l] = "closed" /\ event[l] # "none"
    BY DEF ReturnMeansStopped
<1>1. \A l \in Places : lis[l] = "done"
    BY AllDone DEF Inv, LoopInv, Counted
<1>2. Done = Places
    BY <1>1 DEF Done
<1>3. \A l \in Places : lis[l] = "done" /\ sock[l] = "closed" /\ event[l] # "none"
    BY <1>2 DEF Done, Inv, ListenInv, SockClosed, Events, Ended
<1>4. PICK l \in Places : TRUE
    BY SomePlace
<1>5. closes > 0
    <2>1. CASE err[l]
        BY <1>2, <1>4, <2>1 DEF Inv, LoopInv, Failed, Mutex, WasSet
    <2>2. CASE ~err[l]
        <3>1. closed[l]
            BY <1>3, <2>2 DEF Inv, ListenInv, Events, Ended
        <3> QED
            BY <3>1 DEF Inv, ListenInv, Woken, Mutex, DownType
    <2> QED
        BY <2>1, <2>2
<1> QED
    BY <1>3, <1>5

(* When ListenAndServe returns, all its listeners are done with their sockets closed, and the
   shutdown channel is, so that no goroutine of the server is left waiting.                *)
THEOREM AllStopped == Spec => []ReturnMeansStopped
BY StoppedThen, Invariant, PTL

(* However many bind addresses there are, and whatever they resolve to, provided that these are few
   enough for sort.Slice to sort them by insertion, the server listens on each of them once: the
   sort of resolveListenAddrs compares by what is no order, and yet leaves no equal ones apart for
   the loop after it to miss.                                                                    *)
THEOREM ListensOnceEach ==
    ASSUME FewAddrs
    PROVE  Spec => []ListensWhereAsked
<1>1. Init => Bound
    BY DEF Init, Bound
<1>2. Bound /\ [Next]_vars => Bound'
    BY BoundNext
<1>3. Bound => ListensWhereAsked
    BY BoundAsAsked
<1> QED
    BY <1>1, <1>2, <1>3, PTL DEF Spec

-----------------------------------------------------------------------------
(* The refinement of Lifecycle *)

Running == main \notin {"start", "bind", "refused"}

LEMMA UpRunning == Up = IF Running THEN {l \in Places : lis[l] \in {"none", "setup", "read"}} ELSE {}
BY DEF Up, Running

\* A step that moves no listener out of those that are up, nor the caller or the channel.
LEMMA SeenKept ==
    ASSUME Up' = Up, Places' = Places, UNCHANGED closes,
           \/ main' = main
           \/ main \in {"start", "bind"} /\ main' \in {"start", "bind"}
           \/ main \in {"spawn", "wait", "stop"} /\ main' \in {"spawn", "wait", "stop"}
    PROVE  UNCHANGED Lifecycle!vars
BY DEF Lifecycle!vars, PhaseSeen

\* A listener that is running has not been counted yet, and the server has not returned.
LEMMA StillRunning ==
    ASSUME Inv, NEW l \in Places, lis[l] \notin {"none", "done"}
    PROVE  main \in {"spawn", "wait", "stop"}
<1>1. main \notin {"start", "bind", "refused"}
    BY DEF Inv, ListenInv, Early
<1>2. main # "returned"
    BY AllDone DEF Inv, LoopInv, Counted
<1> QED
    BY <1>1, <1>2 DEF Inv, ListenInv, MainType

LEMMA ListensSeen ==
    ASSUME Inv, NEW l \in Places, Listens(l) \/ Fault(l)
    PROVE  [Lifecycle!Next]_Lifecycle!vars
<1>1. /\ lis[l] \notin {"none", "done"} /\ UNCHANGED <<main, laddrs, closes>>
      /\ \E w \in LisStates \ {"none"} : lis' = [lis EXCEPT ![l] = w]
            /\ (w \in {"setup", "read"} => lis[l] \in {"setup", "read"})
    BY DEF Inv, ListenInv, ListsType, LisStates, Listens, Fault, SetUp, SetUpFails, ReadFails,
           CheckClosed, Log, CloseConn, mainVars, downVars
<1>2. main \in {"spawn", "wait", "stop"} /\ Places' = Places /\ lis \in [Places -> LisStates]
    BY <1>1, StillRunning DEF Places, Inv, ListenInv, ListsType
<1>3. Up = {k \in Places : lis[k] \in {"none", "setup", "read"}}
    BY <1>2 DEF Up
<1>4. Up' = {k \in Places : lis'[k] \in {"none", "setup", "read"}}
    BY <1>1, <1>2 DEF Up
<1>5. Up' = Up \/ (l \in Up /\ Up' = Up \ {l})
    BY <1>1, <1>2, <1>3, <1>4
<1>6. CASE Up' = Up
    BY <1>1, <1>2, <1>6, SeenKept
<1>7. CASE l \in Up /\ Up' = Up \ {l}
    <2>1. PhaseSeen \in {"on", "stopping"} /\ PhaseSeen' = "stopping"
        BY <1>1, <1>2, <1>7 DEF PhaseSeen
    <2> QED
        BY <1>7, <2>1 DEF Lifecycle!Next, Lifecycle!Down
<1> QED
    BY <1>5, <1>6, <1>7

LEMMA MainSeen ==
    ASSUME Inv, Inv', Resolve \/ Bind \/ Spawn \/ SpawnWatcher \/ Resume \/ Return
    PROVE  [Lifecycle!Next]_Lifecycle!vars
<1>1. CASE Resolve
    <2>1. main = "start" /\ main' \in {"bind", "refused"} /\ Up = {} /\ Up' = {}
        BY <1>1 DEF Resolve, Up
    <2> QED
        BY <2>1 DEF PhaseSeen, Lifecycle!Next, Lifecycle!Refuse, Lifecycle!vars
<1>2. CASE Bind
    <2>1. main = "bind" /\ Up = {} /\ Places' = Places /\ UNCHANGED <<lis, laddrs>>
        BY <1>2 DEF Bind, Up, Places, lisVars
    <2>2. CASE main' \in {"bind", "refused"}
        <3>1. Up' = {}
            BY <2>2 DEF Up
        <3> QED
            BY <2>1, <2>2, <3>1 DEF PhaseSeen, Lifecycle!Next, Lifecycle!Refuse, Lifecycle!vars
    <2>3. CASE main' = "spawn"
        <3>1. \A l \in Places : lis'[l] = "none"
            BY <2>1 DEF Inv, ListenInv, Early
        <3>2. Up' = Places
            BY <2>1, <2>3, <3>1 DEF Up
        <3>3. Places # {} /\ Places \subseteq Nat
            BY <2>1, SomePlace DEF Inv, ListenInv, MainType, Places
        <3>4. PhaseSeen = "off" /\ PhaseSeen' \in {"on", "stopping"}
            BY <2>1, <2>3 DEF PhaseSeen
        <3> QED
            BY <2>1, <3>2, <3>3, <3>4 DEF Lifecycle!Next, Lifecycle!Start
    <2> QED
        BY <1>2, <2>2, <2>3 DEF Bind
<1>3. CASE Spawn
    <2>1. lis' = [lis EXCEPT ![next] = "setup"] /\ lis[next] = "none" /\ Places' = Places
          /\ main = "spawn" /\ main' = "spawn" /\ UNCHANGED closes
        BY <1>3 DEF Inv, ListenInv, Early, MainType, Spawn, Places, downVars
    <2>2. Up' = Up
        BY <2>1 DEF Inv, ListenInv, ListsType, Up
    <2> QED
        BY <2>1, <2>2, SeenKept
<1>4. CASE SpawnWatcher \/ Resume
    <2>1. main \in {"spawn", "stop"} /\ main' = "wait" /\ Places' = Places /\ UNCHANGED <<lis, closes>>
        BY <1>4 DEF SpawnWatcher, Resume, Places, lisVars, downVars
    <2>2. Up' = Up
        BY <2>1 DEF Up
    <2> QED
        BY <2>1, <2>2, SeenKept
<1>5. CASE Return
    <2>1. main = "wait" /\ main' = "returned" /\ Places' = Places /\ UNCHANGED lis
        BY <1>5 DEF Return, Places, lisVars
    <2>2. \A l \in Places : lis[l] = "done"
        BY <1>5, AllDone DEF Return
    <2>3. Up = {} /\ Up' = {} /\ Places # {}
        <3>1. Up = {} /\ Up' = {}
            BY <2>1, <2>2 DEF Up
        <3> QED
            BY <2>1, <3>1, SomePlace
    <2>4. PhaseSeen = "stopping" /\ PhaseSeen' = "stopped"
        BY <2>1, <2>3 DEF PhaseSeen
    <2> QED
        BY <2>3, <2>4 DEF Lifecycle!Next, Lifecycle!Return
<1> QED
    BY <1>1, <1>2, <1>3, <1>4, <1>5

LEMMA CallersSeen ==
    ASSUME Inv, NEW d \in Everyone, ShutsDown(d) \/ Call(d)
    PROVE  [Lifecycle!Next]_Lifecycle!vars
<1>1. UNCHANGED <<main, laddrs, lis>>
    BY DEF ShutsDown, Call, Lock, CloseShutdownC, Leave, mainVars, lisVars
<1>2. Up' = Up /\ Places' = Places
    BY <1>1 DEF Up, Places
<1>3. CASE closes' = closes
    BY <1>1, <1>2, <1>3, SeenKept
<1>4. CASE closes' # closes
    <2>1. closes' = closes + 1 /\ closes \in Nat
        BY <1>4 DEF ShutsDown, Call, Lock, CloseShutdownC, Leave, Inv, Mutex, DownType
    <2>2. PhaseSeen' = PhaseSeen \/ (PhaseSeen = "on" /\ PhaseSeen' = "stopping")
        BY <1>1, <1>2, <2>1 DEF PhaseSeen
    <2> QED
        BY <1>2, <2>2 DEF Lifecycle!Next, Lifecycle!BeToldToStop, Lifecycle!vars
<1> QED
    BY <1>3, <1>4

LEMMA StepSeen == Inv /\ Inv' /\ [Next]_vars => [Lifecycle!Next]_Lifecycle!vars
<1> SUFFICES ASSUME Inv, Inv', [Next]_vars PROVE [Lifecycle!Next]_Lifecycle!vars
    OBVIOUS
<1>1. CASE Resolve \/ Bind \/ Spawn \/ SpawnWatcher \/ Resume \/ Return
    BY <1>1, MainSeen
<1>2. ASSUME NEW l \in Places, Report(l) PROVE UNCHANGED Lifecycle!vars
    <2>1. /\ main = "wait" /\ main' \in {"wait", "stop"} /\ Places' = Places /\ UNCHANGED closes
          /\ lis[l] = "report" /\ lis' = [lis EXCEPT ![l] = "done"]
        BY <1>2 DEF Report, Places
    <2>2. Up' = Up
        BY <2>1 DEF Inv, ListenInv, ListsType, Up
    <2> QED
        BY <2>1, <2>2, SeenKept
<1>3. ASSUME NEW l \in Places, Listens(l) \/ Fault(l) PROVE [Lifecycle!Next]_Lifecycle!vars
    BY <1>3, ListensSeen
<1>4. CASE Watches \/ UNCHANGED vars
    <2>1. UNCHANGED <<main, laddrs, lis, closes>>
        BY <1>4 DEF Watches, Wake, CloseListener, SetClosed, vars, mainVars, lisVars, downVars
    <2>2. Up' = Up /\ Places' = Places
        BY <2>1 DEF Up, Places
    <2> QED
        BY <2>1, <2>2, SeenKept
<1>5. ASSUME NEW c \in Everyone, ShutsDown(c) \/ Call(c) PROVE [Lifecycle!Next]_Lifecycle!vars
    BY <1>5, CallersSeen
<1> QED
    BY <1>1, <1>2, <1>3, <1>4, <1>5 DEF Next, MainStep

(* Each step of the server and its goroutines is one of Lifecycle or none: it starts on all of
   its addresses or not at all, and never returns while a listener is up.  That it does return
   is left to the run.                                                                     *)
THEOREM ImplementsLifecycle == Spec => Lifecycle!Safety
<1>1. Init => Lifecycle!Init
    BY DEF Init, Lifecycle!Init, PhaseSeen, Up
<1> QED
    BY <1>1, StepSeen, Invariant, PTL DEF Spec, Lifecycle!Safety
=============================================================================
