--------------------------- MODULE ExchangeProofs ---------------------------
(***************************************************************************)
(* Proofs about Exchange: whatever the scenarios, the clocks, the fields'  *)
(* capacities and the lengths are, the keys decide which datagrams are     *)
(* taken, both ends have agreed on the same terms, and, if the stamps that *)
(* are granted are all sent back, what is read is what was meant, payloads *)
(* are returned and the delays are true.                                   *)
(*                                                                         *)
(* The proofs go upwards: the room that fields take and where each starts, *)
(* sequences of bytes, what an array has laid in it, what each operation   *)
(* on a packet lays, what the signed bytes of each kind of datagram are,   *)
(* what is heard of them at the other end, and then the invariant of the   *)
(* whole: every datagram in the network is one of the five kinds, signed   *)
(* by who sent it, and its client and its connection still agree on it.    *)
(***************************************************************************)
EXTENDS Exchange, FiniteSetTheorems, SequenceTheorems, TLAPS

-----------------------------------------------------------------------------
(* The room that fields take *)

\* The places of a field's bytes, which Room counts.
Box(f) == {f} \X (1 .. FCaps[f])
Boxes(F) == UNION {Box(f) : f \in F}

\* There are 13 fields, each of some bytes.
LEMMA FieldFacts ==
  /\ Fields = 1 .. 13
  /\ \A f \in Fields : f \in Nat /\ FCaps[f] \in Nat /\ FCaps[f] > 0
<1>1. FCaps \in Seq(Nat \ {0}) /\ Len(FCaps) = 13 BY FieldBufferAssumption, PacketAssumption
<1>2. DOMAIN FCaps = 1 .. 13 BY <1>1
<1>3. \A f \in 1 .. 13 : FCaps[f] \in Nat \ {0}
  <2> TAKE f \in 1 .. 13
  <2>1. f \in 1 .. Len(FCaps) BY <1>1
  <2> QED BY <1>1, <2>1, ElementOfSeq
<1> QED BY <1>2, <1>3 DEF Fields

\* A field takes as many bytes as its capacity.
LEMMA BoxSize ==
  ASSUME NEW f \in Fields
  PROVE  IsFiniteSet(Box(f)) /\ Cardinality(Box(f)) = FCaps[f]
<1>1. FCaps[f] \in Nat BY FieldFacts
<1>2. IsFiniteSet({f}) /\ Cardinality({f}) = 1 BY FS_Singleton
<1>3. IsFiniteSet(1 .. FCaps[f]) /\ Cardinality(1 .. FCaps[f]) = FCaps[f]
  BY <1>1, FS_Interval
<1>4. IsFiniteSet(Box(f)) /\ Cardinality(Box(f)) = 1 * FCaps[f]
  <2>1. /\ IsFiniteSet({f} \X (1 .. FCaps[f]))
        /\ Cardinality({f} \X (1 .. FCaps[f])) = Cardinality({f}) * Cardinality(1 .. FCaps[f])
    BY <1>2, <1>3, FS_Product, Zenon
  <2> QED BY <1>2, <1>3, <2>1, Zenon DEF Box
<1>5. 1 * FCaps[f] = FCaps[f] BY <1>1
<1> QED BY <1>4, <1>5, Zenon

\* Fields take finitely many bytes.
LEMMA BoxesFinite == ASSUME NEW F \in SUBSET Fields PROVE IsFiniteSet(Boxes(F))
<1> DEFINE B == {Box(f) : f \in F}
           g == [f \in F |-> Box(f)]
<1>1. IsFiniteSet(F)
  <2>1. 1 \in Int /\ 13 \in Int OBVIOUS
  <2>2. IsFiniteSet(1 .. 13) BY <2>1, FS_Interval, Zenon
  <2>3. F \subseteq 1 .. 13 BY FieldFacts
  <2> QED BY <2>2, <2>3, FS_Subset, Zenon
<1>2. g \in Surjection(F, B) BY DEF Surjection
<1>3. IsFiniteSet(B) BY <1>1, <1>2, FS_Surjection
<1>4. \A T \in B : IsFiniteSet(T) BY BoxSize
<1> QED BY <1>3, <1>4, FS_UNION DEF Boxes

\* Room counts the places of the bytes.
LEMMA RoomIsBoxes == \A F : Room(F) = Cardinality(Boxes(F)) BY DEF Room, Boxes, Box

\* Fields that differ have bytes of their own.
LEMMA RoomAdds ==
  ASSUME NEW F \in SUBSET Fields, NEW G \in SUBSET Fields, F \cap G = {}
  PROVE  Room(F \cup G) = Room(F) + Room(G)
<1>1. Boxes(F \cup G) = Boxes(F) \cup Boxes(G) BY DEF Boxes
<1>2. Boxes(F) \cap Boxes(G) = {}
  <2> SUFFICES ASSUME NEW x \in Boxes(F), x \in Boxes(G) PROVE FALSE OBVIOUS
  <2>1. PICK f \in F : x \in Box(f) BY DEF Boxes
  <2>2. PICK g \in G : x \in Box(g) BY DEF Boxes
  <2>3. x[1] = f /\ x[1] = g BY <2>1, <2>2 DEF Box
  <2> QED BY <2>3
<1>3. IsFiniteSet(Boxes(F)) /\ IsFiniteSet(Boxes(G)) BY BoxesFinite
<1>4. Cardinality(Boxes(F) \cup Boxes(G))
        = Cardinality(Boxes(F)) + Cardinality(Boxes(G)) - Cardinality({})
  BY <1>2, <1>3, FS_Union
<1>5. Cardinality({}) = 0 BY FS_EmptySet
<1>6. Cardinality(Boxes(F)) \in Nat /\ Cardinality(Boxes(G)) \in Nat
  BY <1>3, FS_CardinalityType
<1>7. /\ Room(F \cup G) = Cardinality(Boxes(F) \cup Boxes(G))
      /\ Room(F) = Cardinality(Boxes(F)) /\ Room(G) = Cardinality(Boxes(G))
  BY <1>1, RoomIsBoxes, Zenon
<1> QED BY <1>4, <1>5, <1>6, <1>7

\* Room is a number.
LEMMA RoomType == ASSUME NEW F \in SUBSET Fields PROVE Room(F) \in Nat
  BY BoxesFinite, FS_CardinalityType, RoomIsBoxes

\* No fields take no room.
LEMMA RoomEmpty == Room({}) = 0
<1>1. Boxes({}) = {} BY DEF Boxes
<1> QED BY <1>1, FS_EmptySet, RoomIsBoxes

\* One field takes its capacity.
LEMMA RoomOne == ASSUME NEW f \in Fields PROVE Room({f}) = FCaps[f]
<1>1. Boxes({f}) = Box(f) BY DEF Boxes
<1> QED BY <1>1, BoxSize, RoomIsBoxes

\* More fields take no less room.
LEMMA RoomMore ==
  ASSUME NEW G \in SUBSET Fields, NEW F \in SUBSET G
  PROVE  Room(F) <= Room(G)
<1>1. Room(F \cup (G \ F)) = Room(F) + Room(G \ F) BY RoomAdds
<1>2. F \cup (G \ F) = G OBVIOUS
<1>3. Room(F) \in Nat /\ Room(G \ F) \in Nat BY RoomType
<1>4. Room(G) = Room(F) + Room(G \ F) BY <1>1, <1>2, Zenon
<1> QED BY <1>3, <1>4

\* A field that is added takes its capacity more.
LEMMA RoomPlus ==
  ASSUME NEW F \in SUBSET Fields, NEW f \in Fields, f \notin F
  PROVE  Room(F \cup {f}) = Room(F) + FCaps[f]
  BY RoomAdds, RoomOne

-----------------------------------------------------------------------------
(* Sequences of any bytes *)

AnySeq(s) == \E S : s \in Seq(S)

\* A sequence has a length and its indexes up to it.
LEMMA SeqFacts ==
  ASSUME NEW s, AnySeq(s)
  PROVE  Len(s) \in Nat /\ DOMAIN s = 1 .. Len(s)
<1>1. PICK S : s \in Seq(S) BY DEF AnySeq
<1> QED BY <1>1, LenProperties

\* Sequences with the same elements are the same.
LEMMA SeqSame ==
  ASSUME NEW s, NEW t, AnySeq(s), AnySeq(t), Len(s) = Len(t),
         \A i \in 1 .. Len(s) : s[i] = t[i]
  PROVE  s = t
<1>1. PICK S : s \in Seq(S) BY DEF AnySeq
<1>2. PICK T : t \in Seq(T) BY DEF AnySeq
<1>3. s \in Seq(S \cup T) /\ t \in Seq(S \cup T) BY <1>1, <1>2, SeqMonotonic
<1> QED BY <1>3, SeqEqual

\* Elements of a concatenation.
LEMMA AnyCat ==
  ASSUME NEW s, NEW t, AnySeq(s), AnySeq(t)
  PROVE  /\ AnySeq(s \o t)
         /\ Len(s \o t) = Len(s) + Len(t)
         /\ \A i \in 1 .. Len(s) + Len(t) :
               (s \o t)[i] = IF i <= Len(s) THEN s[i] ELSE t[i - Len(s)]
<1>1. PICK S : s \in Seq(S) BY DEF AnySeq
<1>2. PICK T : t \in Seq(T) BY DEF AnySeq
<1>3. s \in Seq(S \cup T) /\ t \in Seq(S \cup T) BY <1>1, <1>2, SeqMonotonic
<1>4. /\ s \o t \in Seq(S \cup T)
      /\ Len(s \o t) = Len(s) + Len(t)
      /\ \A i \in 1 .. Len(s) + Len(t) :
            (s \o t)[i] = IF i <= Len(s) THEN s[i] ELSE t[i - Len(s)]
  BY <1>3, ConcatProperties
<1> QED BY <1>4 DEF AnySeq

\* Elements of a part.
LEMMA AnySub ==
  ASSUME NEW s, AnySeq(s), NEW m \in Nat \ {0}, NEW n \in Int, n <= Len(s)
  PROVE  /\ AnySeq(SubSeq(s, m, n))
         /\ Len(SubSeq(s, m, n)) = IF m <= n THEN n - m + 1 ELSE 0
         /\ \A i \in 1 .. n - m + 1 : SubSeq(s, m, n)[i] = s[m + i - 1]
<1>1. PICK S : s \in Seq(S) BY DEF AnySeq
<1>2. \A i \in m .. n : s[i] \in S BY <1>1, LenProperties
<1>3. m \in Int OBVIOUS
<1>4. /\ SubSeq(s, m, n) \in Seq(S)
      /\ Len(SubSeq(s, m, n)) = IF m <= n THEN n - m + 1 ELSE 0
      /\ \A i \in 1 .. n - m + 1 : SubSeq(s, m, n)[i] = s[m + i - 1]
  BY <1>2, <1>3, SubSeqProperties
<1> QED BY <1>4 DEF AnySeq

\* Bytes put at a place replace those that were there, and no others.
LEMMA AnyAt ==
  ASSUME NEW bytes, NEW array, AnySeq(bytes), AnySeq(array),
         NEW pos \in Nat, pos + Len(bytes) <= Len(array)
  PROVE  /\ AnySeq(At(bytes, pos, array))
         /\ Len(At(bytes, pos, array)) = Len(array)
         /\ \A i \in 1 .. Len(array) :
               At(bytes, pos, array)[i] =
                  IF pos < i /\ i <= pos + Len(bytes) THEN bytes[i - pos] ELSE array[i]
<1> DEFINE a == SubSeq(array, 1, pos)
           z == SubSeq(array, pos + Len(bytes) + 1, Len(array))
<1>1. Len(bytes) \in Nat /\ Len(array) \in Nat BY SeqFacts
<1>2. AnySeq(a) /\ Len(a) = pos /\ \A i \in 1 .. pos : a[i] = array[i]
  <2>1. /\ AnySeq(a) /\ Len(a) = IF 1 <= pos THEN pos - 1 + 1 ELSE 0
        /\ \A i \in 1 .. pos - 1 + 1 : a[i] = array[1 + i - 1]
    BY <1>1, AnySub
  <2> QED BY <2>1
<1>3. /\ AnySeq(z) /\ Len(z) = Len(array) - (pos + Len(bytes))
      /\ \A i \in 1 .. Len(array) - (pos + Len(bytes)) : z[i] = array[pos + Len(bytes) + i]
  <2> DEFINE m == pos + Len(bytes) + 1
  <2>1. m \in Nat \ {0} BY <1>1
  <2>2. /\ AnySeq(z) /\ Len(z) = IF m <= Len(array) THEN Len(array) - m + 1 ELSE 0
        /\ \A i \in 1 .. Len(array) - m + 1 : z[i] = array[m + i - 1]
    BY <1>1, <2>1, AnySub
  <2> QED BY <1>1, <2>2
<1> HIDE DEF a, z
<1>4. /\ AnySeq(a \o bytes) /\ Len(a \o bytes) = pos + Len(bytes)
      /\ \A i \in 1 .. pos + Len(bytes) :
            (a \o bytes)[i] = IF i <= pos THEN array[i] ELSE bytes[i - pos]
  <2>1. /\ AnySeq(a \o bytes) /\ Len(a \o bytes) = Len(a) + Len(bytes)
        /\ \A i \in 1 .. Len(a) + Len(bytes) :
              (a \o bytes)[i] = IF i <= Len(a) THEN a[i] ELSE bytes[i - Len(a)]
    BY <1>2, AnyCat
  <2> QED BY <1>1, <1>2, <2>1
<1>5. /\ AnySeq(a \o bytes \o z) /\ Len(a \o bytes \o z) = Len(array)
      /\ \A i \in 1 .. Len(array) :
            (a \o bytes \o z)[i] = IF i <= pos + Len(bytes) THEN (a \o bytes)[i]
                                   ELSE z[i - (pos + Len(bytes))]
  <2>1. /\ AnySeq(a \o bytes \o z) /\ Len(a \o bytes \o z) = Len(a \o bytes) + Len(z)
        /\ \A i \in 1 .. Len(a \o bytes) + Len(z) :
              (a \o bytes \o z)[i] = IF i <= Len(a \o bytes) THEN (a \o bytes)[i]
                                     ELSE z[i - Len(a \o bytes)]
    BY <1>3, <1>4, AnyCat
  <2> QED BY <1>1, <1>3, <1>4, <2>1
<1>6. At(bytes, pos, array) = a \o bytes \o z BY DEF At, a, z
<1>7. \A i \in 1 .. Len(array) :
         (a \o bytes \o z)[i] =
            IF pos < i /\ i <= pos + Len(bytes) THEN bytes[i - pos] ELSE array[i]
  BY <1>1, <1>3, <1>4, <1>5
<1> QED BY <1>5, <1>6, <1>7

\* A sequence of one element over and over.
LEMMA AnyMade ==
  ASSUME NEW n \in Nat, NEW e
  PROVE  /\ AnySeq([i \in 1 .. n |-> e]) /\ Len([i \in 1 .. n |-> e]) = n
         /\ \A i \in 1 .. n : [j \in 1 .. n |-> e][i] = e
<1>1. [i \in 1 .. n |-> e] \in Seq({e}) OBVIOUS
<1>2. Len([i \in 1 .. n |-> e]) = n OBVIOUS
<1>3. AnySeq([i \in 1 .. n |-> e]) BY <1>1, Zenon DEF AnySeq
<1> QED BY <1>2, <1>3

\* The k-th byte of a value.
Byte(val, k) == IF val = Zero THEN ZeroByte ELSE <<val[1], val[2], k>>

\* Bytes of a value.
LEMMA BytesAre ==
  ASSUME NEW val, NEW width \in Nat
  PROVE  /\ AnySeq(Bytes(val, width)) /\ Len(Bytes(val, width)) = width
         /\ \A k \in 1 .. width : Bytes(val, width)[k] = Byte(val, k)
<1> DEFINE S == {Byte(val, k) : k \in 1 .. width}
<1>1. Bytes(val, width) = [k \in 1 .. width |-> Byte(val, k)] BY DEF Bytes, Byte
<1> HIDE DEF Byte
<1>2. [k \in 1 .. width |-> Byte(val, k)] \in Seq(S) OBVIOUS
<1>3. Len([k \in 1 .. width |-> Byte(val, k)]) = width OBVIOUS
<1> QED BY <1>1, <1>2, <1>3 DEF AnySeq

\* A value that can be read again.
Proper(val) == val = <<val[1], val[2]>>

\* What is read from all the bytes of a value is the value.
LEMMA ValueOfBytes ==
  ASSUME NEW bytes, AnySeq(bytes), Len(bytes) > 0, NEW val, Proper(val),
         \A k \in 1 .. Len(bytes) : bytes[k] = Byte(val, k)
  PROVE  Value(bytes) = val
<1>1. Len(bytes) \in Nat BY SeqFacts
<1>2. bytes = Bytes(val, Len(bytes)) BY <1>1, BytesAre, SeqSame
<1>3. bytes[1] = Byte(val, 1) BY <1>1
<1>4. <<bytes[1][1], bytes[1][2]>> = val
  <2>1. CASE val = Zero BY <1>3, <2>1 DEF Byte, ZeroByte, Zero
  <2>2. CASE val # Zero
    <3>1. bytes[1] = <<val[1], val[2], 1>> BY <1>3, <2>2 DEF Byte
    <3>2. bytes[1][1] = val[1] /\ bytes[1][2] = val[2] BY <3>1
    <3> QED BY <3>2 DEF Proper
  <2> QED BY <2>1, <2>2
<1> QED BY <1>2, <1>4 DEF Value

-----------------------------------------------------------------------------
(* Where the bytes of a field start *)

Start(D, f) == Room({g \in D : g < f})

\* A field ends where the next one starts at the latest, and all end within their room.
LEMMA StartFits ==
  ASSUME NEW D \in SUBSET Fields, NEW f \in Fields
  PROVE  /\ Start(D, f) \in Nat /\ Start(D, f) <= Room(D)
         /\ f \in D => Start(D, f) + FCaps[f] <= Room(D)
         /\ \A g \in Fields : f \in D /\ f < g => Start(D, f) + FCaps[f] <= Start(D, g)
<1> DEFINE B == {g \in D : g < f}
<1>1. B \in SUBSET D /\ B \in SUBSET Fields OBVIOUS
<1>2. Start(D, f) = Room(B) BY DEF Start
<1>3. f \notin B BY FieldFacts
<1>4. Room(B \cup {f}) = Room(B) + FCaps[f] BY <1>1, <1>3, RoomPlus
<1>5. ASSUME f \in D PROVE Room(B \cup {f}) <= Room(D)
  <2>1. B \cup {f} \in SUBSET D BY <1>5
  <2> QED BY <2>1, RoomMore
<1>6. ASSUME NEW g \in Fields, f \in D, f < g PROVE Room(B \cup {f}) <= Start(D, g)
  <2>1. f \in Int /\ g \in Int /\ \A h \in D : h \in Int BY FieldFacts
  <2>2. \A h \in B \cup {f} : h \in D /\ h < g BY <1>6, <2>1
  <2>3. {h \in D : h < g} \in SUBSET Fields /\ B \cup {f} \in SUBSET {h \in D : h < g} BY <2>2
  <2> QED BY <2>3, RoomMore DEF Start
<1>7. Room(B) \in Nat /\ Room(B) <= Room(D) BY <1>1, RoomType, RoomMore
<1> QED BY <1>2, <1>4, <1>5, <1>6, <1>7

\* A field that is added moves those after it, and no others.
LEMMA StartGrows ==
  ASSUME NEW D \in SUBSET Fields, NEW f \in Fields, f \notin D, NEW g \in Fields
  PROVE  Start(D \cup {f}, g) = IF f < g THEN Start(D, g) + FCaps[f] ELSE Start(D, g)
<1> DEFINE B == {h \in D : h < g}
<1>1. CASE f < g
  <2>1. {h \in D \cup {f} : h < g} = B \cup {f} BY <1>1
  <2>2. B \in SUBSET Fields /\ f \notin B OBVIOUS
  <2> QED BY <1>1, <2>1, <2>2, RoomPlus DEF Start
<1>2. CASE ~(f < g)
  <2>1. {h \in D \cup {f} : h < g} = B BY <1>2
  <2> QED BY <1>2, <2>1 DEF Start
<1> QED BY <1>1, <1>2

\* The byte that is i-th of the fields is of one of them.
LEMMA StartCovers ==
  ASSUME NEW D \in SUBSET Fields, NEW i \in 1 .. Room(D)
  PROVE  \E f \in D : \E k \in 1 .. FCaps[f] : i = Start(D, f) + k
<1>0. \A g \in D : g \in Nat /\ 1 <= g /\ g <= 13 BY FieldFacts
<1> DEFINE R(j) == Room({g \in D : g < j})
<1>1. \A j \in 1 .. 13 : R(j + 1) = R(j) + (IF j \in D THEN FCaps[j] ELSE 0)
  <2> TAKE j \in 1 .. 13
  <2>1. CASE j \in D
    <3> DEFINE B == {g \in D : g < j}
    <3>1. \A g \in D : g < j + 1 <=> g < j \/ g = j BY <1>0
    <3>2. {g \in D : g < j + 1} = B \cup {j} BY <2>1, <3>1
    <3>3. ~(j < j) OBVIOUS
    <3>4. B \in SUBSET Fields /\ j \in Fields /\ j \notin B BY <2>1, <3>3
    <3>5. Room(B \cup {j}) = Room(B) + FCaps[j] BY <3>4, RoomPlus
    <3> QED BY <2>1, <3>2, <3>5
  <2>2. CASE j \notin D
    <3>1. {g \in D : g < j + 1} = {g \in D : g < j} BY <1>0, <2>2
    <3>2. {g \in D : g < j} \in SUBSET Fields OBVIOUS
    <3> QED BY <2>2, <3>1, <3>2, RoomType
  <2> QED BY <2>1, <2>2
<1>2. \A j \in 1 .. 14 : R(j) \in Nat BY RoomType
<1>3. R(1) = 0
  <2>1. {g \in D : g < 1} = {} BY <1>0
  <2> QED BY <2>1, RoomEmpty
<1>4. R(14) = Room(D)
  <2>1. {g \in D : g < 14} = D BY <1>0
  <2> QED BY <2>1
<1>5. \A j \in 1 .. 13 : R(j) = Start(D, j) BY DEF Start
<1> HIDE DEF R
<1>6. Room(D) \in Nat BY RoomType
<1>7. \E j \in 1 .. 13 : R(j) < i /\ i <= R(j + 1)
  <2> SUFFICES ASSUME \A j \in 1 .. 13 : ~(R(j) < i /\ i <= R(j + 1)) PROVE FALSE OBVIOUS
  <2>1. R(1) < i BY <1>3
  <2>2. R(2) < i BY <1>2, <2>1
  <2>3. R(3) < i BY <1>2, <2>2
  <2>4. R(4) < i BY <1>2, <2>3
  <2>5. R(5) < i BY <1>2, <2>4
  <2>6. R(6) < i BY <1>2, <2>5
  <2>7. R(7) < i BY <1>2, <2>6
  <2>8. R(8) < i BY <1>2, <2>7
  <2>9. R(9) < i BY <1>2, <2>8
  <2>10. R(10) < i BY <1>2, <2>9
  <2>11. R(11) < i BY <1>2, <2>10
  <2>12. R(12) < i BY <1>2, <2>11
  <2>13. R(13) < i BY <1>2, <2>12
  <2>14. R(14) < i BY <1>2, <2>13
  <2> QED BY <1>4, <1>6, <2>14
<1>8. PICK j \in 1 .. 13 : R(j) < i /\ i <= R(j + 1) BY <1>7
<1>9. j \in Fields /\ FCaps[j] \in Nat BY FieldFacts
<1>10. j \in D BY <1>1, <1>2, <1>8
<1>11. R(j) \in Nat /\ R(j + 1) = R(j) + FCaps[j] BY <1>1, <1>2, <1>10
<1>12. i - R(j) \in 1 .. FCaps[j] /\ i = R(j) + (i - R(j)) BY <1>8, <1>9, <1>11
<1> QED BY <1>5, <1>10, <1>12

-----------------------------------------------------------------------------
(* What a buffer holds *)

IsBuffer(fb) ==
  /\ fb = [array |-> fb.array, len |-> fb.len, set |-> fb.set, tlen |-> fb.tlen]
  /\ AnySeq(fb.array)
  /\ fb.set \in SUBSET Fields

With(vals, f, val) == [g \in DOMAIN vals \cup {f} |-> IF g = f THEN val ELSE vals[g]]

(* The array has the fields' values in their order from its start, and then load. *)
Lay(array, vals, load) ==
  /\ DOMAIN vals \in SUBSET Fields
  /\ AnySeq(array) /\ AnySeq(load)
  /\ Room(DOMAIN vals) + Len(load) <= Len(array)
  /\ \A f \in DOMAIN vals : \A k \in 1 .. FCaps[f] :
        array[Start(DOMAIN vals, f) + k] = Byte(vals[f], k)
  /\ \A i \in 1 .. Len(load) : array[Room(DOMAIN vals) + i] = load[i]

\* b is a with a value's bytes written over those after pos.
Wrote(a, b, pos, width, val) ==
  /\ AnySeq(b) /\ Len(b) = Len(a)
  /\ \A i \in 1 .. Len(a) :
        b[i] = IF pos < i /\ i <= pos + width THEN Byte(val, i - pos) ELSE a[i]

\* The same, but what is there up to len has moved first.
Moved(a, b, pos, width, val, len) ==
  /\ AnySeq(b) /\ Len(b) = Len(a)
  /\ \A i \in 1 .. Len(a) :
        b[i] = IF pos < i /\ i <= pos + width THEN Byte(val, i - pos)
               ELSE IF pos + width < i /\ i <= len + width THEN a[i - width] ELSE a[i]

\* A field is read where it was laid.
LEMMA GetLaid ==
  ASSUME NEW fb, NEW vals, NEW load, Lay(fb.array, vals, load),
         NEW f \in DOMAIN vals, Pos(fb, f) = Start(DOMAIN vals, f), Proper(vals[f])
  PROVE  Get(fb, f) = vals[f]
<1> DEFINE D == DOMAIN vals
           pos == Start(D, f)
           bytes == SubSeq(fb.array, pos + 1, pos + FCaps[f])
<1>1. D \in SUBSET Fields /\ f \in Fields /\ FCaps[f] \in Nat /\ FCaps[f] > 0
  BY FieldFacts DEF Lay
<1>2. pos \in Nat /\ pos + FCaps[f] <= Room(D) /\ Room(D) \in Nat
  BY <1>1, StartFits, RoomType
<1>3. AnySeq(fb.array) /\ Len(fb.array) \in Nat /\ Room(D) <= Len(fb.array)
  <2>1. AnySeq(fb.array) /\ AnySeq(load) /\ Room(D) + Len(load) <= Len(fb.array) BY DEF Lay
  <2> QED BY <1>2, <2>1, SeqFacts
<1>4. \A k \in 1 .. FCaps[f] : fb.array[pos + k] = Byte(vals[f], k) BY DEF Lay
<1>5. /\ AnySeq(bytes) /\ Len(bytes) = FCaps[f]
      /\ \A k \in 1 .. FCaps[f] : bytes[k] = fb.array[pos + k]
  <2> DEFINE m == pos + 1
             n == pos + FCaps[f]
  <2>1. m \in Nat \ {0} /\ n \in Int /\ n <= Len(fb.array) BY <1>1, <1>2, <1>3
  <2>2. /\ AnySeq(bytes) /\ Len(bytes) = IF m <= n THEN n - m + 1 ELSE 0
        /\ \A i \in 1 .. n - m + 1 : bytes[i] = fb.array[m + i - 1]
    BY <1>3, <2>1, AnySub
  <2>3. m <= n /\ n - m + 1 = FCaps[f] /\ \A k \in 1 .. FCaps[f] : m + k - 1 = pos + k
    BY <1>1, <1>2
  <2> QED BY <2>2, <2>3
<1> HIDE DEF bytes
<1>6. \A k \in 1 .. Len(bytes) : bytes[k] = Byte(vals[f], k) BY <1>4, <1>5
<1>7. Value(bytes) = vals[f] BY <1>1, <1>5, <1>6, ValueOfBytes
<1>8. Get(fb, f) = Value(bytes) BY DEF Get, bytes
<1> QED BY <1>7, <1>8

\* A value goes into a buffer that has its field.
Into(fb, pos, f, val) == [fb EXCEPT !.array = At(Bytes(val, FCaps[f]), pos, fb.array)]

\* Put writes the bytes, after Grow if the field was not set.
LEMMA PutIs ==
  ASSUME NEW fb, NEW f, NEW val
  PROVE  /\ f \in fb.set => Put(fb, f, val) = Into(fb, Pos(fb, f), f, val)
         /\ f \notin fb.set => Put(fb, f, val) = Into(Grow(fb, f), Pos(fb, f), f, val)
<1>1. ASSUME f \in fb.set PROVE Put(fb, f, val) = Into(fb, Pos(fb, f), f, val)
  BY <1>1 DEF Put, Into
<1>2. ASSUME f \notin fb.set PROVE Put(fb, f, val) = Into(Grow(fb, f), Pos(fb, f), f, val)
  BY <1>2 DEF Put, Into
<1> QED BY <1>1, <1>2

\* What Into writes.
LEMMA IntoLays ==
  ASSUME NEW fb, IsBuffer(fb), NEW f \in Fields, NEW val, NEW pos \in Nat,
         pos + FCaps[f] <= Len(fb.array)
  PROVE  LET q == Into(fb, pos, f, val)
         IN  /\ IsBuffer(q) /\ q.set = fb.set /\ q.len = fb.len /\ q.tlen = fb.tlen
             /\ Wrote(fb.array, q.array, pos, FCaps[f], val)
<1> DEFINE bytes == Bytes(val, FCaps[f])
           array == At(bytes, pos, fb.array)
           q == Into(fb, pos, f, val)
<1>1. AnySeq(fb.array) BY DEF IsBuffer
<1>2. FCaps[f] \in Nat BY FieldFacts
<1>3. /\ AnySeq(bytes) /\ Len(bytes) = FCaps[f]
      /\ \A k \in 1 .. FCaps[f] : bytes[k] = Byte(val, k)
  BY <1>2, BytesAre
<1> HIDE DEF bytes
<1>4. /\ AnySeq(array) /\ Len(array) = Len(fb.array)
      /\ \A i \in 1 .. Len(fb.array) :
            array[i] = IF pos < i /\ i <= pos + Len(bytes) THEN bytes[i - pos] ELSE fb.array[i]
  BY <1>1, <1>3, AnyAt
<1>5. q = [fb EXCEPT !.array = array] BY DEF Into, bytes
<1> HIDE DEF array, q
<1>6. q.array = array /\ q.len = fb.len /\ q.set = fb.set /\ q.tlen = fb.tlen
      /\ q = [array |-> array, len |-> fb.len, set |-> fb.set, tlen |-> fb.tlen]
  BY <1>5 DEF IsBuffer
<1>7. IsBuffer(q) BY <1>4, <1>6 DEF IsBuffer
<1>8. \A i \in 1 .. Len(fb.array) :
         q.array[i] = IF pos < i /\ i <= pos + FCaps[f] THEN Byte(val, i - pos) ELSE fb.array[i]
  <2> TAKE i \in 1 .. Len(fb.array)
  <2>1. Len(fb.array) \in Nat BY <1>1, SeqFacts
  <2>2. CASE pos < i /\ i <= pos + FCaps[f]
    <3>1. i - pos \in 1 .. FCaps[f] BY <1>2, <2>1, <2>2
    <3> QED BY <1>3, <1>4, <1>6, <2>2, <3>1
  <2> QED BY <1>3, <1>4, <1>6, <2>2
<1> QED BY <1>4, <1>6, <1>7, <1>8 DEF q, Wrote, IsBuffer

\* Put of a field that is set.
LEMMA PutKept ==
  ASSUME NEW fb, IsBuffer(fb), NEW f \in fb.set, NEW val, Room(fb.set) <= Len(fb.array)
  PROVE  LET q == Put(fb, f, val)
             pos == Start(fb.set, f)
         IN  /\ IsBuffer(q) /\ q.set = fb.set /\ q.len = fb.len /\ q.tlen = fb.tlen
             /\ Wrote(fb.array, q.array, pos, FCaps[f], val)
<1> DEFINE pos == Start(fb.set, f)
<1>1. fb.set \in SUBSET Fields /\ AnySeq(fb.array) /\ f \in Fields BY DEF IsBuffer
<1>2. pos \in Nat /\ pos + FCaps[f] <= Room(fb.set) /\ Room(fb.set) \in Nat /\ FCaps[f] \in Nat
  BY <1>1, StartFits, RoomType, FieldFacts
<1>3. pos + FCaps[f] <= Len(fb.array)
  <2>1. Len(fb.array) \in Nat BY <1>1, SeqFacts
  <2> QED BY <1>2, <2>1
<1>4. Put(fb, f, val) = Into(fb, pos, f, val)
  <2>1. Pos(fb, f) = pos BY DEF Pos, Start
  <2> QED BY <2>1, PutIs
<1> HIDE DEF pos
<1> QED BY <1>1, <1>2, <1>3, <1>4, IntoLays DEF pos

\* A field that was there has its new value, and all else is as it was.
LEMMA LayKept ==
  ASSUME NEW a, NEW b, NEW vals, NEW load, Lay(a, vals, load), NEW f \in DOMAIN vals, NEW val,
         Wrote(a, b, Start(DOMAIN vals, f), FCaps[f], val)
  PROVE  Lay(b, With(vals, f, val), load)
<1> DEFINE D == DOMAIN vals
           pos == Start(D, f)
           w == With(vals, f, val)
<1>1. D \in SUBSET Fields /\ f \in Fields BY DEF Lay
<1>2. \A g \in D : g \in Nat /\ FCaps[g] \in Nat BY <1>1, FieldFacts
<1>3. AnySeq(a) /\ AnySeq(load) /\ Room(D) + Len(load) <= Len(a)
      /\ (\A g \in D : \A k \in 1 .. FCaps[g] : a[Start(D, g) + k] = Byte(vals[g], k))
      /\ \A i \in 1 .. Len(load) : a[Room(D) + i] = load[i]
  BY DEF Lay
<1>4. Len(a) \in Nat /\ Len(load) \in Nat /\ Room(D) \in Nat BY <1>1, <1>3, SeqFacts, RoomType
<1>5. DOMAIN w = D /\ \A g \in D : w[g] = IF g = f THEN val ELSE vals[g] BY DEF With
<1>6. \A g \in D : Start(D, g) \in Nat /\ Start(D, g) + FCaps[g] <= Room(D)
  BY <1>1, StartFits
<1>7. /\ AnySeq(b) /\ Len(b) = Len(a)
      /\ \A i \in 1 .. Len(a) :
            b[i] = IF pos < i /\ i <= pos + FCaps[f] THEN Byte(val, i - pos) ELSE a[i]
  BY DEF Wrote
<1>8. ASSUME NEW g \in D, NEW k \in 1 .. FCaps[g] PROVE b[Start(D, g) + k] = Byte(w[g], k)
  <2> DEFINE i == Start(D, g) + k
  <2>1. i \in 1 .. Len(a) BY <1>2, <1>3, <1>4, <1>6
  <2>2. CASE g = f
    <3>1. pos < i /\ i <= pos + FCaps[f] /\ i - pos = k BY <1>2, <1>6, <2>2
    <3> QED BY <1>5, <1>7, <2>1, <2>2, <3>1
  <2>3. CASE g # f
    <3>1. g \in Fields /\ g \in Nat /\ f \in Nat BY <1>1, <1>2
    <3>2. CASE g < f
      <4>1. Start(D, g) + FCaps[g] <= pos BY <1>1, <3>2, StartFits
      <4>2. ~(pos < i) BY <1>2, <1>6, <4>1
      <4> QED BY <1>3, <1>5, <1>7, <2>1, <2>3, <4>2
    <3>3. CASE f < g
      <4>1. pos + FCaps[f] <= Start(D, g) BY <1>1, <3>3, StartFits
      <4>2. ~(i <= pos + FCaps[f]) BY <1>2, <1>6, <4>1
      <4> QED BY <1>3, <1>5, <1>7, <2>1, <2>3, <4>2
    <3> QED BY <2>3, <3>1, <3>2, <3>3
  <2> QED BY <2>2, <2>3
<1>9. ASSUME NEW i \in 1 .. Len(load) PROVE b[Room(D) + i] = load[i]
  <2>1. Room(D) + i \in 1 .. Len(a) BY <1>3, <1>4
  <2>2. ~(Room(D) + i <= pos + FCaps[f]) BY <1>2, <1>4, <1>6
  <2> QED BY <1>3, <1>7, <2>1, <2>2
<1> QED BY <1>1, <1>3, <1>5, <1>7, <1>8, <1>9 DEF Lay

\* Put of one that is not: what follows it moves.
LEMMA GrowMoves ==
  ASSUME NEW fb, IsBuffer(fb), NEW f \in Fields \ fb.set,
         fb.len \in Nat, Room(fb.set) <= fb.len, fb.len + FCaps[f] <= Len(fb.array)
  PROVE  LET q == Grow(fb, f)
             pos == Start(fb.set, f)
         IN  /\ IsBuffer(q) /\ q.set = fb.set \cup {f} /\ q.tlen = fb.tlen
             /\ q.len = IF fb.tlen >= Room(fb.set \cup {f}) THEN fb.tlen ELSE fb.len + FCaps[f]
             /\ Len(q.array) = Len(fb.array)
             /\ \A i \in 1 .. Len(fb.array) :
                   q.array[i] = IF pos + FCaps[f] < i /\ i <= fb.len + FCaps[f]
                                THEN fb.array[i - FCaps[f]] ELSE fb.array[i]
<1> DEFINE pos == Start(fb.set, f)
           rest == SubSeq(fb.array, pos + 1, fb.len)
           array == At(rest, pos + FCaps[f], fb.array)
           q == Grow(fb, f)
<1>1. fb.set \in SUBSET Fields /\ AnySeq(fb.array) BY DEF IsBuffer
<1>2. FCaps[f] \in Nat BY <1>1, FieldFacts
<1>3. pos \in Nat /\ pos <= Room(fb.set) /\ Room(fb.set) \in Nat
  BY <1>1, StartFits, RoomType
<1>4. Len(fb.array) \in Nat BY <1>1, SeqFacts
<1>5. /\ AnySeq(rest) /\ Len(rest) = fb.len - pos
      /\ \A i \in 1 .. fb.len - pos : rest[i] = fb.array[pos + i]
  <2> DEFINE m == pos + 1
  <2>1. m \in Nat \ {0} /\ fb.len \in Int /\ fb.len <= Len(fb.array) BY <1>2, <1>3, <1>4
  <2>2. /\ AnySeq(rest) /\ Len(rest) = IF m <= fb.len THEN fb.len - m + 1 ELSE 0
        /\ \A i \in 1 .. fb.len - m + 1 : rest[i] = fb.array[m + i - 1]
    BY <1>1, <2>1, AnySub
  <2>3. /\ (IF m <= fb.len THEN fb.len - m + 1 ELSE 0) = fb.len - pos
        /\ fb.len - m + 1 = fb.len - pos
        /\ \A i \in 1 .. fb.len - pos : m + i - 1 = pos + i
    BY <1>3
  <2> QED BY <2>2, <2>3
<1>6. pos + FCaps[f] \in Nat /\ pos + FCaps[f] + Len(rest) <= Len(fb.array)
  BY <1>2, <1>3, <1>4, <1>5
<1> HIDE DEF rest, pos
<1>7. /\ AnySeq(array) /\ Len(array) = Len(fb.array)
      /\ \A i \in 1 .. Len(fb.array) :
            array[i] = IF pos + FCaps[f] < i /\ i <= pos + FCaps[f] + Len(rest)
                       THEN rest[i - (pos + FCaps[f])] ELSE fb.array[i]
  BY <1>1, <1>5, <1>6, AnyAt
<1>8. q = [fb EXCEPT !.array = array, !.set = fb.set \cup {f},
                     !.len = IF fb.tlen >= Room(fb.set \cup {f}) THEN fb.tlen
                             ELSE fb.len + FCaps[f]]
  <2>1. Pos(fb, f) = pos BY DEF Pos, Start, pos
  <2>2. AddFields(fb, {f}).set = fb.set \cup {f} BY DEF AddFields, IsBuffer
  <2>3. FieldsLen(AddFields(fb, {f})) = Room(fb.set \cup {f}) BY <2>2 DEF FieldsLen
  <2> QED BY <2>1, <2>3 DEF Grow, rest
<1> HIDE DEF array, q
<1>9. /\ q = [array |-> array, set |-> fb.set \cup {f}, tlen |-> fb.tlen,
               len |-> IF fb.tlen >= Room(fb.set \cup {f}) THEN fb.tlen ELSE fb.len + FCaps[f]]
      /\ q.array = array /\ q.set = fb.set \cup {f} /\ q.tlen = fb.tlen
      /\ q.len = IF fb.tlen >= Room(fb.set \cup {f}) THEN fb.tlen ELSE fb.len + FCaps[f]
  BY <1>8 DEF IsBuffer
<1>10. IsBuffer(q) BY <1>1, <1>7, <1>9 DEF IsBuffer
<1>11. \A i \in 1 .. Len(fb.array) :
          q.array[i] = IF pos + FCaps[f] < i /\ i <= fb.len + FCaps[f]
                       THEN fb.array[i - FCaps[f]] ELSE fb.array[i]
  <2> TAKE i \in 1 .. Len(fb.array)
  <2>1. pos + FCaps[f] + Len(rest) = fb.len + FCaps[f] BY <1>2, <1>3, <1>5 DEF pos
  <2>2. CASE pos + FCaps[f] < i /\ i <= fb.len + FCaps[f]
    <3>1. i - (pos + FCaps[f]) \in 1 .. fb.len - pos
      BY <1>2, <1>3, <1>4, <2>2 DEF pos
    <3>2. pos + (i - (pos + FCaps[f])) = i - FCaps[f] BY <1>2, <1>3, <1>4 DEF pos
    <3> QED BY <1>5, <1>7, <1>9, <2>1, <2>2, <3>1, <3>2
  <2> QED BY <1>7, <1>9, <2>1, <2>2
<1> QED BY <1>7, <1>9, <1>10, <1>11 DEF q, pos

\* Put of a field that was not set: what follows it moves.
LEMMA PutGrown ==
  ASSUME NEW fb, IsBuffer(fb), NEW f \in Fields \ fb.set, NEW val,
         fb.len \in Nat, Room(fb.set) <= fb.len, fb.len + FCaps[f] <= Len(fb.array)
  PROVE  LET q == Put(fb, f, val)
             pos == Start(fb.set, f)
         IN  /\ IsBuffer(q) /\ q.set = fb.set \cup {f} /\ q.tlen = fb.tlen
             /\ q.len = IF fb.tlen >= Room(fb.set \cup {f}) THEN fb.tlen ELSE fb.len + FCaps[f]
             /\ Moved(fb.array, q.array, pos, FCaps[f], val, fb.len)
<1> DEFINE pos == Start(fb.set, f)
           g == Grow(fb, f)
<1>1. fb.set \in SUBSET Fields /\ AnySeq(fb.array) BY DEF IsBuffer
<1>2. pos \in Nat /\ pos <= Room(fb.set) /\ Room(fb.set) \in Nat /\ FCaps[f] \in Nat
  BY <1>1, StartFits, RoomType, FieldFacts
<1>3. /\ IsBuffer(g) /\ g.set = fb.set \cup {f} /\ g.tlen = fb.tlen
      /\ g.len = IF fb.tlen >= Room(fb.set \cup {f}) THEN fb.tlen ELSE fb.len + FCaps[f]
      /\ Len(g.array) = Len(fb.array)
      /\ \A i \in 1 .. Len(fb.array) :
            g.array[i] = IF pos + FCaps[f] < i /\ i <= fb.len + FCaps[f]
                         THEN fb.array[i - FCaps[f]] ELSE fb.array[i]
  BY GrowMoves
<1>4. pos + FCaps[f] <= Len(g.array)
  <2>1. Len(fb.array) \in Nat BY <1>1, SeqFacts
  <2> QED BY <1>2, <1>3, <2>1
<1>5. Put(fb, f, val) = Into(g, pos, f, val)
  <2>1. Pos(fb, f) = pos BY DEF Pos, Start
  <2> QED BY <2>1, PutIs
<1> HIDE DEF pos, g
<1>6. LET q == Into(g, pos, f, val)
      IN  /\ IsBuffer(q) /\ q.set = g.set /\ q.len = g.len /\ q.tlen = g.tlen
          /\ Wrote(g.array, q.array, pos, FCaps[f], val)
  BY <1>2, <1>3, <1>4, IntoLays
<1> QED BY <1>3, <1>5, <1>6 DEF pos, Wrote, Moved

\* The new field is between those before and after it, whose values moved with their bytes.
LEMMA LayGrown ==
  ASSUME NEW a, NEW b, NEW vals, NEW load, Lay(a, vals, load),
         NEW f \in Fields \ DOMAIN vals, NEW val, NEW len \in Nat,
         Room(DOMAIN vals) + Len(load) <= len, len + FCaps[f] <= Len(a),
         Moved(a, b, Start(DOMAIN vals, f), FCaps[f], val, len)
  PROVE  Lay(b, With(vals, f, val), load)
<1> DEFINE D == DOMAIN vals
           E == D \cup {f}
           pos == Start(D, f)
           w == With(vals, f, val)
<1>1. D \in SUBSET Fields /\ E \in SUBSET Fields BY DEF Lay
<1>2. f \in E /\ \A g \in E : g \in Nat /\ FCaps[g] \in Nat BY <1>1, FieldFacts
<1>3. AnySeq(a) /\ AnySeq(load) /\ Room(D) + Len(load) <= Len(a)
      /\ (\A g \in D : \A k \in 1 .. FCaps[g] : a[Start(D, g) + k] = Byte(vals[g], k))
      /\ \A i \in 1 .. Len(load) : a[Room(D) + i] = load[i]
  BY DEF Lay
<1>4. /\ Len(a) \in Nat /\ Len(load) \in Nat /\ Room(D) \in Nat /\ Len(b) = Len(a)
      /\ Room(D) + Len(load) <= len /\ len + FCaps[f] <= Len(a)
  BY <1>1, <1>3, SeqFacts, RoomType DEF Moved
<1>5. DOMAIN w = E /\ \A g \in E : w[g] = IF g = f THEN val ELSE vals[g] BY DEF With
<1>6. Room(E) = Room(D) + FCaps[f] BY <1>1, RoomPlus
<1>7. /\ \A g \in D : Start(D, g) \in Nat /\ Start(D, g) + FCaps[g] <= Room(D)
      /\ pos \in Nat /\ pos <= Room(D)
  BY <1>1, StartFits
<1>8. \A g \in E : Start(E, g) = IF f < g THEN Start(D, g) + FCaps[f] ELSE Start(D, g)
  BY <1>1, StartGrows
<1>9. /\ AnySeq(b)
      /\ \A i \in 1 .. Len(a) :
            b[i] = IF pos < i /\ i <= pos + FCaps[f] THEN Byte(val, i - pos)
                   ELSE IF pos + FCaps[f] < i /\ i <= len + FCaps[f]
                        THEN a[i - FCaps[f]] ELSE a[i]
  BY DEF Moved
<1> HIDE DEF D, E, pos, w
<1>10. ASSUME NEW g \in E, NEW k \in 1 .. FCaps[g] PROVE b[Start(E, g) + k] = Byte(w[g], k)
  <2>0. /\ Start(D, g) \in Nat /\ k \in Nat /\ 0 < k /\ k <= FCaps[g]
        /\ FCaps[f] \in Nat /\ FCaps[g] \in Nat /\ pos \in Nat /\ pos <= Room(D)
    <3>1. g \in Fields BY <1>1
    <3>2. Start(D, g) \in Nat BY <1>1, <3>1, StartFits
    <3>3. FCaps[f] \in Nat /\ FCaps[g] \in Nat BY <1>2
    <3> QED BY <1>7, <3>2, <3>3
  <2>1. CASE g = f
    <3> DEFINE i == pos + k
    <3>1. Start(E, g) = pos /\ w[g] = val
      <4>1. ~(f < g) BY <1>2, <2>1
      <4> QED BY <1>5, <1>8, <2>1, <4>1 DEF pos
    <3>2. i \in 1 .. Len(a) /\ pos < i /\ i <= pos + FCaps[f] /\ i - pos = k
      BY <1>2, <1>4, <1>7, <2>0, <2>1
    <3> HIDE DEF i
    <3>3. b[i] = Byte(val, i - pos) BY <1>9, <3>2
    <3> QED BY <3>1, <3>2, <3>3 DEF i
  <2>2. CASE g \in D /\ g # f /\ ~(f < g) /\ g < f
    <3> DEFINE i == Start(D, g) + k
    <3>1. Start(E, g) = Start(D, g) /\ w[g] = vals[g] BY <1>2, <1>5, <1>8, <2>2
    <3>2. Start(D, g) + FCaps[g] <= pos BY <1>1, <2>2, StartFits DEF pos, E
    <3>3. i \in 1 .. Len(a) /\ ~(pos < i) /\ ~(pos + FCaps[f] < i)
      <4>1. i \in Nat /\ 0 < i /\ i <= pos BY <2>0, <3>2
      <4>2. i <= Len(a) BY <1>4, <2>0, <4>1
      <4> QED BY <1>4, <2>0, <4>1, <4>2, SMTT(30)
    <3>4. a[i] = Byte(vals[g], k) BY <1>3, <2>2
    <3> HIDE DEF i
    <3>5. b[i] = a[i] BY <1>9, <3>3
    <3> QED BY <3>1, <3>4, <3>5 DEF i
  <2>3. CASE g \in D /\ g # f /\ f < g
    <3> DEFINE i == Start(D, g) + FCaps[f] + k
    <3>1. Start(E, g) = Start(D, g) + FCaps[f] /\ w[g] = vals[g] BY <1>2, <1>5, <1>8, <2>3
    <3>2. pos <= Start(D, g)
      <4>0. f \in E BY DEF E
      <4>1. {h \in D : h < f} \in SUBSET {h \in D : h < g} BY <1>1, <1>2, <2>3, <4>0 DEF E
      <4>2. {h \in D : h < g} \in SUBSET Fields BY <1>1
      <4> QED BY <4>1, <4>2, RoomMore DEF Start, pos
    <3>3. Start(D, g) + FCaps[g] <= Room(D) BY <1>7, <2>3
    <3>4. i \in 1 .. Len(a) /\ pos + FCaps[f] < i /\ i <= len + FCaps[f]
          /\ ~(i <= pos + FCaps[f]) /\ i - FCaps[f] = Start(D, g) + k
      <4>1. i \in Nat /\ 0 < i /\ i - FCaps[f] = Start(D, g) + k BY <2>0
      <4>2. pos + FCaps[f] < i BY <2>0, <3>2
      <4>3. i <= Room(D) + FCaps[f] BY <1>4, <2>0, <3>3, SMTT(30)
      <4>4. i <= len + FCaps[f] /\ i <= Len(a) BY <1>4, <2>0, <4>1, <4>3, SMTT(30)
      <4> QED BY <1>4, <2>0, <4>1, <4>2, <4>4, SMTT(30)
    <3>5. a[Start(D, g) + k] = Byte(vals[g], k) BY <1>3, <2>3
    <3>6. Start(E, g) + k = i BY <1>2, <2>0, <3>1
    <3> HIDE DEF i
    <3>7. b[i] = a[i - FCaps[f]] BY <1>9, <3>4
    <3> QED BY <3>1, <3>4, <3>5, <3>6, <3>7
  <2> QED BY <1>2, <2>1, <2>2, <2>3 DEF E
<1>11. ASSUME NEW i \in 1 .. Len(load) PROVE b[Room(E) + i] = load[i]
  <2> DEFINE j == Room(E) + i
  <2>1. i \in Nat /\ 0 < i /\ i <= Len(load) BY <1>4
  <2>2. /\ j \in 1 .. Len(a) /\ pos + FCaps[f] < j /\ ~(j <= pos + FCaps[f])
        /\ j <= len + FCaps[f] /\ j - FCaps[f] = Room(D) + i
    BY <1>2, <1>4, <1>6, <1>7, <2>1, SMTT(30)
  <2>3. a[Room(D) + i] = load[i] BY <1>3
  <2> HIDE DEF j
  <2>4. b[j] = a[j - FCaps[f]] BY <1>9, <2>2
  <2> QED BY <2>2, <2>3, <2>4 DEF j
<1>12. Room(E) + Len(load) <= Len(b) BY <1>2, <1>4, <1>6
<1> QED BY <1>1, <1>3, <1>5, <1>9, <1>10, <1>11, <1>12 DEF Lay, w, E, D

-----------------------------------------------------------------------------
(* Changing what a buffer holds *)

Holds(fb, vals, load) ==
  IsBuffer(fb) /\ fb.set = DOMAIN vals /\ Lay(fb.array, vals, load)

\* The packet ends with the load.
Exact(fb, load) == fb.len = Room(fb.set) + Len(load)

\* Arrays that differ in their first n bytes at most.
Beyond(a, b, n) == Len(b) = Len(a) /\ \A i \in 1 .. Len(a) : n < i => b[i] = a[i]

\* Types of what is laid.
LEMMA LayFacts ==
  ASSUME NEW a, NEW vals, NEW load, Lay(a, vals, load)
  PROVE  /\ DOMAIN vals \in SUBSET Fields
         /\ AnySeq(a) /\ Len(a) \in Nat /\ AnySeq(load) /\ Len(load) \in Nat
         /\ Room(DOMAIN vals) \in Nat /\ Room(DOMAIN vals) + Len(load) <= Len(a)
<1>1. DOMAIN vals \in SUBSET Fields /\ AnySeq(a) /\ AnySeq(load)
      /\ Room(DOMAIN vals) + Len(load) <= Len(a)
  BY DEF Lay
<1> QED BY <1>1, SeqFacts, RoomType

\* What is laid depends on the bytes it takes only.
LEMMA LaySame ==
  ASSUME NEW a, NEW b, NEW vals, NEW load, Lay(a, vals, load), AnySeq(b),
         Room(DOMAIN vals) + Len(load) <= Len(b),
         \A i \in 1 .. Room(DOMAIN vals) + Len(load) : b[i] = a[i]
  PROVE  Lay(b, vals, load)
<1> DEFINE D == DOMAIN vals
<1>1. /\ D \in SUBSET Fields /\ AnySeq(load) /\ Len(load) \in Nat /\ Room(D) \in Nat
      /\ \A f \in D : \A k \in 1 .. FCaps[f] : a[Start(D, f) + k] = Byte(vals[f], k)
      /\ \A i \in 1 .. Len(load) : a[Room(D) + i] = load[i]
  BY LayFacts DEF Lay
<1>2. ASSUME NEW f \in D, NEW k \in 1 .. FCaps[f] PROVE b[Start(D, f) + k] = Byte(vals[f], k)
  <2>1. f \in Fields /\ FCaps[f] \in Nat BY <1>1, FieldFacts
  <2>2. Start(D, f) \in Nat /\ Start(D, f) + FCaps[f] <= Room(D) BY <1>1, <2>1, StartFits
  <2>3. Start(D, f) + k \in 1 .. Room(D) + Len(load) BY <1>1, <2>1, <2>2
  <2> QED BY <1>1, <2>3
<1>3. ASSUME NEW i \in 1 .. Len(load) PROVE b[Room(D) + i] = load[i]
  <2>1. Room(D) + i \in 1 .. Room(D) + Len(load) BY <1>1
  <2> QED BY <1>1, <2>1
<1> QED BY <1>1, <1>2, <1>3 DEF Lay

\* The load may be forgotten.
LEMMA LayBare ==
  ASSUME NEW a, NEW vals, NEW load, Lay(a, vals, load)
  PROVE  Lay(a, vals, <<>>)
<1>1. AnySeq(<<>>) /\ Len(<<>>) = 0
  <2>1. <<>> \in Seq({}) /\ Len(<<>>) = 0 BY EmptySeq
  <2> QED BY <2>1, Zenon DEF AnySeq
<1>2. Room(DOMAIN vals) + 0 <= Len(a) BY LayFacts
<1> QED BY <1>1, <1>2 DEF Lay

\* With is a function whose values are these.
LEMMA WithIs ==
  ASSUME NEW vals, NEW f, NEW val
  PROVE  /\ DOMAIN With(vals, f, val) = DOMAIN vals \cup {f}
         /\ With(vals, f, val)[f] = val
         /\ \A g \in DOMAIN vals : g # f => With(vals, f, val)[g] = vals[g]
  BY DEF With

\* Put of a field that a packet holds.
LEMMA HoldsKept ==
  ASSUME NEW fb, NEW vals, NEW load, Holds(fb, vals, load), NEW f \in DOMAIN vals, NEW val
  PROVE  LET q == Put(fb, f, val)
         IN  /\ Holds(q, With(vals, f, val), load)
             /\ q.set = fb.set /\ q.len = fb.len /\ q.tlen = fb.tlen
             /\ Beyond(fb.array, q.array, Room(fb.set))
<1> DEFINE q == Put(fb, f, val)
           pos == Start(fb.set, f)
<1>1. IsBuffer(fb) /\ fb.set = DOMAIN vals /\ Lay(fb.array, vals, load) BY DEF Holds
<1>2. Room(fb.set) \in Nat /\ Room(fb.set) <= Len(fb.array) BY <1>1, LayFacts
<1>3. /\ IsBuffer(q) /\ q.set = fb.set /\ q.len = fb.len /\ q.tlen = fb.tlen
      /\ Wrote(fb.array, q.array, pos, FCaps[f], val)
  BY <1>1, <1>2, PutKept
<1> HIDE DEF q
<1>4. Lay(q.array, With(vals, f, val), load) BY <1>1, <1>3, LayKept
<1>5. DOMAIN With(vals, f, val) = fb.set
  <2>1. DOMAIN With(vals, f, val) = DOMAIN vals \cup {f} BY WithIs
  <2>2. DOMAIN vals \cup {f} = DOMAIN vals OBVIOUS
  <2> QED BY <1>1, <2>1, <2>2
<1>6. Beyond(fb.array, q.array, Room(fb.set))
  <2>1. f \in Fields /\ fb.set \in SUBSET Fields /\ f \in fb.set BY <1>1 DEF IsBuffer
  <2>2. pos \in Nat /\ FCaps[f] \in Nat /\ pos + FCaps[f] <= Room(fb.set)
    BY <2>1, StartFits, FieldFacts
  <2>3. Len(fb.array) \in Nat BY <1>1, LayFacts
  <2>4. ASSUME NEW i \in 1 .. Len(fb.array), Room(fb.set) < i PROVE q.array[i] = fb.array[i]
    <3>1. ~(i <= pos + FCaps[f]) BY <1>2, <2>2, <2>3, <2>4
    <3> QED BY <1>3, <3>1 DEF Wrote
  <2> QED BY <1>3, <2>4 DEF Beyond, Wrote
<1> QED BY <1>3, <1>4, <1>5, <1>6 DEF Holds, q

(* A field that was not set makes room for itself: the length is what was aimed at if
   that covers the fields.                                                            *)
LEMMA HoldsGrown ==
  ASSUME NEW fb, NEW vals, NEW load, Holds(fb, vals, load), NEW f \in Fields \ DOMAIN vals, NEW val,
         fb.len \in Nat, Room(fb.set) + Len(load) <= fb.len, fb.len + FCaps[f] <= Len(fb.array)
  PROVE  LET q == Put(fb, f, val)
         IN  /\ Holds(q, With(vals, f, val), load)
             /\ q.set = fb.set \cup {f} /\ q.tlen = fb.tlen
             /\ q.len = IF fb.tlen >= Room(fb.set \cup {f}) THEN fb.tlen ELSE fb.len + FCaps[f]
             /\ Beyond(fb.array, q.array, fb.len + FCaps[f])
<1> DEFINE q == Put(fb, f, val)
           pos == Start(fb.set, f)
<1>1. IsBuffer(fb) /\ fb.set = DOMAIN vals /\ Lay(fb.array, vals, load) BY DEF Holds
<1>2. /\ Room(fb.set) \in Nat /\ Room(fb.set) <= fb.len /\ Len(load) \in Nat
      /\ Len(fb.array) \in Nat /\ fb.set \in SUBSET Fields
  <2>1. /\ Room(fb.set) \in Nat /\ Len(load) \in Nat /\ Len(fb.array) \in Nat
        /\ fb.set \in SUBSET Fields
    BY <1>1, LayFacts
  <2> QED BY <2>1
<1>3. /\ IsBuffer(q) /\ q.set = fb.set \cup {f} /\ q.tlen = fb.tlen
      /\ q.len = IF fb.tlen >= Room(fb.set \cup {f}) THEN fb.tlen ELSE fb.len + FCaps[f]
      /\ Moved(fb.array, q.array, pos, FCaps[f], val, fb.len)
  BY <1>1, <1>2, PutGrown
<1> HIDE DEF q
<1>4. Lay(q.array, With(vals, f, val), load) BY <1>1, <1>2, <1>3, LayGrown
<1>5. DOMAIN With(vals, f, val) = fb.set \cup {f}
  <2>1. DOMAIN With(vals, f, val) = DOMAIN vals \cup {f} BY WithIs
  <2> QED BY <1>1, <2>1
<1>6. Beyond(fb.array, q.array, fb.len + FCaps[f])
  <2>1. pos \in Nat /\ FCaps[f] \in Nat /\ pos <= Room(fb.set) BY <1>2, StartFits, FieldFacts
  <2>2. ASSUME NEW i \in 1 .. Len(fb.array), fb.len + FCaps[f] < i
        PROVE  q.array[i] = fb.array[i]
    <3>1. ~(i <= pos + FCaps[f]) BY <1>2, <2>1, <2>2
    <3>2. ~(i <= fb.len + FCaps[f]) BY <1>2, <2>1, <2>2
    <3> QED BY <1>3, <3>1, <3>2 DEF Moved
  <2> QED BY <1>3, <2>2 DEF Beyond, Moved
<1> QED BY <1>3, <1>4, <1>5, <1>6 DEF Holds, q

(* A packet that ends with its fields and aims at no more. *)
Snug(fb, vals) == Holds(fb, vals, <<>>) /\ fb.len = Room(fb.set) /\ fb.tlen \in Int /\ fb.tlen <= fb.len

\* Put of any field into a packet that ends with its fields.
LEMMA SnugPut ==
  ASSUME NEW fb, NEW vals, Snug(fb, vals), HeaderLen <= Len(fb.array), NEW f \in Fields, NEW val
  PROVE  LET q == Put(fb, f, val)
         IN  /\ Snug(q, With(vals, f, val))
             /\ Beyond(fb.array, q.array, Room(q.set))
<1> DEFINE q == Put(fb, f, val)
<1>1. /\ Holds(fb, vals, <<>>) /\ fb.len = Room(fb.set) /\ fb.tlen \in Int /\ fb.tlen <= fb.len
      /\ fb.set = DOMAIN vals /\ fb.set \in SUBSET Fields /\ AnySeq(fb.array)
  BY DEF Snug, Holds, IsBuffer
<1>2. Len(<<>>) = 0 OBVIOUS
<1>3. Room(fb.set) \in Nat /\ FCaps[f] \in Nat /\ Len(fb.array) \in Nat
  BY <1>1, RoomType, FieldFacts, SeqFacts
<1>4. CASE f \in fb.set
  <2>1. /\ Holds(q, With(vals, f, val), <<>>)
        /\ q.set = fb.set /\ q.len = fb.len /\ q.tlen = fb.tlen
        /\ Beyond(fb.array, q.array, Room(fb.set))
    BY <1>1, <1>4, HoldsKept
  <2> QED BY <1>1, <2>1 DEF Snug
<1>5. CASE f \notin fb.set
  <2>1. Room(fb.set \cup {f}) = Room(fb.set) + FCaps[f] BY <1>1, <1>5, RoomPlus
  <2>2. Room(fb.set \cup {f}) <= HeaderLen
    <3>1. Fields \in SUBSET Fields /\ fb.set \cup {f} \in SUBSET Fields BY <1>1
    <3> QED BY <3>1, RoomMore DEF HeaderLen
  <2>3. fb.len + FCaps[f] <= Len(fb.array)
    <3>1. HeaderLen \in Nat BY RoomType DEF HeaderLen
    <3> QED BY <1>1, <1>3, <2>1, <2>2, <3>1
  <2>4. fb.len \in Nat /\ Room(fb.set) + 0 <= fb.len BY <1>1, <1>3
  <2>5. f \in Fields \ DOMAIN vals BY <1>1, <1>5
  <2>6. /\ Holds(q, With(vals, f, val), <<>>)
        /\ q.set = fb.set \cup {f} /\ q.tlen = fb.tlen
        /\ q.len = IF fb.tlen >= Room(fb.set \cup {f}) THEN fb.tlen ELSE fb.len + FCaps[f]
        /\ Beyond(fb.array, q.array, fb.len + FCaps[f])
    BY <1>1, <1>2, <2>3, <2>4, <2>5, HoldsGrown
  <2>7. ~(fb.tlen >= Room(fb.set \cup {f}))
    <3>1. FCaps[f] > 0 BY FieldFacts
    <3> QED BY <1>1, <1>3, <2>1, <3>1
  <2>8. q.len = Room(q.set) /\ fb.len + FCaps[f] = Room(q.set) BY <1>1, <2>1, <2>6, <2>7
  <2>9. q.tlen <= q.len BY <1>1, <1>3, <2>1, <2>6, <2>8
  <2> QED BY <1>1, <2>6, <2>8, <2>9 DEF Snug
<1> QED BY <1>4, <1>5

\* Two changes within first bytes are one.
LEMMA BeyondMore ==
  ASSUME NEW a, NEW b, NEW c, AnySeq(a), NEW m \in Nat, NEW n \in Nat, m <= n,
         Beyond(a, b, m), Beyond(b, c, n)
  PROVE  Beyond(a, c, n)
<1>1. Len(a) \in Nat BY SeqFacts
<1>2. ASSUME NEW i \in 1 .. Len(a), n < i PROVE c[i] = a[i]
  <2>1. m < i BY <1>1, <1>2
  <2> QED BY <1>2, <2>1 DEF Beyond
<1> QED BY <1>2 DEF Beyond

-----------------------------------------------------------------------------
(* Several fields at once *)

\* vals with those of given that are of F.
Given(vals, given, F) ==
  [f \in DOMAIN vals \cup (DOMAIN given \cap F) |->
     IF f \in DOMAIN given \cap F THEN given[f] ELSE vals[f]]

\* One step of PutAll.
LEMMA PutGivenSnug ==
  ASSUME NEW fb, NEW vals, NEW given, NEW F, NEW f \in Fields,
         Snug(fb, Given(vals, given, F)), HeaderLen <= Len(fb.array)
  PROVE  LET q == PutGiven(fb, f, given)
         IN  /\ Snug(q, Given(vals, given, F \cup {f}))
             /\ Beyond(fb.array, q.array, Room(q.set))
             /\ Room(fb.set) <= Room(q.set) /\ Len(q.array) = Len(fb.array)
<1> DEFINE q == PutGiven(fb, f, given)
           u == Given(vals, given, F)
           v == Given(vals, given, F \cup {f})
<1>1. fb.set = DOMAIN u /\ fb.set \in SUBSET Fields BY DEF Snug, Holds, IsBuffer
<1>2. CASE f \in DOMAIN given
  <2>1. q = Put(fb, f, given[f]) BY <1>2 DEF PutGiven
  <2>2. Snug(q, With(u, f, given[f])) /\ Beyond(fb.array, q.array, Room(q.set))
    BY <2>1, SnugPut
  <2>3. With(u, f, given[f]) = v BY <1>2 DEF With, Given
  <2>4. q.set = DOMAIN v /\ q.set \in SUBSET Fields /\ fb.set \in SUBSET q.set
    <3>1. q.set = DOMAIN v /\ q.set \in SUBSET Fields BY <2>2, <2>3 DEF Snug, Holds, IsBuffer
    <3>2. DOMAIN u \in SUBSET DOMAIN v BY DEF Given
    <3> QED BY <1>1, <3>1, <3>2
  <2>5. Room(fb.set) <= Room(q.set) BY <2>4, RoomMore
  <2> QED BY <2>2, <2>3, <2>5 DEF Beyond
<1>3. CASE f \notin DOMAIN given
  <2>1. q = fb BY <1>3 DEF PutGiven
  <2>2. v = u BY <1>3 DEF Given
  <2>3. Room(fb.set) \in Nat BY <1>1, RoomType
  <2> QED BY <2>1, <2>2, <2>3 DEF Beyond
<1> QED BY <1>2, <1>3

\* Only what vals says of its fields matters.
LEMMA LayVals ==
  ASSUME NEW a, NEW vals, NEW w, NEW load, Lay(a, vals, load), DOMAIN w = DOMAIN vals,
         \A f \in DOMAIN vals : w[f] = vals[f]
  PROVE  Lay(a, w, load)
  BY DEF Lay

\* What given has of F was put into a packet whose array was a.
PutSoFar(a, fb, vals, given, F) ==
  /\ Snug(fb, Given(vals, given, F))
  /\ Beyond(a, fb.array, Room(fb.set))
  /\ HeaderLen <= Len(fb.array)

\* One step of PutAll, of all those so far.
LEMMA PutGivenNext ==
  ASSUME NEW a, AnySeq(a), NEW fb, NEW vals, NEW given, NEW F, NEW f \in Fields,
         PutSoFar(a, fb, vals, given, F)
  PROVE  PutSoFar(a, PutGiven(fb, f, given), vals, given, F \cup {f})
<1> DEFINE q == PutGiven(fb, f, given)
<1>1. /\ Snug(fb, Given(vals, given, F)) /\ Beyond(a, fb.array, Room(fb.set))
      /\ HeaderLen <= Len(fb.array)
  BY DEF PutSoFar
<1>2. /\ Snug(q, Given(vals, given, F \cup {f})) /\ Beyond(fb.array, q.array, Room(q.set))
      /\ Room(fb.set) <= Room(q.set) /\ Len(q.array) = Len(fb.array)
  BY <1>1, PutGivenSnug
<1> HIDE DEF q
<1>3. Room(fb.set) \in Nat /\ Room(q.set) \in Nat
  <2>1. fb.set \in SUBSET Fields /\ q.set \in SUBSET Fields BY <1>1, <1>2 DEF Snug, Holds, IsBuffer
  <2> QED BY <2>1, RoomType
<1>4. Beyond(a, q.array, Room(q.set)) BY <1>1, <1>2, <1>3, BeyondMore
<1>5. PutSoFar(a, q, vals, given, F \cup {f}) BY <1>1, <1>2, <1>4 DEF PutSoFar
<1> QED BY <1>5 DEF q

\* PutAll puts every value that it is given, in the order of the fields.
LEMMA PutAllSnug ==
  ASSUME NEW fb, NEW vals, NEW given, Snug(fb, vals), HeaderLen <= Len(fb.array),
         DOMAIN given \subseteq 6 .. 13
  PROVE  LET q == PutAll(fb, given)
         IN  /\ Snug(q, Given(vals, given, DOMAIN given))
             /\ Beyond(fb.array, q.array, Room(q.set))
<1> DEFINE a == fb.array
           q6 == PutGiven(fb, 6, given)
           q7 == PutGiven(q6, 7, given)
           q8 == PutGiven(q7, 8, given)
           q9 == PutGiven(q8, 9, given)
           q10 == PutGiven(q9, 10, given)
           q11 == PutGiven(q10, 11, given)
           q12 == PutGiven(q11, 12, given)
           q13 == PutGiven(q12, 13, given)
           E == {}
           F6 == E \cup {6}
           F7 == F6 \cup {7}
           F8 == F7 \cup {8}
           F9 == F8 \cup {9}
           F10 == F9 \cup {10}
           F11 == F10 \cup {11}
           F12 == F11 \cup {12}
           F13 == F12 \cup {13}
<1>1. PutAll(fb, given) = q13
  BY DEF PutAll, fRCount, fRWindow, StampField
<1>2. /\ Holds(fb, vals, <<>>) /\ fb.len = Room(fb.set) /\ fb.tlen \in Int /\ fb.tlen <= fb.len
      /\ IsBuffer(fb) /\ fb.set = DOMAIN vals /\ Lay(fb.array, vals, <<>>) /\ AnySeq(a)
  BY DEF Snug, Holds, IsBuffer
<1>3. PutSoFar(a, fb, vals, given, E)
  <2> DEFINE w == Given(vals, given, E)
  <2>1. DOMAIN w = DOMAIN vals /\ \A f \in DOMAIN vals : w[f] = vals[f] BY DEF Given
  <2> HIDE DEF w
  <2>2. Lay(fb.array, w, <<>>) BY <1>2, <2>1, LayVals
  <2>3. Snug(fb, w) BY <1>2, <2>1, <2>2 DEF Snug, Holds
  <2> QED BY <2>3 DEF PutSoFar, Beyond, w
<1>4. \A f \in 6 .. 13 : f \in Fields BY FieldFacts
<1>5. 6 \in Fields /\ 7 \in Fields /\ 8 \in Fields /\ 9 \in Fields /\ 10 \in Fields
      /\ 11 \in Fields /\ 12 \in Fields /\ 13 \in Fields
  BY <1>4
<1>6. F13 = 6 .. 13 OBVIOUS
<1> HIDE DEF a, E, F6, F7, F8, F9, F10, F11, F12, F13, q6, q7, q8, q9, q10, q11, q12, q13
<1>7. PutSoFar(a, q6, vals, given, F6) BY <1>2, <1>3, <1>5, PutGivenNext DEF q6, F6
<1>8. PutSoFar(a, q7, vals, given, F7) BY <1>2, <1>5, <1>7, PutGivenNext DEF q7, F7
<1>9. PutSoFar(a, q8, vals, given, F8) BY <1>2, <1>5, <1>8, PutGivenNext DEF q8, F8
<1>10. PutSoFar(a, q9, vals, given, F9) BY <1>2, <1>5, <1>9, PutGivenNext DEF q9, F9
<1>11. PutSoFar(a, q10, vals, given, F10) BY <1>2, <1>5, <1>10, PutGivenNext DEF q10, F10
<1>12. PutSoFar(a, q11, vals, given, F11) BY <1>2, <1>5, <1>11, PutGivenNext DEF q11, F11
<1>13. PutSoFar(a, q12, vals, given, F12) BY <1>2, <1>5, <1>12, PutGivenNext DEF q12, F12
<1>14. PutSoFar(a, q13, vals, given, F13) BY <1>2, <1>5, <1>13, PutGivenNext DEF q13, F13
<1>15. Given(vals, given, F13) = Given(vals, given, DOMAIN given)
  <2>1. DOMAIN given \cap F13 = DOMAIN given /\ DOMAIN given \cap DOMAIN given = DOMAIN given
    BY <1>6
  <2> QED BY <2>1 DEF Given
<1> QED BY <1>1, <1>14, <1>15 DEF PutSoFar, a

-----------------------------------------------------------------------------
(* Lengths and payloads *)

\* The first n bytes.
LEMMA PrefixIs ==
  ASSUME NEW a, AnySeq(a), NEW n \in 0 .. Len(a)
  PROVE  /\ AnySeq(SubSeq(a, 1, n)) /\ Len(SubSeq(a, 1, n)) = n
         /\ \A i \in 1 .. n : SubSeq(a, 1, n)[i] = a[i]
<1>1. Len(a) \in Nat BY SeqFacts
<1>2. 1 \in Nat \ {0} /\ n \in Int /\ n <= Len(a) BY <1>1
<1>3. /\ AnySeq(SubSeq(a, 1, n)) /\ Len(SubSeq(a, 1, n)) = IF 1 <= n THEN n - 1 + 1 ELSE 0
      /\ \A i \in 1 .. n - 1 + 1 : SubSeq(a, 1, n)[i] = a[1 + i - 1]
  BY <1>2, AnySub
<1>4. (IF 1 <= n THEN n - 1 + 1 ELSE 0) = n /\ n - 1 + 1 = n /\ \A i \in 1 .. n : 1 + i - 1 = i
  BY <1>1
<1> QED BY <1>3, <1>4

\* What follows the first m.
LEMMA RestIs ==
  ASSUME NEW a, AnySeq(a), NEW m \in Nat, NEW n \in m .. Len(a)
  PROVE  /\ AnySeq(SubSeq(a, m + 1, n)) /\ Len(SubSeq(a, m + 1, n)) = n - m
         /\ \A i \in 1 .. n - m : SubSeq(a, m + 1, n)[i] = a[m + i]
<1>1. Len(a) \in Nat BY SeqFacts
<1>2. m + 1 \in Nat \ {0} /\ n \in Int /\ n <= Len(a) BY <1>1
<1>3. /\ AnySeq(SubSeq(a, m + 1, n))
      /\ Len(SubSeq(a, m + 1, n)) = IF m + 1 <= n THEN n - (m + 1) + 1 ELSE 0
      /\ \A i \in 1 .. n - (m + 1) + 1 : SubSeq(a, m + 1, n)[i] = a[m + 1 + i - 1]
  BY <1>2, AnySub
<1>4. /\ (IF m + 1 <= n THEN n - (m + 1) + 1 ELSE 0) = n - m
      /\ n - (m + 1) + 1 = n - m /\ \A i \in 1 .. n - m : m + 1 + i - 1 = m + i
  BY <1>1
<1> QED BY <1>3, <1>4

\* The bytes of a packet.
LEMMA ContentIs ==
  ASSUME NEW fb, IsBuffer(fb), fb.len \in 0 .. Len(fb.array)
  PROVE  /\ AnySeq(Content(fb)) /\ Len(Content(fb)) = fb.len
         /\ \A i \in 1 .. fb.len : Content(fb)[i] = fb.array[i]
  BY PrefixIs DEF Content, IsBuffer

\* The payload of a packet that ends with its load is the load.
LEMMA PayloadIs ==
  ASSUME NEW fb, NEW vals, NEW load, Lay(fb.array, vals, load), fb.set = DOMAIN vals,
         fb.len = Room(fb.set) + Len(load)
  PROVE  Payload(fb) = load
<1> DEFINE m == Room(fb.set)
<1>1. /\ AnySeq(fb.array) /\ Len(fb.array) \in Nat /\ AnySeq(load) /\ Len(load) \in Nat
      /\ m \in Nat /\ m + Len(load) <= Len(fb.array)
  BY LayFacts
<1>2. fb.len \in m .. Len(fb.array) /\ fb.len - m = Len(load) BY <1>1
<1>3. \A i \in 1 .. Len(load) : fb.array[m + i] = load[i] BY DEF Lay
<1>4. Payload(fb) = SubSeq(fb.array, m + 1, fb.len) BY DEF Payload, FieldsLen
<1> HIDE DEF m
<1>5. /\ AnySeq(Payload(fb)) /\ Len(Payload(fb)) = Len(load)
      /\ \A i \in 1 .. Len(load) : Payload(fb)[i] = fb.array[m + i]
  <2> DEFINE rest == SubSeq(fb.array, m + 1, fb.len)
  <2>1. /\ AnySeq(rest) /\ Len(rest) = fb.len - m
        /\ \A i \in 1 .. fb.len - m : rest[i] = fb.array[m + i]
    BY <1>1, <1>2, RestIs
  <2> HIDE DEF rest
  <2>2. Payload(fb) = rest BY <1>4 DEF rest
  <2> QED BY <1>2, <2>1, <2>2
<1> QED BY <1>1, <1>3, <1>5, SeqSame

\* SetPayload replaces the load.
LEMMA SetPayloadHolds ==
  ASSUME NEW fb, NEW vals, NEW old, Holds(fb, vals, old), NEW load, AnySeq(load),
         Room(fb.set) + Len(load) <= Len(fb.array)
  PROVE  LET q == SetPayload(fb, load)
         IN  /\ Holds(q, vals, load) /\ Exact(q, load)
             /\ q.set = fb.set /\ q.tlen = fb.tlen /\ Len(q.array) = Len(fb.array)
<1> DEFINE m == Room(fb.set)
           array == At(load, m, fb.array)
           q == SetPayload(fb, load)
<1>1. IsBuffer(fb) /\ fb.set = DOMAIN vals /\ Lay(fb.array, vals, <<>>) BY LayBare DEF Holds
<1>2. m \in Nat /\ AnySeq(fb.array) /\ Len(fb.array) \in Nat /\ fb.set \in SUBSET Fields
  BY <1>1, LayFacts
<1>3. /\ AnySeq(array) /\ Len(array) = Len(fb.array)
      /\ \A i \in 1 .. Len(fb.array) :
            array[i] = IF m < i /\ i <= m + Len(load) THEN load[i - m] ELSE fb.array[i]
  BY <1>2, AnyAt
<1>4. q = [fb EXCEPT !.array = array, !.len = m + Len(load)] BY DEF SetPayload, FieldsLen
<1> HIDE DEF array, q
<1>5. q.array = array /\ q.len = m + Len(load) /\ q.set = fb.set /\ q.tlen = fb.tlen
      /\ q = [array |-> array, len |-> m + Len(load), set |-> fb.set, tlen |-> fb.tlen]
  BY <1>1, <1>4 DEF IsBuffer
<1>6. IsBuffer(q) BY <1>2, <1>3, <1>5 DEF IsBuffer
<1>7. Len(load) \in Nat BY SeqFacts
<1>8. Lay(array, vals, <<>>)
  <2>1. Len(<<>>) = 0 OBVIOUS
  <2>2. Room(DOMAIN vals) + Len(<<>>) <= Len(array) BY <1>1, <1>3, LayFacts
  <2>3. \A i \in 1 .. Room(DOMAIN vals) + Len(<<>>) : array[i] = fb.array[i]
    <3> TAKE i \in 1 .. Room(DOMAIN vals) + Len(<<>>)
    <3>1. i \in 1 .. Len(fb.array) /\ ~(m < i) BY <1>1, <1>2, <1>3, <2>1, <2>2
    <3> QED BY <1>3, <3>1
  <2> QED BY <1>1, <1>3, <2>2, <2>3, LaySame
<1>9. \A i \in 1 .. Len(load) : array[Room(DOMAIN vals) + i] = load[i]
  <2> TAKE i \in 1 .. Len(load)
  <2> DEFINE j == m + i
  <2>1. j \in 1 .. Len(fb.array) /\ m < j /\ j <= m + Len(load) /\ j - m = i
    BY <1>2, <1>7
  <2> HIDE DEF j
  <2>2. array[j] = load[j - m] BY <1>3, <2>1
  <2> QED BY <1>1, <2>1, <2>2 DEF j
<1>10. Lay(array, vals, load)
  <2>1. m + Len(load) <= Len(array) BY <1>3
  <2> QED BY <1>1, <1>8, <1>9, <2>1 DEF Lay
<1> QED BY <1>1, <1>3, <1>5, <1>6, <1>10 DEF Holds, Exact, q

\* Of two lengths.
Larger(m, n) == IF m < n THEN n ELSE m

\* SetLen changes no byte.
LEMMA SetLenHolds ==
  ASSUME NEW fb, NEW vals, NEW load, Holds(fb, vals, load), NEW tlen \in Int
  PROVE  LET q == SetLen(fb, tlen)
             l == Larger(tlen, Room(fb.set))
         IN  /\ Holds(q, vals, load)
             /\ q.array = fb.array /\ q.set = fb.set /\ q.tlen = tlen
             /\ q.len = IF l > Len(fb.array) THEN Len(fb.array) ELSE l
<1> DEFINE q == SetLen(fb, tlen)
           l == Larger(tlen, Room(fb.set))
           len == IF l > Len(fb.array) THEN Len(fb.array) ELSE l
<1>1. IsBuffer(fb) /\ fb.set = DOMAIN vals /\ Lay(fb.array, vals, load) BY DEF Holds
<1>2. q = [fb EXCEPT !.tlen = tlen, !.len = len] BY DEF SetLen, FieldsLen, Capacity, Larger
<1> HIDE DEF q, len
<1>3. q.array = fb.array /\ q.len = len /\ q.set = fb.set /\ q.tlen = tlen
      /\ q = [array |-> fb.array, len |-> len, set |-> fb.set, tlen |-> tlen]
  BY <1>1, <1>2 DEF IsBuffer
<1>4. IsBuffer(q) BY <1>1, <1>3 DEF IsBuffer
<1> QED BY <1>1, <1>3, <1>4 DEF Holds, q, len

\* Tight cuts a packet to its fields.
LEMMA TightSnug ==
  ASSUME NEW fb, NEW vals, NEW load, Holds(fb, vals, load)
  PROVE  Snug(Tight(fb), vals) /\ Tight(fb).array = fb.array /\ Tight(fb).set = fb.set
<1> DEFINE n == Room(fb.set)
           q == SetLen(fb, n)
<1>1. /\ n \in Nat /\ n <= Len(fb.array) /\ Len(fb.array) \in Nat
  <2>1. Lay(fb.array, vals, load) /\ fb.set = DOMAIN vals BY DEF Holds
  <2>2. n \in Nat /\ Len(fb.array) \in Nat /\ Len(load) \in Nat /\ n + Len(load) <= Len(fb.array)
    BY <2>1, LayFacts
  <2> QED BY <2>2
<1>2. Tight(fb) = q BY DEF Tight, FieldsLen
<1> HIDE DEF q
<1>3. /\ Holds(q, vals, load) /\ q.array = fb.array /\ q.set = fb.set /\ q.tlen = n
      /\ q.len = IF Larger(n, n) > Len(fb.array) THEN Len(fb.array) ELSE Larger(n, n)
  <2>1. n \in Int BY <1>1
  <2> QED BY <2>1, SetLenHolds DEF q
<1>4. q.len = n BY <1>1, <1>3 DEF Larger
<1>5. Holds(q, vals, <<>>) BY <1>3, LayBare DEF Holds
<1> QED BY <1>1, <1>2, <1>3, <1>4, <1>5 DEF Snug, n

\* All that follows the fields is a load.
LEMMA HoldsRest ==
  ASSUME NEW fb, NEW vals, NEW old, Holds(fb, vals, old), fb.len \in Room(fb.set) .. Len(fb.array)
  PROVE  LET load == SubSeq(fb.array, Room(fb.set) + 1, fb.len)
         IN  /\ Holds(fb, vals, load) /\ Exact(fb, load)
             /\ Len(load) = fb.len - Room(fb.set)
<1> DEFINE m == Room(fb.set)
           load == SubSeq(fb.array, m + 1, fb.len)
<1>1. IsBuffer(fb) /\ fb.set = DOMAIN vals /\ Lay(fb.array, vals, <<>>) BY LayBare DEF Holds
<1>2. AnySeq(fb.array) /\ Len(fb.array) \in Nat /\ m \in Nat BY <1>1, LayFacts
<1>3. /\ AnySeq(load) /\ Len(load) = fb.len - m
      /\ \A i \in 1 .. fb.len - m : load[i] = fb.array[m + i]
  BY <1>2, RestIs
<1> HIDE DEF load
<1>4. Lay(fb.array, vals, load)
  <2>1. m + Len(load) <= Len(fb.array) BY <1>2, <1>3
  <2> QED BY <1>1, <1>3, <2>1 DEF Lay
<1>5. fb.len = m + Len(load) BY <1>2, <1>3
<1> QED BY <1>1, <1>3, <1>4, <1>5 DEF Holds, Exact, load

\* FillPayload fills what is behind the fields.
LEMMA FillHolds ==
  ASSUME NEW fb, NEW vals, NEW old, Holds(fb, vals, old), NEW byte,
         fb.len \in Room(fb.set) .. Len(fb.array)
  PROVE  LET q == FillPayload(fb, byte)
             load == [k \in 1 .. fb.len - Room(fb.set) |-> byte]
         IN  /\ Holds(q, vals, load) /\ Exact(q, load)
             /\ q.set = fb.set /\ q.tlen = fb.tlen /\ q.len = fb.len
             /\ Len(q.array) = Len(fb.array)
<1> DEFINE m == Room(fb.set)
           load == [k \in 1 .. fb.len - m |-> byte]
           q == SetPayload(fb, load)
<1>1. m \in Nat /\ Len(fb.array) \in Nat
  <2>1. Lay(fb.array, vals, old) /\ fb.set = DOMAIN vals BY DEF Holds
  <2> QED BY <2>1, LayFacts
<1>2. fb.len - m \in Nat BY <1>1
<1>3. AnySeq(load) /\ Len(load) = fb.len - m BY <1>2, AnyMade
<1>4. FillPayload(fb, byte) = q BY DEF FillPayload, FieldsLen
<1> HIDE DEF load, q
<1>5. m + Len(load) <= Len(fb.array) /\ m + Len(load) = fb.len BY <1>1, <1>3
<1>6. /\ Holds(q, vals, load) /\ Exact(q, load)
      /\ q.set = fb.set /\ q.tlen = fb.tlen /\ Len(q.array) = Len(fb.array)
  BY <1>3, <1>5, SetPayloadHolds DEF q
<1>7. q.len = fb.len BY <1>5, <1>6 DEF Exact
<1> QED BY <1>4, <1>6, <1>7 DEF load

-----------------------------------------------------------------------------
(* New packets *)

\* The array of a packet that only has its magic.
Fresh(a) ==
  /\ AnySeq(a) /\ HeaderLen <= Len(a)
  /\ \A i \in 1 .. Len(a) : a[i] = IF i <= FCaps[fMagic] THEN Byte(Magic, i) ELSE ZeroByte

NewVals(D) == [f \in D |-> IF f = fMagic THEN Magic ELSE Zero]

\* The named fields are fields.
LEMMA FieldNames ==
  /\ fMagic \in Fields /\ fFlags \in Fields /\ fHMAC \in Fields /\ fConnToken \in Fields
  /\ fSeqno \in Fields /\ fRCount \in Fields /\ fRWindow \in Fields
  /\ \A f \in 1 .. 13 : f \in Fields
  BY FieldFacts DEF fMagic, fFlags, fHMAC, fConnToken, fSeqno, fRCount, fRWindow

\* In a fresh array every field but the magic is zero.
LEMMA FreshLays ==
  ASSUME NEW a, Fresh(a), NEW D \in SUBSET Fields, fMagic \in D
  PROVE  Lay(a, NewVals(D), <<>>)
<1> DEFINE v == NewVals(D)
<1>1. DOMAIN v = D /\ \A f \in D : v[f] = IF f = fMagic THEN Magic ELSE Zero BY DEF NewVals
<1>2. AnySeq(<<>>) /\ Len(<<>>) = 0
  <2>1. <<>> \in Seq({}) /\ Len(<<>>) = 0 BY EmptySeq
  <2> QED BY <2>1, Zenon DEF AnySeq
<1>3. Room(D) \in Nat /\ Room(D) <= HeaderLen /\ HeaderLen \in Nat
  <2>1. Fields \in SUBSET Fields OBVIOUS
  <2> QED BY <2>1, RoomMore, RoomType DEF HeaderLen
<1>4. AnySeq(a) /\ Len(a) \in Nat /\ HeaderLen <= Len(a)
  <2>1. AnySeq(a) /\ HeaderLen <= Len(a) BY DEF Fresh
  <2> QED BY <2>1, SeqFacts
<1> HIDE DEF v
<1>5. ASSUME NEW f \in D, NEW k \in 1 .. FCaps[f] PROVE a[Start(D, f) + k] = Byte(v[f], k)
  <2> DEFINE i == Start(D, f) + k
  <2>1. f \in Fields /\ FCaps[f] \in Nat /\ f \in Nat /\ FCaps[fMagic] \in Nat
    BY FieldFacts, FieldNames
  <2>2. Start(D, f) \in Nat /\ Start(D, f) + FCaps[f] <= Room(D) BY <2>1, StartFits
  <2>3. i \in 1 .. Len(a) /\ i = Start(D, f) + k /\ i \in Nat BY <1>3, <1>4, <2>1, <2>2
  <2>4. Start(D, fMagic) = 0
    <3>1. \A g \in D : g \in 1 .. 13 BY FieldFacts
    <3>2. {g \in D : g < fMagic} = {} BY <3>1 DEF fMagic
    <3> QED BY <3>2, RoomEmpty DEF Start
  <2> HIDE DEF i
  <2>5. CASE f = fMagic
    <3>1. i = k /\ i <= FCaps[fMagic] BY <2>1, <2>3, <2>4, <2>5
    <3> QED BY <1>1, <2>3, <2>5, <3>1 DEF Fresh, i
  <2>6. CASE f # fMagic
    <3>1. fMagic < f
      <4>1. f \in 1 .. 13 BY FieldFacts
      <4> QED BY <2>6, <4>1 DEF fMagic
    <3>2. Start(D, fMagic) + FCaps[fMagic] <= Start(D, f) BY <2>1, <3>1, FieldNames, StartFits
    <3>3. ~(i <= FCaps[fMagic]) BY <2>1, <2>2, <2>3, <2>4, <3>2
    <3>4. a[i] = ZeroByte BY <2>3, <3>3 DEF Fresh
    <3>5. Byte(v[f], k) = ZeroByte BY <1>1, <2>6 DEF Byte
    <3> QED BY <3>4, <3>5 DEF i
  <2> QED BY <2>5, <2>6
<1>6. Room(D) + Len(<<>>) <= Len(a) BY <1>2, <1>3, <1>4
<1> QED BY <1>1, <1>2, <1>4, <1>5, <1>6 DEF Lay, v

\* NewPacket makes a packet of the first fields, all zero but the magic.
LEMMA NewPacketIs ==
  ASSUME NEW cap \in Int, NEW key
  PROVE  LET q == NewPacket(cap, key)
         IN  /\ Snug(q, NewVals(finit(key))) /\ q.set = finit(key)
             /\ Fresh(q.array) /\ Len(q.array) = Larger(cap, HeaderLen)
<1> DEFINE n == Larger(cap, HeaderLen)
           zeroes == [i \in 1 .. n |-> ZeroByte]
           F == finit(key)
           blank == [array |-> zeroes, len |-> 0, set |-> F, tlen |-> 0]
           q == Put(Tight(blank), fMagic, Magic)
           zvals == [f \in F |-> Zero]
<1>1. HeaderLen \in Nat
  <2>1. Fields \in SUBSET Fields OBVIOUS
  <2> QED BY <2>1, RoomType DEF HeaderLen
<1>2. n \in Nat /\ HeaderLen <= n /\ n = IF cap < HeaderLen THEN HeaderLen ELSE cap
  BY <1>1 DEF Larger
<1>3. F \in SUBSET Fields /\ fMagic \in F BY FieldNames DEF finit
<1>4. SetFields(NewFbuf(n), finit(key)) = blank
  <2>1. NewFbuf(n) = [array |-> zeroes, len |-> 0, set |-> {}, tlen |-> 0] BY DEF NewFbuf
  <2> HIDE DEF zeroes
  <2>2. SetFields(NewFbuf(n), F) = blank BY <2>1 DEF SetFields
  <2> QED BY <2>2
<1>5. NewPacket(cap, key) = q BY <1>2, <1>4 DEF NewPacket
<1>6. AnySeq(zeroes) /\ Len(zeroes) = n /\ \A i \in 1 .. n : zeroes[i] = ZeroByte
  BY <1>2, AnyMade
<1> HIDE DEF zeroes, n, F
<1>7. Lay(zeroes, zvals, <<>>)
  <2>1. AnySeq(<<>>) /\ Len(<<>>) = 0
    <3>1. <<>> \in Seq({}) /\ Len(<<>>) = 0 BY EmptySeq
    <3> QED BY <3>1, Zenon DEF AnySeq
  <2>2. Room(F) \in Nat /\ Room(F) <= HeaderLen
    <3>1. Fields \in SUBSET Fields OBVIOUS
    <3> QED BY <1>3, <3>1, RoomMore, RoomType DEF HeaderLen
  <2>3. Room(F) + Len(<<>>) <= Len(zeroes) BY <1>1, <1>2, <1>6, <2>1, <2>2
  <2>4. \A f \in F : \A k \in 1 .. FCaps[f] : zeroes[Start(F, f) + k] = Byte(zvals[f], k)
    <3> TAKE f \in F
    <3> TAKE k \in 1 .. FCaps[f]
    <3>1. Start(F, f) \in Nat /\ Start(F, f) + FCaps[f] <= Room(F) /\ FCaps[f] \in Nat
      BY <1>3, StartFits, FieldFacts
    <3>2. Start(F, f) + k \in 1 .. n BY <1>1, <1>2, <2>2, <3>1
    <3>3. Byte(zvals[f], k) = ZeroByte BY DEF Byte
    <3> QED BY <1>6, <3>2, <3>3
  <2> QED BY <1>3, <1>6, <2>1, <2>3, <2>4 DEF Lay
<1>8. Holds(blank, zvals, <<>>)
  <2>1. blank.array = zeroes /\ blank.set = F /\ DOMAIN zvals = F OBVIOUS
  <2>2. IsBuffer(blank) BY <1>3, <1>6 DEF IsBuffer
  <2> QED BY <1>7, <2>1, <2>2 DEF Holds
<1> DEFINE p == Tight(blank)
<1>9. Snug(p, zvals) /\ p.array = zeroes /\ p.set = F
  <2>1. Snug(Tight(blank), zvals) /\ Tight(blank).array = blank.array
        /\ Tight(blank).set = blank.set
    BY <1>8, TightSnug
  <2> QED BY <2>1
<1> HIDE DEF p, zvals, blank
<1>10. HeaderLen <= Len(p.array) BY <1>2, <1>6, <1>9
<1>11. q = Put(p, fMagic, Magic) BY DEF p
<1>12. /\ IsBuffer(p) /\ p.set = F /\ p.set \in SUBSET Fields /\ p.array = zeroes
       /\ Room(p.set) <= Len(p.array) /\ p.len = Room(p.set) /\ p.tlen \in Int /\ p.tlen <= p.len
       /\ Holds(p, zvals, <<>>) /\ DOMAIN zvals = F
  <2>1. /\ IsBuffer(p) /\ p.set = F /\ p.array = zeroes /\ p.len = Room(p.set)
        /\ p.tlen \in Int /\ p.tlen <= p.len /\ Holds(p, zvals, <<>>) /\ DOMAIN zvals = F
        /\ Lay(p.array, zvals, <<>>)
    BY <1>9 DEF Snug, Holds
  <2>2. Room(DOMAIN zvals) \in Nat /\ Room(DOMAIN zvals) + Len(<<>>) <= Len(p.array)
        /\ Len(p.array) \in Nat
    BY <2>1, LayFacts
  <2>3. Len(<<>>) = 0 OBVIOUS
  <2> QED BY <1>3, <2>1, <2>2, <2>3
<1> HIDE DEF q
<1>13. /\ IsBuffer(q) /\ q.set = F /\ q.len = p.len /\ q.tlen = p.tlen
       /\ Wrote(zeroes, q.array, Start(F, fMagic), FCaps[fMagic], Magic)
  BY <1>3, <1>11, <1>12, PutKept
<1>14. Start(F, fMagic) = 0
  <2>1. \A g \in F : g \in 1 .. 13 BY <1>3, FieldFacts
  <2>2. {g \in F : g < fMagic} = {} BY <2>1 DEF fMagic
  <2> QED BY <2>2, RoomEmpty DEF Start
<1>15. Fresh(q.array) /\ Len(q.array) = n
  <2>1. AnySeq(q.array) /\ Len(q.array) = n BY <1>6, <1>13 DEF Wrote
  <2>2. FCaps[fMagic] \in Nat BY FieldFacts, FieldNames
  <2>3. ASSUME NEW i \in 1 .. n
        PROVE  q.array[i] = IF i <= FCaps[fMagic] THEN Byte(Magic, i) ELSE ZeroByte
    <3>1. 0 < i /\ 0 + FCaps[fMagic] = FCaps[fMagic] /\ i - 0 = i BY <1>2, <2>2
    <3>2. q.array[i] = IF 0 < i /\ i <= 0 + FCaps[fMagic] THEN Byte(Magic, i - 0) ELSE zeroes[i]
      BY <1>6, <1>13, <1>14 DEF Wrote
    <3> QED BY <1>6, <3>1, <3>2
  <2> QED BY <1>2, <2>1, <2>3 DEF Fresh
<1>16. Lay(q.array, NewVals(F), <<>>) BY <1>3, <1>15, FreshLays
<1>17. Snug(q, NewVals(F))
  <2>1. DOMAIN NewVals(F) = F BY DEF NewVals
  <2> QED BY <1>12, <1>13, <1>16, <2>1 DEF Snug, Holds
<1> QED BY <1>5, <1>13, <1>15, <1>17 DEF F, n

-----------------------------------------------------------------------------
(* Flags *)

FlagVal(fls) == IF fls = {} THEN Zero ELSE <<"flags", fls>>
KeyFlag(key) == IF key = NoKey THEN {} ELSE {"hmac"}

\* Flags are read as they were put.
LEMMA FlagsRead ==
  ASSUME NEW fb, NEW vals, NEW load, Lay(fb.array, vals, load), fFlags \in DOMAIN vals,
         Pos(fb, fFlags) = Start(DOMAIN vals, fFlags), NEW fls, vals[fFlags] = FlagVal(fls)
  PROVE  FlagsOf(fb) = fls
<1>1. Proper(FlagVal(fls)) BY DEF Proper, FlagVal, Zero
<1>2. Get(fb, fFlags) = FlagVal(fls) BY <1>1, GetLaid
<1>3. CASE fls = {}
  <2>1. Get(fb, fFlags) = <<"zero", 0>> BY <1>2, <1>3 DEF FlagVal, Zero
  <2> QED BY <1>3, <2>1 DEF FlagsOf
<1>4. CASE fls # {}
  <2>1. Get(fb, fFlags) = <<"flags", fls>> BY <1>2, <1>4 DEF FlagVal
  <2> QED BY <2>1 DEF FlagsOf
<1> QED BY <1>3, <1>4

\* SetFlagBits adds flags to those that were set.
LEMMA SetFlagBitsHolds ==
  ASSUME NEW fb, NEW vals, NEW load, Holds(fb, vals, load), fFlags \in DOMAIN vals,
         NEW old, vals[fFlags] = FlagVal(old), NEW fls, fls # {}
  PROVE  LET q == SetFlagBits(fb, fls)
         IN  /\ Holds(q, With(vals, fFlags, FlagVal(old \cup fls)), load)
             /\ q.set = fb.set /\ q.len = fb.len /\ q.tlen = fb.tlen
             /\ Len(q.array) = Len(fb.array) /\ Beyond(fb.array, q.array, Room(fb.set))
<1> DEFINE val == <<"flags", FlagsOf(fb) \cup fls>>
           q == Put(fb, fFlags, val)
<1>1. IsBuffer(fb) /\ fb.set = DOMAIN vals /\ Lay(fb.array, vals, load) BY DEF Holds
<1>2. Pos(fb, fFlags) = Start(DOMAIN vals, fFlags) BY <1>1 DEF Pos, Start
<1>3. FlagsOf(fb) = old BY <1>1, <1>2, FlagsRead
<1>4. val = FlagVal(old \cup fls) BY <1>3 DEF FlagVal
<1>5. SetFlagBits(fb, fls) = q BY DEF SetFlagBits
<1> HIDE DEF val
<1>6. /\ Holds(q, With(vals, fFlags, val), load)
      /\ q.set = fb.set /\ q.len = fb.len /\ q.tlen = fb.tlen
      /\ Beyond(fb.array, q.array, Room(fb.set))
  BY HoldsKept
<1> QED BY <1>4, <1>5, <1>6 DEF Beyond

-----------------------------------------------------------------------------
(* Signing *)

\* The bytes without their HMAC, whose place is after the magic and the flags.
Blank(bytes) == At(Bytes(Zero, FCaps[fHMAC]), Room({fMagic, fFlags}), bytes)

\* The bytes of a packet that was signed with key, or of one that has no HMAC.
Signed(bytes, vals, load, key, fls) ==
  /\ Lay(bytes, vals, load) /\ Len(bytes) = Room(DOMAIN vals) + Len(load)
  /\ finit(key) \in SUBSET DOMAIN vals
  /\ key = NoKey => fHMAC \notin DOMAIN vals
  /\ vals[fMagic] = Magic /\ vals[fFlags] = FlagVal(fls \cup KeyFlag(key))
  /\ key # NoKey => vals[fHMAC] = Hash(key, Blank(bytes))

\* The first fields start at the same places, whatever follows them.
LEMMA StartOfInit ==
  ASSUME NEW D \in SUBSET Fields, fMagic \in D, fFlags \in D
  PROVE  /\ Start(D, fMagic) = 0 /\ Start(D, fFlags) = Room({fMagic})
         /\ Start(D, fHMAC) = Room({fMagic, fFlags})
<1>1. \A g \in D : g \in 1 .. 13 BY FieldFacts
<1>2. {g \in D : g < fMagic} = {} BY <1>1 DEF fMagic
<1>3. {g \in D : g < fFlags} = {fMagic} BY <1>1 DEF fMagic, fFlags
<1>4. {g \in D : g < fHMAC} = {fMagic, fFlags} BY <1>1 DEF fMagic, fFlags, fHMAC
<1> QED BY <1>2, <1>3, <1>4, RoomEmpty DEF Start

\* Bytes whose HMAC is blank.
LEMMA BlankIs ==
  ASSUME NEW bytes, AnySeq(bytes), Room({fMagic, fFlags}) + FCaps[fHMAC] <= Len(bytes)
  PROVE  Wrote(bytes, Blank(bytes), Room({fMagic, fFlags}), FCaps[fHMAC], Zero)
<1> DEFINE pos == Room({fMagic, fFlags})
           zero == Bytes(Zero, FCaps[fHMAC])
           b == Blank(bytes)
<1>1. pos \in Nat /\ FCaps[fHMAC] \in Nat /\ Len(bytes) \in Nat
  <2>1. {fMagic, fFlags} \in SUBSET Fields BY FieldNames
  <2> QED BY <2>1, RoomType, FieldFacts, FieldNames, SeqFacts
<1>2. AnySeq(zero) /\ Len(zero) = FCaps[fHMAC] /\ \A k \in 1 .. FCaps[fHMAC] : zero[k] = Byte(Zero, k)
  BY <1>1, BytesAre
<1>3. b = At(zero, pos, bytes) BY DEF Blank
<1> HIDE DEF zero, pos, b
<1>4. /\ AnySeq(b) /\ Len(b) = Len(bytes)
      /\ \A i \in 1 .. Len(bytes) :
            b[i] = IF pos < i /\ i <= pos + Len(zero) THEN zero[i - pos] ELSE bytes[i]
  <2>1. pos + Len(zero) <= Len(bytes) BY <1>2 DEF pos
  <2> QED BY <1>1, <1>2, <1>3, <2>1, AnyAt
<1>5. ASSUME NEW i \in 1 .. Len(bytes)
      PROVE  b[i] = IF pos < i /\ i <= pos + FCaps[fHMAC] THEN Byte(Zero, i - pos) ELSE bytes[i]
  <2>1. CASE pos < i /\ i <= pos + FCaps[fHMAC]
    <3>1. i - pos \in 1 .. FCaps[fHMAC] BY <1>1, <2>1
    <3> QED BY <1>2, <1>4, <2>1, <3>1
  <2> QED BY <1>2, <1>4, <2>1
<1> QED BY <1>4, <1>5 DEF Wrote, b, pos

\* A packet whose HMAC is zeroed is the blank of the packet with any HMAC.
LEMMA BlankOfPut ==
  ASSUME NEW fb, NEW vals, NEW load, Lay(fb.array, vals, load), IsBuffer(fb), fHMAC \in fb.set,
         fMagic \in fb.set, fFlags \in fb.set,
         Room(fb.set) <= fb.len, fb.len \in 0 .. Len(fb.array), NEW val
  PROVE  LET q == Put(fb, fHMAC, Zero)
         IN  Content(q) = Blank(Content(Put(fb, fHMAC, val)))
<1> DEFINE pos == Start(fb.set, fHMAC)
           w == FCaps[fHMAC]
           q == Put(fb, fHMAC, Zero)
           r == Put(fb, fHMAC, val)
           n == fb.len
<1>1. fb.set \in SUBSET Fields /\ AnySeq(fb.array) /\ Len(fb.array) \in Nat
  <2>1. fb.set \in SUBSET Fields /\ AnySeq(fb.array) BY DEF IsBuffer
  <2> QED BY <2>1, SeqFacts
<1>2. /\ pos = Room({fMagic, fFlags}) /\ pos \in Nat /\ w \in Nat /\ pos + w <= Room(fb.set)
      /\ Room(fb.set) \in Nat /\ Room(fb.set) <= Len(fb.array)
  <2>1. pos = Room({fMagic, fFlags}) BY <1>1, StartOfInit
  <2>2. pos \in Nat /\ pos + w <= Room(fb.set) BY <1>1, FieldNames, StartFits
  <2>3. w \in Nat /\ Room(fb.set) \in Nat BY <1>1, FieldNames, FieldFacts, RoomType
  <2> QED BY <1>1, <2>1, <2>2, <2>3
<1>3. /\ IsBuffer(q) /\ q.len = n /\ Wrote(fb.array, q.array, pos, w, Zero)
      /\ IsBuffer(r) /\ r.len = n /\ Wrote(fb.array, r.array, pos, w, val)
  BY <1>2, PutKept
<1> HIDE DEF q, r, pos, w
<1>4. /\ AnySeq(Content(q)) /\ Len(Content(q)) = n /\ \A i \in 1 .. n : Content(q)[i] = q.array[i]
      /\ AnySeq(Content(r)) /\ Len(Content(r)) = n /\ \A i \in 1 .. n : Content(r)[i] = r.array[i]
  <2>1. Len(q.array) = Len(fb.array) /\ Len(r.array) = Len(fb.array) BY <1>3 DEF Wrote
  <2> QED BY <1>3, <2>1, ContentIs
<1>5. Wrote(Content(r), Blank(Content(r)), pos, w, Zero)
  <2>1. pos + w <= Len(Content(r)) BY <1>1, <1>2, <1>4
  <2> QED BY <1>2, <1>4, <2>1, BlankIs DEF w
<1>6. ASSUME NEW i \in 1 .. n PROVE Content(q)[i] = Blank(Content(r))[i]
  <2>1. i \in 1 .. Len(fb.array) BY <1>1
  <2>2. Blank(Content(r))[i] = IF pos < i /\ i <= pos + w THEN Byte(Zero, i - pos) ELSE r.array[i]
    BY <1>4, <1>5 DEF Wrote
  <2>3. q.array[i] = IF pos < i /\ i <= pos + w THEN Byte(Zero, i - pos) ELSE fb.array[i]
    BY <1>3, <2>1 DEF Wrote
  <2>4. r.array[i] = IF pos < i /\ i <= pos + w THEN Byte(val, i - pos) ELSE fb.array[i]
    BY <1>3, <2>1 DEF Wrote
  <2> QED BY <1>4, <2>2, <2>3, <2>4
<1>7. AnySeq(Blank(Content(r))) /\ Len(Blank(Content(r))) = n BY <1>4, <1>5 DEF Wrote
<1>8. Content(q) = Blank(Content(r)) BY <1>4, <1>6, <1>7, SeqSame
<1> QED BY <1>8 DEF q, r

\* What putting a value into a field that is set does, and into one that is not.
Kept(fb, q, vals, load, f, val) ==
  /\ Holds(q, With(vals, f, val), load)
  /\ q.set = fb.set /\ q.len = fb.len /\ q.tlen = fb.tlen
  /\ Beyond(fb.array, q.array, Room(fb.set))

Grown(fb, q, vals, load, f, val) ==
  /\ Holds(q, With(vals, f, val), load)
  /\ q.set = fb.set \cup {f} /\ q.tlen = fb.tlen
  /\ q.len = IF fb.tlen >= Room(fb.set \cup {f}) THEN fb.tlen ELSE fb.len + FCaps[f]
  /\ Beyond(fb.array, q.array, fb.len + FCaps[f])

\* Put of a field keeps the others.
LEMMA KeptPut ==
  ASSUME NEW fb, NEW vals, NEW load, Holds(fb, vals, load), NEW f \in DOMAIN vals, NEW val
  PROVE  Kept(fb, Put(fb, f, val), vals, load, f, val)
<1> DEFINE q == Put(fb, f, val)
<1>1. /\ Holds(q, With(vals, f, val), load)
      /\ q.set = fb.set /\ q.len = fb.len /\ q.tlen = fb.tlen
      /\ Beyond(fb.array, q.array, Room(fb.set))
  BY HoldsKept
<1> HIDE DEF q
<1>2. Kept(fb, q, vals, load, f, val) BY <1>1 DEF Kept
<1> QED BY <1>2 DEF q

\* So does Put of a field that was not set.
LEMMA GrownPut ==
  ASSUME NEW fb, NEW vals, NEW load, Holds(fb, vals, load), NEW f \in Fields \ DOMAIN vals, NEW val,
         fb.len \in Nat, Room(fb.set) + Len(load) <= fb.len, fb.len + FCaps[f] <= Len(fb.array)
  PROVE  Grown(fb, Put(fb, f, val), vals, load, f, val)
<1> DEFINE q == Put(fb, f, val)
<1>1. /\ Holds(q, With(vals, f, val), load)
      /\ q.set = fb.set \cup {f} /\ q.tlen = fb.tlen
      /\ q.len = IF fb.tlen >= Room(fb.set \cup {f}) THEN fb.tlen ELSE fb.len + FCaps[f]
      /\ Beyond(fb.array, q.array, fb.len + FCaps[f])
  BY HoldsGrown
<1> HIDE DEF q
<1>2. Grown(fb, q, vals, load, f, val) BY <1>1 DEF Grown
<1> QED BY <1>2 DEF q

\* What signing leaves of a packet.
SignedAs(vals, w, key) ==
  /\ DOMAIN w = DOMAIN vals \cup finit(key)
  /\ \A f \in DOMAIN vals : f # fFlags /\ f # fHMAC => w[f] = vals[f]

(* UpdateHMAC signs: the HMAC has its place or gets it, the rest stays. *)
LEMMA UpdateHMACSigns ==
  ASSUME NEW fb, NEW vals, NEW load, Holds(fb, vals, load), Exact(fb, load), fb.tlen \in Int,
         fMagic \in DOMAIN vals, fFlags \in DOMAIN vals, vals[fMagic] = Magic,
         NEW fls, vals[fFlags] = FlagVal(fls), NEW key,
         key = NoKey => fHMAC \notin DOMAIN vals,
         key # NoKey =>
            \/ fHMAC \in DOMAIN vals
            \/ /\ fb.tlen <= fb.len - Len(load)
               /\ fb.len + FCaps[fHMAC] <= Len(fb.array)
  PROVE  LET q == UpdateHMAC(fb, key)
         IN  /\ IsBuffer(q) /\ q.tlen = fb.tlen /\ Len(q.array) = Len(fb.array)
             /\ \E w : /\ SignedAs(vals, w, key) /\ Holds(q, w, load) /\ Exact(q, load)
                       /\ Signed(Content(q), w, load, key, fls)
<1>1. /\ IsBuffer(fb) /\ fb.set = DOMAIN vals /\ Lay(fb.array, vals, load)
      /\ fb.len = Room(fb.set) + Len(load)
  BY DEF Holds, Exact
<1>2. /\ fb.set \in SUBSET Fields /\ AnySeq(fb.array) /\ Len(fb.array) \in Nat
      /\ Len(load) \in Nat /\ Room(fb.set) \in Nat /\ fb.len \in 0 .. Len(fb.array)
  <2>1. /\ fb.set \in SUBSET Fields /\ AnySeq(fb.array) /\ Len(fb.array) \in Nat
        /\ Len(load) \in Nat /\ Room(fb.set) \in Nat /\ Room(fb.set) + Len(load) <= Len(fb.array)
    BY <1>1, LayFacts
  <2> QED BY <1>1, <2>1
<1>3. CASE key = NoKey
  <2>1. UpdateHMAC(fb, key) = fb BY <1>3 DEF UpdateHMAC
  <2>2. finit(key) = {fMagic, fFlags} /\ KeyFlag(key) = {} BY <1>3 DEF finit, KeyFlag
  <2>3. SignedAs(vals, vals, key)
    <3>1. DOMAIN vals \cup {fMagic, fFlags} = DOMAIN vals OBVIOUS
    <3> QED BY <2>2, <3>1 DEF SignedAs
  <2>4. Lay(Content(fb), vals, load) /\ Len(Content(fb)) = Room(DOMAIN vals) + Len(load)
    <3>1. /\ AnySeq(Content(fb)) /\ Len(Content(fb)) = fb.len
          /\ \A i \in 1 .. fb.len : Content(fb)[i] = fb.array[i]
      BY <1>1, <1>2, ContentIs
    <3>2. Room(DOMAIN vals) + Len(load) <= Len(Content(fb)) BY <1>1, <1>2, <3>1
    <3> QED BY <1>1, <3>1, <3>2, LaySame
  <2>5. Signed(Content(fb), vals, load, key, fls)
    <3>1. fls \cup {} = fls OBVIOUS
    <3> QED BY <1>3, <2>2, <2>4, <3>1 DEF Signed
  <2> QED BY <1>1, <2>1, <2>3, <2>5
<1>4. CASE key # NoKey
  <2> DEFINE flagged == SetFlagBits(fb, {"hmac"})
             v == With(vals, fFlags, FlagVal(fls \cup {"hmac"}))
             zeroed == Put(flagged, fHMAC, Zero)
             hash == Hash(key, Content(zeroed))
             q == Put(zeroed, fHMAC, hash)
             z == With(v, fHMAC, Zero)
             w == With(z, fHMAC, hash)
  <2>1. /\ Holds(flagged, v, load) /\ flagged.set = fb.set /\ flagged.len = fb.len
        /\ flagged.tlen = fb.tlen /\ Len(flagged.array) = Len(fb.array)
    <3>1. {"hmac"} # {} OBVIOUS
    <3> QED BY <3>1, SetFlagBitsHolds, ZenonT(30)
  <2>2. DOMAIN v = DOMAIN vals /\ v[fFlags] = FlagVal(fls \cup {"hmac"})
        /\ \A f \in DOMAIN vals : f # fFlags => v[f] = vals[f]
    <3>1. DOMAIN vals \cup {fFlags} = DOMAIN vals OBVIOUS
    <3>2. /\ DOMAIN v = DOMAIN vals \cup {fFlags} /\ v[fFlags] = FlagVal(fls \cup {"hmac"})
          /\ \A f \in DOMAIN vals : f # fFlags => v[f] = vals[f]
      BY DEF With
    <3> QED BY <3>1, <3>2, Zenon
  <2>3. UpdateHMAC(fb, key) = q BY <1>4 DEF UpdateHMAC
  <2> HIDE DEF flagged, v, zeroed, hash, q
  <2>30. /\ DOMAIN z = DOMAIN v \cup {fHMAC} /\ z[fHMAC] = Zero
        /\ \A f \in DOMAIN v : f # fHMAC => z[f] = v[f]
    BY DEF With
  <2>31. /\ DOMAIN w = DOMAIN z \cup {fHMAC} /\ w[fHMAC] = hash
        /\ \A f \in DOMAIN z : f # fHMAC => w[f] = z[f]
    BY DEF With
  <2>4. /\ Holds(zeroed, z, load) /\ zeroed.set = fb.set \cup {fHMAC}
        /\ Exact(zeroed, load) /\ zeroed.tlen = fb.tlen
        /\ Len(zeroed.array) = Len(fb.array)
    <3>1. CASE fHMAC \in DOMAIN vals
      <4>1. /\ Holds(zeroed, z, load) /\ zeroed.set = fb.set
            /\ zeroed.len = fb.len /\ zeroed.tlen = fb.tlen
            /\ Beyond(flagged.array, zeroed.array, Room(flagged.set))
        <5>1. fHMAC \in DOMAIN v BY <2>2, <3>1
        <5>2. Kept(flagged, zeroed, v, load, fHMAC, Zero) BY <2>1, <5>1, KeptPut DEF zeroed
        <5> QED BY <2>1, <5>2 DEF Kept, z
      <4>2. fb.set \cup {fHMAC} = fb.set BY <1>1, <3>1
      <4> QED BY <1>1, <2>1, <4>1, <4>2 DEF Exact, Beyond
    <3>2. CASE fHMAC \notin DOMAIN vals
      <4>1. fb.tlen <= fb.len - Len(load) /\ fb.len + FCaps[fHMAC] <= Len(fb.array)
        BY <1>4, <3>2
      <4>2. Room(fb.set \cup {fHMAC}) = Room(fb.set) + FCaps[fHMAC] /\ FCaps[fHMAC] \in Nat
            /\ FCaps[fHMAC] > 0
        BY <1>1, <1>2, <3>2, FieldNames, RoomPlus, FieldFacts
      <4>3. fHMAC \in Fields \ DOMAIN v BY <2>2, <3>2, FieldNames
      <4>4. flagged.len \in Nat /\ Room(flagged.set) + Len(load) <= flagged.len
            /\ flagged.len + FCaps[fHMAC] <= Len(flagged.array)
        BY <1>1, <1>2, <2>1, <4>1
      <4>5. /\ Holds(zeroed, z, load) /\ zeroed.set = flagged.set \cup {fHMAC}
            /\ zeroed.tlen = flagged.tlen
            /\ zeroed.len = IF flagged.tlen >= Room(flagged.set \cup {fHMAC}) THEN flagged.tlen
                            ELSE flagged.len + FCaps[fHMAC]
            /\ Beyond(flagged.array, zeroed.array, flagged.len + FCaps[fHMAC])
        <5>1. Grown(flagged, zeroed, v, load, fHMAC, Zero) BY <2>1, <4>3, <4>4, GrownPut DEF zeroed
        <5> QED BY <5>1 DEF Grown, z
      <4>6. ~(flagged.tlen >= Room(flagged.set \cup {fHMAC}))
        BY <1>1, <1>2, <2>1, <4>1, <4>2
      <4>7. zeroed.len = Room(zeroed.set) + Len(load)
        BY <1>1, <1>2, <2>1, <4>2, <4>5, <4>6
      <4> QED BY <2>1, <4>5, <4>7 DEF Exact, Beyond
    <3> QED BY <3>1, <3>2
  <2>5. DOMAIN z = DOMAIN vals \cup {fHMAC} /\ fHMAC \in DOMAIN z
        /\ \A f \in DOMAIN vals : f # fHMAC => z[f] = v[f]
    BY <2>2, <2>30
  <2> HIDE DEF z, w
  <2>6. /\ Holds(q, w, load) /\ q.set = zeroed.set /\ q.len = zeroed.len
        /\ q.tlen = zeroed.tlen /\ Len(q.array) = Len(zeroed.array)
    <3>1. /\ Holds(q, w, load) /\ q.set = zeroed.set /\ q.len = zeroed.len
          /\ q.tlen = zeroed.tlen /\ Beyond(zeroed.array, q.array, Room(zeroed.set))
      <4>1. Kept(zeroed, q, z, load, fHMAC, hash) BY <2>4, <2>5, KeptPut DEF q
      <4> QED BY <4>1 DEF Kept, w
    <3> QED BY <3>1 DEF Beyond
  <2>7. DOMAIN w = DOMAIN z /\ w[fHMAC] = hash
        /\ \A f \in DOMAIN z : f # fHMAC => w[f] = z[f]
    <3>1. DOMAIN z \cup {fHMAC} = DOMAIN z BY <2>5
    <3> QED BY <2>31, <3>1
  <2>8. Exact(q, load) BY <2>4, <2>6 DEF Exact
  <2>9. finit(key) = {fMagic, fFlags, fHMAC} /\ KeyFlag(key) = {"hmac"}
    BY <1>4 DEF finit, KeyFlag
  <2>10. fFlags # fHMAC /\ fMagic # fHMAC /\ fMagic # fFlags BY DEF fFlags, fHMAC, fMagic
  <2>11. SignedAs(vals, w, key)
    <3>1. DOMAIN vals \cup {fMagic, fFlags, fHMAC} = DOMAIN vals \cup {fHMAC} OBVIOUS
    <3> QED BY <2>2, <2>5, <2>7, <2>9, <3>1 DEF SignedAs
  <2>12. w[fMagic] = Magic /\ w[fFlags] = FlagVal(fls \cup {"hmac"})
    BY <2>2, <2>5, <2>7, <2>10
  <2>13. Content(zeroed) = Blank(Content(q))
    <3>1. Holds(zeroed, z, load) /\ IsBuffer(zeroed) /\ zeroed.set = DOMAIN z
          /\ Lay(zeroed.array, z, load)
      BY <2>4 DEF Holds
    <3>2. fMagic \in zeroed.set /\ fFlags \in zeroed.set /\ fHMAC \in zeroed.set
      BY <2>5, <3>1
    <3>3. Room(zeroed.set) <= zeroed.len /\ zeroed.len \in 0 .. Len(zeroed.array)
      <4>1. Room(DOMAIN z) \in Nat /\ Len(load) \in Nat /\ Len(zeroed.array) \in Nat
            /\ Room(DOMAIN z) + Len(load) <= Len(zeroed.array)
        BY <3>1, LayFacts
      <4>2. zeroed.len = Room(DOMAIN z) + Len(load) BY <2>4, <3>1 DEF Exact
      <4> QED BY <3>1, <4>1, <4>2
    <3>4. zeroed.len = q.len BY <2>6
    <3>5. Content(Put(zeroed, fHMAC, Zero)) = Blank(Content(Put(zeroed, fHMAC, hash)))
      BY <3>1, <3>2, <3>3, BlankOfPut
    <3>6. Content(Put(zeroed, fHMAC, Zero)) = Content(zeroed)
      <4> DEFINE r == Put(zeroed, fHMAC, Zero)
                 pos == Start(zeroed.set, fHMAC)
                 wide == FCaps[fHMAC]
      <4>1. /\ IsBuffer(r) /\ r.len = zeroed.len
            /\ Wrote(zeroed.array, r.array, pos, wide, Zero)
        <5>1. Room(zeroed.set) <= Len(zeroed.array) BY <3>1, <3>3, LayFacts
        <5> QED BY <3>1, <3>2, <5>1, PutKept
      <4>2. /\ zeroed.set \in SUBSET Fields /\ pos \in Nat /\ wide \in Nat
            /\ pos + wide <= Room(zeroed.set)
        BY <3>1, <3>2, FieldNames, FieldFacts, StartFits DEF IsBuffer
      <4>3. \A k \in 1 .. wide : zeroed.array[pos + k] = Byte(Zero, k)
        <5>1. z[fHMAC] = Zero BY <2>30
        <5>2. \A k \in 1 .. FCaps[fHMAC] : zeroed.array[Start(DOMAIN z, fHMAC) + k] = Byte(z[fHMAC], k)
          BY <2>5, <3>1 DEF Lay
        <5> QED BY <3>1, <5>1, <5>2
      <4> HIDE DEF r, pos, wide
      <4>4. ASSUME NEW i \in 1 .. zeroed.len PROVE r.array[i] = zeroed.array[i]
        <5>1. i \in 1 .. Len(zeroed.array) BY <3>3
        <5>2. r.array[i] = IF pos < i /\ i <= pos + wide THEN Byte(Zero, i - pos)
                           ELSE zeroed.array[i]
          BY <4>1, <5>1 DEF Wrote
        <5>3. CASE pos < i /\ i <= pos + wide
          <6>1. i - pos \in 1 .. wide /\ pos + (i - pos) = i BY <3>3, <4>2, <5>3
          <6>2. zeroed.array[i] = Byte(Zero, i - pos) BY <4>3, <6>1
          <6> QED BY <5>2, <5>3, <6>2
        <5> QED BY <5>2, <5>3
      <4>5. /\ AnySeq(Content(zeroed)) /\ Len(Content(zeroed)) = zeroed.len
            /\ \A i \in 1 .. zeroed.len : Content(zeroed)[i] = zeroed.array[i]
        BY <3>1, <3>3, ContentIs
      <4>6. /\ AnySeq(Content(r)) /\ Len(Content(r)) = zeroed.len
            /\ \A i \in 1 .. zeroed.len : Content(r)[i] = r.array[i]
        <5>1. Len(r.array) = Len(zeroed.array) BY <4>1 DEF Wrote
        <5> QED BY <3>3, <4>1, <5>1, ContentIs
      <4>7. \A i \in 1 .. zeroed.len : Content(r)[i] = Content(zeroed)[i] BY <4>4, <4>5, <4>6
      <4>8. Content(r) = Content(zeroed) BY <4>5, <4>6, <4>7, SeqSame
      <4> QED BY <4>8 DEF r
    <3> QED BY <3>5, <3>6 DEF q
  <2>14. Lay(Content(q), w, load) /\ Len(Content(q)) = Room(DOMAIN w) + Len(load)
    <3>1. /\ IsBuffer(q) /\ q.set = DOMAIN w /\ Lay(q.array, w, load)
          /\ q.len = Room(DOMAIN w) + Len(load)
      BY <2>6, <2>8 DEF Holds, Exact
    <3>2. Room(DOMAIN w) \in Nat /\ Len(load) \in Nat /\ Len(q.array) \in Nat
          /\ Room(DOMAIN w) + Len(load) <= Len(q.array)
      BY <3>1, LayFacts
    <3>3. q.len \in 0 .. Len(q.array) BY <3>1, <3>2
    <3>4. /\ AnySeq(Content(q)) /\ Len(Content(q)) = q.len
          /\ \A i \in 1 .. q.len : Content(q)[i] = q.array[i]
      BY <3>1, <3>3, ContentIs
    <3>5. Room(DOMAIN w) + Len(load) <= Len(Content(q)) BY <3>1, <3>2, <3>4
    <3> QED BY <3>1, <3>4, <3>5, LaySame
  <2>15. Signed(Content(q), w, load, key, fls)
    <3>1. finit(key) \in SUBSET DOMAIN w BY <2>11 DEF SignedAs
    <3>2. w[fHMAC] = Hash(key, Blank(Content(q))) BY <2>7, <2>13 DEF hash
    <3> QED BY <1>4, <2>9, <2>12, <2>14, <3>1, <3>2 DEF Signed
  <2>16. IsBuffer(q) BY <2>6 DEF Holds
  <2> QED BY <2>3, <2>4, <2>6, <2>8, <2>11, <2>15, <2>16
<1> QED BY <1>3, <1>4

-----------------------------------------------------------------------------
(* Receiving *)

\* What validate leaves of a packet's values.
BlankVals(vals, key) == IF key = NoKey THEN vals ELSE With(vals, fHMAC, Zero)

(* A received packet: its bytes have the fields' values, but only the first fields are
   set in it yet.                                                                     *)
Taken(p, vals, load, key, fls) ==
  /\ IsBuffer(p) /\ p.set = finit(key) /\ p.len = Room(DOMAIN vals) + Len(load) /\ p.tlen = p.len
  /\ Lay(p.array, vals, load)
  /\ finit(key) \in SUBSET DOMAIN vals /\ (key = NoKey => fHMAC \notin DOMAIN vals)
  /\ vals[fFlags] = FlagVal(fls \cup KeyFlag(key)) /\ FlagsOf(p) = fls \cup KeyFlag(key)

\* The first fields, which depend on whether there is a key.
LEMMA FinitFacts ==
  ASSUME NEW key
  PROVE  /\ finit(key) \in SUBSET Fields /\ fMagic \in finit(key) /\ fFlags \in finit(key)
         /\ fHMAC \in finit(key) <=> key # NoKey
         /\ Room(finit(key)) \in Nat /\ Room(finit(key)) <= HeaderLen /\ HeaderLen \in Nat
<1>1. finit(key) \in SUBSET Fields BY FieldNames DEF finit
<1>2. fMagic \in finit(key) /\ fFlags \in finit(key) BY DEF finit
<1>3. fHMAC \in finit(key) <=> key # NoKey BY DEF finit, fMagic, fFlags, fHMAC
<1>4. Fields \in SUBSET Fields OBVIOUS
<1>5. Room(finit(key)) \in Nat /\ Room(Fields) \in Nat /\ Room(finit(key)) <= Room(Fields)
  BY <1>1, <1>4, RoomType, RoomMore
<1> QED BY <1>1, <1>2, <1>3, <1>5 DEF HeaderLen

\* ReadFrom reads what fits into the buffer.
LEMMA ReadFromIs ==
  ASSUME NEW buffer, IsBuffer(buffer), NEW bytes, AnySeq(bytes), NEW key
  PROVE  LET p == ReadFrom(buffer, bytes, key)
         IN  /\ IsBuffer(p) /\ p.set = finit(key) /\ p.tlen = p.len
             /\ p.len \in 0 .. Len(p.array) /\ Len(p.array) = Len(buffer.array)
             /\ Len(bytes) <= Len(buffer.array) =>
                   p.len = Len(bytes) /\ \A i \in 1 .. Len(bytes) : p.array[i] = bytes[i]
<1> DEFINE p == ReadFrom(buffer, bytes, key)
           n == IF Len(bytes) > Len(buffer.array) THEN Len(buffer.array) ELSE Len(bytes)
           part == SubSeq(bytes, 1, n)
           array == At(part, 0, buffer.array)
<1>1. AnySeq(buffer.array) /\ Len(buffer.array) \in Nat /\ Len(bytes) \in Nat
  BY SeqFacts DEF IsBuffer
<1>2. p = [array |-> array, len |-> n, set |-> finit(key), tlen |-> n]
  BY DEF ReadFrom, Capacity
<1>3. n \in 0 .. Len(bytes) /\ n \in 0 .. Len(buffer.array) BY <1>1
<1>4. AnySeq(part) /\ Len(part) = n /\ \A i \in 1 .. n : part[i] = bytes[i] BY <1>3, PrefixIs
<1> HIDE DEF part, p
<1>5. /\ AnySeq(array) /\ Len(array) = Len(buffer.array)
      /\ \A i \in 1 .. Len(buffer.array) :
            array[i] = IF 0 < i /\ i <= 0 + Len(part) THEN part[i - 0] ELSE buffer.array[i]
  <2> DEFINE zero == 0
  <2>1. zero \in Nat /\ zero + Len(part) <= Len(buffer.array) BY <1>1, <1>3, <1>4
  <2>2. AnySeq(part) /\ AnySeq(buffer.array) /\ array = At(part, zero, buffer.array) BY <1>1, <1>4
  <2> HIDE DEF zero, array
  <2>3. /\ AnySeq(array) /\ Len(array) = Len(buffer.array)
        /\ \A i \in 1 .. Len(buffer.array) :
              array[i] = IF zero < i /\ i <= zero + Len(part) THEN part[i - zero] ELSE buffer.array[i]
    BY <2>1, <2>2, AnyAt
  <2> QED BY <2>3 DEF zero
<1> HIDE DEF array
<1>6. p.array = array /\ p.len = n /\ p.set = finit(key) /\ p.tlen = n BY <1>2
<1>7. IsBuffer(p) BY <1>2, <1>5, <1>6, FinitFacts DEF IsBuffer
<1>8. ASSUME Len(bytes) <= Len(buffer.array), NEW i \in 1 .. Len(bytes)
      PROVE  p.array[i] = bytes[i]
  <2>1. n = Len(bytes) /\ i \in 1 .. n /\ i \in 1 .. Len(buffer.array) BY <1>1, <1>8
  <2>2. 0 < i /\ i <= 0 + Len(part) /\ i - 0 = i BY <1>4, <2>1
  <2>3. array[i] = part[i] BY <1>5, <2>1, <2>2
  <2> QED BY <1>4, <1>6, <2>1, <2>3
<1>9. Len(bytes) <= Len(buffer.array) => n = Len(bytes) BY <1>1
<1> QED BY <1>3, <1>5, <1>6, <1>7, <1>8, <1>9 DEF p

\* Whatever is received leaves a buffer of the same size.
LEMMA ReceivedBuffer ==
  ASSUME NEW buffer, IsBuffer(buffer), HeaderLen <= Len(buffer.array),
         NEW bytes, AnySeq(bytes), NEW key
  PROVE  LET q == Validated(ReadFrom(buffer, bytes, key), key)
         IN  IsBuffer(q) /\ Len(q.array) = Len(buffer.array)
<1> DEFINE p == ReadFrom(buffer, bytes, key)
<1>1. IsBuffer(p) /\ p.set = finit(key) /\ Len(p.array) = Len(buffer.array) BY ReadFromIs
<1> HIDE DEF p
<1>2. CASE key # NoKey /\ ClaimsHMAC(p)
  <2>1. Validated(p, key) = Put(p, fHMAC, Zero) BY <1>2 DEF Validated
  <2>2. fHMAC \in p.set /\ Room(p.set) <= Len(p.array)
    <3>1. AnySeq(buffer.array) BY DEF IsBuffer
    <3>2. Len(buffer.array) \in Nat BY <3>1, SeqFacts
    <3> QED BY <1>1, <1>2, <3>2, FinitFacts
  <2> DEFINE q == Put(p, fHMAC, Zero)
  <2>3. IsBuffer(q) /\ Wrote(p.array, q.array, Start(p.set, fHMAC), FCaps[fHMAC], Zero)
    BY <1>1, <2>2, PutKept
  <2> HIDE DEF q
  <2>4. Len(q.array) = Len(p.array) BY <2>3 DEF Wrote
  <2> QED BY <1>1, <2>1, <2>3, <2>4 DEF q, p
<1>3. CASE ~(key # NoKey /\ ClaimsHMAC(p))
  <2>1. Validated(p, key) = p BY <1>3 DEF Validated
  <2> QED BY <1>1, <2>1 DEF p
<1> QED BY <1>2, <1>3

\* The values that are the same for both are where they were.
LEMMA InitValsRead ==
  ASSUME NEW vals, NEW load, NEW p, Lay(p.array, vals, load), NEW key,
         p.set = finit(key), finit(key) \in SUBSET DOMAIN vals
  PROVE  /\ Pos(p, fMagic) = Start(DOMAIN vals, fMagic)
         /\ Pos(p, fFlags) = Start(DOMAIN vals, fFlags)
         /\ Pos(p, fHMAC) = Start(DOMAIN vals, fHMAC)
         /\ fMagic \in DOMAIN vals /\ fFlags \in DOMAIN vals
         /\ (key # NoKey => fHMAC \in DOMAIN vals)
<1>1. DOMAIN vals \in SUBSET Fields BY LayFacts
<1>2. /\ finit(key) \in SUBSET Fields /\ fMagic \in finit(key) /\ fFlags \in finit(key)
      /\ (key # NoKey => fHMAC \in finit(key))
  BY FinitFacts
<1>3. fMagic \in DOMAIN vals /\ fFlags \in DOMAIN vals /\ (key # NoKey => fHMAC \in DOMAIN vals)
  BY <1>2
<1>4. /\ Start(finit(key), fMagic) = Start(DOMAIN vals, fMagic)
      /\ Start(finit(key), fFlags) = Start(DOMAIN vals, fFlags)
      /\ Start(finit(key), fHMAC) = Start(DOMAIN vals, fHMAC)
  <2>1. /\ Start(finit(key), fMagic) = 0 /\ Start(finit(key), fFlags) = Room({fMagic})
        /\ Start(finit(key), fHMAC) = Room({fMagic, fFlags})
    BY <1>2, StartOfInit
  <2>2. /\ Start(DOMAIN vals, fMagic) = 0 /\ Start(DOMAIN vals, fFlags) = Room({fMagic})
        /\ Start(DOMAIN vals, fHMAC) = Room({fMagic, fFlags})
    BY <1>1, <1>3, StartOfInit
  <2> QED BY <2>1, <2>2
<1> QED BY <1>3, <1>4 DEF Pos, Start

\* Zeroing the HMAC of a packet that was received gives the bytes that were hashed.
LEMMA ZeroedIsBlank ==
  ASSUME NEW p, IsBuffer(p), NEW bytes, AnySeq(bytes), NEW key, key # NoKey,
         p.set = finit(key), p.len = Len(bytes), Len(bytes) <= Len(p.array),
         Room(finit(key)) <= Len(bytes), \A i \in 1 .. Len(bytes) : p.array[i] = bytes[i]
  PROVE  LET q == Put(p, fHMAC, Zero)
         IN  /\ IsBuffer(q) /\ q.set = p.set /\ q.len = p.len /\ q.tlen = p.tlen
             /\ Content(q) = Blank(bytes)
             /\ Wrote(p.array, q.array, Start(finit(key), fHMAC), FCaps[fHMAC], Zero)
<1> DEFINE q == Put(p, fHMAC, Zero)
           pos == Start(finit(key), fHMAC)
           n == Len(bytes)
<1>1. n \in Nat /\ AnySeq(p.array) /\ Len(p.array) \in Nat BY SeqFacts DEF IsBuffer
<1>2. fHMAC \in p.set /\ p.set \in SUBSET Fields /\ Room(p.set) <= Len(p.array)
  BY <1>1, FinitFacts
<1>3. /\ IsBuffer(q) /\ q.set = p.set /\ q.len = p.len /\ q.tlen = p.tlen
      /\ Wrote(p.array, q.array, pos, FCaps[fHMAC], Zero)
  BY <1>2, PutKept
<1> HIDE DEF q
<1>4. pos = Room({fMagic, fFlags}) /\ pos + FCaps[fHMAC] <= n
  <2>1. pos = Room({fMagic, fFlags}) BY FinitFacts, StartOfInit
  <2>2. pos \in Nat /\ pos + FCaps[fHMAC] <= Room(finit(key)) BY <1>2, FieldNames, StartFits
  <2>3. FCaps[fHMAC] \in Nat /\ Room(finit(key)) \in Nat BY FieldNames, FieldFacts, FinitFacts
  <2> QED BY <1>1, <2>1, <2>2, <2>3
<1> HIDE DEF pos
<1>5. Wrote(bytes, Blank(bytes), pos, FCaps[fHMAC], Zero) BY <1>4, BlankIs
<1>6. AnySeq(Content(q)) /\ Len(Content(q)) = n /\ \A i \in 1 .. n : Content(q)[i] = q.array[i]
  <2>1. Len(q.array) = Len(p.array) BY <1>3 DEF Wrote
  <2>2. q.len \in 0 .. Len(q.array) BY <1>1, <1>3, <2>1
  <2> QED BY <1>3, <2>2, ContentIs
<1>7. ASSUME NEW i \in 1 .. n PROVE Content(q)[i] = Blank(bytes)[i]
  <2>1. i \in 1 .. Len(p.array) BY <1>1
  <2>2. q.array[i] = IF pos < i /\ i <= pos + FCaps[fHMAC] THEN Byte(Zero, i - pos) ELSE p.array[i]
    BY <1>3, <2>1 DEF Wrote
  <2>3. Blank(bytes)[i] = IF pos < i /\ i <= pos + FCaps[fHMAC] THEN Byte(Zero, i - pos) ELSE bytes[i]
    BY <1>5 DEF Wrote
  <2> QED BY <1>6, <2>2, <2>3
<1>8. AnySeq(Blank(bytes)) /\ Len(Blank(bytes)) = n BY <1>5 DEF Wrote
<1>9. Content(q) = Blank(bytes) BY <1>6, <1>7, <1>8, SeqSame
<1> QED BY <1>3, <1>9 DEF q, pos

(* A signed datagram that fits is valid for who has the key, and taken as it was meant. *)
LEMMA Receiving ==
  ASSUME NEW buffer, IsBuffer(buffer), NEW bytes, NEW vals, NEW load, NEW key, NEW fls,
         Signed(bytes, vals, load, key, fls), "hmac" \notin fls, Len(bytes) <= Len(buffer.array)
  PROVE  LET p == ReadFrom(buffer, bytes, key)
             q == Validated(p, key)
         IN  /\ Valid(p, key)
             /\ FlagsOf(p) = fls \cup KeyFlag(key)
             /\ Taken(q, BlankVals(vals, key), load, key, fls)
             /\ Len(q.array) = Len(buffer.array)
<1> DEFINE p == ReadFrom(buffer, bytes, key)
           q == Validated(p, key)
           n == Len(bytes)
           D == DOMAIN vals
<1>1. /\ Lay(bytes, vals, load) /\ n = Room(D) + Len(load)
      /\ finit(key) \in SUBSET D /\ (key = NoKey => fHMAC \notin D)
      /\ vals[fMagic] = Magic /\ vals[fFlags] = FlagVal(fls \cup KeyFlag(key))
      /\ key # NoKey => vals[fHMAC] = Hash(key, Blank(bytes))
  BY DEF Signed
<1>2. /\ D \in SUBSET Fields /\ AnySeq(bytes) /\ n \in Nat /\ Len(load) \in Nat /\ Room(D) \in Nat
  BY <1>1, LayFacts
<1>3. /\ IsBuffer(p) /\ p.set = finit(key) /\ p.tlen = p.len /\ p.len = n
      /\ Len(p.array) = Len(buffer.array) /\ \A i \in 1 .. n : p.array[i] = bytes[i]
  BY <1>2, ReadFromIs
<1> HIDE DEF p
<1>4. Room(finit(key)) <= Room(D) /\ Room(finit(key)) <= n /\ Room(finit(key)) \in Nat
  <2>1. Room(finit(key)) \in Nat BY FinitFacts
  <2>2. Room(finit(key)) <= Room(D) BY <1>1, <1>2, RoomMore
  <2> QED BY <1>1, <1>2, <2>1, <2>2
<1>5. Lay(p.array, vals, load)
  <2>1. AnySeq(p.array) /\ Room(D) + Len(load) <= Len(p.array) BY <1>1, <1>3 DEF IsBuffer
  <2> QED BY <1>1, <1>3, <2>1, LaySame
<1>6. /\ Pos(p, fMagic) = Start(D, fMagic) /\ Pos(p, fFlags) = Start(D, fFlags)
      /\ Pos(p, fHMAC) = Start(D, fHMAC)
      /\ fMagic \in D /\ fFlags \in D /\ (key # NoKey => fHMAC \in D)
  <2>1. finit(key) \in SUBSET D /\ p.set = finit(key) BY <1>1, <1>3
  <2>2. /\ Pos(p, fMagic) = Start(D, fMagic) /\ Pos(p, fFlags) = Start(D, fFlags)
        /\ Pos(p, fHMAC) = Start(D, fHMAC)
    BY <1>5, <2>1, InitValsRead
  <2>3. fMagic \in D /\ fFlags \in D /\ (key # NoKey => fHMAC \in D)
    <3>1. fMagic \in finit(key) /\ fFlags \in finit(key) /\ (key # NoKey => fHMAC \in finit(key))
      BY FinitFacts
    <3> QED BY <2>1, <3>1
  <2> QED BY <2>2, <2>3
<1>7. Get(p, fMagic) = Magic
  <2>1. Proper(Magic) BY DEF Proper, Magic
  <2> QED BY <1>1, <1>5, <1>6, <2>1, GetLaid
<1>8. FlagsOf(p) = fls \cup KeyFlag(key) BY <1>1, <1>5, <1>6, FlagsRead
<1>9. /\ ClaimsHMAC(p) <=> key # NoKey
      /\ ClaimsHMAC(p) = (key # NoKey)
  BY <1>8 DEF ClaimsHMAC, KeyFlag
<1>10. Fits(p) BY <1>3, <1>4 DEF Fits, FieldsLen
<1>11. CASE key = NoKey
  <2>1. Valid(p, key) BY <1>7, <1>9, <1>10, <1>11 DEF Valid
  <2>2. q = p /\ BlankVals(vals, key) = vals BY <1>11 DEF Validated, BlankVals
  <2>3. Taken(p, vals, load, key, fls) BY <1>1, <1>3, <1>5, <1>8 DEF Taken
  <2> QED BY <1>3, <1>8, <2>1, <2>2, <2>3 DEF p
<1>12. CASE key # NoKey
  <2> DEFINE r == Put(p, fHMAC, Zero)
             w == With(vals, fHMAC, Zero)
  <2>1. /\ IsBuffer(r) /\ r.set = p.set /\ r.len = p.len /\ r.tlen = p.tlen
        /\ Content(r) = Blank(bytes)
        /\ Wrote(p.array, r.array, Start(finit(key), fHMAC), FCaps[fHMAC], Zero)
    BY <1>2, <1>3, <1>4, <1>12, ZeroedIsBlank
  <2>2. Get(p, fHMAC) = Hash(key, Blank(bytes))
    <3>1. Proper(Hash(key, Blank(bytes))) BY DEF Proper, Hash
    <3> QED BY <1>1, <1>5, <1>6, <1>12, <3>1, GetLaid
  <2>3. Valid(p, key) BY <1>7, <1>9, <1>10, <1>12, <2>1, <2>2 DEF Valid
  <2>4. q = r /\ BlankVals(vals, key) = w BY <1>9, <1>12 DEF Validated, BlankVals
  <2> HIDE DEF r
  <2>5. Lay(r.array, w, load)
    <3>1. Start(finit(key), fHMAC) = Start(D, fHMAC) BY <1>3, <1>6 DEF Pos, Start
    <3> QED BY <1>5, <1>6, <1>12, <2>1, <3>1, LayKept
  <2>6. /\ DOMAIN w = D /\ w[fFlags] = vals[fFlags]
    <3>1. D \cup {fHMAC} = D BY <1>6, <1>12
    <3>2. fFlags # fHMAC BY DEF fFlags, fHMAC
    <3> QED BY <1>6, <3>1, <3>2 DEF With
  <2> HIDE DEF w
  <2>7. FlagsOf(r) = fls \cup KeyFlag(key)
    <3>1. Pos(r, fFlags) = Start(DOMAIN w, fFlags) BY <1>6, <2>1, <2>6 DEF Pos
    <3> QED BY <1>1, <1>6, <2>5, <2>6, <3>1, FlagsRead
  <2>8. Taken(r, w, load, key, fls) BY <1>1, <1>3, <1>12, <2>1, <2>5, <2>6, <2>7 DEF Taken
  <2>9. Len(r.array) = Len(buffer.array) BY <1>3, <2>1 DEF Wrote
  <2> HIDE DEF q
  <2> QED BY <1>8, <2>3, <2>4, <2>8, <2>9 DEF p, q
<1> QED BY <1>11, <1>12

(* Who has another key, or none, finds the datagram not to be authentic. *)
LEMMA Refusing ==
  ASSUME NEW buffer, IsBuffer(buffer), NEW bytes, NEW vals, NEW load, NEW key, NEW fls,
         Signed(bytes, vals, load, key, fls), "hmac" \notin fls, Len(bytes) <= Len(buffer.array),
         NEW other, other # key
  PROVE  ~Valid(ReadFrom(buffer, bytes, other), other)
<1> DEFINE p == ReadFrom(buffer, bytes, other)
           n == Len(bytes)
           D == DOMAIN vals
<1>1. /\ Lay(bytes, vals, load) /\ n = Room(D) + Len(load)
      /\ finit(key) \in SUBSET D
      /\ vals[fFlags] = FlagVal(fls \cup KeyFlag(key))
      /\ key # NoKey => vals[fHMAC] = Hash(key, Blank(bytes))
  BY DEF Signed
<1>2. /\ D \in SUBSET Fields /\ AnySeq(bytes) /\ n \in Nat /\ Len(load) \in Nat /\ Room(D) \in Nat
  BY <1>1, LayFacts
<1>3. /\ IsBuffer(p) /\ p.set = finit(other)
      /\ Len(p.array) = Len(buffer.array) /\ \A i \in 1 .. n : p.array[i] = bytes[i]
  BY <1>2, ReadFromIs
<1> HIDE DEF p
<1>4. Lay(p.array, vals, load)
  <2>1. AnySeq(p.array) /\ Room(D) + Len(load) <= Len(p.array) BY <1>1, <1>3 DEF IsBuffer
  <2> QED BY <1>1, <1>3, <2>1, LaySame
<1>5. fMagic \in D /\ fFlags \in D /\ (key # NoKey => fHMAC \in D)
  <2>1. fMagic \in finit(key) /\ fFlags \in finit(key) /\ (key # NoKey => fHMAC \in finit(key))
    BY FinitFacts
  <2> QED BY <1>1, <2>1
<1>6. Pos(p, fFlags) = Start(D, fFlags) /\ Pos(p, fHMAC) = Start(D, fHMAC)
  <2>1. finit(other) \in SUBSET Fields /\ fMagic \in finit(other) /\ fFlags \in finit(other)
    BY FinitFacts
  <2>2. /\ Start(finit(other), fFlags) = Room({fMagic})
        /\ Start(finit(other), fHMAC) = Room({fMagic, fFlags})
    BY <2>1, StartOfInit
  <2>3. Start(D, fFlags) = Room({fMagic}) /\ Start(D, fHMAC) = Room({fMagic, fFlags})
    BY <1>2, <1>5, StartOfInit
  <2> QED BY <1>3, <2>2, <2>3 DEF Pos, Start
<1>7. ClaimsHMAC(p) <=> key # NoKey
  <2>1. FlagsOf(p) = fls \cup KeyFlag(key) BY <1>1, <1>4, <1>5, <1>6, FlagsRead
  <2> QED BY <2>1 DEF ClaimsHMAC, KeyFlag
<1>8. CASE key = NoKey \/ other = NoKey
  <2>1. ~(ClaimsHMAC(p) <=> other # NoKey) BY <1>7, <1>8
  <2>2. Valid(p, other) => (ClaimsHMAC(p) <=> other # NoKey) BY DEF Valid, ClaimsHMAC
  <2> QED BY <2>1, <2>2 DEF p
<1>9. CASE key # NoKey /\ other # NoKey
  <2>1. Get(p, fHMAC) = Hash(key, Blank(bytes))
    <3>1. Proper(Hash(key, Blank(bytes))) BY DEF Proper, Hash
    <3> QED BY <1>1, <1>4, <1>5, <1>6, <1>9, <3>1, GetLaid
  <2>2. Valid(p, other) => Get(p, fHMAC) = Hash(other, Content(Put(p, fHMAC, Zero)))
    BY <1>9 DEF Valid
  <2>3. Hash(other, Content(Put(p, fHMAC, Zero))) # Hash(key, Blank(bytes)) BY DEF Hash
  <2> QED BY <2>1, <2>2, <2>3 DEF p
<1> QED BY <1>8, <1>9

\* Flags of signed bytes.
LEMMA SignedFlags ==
  ASSUME NEW bytes, NEW vals, NEW load, NEW key, NEW fls, NEW others,
         Signed(bytes, vals, load, key, fls), others \cup KeyFlag(key) = fls \cup KeyFlag(key)
  PROVE  Signed(bytes, vals, load, key, others)
  BY DEF Signed

-----------------------------------------------------------------------------
(* Reading fields *)

\* A number is read as it was put.
LEMMA NumRead ==
  ASSUME NEW p, NEW vals, NEW load, Lay(p.array, vals, load),
         NEW f \in DOMAIN vals, Pos(p, f) = Start(DOMAIN vals, f),
         NEW kind, NEW n, vals[f] = Num(kind, n)
  PROVE  ReadNum(p, f, kind) = n
<1>1. Proper(vals[f]) BY DEF Proper, Num, Zero
<1>2. Get(p, f) = Num(kind, n) BY <1>1, GetLaid
<1> QED BY <1>2 DEF ReadNum, Num, Zero

\* A field's place depends on the fields before it.
LEMMA StartSame ==
  ASSUME NEW p, NEW D, NEW f, {g \in p.set : g < f} = {g \in D : g < f}
  PROVE  Pos(p, f) = Start(D, f)
  BY DEF Pos, Start

\* AddFields moves no byte.
LEMMA AddFieldsIs ==
  ASSUME NEW p, IsBuffer(p), NEW F \in SUBSET Fields
  PROVE  LET q == AddFields(p, F)
         IN  /\ IsBuffer(q) /\ q.set = p.set \cup F
             /\ q.array = p.array /\ q.len = p.len /\ q.tlen = p.tlen
<1> DEFINE q == AddFields(p, F)
<1>1. p = [array |-> p.array, len |-> p.len, set |-> p.set, tlen |-> p.tlen]
      /\ p.set \in SUBSET Fields /\ AnySeq(p.array)
  BY DEF IsBuffer
<1>2. q = [array |-> p.array, len |-> p.len, set |-> p.set \cup F, tlen |-> p.tlen]
  BY <1>1 DEF AddFields
<1> HIDE DEF q
<1>3. q.array = p.array /\ q.len = p.len /\ q.set = p.set \cup F /\ q.tlen = p.tlen BY <1>2
<1>4. IsBuffer(q) BY <1>1, <1>2, <1>3 DEF IsBuffer
<1> QED BY <1>3, <1>4 DEF q

\* The first fields alone are laid out as they are among the others.
LEMMA LayLow ==
  ASSUME NEW a, NEW vals, NEW load, Lay(a, vals, load), NEW D \in SUBSET DOMAIN vals,
         \A f \in D : \A g \in DOMAIN vals : g < f => g \in D
  PROVE  Lay(a, [f \in D |-> vals[f]], <<>>)
<1> DEFINE w == [f \in D |-> vals[f]]
<1>1. /\ DOMAIN vals \in SUBSET Fields /\ AnySeq(a) /\ Len(a) \in Nat
      /\ Len(load) \in Nat /\ Room(DOMAIN vals) \in Nat
      /\ Room(DOMAIN vals) + Len(load) <= Len(a)
  BY LayFacts
<1>2. AnySeq(<<>>) /\ Len(<<>>) = 0
  <2>1. <<>> \in Seq({}) /\ Len(<<>>) = 0 BY EmptySeq
  <2> QED BY <2>1, Zenon DEF AnySeq
<1>3. Room(D) \in Nat /\ Room(D) <= Room(DOMAIN vals)
  <2>1. D \in SUBSET Fields BY <1>1
  <2>2. Room(D) \in Nat BY <2>1, RoomType
  <2>3. Room(D) <= Room(DOMAIN vals) BY <1>1, RoomMore
  <2> QED BY <2>2, <2>3
<1>4. Room(D) + 0 <= Len(a) BY <1>1, <1>3
<1>5. ASSUME NEW f \in D, NEW k \in 1 .. FCaps[f] PROVE a[Start(D, f) + k] = Byte(w[f], k)
  <2>1. {g \in D : g < f} = {g \in DOMAIN vals : g < f} OBVIOUS
  <2>2. a[Start(DOMAIN vals, f) + k] = Byte(vals[f], k) BY DEF Lay
  <2> QED BY <2>1, <2>2 DEF Start
<1>6. DOMAIN w = D /\ D \in SUBSET Fields BY <1>1
<1> HIDE DEF w
<1>7. Lay(a, w, <<>>) BY <1>1, <1>2, <1>4, <1>5, <1>6 DEF Lay
<1> QED BY <1>7 DEF w

-----------------------------------------------------------------------------
(* Parameters *)

ParamNames ==
  {"version", "duration", "interval", "length", "stats", "stamp", "clock", "dscp", "fill"}

ParamByte(params, n) == <<"param", <<n, params[n]>>, 1>>

(* The bytes of those of the parameters N that are not zero, one of each. *)
Carries(bytes, params, N) ==
  /\ AnySeq(bytes)
  /\ \A i \in 1 .. Len(bytes) : \E n \in N :
        params[n] # ZeroParams[n] /\ bytes[i] = ParamByte(params, n)
  /\ \A n \in N : params[n] # ZeroParams[n] => \E i \in 1 .. Len(bytes) : bytes[i] = ParamByte(params, n)
  /\ \A i, j \in 1 .. Len(bytes) : bytes[i] = bytes[j] => i = j

Param(params, n) == IF params[n] = ZeroParams[n] THEN <<>> ELSE <<ParamByte(params, n)>>

\* Sequences of one element or none.
LEMMA OneOrNone ==
  /\ AnySeq(<<>>) /\ Len(<<>>) = 0
  /\ \A e : AnySeq(<<e>>) /\ Len(<<e>>) = 1 /\ <<e>>[1] = e
<1>1. AnySeq(<<>>) /\ Len(<<>>) = 0
  <2>1. <<>> \in Seq({}) /\ Len(<<>>) = 0 BY EmptySeq
  <2> QED BY <2>1, Zenon DEF AnySeq
<1>2. ASSUME NEW e PROVE AnySeq(<<e>>) /\ Len(<<e>>) = 1 /\ <<e>>[1] = e
  <2>1. <<e>> \in Seq({e}) /\ Len(<<e>>) = 1 /\ <<e>>[1] = e OBVIOUS
  <2> QED BY <2>1, Zenon DEF AnySeq
<1> QED BY <1>1, <1>2

\* A parameter that is encoded behind others.
LEMMA CarriesMore ==
  ASSUME NEW bytes, NEW params, NEW N, Carries(bytes, params, N), NEW n, n \notin N
  PROVE  /\ Carries(bytes \o Param(params, n), params, N \cup {n})
         /\ Len(bytes \o Param(params, n)) <= Len(bytes) + 1
<1> DEFINE e == ParamByte(params, n)
           part == Param(params, n)
           all == bytes \o part
           m == Len(bytes)
<1>1. AnySeq(bytes) /\ m \in Nat BY SeqFacts DEF Carries
<1>2. CASE params[n] = ZeroParams[n]
  <2>1. part = <<>> BY <1>2 DEF Param
  <2>2. AnySeq(part) /\ Len(part) = 0 BY <2>1, OneOrNone
  <2>3. AnySeq(all) /\ Len(all) = m + 0 BY <1>1, <2>2, AnyCat
  <2>4. \A i \in 1 .. m : all[i] = bytes[i] BY <1>1, <2>2, AnyCat
  <2> HIDE DEF part, all
  <2>5. all = bytes
    <3>1. Len(all) = m BY <1>1, <2>3
    <3> QED BY <1>1, <2>3, <2>4, <3>1, SeqSame
  <2>6. Carries(bytes, params, N \cup {n}) BY <1>2 DEF Carries
  <2> QED BY <1>1, <2>5, <2>6 DEF all, part
<1>3. CASE params[n] # ZeroParams[n]
  <2>1. part = <<e>> BY <1>3 DEF Param
  <2>2. AnySeq(part) /\ Len(part) = 1 /\ part[1] = e BY <2>1, OneOrNone
  <2> HIDE DEF part
  <2>3. /\ AnySeq(all) /\ Len(all) = m + 1
        /\ \A i \in 1 .. m + 1 : all[i] = IF i <= m THEN bytes[i] ELSE part[i - m]
    BY <1>1, <2>2, AnyCat
  <2> HIDE DEF all
  <2>4. \A i \in 1 .. m : all[i] = bytes[i] BY <1>1, <2>3
  <2>5. all[m + 1] = e
    <3>1. ~(m + 1 <= m) /\ (m + 1) - m = 1 BY <1>1
    <3> QED BY <1>1, <2>2, <2>3, <3>1
  <2>6. \A i \in 1 .. m + 1 : i \in 1 .. m \/ i = m + 1 BY <1>1
  <2>7. \A i \in 1 .. m : all[i] # e
    <3> SUFFICES ASSUME NEW i \in 1 .. m PROVE bytes[i] # e BY <2>4
    <3>1. PICK k \in N : bytes[i] = ParamByte(params, k) BY DEF Carries
    <3> QED BY <3>1 DEF ParamByte
  <2>8. \A i \in 1 .. m + 1 : \E k \in N \cup {n} :
           params[k] # ZeroParams[k] /\ all[i] = ParamByte(params, k)
    <3> SUFFICES ASSUME NEW i \in 1 .. m + 1
                 PROVE  \E k \in N \cup {n} : params[k] # ZeroParams[k] /\ all[i] = ParamByte(params, k)
      OBVIOUS
    <3>1. CASE i \in 1 .. m
      <4>1. PICK k \in N : params[k] # ZeroParams[k] /\ bytes[i] = ParamByte(params, k)
        BY <3>1 DEF Carries
      <4> QED BY <2>4, <3>1, <4>1
    <3>2. CASE i = m + 1 BY <1>3, <2>5, <3>2
    <3> QED BY <2>6, <3>1, <3>2
  <2>9. \A k \in N \cup {n} : params[k] # ZeroParams[k] =>
           \E i \in 1 .. m + 1 : all[i] = ParamByte(params, k)
    <3> SUFFICES ASSUME NEW k \in N \cup {n}, params[k] # ZeroParams[k]
                 PROVE  \E i \in 1 .. m + 1 : all[i] = ParamByte(params, k)
      OBVIOUS
    <3>1. CASE k \in N
      <4>1. PICK i \in 1 .. m : bytes[i] = ParamByte(params, k) BY <3>1 DEF Carries
      <4>2. i \in 1 .. m + 1 BY <1>1
      <4> QED BY <2>4, <4>1, <4>2
    <3>2. CASE k = n
      <4>1. m + 1 \in 1 .. m + 1 BY <1>1
      <4> QED BY <2>5, <3>2, <4>1
    <3> QED BY <3>1, <3>2
  <2>10. \A i, j \in 1 .. m + 1 : all[i] = all[j] => i = j
    <3>1. \A i, j \in 1 .. m : all[i] = all[j] => i = j BY <2>4 DEF Carries
    <3> QED BY <2>5, <2>6, <2>7, <3>1
  <2>11. Carries(all, params, N \cup {n}) BY <2>3, <2>8, <2>9, <2>10 DEF Carries
  <2> QED BY <1>1, <2>3, <2>11 DEF all, part
<1> QED BY <1>2, <1>3

(* What is encoded: every parameter that is not zero, one byte each. *)
LEMMA EncodedCarries ==
  ASSUME NEW params
  PROVE  Carries(Encoded(params), params, ParamNames) /\ Len(Encoded(params)) <= 9
<1> DEFINE P(n) == Param(params, n)
           s0 == <<>>
           s1 == P("version")
           s2 == s1 \o P("duration")
           s3 == s2 \o P("interval")
           s4 == s3 \o P("length")
           s5 == s4 \o P("stats")
           s6 == s5 \o P("stamp")
           s7 == s6 \o P("clock")
           s8 == s7 \o P("dscp")
           s9 == s8 \o P("fill")
<1>1. Encoded(params) = s9 BY DEF Encoded, Param, ParamByte
<1>2. Carries(s0, params, {}) /\ Len(s0) = 0
  <2>1. AnySeq(s0) /\ Len(s0) = 0 BY OneOrNone
  <2> QED BY <2>1 DEF Carries
<1>3. s0 \o s1 = s1
  <2>1. AnySeq(s1)
    <3>1. s1 = <<>> \/ s1 = <<ParamByte(params, "version")>> BY DEF Param
    <3> QED BY <3>1, OneOrNone
  <2>2. AnySeq(s0) /\ Len(s0) = 0 BY OneOrNone
  <2> DEFINE t == s0 \o s1
  <2>3. AnySeq(t) /\ Len(t) = 0 + Len(s1) BY <2>1, <2>2, AnyCat
  <2>4. Len(s1) \in Nat BY <2>1, SeqFacts
  <2>5. \A i \in 1 .. 0 + Len(s1) : t[i] = IF i <= 0 THEN s0[i] ELSE s1[i - 0]
    BY <2>1, <2>2, AnyCat
  <2> HIDE DEF t, s1
  <2>6. \A i \in 1 .. Len(t) : t[i] = s1[i] BY <2>3, <2>4, <2>5
  <2>7. t = s1 BY <2>1, <2>3, <2>4, <2>6, SeqSame
  <2> QED BY <2>7 DEF t
<1> HIDE DEF s0
<1>4. Carries(s1, params, {"version"}) /\ Len(s1) <= 1
  <2> DEFINE N == {}
  <2>1. "version" \notin N OBVIOUS
  <2>2. Carries(s0, params, N) BY <1>2
  <2> HIDE DEF N
  <2>3. Carries(s0 \o s1, params, N \cup {"version"}) /\ Len(s0 \o s1) <= Len(s0) + 1
    BY <2>1, <2>2, CarriesMore
  <2>4. N \cup {"version"} = {"version"} BY DEF N
  <2>5. Len(s0) + 1 = 1 BY <1>2
  <2> HIDE DEF s1
  <2> QED BY <1>3, <2>3, <2>4, <2>5
<1> HIDE DEF s1
<1>5. Carries(s2, params, {"version"} \cup {"duration"}) /\ Len(s2) <= Len(s1) + 1
  <2> DEFINE N == {"version"}
  <2>1. "duration" \notin N /\ Carries(s1, params, N) BY <1>4
  <2> HIDE DEF N
  <2>2. Carries(s2, params, N \cup {"duration"}) /\ Len(s2) <= Len(s1) + 1 BY <2>1, CarriesMore
  <2> QED BY <2>2 DEF N
<1> HIDE DEF s2
<1>6. Carries(s3, params, {"version", "duration"} \cup {"interval"}) /\ Len(s3) <= Len(s2) + 1
  <2>1. {"version"} \cup {"duration"} = {"version", "duration"} OBVIOUS
  <2> QED BY <1>5, <2>1, CarriesMore
<1> HIDE DEF s3
<1>7. Carries(s4, params, {"version", "duration", "interval"} \cup {"length"}) /\ Len(s4) <= Len(s3) + 1
  <2>1. {"version", "duration"} \cup {"interval"} = {"version", "duration", "interval"} OBVIOUS
  <2> QED BY <1>6, <2>1, CarriesMore
<1> HIDE DEF s4
<1>8. /\ Carries(s5, params, {"version", "duration", "interval", "length"} \cup {"stats"})
      /\ Len(s5) <= Len(s4) + 1
  <2>1. {"version", "duration", "interval"} \cup {"length"}
          = {"version", "duration", "interval", "length"}
    OBVIOUS
  <2> QED BY <1>7, <2>1, CarriesMore
<1> HIDE DEF s5
<1>9. /\ Carries(s6, params, {"version", "duration", "interval", "length", "stats"} \cup {"stamp"})
      /\ Len(s6) <= Len(s5) + 1
  <2>1. {"version", "duration", "interval", "length"} \cup {"stats"}
          = {"version", "duration", "interval", "length", "stats"}
    OBVIOUS
  <2> QED BY <1>8, <2>1, CarriesMore
<1> HIDE DEF s6
<1>10. /\ Carries(s7, params, {"version", "duration", "interval", "length", "stats", "stamp"} \cup {"clock"})
       /\ Len(s7) <= Len(s6) + 1
  <2>1. {"version", "duration", "interval", "length", "stats"} \cup {"stamp"}
          = {"version", "duration", "interval", "length", "stats", "stamp"}
    OBVIOUS
  <2> QED BY <1>9, <2>1, CarriesMore
<1> HIDE DEF s7
<1>11. /\ Carries(s8, params,
                  {"version", "duration", "interval", "length", "stats", "stamp", "clock"} \cup {"dscp"})
       /\ Len(s8) <= Len(s7) + 1
  <2>1. {"version", "duration", "interval", "length", "stats", "stamp"} \cup {"clock"}
          = {"version", "duration", "interval", "length", "stats", "stamp", "clock"}
    OBVIOUS
  <2> QED BY <1>10, <2>1, CarriesMore
<1> HIDE DEF s8
<1>12. /\ Carries(s9, params,
                  {"version", "duration", "interval", "length", "stats", "stamp", "clock", "dscp"}
                    \cup {"fill"})
       /\ Len(s9) <= Len(s8) + 1
  <2>1. {"version", "duration", "interval", "length", "stats", "stamp", "clock"} \cup {"dscp"}
          = {"version", "duration", "interval", "length", "stats", "stamp", "clock", "dscp"}
    OBVIOUS
  <2> QED BY <1>11, <2>1, CarriesMore
<1> HIDE DEF s9
<1>13. {"version", "duration", "interval", "length", "stats", "stamp", "clock", "dscp"} \cup {"fill"}
         = ParamNames
  BY DEF ParamNames
<1>14. Len(s9) <= 9
  <2>1. /\ Len(s1) \in Nat /\ Len(s2) \in Nat /\ Len(s3) \in Nat /\ Len(s4) \in Nat
        /\ Len(s5) \in Nat /\ Len(s6) \in Nat /\ Len(s7) \in Nat /\ Len(s8) \in Nat
        /\ Len(s9) \in Nat
    BY <1>4, <1>5, <1>6, <1>7, <1>8, <1>9, <1>10, <1>11, <1>12, SeqFacts DEF Carries
  <2> QED BY <1>4, <1>5, <1>6, <1>7, <1>8, <1>9, <1>10, <1>11, <1>12, <2>1
<1> QED BY <1>1, <1>12, <1>13, <1>14

(* The receiver of encoded parameters reads those that were meant. *)
LEMMA ParsesEncoded ==
  ASSUME NEW params \in ParamsType, NEW bytes, Carries(bytes, params, ParamNames)
  PROVE  ParseParams(bytes) = params
<1> DEFINE Spots(n) == {i \in DOMAIN bytes : bytes[i][1] = "param" /\ bytes[i][2][1] = n}
           Last(n) == CHOOSE i \in Spots(n) : \A j \in Spots(n) : j <= i
           Of(n) == IF Spots(n) = {} THEN ZeroParams[n] ELSE bytes[Last(n)][2][2]
<1>1. DOMAIN bytes = 1 .. Len(bytes) /\ Len(bytes) \in Nat BY SeqFacts DEF Carries
<1>2. DOMAIN ZeroParams = ParamNames BY DEF ZeroParams, ParamNames
<1>3. params = [n \in ParamNames |-> params[n]]
  BY DEF ParamsType, ParamNames
<1>4. ASSUME NEW n \in ParamNames PROVE Of(n) = params[n]
  <2>1. \A i \in 1 .. Len(bytes) : bytes[i] = ParamByte(params, n)
                                   <=> bytes[i][1] = "param" /\ bytes[i][2][1] = n
    <3> SUFFICES ASSUME NEW i \in 1 .. Len(bytes)
                 PROVE  bytes[i] = ParamByte(params, n) <=> bytes[i][1] = "param" /\ bytes[i][2][1] = n
      OBVIOUS
    <3>1. PICK k \in ParamNames : bytes[i] = ParamByte(params, k) BY DEF Carries
    <3> QED BY <3>1 DEF ParamByte
  <2>2. Spots(n) = {i \in 1 .. Len(bytes) : bytes[i] = ParamByte(params, n)} BY <1>1, <2>1
  <2>3. CASE params[n] = ZeroParams[n]
    <3>1. ASSUME NEW i \in 1 .. Len(bytes), bytes[i] = ParamByte(params, n) PROVE FALSE
      <4>1. PICK k \in ParamNames : params[k] # ZeroParams[k] /\ bytes[i] = ParamByte(params, k)
        BY DEF Carries
      <4>2. k = n BY <3>1, <4>1 DEF ParamByte
      <4> QED BY <2>3, <4>1, <4>2
    <3>2. Spots(n) = {} BY <2>2, <3>1
    <3> QED BY <2>3, <3>2
  <2>4. CASE params[n] # ZeroParams[n]
    <3>1. PICK i \in 1 .. Len(bytes) : bytes[i] = ParamByte(params, n) BY <2>4 DEF Carries
    <3>2. Spots(n) = {i}
      <4>1. \A j \in 1 .. Len(bytes) : bytes[j] = ParamByte(params, n) => j = i
        BY <3>1 DEF Carries
      <4> QED BY <2>2, <3>1, <4>1
    <3>3. Last(n) = i
      <4>1. i <= i BY <1>1
      <4> QED BY <3>2, <4>1
    <3>4. bytes[i][2][2] = params[n] BY <3>1 DEF ParamByte
    <3> QED BY <3>2, <3>3, <3>4
  <2> QED BY <2>3, <2>4
<1>5. ParseParams(bytes) = [n \in ParamNames |-> Of(n)] BY <1>2 DEF ParseParams
<1> HIDE DEF Of
<1> QED BY <1>3, <1>4, <1>5

-----------------------------------------------------------------------------
(* The packets of the handshake and of the close *)

\* There is room for nine bytes after the fields of a request.
LEMMA HeaderRoom ==
  ASSUME NEW key
  PROVE  /\ finit(key) \cup {fConnToken} \in SUBSET Fields
         /\ Room(finit(key) \cup {fConnToken}) \in Nat
         /\ Room(finit(key) \cup {fConnToken}) = Room(finit(key)) + FCaps[fConnToken]
         /\ Room(finit(key) \cup {fConnToken}) + 9 <= HeaderLen
<1> DEFINE R == {1, 2, 3, 4}
           F == finit(key) \cup {fConnToken}
<1>1. \A f \in 1 .. 13 : f \in Fields /\ FCaps[f] \in Nat /\ FCaps[f] > 0 BY FieldFacts
<1>2. Room(R) \in Nat /\ R \in SUBSET Fields
  <2>1. R \in SUBSET Fields BY <1>1
  <2> QED BY <2>1, RoomType
<1>3. F \in SUBSET R /\ F \in SUBSET Fields
  <2>1. F \in SUBSET R BY DEF finit, fMagic, fFlags, fHMAC, fConnToken
  <2> QED BY <1>2, <2>1
<1>4. Room(F) \in Nat /\ Room(F) <= Room(R) BY <1>2, <1>3, RoomType, RoomMore
<1>5. ASSUME NEW n \in 4 .. 12
      PROVE  /\ (1 .. n + 1) \in SUBSET Fields /\ Room(1 .. n) \in Nat /\ Room(1 .. n + 1) \in Nat
             /\ Room(1 .. n) + 1 <= Room(1 .. n + 1)
  <2>1. (1 .. n) \in SUBSET Fields /\ (1 .. n + 1) \in SUBSET Fields /\ n + 1 \in Fields BY FieldFacts
  <2>2. n + 1 \notin 1 .. n /\ (1 .. n) \cup {n + 1} = 1 .. n + 1 OBVIOUS
  <2>3. Room((1 .. n) \cup {n + 1}) = Room(1 .. n) + FCaps[n + 1] BY <2>1, <2>2, RoomPlus
  <2>4. FCaps[n + 1] \in Nat /\ FCaps[n + 1] > 0 BY <2>1, FieldFacts
  <2>5. Room(1 .. n) \in Nat /\ Room(1 .. n + 1) \in Nat BY <2>1, RoomType
  <2>6. Room(1 .. n + 1) = Room(1 .. n) + FCaps[n + 1] BY <2>2, <2>3
  <2> QED BY <2>1, <2>4, <2>5, <2>6
<1>6. Room(1 .. 4) + 9 <= Room(1 .. 13)
  <2>1. Room(1 .. 4) \in Nat /\ Room(1 .. 4) + 1 <= Room(1 .. 5) /\ Room(1 .. 5) \in Nat
    BY <1>5, 4 \in 4 .. 12, 4 + 1 = 5
  <2>2. Room(1 .. 5) + 1 <= Room(1 .. 6) /\ Room(1 .. 6) \in Nat BY <1>5, 5 \in 4 .. 12, 5 + 1 = 6
  <2>3. Room(1 .. 6) + 1 <= Room(1 .. 7) /\ Room(1 .. 7) \in Nat BY <1>5, 6 \in 4 .. 12, 6 + 1 = 7
  <2>4. Room(1 .. 7) + 1 <= Room(1 .. 8) /\ Room(1 .. 8) \in Nat BY <1>5, 7 \in 4 .. 12, 7 + 1 = 8
  <2>5. Room(1 .. 8) + 1 <= Room(1 .. 9) /\ Room(1 .. 9) \in Nat BY <1>5, 8 \in 4 .. 12, 8 + 1 = 9
  <2>6. Room(1 .. 9) + 1 <= Room(1 .. 10) /\ Room(1 .. 10) \in Nat BY <1>5, 9 \in 4 .. 12, 9 + 1 = 10
  <2>7. Room(1 .. 10) + 1 <= Room(1 .. 11) /\ Room(1 .. 11) \in Nat BY <1>5, 10 \in 4 .. 12, 10 + 1 = 11
  <2>8. Room(1 .. 11) + 1 <= Room(1 .. 12) /\ Room(1 .. 12) \in Nat BY <1>5, 11 \in 4 .. 12, 11 + 1 = 12
  <2>9. Room(1 .. 12) + 1 <= Room(1 .. 13) /\ Room(1 .. 13) \in Nat BY <1>5, 12 \in 4 .. 12, 12 + 1 = 13
  <2> QED BY <2>1, <2>2, <2>3, <2>4, <2>5, <2>6, <2>7, <2>8, <2>9
<1>7. R = 1 .. 4 OBVIOUS
<1>8. HeaderLen = Room(1 .. 13) /\ HeaderLen \in Nat
  <2>1. Fields = 1 .. 13 BY FieldFacts
  <2> QED BY <2>1, FinitFacts DEF HeaderLen
<1>9. Room(F) = Room(finit(key)) + FCaps[fConnToken]
  <2>1. fConnToken \notin finit(key) BY DEF finit, fConnToken, fMagic, fFlags, fHMAC
  <2> QED BY <2>1, FinitFacts, FieldNames, RoomPlus
<1> HIDE DEF R, F
<1>10. Room(F) + 9 <= HeaderLen BY <1>2, <1>4, <1>6, <1>7, <1>8
<1> QED BY <1>3, <1>4, <1>9, <1>10 DEF F

\* A datagram of these fields and this load, signed.
IsSigned(bytes, D, load, key, fls) ==
  \E w : DOMAIN w = D /\ Signed(bytes, w, load, key, fls)

\* Encoded parameters fit behind the fields of an open packet.
LEMMA EncodedFits ==
  ASSUME NEW params, NEW key, NEW F \in SUBSET (finit(key) \cup {fConnToken})
  PROVE  /\ AnySeq(Encoded(params)) /\ Len(Encoded(params)) \in 0 .. 9
         /\ Room(F) \in Nat /\ Room(F) + Len(Encoded(params)) <= HeaderLen
         /\ HeaderLen \in Nat
<1>1. AnySeq(Encoded(params)) /\ Len(Encoded(params)) <= 9 BY EncodedCarries DEF Carries
<1>2. Len(Encoded(params)) \in 0 .. 9
  <2> DEFINE n == Len(Encoded(params))
  <2>1. n \in Nat /\ n <= 9 BY <1>1, SeqFacts
  <2> HIDE DEF n
  <2>2. n \in 0 .. 9 BY <2>1
  <2> QED BY <2>2 DEF n
<1> DEFINE E == finit(key) \cup {fConnToken}
<1>3. E \in SUBSET Fields /\ Room(E) \in Nat /\ Room(E) + 9 <= HeaderLen /\ HeaderLen \in Nat
  BY HeaderRoom, FinitFacts
<1> HIDE DEF E
<1>4. F \in SUBSET E BY DEF E
<1>5. F \in SUBSET Fields BY <1>3, <1>4
<1>6. Room(F) \in Nat BY <1>5, RoomType
<1>7. Room(F) <= Room(E) BY <1>3, <1>4, RoomMore
<1> HIDE DEF E
<1> QED BY <1>1, <1>2, <1>3, <1>6, <1>7

\* Values of a new packet.
LEMMA NewValsAre ==
  ASSUME NEW D, fFlags \in D, fMagic \in D
  PROVE  DOMAIN NewVals(D) = D /\ NewVals(D)[fMagic] = Magic /\ NewVals(D)[fFlags] = FlagVal({})
BY DEF NewVals, FlagVal, fFlags, fMagic

\* A function with another value for the flags.
LEMMA WithFlags ==
  ASSUME NEW vals, fFlags \in DOMAIN vals, NEW val
  PROVE  /\ DOMAIN With(vals, fFlags, val) = DOMAIN vals
         /\ With(vals, fFlags, val)[fFlags] = val
         /\ \A f \in DOMAIN vals : f # fFlags => With(vals, fFlags, val)[f] = vals[f]
<1>1. DOMAIN vals \cup {fFlags} = DOMAIN vals OBVIOUS
<1> QED BY <1>1 DEF With

Flagged(fb, q, vals, load, fls) ==
  /\ Holds(q, With(vals, fFlags, FlagVal(fls)), load)
  /\ q.set = fb.set /\ q.len = fb.len /\ q.tlen = fb.tlen
  /\ Len(q.array) = Len(fb.array) /\ Beyond(fb.array, q.array, Room(fb.set))

\* SetFlagBits on a packet that holds its flags.
LEMMA FlaggedPut ==
  ASSUME NEW fb, NEW vals, NEW load, Holds(fb, vals, load), fFlags \in DOMAIN vals,
         NEW old, vals[fFlags] = FlagVal(old), NEW fls, fls # {}
  PROVE  Flagged(fb, SetFlagBits(fb, fls), vals, load, old \cup fls)
<1> DEFINE q == SetFlagBits(fb, fls)
<1>1. /\ Holds(q, With(vals, fFlags, FlagVal(old \cup fls)), load)
      /\ q.set = fb.set /\ q.len = fb.len /\ q.tlen = fb.tlen
      /\ Len(q.array) = Len(fb.array) /\ Beyond(fb.array, q.array, Room(fb.set))
  BY SetFlagBitsHolds
<1> HIDE DEF q
<1>2. Flagged(fb, q, vals, load, old \cup fls) BY <1>1 DEF Flagged
<1> QED BY <1>2 DEF q

\* OpenRequest is signed, and carries what is asked.
LEMMA OpenRequestIs ==
  ASSUME NEW c
  PROVE  IsSigned(Content(OpenRequest(c)), finit(setup[c].key), Encoded(setup[c].asked),
                  setup[c].key, {"open"})
<1> DEFINE key == setup[c].key
           load == Encoded(setup[c].asked)
           new == NewPacket(HeaderLen, key)
           u == NewVals(finit(key))
           p == SetFlagBits(new, {"open"})
           v == With(u, fFlags, FlagVal({} \cup {"open"}))
           r == SetPayload(p, load)
           q == UpdateHMAC(r, key)
<1>1. OpenRequest(c) = q BY DEF OpenRequest
<1> HIDE DEF key, load
<1>2. /\ Snug(new, u) /\ new.set = finit(key) /\ Len(new.array) = Larger(HeaderLen, HeaderLen)
  <2>1. HeaderLen \in Int BY FinitFacts
  <2> QED BY <2>1, NewPacketIs
<1>3. HeaderLen \in Nat /\ Len(new.array) = HeaderLen BY <1>2, FinitFacts DEF Larger
<1>4. fMagic \in finit(key) /\ fFlags \in finit(key) /\ (key # NoKey => fHMAC \in finit(key))
  BY FinitFacts
<1>5. DOMAIN u = finit(key) /\ u[fMagic] = Magic /\ u[fFlags] = FlagVal({})
  BY <1>4, NewValsAre
<1> HIDE DEF new, u
<1>6. Holds(new, u, <<>>) /\ new.tlen \in Int BY <1>2 DEF Snug
<1>7. /\ Holds(p, v, <<>>) /\ p.set = new.set /\ p.tlen = new.tlen
      /\ Len(p.array) = Len(new.array)
  <2>1. {"open"} # {} OBVIOUS
  <2> QED BY <1>4, <1>5, <1>6, <2>1, SetFlagBitsHolds, ZenonT(30)
<1>8. DOMAIN v = finit(key) /\ v[fFlags] = FlagVal({"open"}) /\ v[fMagic] = Magic
  <2>1. {} \cup {"open"} = {"open"} OBVIOUS
  <2>2. fMagic # fFlags BY DEF fMagic, fFlags
  <2> QED BY <1>4, <1>5, <2>1, <2>2, WithFlags
<1> HIDE DEF p, v
<1>9. AnySeq(load) /\ Room(p.set) + Len(load) <= Len(p.array)
  <2>1. finit(key) \in SUBSET (finit(key) \cup {fConnToken}) OBVIOUS
  <2>2. AnySeq(load) /\ Room(finit(key)) + Len(load) <= HeaderLen BY <2>1, EncodedFits DEF load
  <2> QED BY <1>2, <1>3, <1>7, <2>2
<1>10. /\ Holds(r, v, load) /\ Exact(r, load) /\ r.tlen = p.tlen
  BY <1>7, <1>9, SetPayloadHolds
<1> HIDE DEF r
<1>11. r.tlen \in Int BY <1>6, <1>7, <1>10
<1>12. \E w : SignedAs(v, w, key) /\ Signed(Content(q), w, load, key, {"open"})
  <2>1. fMagic \in DOMAIN v /\ fFlags \in DOMAIN v /\ (key # NoKey => fHMAC \in DOMAIN v)
    BY <1>4, <1>8
  <2>2. key = NoKey => fHMAC \notin DOMAIN v BY <1>8, FinitFacts
  <2> QED BY <1>8, <1>10, <1>11, <2>1, <2>2, UpdateHMACSigns
<1> HIDE DEF q
<1>13. PICK w : SignedAs(v, w, key) /\ Signed(Content(q), w, load, key, {"open"}) BY <1>12
<1>14. DOMAIN w = finit(key)
  <2>1. finit(key) \cup finit(key) = finit(key) OBVIOUS
  <2> QED BY <1>8, <1>13, <2>1 DEF SignedAs
<1>15. IsSigned(Content(q), finit(key), load, key, {"open"}) BY <1>13, <1>14 DEF IsSigned
<1> QED BY <1>1, <1>15 DEF key, load

\* SetFields moves no byte.
LEMMA SetFieldsIs ==
  ASSUME NEW p, IsBuffer(p), NEW F \in SUBSET Fields
  PROVE  LET q == SetFields(p, F)
         IN  /\ IsBuffer(q) /\ q.set = F
             /\ q.array = p.array /\ q.len = p.len /\ q.tlen = p.tlen
<1> DEFINE q == SetFields(p, F)
<1>1. p = [array |-> p.array, len |-> p.len, set |-> p.set, tlen |-> p.tlen] /\ AnySeq(p.array)
  BY DEF IsBuffer
<1>2. q = [array |-> p.array, len |-> p.len, set |-> F, tlen |-> p.tlen] BY <1>1 DEF SetFields
<1> HIDE DEF q
<1>3. q.array = p.array /\ q.len = p.len /\ q.set = F /\ q.tlen = p.tlen BY <1>2
<1>4. IsBuffer(q) BY <1>1, <1>2, <1>3 DEF IsBuffer
<1> QED BY <1>3, <1>4 DEF q

\* The same of one that has a connection token.
IsSignedFor(bytes, token, D, load, key, fls) ==
  \E w : DOMAIN w = D /\ w[fConnToken] = Num("token", token) /\ Signed(bytes, w, load, key, fls)

\* CloseRequest is signed, and has the token, which the HMAC has moved.
LEMMA CloseRequestIs ==
  ASSUME NEW c
  PROVE  IsSignedFor(Content(CloseRequest(c)), client[c].token, fRequest \cup finit(setup[c].key),
                     <<>>, setup[c].key, {"close"})
<1> DEFINE key == setup[c].key
           token == client[c].token
           new == NewPacket(HeaderLen, key)
           bare == SetFields(new, fRequest)
           tight == Tight(bare)
           u == NewVals(fRequest)
           p == SetFlagBits(tight, {"close"})
           v == With(u, fFlags, FlagVal({} \cup {"close"}))
           r == SetConnToken(p, token)
           x == With(v, fConnToken, Num("token", token))
           q == UpdateHMAC(r, key)
<1>1. CloseRequest(c) = q BY DEF CloseRequest
<1> HIDE DEF key, token
<1>2. /\ Snug(new, NewVals(finit(key))) /\ Fresh(new.array)
      /\ Len(new.array) = Larger(HeaderLen, HeaderLen)
  <2>1. HeaderLen \in Int BY FinitFacts
  <2> QED BY <2>1, NewPacketIs
<1>3. HeaderLen \in Nat /\ Len(new.array) = HeaderLen /\ IsBuffer(new)
  BY <1>2, FinitFacts DEF Larger, Snug, Holds
<1> HIDE DEF new
<1>4. fRequest \in SUBSET Fields /\ fMagic \in fRequest /\ fFlags \in fRequest
      /\ fConnToken \in fRequest /\ fHMAC \notin fRequest
  BY FieldNames DEF fRequest, fMagic, fFlags, fConnToken, fHMAC
<1>5. DOMAIN u = fRequest /\ u[fMagic] = Magic /\ u[fFlags] = FlagVal({})
  BY <1>4, NewValsAre
<1>6. /\ IsBuffer(bare) /\ bare.set = fRequest /\ bare.array = new.array
  BY <1>3, <1>4, SetFieldsIs
<1> HIDE DEF bare
<1>7. Holds(bare, u, <<>>)
  <2>1. Lay(new.array, u, <<>>) BY <1>2, <1>4, FreshLays
  <2> HIDE DEF u
  <2> QED BY <1>5, <1>6, <2>1 DEF Holds
<1> HIDE DEF u
<1>8. Snug(tight, u) /\ tight.array = new.array /\ tight.set = fRequest BY <1>6, <1>7, TightSnug
<1> HIDE DEF tight
<1>9. /\ Holds(tight, u, <<>>) /\ tight.len = Room(fRequest) /\ tight.tlen \in Int
      /\ tight.tlen <= tight.len
  BY <1>8 DEF Snug
<1>10. /\ Holds(p, v, <<>>) /\ p.set = fRequest /\ p.len = tight.len /\ p.tlen = tight.tlen
       /\ Len(p.array) = HeaderLen
  <2>1. {"close"} # {} OBVIOUS
  <2>2. Flagged(tight, p, u, <<>>, {} \cup {"close"}) BY <1>4, <1>5, <1>9, <2>1, FlaggedPut
  <2> HIDE DEF p
  <2> QED BY <1>3, <1>8, <2>2 DEF Flagged
<1>11. DOMAIN v = fRequest /\ v[fFlags] = FlagVal({"close"}) /\ v[fMagic] = Magic
  <2>1. {} \cup {"close"} = {"close"} OBVIOUS
  <2>2. fMagic # fFlags BY DEF fMagic, fFlags
  <2> QED BY <1>4, <1>5, <2>1, <2>2, WithFlags
<1> HIDE DEF p, v
<1>12. Kept(p, r, v, <<>>, fConnToken, Num("token", token))
  BY <1>4, <1>10, <1>11, KeptPut DEF SetConnToken
<1> HIDE DEF r
<1>13. /\ Holds(r, x, <<>>) /\ r.set = fRequest /\ r.len = Room(fRequest) /\ r.tlen \in Int
       /\ r.tlen <= r.len /\ Len(r.array) = HeaderLen
  BY <1>9, <1>10, <1>12 DEF Kept, Beyond
<1>14. /\ DOMAIN x = fRequest /\ x[fConnToken] = Num("token", token)
       /\ x[fFlags] = FlagVal({"close"}) /\ x[fMagic] = Magic
  <2>1. fRequest \cup {fConnToken} = fRequest BY <1>4
  <2>2. fFlags # fConnToken /\ fMagic # fConnToken BY DEF fFlags, fMagic, fConnToken
  <2> QED BY <1>4, <1>11, <2>1, <2>2 DEF With
<1> HIDE DEF x
<1>15. Exact(r, <<>>) /\ Len(<<>>) = 0 /\ Room(fRequest) \in Nat
  <2>1. Len(<<>>) = 0 /\ Room(fRequest) \in Nat BY <1>4, RoomType, OneOrNone
  <2> QED BY <1>13, <2>1 DEF Exact
<1>16. key # NoKey => r.tlen <= r.len - Len(<<>>) /\ r.len + FCaps[fHMAC] <= Len(r.array)
  <2>1. Room(fRequest \cup {fHMAC}) = Room(fRequest) + FCaps[fHMAC]
    BY <1>4, FieldNames, RoomPlus
  <2>2. Room(fRequest \cup {fHMAC}) <= HeaderLen
    <3>1. fRequest \cup {fHMAC} \in SUBSET Fields /\ Fields \in SUBSET Fields BY <1>4, FieldNames
    <3> QED BY <3>1, RoomMore DEF HeaderLen
  <2>3. r.len - Len(<<>>) = r.len BY <1>13, <1>15
  <2> QED BY <1>13, <2>1, <2>2, <2>3
<1>17. \E w : SignedAs(x, w, key) /\ Signed(Content(q), w, <<>>, key, {"close"})
  <2>1. key = NoKey => fHMAC \notin DOMAIN x BY <1>4, <1>14
  <2>2. fMagic \in DOMAIN x /\ fFlags \in DOMAIN x BY <1>4, <1>14
  <2> QED BY <1>13, <1>14, <1>15, <1>16, <2>1, <2>2, UpdateHMACSigns
<1> HIDE DEF q
<1>18. PICK w : SignedAs(x, w, key) /\ Signed(Content(q), w, <<>>, key, {"close"}) BY <1>17
<1>19. DOMAIN w = fRequest \cup finit(key) /\ w[fConnToken] = Num("token", token)
  <2>1. fConnToken # fFlags /\ fConnToken # fHMAC BY DEF fConnToken, fFlags, fHMAC
  <2> QED BY <1>4, <1>14, <1>18, <2>1 DEF SignedAs
<1>20. IsSignedFor(Content(q), token, fRequest \cup finit(key), <<>>, key, {"close"})
  BY <1>18, <1>19 DEF IsSignedFor
<1> QED BY <1>1, <1>20 DEF key, token

\* What Accept makes of the packet that an open request was read into.
OpenReply(p, t, granted, key) ==
  UpdateHMAC(SetPayload(SetFlagBits(SetConnToken(p, t), {"reply"}), Encoded(granted)), key)

\* The reply to an open request, made of it in place, is signed and carries what is granted.
LEMMA OpenReplyIs ==
  ASSUME NEW p, NEW vals, NEW params, NEW key, Taken(p, vals, Encoded(params), key, {"open"}),
         DOMAIN vals = finit(key), vals[fMagic] = Magic, HeaderLen <= Len(p.array), NEW t, NEW granted
  PROVE  LET q == OpenReply(p, t, granted, key)
         IN  /\ IsBuffer(q) /\ Len(q.array) = Len(p.array)
             /\ IsSignedFor(Content(q), t, finit(key) \cup {fConnToken}, Encoded(granted), key,
                            {"open", "reply"})
<1> DEFINE load == Encoded(params)
           own == Encoded(granted)
           D == finit(key) \cup {fConnToken}
           r == SetConnToken(p, t)
           x == With(vals, fConnToken, Num("token", t))
           s == SetFlagBits(r, {"reply"})
           old == {"open"} \cup KeyFlag(key)
           v == With(x, fFlags, FlagVal(old \cup {"reply"}))
           o == SetPayload(s, own)
           q == UpdateHMAC(o, key)
<1>1. OpenReply(p, t, granted, key) = q BY DEF OpenReply
<1>2. /\ IsBuffer(p) /\ p.set = finit(key) /\ p.len = Room(finit(key)) + Len(load) /\ p.tlen = p.len
      /\ Lay(p.array, vals, load) /\ vals[fFlags] = FlagVal(old)
  BY DEF Taken
<1>3. Holds(p, vals, load) BY <1>2 DEF Holds
<1>4. /\ AnySeq(load) /\ Len(load) \in 0 .. 9 /\ AnySeq(own) /\ Len(own) \in 0 .. 9
      /\ Room(D) \in Nat /\ Room(D) + Len(own) <= HeaderLen /\ Room(D) + Len(load) <= HeaderLen
      /\ HeaderLen \in Nat
  <2>1. D \in SUBSET D OBVIOUS
  <2> QED BY <2>1, EncodedFits
<1>5. Room(D) = Room(finit(key)) + FCaps[fConnToken] /\ Room(finit(key)) \in Nat
      /\ FCaps[fConnToken] \in Nat /\ D \in SUBSET Fields
  BY HeaderRoom, FinitFacts, FieldFacts, FieldNames
<1>6. fConnToken \in Fields \ DOMAIN vals
  BY FieldNames DEF finit, fConnToken, fMagic, fFlags, fHMAC
<1> HIDE DEF load, own
<1>7. Len(p.array) \in Nat
  <2>1. AnySeq(p.array) BY <1>2 DEF IsBuffer
  <2> QED BY <2>1, SeqFacts
<1>8. Grown(p, r, vals, load, fConnToken, Num("token", t))
  <2>1. p.len \in Nat /\ Room(p.set) + Len(load) <= p.len /\ p.len + FCaps[fConnToken] <= Len(p.array)
    BY <1>2, <1>4, <1>5, <1>7, SMTT(30)
  <2> QED BY <1>3, <1>6, <2>1, GrownPut DEF SetConnToken
<1> HIDE DEF r
<1>9. Holds(r, x, load) /\ r.set = D /\ Len(r.array) = Len(p.array) /\ r.tlen = p.tlen
  BY <1>2, <1>8 DEF Grown, Beyond
<1>10. fMagic \in finit(key) /\ fFlags \in finit(key) /\ (fHMAC \in finit(key) <=> key # NoKey)
  BY FinitFacts
<1>11. fFlags # fConnToken /\ fMagic # fConnToken /\ fHMAC # fConnToken /\ fMagic # fFlags
       /\ fHMAC # fFlags
  BY DEF fFlags, fMagic, fConnToken, fHMAC
<1>12. /\ DOMAIN x = D /\ x[fConnToken] = Num("token", t)
       /\ x[fFlags] = FlagVal(old) /\ x[fMagic] = Magic
  BY <1>2, <1>10, <1>11 DEF With
<1> HIDE DEF x
<1>13. /\ Holds(s, v, load) /\ s.set = D /\ Len(s.array) = Len(p.array) /\ s.tlen = p.tlen
  <2>1. {"reply"} # {} /\ fFlags \in DOMAIN x BY <1>10, <1>12
  <2> HIDE DEF old
  <2>2. Flagged(r, s, x, load, old \cup {"reply"}) BY <1>9, <1>12, <2>1, FlaggedPut
  <2> HIDE DEF s
  <2> QED BY <1>9, <2>2 DEF Flagged
<1> HIDE DEF s
<1>14. /\ DOMAIN v = D /\ v[fConnToken] = Num("token", t) /\ v[fMagic] = Magic
       /\ v[fFlags] = FlagVal(old \cup {"reply"})
  <2>1. fFlags \in DOMAIN x /\ fMagic \in DOMAIN x /\ fConnToken \in DOMAIN x BY <1>10, <1>12
  <2> QED BY <1>11, <1>12, <2>1, WithFlags
<1> HIDE DEF v
<1>15. /\ Holds(o, v, own) /\ Exact(o, own) /\ o.tlen = p.tlen /\ Len(o.array) = Len(p.array)
  <2>1. Room(s.set) + Len(own) <= Len(s.array) BY <1>4, <1>7, <1>13
  <2> QED BY <1>4, <1>13, <2>1, SetPayloadHolds
<1> HIDE DEF o
<1>16. o.tlen \in Int BY <1>2, <1>4, <1>5, <1>15
<1>17. /\ IsBuffer(q) /\ Len(q.array) = Len(p.array)
       /\ \E w : SignedAs(v, w, key) /\ Signed(Content(q), w, own, key, old \cup {"reply"})
  <2>1. fMagic \in DOMAIN v /\ fFlags \in DOMAIN v /\ (key # NoKey => fHMAC \in DOMAIN v)
        /\ (key = NoKey => fHMAC \notin DOMAIN v)
    BY <1>10, <1>11, <1>14
  <2> HIDE DEF old
  <2> QED BY <1>14, <1>15, <1>16, <2>1, UpdateHMACSigns
<1> HIDE DEF q
<1>18. PICK w : SignedAs(v, w, key) /\ Signed(Content(q), w, own, key, old \cup {"reply"}) BY <1>17
<1>19. DOMAIN w = D /\ w[fConnToken] = Num("token", t)
  <2>1. D \cup finit(key) = D /\ fConnToken \in D OBVIOUS
  <2> QED BY <1>11, <1>14, <1>18, <2>1 DEF SignedAs
<1>20. Signed(Content(q), w, own, key, {"open", "reply"})
  <2>1. {"open", "reply"} \cup KeyFlag(key) = (old \cup {"reply"}) \cup KeyFlag(key) OBVIOUS
  <2> HIDE DEF old
  <2> QED BY <1>18, <2>1, SignedFlags
<1>21. IsSignedFor(Content(q), t, D, own, key, {"open", "reply"})
  BY <1>19, <1>20 DEF IsSignedFor
<1> QED BY <1>1, <1>17, <1>21 DEF own

-----------------------------------------------------------------------------
(* The packets of a test *)

\* The fields of a test are in their order: first ones, request, statistics, times.
LEMMA TestFieldsAre ==
  ASSUME NEW params \in ParamsType, NEW key
  PROVE  /\ StatsFields(params.stats) \in SUBSET {6, 7}
         /\ StampFields(params.stamp, params.clock) \in SUBSET (8 .. 13)
         /\ StampFields(params.stamp, "both") \in SUBSET (8 .. 13)
         /\ finit(key) \cup fechoRequest \in SUBSET (1 .. 5)
         /\ TestFields(params, key) \in SUBSET Fields
         /\ Room(TestFields(params, key)) \in Nat /\ Room(TestFields(params, key)) <= HeaderLen
<1>1. params.stamp \in Stamps /\ params.clock \in {"wall", "monotonic", "both"} BY DEF ParamsType
<1>2. StatsFields(params.stats) \in SUBSET {6, 7} BY DEF StatsFields, fRCount, fRWindow
<1>3. ASSUME NEW clock \in {"wall", "monotonic", "both"}
      PROVE  StampFields(params.stamp, clock) \in SUBSET (8 .. 13)
  <2>1. Places[params.stamp] \in SUBSET {"receive", "midpoint", "send"} BY <1>1 DEF Places, Stamps
  <2>2. ClockKinds[clock] \in SUBSET {"wall", "mono"} BY DEF ClockKinds
  <2>3. ASSUME NEW pl \in {"receive", "midpoint", "send"}, NEW k \in {"wall", "mono"}
        PROVE  StampField[pl][k] \in 8 .. 13
    BY DEF StampField
  <2> QED BY <2>1, <2>2, <2>3 DEF StampFields
<1>4. finit(key) \cup fechoRequest \in SUBSET (1 .. 5)
  BY DEF finit, fechoRequest, fRequest, fMagic, fFlags, fHMAC, fConnToken, fSeqno
<1>5. TestFields(params, key) \in SUBSET Fields
  BY <1>1, <1>2, <1>3, <1>4, FieldNames DEF TestFields
<1>6. Fields \in SUBSET Fields OBVIOUS
<1>7. Room(TestFields(params, key)) \in Nat /\ Room(TestFields(params, key)) <= HeaderLen
  BY <1>5, <1>6, RoomType, RoomMore DEF HeaderLen
<1> QED BY <1>1, <1>2, <1>3, <1>4, <1>5, <1>7

\* Zero bytes after the last field are a field that is zero.
LEMMA LayZeroMore ==
  ASSUME NEW a, NEW vals, Lay(a, vals, <<>>), NEW f \in Fields, f \notin DOMAIN vals,
         \A g \in DOMAIN vals : g < f,
         Room(DOMAIN vals) + FCaps[f] <= Len(a),
         \A i \in 1 .. Len(a) : Room(DOMAIN vals) < i => a[i] = ZeroByte
  PROVE  Lay(a, With(vals, f, Zero), <<>>)
<1> DEFINE D == DOMAIN vals
           w == With(vals, f, Zero)
<1>1. /\ D \in SUBSET Fields /\ AnySeq(a) /\ AnySeq(<<>>) /\ Len(a) \in Nat /\ Room(D) \in Nat
  BY LayFacts
<1>2. Len(<<>>) = 0 /\ FCaps[f] \in Nat BY OneOrNone, FieldFacts
<1>3. DOMAIN w = D \cup {f} /\ w[f] = Zero /\ \A g \in D : w[g] = vals[g] BY DEF With
<1> HIDE DEF w
<1>4. D \cup {f} \in SUBSET Fields /\ Room(D \cup {f}) = Room(D) + FCaps[f] BY <1>1, RoomPlus
<1>5. ASSUME NEW g \in D, NEW k \in 1 .. FCaps[g] PROVE a[Start(D \cup {f}, g) + k] = Byte(w[g], k)
  <2>1. g \in Nat /\ f \in Nat /\ g < f BY <1>1, FieldFacts
  <2>2. {h \in D \cup {f} : h < g} = {h \in D : h < g} BY <2>1
  <2>3. a[Start(D, g) + k] = Byte(vals[g], k) BY DEF Lay
  <2> QED BY <1>3, <2>2, <2>3 DEF Start
<1>6. ASSUME NEW k \in 1 .. FCaps[f] PROVE a[Start(D \cup {f}, f) + k] = Byte(w[f], k)
  <2>1. f \in Nat /\ ~(f < f) BY FieldFacts
  <2>2. {h \in D \cup {f} : h < f} = D BY <2>1
  <2>3. Start(D \cup {f}, f) = Room(D) BY <2>2 DEF Start
  <2> DEFINE i == Room(D) + k
  <2>4. i \in 1 .. Len(a) /\ Room(D) < i BY <1>1, <1>2
  <2> HIDE DEF i
  <2>5. a[i] = ZeroByte BY <2>4
  <2> QED BY <1>3, <2>3, <2>5 DEF i, Byte
<1> DEFINE E == D \cup {f}
<1>7. \A g \in E : \A k \in 1 .. FCaps[g] : a[Start(E, g) + k] = Byte(w[g], k) BY <1>5, <1>6
<1>8. E \in SUBSET Fields /\ Room(E) \in Nat /\ Room(E) <= Len(a) /\ DOMAIN w = E
  BY <1>1, <1>2, <1>3, <1>4
<1> HIDE DEF E
<1>9. Room(E) + Len(<<>>) <= Len(a) BY <1>2, <1>8
<1>10. \A i \in 1 .. Len(<<>>) : a[Room(E) + i] = <<>>[i] BY <1>2
<1>11. Lay(a, w, <<>>) BY <1>1, <1>7, <1>8, <1>9, <1>10 DEF Lay
<1> QED BY <1>11 DEF w

\* A packet that is an echo request, and its bytes.
EchoBytes(bytes, w, load, params, token, n, key) ==
  /\ Signed(bytes, w, load, key, {}) /\ DOMAIN w = TestFields(params, key)
  /\ w[fConnToken] = Num("token", token) /\ w[fSeqno] = Num("seqno", n)
  /\ Room(DOMAIN w) + Len(load) = Larger(params.length, Room(DOMAIN w))

Echoes(p, params, token, n, key) ==
  /\ IsBuffer(p) /\ p.tlen \in Int /\ Len(p.array) = Larger(params.length, HeaderLen)
  /\ p.len = Larger(params.length, Room(TestFields(params, key)))
  /\ \E w, load : /\ Holds(p, w, load) /\ EchoBytes(Content(p), w, load, params, token, n, key)

(* Filled and signed, a packet that has the fields of a test is an echo request. *)
LEMMA BodyEchoes ==
  ASSUME NEW params \in ParamsType, NEW key, NEW fb, NEW vals, NEW old, Holds(fb, vals, old),
         DOMAIN vals = TestFields(params, key), vals[fMagic] = Magic,
         vals[fFlags] = FlagVal({}) \/ vals[fFlags] = FlagVal(KeyFlag(key)),
         fb.tlen \in Int, Len(fb.array) = Larger(params.length, HeaderLen),
         fb.len = Larger(params.length, Room(DOMAIN vals)),
         NEW token, vals[fConnToken] = Num("token", token),
         NEW n, vals[fSeqno] = Num("seqno", n), NEW c
  PROVE  Echoes(UpdateHMAC(Body(fb, c, n), key), params, token, n, key)
<1> DEFINE byte == IF setup[c].fills THEN BodyByte(c, n) ELSE ZeroByte
           body == FillPayload(fb, byte)
           load == [k \in 1 .. fb.len - Room(fb.set) |-> byte]
           q == UpdateHMAC(body, key)
           D == DOMAIN vals
<1>1. Body(fb, c, n) = body BY DEF Body
<1> HIDE DEF byte
<1>2. /\ D \in SUBSET Fields /\ Room(D) \in Nat /\ Room(D) <= HeaderLen /\ HeaderLen \in Nat
      /\ params.length \in Int
  BY TestFieldsAre, FinitFacts DEF ParamsType
<1>3. IsBuffer(fb) /\ fb.set = D /\ Len(fb.array) \in Nat
  <2>1. IsBuffer(fb) /\ fb.set = D /\ AnySeq(fb.array) BY DEF Holds, IsBuffer
  <2> QED BY <2>1, SeqFacts
<1>4. fb.len \in Room(fb.set) .. Len(fb.array) BY <1>2, <1>3 DEF Larger
<1>5. /\ Holds(body, vals, load) /\ Exact(body, load) /\ body.set = fb.set /\ body.tlen = fb.tlen
      /\ body.len = fb.len /\ Len(body.array) = Len(fb.array)
  BY <1>4, FillHolds
<1>6. Len(load) = fb.len - Room(D)
  <2>1. fb.len - Room(D) \in Nat BY <1>2, <1>3, <1>4
  <2> QED BY <1>3, <2>1, AnyMade
<1> HIDE DEF body, load
<1>7. \E fls : vals[fFlags] = FlagVal(fls) /\ fls \cup KeyFlag(key) = {} \cup KeyFlag(key)
  <2>1. {} \cup KeyFlag(key) = {} \cup KeyFlag(key) /\ KeyFlag(key) \cup KeyFlag(key) = {} \cup KeyFlag(key)
    OBVIOUS
  <2> QED BY <2>1
<1>8. PICK fls : vals[fFlags] = FlagVal(fls) /\ fls \cup KeyFlag(key) = {} \cup KeyFlag(key) BY <1>7
<1>9. fMagic \in D /\ fFlags \in D /\ fConnToken \in D /\ fSeqno \in D
      /\ (key # NoKey => fHMAC \in D) /\ (key = NoKey => fHMAC \notin D)
      /\ finit(key) \in SUBSET D
  <2>1. finit(key) \in SUBSET D /\ fConnToken \in D /\ fSeqno \in D
    BY DEF TestFields, fechoRequest, fRequest
  <2>2. key = NoKey => fHMAC \notin D
    <3>1. fHMAC \notin 6 .. 13 /\ fHMAC \notin fechoRequest
      BY DEF fHMAC, fechoRequest, fRequest, fMagic, fFlags, fConnToken, fSeqno
    <3>2. StatsFields(params.stats) \in SUBSET {6, 7} /\ StampFields(params.stamp, params.clock) \in SUBSET (8 .. 13)
      BY TestFieldsAre
    <3> QED BY <3>1, <3>2, FinitFacts DEF TestFields, fHMAC
  <2> QED BY <2>1, <2>2, FinitFacts
<1>10. /\ IsBuffer(q) /\ q.tlen = fb.tlen /\ Len(q.array) = Len(fb.array)
       /\ \E w : /\ SignedAs(vals, w, key) /\ Holds(q, w, load) /\ Exact(q, load)
                 /\ Signed(Content(q), w, load, key, fls)
  BY <1>5, <1>8, <1>9, UpdateHMACSigns
<1> HIDE DEF q
<1>11. PICK w : /\ SignedAs(vals, w, key) /\ Holds(q, w, load) /\ Exact(q, load)
                /\ Signed(Content(q), w, load, key, fls)
  BY <1>10
<1>12. Signed(Content(q), w, load, key, {}) BY <1>8, <1>11, SignedFlags
<1>13. /\ DOMAIN w = D /\ w[fConnToken] = Num("token", token) /\ w[fSeqno] = Num("seqno", n)
  <2>1. fConnToken # fFlags /\ fConnToken # fHMAC /\ fSeqno # fFlags /\ fSeqno # fHMAC
    BY DEF fConnToken, fFlags, fHMAC, fSeqno
  <2> QED BY <1>9, <1>11, <2>1 DEF SignedAs
<1>14. Room(D) + Len(load) = Larger(params.length, Room(D)) BY <1>2, <1>3, <1>4, <1>6
<1>15. q.len = Larger(params.length, Room(D))
  <2>1. q.set = D BY <1>11, <1>13 DEF Holds
  <2> QED BY <1>11, <1>14, <2>1 DEF Exact
<1>16. EchoBytes(Content(q), w, load, params, token, n, key)
  BY <1>12, <1>13, <1>14 DEF EchoBytes
<1>17. Echoes(q, params, token, n, key) BY <1>10, <1>11, <1>15, <1>16 DEF Echoes
<1> QED BY <1>1, <1>17 DEF q, body

\* q is fb with zeroes in the fields F.
Zeroed(fb, q, vals, F) ==
  /\ Len(q.array) = Len(fb.array)
  /\ \E w : /\ Snug(q, w) /\ DOMAIN w = DOMAIN vals \cup F
            /\ w[fMagic] = vals[fMagic] /\ w[fFlags] = vals[fFlags]
            /\ w[fConnToken] = vals[fConnToken]

\* Zeroes where the server will put its own.
LEMMA ZeroFieldsSnug ==
  ASSUME NEW fb, NEW vals, Snug(fb, vals), HeaderLen <= Len(fb.array), NEW F \in SUBSET (6 .. 13),
         fMagic \in DOMAIN vals, fFlags \in DOMAIN vals, fConnToken \in DOMAIN vals
  PROVE  Zeroed(fb, ZeroFields(fb, F), vals, F)
<1> DEFINE given == [f \in F |-> Zero]
           q == ZeroFields(fb, F)
           w == Given(vals, given, DOMAIN given)
<1>1. DOMAIN given = F OBVIOUS
<1>2. Snug(q, w) /\ Beyond(fb.array, q.array, Room(q.set))
  BY <1>1, PutAllSnug DEF ZeroFields
<1>3. fMagic \notin F /\ fFlags \notin F /\ fConnToken \notin F BY DEF fMagic, fFlags, fConnToken
<1>4. /\ DOMAIN w = DOMAIN vals \cup F
      /\ \A f \in DOMAIN vals : f \notin F => w[f] = vals[f]
  BY DEF Given
<1> HIDE DEF w, q
<1>5. w[fMagic] = vals[fMagic] /\ w[fFlags] = vals[fFlags] /\ w[fConnToken] = vals[fConnToken]
  BY <1>3, <1>4
<1>6. Zeroed(fb, q, vals, F) BY <1>2, <1>4, <1>5 DEF Beyond, Zeroed
<1> QED BY <1>6 DEF q

(* The first echo request of a test. *)
LEMMA FirstRequestIs ==
  ASSUME NEW c, NEW params \in ParamsType, NEW token
  PROVE  Echoes(FirstRequest(c, params, token), params, token, 0, setup[c].key)
<1> DEFINE key == setup[c].key
           fresh == NewPacket(params.length, key)
           u == NewVals(finit(key))
           new == SetConnToken(fresh, token)
           u1 == With(u, fConnToken, Num("token", token))
           more == AsEcho(new)
           u2 == With(u1, fSeqno, Zero)
           echo == Tight(more)
           Z == StatsFields(params.stats)
           T == StampFields(params.stamp, params.clock)
           z1 == ZeroFields(echo, Z)
           z2 == ZeroFields(z1, T)
           numbered == SetSeqno(z2, 0)
           full == SetLen(numbered, params.length)
<1>1. FirstRequest(c, params, token) = UpdateHMAC(Body(full, c, 0), key) BY DEF FirstRequest
<1> HIDE DEF key
<1>2. params.length \in Int /\ HeaderLen \in Nat BY FinitFacts DEF ParamsType
<1>3. /\ Snug(fresh, u) /\ fresh.set = finit(key) /\ Fresh(fresh.array)
      /\ Len(fresh.array) = Larger(params.length, HeaderLen)
  BY <1>2, NewPacketIs
<1> HIDE DEF fresh
<1> DEFINE L == Len(fresh.array)
<1>4. L \in Nat /\ HeaderLen <= L BY <1>2, <1>3 DEF Larger
<1>5. /\ finit(key) \in SUBSET Fields /\ fMagic \in finit(key) /\ fFlags \in finit(key)
      /\ \A g \in finit(key) : g \in Nat /\ g < 4
  <2>1. \A g \in finit(key) : g \in Nat /\ g < 4 BY DEF finit, fMagic, fFlags, fHMAC
  <2> QED BY <2>1, FinitFacts
<1>6. DOMAIN u = finit(key) /\ u[fMagic] = Magic /\ u[fFlags] = FlagVal({}) BY <1>5, NewValsAre
<1> HIDE DEF u
<1>7. Snug(new, u1) /\ Beyond(fresh.array, new.array, Room(new.set))
  BY <1>3, <1>4, FieldNames, SnugPut DEF SetConnToken
<1>8. fMagic # fConnToken /\ fFlags # fConnToken /\ fConnToken # fSeqno /\ fMagic # fSeqno
      /\ fFlags # fSeqno /\ fConnToken = 4 /\ fSeqno = 5
  BY DEF fMagic, fFlags, fConnToken, fSeqno
<1>9. /\ DOMAIN u1 = finit(key) \cup {fConnToken} /\ u1[fConnToken] = Num("token", token)
      /\ u1[fMagic] = Magic /\ u1[fFlags] = FlagVal({})
  BY <1>5, <1>6, <1>8 DEF With
<1> HIDE DEF new, u1
<1>10. /\ IsBuffer(new) /\ new.set = finit(key) \cup {fConnToken} /\ Lay(new.array, u1, <<>>)
       /\ Len(new.array) = L
  BY <1>7, <1>9 DEF Snug, Holds, Beyond
<1>11. fechoRequest \in SUBSET Fields /\ fechoRequest = {fMagic, fFlags, fConnToken, fSeqno}
  BY FieldNames DEF fechoRequest, fRequest
<1>12. /\ IsBuffer(more) /\ more.array = new.array /\ more.set = new.set \cup fechoRequest
  BY <1>10, <1>11, AddFieldsIs DEF AsEcho
<1> HIDE DEF more
<1>13. Lay(new.array, u2, <<>>)
  <2> DEFINE D == DOMAIN u1
  <2>1. fSeqno \in Fields /\ fSeqno \notin D /\ \A g \in D : g < fSeqno
    <3>1. \A g \in D : g < 5 BY <1>5, <1>8, <1>9
    <3> QED BY <1>8, <3>1, FieldNames
  <2>2. /\ Room(D \cup {fSeqno}) = Room(D) + FCaps[fSeqno] /\ Room(D \cup {fSeqno}) <= HeaderLen
        /\ Room(D) \in Nat /\ FCaps[fSeqno] \in Nat
    <3>1. D \in SUBSET Fields /\ D \cup {fSeqno} \in SUBSET Fields /\ Fields \in SUBSET Fields
      BY <1>5, <1>9, FieldNames
    <3>2. Room(D \cup {fSeqno}) <= HeaderLen BY <3>1, RoomMore DEF HeaderLen
    <3> QED BY <2>1, <3>1, <3>2, RoomPlus, RoomType, FieldFacts
  <2>3. FCaps[fMagic] <= Room(D) /\ FCaps[fMagic] \in Nat
    <3>1. {fMagic} \in SUBSET D /\ D \in SUBSET Fields BY <1>5, <1>9, FieldNames
    <3>2. Room({fMagic}) <= Room(D) BY <3>1, RoomMore
    <3> QED BY <3>2, RoomOne, FieldNames, FieldFacts
  <2>4. ASSUME NEW i \in 1 .. Len(new.array), Room(D) < i PROVE new.array[i] = ZeroByte
    <3>1. new.array[i] = fresh.array[i] BY <1>7, <1>9, <1>10, <2>4 DEF Beyond
    <3>2. i \in 1 .. L /\ ~(i <= FCaps[fMagic]) BY <1>4, <1>10, <2>2, <2>3, <2>4
    <3> QED BY <1>3, <3>1, <3>2 DEF Fresh
  <2>5. Room(D) + FCaps[fSeqno] <= Len(new.array) BY <1>2, <1>4, <1>10, <2>2
  <2> QED BY <1>10, <2>1, <2>4, <2>5, LayZeroMore
<1>14. /\ DOMAIN u2 = finit(key) \cup fechoRequest /\ u2[fConnToken] = Num("token", token)
       /\ u2[fMagic] = Magic /\ u2[fFlags] = FlagVal({})
  <2>1. DOMAIN u2 = DOMAIN u1 \cup {fSeqno} /\ \A f \in DOMAIN u1 : f # fSeqno => u2[f] = u1[f]
    BY DEF With
  <2>2. DOMAIN u1 \cup {fSeqno} = finit(key) \cup fechoRequest BY <1>5, <1>9, <1>11
  <2> HIDE DEF u2
  <2> QED BY <1>5, <1>8, <1>9, <2>1, <2>2
<1> HIDE DEF u2
<1>15. Snug(echo, u2) /\ Len(echo.array) = L
  <2>1. more.set = DOMAIN u2 BY <1>5, <1>10, <1>11, <1>12, <1>14
  <2>2. Holds(more, u2, <<>>) BY <1>12, <1>13, <2>1 DEF Holds
  <2> QED BY <1>10, <1>12, <2>2, TightSnug
<1> HIDE DEF echo
<1>16. Z \in SUBSET {6, 7} /\ T \in SUBSET (8 .. 13) BY TestFieldsAre
<1> HIDE DEF Z, T
<1>17. Z \in SUBSET (6 .. 13) /\ T \in SUBSET (6 .. 13) BY <1>16
<1>18. fMagic \in DOMAIN u2 /\ fFlags \in DOMAIN u2 /\ fConnToken \in DOMAIN u2 BY <1>5, <1>11, <1>14
<1>19. /\ Len(z1.array) = L
       /\ \E w : /\ Snug(z1, w) /\ DOMAIN w = DOMAIN u2 \cup Z
                 /\ w[fMagic] = u2[fMagic] /\ w[fFlags] = u2[fFlags]
                 /\ w[fConnToken] = u2[fConnToken]
  <2>1. Zeroed(echo, z1, u2, Z) BY <1>4, <1>15, <1>17, <1>18, ZeroFieldsSnug
  <2> HIDE DEF z1
  <2> QED BY <1>15, <2>1 DEF Zeroed
<1> HIDE DEF z1
<1>20. PICK w1 : /\ Snug(z1, w1) /\ DOMAIN w1 = DOMAIN u2 \cup Z
                 /\ w1[fMagic] = u2[fMagic] /\ w1[fFlags] = u2[fFlags]
                 /\ w1[fConnToken] = u2[fConnToken]
  BY <1>19
<1>21. fMagic \in DOMAIN w1 /\ fFlags \in DOMAIN w1 /\ fConnToken \in DOMAIN w1 BY <1>18, <1>20
<1>22. /\ Len(z2.array) = L
       /\ \E w : /\ Snug(z2, w) /\ DOMAIN w = DOMAIN w1 \cup T
                 /\ w[fMagic] = w1[fMagic] /\ w[fFlags] = w1[fFlags]
                 /\ w[fConnToken] = w1[fConnToken]
  <2>1. Zeroed(z1, z2, w1, T) BY <1>4, <1>17, <1>19, <1>20, <1>21, ZeroFieldsSnug
  <2> HIDE DEF z2
  <2> QED BY <1>19, <2>1 DEF Zeroed
<1> HIDE DEF z2
<1>23. PICK w2 : /\ Snug(z2, w2) /\ DOMAIN w2 = DOMAIN w1 \cup T
                 /\ w2[fMagic] = w1[fMagic] /\ w2[fFlags] = w1[fFlags]
                 /\ w2[fConnToken] = w1[fConnToken]
  BY <1>22
<1>24. DOMAIN w2 = TestFields(params, key)
  BY <1>14, <1>20, <1>23 DEF TestFields, Z, T
<1> DEFINE v == With(w2, fSeqno, Num("seqno", 0))
<1>25. Snug(numbered, v) /\ Len(numbered.array) = L
  <2>1. /\ Snug(numbered, v) /\ Beyond(z2.array, numbered.array, Room(numbered.set))
    BY <1>4, <1>22, <1>23, FieldNames, SnugPut DEF SetSeqno
  <2> QED BY <1>22, <2>1 DEF Beyond
<1> HIDE DEF numbered
<1>26. /\ DOMAIN v = TestFields(params, key) /\ v[fSeqno] = Num("seqno", 0)
       /\ v[fMagic] = Magic /\ v[fFlags] = FlagVal({}) /\ v[fConnToken] = Num("token", token)
  <2>1. fSeqno \in DOMAIN w2 BY <1>24, <1>11 DEF TestFields
  <2>2. DOMAIN w2 \cup {fSeqno} = DOMAIN w2 BY <2>1
  <2>3. /\ DOMAIN v = DOMAIN w2 \cup {fSeqno} /\ v[fSeqno] = Num("seqno", 0)
        /\ \A f \in DOMAIN w2 : f # fSeqno => v[f] = w2[f]
    BY DEF With
  <2>4. fMagic \in DOMAIN w2 /\ fFlags \in DOMAIN w2 /\ fConnToken \in DOMAIN w2 BY <1>21, <1>23
  <2> HIDE DEF v
  <2> QED BY <1>8, <1>14, <1>20, <1>23, <1>24, <2>2, <2>3, <2>4
<1> HIDE DEF v
<1>27. Holds(numbered, v, <<>>) /\ numbered.set = DOMAIN v BY <1>25 DEF Snug, Holds
<1> DEFINE l == Larger(params.length, Room(numbered.set))
<1>28. /\ Holds(full, v, <<>>) /\ full.array = numbered.array /\ full.tlen = params.length
       /\ full.len = IF l > Len(numbered.array) THEN Len(numbered.array) ELSE l
  BY <1>2, <1>27, SetLenHolds
<1> HIDE DEF full
<1>29. full.len = Larger(params.length, Room(DOMAIN v))
  <2>1. Room(DOMAIN v) \in Nat /\ Room(DOMAIN v) <= HeaderLen BY <1>26, TestFieldsAre
  <2>2. ~(Larger(params.length, Room(DOMAIN v)) > L) BY <1>2, <1>3, <2>1 DEF Larger
  <2> QED BY <1>25, <1>27, <1>28, <2>2
<1>30. Echoes(UpdateHMAC(Body(full, c, 0), key), params, token, 0, key)
  <2>1. Len(full.array) = Larger(params.length, HeaderLen) /\ full.tlen \in Int
    BY <1>2, <1>3, <1>25, <1>28
  <2> QED BY <1>26, <1>28, <1>29, <2>1, BodyEchoes
<1> QED BY <1>1, <1>30 DEF key

(* The packet of an echo request becomes that of the next. *)
LEMMA NextRequestIs ==
  ASSUME NEW c, NEW params \in ParamsType, NEW token, NEW key, NEW p, NEW m, NEW n,
         Echoes(p, params, token, m, key)
  PROVE  Echoes(UpdateHMAC(Body(SetSeqno(p, n), c, n), key), params, token, n, key)
<1> DEFINE q == SetSeqno(p, n)
<1>1. PICK w, load : Holds(p, w, load) /\ EchoBytes(Content(p), w, load, params, token, m, key)
  BY DEF Echoes
<1>2. /\ DOMAIN w = TestFields(params, key) /\ w[fConnToken] = Num("token", token)
      /\ w[fMagic] = Magic /\ w[fFlags] = FlagVal({} \cup KeyFlag(key))
      /\ finit(key) \in SUBSET DOMAIN w
  BY <1>1 DEF EchoBytes, Signed
<1>3. fMagic \in DOMAIN w /\ fFlags \in DOMAIN w /\ fConnToken \in DOMAIN w /\ fSeqno \in DOMAIN w
  BY <1>2, FinitFacts DEF TestFields, fechoRequest, fRequest
<1>4. Kept(p, q, w, load, fSeqno, Num("seqno", n)) BY <1>1, <1>3, KeptPut DEF SetSeqno
<1> HIDE DEF q
<1> DEFINE v == With(w, fSeqno, Num("seqno", n))
<1>5. /\ DOMAIN v = TestFields(params, key) /\ v[fConnToken] = Num("token", token)
      /\ v[fMagic] = Magic /\ v[fFlags] = FlagVal(KeyFlag(key)) /\ v[fSeqno] = Num("seqno", n)
  <2>1. DOMAIN w \cup {fSeqno} = DOMAIN w BY <1>3
  <2>2. /\ DOMAIN v = DOMAIN w \cup {fSeqno} /\ v[fSeqno] = Num("seqno", n)
        /\ \A f \in DOMAIN w : f # fSeqno => v[f] = w[f]
    BY DEF With
  <2>3. fMagic # fSeqno /\ fFlags # fSeqno /\ fConnToken # fSeqno
    BY DEF fMagic, fFlags, fConnToken, fSeqno
  <2>4. {} \cup KeyFlag(key) = KeyFlag(key) OBVIOUS
  <2> HIDE DEF v
  <2> QED BY <1>2, <1>3, <2>1, <2>2, <2>3, <2>4
<1>6. /\ Holds(q, v, load) /\ q.tlen = p.tlen /\ q.len = p.len /\ Len(q.array) = Len(p.array)
  BY <1>4 DEF Kept, Beyond
<1>7. /\ q.tlen \in Int /\ Len(q.array) = Larger(params.length, HeaderLen)
      /\ q.len = Larger(params.length, Room(DOMAIN v))
  BY <1>5, <1>6 DEF Echoes
<1> HIDE DEF v
<1>8. Echoes(UpdateHMAC(Body(q, c, n), key), params, token, n, key)
  BY <1>5, <1>6, <1>7, BodyEchoes
<1> QED BY <1>8 DEF q

-----------------------------------------------------------------------------
(* Timestamps *)

Took(params, pl) == pl \in Places[params.stamp]

(* Times as the parameters say that the server stamps them. *)
Stamped(ts, params) ==
  /\ ts = [receive |-> [k \in Clocks |-> ts.receive[k]], send |-> [k \in Clocks |-> ts.send[k]]]
  /\ \A k \in Clocks :
        /\ ts.receive[k] # 0 <=> k \in ClockKinds[params.clock] /\ params.stamp \in {"receive", "both", "midpoint"}
        /\ ts.send[k] # 0 <=> k \in ClockKinds[params.clock] /\ params.stamp \in {"send", "both", "midpoint"}
        /\ params.stamp = "midpoint" => ts.send[k] = ts.receive[k]

StampPlaces == {"receive", "midpoint", "send"}

\* Fields of times differ.
LEMMA StampFieldsAre ==
  /\ DOMAIN StampField = StampPlaces /\ Clocks = {"wall", "mono"}
  /\ \A pl \in StampPlaces : \A k \in Clocks : StampField[pl][k] \in 8 .. 13
  /\ \A pl, pm \in StampPlaces : \A k, l \in Clocks : StampField[pl][k] = StampField[pm][l] => pl = pm /\ k = l
BY DEF StampField, StampPlaces, Clocks

\* TimeFor gives each field its time.
LEMMA TimeForIs ==
  ASSUME NEW ts
  PROVE  \A k \in Clocks :
            /\ TimeFor(ts, StampField["receive"][k]) = ts.receive[k]
            /\ TimeFor(ts, StampField["midpoint"][k]) = ts.receive[k]
            /\ TimeFor(ts, StampField["send"][k]) = ts.send[k]
<1>1. DOMAIN StampField = {"receive", "midpoint", "send"} BY DEF StampField
<1>2. /\ \E pl \in {"receive", "midpoint", "send"} : 8 = StampField[pl].wall
      /\ \E pl \in {"receive", "midpoint", "send"} : 10 = StampField[pl].wall
      /\ \E pl \in {"receive", "midpoint", "send"} : 12 = StampField[pl].wall
      /\ ~\E pl \in {"receive", "midpoint", "send"} : 9 = StampField[pl].wall
      /\ ~\E pl \in {"receive", "midpoint", "send"} : 11 = StampField[pl].wall
      /\ ~\E pl \in {"receive", "midpoint", "send"} : 13 = StampField[pl].wall
  BY DEF StampField
<1>3. /\ StampField["receive"]["wall"] = 8 /\ StampField["receive"]["mono"] = 9
      /\ StampField["midpoint"]["wall"] = 10 /\ StampField["midpoint"]["mono"] = 11
      /\ StampField["send"]["wall"] = 12 /\ StampField["send"]["mono"] = 13
      /\ StampField.send.wall = 12 /\ StampField.send.mono = 13
  BY DEF StampField
<1>4. /\ TimeFor(ts, 8) = ts.receive.wall /\ TimeFor(ts, 9) = ts.receive.mono
      /\ TimeFor(ts, 10) = ts.receive.wall /\ TimeFor(ts, 11) = ts.receive.mono
      /\ TimeFor(ts, 12) = ts.send.wall /\ TimeFor(ts, 13) = ts.send.mono
  <2>1. 8 \notin {12, 13} /\ 9 \notin {12, 13} /\ 10 \notin {12, 13} /\ 11 \notin {12, 13} OBVIOUS
  <2> QED BY <1>1, <1>2, <1>3, <2>1 DEF TimeFor
<1> QED BY <1>3, <1>4 DEF Clocks

\* Which stamps are agreed on.
LEMMA StampAgreed ==
  ASSUME NEW params \in ParamsType, NEW pl \in StampPlaces, NEW k \in Clocks
  PROVE  StampField[pl][k] \in StampFields(params.stamp, params.clock)
            <=> pl \in Places[params.stamp] /\ k \in ClockKinds[params.clock]
<1>1. params.stamp \in Stamps /\ params.clock \in {"wall", "monotonic", "both"} BY DEF ParamsType
<1>2. Places[params.stamp] \in SUBSET StampPlaces BY <1>1 DEF Places, Stamps, StampPlaces
<1>3. ClockKinds[params.clock] \in SUBSET Clocks BY <1>1 DEF ClockKinds, Clocks
<1> QED BY <1>2, <1>3, StampFieldsAre DEF StampFields

\* Places of a stamp.
LEMMA PlacesAre ==
  ASSUME NEW params \in ParamsType
  PROVE  /\ params.stamp \in {"receive", "both"} <=> "receive" \in Places[params.stamp]
         /\ params.stamp \in {"send", "both"} <=> "send" \in Places[params.stamp]
         /\ params.stamp = "midpoint" <=> "midpoint" \in Places[params.stamp]
<1>1. params.stamp \in Stamps BY DEF ParamsType
<1> QED BY <1>1 DEF Places, Stamps

\* Times are read from the fields of a reply as they were put there.
LEMMA StampsRead ==
  ASSUME NEW params \in ParamsType, NEW ts, Stamped(ts, params), NEW p,
         \A pl \in StampPlaces : \A k \in Clocks :
            /\ StampField[pl][k] \in p.set <=> StampField[pl][k] \in StampFields(params.stamp, params.clock)
            /\ StampField[pl][k] \in p.set =>
                  ReadNum(p, StampField[pl][k], "time") = TimeFor(ts, StampField[pl][k])
  PROVE  TimestampOf(p) = ts
<1> DEFINE In(pl, k) == pl \in Places[params.stamp] /\ k \in ClockKinds[params.clock]
<1>1. \A pl \in StampPlaces : \A k \in Clocks :
         /\ StampField[pl][k] \in p.set <=> In(pl, k)
         /\ In(pl, k) => ReadNum(p, StampField[pl][k], "time") = TimeFor(ts, StampField[pl][k])
  BY StampAgreed
<1>2. \A k \in Clocks :
         /\ In("receive", k) => ReadNum(p, StampField["receive"][k], "time") = ts.receive[k]
         /\ In("midpoint", k) => ReadNum(p, StampField["midpoint"][k], "time") = ts.receive[k]
         /\ In("send", k) => ReadNum(p, StampField["send"][k], "time") = ts.send[k]
  BY <1>1, TimeForIs DEF StampPlaces
<1>3. \A k \in Clocks :
         /\ StampField["receive"][k] \in p.set <=> In("receive", k)
         /\ StampField["midpoint"][k] \in p.set <=> In("midpoint", k)
         /\ StampField["send"][k] \in p.set <=> In("send", k)
  BY <1>1 DEF StampPlaces
<1> DEFINE r1 == TimeOf(p, "receive", ZeroTime)
           r2 == TimeOf(p, "midpoint", r1)
           m1 == TimeOf(p, "midpoint", ZeroTime)
           m2 == TimeOf(p, "send", m1)
<1>4. \A k \in Clocks : ZeroTime[k] = 0 BY DEF ZeroTime, Clocks
<1>5. \A k \in Clocks : r1[k] = IF In("receive", k) THEN ts.receive[k] ELSE 0
  BY <1>2, <1>3, <1>4 DEF TimeOf, Clocks
<1>6. \A k \in Clocks : m1[k] = IF In("midpoint", k) THEN ts.receive[k] ELSE 0
  BY <1>2, <1>3, <1>4 DEF TimeOf, Clocks
<1> HIDE DEF r1, m1
<1>7. \A k \in Clocks : r2[k] = IF In("midpoint", k) THEN ts.receive[k] ELSE r1[k]
  BY <1>2, <1>3 DEF TimeOf, Clocks
<1>8. \A k \in Clocks : m2[k] = IF In("send", k) THEN ts.send[k] ELSE m1[k]
  BY <1>2, <1>3 DEF TimeOf, Clocks
<1>9. r2 = [k \in Clocks |-> r2[k]] /\ m2 = [k \in Clocks |-> m2[k]] BY DEF TimeOf, Clocks
<1>10. TimestampOf(p) = [receive |-> r2, send |-> m2] BY DEF TimestampOf, r1, m1
<1> HIDE DEF r2, m2
<1>11. ASSUME NEW k \in Clocks PROVE r2[k] = ts.receive[k] /\ m2[k] = ts.send[k]
  <2>1. /\ ts.receive[k] # 0 <=> (In("receive", k) \/ In("midpoint", k))
        /\ ts.send[k] # 0 <=> (In("send", k) \/ In("midpoint", k))
        /\ In("midpoint", k) => ts.send[k] = ts.receive[k] /\ ~In("send", k)
    BY PlacesAre DEF Stamped
  <2> HIDE DEF In
  <2> QED BY <1>5, <1>6, <1>7, <1>8, <2>1
<1>12. r2 = [k \in Clocks |-> ts.receive[k]] /\ m2 = [k \in Clocks |-> ts.send[k]]
  <2>1. [k \in Clocks |-> r2[k]] = [k \in Clocks |-> ts.receive[k]] BY <1>11
  <2>2. [k \in Clocks |-> m2[k]] = [k \in Clocks |-> ts.send[k]] BY <1>11
  <2> QED BY <1>9, <2>1, <2>2
<1> QED BY <1>10, <1>12 DEF Stamped

\* What the server's clock shows at a time when it has been put forward by a.
Shown(t, k, a) == t + ServerClock[k] + (IF k = "wall" THEN a ELSE 0)

\* The server's times of a request that came and left at these times.
StampedAt(ts, params, came, left, a) ==
  \A k \in ClockKinds[params.clock] :
     /\ params.stamp \in {"receive", "both"} => ts.receive[k] = Shown(came, k, a)
     /\ params.stamp \in {"send", "both"} => ts.send[k] = Shown(left, k, a)
     /\ params.stamp = "midpoint" =>
           /\ ts.receive[k] = Shown(came + (left - came) \div 2, k, a)
           /\ ts.send[k] = Shown(came + (left - came) \div 2, k, a)

\* ServerStamps gives the times that were agreed on.
LEMMA ServerStampsAre ==
  ASSUME NEW params \in ParamsType, Plain(params), now \in Nat, adjusted \in Nat, NEW took \in Nat
  PROVE  LET ts == ServerStamps(params, took)
         IN  Stamped(ts, params) /\ StampedAt(ts, params, now, now + took, adjusted)
<1> DEFINE kinds == ClockKinds[params.clock]
           came == ServerNow(now)
           gone == ServerNow(now + took)
           left == KeepClocks(gone, kinds)
           mid == Midpoint(came, left)
           ts == ServerStamps(params, took)
<1>1. /\ params.stamp \in Stamps /\ params.clock \in {"wall", "monotonic", "both"}
      /\ kinds \in SUBSET Clocks /\ (params.clock = "both" => kinds = Clocks)
  BY DEF ParamsType, ClockKinds, Clocks
<1>2. ServerClock["wall"] \in Nat /\ ServerClock["wall"] > 0
      /\ ServerClock["mono"] \in Nat /\ ServerClock["mono"] > 0
  <2>1. ServerClock["wall"] \in Nat \ {0} /\ ServerClock["mono"] \in Nat \ {0}
    BY ExchangeAssumption DEF Clocks
  <2> QED BY <2>1
<1>3. \A k \in Clocks : /\ came[k] = Shown(now, k, adjusted) /\ gone[k] = Shown(now + took, k, adjusted)
                        /\ came[k] # 0 /\ gone[k] # 0 /\ came[k] \in Nat /\ gone[k] \in Nat
                        /\ gone[k] - came[k] = took
  BY <1>2 DEF ServerNow, Shown, Clocks
<1> HIDE DEF came, gone
<1>4. \A k \in Clocks : left[k] = IF k \in kinds THEN gone[k] ELSE 0 BY DEF KeepClocks
<1>5. left = [k \in Clocks |-> left[k]] BY DEF KeepClocks
<1>6. CASE params.stamp = "midpoint"
  <2>1. kinds = Clocks BY <1>1, <1>6 DEF Plain
  <2> DEFINE d == TimeSub(left, came) \div 2
  <2>2. TimeSub(left, came) = took
    <3>1. "mono" \in Clocks BY DEF Clocks
    <3> HIDE DEF left
    <3>2. left.mono = gone.mono /\ left.mono # 0 /\ came.mono # 0 /\ gone.mono - came.mono = took
      BY <1>3, <1>4, <2>1, <3>1
    <3> QED BY <3>2 DEF TimeSub
  <2> HIDE DEF left, kinds
  <2>3. d = took \div 2 /\ d \in Nat BY <2>2
  <2> HIDE DEF d
  <2>4. mid = [k \in Clocks |-> IF came[k] # 0 THEN came[k] + d ELSE 0]
    BY DEF Midpoint, TimeAdd, d
  <2>5. \A k \in Clocks : mid[k] = came[k] + d /\ mid[k] # 0 BY <1>3, <2>3, <2>4
  <2>6. mid = [k \in Clocks |-> mid[k]] BY <2>4
  <2>7. ts = [receive |-> mid, send |-> mid] BY <1>6 DEF ServerStamps, mid, left, came, gone, kinds
  <2>8. \A k \in Clocks : mid[k] = Shown(now + ((now + took) - now) \div 2, k, adjusted)
    <3>1. (now + took) - now = took OBVIOUS
    <3>2. \A k \in Clocks : came[k] + d = Shown(now + d, k, adjusted)
      BY <1>2, <1>3, <2>3 DEF Shown, Clocks
    <3> QED BY <2>3, <2>5, <3>1, <3>2
  <2> HIDE DEF mid, ts
  <2>9. ts.receive = mid /\ ts.send = mid BY <2>7
  <2>10. Stamped(ts, params)
    BY <1>6, <2>1, <2>5, <2>6, <2>7, <2>9 DEF Stamped, kinds
  <2>11. StampedAt(ts, params, now, now + took, adjusted)
    BY <1>1, <1>6, <2>1, <2>8, <2>9 DEF StampedAt, kinds
  <2> QED BY <2>10, <2>11 DEF ts
<1>7. CASE params.stamp # "midpoint"
  <2> DEFINE receive == IF "receive" \in Places[params.stamp] THEN KeepClocks(came, kinds) ELSE ZeroTime
             send == IF "send" \in Places[params.stamp] THEN left ELSE ZeroTime
  <2>1. ts = [receive |-> receive, send |-> send]
    BY <1>7 DEF ServerStamps, came, gone, left, kinds
  <2>2. \A k \in Clocks : ZeroTime[k] = 0 BY DEF ZeroTime, Clocks
  <2>3. ZeroTime = [k \in Clocks |-> ZeroTime[k]] BY DEF ZeroTime, Clocks
  <2>4. \A k \in Clocks : KeepClocks(came, kinds)[k] = IF k \in kinds THEN came[k] ELSE 0
    BY DEF KeepClocks
  <2>5. KeepClocks(came, kinds) = [k \in Clocks |-> KeepClocks(came, kinds)[k]] BY DEF KeepClocks
  <2>6. /\ params.stamp \in {"receive", "both"} <=> "receive" \in Places[params.stamp]
        /\ params.stamp \in {"send", "both"} <=> "send" \in Places[params.stamp]
    BY PlacesAre
  <2> HIDE DEF left, kinds, ts
  <2>7. ts.receive = receive /\ ts.send = send BY <2>1
  <2>8. receive = [k \in Clocks |-> receive[k]] /\ send = [k \in Clocks |-> send[k]]
    BY <1>5, <2>3, <2>5
  <2>9. ASSUME NEW k \in Clocks
        PROVE  /\ receive[k] = IF params.stamp \in {"receive", "both"} /\ k \in kinds THEN came[k] ELSE 0
               /\ send[k] = IF params.stamp \in {"send", "both"} /\ k \in kinds THEN gone[k] ELSE 0
    BY <1>4, <2>2, <2>4, <2>6
  <2> HIDE DEF receive, send
  <2>10. Stamped(ts, params) BY <1>3, <1>7, <2>1, <2>7, <2>8, <2>9 DEF Stamped, kinds
  <2>11. StampedAt(ts, params, now, now + took, adjusted)
    BY <1>1, <1>3, <1>7, <2>7, <2>9 DEF StampedAt, kinds
  <2> QED BY <2>10, <2>11 DEF ts
<1> QED BY <1>6, <1>7

-----------------------------------------------------------------------------
(* The reply of an echo request *)

CountKind(f) == IF f = fRCount THEN "count" ELSE "window"

\* Values of a reply's fields.
ReplyVals(w, params, token, n, count, ts) ==
  /\ w[fConnToken] = Num("token", token) /\ w[fSeqno] = Num("seqno", n)
  /\ \A f \in StatsFields(params.stats) : w[f] = Num(CountKind(f), count)
  /\ \A f \in StampFields(params.stamp, params.clock) : w[f] = Num("time", TimeFor(ts, f))

\* The load of a reply, from that of its request.
ReplyLoad(params, load) == IF Fills(params) THEN [i \in DOMAIN load |-> FillerByte] ELSE load

\* The packet of an echo request, cut to its fields and with its times, before its length.
Cut(p, params, count, ts) ==
  LET stats == [f \in StatsFields(params.stats) |-> Num(CountKind(f), count)]
  IN  SetTimestamp(PutAll(SetLen(SetFlagBits(AsEcho(p), {"reply"}), 0), stats), params.stamp, ts)

\* The fields that times are put into.
TimeFields(params, ts) == {g \in StampFields(params.stamp, "both") : TimeFor(ts, g) # 0}

\* And those are the fields that SetTimestamp sets then.
LEMMA TimeFieldsAgreed ==
  ASSUME NEW params \in ParamsType, NEW ts, Stamped(ts, params)
  PROVE  TimeFields(params, ts) = StampFields(params.stamp, params.clock)
<1> DEFINE both == StampFields(params.stamp, "both")
           own == StampFields(params.stamp, params.clock)
<1>1. /\ params.stamp \in Stamps /\ params.clock \in {"wall", "monotonic", "both"}
      /\ Places[params.stamp] \in SUBSET StampPlaces
      /\ ClockKinds[params.clock] \in SUBSET Clocks /\ ClockKinds["both"] = Clocks
  BY DEF ParamsType, Places, Stamps, StampPlaces, ClockKinds, Clocks
<1>2. both = {StampField[pl][k] : pl \in Places[params.stamp], k \in Clocks}
  BY <1>1 DEF StampFields
<1>3. own = {StampField[pl][k] : pl \in Places[params.stamp], k \in ClockKinds[params.clock]}
  BY DEF StampFields
<1>4. ASSUME NEW pl \in Places[params.stamp], NEW k \in Clocks
      PROVE  TimeFor(ts, StampField[pl][k]) # 0 <=> k \in ClockKinds[params.clock]
  <2>1. pl \in {"receive", "midpoint", "send"} BY <1>1 DEF StampPlaces
  <2>2. CASE pl = "receive"
    <3>1. params.stamp \in {"receive", "both", "midpoint"} BY <2>2, PlacesAre
    <3> QED BY <2>2, <3>1, TimeForIs DEF Stamped
  <2>3. CASE pl = "midpoint"
    <3>1. params.stamp \in {"receive", "both", "midpoint"} BY <2>3, PlacesAre
    <3> QED BY <2>3, <3>1, TimeForIs DEF Stamped
  <2>4. CASE pl = "send"
    <3>1. params.stamp \in {"send", "both", "midpoint"} BY <2>4, PlacesAre
    <3> QED BY <2>4, <3>1, TimeForIs DEF Stamped
  <2> QED BY <2>1, <2>2, <2>3, <2>4
<1>5. TimeFields(params, ts) = {g \in both : TimeFor(ts, g) # 0} BY DEF TimeFields
<1> HIDE DEF both, own
<1>6. ASSUME NEW g \in both, TimeFor(ts, g) # 0 PROVE g \in own
  <2>1. PICK pl \in Places[params.stamp], k \in Clocks : g = StampField[pl][k] BY <1>2
  <2> QED BY <1>3, <1>4, <1>6, <2>1
<1>7. ASSUME NEW g \in own PROVE g \in both /\ TimeFor(ts, g) # 0
  <2>1. PICK pl \in Places[params.stamp], k \in ClockKinds[params.clock] : g = StampField[pl][k]
    BY <1>3
  <2>2. k \in Clocks BY <1>1
  <2> QED BY <1>2, <1>4, <2>1, <2>2
<1> QED BY <1>5, <1>6, <1>7 DEF own

(* Cut to its fields and given statistics and times, it ends with them; nothing beyond
   them has moved.                                                                     *)
LEMMA CutSnug ==
  ASSUME NEW params \in ParamsType, NEW key, NEW p, NEW v, NEW load, Taken(p, v, load, key, {}),
         DOMAIN v = TestFields(params, key), v[fMagic] = Magic,
         HeaderLen <= Len(p.array), NEW token, NEW n, NEW count, NEW ts,
         v[fConnToken] = Num("token", token), v[fSeqno] = Num("seqno", n)
  PROVE  LET q == Cut(p, params, count, ts)
         IN  /\ Beyond(p.array, q.array, Room(q.set))
             /\ \E w : /\ Snug(q, w) /\ w[fMagic] = Magic
                       /\ w[fFlags] = FlagVal({"reply"} \cup KeyFlag(key))
                       /\ DOMAIN w = finit(key) \cup fechoRequest \cup StatsFields(params.stats)
                                       \cup TimeFields(params, ts)
                       /\ Stamped(ts, params) => ReplyVals(w, params, token, n, count, ts)
<1> DEFINE S == finit(key) \cup fechoRequest
           Z == StatsFields(params.stats)
           T == TimeFields(params, ts)
           req == AsEcho(p)
           w0 == [f \in S |-> v[f]]
           flagged == SetFlagBits(req, {"reply"})
           fls == KeyFlag(key) \cup {"reply"}
           w1 == With(w0, fFlags, FlagVal(fls))
           bare == SetLen(flagged, 0)
           stats == [f \in Z |-> Num(CountKind(f), count)]
           counted == PutAll(bare, stats)
           w2 == Given(w1, stats, DOMAIN stats)
           times == [f \in T |-> <<"time", TimeFor(ts, f)>>]
           q == PutAll(counted, times)
           w == Given(w2, times, DOMAIN times)
<1>1. Cut(p, params, count, ts) = q BY DEF Cut, SetTimestamp, TimeFields
<1>2. /\ Z \in SUBSET {6, 7} /\ StampFields(params.stamp, "both") \in SUBSET (8 .. 13)
      /\ S \in SUBSET (1 .. 5) /\ TestFields(params, key) \in SUBSET Fields
      /\ StampFields(params.stamp, params.clock) \in SUBSET (8 .. 13)
      /\ fechoRequest \in SUBSET Fields /\ HeaderLen \in Nat /\ finit(key) \in SUBSET Fields
  BY TestFieldsAre, FinitFacts, FieldNames DEF fechoRequest, fRequest
<1>3. Z \in SUBSET (6 .. 13) /\ T \in SUBSET (8 .. 13) /\ T \in SUBSET (6 .. 13)
  <2>1. T \in SUBSET StampFields(params.stamp, "both") BY DEF TimeFields
  <2> QED BY <1>2, <2>1
<1>4. /\ IsBuffer(p) /\ p.set = finit(key) /\ Lay(p.array, v, load)
      /\ v[fFlags] = FlagVal({} \cup KeyFlag(key))
  BY DEF Taken
<1>5. AnySeq(p.array) /\ Len(p.array) \in Nat
  <2>1. AnySeq(p.array) BY <1>4 DEF IsBuffer
  <2> QED BY <2>1, SeqFacts
<1>6. /\ IsBuffer(req) /\ req.set = S /\ req.array = p.array
  BY <1>2, <1>4, AddFieldsIs DEF AsEcho
<1> HIDE DEF req
<1>7. S \in SUBSET DOMAIN v /\ \A f \in S : \A g \in DOMAIN v : g < f => g \in S
  <2> DEFINE V == StampFields(params.stamp, params.clock)
  <2>1. DOMAIN v = S \cup Z \cup V BY DEF TestFields
  <2>4. Z \in SUBSET (6 .. 13) /\ V \in SUBSET (6 .. 13)
    <3>1. V \in SUBSET (8 .. 13) BY <1>2
    <3> HIDE DEF V
    <3> QED BY <1>3, <3>1
  <2> HIDE DEF S, Z, V
  <2>2. \A g \in DOMAIN v : g \in S \/ g \in 6 .. 13 BY <2>1, <2>4
  <2>3. \A f \in S : f \in 1 .. 5 BY <1>2
  <2> QED BY <2>1, <2>2, <2>3
<1>8. Lay(p.array, w0, <<>>) BY <1>4, <1>7, LayLow
<1>9. /\ fMagic \in S /\ fFlags \in S /\ fConnToken \in S /\ fSeqno \in S
      /\ fMagic # fFlags /\ fConnToken # fFlags /\ fSeqno # fFlags
  BY DEF finit, fechoRequest, fRequest, fMagic, fFlags, fConnToken, fSeqno
<1>10. /\ DOMAIN w0 = S /\ w0[fMagic] = Magic /\ w0[fFlags] = FlagVal(KeyFlag(key))
       /\ w0[fConnToken] = Num("token", token) /\ w0[fSeqno] = Num("seqno", n)
  <2>1. {} \cup KeyFlag(key) = KeyFlag(key) OBVIOUS
  <2> HIDE DEF S
  <2> QED BY <1>4, <1>9, <2>1
<1> HIDE DEF w0
<1>11. Holds(req, w0, <<>>) BY <1>6, <1>8, <1>10 DEF Holds
<1>12. /\ Holds(flagged, w1, <<>>) /\ flagged.set = S /\ Beyond(p.array, flagged.array, Room(S))
  <2>1. {"reply"} # {} /\ fFlags \in DOMAIN w0 BY <1>9, <1>10
  <2>2. Flagged(req, flagged, w0, <<>>, fls) BY <1>10, <1>11, <2>1, FlaggedPut
  <2> HIDE DEF flagged, fls
  <2> QED BY <1>6, <2>2 DEF Flagged
<1>13. /\ DOMAIN w1 = S /\ w1[fMagic] = Magic /\ w1[fFlags] = FlagVal(fls)
       /\ w1[fConnToken] = Num("token", token) /\ w1[fSeqno] = Num("seqno", n)
  <2>1. fFlags \in DOMAIN w0 /\ fMagic \in DOMAIN w0 /\ fConnToken \in DOMAIN w0 /\ fSeqno \in DOMAIN w0
    BY <1>9, <1>10
  <2> HIDE DEF fls, S
  <2> QED BY <1>9, <1>10, <2>1, WithFlags
<1> HIDE DEF flagged, w1, fls
<1>14. S \in SUBSET Fields /\ Room(S) \in Nat /\ Room(S) <= HeaderLen
  <2>1. S \in SUBSET Fields /\ Fields \in SUBSET Fields BY <1>2
  <2> QED BY <2>1, RoomType, RoomMore DEF HeaderLen
<1>15. Len(flagged.array) = Len(p.array) BY <1>12 DEF Beyond
<1>16. Snug(bare, w1) /\ bare.array = flagged.array
  <2> DEFINE l == Larger(0, Room(flagged.set))
  <2>1. /\ Holds(bare, w1, <<>>) /\ bare.array = flagged.array /\ bare.set = flagged.set
        /\ bare.tlen = 0 /\ bare.len = IF l > Len(flagged.array) THEN Len(flagged.array) ELSE l
    <3> DEFINE none == 0
    <3>1. none \in Int OBVIOUS
    <3> HIDE DEF none
    <3>2. LET r == SetLen(flagged, none)
              m == Larger(none, Room(flagged.set))
          IN  /\ Holds(r, w1, <<>>) /\ r.array = flagged.array /\ r.set = flagged.set
              /\ r.tlen = none /\ r.len = IF m > Len(flagged.array) THEN Len(flagged.array) ELSE m
      BY <1>12, <3>1, SetLenHolds
    <3> QED BY <3>2 DEF none
  <2> HIDE DEF bare
  <2>2. l = Room(S) /\ ~(l > Len(flagged.array)) BY <1>5, <1>12, <1>14, <1>15, <1>2 DEF Larger
  <2>3. bare.len = Room(bare.set) BY <1>12, <2>1, <2>2
  <2>4. 0 <= bare.len BY <1>12, <1>14, <2>1, <2>2
  <2> QED BY <2>1, <2>3, <2>4 DEF Snug
<1> HIDE DEF bare
<1>17. /\ Snug(counted, w2) /\ Beyond(bare.array, counted.array, Room(counted.set))
  <2>1. HeaderLen <= Len(bare.array) /\ DOMAIN stats \subseteq 6 .. 13 BY <1>3, <1>15, <1>16
  <2> HIDE DEF stats
  <2> QED BY <1>16, <2>1, PutAllSnug
<1> HIDE DEF counted
<1>18. /\ DOMAIN w2 = S \cup Z
       /\ \A f \in S : f \notin Z => w2[f] = w1[f]
       /\ \A f \in Z : w2[f] = Num(CountKind(f), count)
  <2>1. DOMAIN stats = Z /\ \A f \in Z : stats[f] = Num(CountKind(f), count) OBVIOUS
  <2> HIDE DEF stats, S, Z
  <2> QED BY <1>13, <2>1 DEF Given
<1> HIDE DEF w2
<1>19. Snug(q, w) /\ Beyond(counted.array, q.array, Room(q.set))
  <2>1. HeaderLen <= Len(counted.array) /\ DOMAIN times \subseteq 6 .. 13
    BY <1>3, <1>15, <1>16, <1>17 DEF Beyond
  <2> HIDE DEF times
  <2> QED BY <1>17, <2>1, PutAllSnug
<1> HIDE DEF q
<1>20. /\ DOMAIN w = (S \cup Z) \cup T
       /\ \A f \in S \cup Z : f \notin T => w[f] = w2[f]
       /\ \A f \in T : w[f] = <<"time", TimeFor(ts, f)>>
  <2>1. DOMAIN times = T /\ \A f \in T : times[f] = <<"time", TimeFor(ts, f)>> OBVIOUS
  <2> HIDE DEF times, S, Z, T
  <2> QED BY <1>18, <2>1 DEF Given
<1> HIDE DEF w
<1>21. Beyond(p.array, q.array, Room(q.set))
  <2>1. counted.set = S \cup Z /\ q.set = (S \cup Z) \cup T /\ q.set \in SUBSET Fields
    BY <1>17, <1>18, <1>19, <1>20 DEF Snug, Holds, IsBuffer
  <2>2. /\ Room(counted.set) \in Nat /\ Room(q.set) \in Nat
        /\ Room(S) <= Room(counted.set) /\ Room(counted.set) <= Room(q.set)
    <3>1. counted.set \in SUBSET q.set /\ S \in SUBSET counted.set BY <2>1
    <3>2. counted.set \in SUBSET Fields BY <2>1, <3>1
    <3> QED BY <2>1, <3>1, <3>2, RoomMore, RoomType
  <2>3. Beyond(p.array, counted.array, Room(counted.set))
    BY <1>5, <1>12, <1>14, <1>16, <1>17, <2>2, BeyondMore
  <2> QED BY <1>5, <1>19, <2>2, <2>3, BeyondMore
<1>22. w[fMagic] = Magic /\ w[fFlags] = FlagVal({"reply"} \cup KeyFlag(key))
       /\ w[fConnToken] = Num("token", token) /\ w[fSeqno] = Num("seqno", n)
  <2>1. \A f \in S : w[f] = w1[f]
    <3>1. \A f \in S : f \in 1 .. 5 /\ f \notin Z /\ f \notin T BY <1>2, <1>3
    <3> QED BY <1>18, <1>20, <3>1
  <2>2. fls = {"reply"} \cup KeyFlag(key) BY DEF fls
  <2> HIDE DEF S, fls
  <2> QED BY <1>9, <1>13, <2>1, <2>2
<1>23. ASSUME Stamped(ts, params) PROVE ReplyVals(w, params, token, n, count, ts)
  <2>1. T = StampFields(params.stamp, params.clock) BY <1>23, TimeFieldsAgreed
  <2>2. \A f \in Z : w[f] = Num(CountKind(f), count)
    <3>1. \A f \in Z : f \notin T BY <1>2, <1>3
    <3> QED BY <1>18, <1>20, <3>1
  <2>3. \A f \in T : w[f] = Num("time", TimeFor(ts, f))
    <3>1. \A f \in T : TimeFor(ts, f) # 0 BY DEF TimeFields
    <3> HIDE DEF T
    <3> QED BY <1>20, <3>1 DEF Num
  <2> QED BY <1>22, <2>1, <2>2, <2>3 DEF ReplyVals
<1> QED BY <1>1, <1>19, <1>20, <1>21, <1>22, <1>23

\* What Echo makes of the packet that a request was read into.
EchoReply(p, params, count, ts, key) ==
  UpdateHMAC(TestPacket(SetFlagBits(AsEcho(p), {"reply"}), params, count, ts), key)

(* The bytes of a reply: if the times are as agreed, its fields are those of a test and
   its load is the one it should have.                                                *)
ReplyBytes(bytes, params, token, n, count, ts, load, key) ==
  \E w, l : /\ Signed(bytes, w, l, key, {"reply"})
            /\ Len(bytes) <= Larger(params.length, HeaderLen)
            /\ Stamped(ts, params) =>
                  /\ DOMAIN w = TestFields(params, key) /\ ReplyVals(w, params, token, n, count, ts)
                  /\ l = load
                  /\ Len(bytes) = Larger(params.length, Room(TestFields(params, key)))

(* The payload of a packet that was made as long as was agreed. *)
LEMMA FilledHolds ==
  ASSUME NEW params, NEW fb, NEW w, Holds(fb, w, <<>>), fb.len \in Room(fb.set) .. Len(fb.array)
  PROVE  LET q == Filled(fb, params)
         IN  /\ q.tlen = fb.tlen /\ Len(q.array) = Len(fb.array)
             /\ \E l : /\ Holds(q, w, l) /\ Exact(q, l) /\ Len(l) = fb.len - Room(fb.set)
                       /\ \A i \in 1 .. Len(l) :
                             l[i] = IF Fills(params) THEN FillerByte ELSE fb.array[Room(fb.set) + i]
<1> DEFINE n == fb.len - Room(fb.set)
<1>1. /\ fb.set = DOMAIN w /\ Len(fb.array) \in Nat /\ Room(fb.set) \in Nat /\ AnySeq(fb.array)
  <2>1. fb.set = DOMAIN w /\ Lay(fb.array, w, <<>>) BY DEF Holds
  <2> QED BY <2>1, LayFacts
<1>2. n \in Nat BY <1>1
<1>3. CASE Fills(params)
  <2> DEFINE q == FillPayload(fb, FillerByte)
             l == [k \in 1 .. fb.len - Room(fb.set) |-> FillerByte]
  <2>1. /\ Holds(q, w, l) /\ Exact(q, l) /\ q.tlen = fb.tlen /\ Len(q.array) = Len(fb.array)
    BY FillHolds
  <2>2. Len(l) = n /\ \A i \in 1 .. n : l[i] = FillerByte BY <1>2, AnyMade
  <2>3. Filled(fb, params) = q BY <1>3 DEF Filled
  <2> HIDE DEF q, l
  <2> QED BY <1>3, <2>1, <2>2, <2>3
<1>4. CASE ~Fills(params)
  <2> DEFINE l == SubSeq(fb.array, Room(fb.set) + 1, fb.len)
  <2>1. Holds(fb, w, l) /\ Exact(fb, l) /\ Len(l) = n BY HoldsRest
  <2>2. \A i \in 1 .. n : l[i] = fb.array[Room(fb.set) + i]
    <3> DEFINE m == Room(fb.set)
    <3>1. m \in Nat /\ fb.len \in m .. Len(fb.array) /\ AnySeq(fb.array) BY <1>1
    <3> HIDE DEF m
    <3>2. \A i \in 1 .. fb.len - m : SubSeq(fb.array, m + 1, fb.len)[i] = fb.array[m + i]
      BY <3>1, RestIs
    <3> QED BY <3>2 DEF m
  <2>3. Filled(fb, params) = fb BY <1>4 DEF Filled
  <2> HIDE DEF l
  <2> QED BY <1>4, <2>1, <2>2, <2>3
<1> QED BY <1>3, <1>4

\* The reply that serveEcho makes of a request in place is signed, has its fields and load.
LEMMA EchoReplyIs ==
  ASSUME NEW params \in ParamsType, NEW key, NEW p, NEW v, NEW load, Taken(p, v, load, key, {}),
         DOMAIN v = TestFields(params, key), v[fMagic] = Magic,
         Room(DOMAIN v) + Len(load) = Larger(params.length, Room(DOMAIN v)),
         HeaderLen <= Len(p.array), params.length <= Len(p.array), NEW token, NEW n, NEW count, NEW ts,
         v[fConnToken] = Num("token", token), v[fSeqno] = Num("seqno", n)
  PROVE  LET q == EchoReply(p, params, count, ts, key)
         IN  /\ IsBuffer(q) /\ Len(q.array) = Len(p.array)
             /\ ReplyBytes(Content(q), params, token, n, count, ts, ReplyLoad(params, load), key)
<1> DEFINE cut == Cut(p, params, count, ts)
           long == SetLen(cut, params.length)
           full == Filled(long, params)
           q == UpdateHMAC(full, key)
<1>1. EchoReply(p, params, count, ts, key) = q
  BY DEF EchoReply, TestPacket, Cut, CountKind
<1>2. /\ Beyond(p.array, cut.array, Room(cut.set))
      /\ \E w : /\ Snug(cut, w) /\ w[fMagic] = Magic
                /\ w[fFlags] = FlagVal({"reply"} \cup KeyFlag(key))
                /\ DOMAIN w = finit(key) \cup fechoRequest \cup StatsFields(params.stats)
                                \cup TimeFields(params, ts)
                /\ Stamped(ts, params) => ReplyVals(w, params, token, n, count, ts)
  BY CutSnug, ZenonT(30)
<1> HIDE DEF cut
<1>3. PICK w : /\ Snug(cut, w) /\ w[fMagic] = Magic
               /\ w[fFlags] = FlagVal({"reply"} \cup KeyFlag(key))
               /\ DOMAIN w = finit(key) \cup fechoRequest \cup StatsFields(params.stats)
                               \cup TimeFields(params, ts)
               /\ Stamped(ts, params) => ReplyVals(w, params, token, n, count, ts)
  BY <1>2
<1> DEFINE D == DOMAIN w
<1>4. Holds(cut, w, <<>>) /\ cut.set = D /\ D \in SUBSET Fields BY <1>3 DEF Snug, Holds, IsBuffer
<1>5. /\ Room(D) \in Nat /\ Room(D) <= HeaderLen /\ HeaderLen \in Nat /\ params.length \in Int
  <2>1. Fields \in SUBSET Fields OBVIOUS
  <2> QED BY <1>4, <2>1, RoomType, RoomMore, FinitFacts DEF HeaderLen, ParamsType
<1>6. /\ AnySeq(p.array) /\ Len(p.array) \in Nat /\ Len(cut.array) = Len(p.array)
      /\ Lay(p.array, v, load) /\ AnySeq(load) /\ Len(load) \in Nat
  <2>1. IsBuffer(p) /\ Lay(p.array, v, load) BY DEF Taken
  <2>2. AnySeq(p.array) /\ AnySeq(load) /\ Len(load) \in Nat BY <2>1, LayFacts
  <2> QED BY <1>2, <2>1, <2>2, SeqFacts DEF Beyond
<1> DEFINE l == Larger(params.length, Room(D))
<1>7. /\ Holds(long, w, <<>>) /\ long.array = cut.array /\ long.set = D
      /\ long.tlen = params.length /\ long.len = l
  <2> DEFINE m == Larger(params.length, Room(cut.set))
  <2>1. /\ Holds(long, w, <<>>) /\ long.array = cut.array /\ long.set = cut.set
        /\ long.tlen = params.length
        /\ long.len = IF m > Len(cut.array) THEN Len(cut.array) ELSE m
    BY <1>4, <1>5, SetLenHolds
  <2> HIDE DEF long
  <2>2. ~(l > Len(p.array)) BY <1>5, <1>6 DEF Larger
  <2> QED BY <1>4, <1>6, <2>1, <2>2
<1> HIDE DEF long
<1>8. l \in Room(D) .. Len(p.array) /\ l <= Larger(params.length, HeaderLen)
  BY <1>5, <1>6 DEF Larger
<1>9. /\ full.tlen = params.length /\ Len(full.array) = Len(p.array)
      /\ \E part : /\ Holds(full, w, part) /\ Exact(full, part) /\ Len(part) = l - Room(D)
                   /\ \A i \in 1 .. Len(part) :
                         part[i] = IF Fills(params) THEN FillerByte ELSE cut.array[Room(D) + i]
  <2>1. long.len \in Room(long.set) .. Len(long.array) BY <1>6, <1>7, <1>8
  <2>2. /\ full.tlen = long.tlen /\ Len(full.array) = Len(long.array)
        /\ \E part : /\ Holds(full, w, part) /\ Exact(full, part)
                     /\ Len(part) = long.len - Room(long.set)
                     /\ \A i \in 1 .. Len(part) :
                           part[i] = IF Fills(params) THEN FillerByte ELSE long.array[Room(long.set) + i]
    BY <1>7, <2>1, FilledHolds
  <2> HIDE DEF full
  <2> QED BY <1>6, <1>7, <2>2
<1> HIDE DEF full
<1>10. PICK part : /\ Holds(full, w, part) /\ Exact(full, part) /\ Len(part) = l - Room(D)
                   /\ \A i \in 1 .. Len(part) :
                         part[i] = IF Fills(params) THEN FillerByte ELSE cut.array[Room(D) + i]
  BY <1>9
<1>11. /\ fMagic \in D /\ fFlags \in D /\ (key # NoKey => fHMAC \in D)
       /\ (key = NoKey => fHMAC \notin D) /\ finit(key) \in SUBSET D
  <2>1. finit(key) \in SUBSET D BY <1>3
  <2>2. key = NoKey => fHMAC \notin D
    <3>1. fHMAC \notin fechoRequest /\ fHMAC \notin 6 .. 13
      BY DEF fHMAC, fechoRequest, fRequest, fMagic, fFlags, fConnToken, fSeqno
    <3>2. StatsFields(params.stats) \in SUBSET {6, 7} /\ TimeFields(params, ts) \in SUBSET (8 .. 13)
      <4>1. StampFields(params.stamp, "both") \in SUBSET (8 .. 13) BY TestFieldsAre
      <4> QED BY <4>1, TestFieldsAre DEF TimeFields
    <3>3. fHMAC \notin StatsFields(params.stats) /\ fHMAC \notin TimeFields(params, ts)
      BY <3>1, <3>2
    <3> QED BY <1>3, <3>1, <3>3, FinitFacts
  <2> QED BY <2>1, <2>2, FinitFacts
<1>12. /\ IsBuffer(q) /\ Len(q.array) = Len(full.array)
       /\ \E x : /\ SignedAs(w, x, key) /\ Exact(q, part) /\ Holds(q, x, part)
                 /\ Signed(Content(q), x, part, key, {"reply"} \cup KeyFlag(key))
  BY <1>3, <1>5, <1>9, <1>10, <1>11, UpdateHMACSigns, SMTT(30)
<1> HIDE DEF q
<1>13. PICK x : /\ SignedAs(w, x, key)
                /\ Signed(Content(q), x, part, key, {"reply"} \cup KeyFlag(key))
  BY <1>12
<1>14. Signed(Content(q), x, part, key, {"reply"})
  <2>1. {"reply"} \cup KeyFlag(key) = ({"reply"} \cup KeyFlag(key)) \cup KeyFlag(key) OBVIOUS
  <2> QED BY <1>13, <2>1, SignedFlags
<1>15. DOMAIN x = D /\ \A f \in D : f # fFlags /\ f # fHMAC => x[f] = w[f]
  BY <1>11, <1>13 DEF SignedAs
<1>16. Len(Content(q)) = l
  <2>1. Len(Content(q)) = Room(DOMAIN x) + Len(part) BY <1>14 DEF Signed
  <2> QED BY <1>5, <1>8, <1>10, <1>15, <2>1
<1>17. ASSUME Stamped(ts, params)
       PROVE  /\ D = TestFields(params, key) /\ ReplyVals(x, params, token, n, count, ts)
              /\ part = ReplyLoad(params, load)
  <2>1. D = TestFields(params, key) BY <1>3, <1>17, TimeFieldsAgreed DEF TestFields
  <2>2. ReplyVals(x, params, token, n, count, ts)
    <3>1. ReplyVals(w, params, token, n, count, ts) BY <1>3, <1>17
    <3>2. /\ fConnToken # fFlags /\ fConnToken # fHMAC /\ fSeqno # fFlags /\ fSeqno # fHMAC
          /\ fFlags \notin 6 .. 13 /\ fHMAC \notin 6 .. 13
          /\ fConnToken \in fechoRequest /\ fSeqno \in fechoRequest
      BY DEF fConnToken, fSeqno, fFlags, fHMAC, fechoRequest, fRequest
    <3>3. StatsFields(params.stats) \in SUBSET (6 .. 13)
          /\ StampFields(params.stamp, params.clock) \in SUBSET (6 .. 13)
      <4>1. StatsFields(params.stats) \in SUBSET {6, 7} BY TestFieldsAre
      <4>2. StampFields(params.stamp, params.clock) \in SUBSET (8 .. 13) BY TestFieldsAre
      <4> QED BY <4>1, <4>2
    <3>4. \A f \in StatsFields(params.stats) \cup StampFields(params.stamp, params.clock) : x[f] = w[f]
      <4>1. StatsFields(params.stats) \cup StampFields(params.stamp, params.clock) \in SUBSET D
        BY <2>1 DEF TestFields
      <4> QED BY <1>15, <3>2, <3>3, <4>1
    <3>5. x[fConnToken] = w[fConnToken] /\ x[fSeqno] = w[fSeqno]
      BY <1>15, <2>1, <3>2 DEF TestFields
    <3> QED BY <3>1, <3>4, <3>5 DEF ReplyVals
  <2>3. AnySeq(part) BY <1>10, LayFacts DEF Holds
  <2>4. Len(part) = Len(load) BY <1>5, <1>6, <1>8, <1>10, <2>1
  <2>5. CASE Fills(params)
    <3> DEFINE r == [i \in 1 .. Len(load) |-> FillerByte]
    <3>1. ReplyLoad(params, load) = r
      <4>1. DOMAIN load = 1 .. Len(load) BY <1>6, SeqFacts
      <4> QED BY <2>5, <4>1 DEF ReplyLoad
    <3>2. AnySeq(r) /\ Len(r) = Len(load) /\ \A i \in 1 .. Len(load) : r[i] = FillerByte
      BY <1>6, AnyMade
    <3> HIDE DEF r
    <3>3. \A i \in 1 .. Len(part) : part[i] = r[i] BY <1>10, <2>4, <2>5, <3>2
    <3>4. Len(part) = Len(r) BY <2>4, <3>2
    <3>5. part = r BY <2>3, <3>2, <3>3, <3>4, SeqSame
    <3> QED BY <2>1, <2>2, <3>1, <3>5
  <2>6. CASE ~Fills(params)
    <3>1. ReplyLoad(params, load) = load BY <2>6 DEF ReplyLoad
    <3>2. ASSUME NEW i \in 1 .. Len(part) PROVE part[i] = load[i]
      <4> DEFINE j == Room(D) + i
      <4>1. j \in 1 .. Len(p.array) /\ Room(D) < j
        BY <1>5, <1>6, <1>8, <1>10
      <4> HIDE DEF j
      <4>2. cut.array[j] = p.array[j] BY <1>2, <1>4, <4>1 DEF Beyond
      <4>3. p.array[j] = load[i]
        <5>1. \A k \in 1 .. Len(load) : p.array[Room(DOMAIN v) + k] = load[k] BY <1>6 DEF Lay
        <5>2. p.array[Room(DOMAIN v) + i] = load[i] BY <2>4, <5>1
        <5> QED BY <2>1, <5>2 DEF j
      <4>4. part[i] = cut.array[j] BY <1>10, <2>6 DEF j
      <4> QED BY <4>2, <4>3, <4>4
    <3>3. AnySeq(load) BY <1>6
    <3>4. part = load BY <2>3, <2>4, <3>2, <3>3, SeqSame
    <3> QED BY <2>1, <2>2, <3>1, <3>4
  <2> QED BY <2>1, <2>2, <2>5, <2>6
<1>18. ReplyBytes(Content(q), params, token, n, count, ts, ReplyLoad(params, load), key)
  BY <1>8, <1>14, <1>15, <1>16, <1>17 DEF ReplyBytes
<1> QED BY <1>1, <1>9, <1>12, <1>18

-----------------------------------------------------------------------------
(* What is heard *)

\* What a received packet has.
LEMMA TakenFacts ==
  ASSUME NEW p, NEW v, NEW load, NEW key, NEW fls, Taken(p, v, load, key, fls)
  PROVE  /\ IsBuffer(p) /\ p.set = finit(key) /\ p.len = Room(DOMAIN v) + Len(load)
         /\ Lay(p.array, v, load) /\ FlagsOf(p) = fls \cup KeyFlag(key)
  BY DEF Taken

\* The fields of a request as they are in any set of fields of a datagram.
LEMMA RequestPlaces ==
  ASSUME NEW key, NEW D, NEW q,
         finit(key) \cup fRequest \in SUBSET q.set, finit(key) \cup fRequest \in SUBSET D,
         \A f \in q.set : f \in finit(key) \cup fRequest \/ f \in 5 .. 13,
         \A f \in D : f \in finit(key) \cup fRequest \/ f \in 5 .. 13
  PROVE  Pos(q, fConnToken) = Start(D, fConnToken)
<1>1. \A f \in 5 .. 13 : ~(f < fConnToken) BY DEF fConnToken
<1>2. {g \in q.set : g < fConnToken} = {g \in D : g < fConnToken} BY <1>1
<1> QED BY <1>2, StartSame

\* The sequence number is found where it was put, whatever follows it.
LEMMA EchoPlaces ==
  ASSUME NEW key, NEW D, NEW q,
         finit(key) \cup fechoRequest \in SUBSET q.set, finit(key) \cup fechoRequest \in SUBSET D,
         \A f \in q.set : f \in finit(key) \cup fechoRequest \/ f \in 6 .. 13,
         \A f \in D : f \in finit(key) \cup fechoRequest \/ f \in 6 .. 13
  PROVE  Pos(q, fSeqno) = Start(D, fSeqno)
<1>1. \A f \in 6 .. 13 : ~(f < fSeqno) BY DEF fSeqno
<1>2. {g \in q.set : g < fSeqno} = {g \in D : g < fSeqno} BY <1>1
<1> QED BY <1>2, StartSame

\* Fields of requests.
LEMMA RequestFields ==
  ASSUME NEW key, NEW params \in ParamsType
  PROVE  /\ fRequest \in SUBSET Fields /\ fechoRequest \in SUBSET Fields
         /\ fechoRequest = fRequest \cup {fSeqno} /\ fSeqno \in 5 .. 13
         /\ fConnToken \in fRequest /\ fSeqno \in fechoRequest
         /\ fRequest \subseteq finit(key) \cup {fConnToken}
         /\ \A f \in TestFields(params, key) : f \in finit(key) \cup fechoRequest \/ f \in 6 .. 13
         /\ finit(key) \cup fechoRequest \in SUBSET TestFields(params, key)
<1>1. /\ fRequest \in SUBSET Fields /\ fechoRequest \in SUBSET Fields
      /\ fechoRequest = fRequest \cup {fSeqno} /\ fSeqno \in 5 .. 13
      /\ fConnToken \in fRequest /\ fSeqno \in fechoRequest
      /\ fRequest \subseteq finit(key) \cup {fConnToken}
  BY FieldNames DEF fechoRequest, fRequest, fSeqno, finit
<1>2. /\ StatsFields(params.stats) \in SUBSET {6, 7}
      /\ StampFields(params.stamp, params.clock) \in SUBSET (8 .. 13)
  BY TestFieldsAre
<1>3. \A f \in TestFields(params, key) : f \in finit(key) \cup fechoRequest \/ f \in 6 .. 13
  <2> DEFINE Z == StatsFields(params.stats)
             T == StampFields(params.stamp, params.clock)
             S == finit(key) \cup fechoRequest
  <2>1. TestFields(params, key) = (S \cup Z) \cup T BY DEF TestFields
  <2>2. Z \in SUBSET (6 .. 13) /\ T \in SUBSET (6 .. 13)
    <3>1. Z \in SUBSET {6, 7} /\ T \in SUBSET (8 .. 13) BY <1>2
    <3> HIDE DEF Z, T
    <3> QED BY <3>1
  <2> HIDE DEF Z, T, S
  <2>3. \A f \in TestFields(params, key) : f \in S \/ f \in 6 .. 13 BY <2>1, <2>2
  <2> QED BY <2>3 DEF S
<1>4. finit(key) \cup fechoRequest \in SUBSET TestFields(params, key) BY DEF TestFields
<1> QED BY <1>1, <1>3, <1>4

\* An open request is heard as what is asked.
LEMMA OpenHeard ==
  ASSUME NEW params \in ParamsType, NEW p, NEW v, NEW key,
         Taken(p, v, Encoded(params), key, {"open"}), DOMAIN v = finit(key)
  PROVE  HeardByServer(p) = OpenMeans(params)
<1>1. Payload(p) = Encoded(params) BY TakenFacts, PayloadIs
<1>2. ParseParams(Encoded(params)) = params BY EncodedCarries, ParsesEncoded
<1>3. "open" \in FlagsOf(p) BY TakenFacts
<1> QED BY <1>1, <1>2, <1>3 DEF HeardByServer

\* A close request is heard as its token.
LEMMA CloseHeard ==
  ASSUME NEW p, NEW v, NEW load, NEW key, Taken(p, v, load, key, {"close"}),
         DOMAIN v = fRequest \cup finit(key), NEW t, v[fConnToken] = Num("token", t)
  PROVE  HeardByServer(p) = CloseMeans(t)
<1> DEFINE req == AddFields(p, fRequest)
<1>1. fRequest \in SUBSET Fields /\ fConnToken \in fRequest BY FieldNames DEF fRequest
<1>2. IsBuffer(p) /\ p.set = finit(key) /\ Lay(p.array, v, load) /\ FlagsOf(p) = {"close"} \cup KeyFlag(key)
  BY TakenFacts
<1>3. req.set = p.set \cup fRequest /\ req.array = p.array BY <1>1, <1>2, AddFieldsIs
<1> HIDE DEF req
<1>4. req.set = DOMAIN v BY <1>2, <1>3
<1>5. Pos(req, fConnToken) = Start(DOMAIN v, fConnToken) BY <1>4 DEF Pos, Start
<1>6. CToken(req) = t
  <2>1. fConnToken \in DOMAIN v /\ Lay(req.array, v, load) BY <1>1, <1>2, <1>3
  <2>2. ReadNum(req, fConnToken, "token") = t BY <1>5, <2>1, NumRead
  <2> QED BY <2>2 DEF CToken
<1>7. "open" \notin FlagsOf(p) /\ "close" \in FlagsOf(p) BY <1>2 DEF KeyFlag
<1> QED BY <1>6, <1>7 DEF HeardByServer, AsRequest, req

\* An echo request is heard as its token and sequence number.
LEMMA EchoHeard ==
  ASSUME NEW params \in ParamsType, NEW p, NEW v, NEW load, NEW key, Taken(p, v, load, key, {}),
         DOMAIN v = TestFields(params, key), NEW t, v[fConnToken] = Num("token", t),
         NEW n, v[fSeqno] = Num("seqno", n)
  PROVE  HeardByServer(p) = EchoMeans(t, n)
<1> DEFINE req == AddFields(p, fRequest)
           echo == AddFields(p, fechoRequest)
           D == DOMAIN v
<1>1. /\ fRequest \in SUBSET Fields /\ fechoRequest \in SUBSET Fields
      /\ fechoRequest = fRequest \cup {fSeqno} /\ fSeqno \in 5 .. 13
      /\ fConnToken \in fRequest /\ fSeqno \in fechoRequest
      /\ \A f \in D : f \in finit(key) \cup fechoRequest \/ f \in 6 .. 13
      /\ finit(key) \cup fechoRequest \in SUBSET D
  BY RequestFields
<1>2. IsBuffer(p) /\ p.set = finit(key) /\ Lay(p.array, v, load) /\ FlagsOf(p) = {} \cup KeyFlag(key)
  BY TakenFacts
<1>3. /\ req.set = finit(key) \cup fRequest /\ req.array = p.array
      /\ echo.set = finit(key) \cup fechoRequest /\ echo.array = p.array
  BY <1>1, <1>2, AddFieldsIs
<1> HIDE DEF req, echo
<1>4. Pos(req, fConnToken) = Start(D, fConnToken)
  <2>1. \A f \in D : f \in finit(key) \cup fRequest \/ f \in 5 .. 13
    <3>1. 6 .. 13 \subseteq 5 .. 13 OBVIOUS
    <3> QED BY <1>1, <3>1
  <2>2. finit(key) \cup fRequest \in SUBSET D BY <1>1
  <2>3. \A f \in req.set : f \in finit(key) \cup fRequest \/ f \in 5 .. 13 BY <1>3
  <2>4. finit(key) \cup fRequest \in SUBSET req.set BY <1>3
  <2> HIDE DEF D
  <2> QED BY <2>1, <2>2, <2>3, <2>4, RequestPlaces
<1>5. Pos(echo, fSeqno) = Start(D, fSeqno)
  <2>1. \A f \in echo.set : f \in finit(key) \cup fechoRequest \/ f \in 6 .. 13 BY <1>3
  <2>2. finit(key) \cup fechoRequest \in SUBSET echo.set BY <1>3
  <2>3. /\ \A f \in D : f \in finit(key) \cup fechoRequest \/ f \in 6 .. 13
        /\ finit(key) \cup fechoRequest \in SUBSET D
    BY <1>1
  <2> HIDE DEF D
  <2> QED BY <2>1, <2>2, <2>3, EchoPlaces
<1>6. CToken(req) = t
  <2>1. fConnToken \in DOMAIN v /\ Lay(req.array, v, load) BY <1>1, <1>2, <1>3
  <2>2. ReadNum(req, fConnToken, "token") = t BY <1>4, <2>1, NumRead
  <2> QED BY <2>2 DEF CToken
<1>7. SeqnoOf(echo) = n
  <2>1. fSeqno \in DOMAIN v /\ Lay(echo.array, v, load) BY <1>1, <1>2, <1>3
  <2>2. ReadNum(echo, fSeqno, "seqno") = n BY <1>5, <2>1, NumRead
  <2> QED BY <2>2 DEF SeqnoOf
<1>8. "open" \notin FlagsOf(p) /\ "close" \notin FlagsOf(p) BY <1>2 DEF KeyFlag
<1> QED BY <1>6, <1>7, <1>8 DEF HeardByServer, AsRequest, AsEcho, req, echo

\* An open reply is heard as its token and what is granted.
LEMMA OpenedHeard ==
  ASSUME NEW params, NEW granted \in ParamsType, NEW p, NEW v, NEW key,
         Taken(p, v, Encoded(granted), key, {"open", "reply"}),
         DOMAIN v = finit(key) \cup {fConnToken}, NEW t, v[fConnToken] = Num("token", t)
  PROVE  HeardByClient(p, params) = OpenReplyMeans(t, granted)
<1> DEFINE opened == AddFields(p, fRequest)
<1>1. /\ fRequest \in SUBSET Fields /\ fConnToken \in fRequest
      /\ fRequest \subseteq finit(key) \cup {fConnToken}
  BY FieldNames DEF fRequest, finit
<1>2. /\ IsBuffer(p) /\ p.set = finit(key) /\ Lay(p.array, v, Encoded(granted))
      /\ FlagsOf(p) = {"open", "reply"} \cup KeyFlag(key)
      /\ p.len = Room(DOMAIN v) + Len(Encoded(granted))
  BY TakenFacts
<1>3. opened.set = p.set \cup fRequest /\ opened.array = p.array /\ opened.len = p.len
  BY <1>1, <1>2, AddFieldsIs
<1> HIDE DEF opened
<1>4. opened.set = DOMAIN v BY <1>1, <1>2, <1>3
<1>5. Pos(opened, fConnToken) = Start(DOMAIN v, fConnToken) BY <1>4 DEF Pos, Start
<1>6. CToken(opened) = t
  <2>1. fConnToken \in DOMAIN v /\ Lay(opened.array, v, Encoded(granted)) BY <1>2, <1>3
  <2>2. ReadNum(opened, fConnToken, "token") = t BY <1>5, <2>1, NumRead
  <2> QED BY <2>2 DEF CToken
<1>7. Payload(opened) = Encoded(granted) BY <1>2, <1>3, <1>4, PayloadIs
<1>8. ParseParams(Encoded(granted)) = granted BY EncodedCarries, ParsesEncoded
<1>9. "open" \in FlagsOf(p) BY <1>2
<1> QED BY <1>6, <1>7, <1>8, <1>9 DEF HeardByClient, AsRequest, opened

\* A reply is heard as all it says, by who knows what was agreed on.
LEMMA ReplyHeard ==
  ASSUME NEW params \in ParamsType, NEW p, NEW v, NEW load, NEW key,
         Taken(p, v, load, key, {"reply"}), DOMAIN v = TestFields(params, key),
         NEW t, NEW n, NEW count, NEW ts, ReplyVals(v, params, t, n, count, ts), Stamped(ts, params)
  PROVE  HeardByClient(p, params) =
            ReplyMeans(t, n, IF fRCount \in StatsFields(params.stats) THEN count ELSE 0,
                       IF fRWindow \in StatsFields(params.stats) THEN count ELSE 0, ts)
<1> DEFINE Z == StatsFields(params.stats)
           T == StampFields(params.stamp, params.clock)
           echo == AddFields(p, fechoRequest)
           reply == AddFields(echo, Z \cup T)
           D == DOMAIN v
<1>1. /\ fRequest \in SUBSET Fields /\ fechoRequest \in SUBSET Fields
      /\ fConnToken \in fechoRequest /\ fSeqno \in fechoRequest
  BY RequestFields
<1>2. IsBuffer(p) /\ p.set = finit(key) /\ Lay(p.array, v, load)
      /\ FlagsOf(p) = {"reply"} \cup KeyFlag(key)
  BY TakenFacts
<1>3. Z \in SUBSET {6, 7} /\ T \in SUBSET (8 .. 13) BY TestFieldsAre
<1>4. IsBuffer(echo) /\ echo.set = finit(key) \cup fechoRequest /\ echo.array = p.array
  BY <1>1, <1>2, AddFieldsIs
<1>5. reply.set = echo.set \cup (Z \cup T) /\ reply.array = echo.array
  <2>1. Z \cup T \in SUBSET Fields BY <1>3, FieldNames
  <2> HIDE DEF Z, T, echo
  <2> QED BY <1>4, <2>1, AddFieldsIs
<1>6. HeardByClient(p, params) =
         ReplyMeans(CToken(reply), SeqnoOf(reply), StatOf(reply, fRCount, "count"),
                    StatOf(reply, fRWindow, "window"), TimestampOf(reply))
  <2>1. "open" \notin FlagsOf(p) BY <1>2 DEF KeyFlag
  <2> QED BY <2>1 DEF HeardByClient, AsReply, AsEcho
<1>7. D = finit(key) \cup fechoRequest \cup Z \cup T BY DEF TestFields
<1> HIDE DEF reply, echo, Z, T, D
<1>8. reply.set = D /\ Lay(reply.array, v, load) BY <1>2, <1>4, <1>5, <1>7
<1>9. \A f : Pos(reply, f) = Start(D, f) BY <1>8 DEF Pos, Start
<1>10. ASSUME NEW f \in D, NEW kind, NEW x, v[f] = Num(kind, x) PROVE ReadNum(reply, f, kind) = x
  <2>1. f \in DOMAIN v /\ v[f] = Num(kind, x) /\ Pos(reply, f) = Start(DOMAIN v, f)
    BY <1>9, <1>10 DEF D
  <2>2. Lay(reply.array, v, load) BY <1>8
  <2> QED BY <2>1, <2>2, NumRead
<1>11. /\ v[fConnToken] = Num("token", t) /\ v[fSeqno] = Num("seqno", n)
       /\ \A f \in Z : v[f] = Num(CountKind(f), count)
       /\ \A f \in T : v[f] = Num("time", TimeFor(ts, f))
  BY DEF ReplyVals, Z, T
<1>12. CToken(reply) = t
  <2>1. fConnToken \in D BY <1>1, <1>7
  <2> QED BY <1>10, <1>11, <2>1 DEF CToken
<1>13. SeqnoOf(reply) = n
  <2>1. fSeqno \in D BY <1>1, <1>7
  <2> QED BY <1>10, <1>11, <2>1 DEF SeqnoOf
<1>14. fRCount \notin T /\ fRWindow \notin T /\ fRCount \notin finit(key) \cup fechoRequest
       /\ fRWindow \notin finit(key) \cup fechoRequest /\ fRCount # fRWindow
  BY <1>3 DEF fRCount, fRWindow, finit, fechoRequest, fRequest, fMagic, fFlags, fHMAC, fConnToken, fSeqno
<1>15. StatOf(reply, fRCount, "count") = IF fRCount \in Z THEN count ELSE 0
  <2>1. fRCount \in reply.set <=> fRCount \in Z BY <1>7, <1>8, <1>14
  <2>2. fRCount \in Z => ReadNum(reply, fRCount, "count") = count
    BY <1>7, <1>10, <1>11 DEF CountKind
  <2> QED BY <2>1, <2>2 DEF StatOf
<1>16. StatOf(reply, fRWindow, "window") = IF fRWindow \in Z THEN count ELSE 0
  <2>1. fRWindow \in reply.set <=> fRWindow \in Z BY <1>7, <1>8, <1>14
  <2>2. fRWindow \in Z => ReadNum(reply, fRWindow, "window") = count
    BY <1>7, <1>10, <1>11, <1>14 DEF CountKind
  <2> QED BY <2>1, <2>2 DEF StatOf
<1>17. TimestampOf(reply) = ts
  <2>1. ASSUME NEW pl \in StampPlaces, NEW k \in Clocks
        PROVE  /\ StampField[pl][k] \in reply.set <=> StampField[pl][k] \in T
               /\ StampField[pl][k] \in reply.set =>
                     ReadNum(reply, StampField[pl][k], "time") = TimeFor(ts, StampField[pl][k])
    <3> DEFINE f == StampField[pl][k]
    <3>1. f \in 8 .. 13 BY StampFieldsAre
    <3> HIDE DEF f
    <3>2. f \notin Z /\ f \notin finit(key) \cup fechoRequest
      BY <1>3, <3>1 DEF finit, fechoRequest, fRequest, fMagic, fFlags, fHMAC, fConnToken, fSeqno
    <3>3. f \in reply.set <=> f \in T BY <1>7, <1>8, <3>2
    <3>4. f \in T => ReadNum(reply, f, "time") = TimeFor(ts, f) BY <1>7, <1>10, <1>11
    <3> QED BY <3>3, <3>4 DEF f
  <2> QED BY <2>1, StampsRead DEF T
<1> QED BY <1>6, <1>12, <1>13, <1>15, <1>16, <1>17 DEF Z

-----------------------------------------------------------------------------
(* The inductive invariant *)

\* What was agreed on with a client is what the server grants it.
Agreed(c) == Granted(scenario, c)

(* A reply's times are those of the server's clocks when its request came and when it
   left, put forward by the same adjustment of at most upto.                         *)
Timely(ts, params, came, left, upto) ==
  /\ came \in Nat /\ left \in Nat /\ came <= left /\ left - came < InvalidDuration
  /\ Stamped(ts, params)
  /\ \E a \in 0 .. upto : StampedAt(ts, params, came, left, a)

\* A round trip of the packet that was sent at a time.
Measured(r, at, params, upto) ==
  /\ r.got \in Nat
  /\ r.client.send = ClientNow(at) /\ r.client.receive = ClientNow(r.got)
  /\ Plain(params) => Timely(r.server, params, r.came, r.left, upto)

IsClient(me) ==
  me = [pc |-> me.pc, params |-> me.params, token |-> me.token, send |-> me.send,
        recv |-> me.recv, seqno |-> me.seqno, sent |-> me.sent, rtds |-> me.rtds]

\* A client, of what was agreed on with it and its key.
ClientOK(me, params, key, upto) ==
  /\ IsClient(me)
  /\ me.pc \in {"new", "opening", "test", "closed"}
  /\ me.seqno \in Nat /\ me.sent \in Seq(Nat) /\ Len(me.sent) = me.seqno
  /\ me.pc \in {"new", "opening"} => me.seqno = 0
  /\ IsBuffer(me.recv)
  /\ Len(me.recv.array) = IF me.pc \in {"new", "opening"} THEN HeaderLen
                          ELSE Larger(params.length, HeaderLen)
  /\ me.pc \in {"test", "closed"} =>
        /\ me.params = [params EXCEPT !.length = Larger(params.length, Room(TestFields(params, key)))]
        /\ Echoes(me.send, params, me.token, me.seqno, key)
  /\ \A n \in DOMAIN me.rtds :
        n \in 0 .. me.seqno - 1 /\ Measured(me.rtds[n], me.sent[n + 1], params, upto)

Tests(c) == client[c].pc \in {"test", "closed"}

\* The connection of a token is a client's.
Connects(c, t) == t \in DOMAIN conns /\ conns[t].client = c

ClientsOK ==
  /\ DOMAIN client = Clients
  /\ \A c \in Clients :
        /\ ClientOK(client[c], Agreed(c), setup[c].key, adjusted)
        /\ Tests(c) => setup[c].key = serving.key
        /\ client[c].pc = "test" => Connects(c, client[c].token)

ConnsOK ==
  \A t \in DOMAIN conns :
     /\ conns[t] = [client |-> conns[t].client, params |-> conns[t].params, count |-> conns[t].count]
     /\ conns[t].client \in Clients /\ conns[t].params = Agreed(conns[t].client)

ListenerOK ==
  /\ scenario \in Scenarios /\ now \in Nat /\ adjusted \in Nat
  /\ IsBuffer(packet) /\ Len(packet.array) = Larger(MTU, HeaderLen)

OpenSent(d) ==
  /\ d.from \in Clients /\ d.to = Server /\ d.meant = OpenMeans(setup[d.from].asked)
  /\ IsSigned(d.bytes, finit(setup[d.from].key), Encoded(setup[d.from].asked),
              setup[d.from].key, {"open"})

EchoSent(d) ==
  /\ d.from \in Clients /\ d.to = Server /\ Tests(d.from)
  /\ \E n, w, load :
        /\ d.meant = EchoMeans(client[d.from].token, n)
        /\ EchoBytes(d.bytes, w, load, Agreed(d.from), client[d.from].token, n, setup[d.from].key)

CloseSent(d) ==
  /\ d.from \in Clients /\ d.to = Server /\ client[d.from].pc = "closed"
  /\ d.meant = CloseMeans(client[d.from].token)
  /\ IsSignedFor(d.bytes, client[d.from].token, fRequest \cup finit(setup[d.from].key), <<>>,
                 setup[d.from].key, {"close"})

\* The connection of an open reply stays until its client closes one.
Opened(d) ==
  /\ d.from = Server /\ d.to \in Clients /\ setup[d.to].key = serving.key
  /\ \E t : /\ d.meant = OpenReplyMeans(t, Agreed(d.to))
            /\ IsSignedFor(d.bytes, t, finit(serving.key) \cup {fConnToken}, Encoded(Agreed(d.to)),
                           serving.key, {"open", "reply"})
            /\ client[d.to].pc # "closed" => Connects(d.to, t)

ReplyCount(params, f, count) == IF f \in StatsFields(params.stats) THEN count ELSE 0

ReplySays(token, n, params, count, ts) ==
  ReplyMeans(token, n, ReplyCount(params, fRCount, count), ReplyCount(params, fRWindow, count), ts)

\* A reply to the client of a token, which agreed on these parameters.
ReplyTo(d, token, params, key, upto) ==
  \E n, count, ts :
     /\ d.meant = ReplySays(token, n, params, count, ts)
     /\ ReplyBytes(d.bytes, params, token, n, count, ts, d.reply.payload, key)
     /\ Plain(params) => Timely(ts, params, d.reply.came, d.reply.left, upto)

Replied(d) ==
  /\ d.from = Server /\ d.to \in Clients /\ setup[d.to].key = serving.key /\ Tests(d.to)
  /\ ReplyTo(d, client[d.to].token, Agreed(d.to), serving.key, adjusted)

Sent(d) == OpenSent(d) \/ EchoSent(d) \/ CloseSent(d) \/ Opened(d) \/ Replied(d)

NetOK == \A d \in net : Sent(d)

Inv == ListenerOK /\ ConnsOK /\ ClientsOK /\ NetOK

\* Restricted parameters are parameters.
LEMMA RestrictedType ==
  ASSUME NEW s \in ServerType, NEW p \in ParamsType
  PROVE  RestrictParams(s, p) \in ParamsType
<1>1. /\ s.version \in Nat /\ s.maxDuration \in Nat /\ s.minInterval \in Nat /\ s.timeout \in Nat
      /\ s.maxLength \in Nat
  BY DEF ServerType
<1>2. /\ p.version \in Nat /\ p.duration \in Nat /\ p.interval \in Nat /\ p.length \in Int
      /\ p.stats \in {"none", "count", "window", "both"} /\ p.stamp \in Stamps
      /\ p.clock \in {"wall", "monotonic", "both"} /\ p.dscp \in Nat
      /\ p.fill \in {NoFill, DefaultFill} \cup OtherFills
  BY DEF ParamsType
<1>3. AtMost(s.maxDuration, p.duration) \in Nat /\ AtMost(s.maxLength, p.length) \in Int
  BY <1>1, <1>2 DEF AtMost
<1>4. RestrictInterval(s, p.interval) \in Nat
  BY <1>1, <1>2 DEF RestrictInterval, MaxInterval
<1>5. RestrictStamp(s.allowStamp, p.stamp) \in Stamps BY <1>2 DEF RestrictStamp, Stamps
<1>6. RestrictFill(s, p.fill) \in {NoFill, DefaultFill} \cup OtherFills BY <1>2 DEF RestrictFill
<1> QED
  BY <1>1, <1>2, <1>3, <1>4, <1>5, <1>6 DEF RestrictParams, ParamsType

\* Types of what is asked and granted.
LEMMA GrantedType ==
  ASSUME NEW s \in Scenarios, NEW c \in DOMAIN s.setup
  PROVE  /\ s.setup[c].asked \in ParamsType /\ Granted(s, c) \in ParamsType /\ c # Server
<1>1. c # Server /\ s.setup[c].asked \in ParamsType /\ s.serving.limits \in ServerType
  BY ExchangeAssumption DEF SetupType, ServingType, Requests
<1> QED BY <1>1, RestrictedType DEF Granted

\* Types and keys of clients, and what the hypotheses say of them.
LEMMA AgreedFacts ==
  ASSUME ListenerOK, NEW c \in Clients
  PROVE  /\ setup[c].asked \in ParamsType /\ Agreed(c) \in ParamsType
         /\ c # Server /\ KeyOf(c) = setup[c].key /\ KeyOf(Server) = serving.key
         /\ GrantsFit => Agreed(c).length <= MTU
         /\ GrantsPlain => Plain(Agreed(c))
  BY GrantedType DEF ListenerOK, Clients, Agreed, setup, serving, KeyOf, GrantsFit, GrantsPlain

-----------------------------------------------------------------------------
(* What arrives *)

\* All fields fit into a header.
LEMMA RoomOfHeader ==
  /\ HeaderLen \in Nat
  /\ \A F \in SUBSET Fields : Room(F) \in Nat /\ Room(F) <= HeaderLen
  BY FieldFacts, RoomType, RoomMore DEF HeaderLen

\* Every buffer is as long as its owner made it.
LEMMA BufferFacts ==
  ASSUME ListenerOK, ClientsOK
  PROVE  /\ IsBuffer(Buffer(Server)) /\ Len(Buffer(Server).array) = Larger(MTU, HeaderLen)
         /\ \A c \in Clients :
               /\ IsBuffer(Buffer(c))
               /\ Len(Buffer(c).array) = IF Tests(c) THEN Larger(Agreed(c).length, HeaderLen)
                                         ELSE HeaderLen
               /\ HeaderLen <= Len(Buffer(c).array)
         /\ HeaderLen <= Len(Buffer(Server).array)
<1>1. MTU \in Nat /\ HeaderLen \in Nat BY RoomOfHeader, ExchangeAssumption
<1>2. IsBuffer(Buffer(Server)) /\ Len(Buffer(Server).array) = Larger(MTU, HeaderLen)
  BY DEF Buffer, ListenerOK
<1>3. HeaderLen <= Len(Buffer(Server).array) BY <1>1, <1>2 DEF Larger
<1>4. ASSUME NEW c \in Clients
      PROVE  /\ IsBuffer(Buffer(c))
             /\ Len(Buffer(c).array) = IF Tests(c) THEN Larger(Agreed(c).length, HeaderLen)
                                       ELSE HeaderLen
             /\ HeaderLen <= Len(Buffer(c).array)
  <2>1. c # Server /\ Agreed(c).length \in Int BY AgreedFacts DEF ParamsType
  <2>2. Buffer(c) = client[c].recv BY <2>1 DEF Buffer
  <2>3. ClientOK(client[c], Agreed(c), setup[c].key, adjusted) BY DEF ClientsOK
  <2>4. /\ IsBuffer(client[c].recv)
        /\ Len(client[c].recv.array) = IF Tests(c) THEN Larger(Agreed(c).length, HeaderLen)
                                       ELSE HeaderLen
    BY <2>3 DEF ClientOK, Tests
  <2>5. HeaderLen <= Larger(Agreed(c).length, HeaderLen) BY <1>1, <2>1 DEF Larger
  <2> QED BY <1>1, <2>2, <2>4, <2>5
<1> QED BY <1>2, <1>3, <1>4

\* A datagram that is signed with its sender's key, and as long as its buffer at most.
Arrives(d, vals, load, fls) ==
  /\ Signed(d.bytes, vals, load, KeyOf(d.from), fls)
  /\ Len(d.bytes) <= Len(Buffer(d.to).array)

\* What arrives is taken if the keys are the same, and then its fields and load are there.
LEMMA ArrivesTaken ==
  ASSUME NEW d, IsBuffer(Buffer(d.to)), NEW vals, NEW load, NEW fls, Arrives(d, vals, load, fls),
         "hmac" \notin fls, "reply" \in fls <=> d.to # Server
  PROVE  /\ Accepted(d, Buffer(d.to)) <=> KeyOf(d.from) = KeyOf(d.to)
         /\ KeyOf(d.from) = KeyOf(d.to) =>
               /\ Taken(Received(d, Buffer(d.to)), BlankVals(vals, KeyOf(d.to)), load, KeyOf(d.to), fls)
               /\ Len(Received(d, Buffer(d.to)).array) = Len(Buffer(d.to).array)
<1> DEFINE key == KeyOf(d.to)
           b == Buffer(d.to)
<1>1. Accepted(d, b) <=> Valid(Loaded(d, b), key) /\ ("reply" \in FlagsOf(Loaded(d, b))) = (d.to # Server)
  BY DEF Accepted
<1>2. Loaded(d, b) = ReadFrom(b, d.bytes, key) /\ Received(d, b) = Validated(Loaded(d, b), key)
  BY DEF Loaded, Received
<1>3. Signed(d.bytes, vals, load, KeyOf(d.from), fls) /\ Len(d.bytes) <= Len(b.array)
  BY DEF Arrives
<1>4. IsBuffer(b) OBVIOUS
<1> HIDE DEF key, b
<1>5. CASE KeyOf(d.from) # key
  <2>1. ~Valid(ReadFrom(b, d.bytes, key), key) BY <1>3, <1>4, <1>5, Refusing
  <2> QED BY <1>1, <1>2, <1>5, <2>1 DEF key, b
<1>6. CASE KeyOf(d.from) = key
  <2> DEFINE p == ReadFrom(b, d.bytes, key)
  <2>1. /\ Valid(p, key) /\ FlagsOf(p) = fls \cup KeyFlag(key)
        /\ Taken(Validated(p, key), BlankVals(vals, key), load, key, fls)
        /\ Len(Validated(p, key).array) = Len(b.array)
    BY <1>3, <1>4, <1>6, Receiving
  <2> HIDE DEF p
  <2>2. "reply" \in FlagsOf(p) <=> d.to # Server BY <2>1 DEF KeyFlag
  <2>3. ("reply" \in FlagsOf(p)) = (d.to # Server) BY <2>2
  <2>4. Loaded(d, b) = p BY <1>2 DEF p
  <2>5. Accepted(d, b) BY <1>1, <2>1, <2>3, <2>4
  <2>6. Received(d, b) = Validated(p, key) BY <1>2, <2>4
  <2> QED BY <1>6, <2>1, <2>5, <2>6 DEF key, b
<1> QED BY <1>5, <1>6

\* Types of what is signed.
LEMMA SignedLen ==
  ASSUME NEW bytes, NEW vals, NEW load, NEW key, NEW fls, Signed(bytes, vals, load, key, fls)
  PROVE  /\ AnySeq(bytes) /\ Len(bytes) = Room(DOMAIN vals) + Len(load)
         /\ DOMAIN vals \in SUBSET Fields /\ Room(DOMAIN vals) \in Nat /\ Len(load) \in Nat
         /\ finit(key) \in SUBSET DOMAIN vals
  BY LayFacts DEF Signed

\* The HMAC is blank in what was received, the other fields are as they were.
LEMMA BlankKeeps ==
  ASSUME NEW vals, NEW key, finit(key) \in SUBSET DOMAIN vals
  PROVE  /\ DOMAIN BlankVals(vals, key) = DOMAIN vals
         /\ \A f \in DOMAIN vals : f # fHMAC => BlankVals(vals, key)[f] = vals[f]
<1>1. key # NoKey => fHMAC \in finit(key) BY DEF finit
<1> QED BY <1>1 DEF BlankVals, With

\* An open request arrives, and is heard as what was asked.
LEMMA OpenSentArrives ==
  ASSUME ListenerOK, ClientsOK, NEW d, OpenSent(d)
  PROVE  \E vals : /\ DOMAIN vals = finit(KeyOf(d.from)) /\ vals[fMagic] = Magic
                   /\ Arrives(d, vals, Encoded(setup[d.from].asked), {"open"})
<1> DEFINE key == setup[d.from].key
           asked == setup[d.from].asked
<1>1. PICK vals : DOMAIN vals = finit(key) /\ Signed(d.bytes, vals, Encoded(asked), key, {"open"})
  BY DEF OpenSent, IsSigned
<1>2. KeyOf(d.from) = key /\ d.to = Server BY AgreedFacts DEF OpenSent
<1> HIDE DEF key, asked
<1>3. Len(d.bytes) = Room(finit(key)) + Len(Encoded(asked)) BY <1>1, SignedLen
<1>4. Len(d.bytes) <= HeaderLen
  <2>1. finit(key) \in SUBSET (finit(key) \cup {fConnToken}) OBVIOUS
  <2> QED BY <1>3, <2>1, EncodedFits
<1>5. Len(d.bytes) <= Len(Buffer(d.to).array)
  BY <1>1, <1>2, <1>4, BufferFacts, RoomOfHeader, SignedLen, ExchangeAssumption DEF Larger
<1>6. vals[fMagic] = Magic BY <1>1 DEF Signed
<1> QED BY <1>1, <1>2, <1>5, <1>6 DEF Arrives, key, asked

\* And is heard as it was meant.
LEMMA OpenSentHeard ==
  ASSUME ListenerOK, ClientsOK, NEW d, OpenSent(d), KeyOf(d.from) = KeyOf(d.to)
  PROVE  Heard(d) = d.meant
<1> DEFINE key == KeyOf(d.to)
           asked == setup[d.from].asked
           p == Received(d, Buffer(d.to))
<1>1. PICK vals : /\ DOMAIN vals = finit(key) /\ Arrives(d, vals, Encoded(asked), {"open"})
  BY OpenSentArrives
<1>2. d.to = Server /\ d.meant = OpenMeans(asked) /\ asked \in ParamsType
  BY AgreedFacts DEF OpenSent
<1>3. Taken(p, BlankVals(vals, key), Encoded(asked), key, {"open"})
  <2>1. IsBuffer(Buffer(d.to)) BY <1>2, BufferFacts
  <2>2. "reply" \in {"open"} <=> d.to # Server BY <1>2
  <2> QED BY <1>1, <2>1, <2>2, ArrivesTaken
<1>4. Heard(d) = HeardByServer(p) BY <1>2 DEF Heard, ToServer
<1> HIDE DEF key, asked, p
<1>5. DOMAIN BlankVals(vals, key) = finit(key) BY <1>1, BlankKeeps
<1> QED BY <1>2, <1>3, <1>4, <1>5, OpenHeard

\* An echo request arrives, as what is granted fits into the listener's packet.
LEMMA EchoSentArrives ==
  ASSUME ListenerOK, ClientsOK, GrantsFit, NEW d, EchoSent(d)
  PROVE  \E n, vals, load :
            /\ d.meant = EchoMeans(client[d.from].token, n)
            /\ EchoBytes(d.bytes, vals, load, Agreed(d.from), client[d.from].token, n, KeyOf(d.from))
            /\ Arrives(d, vals, load, {})
<1> DEFINE params == Agreed(d.from)
           key == setup[d.from].key
           token == client[d.from].token
<1>1. PICK n, vals, load : /\ d.meant = EchoMeans(token, n)
                           /\ EchoBytes(d.bytes, vals, load, params, token, n, key)
  BY DEF EchoSent
<1>2. KeyOf(d.from) = key /\ d.to = Server /\ params \in ParamsType /\ params.length <= MTU
  BY AgreedFacts DEF EchoSent
<1>3. params.length \in Int BY <1>2 DEF ParamsType
<1> HIDE DEF key, params, token
<1>4. /\ Signed(d.bytes, vals, load, key, {}) /\ DOMAIN vals = TestFields(params, key)
      /\ Room(DOMAIN vals) + Len(load) = Larger(params.length, Room(DOMAIN vals))
  BY <1>1 DEF EchoBytes
<1>5. /\ Len(d.bytes) = Larger(params.length, Room(DOMAIN vals))
      /\ Room(DOMAIN vals) \in Nat /\ Room(DOMAIN vals) <= HeaderLen
  BY <1>4, SignedLen, RoomOfHeader
<1>6. Len(d.bytes) <= Len(Buffer(d.to).array)
  BY <1>2, <1>3, <1>5, BufferFacts, RoomOfHeader, ExchangeAssumption DEF Larger
<1> QED BY <1>1, <1>2, <1>4, <1>6 DEF Arrives, params, key, token

\* What the listener has of an echo request that it takes.
LEMMA EchoSentTaken ==
  ASSUME ListenerOK, ClientsOK, GrantsFit, NEW d, EchoSent(d), KeyOf(d.from) = KeyOf(d.to)
  PROVE  \E n, vals, load :
            /\ d.meant = EchoMeans(client[d.from].token, n)
            /\ EchoBytes(d.bytes, vals, load, Agreed(d.from), client[d.from].token, n, serving.key)
            /\ Taken(Received(d, packet), BlankVals(vals, serving.key), load, serving.key, {})
            /\ Len(Received(d, packet).array) = Len(packet.array)
<1> DEFINE token == client[d.from].token
<1>1. PICK n, vals, load :
         /\ d.meant = EchoMeans(token, n)
         /\ EchoBytes(d.bytes, vals, load, Agreed(d.from), token, n, KeyOf(d.from))
         /\ Arrives(d, vals, load, {})
  BY EchoSentArrives
<1>2. d.to = Server /\ Buffer(d.to) = packet /\ KeyOf(d.to) = serving.key
  BY DEF EchoSent, Buffer, KeyOf
<1>3. IsBuffer(Buffer(d.to)) BY <1>2, BufferFacts
<1>4. "reply" \in {} <=> d.to # Server BY <1>2
<1> QED BY <1>1, <1>2, <1>3, <1>4, ArrivesTaken

\* Fields of an echo request, as it is received.
LEMMA EchoBytesRead ==
  ASSUME NEW bytes, NEW vals, NEW load, NEW params \in ParamsType, NEW token, NEW n, NEW key,
         EchoBytes(bytes, vals, load, params, token, n, key)
  PROVE  LET w == BlankVals(vals, key)
         IN  /\ DOMAIN w = TestFields(params, key) /\ w[fMagic] = Magic
             /\ w[fConnToken] = Num("token", token) /\ w[fSeqno] = Num("seqno", n)
<1>1. /\ Signed(bytes, vals, load, key, {}) /\ DOMAIN vals = TestFields(params, key)
      /\ vals[fConnToken] = Num("token", token) /\ vals[fSeqno] = Num("seqno", n)
  BY DEF EchoBytes
<1>2. fConnToken \in DOMAIN vals /\ fSeqno \in DOMAIN vals /\ fMagic \in DOMAIN vals
  BY <1>1, FinitFacts, RequestFields
<1>3. vals[fMagic] = Magic /\ finit(key) \in SUBSET DOMAIN vals BY <1>1 DEF Signed
<1> QED BY <1>1, <1>2, <1>3, BlankKeeps DEF fHMAC, fConnToken, fSeqno, fMagic

\* It is heard as it was meant.
LEMMA EchoSentHeard ==
  ASSUME ListenerOK, ClientsOK, GrantsFit, NEW d, EchoSent(d), KeyOf(d.from) = KeyOf(d.to)
  PROVE  Heard(d) = d.meant
<1> DEFINE params == Agreed(d.from)
           token == client[d.from].token
           p == Received(d, packet)
           key == serving.key
<1>1. PICK n, vals, load :
         /\ d.meant = EchoMeans(token, n)
         /\ EchoBytes(d.bytes, vals, load, params, token, n, key)
         /\ Taken(p, BlankVals(vals, key), load, key, {})
  BY EchoSentTaken
<1>2. params \in ParamsType BY AgreedFacts DEF EchoSent
<1>3. Heard(d) = HeardByServer(p) BY DEF Heard, ToServer, EchoSent, Buffer
<1> HIDE DEF params, token, p, key
<1> DEFINE w == BlankVals(vals, key)
<1>4. /\ DOMAIN w = TestFields(params, key)
      /\ w[fConnToken] = Num("token", token) /\ w[fSeqno] = Num("seqno", n)
  BY <1>1, <1>2, EchoBytesRead
<1> HIDE DEF w
<1>5. Taken(p, w, load, key, {}) BY <1>1 DEF w
<1> QED BY <1>1, <1>2, <1>3, <1>4, <1>5, EchoHeard

\* A close request arrives.
LEMMA CloseSentArrives ==
  ASSUME ListenerOK, ClientsOK, NEW d, CloseSent(d)
  PROVE  \E vals : /\ DOMAIN vals = fRequest \cup finit(KeyOf(d.from))
                   /\ vals[fConnToken] = Num("token", client[d.from].token)
                   /\ Arrives(d, vals, <<>>, {"close"})
<1> DEFINE key == setup[d.from].key
           token == client[d.from].token
<1>1. PICK vals : /\ DOMAIN vals = fRequest \cup finit(key) /\ vals[fConnToken] = Num("token", token)
                  /\ Signed(d.bytes, vals, <<>>, key, {"close"})
  BY DEF CloseSent, IsSignedFor
<1>2. KeyOf(d.from) = key /\ d.to = Server BY AgreedFacts DEF CloseSent
<1> HIDE DEF key, token
<1>3. Len(d.bytes) = Room(DOMAIN vals) /\ Room(DOMAIN vals) <= HeaderLen
  <2>1. Len(d.bytes) = Room(DOMAIN vals) + Len(<<>>) /\ DOMAIN vals \in SUBSET Fields
        /\ Room(DOMAIN vals) \in Nat
    BY <1>1, SignedLen
  <2> QED BY <2>1, RoomOfHeader, OneOrNone
<1>4. Len(d.bytes) <= Len(Buffer(d.to).array)
  BY <1>1, <1>2, <1>3, BufferFacts, RoomOfHeader, SignedLen, ExchangeAssumption DEF Larger
<1> QED BY <1>1, <1>2, <1>4 DEF Arrives, key, token

\* And is heard as it was meant.
LEMMA CloseSentHeard ==
  ASSUME ListenerOK, ClientsOK, NEW d, CloseSent(d), KeyOf(d.from) = KeyOf(d.to)
  PROVE  Heard(d) = d.meant
<1> DEFINE key == KeyOf(d.to)
           token == client[d.from].token
           p == Received(d, Buffer(d.to))
<1>1. PICK vals : /\ DOMAIN vals = fRequest \cup finit(key) /\ vals[fConnToken] = Num("token", token)
                  /\ Arrives(d, vals, <<>>, {"close"})
  BY CloseSentArrives
<1>2. d.to = Server /\ d.meant = CloseMeans(token) BY DEF CloseSent
<1>3. Taken(p, BlankVals(vals, key), <<>>, key, {"close"})
  <2>1. IsBuffer(Buffer(d.to)) BY <1>2, BufferFacts
  <2>2. "reply" \in {"close"} <=> d.to # Server BY <1>2
  <2> QED BY <1>1, <2>1, <2>2, ArrivesTaken
<1>4. Heard(d) = HeardByServer(p) BY <1>2 DEF Heard, ToServer
<1> HIDE DEF key, token, p
<1> DEFINE w == BlankVals(vals, key)
<1>5. DOMAIN w = fRequest \cup finit(key) /\ w[fConnToken] = Num("token", token)
  <2>1. fConnToken \in DOMAIN vals /\ fConnToken # fHMAC
    BY <1>1, FieldNames DEF fRequest, fConnToken, fHMAC
  <2>2. finit(key) \in SUBSET DOMAIN vals BY <1>1
  <2> QED BY <1>1, <2>1, <2>2, BlankKeeps
<1> HIDE DEF w
<1>6. Taken(p, w, <<>>, key, {"close"}) BY <1>3 DEF w
<1> QED BY <1>2, <1>4, <1>5, <1>6, CloseHeard

\* An open reply arrives.
LEMMA OpenedArrives ==
  ASSUME ListenerOK, ClientsOK, NEW d, Opened(d)
  PROVE  \E t, vals :
            /\ d.meant = OpenReplyMeans(t, Agreed(d.to))
            /\ client[d.to].pc # "closed" => Connects(d.to, t)
            /\ DOMAIN vals = finit(serving.key) \cup {fConnToken}
            /\ vals[fConnToken] = Num("token", t)
            /\ Arrives(d, vals, Encoded(Agreed(d.to)), {"open", "reply"})
<1> DEFINE key == serving.key
           params == Agreed(d.to)
<1>1. PICK t : /\ d.meant = OpenReplyMeans(t, params)
               /\ IsSignedFor(d.bytes, t, finit(key) \cup {fConnToken}, Encoded(params), key,
                              {"open", "reply"})
               /\ client[d.to].pc # "closed" => Connects(d.to, t)
  BY DEF Opened
<1>2. PICK vals : /\ DOMAIN vals = finit(key) \cup {fConnToken}
                  /\ vals[fConnToken] = Num("token", t)
                  /\ Signed(d.bytes, vals, Encoded(params), key, {"open", "reply"})
  BY <1>1 DEF IsSignedFor
<1>3. d.from = Server /\ d.to \in Clients /\ KeyOf(d.from) = key
  BY AgreedFacts DEF Opened
<1> HIDE DEF key, params
<1>4. Len(d.bytes) <= HeaderLen
  <2>1. DOMAIN vals \in SUBSET (finit(key) \cup {fConnToken}) BY <1>2
  <2> QED BY <1>2, <2>1, SignedLen, EncodedFits
<1>5. Len(d.bytes) <= Len(Buffer(d.to).array)
  <2>1. Len(d.bytes) \in Nat /\ Len(Buffer(d.to).array) \in Nat
    BY <1>2, <1>3, SignedLen, SeqFacts, BufferFacts DEF IsBuffer
  <2> QED BY <1>3, <1>4, <2>1, BufferFacts, RoomOfHeader
<1> QED BY <1>1, <1>2, <1>3, <1>5 DEF Arrives, key, params

\* And is heard as it was meant.
LEMMA OpenedIsHeard ==
  ASSUME ListenerOK, ClientsOK, NEW d, Opened(d)
  PROVE  Heard(d) = d.meant
<1> DEFINE key == KeyOf(d.to)
           params == Agreed(d.to)
           p == Received(d, Buffer(d.to))
<1>1. /\ d.from = Server /\ d.to \in Clients /\ d.to # Server /\ KeyOf(d.from) = KeyOf(d.to)
      /\ key = serving.key /\ params \in ParamsType
  BY AgreedFacts DEF Opened
<1>2. PICK t, vals :
         /\ d.meant = OpenReplyMeans(t, params)
         /\ DOMAIN vals = finit(key) \cup {fConnToken} /\ vals[fConnToken] = Num("token", t)
         /\ Arrives(d, vals, Encoded(params), {"open", "reply"})
  BY <1>1, OpenedArrives
<1>3. Taken(p, BlankVals(vals, key), Encoded(params), key, {"open", "reply"})
  <2>1. IsBuffer(Buffer(d.to)) BY <1>1, BufferFacts
  <2>2. "reply" \in {"open", "reply"} <=> d.to # Server BY <1>1
  <2> QED BY <1>1, <1>2, <2>1, <2>2, ArrivesTaken
<1>4. Heard(d) = HeardByClient(p, client[d.to].params) BY <1>1 DEF Heard, ToServer
<1> HIDE DEF key, params, p
<1> DEFINE w == BlankVals(vals, key)
<1>5. DOMAIN w = finit(key) \cup {fConnToken} /\ w[fConnToken] = Num("token", t)
  <2>1. fConnToken \in DOMAIN vals /\ fConnToken # fHMAC BY <1>2 DEF fConnToken, fHMAC
  <2>2. finit(key) \in SUBSET DOMAIN vals BY <1>2
  <2> QED BY <1>2, <2>1, <2>2, BlankKeeps
<1> HIDE DEF w
<1>6. Taken(p, w, Encoded(params), key, {"open", "reply"}) BY <1>3 DEF w
<1> QED BY <1>1, <1>2, <1>4, <1>5, <1>6, OpenedHeard

\* A reply arrives, as the client's buffer is as long as what is agreed.
LEMMA RepliedArrives ==
  ASSUME ListenerOK, ClientsOK, NEW d, Replied(d)
  PROVE  \E n, count, ts, vals, l :
            /\ d.meant = ReplySays(client[d.to].token, n, Agreed(d.to), count, ts)
            /\ Plain(Agreed(d.to)) =>
                  /\ Timely(ts, Agreed(d.to), d.reply.came, d.reply.left, adjusted)
                  /\ DOMAIN vals = TestFields(Agreed(d.to), serving.key)
                  /\ ReplyVals(vals, Agreed(d.to), client[d.to].token, n, count, ts)
                  /\ l = d.reply.payload
            /\ Arrives(d, vals, l, {"reply"})
<1> DEFINE key == serving.key
           params == Agreed(d.to)
           token == client[d.to].token
<1>1. PICK n, count, ts :
         /\ d.meant = ReplySays(token, n, params, count, ts)
         /\ ReplyBytes(d.bytes, params, token, n, count, ts, d.reply.payload, key)
         /\ Plain(params) => Timely(ts, params, d.reply.came, d.reply.left, adjusted)
  BY DEF Replied, ReplyTo
<1>2. PICK vals, l :
         /\ Signed(d.bytes, vals, l, key, {"reply"})
         /\ Len(d.bytes) <= Larger(params.length, HeaderLen)
         /\ Stamped(ts, params) =>
               /\ DOMAIN vals = TestFields(params, key) /\ ReplyVals(vals, params, token, n, count, ts)
               /\ l = d.reply.payload
  BY <1>1 DEF ReplyBytes
<1>3. d.to \in Clients /\ KeyOf(d.from) = key /\ Tests(d.to) BY AgreedFacts DEF Replied
<1>4. Len(Buffer(d.to).array) = Larger(params.length, HeaderLen) BY <1>3, BufferFacts
<1>5. Arrives(d, vals, l, {"reply"}) BY <1>2, <1>3, <1>4 DEF Arrives
<1>6. Plain(params) => Stamped(ts, params) BY <1>1 DEF Timely
<1> HIDE DEF key, params, token
<1>7. Plain(params) =>
         /\ Timely(ts, params, d.reply.came, d.reply.left, adjusted)
         /\ DOMAIN vals = TestFields(params, key)
         /\ ReplyVals(vals, params, token, n, count, ts)
         /\ l = d.reply.payload
  BY <1>1, <1>2, <1>6
<1> QED BY <1>1, <1>5, <1>7 DEF key, params, token

\* How long packets are makes no difference to what their fields say.
LEMMA HeardAnyLength ==
  ASSUME NEW params \in ParamsType, NEW n, NEW p
  PROVE  LET longer == [params EXCEPT !.length = n]
         IN  /\ HeardByClient(p, longer) = HeardByClient(p, params)
             /\ \A key : TestFields(longer, key) = TestFields(params, key)
             /\ longer.stamp = params.stamp /\ longer.clock = params.clock
<1> DEFINE longer == [params EXCEPT !.length = n]
<1>1. longer.stats = params.stats /\ longer.stamp = params.stamp /\ longer.clock = params.clock
  BY DEF ParamsType
<1> HIDE DEF longer
<1>2. AsReply(p, longer) = AsReply(p, params) BY <1>1 DEF AsReply
<1>3. HeardByClient(p, longer) = HeardByClient(p, params) BY <1>2 DEF HeardByClient
<1>4. \A key : TestFields(longer, key) = TestFields(params, key) BY <1>1 DEF TestFields
<1> QED BY <1>1, <1>3, <1>4 DEF longer

\* Blanking the HMAC leaves the fields of a reply alone.
LEMMA ReplyFieldsKeep ==
  ASSUME NEW vals, NEW params \in ParamsType, NEW token, NEW n, NEW count, NEW ts, NEW key,
         DOMAIN vals = TestFields(params, key), ReplyVals(vals, params, token, n, count, ts)
  PROVE  ReplyVals(BlankVals(vals, key), params, token, n, count, ts)
<1> DEFINE w == BlankVals(vals, key)
<1>1. /\ StatsFields(params.stats) \in SUBSET {6, 7}
      /\ StampFields(params.stamp, params.clock) \in SUBSET (8 .. 13)
  BY TestFieldsAre
<1>2. /\ fConnToken \in fechoRequest /\ fSeqno \in fechoRequest
      /\ finit(key) \cup fechoRequest \in SUBSET DOMAIN vals
  BY RequestFields
<1>3. \A f \in DOMAIN vals : f # fHMAC => w[f] = vals[f] BY <1>2, BlankKeeps
<1>4. /\ StatsFields(params.stats) \in SUBSET DOMAIN vals
      /\ StampFields(params.stamp, params.clock) \in SUBSET DOMAIN vals
  BY DEF TestFields
<1> HIDE DEF w
<1>5. fHMAC \notin StatsFields(params.stats) /\ fHMAC \notin StampFields(params.stamp, params.clock)
      /\ fConnToken # fHMAC /\ fSeqno # fHMAC
  BY <1>1 DEF fHMAC, fConnToken, fSeqno
<1>6. w[fConnToken] = vals[fConnToken] /\ w[fSeqno] = vals[fSeqno] BY <1>2, <1>3, <1>5
<1>7. /\ \A f \in StatsFields(params.stats) : w[f] = vals[f]
      /\ \A f \in StampFields(params.stamp, params.clock) : w[f] = vals[f]
  BY <1>3, <1>4, <1>5
<1>8. ReplyVals(w, params, token, n, count, ts) BY <1>6, <1>7 DEF ReplyVals
<1> QED BY <1>8 DEF w

\* What a client that tests has.
LEMMA ClientTests ==
  ASSUME ClientsOK, NEW c \in Clients, Tests(c)
  PROVE  /\ client[c].params =
              [Agreed(c) EXCEPT !.length = Larger(Agreed(c).length, Room(TestFields(Agreed(c), setup[c].key)))]
         /\ Echoes(client[c].send, Agreed(c), client[c].token, client[c].seqno, setup[c].key)
         /\ setup[c].key = serving.key
  BY DEF ClientsOK, ClientOK, Tests

\* A reply is heard as it was meant, if the stamps are plain.
LEMMA RepliedHeard ==
  ASSUME ListenerOK, ClientsOK, NEW d, Replied(d), Plain(Agreed(d.to))
  PROVE  Heard(d) = d.meant
<1> DEFINE key == KeyOf(d.to)
           params == Agreed(d.to)
           token == client[d.to].token
           p == Received(d, Buffer(d.to))
<1>1. /\ d.from = Server /\ d.to \in Clients /\ d.to # Server /\ KeyOf(d.from) = KeyOf(d.to)
      /\ key = serving.key /\ params \in ParamsType /\ Plain(params) /\ Tests(d.to)
  BY AgreedFacts DEF Replied
<1>2. PICK n, count, ts, vals, l :
         /\ d.meant = ReplySays(token, n, params, count, ts)
         /\ Timely(ts, params, d.reply.came, d.reply.left, adjusted)
         /\ DOMAIN vals = TestFields(params, key)
         /\ ReplyVals(vals, params, token, n, count, ts)
         /\ Arrives(d, vals, l, {"reply"})
  BY <1>1, RepliedArrives
<1>3. Taken(p, BlankVals(vals, key), l, key, {"reply"})
  <2>1. IsBuffer(Buffer(d.to)) BY <1>1, BufferFacts
  <2>2. "reply" \in {"reply"} <=> d.to # Server BY <1>1
  <2> QED BY <1>1, <1>2, <2>1, <2>2, ArrivesTaken
<1>4. Heard(d) = HeardByClient(p, params)
  <2>1. Heard(d) = HeardByClient(p, client[d.to].params) BY <1>1 DEF Heard, ToServer
  <2>2. client[d.to].params =
           [params EXCEPT !.length = Larger(params.length, Room(TestFields(params, setup[d.to].key)))]
    BY <1>1, ClientTests
  <2> HIDE DEF params, p
  <2> QED BY <1>1, <2>1, <2>2, HeardAnyLength
<1>5. Stamped(ts, params) BY <1>2 DEF Timely
<1> HIDE DEF key, params, token, p
<1> DEFINE w == BlankVals(vals, key)
<1>6. DOMAIN w = TestFields(params, key) /\ ReplyVals(w, params, token, n, count, ts)
  <2>1. finit(key) \in SUBSET DOMAIN vals BY <1>1, <1>2, RequestFields
  <2> QED BY <1>1, <1>2, <2>1, BlankKeeps, ReplyFieldsKeep
<1> HIDE DEF w
<1>7. Taken(p, w, l, key, {"reply"}) BY <1>3 DEF w
<1>8. HeardByClient(p, params) = ReplySays(token, n, params, count, ts)
  BY <1>1, <1>5, <1>6, <1>7, ReplyHeard DEF ReplySays, ReplyCount
<1> QED BY <1>2, <1>4, <1>8

-----------------------------------------------------------------------------
(* What is taken *)

\* Whatever was sent arrives.
LEMMA SentArrives ==
  ASSUME ListenerOK, ClientsOK, NetOK, GrantsFit, NEW d \in net
  PROVE  \E vals, load, fls : /\ Arrives(d, vals, load, fls) /\ "hmac" \notin fls
                              /\ "reply" \in fls <=> d.to # Server
                              /\ "open" \in fls <=> d.meant.kind \in {"open", "opened"}
<1>1. OpenSent(d) \/ EchoSent(d) \/ CloseSent(d) \/ Opened(d) \/ Replied(d) BY DEF NetOK, Sent
<1> DEFINE Goal(fls) == /\ "hmac" \notin fls /\ "reply" \in fls <=> d.to # Server
                        /\ "open" \in fls <=> d.meant.kind \in {"open", "opened"}
<1>2. CASE OpenSent(d)
  <2>1. PICK vals : Arrives(d, vals, Encoded(setup[d.from].asked), {"open"}) BY <1>2, OpenSentArrives
  <2>2. Goal({"open"}) BY <1>2 DEF OpenSent, OpenMeans
  <2> QED BY <2>1, <2>2
<1>3. CASE EchoSent(d)
  <2>1. PICK vals, load : Arrives(d, vals, load, {}) BY <1>3, EchoSentArrives
  <2>2. Goal({}) BY <1>3 DEF EchoSent, EchoMeans
  <2> QED BY <2>1, <2>2
<1>4. CASE CloseSent(d)
  <2>1. PICK vals : Arrives(d, vals, <<>>, {"close"}) BY <1>4, CloseSentArrives
  <2>2. Goal({"close"}) BY <1>4 DEF CloseSent, CloseMeans
  <2> QED BY <2>1, <2>2
<1>5. CASE Opened(d)
  <2>1. PICK vals : Arrives(d, vals, Encoded(Agreed(d.to)), {"open", "reply"}) BY <1>5, OpenedArrives
  <2>2. Goal({"open", "reply"}) BY <1>5, AgreedFacts DEF Opened, OpenReplyMeans
  <2> QED BY <2>1, <2>2
<1>6. CASE Replied(d)
  <2>1. PICK vals, l : Arrives(d, vals, l, {"reply"}) BY <1>6, RepliedArrives
  <2>2. Goal({"reply"}) BY <1>6, AgreedFacts DEF Replied, ReplyTo, ReplySays, ReplyMeans
  <2> QED BY <2>1, <2>2
<1> QED BY <1>1, <1>2, <1>3, <1>4, <1>5, <1>6

\* A datagram is for a client or for the server.
LEMMA HostOf ==
  ASSUME NetOK, NEW d \in net
  PROVE  d.to \in Clients \cup {Server}
  BY DEF NetOK, Sent, OpenSent, EchoSent, CloseSent, Opened, Replied

\* The keys decide of every datagram, and what is taken is open if it was meant so.
LEMMA AcceptedKeys ==
  ASSUME ListenerOK, ClientsOK, NetOK, GrantsFit, NEW d \in net
  PROVE  /\ Accepted(d, Buffer(d.to)) <=> KeyOf(d.from) = KeyOf(d.to)
         /\ Accepted(d, Buffer(d.to)) =>
              ("open" \in FlagsOf(Received(d, Buffer(d.to))) <=> d.meant.kind \in {"open", "opened"})
<1>1. PICK vals, load, fls : /\ Arrives(d, vals, load, fls) /\ "hmac" \notin fls
                             /\ "reply" \in fls <=> d.to # Server
                             /\ "open" \in fls <=> d.meant.kind \in {"open", "opened"}
  BY SentArrives
<1>2. IsBuffer(Buffer(d.to)) BY HostOf, BufferFacts
<1>3. Accepted(d, Buffer(d.to)) <=> KeyOf(d.from) = KeyOf(d.to) BY <1>1, <1>2, ArrivesTaken
<1>4. Accepted(d, Buffer(d.to)) =>
         FlagsOf(Received(d, Buffer(d.to))) = fls \cup KeyFlag(KeyOf(d.to))
  BY <1>1, <1>2, ArrivesTaken, TakenFacts
<1> QED BY <1>1, <1>3, <1>4 DEF KeyFlag

\* What the server takes is a client's, and heard as it was meant.
LEMMA AtServer ==
  ASSUME ListenerOK, ClientsOK, NetOK, GrantsFit, NEW d \in net, ToServer(d), Accepted(d, packet)
  PROVE  /\ KeyOf(d.from) = KeyOf(d.to) /\ setup[d.from].key = serving.key
         /\ Heard(d) = d.meant /\ d.from \in Clients
         /\ Heard(d).kind = "open" => OpenSent(d)
         /\ Heard(d).kind = "echo" => EchoSent(d)
         /\ Heard(d).kind = "close" => CloseSent(d)
<1>1. OpenSent(d) \/ EchoSent(d) \/ CloseSent(d)
  BY AgreedFacts DEF NetOK, Sent, ToServer, Opened, Replied
<1>2. d.to = Server /\ Buffer(d.to) = packet BY DEF ToServer, Buffer
<1>3. KeyOf(d.from) = KeyOf(d.to) BY <1>2, AcceptedKeys
<1>4. Heard(d) = d.meant BY <1>1, <1>3, OpenSentHeard, EchoSentHeard, CloseSentHeard
<1>5. d.from \in Clients BY <1>1 DEF OpenSent, EchoSent, CloseSent
<1>6. setup[d.from].key = serving.key BY <1>2, <1>3, <1>5, AgreedFacts
<1>7. OpenSent(d) => d.meant.kind = "open" BY DEF OpenSent, OpenMeans
<1>8. EchoSent(d) => d.meant.kind = "echo" BY DEF EchoSent, EchoMeans
<1>9. CloseSent(d) => d.meant.kind = "close" BY DEF CloseSent, CloseMeans
<1> QED BY <1>1, <1>3, <1>4, <1>5, <1>6, <1>7, <1>8, <1>9

\* And what a client takes is the server's.
LEMMA AtClient ==
  ASSUME ListenerOK, ClientsOK, NetOK, GrantsFit, NEW d \in net, ~ToServer(d),
         Accepted(d, Buffer(d.to))
  PROVE  /\ d.to \in Clients
         /\ Heard(d).kind = "opened" => Opened(d) /\ Heard(d) = d.meant
         /\ Heard(d).kind = "reply" => Replied(d)
<1>1. Opened(d) \/ Replied(d) BY DEF NetOK, Sent, ToServer, OpenSent, EchoSent, CloseSent
<1>2. d.to \in Clients /\ d.to # Server BY <1>1, AgreedFacts DEF Opened, Replied
<1>3. Opened(d) => Heard(d) = d.meant /\ d.meant.kind = "opened"
  BY OpenedIsHeard DEF Opened, OpenReplyMeans
<1>4. ASSUME Replied(d) PROVE Heard(d).kind = "reply"
  <2>1. d.meant.kind = "reply" BY <1>4 DEF Replied, ReplyTo, ReplySays, ReplyMeans
  <2>2. "open" \notin FlagsOf(Received(d, Buffer(d.to))) BY <2>1, AcceptedKeys
  <2> QED BY <1>2, <2>2 DEF Heard, ToServer, HeardByClient, ReplyMeans
<1> QED BY <1>1, <1>2, <1>3, <1>4

-----------------------------------------------------------------------------
(* The first state *)

\* A new client.
LEMMA NewClientOK ==
  ASSUME NEW c, NEW params, NEW key, NEW upto, Init
  PROVE  ClientOK(NewClient(c), params, key, upto) /\ NewClient(c).pc = "new"
<1> DEFINE me == NewClient(c)
           recv == NewPacket(HeaderLen, setup[c].key)
<1>1. HeaderLen \in Int BY RoomOfHeader
<1>2. IsBuffer(recv) /\ Len(recv.array) = Larger(HeaderLen, HeaderLen)
  BY <1>1, NewPacketIs DEF Snug, Holds
<1>3. Len(recv.array) = HeaderLen BY <1>2 DEF Larger
<1>4. /\ IsClient(me)
      /\ me.pc = "new" /\ me.recv = recv /\ me.seqno = 0 /\ me.sent = <<>>
      /\ me.rtds = [n \in {} |-> 0]
  BY DEF NewClient, IsClient
<1> HIDE DEF recv, me
<1>5. me.sent \in Seq(Nat) /\ Len(me.sent) = 0 BY <1>4
<1>6. DOMAIN me.rtds = {} BY <1>4
<1>7. ClientOK(me, params, key, upto) BY <1>2, <1>3, <1>4, <1>5, <1>6 DEF ClientOK
<1> QED BY <1>4, <1>7 DEF me

\* The invariant holds at first.
LEMMA InitOK == Init => Inv
<1> SUFFICES ASSUME Init PROVE Inv OBVIOUS
<1>1. MTU \in Int BY ExchangeAssumption
<1>2. ListenerOK
  <2>1. IsBuffer(packet) /\ Len(packet.array) = Larger(MTU, HeaderLen)
    BY <1>1, NewPacketIs DEF Init, Snug, Holds
  <2> QED BY <2>1 DEF ListenerOK, Init
<1>3. ConnsOK BY DEF ConnsOK, Init
<1>4. ClientsOK
  <2>1. \A c \in Clients : client[c] = NewClient(c) BY DEF Init
  <2>2. DOMAIN client = Clients BY DEF Init
  <2> SUFFICES ASSUME NEW c \in Clients
               PROVE  /\ ClientOK(client[c], Agreed(c), setup[c].key, adjusted)
                      /\ Tests(c) => setup[c].key = serving.key
                      /\ client[c].pc = "test" => Connects(c, client[c].token)
    BY <2>2 DEF ClientsOK
  <2>3. ClientOK(client[c], Agreed(c), setup[c].key, adjusted) /\ client[c].pc = "new"
    BY <2>1, NewClientOK
  <2> QED BY <2>3 DEF Tests
<1>5. NetOK BY DEF NetOK, Init
<1> QED BY <1>2, <1>3, <1>4, <1>5 DEF Inv

-----------------------------------------------------------------------------
(* Steps *)

\* What was sent to or by a client stays as it is while this holds of it.
Continues(c) ==
  /\ Tests(c) => Tests(c)' /\ client'[c].token = client[c].token
  /\ client[c].pc = "closed" => client'[c].pc = "closed"
  /\ client'[c].pc # "closed" => \A t : Connects(c, t) => Connects(c, t)'

\* Times stay true when the clock is put forward further.
LEMMA TimelyLater ==
  ASSUME NEW ts, NEW params, NEW came, NEW left, NEW m \in Nat, NEW n \in Nat, m <= n,
         Timely(ts, params, came, left, m)
  PROVE  Timely(ts, params, came, left, n)
  BY DEF Timely

\* So does a reply.
LEMMA ReplyLater ==
  ASSUME NEW d, NEW token, NEW params, NEW key, NEW m \in Nat, NEW n \in Nat, m <= n,
         ReplyTo(d, token, params, key, m)
  PROVE  ReplyTo(d, token, params, key, n)
  BY TimelyLater DEF ReplyTo

\* What was sent stays as it is while its clients continue.
LEMMA DatagramStays ==
  ASSUME scenario' = scenario, adjusted \in Nat, adjusted' \in Nat, adjusted <= adjusted',
         \A c \in Clients : Continues(c), NEW d, Sent(d)
  PROVE  Sent(d)'
<1>1. /\ Clients' = Clients /\ setup' = setup /\ serving' = serving
      /\ \A c \in Clients : Agreed(c)' = Agreed(c)
  BY DEF Clients, setup, serving, Agreed
<1>2. CASE OpenSent(d)
  <2>1. OpenSent(d)' BY <1>1, <1>2 DEF OpenSent
  <2> QED BY <2>1 DEF Sent
<1>3. CASE EchoSent(d)
  <2>1. Continues(d.from) BY <1>3 DEF EchoSent
  <2>2. EchoSent(d)' BY <1>1, <1>3, <2>1 DEF EchoSent, Continues
  <2> QED BY <2>2 DEF Sent
<1>4. CASE CloseSent(d)
  <2>1. Continues(d.from) BY <1>4 DEF CloseSent
  <2>2. CloseSent(d)' BY <1>1, <1>4, <2>1 DEF CloseSent, Continues, Tests
  <2> QED BY <2>2 DEF Sent
<1>5. CASE Opened(d)
  <2>1. Continues(d.to) BY <1>5 DEF Opened
  <2>2. client[d.to].pc = "closed" => client'[d.to].pc = "closed" BY <2>1 DEF Continues
  <2>3. client'[d.to].pc # "closed" => \A t : Connects(d.to, t) => Connects(d.to, t)'
    BY <2>1 DEF Continues
  <2>4. Opened(d)' BY <1>1, <1>5, <2>2, <2>3 DEF Opened
  <2> QED BY <2>4 DEF Sent
<1>6. CASE Replied(d)
  <2>1. Continues(d.to) BY <1>6 DEF Replied
  <2>2. Tests(d.to)' /\ client'[d.to].token = client[d.to].token BY <1>6, <2>1 DEF Replied, Continues
  <2>3. ReplyTo(d, client[d.to].token, Agreed(d.to), serving.key, adjusted')
    BY <1>6, ReplyLater DEF Replied
  <2>4. Replied(d)' BY <1>1, <1>6, <2>2, <2>3 DEF Replied
  <2> QED BY <2>4 DEF Sent
<1> QED BY <1>2, <1>3, <1>4, <1>5, <1>6 DEF Sent

\* A client stays as it is when the clock is put forward.
LEMMA ClientLater ==
  ASSUME NEW me, NEW params, NEW key, NEW m \in Nat, NEW n \in Nat, m <= n,
         ClientOK(me, params, key, m)
  PROVE  ClientOK(me, params, key, n)
<1>1. \A r, at : Measured(r, at, params, m) => Measured(r, at, params, n)
  BY TimelyLater DEF Measured
<1> QED BY <1>1 DEF ClientOK

\* A step of a client.
LEMMA OneClient ==
  ASSUME Inv, NEW c \in Clients, NEW me, client' = [client EXCEPT ![c] = me],
         UNCHANGED <<scenario, now, adjusted, packet, conns>>,
         ClientOK(me, Agreed(c), setup[c].key, adjusted),
         me.pc \in {"test", "closed"} => setup[c].key = serving.key,
         me.pc = "test" => Connects(c, me.token),
         Tests(c) => me.pc \in {"test", "closed"} /\ me.token = client[c].token,
         client[c].pc = "closed" => me.pc = "closed",
         \A d \in net' : d \in net \/ Sent(d)'
  PROVE  Inv'
<1> USE DEF Inv
<1>1. /\ Clients' = Clients /\ setup' = setup /\ serving' = serving
      /\ \A b \in Clients : Agreed(b)' = Agreed(b)
      /\ \A b, t : Connects(b, t)' = Connects(b, t)
  BY DEF Clients, setup, serving, Agreed, Connects
<1>2. DOMAIN client = Clients BY DEF ClientsOK
<1>3. /\ DOMAIN client' = Clients /\ client'[c] = me
      /\ \A b \in Clients : b # c => client'[b] = client[b]
  BY <1>2
<1>4. ListenerOK' BY DEF ListenerOK
<1>5. ConnsOK' BY <1>1 DEF ConnsOK
<1>6. ClientsOK'
  <2> SUFFICES ASSUME NEW b \in Clients
               PROVE  /\ ClientOK(client'[b], Agreed(b), setup[b].key, adjusted)
                      /\ Tests(b)' => setup[b].key = serving.key
                      /\ client'[b].pc = "test" => Connects(b, client'[b].token)
    BY <1>1, <1>3 DEF ClientsOK
  <2>1. CASE b = c BY <1>3, <2>1 DEF Tests
  <2>2. CASE b # c BY <1>3, <2>2 DEF ClientsOK, Tests
  <2> QED BY <2>1, <2>2
<1>7. \A b \in Clients : Continues(b)
  <2> SUFFICES ASSUME NEW b \in Clients PROVE Continues(b) OBVIOUS
  <2>1. CASE b = c BY <1>1, <1>3, <2>1 DEF Tests, Continues
  <2>2. CASE b # c BY <1>1, <1>3, <2>2 DEF Tests, Continues
  <2> QED BY <2>1, <2>2
<1>8. NetOK'
  <2>1. adjusted \in Nat /\ adjusted' \in Nat /\ adjusted <= adjusted' BY DEF ListenerOK
  <2>2. \A d \in net : Sent(d)' BY <1>7, <2>1, DatagramStays DEF NetOK
  <2> QED BY <2>2 DEF NetOK
<1> QED BY <1>4, <1>5, <1>6, <1>8

\* A step of the server, or of time.
LEMMA OneServed ==
  ASSUME Inv, UNCHANGED <<scenario, client>>, now' \in Nat, adjusted' \in Nat, adjusted <= adjusted',
         IsBuffer(packet'), Len(packet'.array) = Len(packet.array), ConnsOK',
         \A c \in Clients : client[c].pc # "closed" => \A t : Connects(c, t) => Connects(c, t)',
         \A d \in net' : d \in net \/ Sent(d)'
  PROVE  Inv'
<1> USE DEF Inv
<1>1. /\ Clients' = Clients /\ setup' = setup /\ serving' = serving
      /\ \A b \in Clients : Agreed(b)' = Agreed(b)
  BY DEF Clients, setup, serving, Agreed
<1>2. adjusted \in Nat BY DEF ListenerOK
<1>3. ListenerOK' BY DEF ListenerOK
<1>4. ClientsOK'
  <2> SUFFICES ASSUME NEW b \in Clients
               PROVE  /\ ClientOK(client[b], Agreed(b), setup[b].key, adjusted')
                      /\ Tests(b) => setup[b].key = serving.key
                      /\ client[b].pc = "test" => Connects(b, client[b].token)'
    BY <1>1 DEF ClientsOK, Tests
  <2>1. ClientOK(client[b], Agreed(b), setup[b].key, adjusted) BY DEF ClientsOK
  <2>2. ClientOK(client[b], Agreed(b), setup[b].key, adjusted') BY <1>2, <2>1, ClientLater
  <2>3. client[b].pc = "test" => Connects(b, client[b].token) BY DEF ClientsOK
  <2>4. client[b].pc = "test" => Connects(b, client[b].token)' BY <2>3
  <2> QED BY <2>2, <2>4 DEF ClientsOK
<1>5. \A b \in Clients : Continues(b) BY DEF Continues, Tests
<1>6. NetOK'
  <2>1. \A d \in net : Sent(d)' BY <1>2, <1>5, DatagramStays DEF NetOK
  <2> QED BY <2>1 DEF NetOK
<1> QED BY <1>3, <1>4, <1>6

-----------------------------------------------------------------------------
(* Steps of the client *)

\* A client is a record of its fields.
LEMMA ClientFields ==
  ASSUME ClientsOK, NEW c \in Clients
  PROVE  IsClient(client[c]) /\ ClientOK(client[c], Agreed(c), setup[c].key, adjusted)
  BY DEF ClientsOK, ClientOK

\* A client's record with another pc.
LEMMA PcSet ==
  ASSUME NEW old, IsClient(old), NEW pc
  PROVE  LET me == [old EXCEPT !.pc = pc]
         IN  /\ IsClient(me) /\ me.pc = pc /\ me.params = old.params /\ me.token = old.token
             /\ me.send = old.send /\ me.recv = old.recv /\ me.seqno = old.seqno
             /\ me.sent = old.sent /\ me.rtds = old.rtds
  BY DEF IsClient

\* And after a request was sent.
AfterSend(old, sent, n, next) == [old EXCEPT !.sent = sent, !.seqno = n, !.send = next]

\* Fields of a client that has sent an echo request.
LEMMA SentSet ==
  ASSUME NEW old, IsClient(old), NEW sent, NEW n, NEW next
  PROVE  LET me == AfterSend(old, sent, n, next)
         IN  /\ IsClient(me) /\ me.pc = old.pc /\ me.params = old.params /\ me.token = old.token
             /\ me.send = next /\ me.recv = old.recv /\ me.seqno = n
             /\ me.sent = sent /\ me.rtds = old.rtds
<1> DEFINE a == [old EXCEPT !.sent = sent]
           b == [a EXCEPT !.seqno = n]
           me == [b EXCEPT !.send = next]
<1>1. /\ IsClient(a) /\ a.pc = old.pc /\ a.params = old.params /\ a.token = old.token
      /\ a.send = old.send /\ a.recv = old.recv /\ a.seqno = old.seqno
      /\ a.sent = sent /\ a.rtds = old.rtds
  BY DEF IsClient
<1> HIDE DEF a
<1>2. /\ IsClient(b) /\ b.pc = a.pc /\ b.params = a.params /\ b.token = a.token
      /\ b.send = a.send /\ b.recv = a.recv /\ b.seqno = n
      /\ b.sent = a.sent /\ b.rtds = a.rtds
  BY <1>1 DEF IsClient
<1> HIDE DEF b
<1>3. /\ IsClient(me) /\ me.pc = b.pc /\ me.params = b.params /\ me.token = b.token
      /\ me.send = next /\ me.recv = b.recv /\ me.seqno = b.seqno
      /\ me.sent = b.sent /\ me.rtds = b.rtds
  BY <1>2 DEF IsClient
<1> HIDE DEF me
<1>4. AfterSend(old, sent, n, next) = me BY DEF a, b, me, AfterSend
<1> QED BY <1>1, <1>2, <1>3, <1>4

\* SendOpen keeps the invariant.
LEMMA SendOpenKeeps ==
  ASSUME Inv, NEW c \in Clients, SendOpen(c)
  PROVE  Inv'
<1> DEFINE me == [client[c] EXCEPT !.pc = "opening"]
           d == Datagram(c, Server, OpenRequest(c), OpenMeans(setup[c].asked), NoReply)
<1>1. ClientOK(client[c], Agreed(c), setup[c].key, adjusted) BY ClientFields DEF Inv
<1>2. client[c].pc = "new" BY DEF SendOpen
<1>3. /\ IsClient(me)
      /\ me.pc = "opening" /\ me.params = client[c].params /\ me.token = client[c].token
      /\ me.send = client[c].send /\ me.recv = client[c].recv /\ me.seqno = client[c].seqno
      /\ me.sent = client[c].sent /\ me.rtds = client[c].rtds
  BY ClientFields, PcSet DEF Inv
<1>4. client' = [client EXCEPT ![c] = me] BY DEF SendOpen
<1>5. /\ UNCHANGED <<scenario, now, adjusted, packet, conns>> /\ net' = net \cup {d}
  BY DEF SendOpen
<1>6. /\ d.from = c /\ d.to = Server /\ d.meant = OpenMeans(setup[c].asked)
      /\ d.bytes = Content(OpenRequest(c))
  BY DEF Datagram
<1> HIDE DEF me, d
<1>7. ClientOK(me, Agreed(c), setup[c].key, adjusted) BY <1>1, <1>2, <1>3 DEF ClientOK
<1>8. ASSUME NEW e, e = d PROVE Sent(e)'
  <2>1. Clients' = Clients /\ setup' = setup BY <1>5 DEF Clients, setup
  <2>2. OpenSent(e) BY <1>6, <1>8, OpenRequestIs DEF OpenSent
  <2>3. OpenSent(e)' BY <2>1, <2>2 DEF OpenSent
  <2> QED BY <2>3 DEF Sent
<1> QED BY <1>2, <1>3, <1>4, <1>5, <1>7, <1>8, OneClient DEF Tests

\* SendEcho keeps the invariant.
LEMMA SendEchoKeeps ==
  ASSUME Inv, NEW c \in Clients, SendEcho(c)
  PROVE  Inv'
<1> DEFINE old == client[c]
           n == old.seqno + 1
           next == UpdateHMAC(Body(SetSeqno(old.send, n), c, n), setup[c].key)
           me == AfterSend(old, Append(old.sent, now), n, next)
           d == Datagram(c, Server, old.send, EchoMeans(old.token, old.seqno), NoReply)
<1>1. ClientOK(old, Agreed(c), setup[c].key, adjusted) BY ClientFields DEF Inv
<1>2. old.pc = "test" BY DEF SendEcho
<1>3. /\ IsClient(me)
      /\ me.pc = old.pc /\ me.params = old.params /\ me.token = old.token
      /\ me.send = next /\ me.recv = old.recv /\ me.seqno = n
      /\ me.sent = Append(old.sent, now) /\ me.rtds = old.rtds
  <2>1. IsClient(old) BY ClientFields DEF Inv
  <2> DEFINE sent == Append(old.sent, now)
  <2> HIDE DEF old, n, next, sent
  <2> DEFINE my == AfterSend(old, sent, n, next)
  <2>2. /\ IsClient(my) /\ my.pc = old.pc /\ my.params = old.params /\ my.token = old.token
        /\ my.send = next /\ my.recv = old.recv /\ my.seqno = n
        /\ my.sent = sent /\ my.rtds = old.rtds
    BY <2>1, SentSet
  <2> QED BY <2>2 DEF sent
<1>4. client' = [client EXCEPT ![c] = me] BY DEF SendEcho, AfterSend
<1>5. /\ UNCHANGED <<scenario, now, adjusted, packet, conns>> /\ net' = net \cup {d}
  BY DEF SendEcho
<1>6. /\ d.from = c /\ d.to = Server /\ d.meant = EchoMeans(old.token, old.seqno)
      /\ d.bytes = Content(old.send)
  BY DEF Datagram
<1>7. now \in Nat /\ Agreed(c) \in ParamsType BY AgreedFacts DEF Inv, ListenerOK
<1>8. Echoes(old.send, Agreed(c), old.token, old.seqno, setup[c].key) BY <1>1, <1>2 DEF ClientOK
<1>9. Echoes(next, Agreed(c), old.token, n, setup[c].key) BY <1>7, <1>8, NextRequestIs
<1> HIDE DEF me, d, next
<1>10. /\ n \in Nat /\ me.sent \in Seq(Nat) /\ Len(me.sent) = n
       /\ \A i \in 0 .. old.seqno - 1 : i \in 0 .. n - 1 /\ me.sent[i + 1] = old.sent[i + 1]
  <2>1. old.sent \in Seq(Nat) /\ Len(old.sent) = old.seqno /\ old.seqno \in Nat BY <1>1 DEF ClientOK
  <2> HIDE DEF old
  <2> QED BY <1>3, <1>7, <2>1
<1>11. ClientOK(me, Agreed(c), setup[c].key, adjusted)
  <2> HIDE DEF old, n
  <2>1. \A i \in DOMAIN me.rtds :
           i \in 0 .. me.seqno - 1 /\ Measured(me.rtds[i], me.sent[i + 1], Agreed(c), adjusted)
    BY <1>1, <1>3, <1>10 DEF ClientOK
  <2> QED BY <1>1, <1>2, <1>3, <1>9, <1>10, <2>1 DEF ClientOK
<1>12. ASSUME NEW e, e = d PROVE Sent(e)'
  <2>1. PICK w, load : EchoBytes(Content(old.send), w, load, Agreed(c), old.token, old.seqno, setup[c].key)
    BY <1>8 DEF Echoes
  <2>2. Clients' = Clients /\ setup' = setup /\ Agreed(c)' = Agreed(c)
    BY <1>5 DEF Clients, setup, Agreed
  <2>3. client'[c].token = old.token /\ Tests(c)'
    BY <1>2, <1>3, <1>4 DEF Tests, Inv, ClientsOK
  <2>4. EchoSent(e)' BY <1>6, <1>12, <2>1, <2>2, <2>3 DEF EchoSent
  <2> QED BY <2>4 DEF Sent
<1>13. setup[c].key = serving.key /\ Connects(c, old.token) BY <1>2 DEF Inv, ClientsOK, Tests
<1> QED BY <1>2, <1>3, <1>4, <1>5, <1>11, <1>12, <1>13, OneClient DEF Tests

\* SendClose keeps the invariant.
LEMMA SendCloseKeeps ==
  ASSUME Inv, NEW c \in Clients, SendClose(c)
  PROVE  Inv'
<1> DEFINE old == client[c]
           me == [old EXCEPT !.pc = "closed"]
           d == Datagram(c, Server, CloseRequest(c), CloseMeans(old.token), NoReply)
<1>1. ClientOK(old, Agreed(c), setup[c].key, adjusted) BY ClientFields DEF Inv
<1>2. old.pc = "test" BY DEF SendClose
<1>3. /\ IsClient(me)
      /\ me.pc = "closed" /\ me.params = old.params /\ me.token = old.token
      /\ me.send = old.send /\ me.recv = old.recv /\ me.seqno = old.seqno
      /\ me.sent = old.sent /\ me.rtds = old.rtds
  BY ClientFields, PcSet DEF Inv
<1>4. client' = [client EXCEPT ![c] = me] BY DEF SendClose
<1>5. /\ UNCHANGED <<scenario, now, adjusted, packet, conns>> /\ net' = net \cup {d}
  BY DEF SendClose
<1>6. /\ d.from = c /\ d.to = Server /\ d.meant = CloseMeans(old.token)
      /\ d.bytes = Content(CloseRequest(c))
  BY DEF Datagram
<1> HIDE DEF me, d
<1>7. ClientOK(me, Agreed(c), setup[c].key, adjusted) BY <1>1, <1>2, <1>3 DEF ClientOK
<1>8. ASSUME NEW e, e = d PROVE Sent(e)'
  <2>1. Clients' = Clients /\ setup' = setup BY <1>5 DEF Clients, setup
  <2>2. client'[c].token = old.token /\ client'[c].pc = "closed"
    BY <1>3, <1>4 DEF Inv, ClientsOK
  <2>3. IsSignedFor(e.bytes, old.token, fRequest \cup finit(setup[c].key), <<>>, setup[c].key, {"close"})
    BY <1>6, <1>8, CloseRequestIs
  <2>4. CloseSent(e)' BY <1>6, <1>8, <2>1, <2>2, <2>3 DEF CloseSent
  <2> QED BY <2>4 DEF Sent
<1>9. setup[c].key = serving.key BY <1>2 DEF Inv, ClientsOK, Tests
<1> QED BY <1>2, <1>3, <1>4, <1>5, <1>7, <1>8, <1>9, OneClient DEF Tests

\* What is received is a buffer again.
LEMMA ReceivedIs ==
  ASSUME ListenerOK, ClientsOK, NetOK, GrantsFit, NEW d \in net
  PROVE  /\ IsBuffer(Received(d, Buffer(d.to)))
         /\ Len(Received(d, Buffer(d.to)).array) = Len(Buffer(d.to).array)
<1>1. PICK vals, load, fls : Arrives(d, vals, load, fls) BY SentArrives
<1>2. AnySeq(d.bytes) BY <1>1, SignedLen DEF Arrives
<1>3. IsBuffer(Buffer(d.to)) /\ HeaderLen <= Len(Buffer(d.to).array) BY HostOf, BufferFacts
<1> QED BY <1>2, <1>3, ReceivedBuffer DEF Received, Loaded

\* A client's record after the open reply, and after a reply.
AfterOpen(old, params, token, send, recv) ==
  [old EXCEPT !.pc = "test", !.params = params, !.token = token, !.send = send, !.recv = recv]

AfterReply(old, recv, rtds) == [old EXCEPT !.recv = recv, !.rtds = rtds]

\* Fields of a client whose test begins.
LEMMA OpenedSet ==
  ASSUME NEW old, IsClient(old), NEW params, NEW token, NEW send, NEW recv
  PROVE  LET me == AfterOpen(old, params, token, send, recv)
         IN  /\ IsClient(me) /\ me.pc = "test" /\ me.params = params /\ me.token = token
             /\ me.send = send /\ me.recv = recv /\ me.seqno = old.seqno
             /\ me.sent = old.sent /\ me.rtds = old.rtds
<1> DEFINE a == [old EXCEPT !.pc = "test"]
           b == [a EXCEPT !.params = params]
           c == [b EXCEPT !.token = token]
           d == [c EXCEPT !.send = send]
           me == [d EXCEPT !.recv = recv]
<1>1. /\ IsClient(a) /\ a.pc = "test" /\ a.params = old.params /\ a.token = old.token
      /\ a.send = old.send /\ a.recv = old.recv /\ a.seqno = old.seqno
      /\ a.sent = old.sent /\ a.rtds = old.rtds
  BY DEF IsClient
<1> HIDE DEF a
<1>2. /\ IsClient(b) /\ b.pc = a.pc /\ b.params = params /\ b.token = a.token
      /\ b.send = a.send /\ b.recv = a.recv /\ b.seqno = a.seqno
      /\ b.sent = a.sent /\ b.rtds = a.rtds
  BY <1>1 DEF IsClient
<1> HIDE DEF b
<1>3. /\ IsClient(c) /\ c.pc = b.pc /\ c.params = b.params /\ c.token = token
      /\ c.send = b.send /\ c.recv = b.recv /\ c.seqno = b.seqno
      /\ c.sent = b.sent /\ c.rtds = b.rtds
  BY <1>2 DEF IsClient
<1> HIDE DEF c
<1>4. /\ IsClient(d) /\ d.pc = c.pc /\ d.params = c.params /\ d.token = c.token
      /\ d.send = send /\ d.recv = c.recv /\ d.seqno = c.seqno
      /\ d.sent = c.sent /\ d.rtds = c.rtds
  BY <1>3 DEF IsClient
<1> HIDE DEF d
<1>5. /\ IsClient(me) /\ me.pc = d.pc /\ me.params = d.params /\ me.token = d.token
      /\ me.send = d.send /\ me.recv = recv /\ me.seqno = d.seqno
      /\ me.sent = d.sent /\ me.rtds = d.rtds
  BY <1>4 DEF IsClient
<1> HIDE DEF me
<1>6. AfterOpen(old, params, token, send, recv) = me BY DEF a, b, c, d, me, AfterOpen
<1> QED BY <1>1, <1>2, <1>3, <1>4, <1>5, <1>6

\* Fields of a client that has heard a reply.
LEMMA RepliedSet ==
  ASSUME NEW old, IsClient(old), NEW recv, NEW rtds
  PROVE  LET me == AfterReply(old, recv, rtds)
         IN  /\ IsClient(me) /\ me.pc = old.pc /\ me.params = old.params /\ me.token = old.token
             /\ me.send = old.send /\ me.recv = recv /\ me.seqno = old.seqno
             /\ me.sent = old.sent /\ me.rtds = rtds
<1> DEFINE a == [old EXCEPT !.recv = recv]
           me == [a EXCEPT !.rtds = rtds]
<1>1. /\ IsClient(a) /\ a.pc = old.pc /\ a.params = old.params /\ a.token = old.token
      /\ a.send = old.send /\ a.recv = recv /\ a.seqno = old.seqno
      /\ a.sent = old.sent /\ a.rtds = old.rtds
  BY DEF IsClient
<1> HIDE DEF a
<1>2. /\ IsClient(me) /\ me.pc = a.pc /\ me.params = a.params /\ me.token = a.token
      /\ me.send = a.send /\ me.recv = a.recv /\ me.seqno = a.seqno
      /\ me.sent = a.sent /\ me.rtds = rtds
  BY <1>1 DEF IsClient
<1> HIDE DEF me
<1>3. AfterReply(old, recv, rtds) = me BY DEF a, me, AfterReply
<1> QED BY <1>1, <1>2, <1>3

\* HearOpen keeps the invariant.
LEMMA HearOpenKeeps ==
  ASSUME Inv, GrantsFit, NEW d \in net, ~ToServer(d), HearOpen(d)
  PROVE  Inv'
<1> USE DEF Inv
<1> DEFINE c == d.to
           old == client[c]
           m == Heard(d)
           first == FirstRequest(c, m.params, m.token)
           longer == [m.params EXCEPT !.length = first.len]
           recv == SetConnToken(NewPacket(m.params.length, setup[c].key), m.token)
           me == AfterOpen(old, longer, m.token, first, recv)
           key == setup[c].key
<1>1. /\ old.pc = "opening" /\ Accepted(d, Buffer(d.to)) /\ m.kind = "opened"
      /\ UNCHANGED <<scenario, now, adjusted, net, packet, conns>>
      /\ client' = [client EXCEPT ![c] = me]
  BY DEF HearOpen, AfterOpen
<1>2. c \in Clients /\ Opened(d) /\ m = d.meant BY <1>1, AtClient
<1>3. PICK t : /\ d.meant = OpenReplyMeans(t, Agreed(c))
               /\ client[c].pc # "closed" => Connects(c, t)
  BY <1>2 DEF Opened
<1>4. m.params = Agreed(c) /\ m.token = t BY <1>2, <1>3 DEF OpenReplyMeans
<1>5. Agreed(c) \in ParamsType /\ Agreed(c).length \in Int BY <1>2, AgreedFacts DEF ParamsType
<1>6. ClientOK(old, Agreed(c), key, adjusted) /\ IsClient(old) BY <1>2, ClientFields
<1>7. /\ IsClient(me) /\ me.pc = "test" /\ me.params = longer /\ me.token = t
      /\ me.send = first /\ me.recv = recv /\ me.seqno = old.seqno
      /\ me.sent = old.sent /\ me.rtds = old.rtds
  <2> HIDE DEF old, longer, first, recv
  <2> QED BY <1>4, <1>6, OpenedSet
<1> HIDE DEF me
<1>8. Echoes(first, Agreed(c), t, 0, key) BY <1>4, <1>5, FirstRequestIs
<1>9. longer = [Agreed(c) EXCEPT !.length = Larger(Agreed(c).length, Room(TestFields(Agreed(c), key)))]
  BY <1>4, <1>8 DEF Echoes
<1>10. IsBuffer(recv) /\ Len(recv.array) = Larger(Agreed(c).length, HeaderLen)
  <2> DEFINE new == NewPacket(Agreed(c).length, key)
  <2>1. /\ Snug(new, NewVals(finit(key))) /\ Len(new.array) = Larger(Agreed(c).length, HeaderLen)
    BY <1>5, NewPacketIs
  <2>2. recv = Put(new, fConnToken, Num("token", t)) BY <1>4 DEF SetConnToken
  <2> HIDE DEF new, recv
  <2>3. HeaderLen <= Len(new.array) BY <1>5, <2>1, RoomOfHeader DEF Larger
  <2>4. fConnToken \in Fields BY FieldNames
  <2>5. /\ Snug(recv, With(NewVals(finit(key)), fConnToken, Num("token", t)))
        /\ Beyond(new.array, recv.array, Room(recv.set))
    BY <2>1, <2>2, <2>3, <2>4, SnugPut
  <2> QED BY <2>1, <2>5 DEF Snug, Holds, Beyond
<1> HIDE DEF first, longer, recv
<1>11. old.seqno = 0 BY <1>1, <1>6 DEF ClientOK
<1>12. ClientOK(me, Agreed(c), key, adjusted)
  <2> HIDE DEF old, c, key
  <2> QED BY <1>6, <1>7, <1>8, <1>9, <1>10, <1>11 DEF ClientOK
<1>13. setup[c].key = serving.key BY <1>2 DEF Opened
<1>14. Connects(c, me.token) BY <1>1, <1>3, <1>7
<1>15. \A e \in net' : e \in net \/ Sent(e)' BY <1>1
<1>16. ~Tests(c) BY <1>1 DEF Tests
<1> HIDE DEF m
<1> QED BY <1>1, <1>2, <1>7, <1>12, <1>13, <1>14, <1>15, <1>16, OneClient

\* The round trips of a client, and one that is new.
Recorded(rtds, n, r) ==
  IF n \in DOMAIN rtds THEN rtds
  ELSE [i \in DOMAIN rtds \cup {n} |-> IF i # n THEN rtds[i] ELSE r]

\* A round trip is one that was there, or the new one.
LEMMA RecordedIs ==
  ASSUME NEW rtds, NEW n, NEW r, NEW i \in DOMAIN Recorded(rtds, n, r)
  PROVE  \/ i \in DOMAIN rtds /\ Recorded(rtds, n, r)[i] = rtds[i]
         \/ i = n /\ Recorded(rtds, n, r)[i] = r
<1>1. CASE n \in DOMAIN rtds BY <1>1 DEF Recorded
<1>2. CASE n \notin DOMAIN rtds BY <1>2 DEF Recorded
<1> QED BY <1>1, <1>2

\* The times of a reply are true.
LEMMA RepliedTimely ==
  ASSUME ListenerOK, ClientsOK, NEW d, Replied(d), Plain(Agreed(d.to))
  PROVE  Timely(Heard(d).ts, Agreed(d.to), d.reply.came, d.reply.left, adjusted)
<1>1. Heard(d) = d.meant BY RepliedHeard
<1>2. PICK n, count, ts : /\ d.meant = ReplySays(client[d.to].token, n, Agreed(d.to), count, ts)
                          /\ Timely(ts, Agreed(d.to), d.reply.came, d.reply.left, adjusted)
  BY DEF Replied, ReplyTo
<1>3. Heard(d).ts = ts BY <1>1, <1>2 DEF ReplySays, ReplyMeans
<1> QED BY <1>2, <1>3

\* AsReply moves no byte.
LEMMA AsReplyIs ==
  ASSUME NEW params \in ParamsType, NEW p, IsBuffer(p)
  PROVE  IsBuffer(AsReply(p, params)) /\ AsReply(p, params).array = p.array
<1> DEFINE F == StatsFields(params.stats) \cup StampFields(params.stamp, params.clock)
           echo == AsEcho(p)
<1>1. F \in SUBSET Fields /\ fechoRequest \in SUBSET Fields
  <2>1. /\ StatsFields(params.stats) \in SUBSET {6, 7}
        /\ StampFields(params.stamp, params.clock) \in SUBSET (8 .. 13)
    BY TestFieldsAre
  <2> QED BY <2>1, FieldNames, RequestFields
<1> HIDE DEF F
<1>2. IsBuffer(echo) /\ echo.array = p.array BY <1>1, AddFieldsIs DEF AsEcho
<1> HIDE DEF echo
<1>3. IsBuffer(AddFields(echo, F)) /\ AddFields(echo, F).array = echo.array BY <1>1, <1>2, AddFieldsIs
<1> QED BY <1>2, <1>3 DEF AsReply, F, echo

\* HearReply keeps the invariant.
LEMMA HearReplyKeeps ==
  ASSUME Inv, GrantsFit, NEW d \in net, ~ToServer(d), HearReply(d)
  PROVE  Inv'
<1> USE DEF Inv
<1> DEFINE c == d.to
           old == client[c]
           m == Heard(d)
           recv == AsReply(Received(d, Buffer(d.to)), old.params)
           r == [client |-> [send |-> ClientNow(old.sent[m.seqno + 1]), receive |-> ClientNow(now)],
                 server |-> m.ts, came |-> d.reply.came, left |-> d.reply.left, got |-> now]
           rtds == Recorded(old.rtds, m.seqno, r)
           me == AfterReply(old, recv, rtds)
           key == setup[c].key
<1>1. /\ old.pc = "test" /\ Accepted(d, Buffer(d.to)) /\ m.kind = "reply"
      /\ m.seqno \in 0 .. old.seqno - 1
      /\ UNCHANGED <<scenario, now, adjusted, net, packet, conns>>
  BY DEF HearReply
<1>2. client' = [client EXCEPT ![c] = me]
  BY DEF HearReply, AfterReply, Recorded
<1>3. c \in Clients /\ Replied(d) /\ c # Server BY <1>1, AtClient, AgreedFacts
<1>4. ClientOK(old, Agreed(c), key, adjusted) /\ IsClient(old) BY <1>3, ClientFields
<1>5. /\ IsClient(me) /\ me.pc = old.pc /\ me.params = old.params /\ me.token = old.token
      /\ me.send = old.send /\ me.recv = recv /\ me.seqno = old.seqno
      /\ me.sent = old.sent /\ me.rtds = rtds
  <2> HIDE DEF old, recv, rtds
  <2> QED BY <1>4, RepliedSet
<1> HIDE DEF me
<1>6. Agreed(c) \in ParamsType BY <1>3, AgreedFacts
<1>7. IsBuffer(recv) /\ Len(recv.array) = Larger(Agreed(c).length, HeaderLen)
  <2>1. /\ IsBuffer(Received(d, Buffer(d.to)))
        /\ Len(Received(d, Buffer(d.to)).array) = Len(Buffer(d.to).array)
    BY ReceivedIs
  <2>2. old.params \in ParamsType
    <3>1. /\ old.params = [Agreed(c) EXCEPT !.length = Larger(Agreed(c).length, Room(TestFields(Agreed(c), key)))]
          /\ Larger(Agreed(c).length, Room(TestFields(Agreed(c), key))) \in Int
      BY <1>1, <1>3, <1>6, ClientTests, TestFieldsAre DEF Tests, Larger, ParamsType
    <3> QED BY <1>6, <3>1 DEF ParamsType
  <2>3. Tests(c) BY <1>1 DEF Tests
  <2>4. Len(Buffer(c).array) = Larger(Agreed(c).length, HeaderLen) BY <1>3, <2>3, BufferFacts
  <2> QED BY <2>1, <2>2, <2>4, AsReplyIs
<1>8. Measured(r, old.sent[m.seqno + 1], Agreed(c), adjusted)
  <2>1. Plain(Agreed(c)) => Timely(m.ts, Agreed(c), d.reply.came, d.reply.left, adjusted)
    BY <1>3, RepliedTimely
  <2>2. now \in Nat BY DEF ListenerOK
  <2> HIDE DEF old, m, c
  <2> QED BY <2>1, <2>2 DEF Measured
<1> HIDE DEF recv, r
<1>9. \A i \in DOMAIN me.rtds :
         i \in 0 .. me.seqno - 1 /\ Measured(me.rtds[i], me.sent[i + 1], Agreed(c), adjusted)
  <2> SUFFICES ASSUME NEW i \in DOMAIN me.rtds
               PROVE  /\ i \in 0 .. old.seqno - 1
                      /\ Measured(me.rtds[i], old.sent[i + 1], Agreed(c), adjusted)
    BY <1>5
  <2>1. \/ i \in DOMAIN old.rtds /\ rtds[i] = old.rtds[i]
        \/ i = m.seqno /\ rtds[i] = r
    BY <1>5, RecordedIs
  <2>2. \A j \in DOMAIN old.rtds :
           j \in 0 .. old.seqno - 1 /\ Measured(old.rtds[j], old.sent[j + 1], Agreed(c), adjusted)
    BY <1>4 DEF ClientOK
  <2> HIDE DEF old, m, rtds, c
  <2> QED BY <1>1, <1>5, <1>8, <2>1, <2>2
<1>10. ClientOK(me, Agreed(c), key, adjusted)
  <2> HIDE DEF old, c, key, rtds
  <2> QED BY <1>1, <1>4, <1>5, <1>7, <1>9 DEF ClientOK
<1>11. setup[c].key = serving.key /\ Connects(c, me.token)
  BY <1>1, <1>3, <1>5 DEF Replied, ClientsOK
<1>12. \A e \in net' : e \in net \/ Sent(e)' BY <1>1
<1> HIDE DEF m, rtds
<1> QED BY <1>1, <1>2, <1>3, <1>5, <1>10, <1>11, <1>12, OneClient DEF Tests

-----------------------------------------------------------------------------
(* Steps of the server *)

\* The listener's packet, before and after it is read into.
LEMMA PacketReceived ==
  ASSUME Inv, GrantsFit, NEW d \in net, ToServer(d)
  PROVE  /\ Buffer(d.to) = packet /\ IsBuffer(packet) /\ HeaderLen <= Len(packet.array)
         /\ IsBuffer(Received(d, packet)) /\ Len(Received(d, packet).array) = Len(packet.array)
         /\ IsBuffer(AsRequest(Received(d, packet))) /\ IsBuffer(AsEcho(Received(d, packet)))
         /\ Len(AsRequest(Received(d, packet)).array) = Len(packet.array)
         /\ Len(AsEcho(Received(d, packet)).array) = Len(packet.array)
<1> USE DEF Inv
<1> DEFINE p == Received(d, packet)
<1>1. Buffer(d.to) = packet /\ d.to = Server BY DEF ToServer, Buffer
<1>2. IsBuffer(packet) /\ HeaderLen <= Len(packet.array) BY <1>1, BufferFacts
<1>3. IsBuffer(p) /\ Len(p.array) = Len(packet.array) BY <1>1, ReceivedIs
<1> HIDE DEF p
<1>4. fRequest \in SUBSET Fields /\ fechoRequest \in SUBSET Fields
  BY FieldNames DEF fRequest, fechoRequest
<1>5. /\ IsBuffer(AsRequest(p)) /\ AsRequest(p).array = p.array
      /\ IsBuffer(AsEcho(p)) /\ AsEcho(p).array = p.array
  BY <1>3, <1>4, AddFieldsIs DEF AsRequest, AsEcho
<1> QED BY <1>1, <1>2, <1>3, <1>5 DEF p

\* Drop keeps the invariant.
LEMMA DropKeeps ==
  ASSUME Inv, GrantsFit, NEW d \in net, Drop(d)
  PROVE  Inv'
<1>1. /\ ToServer(d) /\ UNCHANGED <<scenario, now, adjusted, net, conns, client>>
      /\ packet' \in {Received(d, packet), AsRequest(Received(d, packet)), AsEcho(Received(d, packet))}
  BY DEF Drop
<1>2. IsBuffer(packet') /\ Len(packet'.array) = Len(packet.array) BY <1>1, PacketReceived
<1>3. ConnsOK' BY <1>1 DEF Inv, ConnsOK, Clients, setup, Agreed
<1>4. \A c \in Clients : \A t : Connects(c, t) => Connects(c, t)' BY <1>1 DEF Connects
<1>5. now' \in Nat /\ adjusted' \in Nat /\ adjusted <= adjusted' BY <1>1 DEF Inv, ListenerOK
<1>6. \A e \in net' : e \in net \/ Sent(e)' BY <1>1
<1> QED BY <1>1, <1>2, <1>3, <1>4, <1>5, <1>6, OneServed

\* Time and the adjustment of the clock keep the invariant.
LEMMA TimeKeeps ==
  ASSUME Inv, Tick \/ Adjust
  PROVE  Inv'
<1>1. UNCHANGED <<scenario, net, packet, conns, client>> BY DEF Tick, Adjust
<1>2. now' \in Nat /\ adjusted' \in Nat /\ adjusted <= adjusted' BY DEF Inv, ListenerOK, Tick, Adjust
<1>3. IsBuffer(packet') /\ Len(packet'.array) = Len(packet.array) BY <1>1 DEF Inv, ListenerOK
<1>4. ConnsOK' BY <1>1 DEF Inv, ConnsOK, Clients, setup, Agreed
<1>5. \A c \in Clients : \A t : Connects(c, t) => Connects(c, t)' BY <1>1 DEF Connects
<1>6. \A e \in net' : e \in net \/ Sent(e)' BY <1>1
<1> QED BY <1>1, <1>2, <1>3, <1>4, <1>5, <1>6, OneServed

\* Close keeps the invariant.
LEMMA CloseKeeps ==
  ASSUME Inv, GrantsFit, NEW d \in net, Close(d)
  PROVE  Inv'
<1> USE DEF Inv
<1> DEFINE m == Heard(d)
<1>1. /\ ToServer(d) /\ Accepted(d, packet) /\ m.kind = "close" /\ Owner(m.token) = d.from
      /\ conns' = [t \in DOMAIN conns \ {m.token} |-> conns[t]]
      /\ packet' = AsRequest(Received(d, packet))
      /\ UNCHANGED <<scenario, now, adjusted, net, client>>
  BY DEF Close
<1>2. CloseSent(d) BY <1>1, AtServer
<1>3. d.from \in Clients /\ client[d.from].pc = "closed" /\ d.from # Server
  BY <1>2, AgreedFacts DEF CloseSent
<1>4. m.token \in DOMAIN conns /\ conns[m.token].client = d.from BY <1>1, <1>3 DEF Owner
<1> HIDE DEF m
<1>5. IsBuffer(packet') /\ Len(packet'.array) = Len(packet.array) BY <1>1, PacketReceived
<1>6. ConnsOK'
  <2>1. /\ Clients' = Clients /\ \A b \in Clients : Agreed(b)' = Agreed(b)
    BY <1>1 DEF Clients, setup, Agreed
  <2>2. \A t \in DOMAIN conns' : t \in DOMAIN conns /\ conns'[t] = conns[t] BY <1>1
  <2> QED BY <2>1, <2>2 DEF ConnsOK
<1>7. \A c \in Clients : client[c].pc # "closed" => \A t : Connects(c, t) => Connects(c, t)'
  <2> SUFFICES ASSUME NEW c \in Clients, client[c].pc # "closed", NEW t, Connects(c, t)
               PROVE  Connects(c, t)'
    OBVIOUS
  <2>1. t \in DOMAIN conns /\ conns[t].client = c BY DEF Connects
  <2>2. t # m.token BY <1>3, <1>4, <2>1
  <2>3. t \in DOMAIN conns' /\ conns'[t] = conns[t] BY <1>1, <2>1, <2>2
  <2> QED BY <2>1, <2>3 DEF Connects
<1>8. now' \in Nat /\ adjusted' \in Nat /\ adjusted <= adjusted' BY <1>1 DEF ListenerOK
<1>9. \A e \in net' : e \in net \/ Sent(e)' BY <1>1
<1> QED BY <1>1, <1>5, <1>6, <1>7, <1>8, <1>9, OneServed

\* Accept keeps the invariant.
LEMMA AcceptKeeps ==
  ASSUME Inv, GrantsFit, NEW d \in net, Accept(d)
  PROVE  Inv'
<1> USE DEF Inv
<1> DEFINE c == d.from
           m == Heard(d)
           key == serving.key
           p == Received(d, packet)
           granted == RestrictParams(serving.limits, m.params)
           New(t) == Datagram(Server, c, OpenReply(p, t, granted, key), OpenReplyMeans(t, granted), NoReply)
<1>1. /\ ToServer(d) /\ Accepted(d, packet) /\ m.kind = "open"
      /\ UNCHANGED <<scenario, now, adjusted, client>>
  BY DEF Accept
<1>2. PICK t \in scenario.tokens \ DOMAIN conns :
         /\ packet' = OpenReply(p, t, granted, key)
         /\ net' = net \cup {New(t)}
         /\ conns' = [u \in DOMAIN conns \cup {t} |->
                         IF u = t THEN NewSconn(c, m.params) ELSE conns[u]]
  BY DEF Accept, OpenReply
<1>3. /\ c \in Clients /\ OpenSent(d) /\ m = d.meant /\ setup[c].key = key /\ KeyOf(c) = KeyOf(d.to)
      /\ KeyOf(c) = key /\ c # Server
  BY <1>1, AtServer, AgreedFacts
<1>4. m.params = setup[c].asked /\ granted = Agreed(c)
  BY <1>3 DEF OpenSent, OpenMeans, Agreed, Granted, setup, serving
<1>5. PICK vals : /\ DOMAIN vals = finit(key) /\ vals[fMagic] = Magic
                  /\ Arrives(d, vals, Encoded(setup[c].asked), {"open"})
  BY <1>3, OpenSentArrives
<1>6. Buffer(d.to) = packet /\ IsBuffer(packet) /\ HeaderLen <= Len(packet.array)
      /\ Len(p.array) = Len(packet.array)
  BY <1>1, PacketReceived
<1>7. Taken(p, BlankVals(vals, key), Encoded(setup[c].asked), key, {"open"})
  <2>1. "reply" \in {"open"} <=> d.to # Server BY <1>1 DEF ToServer
  <2> QED BY <1>3, <1>5, <1>6, <2>1, ArrivesTaken
<1> HIDE DEF m, p, granted, key
<1> DEFINE w == BlankVals(vals, key)
<1>8. DOMAIN w = finit(key) /\ w[fMagic] = Magic
  <2>1. fMagic \in DOMAIN vals /\ fMagic # fHMAC BY <1>5, FinitFacts DEF fMagic, fHMAC
  <2> QED BY <1>5, <2>1, BlankKeeps
<1> DEFINE q == OpenReply(p, t, granted, key)
<1>9. /\ IsBuffer(q) /\ Len(q.array) = Len(packet.array)
      /\ IsSignedFor(Content(q), t, finit(key) \cup {fConnToken}, Encoded(granted), key,
                     {"open", "reply"})
  <2> HIDE DEF w
  <2>1. Taken(p, w, Encoded(setup[c].asked), key, {"open"}) BY <1>7 DEF w
  <2> QED BY <1>6, <1>8, <2>1, OpenReplyIs
<1> HIDE DEF w, q
<1>10. IsBuffer(packet') /\ Len(packet'.array) = Len(packet.array) BY <1>2, <1>9 DEF q
<1>11. /\ Clients' = Clients /\ setup' = setup /\ serving' = serving
       /\ \A b \in Clients : Agreed(b)' = Agreed(b)
  BY <1>1 DEF Clients, setup, serving, Agreed
<1>12. NewSconn(c, m.params) = [client |-> c, params |-> Agreed(c), count |-> 0]
  BY <1>4 DEF NewSconn, granted
<1>13. /\ DOMAIN conns' = DOMAIN conns \cup {t}
       /\ conns'[t] = [client |-> c, params |-> Agreed(c), count |-> 0]
       /\ \A u \in DOMAIN conns : conns'[u] = conns[u]
  BY <1>2, <1>12
<1>14. ConnsOK'
  <2> SUFFICES ASSUME NEW u \in DOMAIN conns'
               PROVE  /\ conns'[u] = [client |-> conns'[u].client, params |-> conns'[u].params,
                                      count |-> conns'[u].count]
                      /\ conns'[u].client \in Clients /\ conns'[u].params = Agreed(conns'[u].client)
    BY <1>11 DEF ConnsOK
  <2>1. CASE u = t BY <1>3, <1>13, <2>1
  <2>2. CASE u # t
    <3>1. u \in DOMAIN conns /\ conns'[u] = conns[u] BY <1>13, <2>2
    <3> QED BY <3>1 DEF ConnsOK
  <2> QED BY <2>1, <2>2
<1>15. \A b \in Clients : \A u : Connects(b, u) => Connects(b, u)' BY <1>13 DEF Connects
<1>16. ASSUME NEW e, e = New(t) PROVE Sent(e)'
  <2>1. /\ e.from = Server /\ e.to = c /\ e.bytes = Content(q)
        /\ e.meant = OpenReplyMeans(t, Agreed(c))
    BY <1>4, <1>16 DEF Datagram, q
  <2>2. IsSignedFor(e.bytes, t, finit(key) \cup {fConnToken}, Encoded(Agreed(c)), key, {"open", "reply"})
    BY <1>4, <1>9, <2>1
  <2>3. Connects(c, t)' BY <1>13 DEF Connects
  <2>4. Opened(e)' BY <1>3, <1>11, <2>1, <2>2, <2>3 DEF Opened, key
  <2> QED BY <2>4 DEF Sent
<1>17. \A e \in net' : e \in net \/ Sent(e)' BY <1>2, <1>16
<1>18. now' \in Nat /\ adjusted' \in Nat /\ adjusted <= adjusted' BY <1>1 DEF ListenerOK
<1> QED BY <1>1, <1>10, <1>14, <1>15, <1>17, <1>18, OneServed

\* A datagram's payload is its load, for who knows its fields.
LEMMA PayloadOf ==
  ASSUME NEW d, IsBuffer(Buffer(d.to)), NEW vals, NEW load, NEW fls, Arrives(d, vals, load, fls),
         NEW params, DOMAIN vals = TestFields(params, KeyOf(d.to))
  PROVE  TestPayload(d, params) = load
<1> DEFINE b == Buffer(d.to)
           key == KeyOf(d.to)
           p == ReadFrom(b, d.bytes, key)
           T == TestFields(params, key)
           fb == [p EXCEPT !.set = T]
<1>1. TestPayload(d, params) = Payload(fb) BY DEF TestPayload, Loaded
<1>2. Signed(d.bytes, vals, load, KeyOf(d.from), fls) /\ Len(d.bytes) <= Len(b.array)
  BY DEF Arrives
<1>3. IsBuffer(b) /\ DOMAIN vals = T OBVIOUS
<1> HIDE DEF b, key, T
<1>4. Lay(d.bytes, vals, load) /\ Len(d.bytes) = Room(DOMAIN vals) + Len(load) BY <1>2 DEF Signed
<1>5. AnySeq(d.bytes) /\ Room(DOMAIN vals) \in Nat /\ Len(load) \in Nat BY <1>4, LayFacts
<1>6. /\ IsBuffer(p) /\ p.len = Len(d.bytes) /\ Len(p.array) = Len(b.array)
      /\ \A i \in 1 .. Len(d.bytes) : p.array[i] = d.bytes[i]
  BY <1>2, <1>3, <1>5, ReadFromIs
<1> HIDE DEF p
<1>7. fb.array = p.array /\ fb.len = p.len /\ fb.set = T BY <1>6 DEF IsBuffer
<1>8. AnySeq(p.array) BY <1>6 DEF IsBuffer
<1>9. Lay(p.array, vals, load) BY <1>2, <1>4, <1>6, <1>8, LaySame
<1> HIDE DEF fb
<1> QED BY <1>1, <1>3, <1>4, <1>6, <1>7, <1>9, PayloadIs

\* The echo request of a connection, as the listener has it.
LEMMA Request ==
  ASSUME Inv, GrantsFit, NEW d \in net, ToServer(d), Accepted(d, packet), Heard(d).kind = "echo",
         Owner(Heard(d).token) = d.from
  PROVE  \E n, v, load :
            /\ Heard(d) = EchoMeans(client[d.from].token, n)
            /\ Taken(Received(d, packet), v, load, serving.key, {})
            /\ DOMAIN v = TestFields(Agreed(d.from), serving.key) /\ v[fMagic] = Magic
            /\ Room(DOMAIN v) + Len(load) = Larger(Agreed(d.from).length, Room(DOMAIN v))
            /\ v[fConnToken] = Num("token", client[d.from].token) /\ v[fSeqno] = Num("seqno", n)
            /\ TestPayload(d, Agreed(d.from)) = load
<1> USE DEF Inv
<1> DEFINE params == Agreed(d.from)
           token == client[d.from].token
           key == serving.key
           p == Received(d, packet)
<1>1. /\ EchoSent(d) /\ Heard(d) = d.meant /\ KeyOf(d.from) = KeyOf(d.to) /\ d.from \in Clients
      /\ d.to = Server /\ KeyOf(d.to) = key /\ Buffer(d.to) = packet /\ params \in ParamsType
  BY AtServer, AgreedFacts DEF ToServer, Buffer, KeyOf
<1>2. PICK n, vals, load :
         /\ d.meant = EchoMeans(token, n)
         /\ EchoBytes(d.bytes, vals, load, params, token, n, KeyOf(d.from))
         /\ Arrives(d, vals, load, {})
  BY <1>1, EchoSentArrives
<1>3. IsBuffer(Buffer(d.to)) BY <1>1, BufferFacts
<1>4. /\ DOMAIN vals = TestFields(params, key)
      /\ Room(DOMAIN vals) + Len(load) = Larger(params.length, Room(DOMAIN vals))
  BY <1>1, <1>2 DEF EchoBytes
<1>5. TestPayload(d, params) = load BY <1>1, <1>2, <1>3, <1>4, PayloadOf
<1>6. Taken(p, BlankVals(vals, key), load, key, {})
  <2>1. "reply" \in {} <=> d.to # Server BY <1>1
  <2> QED BY <1>1, <1>2, <1>3, <2>1, ArrivesTaken
<1>7. EchoBytes(d.bytes, vals, load, params, token, n, key) BY <1>1, <1>2
<1> HIDE DEF params, token, key, p
<1> DEFINE v == BlankVals(vals, key)
<1>8. /\ DOMAIN v = TestFields(params, key) /\ v[fMagic] = Magic
      /\ v[fConnToken] = Num("token", token) /\ v[fSeqno] = Num("seqno", n)
  BY <1>1, <1>7, EchoBytesRead
<1>9. Taken(p, v, load, key, {}) BY <1>6
<1> HIDE DEF v
<1>10. Room(DOMAIN v) + Len(load) = Larger(params.length, Room(DOMAIN v)) BY <1>4, <1>8
<1> QED BY <1>1, <1>2, <1>5, <1>8, <1>9, <1>10 DEF params, token, key, p

\* What is meant of a reply is what its fields say.
LEMMA MeantIs ==
  ASSUME NEW d, NEW sc, NEW ts, NEW token, NEW n, Heard(d) = EchoMeans(token, n)
  PROVE  MeantReply(d, sc, ts) = ReplySays(token, n, sc.params, sc.count + 1, ts)
<1>1. Heard(d).token = token /\ Heard(d).seqno = n BY DEF EchoMeans
<1> QED BY <1>1 DEF MeantReply, ReplySays, ReplyCount

\* The server's times of a request, if all it stamps is sent back.
LEMMA StampsTimely ==
  ASSUME NEW params \in ParamsType, Plain(params), ListenerOK, NEW took \in 0 .. scenario.processing
  PROVE  Timely(ServerStamps(params, took), params, now, now + took, adjusted)
<1> DEFINE ts == ServerStamps(params, took)
<1>1. now \in Nat /\ adjusted \in Nat /\ scenario \in Scenarios BY DEF ListenerOK
<1>2. scenario.processing \in 0 .. InvalidDuration - 1 BY <1>1, ExchangeAssumption
<1>3. InvalidDuration \in Nat BY DEF InvalidDuration
<1>4. took \in Nat /\ took < InvalidDuration BY <1>2, <1>3
<1>5. Stamped(ts, params) /\ StampedAt(ts, params, now, now + took, adjusted)
  BY <1>1, <1>4, ServerStampsAre
<1> HIDE DEF ts
<1>6. /\ now + took \in Nat /\ now <= now + took /\ now + took - now < InvalidDuration
      /\ adjusted \in 0 .. adjusted
  BY <1>1, <1>3, <1>4
<1>7. Timely(ts, params, now, now + took, adjusted) BY <1>1, <1>5, <1>6 DEF Timely
<1> QED BY <1>7 DEF ts

\* Echo keeps the invariant.
LEMMA EchoKeeps ==
  ASSUME Inv, GrantsFit, NEW d \in net, NEW took \in 0 .. scenario.processing, Echo(d, took)
  PROVE  Inv'
<1> USE DEF Inv
<1> DEFINE c == d.from
           token == client[c].token
           m == Heard(d)
           key == serving.key
           p == Received(d, packet)
           sc == conns[m.token]
           ts == ServerStamps(sc.params, took)
           reply == EchoReply(p, sc.params, sc.count + 1, ts, key)
           times == [came |-> now, left |-> now + took, payload |-> MeantPayload(d, sc.params)]
           new == Datagram(Server, c, reply, MeantReply(d, sc, ts), times)
<1>1. /\ ToServer(d) /\ Accepted(d, packet) /\ m.kind = "echo" /\ Owner(m.token) = c
      /\ now' = now + took /\ UNCHANGED <<scenario, adjusted, client>>
      /\ packet' = reply /\ net' = net \cup {new}
      /\ conns' = [conns EXCEPT ![m.token].count = @ + 1]
  BY DEF Echo, EchoReply
<1>2. /\ c \in Clients /\ EchoSent(d) /\ setup[c].key = key /\ c # Server /\ Tests(c)
  BY <1>1, AtServer, AgreedFacts DEF EchoSent
<1>3. PICK n, v, load :
         /\ m = EchoMeans(token, n)
         /\ Taken(p, v, load, key, {})
         /\ DOMAIN v = TestFields(Agreed(c), key) /\ v[fMagic] = Magic
         /\ Room(DOMAIN v) + Len(load) = Larger(Agreed(c).length, Room(DOMAIN v))
         /\ v[fConnToken] = Num("token", token) /\ v[fSeqno] = Num("seqno", n)
         /\ TestPayload(d, Agreed(c)) = load
  BY <1>1, Request
<1>4. m.token = token BY <1>3 DEF EchoMeans
<1>5. token \in DOMAIN conns /\ conns[token].client = c BY <1>1, <1>2, <1>4 DEF Owner
<1>6. /\ sc = [client |-> c, params |-> Agreed(c), count |-> sc.count]
      /\ sc.params = Agreed(c)
  BY <1>4, <1>5 DEF ConnsOK
<1>7. /\ Agreed(c) \in ParamsType /\ Agreed(c).length <= MTU /\ Agreed(c).length \in Int
      /\ GrantsFit
  BY <1>2, AgreedFacts DEF ParamsType
<1>8. /\ IsBuffer(packet) /\ HeaderLen <= Len(packet.array) /\ Len(p.array) = Len(packet.array)
      /\ Len(packet.array) = Larger(MTU, HeaderLen)
  BY <1>1, PacketReceived DEF ListenerOK
<1>9. Agreed(c).length <= Len(p.array)
  BY <1>7, <1>8, RoomOfHeader, ExchangeAssumption DEF Larger
<1>10. now \in Nat /\ adjusted \in Nat /\ took \in Nat
  <2>1. scenario \in Scenarios /\ now \in Nat /\ adjusted \in Nat BY DEF ListenerOK
  <2>2. scenario.processing \in 0 .. InvalidDuration - 1 /\ InvalidDuration \in Nat
    BY <2>1, ExchangeAssumption DEF InvalidDuration
  <2> QED BY <2>1, <2>2
<1>11. MeantReply(d, sc, ts) = ReplySays(token, n, Agreed(c), sc.count + 1, ts)
  BY <1>3, <1>6, MeantIs
<1>12. MeantPayload(d, sc.params) = ReplyLoad(Agreed(c), load)
  BY <1>3, <1>6 DEF MeantPayload, ReplyLoad
<1>13. Plain(Agreed(c)) => Timely(ts, Agreed(c), now, now + took, adjusted)
  BY <1>6, <1>7, StampsTimely
<1> DEFINE count == sc.count + 1
           q == EchoReply(p, Agreed(c), count, ts, key)
<1>14. reply = q BY <1>6
<1> HIDE DEF m, p, sc, ts, key, reply, token, count
<1>15. /\ IsBuffer(q) /\ Len(q.array) = Len(p.array)
       /\ ReplyBytes(Content(q), Agreed(c), token, n, count, ts, ReplyLoad(Agreed(c), load), key)
  BY <1>3, <1>7, <1>8, <1>9, EchoReplyIs
<1> HIDE DEF q
<1>16. IsBuffer(packet') /\ Len(packet'.array) = Len(packet.array) BY <1>1, <1>8, <1>14, <1>15
<1>17. /\ Clients' = Clients /\ setup' = setup /\ serving' = serving
       /\ \A b \in Clients : Agreed(b)' = Agreed(b)
  BY <1>1 DEF Clients, setup, serving, Agreed
<1>18. /\ DOMAIN conns' = DOMAIN conns
       /\ \A t \in DOMAIN conns : t # token => conns'[t] = conns[t]
       /\ conns'[token] = [sc EXCEPT !.count = @ + 1]
  BY <1>1, <1>4, <1>5 DEF sc
<1>19. conns'[token] = [client |-> c, params |-> Agreed(c), count |-> count]
  <2> DEFINE k == sc.count
  <2>1. sc = [client |-> c, params |-> Agreed(c), count |-> k] BY <1>6
  <2>2. conns'[token] = [sc EXCEPT !.count = k + 1] BY <1>18
  <2> HIDE DEF k
  <2> QED BY <2>1, <2>2 DEF count
<1>20. ConnsOK'
  <2> SUFFICES ASSUME NEW t \in DOMAIN conns'
               PROVE  /\ conns'[t] = [client |-> conns'[t].client, params |-> conns'[t].params,
                                      count |-> conns'[t].count]
                      /\ conns'[t].client \in Clients /\ conns'[t].params = Agreed(conns'[t].client)
    BY <1>17 DEF ConnsOK
  <2>1. CASE t = token BY <1>2, <1>19, <2>1
  <2>2. CASE t # token
    <3>1. t \in DOMAIN conns /\ conns'[t] = conns[t] BY <1>18, <2>2
    <3> QED BY <3>1 DEF ConnsOK
  <2> QED BY <2>1, <2>2
<1>21. \A b \in Clients : \A t : Connects(b, t) => Connects(b, t)'
  <2> SUFFICES ASSUME NEW b \in Clients, NEW t, Connects(b, t)
               PROVE  t \in DOMAIN conns' /\ conns'[t].client = b
    BY DEF Connects
  <2>1. t \in DOMAIN conns /\ conns[t].client = b BY DEF Connects
  <2>2. CASE t = token BY <1>5, <1>18, <1>19, <2>1, <2>2
  <2>3. CASE t # token BY <1>18, <2>1, <2>3
  <2> QED BY <2>2, <2>3
<1>22. ASSUME NEW e, e = new PROVE Sent(e)'
  <2>1. /\ e.from = Server /\ e.to = c /\ e.bytes = Content(q)
        /\ e.meant = ReplySays(token, n, Agreed(c), count, ts)
        /\ e.reply.came = now /\ e.reply.left = now + took
        /\ e.reply.payload = ReplyLoad(Agreed(c), load)
    BY <1>11, <1>12, <1>14, <1>22 DEF Datagram, count
  <2>2. ReplyBytes(e.bytes, Agreed(c), token, n, count, ts, e.reply.payload, key)
    BY <1>15, <2>1
  <2>3. ReplyTo(e, token, Agreed(c), key, adjusted) BY <1>13, <2>1, <2>2 DEF ReplyTo
  <2>4. Tests(c)' /\ client'[c].token = token BY <1>1, <1>2 DEF Tests, token
  <2>5. Replied(e)' BY <1>1, <1>2, <1>17, <2>1, <2>3, <2>4 DEF Replied, key
  <2> QED BY <2>5 DEF Sent
<1> HIDE DEF new
<1>23. \A e \in net' : e \in net \/ Sent(e)' BY <1>1, <1>22
<1>24. now' \in Nat /\ adjusted' \in Nat /\ adjusted <= adjusted' BY <1>1, <1>10
<1> QED BY <1>1, <1>16, <1>20, <1>21, <1>23, <1>24, OneServed

\* Every step keeps the invariant.
LEMMA StepOK ==
  ASSUME Inv, GrantsFit, [Next]_vars
  PROVE  Inv'
<1>1. ASSUME NEW c \in Clients, SendOpen(c) \/ SendEcho(c) \/ SendClose(c)
      PROVE  Inv'
  BY <1>1, SendOpenKeeps, SendEchoKeeps, SendCloseKeeps
<1>2. ASSUME NEW d \in net, ToServer(d), Drop(d) \/ Accept(d) \/ Close(d)
      PROVE  Inv'
  BY <1>2, DropKeeps, AcceptKeeps, CloseKeeps
<1>3. ASSUME NEW d \in net, NEW took \in 0 .. scenario.processing, Echo(d, took)
      PROVE  Inv'
  BY <1>3, EchoKeeps
<1>4. ASSUME NEW d \in net, ~ToServer(d), HearOpen(d) \/ HearReply(d)
      PROVE  Inv'
  BY <1>4, HearOpenKeeps, HearReplyKeeps
<1>5. CASE Tick \/ Adjust BY <1>5, TimeKeeps
<1>6. CASE UNCHANGED vars
  <2>1. UNCHANGED <<scenario, now, adjusted, net, packet, conns, client>> BY <1>6 DEF vars
  <2>2. now' \in Nat /\ adjusted' \in Nat /\ adjusted <= adjusted' BY <2>1 DEF Inv, ListenerOK
  <2>3. IsBuffer(packet') /\ Len(packet'.array) = Len(packet.array) BY <2>1 DEF Inv, ListenerOK
  <2>4. ConnsOK' BY <2>1 DEF Inv, ConnsOK, Clients, setup, Agreed
  <2>5. \A c \in Clients : \A t : Connects(c, t) => Connects(c, t)' BY <2>1 DEF Connects
  <2>6. \A e \in net' : e \in net \/ Sent(e)' BY <2>1
  <2> QED BY <2>1, <2>2, <2>3, <2>4, <2>5, <2>6, OneServed
<1> QED BY <1>1, <1>2, <1>3, <1>4, <1>5, <1>6 DEF Next

(* If what is granted fits into the listener's packet, the invariant holds always. *)
THEOREM InvariantHolds ==
  ASSUME GrantsFit
  PROVE  Spec => []Inv
<1>1. Init => Inv BY InitOK
<1>2. Inv /\ [Next]_vars => Inv' BY StepOK
<1> QED BY <1>1, <1>2, PTL DEF Spec

-----------------------------------------------------------------------------
(* What the invariant says of the properties *)

\* Length of an echo request.
LEMMA EchoesLen ==
  ASSUME NEW p, NEW params, NEW token, NEW n, NEW key, Echoes(p, params, token, n, key)
  PROVE  Len(Content(p)) = Larger(params.length, Room(TestFields(params, key)))
<1>1. PICK w, load : EchoBytes(Content(p), w, load, params, token, n, key) BY DEF Echoes
<1>2. /\ Signed(Content(p), w, load, key, {}) /\ DOMAIN w = TestFields(params, key)
      /\ Room(DOMAIN w) + Len(load) = Larger(params.length, Room(DOMAIN w))
  BY <1>1 DEF EchoBytes
<1>3. Len(Content(p)) = Room(DOMAIN w) + Len(load) BY <1>2, SignedLen
<1> QED BY <1>2, <1>3

\* The invariant implies AgreedTerms.
LEMMA AgreedByAll ==
  ASSUME Inv
  PROVE  AgreedTerms
<1> USE DEF Inv
<1> SUFFICES ASSUME NEW c \in Clients, client[c].pc = "test", client[c].token \in DOMAIN conns
             PROVE  LET me == client[c]
                        sc == conns[me.token]
                        width == Len(Content(me.send))
                    IN  /\ sc.client = c
                        /\ me.params = [sc.params EXCEPT !.length = width]
                        /\ sc.params.length <= width
  BY DEF AgreedTerms
<1> DEFINE sc == conns[client[c].token]
           params == Agreed(c)
           width == Larger(params.length, Room(TestFields(params, setup[c].key)))
<1>1. Connects(c, client[c].token) BY DEF ClientsOK
<1>2. sc.client = c /\ sc.params = params BY <1>1 DEF Connects, ConnsOK
<1>3. Tests(c) BY DEF Tests
<1>4. /\ client[c].params = [params EXCEPT !.length = width]
      /\ Echoes(client[c].send, params, client[c].token, client[c].seqno, setup[c].key)
  BY <1>3, ClientTests
<1>5. Len(Content(client[c].send)) = width BY <1>4, EchoesLen
<1>6. params.length <= width
  <2>1. params \in ParamsType BY AgreedFacts
  <2>2. params.length \in Int /\ Room(TestFields(params, setup[c].key)) \in Nat
    BY <2>1, TestFieldsAre DEF ParamsType
  <2> QED BY <2>2 DEF Larger
<1> HIDE DEF sc, width, params
<1> QED BY <1>2, <1>4, <1>5, <1>6 DEF sc

\* ReadAsMeant follows for plain stamps.
LEMMA MeantIsHeard ==
  ASSUME Inv, GrantsFit, GrantsPlain
  PROVE  ReadAsMeant
<1> USE DEF Inv
<1> SUFFICES ASSUME NEW d \in net, KeyOf(d.from) = KeyOf(d.to)
             PROVE  Heard(d) = d.meant
  BY DEF ReadAsMeant
<1>1. Sent(d) BY DEF NetOK
<1>2. Replied(d) => Plain(Agreed(d.to)) BY AgreedFacts DEF Replied
<1> QED
  BY <1>1, <1>2, OpenSentHeard, EchoSentHeard, CloseSentHeard, OpenedIsHeard, RepliedHeard DEF Sent

\* Bytes of a datagram that has no fields but those of an open or close packet.
LEMMA NoBody ==
  ASSUME NEW bytes, NEW vals, NEW load, NEW key, NEW fls, Signed(bytes, vals, load, key, fls),
         DOMAIN vals \in SUBSET (finit(key) \cup {fConnToken}),
         NEW t, fConnToken \in DOMAIN vals => vals[fConnToken] = Num("token", t),
         \A i \in 1 .. Len(load) : load[i][1] # "body",
         NEW i \in DOMAIN bytes
  PROVE  bytes[i][1] # "body"
<1>1. /\ AnySeq(bytes) /\ Len(bytes) = Room(DOMAIN vals) + Len(load)
      /\ DOMAIN vals \in SUBSET Fields /\ Room(DOMAIN vals) \in Nat /\ Len(load) \in Nat
  BY SignedLen
<1>2. i \in 1 .. Len(bytes) BY <1>1, SeqFacts
<1>3. CASE i <= Room(DOMAIN vals)
  <2>1. i \in 1 .. Room(DOMAIN vals) BY <1>1, <1>2, <1>3
  <2>2. PICK f \in DOMAIN vals : \E k \in 1 .. FCaps[f] : i = Start(DOMAIN vals, f) + k
    BY <1>1, <2>1, StartCovers
  <2>3. PICK k \in 1 .. FCaps[f] : i = Start(DOMAIN vals, f) + k BY <2>2
  <2>4. bytes[i] = Byte(vals[f], k) BY <2>3 DEF Signed, Lay
  <2>5. vals[f][1] # "body"
    <3>1. f \in {fMagic, fFlags, fConnToken} \/ (f = fHMAC /\ key # NoKey) BY DEF finit
    <3>2. CASE f = fMagic BY <3>2 DEF Signed, Magic
    <3>3. CASE f = fFlags BY <3>3 DEF Signed, FlagVal, Zero
    <3>4. CASE f = fConnToken BY <3>4 DEF Num, Zero
    <3>5. CASE f = fHMAC /\ key # NoKey BY <3>5 DEF Signed, Hash
    <3> QED BY <3>1, <3>2, <3>3, <3>4, <3>5
  <2> QED BY <2>4, <2>5 DEF Byte, ZeroByte
<1>4. CASE i > Room(DOMAIN vals)
  <2> DEFINE j == i - Room(DOMAIN vals)
  <2>1. j \in 1 .. Len(load) /\ i = Room(DOMAIN vals) + j BY <1>1, <1>2, <1>4
  <2>2. bytes[i] = load[j] BY <2>1 DEF Signed, Lay
  <2> QED BY <2>1, <2>2
<1> QED BY <1>1, <1>2, <1>3, <1>4

\* Parameters are no part of a client's payload.
LEMMA EncodedNoBody ==
  ASSUME NEW params
  PROVE  \A i \in 1 .. Len(Encoded(params)) : Encoded(params)[i][1] # "body"
  BY EncodedCarries DEF Carries, ParamByte

\* PayloadReturned follows for plain stamps.
LEMMA PayloadIsReturned ==
  ASSUME Inv, GrantsFit, GrantsPlain
  PROVE  PayloadReturned
<1> USE DEF Inv
<1> SUFFICES ASSUME NEW d \in net
             PROVE  /\ d.meant.kind = "reply" => TestPayload(d, client[d.to].params) = d.reply.payload
                    /\ d.meant.kind \notin {"echo", "reply"} =>
                           \A i \in DOMAIN d.bytes : d.bytes[i][1] # "body"
  BY DEF PayloadReturned
<1>1. CASE OpenSent(d)
  <2>1. d.meant.kind = "open" BY <1>1 DEF OpenSent, OpenMeans
  <2> DEFINE key == setup[d.from].key
             asked == setup[d.from].asked
  <2>2. PICK vals : DOMAIN vals = finit(key) /\ Signed(d.bytes, vals, Encoded(asked), key, {"open"})
    BY <1>1 DEF OpenSent, IsSigned
  <2>3. fConnToken \notin finit(key) BY DEF finit, fMagic, fFlags, fHMAC, fConnToken
  <2> HIDE DEF key, asked
  <2>4. \A i \in DOMAIN d.bytes : d.bytes[i][1] # "body" BY <2>2, <2>3, NoBody, EncodedNoBody
  <2> QED BY <2>1, <2>4
<1>2. CASE EchoSent(d)
  <2>1. d.meant.kind = "echo" BY <1>2 DEF EchoSent, EchoMeans
  <2> QED BY <2>1
<1>3. CASE CloseSent(d)
  <2>1. d.meant.kind = "close" BY <1>3 DEF CloseSent, CloseMeans
  <2> DEFINE key == setup[d.from].key
             token == client[d.from].token
  <2>2. PICK vals : /\ DOMAIN vals = fRequest \cup finit(key) /\ vals[fConnToken] = Num("token", token)
                    /\ Signed(d.bytes, vals, <<>>, key, {"close"})
    BY <1>3 DEF CloseSent, IsSignedFor
  <2>3. DOMAIN vals \in SUBSET (finit(key) \cup {fConnToken}) BY <2>2 DEF fRequest, finit
  <2> HIDE DEF key, token
  <2> DEFINE load == <<>>
  <2>4. \A i \in 1 .. Len(load) : load[i][1] # "body" OBVIOUS
  <2>5. Signed(d.bytes, vals, load, key, {"close"}) BY <2>2
  <2> HIDE DEF load
  <2>6. \A i \in DOMAIN d.bytes : d.bytes[i][1] # "body" BY <2>2, <2>3, <2>4, <2>5, NoBody
  <2> QED BY <2>1, <2>6
<1>4. CASE Opened(d)
  <2> DEFINE key == serving.key
             params == Agreed(d.to)
  <2>1. PICK t : /\ d.meant = OpenReplyMeans(t, params)
                 /\ IsSignedFor(d.bytes, t, finit(key) \cup {fConnToken}, Encoded(params), key,
                                {"open", "reply"})
    BY <1>4 DEF Opened
  <2>2. PICK vals : /\ DOMAIN vals = finit(key) \cup {fConnToken} /\ vals[fConnToken] = Num("token", t)
                    /\ Signed(d.bytes, vals, Encoded(params), key, {"open", "reply"})
    BY <2>1 DEF IsSignedFor
  <2>3. d.meant.kind = "opened" BY <2>1 DEF OpenReplyMeans
  <2> HIDE DEF key, params
  <2>4. \A i \in DOMAIN d.bytes : d.bytes[i][1] # "body" BY <2>2, NoBody, EncodedNoBody
  <2> QED BY <2>3, <2>4
<1>5. CASE Replied(d)
  <2> DEFINE params == Agreed(d.to)
             key == serving.key
  <2>1. /\ d.to \in Clients /\ d.to # Server /\ KeyOf(d.to) = key /\ Tests(d.to)
        /\ params \in ParamsType /\ Plain(params)
    BY <1>5, AgreedFacts DEF Replied
  <2>2. PICK n, count, ts, vals :
           /\ d.meant = ReplySays(client[d.to].token, n, params, count, ts)
           /\ DOMAIN vals = TestFields(params, key)
           /\ Arrives(d, vals, d.reply.payload, {"reply"})
    BY <1>5, <2>1, RepliedArrives
  <2>3. d.meant.kind = "reply" BY <2>2 DEF ReplySays, ReplyMeans
  <2>4. TestFields(client[d.to].params, KeyOf(d.to)) = TestFields(params, key)
    <3>1. client[d.to].params =
             [params EXCEPT !.length = Larger(params.length, Room(TestFields(params, setup[d.to].key)))]
      BY <2>1, ClientTests
    <3> HIDE DEF params, key
    <3> QED BY <2>1, <3>1, HeardAnyLength
  <2>5. IsBuffer(Buffer(d.to)) BY <2>1, BufferFacts
  <2> HIDE DEF params, key
  <2>6. TestPayload(d, client[d.to].params) = d.reply.payload BY <2>2, <2>4, <2>5, PayloadOf
  <2> QED BY <2>3, <2>6
<1> QED BY <1>1, <1>2, <1>3, <1>4, <1>5 DEF NetOK, Sent

\* When a request arrived and when its reply left, by a time that the server stamped.
ArrivedAt(at, came, left) ==
  IF at = "midpoint" THEN came + (left - came) \div 2 ELSE IF at = "send" THEN left ELSE came
LeftAt(at, came, left) ==
  IF at = "midpoint" THEN came + (left - came) \div 2 ELSE IF at = "receive" THEN came ELSE left

\* Clocks and stamps that can be asked for.
LEMMA KindsAre ==
  ASSUME NEW params \in ParamsType
  PROVE  /\ ClockKinds[params.clock] \in {{"wall"}, {"mono"}, {"wall", "mono"}}
         /\ params.stamp \in {"none", "send", "receive", "both", "midpoint"}
  BY DEF ParamsType, ClockKinds, Stamps

\* What the server's times are, of those the delays are computed from.
LEMMA TimesRead ==
  ASSUME NEW params \in ParamsType, NEW ts, NEW came, NEW left, NEW upto \in Nat,
         Timely(ts, params, came, left, upto)
  PROVE  /\ \A k \in Clocks :
              /\ ts.receive[k] # 0 \/ ts.send[k] # 0 <=>
                   params.stamp # "none" /\ k \in ClockKinds[params.clock]
              /\ ts.receive[k] # 0 /\ ts.send[k] # 0 <=>
                   params.stamp \in {"both", "midpoint"} /\ k \in ClockKinds[params.clock]
         /\ \E a \in 0 .. upto :
              /\ params.stamp # "none" =>
                   \A k \in ClockKinds[params.clock] :
                      /\ BestReceive(ts)[k] = Shown(ArrivedAt(params.stamp, came, left), k, a)
                      /\ BestSend(ts)[k] = Shown(LeftAt(params.stamp, came, left), k, a)
              /\ params.stamp = "both" =>
                   \A k \in ClockKinds[params.clock] :
                      ts.receive[k] = Shown(came, k, a) /\ ts.send[k] = Shown(left, k, a)
<1> DEFINE at == params.stamp
           kinds == ClockKinds[params.clock]
<1>1. /\ kinds \in {{"wall"}, {"mono"}, {"wall", "mono"}}
      /\ at \in {"none", "send", "receive", "both", "midpoint"}
  BY KindsAre
<1>2. \A k \in Clocks :
         /\ ts.receive[k] # 0 <=> k \in kinds /\ at \in {"receive", "both", "midpoint"}
         /\ ts.send[k] # 0 <=> k \in kinds /\ at \in {"send", "both", "midpoint"}
         /\ at = "midpoint" => ts.send[k] = ts.receive[k]
  BY DEF Timely, Stamped
<1>3. PICK a \in 0 .. upto : StampedAt(ts, params, came, left, a) BY DEF Timely
<1>4. \A k \in kinds :
         /\ at \in {"receive", "both"} => ts.receive[k] = Shown(came, k, a)
         /\ at \in {"send", "both"} => ts.send[k] = Shown(left, k, a)
         /\ at = "midpoint" =>
               /\ ts.receive[k] = Shown(came + (left - came) \div 2, k, a)
               /\ ts.send[k] = Shown(came + (left - came) \div 2, k, a)
  BY <1>3 DEF StampedAt
<1> HIDE DEF at, kinds
<1>5. IsZero(ts.receive) <=> at \in {"none", "send"}
  BY <1>1, <1>2 DEF IsZero, Clocks
<1>6. IsZero(ts.send) <=> at \in {"none", "receive"}
  BY <1>1, <1>2 DEF IsZero, Clocks
<1>7. at # "none" => \A k \in kinds :
         /\ BestReceive(ts)[k] = Shown(ArrivedAt(at, came, left), k, a)
         /\ BestSend(ts)[k] = Shown(LeftAt(at, came, left), k, a)
  <2> SUFFICES ASSUME at # "none", NEW k \in kinds
               PROVE  /\ BestReceive(ts)[k] = Shown(ArrivedAt(at, came, left), k, a)
                      /\ BestSend(ts)[k] = Shown(LeftAt(at, came, left), k, a)
    OBVIOUS
  <2>1. CASE at = "send" BY <1>4, <1>5, <1>6, <2>1 DEF BestReceive, BestSend, ArrivedAt, LeftAt
  <2>2. CASE at = "receive" BY <1>4, <1>5, <1>6, <2>2 DEF BestReceive, BestSend, ArrivedAt, LeftAt
  <2>3. CASE at = "both" BY <1>4, <1>5, <1>6, <2>3 DEF BestReceive, BestSend, ArrivedAt, LeftAt
  <2>4. CASE at = "midpoint" BY <1>4, <1>5, <1>6, <2>4 DEF BestReceive, BestSend, ArrivedAt, LeftAt
  <2> QED BY <1>1, <2>1, <2>2, <2>3, <2>4
<1>8. \A k \in Clocks :
         /\ ts.receive[k] # 0 \/ ts.send[k] # 0 <=> at # "none" /\ k \in kinds
         /\ ts.receive[k] # 0 /\ ts.send[k] # 0 <=> at \in {"both", "midpoint"} /\ k \in kinds
  BY <1>1, <1>2
<1>9. at = "both" => \A k \in kinds : ts.receive[k] = Shown(came, k, a) /\ ts.send[k] = Shown(left, k, a)
  BY <1>4
<1> QED BY <1>3, <1>7, <1>8, <1>9 DEF at, kinds

\* What the server took, of a round trip whose times it stamped both.
LEMMA RTTIs ==
  ASSUME NEW params \in ParamsType, NEW r, NEW sent \in Nat, NEW upto \in Nat,
         Measured(r, sent, params, upto), Plain(params)
  PROVE  RTT(r) = r.got - sent - (IF params.stamp = "both" THEN r.left - r.came ELSE 0)
<1> DEFINE at == params.stamp
           kinds == ClockKinds[params.clock]
           ts == r.server
           spt == ServerProcessingTime(r)
<1>1. Timely(ts, params, r.came, r.left, upto) /\ r.got \in Nat BY DEF Measured
<1>2. /\ r.came \in Nat /\ r.left \in Nat /\ r.came <= r.left
      /\ r.left - r.came < InvalidDuration
  BY <1>1 DEF Timely
<1>3. /\ \A k \in Clocks : ts.receive[k] # 0 /\ ts.send[k] # 0 <=> at \in {"both", "midpoint"} /\ k \in kinds
      /\ at = "both" => \E a \in 0 .. upto : \A k \in kinds :
            ts.receive[k] = Shown(r.came, k, a) /\ ts.send[k] = Shown(r.left, k, a)
  BY <1>1, TimesRead
<1>4. \A k \in Clocks : at = "midpoint" => ts.send[k] = ts.receive[k]
  BY <1>1 DEF Timely, Stamped
<1>5. kinds \in {{"wall"}, {"mono"}, {"wall", "mono"}} BY KindsAre
<1>6. \A k \in Clocks : ServerClock[k] \in Nat /\ ClientClock[k] \in Nat BY ExchangeAssumption
<1>7. r.client.receive.mono - r.client.send.mono = r.got - sent
  BY <1>1, <1>6 DEF Measured, ClientNow, Clocks
<1>8. InvalidDuration \in Nat /\ InvalidDuration > 0 BY DEF InvalidDuration
<1>9. \A k \in kinds : k \in Clocks BY <1>5 DEF Clocks
<1>10. CASE at = "both"
  <2>1. PICK a \in 0 .. upto : \A k \in kinds :
           ts.receive[k] = Shown(r.came, k, a) /\ ts.send[k] = Shown(r.left, k, a)
    BY <1>3, <1>10
  <2>2. \A k \in kinds : ts.send[k] - ts.receive[k] = r.left - r.came
    BY <1>2, <1>6, <1>9, <2>1 DEF Shown
  <2> HIDE DEF at, kinds, ts
  <2>3. spt = r.left - r.came
    BY <1>3, <1>5, <1>10, <2>2 DEF ServerProcessingTime, Clocks, ts
  <2>4. spt # InvalidDuration BY <1>2, <1>8, <2>3
  <2> HIDE DEF spt
  <2> QED BY <1>7, <1>10, <2>3, <2>4 DEF RTT, at, spt
<1>11. CASE at = "midpoint"
  <2>1. \A k \in kinds : ts.send[k] - ts.receive[k] = 0
    <3> SUFFICES ASSUME NEW k \in kinds PROVE ts.send[k] - ts.receive[k] = 0 OBVIOUS
    <3>1. PICK a \in 0 .. upto : StampedAt(ts, params, r.came, r.left, a) BY <1>1 DEF Timely
    <3>2. ts.receive[k] = Shown(r.came + (r.left - r.came) \div 2, k, a)
      BY <1>11, <3>1 DEF StampedAt
    <3>3. Shown(r.came + (r.left - r.came) \div 2, k, a) \in Int
      BY <1>2, <1>6, <1>9 DEF Shown
    <3> QED BY <1>4, <1>9, <1>11, <3>2, <3>3
  <2> HIDE DEF at, kinds, ts
  <2>2. spt = 0
    BY <1>3, <1>5, <1>11, <2>1 DEF ServerProcessingTime, Clocks, ts
  <2>3. spt # InvalidDuration BY <1>8, <2>2
  <2> HIDE DEF spt
  <2> QED BY <1>1, <1>7, <1>11, <2>2, <2>3 DEF RTT, at, spt
<1>12. CASE at \notin {"both", "midpoint"}
  <2> HIDE DEF at, kinds, ts
  <2>1. spt = InvalidDuration BY <1>3, <1>12 DEF ServerProcessingTime, Clocks, ts
  <2> HIDE DEF spt
  <2> QED BY <1>1, <1>7, <1>12, <2>1 DEF RTT, at, spt
<1> QED BY <1>10, <1>11, <1>12

\* What a clock that was stamped shows of each way, with the two hosts' offset in it.
Ways(r, sent, params, upto) ==
  \E a \in 0 .. upto : \A k \in ClockKinds[params.clock] :
     /\ SendDiff(r, k) = ArrivedAt(params.stamp, r.came, r.left) - sent
                           + (Shown(0, k, a) - ClientClock[k])
     /\ ReceiveDiff(r, k) = r.got - LeftAt(params.stamp, r.came, r.left)
                           - (Shown(0, k, a) - ClientClock[k])

\* Each way differs from the true one by the offset of the two clocks.
LEMMA WaysAre ==
  ASSUME NEW params \in ParamsType, NEW r, NEW sent \in Nat, NEW upto \in Nat,
         Measured(r, sent, params, upto), Plain(params), params.stamp # "none"
  PROVE  /\ Ways(r, sent, params, upto)
         /\ \A k \in Clocks : Timestamped(r, k) <=> k \in ClockKinds[params.clock]
<1> DEFINE at == params.stamp
           kinds == ClockKinds[params.clock]
           ts == r.server
           x == ArrivedAt(at, r.came, r.left)
           y == LeftAt(at, r.came, r.left)
<1>1. Timely(ts, params, r.came, r.left, upto) /\ r.got \in Nat BY DEF Measured
<1>2. r.came \in Nat /\ r.left \in Nat BY <1>1 DEF Timely
<1>3. PICK a \in 0 .. upto : \A k \in kinds :
         BestReceive(ts)[k] = Shown(x, k, a) /\ BestSend(ts)[k] = Shown(y, k, a)
  BY <1>1, TimesRead
<1>4. \A k \in Clocks : Timestamped(r, k) <=> k \in kinds BY <1>1, TimesRead DEF Timestamped
<1>5. x \in Int /\ y \in Int BY <1>2 DEF ArrivedAt, LeftAt
<1> HIDE DEF x, y
<1>6. \A k \in kinds :
         /\ SendDiff(r, k) = x - sent + (Shown(0, k, a) - ClientClock[k])
         /\ ReceiveDiff(r, k) = r.got - y - (Shown(0, k, a) - ClientClock[k])
  <2> SUFFICES ASSUME NEW k \in kinds
               PROVE  /\ SendDiff(r, k) = x - sent + (Shown(0, k, a) - ClientClock[k])
                      /\ ReceiveDiff(r, k) = r.got - y - (Shown(0, k, a) - ClientClock[k])
    OBVIOUS
  <2>1. k \in Clocks BY KindsAre DEF Clocks
  <2>2. ServerClock[k] \in Nat /\ ClientClock[k] \in Nat BY <2>1, ExchangeAssumption
  <2>3. r.client.send[k] = sent + ClientClock[k] /\ r.client.receive[k] = r.got + ClientClock[k]
    BY <2>1 DEF Measured, ClientNow
  <2>4. Shown(x, k, a) = x + Shown(0, k, a) /\ Shown(y, k, a) = y + Shown(0, k, a)
        /\ Shown(0, k, a) \in Int
    BY <1>5, <2>2 DEF Shown
  <2> DEFINE s == Shown(0, k, a)
  <2>5. /\ SendDiff(r, k) = (x + s) - (sent + ClientClock[k])
        /\ ReceiveDiff(r, k) = (r.got + ClientClock[k]) - (y + s)
    BY <1>3, <2>3, <2>4 DEF SendDiff, ReceiveDiff
  <2>6. s \in Int BY <2>4
  <2> HIDE DEF s, kinds
  <2>7. /\ (x + s) - (sent + ClientClock[k]) = x - sent + (s - ClientClock[k])
        /\ (r.got + ClientClock[k]) - (y + s) = r.got - y - (s - ClientClock[k])
    BY <1>1, <1>5, <2>2, <2>6
  <2> QED BY <2>5, <2>7 DEF s
<1> QED BY <1>4, <1>6 DEF Ways, x, y

\* In the sum of both ways the offset is gone.
LEMMA DelaysAdd ==
  ASSUME NEW params \in ParamsType, NEW r, NEW sent \in Nat, NEW upto \in Nat,
         Measured(r, sent, params, upto), Plain(params), params.stamp # "none",
         "wall" \in ClockKinds[params.clock]
  PROVE  SendDelay(r) + ReceiveDelay(r) = RTT(r)
<1> DEFINE at == params.stamp
           x == ArrivedAt(at, r.came, r.left)
           y == LeftAt(at, r.came, r.left)
<1>1. /\ \A k \in Clocks : Timestamped(r, k) <=> k \in ClockKinds[params.clock]
      /\ Ways(r, sent, params, upto)
  BY WaysAre
<1>2. SendDelay(r) = SendDiff(r, "wall") /\ ReceiveDelay(r) = ReceiveDiff(r, "wall")
  BY <1>1 DEF SendDelay, ReceiveDelay, Clocks
<1>3. PICK a \in 0 .. upto :
         /\ SendDiff(r, "wall") = x - sent + (Shown(0, "wall", a) - ClientClock["wall"])
         /\ ReceiveDiff(r, "wall") = r.got - y - (Shown(0, "wall", a) - ClientClock["wall"])
  BY <1>1 DEF Ways
<1>4. r.got \in Nat /\ r.came \in Nat /\ r.left \in Nat BY DEF Measured, Timely
<1>5. Shown(0, "wall", a) - ClientClock["wall"] \in Int
  BY ExchangeAssumption DEF Shown, Clocks
<1> DEFINE s == Shown(0, "wall", a) - ClientClock["wall"]
<1>6. at \in {"send", "receive", "both", "midpoint"} BY KindsAre
<1>7. x \in Int /\ y \in Int /\ x - y = IF at = "both" THEN r.came - r.left ELSE 0
  BY <1>4, <1>6 DEF ArrivedAt, LeftAt
<1>8. RTT(r) = r.got - sent - (IF at = "both" THEN r.left - r.came ELSE 0) BY RTTIs
<1>9. s \in Int BY <1>5
<1>10. SendDelay(r) = x - sent + s /\ ReceiveDelay(r) = r.got - y - s BY <1>2, <1>3
<1> HIDE DEF at, x, y, s
<1> QED BY <1>4, <1>7, <1>8, <1>9, <1>10

\* As it is in the difference of two delays of the same way.
LEMMA IPDVIs ==
  ASSUME NEW params \in ParamsType, Plain(params), params.stamp # "none", NEW upto \in Nat,
         NEW r, NEW sent \in Nat, Measured(r, sent, params, upto),
         NEW p, NEW before \in Nat, Measured(p, before, params, upto),
         "mono" \in ClockKinds[params.clock] \/ upto = 0
  PROVE  LET x(q) == ArrivedAt(params.stamp, q.came, q.left)
             y(q) == LeftAt(params.stamp, q.came, q.left)
         IN  /\ SendIPDVSince(r, p) = (x(r) - sent) - (x(p) - before)
             /\ ReceiveIPDVSince(r, p) = (r.got - y(r)) - (p.got - y(p))
<1> DEFINE kinds == ClockKinds[params.clock]
           k == BestClock(r, p)
           xr == ArrivedAt(params.stamp, r.came, r.left)
           yr == LeftAt(params.stamp, r.came, r.left)
           xp == ArrivedAt(params.stamp, p.came, p.left)
           yp == LeftAt(params.stamp, p.came, p.left)
<1>1. /\ Ways(r, sent, params, upto) /\ Ways(p, before, params, upto)
      /\ \A c \in Clocks : (Timestamped(r, c) <=> c \in kinds) /\ (Timestamped(p, c) <=> c \in kinds)
  BY WaysAre
<1>2. k = IF "mono" \in kinds THEN "mono" ELSE "wall" BY <1>1 DEF BestClock, Clocks
<1>3. k \in kinds /\ k \in Clocks BY <1>2, KindsAre DEF Clocks
<1> HIDE DEF k
<1>4. PICK a \in 0 .. upto :
         /\ SendDiff(r, k) = xr - sent + (Shown(0, k, a) - ClientClock[k])
         /\ ReceiveDiff(r, k) = r.got - yr - (Shown(0, k, a) - ClientClock[k])
  BY <1>1, <1>3 DEF Ways
<1>5. PICK b \in 0 .. upto :
         /\ SendDiff(p, k) = xp - before + (Shown(0, k, b) - ClientClock[k])
         /\ ReceiveDiff(p, k) = p.got - yp - (Shown(0, k, b) - ClientClock[k])
  BY <1>1, <1>3 DEF Ways
<1>6. Shown(0, k, a) = Shown(0, k, b) BY <1>2 DEF Shown
<1>7. Shown(0, k, a) - ClientClock[k] \in Int BY <1>3, ExchangeAssumption DEF Shown
<1>8. /\ r.got \in Nat /\ r.came \in Nat /\ r.left \in Nat
      /\ p.got \in Nat /\ p.came \in Nat /\ p.left \in Nat
  BY DEF Measured, Timely
<1>9. xr \in Int /\ yr \in Int /\ xp \in Int /\ yp \in Int BY <1>8 DEF ArrivedAt, LeftAt
<1> DEFINE s == Shown(0, k, a) - ClientClock[k]
<1>10. /\ SendIPDVSince(r, p) = (xr - sent + s) - (xp - before + s)
       /\ ReceiveIPDVSince(r, p) = (r.got - yr - s) - (p.got - yp - s)
  BY <1>4, <1>5, <1>6 DEF SendIPDVSince, ReceiveIPDVSince, k
<1>11. s \in Int BY <1>7
<1> HIDE DEF s, xr, yr, xp, yp
<1>12. /\ SendIPDVSince(r, p) = (xr - sent) - (xp - before)
       /\ ReceiveIPDVSince(r, p) = (r.got - yr) - (p.got - yp)
  BY <1>8, <1>9, <1>10, <1>11
<1> QED BY <1>12 DEF xr, yr, xp, yp

\* DelaysTrue follows.
LEMMA DelaysAreTrue ==
  ASSUME Inv, GrantsPlain
  PROVE  DelaysTrue
<1> USE DEF Inv
<1> SUFFICES
      ASSUME NEW c \in Clients, NEW n \in DOMAIN client[c].rtds
      PROVE  LET me == client[c]
                 at == me.params.stamp
                 kinds == ClockKinds[me.params.clock]
                 r  == me.rtds[n]
                 p  == me.rtds[n - 1]
                 Middle(x) == x.came + (x.left - x.came) \div 2
                 Arrived(x) == IF at = "midpoint" THEN Middle(x) ELSE IF at = "send" THEN x.left ELSE x.came
                 Left(x) == IF at = "midpoint" THEN Middle(x) ELSE IF at = "receive" THEN x.came ELSE x.left
                 Out(x, i) == Arrived(x) - me.sent[i + 1]
                 Back(x) == x.got - Left(x)
             IN  /\ RTT(r) = r.got - me.sent[n + 1] - (IF at = "both" THEN r.left - r.came ELSE 0)
                 /\ at # "none" /\ "wall" \in kinds => SendDelay(r) + ReceiveDelay(r) = RTT(r)
                 /\ at # "none" /\ n - 1 \in DOMAIN me.rtds /\ ("mono" \in kinds \/ adjusted = 0) =>
                        /\ SendIPDVSince(r, p) = Out(r, n) - Out(p, n - 1)
                        /\ ReceiveIPDVSince(r, p) = Back(r) - Back(p)
  BY DEF DelaysTrue
<1> DEFINE me == client[c]
           params == Agreed(c)
           r == me.rtds[n]
           p == me.rtds[n - 1]
<1>1. ClientOK(me, params, setup[c].key, adjusted) BY ClientFields
<1>2. /\ me.seqno \in Nat /\ me.sent \in Seq(Nat) /\ Len(me.sent) = me.seqno
      /\ \A i \in DOMAIN me.rtds : i \in 0 .. me.seqno - 1 /\ Measured(me.rtds[i], me.sent[i + 1], params, adjusted)
      /\ me.pc \in {"new", "opening"} => me.seqno = 0
      /\ me.pc \in {"new", "opening", "test", "closed"}
  BY <1>1 DEF ClientOK
<1>3. n \in 0 .. me.seqno - 1 /\ Measured(r, me.sent[n + 1], params, adjusted) BY <1>2
<1>4. Tests(c) BY <1>2, <1>3 DEF Tests
<1>5. params \in ParamsType /\ Plain(params) /\ adjusted \in Nat BY AgreedFacts DEF ListenerOK
<1>6. me.params.stamp = params.stamp /\ me.params.clock = params.clock
  <2>1. me.params = [params EXCEPT !.length = Larger(params.length, Room(TestFields(params, setup[c].key)))]
    BY <1>4, ClientTests
  <2> HIDE DEF me, params
  <2> QED BY <1>5, <2>1, HeardAnyLength
<1>7. \A i \in 0 .. me.seqno - 1 : me.sent[i + 1] \in Nat
  <2> DEFINE sent == me.sent
             k == me.seqno
  <2>1. sent \in Seq(Nat) /\ Len(sent) = k /\ k \in Nat BY <1>2
  <2> HIDE DEF sent, k
  <2>2. \A i \in 0 .. k - 1 : sent[i + 1] \in Nat BY <2>1
  <2> QED BY <2>2 DEF sent, k
<1> HIDE DEF me, params
<1> DEFINE at == params.stamp
           kinds == ClockKinds[params.clock]
           x(q) == ArrivedAt(at, q.came, q.left)
           y(q) == LeftAt(at, q.came, q.left)
<1>8. RTT(r) = r.got - me.sent[n + 1] - (IF at = "both" THEN r.left - r.came ELSE 0)
  BY <1>3, <1>5, <1>7, RTTIs
<1>9. at # "none" /\ "wall" \in kinds => SendDelay(r) + ReceiveDelay(r) = RTT(r)
  BY <1>3, <1>5, <1>7, DelaysAdd
<1>10. ASSUME at # "none", n - 1 \in DOMAIN me.rtds, "mono" \in kinds \/ adjusted = 0
       PROVE  /\ SendIPDVSince(r, p) = (x(r) - me.sent[n + 1]) - (x(p) - me.sent[n - 1 + 1])
              /\ ReceiveIPDVSince(r, p) = (r.got - y(r)) - (p.got - y(p))
  <2> DEFINE m == n - 1
  <2>1. m \in 0 .. me.seqno - 1 /\ Measured(p, me.sent[m + 1], params, adjusted) BY <1>2, <1>10
  <2>2. me.sent[m + 1] \in Nat /\ me.sent[n + 1] \in Nat BY <1>3, <1>7, <2>1
  <2> HIDE DEF m, r, p
  <2>3. /\ SendIPDVSince(r, p) = (x(r) - me.sent[n + 1]) - (x(p) - me.sent[m + 1])
        /\ ReceiveIPDVSince(r, p) = (r.got - y(r)) - (p.got - y(p))
    BY <1>3, <1>5, <1>10, <2>1, <2>2, IPDVIs
  <2> QED BY <2>3 DEF m
<1> HIDE DEF r, p
<1> QED BY <1>6, <1>8, <1>9, <1>10 DEF me, r, p, ArrivedAt, LeftAt

-----------------------------------------------------------------------------
(* Theorems *)

(* If the lengths that are granted fit into the listener's packet, a datagram is taken if
   and only if both ends have the same key: Client.receive and the listener's receive
   (readReset and validate) refuse nothing that was sent to them under their key, whatever
   their packet was used for before, and nothing else.                                    *)
THEOREM KeysAlwaysDecide ==
  ASSUME GrantsFit
  PROVE  Spec => []KeysDecide
<1>1. Inv => KeysDecide BY AcceptedKeys DEF Inv, KeysDecide
<1> QED BY <1>1, InvariantHolds, PTL

(* A client that tests and the connection of its token (NewSconn, newCconn's open) have
   agreed on the same parameters, but for the length that the client makes its own.      *)
THEOREM TermsAlwaysAgreed ==
  ASSUME GrantsFit
  PROVE  Spec => []AgreedTerms
<1>1. Inv => AgreedTerms BY AgreedByAll
<1> QED BY <1>1, InvariantHolds, PTL

(* If moreover the stamps that are granted are all sent back, what a datagram is read to
   say (AsRequest, AsEcho, AsReply and the getters on the received bytes) is what its
   sender meant by it.                                                                   *)
THEOREM AlwaysReadAsMeant ==
  ASSUME GrantsFit, GrantsPlain
  PROVE  Spec => []ReadAsMeant
<1>1. Inv => ReadAsMeant BY MeantIsHeard
<1> QED BY <1>1, InvariantHolds, PTL

(* Then a reply has its own request's payload, or the server's filling, though serveEcho
   builds it in place in the packet that all requests share, and no other kind of
   datagram has any of a client's.                                                      *)
THEOREM PayloadAlwaysReturned ==
  ASSUME GrantsFit, GrantsPlain
  PROVE  Spec => []PayloadReturned
<1>1. Inv => PayloadReturned BY PayloadIsReturned
<1> QED BY <1>1, InvariantHolds, PTL

(* And the delays that RoundTripData computes are those of the network, whatever the four
   clocks show and however far the server's wall clock is put forward.                   *)
THEOREM DelaysAlwaysTrue ==
  ASSUME GrantsFit, GrantsPlain
  PROVE  Spec => []DelaysTrue
<1>1. Inv => DelaysTrue BY DelaysAreTrue
<1> QED BY <1>1, InvariantHolds, PTL
=============================================================================
