---------------------------- MODULE FieldBuffer ----------------------------
(***************************************************************************)
(* A packet's buffer (fbuf.go): a byte array of fixed capacity, of which   *)
(* the first len bytes are the packet, and the fields that are set in it,  *)
(* one after the other from the start; what follows them is the payload.   *)
(*                                                                         *)
(* A field's length is 0 or its capacity, so the set of the fields that    *)
(* are set says where each one is: pos of the code's field is Pos, and its *)
(* len its capacity or 0.  A byte is the value that was encoded in it and  *)
(* its place in the encoding, so that what is read at another place than   *)
(* it was written, or in part, shows.  Bytes beyond len stay in the array. *)
(***************************************************************************)
EXTENDS Integers, Sequences, FiniteSets

CONSTANTS FCaps     \* fcaps, the capacities of the fields in their order

ASSUME FieldBufferAssumption == FCaps \in Seq(Nat \ {0})

Fields == DOMAIN FCaps

\* The sum of the fields' capacities.
Room(fidxs) == Cardinality(UNION {{f} \X (1 .. FCaps[f]) : f \in fidxs})

HeaderLen == Room(Fields)               \* maxHeaderLen

\* Values, and their bytes.
Zero == <<"zero", 0>>
Garbled == <<"garbled", 0>>
ZeroByte == <<"zero", 0, 0>>

Bytes(val, width) ==
    [k \in 1 .. width |-> IF val = Zero THEN ZeroByte ELSE <<val[1], val[2], k>>]

\* What is read from bytes: the value that was encoded in them, if it was one.
Value(bytes) ==
    LET val == <<bytes[1][1], bytes[1][2]>>
    IN  IF bytes = Bytes(val, Len(bytes)) THEN val ELSE Garbled

-----------------------------------------------------------------------------
(* Positions and lengths *)

Pos(fb, f) == Room({g \in fb.set : g < f})

FieldsLen(fb) == Room(fb.set)

Capacity(fb) == Len(fb.array)

NewFbuf(cap) == [array |-> [i \in 1 .. cap |-> ZeroByte], len |-> 0, set |-> {}, tlen |-> 0]

\* validate
Fits(fb) == FieldsLen(fb) <= fb.len

SetLen(fb, tlen) ==
    LET l == IF tlen < FieldsLen(fb) THEN FieldsLen(fb) ELSE tlen
    IN  [fb EXCEPT !.tlen = tlen, !.len = IF l > Capacity(fb) THEN Capacity(fb) ELSE l]

\* setFields and addFields, with setLen false: no byte moves.
SetFields(fb, fidxs) == [fb EXCEPT !.set = fidxs]

AddFields(fb, fidxs) == [fb EXCEPT !.set = @ \cup fidxs]

\* With setLen true.
Tight(fb) == SetLen(fb, FieldsLen(fb))

-----------------------------------------------------------------------------
(* Setters and getters *)

At(bytes, pos, array) ==
    SubSeq(array, 1, pos) \o bytes \o SubSeq(array, pos + Len(bytes) + 1, Len(array))

\* Faulty variant of Grow: what follows the field is not moved.
GrowInPlace(fb, f) ==
    LET flen == FieldsLen(AddFields(fb, {f}))
    IN  [fb EXCEPT !.set = @ \cup {f},
                   !.len = IF fb.tlen >= flen THEN fb.tlen ELSE @ + FCaps[f]]

(* setFieldLen of a field that was not set: the bytes after it move to make room,
   and the length is the target length again once that covers the fields.          *)
Grow(fb, f) ==
    LET pos   == Pos(fb, f)
        grown == fb.len + FCaps[f]
        flen  == FieldsLen(AddFields(fb, {f}))
    IN  [fb EXCEPT !.array = At(SubSeq(@, pos + 1, fb.len), pos + FCaps[f], @),
                   !.set   = @ \cup {f},
                   !.len   = IF fb.tlen >= flen THEN fb.tlen ELSE grown]

(* set, setTo and setb; zero and the packet's setters end here. *)
Put(fb, f, val) ==
    LET at == IF f \in fb.set THEN fb ELSE Grow(fb, f)
    IN  [at EXCEPT !.array = At(Bytes(val, FCaps[f]), Pos(fb, f), @)]

Get(fb, f) == Value(SubSeq(fb.array, Pos(fb, f) + 1, Pos(fb, f) + FCaps[f]))

Content(fb) == SubSeq(fb.array, 1, fb.len)

Payload(fb) == SubSeq(fb.array, FieldsLen(fb) + 1, fb.len)

SetPayload(fb, bytes) ==
    [fb EXCEPT !.array = At(bytes, FieldsLen(fb), @),
               !.len   = FieldsLen(fb) + Len(bytes)]

\* zeroPayload, and readPayload from a filler.
FillPayload(fb, byte) ==
    SetPayload(fb, [k \in 1 .. fb.len - FieldsLen(fb) |-> byte])
=============================================================================
