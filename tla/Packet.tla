------------------------------- MODULE Packet -------------------------------
(***************************************************************************)
(* Packets (packet.go) and the test parameters as an open packet carries   *)
(* them (params.go), on the field buffer.  A packet is its buffer; the     *)
(* HMAC key is an argument, NoKey for none.                                *)
(*                                                                         *)
(* A hash is the key and the bytes that were hashed, so two of them are    *)
(* equal if both are.  A parameter takes one byte.                         *)
(***************************************************************************)
EXTENDS FieldBuffer, Negotiation

CONSTANTS NoKey

\* Field indexes; FCaps gives their capacities.
fMagic == 1
fFlags == 2
fHMAC == 3
fConnToken == 4
fSeqno == 5
fRCount == 6
fRWindow == 7
StampField ==
    [receive  |-> [wall |-> 8, mono |-> 9],
     midpoint |-> [wall |-> 10, mono |-> 11],
     send     |-> [wall |-> 12, mono |-> 13]]

ASSUME PacketAssumption == Len(FCaps) = 13

Magic == <<"magic", 1>>

finit(key) == {fMagic, fFlags} \cup (IF key = NoKey THEN {} ELSE {fHMAC})

fRequest == {fMagic, fFlags, fConnToken}        \* fopenReply and fcloseRequest too
fechoRequest == fRequest \cup {fSeqno}          \* fechoReply too

NewPacket(cap, key) ==
    LET fb == NewFbuf(IF cap < HeaderLen THEN HeaderLen ELSE cap)
    IN  Put(Tight(SetFields(fb, finit(key))), fMagic, Magic)

-----------------------------------------------------------------------------
(* Numbers and flags *)

\* A number's bytes say what it counts; a zero's do not.
Num(kind, n) == IF n = 0 THEN Zero ELSE <<kind, n>>

\* What reading them as another number gives is none of the model's numbers.
ReadNum(p, f, kind) ==
    LET val == Get(p, f) IN IF val = Zero \/ val[1] = kind THEN val[2] ELSE -1

FlagsOf(p) == LET val == Get(p, fFlags) IN IF val[1] = "flags" THEN val[2] ELSE {}

SetFlagBits(p, fls) == Put(p, fFlags, <<"flags", FlagsOf(p) \cup fls>>)

SetConnToken(p, token) == Put(p, fConnToken, Num("token", token))
SetSeqno(p, seqno) == Put(p, fSeqno, Num("seqno", seqno))

CToken(p) == ReadNum(p, fConnToken, "token")
SeqnoOf(p) == ReadNum(p, fSeqno, "seqno")

-----------------------------------------------------------------------------
(* The HMAC *)

Hash(key, bytes) == <<"hmac", <<key, bytes>>>>

\* Faulty variant of UpdateHMAC: the hash before goes into the new one.
UpdateHMACOver(p, key) ==
    IF key = NoKey THEN p
    ELSE LET flagged == SetFlagBits(p, {"hmac"})
         IN  Put(flagged, fHMAC, Hash(key, Content(flagged)))

\* Always the last change to a packet.
UpdateHMAC(p, key) ==
    IF key = NoKey THEN p
    ELSE LET zeroed == Put(SetFlagBits(p, {"hmac"}), fHMAC, Zero)
         IN  Put(zeroed, fHMAC, Hash(key, Content(zeroed)))

\* A datagram read into the buffer, as far as it fits, over what was there.
ReadFrom(p, bytes, key) ==
    LET n == IF Len(bytes) > Capacity(p) THEN Capacity(p) ELSE Len(bytes)
    IN  [array |-> At(SubSeq(bytes, 1, n), 0, p.array), len |-> n,
         set |-> finit(key), tlen |-> n]

ClaimsHMAC(p) == "hmac" \in FlagsOf(p)

(* readReset's two validates; the checks of timestamps are of fields it never sets. *)
Valid(p, key) ==
    /\ Fits(p)
    /\ Get(p, fMagic) = Magic
    /\ ClaimsHMAC(p) = (key # NoKey)
    /\ key # NoKey => Get(p, fHMAC) = Hash(key, Content(Put(p, fHMAC, Zero)))

\* What validate leaves of a packet: its HMAC is zeroed.
Validated(p, key) == IF key # NoKey /\ ClaimsHMAC(p) THEN Put(p, fHMAC, Zero) ELSE p

-----------------------------------------------------------------------------
(* Received statistics and timestamps *)

StatsFields(stats) ==
    (IF stats \in {"count", "both"} THEN {fRCount} ELSE {})
      \cup (IF stats \in {"window", "both"} THEN {fRWindow} ELSE {})

Places ==
    [none |-> {}, send |-> {"send"}, receive |-> {"receive"},
     both |-> {"send", "receive"}, midpoint |-> {"midpoint"}]

ClockKinds == [wall |-> {"wall"}, monotonic |-> {"mono"}, both |-> {"wall", "mono"}]

StampFields(at, clock) == {StampField[pl][k] : pl \in Places[at], k \in ClockKinds[clock]}

PutGiven(p, f, vals) == IF f \in DOMAIN vals THEN Put(p, f, vals[f]) ELSE p

\* Several statistics and times, in the order of their fields.
PutAll(p, vals) ==
    LET count    == PutGiven(p, fRCount, vals)
        window   == PutGiven(count, fRWindow, vals)
        came     == PutGiven(window, StampField.receive.wall, vals)
        receive  == PutGiven(came, StampField.receive.mono, vals)
        middle   == PutGiven(receive, StampField.midpoint.wall, vals)
        midpoint == PutGiven(middle, StampField.midpoint.mono, vals)
        left     == PutGiven(midpoint, StampField.send.wall, vals)
    IN  PutGiven(left, StampField.send.mono, vals)

\* zeroReceivedStats and stampZeroes on a packet that has none of them yet.
ZeroFields(p, fields) == PutAll(p, [f \in fields |-> Zero])

ZeroTime == [wall |-> 0, mono |-> 0]

\* The time that goes into a field.
TimeFor(ts, f) ==
    LET of == IF f \in {StampField.send.wall, StampField.send.mono} THEN ts.send ELSE ts.receive
    IN  IF \E pl \in DOMAIN StampField : f = StampField[pl].wall THEN of.wall ELSE of.mono

\* setTimestamp: a clock that shows 0 is left out.
SetTimestamp(p, at, ts) ==
    PutAll(p, [f \in {g \in StampFields(at, "both") : TimeFor(ts, g) # 0} |->
                 <<"time", TimeFor(ts, f)>>])

\* tget
TimeOf(p, pl, t) ==
    [k \in {"wall", "mono"} |->
        IF StampField[pl][k] \in p.set THEN ReadNum(p, StampField[pl][k], "time") ELSE t[k]]

TimestampOf(p) ==
    [receive |-> TimeOf(p, "midpoint", TimeOf(p, "receive", ZeroTime)),
     send    |-> TimeOf(p, "send", TimeOf(p, "midpoint", ZeroTime))]

-----------------------------------------------------------------------------
(* Params *)

ZeroParams ==
    [version |-> 0, duration |-> 0, interval |-> 0, length |-> 0, stats |-> "none",
     stamp |-> "none", clock |-> "unset", dscp |-> 0, fill |-> NoFill]

\* bytes: what is zero is not sent.
Encoded(params) ==
    LET Param(n) == IF params[n] = ZeroParams[n] THEN <<>> ELSE <<<<"param", <<n, params[n]>>, 1>>>>
    IN  Param("version") \o Param("duration") \o Param("interval") \o Param("length")
          \o Param("stats") \o Param("stamp") \o Param("clock") \o Param("dscp") \o Param("fill")

\* parseParams: an unknown parameter is ignored, and the last of two counts.
ParseParams(bytes) ==
    [n \in DOMAIN ZeroParams |->
        LET places == {i \in DOMAIN bytes : bytes[i][1] = "param" /\ bytes[i][2][1] = n}
            last   == CHOOSE i \in places : \A j \in places : j <= i
        IN  IF places = {} THEN ZeroParams[n] ELSE bytes[last][2][2]]
=============================================================================
