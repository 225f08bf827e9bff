---------------------------- MODULE Negotiation ----------------------------
(***************************************************************************)
(* The test parameters a client asks for, what a server makes of them      *)
(* (accept and restrictParams, sconn.go) and what the client accepts       *)
(* (checkParameters, client.go).  Operators on records, no state.          *)
(*                                                                         *)
(* Lengths and times are numbers; a filler is a name, and the patterns a   *)
(* server allows are the set of the names they match.                      *)
(***************************************************************************)
EXTENDS Integers

CONSTANTS
    MinRestrictedInterval,  \* minRestrictedInterval
    NoFill,                 \* an empty ServerFill
    DefaultFill,            \* DefaultServerFiller
    OtherFills,             \* the other names a client may send
    ValidFills              \* those of them NewFiller knows

ASSUME NegotiationAssumption ==
    /\ MinRestrictedInterval \in Nat
    /\ NoFill # DefaultFill
    /\ {NoFill, DefaultFill} \cap OtherFills = {}
    /\ ValidFills \subseteq OtherFills

Stamps == {"none", "send", "receive", "both", "midpoint"}

ParamsType ==
    [version  : Nat,
     duration : Nat,
     interval : Nat,
     length   : Int,
     stats    : {"none", "count", "window", "both"},
     stamp    : Stamps,
     clock    : {"wall", "monotonic", "both"},
     dscp     : Nat,
     fill     : {NoFill, DefaultFill} \cup OtherFills]

\* What ClientConfig.validate lets a client ask for.
Requests == {p \in ParamsType : p.duration > 0 /\ p.interval > 0}

ServerType ==
    [version     : Nat,
     maxDuration : Nat,     \* 0 for no limit, like the next three
     minInterval : Nat,
     timeout     : Nat,
     maxLength   : Nat,
     allowStamp  : {"none", "single", "dual"},
     allowDSCP   : BOOLEAN, \* and the socket supports it
     allowFills  : SUBSET ({DefaultFill} \cup OtherFills)]

-----------------------------------------------------------------------------
(* The server *)

MaxInterval(s) == s.timeout \div 4

\* Faulty variant of RestrictInterval: the minimum is applied last.
RestrictIntervalMinLast(s, i) ==
    LET below == IF s.timeout > 0 /\ i > MaxInterval(s) THEN MaxInterval(s) ELSE i
    IN  IF s.minInterval > 0 /\ below < s.minInterval THEN s.minInterval ELSE below

\* The timeout has the last word, over the minimum interval too.
RestrictInterval(s, i) ==
    LET above == IF s.minInterval > 0 /\ i < s.minInterval THEN s.minInterval ELSE i
    IN  IF s.timeout > 0 /\ above > MaxInterval(s) THEN MaxInterval(s) ELSE above

AtMost(limit, n) == IF limit > 0 /\ n > limit THEN limit ELSE n

RestrictStamp(allow, at) ==
    IF allow = "none" \/ at = "none" THEN "none"
    ELSE IF allow = "single" /\ at = "both" THEN "midpoint" ELSE at

\* restrictParams' patterns, then accept's NewFiller.
RestrictFill(s, f) ==
    IF f = NoFill \/ f \in s.allowFills \cap ({DefaultFill} \cup ValidFills)
    THEN f ELSE DefaultFill

RestrictParams(s, p) ==
    [p EXCEPT !.version  = s.version,
              !.duration = AtMost(s.maxDuration, p.duration),
              !.interval = RestrictInterval(s, p.interval),
              !.length   = AtMost(s.maxLength, p.length),
              !.stamp    = RestrictStamp(s.allowStamp, p.stamp),
              !.dscp     = IF s.allowDSCP THEN p.dscp ELSE 0,
              !.fill     = RestrictFill(s, p.fill)]

-----------------------------------------------------------------------------
(* The client *)

\* Faulty variant of Invalid: a short interval is refused even if it was asked for.
InvalidAnyShort(asked, got) ==
    \/ got.version # asked.version
    \/ got.duration > asked.duration
    \/ got.interval < MinRestrictedInterval
    \/ got.length > asked.length

\* What even a loose client takes for an error of the server.
Invalid(asked, got) ==
    \/ got.version # asked.version
    \/ got.duration > asked.duration
    \/ got.interval < asked.interval /\ got.interval < MinRestrictedInterval
    \/ got.length > asked.length

\* Faulty variant of Restricted: only a larger interval is a restriction.
RestrictedIntervalUp(asked, got) ==
    \/ got.duration < asked.duration
    \/ got.interval > asked.interval
    \/ got.length < asked.length
    \/ got.stamp # asked.stamp
    \/ got.clock # asked.clock
    \/ got.dscp # asked.dscp
    \/ got.fill # asked.fill

Restricted(asked, got) ==
    \/ got.duration < asked.duration
    \/ got.interval # asked.interval
    \/ got.length < asked.length
    \/ got.stamp # asked.stamp
    \/ got.clock # asked.clock
    \/ got.dscp # asked.dscp
    \/ got.fill # asked.fill

\* checkParameters returns an error.
Refuses(loose, asked, got) ==
    Invalid(asked, got) \/ (~loose /\ Restricted(asked, got))
=============================================================================
