------------------------------- MODULE Server -------------------------------
(***************************************************************************)
(* One listener of the server (server.go, sconn.go): the goroutine that    *)
(* reads a packet, handles it and reads the next, with the table of        *)
(* connections its connmgr keeps.  The packets it reads are any a client   *)
(* or the network can hand it: opens, echo requests and closes, with       *)
(* tokens of live, of expired and of forgotten connections, sent from      *)
(* the address that opened the connection or from another one.             *)
(*                                                                         *)
(* The handler of a packet is one action: only this goroutine touches the  *)
(* table, and what it reads of the clock while it handles one packet is    *)
(* less than a tick apart.                                                 *)
(***************************************************************************)
EXTENDS SConn, FiniteSets

CONSTANTS
    Tokens,             \* the ctoken values newCtoken draws from
    CheckExpiredCount,  \* checkExpiredCount
    MaxTime,            \* bound of the clock
    MaxCount            \* bound of a connection's receivedCount

ASSUME ServerAssumption ==
    /\ CheckExpiredCount \in Nat \ {0}
    /\ MaxTime \in Nat
    /\ MaxCount \in Nat

VARIABLES
    now,        \* the clock, in ticks
    sconns,     \* connmgr.sconns, a map: its domain is the tokens in use
    out         \* what handling the last packet came to: the reply sent or
                \* the event of the drop, its connection and its sender

vars == <<now, sconns, out>>

NoToken == "no token"
NoAddr == "no address"
Registered == DOMAIN sconns

Codes == {"None", "NewConn", "OpenClose", "ParamsError", "InvalidConnToken",
          "AddressMismatch", "CloseConn", "LargeRequest", "ShortInterval",
          "Reply", "ReplyClose"}

Out(code, ct, addr) == [code |-> code, ct |-> ct, addr |-> addr]
Quiet == Out("None", NoToken, NoAddr)

Drop(ct) == [t \in Registered \ {ct} |-> sconns[t]]

\* get: an expired connection leaves the table, yet is returned and served.
Table(ct) == IF Expired(sconns[ct], now) THEN Drop(ct) ELSE sconns

\* A connection that was dropped by get is served without being in the table.
Update(ct, sc) ==
    [t \in DOMAIN Table(ct) |-> IF t = ct THEN sc ELSE sconns[t]]

-----------------------------------------------------------------------------
Init ==
    /\ now = 0
    /\ sconns = [t \in {} |-> NewSconn(t, 0)]
    /\ out = Quiet

Tick ==
    /\ now < MaxTime
    /\ now' = now + 1
    /\ out' = Quiet
    /\ UNCHANGED sconns

\* Faulty variant of Accept: put does not look for expired connections.
AcceptNoSweep(addr, checked) ==
    /\ checked = {}
    /\ \E ct \in Tokens \ Registered :
         /\ sconns' = [t \in Registered \cup {ct} |->
                          IF t = ct THEN NewSconn(addr, now) ELSE sconns[t]]
         /\ out' = Out("NewConn", ct, addr)
    /\ UNCHANGED now

(* accept with readable parameters: put after looking for expired ones among
   `checked`, the first connections of a map iteration whose order is Go's.  *)
Accept(addr, checked) ==
    LET kept == {t \in Registered : ~(t \in checked /\ Expired(sconns[t], now))}
    IN  /\ \/ checked = Registered /\ Cardinality(checked) <= CheckExpiredCount
           \/ Cardinality(checked) = CheckExpiredCount
        /\ \E ct \in Tokens \ kept :
             /\ sconns' = [t \in kept \cup {ct} |->
                              IF t = ct THEN NewSconn(addr, now) ELSE sconns[t]]
             /\ out' = Out("NewConn", ct, addr)
        /\ UNCHANGED now

\* accept of a packet with both open and close set: replies, keeps nothing.
AcceptClose(addr) ==
    /\ out' = Out("OpenClose", NoToken, addr)
    /\ UNCHANGED <<now, sconns>>

\* accept of a packet whose parameters cannot be read: dropped.
AcceptUnreadable(addr) ==
    /\ out' = Out("ParamsError", NoToken, addr)
    /\ UNCHANGED <<now, sconns>>

\* readOneAndReply for a token that is not in the table.
Unknown(ct, addr) ==
    /\ ct \notin Registered
    /\ out' = Out("InvalidConnToken", ct, addr)
    /\ UNCHANGED <<now, sconns>>

\* serve: an address other than the one that opened the connection.
Mismatch(ct, addr) ==
    /\ ct \in Registered
    /\ addr # sconns[ct].raddr
    /\ sconns' = Table(ct)
    /\ out' = Out("AddressMismatch", ct, addr)
    /\ UNCHANGED now

\* Faulty variant of Close: the close flag is handled before the address check.
CloseAnyAddress(ct, addr) ==
    /\ ct \in Registered
    /\ sconns' = Drop(ct)
    /\ out' = Out("CloseConn", ct, addr)
    /\ UNCHANGED now

\* serveClose: no reply is sent.
Close(ct, addr) ==
    /\ ct \in Registered
    /\ addr = sconns[ct].raddr
    /\ sconns' = Drop(ct)
    /\ out' = Out("CloseConn", ct, addr)
    /\ UNCHANGED now

\* serveEcho of a request longer than MaxLength.
EchoLarge(ct, addr) ==
    /\ ct \in Registered
    /\ addr = sconns[ct].raddr
    /\ sconns' = Table(ct)
    /\ out' = Out("LargeRequest", ct, addr)
    /\ UNCHANGED now

\* serveEcho of a request the token bucket drops.
EchoThrottled(ct, addr) ==
    /\ ct \in Registered
    /\ addr = sconns[ct].raddr
    /\ ShortInterval(sconns[ct], now)
    /\ sconns' = Update(ct, Throttled(sconns[ct], now))
    /\ out' = Out("ShortInterval", ct, addr)
    /\ UNCHANGED now

\* Faulty variant of Echo: the close flag is set, the connection is kept.
EchoKeepsOverdue(ct, addr, seqno) ==
    /\ ct \in Registered
    /\ addr = sconns[ct].raddr
    /\ sconns[ct].receivedCount < MaxCount
    /\ ~ShortInterval(sconns[ct], now)
    /\ sconns' = Update(ct, Received(sconns[ct], now, seqno))
    /\ out' = Out(IF ExceededDuration(sconns[ct], now) THEN "ReplyClose" ELSE "Reply",
                  ct, addr)
    /\ UNCHANGED now

\* serveEcho of a request that is answered; the reply that finds the test
\* over its duration limit carries the close flag and ends the connection.
Echo(ct, addr, seqno) ==
    /\ ct \in Registered
    /\ addr = sconns[ct].raddr
    /\ sconns[ct].receivedCount < MaxCount
    /\ ~ShortInterval(sconns[ct], now)
    /\ IF ExceededDuration(sconns[ct], now)
       THEN /\ sconns' = Drop(ct)
            /\ out' = Out("ReplyClose", ct, addr)
       ELSE /\ sconns' = Update(ct, Received(sconns[ct], now, seqno))
            /\ out' = Out("Reply", ct, addr)
    /\ UNCHANGED now

HandleOpen(addr) ==
    \/ \E checked \in SUBSET Registered : Accept(addr, checked)
    \/ AcceptClose(addr)
    \/ AcceptUnreadable(addr)

HandleRequest(ct, addr) ==
    \/ Unknown(ct, addr)
    \/ Mismatch(ct, addr)
    \/ Close(ct, addr)
    \/ EchoLarge(ct, addr)
    \/ EchoThrottled(ct, addr)
    \/ \E seqno \in Seqno : Echo(ct, addr, seqno)

Next ==
    \/ Tick
    \/ \E addr \in Addrs : HandleOpen(addr)
    \/ \E ct \in Tokens, addr \in Addrs : HandleRequest(ct, addr)

Spec == Init /\ [][Next]_vars

(* Clients keep arriving, and the random start of Go's map iteration shows
   every connection to removeSomeExpired sooner or later.                    *)
AcceptChecking(ct) ==
    \E addr \in Addrs, checked \in SUBSET Registered :
        ct \in checked /\ Accept(addr, checked)

FairSpec ==
    /\ Spec
    /\ WF_vars(Tick)
    /\ \A ct \in Tokens : WF_vars(AcceptChecking(ct))

-----------------------------------------------------------------------------
(* Properties *)

\* The values the server's state can take.
TypeOK ==
    /\ now \in 0 .. MaxTime
    /\ Registered \subseteq Tokens
    /\ sconns \in [Registered -> SConnType]
    /\ out \in [code : Codes, ct : Tokens \cup {NoToken}, addr : Addrs \cup {NoAddr}]

\* How long a connection has been in use, from its first to its latest request.
Span(sc) == IF sc.lastUsed = NoTime THEN 0 ELSE sc.lastUsed - sc.firstUsed

(* The token bucket of serveEcho: over its whole life, however requests are
   spaced and however many are dropped, a connection is not answered more than
   PacketBurst packets and one per MinInterval of the time it was in use.      *)
RateBound ==
    MinInterval > 0 =>
        \A ct \in Registered :
            sconns[ct].receivedCount * MinInterval <= BucketCap + Span(sconns[ct])

(* The rate limit and the duration limit together: what a connection can be
   answered before it is closed is bounded, even for a client that floods it
   and whose dropped requests never reach the check of the duration.          *)
LifetimeBound ==
    (MinInterval > 0 /\ MaxDuration > 0) =>
        \A ct \in Registered :
            sconns[ct].receivedCount * MinInterval
                <= BucketCap + MaxDuration + MaxDurationGrace

(* What RateBound and LifetimeBound rest on, step by step: a connection's
   packets and its unspent credit never exceed the burst and the time it was
   in use, an unused connection has its whole burst, and its times are ordered. *)
Accounted(sc, t) ==
    /\ (sc.lastUsed = NoTime) <=> (sc.firstUsed = NoTime)
    /\ sc.lastUsed # NoTime => sc.firstUsed <= sc.lastUsed /\ sc.lastUsed <= t
    /\ sc.lastUsed = NoTime => sc.bucket = BucketCap
    /\ sc.bucket <= BucketCap
    /\ MinInterval > 0 =>
         sc.receivedCount * MinInterval + sc.bucket <= BucketCap + Span(sc)
    /\ (MinInterval > 0 /\ MaxDuration > 0) =>
         sc.receivedCount * MinInterval <= BucketCap + MaxDuration + MaxDurationGrace

Accounting == \A ct \in Registered : Accounted(sconns[ct], now)

(* serveEcho drops for a short interval only a request that came less than
   MinInterval after the one before it, never a first or a well-paced one.    *)
NoConformingDrop ==
    [][(PacketBurst > 0 /\ out'.code = "ShortInterval") =>
            /\ sconns[out'.ct].lastUsed # NoTime
            /\ now - sconns[out'.ct].lastUsed < MinInterval]_vars

(* The close flag of a reply is what tells the client that the server forgot
   it: a reply without the flag leaves the connection in the table, except for
   the one that get serves after it took an expired connection out.           *)
CloseFlagTruthful ==
    [][/\ out'.code = "ReplyClose" => out'.ct \notin DOMAIN sconns'
       /\ out'.code = "Reply" => \/ out'.ct \in DOMAIN sconns'
                                 \/ Expired(sconns[out'.ct], now)]_vars

(* A connection changes or goes away only on a packet from the address that
   opened it, or because it expired: packets of other clients, with its token
   or with their own, and the opens that clean up the table, leave it alone.  *)
OnlyOwnerOrExpiry ==
    [][\A ct \in Registered :
            \/ ct \in DOMAIN sconns' /\ sconns'[ct] = sconns[ct]
            \/ Expired(sconns[ct], now)
            \/ out'.ct = ct /\ out'.addr = sconns[ct].raddr]_vars

(* removeSomeExpired looks at CheckExpiredCount connections per open only, yet
   no expired connection stays in the table for ever.  (The token of a removed
   connection may be drawn again at once, so the table is asked for an expired
   connection and not for the token.)                                         *)
HasExpired(ct) == ct \in Registered /\ Expired(sconns[ct], now)

ExpiredRemoved == \A ct \in Tokens : HasExpired(ct) ~> ~HasExpired(ct)

(* doc/irtt-server.md, --timeout: "Timeout for closing connections if no
   requests received on a connection", of a connection that was opened and on
   which no request came as well.                                             *)
IdleSince(sc) == IF sc.lastUsed = NoTime THEN sc.created ELSE sc.lastUsed

HasIdle(ct) ==
    /\ Timeout > 0
    /\ ct \in Registered
    /\ now - IdleSince(sconns[ct]) > Timeout + TimeoutGrace

IdleConnectionsClosed == \A ct \in Tokens : HasIdle(ct) ~> ~HasIdle(ct)
=============================================================================
