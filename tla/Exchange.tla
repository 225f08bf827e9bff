------------------------------ MODULE Exchange ------------------------------
(***************************************************************************)
(* Clients and one listener of a server exchanging packets as bytes: the   *)
(* open request and its reply, the echo requests and theirs, the close.    *)
(* The listener reads every datagram into one packet, turns it into the    *)
(* reply in place and sends that; a client has one packet that it sends    *)
(* over and over, and one that it receives into.  What a datagram says is  *)
(* nowhere in it but in the fields both ends believe it has.               *)
(*                                                                         *)
(* The network keeps every datagram and delivers it never, once or often,  *)
(* in any order.  Time passes on the network and in the server, each host  *)
(* has clocks of its own, and the server's wall clock may be adjusted.     *)
(* Server.tla has the checks of serveEcho that drop a packet for its time, *)
(* ClientRun.tla what ends a test.                                         *)
(***************************************************************************)
EXTENDS Packet, Delays

CONSTANTS
    Server,         \* the listener's name in the network
    Scenarios,      \* who is configured how, and the bounds of what happens then
    MTU,            \* capacity of the listener's packet
    ServerClock,    \* what a clock shows at time 0, by kind
    ClientClock

SetupType == [asked : Requests, key : STRING \cup {NoKey}, fills : BOOLEAN]
ServingType == [limits : ServerType, key : STRING \cup {NoKey}, fills : BOOLEAN]

ASSUME ExchangeAssumption ==
    /\ \A s \in Scenarios :
         /\ \A c \in DOMAIN s.setup : c # Server /\ s.setup[c] \in SetupType
         /\ s.serving \in ServingType
         /\ s.tokens \subseteq Nat \ {0}     \* connection tokens, as many as are ever needed
         /\ s.sends \in Nat                  \* echo requests of a client
         /\ s.served \in Nat                 \* and of a connection
         /\ s.closes \in BOOLEAN             \* whether the test gets to its end
         /\ s.time \in Nat
         /\ s.processing \in 0 .. InvalidDuration - 1    \* what an echo request may take in the server
         /\ s.adjust \in Nat                 \* of the server's wall clock
    /\ MTU \in Nat
    /\ ServerClock \in [Clocks -> Nat \ {0}] /\ ClientClock \in [Clocks -> Nat \ {0}]

VARIABLES
    scenario,
    now,        \* true time
    adjusted,   \* what the server's wall clock was put forward by
    net,        \* datagrams sent, each with what it was meant to say
    packet,     \* the listener's packet
    conns,      \* its connections, by token
    client      \* each client's state

vars == <<scenario, now, adjusted, net, packet, conns, client>>

Clients == DOMAIN scenario.setup
setup == scenario.setup         \* ClientConfig of each
serving == scenario.serving     \* ServerConfig

KeyOf(host) == IF host = Server THEN serving.key ELSE setup[host].key

ServerNow(t) ==
    [wall |-> t + ServerClock.wall + adjusted, mono |-> t + ServerClock.mono]
ClientNow(t) == [k \in Clocks |-> t + ClientClock[k]]

\* Of a reply: when its request came, when it left, and the payload it should have.
NoReply == [came |-> 0, left |-> 0, payload |-> <<>>]

Datagram(from, to, p, meant, reply) ==
    [from |-> from, to |-> to, bytes |-> Content(p), meant |-> meant, reply |-> reply]

ToServer(d) == d.to = Server

-----------------------------------------------------------------------------
(* What a datagram says to whom it is for *)

Loaded(d, buffer) == ReadFrom(buffer, d.bytes, KeyOf(d.to))

\* receive: the buffer is authentic, and from the other side.
Accepted(d, buffer) ==
    LET p == Loaded(d, buffer)
    IN  Valid(p, KeyOf(d.to)) /\ ("reply" \in FlagsOf(p)) = (d.to # Server)

Received(d, buffer) == Validated(Loaded(d, buffer), KeyOf(d.to))

AsRequest(p) == AddFields(p, fRequest)
AsEcho(p) == AddFields(p, fechoRequest)

\* Client.receive's fields, which the parameters it has agreed to tell it.
AsReply(p, params) ==
    AddFields(AsEcho(p), StatsFields(params.stats) \cup StampFields(params.stamp, params.clock))

OpenMeans(params) == [kind |-> "open", params |-> params]
OpenReplyMeans(token, params) ==
    [kind |-> "opened", token |-> token, params |-> params]
EchoMeans(token, seqno) == [kind |-> "echo", token |-> token, seqno |-> seqno]
CloseMeans(token) == [kind |-> "close", token |-> token]
ReplyMeans(token, seqno, count, window, ts) ==
    [kind |-> "reply", token |-> token, seqno |-> seqno, count |-> count,
     window |-> window, ts |-> ts]

StatOf(p, f, kind) == IF f \in p.set THEN ReadNum(p, f, kind) ELSE 0

HeardByServer(p) ==
    LET fls == FlagsOf(p)
        req == AsRequest(p)
    IN  IF "open" \in fls THEN OpenMeans(ParseParams(Payload(p)))
        ELSE IF "close" \in fls THEN CloseMeans(CToken(req))
        ELSE EchoMeans(CToken(req), SeqnoOf(AsEcho(p)))

HeardByClient(p, params) ==
    LET opened == AsRequest(p)
        reply  == AsReply(p, params)
    IN  IF "open" \in FlagsOf(p) THEN OpenReplyMeans(CToken(opened), ParseParams(Payload(opened)))
        ELSE ReplyMeans(CToken(reply), SeqnoOf(reply),
                        StatOf(reply, fRCount, "count"), StatOf(reply, fRWindow, "window"),
                        TimestampOf(reply))

Buffer(host) == IF host = Server THEN packet ELSE client[host].recv

Heard(d) ==
    LET p == Received(d, Buffer(d.to))
    IN  IF ToServer(d) THEN HeardByServer(p) ELSE HeardByClient(p, client[d.to].params)

-----------------------------------------------------------------------------
(* Init *)

NewClient(c) ==
    [pc     |-> "new",
     params |-> setup[c].asked,
     token  |-> 0,
     send   |-> NewPacket(HeaderLen, setup[c].key),
     recv   |-> NewPacket(HeaderLen, setup[c].key),
     seqno  |-> 0,
     sent   |-> <<>>,       \* client send times, of seqno i at i + 1
     rtds   |-> [n \in {} |-> 0]]

Init ==
    /\ scenario \in Scenarios
    /\ now = 0
    /\ adjusted = 0
    /\ net = {}
    /\ packet = NewPacket(MTU, serving.key)
    /\ conns = [t \in {} |-> 0]
    /\ client = [c \in Clients |-> NewClient(c)]

-----------------------------------------------------------------------------
(* The client *)

OpenRequest(c) ==
    LET p == SetFlagBits(NewPacket(HeaderLen, setup[c].key), {"open"})
    IN  UpdateHMAC(SetPayload(p, Encoded(setup[c].asked)), setup[c].key)

SendOpen(c) ==
    /\ client[c].pc = "new"
    /\ net' = net \cup
            {Datagram(c, Server, OpenRequest(c), OpenMeans(setup[c].asked), NoReply)}
    /\ client' = [client EXCEPT ![c].pc = "opening"]
    /\ UNCHANGED <<scenario, now, adjusted, packet, conns>>

BodyByte(c, seqno) == <<"body", <<c, seqno>>, 1>>

\* The payload of an echo request: of the filler if there is one.
Body(p, c, seqno) ==
    FillPayload(p, IF setup[c].fills THEN BodyByte(c, seqno) ELSE ZeroByte)

(* The packet of Client.send before its loop: newPacket, the fields of the request,
   and zeroes where the server will put its own, so that the payload has its place. *)
FirstRequest(c, params, token) ==
    LET new    == SetConnToken(NewPacket(params.length, setup[c].key), token)
        echo   == Tight(AsEcho(new))
        zeroed == ZeroFields(ZeroFields(echo, StatsFields(params.stats)),
                             StampFields(params.stamp, params.clock))
        full   == SetLen(SetSeqno(zeroed, 0), params.length)
    IN  UpdateHMAC(Body(full, c, 0), setup[c].key)

\* The open reply is read, checked (Session.tla) and the test begins.
HearOpen(d) ==
    /\ client[d.to].pc = "opening"
    /\ Accepted(d, Buffer(d.to))
    /\ Heard(d).kind = "opened"
    /\ LET m == Heard(d)
           first == FirstRequest(d.to, m.params, m.token)
       IN  client' = [client EXCEPT
               ![d.to].pc     = "test",
               ![d.to].params = [m.params EXCEPT !.length = first.len],
               ![d.to].token  = m.token,
               ![d.to].send   = first,
               ![d.to].recv   = SetConnToken(NewPacket(m.params.length, setup[d.to].key), m.token)]
    /\ UNCHANGED <<scenario, now, adjusted, net, packet, conns>>

SendEcho(c) ==
    LET me == client[c]
        n  == me.seqno + 1
    IN  /\ me.pc = "test"
        /\ me.seqno < scenario.sends
        /\ net' = net \cup
                {Datagram(c, Server, me.send, EchoMeans(me.token, me.seqno), NoReply)}
        /\ client' = [client EXCEPT
                ![c].sent  = Append(@, now),
                ![c].seqno = n,
                ![c].send  = UpdateHMAC(Body(SetSeqno(me.send, n), c, n), setup[c].key)]
        /\ UNCHANGED <<scenario, now, adjusted, packet, conns>>

(* receive and recordReceive: the first reply of a packet is kept, one that is
   shorter than the request ends the test.                                      *)
HearReply(d) ==
    LET me == client[d.to]
        m  == Heard(d)
        p  == Received(d, Buffer(d.to))
    IN  /\ me.pc = "test"
        /\ Accepted(d, Buffer(d.to))
        /\ m.kind = "reply"
        /\ p.len >= me.params.length
        /\ m.seqno \in 0 .. me.seqno - 1
        /\ client' = [client EXCEPT
               ![d.to].recv = AsReply(p, me.params),
               ![d.to].rtds =
                   IF m.seqno \in DOMAIN @ THEN @
                   ELSE [n \in DOMAIN @ \cup {m.seqno} |->
                           IF n # m.seqno THEN @[n]
                           ELSE [client |-> [send    |-> ClientNow(me.sent[n + 1]),
                                             receive |-> ClientNow(now)],
                                 server |-> m.ts, came |-> d.reply.came,
                                 left |-> d.reply.left, got |-> now]]]
        /\ UNCHANGED <<scenario, now, adjusted, net, packet, conns>>

\* cconn.close: the HMAC has no field yet, and shifts the token when it gets one.
CloseRequest(c) ==
    LET p == SetFlagBits(Tight(SetFields(NewPacket(HeaderLen, setup[c].key), fRequest)), {"close"})
    IN  UpdateHMAC(SetConnToken(p, client[c].token), setup[c].key)

SendClose(c) ==
    /\ client[c].pc = "test"
    /\ scenario.closes
    /\ net' = net \cup
            {Datagram(c, Server, CloseRequest(c), CloseMeans(client[c].token), NoReply)}
    /\ client' = [client EXCEPT ![c].pc = "closed"]
    /\ UNCHANGED <<scenario, now, adjusted, packet, conns>>

-----------------------------------------------------------------------------
(* The server *)

Owner(token) == IF token \in DOMAIN conns THEN conns[token].client ELSE Server

TooLarge(p) == AtMost(serving.limits.maxLength, p.len) # p.len

\* Not authentic, of no connection of the sender's, or a request that is too large.
Drop(d) ==
    /\ ToServer(d)
    /\ \/ ~Accepted(d, packet) /\ packet' = Received(d, packet)
       \/ LET m == Heard(d)
              p == Received(d, packet)
          IN  /\ Accepted(d, packet)
              /\ m.kind # "open"
              /\ Owner(m.token) # d.from \/ (m.kind = "echo" /\ TooLarge(p))
              /\ packet' = IF Owner(m.token) # d.from THEN AsRequest(p) ELSE AsEcho(p)
    /\ UNCHANGED <<scenario, now, adjusted, net, conns, client>>

\* Faulty variant of NewSconn: what was asked for is kept, not what is granted.
NewSconnAsAsked(from, asked) == [client |-> from, params |-> asked, count |-> 0]

NewSconn(from, asked) ==
    [client |-> from, params |-> RestrictParams(serving.limits, asked), count |-> 0]

Accept(d) ==
    LET m == Heard(d)
        granted == RestrictParams(serving.limits, m.params)
    IN  /\ ToServer(d) /\ Accepted(d, packet) /\ m.kind = "open"
        /\ \E t \in scenario.tokens \ DOMAIN conns :
             LET opened == SetFlagBits(SetConnToken(Received(d, packet), t), {"reply"})
                 reply == UpdateHMAC(SetPayload(opened, Encoded(granted)), serving.key)
             IN  /\ packet' = reply
                 /\ net' = net \cup {Datagram(Server, d.from, reply, OpenReplyMeans(t, granted), NoReply)}
                 /\ conns' = [u \in DOMAIN conns \cup {t} |->
                        IF u = t THEN NewSconn(d.from, m.params) ELSE conns[u]]
        /\ UNCHANGED <<scenario, now, adjusted, client>>

\* The server's times of an echo request that came at now and took a while.
ServerStamps(params, took) ==
    LET came == ServerNow(now)
        left == KeepClocks(ServerNow(now + took), ClockKinds[params.clock])
        mid  == Midpoint(came, left)
    IN  IF params.stamp = "midpoint" THEN [receive |-> mid, send |-> mid]
        ELSE [receive |-> IF "receive" \in Places[params.stamp]
                          THEN KeepClocks(came, ClockKinds[params.clock]) ELSE ZeroTime,
              send    |-> IF "send" \in Places[params.stamp] THEN left ELSE ZeroTime]

FillerByte == <<"filler", 0, 1>>

\* A connection's filler is the server's, which may be none, or one that was asked for.
Fills(params) == serving.fills \/ params.fill \notin {NoFill, DefaultFill}

Filled(p, params) == IF Fills(params) THEN FillPayload(p, FillerByte) ELSE p

\* Faulty variant of TestPacket: the request's payload is not cut off first.
TestPacketUncut(p, params, count, ts) ==
    LET stats == [f \in StatsFields(params.stats) |->
                    Num(IF f = fRCount THEN "count" ELSE "window", count)]
        stamped == SetTimestamp(PutAll(p, stats), params.stamp, ts)
    IN  Filled(SetLen(stamped, params.length), params)

(* The echo request becomes its reply: cut to its fields, with statistics and times
   in the order of their fields, and then as long as was agreed.  A received window
   is told from another by the reply it went with.                                  *)
TestPacket(p, params, count, ts) ==
    LET stats == [f \in StatsFields(params.stats) |->
                    Num(IF f = fRCount THEN "count" ELSE "window", count)]
        stamped == SetTimestamp(PutAll(SetLen(p, 0), stats), params.stamp, ts)
    IN  Filled(SetLen(stamped, params.length), params)

\* The fields of a request and of its reply.
TestFields(params, key) ==
    finit(key) \cup fechoRequest \cup StatsFields(params.stats)
      \cup StampFields(params.stamp, params.clock)

\* The payload of a datagram whose fields are those of a test.
TestPayload(d, params) ==
    Payload([Loaded(d, Buffer(d.to)) EXCEPT !.set = TestFields(params, KeyOf(d.to))])

\* That of the reply is the request's, if the server has no filler.
MeantPayload(d, params) ==
    LET sent == TestPayload(d, params)
    IN  IF Fills(params) THEN [i \in DOMAIN sent |-> FillerByte] ELSE sent

MeantReply(d, sc, ts) ==
    LET m     == Heard(d)
        stats == StatsFields(sc.params.stats)
        Stat(f) == IF f \in stats THEN sc.count + 1 ELSE 0
    IN  ReplyMeans(m.token, m.seqno, Stat(fRCount), Stat(fRWindow), ts)

Echo(d, took) ==
    LET m   == Heard(d)
        req == AsEcho(Received(d, packet))
    IN  /\ ToServer(d) /\ Accepted(d, packet) /\ m.kind = "echo"
        /\ now + took <= scenario.time
        /\ Owner(m.token) = d.from /\ conns[m.token].count < scenario.served
        /\ ~TooLarge(req)
        /\ LET sc == conns[m.token]
               ts == ServerStamps(sc.params, took)
               reply == UpdateHMAC(TestPacket(SetFlagBits(req, {"reply"}), sc.params,
                                              sc.count + 1, ts), serving.key)
           IN  /\ packet' = reply
               /\ conns' = [conns EXCEPT ![m.token].count = @ + 1]
               /\ net' = net \cup {Datagram(Server, d.from, reply, MeantReply(d, sc, ts),
                      [came |-> now, left |-> now + took, payload |-> MeantPayload(d, sc.params)])}
        /\ now' = now + took
        /\ UNCHANGED <<scenario, adjusted, client>>

\* serveClose; its packet stays as it was read.
Close(d) ==
    LET m == Heard(d)
    IN  /\ ToServer(d) /\ Accepted(d, packet) /\ m.kind = "close"
        /\ Owner(m.token) = d.from
        /\ conns' = [t \in DOMAIN conns \ {m.token} |-> conns[t]]
        /\ packet' = AsRequest(Received(d, packet))
        /\ UNCHANGED <<scenario, now, adjusted, net, client>>

-----------------------------------------------------------------------------
(* Time, and the specification *)

\* Time before the test makes no difference to it.
Tick ==
    /\ now < scenario.time
    /\ \E c \in Clients : client[c].pc = "test"
    /\ now' = now + 1
    /\ UNCHANGED <<scenario, adjusted, net, packet, conns, client>>

\* Someone sets the server's wall clock.
Adjust ==
    /\ adjusted < scenario.adjust
    /\ \E c \in Clients : client[c].pc = "test"
    /\ adjusted' = adjusted + 1
    /\ UNCHANGED <<scenario, now, net, packet, conns, client>>

Next ==
    \/ \E c \in Clients : SendOpen(c) \/ SendEcho(c) \/ SendClose(c)
    \/ \E d \in net :
         \/ ToServer(d) /\ (Drop(d) \/ Accept(d) \/ Close(d))
         \/ ToServer(d) /\ \E took \in 0 .. scenario.processing : Echo(d, took)
         \/ ~ToServer(d) /\ (HearOpen(d) \/ HearReply(d))
    \/ Tick
    \/ Adjust

Spec == Init /\ [][Next]_vars

-----------------------------------------------------------------------------
(* Properties *)

Granted(s, c) == RestrictParams(s.serving.limits, s.setup[c].asked)

(* The lengths that are granted fit into the listener's packet.  Nothing in the server sees
   to it: of a request that is longer the rest is cut off, and its hash is wrong.          *)
GrantsFit == \A s \in Scenarios : \A c \in DOMAIN s.setup : Granted(s, c).length <= MTU

\* No midpoint is granted with one clock: the server would send that of both.
Plain(params) == params.stamp = "midpoint" => params.clock = "both"
GrantsPlain == \A s \in Scenarios : \A c \in DOMAIN s.setup : Plain(Granted(s, c))

(* A datagram is taken by whom it is for if and only if both ends have the same key:
   the sender's hash is over the bytes that are sent, the receiver's over those and
   over no others, whatever either packet was used for before.                       *)
KeysDecide ==
    \A d \in net : Accepted(d, Buffer(d.to)) <=> KeyOf(d.from) = KeyOf(d.to)

(* Both ends find every field where the other put it.  What a datagram is read to say
   is what its sender meant: of an open request the parameters, of a request the token
   and the sequence number, of a reply the server's counts and times too, each 0 that
   was not agreed on.                                                                 *)
ReadAsMeant ==
    \A d \in net : KeyOf(d.from) = KeyOf(d.to) => Heard(d) = d.meant

(* A reply has the payload that was sent in its own request, or the server's filling,
   though all requests share the listener's packet and the fields of the reply are put
   into it one by one: nothing is shifted, and nothing of another datagram is left.    *)
PayloadReturned ==
    \A d \in net :
        /\ d.meant.kind = "reply" => TestPayload(d, client[d.to].params) = d.reply.payload
        /\ d.meant.kind \notin {"echo", "reply"} =>
               \A i \in DOMAIN d.bytes : d.bytes[i][1] # "body"

(* A client that tests and the server's connection of its token have agreed on the same
   parameters, though the client only has what it could read of the reply.            *)
AgreedTerms ==
    \A c \in Clients :
        LET me == client[c]
            sc == conns[me.token]
            width == Len(Content(me.send))
        IN  me.pc = "test" /\ me.token \in DOMAIN conns =>
                /\ sc.client = c
                /\ me.params = [sc.params EXCEPT !.length = width]
                /\ sc.params.length <= width

(* The delays of a round trip, from four clocks that show different times, are those of
   the network: the round-trip time leaves out what the server took when the server
   stamped both ends of it, the two one-way delays add up to it, and the variation from
   the packet before is true of each way, without a clock having been set by another.
   With monotonic stamps that holds across an adjustment of the server's wall clock.   *)
DelaysTrue ==
    \A c \in Clients : \A n \in DOMAIN client[c].rtds :
        LET me == client[c]
            at == me.params.stamp
            kinds == ClockKinds[me.params.clock]
            r  == me.rtds[n]
            p  == me.rtds[n - 1]
            Middle(x) == x.came + (x.left - x.came) \div 2
            Arrived(x) == IF at = "midpoint" THEN Middle(x) ELSE IF at = "send" THEN x.left ELSE x.came
            Left(x) == IF at = "midpoint" THEN Middle(x) ELSE IF at = "receive" THEN x.came ELSE x.left
            Out(x, i) == Arrived(x) - me.sent[i + 1]
            Back(x) == x.got - Left(x)
        IN  /\ RTT(r) = r.got - me.sent[n + 1] - (IF at = "both" THEN r.left - r.came ELSE 0)
            /\ at # "none" /\ "wall" \in kinds => SendDelay(r) + ReceiveDelay(r) = RTT(r)
            /\ at # "none" /\ n - 1 \in DOMAIN me.rtds /\ ("mono" \in kinds \/ adjusted = 0) =>
                   /\ SendIPDVSince(r, p) = Out(r, n) - Out(p, n - 1)
                   /\ ReceiveIPDVSince(r, p) = Back(r) - Back(p)
=============================================================================
