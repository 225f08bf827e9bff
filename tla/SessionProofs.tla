--------------------------- MODULE SessionProofs ---------------------------
(***************************************************************************)
(* Session.tla proved for every set of requests and servers, every number  *)
(* of open timeouts and any number of deliveries.                          *)
(***************************************************************************)
EXTENDS Session, TLAPS

-----------------------------------------------------------------------------
(* The operators of Negotiation *)

\* A fourth of the timeout, and what four of them come to.
LEMMA Fourth ==
  ASSUME NEW s \in ServerType
  PROVE  MaxInterval(s) \in Nat /\ 4 * MaxInterval(s) <= s.timeout
<1>1. s.timeout \in Nat BY DEF ServerType
<1>2. \A t \in Nat : t \div 4 \in Nat /\ 4 * (t \div 4) <= t OBVIOUS
<1> QED BY <1>1, <1>2 DEF MaxInterval

\* The interval a server gives is within a fourth of its timeout, if it has one.
LEMMA RestrictIntervalBounds ==
  ASSUME NEW s \in ServerType, NEW i \in Nat
  PROVE  LET r == RestrictInterval(s, i)
         IN  /\ r \in Nat
             /\ s.timeout > 0 => r <= MaxInterval(s)
             /\ s.timeout = 0 \/ s.minInterval <= MaxInterval(s) => s.minInterval <= r
             /\ r < i => s.timeout > 0 /\ r = MaxInterval(s)
<1>1. s.timeout \in Nat /\ s.minInterval \in Nat BY DEF ServerType
<1> QED BY <1>1, Fourth DEF RestrictInterval

(* A limit is kept, and never raises what was asked for. *)
LEMMA AtMostBounds ==
  ASSUME NEW l \in Nat, NEW n \in Int
  PROVE  /\ AtMost(l, n) \in Int
         /\ AtMost(l, n) <= n
         /\ l > 0 => AtMost(l, n) <= l
  BY DEF AtMost

LEMMA AtMostNat ==
  ASSUME NEW l \in Nat, NEW n \in Nat
  PROVE  /\ AtMost(l, n) \in Nat
         /\ AtMost(l, n) <= n
         /\ l > 0 => AtMost(l, n) <= l
  BY DEF AtMost

LEMMA RestrictFields ==
  ASSUME NEW s \in ServerType, NEW p \in ParamsType
  PROVE  LET r == RestrictParams(s, p)
         IN  /\ r \in ParamsType
             /\ r.version = s.version
             /\ r.duration = AtMost(s.maxDuration, p.duration)
             /\ r.interval = RestrictInterval(s, p.interval)
             /\ r.length = AtMost(s.maxLength, p.length)
             /\ r.stats = p.stats
             /\ r.fill = RestrictFill(s, p.fill)
<1>1. /\ p.duration \in Nat /\ p.interval \in Nat /\ p.length \in Int /\ p.stamp \in Stamps
      /\ p.dscp \in Nat /\ p.fill \in {NoFill, DefaultFill} \cup OtherFills
  BY DEF ParamsType
<1>2. s.version \in Nat /\ s.maxDuration \in Nat /\ s.maxLength \in Nat BY DEF ServerType
<1>3. /\ AtMost(s.maxDuration, p.duration) \in Nat
      /\ AtMost(s.maxLength, p.length) \in Int
      /\ RestrictInterval(s, p.interval) \in Nat
  <2>1. AtMost(s.maxDuration, p.duration) \in Nat BY <1>1, <1>2, AtMostNat
  <2>2. AtMost(s.maxLength, p.length) \in Int BY <1>1, <1>2, AtMostBounds
  <2>3. RestrictInterval(s, p.interval) \in Nat BY <1>1, RestrictIntervalBounds
  <2> QED BY <2>1, <2>2, <2>3
<1>4. RestrictStamp(s.allowStamp, p.stamp) \in Stamps BY <1>1 DEF RestrictStamp, Stamps
<1>5. RestrictFill(s, p.fill) \in {NoFill, DefaultFill} \cup OtherFills
  BY <1>1 DEF RestrictFill
<1>6. (IF s.allowDSCP THEN p.dscp ELSE 0) \in Nat BY <1>1
<1> QED BY <1>2, <1>3, <1>4, <1>5, <1>6 DEF RestrictParams, ParamsType

\* Records of parameters are equal when their fields are.
LEMMA SameParams ==
  ASSUME NEW p \in ParamsType, NEW q \in ParamsType,
         p.version = q.version, p.duration = q.duration, p.interval = q.interval,
         p.length = q.length, p.stats = q.stats, p.stamp = q.stamp, p.clock = q.clock,
         p.dscp = q.dscp, p.fill = q.fill
  PROVE  p = q
  BY DEF ParamsType

\* What a strict client does not refuse is what it asked for.
LEMMA StrictCheck ==
  ASSUME NEW s \in ServerType, NEW p \in ParamsType, ~Refuses(FALSE, p, RestrictParams(s, p))
  PROVE  RestrictParams(s, p) = p
<1> DEFINE r == RestrictParams(s, p)
<1>1. r \in ParamsType /\ r.stats = p.stats BY RestrictFields
<1> HIDE DEF r
<1>2. ~Invalid(p, r) /\ ~Restricted(p, r) BY DEF Refuses, r
<1>3. /\ p.duration \in Int /\ r.duration \in Int /\ p.length \in Int /\ r.length \in Int
  BY <1>1 DEF ParamsType
<1>4. r.duration = p.duration /\ r.length = p.length
  BY <1>2, <1>3 DEF Invalid, Restricted
<1>5. /\ r.version = p.version /\ r.interval = p.interval /\ r.stamp = p.stamp
      /\ r.clock = p.clock /\ r.dscp = p.dscp /\ r.fill = p.fill
  BY <1>2 DEF Invalid, Restricted
<1>6. r = p BY <1>1, <1>4, <1>5, SameParams
<1> QED BY <1>6 DEF r

-----------------------------------------------------------------------------
(* The inductive invariant *)

Asking == config.asked

Given == RestrictParams(server, Asking)

\* What is in the network is what a client and a server of this program write.
Honest ==
    \A m \in net :
      /\ m.type = "open" => m.params = Asking /\ m.close = config.noTest
      /\ m.type = "reply" =>
           /\ m.params = Given
           /\ m.close = config.noTest
           /\ config.noTest => m.token = 0
           /\ ~config.noTest /\ pc # "ended" =>
                m.token \in DOMAIN conns /\ conns[m.token] = Given
      /\ m.type = "close" => pc = "ended" /\ ~config.noTest

\* The goroutine writes before it hands over, and once.
Writing ==
    /\ recv = "read" \/ rerr => ctoken = 0
    /\ recv = "read" => ~rerr
    /\ recv = "parse" => reply \in Replies /\ ctoken = 0 /\ ~rerr
    /\ recv \in {"hand", "ended"} /\ ~rerr =>
         reply \in Replies /\ params = reply.params /\ ctoken = reply.token

\* Run goes on only with what was handed over, and tests only what it checked.
Handed ==
    /\ pc \in {"check", "test"} => recv = "ended" /\ ~rerr
    /\ pc = "test" => ~config.noTest /\ ~Refuses(config.loose, Asking, params)
    /\ pc \in {"loop", "select"} => recv # "ended"

Invariant == TypeOK /\ Honest /\ Writing /\ Handed

LEMMA ConfigTypes ==
  ASSUME TypeOK
  PROVE  /\ config = [asked |-> config.asked, loose |-> config.loose, noTest |-> config.noTest]
         /\ Asking \in Requests /\ Asking \in ParamsType
         /\ config.loose \in BOOLEAN /\ config.noTest \in BOOLEAN
         /\ server \in ServerType
         /\ Given \in ParamsType
<1>1. /\ config = [asked |-> config.asked, loose |-> config.loose, noTest |-> config.noTest]
      /\ Asking \in Asked /\ config.loose \in BOOLEAN /\ config.noTest \in BOOLEAN
  BY DEF TypeOK, Asking
<1>2. Asking \in Requests /\ Asking \in ParamsType BY <1>1, SessionAssumption DEF Requests
<1>3. server \in ServerType BY SessionAssumption DEF TypeOK
<1>4. Given \in ParamsType BY <1>2, <1>3, RestrictFields DEF Given
<1> QED BY <1>1, <1>2, <1>3, <1>4

\* What the invariant makes of a test: the parameters given, under the token held.
LEMMA TestHasGiven ==
  ASSUME Invariant, pc = "test"
  PROVE  /\ params = Given
         /\ ctoken \in DOMAIN conns /\ conns[ctoken] = params
         /\ ~Refuses(config.loose, Asking, params)
<1>1. /\ reply \in net /\ reply.type = "reply" /\ params = reply.params /\ ctoken = reply.token
      /\ ~config.noTest
  BY DEF Invariant, Handed, Writing, Replies
<1> QED BY <1>1 DEF Invariant, Honest, Handed

LEMMA Consequences == Invariant => ParamsAgree /\ StrictGetsAsked /\ WithinLimits
<1> SUFFICES ASSUME Invariant PROVE ParamsAgree /\ StrictGetsAsked /\ WithinLimits
  OBVIOUS
<1>0. TypeOK BY DEF Invariant
<1>1. ParamsAgree BY TestHasGiven DEF ParamsAgree
<1>2. StrictGetsAsked
  <2> SUFFICES ASSUME pc = "test", ~config.loose PROVE params = config.asked
    BY DEF StrictGetsAsked
  <2>1. config.loose = FALSE BY <1>0, ConfigTypes
  <2>2. ~Refuses(FALSE, Asking, RestrictParams(server, Asking)) BY <2>1, TestHasGiven DEF Given
  <2> QED BY <1>0, <2>2, ConfigTypes, StrictCheck, TestHasGiven DEF Given, Asking
<1>3. WithinLimits
  <2> SUFFICES ASSUME pc = "test"
               PROVE  /\ params.version = server.version
                      /\ params.duration <= Asking.duration
                      /\ server.maxDuration > 0 => params.duration <= server.maxDuration
                      /\ params.length <= Asking.length
                      /\ server.maxLength > 0 => params.length <= server.maxLength
                      /\ server.timeout > 0 => 4 * params.interval <= server.timeout
                      /\ server.timeout = 0 \/ server.minInterval <= MaxInterval(server) =>
                           server.minInterval <= params.interval
                      /\ params.fill \in {NoFill, DefaultFill}
                                           \cup (server.allowFills \cap ValidFills)
    BY DEF WithinLimits, Asking
  <2>1. server \in ServerType /\ Asking \in ParamsType /\ params = RestrictParams(server, Asking)
    BY <1>0, ConfigTypes, TestHasGiven DEF Given
  <2>2. /\ server.maxDuration \in Nat /\ server.maxLength \in Nat /\ server.timeout \in Nat
        /\ Asking.duration \in Nat /\ Asking.interval \in Nat /\ Asking.length \in Int
    BY <2>1 DEF ServerType, ParamsType
  <2>3. /\ params.version = server.version
        /\ params.duration = AtMost(server.maxDuration, Asking.duration)
        /\ params.interval = RestrictInterval(server, Asking.interval)
        /\ params.length = AtMost(server.maxLength, Asking.length)
        /\ params.fill = RestrictFill(server, Asking.fill)
    BY <2>1, RestrictFields
  <2>4. /\ params.duration <= Asking.duration
        /\ server.maxDuration > 0 => params.duration <= server.maxDuration
    BY <2>2, <2>3, AtMostNat
  <2>5. /\ params.length <= Asking.length
        /\ server.maxLength > 0 => params.length <= server.maxLength
    BY <2>2, <2>3, AtMostBounds
  <2>6. server.timeout > 0 => 4 * params.interval <= server.timeout
    <3>1. server.timeout > 0 => params.interval <= MaxInterval(server)
      BY <2>1, <2>2, <2>3, RestrictIntervalBounds
    <3>2. params.interval \in Nat BY <2>1, <2>2, <2>3, RestrictIntervalBounds
    <3> QED BY <2>1, <2>2, <3>1, <3>2, Fourth
  <2>7. server.timeout = 0 \/ server.minInterval <= MaxInterval(server) =>
          server.minInterval <= params.interval
    BY <2>1, <2>2, <2>3, RestrictIntervalBounds
  <2>8. params.fill \in {NoFill, DefaultFill} \cup (server.allowFills \cap ValidFills)
    BY <2>3 DEF RestrictFill
  <2> QED BY <2>3, <2>4, <2>5, <2>6, <2>7, <2>8
<1> QED BY <1>1, <1>2, <1>3

-----------------------------------------------------------------------------
(* Steps that leave the network alone *)

LEMMA Initially == Init => Invariant
<1> SUFFICES ASSUME Init PROVE Invariant OBVIOUS
<1>1. config \in [asked : Asked, loose : BOOLEAN, noTest : BOOLEAN] BY DEF Init
<1>2. config.asked \in Requests BY <1>1, SessionAssumption
<1>3. config.asked \in ParamsType BY <1>2 DEF Requests
<1>4. reply \in [type : {"reply"}, token : Tokens, params : ParamsType, close : BOOLEAN]
  BY <1>3, SessionAssumption DEF Init, Reply
<1>5. DOMAIN conns = {} BY DEF Init
<1>6. TypeOK
  <2>1. tries \in 0 .. OpenTimeouts /\ accepts \in 0 .. MaxAccepts
    BY SessionAssumption DEF Init
  <2>2. ctoken \in Tokens /\ server \in Servers BY SessionAssumption DEF Init
  <2>3. net \subseteq Packets BY DEF Init
  <2>4. pc = "loop" /\ recv = "read" /\ rerr = FALSE /\ socket = "open" /\ outcome = "none"
        /\ params = config.asked /\ unsent = {}
    BY DEF Init
  <2> QED BY <1>1, <1>3, <1>4, <1>5, <2>1, <2>2, <2>3, <2>4 DEF TypeOK
<1>7. Honest /\ Writing /\ Handed BY DEF Init, Honest, Writing, Handed
<1> QED BY <1>6, <1>7 DEF Invariant

LEMMA HonestStays ==
  ASSUME Honest, UNCHANGED <<config, server, net, conns>>, pc = "ended" => pc' = "ended"
  PROVE  Honest' /\ Replies' = Replies /\ Asking' = Asking
<1>1. Asking' = Asking /\ Given' = Given BY DEF Asking, Given
<1>2. Honest' BY <1>1 DEF Honest
<1> QED BY <1>1, <1>2 DEF Replies

LEMMA GiveUpKeeps == Invariant /\ GiveUp => Invariant'
<1> SUFFICES ASSUME Invariant, GiveUp PROVE Invariant' OBVIOUS
<1>1. TypeOK' BY DEF Invariant, TypeOK, GiveUp, End
<1>2. Honest' /\ Replies' = Replies BY HonestStays DEF Invariant, GiveUp, End
<1>3. Writing' BY <1>2 DEF Invariant, Writing, GiveUp
<1>4. Handed' BY DEF Handed, GiveUp, End
<1> QED BY <1>1, <1>2, <1>3, <1>4 DEF Invariant

LEMMA TimeOutKeeps == Invariant /\ TimeOut => Invariant'
<1> SUFFICES ASSUME Invariant, TimeOut PROVE Invariant' OBVIOUS
<1>1. TypeOK' BY DEF Invariant, TypeOK, TimeOut
<1>2. Honest' /\ Replies' = Replies BY HonestStays DEF Invariant, TimeOut
<1>3. Writing' BY <1>2 DEF Invariant, Writing, TimeOut
<1>4. Handed' BY DEF Invariant, Handed, TimeOut
<1> QED BY <1>1, <1>2, <1>3, <1>4 DEF Invariant

LEMMA CancelledKeeps == Invariant /\ Cancelled => Invariant'
<1> SUFFICES ASSUME Invariant, Cancelled PROVE Invariant' OBVIOUS
<1>1. TypeOK' BY DEF Invariant, TypeOK, Cancelled, End
<1>2. Honest' /\ Replies' = Replies BY HonestStays DEF Invariant, Cancelled, End
<1>3. Writing' BY <1>2 DEF Invariant, Writing, Cancelled
<1>4. Handed' BY DEF Handed, Cancelled, End
<1> QED BY <1>1, <1>2, <1>3, <1>4 DEF Invariant

LEMMA AnsweredKeeps == Invariant /\ Answered => Invariant'
<1> SUFFICES ASSUME Invariant, Answered PROVE Invariant' OBVIOUS
<1>1. TypeOK' BY DEF Invariant, TypeOK, Answered, End
<1>2. Honest' /\ Replies' = Replies BY HonestStays DEF Invariant, Answered, End
<1>3. Writing' BY <1>2 DEF Invariant, Writing, Answered
<1>4. Handed' BY DEF Handed, Answered, End
<1> QED BY <1>1, <1>2, <1>3, <1>4 DEF Invariant

LEMMA CheckKeeps == Invariant /\ Check => Invariant'
<1> SUFFICES ASSUME Invariant, Check PROVE Invariant' OBVIOUS
<1>1. TypeOK' BY DEF Invariant, TypeOK, Check, End
<1>2. Honest' /\ Replies' = Replies /\ Asking' = Asking
  BY HonestStays DEF Invariant, Check, End
<1>3. Writing' BY <1>2 DEF Invariant, Writing, Check
<1>4. Handed'
  <2>1. CASE pc' = "close" BY <2>1 DEF Handed
  <2>2. CASE pc' = "test" /\ ~config.noTest /\ ~Refuses(config.loose, config.asked, params)
    BY <2>2, <1>2 DEF Invariant, Handed, Check, Asking
  <2> QED BY <2>1, <2>2 DEF Check, End
<1> QED BY <1>1, <1>2, <1>3, <1>4 DEF Invariant

LEMMA TestKeeps == Invariant /\ Test => Invariant'
<1> SUFFICES ASSUME Invariant, Test PROVE Invariant' OBVIOUS
<1>1. TypeOK' BY DEF Invariant, TypeOK, Test, End
<1>2. Honest' /\ Replies' = Replies BY HonestStays DEF Invariant, Test, End
<1>3. Writing' BY <1>2 DEF Invariant, Writing, Test
<1>4. Handed' BY DEF Handed, Test, End
<1> QED BY <1>1, <1>2, <1>3, <1>4 DEF Invariant

LEMMA ReceiveFailsKeeps == Invariant /\ ReceiveFails => Invariant'
<1> SUFFICES ASSUME Invariant, ReceiveFails PROVE Invariant' OBVIOUS
<1>1. TypeOK' BY DEF Invariant, TypeOK, ReceiveFails
<1>2. Honest' /\ Replies' = Replies BY HonestStays DEF Invariant, ReceiveFails
<1>3. Writing' BY <1>2 DEF Invariant, Writing, ReceiveFails
<1>4. Handed' BY <1>2 DEF Invariant, Handed, ReceiveFails
<1> QED BY <1>1, <1>2, <1>3, <1>4 DEF Invariant

LEMMA ReceiveKeeps == Invariant /\ Receive => Invariant'
<1> SUFFICES ASSUME Invariant, Receive PROVE Invariant' OBVIOUS
<1>0. ctoken = 0 /\ recv = "read" /\ ~rerr BY DEF Invariant, Writing, Receive
<1>1. net' = net /\ unsent' = unsent /\ socket' \in {"open", "closed"}
  BY <1>0 DEF Receive, ConnClose, Invariant, TypeOK
<1>2. reply' \in Replies /\ reply' \in net /\ reply'.type = "reply" BY DEF Receive, Replies
<1>3. reply' \in [type : {"reply"}, token : Tokens, params : ParamsType, close : BOOLEAN]
  BY <1>2 DEF Invariant, TypeOK, Packets
<1>4. TypeOK' BY <1>1, <1>3 DEF Invariant, TypeOK, Receive
<1>5. Honest' /\ Replies' = Replies BY <1>1, HonestStays DEF Invariant, Receive
<1>6. Writing' BY <1>0, <1>2, <1>5 DEF Writing, Receive
<1>7. Handed' BY <1>0, <1>5 DEF Invariant, Handed, Receive
<1> QED BY <1>4, <1>5, <1>6, <1>7 DEF Invariant

LEMMA ParseKeeps == Invariant /\ Parse => Invariant'
<1> SUFFICES ASSUME Invariant, Parse PROVE Invariant' OBVIOUS
<1>0. /\ ctoken = 0 /\ recv = "parse" /\ recv' = "hand" /\ ~rerr
      /\ reply \in Replies /\ reply \in net /\ reply.type = "reply"
  BY DEF Invariant, Writing, Parse, Replies
<1>1. reply.close => reply.token = 0 BY <1>0 DEF Invariant, Honest
<1>2. net' = net /\ unsent' = unsent /\ socket' \in {"open", "closed"}
  BY <1>1 DEF Parse, ConnClose, Invariant, TypeOK
<1>3. reply.token \in Tokens /\ reply.params \in ParamsType BY DEF Invariant, TypeOK
<1>4. TypeOK' BY <1>2, <1>3 DEF Invariant, TypeOK, Parse
<1>5. Honest' /\ Replies' = Replies BY <1>2, HonestStays DEF Invariant, Parse
<1>6. Writing' BY <1>0, <1>5 DEF Writing, Parse
<1>7. Handed' BY <1>0 DEF Invariant, Handed, Parse
<1> QED BY <1>4, <1>5, <1>6, <1>7 DEF Invariant

-----------------------------------------------------------------------------
(* Steps that write to the network or the table *)

LEMMA SendOpenKeeps == Invariant /\ SendOpen => Invariant'
<1> SUFFICES ASSUME Invariant, SendOpen PROVE Invariant' OBVIOUS
<1>1. CASE UNCHANGED <<net, tries>> /\ End("error")
  <2>1. TypeOK' BY <1>1 DEF Invariant, TypeOK, SendOpen, End
  <2>2. Honest' /\ Replies' = Replies BY <1>1, HonestStays DEF Invariant, SendOpen, End
  <2>3. Writing' BY <2>2 DEF Invariant, Writing, SendOpen
  <2>4. Handed' BY <1>1 DEF Handed, End
  <2> QED BY <2>1, <2>2, <2>3, <2>4 DEF Invariant
<1>2. CASE /\ net' = net \cup {Request(config.asked, config.noTest)}
           /\ tries' = tries + 1 /\ pc' = "select" /\ UNCHANGED outcome
  <2>0. Asking \in ParamsType /\ config.noTest \in BOOLEAN BY ConfigTypes DEF Invariant
  <2>1. Request(config.asked, config.noTest) \in Packets
    BY <2>0 DEF Request, Packets, Asking
  <2>2. tries' \in 0 .. OpenTimeouts
    <3>1. OpenTimeouts \in Nat BY SessionAssumption
    <3>2. tries \in 0 .. OpenTimeouts BY DEF Invariant, TypeOK
    <3>3. tries < OpenTimeouts BY DEF SendOpen
    <3> QED BY <1>2, <3>1, <3>2, <3>3
  <2>3. net' \subseteq Packets BY <1>2, <2>1 DEF Invariant, TypeOK
  <2>4. TypeOK' BY <1>2, <2>2, <2>3 DEF Invariant, TypeOK, SendOpen
  <2>5. Given' = Given /\ Asking' = Asking BY DEF SendOpen, Given, Asking
  <2>6. Honest'
    <3> SUFFICES ASSUME NEW m \in net'
                 PROVE  /\ m.type = "open" => m.params = Asking /\ m.close = config.noTest
                        /\ m.type = "reply" =>
                             /\ m.params = Given
                             /\ m.close = config.noTest
                             /\ config.noTest => m.token = 0
                             /\ ~config.noTest =>
                                  m.token \in DOMAIN conns /\ conns[m.token] = Given
                        /\ m.type = "close" => FALSE
      BY <2>5, <1>2 DEF Honest, SendOpen
    <3>1. CASE m \in net BY <3>1 DEF Invariant, Honest, SendOpen
    <3>2. CASE m = Request(config.asked, config.noTest) BY <3>2 DEF Request, Asking
    <3> QED BY <1>2, <3>1, <3>2
  <2>7. Replies \subseteq Replies' BY <1>2 DEF Replies
  <2>8. Writing' BY <2>7 DEF Invariant, Writing, SendOpen
  <2>9. Handed' BY <1>2 DEF Invariant, Handed, SendOpen
  <2> QED BY <2>4, <2>6, <2>8, <2>9 DEF Invariant
<1> QED BY <1>1, <1>2 DEF SendOpen

LEMMA CloseKeeps == Invariant /\ Close => Invariant'
<1> SUFFICES ASSUME Invariant, Close PROVE Invariant' OBVIOUS
<1>1. ctoken \in Tokens /\ socket' \in {"open", "closed"} /\ unsent' \subseteq Tokens
  BY DEF Invariant, TypeOK, Close, ConnClose
<1>2. ctoken # 0 => ~config.noTest
  <2> SUFFICES ASSUME ctoken # 0 PROVE ~config.noTest OBVIOUS
  <2>1. recv \in {"hand", "ended"} /\ ~rerr BY DEF Invariant, TypeOK, Writing
  <2>2. reply \in net /\ reply.type = "reply" /\ ctoken = reply.token
    BY <2>1 DEF Invariant, Writing, Replies
  <2> QED BY <2>2 DEF Invariant, Honest
<1>3. \/ net' = net
      \/ net' = net \cup {CloseOf(ctoken)} /\ ctoken # 0
  BY DEF Close, ConnClose
<1>4. net' \subseteq Packets
  <2>1. ctoken # 0 => CloseOf(ctoken) \in Packets BY <1>1 DEF Packets, CloseOf
  <2>2. net \subseteq Packets BY DEF Invariant, TypeOK
  <2> QED BY <1>3, <2>1, <2>2
<1>5. TypeOK' BY <1>1, <1>4 DEF Invariant, TypeOK, Close
<1>6. Given' = Given /\ Asking' = Asking BY DEF Close, Given, Asking
<1>7. Honest'
  <2> SUFFICES ASSUME NEW m \in net'
               PROVE  /\ m.type = "open" => m.params = Asking /\ m.close = config.noTest
                      /\ m.type = "reply" =>
                           /\ m.params = Given
                           /\ m.close = config.noTest
                           /\ config.noTest => m.token = 0
                      /\ m.type = "close" => ~config.noTest
    BY <1>6 DEF Honest, Close
  <2>1. CASE m \in net BY <2>1 DEF Invariant, Honest
  <2>2. CASE m = CloseOf(ctoken) /\ ctoken # 0 BY <2>2, <1>2 DEF CloseOf
  <2> QED BY <1>3, <2>1, <2>2
<1>8. Replies \subseteq Replies' BY <1>3 DEF Replies
<1>9. Writing' BY <1>8 DEF Invariant, Writing, Close
<1>10. Handed' BY DEF Handed, Close
<1> QED BY <1>5, <1>7, <1>9, <1>10 DEF Invariant

LEMMA ServeCloseKeeps == Invariant /\ ServeClose => Invariant'
<1> SUFFICES ASSUME Invariant, ServeClose PROVE Invariant' OBVIOUS
<1>1. PICK t \in DOMAIN conns :
        /\ CloseOf(t) \in net
        /\ conns' = [u \in DOMAIN conns \ {t} |-> conns[u]]
  BY DEF ServeClose
<1>2. UNCHANGED <<config, server, pc, recv, rerr, reply, tries, socket, params, ctoken, unsent, outcome,
                  net, accepts>>
  BY DEF ServeClose, clientVars
<1>3. pc = "ended" BY <1>1 DEF Invariant, Honest, CloseOf
<1>4. TypeOK' BY <1>1, <1>2 DEF Invariant, TypeOK
<1>5. Given' = Given /\ Asking' = Asking BY <1>2 DEF Given, Asking
<1>6. Honest' BY <1>2, <1>3, <1>5 DEF Invariant, Honest
<1>7. Replies' = Replies BY <1>2 DEF Replies
<1>8. Writing' BY <1>2, <1>7 DEF Invariant, Writing
<1>9. Handed' BY <1>2, <1>3 DEF Handed
<1> QED BY <1>4, <1>6, <1>8, <1>9 DEF Invariant

LEMMA AcceptKeeps == Invariant /\ Accept => Invariant'
<1> SUFFICES ASSUME Invariant, Accept PROVE Invariant' OBVIOUS
<1> DEFINE p(m) == RestrictParams(server, m.params)
           close(m) == m.close \/ p(m).version # server.version
<1>1. PICK m \in net, t \in Tokens \ DOMAIN conns :
        /\ m.type = "open"
        /\ conns' = IF close(m) THEN conns
                    ELSE [u \in DOMAIN conns \cup {t} |-> IF u = t THEN p(m) ELSE conns[u]]
        /\ net' = net \cup {Reply(IF close(m) THEN 0 ELSE t, p(m), close(m))}
  BY DEF Accept
<1>2. /\ server \in ServerType /\ Asking \in ParamsType /\ Given \in ParamsType
      /\ config.noTest \in BOOLEAN
  BY ConfigTypes DEF Invariant
<1>3. m.params = Asking /\ m.close = config.noTest BY <1>1 DEF Invariant, Honest
<1>4. p(m) = Given BY <1>3 DEF Given
<1>5. Given.version = server.version BY <1>2, RestrictFields DEF Given
<1>6. close(m) = config.noTest BY <1>2, <1>3, <1>4, <1>5
<1> HIDE DEF p, close
<1> DEFINE r == Reply(IF config.noTest THEN 0 ELSE t, Given, config.noTest)
<1>7. /\ conns' = IF config.noTest THEN conns
                  ELSE [u \in DOMAIN conns \cup {t} |-> IF u = t THEN Given ELSE conns[u]]
      /\ net' = net \cup {r}
  BY <1>1, <1>4, <1>6
<1>8. UNCHANGED <<config, server, pc, recv, rerr, reply, tries, socket, params, ctoken, unsent, outcome>>
  BY DEF Accept, clientVars
<1>9. r \in Packets BY <1>2, SessionAssumption DEF Reply, Packets
<1>10. r.type = "reply" /\ r.params = Given /\ r.close = config.noTest
       /\ r.token = IF config.noTest THEN 0 ELSE t
  BY DEF Reply
<1> HIDE DEF r
<1>11. TypeOK'
  <2>1. accepts' \in 0 .. MaxAccepts
    <3>1. MaxAccepts \in Nat BY SessionAssumption
    <3>2. accepts \in 0 .. MaxAccepts BY DEF Invariant, TypeOK
    <3>3. accepts < MaxAccepts /\ accepts' = accepts + 1 BY DEF Accept
    <3> QED BY <3>1, <3>2, <3>3
  <2>2. net' \subseteq Packets BY <1>7, <1>9 DEF Invariant, TypeOK
  <2>3. DOMAIN conns' \subseteq Tokens /\ \A u \in DOMAIN conns' : conns'[u] \in ParamsType
    BY <1>2, <1>7 DEF Invariant, TypeOK
  <2> QED BY <1>8, <2>1, <2>2, <2>3 DEF Invariant, TypeOK
<1>12. Given' = Given /\ Asking' = Asking BY <1>8 DEF Given, Asking
<1>13. \A u \in DOMAIN conns : u \in DOMAIN conns' /\ conns'[u] = conns[u]
  BY <1>7
<1>14. ~config.noTest => t \in DOMAIN conns' /\ conns'[t] = Given BY <1>7
<1>15. Honest'
  <2> SUFFICES ASSUME NEW k \in net'
               PROVE  /\ k.type = "open" => k.params = Asking /\ k.close = config.noTest
                      /\ k.type = "reply" =>
                           /\ k.params = Given
                           /\ k.close = config.noTest
                           /\ config.noTest => k.token = 0
                           /\ ~config.noTest /\ pc # "ended" =>
                                k.token \in DOMAIN conns' /\ conns'[k.token] = Given
                      /\ k.type = "close" => pc = "ended" /\ ~config.noTest
    BY <1>8, <1>12 DEF Honest
  <2>1. CASE k \in net BY <2>1, <1>13 DEF Invariant, Honest
  <2>2. CASE k = r BY <2>2, <1>10, <1>14
  <2> QED BY <1>7, <2>1, <2>2
<1>16. Replies \subseteq Replies' BY <1>7 DEF Replies
<1>17. Writing' BY <1>8, <1>16 DEF Invariant, Writing
<1>18. Handed' BY <1>8, <1>12 DEF Invariant, Handed
<1> QED BY <1>11, <1>15, <1>17, <1>18 DEF Invariant

-----------------------------------------------------------------------------
(* The theorems *)

LEMMA InvariantNext == Invariant /\ [Next]_vars => Invariant'
<1>1. ASSUME Invariant, UNCHANGED vars PROVE Invariant'
  <2>1. UNCHANGED <<config, server, pc, recv, rerr, reply, tries, socket, params, ctoken, unsent,
                    outcome, net, conns, accepts>>
    BY <1>1 DEF vars, clientVars
  <2>2. TypeOK' BY <1>1, <2>1 DEF Invariant, TypeOK
  <2>3. Honest' /\ Replies' = Replies /\ Asking' = Asking
    BY <1>1, <2>1, HonestStays DEF Invariant
  <2>4. Writing' BY <1>1, <2>1, <2>3 DEF Invariant, Writing
  <2>5. Handed' BY <1>1, <2>1, <2>3 DEF Invariant, Handed
  <2> QED BY <2>2, <2>3, <2>4, <2>5 DEF Invariant
<1> QED
  BY <1>1, SendOpenKeeps, GiveUpKeeps, TimeOutKeeps, CancelledKeeps, AnsweredKeeps,
     CheckKeeps, TestKeeps, CloseKeeps, ReceiveKeeps, ReceiveFailsKeeps, ParseKeeps,
     AcceptKeeps, ServeCloseKeeps
     DEF Next, Run

LEMMA InvariantHolds == Spec => []Invariant
  BY Initially, InvariantNext, PTL DEF Spec

(* Every variable of a session keeps its type. *)
THEOREM TypeCorrect == Spec => []TypeOK
<1>1. Invariant => TypeOK BY DEF Invariant
<1> QED BY InvariantHolds, <1>1, PTL

(* However requests and replies are lost, repeated or reordered, a test runs with the
   parameters that the server keeps under the client's token.                        *)
THEOREM Agreement == Spec => []ParamsAgree
<1>1. Invariant => ParamsAgree BY Consequences
<1> QED BY InvariantHolds, <1>1, PTL

(* checkParameters lets a strict client test with nothing but what it asked for,
   whatever restrictParams does.                                                *)
THEOREM StrictTests == Spec => []StrictGetsAsked
<1>1. Invariant => StrictGetsAsked BY Consequences
<1> QED BY InvariantHolds, <1>1, PTL

(* The limits of the server bind every test, in the form SendLoop assumes them. *)
THEOREM LimitsBind == Spec => []WithinLimits
<1>1. Invariant => WithinLimits BY Consequences
<1> QED BY InvariantHolds, <1>1, PTL

(* Handing over the reply through errC is synchronisation enough: after it the goroutine
   of open has ended and writes nothing.                                                 *)
THEOREM NoLateWrites == Spec => Settled
<1>1. ASSUME Invariant, [Next]_vars, pc \in {"check", "test"}
      PROVE  UNCHANGED <<params, ctoken>>
  <2>1. recv = "ended" BY <1>1 DEF Invariant, Handed
  <2>2. CASE UNCHANGED vars BY <2>2 DEF vars, clientVars
  <2>3. CASE Run \/ Cancelled
    BY <2>3 DEF Run, SendOpen, GiveUp, TimeOut, Cancelled, Answered, Check, Test, Close
  <2>4. CASE Receive \/ ReceiveFails \/ Parse
    BY <2>1, <2>4 DEF Receive, ReceiveFails, Parse
  <2>5. CASE Accept \/ ServeClose BY <2>5 DEF Accept, ServeClose, clientVars
  <2> QED BY <1>1, <2>2, <2>3, <2>4, <2>5 DEF Next
<1>2. Invariant /\ [Next]_vars => [(pc \in {"check", "test"}) => UNCHANGED <<params, ctoken>>]_vars
  BY <1>1
<1> QED BY InvariantHolds, <1>2, PTL DEF Spec, Settled

-----------------------------------------------------------------------------
(* How a session ends *)

(* A refusal or a test needs a reply that was handed over, with a token for a client
   that is to test, and until then nobody but the last timeout closes its socket.    *)
Ending ==
    /\ outcome \in {"refused", "tested"} => recv = "ended" /\ ~rerr
    /\ pc \notin {"close", "ended"} => outcome = "none"
    /\ outcome = "refused" => Refuses(config.loose, Asking, params)
    /\ recv \in {"hand", "ended"} /\ ~rerr /\ ~config.noTest => ctoken # 0
    /\ socket = "closed" /\ ~config.noTest => outcome = "timeout" \/ pc = "ended"
    /\ ToldAtEnd

LEMMA EndingInit == Init => Ending
  BY DEF Init, Ending, ToldAtEnd

LEMMA RunEnding ==
  ASSUME Invariant, Ending, SendOpen \/ GiveUp \/ TimeOut \/ Cancelled \/ Answered
  PROVE  Ending'
<1>1. CASE SendOpen
  BY <1>1 DEF SendOpen, End, Ending, ToldAtEnd, Asking
<1>2. CASE GiveUp
  BY <1>2 DEF GiveUp, End, Ending, ToldAtEnd, Asking
<1>3. CASE TimeOut
  BY <1>3 DEF TimeOut, Ending, ToldAtEnd, Asking
<1>4. CASE Cancelled
  BY <1>4 DEF Cancelled, End, Ending, ToldAtEnd, Asking
<1>5. CASE Answered
  BY <1>5 DEF Answered, End, Ending, ToldAtEnd, Asking
<1> QED BY <1>1, <1>2, <1>3, <1>4, <1>5

LEMMA CheckEnding == Invariant /\ Ending /\ Check => Ending'
<1> SUFFICES ASSUME Invariant, Ending, Check PROVE Ending' OBVIOUS
<1>1. recv = "ended" /\ ~rerr BY DEF Check, Invariant, Handed
<1>2. Asking' = Asking BY DEF Check, Asking
<1>3. CASE outcome' = "refused" /\ Refuses(config.loose, config.asked, params)
  BY <1>1, <1>2, <1>3 DEF Check, End, Ending, ToldAtEnd, Asking
<1>4. CASE ~Refuses(config.loose, config.asked, params)
  <2>1. outcome = "none" BY DEF Check, Ending
  <2>2. outcome' \in {"none", "noTest"} BY <1>4, <2>1 DEF Check, End
  <2> QED BY <1>1, <1>2, <1>4, <2>1, <2>2 DEF Check, End, Ending, ToldAtEnd
<1> QED BY <1>3, <1>4 DEF Check, End

LEMMA TestEnding == Invariant /\ Ending /\ Test => Ending'
<1> SUFFICES ASSUME Invariant, Ending, Test PROVE Ending' OBVIOUS
<1>1. recv = "ended" /\ ~rerr BY DEF Test, Invariant, Handed
<1> QED BY <1>1 DEF Test, End, Ending, ToldAtEnd, Asking

\* conn.close finds a token and an open socket, and writes to it or fails to.
LEMMA CloseEnding == Invariant /\ Ending /\ Close => Ending'
<1> SUFFICES ASSUME Invariant, Ending, Close PROVE Ending' OBVIOUS
<1>1. /\ pc = "close" /\ pc' = "ended"
      /\ UNCHANGED <<config, recv, rerr, params, ctoken, outcome>>
      /\ ctoken # 0 /\ socket = "open" =>
           net' = net \cup {CloseOf(ctoken)} \/ unsent' = unsent \cup {ctoken}
  BY DEF Close, ConnClose
<1>2. ASSUME outcome \in {"refused", "tested"}, ~config.noTest
      PROVE  CloseOf(ctoken) \in net' \/ ctoken \in unsent'
  <2>1. ctoken # 0 /\ socket = "open" BY <1>1, <1>2 DEF Invariant, TypeOK, Ending
  <2> QED BY <1>1, <2>1
<1>3. CloseOf(ctoken)' = CloseOf(ctoken) BY <1>1 DEF CloseOf
<1>4. ToldAtEnd' BY <1>1, <1>2, <1>3 DEF ToldAtEnd
<1> QED BY <1>1, <1>4 DEF Ending, Asking

LEMMA GoroutineEnding ==
  ASSUME Invariant, Ending, Receive \/ ReceiveFails \/ Parse
  PROVE  Ending'
<1>1. recv # "ended" /\ ~rerr BY DEF Receive, ReceiveFails, Parse, Invariant, Writing
<1>2. outcome \notin {"refused", "tested"} BY <1>1 DEF Ending
<1>3. UNCHANGED <<config, pc, outcome>> /\ Asking' = Asking
  BY DEF Receive, ReceiveFails, Parse, Asking
<1>4. ToldAtEnd' BY <1>2, <1>3 DEF ToldAtEnd
<1>5. CASE Receive
  <2>1. reply' \in net /\ reply'.type = "reply" BY <1>5 DEF Receive, Replies
  <2>2. reply'.close = config.noTest BY <2>1 DEF Invariant, Honest
  <2>3. ~config.noTest => socket' = socket BY <1>5, <2>2 DEF Receive
  <2>4. recv' = "parse" BY <1>5 DEF Receive
  <2> QED BY <1>2, <1>3, <1>4, <2>3, <2>4 DEF Ending
<1>6. CASE ReceiveFails
  BY <1>2, <1>3, <1>4, <1>6 DEF ReceiveFails, Ending
<1>7. CASE Parse
  <2>1. reply \in net /\ reply.type = "reply" BY <1>7 DEF Parse, Invariant, Writing, Replies
  <2>2. reply.close = config.noTest BY <2>1 DEF Invariant, Honest
  <2>3. /\ ~config.noTest => socket' = socket
        /\ ~config.noTest /\ ~rerr' => ctoken' # 0
    BY <1>7, <2>2 DEF Parse
  <2> QED BY <1>2, <1>3, <1>4, <2>3 DEF Ending
<1> QED BY <1>5, <1>6, <1>7

LEMMA EndingNext == Invariant /\ Ending /\ [Next]_vars => Ending'
<1> SUFFICES ASSUME Invariant, Ending, [Next]_vars PROVE Ending' OBVIOUS
<1>1. CASE UNCHANGED vars
  BY <1>1 DEF vars, clientVars, Ending, ToldAtEnd, Asking
<1>2. ASSUME UNCHANGED <<config, clientVars>>, net \subseteq net' PROVE Ending'
  BY <1>2 DEF clientVars, Ending, ToldAtEnd, Asking, CloseOf
<1>3. CASE Accept
  <2>1. UNCHANGED <<config, clientVars>> BY <1>3 DEF Accept
  <2>2. net \subseteq net' BY <1>3 DEF Accept
  <2> QED BY <1>2, <2>1, <2>2
<1>4. CASE ServeClose
  BY <1>2, <1>4 DEF ServeClose
<1> QED BY <1>1, <1>3, <1>4, RunEnding, CheckEnding, TestEnding, CloseEnding, GoroutineEnding
        DEF Next, Run

LEMMA EndingHolds == Spec => [](Invariant /\ Ending)
  BY InvariantHolds, EndingInit, EndingNext, PTL DEF Spec

(* Whatever order replies, timeouts and the cancellation come in, a server whose
   parameters were refused, or that was tested with, is sent the token it gave
   with the close flag, unless that packet could not be written (cconn.close then
   closes the socket all the same).                                               *)
THEOREM ServerTold == Spec => []ToldAtEnd
<1>1. Ending => ToldAtEnd BY DEF Ending
<1> QED BY <1>1, EndingHolds, PTL

(* Of what restrictParams makes of any request, a loose client refuses only another
   version and an interval that the server's timeout forces below its demand.       *)
THEOREM LooseAccepts == Spec => []LooseRefusals
<1>1. Invariant /\ Ending => LooseRefusals
  <2> SUFFICES ASSUME Invariant, Ending, outcome = "refused", config.loose
               PROVE  \/ Asking.version # server.version
                      \/ /\ server.timeout > 0
                         /\ MaxInterval(server) < MinRestrictedInterval
                         /\ \/ MaxInterval(server) < Asking.interval
                            \/ MaxInterval(server) < server.minInterval
    BY DEF LooseRefusals, Asking
  <2>1. server \in ServerType /\ Asking \in ParamsType BY ConfigTypes DEF Invariant
  <2>2. params = Given
    <3>1. reply \in net /\ reply.type = "reply" /\ params = reply.params
      BY DEF Ending, Invariant, Writing, Replies
    <3> QED BY <3>1 DEF Invariant, Honest
  <2>3. Invalid(Asking, params) BY DEF Ending, Refuses
  <2>4. /\ server.maxDuration \in Nat /\ server.maxLength \in Nat
        /\ Asking.duration \in Nat /\ Asking.interval \in Nat /\ Asking.length \in Int
    BY <2>1 DEF ServerType, ParamsType
  <2>5. /\ params.version = server.version
        /\ params.duration = AtMost(server.maxDuration, Asking.duration)
        /\ params.interval = RestrictInterval(server, Asking.interval)
        /\ params.length = AtMost(server.maxLength, Asking.length)
    BY <2>1, <2>2, RestrictFields DEF Given
  <2>6. /\ params.duration \in Nat /\ params.duration <= Asking.duration
        /\ params.length \in Int /\ params.length <= Asking.length
    BY <2>4, <2>5, AtMostNat, AtMostBounds
  <2>7. params.interval < Asking.interval =>
          server.timeout > 0 /\ params.interval = MaxInterval(server)
    BY <2>1, <2>4, <2>5, RestrictIntervalBounds
  <2> QED BY <2>3, <2>4, <2>5, <2>6, <2>7 DEF Invalid
<1> QED BY <1>1, EndingHolds, PTL
=============================================================================
