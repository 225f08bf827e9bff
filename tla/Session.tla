------------------------------ MODULE Session ------------------------------
(***************************************************************************)
(* The opening of a connection: cconn.open (conn.go) with its resends, its *)
(* goroutine and the channel between them, the server's accept, the check  *)
(* of the parameters that came back, and the closing of the connection     *)
(* from every way out.  ClientRun.tla goes on where the step Test is.      *)
(*                                                                         *)
(* The network keeps what was sent and delivers it never, once or often,   *)
(* in any order.                                                           *)
(***************************************************************************)
EXTENDS Negotiation

CONSTANTS
    Asked,          \* the parameters the client may ask for
    Servers,        \* the server configurations it may meet
    Tokens,         \* connection tokens
    OpenTimeouts,   \* number of ClientConfig.OpenTimeouts
    MaxAccepts      \* bound of the open requests delivered

ASSUME SessionAssumption ==
    /\ Asked \subseteq Requests
    /\ Servers \subseteq ServerType
    /\ 0 \in Tokens /\ Tokens \subseteq Nat
    /\ OpenTimeouts \in Nat
    /\ MaxAccepts \in Nat

VARIABLES
    config,     \* of the client: what it asks for, Loose and NoTest
    server,     \* ServerConfig
    pc,         \* where Run is
    recv,       \* where the goroutine of open is
    rerr,       \* the goroutine's error
    reply,      \* the open reply it read
    tries,      \* open requests sent
    socket,     \* the client's socket
    params,     \* ClientConfig.Params
    ctoken,     \* cconn.ctoken, 0 for none
    unsent,     \* tokens whose close packet could not be written
    outcome,    \* how the session went
    net,        \* packets sent
    conns,      \* the server's table: parameters by token
    accepts     \* open requests delivered

clientVars ==
    <<pc, recv, rerr, reply, tries, socket, params, ctoken, unsent, outcome>>
vars == <<config, server, clientVars, net, conns, accepts>>

Request(p, close) == [type |-> "open", params |-> p, close |-> close]
Reply(t, p, close) == [type |-> "reply", token |-> t, params |-> p, close |-> close]
CloseOf(t) == [type |-> "close", token |-> t]

Replies == {m \in net : m.type = "reply"}

Init ==
    /\ config \in [asked : Asked, loose : BOOLEAN, noTest : BOOLEAN]
    /\ server \in Servers
    /\ pc = "loop"
    /\ recv = "read"
    /\ rerr = FALSE
    /\ reply = Reply(0, config.asked, FALSE)
    /\ tries = 0
    /\ socket = "open"
    /\ params = config.asked
    /\ ctoken = 0
    /\ unsent = {}
    /\ outcome = "none"
    /\ net = {}
    /\ conns = [t \in {} |-> config.asked]
    /\ accepts = 0

-----------------------------------------------------------------------------
(* Run, and open in it *)

\* conn.close is what follows: open's deferred one, or Run's.
End(how) == pc' = "close" /\ outcome' = how

SendOpen ==
    /\ pc = "loop"
    /\ tries < OpenTimeouts
    /\ \/ /\ socket = "open"
          /\ net' = net \cup {Request(config.asked, config.noTest)}
          /\ tries' = tries + 1
          /\ pc' = "select"
          /\ UNCHANGED outcome
       \/ End("error") /\ UNCHANGED <<net, tries>>
    /\ UNCHANGED <<config, server, recv, rerr, reply, socket, params, ctoken, unsent, conns,
                   accepts>>

\* The last timeout: of the deferred calls, that of nconn.close is the first.
GiveUp ==
    /\ pc = "loop"
    /\ tries = OpenTimeouts
    /\ socket' = "closed"
    /\ End("timeout")
    /\ UNCHANGED <<config, server, recv, rerr, reply, tries, params, ctoken, unsent, net, conns,
                   accepts>>

\* Faulty variant of TimeOut: there is none after the last request.
TimeOutUnlessLast ==
    /\ pc = "select"
    /\ tries < OpenTimeouts
    /\ pc' = "loop"
    /\ UNCHANGED <<config, server, recv, rerr, reply, tries, socket, params, ctoken, unsent,
                   outcome, net, conns, accepts>>

TimeOut ==
    /\ pc = "select"
    /\ pc' = "loop"
    /\ UNCHANGED <<config, server, recv, rerr, reply, tries, socket, params, ctoken, unsent,
                   outcome, net, conns, accepts>>

\* The context is done.
Cancelled ==
    /\ pc = "select"
    /\ End("cancelled")
    /\ UNCHANGED <<config, server, recv, rerr, reply, tries, socket, params, ctoken, unsent, net,
                   conns, accepts>>

\* Faulty variant of Answered: the goroutine says it has a reply, then reads it.
AnsweredEarly ==
    /\ pc = "select"
    /\ recv \in {"parse", "hand"}
    /\ recv' = IF recv = "hand" THEN "ended" ELSE recv
    /\ IF rerr THEN End("error") ELSE pc' = "check" /\ UNCHANGED outcome
    /\ UNCHANGED <<config, server, rerr, reply, tries, socket, params, ctoken, unsent, net, conns,
                   accepts>>

\* errC is not buffered: the goroutine ends as its error is taken.
Answered ==
    /\ pc = "select"
    /\ recv = "hand"
    /\ recv' = "ended"
    /\ IF rerr THEN End("error") ELSE pc' = "check" /\ UNCHANGED outcome
    /\ UNCHANGED <<config, server, rerr, reply, tries, socket, params, ctoken, unsent, net, conns,
                   accepts>>

Check ==
    /\ pc = "check"
    /\ IF Refuses(config.loose, config.asked, params) THEN End("refused")
       ELSE IF config.noTest THEN End("noTest")
       ELSE pc' = "test" /\ UNCHANGED outcome
    /\ UNCHANGED <<config, server, recv, rerr, reply, tries, socket, params, ctoken, unsent, net,
                   conns, accepts>>

Test ==
    /\ pc = "test"
    /\ End("tested")
    /\ UNCHANGED <<config, server, recv, rerr, reply, tries, socket, params, ctoken, unsent, net,
                   conns, accepts>>

(* cconn.close writes one packet if it has a token and the socket is open.  Setting its
   fields or writing it may fail; the socket is closed all the same, and the error of
   closing it takes the place of that of writing.                                       *)
ConnClose(t) ==
    /\ IF t # 0 /\ socket = "open"
       THEN \/ net' = net \cup {CloseOf(t)} /\ UNCHANGED unsent
            \/ unsent' = unsent \cup {t} /\ UNCHANGED net
       ELSE UNCHANGED <<net, unsent>>
    /\ socket' = "closed"

\* Faulty variant of Close: a refused server is only left.
CloseSilentRefusal ==
    /\ pc = "close"
    /\ ConnClose(IF outcome = "refused" THEN 0 ELSE ctoken)
    /\ pc' = "ended"
    /\ UNCHANGED <<config, server, recv, rerr, reply, tries, params, ctoken, outcome, conns,
                   accepts>>

Close ==
    /\ pc = "close"
    /\ ConnClose(ctoken)
    /\ pc' = "ended"
    /\ UNCHANGED <<config, server, recv, rerr, reply, tries, params, ctoken, outcome, conns,
                   accepts>>

-----------------------------------------------------------------------------
(* The goroutine of open *)

\* A reply with the close flag closes the connection as it is read.
Receive ==
    /\ recv = "read"
    /\ socket = "open"
    /\ reply' \in Replies
    /\ IF reply'.close THEN ConnClose(ctoken) ELSE UNCHANGED <<net, unsent, socket>>
    /\ recv' = "parse"
    /\ UNCHANGED <<config, server, pc, rerr, tries, params, ctoken, outcome, conns, accepts>>

\* The socket was closed, or what came is not a packet of ours.
ReceiveFails ==
    /\ recv = "read"
    /\ rerr' = TRUE
    /\ recv' = "hand"
    /\ UNCHANGED <<config, server, pc, reply, tries, socket, params, ctoken, unsent, outcome, net,
                   conns, accepts>>

\* A token of zero is refused.
Parse ==
    /\ recv = "parse"
    /\ \/ /\ reply.close \/ reply.token # 0
          /\ params' = reply.params
          /\ ctoken' = reply.token
          /\ IF reply.close THEN ConnClose(reply.token) ELSE UNCHANGED <<net, unsent, socket>>
          /\ UNCHANGED rerr
       \/ /\ ~reply.close
          /\ reply.token = 0
          /\ rerr' = TRUE
          /\ UNCHANGED <<params, ctoken, unsent, net, socket>>
    /\ recv' = "hand"
    /\ UNCHANGED <<config, server, pc, reply, tries, outcome, conns, accepts>>

-----------------------------------------------------------------------------
(* The server *)

\* Faulty variant of Accept: the connection keeps the parameters as they came.
AcceptUnrestricted ==
    /\ accepts < MaxAccepts
    /\ accepts' = accepts + 1
    /\ \E m \in net, t \in Tokens \ DOMAIN conns :
         /\ m.type = "open"
         /\ conns' = IF m.close THEN conns ELSE [u \in DOMAIN conns \cup {t} |->
                                                  IF u = t THEN m.params ELSE conns[u]]
         /\ net' = net \cup {Reply(IF m.close THEN 0 ELSE t, RestrictParams(server, m.params), m.close)}
    /\ UNCHANGED <<config, server, clientVars>>

(* The version is compared after restrictParams has set it, so that never closes a
   connection: the client's own comparison does.                                   *)
Accept ==
    /\ accepts < MaxAccepts
    /\ accepts' = accepts + 1
    /\ \E m \in net, t \in Tokens \ DOMAIN conns :
         /\ m.type = "open"
         /\ LET p == RestrictParams(server, m.params)
                close == m.close \/ p.version # server.version
            IN  /\ conns' = IF close THEN conns
                            ELSE [u \in DOMAIN conns \cup {t} |-> IF u = t THEN p ELSE conns[u]]
                /\ net' = net \cup {Reply(IF close THEN 0 ELSE t, p, close)}
    /\ UNCHANGED <<config, server, clientVars>>

ServeClose ==
    /\ \E t \in DOMAIN conns :
         /\ CloseOf(t) \in net
         /\ conns' = [u \in DOMAIN conns \ {t} |-> conns[u]]
    /\ UNCHANGED <<config, server, clientVars, net, accepts>>

-----------------------------------------------------------------------------
Run == SendOpen \/ GiveUp \/ TimeOut \/ Answered \/ Check \/ Test \/ Close

Next == Run \/ Cancelled \/ Receive \/ ReceiveFails \/ Parse \/ Accept \/ ServeClose

Spec == Init /\ [][Next]_vars

\* The user need not cancel, the network need not deliver, the server need not answer.
FairSpec == Spec /\ WF_vars(Run)

-----------------------------------------------------------------------------
(* Properties *)

Packets ==
    [type : {"open"}, params : ParamsType, close : BOOLEAN]
      \cup [type : {"reply"}, token : Tokens, params : ParamsType, close : BOOLEAN]
      \cup [type : {"close"}, token : Tokens \ {0}]

\* The values the state can take.
TypeOK ==
    /\ config \in [asked : Asked, loose : BOOLEAN, noTest : BOOLEAN]
    /\ server \in Servers
    /\ pc \in {"loop", "select", "check", "test", "close", "ended"}
    /\ recv \in {"read", "parse", "hand", "ended"}
    /\ rerr \in BOOLEAN
    /\ reply \in [type : {"reply"}, token : Tokens, params : ParamsType, close : BOOLEAN]
    /\ tries \in 0 .. OpenTimeouts
    /\ socket \in {"open", "closed"}
    /\ params \in ParamsType
    /\ ctoken \in Tokens
    /\ unsent \subseteq Tokens
    /\ outcome \in {"none", "timeout", "cancelled", "error", "refused", "noTest", "tested"}
    /\ net \subseteq Packets
    /\ DOMAIN conns \subseteq Tokens
    /\ \A t \in DOMAIN conns : conns[t] \in ParamsType
    /\ accepts \in 0 .. MaxAccepts

(* A test runs with the parameters the server keeps for the very token the client has,
   whatever other connections the resends and duplicates of its request have made.     *)
ParamsAgree == pc = "test" => ctoken \in DOMAIN conns /\ conns[ctoken] = params

(* A client that is not loose never tests with anything but what it asked for. *)
StrictGetsAsked == pc = "test" /\ ~config.loose => params = config.asked

(* A loose client tests within the server's limits and never beyond its own demands;
   only the minimum interval may be undercut, by a fourth of a shorter timeout.       *)
WithinLimits ==
    pc = "test" =>
      /\ params.version = server.version
      /\ params.duration <= config.asked.duration
      /\ server.maxDuration > 0 => params.duration <= server.maxDuration
      /\ params.length <= config.asked.length
      /\ server.maxLength > 0 => params.length <= server.maxLength
      /\ server.timeout > 0 => 4 * params.interval <= server.timeout
      /\ server.timeout = 0 \/ server.minInterval <= MaxInterval(server) =>
           server.minInterval <= params.interval
      /\ params.fill \in {NoFill, DefaultFill} \cup (server.allowFills \cap ValidFills)

(* checkParameters of a loose client accepts whatever restrictParams does, but for a
   version of its own and for an interval that only a short timeout can explain.     *)
LooseRefusals ==
    outcome = "refused" /\ config.loose =>
      \/ config.asked.version # server.version
      \/ /\ server.timeout > 0
         /\ MaxInterval(server) < MinRestrictedInterval
         /\ \/ MaxInterval(server) < config.asked.interval
            \/ MaxInterval(server) < server.minInterval

(* A server that was refused, or tested with, is told so under the very token it gave,
   unless the close packet could not be written: then it is left to find the connection
   idle.                                                                                *)
ToldAtEnd ==
    pc = "ended" /\ outcome \in {"refused", "tested"} /\ ~config.noTest =>
      CloseOf(ctoken) \in net \/ ctoken \in unsent

(* Once open has returned without an error, its goroutine writes no more to the
   parameters and the token that Run goes on to read without a lock.                   *)
Settled == [][(pc \in {"check", "test"}) => UNCHANGED <<params, ctoken>>]_vars

(* Run comes to its end whatever becomes of the goroutine of open, which may be left
   waiting for a reply or at its channel.                                             *)
RunEnds == <>(pc = "ended")
=============================================================================
