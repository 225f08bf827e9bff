----------------------------- MODULE ClientRun -----------------------------
(***************************************************************************)
(* Client.Run from the moment the connection is open (client.go): the send *)
(* goroutine, the receive goroutine, what they do to each other by closing *)
(* the connection, and what Run returns.                                   *)
(*                                                                         *)
(* Steps are as fine as the code lets goroutines interleave: a call that   *)
(* may block, a lock taken or released, the two halves of cconn.close.     *)
(* Packets are counted; Recorder.tla says what is recorded of them.        *)
(***************************************************************************)
EXTENDS Integers

CONSTANTS
    MaxSends,           \* packets of the test: Duration over Interval
    StrayOpens          \* replies to open requests that were sent again

ASSUME ClientRunAssumption ==
    /\ MaxSends \in Nat \ {0}
    /\ StrayOpens \in Nat

VARIABLES
    pc,         \* where each goroutine is
    ctx,        \* the context Run was given
    closedM,    \* holder of the mutex closedM
    closed,     \* Client.closed
    socket,     \* the UDP socket
    told,       \* what came of writing a close packet while it was open
    raised,     \* what send() and receive() returned
    reported,   \* serr and rerr, SendErr and ReceiveErr of the Result
    err,        \* the error Run returns
    sent,       \* packets sent
    received,   \* packets answered
    strays      \* stray open replies still to come

vars == <<pc, ctx, closedM, closed, socket, told, raised, reported, err, sent,
          received, strays>>

Goroutines == {"send", "recv"}
Processes == Goroutines \cup {"run"}

Labels == {"prepare", "fill", "send", "sleep", "wait", "init", "read", "connTell",
           "connShut", "mask", "close", "tell", "shut", "mark", "done", "wgWait",
           "returned"}

\* Errors of the network, of the server or of the Filler, not of our own close.
Genuine == {"write", "fill", "read", "packet", "openFlag", "serverClosed"}
Errors == Genuine \cup {"none", "context", "socketClosed"}

\* What may come of writing a close packet to an open socket.
Outcomes == {"sent", "failed"}

At(g, label) == pc[g] = label
Goto(g, label) == pc' = [pc EXCEPT ![g] = label]

\* send or receive returns e, and the goroutine goes on in Run.
Return(g, e) ==
    /\ raised' = [raised EXCEPT ![g] = e]
    /\ reported' = [reported EXCEPT ![g] = e]

-----------------------------------------------------------------------------
Init ==
    /\ pc = [p \in Processes |-> IF p = "send" THEN "prepare"
                              ELSE IF p = "recv" THEN "init" ELSE "wgWait"]
    /\ ctx = "live"
    /\ closedM = "free"
    /\ closed = FALSE
    /\ socket = "open"
    /\ told = {}
    /\ raised = [g \in Goroutines |-> "none"]
    /\ reported = [g \in Goroutines |-> "none"]
    /\ err = "none"
    /\ sent = 0
    /\ received = 0
    /\ strays \in 0 .. StrayOpens

\* initCh <- true: the packet length is set, receive may start.
NotifyReceive ==
    /\ At("send", "prepare")
    /\ At("recv", "init")
    /\ pc' = [pc EXCEPT !["send"] = "fill", !["recv"] = "read"]
    /\ UNCHANGED <<ctx, closedM, closed, socket, told, raised, reported, err, sent,
                   received, strays>>

(* readPayload for the first packet, or for the next one after a packet was
   sent; then the loop goes on or breaks.  It may break early: the schedule skips
   intervals when a send was late, but never sends more than MaxSends.            *)
Fill ==
    /\ At("send", "fill")
    /\ \/ sent = 0 /\ Goto("send", "send") /\ UNCHANGED <<raised, reported>>
       \/ sent \in 1 .. MaxSends - 1 /\ Goto("send", "sleep") /\ UNCHANGED <<raised, reported>>
       \/ sent > 0 /\ Goto("send", "wait") /\ UNCHANGED <<raised, reported>>
       \/ Goto("send", "mask") /\ Return("send", "fill")
    /\ UNCHANGED <<ctx, closedM, closed, socket, told, err, sent, received, strays>>

\* conn.send.
Send ==
    /\ At("send", "send")
    /\ \/ /\ socket = "open"
          /\ sent' = sent + 1
          /\ Goto("send", "fill")
          /\ UNCHANGED <<raised, reported>>
       \/ /\ Return("send", IF socket = "open" THEN "write" ELSE "socketClosed")
          /\ Goto("send", "mask")
          /\ UNCHANGED sent
    /\ UNCHANGED <<ctx, closedM, closed, socket, told, err, received, strays>>

\* Timer.Sleep: ends on time or with the context.
Sleep ==
    /\ At("send", "sleep")
    /\ \/ Goto("send", "send") /\ UNCHANGED <<raised, reported>>
       \/ ctx = "cancelled" /\ Goto("send", "mask") /\ Return("send", "context")
    /\ UNCHANGED <<ctx, closedM, closed, socket, told, err, sent, received, strays>>

\* wait: returns at once if every packet was answered, else with the Waiter's
\* time or the context.  Its error is Run's.
Wait ==
    /\ At("send", "wait")
    /\ Goto("send", "mask")
    /\ \/ err' = err
       \/ received < sent /\ ctx = "cancelled" /\ err' = "context"
    /\ UNCHANGED <<ctx, closedM, closed, socket, told, raised, reported, sent,
                   received, strays>>

-----------------------------------------------------------------------------
(* conn.receive and the rest of the receive loop, by what the socket gives. *)
ReadReply ==
    /\ At("recv", "read")
    /\ socket = "open"
    /\ received < sent
    /\ received' = received + 1
    /\ UNCHANGED <<pc, ctx, closedM, closed, socket, told, raised, reported, err, sent,
                   strays>>

\* A reply to an open request that open() sent more than once.
ReadStrayOpen ==
    /\ At("recv", "read")
    /\ socket = "open"
    /\ strays > 0
    /\ strays' = strays - 1
    /\ Return("recv", "openFlag")
    /\ Goto("recv", "mask")
    /\ UNCHANGED <<ctx, closedM, closed, socket, told, err, sent, received>>

\* A read error, or a packet that is not the reply it should be.
ReadFails ==
    /\ At("recv", "read")
    /\ \/ socket = "open" /\ \E e \in {"read", "packet"} : Return("recv", e)
       \/ socket = "closed" /\ Return("recv", "socketClosed")
    /\ Goto("recv", "mask")
    /\ UNCHANGED <<ctx, closedM, closed, socket, told, err, sent, received, strays>>

\* A reply with the close flag: cconn.receive closes the connection, without
\* closedM, before it returns.
ReadClose ==
    /\ At("recv", "read")
    /\ socket = "open"
    /\ received < sent
    /\ Return("recv", "serverClosed")
    /\ Goto("recv", "connTell")
    /\ UNCHANGED <<ctx, closedM, closed, socket, told, err, sent, received, strays>>

(* The close packet of cconn.close: its fields may fail to be set, its DSCP value
   may be refused and its Write may fail or be short, and the socket is closed all
   the same, without a word of the error.  On a closed socket nothing is written.  *)
WriteClose ==
    \/ socket = "open" /\ \E outcome \in Outcomes : told' = told \cup {outcome}
    \/ socket = "closed" /\ UNCHANGED told

ConnTell ==
    /\ At("recv", "connTell")
    /\ WriteClose
    /\ Goto("recv", "connShut")
    /\ UNCHANGED <<ctx, closedM, closed, socket, raised, reported, err, sent, received,
                   strays>>

ConnShut ==
    /\ At("recv", "connShut")
    /\ socket' = "closed"
    /\ Goto("recv", "mask")
    /\ UNCHANGED <<ctx, closedM, closed, told, raised, reported, err, sent, received,
                   strays>>

-----------------------------------------------------------------------------
\* Faulty variant of Mask: reads closed without the mutex.
MaskUnlocked(g) ==
    /\ At(g, "mask")
    /\ reported' = [reported EXCEPT ![g] = IF closed THEN "none" ELSE @]
    /\ Goto(g, "close")
    /\ UNCHANGED <<ctx, closedM, closed, socket, told, raised, err, sent, received,
                   strays>>

\* Faulty variant of Mask: asks the socket, that cconn.receive may have closed.
MaskBySocket(g) ==
    /\ At(g, "mask")
    /\ reported' = [reported EXCEPT ![g] = IF socket = "closed" THEN "none" ELSE @]
    /\ Goto(g, "close")
    /\ UNCHANGED <<ctx, closedM, closed, socket, told, raised, err, sent, received,
                   strays>>

\* An error is taken back if isClosed says that we closed the connection.
Mask(g) ==
    /\ At(g, "mask")
    /\ closedM = "free" \/ raised[g] = "none"
    /\ reported' = [reported EXCEPT ![g] = IF closed THEN "none" ELSE @]
    /\ Goto(g, "close")
    /\ UNCHANGED <<ctx, closedM, closed, socket, told, raised, err, sent, received,
                   strays>>

\* Client.close: the mutex is held while the connection is closed.
Close(g) ==
    /\ At(g, "close")
    /\ closedM = "free"
    /\ IF closed
       THEN Goto(g, "done") /\ UNCHANGED closedM
       ELSE Goto(g, "tell") /\ closedM' = g
    /\ UNCHANGED <<ctx, closed, socket, told, raised, reported, err, sent, received,
                   strays>>

\* Faulty variant of Tell: the socket is closed first, as a deferred call
\* evaluated too early would.
TellLate(g) ==
    /\ At(g, "tell")
    /\ socket' = "closed"
    /\ Goto(g, "shut")
    /\ UNCHANGED <<ctx, closedM, closed, told, raised, reported, err, sent, received,
                   strays>>

\* cconn.close sends a close packet, or fails to ...
Tell(g) ==
    /\ At(g, "tell")
    /\ WriteClose
    /\ Goto(g, "shut")
    /\ UNCHANGED <<ctx, closedM, closed, socket, raised, reported, err, sent, received,
                   strays>>

\* ... and closes the socket in any case.
Shut(g) ==
    /\ At(g, "shut")
    /\ socket' = "closed"
    /\ Goto(g, "mark")
    /\ UNCHANGED <<ctx, closedM, closed, told, raised, reported, err, sent, received,
                   strays>>

\* Faulty variant of Mark: the mutex is not released.
MarkKeepsLock(g) ==
    /\ At(g, "mark")
    /\ closed' = TRUE
    /\ Goto(g, "done")
    /\ UNCHANGED <<ctx, closedM, socket, told, raised, reported, err, sent, received,
                   strays>>

\* Back in Client.close: closed is set and the mutex released.
Mark(g) ==
    /\ At(g, "mark")
    /\ closed' = TRUE
    /\ closedM' = "free"
    /\ Goto(g, "done")
    /\ UNCHANGED <<ctx, socket, told, raised, reported, err, sent, received, strays>>

\* wg.Wait is over: newResult takes serr and rerr.
RunReturn ==
    /\ At("run", "wgWait")
    /\ \A g \in Goroutines : At(g, "done")
    /\ Goto("run", "returned")
    /\ UNCHANGED <<ctx, closedM, closed, socket, told, raised, reported, err, sent,
                   received, strays>>

\* The caller cancels: the command does on a signal.
Cancel ==
    /\ ctx = "live"
    /\ ~At("run", "returned")
    /\ ctx' = "cancelled"
    /\ UNCHANGED <<pc, closedM, closed, socket, told, raised, reported, err, sent,
                   received, strays>>

Finishing(g) == Mask(g) \/ Close(g) \/ Tell(g) \/ Shut(g) \/ Mark(g)

SendGoroutine == NotifyReceive \/ Fill \/ Send \/ Sleep \/ Wait \/ Finishing("send")

Read == ReadReply \/ ReadStrayOpen \/ ReadFails \/ ReadClose

RecvGoroutine == Read \/ ConnTell \/ ConnShut \/ Finishing("recv")

Next == SendGoroutine \/ RecvGoroutine \/ RunReturn \/ Cancel

Spec == Init /\ [][Next]_vars

(* Go runs every goroutine that can go on, timers fire, and a Read of a closed
   socket returns; no packet has to arrive and no one has to cancel.           *)
Fairness ==
    /\ WF_vars(SendGoroutine)
    /\ WF_vars(socket = "closed" /\ ReadFails)
    /\ WF_vars(ConnTell \/ ConnShut \/ Finishing("recv"))
    /\ WF_vars(RunReturn)

FairSpec == Spec /\ Fairness

-----------------------------------------------------------------------------
(* Properties *)

\* The values the state can take.
TypeOK ==
    /\ pc \in [Processes -> Labels]
    /\ ctx \in {"live", "cancelled"}
    /\ closedM \in Goroutines \cup {"free"}
    /\ closed \in BOOLEAN
    /\ socket \in {"open", "closed"}
    /\ told \subseteq Outcomes
    /\ raised \in [Goroutines -> Errors]
    /\ reported \in [Goroutines -> Errors]
    /\ err \in {"none", "context"}
    /\ sent \in 0 .. MaxSends
    /\ received \in 0 .. MaxSends
    /\ strays \in 0 .. StrayOpens

Returned == At("run", "returned")

ServerClosed == raised["recv"] = "serverClosed"

(* Client.close holds closedM from before the socket is closed until closed is
   set, so a goroutine whose read or write failed because the other one closed
   the socket does not report it: a test that ends well has no errors.          *)
OwnCloseNotReported ==
    \A g \in Goroutines :
        (raised[g] = "socketClosed" /\ ~ServerClosed /\ ~At(g, "mask"))
            => reported[g] = "none"

(* isClosed is asked before the goroutine's own close, so the goroutine that
   closes the connection first reports what it got: of two errors one is always
   kept, whichever goroutine is faster and even if the connection was closed by
   cconn.receive.                                                              *)
FirstErrorKept == Returned => \E g \in Goroutines : reported[g] = raised[g]

(* The server learns of the end of a test: no goroutine closes the socket before a
   close packet was written to it, whoever closes first, unless a close packet could
   not be written.  Then the socket is closed all the same (the deferred nconn.close
   of cconn.close takes the place of the error), and the server is left to find the
   connection idle.                                                                *)
ToldBeforeClosed ==
    socket = "closed" /\ "failed" \notin told => "sent" \in told

(* Run returns, however the goroutines interleave and whatever the server does. *)
RunReturns == <>Returned
=============================================================================
