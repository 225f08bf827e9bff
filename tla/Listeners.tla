----------------------------- MODULE Listeners -----------------------------
(***************************************************************************)
(* Server.ListenAndServe and its goroutines (server.go): one per listener, *)
(* the one that waits for the shutdown channel, and the callers of         *)
(* Shutdown, such as the signal handler of irtt_server.go.  Server.tla has *)
(* what a listener does with the packets it reads.                         *)
(*                                                                         *)
(* A socket can fail while it is read, and an option of it can fail to be  *)
(* set.  A listener is its place in laddrs.                                *)
(***************************************************************************)
EXTENDS ListenAddrs

CONSTANTS
    Scenarios,      \* configurations, with the addresses that other programs have
    Callers,        \* of Shutdown, each once
    Main            \* the goroutine of ListenAndServe, which calls it for each failure

Addrs == [ip : Nat, port : Nat, zone : Nat]

Resolved == [s \in Scenarios |-> ResolveListenAddrs(s.binds, s.ipVer)]

NoOne == "noOne"
Everyone == Callers \cup {Main}

ASSUME ListenersAssumption ==
    /\ Main \notin Callers /\ NoOne \notin Everyone
    /\ \A s \in Scenarios :
         /\ s.ttl \in BOOLEAN           \* whether a TTL is to be set
         /\ s.warns \in BOOLEAN         \* the interfaces are looked at, to warn of many addresses
         /\ s.binds \in Seq(BindAddrs)
         /\ \A k \in DOMAIN s.binds : AddrsOf(s.binds[k], s.ipVer) \in Seq(Addrs)

VARIABLES
    scenario,
    main,           \* where ListenAndServe is
    laddrs,         \* the addresses it has resolved
    next,           \* the place in laddrs that its loop is at
    told,           \* results it has received from errC
    sock,           \* each listener's socket
    lis,            \* where its goroutine is
    cause,          \* why it went down
    err,            \* whether its result is an error
    event,          \* the event that it sent
    closed,         \* its closed flag
    watcher,        \* the goroutine that waits for shutdownC
    watched,        \* and the place in laddrs that it is at
    closes,         \* how often shutdownC was closed
    shutdown,       \* the flag of the server
    shutdownMtx,    \* its mutex: who holds it, NoOne
    caller          \* where each call of Shutdown is

mainVars == <<scenario, main, laddrs, next, told>>
lisVars == <<lis, cause, err, event>>
watchVars == <<closed, watcher, watched>>
downVars == <<closes, shutdown, shutdownMtx, caller>>
vars == <<mainVars, sock, lisVars, watchVars, downVars>>

Places == DOMAIN laddrs

Init ==
    /\ scenario \in Scenarios
    /\ main = "start" /\ laddrs = <<>> /\ next = 1 /\ told = 0
    /\ sock = <<>> /\ lis = <<>> /\ cause = <<>> /\ err = <<>> /\ event = <<>> /\ closed = <<>>
    /\ watcher = "none" /\ watched = 1
    /\ closes = 0 /\ shutdown = FALSE /\ shutdownMtx = NoOne
    /\ caller = [c \in Everyone |-> "out"]

-----------------------------------------------------------------------------
(* ListenAndServe *)

Each(x) == [l \in DOMAIN laddrs' |-> x]

Resolve ==
    \E r \in Resolved[scenario] :
        /\ main = "start"
        /\ main' = IF r.ok /\ r.addrs # <<>> THEN "bind" ELSE "refused"
        /\ laddrs' = r.addrs
        /\ sock' = Each("none") /\ lis' = Each("none") /\ cause' = Each("none")
        /\ err' = Each(FALSE) /\ event' = Each("none") /\ closed' = Each(FALSE)
        /\ UNCHANGED <<scenario, next, told, watcher, watched, downVars>>

InUse(l) == laddrs[l] \in scenario.taken \/ \E k \in 1 .. l - 1 : laddrs[k] = laddrs[l]

(* One turn of listenAll's loop.  The sockets it has when one cannot be bound stay. *)
Bind ==
    /\ main = "bind" /\ next \in Places
    /\ IF InUse(next)
       THEN main' = "refused" /\ UNCHANGED <<next, sock>>
       ELSE /\ sock' = [sock EXCEPT ![next] = "open"]
            /\ main' = IF next = Len(laddrs) THEN "spawn" ELSE "bind"
            /\ next' = IF next = Len(laddrs) THEN 1 ELSE next + 1
    /\ UNCHANGED <<scenario, laddrs, told, lisVars, watchVars, downVars>>

\* The listeners' goroutines, and then the watcher's.
Spawn ==
    /\ main = "spawn" /\ next \in Places
    /\ lis' = [lis EXCEPT ![next] = "setup"]
    /\ next' = next + 1
    /\ UNCHANGED <<scenario, main, laddrs, told, sock, cause, err, event, watchVars, downVars>>

SpawnWatcher ==
    /\ main = "spawn" /\ next \notin Places
    /\ main' = "wait" /\ watcher' = "wait"
    /\ UNCHANGED <<scenario, laddrs, next, told, sock, lisVars, closed, watched, downVars>>

\* Faulty variant of Report: the loop only counts.
ReportOnly(l) ==
    /\ main = "wait" /\ lis[l] = "report"
    /\ told' = told + 1
    /\ lis' = [lis EXCEPT ![l] = "done"]
    /\ UNCHANGED <<scenario, main, laddrs, next, sock, cause, err, event, watchVars, downVars>>

\* errC is unbuffered: both are there, or the listener waits.
Report(l) ==
    /\ main = "wait" /\ lis[l] = "report"
    /\ told' = told + 1
    /\ lis' = [lis EXCEPT ![l] = "done"]
    /\ main' = IF err[l] THEN "stop" ELSE "wait"
    /\ caller' = IF err[l] THEN [caller EXCEPT ![Main] = "lock"] ELSE caller
    /\ UNCHANGED <<scenario, laddrs, next, sock, cause, err, event, watchVars,
                   closes, shutdown, shutdownMtx>>

Resume ==
    /\ main = "stop" /\ caller[Main] = "done"
    /\ main' = "wait"
    /\ caller' = [caller EXCEPT ![Main] = "out"]
    /\ UNCHANGED <<scenario, laddrs, next, told, sock, lisVars, watchVars,
                   closes, shutdown, shutdownMtx>>

Return ==
    /\ main = "wait" /\ told = Len(laddrs)
    /\ main' = "returned"
    /\ UNCHANGED <<scenario, laddrs, next, told, sock, lisVars, watchVars, downVars>>

-----------------------------------------------------------------------------
(* A listener: listenAndServe, and its deferred calls in their order *)

\* The TTL cannot be set on a closed socket; the warning needs no socket.
SetUp(l) ==
    /\ lis[l] = "setup"
    /\ scenario.ttl => sock[l] = "open"
    /\ lis' = [lis EXCEPT ![l] = "read"]
    /\ UNCHANGED <<mainVars, sock, cause, err, event, watchVars, downVars>>

(* An option cannot be set, or the TTL is to be set on a socket that the shutdown has closed:
   either way the listener returns the error before it comes to ask isClosed.               *)
SetUpFails(l, why) ==
    /\ lis[l] = "setup"
    /\ \/ why = "setup" /\ (scenario.warns \/ (scenario.ttl /\ sock[l] = "open"))
       \/ why = "ttlClosed" /\ scenario.ttl /\ sock[l] = "closed"
    /\ lis' = [lis EXCEPT ![l] = "log"]
    /\ cause' = [cause EXCEPT ![l] = why]
    /\ err' = [err EXCEPT ![l] = TRUE]
    /\ UNCHANGED <<mainVars, sock, event, watchVars, downVars>>

(* readAndReply returns with a fatal error: of a socket that was closed, or of one that
   failed.  Other errors drop a packet and no more.                                   *)
ReadFails(l, why) ==
    /\ lis[l] = "read"
    /\ why = "closed" => sock[l] = "closed"
    /\ why = "fault" => sock[l] = "open"
    /\ lis' = [lis EXCEPT ![l] = "ended"]
    /\ cause' = [cause EXCEPT ![l] = why]
    /\ err' = [err EXCEPT ![l] = TRUE]
    /\ UNCHANGED <<mainVars, sock, event, watchVars, downVars>>

\* closedMtx, which the watcher holds from closing a socket to setting its flag.
Held(l) == watcher = "closing" /\ watched = l

\* Faulty variant of CheckClosed: isClosed without the lock.
CheckClosedUnlocked(l) ==
    /\ lis[l] = "ended"
    /\ lis' = [lis EXCEPT ![l] = "log"]
    /\ err' = [err EXCEPT ![l] = ~closed[l]]
    /\ UNCHANGED <<mainVars, sock, cause, event, watchVars, downVars>>

CheckClosed(l) ==
    /\ lis[l] = "ended" /\ ~Held(l)
    /\ lis' = [lis EXCEPT ![l] = "log"]
    /\ err' = [err EXCEPT ![l] = ~closed[l]]
    /\ UNCHANGED <<mainVars, sock, cause, event, watchVars, downVars>>

Log(l) ==
    /\ lis[l] = "log"
    /\ lis' = [lis EXCEPT ![l] = "close"]
    /\ event' = [event EXCEPT ![l] = IF err[l] THEN "ListenerError" ELSE "ListenerStop"]
    /\ UNCHANGED <<mainVars, sock, cause, err, watchVars, downVars>>

\* Faulty variant of CloseConn: sockets are left to the watcher.
CloseConnNot(l) ==
    /\ lis[l] = "close"
    /\ lis' = [lis EXCEPT ![l] = "report"]
    /\ UNCHANGED <<mainVars, sock, cause, err, event, watchVars, downVars>>

CloseConn(l) ==
    /\ lis[l] = "close"
    /\ lis' = [lis EXCEPT ![l] = "report"]
    /\ sock' = [sock EXCEPT ![l] = "closed"]
    /\ UNCHANGED <<mainVars, cause, err, event, watchVars, downVars>>

-----------------------------------------------------------------------------
(* The watcher *)

Wake ==
    /\ watcher = "wait" /\ closes > 0
    /\ watcher' = "next"
    /\ UNCHANGED <<mainVars, sock, lisVars, closed, watched, downVars>>

\* listener.shutdown: nobody else calls it, so the flag is not yet set.
CloseListener ==
    /\ watcher = "next" /\ watched \in Places
    /\ watcher' = "closing"
    /\ sock' = [sock EXCEPT ![watched] = "closed"]
    /\ UNCHANGED <<mainVars, lisVars, closed, watched, downVars>>

SetClosed ==
    /\ watcher = "closing"
    /\ watcher' = "next"
    /\ closed' = [closed EXCEPT ![watched] = TRUE]
    /\ watched' = watched + 1
    /\ UNCHANGED <<mainVars, sock, lisVars, downVars>>

-----------------------------------------------------------------------------
(* Shutdown *)

Call(c) ==
    /\ c \in Callers /\ caller[c] = "out"
    /\ caller' = [caller EXCEPT ![c] = "lock"]
    /\ UNCHANGED <<mainVars, sock, lisVars, watchVars, closes, shutdown, shutdownMtx>>

\* Faulty variant of Lock: there is no mutex.
LockNothing(c) ==
    /\ caller[c] = "lock"
    /\ caller' = [caller EXCEPT ![c] = "in"]
    /\ UNCHANGED <<mainVars, sock, lisVars, watchVars, closes, shutdown, shutdownMtx>>

Lock(c) ==
    /\ caller[c] = "lock" /\ shutdownMtx = NoOne
    /\ caller' = [caller EXCEPT ![c] = "in"]
    /\ shutdownMtx' = c
    /\ UNCHANGED <<mainVars, sock, lisVars, watchVars, closes, shutdown>>

CloseShutdownC(c) ==
    /\ caller[c] = "in" /\ ~shutdown
    /\ closes' = closes + 1
    /\ caller' = [caller EXCEPT ![c] = "set"]
    /\ UNCHANGED <<mainVars, sock, lisVars, watchVars, shutdown, shutdownMtx>>

\* Sets the flag, if it was not set, and unlocks.
Leave(c) ==
    /\ caller[c] = "set" \/ (caller[c] = "in" /\ shutdown)
    /\ shutdown' = TRUE
    /\ shutdownMtx' = NoOne
    /\ caller' = [caller EXCEPT ![c] = "done"]
    /\ UNCHANGED <<mainVars, sock, lisVars, watchVars, closes>>

-----------------------------------------------------------------------------
(* The specification: goroutines that can go on do, and sockets need not fail *)

MainStep == Resolve \/ Bind \/ Spawn \/ SpawnWatcher \/ Resume \/ Return
    \/ \E l \in Places : Report(l)
Listens(l) ==
    \/ SetUp(l) \/ SetUpFails(l, "ttlClosed")
    \/ ReadFails(l, "closed") \/ CheckClosed(l) \/ Log(l) \/ CloseConn(l)
Watches == Wake \/ CloseListener \/ SetClosed
ShutsDown(c) == Lock(c) \/ CloseShutdownC(c) \/ Leave(c)
Fault(l) == SetUpFails(l, "setup") \/ ReadFails(l, "fault")

Next ==
    \/ MainStep
    \/ \E l \in Places : Listens(l) \/ Fault(l)
    \/ Watches
    \/ \E c \in Everyone : ShutsDown(c) \/ Call(c)

Spec ==
    /\ Init /\ [][Next]_vars
    /\ WF_vars(MainStep) /\ WF_vars(Watches)
    /\ WF_vars(\E l \in Places : Listens(l))
    /\ \A c \in Everyone : WF_vars(ShutsDown(c))

-----------------------------------------------------------------------------
(* Properties *)

\* The channel is closed once at most, whoever calls Shutdown when: a second close panics.
ClosedOnce == closes <= 1

(* A listener whose read failed because shutdown closed its socket says that it stopped, and
   never that it failed, though the read fails before the flag that tells it is set; and one
   that says it stopped was reading, and was shut down.  So one that the shutdown finds before
   its TTL is set says that it failed: listenAndServe returns before it asks isClosed.        *)
ErrorsReported ==
    \A l \in Places :
        /\ event[l] = "ListenerError" => cause[l] # "closed"
        /\ event[l] = "ListenerStop" =>
              cause[l] \in {"closed", "fault"} /\ closed[l] /\ closes > 0

(* When ListenAndServe returns without an error each listener has logged its end, closed its
   socket and handed over its result: none is left waiting for errC, and the watcher was woken.*)
ReturnMeansStopped ==
    main = "returned" =>
        /\ closes > 0
        /\ \A l \in Places : lis[l] = "done" /\ sock[l] = "closed" /\ event[l] # "none"

(* The listeners are those of the bind addresses, each once: sorting by a comparison that
   is no order does not separate two that are equal, so no bind fails but for another program. *)
ListensWhereAsked ==
    LET binds == scenario.binds
        asked == UNION {{AddrsOf(binds[k], scenario.ipVer)[i] :
                            i \in DOMAIN AddrsOf(binds[k], scenario.ipVer)} : k \in DOMAIN binds}
        mixed == \E a, b \in asked : a.port = b.port /\ IsUnspecified(a) /\ ~IsUnspecified(b)
    IN  /\ laddrs # <<>> => {laddrs[l] : l \in Places} = asked /\ Len(laddrs) = Cardinality(asked)
        /\ main = "refused" =>
               \/ asked \cap scenario.taken # {} \/ mixed \/ asked = {}
               \/ \E k \in DOMAIN binds : CannotResolve(binds[k], scenario.ipVer)
        /\ main \in {"spawn", "wait"} => ~mixed /\ asked \cap scenario.taken = {}

\* No configuration finds more addresses than sort.Slice sorts by insertion.
FewAddrs == \A s \in Scenarios : Len(FoundAddrs(s.binds, s.ipVer)) <= InsertionSortMax

\* The server as its caller sees it.
Up == {l \in Places : main \notin {"start", "bind", "refused"} /\ lis[l] \in {"none", "setup", "read"}}

PhaseSeen ==
    IF main \in {"start", "bind"} THEN "off"
    ELSE IF main = "refused" THEN "refused"
    ELSE IF main = "returned" THEN "stopped"
    ELSE IF closes > 0 \/ Up # Places THEN "stopping" ELSE "on"

Lifecycle == INSTANCE Lifecycle WITH phase <- PhaseSeen, serving <- Up

(* ListenAndServe keeps the promise of Lifecycle: it serves everywhere or refuses, and stops
   for a call of Shutdown or a failed listener wherever that finds it, and only then.     *)
KeepsLifecycle == Lifecycle!Spec
=============================================================================
