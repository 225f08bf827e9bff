-------------------------- MODULE ClientRunProofs --------------------------
(***************************************************************************)
(* ClientRun.tla proved for tests of every length: what Run reports of its *)
(* goroutines' errors, and that a close packet is always tried first.      *)
(***************************************************************************)
EXTENDS ClientRun, TLAPS

\* The loop goes back to conn.send only while the test lasts, and no reply comes
\* before its request.
Budget ==
    /\ pc["send"] \in {"send", "sleep"} => sent < MaxSends
    /\ received <= sent

\* The holder of closedM is the goroutine inside Client.close, which found the
\* connection open.
LockHeld ==
    /\ \A g \in Goroutines : closedM = g <=> pc[g] \in {"tell", "shut", "mark"}
    /\ closedM # "free" => ~closed

\* The socket was closed after an attempt at a close packet, by one of the two closers.
Shutting ==
    /\ \A g \in Goroutines : pc[g] \in {"shut", "mark"} => told # {}
    /\ At("recv", "connShut") => told # {}
    /\ socket = "closed" => told # {}
    /\ socket = "closed" => \/ closed
                            \/ ServerClosed
                            \/ \E g \in Goroutines : At(g, "mark")
    /\ At("recv", "connShut") \/ At("recv", "connTell") => ServerClosed

\* What a goroutine that is still running has got and said.
Reports ==
    /\ pc["recv"] \in {"init", "read"} => raised["recv"] = "none"
    /\ \A g \in Goroutines : raised[g] = "socketClosed" => socket = "closed"
    /\ OwnCloseNotReported

\* Until the connection is closed nothing is taken back, and the goroutine that
\* closes it takes nothing back.
Kept ==
    /\ ~closed => reported = raised
    /\ closed => \E g \in Goroutines : At(g, "done") /\ reported[g] = raised[g]
    /\ \A g \in Goroutines : At(g, "done") => closed
    /\ Returned => \A g \in Goroutines : At(g, "done")

IInv == TypeOK /\ Budget /\ LockHeld /\ Shutting /\ Reports /\ Kept

-----------------------------------------------------------------------------
\* The type invariant in parts, each proved on its own.
PcType == pc \in [Processes -> Labels]

ErrType ==
    /\ raised \in [Goroutines -> Errors]
    /\ reported \in [Goroutines -> Errors]

RestType ==
    /\ ctx \in {"live", "cancelled"}
    /\ closedM \in Goroutines \cup {"free"}
    /\ closed \in BOOLEAN
    /\ socket \in {"open", "closed"}
    /\ told \subseteq Outcomes
    /\ err \in {"none", "context"}

CountType ==
    /\ sent \in 0 .. MaxSends
    /\ received \in 0 .. MaxSends
    /\ strays \in 0 .. StrayOpens
    /\ Budget

LEMMA LabelFacts == \A l \in {"prepare", "fill", "send", "sleep", "wait", "init", "read",
    "connTell", "connShut", "mask", "close", "tell", "shut", "mark", "done",
    "wgWait", "returned"} : l \in Labels
  BY DEF Labels

LEMMA ErrorFacts == \A e \in {"write", "fill", "read", "packet", "openFlag",
    "serverClosed", "none", "context", "socketClosed"} : e \in Errors
  BY DEF Errors, Genuine

\* The initial states satisfy the inductive invariant.
LEMMA InitIInv == Init => IInv
<1> SUFFICES ASSUME Init PROVE IInv
    OBVIOUS
<1> USE ClientRunAssumption DEF Init, Goroutines, Processes, At
<1>1. /\ pc["send"] = "prepare"
      /\ pc["recv"] = "init"
      /\ pc["run"] = "wgWait"
  OBVIOUS
<1>2. pc \in [Processes -> Labels] BY DEF Labels
<1>3. TypeOK
  <2>1. pc \in [Processes -> Labels] BY <1>2
  <2>2. raised \in [Goroutines -> Errors] /\ reported \in [Goroutines -> Errors]
    BY DEF Errors
  <2>3. told \subseteq Outcomes /\ sent \in 0 .. MaxSends /\ received \in 0 .. MaxSends
    OBVIOUS
  <2>4. strays \in 0 .. StrayOpens OBVIOUS
  <2>5. ctx \in {"live", "cancelled"} /\ closedM \in Goroutines \cup {"free"} OBVIOUS
  <2>6. socket \in {"open", "closed"} /\ err \in {"none", "context"} OBVIOUS
  <2>7. closed \in BOOLEAN OBVIOUS
  <2> QED BY <2>1, <2>2, <2>3, <2>4, <2>5, <2>6, <2>7 DEF TypeOK
<1>4. Budget BY <1>1 DEF Budget
<1>5. LockHeld BY <1>1 DEF LockHeld
<1>6. Shutting BY <1>1 DEF Shutting, ServerClosed
<1>7. Reports BY <1>1 DEF Reports, OwnCloseNotReported
<1>8. Kept BY <1>1 DEF Kept, Returned
<1> QED BY <1>3, <1>4, <1>5, <1>6, <1>7, <1>8 DEF IInv

\* Every goroutine is at one of its labels.
LEMMA NextPc == PcType /\ [Next]_vars => PcType'
<1> SUFFICES ASSUME PcType, [Next]_vars PROVE PcType'
    OBVIOUS
<1> USE LabelFacts DEF PcType, Goto, Processes, Goroutines
<1>1. CASE NotifyReceive BY <1>1 DEF NotifyReceive
<1>2. CASE Fill BY <1>2 DEF Fill
<1>3. CASE Send BY <1>3 DEF Send
<1>4. CASE Sleep BY <1>4 DEF Sleep
<1>5. CASE Wait BY <1>5 DEF Wait
<1>6. CASE ReadReply BY <1>6 DEF ReadReply
<1>7. CASE ReadStrayOpen BY <1>7 DEF ReadStrayOpen
<1>8. CASE ReadFails BY <1>8 DEF ReadFails
<1>9. CASE ReadClose BY <1>9 DEF ReadClose
<1>10. CASE ConnTell BY <1>10 DEF ConnTell
<1>11. CASE ConnShut BY <1>11 DEF ConnShut
<1>12. CASE RunReturn BY <1>12 DEF RunReturn
<1>13. CASE Cancel BY <1>13 DEF Cancel
<1>14. ASSUME NEW g \in Goroutines, Mask(g) PROVE PcType'
  BY <1>14 DEF Mask
<1>15. ASSUME NEW g \in Goroutines, Close(g) PROVE PcType'
  BY <1>15 DEF Close
<1>16. ASSUME NEW g \in Goroutines, Tell(g) PROVE PcType'
  BY <1>16 DEF Tell
<1>17. ASSUME NEW g \in Goroutines, Shut(g) PROVE PcType'
  BY <1>17 DEF Shut
<1>18. ASSUME NEW g \in Goroutines, Mark(g) PROVE PcType'
  BY <1>18 DEF Mark
<1>19. CASE UNCHANGED vars BY <1>19 DEF vars
<1> QED
  BY <1>1, <1>2, <1>3, <1>4, <1>5, <1>6, <1>7, <1>8, <1>9, <1>10,
     <1>11, <1>12, <1>13, <1>14, <1>15, <1>16, <1>17, <1>18, <1>19
  DEF Next, SendGoroutine, RecvGoroutine, Read, Finishing

\* What a goroutine got or said is an error or none.
LEMMA NextErrors == ErrType /\ [Next]_vars => ErrType'
<1> SUFFICES ASSUME ErrType, [Next]_vars PROVE ErrType'
    OBVIOUS
<1> USE ErrorFacts DEF ErrType, Return, Goroutines
<1>1. CASE NotifyReceive BY <1>1 DEF NotifyReceive
<1>2. CASE Fill BY <1>2 DEF Fill
<1>3. CASE Send BY <1>3 DEF Send
<1>4. CASE Sleep BY <1>4 DEF Sleep
<1>5. CASE Wait BY <1>5 DEF Wait
<1>6. CASE ReadReply BY <1>6 DEF ReadReply
<1>7. CASE ReadStrayOpen
  <2>1. Return("recv", "openFlag") BY <1>7 DEF ReadStrayOpen
  <2>2. "openFlag" \in Errors BY ErrorFacts
  <2> QED BY <2>1, <2>2
<1>8. CASE ReadFails
  <2>1. PICK e \in {"read", "packet", "socketClosed"} : Return("recv", e)
    BY <1>8 DEF ReadFails
  <2>2. e \in Errors BY ErrorFacts
  <2> QED BY <2>1, <2>2
<1>9. CASE ReadClose BY <1>9 DEF ReadClose
<1>10. CASE ConnTell BY <1>10 DEF ConnTell
<1>11. CASE ConnShut BY <1>11 DEF ConnShut
<1>12. CASE RunReturn BY <1>12 DEF RunReturn
<1>13. CASE Cancel BY <1>13 DEF Cancel
<1>14. ASSUME NEW g \in Goroutines, Mask(g) PROVE ErrType'
  BY <1>14 DEF Mask
<1>15. ASSUME NEW g \in Goroutines, Close(g) PROVE ErrType'
  BY <1>15 DEF Close
<1>16. ASSUME NEW g \in Goroutines, Tell(g) PROVE ErrType'
  BY <1>16 DEF Tell
<1>17. ASSUME NEW g \in Goroutines, Shut(g) PROVE ErrType'
  BY <1>17 DEF Shut
<1>18. ASSUME NEW g \in Goroutines, Mark(g) PROVE ErrType'
  BY <1>18 DEF Mark
<1>19. CASE UNCHANGED vars BY <1>19 DEF vars
<1> QED
  BY <1>1, <1>2, <1>3, <1>4, <1>5, <1>6, <1>7, <1>8, <1>9, <1>10,
     <1>11, <1>12, <1>13, <1>14, <1>15, <1>16, <1>17, <1>18, <1>19
  DEF Next, SendGoroutine, RecvGoroutine, Read, Finishing

\* The other variables keep their types.
LEMMA NextRest == RestType /\ [Next]_vars => RestType'
<1> SUFFICES ASSUME RestType, [Next]_vars PROVE RestType'
    OBVIOUS
<1> USE ClientRunAssumption DEF RestType, Goroutines
<1>1. CASE NotifyReceive BY <1>1 DEF NotifyReceive
<1>2. CASE Fill BY <1>2 DEF Fill
<1>3. CASE Send BY <1>3 DEF Send
<1>4. CASE Sleep BY <1>4 DEF Sleep
<1>5. CASE Wait BY <1>5 DEF Wait
<1>6. CASE ReadReply BY <1>6 DEF ReadReply
<1>7. CASE ReadStrayOpen BY <1>7 DEF ReadStrayOpen
<1>8. CASE ReadFails BY <1>8 DEF ReadFails
<1>9. CASE ReadClose BY <1>9 DEF ReadClose
<1>10. CASE ConnTell BY <1>10 DEF ConnTell, WriteClose
<1>11. CASE ConnShut BY <1>11 DEF ConnShut
<1>12. CASE RunReturn BY <1>12 DEF RunReturn
<1>13. CASE Cancel BY <1>13 DEF Cancel
<1>14. ASSUME NEW g \in Goroutines, Mask(g) PROVE RestType'
  BY <1>14 DEF Mask
<1>15. ASSUME NEW g \in Goroutines, Close(g) PROVE RestType'
  BY <1>15 DEF Close
<1>16. ASSUME NEW g \in Goroutines, Tell(g) PROVE RestType'
  BY <1>16 DEF Tell, WriteClose
<1>17. ASSUME NEW g \in Goroutines, Shut(g) PROVE RestType'
  BY <1>17 DEF Shut
<1>18. ASSUME NEW g \in Goroutines, Mark(g) PROVE RestType'
  BY <1>18 DEF Mark
<1>19. CASE UNCHANGED vars BY <1>19 DEF vars
<1> QED
  BY <1>1, <1>2, <1>3, <1>4, <1>5, <1>6, <1>7, <1>8, <1>9, <1>10,
     <1>11, <1>12, <1>13, <1>14, <1>15, <1>16, <1>17, <1>18, <1>19
  DEF Next, SendGoroutine, RecvGoroutine, Read, Finishing

\* A test sends MaxSends packets at most.
LEMMA NextCounts == PcType /\ CountType /\ [Next]_vars => CountType'
<1> SUFFICES ASSUME PcType, CountType, [Next]_vars PROVE CountType'
    OBVIOUS
<1> USE ClientRunAssumption DEF PcType, CountType, Budget, At, Goto, Goroutines, Processes
<1>1. CASE NotifyReceive BY <1>1 DEF NotifyReceive
<1>2. CASE Fill BY <1>2 DEF Fill
<1>3. CASE Send
  <2>1. sent < MaxSends BY <1>3 DEF Send
  <2>2. UNCHANGED <<received, strays>> BY <1>3 DEF Send
  <2>3. CASE sent' = sent + 1 /\ Goto("send", "fill") BY <2>1, <2>2, <2>3
  <2>4. CASE sent' = sent /\ Goto("send", "mask") BY <2>2, <2>4
  <2> QED BY <1>3, <2>3, <2>4 DEF Send
<1>4. CASE Sleep BY <1>4 DEF Sleep
<1>5. CASE Wait BY <1>5 DEF Wait
<1>6. CASE ReadReply BY <1>6 DEF ReadReply
<1>7. CASE ReadStrayOpen
  <2>1. strays > 0 /\ strays' = strays - 1 BY <1>7 DEF ReadStrayOpen
  <2>2. Goto("recv", "mask") /\ UNCHANGED <<sent, received>> BY <1>7 DEF ReadStrayOpen
  <2> QED BY <2>1, <2>2
<1>8. CASE ReadFails BY <1>8 DEF ReadFails
<1>9. CASE ReadClose BY <1>9 DEF ReadClose
<1>10. CASE ConnTell BY <1>10 DEF ConnTell
<1>11. CASE ConnShut BY <1>11 DEF ConnShut
<1>12. CASE RunReturn BY <1>12 DEF RunReturn
<1>13. CASE Cancel BY <1>13 DEF Cancel
<1>14. ASSUME NEW g \in Goroutines, Mask(g) PROVE CountType'
  BY <1>14 DEF Mask
<1>15. ASSUME NEW g \in Goroutines, Close(g) PROVE CountType'
  BY <1>15 DEF Close
<1>16. ASSUME NEW g \in Goroutines, Tell(g) PROVE CountType'
  BY <1>16 DEF Tell
<1>17. ASSUME NEW g \in Goroutines, Shut(g) PROVE CountType'
  BY <1>17 DEF Shut
<1>18. ASSUME NEW g \in Goroutines, Mark(g) PROVE CountType'
  BY <1>18 DEF Mark
<1>19. CASE UNCHANGED vars BY <1>19 DEF vars
<1> QED
  BY <1>1, <1>2, <1>3, <1>4, <1>5, <1>6, <1>7, <1>8, <1>9, <1>10,
     <1>11, <1>12, <1>13, <1>14, <1>15, <1>16, <1>17, <1>18, <1>19
  DEF Next, SendGoroutine, RecvGoroutine, Read, Finishing

-----------------------------------------------------------------------------
\* The types of the parts make the type invariant, and conversely.
LEMMA Parts == TypeOK /\ Budget <=> PcType /\ ErrType /\ RestType /\ CountType
  BY DEF TypeOK, PcType, ErrType, RestType, CountType

\* closedM is held by the goroutine inside Client.close, and by no other.
LEMMA NextLockHeld ==
    TypeOK /\ Budget /\ LockHeld /\ [Next]_vars => LockHeld'
<1> SUFFICES ASSUME PcType, RestType, LockHeld, [Next]_vars PROVE LockHeld'
    BY Parts
<1> USE DEF PcType, RestType, LockHeld, At, Goto, Goroutines, Processes
<1>1. CASE NotifyReceive BY <1>1 DEF NotifyReceive
<1>2. CASE Fill BY <1>2 DEF Fill
<1>3. CASE Send BY <1>3 DEF Send
<1>4. CASE Sleep BY <1>4 DEF Sleep
<1>5. CASE Wait BY <1>5 DEF Wait
<1>6. CASE ReadReply BY <1>6 DEF ReadReply
<1>7. CASE ReadStrayOpen BY <1>7 DEF ReadStrayOpen
<1>8. CASE ReadFails BY <1>8 DEF ReadFails
<1>9. CASE ReadClose BY <1>9 DEF ReadClose
<1>10. CASE ConnTell BY <1>10 DEF ConnTell
<1>11. CASE ConnShut BY <1>11 DEF ConnShut
<1>12. CASE RunReturn BY <1>12 DEF RunReturn
<1>13. CASE Cancel BY <1>13 DEF Cancel
<1>14. ASSUME NEW g \in Goroutines, Mask(g) PROVE LockHeld'
  BY <1>14 DEF Mask
<1>15. ASSUME NEW g \in Goroutines, Close(g) PROVE LockHeld'
  BY <1>15 DEF Close
<1>16. ASSUME NEW g \in Goroutines, Tell(g) PROVE LockHeld'
  BY <1>16 DEF Tell
<1>17. ASSUME NEW g \in Goroutines, Shut(g) PROVE LockHeld'
  BY <1>17 DEF Shut
<1>18. ASSUME NEW g \in Goroutines, Mark(g) PROVE LockHeld'
  BY <1>18 DEF Mark
<1>19. CASE UNCHANGED vars BY <1>19 DEF vars
<1> QED
  BY <1>1, <1>2, <1>3, <1>4, <1>5, <1>6, <1>7, <1>8, <1>9, <1>10,
     <1>11, <1>12, <1>13, <1>14, <1>15, <1>16, <1>17, <1>18, <1>19
  DEF Next, SendGoroutine, RecvGoroutine, Read, Finishing

\* A close packet is written or fails to be, or the socket was closed after one.
LEMMA TellCounts ==
    ASSUME socket = "closed" => told # {}, WriteClose
    PROVE  told' # {}
<1>1. CASE socket = "open"
  <2>1. PICK outcome \in Outcomes : told' = told \cup {outcome} BY <1>1 DEF WriteClose
  <2> QED BY <2>1
<1>2. CASE socket = "closed"
  <2>1. told' = told BY <1>2 DEF WriteClose
  <2> QED BY <2>1, <1>2
<1> QED BY <1>1, <1>2 DEF WriteClose

\* Something came of a close packet: it was sent or it failed.
LEMMA ToldIs == told \subseteq Outcomes => (ToldBeforeClosed <=> (socket = "closed" => told # {}))
<1> SUFFICES ASSUME told \subseteq Outcomes
             PROVE  ToldBeforeClosed <=> (socket = "closed" => told # {})
    OBVIOUS
<1>1. told # {} <=> "failed" \in told \/ "sent" \in told BY DEF Outcomes
<1> QED BY <1>1 DEF ToldBeforeClosed

\* The socket is closed only by a goroutine that has sent a close packet.
LEMMA NextShutting ==
    TypeOK /\ Budget /\ LockHeld /\ Shutting /\ Reports /\ [Next]_vars => Shutting'
<1> SUFFICES ASSUME PcType, ErrType, RestType, LockHeld, Shutting,
                    pc["recv"] \in {"init", "read"} => raised["recv"] = "none",
                    [Next]_vars
             PROVE  Shutting'
    BY Parts DEF Reports
<1> USE DEF PcType, ErrType, RestType, LockHeld, Shutting, ServerClosed,
            At, Goto, Return, Goroutines, Processes
<1>1. CASE NotifyReceive BY <1>1 DEF NotifyReceive
<1>2. CASE Fill BY <1>2 DEF Fill
<1>3. CASE Send BY <1>3 DEF Send
<1>4. CASE Sleep BY <1>4 DEF Sleep
<1>5. CASE Wait BY <1>5 DEF Wait
<1>6. CASE ReadReply BY <1>6 DEF ReadReply
<1>7. CASE ReadStrayOpen BY <1>7 DEF ReadStrayOpen
<1>8. CASE ReadFails BY <1>8 DEF ReadFails
<1>9. CASE ReadClose BY <1>9 DEF ReadClose
<1>10. CASE ConnTell
  <2>1. told' # {} BY <1>10, TellCounts DEF ConnTell
  <2>2. UNCHANGED <<socket, raised, closed>> BY <1>10 DEF ConnTell
  <2>3. At("recv", "connTell") /\ Goto("recv", "connShut") BY <1>10 DEF ConnTell
  <2> QED BY <2>1, <2>2, <2>3
<1>11. CASE ConnShut
  <2>1. told # {} /\ ServerClosed BY <1>11 DEF ConnShut
  <2>2. UNCHANGED <<told, raised, closed>> BY <1>11 DEF ConnShut
  <2>3. socket' = "closed" /\ Goto("recv", "mask") BY <1>11 DEF ConnShut
  <2> QED BY <2>1, <2>2, <2>3
<1>12. CASE RunReturn BY <1>12 DEF RunReturn
<1>13. CASE Cancel BY <1>13 DEF Cancel
<1>14. ASSUME NEW g \in Goroutines, Mask(g) PROVE Shutting'
  BY <1>14 DEF Mask
<1>15. ASSUME NEW g \in Goroutines, Close(g) PROVE Shutting'
  BY <1>15 DEF Close
<1>16. ASSUME NEW g \in Goroutines, Tell(g) PROVE Shutting'
  <2>1. told' # {} BY <1>16, TellCounts DEF Tell
  <2>2. UNCHANGED <<socket, raised, closed>> BY <1>16 DEF Tell
  <2>3. At(g, "tell") /\ Goto(g, "shut") BY <1>16 DEF Tell
  <2> QED BY <2>1, <2>2, <2>3
<1>17. ASSUME NEW g \in Goroutines, Shut(g) PROVE Shutting'
  BY <1>17 DEF Shut
<1>18. ASSUME NEW g \in Goroutines, Mark(g) PROVE Shutting'
  BY <1>18 DEF Mark
<1>19. CASE UNCHANGED vars BY <1>19 DEF vars
<1> QED
  BY <1>1, <1>2, <1>3, <1>4, <1>5, <1>6, <1>7, <1>8, <1>9, <1>10,
     <1>11, <1>12, <1>13, <1>14, <1>15, <1>16, <1>17, <1>18, <1>19
  DEF Next, SendGoroutine, RecvGoroutine, Read, Finishing

\* A read or write that failed because the socket was closed is taken back.
LEMMA NextReports ==
    TypeOK /\ Budget /\ LockHeld /\ Shutting /\ Reports /\ [Next]_vars => Reports'
<1> SUFFICES ASSUME PcType, ErrType, RestType, LockHeld, Shutting, Reports, [Next]_vars
             PROVE  Reports'
    BY Parts
<1> USE DEF PcType, ErrType, RestType, Reports, OwnCloseNotReported, ServerClosed,
            At, Goto, Return, Goroutines, Processes
<1>1. CASE NotifyReceive BY <1>1 DEF NotifyReceive
<1>2. CASE Fill BY <1>2 DEF Fill
<1>3. CASE Send
  <2>1. At("send", "send") /\ UNCHANGED socket BY <1>3 DEF Send
  <2>2. CASE UNCHANGED <<raised, reported>> /\ Goto("send", "fill") BY <2>1, <2>2
  <2>3. CASE /\ Return("send", IF socket = "open" THEN "write" ELSE "socketClosed")
            /\ Goto("send", "mask")
    <3>1. pc' = [pc EXCEPT !["send"] = "mask"] BY <2>3
    <3>2. raised' = [raised EXCEPT !["send"] =
                        IF socket = "open" THEN "write" ELSE "socketClosed"]
      BY <2>3
    <3>3. reported'["recv"] = reported["recv"] BY <2>3
    <3> QED BY <2>1, <3>1, <3>2, <3>3
  <2> QED BY <1>3, <2>2, <2>3 DEF Send
<1>4. CASE Sleep BY <1>4 DEF Sleep
<1>5. CASE Wait BY <1>5 DEF Wait
<1>6. CASE ReadReply BY <1>6 DEF ReadReply
<1>7. CASE ReadStrayOpen BY <1>7 DEF ReadStrayOpen
<1>8. CASE ReadFails BY <1>8 DEF ReadFails
<1>9. CASE ReadClose BY <1>9 DEF ReadClose
<1>10. CASE ConnTell BY <1>10 DEF ConnTell
<1>11. CASE ConnShut BY <1>11 DEF ConnShut
<1>12. CASE RunReturn BY <1>12 DEF RunReturn
<1>13. CASE Cancel BY <1>13 DEF Cancel
<1>14. ASSUME NEW g \in Goroutines, Mask(g) PROVE Reports'
  <2>1. raised[g] = "socketClosed" /\ ~ServerClosed => closed
    BY <1>14 DEF Mask, LockHeld, Shutting
  <2> QED BY <1>14, <2>1 DEF Mask
<1>15. ASSUME NEW g \in Goroutines, Close(g) PROVE Reports'
  BY <1>15 DEF Close
<1>16. ASSUME NEW g \in Goroutines, Tell(g) PROVE Reports'
  BY <1>16 DEF Tell
<1>17. ASSUME NEW g \in Goroutines, Shut(g) PROVE Reports'
  BY <1>17 DEF Shut
<1>18. ASSUME NEW g \in Goroutines, Mark(g) PROVE Reports'
  BY <1>18 DEF Mark
<1>19. CASE UNCHANGED vars BY <1>19 DEF vars
<1> QED
  BY <1>1, <1>2, <1>3, <1>4, <1>5, <1>6, <1>7, <1>8, <1>9, <1>10,
     <1>11, <1>12, <1>13, <1>14, <1>15, <1>16, <1>17, <1>18, <1>19
  DEF Next, SendGoroutine, RecvGoroutine, Read, Finishing

\* The goroutine that closes the connection has its error kept.
LEMMA NextKept ==
    TypeOK /\ Budget /\ LockHeld /\ Kept /\ [Next]_vars => Kept'
<1> SUFFICES ASSUME PcType, ErrType, RestType, LockHeld, Kept, [Next]_vars PROVE Kept'
    BY Parts
<1> USE DEF PcType, ErrType, RestType, Kept, Returned, At, Goto, Return, Goroutines,
            Processes
<1>1. CASE NotifyReceive BY <1>1 DEF NotifyReceive
<1>2. CASE Fill BY <1>2 DEF Fill
<1>3. CASE Send BY <1>3 DEF Send
<1>4. CASE Sleep BY <1>4 DEF Sleep
<1>5. CASE Wait BY <1>5 DEF Wait
<1>6. CASE ReadReply BY <1>6 DEF ReadReply
<1>7. CASE ReadStrayOpen BY <1>7 DEF ReadStrayOpen
<1>8. CASE ReadFails BY <1>8 DEF ReadFails
<1>9. CASE ReadClose BY <1>9 DEF ReadClose
<1>10. CASE ConnTell BY <1>10 DEF ConnTell
<1>11. CASE ConnShut BY <1>11 DEF ConnShut
<1>12. CASE RunReturn BY <1>12 DEF RunReturn
<1>13. CASE Cancel BY <1>13 DEF Cancel
<1>14. ASSUME NEW g \in Goroutines, Mask(g) PROVE Kept'
  BY <1>14 DEF Mask
<1>15. ASSUME NEW g \in Goroutines, Close(g) PROVE Kept'
  BY <1>15 DEF Close
<1>16. ASSUME NEW g \in Goroutines, Tell(g) PROVE Kept'
  BY <1>16 DEF Tell
<1>17. ASSUME NEW g \in Goroutines, Shut(g) PROVE Kept'
  BY <1>17 DEF Shut
<1>18. ASSUME NEW g \in Goroutines, Mark(g) PROVE Kept'
  <2>1. ~closed BY <1>18 DEF Mark, LockHeld
  <2> QED BY <1>18, <2>1 DEF Mark
<1>19. CASE UNCHANGED vars BY <1>19 DEF vars
<1> QED
  BY <1>1, <1>2, <1>3, <1>4, <1>5, <1>6, <1>7, <1>8, <1>9, <1>10,
     <1>11, <1>12, <1>13, <1>14, <1>15, <1>16, <1>17, <1>18, <1>19
  DEF Next, SendGoroutine, RecvGoroutine, Read, Finishing
\* The inductive invariant holds in every reachable state.
THEOREM Invariant == Spec => []IInv
<1>1. IInv /\ [Next]_vars => IInv'
  <2> SUFFICES ASSUME IInv, [Next]_vars PROVE IInv'
      OBVIOUS
  <2>1. TypeOK' /\ Budget'
    <3>1. PcType /\ ErrType /\ RestType /\ CountType BY Parts DEF IInv
    <3>2. PcType' BY <3>1, NextPc
    <3>3. ErrType' BY <3>1, NextErrors
    <3>4. RestType' BY <3>1, NextRest
    <3>5. CountType' BY <3>1, NextCounts
    <3> QED BY <3>2, <3>3, <3>4, <3>5
            DEF TypeOK, PcType, ErrType, RestType, CountType
  <2>2. LockHeld' BY NextLockHeld DEF IInv
  <2>3. Shutting' BY NextShutting DEF IInv
  <2>4. Reports' BY NextReports DEF IInv
  <2>5. Kept' BY NextKept DEF IInv
  <2> QED BY <2>1, <2>2, <2>3, <2>4, <2>5 DEF IInv
<1> QED BY InitIInv, <1>1, PTL DEF Spec

\* TypeOK: every variable of the run keeps its type, and a test of MaxSends packets
\* sends no more (the send loop of client.go).
THEOREM TypeCorrect == Spec => []TypeOK
<1>1. IInv => TypeOK BY DEF IInv
<1> QED BY Invariant, <1>1, PTL

\* OwnCloseNotReported: closedM makes our own close invisible in SendErr and
\* ReceiveErr (client.go close and isClosed).
THEOREM OwnCloseHidden == Spec => []OwnCloseNotReported
<1>1. IInv => OwnCloseNotReported BY DEF IInv, Reports
<1> QED BY Invariant, <1>1, PTL

\* FirstErrorKept: of the errors of the two goroutines one is always reported, that of
\* the goroutine that closed the connection.
THEOREM OneErrorKept == Spec => []FirstErrorKept
<1>1. IInv => FirstErrorKept BY DEF IInv, Kept, FirstErrorKept, Goroutines
<1> QED BY Invariant, <1>1, PTL

\* ToldBeforeClosed: cconn.close writes a close packet before it closes the socket,
\* in every interleaving of the two closers, unless writing one failed.
THEOREM ServerTold == Spec => []ToldBeforeClosed
<1>1. IInv => ToldBeforeClosed BY ToldIs DEF IInv, TypeOK, Shutting
<1> QED BY Invariant, <1>1, PTL
=============================================================================
