----------------------------- MODULE MCSession -----------------------------
(* Small instances of Session for TLC: each parameter meets a server that leaves it
   and one that restricts it.                                                       *)
EXTENDS Session

Basic ==
    [version |-> 1, duration |-> 2, interval |-> 2, length |-> 2, stats |-> "both",
     stamp |-> "both", clock |-> "both", dscp |-> 1, fill |-> NoFill]

SomeAsked ==
    {Basic, [Basic EXCEPT !.version = 2], [Basic EXCEPT !.interval = 1],
     [Basic EXCEPT !.interval = 3]}
      \cup {[Basic EXCEPT !.fill = f] : f \in OtherFills}

Open ==
    [version |-> 1, maxDuration |-> 0, minInterval |-> 0, timeout |-> 0, maxLength |-> 0,
     allowStamp |-> "dual", allowDSCP |-> TRUE, allowFills |-> OtherFills]

SomeServers ==
    {Open,
     [Open EXCEPT !.maxDuration = 1, !.maxLength = 1],
     [Open EXCEPT !.allowStamp = "single", !.timeout = 8],
     [Open EXCEPT !.allowDSCP = FALSE, !.allowFills = {}],
     [Open EXCEPT !.minInterval = 2, !.timeout = 12],
     [Open EXCEPT !.minInterval = 3, !.timeout = 8],
     [Open EXCEPT !.minInterval = 2, !.timeout = 4],
     [Open EXCEPT !.timeout = 3]}
=============================================================================
