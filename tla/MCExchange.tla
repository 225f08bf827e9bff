----------------------------- MODULE MCExchange -----------------------------
(* Small instances of Exchange for TLC. *)
EXTENDS Exchange, TLC

CONSTANTS c1, c2, keyless

\* The lengths of the fields keep their order of size.
SmallFCaps == <<1, 1, 2, 2, 1, 1, 2, 2, 2, 2, 2, 2, 2>>

ServerShows == [wall |-> 50, mono |-> 9]
ClientShows == [wall |-> 20, mono |-> 100]

Params(stats, stamp, clock, length, fill) ==
    [version |-> 1, duration |-> 2, interval |-> 2, length |-> length, stats |-> stats,
     stamp |-> stamp, clock |-> clock, dscp |-> 1, fill |-> fill]

Client(params, key, fills) == [asked |-> params, key |-> key, fills |-> fills]

ServeShort(allowStamp, key, fills, maxLength) ==
    [limits |-> [version |-> 1, maxDuration |-> 0, minInterval |-> 0, timeout |-> 0,
                 maxLength |-> maxLength, allowStamp |-> allowStamp, allowDSCP |-> FALSE,
                 allowFills |-> {"rand"}],
     key |-> key, fills |-> fills]

Serve(allowStamp, key, fills) == ServeShort(allowStamp, key, fills, 0)

\* Two clients whose packets differ share the listener's; no time passes.
Shared(one, two, serve, sends, closes) ==
    [setup |-> c1 :> one @@ c2 :> two, serving |-> serve, tokens |-> {1, 2}, sends |-> sends,
     served |-> 2, time |-> 0, processing |-> 0, adjust |-> 0, closes |-> closes]

\* One client's delays are measured.
Timed(stamp, clock, serve, time) ==
    [setup |-> c1 :> Client(Params("count", stamp, clock, 0, NoFill), serve.key, FALSE),
     serving |-> serve, tokens |-> {1}, sends |-> 2, served |-> 2, time |-> time,
     processing |-> 2, adjust |-> 1, closes |-> FALSE]

Long(key) == Client(Params("both", "both", "both", 24, NoFill), key, TRUE)
Short(key) == Client(Params("window", "receive", "wall", 14, NoFill), key, TRUE)
Bare(key) == Client(Params("none", "none", "both", 10, "rand"), key, FALSE)

SomeScenarios ==
    {Shared(Long("k"), Short("k"), Serve("dual", "k", FALSE), 1, FALSE),
     Shared(Long(keyless), Bare(keyless), ServeShort("single", keyless, FALSE, 8), 1, TRUE),
     Shared(Short(keyless), Bare("k"), Serve("none", "k", TRUE), 2, TRUE)}
      \cup
    {Timed("both", "both", Serve("dual", keyless, FALSE), 3),
     Timed("both", "wall", Serve("dual", keyless, FALSE), 2),
     Timed("send", "wall", Serve("dual", keyless, FALSE), 2),
     Timed("receive", "monotonic", Serve("single", keyless, FALSE), 2),
     Timed("both", "both", Serve("single", "k", TRUE), 2)}

\* A server that allows one timestamp, and a client that wants one clock.
MidpointScenarios == {Timed("both", "monotonic", Serve("single", keyless, FALSE), 2)}

\* The theorems are about these scenarios too.
ASSUME ScenariosAssumption ==
    /\ GrantsFit
    /\ \/ GrantsPlain
       \/ Scenarios = MidpointScenarios
=============================================================================
