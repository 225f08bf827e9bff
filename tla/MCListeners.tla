---------------------------- MODULE MCListeners ----------------------------
(* Small instances of Listeners for TLC. *)
EXTENDS Listeners

CONSTANTS signal, user

\* 0.0.0.0 and ::, an IP of each version, a link-local one and a multicast one.
ZeroIPsOf == [v \in Versions |-> IF v = "IPv4" THEN 0 ELSE 1]
Ifaces ==
    <<[up |-> TRUE, ips |-> <<2, 4>>], [up |-> TRUE, ips |-> <<4, 3, 5>>], [up |-> FALSE, ips |-> <<2>>]>>

Binds == {AnyHost(1), AnyHost(2), IfaceNamed({1, 2}, 1), IfaceNamed({3}, 1)}
    \cup {Host(<<ip>>, port) : ip \in {2, 3}, port \in {1, 2}}
    \cup {Host(<<3, 2>>, 2)}

Configured(binds, ipVer, taken) ==
    [binds |-> binds, ipVer |-> ipVer, taken |-> taken, ttl |-> FALSE, warns |-> FALSE]

AllAddrs == [ip : 0 .. 5, port : 1 .. 2, zone : 0 .. 2]

\* Other programs have all of the addresses, or one: few of these come up.
Resolving ==
    {Configured(<<a, b, c>>, vs, AllAddrs) : a, b, c \in Binds, vs \in SUBSET Versions \ {{}}}
    \cup {Configured(bs, Versions, {UDPAddr(2, 2, 0)}) :
            bs \in [1 .. 4 -> {b \in Binds : b.kind = "host" /\ b.ips = <<2>>}]}

Running ==
    {[Configured(<<AnyHost(1)>>, vs, {}) EXCEPT !.ttl = t, !.warns = w] :
        vs \in {{"IPv4"}, Versions}, t, w \in BOOLEAN}

SomeScenarios == Resolving \cup Running

\* Of these, few enough for their sort to be known.
ASSUME FewAddrsAssumption == FewAddrs
=============================================================================
