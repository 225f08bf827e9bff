---------------------------- MODULE ListenAddrs ----------------------------
(***************************************************************************)
(* The addresses a server listens on (conn.go, from the bind addresses of  *)
(* its configuration to UDP addresses).  An IP is a number in the order of *)
(* bytes.Compare and a zone that of its interface, 0 for none.  What the   *)
(* resolver finds for a host is part of the bind address, and so are the   *)
(* interfaces whose name its pattern matches.                              *)
(***************************************************************************)
EXTENDS Integers, Sequences, FiniteSets
LOCAL INSTANCE SequencesExt

CONSTANTS
    V4,             \* the IPs of version 4; the others are of version 6
    ZeroIPs,        \* the unspecified ones, by version
    LinkLocal,      \* those that mean nothing without a zone
    Unusable,       \* those of an interface that one cannot listen on
    Interfaces      \* of the host: whether up, and their IPs

Versions == {"IPv4", "IPv6"}

VersionOf(ip) == IF ip \in V4 THEN "IPv4" ELSE "IPv6"

ASSUME ListenAddrsAssumption ==
    /\ V4 \subseteq Nat /\ LinkLocal \subseteq Nat \ V4 /\ Unusable \subseteq Nat
    /\ ZeroIPs \in [Versions -> Nat] /\ \A v \in Versions : VersionOf(ZeroIPs[v]) = v
    /\ Interfaces \in Seq([up : BOOLEAN, ips : Seq(Nat)])

UDPAddr(ip, port, zone) == [ip |-> ip, port |-> port, zone |-> zone]

IsUnspecified(addr) == \E v \in Versions : addr.ip = ZeroIPs[v]

\* Bind addresses: no host, a host or an IP as it resolves, or an interface name.
AnyHost(port) == [kind |-> "any", port |-> port]
Host(ips, port) == [kind |-> "host", ips |-> ips, port |-> port]
IfaceNamed(matching, port) == [kind |-> "iface", matching |-> matching, port |-> port]

BindAddrs ==
    [kind : {"any"}, port : Nat] \cup [kind : {"host"}, ips : Seq(Nat), port : Nat]
        \cup [kind : {"iface"}, matching : SUBSET Nat, port : Nat]

-----------------------------------------------------------------------------
(* Resolving one of them *)

\* Separate, in its order.
Separate(ipVer) == SelectSeq(<<"IPv4", "IPv6">>, LAMBDA v : v \in ipVer)

AnyAddrs(b, ipVer) ==
    LET vs == Separate(ipVer) IN [k \in DOMAIN vs |-> UDPAddr(ZeroIPs[vs[k]], b.port, 0)]

HostIPs(b, ipVer) == SelectSeq(b.ips, LAMBDA ip : VersionOf(ip) \in ipVer)

HostAddrs(b, ipVer) ==
    LET ips == HostIPs(b, ipVer) IN [k \in DOMAIN ips |-> UDPAddr(ips[k], b.port, 0)]

IsUsableIP(ip, ipVer) == VersionOf(ip) \in ipVer /\ ip \notin Unusable

\* Of one interface: a link-local IP gets the interface for a zone.
AddrsOn(n, port, ipVer) ==
    LET ips == SelectSeq(Interfaces[n].ips, LAMBDA ip : IsUsableIP(ip, ipVer))
    IN  [k \in DOMAIN ips |-> UDPAddr(ips[k], port, IF ips[k] \in LinkLocal THEN n ELSE 0)]

IfaceAddrs(b, ipVer) ==
    FlattenSeq([n \in DOMAIN Interfaces |->
                  IF n \in b.matching /\ Interfaces[n].up THEN AddrsOn(n, b.port, ipVer) ELSE <<>>])

\* No address of the host, or no interface of that name, or none that is up.
CannotResolve(b, ipVer) ==
    \/ b.kind = "host" /\ HostIPs(b, ipVer) = <<>>
    \/ b.kind = "iface" /\ ~\E n \in b.matching \cap DOMAIN Interfaces : Interfaces[n].up

AddrsOf(b, ipVer) ==
    CASE b.kind = "any"   -> AnyAddrs(b, ipVer)
      [] b.kind = "host"  -> HostAddrs(b, ipVer)
      [] b.kind = "iface" -> IfaceAddrs(b, ipVer)

-----------------------------------------------------------------------------
(* All of them: sorted, each once, and checked *)

Less(a, b) == a.ip < b.ip \/ a.port < b.port \/ a.zone < b.zone

\* So many elements sort.Slice sorts by insertion, and more of them otherwise.
InsertionSortMax == 12

(* An insertion sort: an element goes left for as long as it is less than the one there,
   which Less is no order for.                                                           *)
InsertionSorted(addrs) ==
    LET sorted[n \in 0 .. Len(addrs)] ==
            IF n = 0 THEN <<>>
            ELSE LET before == sorted[n - 1]
                     stops  == {0} \cup {k \in 1 .. n - 1 : ~Less(addrs[n], before[k])}
                     at     == CHOOSE k \in stops : \A j \in stops : j <= k
                 IN  InsertAt(before, at + 1, addrs[n])
    IN  sorted[Len(addrs)]

(* What sort.Slice may make of them.  Of a longer list that Less is no order for, nothing is
   promised but that its elements are those it had.                                         *)
Sortings(addrs) ==
    LET places == DOMAIN addrs
    IN  IF Len(addrs) <= InsertionSortMax
        THEN {InsertionSorted(addrs)}
        ELSE {[k \in places |-> addrs[from[k]]] :
                from \in {p \in [places -> places] : \A j \in places : \E k \in places : p[k] = j}}

\* Faulty variant of UDPAddrsEqual: the zone is not looked at.
UDPAddrsEqualNoZone(a, b) == a.ip = b.ip /\ a.port = b.port

UDPAddrsEqual(a, b) == a.ip = b.ip /\ a.port = b.port /\ a.zone = b.zone

WithoutDuplicates(addrs) ==
    LET first == {k \in DOMAIN addrs : k = 1 \/ ~UDPAddrsEqual(addrs[k], addrs[k - 1])}
    IN  [n \in 1 .. Cardinality(first) |->
            addrs[CHOOSE k \in first : Cardinality({j \in first : j <= k}) = n]]

\* A port with an unspecified address and a specified one.
InvalidCombination(addrs) ==
    \E i, j \in DOMAIN addrs :
        addrs[i].port = addrs[j].port /\ IsUnspecified(addrs[i]) /\ ~IsUnspecified(addrs[j])

\* Of all bind addresses, as they are resolved one after the other.
FoundAddrs(binds, ipVer) == FlattenSeq([k \in DOMAIN binds |-> AddrsOf(binds[k], ipVer)])

(* resolveListenAddrs, and what listenAll makes of nothing: what may come of it, by the sort.
   An address that cannot be resolved is an error at once, whatever the others are.          *)
ResolveListenAddrs(binds, ipVer) ==
    LET outcome(addrs) ==
            LET fails == \/ \E k \in DOMAIN binds : CannotResolve(binds[k], ipVer)
                         \/ InvalidCombination(addrs)
            IN  [ok |-> ~fails, addrs |-> IF fails THEN <<>> ELSE addrs]
    IN  {outcome(WithoutDuplicates(sorted)) : sorted \in Sortings(FoundAddrs(binds, ipVer))}
=============================================================================
