------------------------------ MODULE Lifecycle ------------------------------
(***************************************************************************)
(* What ListenAndServe promises its caller (server.go:32-34): it serves on *)
(* all of its addresses or refuses to start, and once it is told to stop,  *)
(* or one of its listeners fails, it stops serving on each of them and     *)
(* only then returns, for good.                                            *)
(***************************************************************************)
EXTENDS Naturals

VARIABLES
    phase,      \* of the server
    serving     \* the listeners that are up, by number

vars == <<phase, serving>>

Init == phase = "off" /\ serving = {}

Refuse == phase = "off" /\ phase' = "refused" /\ UNCHANGED serving

\* It may have been told to stop before it starts.
Start ==
    /\ phase = "off"
    /\ phase' \in {"on", "stopping"}
    /\ serving' # {} /\ serving' \subseteq Nat

BeToldToStop == phase = "on" /\ phase' = "stopping" /\ UNCHANGED serving

\* A listener that goes down takes the server with it.
Down ==
    /\ phase \in {"on", "stopping"}
    /\ phase' = "stopping"
    /\ \E l \in serving : serving' = serving \ {l}

Return == phase = "stopping" /\ serving = {} /\ phase' = "stopped" /\ UNCHANGED serving

Next == Refuse \/ Start \/ BeToldToStop \/ Down \/ Return

Safety == Init /\ [][Next]_vars

Spec ==
    /\ Safety
    /\ (phase = "off") ~> (phase # "off")
    /\ (phase = "stopping") ~> (phase = "stopped")
=============================================================================
