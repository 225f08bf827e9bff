----------------------------- MODULE MCTimedLoop -----------------------------
(* Small instances of TimedLoop for TLC. *)
EXTENDS TimedLoop

AllTimers ==
    {"any", "simple", "busy"} \X {"none"} \cup {"comp", "hybrid"} \X {"avg", "win", "exp"}
DefaultTimer == {<<"comp", "exp">>}
=============================================================================
