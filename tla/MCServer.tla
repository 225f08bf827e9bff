------------------------------ MODULE MCServer ------------------------------
(* Small instances of Server for TLC. *)
EXTENDS Server

CONSTANTS c1, c2, t1, t2

OneAddr == {c1}
TwoAddrs == {c1, c2}
OneToken == {t1}
TwoTokens == {t1, t2}
=============================================================================
