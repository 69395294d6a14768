------------------------------ MODULE MCWinRTEcho ------------------------------
(* WinRTEcho with two sessions and the largest block for their connections. *)
EXTENDS WinRTEcho

CONSTANTS s1, s2

MCSessions == {s1, s2}
===============================================================================
