----------------------------- MODULE MCWinRTServer -----------------------------
(* WinRTServer with two connections, or with one.                           *)
EXTENDS WinRTServer

CONSTANTS s1, s2

MCSessions == {s1, s2}
MCOneSession == {s1}
===============================================================================
