---------------------------- MODULE MCCoroutineEcho ----------------------------
(* CoroutineEcho with two-byte blocks.  Two sessions where the client's     *)
(* polling is in question, one where a single connection tells everything.  *)
EXTENDS CoroutineEcho

CONSTANTS s1, s2

MCSessions == {s1, s2}
MCOneSession == {s1}
===============================================================================
