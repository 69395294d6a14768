---------------------------- MODULE MCClassicClient ----------------------------
(* ClassicClient with two sessions, two-byte blocks and a few bytes read.   *)
EXTENDS ClassicClient, TLC

CONSTANTS s1, s2

MCSessions == {s1, s2}
MCBlockSize == 2
MCMaxBytes == 3
===============================================================================
