----------------------------- MODULE MCClassicEcho -----------------------------
(* ClassicEcho with two bytes each way in the connection and the largest    *)
(* block that it can carry round; each side reads enough for a message to   *)
(* be held back on both.                                                    *)
EXTENDS ClassicEcho

MCBlockSize == 7
MCMaxBytes == 5
MCCapacity == 2
===============================================================================
