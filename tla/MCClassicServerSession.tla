------------------------ MODULE MCClassicServerSession ------------------------
(* ClassicServerSession with three-byte buffers and a peer that sends eight *)
(* bytes: partial reads, a held message, and stale bytes in both buffers.   *)
EXTENDS ClassicServerSession

MCBlockSize == 3
MCMaxBytes == 8
===============================================================================
