------------------------------ MODULE EchoStream ------------------------------
(***************************************************************************)
(* What an echo session promises to its peer, whatever its buffers,        *)
(* operations and handlers: the bytes it sends back are the bytes it was   *)
(* sent, each once and in their order; it sends nothing once a write has   *)
(* failed; and it only closes after everything was echoed or after such a  *)
(* failure.                                                                *)
(*                                                                         *)
(* A byte is named by its position in the input, so the promise "out is a  *)
(* prefix of in" reads out = <<1, 2, ..., Len(out)>>.                      *)
(***************************************************************************)
EXTENDS Naturals, Sequences

CONSTANT MaxBytes          \* bound on the bytes the peer sends

VARIABLES in,              \* how many bytes have been taken from the peer
          out,             \* the bytes handed to the peer so far
          phase            \* "open", "broken" (a write failed) or "closed"

streamVars == <<in, out, phase>>

StreamTypeOK ==
  /\ in \in 0..MaxBytes
  /\ out \in Seq(1..MaxBytes)
  /\ phase \in {"open", "broken", "closed"}

StreamInit == in = 0 /\ out = <<>> /\ phase = "open"

(* The session takes some more bytes: reading may go on after a failed write. *)
Receive ==
  /\ phase # "closed"
  /\ \E n \in 1..MaxBytes : in + n <= MaxBytes /\ in' = in + n
  /\ UNCHANGED <<out, phase>>

(* It sends back the next byte that it has not yet sent. *)
Echo ==
  /\ phase = "open"
  /\ Len(out) < in
  /\ out' = Append(out, Len(out) + 1)
  /\ UNCHANGED <<in, phase>>

Break ==
  /\ phase = "open"
  /\ phase' = "broken"
  /\ UNCHANGED <<in, out>>

Close ==
  /\ phase = "broken" \/ (phase = "open" /\ Len(out) = in)
  /\ phase' = "closed"
  /\ UNCHANGED <<in, out>>

StreamNext == Receive \/ Echo \/ Break \/ Close

StreamSpec == StreamInit /\ [][StreamNext]_streamVars
===============================================================================
