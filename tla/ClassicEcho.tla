------------------------------ MODULE ClassicEcho ------------------------------
(***************************************************************************)
(* The two callback programs against each other: one session of            *)
(* Gor/classic_client.cpp with its program around it (ClassicClient), one  *)
(* session of Gor/classic_server.cpp (ClassicServerSession), and the       *)
(* connection between them, which holds Capacity bytes each way.           *)
(*                                                                         *)
(* The components keep their own actions.  What this module adds is who    *)
(* moves when: a write needs room in the connection, a read needs bytes in *)
(* it, an accept needs a connect, and an operation fails only because the  *)
(* connection broke or because one of the two sockets was closed.          *)
(***************************************************************************)
EXTENDS Integers, Sequences

CONSTANTS BlockSize,       \* the same for both programs
          MaxBytes,        \* bound: bytes each side reads
          Capacity         \* bytes that the connection holds each way

ASSUME SizesAssumption == BlockSize \in Nat \ {0} /\ MaxBytes \in Nat

(* Both sides hold a message back behind a write when two messages and both *)
(* directions of the connection are taken: a larger block can fill them     *)
(* all, and neither side reads while it holds a message back.               *)
ASSUME CapacityAssumption ==
  /\ Capacity \in Nat \ {0}
  /\ BlockSize < 2 * Capacity + 4

VARIABLES
  (* the client: ClassicClient *)
  client, sessions_, stop_timer, program, stats,
  (* the server's session: ClassicServerSession *)
  session, read_data, write_data, read_data_length, unsent_count, op_count,
  mem, rd, wr, destroys, received, echoed,
  (* the connection *)
  line,                    \* "none", "up" or "broken"
  up, down                 \* bytes in flight to the server and to the client

clientVars == <<client, sessions_, stop_timer, program, stats>>
serverVars == <<session, read_data, write_data, read_data_length, unsent_count,
                op_count, mem, rd, wr, destroys, received, echoed>>
netVars == <<line, up, down>>
vars == <<clientVars, serverVars, netVars>>

Peer == "peer"             \* the client's one session

C == INSTANCE ClassicClient WITH Sessions <- {Peer}, session <- client
S == INSTANCE ClassicServerSession

o == client[Peer]

Init ==
  /\ C!Init
  /\ S!Init
  /\ line = "none" /\ up = 0 /\ down = 0

-------------------------------------------------------------------------------
(* Handlers and main move on their own. *)

ClientRuns ==
  /\ \/ C!HandleConnect(Peer)
     \/ C!HandleRead(Peer)
     \/ C!HandleWrite(Peer)
     \/ C!CloseSocket(Peer)
     \/ C!TimerExpires
     \/ C!HandleTimeout
     \/ C!RunReturns
     \/ C!DeleteSession(Peer)
     \/ C!Exit
  /\ UNCHANGED <<serverVars, netVars>>

ServerRuns ==
  /\ \/ S!HandleRead
     \/ S!HandleWrite
     \/ S!Destroy
  /\ UNCHANGED <<clientVars, netVars>>

-------------------------------------------------------------------------------
(* The connection. *)

Connects ==
  /\ line = "none"
  /\ \/ C!ConnectCompletes(Peer) /\ line' = "up"
     \/ C!ConnectFails(Peer) /\ UNCHANGED line
  /\ UNCHANGED <<serverVars, up, down>>

Accepts ==
  /\ line # "none"
  /\ S!HandleAccept
  /\ UNCHANGED <<clientVars, netVars>>

ClientSends ==
  /\ line = "up" /\ up < Capacity
  /\ C!WriteSome(Peer, 1)
  /\ up' = up + 1
  /\ UNCHANGED <<serverVars, line, down>>

ServerReceives ==
  /\ line = "up"
  /\ \E n \in 1..BlockSize :
       /\ n <= up
       /\ S!ReadCompletes(n)
       /\ up' = up - n
  /\ UNCHANGED <<clientVars, line, down>>

ServerSends ==
  /\ line = "up" /\ down < Capacity
  /\ S!WriteSome
  /\ down' = down + 1
  /\ UNCHANGED <<clientVars, line, up>>

ClientReceives ==
  /\ line = "up"
  /\ \E n \in 1..BlockSize :
       /\ n <= down
       /\ C!ReadCompletes(Peer, n)
       /\ down' = down - n
  /\ UNCHANGED <<serverVars, line, up>>

Breaks ==
  /\ line = "up"
  /\ line' = "broken"
  /\ UNCHANGED <<clientVars, serverVars, up, down>>

(* A broken connection, the peer's socket closed, or one's own.             *)
Closed == line = "broken" \/ o.socket = "closed" \/ session = "deleted"

ClientOperationFails ==
  /\ line # "none" /\ Closed
  /\ C!ReadFails(Peer) \/ C!WriteFails(Peer)
  /\ UNCHANGED <<serverVars, netVars>>

ServerOperationFails ==
  /\ Closed
  /\ S!ReadFails \/ S!WriteFails
  /\ UNCHANGED <<clientVars, netVars>>

(* The client's program has ended; whether the server's session does is     *)
(* what TimeoutEndsServerSession asks.                                      *)
Over ==
  /\ program = "exited"
  /\ UNCHANGED vars

Next ==
  \/ ClientRuns
  \/ ServerRuns
  \/ Connects
  \/ Accepts
  \/ ClientSends
  \/ ServerReceives
  \/ ServerSends
  \/ ClientReceives
  \/ Breaks
  \/ ClientOperationFails
  \/ ServerOperationFails
  \/ Over

Spec == Init /\ [][Next]_vars

(* Ready handlers run, the timer expires, and the operations of a closed    *)
(* connection complete.  An open one need not carry anything.               *)
Fairness ==
  /\ WF_vars(ClientRuns)
  /\ WF_vars(ServerRuns)
  /\ WF_vars(Connects /\ o.socket = "closed")
  /\ WF_vars(Accepts)
  /\ WF_vars(ClientOperationFails)
  /\ WF_vars(ServerOperationFails)

FairSpec == Spec /\ Fairness

-------------------------------------------------------------------------------
(* Nothing has failed, and nobody has closed. *)
Healthy ==
  /\ line = "up" /\ o.socket = "open" /\ C!Healthy(Peer)
  /\ session = "open" /\ destroys = 0 /\ ~rd.err /\ ~wr.err

(* The client's block, and never a byte more or less, goes round: what each *)
(* side has read and not sent, and what the connection holds, always add up *)
(* to it, however the messages are split, merged or held back.              *)
ClientHolds ==
  (IF o.wr.state # "none" THEN o.wr.length - o.wr.sent ELSE 0)
  + (IF o.unwritten_count = 2 THEN o.read_data_length ELSE 0)
  + (IF o.rd.state = "done" THEN o.rd.length ELSE 0)

OneBlockCirculates ==
  Healthy =>
    ClientHolds + up + (S!InWrite + S!HeldBack + S!JustRead) + down = BlockSize

(* While both are healthy one of them, or the connection, can move.         *)
NoMutualWait ==
  Healthy =>
    \/ o.rd.state = "done" \/ o.wr.state = "done"
    \/ rd.state = "done" \/ wr.state = "done"
    \/ o.wr.state = "pending" /\ up < Capacity
    \/ o.rd.state = "pending" /\ down > 0
    \/ wr.state = "pending" /\ down < Capacity
    \/ rd.state = "pending" /\ up > 0

(* The client's timeout ends the server's session too: it only closes its   *)
(* own socket, and the counters of the server's session do the rest.        *)
TimeoutEndsServerSession ==
  stop_timer = "expired" /\ line # "none" ~> session = "deleted"
===============================================================================
