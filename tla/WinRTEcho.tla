------------------------------- MODULE WinRTEcho -------------------------------
(***************************************************************************)
(* The WinRT client, winrt/winrt_client.cpp, against a server that writes  *)
(* back what it has read: winrt/winrt_server.cpp, or Gor/hard1.cpp, whose  *)
(* session has the same loop.  A connection holds Capacity bytes each way. *)
(*                                                                         *)
(* A session of either side has one operation outstanding at a time, and   *)
(* one action takes its coroutine from the end of that operation to the    *)
(* next.  How the pool awaiter resumes a coroutine is WinRTServer's        *)
(* subject; here a resumption is not lost.                                 *)
(*                                                                         *)
(* The client's session writes the buffer, reads into it, and swaps it for *)
(* the buffer that the read returned: it sends on what it has read, and no *)
(* more.  It takes an end of file for a read of no bytes, so that a        *)
(* session whose server has gone writes and reads nothing until it finds   *)
(* the flag raised.                                                        *)
(*                                                                         *)
(* Abstracted: which bytes are transferred, the totals that a session      *)
(* returns, and the progress that the client reports.                      *)
(***************************************************************************)
EXTENDS Integers, SequencesExt

CONSTANTS Sessions,        \* as many as the command line asks for
          BlockSize,
          Capacity         \* bytes that a connection holds each way

(* Client and server can fill the connection and wait for each other with a *)
(* byte left in the hands of each when the block is larger than this.       *)
ASSUME CapacityAssumption ==
  /\ Capacity \in Nat \ {0}
  /\ BlockSize \in 1..(2 * Capacity + 1)

ASSUME SessionsAssumption == IsFiniteSet(Sessions)

VARIABLES
  stop,               \* the flag in the client coroutine's frame
  client,             \* "ticking", "waiting" for a session, or "returned"
  sessions,           \* the client's list
  main,               \* "waiting" in async.get(), or "exited"
  cs,                 \* the client's session coroutines: [pc, length, sent]
  server,             \* the program that listens
  ss,                 \* its session coroutines: [pc, length, sent]
  up, down            \* bytes in flight from client to server and back

clientVars == <<stop, client, sessions, main>>
vars == <<clientVars, cs, server, ss, up, down>>

Servers == {"winrt_server", "hard1"}

(* client(): every session has started and awaits ConnectAsync. *)
Init ==
  /\ stop = FALSE
  /\ client = "ticking"
  /\ sessions = SetToSeq(Sessions)
  /\ main = "waiting"
  /\ cs = [s \in Sessions |-> [pc |-> "connecting", length |-> BlockSize, sent |-> 0]]
  /\ server \in Servers
  /\ ss = [s \in Sessions |-> [pc |-> "none", length |-> 0, sent |-> 0]]
  /\ up = [s \in Sessions |-> 0]
  /\ down = [s \in Sessions |-> 0]

-------------------------------------------------------------------------------
(* The client's sessions. *)

(* Mutated forms (named ..._Bug here and below) are never part of Next:     *)
(* each is a plausible slip that one of the properties must detect.         *)

(* The loop's test, and WriteAsync of a buffer of that length. *)
Loop(length) ==
  [pc |-> IF stop THEN "done" ELSE "writing", length |-> length, sent |-> 0]

Connected(s) ==
  /\ cs[s].pc = "connecting"
  /\ cs' = [cs EXCEPT ![s] = Loop(BlockSize)]
  /\ UNCHANGED <<clientVars, server, ss, up, down>>

(* WriteAsync moves its bytes as there is room; it ends with the last one.  *)
ClientWrites(s) ==
  /\ cs[s].pc = "writing" /\ cs[s].sent < cs[s].length
  /\ up[s] < Capacity
  /\ up' = [up EXCEPT ![s] = @ + 1]
  /\ cs' = [cs EXCEPT ![s].sent = @ + 1]
  /\ UNCHANGED <<clientVars, server, ss, down>>

ClientHasWritten(s) ==
  /\ cs[s].pc = "writing" /\ cs[s].sent = cs[s].length
  /\ cs' = [cs EXCEPT ![s].pc = "reading"]
  /\ UNCHANGED <<clientVars, server, ss, up, down>>

Swapped_KeepsLengthBug(n) == BlockSize

(* The length of the buffer after swap(read_data, buffer). *)
Swapped(n) == n

(* ReadAsync ends with some of the bytes that are there, or with none when  *)
(* the server has closed and there are no more.  Whole blocks, which are    *)
(* what InputStreamOptions::None asks for, are among the cases.             *)
ClientReads(s) ==
  /\ cs[s].pc = "reading"
  /\ \E n \in 0..BlockSize :
       /\ IF down[s] = 0 THEN n = 0 /\ ss[s].pc = "closed" ELSE n \in 1..down[s]
       /\ down' = [down EXCEPT ![s] = @ - n]
       /\ cs' = [cs EXCEPT ![s] = Loop(Swapped(n))]
  /\ UNCHANGED <<clientVars, server, ss, up>>

(* A refused connection, or one that the server has reset: caught, closed.  *)
ClientFails(s) ==
  /\ \/ /\ cs[s].pc = "connecting"
        /\ ss' = [ss EXCEPT ![s].pc = "closed"]
     \/ /\ cs[s].pc \in {"writing", "reading"} /\ ss[s].pc = "closed"
        /\ UNCHANGED ss
  /\ cs' = [cs EXCEPT ![s].pc = "done"]
  /\ UNCHANGED <<clientVars, server, up, down>>

-------------------------------------------------------------------------------
(* The server's sessions. *)

(* The connection is accepted, or it is not: hard1 drops an accept that     *)
(* fails, and a session of its whose set_option throws; the WinRT listener  *)
(* may have gone.                                                           *)
Accepted(s) ==
  /\ ss[s].pc = "none" /\ cs[s].pc # "connecting"
  /\ \E pc \in {"reading", "closed"} : ss' = [ss EXCEPT ![s].pc = pc]
  /\ UNCHANGED <<clientVars, cs, server, up, down>>

ServerReads(s) ==
  /\ ss[s].pc = "reading"
  /\ \E n \in 1..BlockSize :
       /\ n <= up[s]
       /\ up' = [up EXCEPT ![s] = @ - n]
       /\ ss' = [ss EXCEPT ![s] = [pc |-> "writing", length |-> n, sent |-> 0]]
  /\ UNCHANGED <<clientVars, cs, server, down>>

ServerWrites(s) ==
  /\ ss[s].pc = "writing" /\ down[s] < Capacity
  /\ down' = [down EXCEPT ![s] = @ + 1]
  /\ IF ss[s].sent + 1 = ss[s].length
       THEN ss' = [ss EXCEPT ![s] = [pc |-> "reading", length |-> 0, sent |-> 0]]
       ELSE ss' = [ss EXCEPT ![s].sent = @ + 1]
  /\ UNCHANGED <<clientVars, cs, server, up>>

(* End of file, a reset or a broken pipe once the client has closed; and    *)
(* winrt_server's main, which cancels its sessions whatever they do.        *)
ServerEnds(s) ==
  /\ ss[s].pc \in {"reading", "writing"}
  /\ cs[s].pc = "done" \/ server = "winrt_server"
  /\ ss' = [ss EXCEPT ![s] = [pc |-> "closed", length |-> 0, sent |-> 0]]
  /\ UNCHANGED <<clientVars, cs, server, up, down>>

-------------------------------------------------------------------------------
(* The client coroutine, and main. *)

Completed(s) == cs[s].pc = "done"

AwaitSessions_FirstOnlyBug ==
  \E k \in 0..1 :
    /\ k = 1 <=> Completed(sessions[1])
    /\ sessions' = SubSeq(sessions, k + 1, Len(sessions))
    /\ client' = IF k = 1 THEN "returned" ELSE "waiting"

(* co_await of the list's front, pop, and again: a session that has         *)
(* completed does not suspend the client, the first that has not does.      *)
AwaitSessions ==
  \E k \in 0..Len(sessions) :
    /\ \A i \in 1..k : Completed(sessions[i])
    /\ k < Len(sessions) => ~Completed(sessions[k + 1])
    /\ sessions' = SubSeq(sessions, k + 1, Len(sessions))
    /\ client' = IF k = Len(sessions) THEN "returned" ELSE "waiting"

Timeout_LateStopBug ==
  /\ client = "ticking"
  /\ AwaitSessions
  /\ stop' = (client' = "returned")
  /\ UNCHANGED <<main, cs, server, ss, up, down>>

(* The tick that finds no time remaining. *)
Timeout ==
  /\ client = "ticking"
  /\ stop' = TRUE
  /\ AwaitSessions
  /\ UNCHANGED <<main, cs, server, ss, up, down>>

(* The awaited session completes, and its handler has the pool resume the   *)
(* client.                                                                  *)
SessionCompletes ==
  /\ client = "waiting" /\ Completed(Head(sessions))
  /\ AwaitSessions
  /\ UNCHANGED <<stop, main, cs, server, ss, up, down>>

(* async.get() returns, and the pool is destroyed on the way out. *)
Exit ==
  /\ main = "waiting" /\ client = "returned"
  /\ main' = "exited"
  /\ UNCHANGED <<stop, client, sessions, cs, server, ss, up, down>>

Over ==
  /\ main = "exited"
  /\ \A s \in Sessions : ss[s].pc = "closed"
  /\ UNCHANGED vars

Next ==
  \/ Timeout
  \/ SessionCompletes
  \/ Exit
  \/ Over
  \/ \E s \in Sessions :
       \/ Connected(s) \/ ClientWrites(s) \/ ClientHasWritten(s)
       \/ ClientReads(s) \/ ClientFails(s)
       \/ Accepted(s) \/ ServerReads(s) \/ ServerWrites(s) \/ ServerEnds(s)

Spec == Init /\ [][Next]_vars

(* The client's timer ticks, pool threads run what they are given, bytes    *)
(* that can move do, and what is written to a server that has closed fails  *)
(* in the end.  A read of the end of file never has to, and a server's      *)
(* session that could go on need not end.                                   *)
Fairness ==
  /\ WF_vars(Timeout) /\ WF_vars(SessionCompletes) /\ WF_vars(Exit)
  /\ \A s \in Sessions :
       /\ WF_vars(cs[s].pc = "connecting" /\ (Connected(s) \/ ClientFails(s)))
       /\ WF_vars(ClientWrites(s) \/ ClientHasWritten(s))
       /\ WF_vars(cs[s].sent < cs[s].length /\ ClientFails(s))
       /\ WF_vars(ClientReads(s))
       /\ WF_vars(Accepted(s))
       /\ WF_vars(ServerReads(s)) /\ WF_vars(ServerWrites(s))
       /\ WF_vars(cs[s].pc = "done" /\ ServerEnds(s))

FairSpec == Spec /\ Fairness

-------------------------------------------------------------------------------
(* The client's first block goes round a connection, however it is split:   *)
(* what the client has still to write, what the server has, and what is on  *)
(* the way add up to it as long as neither side has closed.                 *)
BlockGoesRound ==
  \A s \in Sessions :
    cs[s].pc \in {"writing", "reading"} /\ ss[s].pc # "closed" =>
      (IF cs[s].pc = "writing" THEN cs[s].length - cs[s].sent ELSE 0)
      + up[s] + (ss[s].length - ss[s].sent) + down[s] = BlockSize

(* The client's frame, which the sessions' references to stop lead into,    *)
(* and the pool that resumes them are there until every session has ended.  *)
FrameOutlivesSessions ==
  client = "returned" \/ main = "exited" =>
    \A s \in Sessions : Completed(s)

(* The timeout ends the program, also when sessions of the server have gone *)
(* before and those of the client go round with nothing.                    *)
StopEndsProgram == client # "ticking" ~> main = "exited"
===============================================================================
