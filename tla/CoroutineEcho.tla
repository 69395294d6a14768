---------------------------- MODULE CoroutineEcho ----------------------------
(***************************************************************************)
(* The coroutine client, Gor/client.cpp, against the coroutine server,     *)
(* Gor/server.cpp, over connections whose socket buffers hold Capacity     *)
(* bytes each way.                                                         *)
(*                                                                         *)
(* A coroutine session has one operation outstanding at a time: the client *)
(* writes its whole block, then reads once, then looks at the stop flag;   *)
(* the server reads once, then writes.  A coroutine is a program counter   *)
(* that names the co_await it is suspended on, and one action takes it     *)
(* from the completion of that operation to its next suspension.           *)
(*                                                                         *)
(* The server replies to any read with a whole block.  The network may     *)
(* split a block over several reads (SplitBlocks) or deliver blocks whole, *)
(* as loopback does with small ones.                                       *)
(*                                                                         *)
(* The client coroutine raises the flag at the timeout and then awaits the *)
(* sessions' futures in turn, through asio_future_awaiter: a timer that    *)
(* polls the future and resumes the coroutine when it is ready.            *)
(*                                                                         *)
(* Abstracted: which bytes are transferred (only how many), and the two    *)
(* totals that a session returns.                                          *)
(***************************************************************************)
EXTENDS Integers, SequencesExt

CONSTANTS Sessions,        \* as many as the command line asks for
          BlockSize,
          Capacity,        \* bytes a socket's send and receive buffers hold
          SplitBlocks      \* may a read return part of a block?

ASSUME EchoAssumption ==
  /\ BlockSize \in Nat \ {0} /\ Capacity \in Nat \ {0}
  /\ SplitBlocks \in BOOLEAN
  /\ SplitBlocks \/ Capacity >= BlockSize

ASSUME SessionsAssumption == IsFiniteSet(Sessions)

VARIABLES
  stop,               \* the flag in the client coroutine's frame
  client,             \* "running" (co_await async_wait), "polling", "returned"
  sessions,           \* the futures that the client still has to await
  run,                \* has io_service::run returned?
  cs,                 \* the client's session coroutines: [pc, sent]
  ss,                 \* the server's session coroutines: [pc, length, sent]
  up, down,           \* bytes in flight from client to server and back
  balance             \* bytes written by a client session less bytes sent back

vars == <<stop, client, sessions, run, cs, ss, up, down, balance>>

(* async_read_some completes with some of the bytes that are there. *)
ReadSizes(avail) ==
  IF SplitBlocks THEN {n \in 1..BlockSize : n <= avail}
                 ELSE {n \in {BlockSize} : n <= avail}

-------------------------------------------------------------------------------
(* client(): every session has started, and is suspended on async_connect.  *)
Init ==
  /\ stop = FALSE
  /\ client = "running"
  /\ sessions = SetToSeq(Sessions)
  /\ run = "running"
  /\ cs = [s \in Sessions |-> [pc |-> "connecting", sent |-> 0]]
  /\ ss = [s \in Sessions |-> [pc |-> "accepting", length |-> 0, sent |-> 0]]
  /\ up = [s \in Sessions |-> 0]
  /\ down = [s \in Sessions |-> 0]
  /\ balance = [s \in Sessions |-> 0]

clientVars == <<stop, client, sessions, run>>

-------------------------------------------------------------------------------
(* The client's sessions. *)

(* Mutated forms (named ..._Bug here and below) are never part of Next:     *)
(* each is a plausible slip that one of the properties must detect.         *)

(* `while (!stop)`: go round again, or close the socket and return.         *)
Loop_NeverStopsBug == [pc |-> "writing", sent |-> 0]

Loop == [pc |-> IF stop THEN "finished" ELSE "writing", sent |-> 0]

Connected(s) ==
  /\ cs[s].pc = "connecting" /\ ss[s].pc = "accepting"
  /\ cs' = [cs EXCEPT ![s] = Loop]
  /\ UNCHANGED <<clientVars, ss, up, down, balance>>

(* async_write moves its block byte by byte, as there is room. *)
ClientWrites(s) ==
  /\ cs[s].pc = "writing"
  /\ up[s] < Capacity
  /\ up' = [up EXCEPT ![s] = @ + 1]
  /\ balance' = [balance EXCEPT ![s] = @ + 1]
  /\ IF cs[s].sent + 1 = BlockSize
       THEN cs' = [cs EXCEPT ![s] = [pc |-> "reading", sent |-> 0]]
       ELSE cs' = [cs EXCEPT ![s].sent = @ + 1]
  /\ UNCHANGED <<clientVars, ss, down>>

ClientReads(s) ==
  /\ cs[s].pc = "reading"
  /\ \E n \in ReadSizes(down[s]) : down' = [down EXCEPT ![s] = @ - n]
  /\ cs' = [cs EXCEPT ![s] = Loop]
  /\ UNCHANGED <<clientVars, ss, up, balance>>

(* The awaiter throws, the session catches, closes and returns its totals:  *)
(* a refused connection, which the server never sees, or a peer that has    *)
(* closed.                                                                  *)
ClientFails(s) ==
  /\ \/ /\ cs[s].pc = "connecting"
        /\ ss' = [ss EXCEPT ![s].pc = "closed"]
     \/ /\ cs[s].pc \in {"writing", "reading"}
        /\ ss[s].pc = "closed"
        /\ UNCHANGED ss
  /\ cs' = [cs EXCEPT ![s] = [pc |-> "finished", sent |-> 0]]
  /\ UNCHANGED <<clientVars, up, down, balance>>

-------------------------------------------------------------------------------
(* The server's sessions. *)

(* A session starts when the acceptor has the connection; a failed          *)
(* set_option throws at once.                                               *)
Accepted(s) ==
  /\ ss[s].pc = "accepting" /\ cs[s].pc # "connecting"
  /\ \E pc \in {"reading", "closed"} : ss' = [ss EXCEPT ![s].pc = pc]
  /\ UNCHANGED <<clientVars, cs, up, down, balance>>

(* async_accept fails on a connection.  The exception ends the acceptor's   *)
(* coroutine, and with its frame goes the acceptor: whoever it has not      *)
(* accepted is refused or reset, and the sessions it has started go on.     *)
AcceptFails(s) ==
  /\ ss[s].pc = "accepting" /\ cs[s].pc # "connecting"
  /\ ss' = [t \in Sessions |->
              IF ss[t].pc = "accepting" THEN [ss[t] EXCEPT !.pc = "closed"]
                                        ELSE ss[t]]
  /\ UNCHANGED <<clientVars, cs, up, down, balance>>

(* What the server writes after reading n bytes. *)
ReplyLength_TerminatorBug(n) == BlockSize + 1

ReplyLength_ShortBug(n) == n - 1

ReplyLength(n) == BlockSize

ServerReads(s) ==
  /\ ss[s].pc = "reading"
  /\ \E n \in ReadSizes(up[s]) :
       /\ up' = [up EXCEPT ![s] = @ - n]
       /\ ss' = [ss EXCEPT ![s] = [pc |-> "writing", length |-> ReplyLength(n),
                                   sent |-> 0]]
  /\ UNCHANGED <<clientVars, cs, down, balance>>

ServerWrites(s) ==
  /\ ss[s].pc = "writing"
  /\ down[s] < Capacity
  /\ down' = [down EXCEPT ![s] = @ + 1]
  /\ balance' = [balance EXCEPT ![s] = @ - 1]
  /\ IF ss[s].sent + 1 = ss[s].length
       THEN ss' = [ss EXCEPT ![s] = [pc |-> "reading", length |-> 0, sent |-> 0]]
       ELSE ss' = [ss EXCEPT ![s].sent = @ + 1]
  /\ UNCHANGED <<clientVars, cs, up>>

(* End of file, a reset or a broken pipe, once the client has closed. *)
ServerFails(s) ==
  /\ ss[s].pc \in {"reading", "writing"} /\ cs[s].pc = "finished"
  /\ ss' = [ss EXCEPT ![s] = [pc |-> "closed", length |-> 0, sent |-> 0]]
  /\ UNCHANGED <<clientVars, cs, up, down, balance>>

-------------------------------------------------------------------------------
(* The client coroutine. *)

Ready(s) == cs[s].pc = "finished"

(* The loop over the futures, up to its next suspension: each co_await of a *)
(* ready future goes straight on; at the first that is not, the awaiter     *)
(* arms its timer.                                                          *)
AwaitSessions_NoWaitBug ==
  /\ sessions' = <<>>
  /\ client' = "returned"

AwaitSessions ==
  \E k \in 0..Len(sessions) :
    /\ \A i \in 1..k : Ready(sessions[i])
    /\ k < Len(sessions) => ~Ready(sessions[k + 1])
    /\ sessions' = SubSeq(sessions, k + 1, Len(sessions))
    /\ client' = IF k = Len(sessions) THEN "returned" ELSE "polling"

Timeout ==
  /\ client = "running"
  /\ stop' = TRUE
  /\ AwaitSessions
  /\ UNCHANGED <<run, cs, ss, up, down, balance>>

(* asio_future_awaiter::resume_or_wait: the timer of the first session left *)
(* has expired; not ready arms it again.                                    *)
Poll ==
  /\ client = "polling"
  /\ AwaitSessions
  /\ UNCHANGED <<stop, run, cs, ss, up, down, balance>>

(* io_service::run returns when no coroutine is suspended on an operation.  *)
RunReturns ==
  /\ run = "running"
  /\ client = "returned"
  /\ \A s \in Sessions : cs[s].pc = "finished"
  /\ run' = "returned"
  /\ UNCHANGED <<stop, client, sessions, cs, ss, up, down, balance>>

Over ==
  /\ run = "returned"
  /\ \A s \in Sessions : ss[s].pc = "closed"
  /\ UNCHANGED vars

Next ==
  \/ Timeout
  \/ Poll
  \/ RunReturns
  \/ Over
  \/ \E s \in Sessions :
       \/ Connected(s) \/ ClientWrites(s) \/ ClientReads(s) \/ ClientFails(s)
       \/ Accepted(s) \/ AcceptFails(s)
       \/ ServerReads(s) \/ ServerWrites(s) \/ ServerFails(s)

Spec == Init /\ [][Next]_vars

(* Timers expire, the io_service's threads run what is ready, and bytes     *)
(* that can move do.  No fairness is asked of the failures of a live peer.  *)
Fairness ==
  /\ WF_vars(Timeout) /\ WF_vars(Poll) /\ WF_vars(RunReturns)
  /\ \A s \in Sessions :
       /\ WF_vars(Connected(s) \/ ClientFails(s))
       /\ WF_vars(ClientWrites(s)) /\ WF_vars(ClientReads(s))
       /\ WF_vars(Accepted(s))
       /\ WF_vars(ServerReads(s)) /\ WF_vars(ServerWrites(s))
       /\ WF_vars(ServerFails(s))

FairSpec == Spec /\ Fairness

-------------------------------------------------------------------------------
TypeOK ==
  /\ stop \in BOOLEAN
  /\ client \in {"running", "polling", "returned"}
  /\ sessions \in Seq(Sessions)
  /\ run \in {"running", "returned"}
  /\ cs \in [Sessions -> [pc: {"connecting", "writing", "reading", "finished"},
                          sent: 0..(BlockSize - 1)]]
  /\ ss \in [Sessions -> [pc: {"accepting", "reading", "writing", "closed"},
                          length: 0..BlockSize, sent: 0..(BlockSize - 1)]]
  /\ up \in [Sessions -> 0..Capacity]
  /\ down \in [Sessions -> 0..Capacity]
  /\ balance \in [Sessions -> Int]

(* An echo server sends back bytes that it was sent: over a connection it   *)
(* has never sent more than the client wrote.                               *)
NeverOverEchoes == \A s \in Sessions : balance[s] >= 0

(* The sessions hold references into the client coroutine's frame (stop, by *)
(* reference): the coroutine returns only after all of them have.           *)
FrameOutlivesSessions ==
  client = "returned" => \A s \in Sessions : cs[s].pc = "finished"

(* Client and server are never both waiting for the other for good: when    *)
(* neither can move a byte, one of them is connecting or has closed.        *)
NoMutualWait ==
  \A s \in Sessions :
    cs[s].pc \in {"writing", "reading"} /\ ss[s].pc \in {"reading", "writing"} =>
      \/ cs[s].pc = "writing" /\ up[s] < Capacity
      \/ cs[s].pc = "reading" /\ ReadSizes(down[s]) # {}
      \/ ss[s].pc = "reading" /\ ReadSizes(up[s]) # {}
      \/ ss[s].pc = "writing" /\ down[s] < Capacity

(* Gor/README.md, "Client coroutine based implementation": the flag makes   *)
(* the sessions stop queueing handlers, so that run() returns.              *)
StopEndsProgram == stop ~> run = "returned"
===============================================================================
