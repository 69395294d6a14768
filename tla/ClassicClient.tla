---------------------------- MODULE ClassicClient ----------------------------
(***************************************************************************)
(* The callback client, Gor/classic_client.cpp: the client object with its *)
(* stop timer, its sessions and their totals, and the io_service whose     *)
(* run() returns when no handler is left.                                  *)
(*                                                                         *)
(* A session connects, writes its block and from then on sends back        *)
(* whatever it reads, with the two buffers and the counter of the server's *)
(* session.  Nothing counts its operations: a session that fails goes      *)
(* quiet and stays, the timeout closes every socket, which makes what is   *)
(* outstanding fail, and main deletes the sessions once run() has returned.*)
(*                                                                         *)
(* The handlers of a session, close_socket among them, are wrapped by its  *)
(* strand; handlers of different sessions, the timer's handler and the     *)
(* kernel's completions interleave at will.  A session object is one       *)
(* record, with the names of its members.                                  *)
(***************************************************************************)
EXTENDS Integers, FiniteSetsExt

CONSTANTS Sessions,        \* the sessions of the command line
          BlockSize,
          MaxBytes         \* bound: bytes a session reads in its life

ASSUME SessionsAssumption == IsFiniteSet(Sessions)
ASSUME ClientBlockSizeAssumption == BlockSize \in Nat \ {0}
ASSUME ClientMaxBytesAssumption == MaxBytes \in Nat

VARIABLES session,         \* the session objects
          sessions_,       \* the client's list: sessions not yet deleted
          stop_timer,      \* "waiting", "expired" (handler ready) or "handled"
          program,         \* "running" (in io_service::run), "returned", "exited"
          stats            \* totals of the deleted sessions

vars == <<session, sessions_, stop_timer, program, stats>>

Buffers == {0, 1}
OpStates == {"none", "pending", "done"}

Connects == [state: OpStates, err: BOOLEAN]
ReadOps == [state: OpStates, buf: Buffers, err: BOOLEAN, length: 0..BlockSize]
WriteOps == [state: OpStates, buf: Buffers, err: BOOLEAN,
             length: 0..BlockSize, sent: 0..BlockSize]

async_read_some(buf) ==
  [state |-> "pending", buf |-> buf, err |-> FALSE, length |-> 0]

async_write(buf, len) ==
  [state |-> "pending", buf |-> buf, err |-> FALSE, length |-> len, sent |-> 0]

Outstanding(op) == op.state # "none"

(* Work that keeps io_service::run from returning. *)
SessionWork(s) ==
  \/ Outstanding(session[s].connect)
  \/ Outstanding(session[s].rd)
  \/ Outstanding(session[s].wr)
  \/ session[s].closes > 0

-------------------------------------------------------------------------------
(* The constructors: the timer is armed and every session is connecting. *)
NewSession ==
  [connect |-> [state |-> "pending", err |-> FALSE],
   socket |-> "open",
   closes |-> 0,
   read_data |-> 0, write_data |-> 1,
   read_data_length |-> 0,
   unwritten_count |-> 0,
   rd |-> [state |-> "none", buf |-> 0, err |-> FALSE, length |-> 0],
   wr |-> [state |-> "none", buf |-> 1, err |-> FALSE, length |-> 0, sent |-> 0],
   bytes_written |-> 0, bytes_read |-> 0]

Init ==
  /\ session = [s \in Sessions |-> NewSession]
  /\ sessions_ = Sessions
  /\ stop_timer = "waiting"
  /\ program = "running"
  /\ stats = [written |-> 0, read |-> 0]

(* An action that turns the object of session s into o. *)
Becomes(s, o) ==
  /\ session' = [session EXCEPT ![s] = o]
  /\ UNCHANGED <<sessions_, stop_timer, program, stats>>

-------------------------------------------------------------------------------
(* The kernel.  An operation on a closed socket can only fail. *)

ConnectCompletes(s) ==
  /\ session[s].connect.state = "pending"
  /\ session[s].socket = "open"
  /\ Becomes(s, [session[s] EXCEPT !.connect.state = "done"])

ConnectFails(s) ==
  /\ session[s].connect.state = "pending"
  /\ Becomes(s, [session[s] EXCEPT !.connect.state = "done", !.connect.err = TRUE])

ReadCompletes(s, n) ==
  /\ session[s].rd.state = "pending"
  /\ session[s].socket = "open"
  /\ session[s].bytes_read + n <= MaxBytes
  /\ Becomes(s, [session[s] EXCEPT !.rd.state = "done", !.rd.length = n])

ReadFails(s) ==
  /\ session[s].rd.state = "pending"
  /\ Becomes(s, [session[s] EXCEPT !.rd.state = "done", !.rd.err = TRUE])

WriteSome(s, n) ==
  /\ session[s].wr.state = "pending"
  /\ session[s].socket = "open"
  /\ session[s].wr.sent + n <= session[s].wr.length
  /\ Becomes(s, [session[s] EXCEPT
       !.wr.sent = @ + n,
       !.wr.state = IF session[s].wr.sent + n = session[s].wr.length
                      THEN "done" ELSE @])

WriteFails(s) ==
  /\ session[s].wr.state = "pending"
  /\ Becomes(s, [session[s] EXCEPT !.wr.state = "done", !.wr.err = TRUE])

TimerExpires ==
  /\ stop_timer = "waiting"
  /\ stop_timer' = "expired"
  /\ UNCHANGED <<session, sessions_, program, stats>>

-------------------------------------------------------------------------------
(* The handlers of a session.  Mutated forms (named ..._Bug here and below) *)
(* are never part of Next: each is a plausible slip that one of the         *)
(* properties must detect.                                                  *)

Connected_WriteOnlyBug(o) ==
  [o EXCEPT !.connect.state = "none",
            !.unwritten_count = @ + 1,
            !.wr = async_write(o.write_data, BlockSize)]

(* handle_connect: set_option fails on a socket closed meanwhile, and may   *)
(* fail on any other.                                                       *)
Connected(o) ==
  [o EXCEPT !.connect.state = "none",
            !.unwritten_count = @ + 1,
            !.wr = async_write(o.write_data, BlockSize),
            !.rd = async_read_some(o.read_data)]

HandleConnect(s) ==
  /\ session[s].connect.state = "done"
  /\ \/ /\ ~session[s].connect.err
        /\ session[s].socket = "open"
        /\ Becomes(s, Connected(session[s]))
     \/ Becomes(s, [session[s] EXCEPT !.connect.state = "none", !.connect.err = TRUE])

(* Both handlers: swap the buffers, send the message, read the next one. *)
SwapAndLaunch_NoSwapBug(o, len) ==
  [o EXCEPT !.wr = async_write(o.read_data, len),
            !.rd = async_read_some(o.read_data)]

SwapAndLaunch_StaleLengthBug(o, len) ==
  [o EXCEPT !.read_data = o.write_data, !.write_data = o.read_data,
            !.wr = async_write(o.read_data, BlockSize),
            !.rd = async_read_some(o.write_data)]

SwapAndLaunch(o, len) ==
  [o EXCEPT !.read_data = o.write_data, !.write_data = o.read_data,
            !.wr = async_write(o.read_data, len),
            !.rd = async_read_some(o.write_data)]

HandleRead(s) ==
  /\ session[s].rd.state = "done"
  /\ LET idle == [session[s] EXCEPT !.rd.state = "none"]
         got  == [idle EXCEPT !.bytes_read = @ + idle.rd.length,
                              !.read_data_length = idle.rd.length,
                              !.unwritten_count = @ + 1]
     IN  Becomes(s, IF idle.rd.err THEN idle
                    ELSE IF got.unwritten_count = 1
                      THEN SwapAndLaunch(got, got.read_data_length)
                      ELSE got)

HandleWrite(s) ==
  /\ session[s].wr.state = "done"
  /\ LET idle == [session[s] EXCEPT !.wr.state = "none"]
         put  == [idle EXCEPT !.bytes_written = @ + idle.wr.length,
                              !.unwritten_count = @ - 1]
     IN  Becomes(s, IF idle.wr.err \/ idle.wr.length = 0 THEN idle
                    ELSE IF put.unwritten_count = 1
                      THEN SwapAndLaunch(put, put.read_data_length)
                      ELSE put)

CloseSocket(s) ==
  /\ session[s].closes > 0
  /\ Becomes(s, [session[s] EXCEPT !.closes = @ - 1, !.socket = "closed"])

-------------------------------------------------------------------------------
(* The client and main. *)

(* session::stop posts close_socket to the strand. *)
Stop(o) == [o EXCEPT !.closes = @ + 1]

(* client::handle_timeout: stop for each session in the list. *)
HandleTimeout_RepeatedBug ==
  /\ stop_timer = "expired"
  /\ session' = [s \in Sessions |-> Stop(session[s])]
  /\ UNCHANGED <<stop_timer, sessions_, program, stats>>

HandleTimeout_SkipConnectingBug ==
  /\ stop_timer = "expired"
  /\ stop_timer' = "handled"
  /\ session' = [s \in Sessions |->
                   IF Outstanding(session[s].connect) THEN session[s]
                                                      ELSE Stop(session[s])]
  /\ UNCHANGED <<sessions_, program, stats>>

HandleTimeout ==
  /\ stop_timer = "expired"
  /\ stop_timer' = "handled"
  /\ session' = [s \in Sessions |-> Stop(session[s])]
  /\ UNCHANGED <<sessions_, program, stats>>

RunReturns_EarlyBug ==
  /\ program = "running"
  /\ stop_timer = "handled"
  /\ program' = "returned"
  /\ UNCHANGED <<session, sessions_, stop_timer, stats>>

(* run() returns in every thread, and main has joined them, when the timer  *)
(* has been handled and no session has work.                                *)
RunReturns ==
  /\ program = "running"
  /\ stop_timer = "handled"
  /\ \A s \in Sessions : ~SessionWork(s)
  /\ program' = "returned"
  /\ UNCHANGED <<session, sessions_, stop_timer, stats>>

(* stats::add *)
Add(o) == [written |-> stats.written + o.bytes_written,
           read |-> stats.read + o.bytes_read]

(* ~client deletes the sessions, and ~session adds its bytes to the totals. *)
(* (They go in the list's order, which makes no difference here.)           *)
DeleteSession(s) ==
  /\ program = "returned"
  /\ s \in sessions_
  /\ sessions_' = sessions_ \ {s}
  /\ stats' = Add(session[s])
  /\ UNCHANGED <<session, stop_timer, program>>

Exit ==
  /\ program = "returned"
  /\ sessions_ = {}
  /\ program' = "exited"
  /\ UNCHANGED <<session, sessions_, stop_timer, stats>>

Exited ==
  /\ program = "exited"
  /\ UNCHANGED vars

SessionNext(s) ==
  \/ ConnectCompletes(s)
  \/ ConnectFails(s)
  \/ \E n \in 1..BlockSize : ReadCompletes(s, n)
  \/ ReadFails(s)
  \/ \E n \in 1..BlockSize : WriteSome(s, n)
  \/ WriteFails(s)
  \/ HandleConnect(s)
  \/ HandleRead(s)
  \/ HandleWrite(s)
  \/ CloseSocket(s)
  \/ DeleteSession(s)

Next ==
  \/ TimerExpires
  \/ HandleTimeout
  \/ RunReturns
  \/ Exit
  \/ Exited
  \/ \E s \in Sessions : SessionNext(s)

Spec == Init /\ [][Next]_vars

(* The timer expires; the threads in run() run what is ready; an operation  *)
(* on a closed socket is completed (with an error).  Nothing is assumed of  *)
(* the server: on an open socket an operation may stay pending for ever.    *)
ClosedFails(s) ==
  /\ session[s].socket = "closed"
  /\ ConnectFails(s) \/ ReadFails(s) \/ WriteFails(s)

Fairness ==
  /\ WF_vars(TimerExpires)
  /\ WF_vars(HandleTimeout)
  /\ WF_vars(RunReturns)
  /\ WF_vars(Exit)
  /\ \A s \in Sessions :
       /\ WF_vars(HandleConnect(s))
       /\ WF_vars(HandleRead(s))
       /\ WF_vars(HandleWrite(s))
       /\ WF_vars(CloseSocket(s))
       /\ WF_vars(ClosedFails(s))
       /\ WF_vars(DeleteSession(s))

FairSpec == Spec /\ Fairness

-------------------------------------------------------------------------------
SessionObjects ==
  [connect: Connects, socket: {"open", "closed"}, closes: 0..1,
   read_data: Buffers, write_data: Buffers, read_data_length: 0..BlockSize,
   unwritten_count: 0..2, rd: ReadOps, wr: WriteOps,
   bytes_written: 0..(MaxBytes + BlockSize), bytes_read: 0..MaxBytes]

(* Type correctness; in particular unwritten_count_ stays in 0..2. *)
TypeOK ==
  /\ session \in [Sessions -> SessionObjects]
  /\ sessions_ \subseteq Sessions
  /\ stop_timer \in {"waiting", "expired", "handled"}
  /\ program \in {"running", "returned", "exited"}
  /\ stats \in [written: Nat, read: Nat]

Launched(s) == ~Outstanding(session[s].connect) /\ ~session[s].connect.err
Healthy(s) == Launched(s) /\ ~session[s].rd.err /\ ~session[s].wr.err

(* The state machine that Gor/README.md draws for the client: while nothing *)
(* has failed a session is in NoData, WriteData or ReadWriteData.  In each  *)
(* of them something is outstanding, so a healthy session never comes to    *)
(* rest, and a read is outstanding except while a message is held back.     *)
HealthySessionIsNeverIdle ==
  \A s \in Sessions : Healthy(s) =>
    LET o == session[s] IN
      \/ o.unwritten_count = 0 /\ Outstanding(o.rd) /\ ~Outstanding(o.wr)
      \/ o.unwritten_count = 1 /\ Outstanding(o.rd) /\ Outstanding(o.wr)
      \/ o.unwritten_count = 2 /\ ~Outstanding(o.rd) /\ Outstanding(o.wr)

(* The totals balance: what a healthy session has written, is writing or    *)
(* holds is its first block and the bytes it has counted as read.           *)
Unwritten(o) ==
  (IF Outstanding(o.wr) THEN o.wr.length ELSE 0)
  + (IF o.unwritten_count = 2 THEN o.read_data_length ELSE 0)

BytesBalance ==
  \A s \in Sessions : Healthy(s) =>
    session[s].bytes_written + Unwritten(session[s])
      = BlockSize + session[s].bytes_read

(* The write's buffer belongs to neither the read nor a held message. *)
WriteBufferExclusive ==
  \A s \in Sessions : LET o == session[s] IN
    /\ Outstanding(o.rd) /\ Outstanding(o.wr) => o.rd.buf # o.wr.buf
    /\ Outstanding(o.wr) /\ o.unwritten_count = 2 => o.wr.buf # o.read_data

(* ~session runs when nothing can call the session any more: after the      *)
(* close of its socket has run, and with no operation of it outstanding.    *)
DeletedQuiet ==
  \A s \in Sessions : s \notin sessions_ =>
    session[s].socket = "closed" /\ ~SessionWork(s)

(* The totals printed at the end miss nothing: no byte is counted by a      *)
(* session after its destructor has added it up.                            *)
TotalsAreComplete ==
  program = "exited" =>
    /\ stats.written = MapThenSumSet(LAMBDA s : session[s].bytes_written, Sessions)
    /\ stats.read = MapThenSumSet(LAMBDA s : session[s].bytes_read, Sessions)

(* The timeout ends the program whatever the sessions are doing when it     *)
(* comes: connecting, with handlers queued before the close, or failed long *)
(* ago.                                                                     *)
TimeoutEndsProgram == stop_timer = "expired" ~> program = "exited"
===============================================================================
