------------------------- MODULE ClassicServerSession -------------------------
(***************************************************************************)
(* One session of the callback server, Gor/classic_server.cpp.             *)
(*                                                                         *)
(* The session owns a socket, two buffers and two counters.  op_count_     *)
(* counts the asynchronous operations it has launched and whose handler    *)
(* has not run; when a handler leaves it at zero it posts destroy, which   *)
(* deletes the session.  unsent_count_ counts the messages read and not    *)
(* yet completely written.  A message that arrives while another is being  *)
(* written is held in read_data_, and it is the write's handler that swaps *)
(* the buffers and launches the next pair of operations.                   *)
(*                                                                         *)
(* Every handler is wrapped by the session's strand, so handlers of one    *)
(* session exclude each other whatever number of threads run the           *)
(* io_service: a handler is one action.  The operations themselves make    *)
(* progress at any time, in the kernel: a read completes with any length,  *)
(* a write moves its buffer byte by byte, either may fail at any point,    *)
(* and the two completed handlers wait for the strand in either order.     *)
(*                                                                         *)
(* Bytes are named by their position in the peer's stream, so the buffer   *)
(* contents show which bytes are sent, and 0 is a byte never read.         *)
(***************************************************************************)
EXTENDS Integers, Sequences

CONSTANTS BlockSize,       \* size of each buffer (argv[4])
          MaxBytes         \* bound: bytes the peer sends in its life

ASSUME BlockSizeAssumption == BlockSize \in Nat \ {0}
ASSUME MaxBytesAssumption == MaxBytes \in Nat

VARIABLES
  session,            \* "accepting", "open" or "deleted"
  read_data,          \* which buffer read_data_ points to
  write_data,         \* which buffer write_data_ points to
  read_data_length,
  unsent_count,
  op_count,
  mem,                \* contents of the two buffers
  rd,                 \* the read operation
  wr,                 \* the (composed) write operation
  destroys,           \* destroy handlers posted to the io_service, not yet run
  received,           \* bytes read from the socket so far
  echoed              \* bytes written to the socket so far, in order

pointers == <<read_data, write_data>>
counters == <<read_data_length, unsent_count, op_count>>
stream   == <<received, echoed>>
vars == <<session, pointers, counters, mem, rd, wr, destroys, stream>>

Buffers == {0, 1}
Offsets == 1..BlockSize

(* An operation that is not "none" is outstanding: "pending" in the kernel, *)
(* or "done" and its handler waiting for the strand.  err and length are    *)
(* the handler's arguments; the last ones stay readable in "none".          *)
OpStates == {"none", "pending", "done"}

ReadOps == [state: OpStates, buf: Buffers, err: BOOLEAN, length: 0..BlockSize]
WriteOps == [state: OpStates, buf: Buffers, err: BOOLEAN,
             length: 0..BlockSize, sent: 0..BlockSize]

async_read_some(buf) ==
  [state |-> "pending", buf |-> buf, err |-> FALSE, length |-> 0]

(* Mutated forms (named ..._Bug here and below) are never part of Next:     *)
(* each is a plausible slip that one of the properties must detect.         *)
async_write_WholeBufferBug(buf, len) ==        \* the whole buffer, not the message
  [state |-> "pending", buf |-> buf, err |-> FALSE, length |-> BlockSize,
   sent |-> 0]

async_write(buf, len) ==
  [state |-> "pending", buf |-> buf, err |-> FALSE, length |-> len, sent |-> 0]

Outstanding(op) == op.state # "none"

-------------------------------------------------------------------------------
(* The constructor; the object waits in the server's async_accept. *)
Init ==
  /\ session = "accepting"
  /\ read_data = 0 /\ write_data = 1
  /\ read_data_length = 0 /\ unsent_count = 0 /\ op_count = 0
  /\ mem = [b \in Buffers |-> [i \in Offsets |-> 0]]
  /\ rd = [state |-> "none", buf |-> 0, err |-> FALSE, length |-> 0]
  /\ wr = [state |-> "none", buf |-> 1, err |-> FALSE, length |-> 0, sent |-> 0]
  /\ destroys = 0
  /\ received = 0 /\ echoed = <<>>

(* session::start: the first read, or destroy when the socket refuses the   *)
(* no_delay option.                                                         *)
Start ==
  /\ session' = "open"
  /\ \/ /\ op_count' = op_count + 1
        /\ rd' = async_read_some(read_data)
        /\ UNCHANGED destroys
     \/ /\ destroys' = destroys + 1
        /\ UNCHANGED <<op_count, rd>>

(* server::handle_accept, for this session: an accept that failed deletes   *)
(* the object.  (start_accept then makes another session; not this one.)    *)
HandleAccept ==
  /\ session = "accepting"
  /\ \/ Start
     \/ /\ session' = "deleted"
        /\ UNCHANGED <<op_count, rd, destroys>>
  /\ UNCHANGED <<pointers, read_data_length, unsent_count, mem, wr, stream>>

-------------------------------------------------------------------------------
(* The socket. *)

ReadCompletes(n) ==
  /\ rd.state = "pending"
  /\ received + n <= MaxBytes
  /\ mem' = [mem EXCEPT ![rd.buf] =
               [i \in Offsets |-> IF i <= n THEN received + i ELSE @[i]]]
  /\ rd' = [rd EXCEPT !.state = "done", !.length = n]
  /\ received' = received + n
  /\ UNCHANGED <<session, pointers, counters, wr, destroys, echoed>>

(* End of file, or any error. *)
ReadFails ==
  /\ rd.state = "pending"
  /\ rd' = [rd EXCEPT !.state = "done", !.err = TRUE]
  /\ UNCHANGED <<session, pointers, counters, mem, wr, destroys, stream>>

(* async_write is composed of as many write_some as it takes: it is done    *)
(* when the last byte has gone.                                             *)
WriteSome ==
  /\ wr.state = "pending"
  /\ echoed' = Append(echoed, mem[wr.buf][wr.sent + 1])
  /\ wr' = [wr EXCEPT !.sent = @ + 1,
                      !.state = IF wr.sent + 1 = wr.length THEN "done" ELSE @]
  /\ UNCHANGED <<session, pointers, counters, mem, rd, destroys, received>>

WriteFails ==
  /\ wr.state = "pending"
  /\ wr' = [wr EXCEPT !.state = "done", !.err = TRUE]
  /\ UNCHANGED <<session, pointers, counters, mem, rd, destroys, stream>>

-------------------------------------------------------------------------------
(* The handlers. *)

(* What both handlers do with a message that can be sent now: swap the      *)
(* buffers, write the message, and read the next one behind it.             *)
SwapAndLaunch_MiscountBug(len) ==
  /\ op_count' = (op_count - 1) + 1
  /\ read_data' = write_data
  /\ write_data' = read_data
  /\ wr' = async_write(write_data', len)
  /\ rd' = async_read_some(read_data')

SwapAndLaunch_NoSwapBug(len) ==
  /\ op_count' = (op_count - 1) + 2
  /\ UNCHANGED pointers
  /\ wr' = async_write(read_data, len)
  /\ rd' = async_read_some(read_data)

SwapAndLaunch(len) ==
  /\ op_count' = (op_count - 1) + 2
  /\ read_data' = write_data
  /\ write_data' = read_data
  /\ wr' = async_write(write_data', len)
  /\ rd' = async_read_some(read_data')

PostDestroyWhenIdle_EarlyBug ==
  destroys' = IF op_count' <= 1 THEN destroys + 1 ELSE destroys

PostDestroyWhenIdle_NeverBug ==
  UNCHANGED destroys

PostDestroyWhenIdle ==
  destroys' = IF op_count' = 0 THEN destroys + 1 ELSE destroys

HandleRead_NoErrorCheckBug ==
  /\ rd.state = "done"
  /\ read_data_length' = rd.length /\ unsent_count' = unsent_count + 1
  /\ IF unsent_count' = 1
       THEN SwapAndLaunch(rd.length)
       ELSE /\ op_count' = op_count - 1
            /\ rd' = [rd EXCEPT !.state = "none"]
            /\ UNCHANGED <<pointers, wr>>
  /\ PostDestroyWhenIdle
  /\ UNCHANGED <<session, mem, stream>>

HandleRead ==
  /\ rd.state = "done"
  /\ IF rd.err
       THEN UNCHANGED <<read_data_length, unsent_count>>
       ELSE read_data_length' = rd.length /\ unsent_count' = unsent_count + 1
  /\ IF ~rd.err /\ unsent_count' = 1
       THEN SwapAndLaunch(rd.length)
       ELSE /\ op_count' = op_count - 1
            /\ rd' = [rd EXCEPT !.state = "none"]
            /\ UNCHANGED <<pointers, wr>>
  /\ PostDestroyWhenIdle
  /\ UNCHANGED <<session, mem, stream>>

HandleWrite_NoRelaunchBug ==
  /\ wr.state = "done"
  /\ unsent_count' = IF wr.err THEN unsent_count ELSE unsent_count - 1
  /\ op_count' = op_count - 1
  /\ wr' = [wr EXCEPT !.state = "none"]
  /\ UNCHANGED <<pointers, rd>>
  /\ PostDestroyWhenIdle
  /\ UNCHANGED <<session, read_data_length, mem, stream>>

HandleWrite ==
  /\ wr.state = "done"
  /\ unsent_count' = IF wr.err THEN unsent_count ELSE unsent_count - 1
  /\ IF ~wr.err /\ unsent_count' = 1
       THEN SwapAndLaunch(read_data_length)
       ELSE /\ op_count' = op_count - 1
            /\ wr' = [wr EXCEPT !.state = "none"]
            /\ UNCHANGED <<pointers, rd>>
  /\ PostDestroyWhenIdle
  /\ UNCHANGED <<session, read_data_length, mem, stream>>

(* Posted to the io_service itself, not to the strand. *)
Destroy ==
  /\ destroys > 0
  /\ destroys' = destroys - 1
  /\ session' = "deleted"
  /\ UNCHANGED <<pointers, counters, mem, rd, wr, stream>>

(* The only way for a session to come to rest. *)
Deleted ==
  /\ session = "deleted"
  /\ UNCHANGED vars

Next ==
  \/ HandleAccept
  \/ \E n \in Offsets : ReadCompletes(n)
  \/ ReadFails
  \/ WriteSome
  \/ WriteFails
  \/ HandleRead
  \/ HandleWrite
  \/ Destroy
  \/ Deleted

Spec == Init /\ [][Next]_vars

(* The io_service's threads run what is ready; the peer takes the bytes it  *)
(* is sent, or the connection fails; and a connection whose writes fail     *)
(* does not keep a read waiting for ever.  Nothing makes a peer send.       *)
Fairness ==
  /\ WF_vars(HandleRead)
  /\ WF_vars(HandleWrite)
  /\ WF_vars(Destroy)
  /\ WF_vars(WriteSome \/ WriteFails)
  /\ WF_vars(wr.err /\ (ReadFails \/ \E n \in Offsets : ReadCompletes(n)))

FairSpec == Spec /\ Fairness

-------------------------------------------------------------------------------
(* Type correctness; the bounds on the counters are the values that         *)
(* Gor/README.md says op and unsent range over, and 0.                      *)
TypeOK ==
  /\ session \in {"accepting", "open", "deleted"}
  /\ read_data \in Buffers /\ write_data \in Buffers
  /\ read_data_length \in 0..BlockSize
  /\ unsent_count \in 0..2
  /\ op_count \in 0..2
  /\ mem \in [Buffers -> [Offsets -> 0..MaxBytes]]
  /\ rd \in ReadOps
  /\ wr \in WriteOps
  /\ destroys \in 0..1
  /\ received \in 0..MaxBytes
  /\ echoed \in Seq(0..MaxBytes)

(* op_count_ is exactly the number of operations whose handler has still to *)
(* run, so that zero means that nothing in asio refers to the session.      *)
OpCountIsOutstanding ==
  op_count = (IF Outstanding(rd) THEN 1 ELSE 0)
           + (IF Outstanding(wr) THEN 1 ELSE 0)

(* destroy is posted once, by the last handler to run (or by start, when it *)
(* launches nothing): from the post on no operation holds the session, and  *)
(* after the delete nothing is left that would use or delete it again.      *)
DestroyedOnceAndQuiet ==
  /\ destroys > 0 => /\ session = "open"
                     /\ ~Outstanding(rd) /\ ~Outstanding(wr)
  /\ session = "deleted" => /\ destroys = 0
                            /\ ~Outstanding(rd) /\ ~Outstanding(wr)
  /\ session = "open" /\ ~Outstanding(rd) /\ ~Outstanding(wr) => destroys = 1

(* The buffer the kernel reads into is never the one it writes from, and a  *)
(* message held for the next write is in neither operation's hands.         *)
BuffersDisjoint ==
  /\ Outstanding(rd) /\ Outstanding(wr) => rd.buf # wr.buf
  /\ Outstanding(rd) /\ unsent_count = 2 => rd.buf # read_data
  /\ Outstanding(wr) /\ unsent_count = 2 => wr.buf # read_data

(* Whatever is sent back is a prefix of what came in: no byte of an older   *)
(* message in the buffer, none twice, none skipped.                         *)
EchoInOrder ==
  /\ Len(echoed) <= received
  /\ \A i \in 1..Len(echoed) : echoed[i] = i

(* While no write has failed, every byte taken from the peer has been sent  *)
(* back, or is in the write in progress, or is held in read_data_ for the   *)
(* next one, or is in a read whose handler has yet to run.                  *)
InWrite  == IF Outstanding(wr) THEN wr.length - wr.sent ELSE 0
HeldBack == IF unsent_count = 2 THEN read_data_length ELSE 0
JustRead == IF rd.state = "done" /\ ~rd.err THEN rd.length ELSE 0

NothingLost ==
  ~wr.err => received = Len(echoed) + InWrite + HeldBack + JustRead

(* Once any operation has failed no other is launched: the session can only *)
(* drain.  Neither handler looks at the other operation's error, it follows *)
(* from what the counters are left at.                                      *)
Launched(op, next) == next.state = "pending" /\ op.state # "pending"

NoLaunchAfterError ==
  [][rd.err \/ wr.err => ~Launched(rd, rd') /\ ~Launched(wr, wr')]_vars

(* The session implements the echo promise of EchoStream. *)
StreamPhase ==
  IF session = "deleted" THEN "closed" ELSE IF wr.err THEN "broken" ELSE "open"

Stream == INSTANCE EchoStream WITH
            in <- received, out <- echoed, phase <- StreamPhase

ImplementsEchoStream == Stream!StreamSpec

(* Every byte read is eventually sent back, unless a write fails: a message *)
(* held behind a write is not forgotten when the write completes.           *)
EveryByteEchoed ==
  \A k \in 1..MaxBytes : received >= k ~> (Len(echoed) >= k \/ wr.err)

(* A session whose connection has failed is eventually deleted.             *)
FailedSessionDeleted ==
  (rd.err \/ wr.err) ~> session = "deleted"

-------------------------------------------------------------------------------
(* The inductive invariant: what the counters, the operations and the       *)
(* buffers say of each other.                                               *)

(* An operation in the kernel has not failed; a completed write has moved   *)
(* its whole message; messages are never empty.                             *)
OpsWellFormed ==
  /\ rd.state = "pending" => ~rd.err
  /\ rd.state = "done" /\ ~rd.err => rd.length > 0
  /\ wr.state = "pending" => ~wr.err /\ wr.sent < wr.length
  /\ wr.state = "done" /\ ~wr.err => wr.sent = wr.length

PointersFollowOps ==
  /\ read_data # write_data
  /\ Outstanding(rd) => rd.buf = read_data
  /\ Outstanding(wr) => wr.buf = write_data

(* unsent_count_ tells the states apart: it is 1 while a write and the next *)
(* read are under way, 2 when that read has been handled first, 0 when only *)
(* a read is outstanding.  A failed operation leaves it one short or over,  *)
(* which is why no handler finds it at 1 again.                             *)
UnsentTellsState ==
  /\ Outstanding(rd) /\ Outstanding(wr) => unsent_count = 1
  /\ Outstanding(rd) /\ ~Outstanding(wr) =>
       unsent_count = IF wr.err THEN 1 ELSE 0
  /\ ~Outstanding(rd) /\ Outstanding(wr) =>
       unsent_count = IF rd.err THEN 1 ELSE 2
  /\ ~Outstanding(rd) /\ ~Outstanding(wr) /\ ~wr.err => unsent_count = 0
  /\ unsent_count = 2 => read_data_length > 0

BeforeAccept ==
  session = "accepting" =>
    ~Outstanding(rd) /\ ~Outstanding(wr) /\ destroys = 0 /\ ~rd.err /\ ~wr.err

(* Where each byte of the stream lies while it is in the session: what is   *)
(* left of the write, then the held message, then the message just read.    *)
Holds(buf, len, before) ==
  \A i \in Offsets : i <= len => mem[buf][i] = before + i

BytesInPlace ==
  /\ Outstanding(wr) =>
       Holds(wr.buf, wr.length, Len(echoed) - wr.sent)
  /\ Outstanding(wr) /\ unsent_count = 2 =>
       Holds(read_data, read_data_length, received - read_data_length)
  /\ rd.state = "done" /\ ~rd.err =>
       Holds(rd.buf, rd.length, received - rd.length)

IInv ==
  /\ TypeOK
  /\ OpCountIsOutstanding
  /\ DestroyedOnceAndQuiet
  /\ OpsWellFormed
  /\ PointersFollowOps
  /\ UnsentTellsState
  /\ BeforeAccept
  /\ BytesInPlace
  /\ EchoInOrder
  /\ NothingLost
===============================================================================
