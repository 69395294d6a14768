# Verification of the coroutine and callback echo programs

The repository collects C++20 coroutine experiments: the `basics/` samples, the
asio programs of `Gor/` (an echo server and client, each in a callback and in a
coroutine version, with the adapters between asio and coroutines) and the same
programs over C++/WinRT in `winrt/`. This directory holds TLA+ models of those
programs, the TLC runs that check them, and proofs checked by TLAPS.

Contents: inventory, plan, what each module models, runs and bounds, fairness,
proofs, what is only model-checked, what is not modelled.

## Inventory

| Component | State | Operations | Interacts with |
|---|---|---|---|
| Callback server session, `Gor/classic_server.cpp` | two buffers, `read_data_length_`, `unsent_count_`, `op_count_`, a strand | `start`, `handle_read`, `handle_write`, `destroy` | asio (one read, one write outstanding), the server object that creates it |
| Callback server, same file | acceptor, io_service, threads | `start_accept`, `handle_accept`, `main` | sessions |
| Callback client, `Gor/classic_client.cpp` | session list, stop timer, `stats`; per session the same buffers, `unwritten_count_`, byte totals | `handle_connect`, `handle_read`, `handle_write`, `stop`/`close_socket`, `handle_timeout`, destructors, `main` | asio, any echo server |
| Coroutine client, `Gor/client.cpp` | session futures, the `stop` flag in the client's frame; per session a suspended frame | `client`, `session`, `main` | adapters, future awaiter, server |
| Coroutine server, `Gor/server.cpp` | acceptor, a suspended frame per session | `server`, `session` | adapters, client |
| `easy.cpp`, `hard1.cpp`, `hard2.cpp`, `over1.cpp`, `over2.cpp`, `first.cpp` | as above, smaller | echo loop, accept loop | asio |
| Future awaiter, `asio_future_await.h` | a future, a timer, a handle | `await_ready`, `await_suspend`, `resume_or_wait` | coroutine client |
| Awaitable adapters, `await_adapters.h` | result and error of one operation | `await_suspend`, the handler, `await_resume` | every coroutine |
| Future promise, `future_adapter.h` | a promise | the coroutine's return and exception | future awaiter |
| Handler allocator, `handler_allocator.h` | 1024 bytes and `in_use_` | `allocate`, `deallocate` | every handler |
| Cancellation on destruction, `stop1.cpp` | a callback owning a handle | call, copy, move, destructor | `io_service::stop` |
| `basics/` | a coroutine handle; a generator's value; a future and a thread | ownership, iteration, `co_await` | each other in a pipeline |
| Pool awaiter, `winrt/threadpool_winrt.h` | `suspending`, `status`, the pool's environment | `await_suspend`, completion handler, pool callback | C++/WinRT `promise_base`, the pool |
| WinRT server and client | list of sessions, `stop`, cancellation | connection callback, shutdown, session loop | pool awaiter |

Where the difficulties lie, and what makes each component correct:

* **Callback session.** Two operations are outstanding at once, complete in
  either order, and either may fail. Nothing but two counters says who must
  launch the next pair and who must delete the object. Correct: deleted exactly
  once and when nothing refers to it; never a buffer in two hands; the bytes
  sent are the bytes received, in order, none lost; nothing launched after an
  error; a failed session does disappear.
* **Callback client.** The same machine started with both operations
  outstanding; nothing counts the operations; the timeout races with connects,
  handlers and failures. Correct: a healthy session always has something
  outstanding; the totals balance; after the timeout the program ends, and
  sessions are deleted only when nothing can call them.
* **Coroutine client and server.** One operation at a time per session, so that
  a client and a server can wait for each other; a stop flag looked at between
  rounds; references into the client's frame. Correct: no mutual wait; stop
  ends the program; the frame outlives its users; an echo server sends no more
  than it got.
* **Awaiters, promises.** Resumption exactly once: not before the suspension is
  complete, not twice, not never. Completion, cancellation and refusal by the
  pool all race with the suspension.
* **Ownership samples.** A frame is destroyed exactly once whatever moves.
* **Allocator.** A block is in one hand at a time, and is freed where it came
  from; boundary at 1024 bytes.
* **WinRT shutdown.** Sessions started by listener callbacks while main cancels
  and destroys; the pool must outlive what runs on it.

`PROJECT.json` lists every hazard at its line, with the properties that cover it.

## Plan

In the order of importance. All groups are done, but for the parts named under
"Not modelled" and "Only model-checked".

1. `EchoStream` (abstract promise), `ClassicServerSession` with its proof,
   `ClassicClient`, `CoroutineEcho`.
2. `ClassicEcho`: the callback client's session against the callback server's
   over a bounded connection, composing the two modules.
3. `Resumption` (abstract promise of every awaiter) and `AsioAwaiters`: the
   handler, `stop1`, future and thread awaiters with the promise of
   `future_adapter.h` and the allocator, against the end of the `io_service`.
4. `WinRTServer`: the pool awaiter, the cancellable promise and main's shutdown,
   implementing `Resumption`; `WinRTEcho`: the WinRT client against a server.
5. `GeneratorPipeline`: `yield3.cpp`.
6. Proofs, one module `..._proof` for each component: its inductive invariant,
   the safety invariants and action properties of its run, the refinement of its
   abstract specification.

No module declares a RECURSIVE operator, so that all of them can be proved about.

## What is modelled

In every module a handler, or a coroutine from one suspension to the next, is
one action; the kernel's side of an operation (progress, completion, failure)
is an action of its own that may come at any time. Definitions whose name ends
in `Bug` are mutated forms of the definition that follows; they are never part
of `Next` and serve to confirm that a property notices that slip.

### `EchoStream`

What any echo session promises its peer: `in` counts bytes taken, `out` lists
bytes sent back (a byte is named by its position in the input), `phase` is open,
broken (a write failed) or closed. It may close only when everything taken has
been sent, or when broken.

### `ClassicServerSession` (`Gor/classic_server.cpp`)

| TLA+ | Code |
|---|---|
| `read_data`, `write_data`, `read_data_length`, `unsent_count`, `op_count` | members of the same names; pointers are buffer numbers |
| `mem`, `received`, `echoed` | contents of the two buffers; the peer's stream by byte positions |
| `rd`, `wr` | the outstanding operation: in the kernel (`pending`), handler queued (`done`), none |
| `destroys`, `session` | posted `destroy` handlers; accepting, open, deleted |
| `HandleAccept`, `Start` | `server::handle_accept`, `session::start` with its failed `set_option` |
| `HandleRead`, `HandleWrite` | the two handlers, including the tail that posts `destroy` |
| `SwapAndLaunch`, `PostDestroyWhenIdle` | the two blocks that both handlers share |
| `ReadCompletes`, `ReadFails`, `WriteSome`, `WriteFails` | asio and the socket |

A handler is one action because the strand serialises the handlers of a session
for any number of threads. `destroy` is posted outside the strand, and is a
separate action. The counter's width is not modelled: the type invariant shows
it stays in 0..2.

### `ClassicClient` (`Gor/classic_client.cpp`)

`session[s]` is the session object with its members; `closes` counts posted
`close_socket` handlers. `HandleTimeout` is `client::handle_timeout`;
`RunReturns` is the return of `io_service::run` in all threads, when no handler
is left; `DeleteSession` is `~client` with `~session` and `stats::add`; `Exit`
prints the totals. Byte contents are left out, as the client never compares
them; lengths are kept.

### `CoroutineEcho` (`Gor/client.cpp` with `server.cpp`)

`cs[s].pc` and `ss[s].pc` name the `co_await` on which the session's coroutine
is suspended on the client's and the server's side. `up` and `down` are the
bytes in flight, at most `Capacity` each way (the socket buffers). `ReplyLength`
is a block whatever was read, as `server.cpp` discards the length.
`AwaitSessions` is the client's loop over the futures up to its next
suspension; `Poll` is a tick of the future awaiter's timer. `balance` is a
history variable: bytes written by the client minus bytes written back.
The server's accept loop is reduced to one accept for each client session;
`AcceptFails` is the exception that ends it, which refuses all who wait.

### `ClassicEcho` (the callback client against the callback server)

Two instances, `C` of `ClassicClient` with one session and `S` of
`ClassicServerSession`, whose actions it takes as they are. What it adds is the
connection (`line`, `up`, `down`) and when it lets an action of asio happen: a
write needs room, a read needs bytes, an accept needs a connect, and an operation
fails only when the connection broke (`Breaks`) or a socket was closed. `ClientRuns` and
`ServerRuns` are the two programs' handlers.

### `Resumption`

What every awaiter promises its coroutine: it is resumed only when its result
is there, or with an error that ends it when the loop behind it goes; one that has
ended is never resumed. `AsioAwaiters` and `WinRTServer` implement it.

### `AsioAwaiters`

A coroutine with the promise of `future_adapter.h` (or its equal in
`future.cpp`) behind one awaiter of each kind, and the `io_service` that may be
stopped and destroyed at any time.

| TLA+ | Code |
|---|---|
| `coro`, `ec`, `result` | where the coroutine is, what its last await ended with, its future |
| `op` | the operation in asio, or the task of `std::async` |
| `holders` | handler objects that hold the coroutine's handle |
| `memory`, `in_use` | where the operation's memory is; `handler_allocator::in_use_` |
| `future`, `waiter` | a polling or threaded awaiter's future, and the timer or thread that looks at it |
| `AwaitOperation`, `WriteGoesOn`, `RunHandler` | `await_adapters.h`: suspension, the parts of a composed write, the handler; `stop1.cpp`'s `Callback` through `Moved`, `Called` |
| `allocate`, `deallocate`, `Lends`, `Frees` | `handler_allocator.h`, as asio calls it |
| `AwaitFuture`, `await_ready`, `await_suspend`, `resume_or_wait`, `Tick` | `asio_future_await.h` |
| `ThreadResumes` | the detached thread of `future.cpp` |
| `Finish` | the promise's `return_void`, `return_value`, `unhandled_exception` and `final_suspend` |
| `Stop`, `Destroy`, `ResumedByDestructor` | `io_service::stop`, its destructor, `~Callback` |

Only asking and suspending are separate steps, since a future may be set between
them; no more of another thread's work matters in between.

### `WinRTServer` (`winrt/winrt_server.cpp`, `threadpool_winrt.h`)

A `co_await` takes one action for each access to what another thread uses, because
main's `Cancel` and the completion handler run in other threads.

| TLA+ | Code |
|---|---|
| `status`, `refs`, `canceller` | `promise_base::m_status`, its references, `cancellable_promise::m_canceller` |
| `seen`, `suspending`, `handler` | `pool_awaiter`'s members and its completion handler |
| `Begins`, `Await_transform` | the session's loop up to the next operation; the check that throws in a cancelled session |
| `Arms`, `Registers`, `Decides` | `await_suspend`: `set_canceller`, `Completed`, the exchange that decides |
| `HandlerStores`, `HandlerExchanges`, `HandlerSubmits` | the completion handler; a refusal by the pool is one outcome of the last |
| `PoolCalls`, `Resumes`, `Revokes`, `Finishes` | the pool's callback, `await_resume`, the awaiter's destructor, `final_suspend` |
| `next`, `last`, `Head`, `Listed` | `sessions`, the `std::list`: its nodes' links, the head node, and what a walk from it reaches |
| `ConnectionReceived`, `FindsEnd`, `LinksBack`, `LinksForward` | the listener's callback; `push_back` in the three accesses it makes to the nodes, as nothing locks the list |
| `CancelsStatus`, `Marks`, `CallsCanceller`, `ClearsMark`, `WaitsFor` | main: `Cancel` and `wait_for` |
| `LeavesScope`, `ClosesPool`, `Exits` | main: the list, `~environment`, the end |

Undefined behaviour has the outcomes that a build can produce: racing
`push_back` may lose elements, also while main walks the list; a `push_back` to a list
that is gone reaches nothing; a canceller called for an awaiter that has gone
cancels nothing or what has taken its place, and a destroyed pool runs nothing.

### `WinRTEcho` (`winrt/winrt_client.cpp` with `winrt_server.cpp` or `hard1.cpp`)

Like `CoroutineEcho`, with a client and servers that send on as many bytes as they
read. The code reads with `InputStreamOptions::None`, which takes whole blocks but for the
end of the stream; in the model a read ends with any part of what is there, which
includes that. `Swapped` is the length that the client's buffer has after `swap`. An end of
file reads as no bytes, so that `Loop(0)` writes and reads nothing. `AwaitSessions`
is the client's loop over its list up to the next suspension, and
`SessionCompletes` its resumption. `server` says which of the two programs
listens: only `winrt_server` ends a session by itself, when main cancels it.

### `GeneratorPipeline` (`basics/yield/yield3.cpp`)

`active` is the stage that runs, or main; `resuming` tells whether it is about to
resume the stage before it. `Resume` is `begin()` or `++`, `seq` and `Adapts` the bodies
from a resumption to the next `co_yield` or the end, `Accumulates` main's loop,
`Destroys` the generators' destructors in main's reverse order.

## Runs

| Run | Shows | Bounds |
|---|---|---|
| `classic_server_session` | the safety of a session (accounting, one deletion, buffers, order, nothing lost, nothing launched after an error), that it implements `EchoStream`, that bytes are eventually echoed and failed sessions deleted; also that the invariant used in the proof holds | blocks of 3 bytes, 8 bytes sent |
| `classic_client` | a healthy session is never idle, totals balance and are complete, no shared buffer, sessions quiet at deletion, the timeout ends the program | 2 sessions, blocks of 2, 3 bytes read each |
| `classic_echo` | the block goes round between the two callback programs without gaining or losing a byte, no mutual wait, the client's timeout ends the server's session | block of 7, 2 bytes each way, 5 bytes read on each side |
| `coroutine_echo` | with blocks delivered whole: no mutual wait among sessions that were accepted, frame outlives sessions; stop ends the program, also after failed accepts | 2 sessions, blocks of 2, 3 bytes each way |
| `coroutine_over_echo` | *violated:* with split blocks the server sends more than it was sent | 1 session, 2 bytes each way |
| `coroutine_stop` | *violated:* with split blocks, stop does not end the program | same |
| `asio_awaiters` | one resumer at a time, resumed only with a result (`Resumption`) and then always, the operation's memory back in time, guarded coroutines end with the `io_service` | one coroutine of each kind |
| `asio_dropped_handlers` | *violated:* a handler destroyed uncalled takes its coroutine with it | one session |
| `winrt_server` | one of handler and `await_suspend` resumes, once (`Resumption`), the frame outlives its users, no resumption is lost, a cancelled session ends | 1 session |
| `winrt_shutdown` | *violated:* the pool outlives the sessions | 2 sessions |
| `winrt_echo` | the block goes round whole with split reads, flag and pool outlive the sessions, the timeout ends the program | 2 sessions, blocks of 5, 2 bytes each way |
| `generator_pipeline` | no frame is resumed when running, done or gone; the sum, on demand | limits 0, 1, 3, 10; factors -1, 2; addends 0, 110 |

Why the bounds suffice.

* A callback session has three states and two buffers: a
  held message, a swap, another held message and a short message over older bytes
  happen within three messages; 8 bytes with blocks of 3 allow between three and
  eight of them, and the proofs cover the rest.
* In the client, three bytes give up to three messages per session; sessions
  share only the timer, the totals and the return of `run`, so two suffice to have
  one in any state while the other is in any other.
* `ClassicEcho` takes the largest block that its connection carries round: of a block of
  2 * Capacity + 4 bytes (8 here), each side can hold a message back behind a write with
  both directions full, and nothing moves. `CapacityAssumption` excludes it; a real
  socket's buffers are far larger than the programs' blocks. Five bytes read on each side
  suffice for a message to be held back on both and taken over.
* In `WinRTEcho` the same bound is 2 * Capacity + 1, as a side holds one message
  only; blocks of 5 are the largest for 2 bytes each way. In `CoroutineEcho` the
  counters are bounded by the capacity, so there is no bound on rounds; a
  capacity of 3 with blocks of 2 lets the channels be empty, partly full and
  full with a block in progress. In both, sessions share the flag, the client
  and (`server.cpp`) the acceptor, so two suffice.
* Coroutines of `AsioAwaiters` share the `io_service` and nothing else, so that one of each
  kind meets its end in every state; there is no bound on rounds.
* Sessions of `WinRTServer` share main's list and its walk over it. One session
  meets main at every step in `winrt_server`; a second one adds the race of two
  `push_back`, which `winrt_shutdown` has. With liveness two sessions are
  beyond TLC in the time of a run; the safety properties are proved for any number.

`CHECK_DEADLOCK FALSE` is where the system may really stop: `asio_awaiters` and
`asio_dropped_handlers` (the process ends with the `io_service`), `winrt_server`
and `winrt_shutdown` (main exits). All other runs check deadlock, with a stuttering action
`Over` (`Exited`) for the regular end.

`Gor/README.md` says that a callback session is, until it ends, in one of three
(op, unsend) states. After an error in one operation the other one drains first: after a
failed read in WriteData, op = 1 and unsend = 1. The code is right (that drain is
what makes the deletion safe), and `IInv` says which pairs can occur.

### What the violated runs show

* `coroutine_over_echo`. `server.cpp` ignores what `async_read_some` returns and
  always writes `block_size` bytes. If a block arrives in two parts the server
  replies with two blocks, of which the client wrote one. `hard1.cpp` and the WinRT
  programs write what they read (`winrt_echo`).
* `coroutine_stop`. With the surplus bytes of the previous case both directions
  fill; client and server are then both in `async_write`. The README describes
  a client that closes the sockets; `client.cpp` sets a flag that a suspended
  session does not see, so `run()` does not return. With blocks delivered whole the same
  property holds (`coroutine_echo`).
* `asio_dropped_handlers`. The README says that destroying the handlers destroys the
  coroutines. A `coroutine_handle` in a lambda does not do that: the frame stays
  suspended, and with it its socket. `stop1.cpp` shows the remedy, which
  `GuardedCoroutinesEnd` confirms.
* `winrt_shutdown`. `Cancel` sets the promise's status at once, so that the `wait_for`
  that follows returns at once: main destroys the pool while a session is
  still suspended and about to be submitted to it.

## Fairness

Threads in `io_service::run` execute whatever handler is ready: weak fairness
of each handler. A strand does not change that, since a handler in it ends. A timer
expires. The rest differs by module:

* `ClassicServerSession`: a write that is in the kernel goes on or fails (the peer
  reads, or the connection times out), and once writes have failed a read
  also completes or fails. Nothing makes the peer send, so no fairness of reads
  otherwise, nor of failures.
* `ClassicClient`: an operation on a closed socket completes, with an error (asio
  cancels it). On an open socket nothing is assumed at all: the peer may be
  silent for ever, and `TimeoutEndsProgram` holds nevertheless.
* `CoroutineEcho`: bytes that can move do; a connect succeeds or fails; an
  operation whose peer has closed fails. A live peer's failure is never assumed.
* `ClassicEcho`: handlers run, the timer expires, operations of a closed connection
  complete. An open connection need not carry anything.
* `AsioAwaiters`: besides handlers and timers, a detached thread is scheduled. No
  operation has to end, and no program has to be stopped.
* `WinRTServer`: a thread that runs a coroutine, a completion handler or a work
  item goes on, and the system ends an operation that it was asked to cancel.
  Nobody has to connect, to send or to signal, and main's steps are not fair.
* `WinRTEcho`: the client's timer ticks, pool threads run, bytes that can move
  do, a connect ends, and bytes written to a server that has closed fail in the
  end. A read of its end of file need never fail: the session may go round with
  nothing until it finds the flag raised.
* `GeneratorPipeline`: the one thread goes on while it can.

## Proofs

Each `..._proof` module EXTENDS its component and proves its theorems for every value of
the constants. All are laid out alike: an inductive invariant `IInv`, a conjunction of
named parts; a lemma `...IInv` for each action; `NextIInv`, which puts them together; and
at the end the theorems. TLC checked each `IInv` on the bounds of its component's run before
it was proved (an MC module that EXTENDS the proof module can name it in its cfg;
`classic_server_session` does). `theorems` in `PROJECT.json` lists the results.

| Module | Proved | For |
|---|---|---|
| `ClassicServerSession_proof` | `TypeOK`, accounting and deletion, disjoint buffers, faithful echo, no launch after an error, refinement of `EchoStream`; never stuck, runs down after a failure, no more work than the bytes read pay for | any block size and stream |
| `ClassicClient_proof` | `TypeOK`, never idle, totals balance, the write's buffer, quiet deletion, a deleted session never changes, the printed totals; what keeps `run` going can end, closed sessions run down | any finite set of sessions, block size, stream |
| `ClassicEcho_proof` | refinement of both components, the one block, no mutual wait; the server's session can end and runs down after the client's close | any block below `2 * Capacity + 4` |
| `CoroutineEcho_proof` | `TypeOK`, frame lifetime; with whole blocks no mutual wait, no surplus, and stopped sessions run down | any finite set of sessions, block, capacity |
| `AsioAwaiters_proof` | `TypeOK`, one resumer, storage back in time, guarded coroutines end, refinement of `Resumption`; no result is overlooked, and each is taken | any coroutines of the four kinds |
| `WinRTServer_proof` | `TypeOK`, one resumer, frame lifetime, refinement of `Resumption`; somebody continues, ended operations and cancelled sessions run down; the list has no cycle | any number of connections |
| `WinRTEcho_proof` | the block's conservation, frame lifetime; the client is never stuck, stopped sessions run down | any finite set of sessions, block, connection |
| `GeneratorPipeline_proof` | only usable frames are resumed and in the right order destroyed; the printed sum; the pipeline runs down | any arguments |

The assumptions are those that the modules name: sizes are positive, bounds
natural, sets of sessions finite where the code keeps a list of them
(`SessionsAssumption`), the list's head is no session (`HeadAssumption`), and the block
is not too large for its connection where that matters (`CapacityAssumption`).

None of the safety invariants is inductive alone. What each invariant adds, and why:

* **`ClassicServerSession`.** That a handler may launch two operations without
  disturbing one in progress needs `UnsentTellsState`: the value of `unsent_count`
  decides which operations are outstanding, with an error leaving it one too high or
  too low, so that no handler finds it at 1 again. `PointersFollowOps` ties the
  operations' buffers to the two pointers, from which disjointness follows.
  `BytesInPlace` says which stretch of the stream each buffer holds; it gives the
  value of each byte that `WriteSome` sends, and `NothingLost` the positions in it.
* **`ClassicClient`.** `SessionInv` is about one object and has the server's argument:
  `UnwrittenTellsState`, `PointersFollowOps`, and `Balance` for the totals.
  `UnlaunchedIsFresh` is what the client has in addition, since a timeout or a failed
  connect may come before anything is launched. `ShutdownInv` ties the objects to the timer,
  the list and main: a socket is closed once, and `run` has returned only when
  no session has work; from this `DeletedSessionsAreQuiet` follows.
* **`ClassicEcho`.** `ComponentsRunAsAlone` shows that every step of the composition is a
  step or a stutter of each component, so their invariants hold and are cited from their proofs.
  `ConnectionInv` adds one equation for each direction: what one side has written
  is what the other has read and what is in flight. Together with the client's `Balance` and the
  server's `NothingLost` it gives `OneBlockCirculates`. For `NoMutualWait` the two
  counters say what an idle side waits for (`ClientSide`, `ServerSide`), and a
  block that is nowhere, or is larger than what both sides and a full connection must
  then hold, is the contradiction.
* **`CoroutineEcho`.** While blocks arrive whole there is one block in each connection,
  in one place: `WholeBlockInv` says where for each pair of `co_await`s. With split
  blocks it does not hold, and the two violated runs say what follows; the theorems
  that need it assume `~SplitBlocks`. The frame's lifetime needs only that
  a session has finished or its future is still in the client's list.
* **`AsioAwaiters`.** `HandlerKindInv` and `FutureKindInv` say which of a
  coroutine, its handler, its future and its timer or thread can be where;
  `MemoryInv` and `EndInv` add the allocator and what the end of the `io_service` leaves.
  Coroutines share only the `io_service`, so each lemma looks at one.
* **`WinRTServer`.** `ResumerInv` follows the flag from `set_canceller` to the exchange:
  whoever comes second continues the coroutine. `ResultInv` says that this is after the
  operation's end, `FrameInv` counts the references to the frame, and `ListInv` and `MainInv`
  that main's walk stays among started sessions whatever racing `push_back` do to the links.
* **`WinRTEcho`.** As in `CoroutineEcho`, but replies have the length that was read: the
  bytes in the two sides and in flight add up to the block, with no assumption on how
  they are split.
* **`GeneratorPipeline`.** `FrameInv` describes the stack of active stages: all below
  a stage that is not done are suspended. `ValueInv` says which number is on its
  way up and of how many numbers the total is, by the closed form of their sum; so
  `PrintedSumIsExact` needs no recursion.

Three proofs need more than an invariant of this kind:

* **`PrintedTotalsAreComplete`.** A total is a fold over a set, whose members
  `MapThenSumSet` takes in an order of its own. The induction theorems of the library cannot be
  used, so each fact about sums (that the recursion defines a function, only one, and
  that any member may be taken first) is shown by way of a counterexample with
  no smaller one inside it, which `FS_StrictSubsetOrderingWellFounded` gives. `TotalsInv`
  then says that the totals are those of the sessions deleted so far, and needs
  that no session counts anything once the first is deleted.
* **`RacingPushBacksMakeNoCycle`.** `push_back` reads the end and writes the links in steps
  that others come between. `LinksInv` says what `next` and `last` can point to at each
  stage of a callback. The links need not be in the order of any clock, so the
  argument goes backwards: `BackwardsEnds` says that each set of sessions which have linked
  themselves back has one whose predecessor is outside it.
* **`SessionSpendsWhatItReads`.** `Work` counts four steps for each byte that a session has
  and has not begun to write, and the steps left to its operations. No handler
  launches more than the message in its hands pays for, although it launches
  two operations where one has ended.

### What liveness rests on

Fairness is out of the prover's reach, but all else that the liveness properties
need is an invariant or an action property, and these are proved. For each there is
an invariant that what must still happen has a step that `Fairness` speaks of, and
a number that every step lowers, whichever comes, and that only steps change:

| Liveness property (TLC) | Something can move | Every step runs down |
|---|---|---|
| `EveryByteEchoed`, `FailedSessionDeleted` | `SessionIsNeverStuck` | `SessionSpendsWhatItReads`, `FailedSessionRunsDown` |
| `TimeoutEndsProgram` | `OutstandingWorkCanEnd` | `ClosedSessionsRunDown` |
| `TimeoutEndsServerSession` | `ServerIsNeverLeftBehind` | `ClosedClientRunsServerDown` |
| `StopEndsProgram` of `WinRTEcho` | `ClientIsNeverStuck` | `StoppedSessionsRunDown` |
| `StopEndsProgram` of `CoroutineEcho` (whole blocks) | `WholeBlocksNeverWait` | `StoppedSessionsRunDown` |
| `NoLostWakeup` | `NoResultIsOverlooked` | `ResultsAreTaken` |
| `NoLostResumption` | `SuspendedSessionsAreContinued` | `EndedOperationsResume` |
| `CancelledSessionEnds` | `SuspendedSessionsAreContinued` | `CancelledSessionsRunDown` |
| `PipelineComputesSum` | one thread, no wait | `PipelineRunsDown`, `PrintedSumIsExact` |

The numbers are in the modules as `Left`, `WakeLeft`, `Work` and `ServerLeft`. What stays unproved is
the step from these facts to `~>`: that a fair action with a step is taken (its ENABLED),
and that a number cannot fall for ever. In `CoroutineEcho` split blocks break the
left-hand fact and the property with it (`coroutine_stop`).

Writing the proofs changed these models. main's list in `WinRTServer` was a
sequence under an index, which with three sessions could point past its end when a
racing `push_back` shortened it under main's walk: it is now the linked list that
the code has. `WinRTEcho`, `CoroutineEcho` and `ClassicClient` assume a finite set of
sessions, `ClassicEcho` the sizes its components assume.

## Only model-checked

* The liveness properties: `EveryByteEchoed`, `FailedSessionDeleted`, `TimeoutEndsProgram`,
  `TimeoutEndsServerSession`, both `StopEndsProgram`, `NoLostWakeup`, `NoLostResumption`,
  `CancelledSessionEnds`, `PipelineComputesSum`. Fairness and ENABLED are out of the
  prover's reach; what they rest on otherwise is proved (see above).
* That `Expected`, the fold in `PipelineComputesSum`, is the closed form of
  `PrintedSumIsExact`. TLC finds the total equal to both.

## Not modelled

* Command lines, output, and the loops that create threads (actions of
  several sessions interleave, which is what several threads do).
* The values of the totals: `size_t` or 32-bit sums that are only printed. They wrap
  in a long run.
* Accept loops beyond one accept for each connection. An accept that fails at once
  every time makes the callback server allocate and delete sessions without end.
* `easy.cpp` and `hard2.cpp`: `hard1.cpp`'s session over the future awaiter and
  with a coroutine for the acceptor. `first.cpp`, `over1.cpp`, `over2.cpp`: one timer
  or one post. `basics/await`, `yield1`, `yield2`: one thread, one coroutine, one
  behaviour. (In `await1.cpp` an owner that is assigned to loses the handle it
  had; the sample never does that.)
* Allocations that overlap. `handler_allocator` serves an asio that asks handlers for
  `get_allocator`; 1.10.8, which `Gor/CMakeLists.txt` fetches, has other hooks and never
  does, so that its operations use asio's own memory. `Lends` and `Frees` are for the
  newer asio that `find_path` may find. No program gives one allocator two operations
  at a time, so `allocate` never meets `in_use_` true in the model either: what
  `StorageReturnedInTime` covers is that the block comes back, for each part of a
  composed write and from where it was taken.
* Exceptions outside a session's `try`: the buffers of `client.cpp:61-63`, and
  `socket.close()` at `client.cpp:93` and `socket.Close()` in the WinRT sessions. In
  `client.cpp` such a session's future throws in the loop over the futures, and the client
  ends early; the models' sessions always end with a value, and a WinRT session
  that closes has the status `completed` unless it was cancelled.
* Of `AsioAwaiters`' code: the overflow check of `SimpleAllocator::allocate`;
  `Callback`'s copy constructor, which asio does not call for a handler that can be moved
  (a copy would resume twice); a polling timer that is cancelled, which no program does.
* `winrt_simple_client.cpp` and `winrt_simple_server.cpp`: the texts of the other two
  without the pool.
* `winrt/projection/winrt` is generated vendor code, 74,000 of the repository's
  78,000 lines: declarations and forwarding calls without state of their own. What
  the programs' coroutines run on is modelled in `WinRTServer` (`promise_base`,
  `await_adapter`, `cancellable_promise`, `cancellable_awaiter`), and nothing
  else, so that the map's share of all lines stays small whatever is modelled.

What the models have and no property asks, because nothing in the code repairs it:

* A pool that refuses a work item leaves its coroutine suspended
  (`threadpool_winrt.h:126`). `NoLostResumption` names the case as its exception.
* A session that racing `push_back`s lose is not in main's list any more, and nothing
  cancels it (`winrt_server.cpp:114`). `PoolOutlivesSessions` speaks of the sessions that
  the list has; `FrameOutlivesUsers` and `RacingPushBacksMakeNoCycle` say that a lost one keeps
  its frame and that main's walk ends.
* A cancellation that comes after `await_transform` has looked at the status and
  before the canceller is set reaches no operation: the session stays in its read
  until the peer sends. `CancelledSessionEnds` speaks of a cancellation that did.
* `revoke_canceller` takes the mark of a running `cancel()` out of the slot as
  it looks at it, so that its second look lets the awaiter go while the canceller may
  still use it.
