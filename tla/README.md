# Verification of occams-rpc

TLA+ models of the RPC framework in `src/`, checked with TLC on small instances,
and theorems about them checked with TLAPS for all instances. Every definition
is translated from the Rust source; `PROJECT.json` maps each one to its lines.

## The system

occams-rpc multiplexes remote calls over one connection. Each request carries a
sequence number, responses come back in any order, and timeouts are handled in
batches once a second.

| part | source | state | operations |
| --- | --- | --- | --- |
| ClientStream | `stream/src/client/stream.rs` | `closed`, `has_err`, `seq`, close channel | `send_task`, `flush_req`, `ping`, `set_error_and_exit`, drop; the coroutine `receive_loop` |
| ClientTaskTimer | `stream/src/client/timer.rs` | registration channel and its counter, tasks by second, `min_delay_seq`, `processed_seq`, `reg_stopped_flag` | `reg_task`, `stop_reg_task`, `poll_sent_task`, `take_task`, `adjust_task_queue`, `clean_pending_tasks` |
| Throttler | `stream/src/client/throttler.rs` | a wait group | `nearly_full`, `add_task`, `throttle` |
| TCP client transport | `transport/tcp/src/client.rs` | buffered socket | `connect`, `write_req`, `flush_req`, `read_resp`, `close_conn` |
| Buffered I/O | `core/src/io/` | read and write buffers | `read_exact`, `read_at_least`, `write_all`, `flush`, `Cancellable`, `io_with_timeout!` |
| ClientPool | `stream/src/client/pool.rs` | task channel, `is_ok`, two worker counters | `send_req`, `spawn`, workers and monitor, `cleanup` |
| FailoverPool | `stream/src/client/failover.rs` | versioned list of pools, retry channel, round-robin counter | `send_req`, `update_addrs`, `select`, `error_handle`, `retry_worker` |
| RpcServer | `stream/src/server/` | listeners, close channel, a reader and a writer per connection, response channel | `listen`, `server_conn`, dispatch, `close` |
| TCP server transport | `transport/tcp/src/server.rs` | buffered socket | `read_req`, `write_resp`, `flush_resp`, `close_conn` |
| Wire headers, errors | `stream/src/proto.rs`, `core/src/error.rs` | none | encode, decode |
| GracefulServer | `core/src/graceful.rs` | inherited descriptors, pid and start-up files | `new_listener`, `ready`, `restart` |
| API layer | `src/client/`, `src/server/` | none of its own | call, service dispatch |
| Macros | `macros/`, `stream/macros/` | none | the code of tasks, enums, clients, services and muxes |
| Codecs, runtimes, sockets | `codec/`, `runtime/`, `transport/tcp/src/net.rs` | none | wrappers |

**Interactions.** A user's coroutine calls `ClientStream`; the receiver coroutine
of the same connection runs on another thread. They share the timer, two flags,
the close channel and the wait group, with atomics and no lock. Pools own
streams and feed them from a shared channel; the failover pool moves a failed
task to another pool through `error_handle`. On the server a reader hands
requests to handlers, and a writer collects their results. The bytes of both
directions pass through `AsyncBufStream`. Around the server, `GracefulServer`
passes listening sockets from one process to the next.

**What makes it hard.** The response of a task can arrive before the task is
registered, late, doubled, or for a ping that was never registered. The receiver
may leave only when no task can still be on its way to it. Writes fail half way.
Drop, `set_error_and_exit` and the receiver's own errors race with the sender.
Workers of a pool come and go and hand the monitor's role on. Address lists are
replaced while retries work on the old one. A server closes while handlers run.
Processes crash between two steps of a restart. `PROJECT.json` lists the hazards
with their lines.

## Modules

| module | models |
| --- | --- |
| `ClientTaskTimer` | the methods of the timer, as operators on its variables |
| `ClientStream` | sender, receiver, throttler, transport and peer of one connection |
| `RpcCalls` | the abstract contract of a connection towards its callers |
| `ClientStreamDocs` | what a test says of drop and the code does not keep |
| `ClientPool` | callers, monitor, workers and channel of a pool, over streams that keep their contract |
| `PoolCalls` | the abstract contract of a pool towards its callers |
| `FailoverPool` | callers, `update_addrs`, retry worker and drop, over pools that keep `PoolCalls` |
| `RpcServer` | listener, readers, writers, handlers and `close` |
| `BufIO` | both ends of a buffered byte stream over a socket |
| `CallPath`, `MCCallPath` | a call from the caller's request to its result, through heads, bodies, dispatch and error codecs; programs for it |
| `TaskEnums` | what the macros of the stream layer accept and generate |
| `ApiDispatch` | what the macros of the API layer and the muxes accept and do |
| `MCDecls` | declarations for both |
| `MCCalls` | a call in one of `CallPath`, `TaskEnums` and `ApiDispatch` |
| `ApiDispatchDocs` | what the documents say of the mux struct and the code does not do |
| `Graceful` | generations of a server process |
| `ClientStream_proofs`, `ClientStreamCalls_proofs`, `ClientStreamPromises_proofs` | proofs about a connection: types and order; where a call is, timeouts; the contract, window and exit |
| `ClientPool_proofs`, `FailoverPool_proofs` | proofs about pools and failover |
| `RpcServer_proofs`, `BufIO_proofs`, `Graceful_proofs` | proofs about the server, the buffered stream and restarts |

The components are composed through their contracts. `ClientStream` is checked
against `RpcCalls`; `ClientPool` uses a stream by that contract and is checked
against `PoolCalls`; `FailoverPool` uses pools by that contract.

### ClientStream and ClientTaskTimer

The sender is a program counter `spc`: `check` is between the increment of
`pending_task_count` and the read of `closed`, `write` is in `write_req`, `reg`
in `reg_task`, `throttle` in `throttle`; `encode_err`, `write_err` and
`flush_err` lie between the stores of `closed` and `has_err`, `rollback` after
both; `erring` is inside `set_error_and_exit`; `drop_reg`, `drop_closed` and
`gone` follow `Drop`. The receiver is `rpc` plus `polling`, which tells whether
`ReceiverTimerFuture::poll` is running: `headC` and `headT` read a header with the
close channel and with a timeout, `wait` is in `WaitRegTaskFuture`, `take` looks
the task up, `body` reads or dumps the rest, `err` and `clean` are the error
branch of `receive_loop`, `exited` and `freed` the end.

A step is a piece of one coroutine. Two accesses to shared state are in one step
only where the other coroutine cannot see their order: the drain of the channel,
whose items arrive in order; `Rollback`, whose counter, flag and task the receiver
reads in branches it does not take once `has_err` is set; and `closed` with the
first clean-up in `RecvLoopErr`, since a task that passed its check earlier is
still counted.

The data is reduced to what the receiver tells apart. A task is its sequence
number; a response is a number and a kind (empty, with a message, not decodable,
with an unwanted blob, numeric error, string error). A header can be split in
two (`half`), and dropping half a header sets `desync`. Time is the one-second
tick. `age`, `dones`, `result`, `lost` and `unencoded` are history. The peer and
the network are external: the peer answers what has arrived, in any order, up
to `MaxReplies` times; `LinkDown` ends the connection after some prefix of what
was sent. A task refused in `RefuseTask` has no number yet. It fails with IO at
once and does not appear in the table.

### ClientPool and FailoverPool

A coroutine of a pool is a slot with a program counter, `worker_id`, the task in
its hands and the state of its connection. `Monitor`, `PingOk`, `PingErr`,
`RecvTimeout`, `RecvDisconnected`, `RecvTask` and `Promote` are the branches of
`run`; `WorkerRecv`, `Drained`, `FlushOk`, `FlushErr` and `WorkerDisconnected` those
of `_run_worker`; `Cleanup` ends one task of the channel. A connection is
`stream[w]`, which may die at any time; the receiver of a stream that died or was
dropped still ends its tasks, or loses one whose response it has half read
(`TaskEnds`). Sleeps only delay and are left out.

In `FailoverPool` the clusters ever made are kept by version, so that a caller or
the retry worker can go on with one that was replaced. `update_addrs` is three
steps: pools are made or kept, a version is taken, the cluster is stored.
`select` is `HealthyFrom` with `FreshSeed` or `NextSeed` for the place it starts
from. Waiting for room in the selected pool's channel is a step of its own. A task in
a pool is done, comes back with an error, or is lost (`TaskLost`), as `PoolCalls` allows.

### RpcServer

Per connection there is a reader (`head`, `body`, `dispatch`, `quick`), a writer
(`recv`, `drain`, `flush`, `close`), the channel between them and the responses
that are written but not flushed. A request is idle, on the wire, with the reader,
with a handler, answered or dropped. The socket closes when both coroutines
have left. `AliveConn` is the count of references that `close` looks at. A reader
with data at hand does not look at the close channel, as in `Cancellable`; one
without sees that `close` has dropped its sender (`CloseSeen`). The idle timer may
fire whenever a reader waits. A handler that fails may keep its task and answer it
besides the quick response of the reader (`DispatchErr`), so a request can be
answered twice. After the abort the listener may still accept once, if its poll was
under way.

### BufIO

The bytes are numbered. `write_all` goes through `WriteLoop`, `FlushWrite`,
`Copy` and `DirectWrite`, as in `write_buffered`; the socket takes and gives as
few bytes as it likes; a write may fail or time out at any await, once, and
flush may be called again after that. `read_exact` and `read_at_least` read from
the buffer, refill it, or read around it.

### CallPath

Each direction of the connection is a sequence of cells: a head is one cell, and
action strings, messages, blobs and error strings are tokens. The lengths in the
heads say how much a reader takes, so a wrong length puts it out of step, and a
token in the place of a head fails the test of the magic number. Numbers are
u32 of `W` bits. The codec is modelled by whether it encodes, what it has written
when it fails, and whether the type that is read is the one that was written.
Numeric errors have a width and may have a sign; their bound is `$t::max as u32`, an
address, and any of a set of values. Programs give the services or task enum, the requests of the callers and
the outcomes of the handlers.

### TaskEnums, ApiDispatch

What a macro accepts is a predicate on the declaration (`ClientTaskOk`,
`ClientEnumOk`, `ServerEnumOk`, `EndpointOk`, `ServiceOk`), and what it generates is a
function of it. A call then runs through the generated code: `get_action`,
`decode_req` with its match arms, `set_result` and `From`; or the client's
method, `serve` of a service or of a mux, and the handler. Token handling and
paths of types are left out.

### Graceful

A process opens its listeners in order, taking the fd its parent left at that
place or binding, writes its pid file and says that it is up. A restart spawns a
successor with the fds of its listeners, and waits for its file, its end or the
timeout. A process may crash between any two steps. `faults`, chosen at the
start, says what else may fail, the wait for the successor included; with `"skip"` the
program goes on without a listener it could not open. The processes are one lineage:
a second instance is started only when none is left.

## Runs

| run | instance | checks |
| --- | --- | --- |
| `stream_normal` | 3 tasks, split headers, no I/O errors | types, no live task below the late mark, exact timeouts, window exact and flushed when throttled, live responses kept |
| `stream_faults` | 2 tasks or pings, every error path | every task in one place, exact counter, nobody stranded, losses only on errors |
| `stream_calls` | 2 tasks or pings, 2 replies each, fair | implements `RpcCalls`; every task finishes; drop releases the receiver |
| `pool` | 2 tasks, 2 coroutines, a server that goes down once, fair | one monitor, implements `PoolCalls`; every task ends or is lost with its connection; drop ends the workers |
| `failover_updates` | 1 task, 2 addresses, 2 concurrent updates, fair | index and version name the pool; every task is done unless a pool loses it; drop ends the retry worker |
| `failover_retries` | 2 tasks, 3 addresses, 2 pools that fail | sends bounded, round robin balanced, retries move on |
| `server` | 1 connection, 2 requests in flight, fair | flushed before waiting, no response lost, quiet after close; connections are released; close completes |
| `buf_stream` | buffers of 3 and 2, chunks up to 4, 5 bytes, fair | no byte skipped, conserved without failures; everything arrives |
| `calls` | 5 programs, 3 calls or pings each; all pairs of small declarations | each caller gets its own outcome, requests go where they are addressed, readers stay in step, an Ok is always the handler's; a task call keeps its action and its variants; an API call is served by the exposed method it names, alike by both muxes |
| `graceful` | a TCP address and a path, 4 processes, 4 sets of faults, fair | listeners match addresses, paths stay reachable, parents hand over; successors come up |
| `doc_drop_race` | 2 tasks | refuted: drop keeps the responses of registered tasks (`test_client_drop.rs:66`) |
| `doc_mux_fields` | small declarations | refuted: a mux struct goes by the names of its fields (`api_design.md:165`, `macros/src/lib.rs:108`) |

`doc_drop_race` states what a test says. TLC's counterexample: a task is in the
registration channel, its response has arrived, and drop sets
`reg_stopped_flag`; `WaitRegTaskFuture::poll` looks at the flag before it drains
the channel (`timer.rs:244`), so the response is dumped and the task later fails
with Timeout or IO. `doc_mux_fields` states what the documents of
`#[service_mux_struct]` say. The generated match compares with `SERVICE_NAME`
(`service_mux_struct.rs:16`), so a request is refused although a field has the name.

**What the properties leave out.** Some hold only under a condition, which is part
of the statement.

- `DropEndsWorkers`: the server does not stay unreachable.
- `EveryTaskEnds`, `EveryTaskDone`: a task may be lost, when its request does not encode
  or when its response was half read as the connection failed. The code tells nobody.
- `DropEndsRetryWorker`: the pools come to leave (`PoolsLeave`). A pool whose server
  refuses connections does not, and keeps the retry worker.
- `CloseCompletes`: the clients stop sending.
- `NoneSkipped`: bytes may be sent again after a flush that failed half way.
- `ResultIsOutcome`, `Routed`, `NoDesync`: the program is `Sound`, that is no
  action number is negative, no blob is longer than an i32 says, and no response
  fails to encode after it has written something. `OkIsOutcome` needs none of this.
- `ServedByName`: of two services with one name either may serve; the two kinds of mux
  choose differently. With one service of the name they answer alike.
- `ListenerMatches`: a listener that cannot be opened ends the program.
- `Reachable`, the second part of `HandedOver`: in addition successors can use the fds they are given,
  and nobody starts a second instance beside a live one.
- `RestartServes`: at most the start-up file cannot be written.
- `RoundRobinBalanced`: first selections in the first cluster, while its pools are
  healthy.
- `DropReleasesReceiver` is checked with requests that encode (`EncodeFails =
  FALSE`); a request that does not encode leaves the counter up, which
  `PendingCountExact` states.

**Bounds.** `Thresholds = 1` makes the window close on the second task, so the
throttler, the forced flush and a channel of two places are all exercised.
`TaskTimeout = 1` gives one batch of a past second besides the current one, and
three numbers put a task in each of the batch, the current second and the
channel at once, which is where their order matters. `ReadTimeout = 1` lets a
read time out before, with or after a task. Two replies with different outcomes
suffice for a doubled and a late answer. Two coroutines are a monitor and a
worker; the hand-over of the role, a spawn at the limit and a cleanup beside a
live worker need no more. Three pools with two failures leave a choice at every
retry; `MaxUpdates = 2` with two callers stores versions in either order. The two
failover runs share the work because retries among failing pools and concurrent
updates together grow beyond what TLC does in minutes. Two requests are one
with the reader and one with a handler, in the channel or in the buffer; a failing
handler answers twice only while at most `MaxBacklog = 1` responses wait, which bounds the
channel. One connection is
enough for all but `QuietAfterClose`, where the listener is the second thing that
is counted; the theorem `Quiet` covers any number. The buffers of 3 and 2 bytes
meet chunks that are smaller, equal and larger. `W = 3` bits give heads room for
the lengths that occur and for one that overflows. Four processes are two
restarts after a crash, and eight sockets are as many as they can bind. Deadlock is not checked: each system may stop once it has
been dropped or closed, or its bound is used up.

**Fairness.** The executor polls a coroutine that can go on: weak fairness of the
steps of senders, receivers, workers, retry worker, readers, writers and of a
starting process. The idle timer of a server's reader has no fairness. The ticker fires each second as long as the receiver keeps
suspending (strong fairness of `TimeReach`, which is disabled during each poll);
this rests on runtimes that make a coroutine yield after some work, since one
poll reads for as long as responses are at hand. A stream ends the tasks it was
given, which `stream_calls` shows. Handlers answer or drop their task. In `BufIO`
a writer that goes on flushes in the end and a reader goes on reading, as
the transports do. Nothing is assumed of peers, servers and the network, nor of users,
except that they start a server again only when none of its processes is left.
Conditions on servers and clients are part of the properties that need them.

## Theorems

TLAPS proves them for every value of the constants that satisfies the named
assumptions. None of them assumes fairness.

**Connection** (`TimerAssumption`, `StreamAssumption`: positive bound on numbers and
threshold, natural timeouts, Boolean switches, known kinds).

- `TypeCorrect`: `TypeOK` is inductive as stated. The one delicate part is the
  length of `delay_tasks_queue`, which grows by a batch and loses one each tick.
- `OrderCorrect`, `LiveAboveMinDelayCorrect`, `LiveResponseKeptCorrect`: that no
  live task is below `min_delay_seq` is not inductive. A tick raises the mark to
  the smallest number of the oldest batch, which is harmless because every
  other task is younger and therefore has a larger number. `OrderInv` states that
  order (`TableOrdered`) for the channel, the current second and the batches, and that
  a reader in `take` has `resp.seq <= processed_seq`. Each operation keeps it
  (`DrainOrder`, `PollOrder`, `CleanOrder`, `AdjustOrder`, `RemoveOrder`). The action
  property follows: a response in `take` with no task in the table cannot belong
  to a task in the channel or at the sender, whose numbers are larger.
- `ConservationCorrect`, `LostOnlyOnErrorCorrect`: the counts in `TaskConservation` follow
  from where the calls are. `PlaceInv` says that the calls that wait (at the sender, in
  the channel, in the table), the one the reader has taken, those dropped and those handed
  back are disjoint and together all that were issued; `ReaderInv` that the reader has at most
  the call of its response, and leaves one unfinished only once `has_err` is set. Both need
  `OrderInv`: the order of the numbers keeps channel, current second and batches apart.
- `TimeoutCorrect`: `AgeInv` ties the ticks a task has waited to the batch it is in, so that
  the batch the ticker throws out is exactly the tasks of age `TaskTimeout + 1`.
- `RpcCallsKept`: the connection implements `RpcCalls`. The state of a call is read off its
  places, so `PlaceInv` makes the mapping a function; `AnswerInv` says that what is on the
  wire, and what the reader has in hand, the peer really answered to that call. `RefineStep`
  takes each action to a step of the contract or to a stutter.
- `WindowCorrect`: `WindowInv` counts the guards of the throttler by the places of the calls,
  and adds what holds between the check of the window in `send_task` and `throttle()`: the
  call that fills the window is sent with a flush.
- `ExitCorrect`, `CountCorrect`: `pending_task_count` equals the tasks between the increment
  and the drain, plus those that did not encode (`ExitInv`). The receiver leaves on a counter
  that is not positive, so channel and sender are empty, and `closed`, which is never reset,
  keeps later tasks out.

**Pool** (`PoolAssumption`: at least one slot for coroutines, natural bounds, Boolean
switches).

- `OneMonitorCorrect`: `RoleInv` says that `worker_count` is the number of live coroutines,
  that two of them with number 0 are the same, and that without a monitor on its way the
  channel is closed and empty. `spawn` names a worker by that count, so it must be exact:
  a count of 0 beside a live coroutine would make a second monitor. A monitor that is alone
  hands number 0 to the coroutine it spawns in the same step.
- `PoolCallsKept`: the pool implements `PoolCalls`. `TaskInv` says that a task that has not
  ended is in one place, once: in the channel, in the hands of one coroutine, or on a
  connection.

**Failover** (`FailoverAssumption`: natural bounds, room in the pools).

- `Bounded`: a task is sent at most `RetryLimit + 1` times. `RetryInv` relates `sends`
  to `retry` by the place the task is in. It needs that a task in the retry channel
  is there once and nowhere else, and that the retry worker has its task for
  itself; otherwise the same failure could be counted once and sent twice.
- `IndexNamed`, `MovesOnCorrect`: `ClusterInv` says that a stored cluster never changes and
  that an update has its version for itself between drawing and storing it, also when
  updates overtake each other; `NameInv` that index and version of a task name the pool it
  was given to. A retry that starts one after that index meets the failed pool last.
- `BalancedCorrect`: `BalanceInv` gives the number of first selections of each pool as a
  function of `rr_counter`; the rest is arithmetic with `\div` and `%`.

**Server** (`ServerAssumption`: the set of connections is finite).

- `Flushed`, `NothingLost`: that a writer leaves nothing behind is not inductive,
  because a reader or handler that is still there could answer after it.
  `ConnInv` adds that a request with the reader is the one it has in hand, that an
  error takes the writer away, and that a writer that closes without one is alone:
  channel and buffer are empty, and neither reader nor handler is left.
  `ReaderKeeps`, `WriterKeeps`, `LinksKeep` and `HandlersKeep` take the actions in turn.
- `Quiet`: a count of zero means that the listener and all coroutines of all
  connections are gone (`NothingCounted`, where finiteness is used). `QuietInv` adds that
  the listener stops listening before the first count, so that nothing is accepted later.

**Buffered stream** (`BufAssumption`: positive sizes of the buffers and of the socket, natural
bounds).

- `ConservedCorrect`, `NoneSkippedCorrect`: bytes are numbered as they are handed over. Before a
  failure (`Unbroken`) what was read, what is in the read buffer, the socket, the rest of the
  write buffer and the argument are one run without gaps. After one (`Broken`) the write
  buffer still holds a run that begins no later than after the last byte that arrived, so a
  second flush repeats bytes and skips none.

**Restart** (`GracefulAssumption`: natural bounds, paths among the addresses, known faults).

- `ListenersMatch`: `OrderInv` says that the fds a process has are those of the first
  addresses and the fds it is still to recover those of the next ones, in order. `Recover`
  does not look at the address of an fd, so the order is all there is.
- `PathsReachable`: `ServeInv` says that a live process has open what it got and what it is to
  recover, and that their paths lead there. A path is removed by `bind`; the invariant adds
  that a process with addresses left to bind is the only one alive, so no path of another is
  taken from it.
- `HandOverCorrect`: `FamilyInv` says that a process that waits has a child, that a parent has
  its listeners for good, and that a live child has all of them open.

The strengthened invariants were model-checked on the runs' instances as well.

**Only model-checked.** `DropReleasesReceiver`, `EveryTaskFinishes`, `EveryTaskEnds`,
`DropEndsWorkers`, `EveryTaskDone`, `DropEndsRetryWorker`, `ConnReleased`, `CloseCompletes`,
`AllArrives` and `RestartServes` are liveness, which is out of the prover's reach. The
properties of `calls` (`ResultIsOutcome`, `Routed`, `NoDesync`, `OkIsOutcome`,
`ServedByName`, `CallKept`) are about what chosen programs and declarations encode, decode and
dispatch to. They are checked on those programs; for all programs they are statements about
data rather than about interleavings, and no proof has been attempted.

## Where comments and code disagree

`doc_drop_race` and `doc_mux_fields` are runs. The following were met while modelling; the models do what
the code does.

- `timer.rs:144` says the response of a ping does not reach `take_task`; it does
  (`timer.rs:148`), and those behind it wait until another task is registered.
- `stream.rs:35-36` says that after drop the receiver waits for all tasks. The read
  timeout (`tcp/src/client.rs:312`) ends it earlier if it is shorter than
  `task_timeout`, and so does a header that drop cancels half read (`client.rs:297`).
- `stream.rs:88` says `ping` is skipped when the throttler is full; it is sent
  (`stream.rs:328`).
- `stream.rs:420-422` spins until `pending_task_count` is zero and expects that soon; an
  encode error leaves it raised (`stream.rs:285`), and the receiver never exits.
- `stream.rs:345` wants a poll to return after 20 responses so that the timer can fire; `recv_one_resp` returns only with an
  error (`stream.rs:362`), so the limit is not reached.
- `pool.rs:21-22`: with an unreachable server a worker stays until the pool is dropped; it
  stays after that too, as long as it cannot connect (`pool.rs:289`).
- `pool.rs:53` describes `is_ok` as whether the connection is healthy; once cleared it is
  never set again (`pool.rs:175`).
- `pool.rs:57` counts the workers that are connected; the counter is raised on exit as
  well (`pool.rs:210`).
- `pool.rs:226` and `283` clean the channel up only when one worker is left; a worker that
  fails to connect does so while others are connected (`pool.rs:292`).
- `server.rs:227` tells all readers to exit; that of a busy client does not notice,
  because the socket is polled first (`tcp/src/server.rs:95`, `io/mod.rs:40`).
- `buf_io.rs:175` flushes the buffer; after a failure half way the next flush sends the
  first bytes again (`buf_io.rs:179`).
- `proto.rs:239` gives the length of the error string that follows the head; if the
  message failed half way its bytes come first (`proto.rs:322`).
- `proto.rs:98-100`: an action is a number or a string; a negative number sets the bit
  that marks a string (`proto.rs:156`).
- `error.rs:99-101` offers i8 to u32 as error types; decode compares a number with
  `$t::max as u32`, the address of a function (`error.rs:208`), so that what is refused
  depends on the build.
- `stream/macros/src/lib.rs:130-131` and `docs/stream_client_macros.md:13`: one action per
  client variant; behind a path further ones are ignored, not refused
  (`client_task_enum.rs:23`).
- `graceful.rs:142`: listeners are passed in order; one that failed shifts those of the
  next generation (`graceful.rs:149`).
- `graceful.rs:128`: the parent goes on serving when a restart fails; a successor that
  bound a path itself has removed the parent's (`net.rs:135`).
- `buffer.rs:30`: `reserve` makes room for `size` bytes; for `Vec` the
  growth is computed from the capacity and counted from the length (`buffer.rs:37`).

## Not modelled

- **Configuration, runtime interface and adapters**: plain data, traits and wrappers
  without state; their values are the constants. Coroutines are fair steps.
- **QUIC and RDMA transports**: empty crates.
- **Codecs**: the format is that of rmp-serde; only success, failure and what a
  failure leaves behind are modelled.
- **Addresses and sockets**: parsing and pass-through calls; `bind`, taking over an fd and
  removing a path are in `Graceful`.
- **`AllocateBuf`**: only whether a blob has room (`CallPath`).
- **Single polls** of the receive loop: responses at hand are separate steps, and
  ticks come between them.
- **Token handling of the macros**, generics and type paths.
- **Sequence numbers that wrap**: they are 64-bit and start at 1.
- **Panics and memory orderings**: the atomics are sequentially consistent in the
  models. In the code the stores of the flags and all updates of `pending_task_count` are
  `SeqCst`; some loads, of `closed` among them, are `Acquire` or `Relaxed`.
- **Faults and updates at once in a failover pool**: each has a run of its own, since
  together they exceed what TLC does in minutes. The theorems
  cover both.
