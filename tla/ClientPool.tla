----------------------------- MODULE ClientPool -----------------------------
(***************************************************************************)
(* The connection pool to one server address (stream/src/client/pool.rs):   *)
(* the callers of send_req and spawn, the worker coroutines, of which the   *)
(* one with id 0 is the monitor, and the bounded channel between them.      *)
(*                                                                         *)
(* Each worker owns a ClientStream, used here by what ClientStream.tla      *)
(* shows of it: a task it accepts ends once, send_task on a broken          *)
(* connection hands the task back with IO and fails, and a stream that is   *)
(* dropped still lets go of the tasks it holds.  Sleeps are left out: they  *)
(* only delay the next step.                                                *)
(***************************************************************************)
EXTENDS Integers, Sequences, FiniteSets

CONSTANTS
  Tasks,         \* the tasks the callers send
  MaxWorkers,    \* bound: the coroutines there may be at a time
  Thresholds,    \* ClientConfig.thresholds
  ChannelSize,   \* the channel_size given to new
  MaxDowns,      \* bound: how often the server becomes unreachable
  MaySpawn,      \* whether the callers use spawn
  EncodeFails    \* whether the codec may refuse a request

ASSUME PoolAssumption ==
  /\ MaxWorkers \in Nat \ {0}
  /\ Thresholds \in Nat /\ ChannelSize \in Nat /\ MaxDowns \in Nat
  /\ MaySpawn \in BOOLEAN /\ EncodeFails \in BOOLEAN

Slots == 1 .. MaxWorkers

Default == 128

\* The capacity new gives the channel.
ChannelCap ==
  IF Thresholds > 0
  THEN IF ChannelSize < Thresholds THEN Thresholds ELSE ChannelSize
  ELSE IF ChannelSize = 0 THEN Default ELSE ChannelSize

\* The limit of in-flight tasks a stream is given.
StreamLimit == IF Thresholds = 0 THEN Default ELSE Thresholds

NoTask == "no task"
NoSlot == 0      \* the task is on no connection
Orphan == -1     \* the task is on a connection its worker has dropped

VARIABLES
  open,                    \* a ClientPool handle is left, so the channel has a sender
  chan,                    \* the tasks in the channel
  is_ok, worker_count, connected_worker_count,   \* the atomics of ClientPoolInner
  pc, id, held, stream,    \* of each coroutine: where it is, worker_id, the task
                           \* in its hands, and the state of its connection
  conn,                    \* the slot whose connection holds the task
  result,                  \* "new", "open", or what the task ended with
  server, downs            \* "up" or "down", and how often it went down

workerVars == <<pc, id, held, stream>>
taskVars == <<chan, conn, result>>
countVars == <<worker_count, connected_worker_count>>
serverVars == <<server, downs>>
vars == <<open, is_ok, workerVars, taskVars, countVars, serverVars>>

Ends == {"Ok", "Timeout", "IO", "Unreachable"}

Live(w) == pc[w] # "free"
Inflight(w) == {t \in Tasks : conn[t] = w}

-----------------------------------------------------------------------------
(***************************************************************************)
(* The callers.                                                             *)
(***************************************************************************)
\* new, with the monitor it spawns.
Init ==
  /\ open = TRUE /\ chan = <<>> /\ is_ok = TRUE
  /\ worker_count = 1 /\ connected_worker_count = 0
  /\ pc = [w \in Slots |-> IF w = 1 THEN "connect" ELSE "free"]
  /\ id = [w \in Slots |-> 0]
  /\ held = [w \in Slots |-> NoTask]
  /\ stream = [w \in Slots |-> "none"]
  /\ conn = [t \in Tasks |-> NoSlot]
  /\ result = [t \in Tasks |-> "new"]
  /\ server = "up" /\ downs = 0

\* send_req and send_req_blocking: they wait while the channel is full.
SendReq(t) ==
  /\ open /\ result[t] = "new" /\ Len(chan) < ChannelCap
  /\ chan' = Append(chan, t)
  /\ result' = [result EXCEPT ![t] = "open"]
  /\ UNCHANGED <<open, is_ok, workerVars, conn, countVars, serverVars>>

\* A slot for the coroutine that spawn_worker starts.
NextSlot(w) == ~Live(w) /\ \A v \in Slots : v < w => Live(v)

\* Mutant: spawn takes the number of connected workers for an id.
SpawnConnected ==
  /\ MaySpawn /\ open
  /\ \E w \in Slots :
       /\ NextSlot(w)
       /\ pc' = [pc EXCEPT ![w] = "connect"]
       /\ id' = [id EXCEPT ![w] = connected_worker_count]
  /\ worker_count' = worker_count + 1
  /\ UNCHANGED <<open, is_ok, held, stream, taskVars, connected_worker_count, serverVars>>

\* spawn: one more worker, named by the number of coroutines there are.
Spawn ==
  /\ MaySpawn /\ open
  /\ \E w \in Slots :
       /\ NextSlot(w)
       /\ pc' = [pc EXCEPT ![w] = "connect"]
       /\ id' = [id EXCEPT ![w] = worker_count]
  /\ worker_count' = worker_count + 1
  /\ UNCHANGED <<open, is_ok, held, stream, taskVars, connected_worker_count, serverVars>>

\* The last handle is dropped.
DropPool ==
  /\ open /\ open' = FALSE
  /\ UNCHANGED <<is_ok, workerVars, taskVars, countVars, serverVars>>

-----------------------------------------------------------------------------
(***************************************************************************)
(* run: connect, cleanup and the monitor's loop.                            *)
(***************************************************************************)
Goto(w, p) == pc' = [pc EXCEPT ![w] = p]

\* The worker's stream goes out of scope; its receiver keeps the tasks it holds.
DropStream(w) ==
  /\ stream' = [stream EXCEPT ![w] = "none"]
  /\ conn' = [t \in Tasks |-> IF conn[t] = w THEN Orphan ELSE conn[t]]

ConnectOk(w) ==
  /\ pc[w] = "connect" /\ server = "up"
  /\ stream' = [stream EXCEPT ![w] = "live"]
  /\ Goto(w, IF id[w] = 0 THEN "monitor" ELSE "enter")
  /\ UNCHANGED <<open, is_ok, id, held, taskVars, countVars, serverVars>>

\* Mutant: the pool stays healthy.
ConnectErrHealthy(w) ==
  /\ pc[w] = "connect" /\ server = "down"
  /\ Goto(w, "cleanup")
  /\ UNCHANGED <<open, is_ok, id, held, stream, taskVars, countVars, serverVars>>

\* connect fails: set_err, then cleanup, however many workers there are.
ConnectErr(w) ==
  /\ pc[w] = "connect" /\ server = "down"
  /\ is_ok' = FALSE
  /\ Goto(w, "cleanup")
  /\ UNCHANGED <<open, id, held, stream, taskVars, countVars, serverVars>>

\* cleanup, one task at a time: other coroutines use the channel meanwhile.
\* What follows it, after a sleep or not, is always the next connect.
Cleanup(w) ==
  /\ pc[w] = "cleanup"
  /\ IF chan = <<>>
     THEN Goto(w, "connect") /\ UNCHANGED <<chan, result>>
     ELSE /\ chan' = Tail(chan)
          /\ result' = [result EXCEPT ![Head(chan)] = "Unreachable"]
          /\ UNCHANGED pc
  /\ UNCHANGED <<open, is_ok, id, held, stream, conn, countVars, serverVars>>

\* The head of 'MONITOR: with other workers about, the monitor only pings.
Monitor(w) ==
  /\ pc[w] = "monitor"
  /\ Goto(w, IF worker_count > 1 THEN "ping" ELSE "recv")
  /\ UNCHANGED <<open, is_ok, id, held, stream, taskVars, countVars, serverVars>>

PingOk(w) ==
  /\ pc[w] \in {"ping", "lone_ping"} /\ stream[w] \in {"live", "dying"}
  /\ Goto(w, "monitor")
  /\ UNCHANGED <<open, is_ok, id, held, stream, taskVars, countVars, serverVars>>

\* A ping that fails: the channel is left alone if there are other workers.
PingErr(w) ==
  /\ pc[w] \in {"ping", "lone_ping"} /\ stream[w] \in {"dying", "dead"}
  /\ is_ok' = FALSE
  /\ DropStream(w)
  /\ Goto(w, IF pc[w] = "ping" THEN "connect" ELSE "cleanup")
  /\ UNCHANGED <<open, id, held, chan, result, countVars, serverVars>>

\* recv_with_timer: a second without a task.
RecvTimeout(w) ==
  /\ pc[w] = "recv" /\ chan = <<>> /\ open
  /\ Goto(w, "lone_ping")
  /\ UNCHANGED <<open, is_ok, id, held, stream, taskVars, countVars, serverVars>>

\* Mutant: a disconnected channel is taken for a timeout.
RecvDisconnectedPing(w) ==
  /\ pc[w] = "recv" /\ chan = <<>> /\ ~open
  /\ Goto(w, "lone_ping")
  /\ UNCHANGED <<open, is_ok, id, held, stream, taskVars, countVars, serverVars>>

\* recv_with_timer: no sender is left.
RecvDisconnected(w) ==
  /\ pc[w] = "recv" /\ chan = <<>> /\ ~open
  /\ DropStream(w)
  /\ Goto(w, "exit")
  /\ UNCHANGED <<open, is_ok, id, held, chan, result, countVars, serverVars>>

\* The monitor takes a task and keeps its role.
RecvTask(w) ==
  /\ pc[w] = "recv" /\ chan # <<>>
  /\ Inflight(w) = {} \/ worker_count # 1
  /\ held' = [held EXCEPT ![w] = Head(chan)] /\ chan' = Tail(chan)
  /\ Goto(w, "send")
  /\ UNCHANGED <<open, is_ok, id, stream, conn, result, countVars, serverVars>>

\* The monitor takes a task while it waits for answers to others and is alone:
\* it becomes worker 1 and spawns the next monitor.  The compare_exchange of
\* worker_count fails if a caller spawned a worker first, which is RecvTask.
Promote(w) ==
  /\ pc[w] = "recv" /\ chan # <<>>
  /\ Inflight(w) # {} /\ worker_count = 1
  /\ held' = [held EXCEPT ![w] = Head(chan)] /\ chan' = Tail(chan)
  /\ \E v \in Slots :
       /\ NextSlot(v)
       /\ pc' = [pc EXCEPT ![w] = "send", ![v] = "connect"]
       /\ id' = [id EXCEPT ![w] = 1, ![v] = 0]
  /\ worker_count' = 2
  /\ UNCHANGED <<open, is_ok, stream, conn, result, connected_worker_count, serverVars>>

-----------------------------------------------------------------------------
(***************************************************************************)
(* send_task, by the monitor ("send") and in _run_worker ("wsend").         *)
(***************************************************************************)
SendTaskOk(w) ==
  /\ pc[w] \in {"send", "wsend"} /\ stream[w] \in {"live", "dying"}
  /\ conn' = [conn EXCEPT ![held[w]] = w]
  /\ held' = [held EXCEPT ![w] = NoTask]
  /\ Goto(w, IF pc[w] = "send" THEN "throttle" ELSE "wthrottle")
  /\ UNCHANGED <<open, is_ok, id, stream, chan, result, countVars, serverVars>>

\* send_task returns once the connection holds no more tasks than its limit.
Throttle(w) ==
  /\ pc[w] \in {"throttle", "wthrottle"} /\ Cardinality(Inflight(w)) <= StreamLimit
  /\ Goto(w, CASE pc[w] = "wthrottle" -> "drain"
               [] pc[w] = "throttle" /\ id[w] = 0 -> "monitor"
               [] OTHER -> "enter")
  /\ UNCHANGED <<open, is_ok, id, held, stream, taskVars, countVars, serverVars>>

\* send_task fails: it has handed the task to error_handle with IO.
SendTaskErr(w) ==
  /\ pc[w] \in {"send", "wsend"} /\ stream[w] \in {"dying", "dead"}
  /\ result' = [result EXCEPT ![held[w]] = "IO"]
  /\ held' = [held EXCEPT ![w] = NoTask]
  /\ stream' = [stream EXCEPT ![w] = "dead"]
  /\ Goto(w, IF pc[w] = "send" THEN "send_err" ELSE "werr")
  /\ UNCHANGED <<open, is_ok, id, chan, conn, countVars, serverVars>>

\* send_task fails on a request that does not encode, and drops the task.
SendTaskLost(w) ==
  /\ EncodeFails
  /\ pc[w] \in {"send", "wsend"}
  /\ result' = [result EXCEPT ![held[w]] = "lost"]
  /\ held' = [held EXCEPT ![w] = NoTask]
  /\ stream' = [stream EXCEPT ![w] = "dead"]
  /\ Goto(w, IF pc[w] = "send" THEN "send_err" ELSE "werr")
  /\ UNCHANGED <<open, is_ok, id, chan, conn, countVars, serverVars>>

\* What the monitor's loop does after the failure: a promoted worker returns.
SendErr(w) ==
  /\ pc[w] = "send_err"
  /\ is_ok' = FALSE
  /\ DropStream(w)
  /\ Goto(w, IF id[w] = 0 THEN "cleanup" ELSE "exit")
  /\ UNCHANGED <<open, id, held, chan, result, countVars, serverVars>>

-----------------------------------------------------------------------------
(***************************************************************************)
(* run_worker and _run_worker.                                              *)
(***************************************************************************)
EnterWorker(w) ==
  /\ pc[w] = "enter"
  /\ connected_worker_count' = connected_worker_count + 1
  /\ Goto(w, "wrecv")
  /\ UNCHANGED <<open, is_ok, id, held, stream, taskVars, worker_count, serverVars>>

\* recv, and try_recv after a task has been sent.
WorkerRecv(w) ==
  /\ pc[w] \in {"wrecv", "drain"} /\ chan # <<>>
  /\ held' = [held EXCEPT ![w] = Head(chan)] /\ chan' = Tail(chan)
  /\ Goto(w, "wsend")
  /\ UNCHANGED <<open, is_ok, id, stream, conn, result, countVars, serverVars>>

Drained(w) ==
  /\ pc[w] = "drain" /\ chan = <<>>
  /\ Goto(w, "flush")
  /\ UNCHANGED <<open, is_ok, id, held, stream, taskVars, countVars, serverVars>>

WorkerDisconnected(w) ==
  /\ pc[w] = "wrecv" /\ chan = <<>> /\ ~open
  /\ Goto(w, "wend")
  /\ UNCHANGED <<open, is_ok, id, held, stream, taskVars, countVars, serverVars>>

\* flush_req does not look at closed: with nothing left to write it succeeds on a
\* stream that is already dead.
FlushOk(w) ==
  /\ pc[w] = "flush"
  /\ Goto(w, "wrecv")
  /\ UNCHANGED <<open, is_ok, id, held, stream, taskVars, countVars, serverVars>>

FlushErr(w) ==
  /\ pc[w] \in {"flush", "wend"} /\ stream[w] \in {"dying", "dead"}
  /\ stream' = [stream EXCEPT ![w] = "dead"]
  /\ Goto(w, "werr")
  /\ UNCHANGED <<open, is_ok, id, held, taskVars, countVars, serverVars>>

\* run_worker returns Ok after its last flush.  It counts itself a second time.
LeaveWorker(w) ==
  /\ pc[w] = "wend"
  /\ connected_worker_count' = connected_worker_count + 1
  /\ DropStream(w)
  /\ Goto(w, "exit")
  /\ UNCHANGED <<open, is_ok, id, held, chan, result, worker_count, serverVars>>

\* run_worker returns an error.
LeaveWorkerErr(w) ==
  /\ pc[w] = "werr"
  /\ connected_worker_count' = connected_worker_count + 1
  /\ is_ok' = FALSE
  /\ DropStream(w)
  /\ Goto(w, "exit")
  /\ UNCHANGED <<open, id, held, chan, result, worker_count, serverVars>>

\* Mutant: an exiting coroutine is still counted.
ExitUncounted(w) ==
  /\ pc[w] = "exit"
  /\ Goto(w, "free")
  /\ UNCHANGED <<open, is_ok, id, held, stream, taskVars, countVars, serverVars>>

\* The coroutine of spawn_worker ends.  With the last coroutine and no handle left
\* the inner pool is dropped, and its drop cleans the channel up.
Exit(w) ==
  /\ pc[w] = "exit"
  /\ worker_count' = worker_count - 1
  /\ Goto(w, "free")
  /\ LET freed == ~open /\ \A v \in Slots \ {w} : ~Live(v)
     IN /\ chan' = IF freed THEN <<>> ELSE chan
        /\ result' = [t \in Tasks |->
             IF freed /\ \E i \in 1 .. Len(chan) : chan[i] = t
             THEN "Unreachable" ELSE result[t]]
  /\ UNCHANGED <<open, is_ok, id, held, stream, conn, connected_worker_count, serverVars>>

-----------------------------------------------------------------------------
(***************************************************************************)
(* The server and the receivers of the streams.                             *)
(***************************************************************************)
\* The server becomes unreachable: open connections break sooner or later.
ServerDown ==
  /\ server = "up" /\ downs < MaxDowns
  /\ server' = "down" /\ downs' = downs + 1
  /\ stream' = [w \in Slots |-> IF stream[w] = "live" THEN "dying" ELSE stream[w]]
  /\ UNCHANGED <<open, is_ok, pc, id, held, taskVars, countVars>>

ServerUp ==
  /\ server = "down" /\ server' = "up"
  /\ UNCHANGED <<open, is_ok, workerVars, taskVars, countVars, downs>>

\* The receiver finds the connection broken and closes the stream.
StreamDies(w) ==
  /\ stream[w] = "dying"
  /\ stream' = [stream EXCEPT ![w] = "dead"]
  /\ UNCHANGED <<open, is_ok, pc, id, held, taskVars, countVars, serverVars>>

\* What the receiver can end an in-flight task with.  It may still be about to look
\* at the flags when the sender closes the stream, and when it then leaves, a task
\* whose response it has half read is dropped with the read.
EndsOn(c) ==
  IF c = Orphan \/ stream[c] = "dead"
  THEN {"Ok", "Timeout", "IO", "lost"}
  ELSE {"Ok", "Timeout"}

TaskEnds(t) ==
  /\ conn[t] # NoSlot
  /\ \E r \in EndsOn(conn[t]) : result' = [result EXCEPT ![t] = r]
  /\ conn' = [conn EXCEPT ![t] = NoSlot]
  /\ UNCHANGED <<open, is_ok, workerVars, chan, countVars, serverVars>>

Step(w) ==
  \/ ConnectOk(w) \/ ConnectErr(w) \/ Cleanup(w)
  \/ Monitor(w) \/ PingOk(w) \/ PingErr(w)
  \/ RecvTimeout(w) \/ RecvDisconnected(w) \/ RecvTask(w) \/ Promote(w)
  \/ SendTaskOk(w) \/ Throttle(w) \/ SendTaskErr(w) \/ SendTaskLost(w) \/ SendErr(w)
  \/ EnterWorker(w) \/ WorkerRecv(w) \/ Drained(w) \/ WorkerDisconnected(w)
  \/ FlushOk(w) \/ FlushErr(w) \/ LeaveWorker(w) \/ LeaveWorkerErr(w) \/ Exit(w)

Next ==
  \/ \E t \in Tasks : SendReq(t) \/ TaskEnds(t)
  \/ \E w \in Slots : Step(w) \/ StreamDies(w)
  \/ Spawn \/ DropPool \/ ServerDown \/ ServerUp

Spec == Init /\ [][Next]_vars

\* The runtime runs every coroutine, a broken connection is noticed, and every in-flight
\* task is answered or times out.  Nothing is assumed of the server.
Fairness ==
  /\ \A w \in Slots : WF_vars(Step(w)) /\ WF_vars(StreamDies(w))
  /\ \A t \in Tasks : WF_vars(TaskEnds(t))

FairSpec == Spec /\ Fairness

-----------------------------------------------------------------------------
(***************************************************************************)
(* Properties.                                                              *)
(***************************************************************************)
Monitors == {w \in Slots : Live(w) /\ id[w] = 0}

\* There is never a second monitor, and there is one as long as a handle is left:
\* the role passes on in one step when the monitor becomes a worker, and the ids
\* spawn gives out are never 0.
OneMonitor ==
  /\ Cardinality(Monitors) <= 1
  /\ open => Cardinality(Monitors) = 1

\* What the pool promises its callers: PoolCalls.
Calls == INSTANCE PoolCalls WITH state <- result, healthy <- is_ok
ImplementsPoolCalls == Calls!Spec

\* Every task that send_req took ends, or is lost with its request or its half-read
\* response, whatever the connections and the server do: cleanup, the receivers and
\* the workers leave none behind.
EveryTaskEnds == \A t \in Tasks : (result[t] = "open") ~> (result[t] # "open")

\* When the last handle is dropped all coroutines end, if the server does not stay
\* unreachable: a coroutine that cannot connect does not look at the channel.
DropEndsWorkers ==
  []<>(server = "up") => (~open ~> \A w \in Slots : ~Live(w))

=============================================================================
