---------------------------- MODULE ClientStream ----------------------------
(***************************************************************************)
(* One client connection (stream/src/client/stream.rs) over the TCP         *)
(* transport (transport/tcp/src/client.rs): the user's coroutine that calls *)
(* send_task, flush_req, ping, set_error_and_exit and drop, the spawned     *)
(* receive_loop, and a peer that answers the requests it has received.      *)
(*                                                                         *)
(* The two coroutines run on different threads and share the timer, the     *)
(* flags closed and has_err, the close channel and the throttler's wait     *)
(* group without a lock.  A step below is a piece of one coroutine; adjacent *)
(* accesses to shared state are in one step only when no step of the other   *)
(* coroutine can tell their order.                                           *)
(***************************************************************************)
EXTENDS ClientTaskTimer

CONSTANTS
  ReadTimeout,  \* ClientConfig.read_timeout in ticks, 0 for none
  MaxReplies,   \* bound: responses the peer sends for one request
  Kinds,        \* the kinds of response the peer sends
  Pings,        \* whether the user calls ping
  Faults,       \* whether I/O may fail and the user calls set_error_and_exit
  EncodeFails,  \* whether the codec may refuse a request
  Splits        \* whether a response header may arrive in two pieces

(***************************************************************************)
(* Kinds of response, as read_resp tells them apart: an empty reply, a      *)
(* reply with a message, one that does not decode, one with a blob the task *)
(* has no buffer for, a numeric error (no body) and a string error.         *)
(***************************************************************************)
AllKinds == {"empty", "msg", "garbled", "noblob", "errno", "errstr"}

HasBody(k) == k \in {"msg", "garbled", "noblob", "errstr"}

Outcome(k) ==
  CASE k \in {"empty", "msg"}      -> "Ok"
    [] k \in {"garbled", "noblob"} -> "Decode"
    [] k \in {"errno", "errstr"}   -> "Peer"

ASSUME StreamAssumption ==
  /\ ReadTimeout \in Nat
  /\ MaxReplies \in Nat
  /\ Kinds \subseteq AllKinds
  /\ Pings \in BOOLEAN
  /\ Faults \in BOOLEAN
  /\ EncodeFails \in BOOLEAN
  /\ Splits \in BOOLEAN

VARIABLES
  closed, has_err,  \* the atomic flags of ClientStreamInner
  close_sig,        \* close_rx is ready: a message was sent or close_tx dropped
  seq,              \* the next sequence number
  inflight,         \* guards of the throttler's wait group
  spc,              \* where the user's coroutine is
  cur,              \* the seq of the task being sent, 0 if none
  need_flush,       \* its flag need_flush
  wbuf,             \* requests in the write buffer, not yet flushed
  pings,            \* the seqs that went to pings
  rpc,              \* where the receiver is
  polling,          \* inside a poll of recv_future
  resp,             \* the response whose header has been read
  taken,            \* the task item in the hands of the reader
  read_age,         \* ticks since the current timed read began
  lost,             \* tasks the reader dropped without handing them back
  unencoded,        \* tasks send_request dropped because they do not encode
  link,             \* "up", "shut" (write side shut by us) or "down"
  arrived,          \* requests the peer has received
  replied,          \* the kinds of response it has sent for each
  responses,        \* response headers on the wire, in order
  owed,             \* the body of the last response is not all there yet
  half,             \* the first bytes of the next header are there
  desync            \* the reader has thrown away part of a header

senderVars == <<seq, spc, cur, need_flush, wbuf, pings, unencoded>>
recvVars == <<rpc, polling, resp, taken, read_age, desync>>
peerVars == <<link, arrived, replied, responses, owed, half>>
vars == <<timerVars, closed, has_err, close_sig, inflight, lost, senderVars,
          recvVars, peerVars>>

NoResp == [seq |-> 0, kind |-> "empty"]
Resps == [seq : Seqs, kind : AllKinds]

SenderStates == {"idle", "check", "write", "encode_err", "write_err", "flush_err",
                 "rollback", "reg", "throttle", "erring", "drop_reg",
                 "drop_closed", "gone"}
RecvStates == {"loop", "headC", "headT", "wait", "take", "body",
               "err", "clean", "exited", "freed"}

SharedTypeOK ==
  /\ closed \in BOOLEAN /\ has_err \in BOOLEAN /\ close_sig \in BOOLEAN
  /\ inflight \in Int
  /\ lost \in SUBSET Seqs

SenderTypeOK ==
  /\ seq \in 1 .. MaxSeq + 1
  /\ spc \in SenderStates
  /\ cur \in 0 .. MaxSeq
  /\ spc \in {"write", "write_err", "rollback", "reg"} => cur \in Seqs
  /\ spc = "check" => seq <= MaxSeq
  /\ need_flush \in BOOLEAN
  /\ wbuf \in SUBSET Seqs /\ pings \in SUBSET Seqs /\ unencoded \in SUBSET Seqs

RecvTypeOK ==
  /\ rpc \in RecvStates
  /\ polling \in BOOLEAN /\ desync \in BOOLEAN
  /\ resp \in Resps \cup {NoResp}
  /\ rpc \in {"wait", "take", "body"} => resp \in Resps
  /\ taken \in SUBSET Seqs
  /\ read_age \in Nat

PeerTypeOK ==
  /\ link \in {"up", "shut", "down"}
  /\ arrived \in SUBSET Seqs
  /\ replied \in [Seqs -> SUBSET AllKinds]
  /\ responses \in Seq(Resps)
  /\ owed \in BOOLEAN /\ half \in BOOLEAN

TypeOK ==
  /\ TimerTypeOK
  /\ SharedTypeOK
  /\ SenderTypeOK
  /\ RecvTypeOK
  /\ PeerTypeOK

Init ==
  /\ TimerInit
  /\ closed = FALSE /\ has_err = FALSE /\ close_sig = FALSE
  /\ seq = 1 /\ inflight = 0
  /\ spc = "idle" /\ cur = 0 /\ need_flush = FALSE /\ wbuf = {} /\ pings = {}
  /\ rpc = "loop" /\ polling = FALSE /\ resp = NoResp /\ taken = {}
  /\ read_age = 0 /\ lost = {} /\ unencoded = {}
  /\ link = "up" /\ arrived = {} /\ replied = [s \in Seqs |-> {}]
  /\ responses = <<>> /\ owed = FALSE /\ half = FALSE /\ desync = FALSE

-----------------------------------------------------------------------------
(***************************************************************************)
(* The throttler (stream/src/client/throttler.rs).                          *)
(***************************************************************************)

\* nearly_full, which makes send_task flush.
NearlyFull == inflight + 1 > Thresholds

\* The bytes of the requests in S reach the peer, if the link still works.
Deliver(S) == arrived' = IF link = "up" THEN arrived \cup S ELSE arrived

\* A write that fails part way has sent some prefix of the buffered requests S.
DeliverPrefixOf(S) == \E k \in 0 .. MaxSeq : Deliver({s \in S : s <= k})

(***************************************************************************)
(* The user's coroutine: send_task                                          *)
(***************************************************************************)
\* send_task up to the increment of pending_task_count.
SendTask ==
  /\ spc = "idle" /\ seq <= MaxSeq
  /\ \E flush \in BOOLEAN : need_flush' = (flush \/ NearlyFull)
  /\ pending_task_count' = pending_task_count + 1
  /\ spc' = "check"
  /\ UNCHANGED <<pending_tasks, tableVars, reg_stopped_flag, doneVars, age>>
  /\ UNCHANGED <<closed, has_err, close_sig, inflight, lost>>
  /\ UNCHANGED <<seq, cur, wbuf, pings, unencoded, recvVars, peerVars>>

\* The connection is closed: the task fails with IO before it has a sequence
\* number, and the counter is rolled back.
RefuseTask ==
  /\ spc = "check" /\ closed
  /\ pending_task_count' = pending_task_count - 1
  /\ spc' = "idle" /\ need_flush' = FALSE
  /\ UNCHANGED <<pending_tasks, tableVars, reg_stopped_flag, doneVars, age>>
  /\ UNCHANGED <<closed, has_err, close_sig, inflight, lost>>
  /\ UNCHANGED <<seq, cur, wbuf, pings, unencoded, recvVars, peerVars>>

\* send_request: seq_update, set_seq and a request that encodes.
EncodeReq ==
  /\ spc = "check" /\ ~closed
  /\ cur' = seq /\ seq' = seq + 1
  /\ spc' = "write"
  /\ UNCHANGED <<timerVars, closed, has_err, close_sig, inflight, lost>>
  /\ UNCHANGED <<need_flush, wbuf, pings, unencoded, recvVars, peerVars>>

\* send_request returns Encode: the task is dropped, nothing is rolled back, and
\* send_task closes the connection.
EncodeReqErr ==
  /\ EncodeFails
  /\ spc = "check" /\ ~closed
  /\ seq' = seq + 1
  /\ unencoded' = unencoded \cup {seq}
  /\ closed' = TRUE
  /\ spc' = "encode_err" /\ need_flush' = FALSE
  /\ UNCHANGED <<timerVars, has_err, close_sig, inflight, lost, cur, wbuf, pings>>
  /\ UNCHANGED <<recvVars, peerVars>>

\* write_req succeeds and add_task takes a guard.  A write without flush leaves
\* the request in the buffer, or sends what was buffered before it, or all.
WriteReq ==
  /\ spc = "write"
  /\ \E kept \in IF need_flush THEN {{}} ELSE {{}, {cur}, wbuf \cup {cur}} :
       /\ link = "shut" => kept = wbuf \cup {cur}
       /\ wbuf' = kept
       /\ Deliver((wbuf \cup {cur}) \ kept)
  /\ inflight' = inflight + 1
  /\ spc' = "reg" /\ need_flush' = FALSE
  /\ UNCHANGED <<timerVars, closed, has_err, close_sig, lost, seq, cur, pings>>
  /\ UNCHANGED <<unencoded, recvVars, link, replied, responses, owed, half>>

\* write_req fails: the connection is closed first.
WriteReqErr ==
  /\ Faults
  /\ spc = "write"
  /\ closed' = TRUE
  /\ wbuf' \in {wbuf, wbuf \cup {cur}}
  /\ DeliverPrefixOf(wbuf \cup {cur})
  /\ spc' = "write_err" /\ need_flush' = FALSE
  /\ UNCHANGED <<timerVars, has_err, close_sig, inflight, lost, seq, cur, pings>>
  /\ UNCHANGED <<unencoded, recvVars, link, replied, responses, owed, half>>

\* has_err, the second store of the three error branches.  flush_req stops
\* registration right after it.
SetHasErr ==
  /\ spc \in {"encode_err", "write_err", "flush_err"}
  /\ has_err' = TRUE
  /\ reg_stopped_flag' = (reg_stopped_flag \/ spc = "flush_err")
  /\ spc' = IF spc = "write_err" THEN "rollback" ELSE "idle"
  /\ UNCHANGED <<pending_tasks, pending_task_count, tableVars, doneVars, age>>
  /\ UNCHANGED <<closed, close_sig, inflight, lost>>
  /\ UNCHANGED <<seq, cur, need_flush, wbuf, pings, unencoded, recvVars, peerVars>>

\* Mutant: the failed task stays counted.
RollbackKeepsCount ==
  /\ spc = "rollback"
  /\ reg_stopped_flag' = TRUE
  /\ Finish({cur}, "IO")
  /\ spc' = "idle" /\ cur' = 0
  /\ UNCHANGED <<pending_tasks, pending_task_count, tableVars, age>>
  /\ UNCHANGED <<closed, has_err, close_sig, inflight, lost>>
  /\ UNCHANGED <<seq, need_flush, wbuf, pings, unencoded, recvVars, peerVars>>

\* The rest of the error branch: roll the counter back, stop registration, fail
\* the task with IO.
Rollback ==
  /\ spc = "rollback"
  /\ pending_task_count' = pending_task_count - 1
  /\ reg_stopped_flag' = TRUE
  /\ Finish({cur}, "IO")
  /\ spc' = "idle" /\ cur' = 0
  /\ UNCHANGED <<pending_tasks, tableVars, age>>
  /\ UNCHANGED <<closed, has_err, close_sig, inflight, lost>>
  /\ UNCHANGED <<seq, need_flush, wbuf, pings, unencoded, recvVars, peerVars>>

\* timer.reg_task(task, wg).
Register ==
  /\ spc = "reg"
  /\ RegTask(cur)
  /\ spc' = "throttle" /\ cur' = 0
  /\ UNCHANGED <<pending_task_count, tableVars, reg_stopped_flag, doneVars, age>>
  /\ UNCHANGED <<closed, has_err, close_sig, inflight, lost>>
  /\ UNCHANGED <<seq, need_flush, wbuf, pings, unencoded, recvVars, peerVars>>

\* Mutant: throttle() returns at once.
ThrottleNever ==
  /\ spc = "throttle"
  /\ spc' = "idle"
  /\ UNCHANGED <<timerVars, closed, has_err, close_sig, inflight, lost>>
  /\ UNCHANGED <<seq, cur, need_flush, wbuf, pings, unencoded, recvVars, peerVars>>

\* throttler.throttle(): wait until no more than Thresholds guards are left.
Throttle ==
  /\ spc = "throttle" /\ inflight <= Thresholds
  /\ spc' = "idle"
  /\ UNCHANGED <<timerVars, closed, has_err, close_sig, inflight, lost>>
  /\ UNCHANGED <<seq, cur, need_flush, wbuf, pings, unencoded, recvVars, peerVars>>

(***************************************************************************)
(* The user's coroutine: flush_req, ping, set_error_and_exit, drop          *)
(***************************************************************************)
FlushReq ==
  /\ spc = "idle" /\ wbuf # {} /\ link # "shut"
  /\ Deliver(wbuf) /\ wbuf' = {}
  /\ UNCHANGED <<timerVars, closed, has_err, close_sig, inflight, lost>>
  /\ UNCHANGED <<seq, spc, cur, need_flush, pings, unencoded, recvVars>>
  /\ UNCHANGED <<link, replied, responses, owed, half>>

\* The buffer is not consumed by a flush that fails.
FlushReqErr ==
  /\ Faults
  /\ spc = "idle" /\ wbuf # {}
  /\ DeliverPrefixOf(wbuf)
  /\ closed' = TRUE
  /\ spc' = "flush_err"
  /\ UNCHANGED <<timerVars, has_err, close_sig, inflight, lost>>
  /\ UNCHANGED <<seq, cur, need_flush, wbuf, pings, unencoded, recvVars>>
  /\ UNCHANGED <<link, replied, responses, owed, half>>

\* send_ping_req takes a sequence number, registers nothing and flushes.
SendPingReq ==
  /\ Pings
  /\ spc = "idle" /\ ~closed /\ seq <= MaxSeq /\ link # "shut"
  /\ pings' = pings \cup {seq} /\ seq' = seq + 1
  /\ Deliver(wbuf \cup {seq}) /\ wbuf' = {}
  /\ UNCHANGED <<timerVars, closed, has_err, close_sig, inflight, lost>>
  /\ UNCHANGED <<spc, cur, need_flush, unencoded, recvVars>>
  /\ UNCHANGED <<link, replied, responses, owed, half>>

\* A ping that cannot be written closes the connection, without has_err.
SendPingReqErr ==
  /\ Pings /\ Faults
  /\ spc = "idle" /\ ~closed /\ seq <= MaxSeq
  /\ pings' = pings \cup {seq} /\ seq' = seq + 1
  /\ DeliverPrefixOf(wbuf \cup {seq})
  /\ wbuf' \in {wbuf, wbuf \cup {seq}}
  /\ closed' = TRUE
  /\ UNCHANGED <<timerVars, has_err, close_sig, inflight, lost>>
  /\ UNCHANGED <<spc, cur, need_flush, unencoded, recvVars>>
  /\ UNCHANGED <<link, replied, responses, owed, half>>

\* set_error_and_exit: the flag ...
SetErrorAndExit ==
  /\ Faults
  /\ spc = "idle"
  /\ has_err' = TRUE
  /\ spc' = "erring"
  /\ UNCHANGED <<timerVars, closed, close_sig, inflight, lost>>
  /\ UNCHANGED <<seq, cur, need_flush, wbuf, pings, unencoded, recvVars, peerVars>>

\* ... then close_conn, which shuts the write side down if the flush succeeds,
\* and the message on the close channel.
CloseConn ==
  /\ spc = "erring"
  /\ \/ /\ link = "shut" => wbuf = {}
        /\ Deliver(wbuf) /\ wbuf' = {}
        /\ link' = IF link = "up" THEN "shut" ELSE link
     \/ /\ wbuf # {}
        /\ DeliverPrefixOf(wbuf)
        /\ UNCHANGED <<wbuf, link>>
  /\ close_sig' = TRUE
  /\ spc' = "idle"
  /\ UNCHANGED <<timerVars, closed, has_err, inflight, lost>>
  /\ UNCHANGED <<seq, cur, need_flush, pings, unencoded, recvVars>>
  /\ UNCHANGED <<replied, responses, owed, half>>

\* Drop for ClientStream: close_tx.take() ...
Drop ==
  /\ spc = "idle"
  /\ close_sig' = TRUE
  /\ spc' = "drop_reg"
  /\ UNCHANGED <<timerVars, closed, has_err, inflight, lost>>
  /\ UNCHANGED <<seq, cur, need_flush, wbuf, pings, unencoded, recvVars, peerVars>>

\* Mutant: drop forgets stop_reg_task.
DropKeepsReg ==
  /\ spc = "drop_reg"
  /\ spc' = "drop_closed"
  /\ UNCHANGED <<timerVars, closed, has_err, close_sig, inflight, lost>>
  /\ UNCHANGED <<seq, cur, need_flush, wbuf, pings, unencoded, recvVars, peerVars>>

\* ... timer.stop_reg_task() ...
DropStopReg ==
  /\ spc = "drop_reg"
  /\ reg_stopped_flag' = TRUE
  /\ spc' = "drop_closed"
  /\ UNCHANGED <<pending_tasks, pending_task_count, tableVars, doneVars, age>>
  /\ UNCHANGED <<closed, has_err, close_sig, inflight, lost>>
  /\ UNCHANGED <<seq, cur, need_flush, wbuf, pings, unencoded, recvVars, peerVars>>

\* ... and closed.
DropClosed ==
  /\ spc = "drop_closed"
  /\ closed' = TRUE
  /\ spc' = "gone"
  /\ UNCHANGED <<timerVars, has_err, close_sig, inflight, lost>>
  /\ UNCHANGED <<seq, cur, need_flush, wbuf, pings, unencoded, recvVars, peerVars>>

(***************************************************************************)
(* The receiver: ReceiverTimerFuture::poll                                  *)
(***************************************************************************)
Receiving == rpc \in {"loop", "headC", "headT", "wait", "take", "body"}
TimedRead == rpc \in {"headT", "body"}

\* The ticks that are due are handled before anything else is polled.
TimeReach ==
  /\ Receiving /\ ~polling
  /\ AdjustTaskQueue
  /\ inflight' = inflight - Cardinality(Expired)
  /\ read_age' = IF TimedRead /\ read_age < ReadTimeout THEN read_age + 1
                                                        ELSE read_age
  /\ UNCHANGED <<closed, has_err, close_sig, lost, senderVars>>
  /\ UNCHANGED <<rpc, polling, resp, taken, desync, peerVars>>

\* Mutant: the future looks at closed.
PollClosed ==
  /\ Receiving /\ ~polling /\ closed
  /\ rpc' = "err"
  /\ UNCHANGED <<timerVars, closed, has_err, close_sig, inflight, lost>>
  /\ UNCHANGED <<senderVars, polling, resp, taken, read_age, desync, peerVars>>

\* has_err makes the future ready without polling recv_future again.
PollHasErr ==
  /\ Receiving /\ ~polling /\ has_err
  /\ rpc' = "err"
  /\ UNCHANGED <<timerVars, closed, has_err, close_sig, inflight, lost>>
  /\ UNCHANGED <<senderVars, polling, resp, taken, read_age, desync, peerVars>>

\* poll_sent_task, then recv_future is polled.
PollStart ==
  /\ Receiving /\ ~polling /\ ~has_err
  /\ PollSentTask
  /\ polling' = TRUE
  /\ UNCHANGED <<delay_tasks_queue, min_delay_seq, reg_stopped_flag, doneVars>>
  /\ UNCHANGED <<age, closed, has_err, close_sig, inflight, lost, senderVars>>
  /\ UNCHANGED <<rpc, resp, taken, read_age, desync, peerVars>>

(***************************************************************************)
(* The receiver: recv_one_resp and read_resp                                *)
(***************************************************************************)
\* The connection is open: wait for a header without a timeout, but watch the
\* close channel.
LoopOpen ==
  /\ rpc = "loop" /\ polling /\ ~closed
  /\ rpc' = "headC"
  /\ UNCHANGED <<timerVars, closed, has_err, close_sig, inflight, lost>>
  /\ UNCHANGED <<senderVars, polling, resp, taken, read_age, desync, peerVars>>

\* It is closed: leave if no task is outstanding or has_err is set, else read
\* the next response with a timeout.
LoopClosed ==
  /\ rpc = "loop" /\ polling /\ closed
  /\ PollSentTask
  /\ rpc' = IF has_err \/ Live = {} THEN "err" ELSE "headT"
  /\ read_age' = 0
  /\ UNCHANGED <<delay_tasks_queue, min_delay_seq, reg_stopped_flag, doneVars>>
  /\ UNCHANGED <<age, closed, has_err, close_sig, inflight, lost, senderVars>>
  /\ UNCHANGED <<polling, resp, taken, desync, peerVars>>

HeadArrived == responses # <<>>
BodyArrived == responses # <<>> \/ ~owed
DataArrived == IF rpc = "body" THEN BodyArrived ELSE HeadArrived

\* After take_task: the body of the response is read, to be decoded or thrown
\* away, or there is none.
BodyOrLoop(k) ==
  /\ rpc' = IF HasBody(k) THEN "body" ELSE "loop"
  /\ resp' = IF HasBody(k) THEN resp ELSE NoResp
  /\ read_age' = 0

\* The header of a response that take_task will look for.
RecvHead ==
  /\ rpc \in {"headC", "headT"} /\ polling /\ HeadArrived /\ ~desync
  /\ Head(responses).seq >= min_delay_seq
  /\ responses' = Tail(responses)
  /\ resp' = Head(responses)
  /\ rpc' = IF Head(responses).seq > processed_seq THEN "wait" ELSE "take"
  /\ UNCHANGED <<timerVars, closed, has_err, close_sig, inflight, lost>>
  /\ UNCHANGED <<senderVars, polling, taken, read_age, desync>>
  /\ UNCHANGED <<link, arrived, replied, owed, half>>

\* The header of a response to a task that take_task says has timed out.
RecvLateHead ==
  /\ rpc \in {"headC", "headT"} /\ polling /\ HeadArrived /\ ~desync
  /\ Head(responses).seq < min_delay_seq
  /\ responses' = Tail(responses)
  /\ LET k == Head(responses).kind
     IN  /\ rpc' = IF HasBody(k) THEN "body" ELSE "loop"
         /\ resp' = IF HasBody(k) THEN Head(responses) ELSE NoResp
  /\ read_age' = 0
  /\ UNCHANGED <<timerVars, closed, has_err, close_sig, inflight, lost>>
  /\ UNCHANGED <<senderVars, polling, taken, desync>>
  /\ UNCHANGED <<link, arrived, replied, owed, half>>

\* After part of a header was thrown away the bytes that follow are no header:
\* decode_head fails.
RecvGarbledHead ==
  /\ rpc \in {"headC", "headT"} /\ polling /\ HeadArrived /\ desync
  /\ rpc' = "err"
  /\ UNCHANGED <<timerVars, closed, has_err, close_sig, inflight, lost>>
  /\ UNCHANGED <<senderVars, polling, resp, taken, read_age, desync, peerVars>>

\* WaitRegTaskFuture::poll: the task has been registered meanwhile ...
WaitRegDone ==
  /\ rpc = "wait" /\ polling /\ processed_seq >= resp.seq
  /\ rpc' = "take"
  /\ UNCHANGED <<timerVars, closed, has_err, close_sig, inflight, lost>>
  /\ UNCHANGED <<senderVars, polling, resp, taken, read_age, desync, peerVars>>

\* Mutant: the wait is given up whatever reg_stopped_flag says.
WaitRegGivenUp ==
  /\ rpc = "wait" /\ polling /\ processed_seq < resp.seq
  /\ BodyOrLoop(resp.kind)
  /\ UNCHANGED <<timerVars, closed, has_err, close_sig, inflight, lost>>
  /\ UNCHANGED <<senderVars, polling, taken, desync, peerVars>>

\* ... or never will be ...
WaitRegStopped ==
  /\ rpc = "wait" /\ polling /\ processed_seq < resp.seq /\ reg_stopped_flag
  /\ BodyOrLoop(resp.kind)
  /\ UNCHANGED <<timerVars, closed, has_err, close_sig, inflight, lost>>
  /\ UNCHANGED <<senderVars, polling, taken, desync, peerVars>>

\* ... or the channel is drained once more, and the future stays pending when
\* that did not bring the task.
WaitRegPoll ==
  /\ rpc = "wait" /\ polling /\ processed_seq < resp.seq /\ ~reg_stopped_flag
  /\ PollSentTask
  /\ IF processed_seq' >= resp.seq THEN rpc' = "take" /\ polling' = TRUE
                                   ELSE rpc' = "wait" /\ polling' = FALSE
  /\ UNCHANGED <<delay_tasks_queue, min_delay_seq, reg_stopped_flag, doneVars>>
  /\ UNCHANGED <<age, closed, has_err, close_sig, inflight, lost, senderVars>>
  /\ UNCHANGED <<resp, taken, read_age, desync, peerVars>>

\* take_task returns the task.  A response without a body finishes it; one with
\* a blob the task cannot hold fails it before the blob is read.  The guard
\* lives as long as the task item, to the end of _recv_resp_body.
TakeTask ==
  /\ rpc = "take" /\ resp.seq \in Held
  /\ RemoveTask(resp.seq)
  /\ IF resp.kind = "noblob" \/ ~HasBody(resp.kind)
     THEN Finish({resp.seq}, Outcome(resp.kind)) ELSE UNCHANGED doneVars
  /\ IF HasBody(resp.kind)
     THEN taken' = {resp.seq} /\ UNCHANGED inflight
     ELSE taken' = {} /\ inflight' = inflight - 1
  /\ BodyOrLoop(resp.kind)
  /\ UNCHANGED <<pending_tasks, pending_task_count, min_delay_seq>>
  /\ UNCHANGED <<processed_seq, reg_stopped_flag, age>>
  /\ UNCHANGED <<closed, has_err, close_sig, lost, senderVars>>
  /\ UNCHANGED <<polling, desync, peerVars>>

\* take_task finds no such task.
TakeNone ==
  /\ rpc = "take" /\ resp.seq \notin Held
  /\ BodyOrLoop(resp.kind)
  /\ UNCHANGED <<timerVars, closed, has_err, close_sig, inflight, lost>>
  /\ UNCHANGED <<senderVars, polling, taken, desync, peerVars>>

\* The reader's task that has not been handed back yet.
Unfinished == {s \in taken : dones[s] = 0}

\* The reader lets go of its task item, guard included.
ReleaseTaken ==
  /\ taken' = {}
  /\ inflight' = inflight - Cardinality(taken)

\* The body of the response has been read: the task, if there is one, is done.
RecvBody ==
  /\ rpc = "body" /\ polling /\ BodyArrived
  /\ Finish(Unfinished, Outcome(resp.kind))
  /\ ReleaseTaken
  /\ rpc' = "loop" /\ resp' = NoResp
  /\ UNCHANGED <<pending_tasks, pending_task_count, tableVars, reg_stopped_flag>>
  /\ UNCHANGED <<age, closed, has_err, close_sig, lost, senderVars>>
  /\ UNCHANGED <<polling, read_age, desync, peerVars>>

ReadDue == TimedRead /\ ReadTimeout > 0 /\ read_age >= ReadTimeout
Cancelled == rpc = "headC" /\ close_sig

\* A read meets the end of the stream, or its timeout.
ReadErr ==
  /\ rpc \in {"headC", "headT", "body"} /\ polling /\ ~DataArrived
  /\ link = "down" \/ ReadDue
  /\ Finish(Unfinished, "IO")
  /\ ReleaseTaken
  /\ rpc' = "err" /\ resp' = NoResp
  /\ UNCHANGED <<pending_tasks, pending_task_count, tableVars, reg_stopped_flag>>
  /\ UNCHANGED <<age, closed, has_err, close_sig, lost, senderVars>>
  /\ UNCHANGED <<polling, read_age, desync, peerVars>>

\* Cancellable: no whole header is there and the close channel is ready.  What
\* read_exact had copied out of the buffer is dropped with it.
ReadCancelled ==
  /\ polling /\ ~DataArrived /\ link # "down" /\ Cancelled
  /\ closed' = TRUE
  /\ rpc' = "loop"
  /\ desync' = (desync \/ half) /\ half' = FALSE
  /\ UNCHANGED <<timerVars, has_err, close_sig, inflight, lost>>
  /\ UNCHANGED <<senderVars, polling, resp, taken, read_age>>
  /\ UNCHANGED <<link, arrived, replied, responses, owed>>

\* Nothing to read: the poll returns Pending.
ReadPending ==
  /\ rpc \in {"headC", "headT", "body"} /\ polling /\ ~DataArrived
  /\ link # "down" /\ ~ReadDue /\ ~Cancelled
  /\ polling' = FALSE
  /\ UNCHANGED <<timerVars, closed, has_err, close_sig, inflight, lost>>
  /\ UNCHANGED <<senderVars, rpc, resp, taken, read_age, desync, peerVars>>

(***************************************************************************)
(* The receiver: the error branch of receive_loop, and Drop of Inner        *)
(***************************************************************************)
RecvLoopErr ==
  /\ rpc = "err"
  /\ closed' = TRUE
  /\ CleanPendingTasks
  /\ inflight' = inflight - Cardinality(Live)
  /\ rpc' = "clean" /\ polling' = FALSE
  /\ UNCHANGED <<min_delay_seq, reg_stopped_flag, age, has_err, close_sig, lost>>
  /\ UNCHANGED <<senderVars, resp, taken, read_age, desync, peerVars>>

\* While the counter is positive the channel is cleaned again, once a second.
CleanAgain ==
  /\ rpc = "clean" /\ pending_task_count > 0
  /\ CleanPendingTasks
  /\ inflight' = inflight - Cardinality(Live)
  /\ UNCHANGED <<min_delay_seq, reg_stopped_flag, age, has_err, close_sig, lost>>
  /\ UNCHANGED <<closed, senderVars, recvVars, peerVars>>

\* Mutant: receive_loop leaves without a look at the counter.
RecvExitEarly ==
  /\ rpc = "clean"
  /\ rpc' = "exited" /\ resp' = NoResp
  /\ lost' = lost \cup Unfinished
  /\ ReleaseTaken
  /\ UNCHANGED <<timerVars, closed, has_err, close_sig, senderVars>>
  /\ UNCHANGED <<polling, read_age, desync, peerVars>>

\* receive_loop returns and drops recv_future with the task it may hold.
RecvExit ==
  /\ rpc = "clean" /\ pending_task_count <= 0
  /\ rpc' = "exited" /\ resp' = NoResp
  /\ lost' = lost \cup Unfinished
  /\ ReleaseTaken
  /\ UNCHANGED <<timerVars, closed, has_err, close_sig, senderVars>>
  /\ UNCHANGED <<polling, read_age, desync, peerVars>>

\* The last reference to ClientStreamInner goes.
InnerDrop ==
  /\ rpc = "exited" /\ spc = "gone"
  /\ CleanPendingTasks
  /\ inflight' = inflight - Cardinality(Live)
  /\ rpc' = "freed"
  /\ UNCHANGED <<min_delay_seq, reg_stopped_flag, age, has_err, close_sig, lost>>
  /\ UNCHANGED <<closed, senderVars, polling, resp, taken, read_age, desync, peerVars>>

(***************************************************************************)
(* The peer and the network                                                 *)
(***************************************************************************)
\* The server answers a request it has received, in any order; a ping gets the
\* empty response.
PeerReply(s, k) ==
  /\ link # "down" /\ ~owed
  /\ s \in arrived /\ k \notin replied[s]
  /\ Cardinality(replied[s]) < MaxReplies
  /\ IF s \in pings THEN k = "empty" ELSE k \in Kinds
  /\ replied' = [replied EXCEPT ![s] = @ \cup {k}]
  /\ responses' = Append(responses, [seq |-> s, kind |-> k])
  /\ owed' = HasBody(k) /\ half' = FALSE
  /\ UNCHANGED <<timerVars, closed, has_err, close_sig, inflight, lost>>
  /\ UNCHANGED <<senderVars, recvVars, link, arrived>>

\* The first segment of a response ends inside the header.
PeerHalfHead ==
  /\ Splits
  /\ link # "down" /\ ~owed /\ ~half
  /\ \E s \in arrived : replied[s] = {}
  /\ half' = TRUE
  /\ UNCHANGED <<timerVars, closed, has_err, close_sig, inflight, lost>>
  /\ UNCHANGED <<senderVars, recvVars, link, arrived, replied, responses, owed>>

\* The rest of the last response.
PeerBody ==
  /\ link # "down" /\ owed
  /\ owed' = FALSE
  /\ UNCHANGED <<timerVars, closed, has_err, close_sig, inflight, lost>>
  /\ UNCHANGED <<senderVars, recvVars, link, arrived, replied, responses, half>>

\* The connection ends; of what was on the wire some prefix can still be read.
LinkDown ==
  /\ link = "shut" \/ (Faults /\ link = "up")
  /\ link' = "down"
  /\ \E k \in 0 .. Len(responses) : responses' = SubSeq(responses, 1, k)
  /\ owed' \in {owed, TRUE}
  /\ UNCHANGED <<timerVars, closed, has_err, close_sig, inflight, lost>>
  /\ UNCHANGED <<senderVars, recvVars, arrived, replied, half>>

-----------------------------------------------------------------------------
\* What the user's coroutine does on its own once a call has begun.
SenderStep ==
  \/ RefuseTask \/ EncodeReq \/ EncodeReqErr \/ WriteReq \/ WriteReqErr
  \/ SetHasErr \/ Rollback \/ Register \/ Throttle
  \/ CloseConn \/ DropStopReg \/ DropClosed

\* The calls the user may make.
UserCall ==
  \/ SendTask \/ FlushReq \/ FlushReqErr \/ SendPingReq \/ SendPingReqErr
  \/ SetErrorAndExit \/ Drop

\* One step of receive_loop, ticks aside.
ReceiverStep ==
  \/ PollHasErr \/ PollStart \/ LoopOpen \/ LoopClosed
  \/ RecvHead \/ RecvLateHead \/ RecvGarbledHead
  \/ WaitRegDone \/ WaitRegStopped \/ WaitRegPoll
  \/ TakeTask \/ TakeNone \/ RecvBody
  \/ ReadErr \/ ReadCancelled \/ ReadPending
  \/ RecvLoopErr \/ CleanAgain \/ RecvExit \/ InnerDrop

Peer ==
  \/ \E s \in Seqs, k \in Kinds \cup {"empty"} : PeerReply(s, k)
  \/ PeerHalfHead \/ PeerBody \/ LinkDown

Next == SenderStep \/ UserCall \/ ReceiverStep \/ TimeReach \/ Peer

Spec == Init /\ [][Next]_vars

(***************************************************************************)
(* The executor polls a coroutine that can proceed, and the ticker fires    *)
(* every second: while the receiver keeps suspending, ticks keep coming, so *)
(* TimeReach is not starved by the polls in between.  Nothing is assumed of *)
(* the user's calls, the peer or the network.                               *)
(***************************************************************************)
Fairness ==
  /\ WF_vars(SenderStep)
  /\ WF_vars(ReceiverStep)
  /\ SF_vars(TimeReach)

FairSpec == Spec /\ Fairness

-----------------------------------------------------------------------------
(***************************************************************************)
(* Properties                                                               *)
(***************************************************************************)
\* The tasks that were given a sequence number.
Issued == {s \in Seqs : s < seq} \ pings

\* The task send_task still owns.
AtSender == IF spc \in {"write", "write_err", "rollback", "reg"} THEN {cur} ELSE {}

\* Every task that was given a sequence number is in exactly one place: with the
\* sender, in the channel, in the current second, in one batch of a past second,
\* with the reader, handed back to its caller exactly once, or dropped.  No
\* interleaving of send_task, the receiver, the ticker and the error paths makes
\* a task vanish or finish twice (ClientTaskTimer, send_request, receive_loop).
TaskConservation ==
  /\ \A s \in Issued :
       Cardinality({i \in DOMAIN pending_tasks : pending_tasks[i] = s})
       + Cardinality({i \in DOMAIN delay_tasks_queue : s \in delay_tasks_queue[i]})
       + Cardinality({S \in {AtSender} : s \in S})
       + Cardinality({S \in {sent_tasks} : s \in S})
       + Cardinality({S \in {Unfinished} : s \in S})
       + Cardinality({S \in {lost} : s \in S})
       + Cardinality({S \in {unencoded} : s \in S})
       + dones[s] = 1
  /\ \A s \in Seqs \ Issued : dones[s] = 0

\* take_task throws a response with seq < min_delay_seq away as one that came
\* after its timeout: no task that is still waiting is below that mark.
LiveAboveMinDelay == \A s \in Live : min_delay_seq <= s

\* pending_task_count is exactly the tasks between the increment in send_task
\* and the receiver's got_pending_task, which the receiver relies on to know
\* when it may leave; only a request that does not encode is never subtracted.
PendingCountExact ==
  pending_task_count = Len(pending_tasks)
                       + (IF spc \in {"check", "write", "write_err", "rollback",
                                     "reg"} THEN 1 ELSE 0)
                       + Cardinality(unencoded)

\* A task is dropped without its caller being told only when the connection has
\* failed: a request that does not encode, with has_err about to be set, or a
\* response that is half read when has_err makes the receiver leave.
LostOnlyOnError ==
  /\ lost # {} => has_err
  /\ unencoded # {} => has_err \/ spc = "encode_err"

\* Once receive_loop has begun to clean up no task enters the table again, and
\* once it has returned none is waiting anywhere: not in the table, not in the
\* channel, and the sender is not about to register one.  Nobody is left to
\* finish such a task (closed against pending_task_count).
NoneStranded ==
  /\ rpc \in {"clean", "exited", "freed"} => closed /\ Held = {}
  /\ rpc \in {"exited", "freed"} => Live = {} /\ AtSender = {}

\* The ticker times a task out on the tick after task_timeout full ticks in the
\* table, never earlier, and no task stays longer (adjust_task_queue).
TimeoutExact ==
  /\ \A s \in Held : age[s] <= TaskTimeout
  /\ \A s \in Seqs : result[s] = "Timeout" => age[s] = TaskTimeout + 1

\* The wait group counts the task items alive, and the throttler keeps them at
\* most one above the threshold, so that reg_task never finds the channel full.
\* A sender that throttle() holds back has nothing in its write buffer: the
\* responses it waits for are to requests the peer can have seen (nearly_full
\* forces the flush).
WindowExact ==
  /\ inflight = Cardinality(Live) + Cardinality(taken)
                + (IF spc = "reg" THEN 1 ELSE 0)
  /\ inflight <= Thresholds + 1
  /\ spc = "reg" => Len(pending_tasks) < ChanCap
  /\ spc = "throttle" /\ inflight > Thresholds => wbuf = {}

\* A response that take_task finds no task for never belongs to a task that is
\* waiting, unless registration has been stopped (take_task, WaitRegTaskFuture).
LiveResponseKept ==
  [][(TakeNone \/ RecvLateHead \/ WaitRegStopped) =>
       LET s == IF rpc \in {"headC", "headT"} THEN Head(responses).seq ELSE resp.seq
       IN  s \notin Live \cup AtSender \/ reg_stopped_flag]_vars

\* Sequence numbers grow along the channel, above everything drained so far and
\* below the next number to be given out, up to the task at the sender.
ChannelOrdered ==
  /\ \A i, j \in DOMAIN pending_tasks :
       i < j => pending_tasks[i] < pending_tasks[j]
  /\ \A i \in DOMAIN pending_tasks :
       processed_seq < pending_tasks[i] /\ pending_tasks[i] < seq
  /\ processed_seq < seq
  /\ \A s \in AtSender :
       /\ processed_seq < s /\ s < seq
       /\ \A i \in DOMAIN pending_tasks : pending_tasks[i] < s

\* They grow from the oldest batch to the newest and on to the current second.
BatchesOrdered ==
  /\ \A s \in Held : s <= processed_seq
  /\ \A i \in DOMAIN delay_tasks_queue :
       \A s \in sent_tasks, t \in delay_tasks_queue[i] : t < s
  /\ \A i, j \in DOMAIN delay_tasks_queue :
       i < j => \A s \in delay_tasks_queue[i], t \in delay_tasks_queue[j] : t < s

\* The order that lets take_task judge a response by comparing its sequence
\* number with min_delay_seq and processed_seq: the table and the channel are
\* sorted by age, min_delay_seq has not passed processed_seq, and a reader looks
\* a task up only once the channel has been drained as far as that task.
TableOrdered ==
  /\ ChannelOrdered
  /\ BatchesOrdered
  /\ min_delay_seq <= processed_seq
  /\ rpc = "take" => resp.seq <= processed_seq

\* The connection implements RpcCalls.
CallState ==
  [s \in Seqs |-> IF s \in lost \cup unencoded THEN "lost"
                 ELSE IF result[s] # "none" THEN result[s]
                 ELSE IF s \in Issued THEN "open"
                 ELSE "new"]

CallAnswers ==
  [s \in Seqs |-> IF s \in pings THEN {} ELSE {Outcome(k) : k \in replied[s]}]

Abstract == INSTANCE RpcCalls WITH
  Calls <- Seqs,
  PeerOutcomes <- {"Ok", "Peer", "Decode"},
  state <- CallState,
  answers <- CallAnswers

\* A caller sees its call end once, with an answer the peer gave to that call and
\* to no other, or with IO or Timeout, and what it was told never changes
\* (read_resp, take_task, adjust_task_queue, clean_pending_tasks).
ImplementsRpcCalls == Abstract!Spec

\* Every task that is given a sequence number is handed back to its caller: by
\* its response, by the ticker or by the clean-up of the receiver.
EveryTaskFinishes ==
  \A s \in Seqs : (s \in Issued) ~> (dones[s] > 0)

\* After ClientStream is dropped the receiver leaves and the connection is freed.
DropReleasesReceiver == (spc = "gone") ~> (rpc = "freed")

=============================================================================
