-------------------------- MODULE ClientTaskTimer --------------------------
(***************************************************************************)
(* The table of calls that await a response on one client connection       *)
(* (stream/src/client/timer.rs).                                            *)
(*                                                                         *)
(* The sending half of the connection registers a task by pushing it on    *)
(* the channel pending_tasks.  The receiving half drains that channel into *)
(* sent_tasks, ages sent_tasks through delay_tasks_queue once a second, and *)
(* takes a task out of the table when its response arrives.  A task is     *)
(* identified with its sequence number, which the sender makes unique on   *)
(* the connection.                                                         *)
(*                                                                         *)
(* The operators below are the timer's methods; they constrain the timer's *)
(* variables and, where they finish tasks, the variables dones and result. *)
(* Module ClientStream composes them with the two coroutines that call     *)
(* them.                                                                   *)
(***************************************************************************)
EXTENDS Integers, Sequences, FiniteSets, FiniteSetsExt, Functions

CONSTANTS
  MaxSeq,        \* bound: the last sequence number a behaviour uses
  TaskTimeout,   \* ClientConfig.task_timeout, in ticks of one second
  Thresholds     \* ClientConfig.thresholds after 0 is replaced by the default

ASSUME TimerAssumption ==
  /\ MaxSeq \in Nat \ {0}
  /\ TaskTimeout \in Nat
  /\ Thresholds \in Nat \ {0}

\* seq starts from 1: a sequence number of a request on this connection.
Seqs == 1 .. MaxSeq

\* The capacity of the channel between sender and receiver.
ChanCap == 2 * Thresholds

VARIABLES
  pending_tasks,       \* the bounded channel, oldest first
  pending_task_count,  \* the atomic counter shared with the sender
  sent_tasks,          \* tasks of the current second
  delay_tasks_queue,   \* batches of past seconds, the newest at index 1
  min_delay_seq,       \* below this a response is taken for a late one
  processed_seq,       \* the last seq drained from the channel
  reg_stopped_flag,    \* no more task will be registered
  dones,               \* how often each task was handed back to its caller
  result,              \* with which outcome it was last handed back
  age                  \* history: ticks a task has spent in the table

tableVars == <<sent_tasks, delay_tasks_queue, min_delay_seq, processed_seq>>
doneVars == <<dones, result>>
timerVars == <<pending_tasks, pending_task_count, tableVars, reg_stopped_flag,
               doneVars, age>>

Results == {"none", "Ok", "Peer", "Decode", "IO", "Timeout"}

TimerTypeOK ==
  /\ pending_tasks \in Seq(Seqs)
  /\ pending_task_count \in Int
  /\ sent_tasks \in SUBSET Seqs
  /\ delay_tasks_queue \in Seq(SUBSET Seqs)
  /\ Len(delay_tasks_queue) <= TaskTimeout
  /\ min_delay_seq \in 0 .. MaxSeq
  /\ processed_seq \in 0 .. MaxSeq
  /\ reg_stopped_flag \in BOOLEAN
  /\ dones \in [Seqs -> Nat]
  /\ result \in [Seqs -> Results]
  /\ age \in [Seqs -> Nat]

TimerInit ==
  /\ pending_tasks = <<>>
  /\ pending_task_count = 0
  /\ sent_tasks = {}
  /\ delay_tasks_queue = <<>>
  /\ min_delay_seq = 0
  /\ processed_seq = 0
  /\ reg_stopped_flag = FALSE
  /\ dones = [s \in Seqs |-> 0]
  /\ result = [s \in Seqs |-> "none"]
  /\ age = [s \in Seqs |-> 0]

-----------------------------------------------------------------------------
\* The tasks in the batches of past seconds.
Delayed == UNION {delay_tasks_queue[i] : i \in DOMAIN delay_tasks_queue}

\* The tasks the receiver has in its table.
Held == sent_tasks \cup Delayed

\* The tasks the timer owns, those still in the channel included.
Live == Held \cup Range(pending_tasks)

\* set_ok / set_rpc_error / set_custom_error, then done or error_handle (whose
\* default is done): every task of S goes back to its caller with outcome r.
Finish(S, r) ==
  /\ dones' = [s \in Seqs |-> IF s \in S THEN dones[s] + 1 ELSE dones[s]]
  /\ result' = [s \in Seqs |-> IF s \in S THEN r ELSE result[s]]

\* reg_task: the channel send, which waits while the channel is full.
RegTask(s) ==
  /\ Len(pending_tasks) < ChanCap
  /\ pending_tasks' = Append(pending_tasks, s)

\* processed_seq after got_pending_task has seen every item of the channel.
DrainedTo ==
  IF pending_tasks = <<>> THEN processed_seq ELSE pending_tasks[Len(pending_tasks)]

\* got_pending_task for every item of the channel: the counter, processed_seq
\* and the emptied channel.  The two callers differ in where the items end up.
DrainChannel ==
  /\ pending_task_count' = pending_task_count - Len(pending_tasks)
  /\ processed_seq' = DrainedTo
  /\ pending_tasks' = <<>>

\* poll_sent_task, and the draining loop of check_pending_tasks_empty.
PollSentTask ==
  /\ DrainChannel
  /\ sent_tasks' = sent_tasks \cup Range(pending_tasks)

\* Mutant: the batches of past seconds are cleared without failing their tasks.
CleanForgetsBatches ==
  /\ DrainChannel
  /\ sent_tasks' = {}
  /\ delay_tasks_queue' = [i \in DOMAIN delay_tasks_queue |-> {}]
  /\ Finish(sent_tasks \cup Range(pending_tasks), "IO")

\* clean_pending_tasks: everything registered so far fails with IO.  The
\* batches stay in the queue, emptied.
CleanPendingTasks ==
  /\ DrainChannel
  /\ sent_tasks' = {}
  /\ delay_tasks_queue' = [i \in DOMAIN delay_tasks_queue |-> {}]
  /\ Finish(Live, "IO")

\* Mutant: the task is looked up and stays in the table.
LookUpOnly(s) == UNCHANGED <<sent_tasks, delay_tasks_queue>>

\* The removal at the end of take_task: from the current second, else from the
\* newest batch that has the task.
RemoveTask(s) ==
  IF s \in sent_tasks
  THEN /\ sent_tasks' = sent_tasks \ {s}
       /\ UNCHANGED delay_tasks_queue
  ELSE /\ UNCHANGED sent_tasks
       /\ delay_tasks_queue' =
            LET i == CHOOSE i \in DOMAIN delay_tasks_queue :
                       /\ s \in delay_tasks_queue[i]
                       /\ \A j \in 1 .. i - 1 : s \notin delay_tasks_queue[j]
            IN  [delay_tasks_queue EXCEPT ![i] = @ \ {s}]

\* The queue after adjust_task_queue has pushed the current second on it.
AgedQueue == <<sent_tasks>> \o delay_tasks_queue

\* Mutants: a batch is popped one tick early, or never.
OverfullEarly == Len(AgedQueue) >= TaskTimeout
OverfullNever == FALSE

\* The queue is longer than task_timeout: its last batch is popped.
Overfull == Len(AgedQueue) > TaskTimeout

\* The tasks about to be timed out.
Expired == IF Overfull THEN AgedQueue[Len(AgedQueue)] ELSE {}

\* Mutant: everything drained so far is called late.
LateMarkPastProcessed == IF Expired = {} THEN min_delay_seq ELSE processed_seq + 1

\* The new min_delay_seq: the smallest sequence number timed out, if any.
LateMark == IF Expired = {} THEN min_delay_seq ELSE Min(Expired)

\* adjust_task_queue, once a second.
AdjustTaskQueue ==
  /\ sent_tasks' = {}
  /\ delay_tasks_queue' = IF Overfull THEN SubSeq(AgedQueue, 1, Len(AgedQueue) - 1)
                                    ELSE AgedQueue
  /\ min_delay_seq' = LateMark
  /\ Finish(Expired, "Timeout")
  /\ age' = [s \in Seqs |-> IF s \in Held THEN age[s] + 1 ELSE age[s]]
  /\ UNCHANGED <<processed_seq, pending_tasks, pending_task_count,
                 reg_stopped_flag>>

=============================================================================
