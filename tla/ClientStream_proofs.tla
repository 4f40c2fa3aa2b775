----------------------- MODULE ClientStream_proofs -----------------------
(***************************************************************************)
(* Machine-checked proofs about one client connection, for every number of  *)
(* requests, task_timeout, threshold and read_timeout: its types, and the   *)
(* order of sequence numbers in the table with what it gives, that a        *)
(* response is thrown away as a late one only when its task is no longer    *)
(* waiting.                                                                 *)
(***************************************************************************)
EXTENDS ClientStream, TLAPS, SequenceTheorems, FiniteSetTheorems

-----------------------------------------------------------------------------
(***************************************************************************)
(* The operators of the timer keep its types.                               *)
(***************************************************************************)
\* A set of sequence numbers is finite.
LEMMA SeqSetsFinite ==
  ASSUME NEW S \in SUBSET Seqs
  PROVE  IsFiniteSet(S) /\ Cardinality(S) \in Nat
<1>1. IsFiniteSet(Seqs)
  BY SMTT(30), FS_Interval, TimerAssumption DEF Seqs
<1> QED
  BY Zenon, <1>1, FS_Subset, FS_CardinalityType

\* What the timer owns are sequence numbers.
LEMMA LiveTyped ==
  ASSUME TimerTypeOK
  PROVE  /\ Range(pending_tasks) \in SUBSET Seqs
         /\ Delayed \in SUBSET Seqs
         /\ Held \in SUBSET Seqs
         /\ Live \in SUBSET Seqs
<1>1. Range(pending_tasks) \in SUBSET Seqs
  BY SMTT(30) DEF Range, TimerTypeOK
<1>2. Delayed \in SUBSET Seqs
  BY SMTT(30) DEF Delayed, TimerTypeOK
<1>3. Held \in SUBSET Seqs
  BY Zenon, <1>2 DEF Held, TimerTypeOK
<1> QED
  BY Zenon, <1>1, <1>2, <1>3 DEF Live

\* Handing tasks back with an outcome (done, error_handle).
LEMMA FinishTyped ==
  ASSUME TimerTypeOK, NEW S, NEW r \in Results, Finish(S, r)
  PROVE  dones' \in [Seqs -> Nat] /\ result' \in [Seqs -> Results]
BY SMTT(30) DEF TimerTypeOK, Finish

\* Draining the channel (got_pending_task).
LEMMA DrainTyped ==
  ASSUME TimerTypeOK, DrainChannel
  PROVE  /\ pending_tasks' \in Seq(Seqs)
         /\ pending_task_count' \in Int
         /\ processed_seq' \in 0 .. MaxSeq
<1>1. pending_tasks # <<>> => pending_tasks[Len(pending_tasks)] \in Seqs
  BY SMTT(30) DEF TimerTypeOK
<1>2. processed_seq' \in 0 .. MaxSeq
  <2>1. Seqs \subseteq 0 .. MaxSeq
    BY SMTT(30), TimerAssumption DEF Seqs
  <2>2. processed_seq \in 0 .. MaxSeq /\ processed_seq' = DrainedTo
    BY Zenon DEF DrainChannel, TimerTypeOK
  <2> QED
    BY Zenon, <1>1, <2>1, <2>2 DEF DrainedTo
<1>3. pending_task_count' \in Int
  BY SMTT(30) DEF DrainChannel, TimerTypeOK
<1> QED
  BY SMTT(30), <1>2, <1>3 DEF DrainChannel

\* poll_sent_task.
LEMMA PollTyped ==
  ASSUME TimerTypeOK, PollSentTask,
         UNCHANGED <<delay_tasks_queue, min_delay_seq, reg_stopped_flag, doneVars, age>>
  PROVE  TimerTypeOK'
<1>1. sent_tasks' \in SUBSET Seqs
  BY Zenon, LiveTyped DEF PollSentTask, TimerTypeOK
<1> QED
  BY Zenon, <1>1, DrainTyped DEF PollSentTask, TimerTypeOK, doneVars

\* clean_pending_tasks.
LEMMA CleanTyped ==
  ASSUME TimerTypeOK, CleanPendingTasks,
         UNCHANGED <<min_delay_seq, reg_stopped_flag, age>>
  PROVE  TimerTypeOK'
<1>1. dones' \in [Seqs -> Nat] /\ result' \in [Seqs -> Results]
  <2>1. "IO" \in Results
    BY Zenon DEF Results
  <2> QED
    BY Zenon, <2>1, FinishTyped DEF CleanPendingTasks
<1>2. /\ delay_tasks_queue' \in Seq(SUBSET Seqs)
      /\ Len(delay_tasks_queue') = Len(delay_tasks_queue)
  <2>1. DOMAIN delay_tasks_queue = 1 .. Len(delay_tasks_queue)
    BY SMTT(30) DEF TimerTypeOK
  <2>2. Len(delay_tasks_queue) \in Nat
    BY SMTT(30) DEF TimerTypeOK
  <2>3. delay_tasks_queue' = [i \in 1 .. Len(delay_tasks_queue) |-> {}]
    BY Zenon, <2>1 DEF CleanPendingTasks
  <2>4. delay_tasks_queue' \in [1 .. Len(delay_tasks_queue) -> SUBSET Seqs]
    BY Zenon, <2>3
  <2>5. delay_tasks_queue' \in Seq(SUBSET Seqs)
    BY SMTT(30), <2>2, <2>4, SeqDef
  <2>6. DOMAIN delay_tasks_queue' = 1 .. Len(delay_tasks_queue)
    BY Zenon, <2>3
  <2>7. Len(delay_tasks_queue') = Len(delay_tasks_queue)
    BY SMTT(30), <2>2, <2>5, <2>6, LenProperties
  <2> QED
    BY Zenon, <2>5, <2>7
<1>3. sent_tasks' \in SUBSET Seqs
  BY Zenon DEF CleanPendingTasks
<1>4. DrainChannel
  BY Zenon DEF CleanPendingTasks
<1> QED
  BY SMTT(30), <1>1, <1>2, <1>3, <1>4, DrainTyped DEF TimerTypeOK

\* The queue adjust_task_queue works on, after its push_front, without the last batch.
AgedFront == SubSeq(AgedQueue, 1, Len(AgedQueue) - 1)

\* That queue, before and after the pop of a batch.
LEMMA AgedQueueProperties ==
  ASSUME TimerTypeOK
  PROVE  /\ AgedQueue \in Seq(SUBSET Seqs)
         /\ Len(AgedQueue) = Len(delay_tasks_queue) + 1
         /\ AgedQueue[1] = sent_tasks
         /\ \A i \in 1 .. Len(delay_tasks_queue) :
              AgedQueue[i + 1] = delay_tasks_queue[i]
         /\ AgedFront \in Seq(SUBSET Seqs)
         /\ Len(AgedFront) = Len(delay_tasks_queue)
         /\ \A i \in 1 .. Len(delay_tasks_queue) :
              AgedFront[i] = AgedQueue[i]
         /\ AgedQueue[Len(AgedQueue)] = AgedQueue[Len(delay_tasks_queue) + 1]
         /\ Expired \in SUBSET Seqs
<1> USE DEF TimerTypeOK
<1>1. /\ AgedQueue \in Seq(SUBSET Seqs)
      /\ Len(AgedQueue) = Len(delay_tasks_queue) + 1
      /\ AgedQueue[1] = sent_tasks
      /\ \A i \in 1 .. Len(delay_tasks_queue) :
           AgedQueue[i + 1] = delay_tasks_queue[i]
  BY SMTT(30) DEF AgedQueue
<1>2. /\ AgedFront \in Seq(SUBSET Seqs)
      /\ Len(AgedFront) = Len(delay_tasks_queue)
      /\ \A i \in 1 .. Len(delay_tasks_queue) :
           AgedFront[i] = AgedQueue[i]
  <2>1. Len(AgedQueue) - 1 = Len(delay_tasks_queue) /\ Len(delay_tasks_queue) \in Nat
    BY SMTT(30), <1>1
  <2>2. \A i \in 1 .. Len(delay_tasks_queue) : AgedQueue[i] \in SUBSET Seqs
    BY SMTT(30), <1>1, <2>1
  <2>3. /\ SubSeq(AgedQueue, 1, Len(delay_tasks_queue)) \in Seq(SUBSET Seqs)
        /\ Len(SubSeq(AgedQueue, 1, Len(delay_tasks_queue)))
             = IF 1 <= Len(delay_tasks_queue)
               THEN Len(delay_tasks_queue) - 1 + 1 ELSE 0
        /\ \A i \in 1 .. Len(delay_tasks_queue) - 1 + 1 :
             SubSeq(AgedQueue, 1, Len(delay_tasks_queue))[i] = AgedQueue[1 + i - 1]
    BY SMTT(30), <2>1, <2>2, SubSeqProperties
  <2>4. AgedFront = SubSeq(AgedQueue, 1, Len(delay_tasks_queue))
    BY Zenon, <2>1 DEF AgedFront
  <2>5. \A i \in 1 .. Len(delay_tasks_queue) : AgedFront[i] = AgedQueue[i]
    <3> SUFFICES ASSUME NEW i \in 1 .. Len(delay_tasks_queue)
                 PROVE  AgedFront[i] = AgedQueue[i]
      OBVIOUS
    <3>1. i \in 1 .. Len(delay_tasks_queue) - 1 + 1 /\ 1 + i - 1 = i
      BY SMTT(30), <2>1
    <3> QED
      BY SMTT(30), <2>3, <2>4, <3>1
  <2> QED
    BY SMTT(30), <2>1, <2>3, <2>4, <2>5
<1>3. AgedQueue[Len(AgedQueue)] = AgedQueue[Len(delay_tasks_queue) + 1]
  BY Zenon, <1>1
<1>4. Expired \in SUBSET Seqs
  BY SMTT(30), <1>1, <1>3 DEF Expired, Overfull
<1> QED
  BY SMTT(30), <1>1, <1>2, <1>3, <1>4

\* The smallest of a non-empty set of sequence numbers is one of them.
LEMMA MinOfSeqs ==
  ASSUME NEW S \in SUBSET Seqs, S # {}
  PROVE  Min(S) \in S /\ \A s \in S : Min(S) <= s
<1>1. S \subseteq Nat
  BY SMTT(30), TimerAssumption DEF Seqs
<1>2. \E x \in S : \A y \in S : ~(<<y, x>> \in OpToRel(<, Nat))
  BY Zenon, <1>1, WFMin, NatLessThanWellFounded, Zenon
<1>3. \A x, y \in Nat : <<x, y>> \in OpToRel(<, Nat) <=> x < y
  BY Zenon DEF OpToRel
<1>4. PICK x \in S : \A y \in S : ~(<<y, x>> \in OpToRel(<, Nat))
  BY ZenonT(30), <1>2
<1>5. \A y \in S : ~(y < x)
  BY Zenon, <1>1, <1>3, <1>4
<1>6. \A y \in S : x =< y
  BY SMTT(30), <1>1, <1>5
<1> QED
  BY Zenon, <1>6 DEF Min

\* adjust_task_queue.
LEMMA AdjustTyped ==
  ASSUME TimerTypeOK, AdjustTaskQueue
  PROVE  TimerTypeOK'
<1>1. dones' \in [Seqs -> Nat] /\ result' \in [Seqs -> Results]
  <2>1. "Timeout" \in Results
    BY Zenon DEF Results
  <2> QED
    BY SMTT(30), <2>1, FinishTyped DEF AdjustTaskQueue
<1>2. delay_tasks_queue' \in Seq(SUBSET Seqs) /\ Len(delay_tasks_queue') <= TaskTimeout
  BY SMTT(30), AgedQueueProperties, TimerAssumption DEF AdjustTaskQueue, Overfull, AgedFront, TimerTypeOK
<1>3. min_delay_seq' \in 0 .. MaxSeq
  <2>1. CASE Expired = {}
    BY Zenon, <2>1 DEF AdjustTaskQueue, LateMark, TimerTypeOK
  <2>2. CASE Expired # {}
    <3>1. Min(Expired) \in Seqs
      BY SMTT(30), <2>2, AgedQueueProperties, MinOfSeqs
    <3> QED
      BY SMTT(30), <2>2, <3>1, TimerAssumption DEF AdjustTaskQueue, LateMark, Seqs
  <2> QED
    BY SMTT(30), <2>1, <2>2
<1>4. age' \in [Seqs -> Nat]
  BY SMTT(30) DEF AdjustTaskQueue, TimerTypeOK
<1>5. sent_tasks' \in SUBSET Seqs
  BY Zenon DEF AdjustTaskQueue
<1> QED
  BY SMTT(30), <1>1, <1>2, <1>3, <1>4, <1>5 DEF AdjustTaskQueue, TimerTypeOK

\* The removal in take_task takes the task out of the table and nothing else.
LEMMA RemoveProperties ==
  ASSUME TimerTypeOK, NEW s \in Held, RemoveTask(s)
  PROVE  /\ sent_tasks' \subseteq sent_tasks /\ sent_tasks \ {s} \subseteq sent_tasks'
         /\ delay_tasks_queue' \in Seq(SUBSET Seqs)
         /\ Len(delay_tasks_queue') = Len(delay_tasks_queue)
         /\ \A i \in 1 .. Len(delay_tasks_queue) :
              /\ delay_tasks_queue'[i] \subseteq delay_tasks_queue[i]
              /\ delay_tasks_queue[i] \ {s} \subseteq delay_tasks_queue'[i]
         /\ \/ s \in sent_tasks /\ s \notin sent_tasks'
               /\ delay_tasks_queue' = delay_tasks_queue
            \/ s \notin sent_tasks /\ sent_tasks' = sent_tasks
               /\ \E i \in 1 .. Len(delay_tasks_queue) :
                    s \in delay_tasks_queue[i] /\ s \notin delay_tasks_queue'[i]
<1> USE DEF TimerTypeOK
<1>1. CASE s \in sent_tasks
  <2>1. sent_tasks' = sent_tasks \ {s} /\ delay_tasks_queue' = delay_tasks_queue
    BY SMTT(30), <1>1 DEF RemoveTask
  <2> QED
    BY SMTT(30), <1>1, <2>1
<1>2. CASE s \notin sent_tasks
  <2> DEFINE n == Len(delay_tasks_queue)
             First(i) == /\ s \in delay_tasks_queue[i]
                         /\ \A j \in 1 .. i - 1 : s \notin delay_tasks_queue[j]
             k == CHOOSE i \in DOMAIN delay_tasks_queue : First(i)
             At == {i \in 1 .. n : s \in delay_tasks_queue[i]}
  <2>1. n \in Nat /\ DOMAIN delay_tasks_queue = 1 .. n
    OBVIOUS
  <2>2. At # {}
    BY SMTT(30), <1>2, <2>1 DEF Held, Delayed
  <2>3. At \subseteq Nat
    BY SMTT(30), <2>1
  <2>4. \E i \in At : \A j \in At : ~(<<j, i>> \in OpToRel(<, Nat))
    BY Zenon, <2>2, <2>3, WFMin, NatLessThanWellFounded
  <2>5. \A x, y \in Nat : <<x, y>> \in OpToRel(<, Nat) <=> x < y
    BY Zenon DEF OpToRel
  <2>6. PICK i \in At : \A j \in At : ~(<<j, i>> \in OpToRel(<, Nat))
    BY ZenonT(30), <2>4
  <2>7. \A j \in At : ~(j < i)
    BY Zenon, <2>3, <2>5, <2>6, Zenon
  <2>8. i \in DOMAIN delay_tasks_queue /\ First(i)
    BY SMTT(30), <2>1, <2>7
  <2>9. k \in 1 .. n /\ s \in delay_tasks_queue[k]
    BY SMTT(30), <2>1, <2>8
  <2>10. sent_tasks' = sent_tasks
    BY SMTT(30), <1>2 DEF RemoveTask
  <2>11. delay_tasks_queue' = [delay_tasks_queue EXCEPT ![k] = delay_tasks_queue[k] \ {s}]
    BY ZenonT(30), <1>2 DEF RemoveTask
  <2> HIDE DEF k, First, At
  <2>12. /\ delay_tasks_queue' \in Seq(SUBSET Seqs)
         /\ Len(delay_tasks_queue') = n
         /\ \A j \in 1 .. n : delay_tasks_queue'[j]
               = IF j = k THEN delay_tasks_queue[k] \ {s} ELSE delay_tasks_queue[j]
    <3>1. delay_tasks_queue[k] \ {s} \in SUBSET Seqs
      BY SMTT(30), <2>1, <2>9
    <3> QED
      BY SMTT(30), <2>1, <2>9, <2>11, <3>1, ExceptSeq
  <2> QED
    BY ZenonT(30), <1>2, <2>1, <2>9, <2>10, <2>12
<1> QED
  BY SMTT(30), <1>1, <1>2

\* The removal keeps the types.
LEMMA RemoveTyped ==
  ASSUME TimerTypeOK, NEW s \in Held, RemoveTask(s)
  PROVE  /\ sent_tasks' \in SUBSET Seqs
         /\ delay_tasks_queue' \in Seq(SUBSET Seqs)
         /\ Len(delay_tasks_queue') <= TaskTimeout
BY Zenon, RemoveProperties DEF TimerTypeOK

-----------------------------------------------------------------------------
(***************************************************************************)
(* Who changes what.                                                        *)
(***************************************************************************)
\* Only the user's coroutine changes its own variables.
LEMMA SenderFrame ==
  ASSUME ReceiverStep \/ TimeReach \/ Peer
  PROVE  UNCHANGED senderVars
BY ZenonT(30) DEF ReceiverStep, Peer, senderVars, TimeReach, PollHasErr, PollStart, LoopOpen,
       LoopClosed, RecvHead, RecvLateHead, RecvGarbledHead, WaitRegDone,
       WaitRegStopped, WaitRegPoll, TakeTask, TakeNone, RecvBody, ReadErr,
       ReadCancelled, ReadPending, RecvLoopErr, CleanAgain, RecvExit, InnerDrop,
       PeerReply, PeerHalfHead, PeerBody, LinkDown

\* Only the receiver changes its own variables.
LEMMA RecvFrame ==
  ASSUME SenderStep \/ UserCall \/ Peer
  PROVE  UNCHANGED recvVars
BY ZenonT(30) DEF SenderStep, UserCall, Peer, recvVars, RefuseTask, EncodeReq, EncodeReqErr,
       WriteReq, WriteReqErr, SetHasErr, Rollback, Register, Throttle, CloseConn,
       DropStopReg, DropClosed, SendTask, FlushReq, FlushReqErr, SendPingReq,
       SendPingReqErr, SetErrorAndExit, Drop, PeerReply, PeerHalfHead, PeerBody, LinkDown

\* The peer and the network touch nothing of the client.
LEMMA PeerFrame ==
  ASSUME Peer
  PROVE  UNCHANGED <<timerVars, closed, has_err, close_sig, inflight, lost>>
BY ZenonT(30) DEF Peer, PeerReply, PeerHalfHead, PeerBody, LinkDown

\* Sending leaves the receiver's table alone.
LEMMA TableFrame ==
  ASSUME SenderStep \/ UserCall \/ Peer
  PROVE  UNCHANGED <<tableVars, age>>
BY ZenonT(30) DEF SenderStep, UserCall, Peer, timerVars, tableVars, RefuseTask, EncodeReq,
       EncodeReqErr, WriteReq, WriteReqErr, SetHasErr, Rollback, Register, Throttle,
       CloseConn, DropStopReg, DropClosed, SendTask, FlushReq, FlushReqErr, SendPingReq,
       SendPingReqErr, SetErrorAndExit, Drop, PeerReply, PeerHalfHead, PeerBody,
       LinkDown

\* The steps of the user's coroutine that leave the timer alone.
QuietSender ==
  \/ EncodeReq \/ EncodeReqErr \/ WriteReq \/ WriteReqErr \/ Throttle \/ CloseConn
  \/ DropClosed \/ FlushReq \/ FlushReqErr \/ SendPingReq \/ SendPingReqErr \/ SetErrorAndExit
  \/ Drop

\* The steps of the receiver that leave the timer alone.
QuietReceiver ==
  \/ PollHasErr \/ LoopOpen \/ RecvHead \/ RecvLateHead \/ RecvGarbledHead
  \/ WaitRegDone \/ WaitRegStopped \/ TakeNone \/ ReadCancelled \/ ReadPending
  \/ RecvExit

\* The steps that drain the channel into the table, those that hand the reader's
\* task back, and those that fail everything.
DrainStep == PollStart \/ LoopClosed \/ WaitRegPoll
ReaderDone == RecvBody \/ ReadErr
CleanStep == RecvLoopErr \/ CleanAgain \/ InnerDrop

\* The quiet steps leave the timer alone.
LEMMA QuietFrame ==
  ASSUME QuietSender \/ QuietReceiver
  PROVE  UNCHANGED timerVars
BY ZenonT(30) DEF QuietSender, QuietReceiver, EncodeReq, EncodeReqErr, WriteReq, WriteReqErr,
       Throttle, CloseConn, DropClosed, FlushReq, FlushReqErr, SendPingReq,
       SendPingReqErr, SetErrorAndExit, Drop, PollHasErr, LoopOpen, RecvHead, RecvLateHead,
       RecvGarbledHead, WaitRegDone, WaitRegStopped, TakeNone, ReadCancelled,
       ReadPending, RecvExit

\* What the receiver's poll of the channel leaves alone.
LEMMA DrainFrame ==
  ASSUME DrainStep
  PROVE  /\ PollSentTask
         /\ UNCHANGED <<delay_tasks_queue, min_delay_seq, reg_stopped_flag, doneVars,
                        age, closed, has_err, close_sig, inflight, lost, taken>>
BY Zenon DEF DrainStep, PollStart, LoopClosed, WaitRegPoll

\* What the end of a read changes and leaves alone.
LEMMA ReaderDoneFrame ==
  ASSUME RecvTypeOK, ReaderDone
  PROVE  /\ \E r \in {"Ok", "Peer", "Decode", "IO"} : Finish(Unfinished, r)
         /\ ReleaseTaken
         /\ UNCHANGED <<pending_tasks, pending_task_count, tableVars,
                        reg_stopped_flag, age, closed, has_err, close_sig, lost>>
<1>1. CASE RecvBody
  <2>1. resp.kind \in AllKinds
    BY Zenon, <1>1 DEF RecvBody, RecvTypeOK, Resps
  <2>2. Outcome(resp.kind) \in {"Ok", "Peer", "Decode", "IO"}
    BY SMTT(30), <2>1 DEF Outcome, AllKinds
  <2> QED
    BY SMTT(30), <1>1, <2>2 DEF RecvBody
<1>2. CASE ReadErr
  BY SMTT(30), <1>2 DEF ReadErr
<1> QED
  BY SMTT(30), <1>1, <1>2 DEF ReaderDone

\* What the cleanup at exit changes and leaves alone.
LEMMA CleanFrame ==
  ASSUME CleanStep
  PROVE  /\ CleanPendingTasks
         /\ inflight' = inflight - Cardinality(Live)
         /\ UNCHANGED <<min_delay_seq, reg_stopped_flag, age, has_err, close_sig,
                        lost, taken>>
BY SMTT(30) DEF CleanStep, RecvLoopErr, CleanAgain, InnerDrop, recvVars

\* Every step is of one of these kinds.
LEMMA Steps ==
  ASSUME Next
  PROVE  \/ QuietSender \/ SendTask \/ RefuseTask \/ Rollback \/ Register
         \/ SetHasErr \/ DropStopReg
         \/ QuietReceiver \/ DrainStep \/ TakeTask \/ ReaderDone \/ CleanStep
         \/ TimeReach \/ Peer
BY SMTT(30) DEF Next, SenderStep, UserCall, ReceiverStep, QuietSender, QuietReceiver,
       DrainStep, ReaderDone, CleanStep

-----------------------------------------------------------------------------
(***************************************************************************)
(* Type correctness.                                                        *)
(***************************************************************************)
LEMMA TimerTypeStep ==
  ASSUME TypeOK, Next
  PROVE  TimerTypeOK'
<1>1. CASE QuietSender \/ QuietReceiver \/ Peer
  BY SMTT(30), <1>1, QuietFrame, PeerFrame
     DEF TypeOK, TimerTypeOK, timerVars, tableVars, doneVars
<1>2. CASE SendTask \/ RefuseTask
  BY SMTT(30), <1>2 DEF SendTask, RefuseTask, TypeOK, TimerTypeOK, tableVars, doneVars
<1>3. CASE SetHasErr \/ DropStopReg
  BY ZenonT(30), <1>3 DEF SetHasErr, DropStopReg, TypeOK, TimerTypeOK, tableVars, doneVars
<1>4. CASE Rollback
  <2>1. dones' \in [Seqs -> Nat] /\ result' \in [Seqs -> Results]
    <3>1. "IO" \in Results
      BY SMTT(30) DEF Results
    <3> QED
      BY SMTT(30), <1>4, <3>1, FinishTyped DEF Rollback, TypeOK
  <2> QED
    BY SMTT(30), <1>4, <2>1 DEF Rollback, TypeOK, TimerTypeOK, tableVars
<1>5. CASE Register
  <2>1. pending_tasks' \in Seq(Seqs)
    BY SMTT(30), <1>5 DEF Register, RegTask, TypeOK, TimerTypeOK, SenderTypeOK
  <2> QED
    BY SMTT(30), <1>5, <2>1 DEF Register, TypeOK, TimerTypeOK, tableVars, doneVars
<1>6. CASE DrainStep
  BY SMTT(30), <1>6, DrainFrame, PollTyped DEF TypeOK
<1>7. CASE TakeTask
  <2>1. resp \in Resps
    BY SMTT(30), <1>7 DEF TakeTask, TypeOK, RecvTypeOK
  <2>2. resp.kind \in AllKinds
    BY SMTT(30), <2>1 DEF Resps
  <2>3. Outcome(resp.kind) \in Results
    BY SMTT(30), <2>2 DEF Outcome, AllKinds, Results
  <2>4. dones' \in [Seqs -> Nat] /\ result' \in [Seqs -> Results]
    <3>1. CASE Finish({resp.seq}, Outcome(resp.kind))
      BY SMTT(30), <2>3, <3>1, FinishTyped DEF TypeOK
    <3>2. CASE UNCHANGED doneVars
      BY SMTT(30), <3>2 DEF doneVars, TypeOK, TimerTypeOK
    <3> QED
      BY SMTT(30), <1>7, <3>1, <3>2 DEF TakeTask
  <2>5. /\ sent_tasks' \in SUBSET Seqs
        /\ delay_tasks_queue' \in Seq(SUBSET Seqs)
        /\ Len(delay_tasks_queue') <= TaskTimeout
    BY SMTT(30), <1>7, RemoveTyped DEF TakeTask, TypeOK
  <2> QED
    BY SMTT(30), <1>7, <2>4, <2>5 DEF TakeTask, TypeOK, TimerTypeOK
<1>8. CASE ReaderDone
  <2>1. dones' \in [Seqs -> Nat] /\ result' \in [Seqs -> Results]
    <3>1. {"Ok", "Peer", "Decode", "IO"} \subseteq Results
      BY Zenon DEF Results
    <3> QED
      BY SMTT(30), <1>8, <3>1, ReaderDoneFrame, FinishTyped DEF TypeOK
  <2> QED
    BY SMTT(30), <1>8, <2>1, ReaderDoneFrame DEF TypeOK, TimerTypeOK, tableVars
<1>9. CASE CleanStep
  BY SMTT(30), <1>9, CleanFrame, CleanTyped DEF TypeOK
<1>10. CASE TimeReach
  BY SMTT(30), <1>10, AdjustTyped DEF TimeReach, TypeOK
<1> QED
  BY SMTT(30), <1>1, <1>2, <1>3, <1>4, <1>5, <1>6, <1>7, <1>8, <1>9, <1>10, Steps

\* Every step keeps the types of the shared state.
LEMMA SharedTypeStep ==
  ASSUME TypeOK, Next
  PROVE  SharedTypeOK'
<1> USE DEF TypeOK, SharedTypeOK
<1>1. Cardinality(Live) \in Nat /\ Cardinality(taken) \in Nat /\ Cardinality(Expired) \in Nat
  BY SMTT(30), SeqSetsFinite, LiveTyped, AgedQueueProperties DEF RecvTypeOK
<1>2. Unfinished \in SUBSET Seqs
  BY Zenon DEF Unfinished, RecvTypeOK
<1>3. CASE QuietSender
  <2>1. CASE EncodeReq \/ EncodeReqErr \/ Throttle \/ FlushReq \/ FlushReqErr
    BY ZenonT(30), <2>1 DEF EncodeReq, EncodeReqErr, Throttle, FlushReq, FlushReqErr
  <2>2. CASE WriteReq
    BY SMTT(30), <2>2 DEF WriteReq
  <2>3. CASE WriteReqErr
    BY SMTT(30), <2>3 DEF WriteReqErr
  <2>4. CASE CloseConn \/ DropClosed \/ SendPingReq \/ SendPingReqErr \/ SetErrorAndExit
             \/ Drop
    BY ZenonT(30), <2>4 DEF CloseConn, DropClosed, SendPingReq, SendPingReqErr, SetErrorAndExit,
                Drop
  <2> QED
    BY SMTT(30), <1>3, <2>1, <2>2, <2>3, <2>4 DEF QuietSender
<1>4. CASE SendTask \/ RefuseTask \/ Rollback \/ Register \/ SetHasErr \/ DropStopReg
  BY ZenonT(30), <1>4 DEF SendTask, RefuseTask, Rollback, Register, SetHasErr, DropStopReg
<1>5. CASE QuietReceiver
  <2>1. CASE RecvExit
    BY SMTT(30), <1>1, <1>2, <2>1 DEF RecvExit, ReleaseTaken
  <2>2. CASE ~RecvExit
    BY ZenonT(30), <1>5, <2>2 DEF QuietReceiver, PollHasErr, LoopOpen, RecvHead, RecvLateHead,
                      RecvGarbledHead, WaitRegDone, WaitRegStopped, TakeNone,
                      ReadCancelled, ReadPending
  <2> QED
    BY SMTT(30), <2>1, <2>2
<1>6. CASE DrainStep
  BY SMTT(30), <1>6, DrainFrame
<1>7. CASE TakeTask
  BY SMTT(30), <1>7 DEF TakeTask
<1>8. CASE ReaderDone
  BY SMTT(30), <1>1, <1>8, ReaderDoneFrame DEF ReleaseTaken
<1>9. CASE CleanStep
  <2>1. closed' \in BOOLEAN
    BY ZenonT(30), <1>9 DEF CleanStep, RecvLoopErr, CleanAgain, InnerDrop
  <2> QED
    BY SMTT(30), <1>1, <1>9, <2>1, CleanFrame
<1>10. CASE TimeReach
  BY SMTT(30), <1>1, <1>10 DEF TimeReach
<1>11. CASE Peer
  BY SMTT(30), <1>11, PeerFrame
<1> QED
  BY SMTT(30), <1>3, <1>4, <1>5, <1>6, <1>7, <1>8, <1>9, <1>10, <1>11, Steps

\* Every step keeps the types of the sender's state.
LEMMA SenderTypeStep ==
  ASSUME TypeOK, Next
  PROVE  SenderTypeOK'
<1> USE TimerAssumption DEF TypeOK, SenderTypeOK, SenderStates
<1>0. seq <= MaxSeq => seq \in Seqs /\ seq + 1 \in 1 .. MaxSeq + 1
  BY SMTT(30) DEF Seqs
<1>1. CASE ReceiverStep \/ TimeReach \/ Peer
  BY SMTT(30), <1>1, SenderFrame DEF senderVars
<1>2. CASE RefuseTask \/ Rollback \/ Register \/ Throttle
  <2>1. CASE RefuseTask
    BY ZenonT(30), <2>1 DEF RefuseTask
  <2>2. CASE Rollback
    BY SMTT(30), <2>2 DEF Rollback
  <2>3. CASE Register
    BY SMTT(30), <2>3 DEF Register
  <2>4. CASE Throttle
    BY SMTT(30), <2>4 DEF Throttle
  <2> QED
    BY SMTT(30), <1>2, <2>1, <2>2, <2>3, <2>4
<1>10. CASE EncodeReq
  BY SMTT(30), <1>0, <1>10 DEF EncodeReq, Seqs
<1>3. CASE EncodeReqErr
  BY ZenonT(30), <1>0, <1>3 DEF EncodeReqErr
<1>4. CASE WriteReq
  BY ZenonT(30), <1>4 DEF WriteReq
<1>5. CASE WriteReqErr
  BY ZenonT(30), <1>5 DEF WriteReqErr
<1>6. CASE CloseConn
  BY SMTT(30), <1>6 DEF CloseConn
<1>7. CASE DropStopReg \/ DropClosed \/ Drop \/ SetErrorAndExit \/ SendTask
  BY ZenonT(30), <1>7 DEF DropStopReg, DropClosed, Drop, SetErrorAndExit, SendTask
<1>8. CASE FlushReq \/ FlushReqErr \/ SetHasErr
  BY SMTT(30), <1>8 DEF FlushReq, FlushReqErr, SetHasErr
<1>9. CASE SendPingReq \/ SendPingReqErr
  BY SMTT(30), <1>0, <1>9 DEF SendPingReq, SendPingReqErr
<1> QED
  BY ZenonT(30), <1>1, <1>2, <1>3, <1>4, <1>5, <1>6, <1>7, <1>8, <1>9, <1>10
     DEF Next, SenderStep, UserCall

\* Every step keeps the types of the receiver's state.
LEMMA RecvTypeStep ==
  ASSUME TypeOK, Next
  PROVE  RecvTypeOK'
<1> USE DEF TypeOK, RecvTypeOK, RecvStates
<1>1. CASE SenderStep \/ UserCall \/ Peer
  BY SMTT(30), <1>1, RecvFrame DEF recvVars
<1>2. CASE TimeReach
  BY SMTT(30), <1>2, StreamAssumption DEF TimeReach
<1>3. CASE PollHasErr \/ PollStart \/ LoopOpen \/ LoopClosed
  <2>1. CASE PollHasErr
    BY SMTT(30), <2>1 DEF PollHasErr
  <2>2. CASE PollStart
    BY SMTT(30), <2>2 DEF PollStart
  <2>3. CASE LoopOpen
    BY SMTT(30), <2>3 DEF LoopOpen
  <2>4. CASE LoopClosed
    BY SMTT(30), <2>4 DEF LoopClosed
  <2> QED
    BY SMTT(30), <1>3, <2>1, <2>2, <2>3, <2>4
<1>4. CASE RecvHead \/ RecvLateHead
  <2>1. Head(responses) \in Resps
    BY SMTT(30), <1>4 DEF RecvHead, RecvLateHead, HeadArrived, PeerTypeOK
  <2>2. CASE RecvHead
    BY Zenon, <2>1, <2>2 DEF RecvHead
  <2>3. CASE RecvLateHead
    BY ZenonT(30), <2>1, <2>3 DEF RecvLateHead
  <2> QED
    BY SMTT(30), <1>4, <2>2, <2>3
<1>5. CASE RecvGarbledHead \/ WaitRegDone
  BY Zenon, <1>5 DEF RecvGarbledHead, WaitRegDone
<1>6. CASE WaitRegStopped \/ TakeNone
  BY SMTT(30), <1>6 DEF WaitRegStopped, TakeNone, BodyOrLoop
<1>7. CASE WaitRegPoll
  BY ZenonT(30), <1>7 DEF WaitRegPoll
<1>8. CASE TakeTask
  <2>1. resp \in Resps /\ resp.seq \in Seqs
    BY SMTT(30), <1>8 DEF TakeTask, Resps
  <2> QED
    BY SMTT(30), <1>8, <2>1 DEF TakeTask, BodyOrLoop
<1>9. CASE RecvBody \/ ReadErr
  BY SMTT(30), <1>9 DEF RecvBody, ReadErr, ReleaseTaken
<1>10. CASE ReadCancelled \/ ReadPending
  BY ZenonT(30), <1>10 DEF ReadCancelled, ReadPending, Cancelled, PeerTypeOK
<1>11. CASE RecvLoopErr \/ CleanAgain \/ InnerDrop
  BY ZenonT(30), <1>11 DEF RecvLoopErr, CleanAgain, InnerDrop, recvVars
<1>12. CASE RecvExit
  BY SMTT(30), <1>12 DEF RecvExit, ReleaseTaken
<1> QED
  BY ZenonT(30), <1>1, <1>2, <1>3, <1>4, <1>5, <1>6, <1>7, <1>8, <1>9, <1>10, <1>11, <1>12
     DEF Next, ReceiverStep

\* Every step keeps the types of the peer's state.
LEMMA PeerTypeStep ==
  ASSUME TypeOK, Next
  PROVE  PeerTypeOK'
<1> USE DEF TypeOK, PeerTypeOK
<1>1. CASE SenderStep \/ UserCall
  <2> USE DEF peerVars, Deliver, DeliverPrefixOf, SenderTypeOK
  <2>1. seq <= MaxSeq => seq \in Seqs
    BY SMTT(30), TimerAssumption DEF Seqs
  <2>2. CASE RefuseTask \/ EncodeReq \/ EncodeReqErr \/ SetHasErr \/ Rollback \/ Register
             \/ Throttle
    BY ZenonT(30), <2>2 DEF RefuseTask, EncodeReq, EncodeReqErr, SetHasErr, Rollback, Register,
                Throttle
  <2>3. CASE WriteReq \/ WriteReqErr
    BY SMTT(30), <2>3 DEF WriteReq, WriteReqErr
  <2>4. CASE CloseConn
    BY SMTT(30), <2>4 DEF CloseConn
  <2>5. CASE DropStopReg \/ DropClosed \/ SendTask \/ SetErrorAndExit \/ Drop
    <3>1. UNCHANGED peerVars
      BY ZenonT(30), <2>5 DEF DropStopReg, DropClosed, SendTask, SetErrorAndExit, Drop
    <3> QED
      BY ZenonT(30), <3>1
  <2>6. CASE FlushReq \/ FlushReqErr
    BY SMTT(30), <2>6 DEF FlushReq, FlushReqErr
  <2>7. CASE SendPingReq \/ SendPingReqErr
    BY SMTT(30), <2>1, <2>7 DEF SendPingReq, SendPingReqErr
  <2> QED
    BY SMTT(30), <1>1, <2>2, <2>3, <2>4, <2>5, <2>6, <2>7 DEF SenderStep, UserCall
<1>2. CASE RecvHead \/ RecvLateHead
  <2>1. responses # <<>> /\ responses' = Tail(responses)
    BY ZenonT(30), <1>2 DEF RecvHead, RecvLateHead, HeadArrived
  <2>2. responses' \in Seq(Resps)
    BY SMTT(30), <2>1
  <2> QED
    BY ZenonT(30), <1>2, <2>2 DEF RecvHead, RecvLateHead
<1>3. CASE ReadCancelled
  BY ZenonT(30), <1>3 DEF ReadCancelled
<1>4. CASE TimeReach \/ (ReceiverStep /\ ~RecvHead /\ ~RecvLateHead /\ ~ReadCancelled)
  <2>1. UNCHANGED peerVars
    BY ZenonT(30), <1>4
       DEF ReceiverStep, TimeReach, PollHasErr, PollStart, LoopOpen, LoopClosed,
                RecvGarbledHead, WaitRegDone, WaitRegStopped, WaitRegPoll, TakeTask,
                TakeNone, RecvBody, ReadErr, ReadPending, RecvLoopErr, CleanAgain,
                RecvExit, InnerDrop
  <2> QED
    BY SMTT(30), <2>1 DEF peerVars
<1>5. CASE Peer
  <2>1. ASSUME NEW s \in Seqs, NEW k \in Kinds \cup {"empty"}, PeerReply(s, k)
        PROVE  PeerTypeOK'
    <3>1. k \in AllKinds
      BY SMTT(30), StreamAssumption DEF AllKinds
    <3>2. [seq |-> s, kind |-> k] \in Resps
      BY SMTT(30), <3>1 DEF Resps
    <3>3. responses' \in Seq(Resps)
      BY SMTT(30), <2>1, <3>2 DEF PeerReply
    <3>4. owed' \in BOOLEAN
      BY SMTT(30), <2>1 DEF PeerReply, HasBody
    <3>5. half' \in BOOLEAN
      BY ZenonT(30), <2>1 DEF PeerReply
    <3>6. replied' \in [Seqs -> SUBSET AllKinds]
      BY SMTT(30), <2>1, <3>1 DEF PeerReply
    <3>7. link' = link /\ arrived' = arrived
      BY Zenon, <2>1 DEF PeerReply
    <3> QED
      BY SMTT(30), <3>3, <3>4, <3>5, <3>6, <3>7
  <2>2. CASE PeerHalfHead \/ PeerBody
    BY ZenonT(30), <2>2 DEF PeerHalfHead, PeerBody
  <2>3. CASE LinkDown
    <3>1. PICK k \in 0 .. Len(responses) : responses' = SubSeq(responses, 1, k)
      BY Zenon, <2>3 DEF LinkDown
    <3>2. \A i \in 1 .. k : responses[i] \in Resps
      BY SMTT(30), <3>1
    <3>3. responses' \in Seq(Resps)
      BY SMTT(30), <3>1, <3>2, SubSeqProperties
    <3> QED
      BY ZenonT(30), <2>3, <3>3 DEF LinkDown
  <2> QED
    BY SMTT(30), <1>5, <2>1, <2>2, <2>3 DEF Peer
<1> QED
  BY SMTT(30), <1>1, <1>2, <1>3, <1>4, <1>5 DEF Next, ReceiverStep

\* Every variable of the connection keeps its type, for any constants.
THEOREM TypeCorrect == Spec => []TypeOK
<1>1. Init => TypeOK
  <2> SUFFICES ASSUME Init PROVE TypeOK
    OBVIOUS
  <2>1. TimerTypeOK
    <3>1. reg_stopped_flag \in BOOLEAN
      BY ZenonT(30) DEF Init, TimerInit
    <3>2. /\ dones \in [Seqs -> Nat] /\ age \in [Seqs -> Nat]
          /\ result \in [Seqs -> Results]
      BY Zenon DEF Init, TimerInit, Results
    <3>3. /\ pending_tasks \in Seq(Seqs)
          /\ delay_tasks_queue \in Seq(SUBSET Seqs) /\ Len(delay_tasks_queue) = 0
      BY SMTT(30) DEF Init, TimerInit
    <3>4. /\ pending_task_count \in Int /\ sent_tasks \in SUBSET Seqs
          /\ min_delay_seq \in 0 .. MaxSeq /\ processed_seq \in 0 .. MaxSeq
      BY SMTT(30), TimerAssumption DEF Init, TimerInit
    <3> QED
      BY SMTT(30), <3>1, <3>2, <3>3, <3>4, TimerAssumption DEF TimerTypeOK
  <2>2. SharedTypeOK
    <3>1. closed \in BOOLEAN
      BY ZenonT(30) DEF Init
    <3>2. has_err \in BOOLEAN
      BY ZenonT(30) DEF Init
    <3>3. close_sig \in BOOLEAN
      BY ZenonT(30) DEF Init
    <3>4. inflight \in Int /\ lost \in SUBSET Seqs
      BY SMTT(30) DEF Init
    <3> QED
      BY Zenon, <3>1, <3>2, <3>3, <3>4 DEF SharedTypeOK
  <2>3. SenderTypeOK
    <3>1. need_flush \in BOOLEAN
      BY ZenonT(30) DEF Init
    <3>2. seq = 1 /\ spc = "idle" /\ cur = 0
      BY Zenon DEF Init
    <3>3. wbuf = {} /\ pings = {} /\ unencoded = {}
      BY Zenon DEF Init
    <3> QED
      BY SMTT(30), <3>1, <3>2, <3>3, TimerAssumption DEF SenderTypeOK, SenderStates
  <2>4. RecvTypeOK
    BY ZenonT(30) DEF Init, RecvTypeOK, RecvStates
  <2>5. PeerTypeOK
    <3>1. owed \in BOOLEAN
      BY ZenonT(30) DEF Init
    <3>2. half \in BOOLEAN
      BY ZenonT(30) DEF Init
    <3>3. link = "up" /\ arrived = {} /\ responses = <<>>
      BY Zenon DEF Init
    <3>4. replied \in [Seqs -> SUBSET AllKinds]
      BY Zenon DEF Init
    <3> QED
      BY SMTT(30), <3>1, <3>2, <3>3, <3>4 DEF PeerTypeOK
  <2> QED
    BY SMTT(30), <2>1, <2>2, <2>3, <2>4, <2>5 DEF TypeOK
<1>2. TypeOK /\ [Next]_vars => TypeOK'
  <2> SUFFICES ASSUME TypeOK, [Next]_vars PROVE TypeOK'
    OBVIOUS
  <2>1. CASE Next
    BY SMTT(30), <2>1, TimerTypeStep, SharedTypeStep, SenderTypeStep, RecvTypeStep, PeerTypeStep
       DEF TypeOK
  <2>2. CASE UNCHANGED vars
    <3>1. UNCHANGED <<timerVars, closed, has_err, close_sig, inflight, lost, senderVars,
                      recvVars, peerVars>>
      BY Zenon, <2>2 DEF vars
    <3>2. TimerTypeOK'
      BY Zenon, <3>1 DEF TypeOK, TimerTypeOK, timerVars, tableVars, doneVars
    <3>3. SharedTypeOK'
      BY Zenon, <3>1 DEF TypeOK, SharedTypeOK
    <3>4. SenderTypeOK'
      BY Zenon, <3>1 DEF TypeOK, SenderTypeOK, senderVars
    <3>5. RecvTypeOK'
      BY Zenon, <3>1 DEF TypeOK, RecvTypeOK, recvVars
    <3>6. PeerTypeOK'
      BY Zenon, <3>1 DEF TypeOK, PeerTypeOK, peerVars
    <3> QED
      BY SMTT(30), <3>2, <3>3, <3>4, <3>5, <3>6 DEF TypeOK
  <2> QED
    BY Zenon, <2>1, <2>2
<1> QED
  BY <1>1, <1>2, PTL DEF Spec

-----------------------------------------------------------------------------
(***************************************************************************)
(* What the timer's operators do to the order.                              *)
(***************************************************************************)
\* Draining the channel moves processed_seq up to its last task, and no further.
LEMMA DrainOrder ==
  ASSUME TypeOK, ChannelOrdered, DrainChannel
  PROVE  /\ processed_seq <= processed_seq' /\ processed_seq' < seq
         /\ \A s \in Range(pending_tasks) : processed_seq < s /\ s <= processed_seq'
         /\ \A s \in AtSender : processed_seq' < s
<1> DEFINE n == Len(pending_tasks)
<1>0. pending_tasks \in Seq(Seqs)
  BY Zenon DEF TypeOK, TimerTypeOK
<1>1. n \in Nat /\ DOMAIN pending_tasks = 1 .. n
  BY Zenon, <1>0, LenProperties
<1>2. \A i \in 1 .. n : pending_tasks[i] \in Int
  <2>1. \A i \in 1 .. n : pending_tasks[i] \in Seqs
    BY SMTT(30), <1>0
  <2>2. Seqs \subseteq Int
    BY SMTT(30) DEF Seqs
  <2> QED
    BY ZenonT(30), <2>1, <2>2
<1>3. processed_seq \in Int
  BY SMTT(30) DEF TypeOK, TimerTypeOK
<1>4. CASE pending_tasks = <<>>
  <2>1. processed_seq' = processed_seq /\ Range(pending_tasks) = {}
    BY SMTT(30), <1>4 DEF DrainChannel, DrainedTo, Range
  <2> QED
    BY SMTT(30), <1>3, <2>1 DEF ChannelOrdered
<1>5. CASE pending_tasks # <<>>
  <2>1. n >= 1
    BY SMTT(30), <1>5 DEF TypeOK, TimerTypeOK
  <2>2. processed_seq' = pending_tasks[n]
    BY Zenon, <1>5 DEF DrainChannel, DrainedTo
  <2>3. \A s \in Range(pending_tasks) : \E i \in 1 .. n : s = pending_tasks[i]
    BY Zenon, <1>1 DEF Range
  <2> HIDE DEF n
  <2>4. n \in 1 .. n
    BY SMTT(30), <1>1, <2>1
  <2>5. \A i \in 1 .. n : i # n => i < n
    BY SMTT(30), <1>1
  <2>6. \A i \in 1 .. n : i < n => pending_tasks[i] < pending_tasks[n]
    BY Zenon, <1>1, <2>4 DEF ChannelOrdered
  <2>7. \A i \in 1 .. n : pending_tasks[i] <= pending_tasks[n]
    BY SMTT(30), <1>1, <1>2, <2>4, <2>5, <2>6
  <2>8. \A i \in 1 .. n : processed_seq < pending_tasks[i] /\ pending_tasks[i] < seq
    BY Zenon, <1>1 DEF ChannelOrdered
  <2>9. processed_seq <= processed_seq' /\ processed_seq' < seq
    BY SMTT(30), <1>2, <1>3, <2>2, <2>4, <2>8
  <2>10. \A s \in Range(pending_tasks) : processed_seq < s /\ s <= processed_seq'
    BY Zenon, <2>2, <2>3, <2>7, <2>8
  <2>11. \A s \in AtSender : processed_seq' < s
    BY Zenon, <1>1, <2>2, <2>4 DEF ChannelOrdered
  <2> QED
    BY Zenon, <2>9, <2>10, <2>11
<1> QED
  BY Zenon, <1>4, <1>5

\* An emptied channel is in order when processed_seq has stayed below the sender.
LEMMA EmptyChannelOrdered ==
  ASSUME pending_tasks' = <<>>, processed_seq' < seq', UNCHANGED <<seq, cur, spc>>,
         ChannelOrdered, \A s \in AtSender : processed_seq' < s
  PROVE  ChannelOrdered'
<1>1. DOMAIN pending_tasks' = {}
  BY SMT
<1>2. AtSender' = AtSender
  BY Zenon DEF AtSender
<1> QED
  BY Zenon, <1>1, <1>2 DEF ChannelOrdered

\* The whole table is in order when it is empty.
LEMMA EmptyBatchesOrdered ==
  ASSUME sent_tasks' = {}, \A i \in DOMAIN delay_tasks_queue' : delay_tasks_queue'[i] = {}
  PROVE  BatchesOrdered' /\ Held' = {}
BY Zenon DEF BatchesOrdered, Held, Delayed

\* poll_sent_task.
LEMMA PollOrder ==
  ASSUME TypeOK, TableOrdered, PollSentTask,
         UNCHANGED <<delay_tasks_queue, seq, cur, spc>>
  PROVE  ChannelOrdered' /\ BatchesOrdered' /\ processed_seq <= processed_seq'
<1> USE DEF TypeOK, TimerTypeOK
<1>1. DrainChannel
  BY Zenon DEF PollSentTask
<1>2. /\ processed_seq <= processed_seq' /\ processed_seq' < seq
      /\ \A s \in Range(pending_tasks) : processed_seq < s /\ s <= processed_seq'
      /\ \A s \in AtSender : processed_seq' < s
  BY Zenon, <1>1, DrainOrder DEF TableOrdered
<1>3. ChannelOrdered'
  BY Zenon, <1>1, <1>2, EmptyChannelOrdered DEF TableOrdered, DrainChannel
<1>4. sent_tasks' = sent_tasks \cup Range(pending_tasks) /\ Delayed' = Delayed
  BY Zenon DEF PollSentTask, Delayed
<1>5. processed_seq' \in Nat /\ processed_seq \in Nat
  BY SMTT(30), <1>1, DrainTyped
<1>6. Held \in SUBSET Seqs /\ Range(pending_tasks) \in SUBSET Seqs
  BY Zenon, LiveTyped
<1>7. \A s \in Held' : s <= processed_seq'
  <2>1. Held' = Held \cup Range(pending_tasks)
    BY Zenon, <1>4 DEF Held
  <2>2. Held \subseteq Nat
    BY SMTT(30), <1>6 DEF Seqs
  <2>3. \A a, b, c \in Nat : a <= b /\ b <= c => a <= c
    OBVIOUS
  <2> QED
    BY Zenon, <1>2, <1>5, <2>1, <2>2, <2>3 DEF TableOrdered, BatchesOrdered
<1>8. \A i \in DOMAIN delay_tasks_queue :
        \A s \in sent_tasks', t \in delay_tasks_queue[i] : t < s
  <2> SUFFICES ASSUME NEW i \in DOMAIN delay_tasks_queue, NEW s \in sent_tasks',
                      NEW t \in delay_tasks_queue[i]
               PROVE  t < s
    OBVIOUS
  <2>1. t \in Held
    BY Zenon DEF Held, Delayed
  <2>2. CASE s \in sent_tasks
    BY Zenon, <2>2 DEF TableOrdered, BatchesOrdered
  <2>3. CASE s \in Range(pending_tasks)
    <3>1. t <= processed_seq /\ processed_seq < s
      BY Zenon, <1>2, <2>1, <2>3 DEF TableOrdered, BatchesOrdered
    <3>2. t \in Nat /\ s \in Nat
      BY SMTT(30), <1>6, <2>1, <2>3 DEF Seqs
    <3> QED
      BY SMTT(30), <1>5, <3>1, <3>2
  <2> QED
    BY Zenon, <1>4, <2>2, <2>3
<1>9. BatchesOrdered'
  BY SMTT(30), <1>7, <1>8 DEF TableOrdered, BatchesOrdered
<1> QED
  BY Zenon, <1>2, <1>3, <1>9

\* clean_pending_tasks leaves an empty table and an empty channel.
LEMMA CleanOrder ==
  ASSUME TypeOK, TableOrdered, CleanPendingTasks, UNCHANGED <<seq, cur, spc>>
  PROVE  /\ ChannelOrdered' /\ BatchesOrdered' /\ processed_seq <= processed_seq'
         /\ Live' = {}
<1>1. DrainChannel
  BY Zenon DEF CleanPendingTasks
<1>2. /\ processed_seq <= processed_seq' /\ processed_seq' < seq
      /\ \A s \in AtSender : processed_seq' < s
  BY Zenon, <1>1, DrainOrder DEF TableOrdered
<1>3. ChannelOrdered'
  BY Zenon, <1>1, <1>2, EmptyChannelOrdered DEF TableOrdered, DrainChannel
<1>4. sent_tasks' = {} /\ \A i \in DOMAIN delay_tasks_queue' : delay_tasks_queue'[i] = {}
  BY Zenon DEF CleanPendingTasks
<1>5. BatchesOrdered' /\ Held' = {}
  BY Zenon, <1>4, EmptyBatchesOrdered
<1>6. Range(pending_tasks') = {}
  BY SMTT(30), <1>1 DEF DrainChannel, Range
<1>7. Live' = {}
  BY Zenon, <1>5, <1>6 DEF Live
<1> QED
  BY Zenon, <1>2, <1>3, <1>5, <1>7

\* The batches adjust_task_queue works on, the current second first, are sorted.
LEMMA AgedQueueOrder ==
  ASSUME TypeOK, BatchesOrdered
  PROVE  /\ DOMAIN AgedQueue = 1 .. Len(delay_tasks_queue) + 1
         /\ \A i \in DOMAIN AgedQueue : AgedQueue[i] \subseteq Held
         /\ \A i, j \in DOMAIN AgedQueue :
              i < j => \A s \in AgedQueue[i], t \in AgedQueue[j] : t < s
<1> DEFINE n == Len(delay_tasks_queue)
<1>1. n \in Nat /\ DOMAIN delay_tasks_queue = 1 .. n
  BY Zenon, LenProperties DEF TypeOK, TimerTypeOK
<1>2. /\ AgedQueue[1] = sent_tasks
      /\ \A i \in 1 .. n : AgedQueue[i + 1] = delay_tasks_queue[i]
  BY Zenon, AgedQueueProperties DEF TypeOK
<1>3. DOMAIN AgedQueue = 1 .. n + 1
  BY Zenon, AgedQueueProperties, LenProperties DEF TypeOK
<1> HIDE DEF n
<1>4. \A i \in 1 .. n + 1 : i = 1 \/ (i - 1 \in 1 .. n /\ (i - 1) + 1 = i)
  BY SMTT(30), <1>1
<1>5. \A i \in 1 .. n + 1 : i # 1 => AgedQueue[i] = delay_tasks_queue[i - 1]
  BY Zenon, <1>2, <1>4
<1>6. \A i \in 1 .. n + 1 : AgedQueue[i] \subseteq Held
  BY SMTT(30), <1>1, <1>2, <1>4, <1>5 DEF Held, Delayed
<1>7. ASSUME NEW i \in 1 .. n + 1, NEW j \in 1 .. n + 1, i < j,
             NEW s \in AgedQueue[i], NEW t \in AgedQueue[j]
      PROVE  t < s
  <2>1. j - 1 \in 1 .. n /\ t \in delay_tasks_queue[j - 1]
    BY SMTT(30), <1>1, <1>5, <1>7
  <2>2. CASE i = 1
    BY Zenon, <1>1, <1>2, <2>1, <2>2 DEF BatchesOrdered
  <2>3. CASE i # 1
    <3>1. i - 1 \in 1 .. n /\ s \in delay_tasks_queue[i - 1] /\ i - 1 < j - 1
      BY SMTT(30), <1>1, <1>4, <1>5, <1>7, <2>3
    <3> QED
      BY Zenon, <1>1, <2>1, <3>1 DEF BatchesOrdered
  <2> QED
    BY Zenon, <2>2, <2>3
<1> QED
  BY Zenon, <1>3, <1>6, <1>7 DEF n

\* adjust_task_queue keeps the batches it works on, but for the one it times out.
LEMMA AdjustBatches ==
  ASSUME TypeOK, AdjustTaskQueue
  PROVE  LET n == Len(delay_tasks_queue)
             m == Len(delay_tasks_queue')
         IN  /\ n \in Nat /\ DOMAIN AgedQueue = 1 .. n + 1
             /\ DOMAIN delay_tasks_queue' = 1 .. m
             /\ \A i \in 1 .. m : delay_tasks_queue'[i] = AgedQueue[i]
             /\ \/ m = n /\ n + 1 > TaskTimeout /\ Expired = AgedQueue[n + 1]
                \/ m = n + 1 /\ Expired = {}
<1> DEFINE n == Len(delay_tasks_queue)
<1>1. n \in Nat /\ Len(AgedQueue) = n + 1 /\ DOMAIN AgedQueue = 1 .. n + 1
  BY Zenon, AgedQueueProperties, LenProperties DEF TypeOK, TimerTypeOK
<1>2. CASE Len(AgedQueue) > TaskTimeout
  <2>1. delay_tasks_queue' = AgedFront /\ Expired = AgedQueue[Len(AgedQueue)]
    BY Zenon, <1>2 DEF AdjustTaskQueue, Expired, Overfull, AgedFront
  <2> QED
    BY Zenon, <1>1, <1>2, <2>1, AgedQueueProperties, LenProperties DEF TypeOK
<1>3. CASE ~(Len(AgedQueue) > TaskTimeout)
  <2>1. delay_tasks_queue' = AgedQueue /\ Expired = {}
    BY Zenon, <1>3 DEF AdjustTaskQueue, Expired, Overfull
  <2> QED
    BY Zenon, <1>1, <2>1
<1> QED
  BY Zenon, <1>2, <1>3

\* adjust_task_queue moves min_delay_seq up to the oldest task it times out, and
\* everything that stays in the table is younger.
LEMMA AdjustOrder ==
  ASSUME TypeOK, TableOrdered, LiveAboveMinDelay, AdjustTaskQueue
  PROVE  /\ BatchesOrdered'
         /\ Held' \subseteq Held
         /\ \A s \in Held' : min_delay_seq' <= s
         /\ min_delay_seq' <= processed_seq
<1> DEFINE n == Len(delay_tasks_queue)
           D == AgedQueue
           m == Len(delay_tasks_queue')
<1>1. n \in Nat /\ DOMAIN D = 1 .. n + 1
  BY Zenon, AgedQueueOrder, LenProperties DEF TypeOK, TimerTypeOK, TableOrdered
<1>2. /\ \A i \in 1 .. n + 1 : D[i] \subseteq Held
      /\ \A i, j \in 1 .. n + 1 : i < j => \A s \in D[i], t \in D[j] : t < s
  BY Zenon, <1>1, AgedQueueOrder DEF TableOrdered
<1>3. /\ m \in {n, n + 1} /\ DOMAIN delay_tasks_queue' = 1 .. m
      /\ \A i \in 1 .. m : delay_tasks_queue'[i] = D[i]
      /\ Expired # {} => m = n /\ Expired = D[n + 1]
  BY ZenonT(30), AdjustBatches
<1>4. sent_tasks' = {} /\ processed_seq' = processed_seq
  BY Zenon DEF AdjustTaskQueue
<1>5. Held \in SUBSET Seqs /\ Expired \in SUBSET Seqs
  BY Zenon, LiveTyped, AgedQueueProperties DEF TypeOK
<1> HIDE DEF n, D, m
<1>6. \A i \in 1 .. m : i \in 1 .. n + 1
  BY SMTT(30), <1>1, <1>3
<1>7. \A s \in Held' : \E i \in 1 .. m : s \in D[i]
  BY Zenon, <1>3, <1>4 DEF Held, Delayed
<1>8. Held' \subseteq Held
  BY Zenon, <1>2, <1>6, <1>7
<1>9. BatchesOrdered'
  <2>1. \A s \in Held' : s <= processed_seq'
    BY Zenon, <1>4, <1>8 DEF TableOrdered, BatchesOrdered
  <2>2. \A i, j \in DOMAIN delay_tasks_queue' :
          i < j => \A s \in delay_tasks_queue'[i], t \in delay_tasks_queue'[j] : t < s
    BY Zenon, <1>2, <1>3, <1>6
  <2> QED
    BY Zenon, <1>4, <2>1, <2>2 DEF BatchesOrdered
<1>10. CASE Expired = {}
  <2>1. min_delay_seq' = min_delay_seq
    BY Zenon, <1>10 DEF AdjustTaskQueue, LateMark
  <2> QED
    BY Zenon, <1>8, <1>9, <2>1 DEF LiveAboveMinDelay, Live, TableOrdered
<1>11. CASE Expired # {}
  <2>1. min_delay_seq' = Min(Expired) /\ Min(Expired) \in Expired
    BY Zenon, <1>5, <1>11, MinOfSeqs DEF AdjustTaskQueue, LateMark
  <2>2. Min(Expired) \in D[n + 1] /\ n + 1 \in 1 .. n + 1
    BY SMTT(30), <1>1, <1>3, <1>11, <2>1
  <2>3. \A i \in 1 .. m : i \in 1 .. n + 1 /\ i < n + 1
    BY SMTT(30), <1>1, <1>3, <1>11
  <2>4. \A s \in Held' : Min(Expired) < s
    BY SMTT(30), <1>2, <1>7, <2>2, <2>3
  <2>5. \A s \in Held' : s \in Int /\ Min(Expired) \in Int
    <3>1. Seqs \subseteq Int
      BY SMTT(30) DEF Seqs
    <3> QED
      BY Zenon, <1>5, <1>8, <2>1, <3>1
  <2>6. \A s \in Held' : min_delay_seq' <= s
    <3> SUFFICES ASSUME NEW s \in Held' PROVE min_delay_seq' <= s
      OBVIOUS
    <3>1. min_delay_seq' \in Int /\ s \in Int /\ min_delay_seq' < s
      BY SMTT(30), <2>1, <2>4, <2>5
    <3> QED
      BY SMTT(30), <3>1
  <2>7. Min(Expired) \in Held
    BY Zenon, <1>2, <2>2
  <2>8. min_delay_seq' <= processed_seq
    BY Zenon, <2>1, <2>7 DEF TableOrdered, BatchesOrdered
  <2> QED
    BY Zenon, <1>8, <1>9, <2>6, <2>8
<1> QED
  BY Zenon, <1>10, <1>11

\* The removal in take_task keeps the order of what is left.
LEMMA RemoveOrder ==
  ASSUME TypeOK, BatchesOrdered, NEW s \in Held, RemoveTask(s), UNCHANGED processed_seq
  PROVE  BatchesOrdered' /\ Held' \subseteq Held
<1>1. /\ sent_tasks' \subseteq sent_tasks
      /\ \A i \in 1 .. Len(delay_tasks_queue) :
           delay_tasks_queue'[i] \subseteq delay_tasks_queue[i]
  BY Zenon, RemoveProperties DEF TypeOK
<1>2. /\ DOMAIN delay_tasks_queue = 1 .. Len(delay_tasks_queue)
      /\ DOMAIN delay_tasks_queue' = DOMAIN delay_tasks_queue
  <2>1. /\ delay_tasks_queue' \in Seq(SUBSET Seqs)
        /\ delay_tasks_queue \in Seq(SUBSET Seqs)
        /\ Len(delay_tasks_queue') = Len(delay_tasks_queue)
    BY Zenon, RemoveProperties DEF TypeOK, TimerTypeOK
  <2> QED
    BY Zenon, <2>1, LenProperties
<1>3. \A i \in DOMAIN delay_tasks_queue : delay_tasks_queue'[i] \subseteq delay_tasks_queue[i]
  BY Zenon, <1>1, <1>2
<1>4. Held' \subseteq Held
  BY Zenon, <1>1, <1>2, <1>3 DEF Held, Delayed
<1>5. BatchesOrdered'
  <2>1. \A t \in Held' : t <= processed_seq'
    BY Zenon, <1>4 DEF BatchesOrdered
  <2>2. \A i \in DOMAIN delay_tasks_queue' :
          \A x \in sent_tasks', t \in delay_tasks_queue'[i] : t < x
    BY Zenon, <1>1, <1>2, <1>3 DEF BatchesOrdered
  <2>3. \A i, j \in DOMAIN delay_tasks_queue' :
          i < j => \A x \in delay_tasks_queue'[i], t \in delay_tasks_queue'[j] : t < x
    BY Zenon, <1>2, <1>3 DEF BatchesOrdered
  <2> QED
    BY Zenon, <2>1, <2>2, <2>3 DEF BatchesOrdered
<1> QED
  BY Zenon, <1>4, <1>5

-----------------------------------------------------------------------------
(***************************************************************************)
(* The invariant: the types, the order of the table, and the mark below     *)
(* which a response is late.                                                *)
(***************************************************************************)
OrderInv == TypeOK /\ TableOrdered /\ LiveAboveMinDelay

\* A reader that is about to look its task up finds the channel drained as far
\* as that task (WaitRegTaskFuture before take_task's removal).
LEMMA TakeStep ==
  ASSUME OrderInv, Next, processed_seq <= processed_seq', processed_seq' \in Int
  PROVE  (rpc = "take" => resp.seq <= processed_seq)'
<1> SUFFICES ASSUME rpc' = "take" PROVE resp.seq' <= processed_seq'
  OBVIOUS
<1>1. processed_seq \in Int
  BY SMTT(30) DEF OrderInv, TypeOK, TimerTypeOK
<1>2. CASE rpc = "take" /\ resp' = resp
  <2>1. resp.seq <= processed_seq /\ resp.seq \in Int
    BY SMTT(30), <1>2 DEF OrderInv, TableOrdered, TypeOK, RecvTypeOK, Resps, Seqs
  <2> QED
    BY SMTT(30), <1>1, <1>2, <2>1
<1>3. CASE RecvHead
  <2>1. Head(responses) \in Resps
    BY SMTT(30), <1>3 DEF RecvHead, HeadArrived, OrderInv, TypeOK, PeerTypeOK
  <2>2. Head(responses).seq \in Int
    BY SMTT(30), <2>1 DEF Resps, Seqs
  <2>3. resp' = Head(responses) /\ ~(Head(responses).seq > processed_seq)
    BY Zenon, <1>3 DEF RecvHead
  <2> QED
    BY SMTT(30), <1>1, <2>2, <2>3
<1>4. CASE WaitRegDone
  <2>1. resp' = resp /\ processed_seq >= resp.seq
    BY Zenon, <1>4 DEF WaitRegDone
  <2>2. resp.seq \in Int
    BY SMTT(30), <1>4 DEF WaitRegDone, OrderInv, TypeOK, RecvTypeOK, Resps, Seqs
  <2> QED
    BY SMTT(30), <1>1, <2>1, <2>2
<1>5. CASE WaitRegPoll
  <2>1. resp' = resp /\ processed_seq' >= resp.seq
    BY Zenon, <1>5 DEF WaitRegPoll
  <2>2. resp.seq \in Int
    BY SMTT(30), <1>5 DEF WaitRegPoll, OrderInv, TypeOK, RecvTypeOK, Resps, Seqs
  <2> QED
    BY Zenon, <2>1, <2>2
<1>6. CASE SenderStep \/ UserCall \/ Peer
  BY Zenon, <1>2, <1>6, RecvFrame DEF recvVars
<1>7. CASE TimeReach \/ PollStart \/ ReadPending
  BY Zenon, <1>2, <1>7 DEF TimeReach, PollStart, ReadPending
<1>8. CASE ReceiverStep /\ ~RecvHead /\ ~WaitRegDone /\ ~WaitRegPoll /\ ~PollStart
           /\ ~ReadPending
  <2>1. ~(rpc' = "take")
    BY ZenonT(30), <1>8 DEF ReceiverStep, PollHasErr, LoopOpen, LoopClosed, RecvLateHead,
                RecvGarbledHead, WaitRegStopped, TakeTask, TakeNone, RecvBody, ReadErr,
                ReadCancelled, RecvLoopErr, CleanAgain, RecvExit, InnerDrop,
                BodyOrLoop, recvVars
  <2> QED
    BY Zenon, <2>1
<1> QED
  BY SMTT(30), <1>3, <1>4, <1>5, <1>6, <1>7, <1>8 DEF Next

\* A step that leaves the timer and the sender alone keeps the order.
LEMMA SameOrder ==
  ASSUME TableOrdered, LiveAboveMinDelay,
         UNCHANGED <<pending_tasks, tableVars, seq, cur, spc>>
  PROVE  ChannelOrdered' /\ BatchesOrdered' /\ LiveAboveMinDelay'
<1>1. AtSender' = AtSender
  BY Zenon DEF AtSender
<1>2. Delayed' = Delayed /\ Held' = Held /\ Live' = Live
  BY SMTT(30) DEF Delayed, Held, Live, tableVars
<1>3. ChannelOrdered'
  BY Zenon, <1>1 DEF TableOrdered, ChannelOrdered, tableVars
<1>4. BatchesOrdered'
  BY Zenon, <1>2 DEF TableOrdered, BatchesOrdered, tableVars
<1> QED
  BY Zenon, <1>2, <1>3, <1>4 DEF LiveAboveMinDelay, tableVars

\* Nothing reaches the table while the sender works: only its own end of the
\* order may change.
LEMMA SenderOrder ==
  ASSUME TableOrdered, LiveAboveMinDelay, UNCHANGED <<pending_tasks, tableVars>>,
         ChannelOrdered'
  PROVE  ChannelOrdered' /\ BatchesOrdered' /\ LiveAboveMinDelay'
<1>1. Delayed' = Delayed /\ Held' = Held /\ Live' = Live
  BY SMTT(30) DEF Delayed, Held, Live, tableVars
<1> QED
  BY Zenon, <1>1 DEF TableOrdered, BatchesOrdered, LiveAboveMinDelay, tableVars

\* A new sequence number is above everything that has one.
LEMMA NextSeqOrder ==
  ASSUME TypeOK, ChannelOrdered, UNCHANGED <<pending_tasks, processed_seq>>,
         seq' = seq + 1, AtSender' \subseteq {seq}
  PROVE  ChannelOrdered'
<1>1. seq \in Int /\ processed_seq \in Int
  BY SMTT(30) DEF TypeOK, SenderTypeOK, TimerTypeOK
<1>2. \A i \in DOMAIN pending_tasks : pending_tasks[i] \in Int
  <2>1. \A i \in DOMAIN pending_tasks : pending_tasks[i] \in Seqs
    BY SMTT(30) DEF TypeOK, TimerTypeOK
  <2> QED
    BY SMTT(30), <2>1 DEF Seqs
<1>3. \A i \in DOMAIN pending_tasks : pending_tasks[i] < seq
  BY Zenon DEF ChannelOrdered
<1>4. \A i \in DOMAIN pending_tasks' :
        processed_seq' < pending_tasks'[i] /\ pending_tasks'[i] < seq'
  BY SMTT(30), <1>1, <1>2, <1>3 DEF ChannelOrdered
<1>5. processed_seq' < seq'
  BY SMTT(30), <1>1 DEF ChannelOrdered
<1>6. \A s \in AtSender' :
        /\ processed_seq' < s /\ s < seq'
        /\ \A i \in DOMAIN pending_tasks' : pending_tasks'[i] < s
  BY SMTT(30), <1>1, <1>3 DEF ChannelOrdered
<1> QED
  BY Zenon, <1>4, <1>5, <1>6 DEF ChannelOrdered

\* The steps of the user's coroutine.
LEMMA SenderOrderStep ==
  ASSUME OrderInv, SenderStep \/ UserCall
  PROVE  ChannelOrdered' /\ BatchesOrdered' /\ LiveAboveMinDelay'
<1> USE DEF OrderInv
<1>1. UNCHANGED tableVars
  BY Zenon, TableFrame
<1>2. CASE EncodeReq \/ EncodeReqErr \/ SendPingReq \/ SendPingReqErr
  <2>1. UNCHANGED <<pending_tasks, processed_seq>> /\ seq' = seq + 1
    BY Zenon, <1>2
       DEF EncodeReq, EncodeReqErr, SendPingReq, SendPingReqErr, timerVars, tableVars
  <2>2. AtSender' \subseteq {seq}
    BY Zenon, <1>2 DEF EncodeReq, EncodeReqErr, SendPingReq, SendPingReqErr, AtSender
  <2>3. ChannelOrdered'
    BY Zenon, <2>1, <2>2, NextSeqOrder DEF TableOrdered
  <2> QED
    BY Zenon, <1>1, <2>1, <2>3, SenderOrder
<1>3. CASE \/ SendTask \/ RefuseTask \/ WriteReq \/ WriteReqErr \/ SetHasErr \/ Rollback
           \/ Throttle
           \/ FlushReq \/ FlushReqErr \/ SetErrorAndExit \/ CloseConn \/ Drop
           \/ DropStopReg \/ DropClosed
  <2>1. UNCHANGED <<pending_tasks, seq>>
    BY ZenonT(30), <1>3
       DEF SendTask, RefuseTask, WriteReq, WriteReqErr, SetHasErr, Rollback, Throttle,
                FlushReq, FlushReqErr, SetErrorAndExit, CloseConn, Drop, DropStopReg,
                DropClosed, timerVars, senderVars
  <2>2. AtSender' \subseteq AtSender
    BY ZenonT(30), <1>3
       DEF SendTask, RefuseTask, WriteReq, WriteReqErr, SetHasErr, Rollback, Throttle,
                FlushReq, FlushReqErr, SetErrorAndExit, CloseConn, Drop, DropStopReg,
                DropClosed, senderVars, AtSender
  <2>3. ChannelOrdered'
    <3>1. pending_tasks' = pending_tasks /\ processed_seq' = processed_seq /\ seq' = seq
      BY Zenon, <1>1, <2>1 DEF tableVars
    <3> QED
      BY Zenon, <2>2, <3>1 DEF TableOrdered, ChannelOrdered
  <2> QED
    BY SMTT(30), <1>1, <2>1, <2>3, SenderOrder
<1>4. CASE Register
  <2>1. pending_tasks' = Append(pending_tasks, cur) /\ seq' = seq /\ AtSender' = {}
    BY Zenon, <1>4 DEF Register, RegTask, AtSender
  <2>2. /\ processed_seq < cur /\ cur < seq /\ cur \in Seqs
        /\ \A i \in DOMAIN pending_tasks : pending_tasks[i] < cur
    <3>1. cur \in AtSender
      BY Zenon, <1>4 DEF Register, AtSender
    <3>2. cur \in Seqs
      BY Zenon, <1>4 DEF Register, TypeOK, SenderTypeOK
    <3> QED
      BY Zenon, <3>1, <3>2 DEF TableOrdered, ChannelOrdered
  <2> DEFINE n == Len(pending_tasks)
  <2>3. /\ n \in Nat /\ DOMAIN pending_tasks = 1 .. n /\ DOMAIN pending_tasks' = 1 .. n + 1
        /\ \A i \in 1 .. n : pending_tasks'[i] = pending_tasks[i]
        /\ pending_tasks'[n + 1] = cur
    <3>1. pending_tasks \in Seq(Seqs)
      BY Zenon DEF TypeOK, TimerTypeOK
    <3> QED
      BY SMTT(30), <2>1, <2>2, <3>1
  <2> HIDE DEF n
  <2>4. \A i \in 1 .. n + 1 : i = n + 1 \/ i \in 1 .. n
    BY SMTT(30), <2>3
  <2>5. \A i, j \in 1 .. n + 1 : i < j => i \in 1 .. n
    BY SMTT(30), <2>3
  <2>6. ChannelOrdered'
    <3>0. processed_seq' = processed_seq
      BY Zenon, <1>1 DEF tableVars
    <3>1. \A i, j \in DOMAIN pending_tasks' : i < j => pending_tasks'[i] < pending_tasks'[j]
      <4> SUFFICES ASSUME NEW i \in 1 .. n + 1, NEW j \in 1 .. n + 1, i < j
                   PROVE  pending_tasks'[i] < pending_tasks'[j]
        BY Zenon, <2>3
      <4>1. i \in 1 .. n /\ pending_tasks'[i] = pending_tasks[i]
        BY Zenon, <2>3, <2>5
      <4>2. CASE j = n + 1
        BY Zenon, <2>2, <2>3, <4>1, <4>2
      <4>3. CASE j \in 1 .. n
        BY Zenon, <2>3, <4>1, <4>3 DEF TableOrdered, ChannelOrdered
      <4> QED
        BY Zenon, <2>4, <4>2, <4>3
    <3>2. \A i \in DOMAIN pending_tasks' :
            processed_seq' < pending_tasks'[i] /\ pending_tasks'[i] < seq'
      BY Zenon, <2>1, <2>2, <2>3, <2>4, <3>0 DEF TableOrdered, ChannelOrdered
    <3> QED
      BY SMTT(30), <1>1, <2>1, <3>1, <3>2 DEF TableOrdered, ChannelOrdered, tableVars
  <2>7. Delayed' = Delayed /\ Held' = Held
    BY SMTT(30), <1>1 DEF tableVars, Delayed, Held
  <2>8. Live' \subseteq Live \cup {cur}
    BY Zenon, <2>3, <2>4, <2>7 DEF Live, Range
  <2>9. min_delay_seq <= cur
    BY SMTT(30), <2>2 DEF TableOrdered, TypeOK, TimerTypeOK, Seqs
  <2>10. LiveAboveMinDelay'
    BY Zenon, <1>1, <2>8, <2>9 DEF LiveAboveMinDelay, tableVars
  <2> QED
    <3>1. /\ delay_tasks_queue' = delay_tasks_queue /\ sent_tasks' = sent_tasks
          /\ processed_seq' = processed_seq
      BY Zenon, <1>1 DEF tableVars
    <3>2. BatchesOrdered'
      BY Zenon, <2>7, <3>1 DEF TableOrdered, BatchesOrdered
    <3> QED
      BY Zenon, <2>6, <2>10, <3>2
<1> QED
  BY Zenon, <1>2, <1>3, <1>4 DEF SenderStep, UserCall

\* A step that leaves the channel's tasks where they are keeps them above the mark.
LEMMA ChannelAboveMark ==
  ASSUME TypeOK, ChannelOrdered, NEW m \in Int, m <= processed_seq
  PROVE  \A s \in Range(pending_tasks) : m <= s
<1>1. \A s \in Range(pending_tasks) : processed_seq < s
  BY SMTT(30) DEF ChannelOrdered, Range
<1>2. \A s \in Range(pending_tasks) : s \in Int
  BY SMTT(30), LiveTyped DEF TypeOK, Seqs
<1>3. processed_seq \in Int
  BY SMTT(30) DEF TypeOK, TimerTypeOK
<1> QED
  BY SMTT(30), <1>1, <1>2, <1>3

\* The steps of the receiver, the ticker and the peer.
LEMMA ReceiverOrderStep ==
  ASSUME OrderInv, ReceiverStep \/ TimeReach \/ Peer
  PROVE  /\ ChannelOrdered' /\ BatchesOrdered' /\ LiveAboveMinDelay'
         /\ min_delay_seq' <= processed_seq' /\ processed_seq <= processed_seq'
<1> USE DEF OrderInv
<1>1. UNCHANGED <<seq, cur, spc>>
  BY Zenon, SenderFrame DEF senderVars
<1>2. min_delay_seq \in Int /\ processed_seq \in Int
  BY SMTT(30) DEF TypeOK, TimerTypeOK
<1>3. CASE UNCHANGED <<pending_tasks, tableVars>>
  BY SMTT(30), <1>1, <1>2, <1>3, SameOrder DEF TableOrdered, tableVars
<1>4. CASE QuietReceiver \/ ReaderDone \/ Peer
  <2>1. CASE QuietReceiver
    BY Zenon, <1>3, <2>1, QuietFrame DEF timerVars
  <2>2. CASE ReaderDone
    BY Zenon, <1>3, <2>2, ReaderDoneFrame DEF TypeOK
  <2>3. CASE Peer
    BY SMTT(30), <1>3, <2>3, PeerFrame DEF timerVars
  <2> QED
    BY SMTT(30), <1>4, <2>1, <2>2, <2>3
<1>5. CASE DrainStep
  <2>1. PollSentTask /\ UNCHANGED <<delay_tasks_queue, min_delay_seq>>
    BY Zenon, <1>5, DrainFrame
  <2>2. ChannelOrdered' /\ BatchesOrdered' /\ processed_seq <= processed_seq'
    BY Zenon, <1>1, <2>1, PollOrder
  <2>3. processed_seq' \in Int
    BY SMTT(30), <2>1, DrainTyped DEF PollSentTask, TypeOK
  <2>4. Live' = Live
    <3>1. sent_tasks' = sent_tasks \cup Range(pending_tasks) /\ Delayed' = Delayed
      BY Zenon, <2>1 DEF PollSentTask, Delayed
    <3>2. Range(pending_tasks') = {}
      <4>1. pending_tasks' = <<>>
        BY Zenon, <2>1 DEF PollSentTask, DrainChannel
      <4>2. Range(<<>>) = {}
        BY SMTT(30) DEF Range
      <4> QED
        BY Zenon, <4>1, <4>2
    <3> QED
      BY Zenon, <3>1, <3>2 DEF Live, Held
  <2> QED
    BY SMTT(30), <1>2, <2>1, <2>2, <2>3, <2>4 DEF LiveAboveMinDelay, TableOrdered
<1>6. CASE TakeTask
  <2>1. /\ resp.seq \in Held /\ RemoveTask(resp.seq)
        /\ UNCHANGED <<pending_tasks, min_delay_seq, processed_seq>>
    BY Zenon, <1>6 DEF TakeTask
  <2>2. BatchesOrdered' /\ Held' \subseteq Held
    BY Zenon, <2>1, RemoveOrder DEF TableOrdered
  <2>3. ChannelOrdered'
    <3>1. AtSender' = AtSender
      BY Zenon, <1>1 DEF AtSender
    <3> QED
      BY Zenon, <1>1, <2>1, <3>1 DEF TableOrdered, ChannelOrdered
  <2>4. LiveAboveMinDelay'
    BY Zenon, <2>1, <2>2 DEF LiveAboveMinDelay, Live
  <2> QED
    BY SMTT(30), <1>2, <2>1, <2>2, <2>3, <2>4 DEF TableOrdered
<1>7. CASE CleanStep
  <2>1. CleanPendingTasks /\ UNCHANGED min_delay_seq
    BY Zenon, <1>7, CleanFrame
  <2>2. ChannelOrdered' /\ BatchesOrdered' /\ processed_seq <= processed_seq' /\ Live' = {}
    BY Zenon, <1>1, <2>1, CleanOrder
  <2>3. processed_seq' \in Int
    BY SMTT(30), <2>1, DrainTyped DEF CleanPendingTasks, TypeOK
  <2> QED
    BY SMTT(30), <1>2, <2>1, <2>2, <2>3 DEF LiveAboveMinDelay, TableOrdered
<1>8. CASE TimeReach
  <2>1. AdjustTaskQueue /\ UNCHANGED <<pending_tasks, processed_seq>>
    BY Zenon, <1>8 DEF TimeReach, AdjustTaskQueue
  <2>2. /\ BatchesOrdered'
        /\ \A s \in Held' : min_delay_seq' <= s
        /\ min_delay_seq' <= processed_seq
    BY Zenon, <2>1, AdjustOrder
  <2>3. min_delay_seq' \in Int
    BY SMTT(30), <2>1, AdjustTyped DEF TypeOK, TimerTypeOK
  <2>4. ChannelOrdered'
    <3>1. AtSender' = AtSender
      BY SMTT(30), <1>1 DEF AtSender
    <3> QED
      BY Zenon, <1>1, <2>1, <3>1 DEF TableOrdered, ChannelOrdered
  <2>5. \A s \in Range(pending_tasks') : min_delay_seq' <= s
    BY Zenon, <2>1, <2>2, <2>3, ChannelAboveMark DEF TableOrdered
  <2>6. LiveAboveMinDelay'
    BY Zenon, <2>2, <2>5 DEF LiveAboveMinDelay, Live
  <2> QED
    BY SMTT(30), <1>2, <2>1, <2>2, <2>4, <2>6
<1> QED
  BY SMTT(30), <1>4, <1>5, <1>6, <1>7, <1>8 DEF ReceiverStep, QuietReceiver, DrainStep,
                                       ReaderDone, CleanStep

\* Every step keeps the order of the timer's tables.
LEMMA OrderStep ==
  ASSUME OrderInv, Next
  PROVE  TableOrdered' /\ LiveAboveMinDelay'
<1>1. /\ ChannelOrdered' /\ BatchesOrdered' /\ LiveAboveMinDelay'
      /\ min_delay_seq' <= processed_seq' /\ processed_seq <= processed_seq'
  <2>1. CASE SenderStep \/ UserCall
    <3>1. UNCHANGED <<min_delay_seq, processed_seq>>
      BY Zenon, <2>1, TableFrame DEF tableVars
    <3>2. processed_seq \in Int
      BY SMTT(30) DEF OrderInv, TypeOK, TimerTypeOK
    <3> QED
      BY SMTT(30), <2>1, <3>1, <3>2, SenderOrderStep DEF OrderInv, TableOrdered
  <2>2. CASE ReceiverStep \/ TimeReach \/ Peer
    BY Zenon, <2>2, ReceiverOrderStep
  <2> QED
    BY Zenon, <2>1, <2>2 DEF Next
<1>2. processed_seq' \in Int
  BY SMTT(30), TimerTypeStep DEF OrderInv, TimerTypeOK
<1>3. (rpc = "take" => resp.seq <= processed_seq)'
  BY Zenon, <1>1, <1>2, TakeStep
<1> QED
  BY Zenon, <1>1, <1>3 DEF TableOrdered

-----------------------------------------------------------------------------
(***************************************************************************)
(* Theorems.                                                                *)
(***************************************************************************)
\* The table, the channel and the sender stay sorted by sequence number, and no
\* task that still waits is below min_delay_seq.
THEOREM OrderCorrect == Spec => [](TableOrdered /\ LiveAboveMinDelay)
<1>1. Init => TableOrdered /\ LiveAboveMinDelay
  <2> SUFFICES ASSUME Init PROVE TableOrdered /\ LiveAboveMinDelay
    OBVIOUS
  <2>1. /\ pending_tasks = <<>> /\ delay_tasks_queue = <<>> /\ sent_tasks = {}
        /\ min_delay_seq = 0 /\ processed_seq = 0 /\ seq = 1
    BY Zenon DEF Init, TimerInit
  <2>2. spc = "idle" /\ rpc = "loop"
    BY Zenon DEF Init
  <2>3. DOMAIN pending_tasks = {} /\ DOMAIN delay_tasks_queue = {}
    BY SMTT(30), <2>1
  <2>4. AtSender = {} /\ Held = {} /\ Live = {}
    BY Zenon, <2>1, <2>2, <2>3 DEF AtSender, Held, Delayed, Live, Range
  <2>5. ChannelOrdered
    BY SMTT(30), <2>1, <2>3, <2>4 DEF ChannelOrdered
  <2>6. BatchesOrdered
    BY Zenon, <2>1, <2>3, <2>4 DEF BatchesOrdered
  <2> QED
    BY SMTT(30), <2>1, <2>2, <2>4, <2>5, <2>6 DEF TableOrdered, LiveAboveMinDelay
<1>2. OrderInv /\ [Next]_vars => (TableOrdered /\ LiveAboveMinDelay)'
  <2> SUFFICES ASSUME OrderInv, [Next]_vars PROVE (TableOrdered /\ LiveAboveMinDelay)'
    OBVIOUS
  <2>1. CASE Next
    BY Zenon, <2>1, OrderStep
  <2>2. CASE UNCHANGED vars
    <3>1. UNCHANGED <<pending_tasks, tableVars, seq, cur, spc, rpc, resp>>
      BY Zenon, <2>2 DEF vars, timerVars, senderVars, recvVars
    <3>2. ChannelOrdered' /\ BatchesOrdered' /\ LiveAboveMinDelay'
      BY Zenon, <3>1, SameOrder DEF OrderInv
    <3> QED
      BY Zenon, <3>1, <3>2 DEF OrderInv, TableOrdered, tableVars
  <2> QED
    BY Zenon, <2>1, <2>2
<1> QED
  BY <1>1, <1>2, TypeCorrect, PTL DEF Spec, OrderInv

\* take_task's early return for seq < min_delay_seq is sound: whatever it throws
\* away as late is not a task that still waits in the table or in the channel.
THEOREM LiveAboveMinDelayCorrect == Spec => []LiveAboveMinDelay
BY OrderCorrect, PTL

\* A response is only dropped, by any of take_task's three ways to find no task,
\* when its task no longer waits anywhere, send_task included, or when
\* registration has been stopped.
THEOREM LiveResponseKeptCorrect == Spec => LiveResponseKept
<1> DEFINE Kept ==
      (TakeNone \/ RecvLateHead \/ WaitRegStopped) =>
        LET s == IF rpc \in {"headC", "headT"} THEN Head(responses).seq ELSE resp.seq
        IN  s \notin Live \cup AtSender \/ reg_stopped_flag
<1>1. OrderInv /\ [Next]_vars => [Kept]_vars
  <2> SUFFICES ASSUME OrderInv,
                      TakeNone \/ RecvLateHead \/ WaitRegStopped,
                      ~reg_stopped_flag
               PROVE  (IF rpc \in {"headC", "headT"} THEN Head(responses).seq
                       ELSE resp.seq) \notin Live \cup AtSender
    OBVIOUS
  <2>1. /\ \A s \in Range(pending_tasks) : processed_seq < s
        /\ \A s \in AtSender : processed_seq < s
    BY Zenon DEF OrderInv, TableOrdered, ChannelOrdered, Range
  <2>2. processed_seq \in Int /\ min_delay_seq \in Int /\ min_delay_seq <= processed_seq
    BY SMTT(30) DEF OrderInv, TypeOK, TimerTypeOK, TableOrdered
  <2>3. Live \subseteq Int /\ AtSender \subseteq Int
    <3>1. AtSender \subseteq Seqs
      BY Zenon DEF AtSender, OrderInv, TypeOK, SenderTypeOK
    <3> QED
      BY SMTT(30), <3>1, LiveTyped DEF OrderInv, TypeOK, Seqs
  <2>4. CASE TakeNone
    <3>1. rpc = "take" /\ resp.seq \notin Held
      BY Zenon, <2>4 DEF TakeNone
    <3>2. resp.seq <= processed_seq /\ resp.seq \in Int
      BY SMTT(30), <3>1 DEF OrderInv, TableOrdered, TypeOK, RecvTypeOK, Resps, Seqs
    <3>3. resp.seq \notin Range(pending_tasks) /\ resp.seq \notin AtSender
      BY SMTT(30), <2>1, <2>2, <3>2
    <3> QED
      BY Zenon, <3>1, <3>3 DEF Live
  <2>5. CASE RecvLateHead
    <3>1. rpc \in {"headC", "headT"} /\ Head(responses).seq < min_delay_seq
      BY Zenon, <2>5 DEF RecvLateHead
    <3>2. Head(responses).seq \in Int
      <4>1. Head(responses) \in Resps
        <5>1. responses # <<>> /\ responses \in Seq(Resps)
          BY Zenon, <2>5 DEF RecvLateHead, HeadArrived, OrderInv, TypeOK, PeerTypeOK
        <5> QED
          BY SMTT(30), <5>1
      <4> QED
        BY SMTT(30), <4>1 DEF Resps, Seqs
    <3>3. Head(responses).seq \notin Live
      BY SMTT(30), <2>2, <2>3, <3>1, <3>2 DEF OrderInv, LiveAboveMinDelay
    <3>4. Head(responses).seq \notin AtSender
      BY SMTT(30), <2>1, <2>2, <2>3, <3>1, <3>2
    <3> QED
      BY Zenon, <3>1, <3>3, <3>4
  <2>6. CASE WaitRegStopped
    BY Zenon, <2>6 DEF WaitRegStopped
  <2> QED
    BY Zenon, <2>4, <2>5, <2>6
<1> QED
  BY <1>1, OrderCorrect, TypeCorrect, PTL DEF Spec, OrderInv, LiveResponseKept

=============================================================================
