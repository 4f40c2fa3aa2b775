--------------------- MODULE ClientStreamCalls_proofs ---------------------
(***************************************************************************)
(* Where a call can be, for any number of calls: it waits, is with the      *)
(* reader, was handed back once, or was dropped.  From it follow that no     *)
(* call vanishes or ends twice, and that the timeouts are exact.             *)
(***************************************************************************)
EXTENDS ClientStream_proofs

-----------------------------------------------------------------------------
(***************************************************************************)
(* What the steps do to the calls that wait.                                *)
(***************************************************************************)
\* The table and the channel decide what waits there.
LEMMA SameLive ==
  ASSUME UNCHANGED <<pending_tasks, sent_tasks, delay_tasks_queue>>
  PROVE  Live' = Live /\ Held' = Held
BY Zenon DEF Live, Held, Delayed

\* Draining the channel moves tasks within Live.
LEMMA DrainLive ==
  ASSUME PollSentTask, UNCHANGED delay_tasks_queue
  PROVE  Live' = Live
<1>1. sent_tasks' = sent_tasks \cup Range(pending_tasks) /\ Delayed' = Delayed
  BY Zenon DEF PollSentTask, Delayed
<1>2. Range(pending_tasks') = {}
  BY SMTT(30) DEF PollSentTask, DrainChannel, Range
<1> QED
  BY Zenon, <1>1, <1>2 DEF Live, Held

\* What is in the table is older than what is in the channel, and that older than
\* what the sender has.
LEMMA Apart ==
  ASSUME OrderInv
  PROVE  /\ Live \cap AtSender = {}
         /\ Held \cap Range(pending_tasks) = {}
         /\ \A s \in Live \cup AtSender : s < seq
<1>1. /\ Range(pending_tasks) \subseteq Int /\ Held \subseteq Int /\ processed_seq \in Int
      /\ seq \in Int /\ AtSender \subseteq Int
  <2>1. Seqs \subseteq Int
    BY SMTT(30) DEF Seqs
  <2>2. Range(pending_tasks) \subseteq Int /\ Held \subseteq Int
    BY ZenonT(30), <2>1, LiveTyped DEF OrderInv, TypeOK
  <2>3. AtSender \subseteq Int
    BY Zenon, <2>1 DEF AtSender, OrderInv, TypeOK, SenderTypeOK
  <2>4. processed_seq \in Int /\ seq \in Int
    BY SMTT(30), TimerAssumption DEF OrderInv, TypeOK, TimerTypeOK, SenderTypeOK
  <2> QED
    BY Zenon, <2>2, <2>3, <2>4
<1>2. \A s \in Held : s <= processed_seq
  BY Zenon DEF OrderInv, TableOrdered, BatchesOrdered
<1>3. \A s \in Range(pending_tasks) : processed_seq < s /\ s < seq /\ \A t \in AtSender : s < t
  BY Zenon DEF OrderInv, TableOrdered, ChannelOrdered, Range
<1>4. processed_seq < seq /\ \A s \in AtSender : processed_seq < s /\ s < seq
  BY Zenon DEF OrderInv, TableOrdered, ChannelOrdered
<1>5. Held \cap Range(pending_tasks) = {} /\ Held \cap AtSender = {}
  BY SMTT(30), <1>1, <1>2, <1>3, <1>4
<1>6. Range(pending_tasks) \cap AtSender = {}
  BY SMTT(30), <1>1, <1>3
<1>7. \A s \in Held \cup Range(pending_tasks) \cup AtSender : s < seq
  BY SMTT(30), <1>1, <1>2, <1>3, <1>4
<1> QED
  BY ZenonT(30), <1>5, <1>6, <1>7 DEF Live

\* reg_task adds the sender's task.
LEMMA RegisterLive ==
  ASSUME OrderInv, Register
  PROVE  /\ Live' = Live \cup {cur} /\ cur \notin Live /\ AtSender = {cur} /\ AtSender' = {}
         /\ Held' = Held
<1>1. /\ pending_tasks' = Append(pending_tasks, cur) /\ UNCHANGED <<sent_tasks, delay_tasks_queue>>
      /\ AtSender = {cur} /\ AtSender' = {}
  BY Zenon DEF Register, RegTask, tableVars, AtSender
<1>2. pending_tasks \in Seq(Seqs) /\ cur \in Seqs
  BY Zenon DEF Register, OrderInv, TypeOK, TimerTypeOK, SenderTypeOK
<1> DEFINE n == Len(pending_tasks)
<1>3. /\ n \in Nat /\ DOMAIN pending_tasks = 1 .. n /\ DOMAIN pending_tasks' = 1 .. n + 1
      /\ \A i \in 1 .. n : pending_tasks'[i] = pending_tasks[i]
      /\ pending_tasks'[n + 1] = cur
  BY SMTT(30), <1>1, <1>2
<1> HIDE DEF n
<1>4. /\ \A i \in 1 .. n + 1 : i = n + 1 \/ i \in 1 .. n
      /\ \A i \in 1 .. n : i \in 1 .. n + 1
      /\ n + 1 \in 1 .. n + 1
  BY SMTT(30), <1>3
<1>5. Range(pending_tasks') = Range(pending_tasks) \cup {cur}
  BY Zenon, <1>3, <1>4 DEF Range
<1>6. Held' = Held
  BY Zenon, <1>1 DEF Held, Delayed
<1>7. cur \notin Live
  BY Zenon, <1>1, Apart
<1> QED
  BY Zenon, <1>1, <1>5, <1>6, <1>7 DEF Live

\* take_task takes one task, wherever it is.
LEMMA RemoveLive ==
  ASSUME OrderInv, NEW s \in Held, RemoveTask(s), UNCHANGED pending_tasks
  PROVE  Live' = Live \ {s} /\ Held' = Held \ {s}
<1> DEFINE n == Len(delay_tasks_queue)
<1>1. /\ sent_tasks' \subseteq sent_tasks /\ sent_tasks \ {s} \subseteq sent_tasks'
      /\ \A i \in 1 .. n : /\ delay_tasks_queue'[i] \subseteq delay_tasks_queue[i]
                           /\ delay_tasks_queue[i] \ {s} \subseteq delay_tasks_queue'[i]
  BY Zenon, RemoveProperties DEF OrderInv, TypeOK
<1>2. n \in Nat /\ DOMAIN delay_tasks_queue = 1 .. n /\ DOMAIN delay_tasks_queue' = 1 .. n
  <2>1. /\ delay_tasks_queue' \in Seq(SUBSET Seqs)
        /\ delay_tasks_queue \in Seq(SUBSET Seqs)
        /\ Len(delay_tasks_queue') = n
    BY Zenon, RemoveProperties DEF OrderInv, TypeOK, TimerTypeOK
  <2> QED
    BY Zenon, <2>1, LenProperties
<1>3. \/ s \in sent_tasks /\ s \notin sent_tasks' /\ delay_tasks_queue' = delay_tasks_queue
      \/ s \notin sent_tasks /\ sent_tasks' = sent_tasks
         /\ \E i \in 1 .. n : s \in delay_tasks_queue[i] /\ s \notin delay_tasks_queue'[i]
  <2>1. TimerTypeOK
    BY Zenon DEF OrderInv, TypeOK
  <2> QED
    BY ZenonT(30), <2>1, RemoveProperties
<1> HIDE DEF n
<1>4. /\ \A i \in 1 .. n : \A a \in sent_tasks, b \in delay_tasks_queue[i] : b < a
      /\ \A i, j \in 1 .. n : i < j =>
           \A a \in delay_tasks_queue[i], b \in delay_tasks_queue[j] : b < a
  BY Zenon, <1>2 DEF OrderInv, TableOrdered, BatchesOrdered
<1>5. s \in Int /\ Held \in SUBSET Seqs
  BY SMTT(30), LiveTyped DEF OrderInv, TypeOK, Seqs
<1>6. s \notin sent_tasks' /\ \A i \in 1 .. n : s \notin delay_tasks_queue'[i]
  <2>1. CASE s \in sent_tasks
    BY SMTT(30), <1>1, <1>3, <1>4, <1>5, <2>1
  <2>2. CASE s \notin sent_tasks
    <3>1. PICK i \in 1 .. n : s \in delay_tasks_queue[i] /\ s \notin delay_tasks_queue'[i]
      BY Zenon, <1>3, <2>2
    <3>2. \A j \in 1 .. n : j # i => s \notin delay_tasks_queue[j]
      <4> SUFFICES ASSUME NEW j \in 1 .. n, j # i, s \in delay_tasks_queue[j] PROVE FALSE
        OBVIOUS
      <4>1. i < j \/ j < i
        BY SMTT(30), <1>2
      <4>2. s < s
        BY Zenon, <1>4, <3>1, <4>1
      <4> QED
        BY SMTT(30), <1>5, <4>2
    <3> QED
      BY Zenon, <1>1, <2>2, <3>1, <3>2
  <2> QED
    BY Zenon, <2>1, <2>2
<1>7. Delayed = UNION {delay_tasks_queue[i] : i \in 1 .. n}
  BY Zenon, <1>2 DEF Delayed
<1>8. Delayed' = UNION {delay_tasks_queue'[i] : i \in 1 .. n}
  BY Zenon, <1>2 DEF Delayed
<1>9. Held' = Held \ {s}
  BY SMTT(30), <1>1, <1>6, <1>7, <1>8 DEF Held
<1>10. s \notin Range(pending_tasks)
  BY Zenon, Apart
<1> QED
  BY Zenon, <1>9, <1>10 DEF Live

\* The batches of a tick: the current second and the past ones, each task in one.
LEMMA AgedHeld ==
  ASSUME OrderInv
  PROVE  LET n == Len(delay_tasks_queue)
         IN  /\ \A s \in Held : \E i \in 1 .. n + 1 : s \in AgedQueue[i]
             /\ \A i, j \in 1 .. n + 1 : i < j => AgedQueue[i] \cap AgedQueue[j] = {}
<1> DEFINE n == Len(delay_tasks_queue)
<1>1. n \in Nat /\ DOMAIN delay_tasks_queue = 1 .. n
  BY Zenon, LenProperties DEF OrderInv, TypeOK, TimerTypeOK
<1>2. /\ AgedQueue[1] = sent_tasks
      /\ \A i \in 1 .. n : AgedQueue[i + 1] = delay_tasks_queue[i]
  BY Zenon, AgedQueueProperties DEF OrderInv, TypeOK
<1>3. /\ \A i \in 1 .. n + 1 : AgedQueue[i] \subseteq Held
      /\ \A i, j \in 1 .. n + 1 : i < j => \A s \in AgedQueue[i], t \in AgedQueue[j] : t < s
  BY Zenon, AgedQueueOrder DEF OrderInv, TableOrdered
<1>4. \A s \in Held : s \in Int
  <2>1. Seqs \subseteq Int
    BY SMTT(30) DEF Seqs
  <2> QED
    BY ZenonT(30), <2>1, LiveTyped DEF OrderInv, TypeOK
<1> HIDE DEF n
<1>5. 1 \in 1 .. n + 1 /\ \A i \in 1 .. n : i + 1 \in 1 .. n + 1
  BY SMTT(30), <1>1
<1>6. \A s \in Held : \E i \in 1 .. n + 1 : s \in AgedQueue[i]
  BY Zenon, <1>1, <1>2, <1>5 DEF Held, Delayed
<1>7. \A i, j \in 1 .. n + 1 : i < j => AgedQueue[i] \cap AgedQueue[j] = {}
  <2> SUFFICES ASSUME NEW i \in 1 .. n + 1, NEW j \in 1 .. n + 1, i < j,
                      NEW s \in AgedQueue[i], s \in AgedQueue[j]
               PROVE  FALSE
    OBVIOUS
  <2>1. s < s /\ s \in Int
    BY Zenon, <1>3, <1>4
  <2> QED
    BY SMTT(30), <2>1
<1> QED
  BY Zenon, <1>6, <1>7 DEF n

\* A tick takes the batch it times out and nothing else.
LEMMA AdjustLive ==
  ASSUME OrderInv, AdjustTaskQueue
  PROVE  /\ Expired \subseteq Held
         /\ Held' = Held \ Expired
         /\ Live' = Live \ Expired
<1> DEFINE n == Len(delay_tasks_queue)
           m == Len(delay_tasks_queue')
<1>1. /\ n \in Nat /\ DOMAIN delay_tasks_queue' = 1 .. m
      /\ \A i \in 1 .. m : delay_tasks_queue'[i] = AgedQueue[i]
      /\ \/ m = n /\ Expired = AgedQueue[n + 1]
         \/ m = n + 1 /\ Expired = {}
  BY ZenonT(30), AdjustBatches DEF OrderInv
<1>2. /\ \A s \in Held : \E i \in 1 .. n + 1 : s \in AgedQueue[i]
      /\ \A i, j \in 1 .. n + 1 : i < j => AgedQueue[i] \cap AgedQueue[j] = {}
  BY Zenon, AgedHeld
<1>3. \A i \in 1 .. n + 1 : AgedQueue[i] \subseteq Held
  BY Zenon, AgedQueueOrder DEF OrderInv, TableOrdered
<1>4. sent_tasks' = {} /\ pending_tasks' = pending_tasks
  BY Zenon DEF AdjustTaskQueue
<1> HIDE DEF n, m
<1>5. Held' = UNION {AgedQueue[i] : i \in 1 .. m}
  BY Zenon, <1>1, <1>4 DEF Held, Delayed
<1>6. n + 1 \in 1 .. n + 1 /\ \A i \in 1 .. n + 1 : i = n + 1 \/ (i \in 1 .. n /\ i < n + 1)
  BY SMTT(30), <1>1
<1>7. \A i \in 1 .. n : i \in 1 .. n + 1 /\ i < n + 1
  BY SMTT(30), <1>1
<1>8. Expired \subseteq Held
  BY Zenon, <1>1, <1>3, <1>6
<1>9. Held' = Held \ Expired
  <2>1. CASE m = n /\ Expired = AgedQueue[n + 1]
    <3>1. \A s \in Held \ Expired : \E i \in 1 .. m : s \in AgedQueue[i]
      BY ZenonT(30), <1>2, <1>6, <2>1
    <3>2. \A i \in 1 .. m : AgedQueue[i] \subseteq Held \ Expired
      BY Zenon, <1>2, <1>3, <1>6, <1>7, <2>1
    <3> QED
      BY ZenonT(30), <1>5, <3>1, <3>2
  <2>2. CASE m = n + 1 /\ Expired = {}
    BY SMTT(30), <1>2, <1>3, <1>5, <2>2
  <2> QED
    BY Zenon, <1>1, <2>1, <2>2
<1>10. Expired \cap Range(pending_tasks) = {}
  BY Zenon, <1>8, Apart
<1> QED
  BY Zenon, <1>4, <1>8, <1>9, <1>10 DEF Live

-----------------------------------------------------------------------------
(***************************************************************************)
(* The invariants.                                                          *)
(***************************************************************************)
\* The calls that send_task, the channel or the table has.
Waiting == Live \cup AtSender

Dropped == lost \cup unencoded

\* Every call that was given a sequence number is in one place.
PlaceInv ==
  /\ Waiting \cup taken \cup Dropped \subseteq Issued /\ \A s \in pings : s < seq
  /\ Waiting \cap taken = {} /\ (Waiting \cup taken) \cap Dropped = {} /\ lost \cap unencoded = {}
  /\ \A s \in Waiting \cup Dropped \cup (Seqs \ Issued) : dones[s] = 0
  /\ \A s \in Issued : s \in Waiting \cup taken \cup Dropped \/ dones[s] = 1
  /\ \A s \in Seqs : dones[s] \in {0, 1} /\ (dones[s] = 0 <=> result[s] = "none")

\* The reader holds a call only while it reads the body of its response, or has been
\* stopped there by has_err.
ReaderInv ==
  /\ taken # {} => rpc \in {"body", "err", "clean"} /\ taken = {resp.seq}
  /\ rpc \in {"err", "clean"} /\ Unfinished # {} => has_err

-----------------------------------------------------------------------------
(***************************************************************************)
(* A call is in one place.                                                  *)
(***************************************************************************)
\* Tasks of S are handed back with outcome r; the rest of what waits or is with
\* the reader may move from the table to the reader, and the reader may let go of
\* a task that was handed back.
LEMMA PlaceMove ==
  ASSUME TypeOK, PlaceInv, NEW S \in SUBSET (Waiting \cup Unfinished), NEW r, r # "none",
         \A s \in Seqs : /\ dones'[s] = (IF s \in S THEN dones[s] + 1 ELSE dones[s])
                         /\ result'[s] = (IF s \in S THEN r ELSE result[s]),
         Waiting' \subseteq Waiting \ S,
         taken' \subseteq taken \cup (Waiting \ Waiting'),
         \A s \in (Waiting \cup taken) \ (Waiting' \cup taken') : s \in S \/ dones[s] = 1,
         UNCHANGED <<lost, unencoded, seq, pings>>
  PROVE  PlaceInv'
<1> USE DEF PlaceInv, Dropped
<1>1. Issued' = Issued /\ Issued \subseteq Seqs
  BY Zenon DEF Issued
<1>2. \A s \in S : s \in Seqs /\ dones[s] = 0
  BY Zenon, <1>1 DEF Unfinished
<1>3. \A s \in Seqs : dones[s] \in {0, 1}
  OBVIOUS
<1>4. \A s \in Seqs : dones'[s] = IF s \in S THEN 1 ELSE dones[s]
  BY SMTT(30), <1>2, <1>3
<1>5. \A s \in Seqs : dones'[s] \in {0, 1} /\ (dones'[s] = 0 <=> result'[s] = "none")
  BY SMTT(30), <1>2, <1>3, <1>4
<1>6. /\ Waiting' \cup taken' \cup Dropped' \subseteq Issued'
      /\ \A s \in pings' : s < seq'
  BY Zenon, <1>1
<1>7. /\ Waiting' \cap taken' = {} /\ (Waiting' \cup taken') \cap Dropped' = {}
      /\ lost' \cap unencoded' = {}
  BY Zenon
<1>8. \A s \in Waiting' \cup Dropped' \cup (Seqs \ Issued') : dones'[s] = 0
  BY SMTT(30), <1>1, <1>4 DEF Unfinished
<1>9. \A s \in Issued' : s \in Waiting' \cup taken' \cup Dropped' \/ dones'[s] = 1
  BY SMTT(30), <1>1, <1>4
<1> QED
  BY Zenon, <1>5, <1>6, <1>7, <1>8, <1>9

\* Nothing moves.
LEMMA PlaceSame ==
  ASSUME PlaceInv, Waiting' = Waiting,
         UNCHANGED <<taken, lost, unencoded, seq, pings, doneVars>>
  PROVE  PlaceInv'
<1>1. Issued' = Issued /\ Dropped' = Dropped /\ dones' = dones /\ result' = result
  BY Zenon DEF Issued, Dropped, doneVars
<1> QED
  BY Zenon, <1>1 DEF PlaceInv

\* The reader drops the task it holds.
LEMMA PlaceLose ==
  ASSUME TypeOK, PlaceInv, Waiting' = Waiting, taken' = {}, lost' = lost \cup Unfinished,
         UNCHANGED <<unencoded, seq, pings, doneVars>>
  PROVE  PlaceInv'
<1> USE DEF PlaceInv
<1>1. /\ Issued' = Issued /\ Issued \subseteq Seqs /\ dones' = dones /\ result' = result
      /\ Dropped' = Dropped \cup Unfinished
  BY Zenon DEF Issued, Dropped, doneVars
<1>2. Unfinished \subseteq taken /\ \A s \in Unfinished : dones[s] = 0
  BY Zenon DEF Unfinished
<1>3. \A s \in taken \ Unfinished : dones[s] = 1
  BY Zenon, <1>1 DEF Unfinished
<1>4. /\ Waiting' \cap taken' = {} /\ (Waiting' \cup taken') \cap Dropped' = {}
      /\ lost' \cap unencoded' = {}
  BY SMTT(30), <1>1, <1>2 DEF Dropped
<1>5. \A s \in Waiting' \cup Dropped' \cup (Seqs \ Issued') : dones'[s] = 0
  BY SMTT(30), <1>1, <1>2
<1>6. \A s \in Issued' : s \in Waiting' \cup taken' \cup Dropped' \/ dones'[s] = 1
  BY SMTT(30), <1>1, <1>3
<1>7. /\ Waiting' \cup taken' \cup Dropped' \subseteq Issued'
      /\ \A s \in pings' : s < seq'
  BY Zenon, <1>1, <1>2
<1> QED
  BY SMTT(30), <1>1, <1>4, <1>5, <1>6, <1>7

\* seq_update gives out a number: to a task that waits, to one that does not
\* encode, or to a ping.
LEMMA PlaceOpen ==
  ASSUME TypeOK, PlaceInv, seq <= MaxSeq, seq' = seq + 1,
         UNCHANGED <<taken, lost, doneVars>>,
         \/ Waiting' = Waiting \cup {seq} /\ UNCHANGED <<unencoded, pings>>
         \/ Waiting' = Waiting /\ unencoded' = unencoded \cup {seq} /\ UNCHANGED pings
         \/ Waiting' = Waiting /\ pings' = pings \cup {seq} /\ UNCHANGED unencoded
  PROVE  PlaceInv'
<1> USE DEF PlaceInv
<1>1. seq \in Seqs /\ seq \in Int /\ Issued \subseteq Seqs /\ seq \notin Issued
      /\ seq \notin pings
  BY SMTT(30) DEF TypeOK, SenderTypeOK, Issued, Seqs
<1>2. Issued' = IF pings' = pings THEN Issued \cup {seq} ELSE Issued
  <2>1. {s \in Seqs : s < seq'} = {s \in Seqs : s < seq} \cup {seq}
    BY SMTT(30), <1>1 DEF Seqs
  <2>2. pings' = pings \/ pings' = pings \cup {seq}
    OBVIOUS
  <2> QED
    BY Zenon, <1>1, <2>1, <2>2 DEF Issued
<1>3. dones' = dones /\ result' = result
  BY Zenon DEF doneVars
<1>4. seq \notin Waiting /\ seq \notin taken /\ seq \notin lost /\ seq \notin unencoded
  BY SMTT(30), <1>1 DEF Dropped
<1>5. \A s \in pings' : s < seq'
  <2>1. \A s \in pings : s \in Int /\ s < seq
    BY SMTT(30) DEF TypeOK, SenderTypeOK, Seqs
  <2>2. pings' = pings \/ pings' = pings \cup {seq}
    OBVIOUS
  <2> QED
    BY SMTT(30), <1>1, <2>1, <2>2
<1>6. dones[seq] = 0
  BY Zenon, <1>1
<1>7. CASE Waiting' = Waiting \cup {seq} /\ UNCHANGED <<unencoded, pings>>
  <2>1. Dropped' = Dropped /\ Issued' = Issued \cup {seq}
    BY SMTT(30), <1>2, <1>7 DEF Dropped
  <2>2. Waiting' \cap taken' = {} /\ (Waiting' \cup taken') \cap Dropped' = {}
    BY SMTT(30), <1>4, <1>7, <2>1 DEF Dropped
  <2> QED
    BY SMTT(30), <1>1, <1>3, <1>5, <1>6, <1>7, <2>1, <2>2
<1>8. CASE Waiting' = Waiting /\ unencoded' = unencoded \cup {seq} /\ UNCHANGED pings
  <2>1. Dropped' = Dropped \cup {seq} /\ Issued' = Issued \cup {seq}
    BY SMTT(30), <1>2, <1>8 DEF Dropped
  <2>2. (Waiting' \cup taken') \cap Dropped' = {} /\ lost' \cap unencoded' = {}
    BY SMTT(30), <1>4, <1>8, <2>1
  <2> QED
    BY SMTT(30), <1>1, <1>3, <1>5, <1>6, <1>8, <2>1, <2>2
<1>9. CASE Waiting' = Waiting /\ pings' = pings \cup {seq} /\ UNCHANGED unencoded
  <2>1. Dropped' = Dropped /\ Issued' = Issued
    BY SMTT(30), <1>1, <1>2, <1>9 DEF Dropped
  <2> QED
    BY SMTT(30), <1>1, <1>3, <1>5, <1>9, <2>1
<1> QED
  BY SMTT(30), <1>7, <1>8, <1>9

\* The reader has no task while it waits for a header or looks one up.
LEMMA ReaderStep ==
  ASSUME TypeOK, PlaceInv, ReaderInv, Next
  PROVE  ReaderInv'
<1> USE DEF ReaderInv
<1>1. CASE SenderStep \/ UserCall \/ Peer
  <2>1. UNCHANGED recvVars
    BY SMTT(30), <1>1, RecvFrame
  <2>2. has_err => has_err'
    BY ZenonT(30), <1>1
       DEF SenderStep, UserCall, Peer, RefuseTask, EncodeReq, EncodeReqErr, WriteReq,
           WriteReqErr, SetHasErr, Rollback, Register, Throttle, CloseConn, DropStopReg,
           DropClosed, SendTask, FlushReq, FlushReqErr, SendPingReq, SendPingReqErr,
           SetErrorAndExit, Drop, PeerReply, PeerHalfHead, PeerBody, LinkDown
  <2>3. CASE ~Rollback
    <3>1. dones' = dones
      BY ZenonT(30), <1>1, <2>3
         DEF SenderStep, UserCall, Peer, RefuseTask, EncodeReq, EncodeReqErr, WriteReq,
             WriteReqErr, SetHasErr, Register, Throttle, CloseConn, DropStopReg,
             DropClosed, SendTask, FlushReq, FlushReqErr, SendPingReq, SendPingReqErr,
             SetErrorAndExit, Drop, PeerReply, PeerHalfHead, PeerBody, LinkDown,
             timerVars, doneVars
    <3>2. Unfinished' = Unfinished
      BY SMTT(30), <2>1, <3>1 DEF Unfinished, recvVars
    <3> QED
      BY SMTT(30), <2>1, <2>2, <3>2 DEF recvVars
  <2>4. CASE Rollback
    <3>1. \A s \in Seqs : dones'[s] = 0 => dones[s] = 0
      BY SMTT(30), <2>4 DEF Rollback, Finish, TypeOK, TimerTypeOK
    <3>2. taken \subseteq Seqs
      BY Zenon DEF TypeOK, RecvTypeOK
    <3>3. Unfinished' \subseteq Unfinished
      BY SMTT(30), <2>1, <3>1, <3>2 DEF Unfinished, recvVars
    <3> QED
      BY SMTT(30), <2>1, <2>2, <3>3 DEF recvVars
  <2> QED
    BY SMTT(30), <2>3, <2>4
<1>2. CASE taken' = {}
  BY Zenon, <1>2 DEF Unfinished
<1>3. CASE TimeReach \/ PollHasErr \/ PollStart \/ ReadPending \/ CleanStep
  <2>1. taken' = taken /\ resp' = resp /\ has_err' = has_err
    BY ZenonT(30), <1>3 DEF TimeReach, PollHasErr, PollStart, ReadPending, CleanStep, RecvLoopErr,
              CleanAgain, InnerDrop, recvVars
  <2>2. Unfinished' \subseteq Unfinished
    <3>1. \A s \in Seqs : dones'[s] = 0 => dones[s] = 0
      <4>1. dones' = dones \/ \E S : dones' = [s \in Seqs |-> IF s \in S THEN dones[s] + 1
                                                                         ELSE dones[s]]
        BY ZenonT(30), <1>3
           DEF TimeReach, PollHasErr, PollStart, ReadPending, CleanStep, RecvLoopErr,
               CleanAgain, InnerDrop, CleanPendingTasks, AdjustTaskQueue, Finish,
               timerVars, doneVars
      <4> QED
        BY SMTT(30), <4>1 DEF TypeOK, TimerTypeOK
    <3>2. taken \subseteq Seqs
      BY SMTT(30) DEF TypeOK, RecvTypeOK
    <3> QED
      BY SMTT(30), <2>1, <3>1, <3>2 DEF Unfinished
  <2>3. CASE rpc' = rpc
    BY SMTT(30), <2>1, <2>2, <2>3
  <2>4. CASE PollHasErr
    BY SMTT(30), <2>1, <2>2, <2>4 DEF PollHasErr, Receiving
  <2>5. CASE RecvLoopErr \/ InnerDrop
    BY SMTT(30), <2>1, <2>2, <2>5 DEF RecvLoopErr, InnerDrop
  <2>6. CASE TimeReach \/ PollStart \/ ReadPending \/ CleanAgain
    BY ZenonT(30), <2>3, <2>6 DEF TimeReach, PollStart, ReadPending, CleanAgain, recvVars
  <2> QED
    BY SMTT(30), <1>3, <2>4, <2>5, <2>6 DEF CleanStep
<1>4. CASE LoopOpen \/ LoopClosed \/ RecvHead \/ RecvLateHead \/ RecvGarbledHead
           \/ WaitRegDone \/ WaitRegStopped \/ WaitRegPoll \/ TakeNone
  <2>1. taken' = taken
    BY ZenonT(30), <1>4 DEF LoopOpen, LoopClosed, RecvHead, RecvLateHead, RecvGarbledHead, WaitRegDone,
              WaitRegStopped, WaitRegPoll, TakeNone
  <2>2. rpc \in {"loop", "headC", "headT", "wait", "take"}
    BY ZenonT(30), <1>4 DEF LoopOpen, LoopClosed, RecvHead, RecvLateHead, RecvGarbledHead, WaitRegDone,
              WaitRegStopped, WaitRegPoll, TakeNone
  <2>3. taken = {}
    BY SMTT(30), <2>2
  <2> QED
    BY SMTT(30), <1>2, <2>1, <2>3
<1>5. CASE TakeTask
  <2>1. CASE HasBody(resp.kind)
    BY SMTT(30), <1>5, <2>1 DEF TakeTask, BodyOrLoop
  <2>2. CASE ~HasBody(resp.kind)
    BY SMTT(30), <1>2, <1>5, <2>2 DEF TakeTask
  <2> QED
    BY SMTT(30), <2>1, <2>2
<1>6. CASE RecvBody \/ ReadErr \/ RecvExit
  BY SMTT(30), <1>2, <1>6 DEF RecvBody, ReadErr, RecvExit, ReleaseTaken
<1>7. CASE ReadCancelled
  <2>1. taken' = taken /\ rpc = "headC"
    BY Zenon, <1>7 DEF ReadCancelled, Cancelled
  <2> QED
    BY SMTT(30), <1>2, <2>1
<1> QED
  BY ZenonT(30), <1>1, <1>3, <1>4, <1>5, <1>6, <1>7 DEF Next, ReceiverStep, CleanStep

\* The steps of the user's coroutine.
LEMMA SenderPlaceStep ==
  ASSUME OrderInv, PlaceInv, SenderStep \/ UserCall
  PROVE  PlaceInv'
<1> USE DEF OrderInv
<1>1. UNCHANGED <<sent_tasks, delay_tasks_queue, taken>>
  BY SMTT(30), TableFrame, RecvFrame DEF tableVars, recvVars
<1>2. CASE \/ SendTask \/ RefuseTask \/ WriteReq \/ WriteReqErr \/ SetHasErr
           \/ Throttle \/ FlushReq \/ FlushReqErr \/ SetErrorAndExit \/ CloseConn \/ Drop
           \/ DropStopReg \/ DropClosed
  <2>1. UNCHANGED <<pending_tasks, lost, unencoded, seq, pings, doneVars>>
    BY ZenonT(30), <1>2
       DEF SendTask, RefuseTask, WriteReq, WriteReqErr, SetHasErr, Throttle, FlushReq,
           FlushReqErr, SetErrorAndExit, CloseConn, Drop, DropStopReg, DropClosed, timerVars
  <2>2. AtSender' = AtSender
    BY ZenonT(30), <1>2
       DEF SendTask, RefuseTask, WriteReq, WriteReqErr, SetHasErr, Throttle, FlushReq,
           FlushReqErr, SetErrorAndExit, CloseConn, Drop, DropStopReg, DropClosed, AtSender
  <2>3. Waiting' = Waiting
    BY SMTT(30), <1>1, <2>1, <2>2, SameLive DEF Waiting
  <2> QED
    BY SMTT(30), <1>1, <2>1, <2>3, PlaceSame
<1>3. CASE EncodeReq \/ EncodeReqErr \/ SendPingReq \/ SendPingReqErr
  <2>1. /\ UNCHANGED <<pending_tasks, lost, doneVars>>
        /\ seq <= MaxSeq /\ seq' = seq + 1 /\ AtSender = {}
    BY SMTT(30), <1>3
       DEF EncodeReq, EncodeReqErr, SendPingReq, SendPingReqErr, timerVars, AtSender, TypeOK,
           SenderTypeOK
  <2>2. Live' = Live
    BY SMTT(30), <1>1, <2>1, SameLive
  <2>3. \/ AtSender' = {seq} /\ UNCHANGED <<unencoded, pings>>
        \/ AtSender' = {} /\ unencoded' = unencoded \cup {seq} /\ UNCHANGED pings
        \/ AtSender' = {} /\ pings' = pings \cup {seq} /\ UNCHANGED unencoded
    BY SMTT(30), <1>3 DEF EncodeReq, EncodeReqErr, SendPingReq, SendPingReqErr, AtSender
  <2>4. \/ Waiting' = Waiting \cup {seq} /\ UNCHANGED <<unencoded, pings>>
        \/ Waiting' = Waiting /\ unencoded' = unencoded \cup {seq} /\ UNCHANGED pings
        \/ Waiting' = Waiting /\ pings' = pings \cup {seq} /\ UNCHANGED unencoded
    BY SMTT(30), <2>1, <2>2, <2>3 DEF Waiting
  <2> QED
    BY SMTT(30), <1>1, <2>1, <2>4, PlaceOpen
<1>4. CASE Rollback
  <2>1. /\ UNCHANGED <<pending_tasks, lost, unencoded, seq, pings>>
        /\ AtSender = {cur} /\ AtSender' = {} /\ Finish({cur}, "IO")
    BY Zenon, <1>4 DEF Rollback, AtSender
  <2>2. Live' = Live /\ cur \notin Live /\ cur \in Waiting
    BY SMTT(30), <1>1, <2>1, SameLive, Apart DEF Waiting
  <2>3. Waiting' = Waiting \ {cur}
    BY SMTT(30), <2>1, <2>2 DEF Waiting
  <2>4. \A s \in Seqs : /\ dones'[s] = (IF s \in {cur} THEN dones[s] + 1 ELSE dones[s])
                        /\ result'[s] = (IF s \in {cur} THEN "IO" ELSE result[s])
    BY ZenonT(30), <2>1 DEF Finish
  <2>5. {cur} \in SUBSET (Waiting \cup Unfinished) /\ "IO" # "none"
    BY SMTT(30), <2>2
  <2>6. /\ Waiting' \subseteq Waiting \ {cur} /\ taken' \subseteq taken \cup (Waiting \ Waiting')
        /\ \A s \in (Waiting \cup taken) \ (Waiting' \cup taken') : s \in {cur} \/ dones[s] = 1
    BY SMTT(30), <1>1, <2>3
  <2> QED
    BY ZenonT(30), <2>1, <2>4, <2>5, <2>6, PlaceMove
<1>5. CASE Register
  <2>1. UNCHANGED <<lost, unencoded, seq, pings, doneVars>>
    BY SMTT(30), <1>5 DEF Register
  <2>2. Waiting' = Waiting
    BY SMTT(30), <1>5, RegisterLive DEF Waiting
  <2> QED
    BY SMTT(30), <1>1, <2>1, <2>2, PlaceSame
<1> QED
  BY SMTT(30), <1>2, <1>3, <1>4, <1>5 DEF SenderStep, UserCall

\* The steps of the receiver, the ticker and the peer.
LEMMA ReceiverPlaceStep ==
  ASSUME OrderInv, PlaceInv, ReaderInv, ReceiverStep \/ TimeReach \/ Peer
  PROVE  PlaceInv'
<1> USE DEF OrderInv
<1>1. UNCHANGED <<seq, pings, unencoded>> /\ AtSender' = AtSender
  BY Zenon, SenderFrame DEF senderVars, AtSender
<1>2. CASE Live' = Live /\ UNCHANGED <<taken, lost, doneVars>>
  <2>1. Waiting' = Waiting
    BY SMTT(30), <1>1, <1>2 DEF Waiting
  <2> QED
    BY SMTT(30), <1>1, <1>2, <2>1, PlaceSame
<1>3. CASE Peer \/ (QuietReceiver /\ ~RecvExit)
  <2>1. UNCHANGED <<lost, timerVars>>
    BY ZenonT(30), <1>3, PeerFrame, QuietFrame
       DEF QuietReceiver, PollHasErr, LoopOpen, RecvHead, RecvLateHead, RecvGarbledHead,
           WaitRegDone, WaitRegStopped, TakeNone, ReadCancelled, ReadPending
  <2>2. UNCHANGED taken
    BY ZenonT(30), <1>3, RecvFrame
       DEF QuietReceiver, PollHasErr, LoopOpen, RecvHead, RecvLateHead, RecvGarbledHead,
           WaitRegDone, WaitRegStopped, TakeNone, ReadCancelled, ReadPending, recvVars
  <2> QED
    BY SMTT(30), <1>2, <2>1, <2>2, SameLive DEF timerVars, tableVars
<1>4. CASE RecvExit
  <2>1. /\ taken' = {} /\ lost' = lost \cup Unfinished /\ UNCHANGED doneVars
        /\ UNCHANGED <<pending_tasks, sent_tasks, delay_tasks_queue>>
    BY SMTT(30), <1>4 DEF RecvExit, ReleaseTaken, timerVars, tableVars
  <2>2. Waiting' = Waiting
    BY SMTT(30), <1>1, <2>1, SameLive DEF Waiting
  <2> QED
    BY SMTT(30), <1>1, <2>1, <2>2, PlaceLose
<1>5. CASE DrainStep
  BY SMTT(30), <1>2, <1>5, DrainFrame, DrainLive
<1>6. ASSUME NEW S \in SUBSET (Waiting \cup Unfinished), NEW r, r # "none", Finish(S, r),
             Waiting' \subseteq Waiting \ S, taken' \subseteq taken \cup (Waiting \ Waiting'),
             \A s \in (Waiting \cup taken) \ (Waiting' \cup taken') : s \in S \/ dones[s] = 1,
             lost' = lost
      PROVE  PlaceInv'
  <2>1. \A s \in Seqs : /\ dones'[s] = (IF s \in S THEN dones[s] + 1 ELSE dones[s])
                        /\ result'[s] = (IF s \in S THEN r ELSE result[s])
    BY ZenonT(30), <1>6 DEF Finish
  <2> QED
    BY ZenonT(30), <1>1, <1>6, <2>1, PlaceMove
<1>7. CASE TakeTask
  <2>1. /\ resp.seq \in Held /\ RemoveTask(resp.seq) /\ UNCHANGED <<pending_tasks, lost>>
        /\ taken' = (IF HasBody(resp.kind) THEN {resp.seq} ELSE {})
    BY SMTT(30), <1>7 DEF TakeTask
  <2>2. taken = {}
    BY SMTT(30), <1>7 DEF TakeTask, ReaderInv
  <2>3. resp.seq \in Live /\ resp.seq \notin AtSender /\ Live' = Live \ {resp.seq}
    BY SMTT(30), <2>1, RemoveLive, Apart DEF Live
  <2>4. Waiting' = Waiting \ {resp.seq} /\ resp.seq \in Waiting
    BY Zenon, <1>1, <2>3 DEF Waiting
  <2>5. CASE resp.kind = "noblob" \/ ~HasBody(resp.kind)
    <3>1. Finish({resp.seq}, Outcome(resp.kind))
      BY SMTT(30), <1>7, <2>5 DEF TakeTask
    <3>2. Outcome(resp.kind) # "none"
      <4>1. resp.kind \in AllKinds
        BY Zenon, <1>7 DEF TakeTask, TypeOK, RecvTypeOK, Resps
      <4> QED
        BY Zenon, <4>1 DEF Outcome, AllKinds
    <3>3. /\ {resp.seq} \in SUBSET (Waiting \cup Unfinished)
          /\ Waiting' \subseteq Waiting \ {resp.seq}
          /\ taken' \subseteq taken \cup (Waiting \ Waiting')
          /\ \A s \in (Waiting \cup taken) \ (Waiting' \cup taken') :
               s \in {resp.seq} \/ dones[s] = 1
      BY SMTT(30), <2>1, <2>2, <2>4
    <3> QED
      BY ZenonT(30), <1>6, <2>1, <3>1, <3>2, <3>3
  <2>6. CASE ~(resp.kind = "noblob" \/ ~HasBody(resp.kind))
    <3>1. UNCHANGED doneVars /\ taken' = {resp.seq}
      BY Zenon, <1>7, <2>1, <2>6 DEF TakeTask
    <3>2. \A s \in Seqs : /\ dones'[s] = (IF s \in {} THEN dones[s] + 1 ELSE dones[s])
                          /\ result'[s] = (IF s \in {} THEN "IO" ELSE result[s])
      BY Zenon, <3>1 DEF doneVars
    <3>3. /\ {} \in SUBSET (Waiting \cup Unfinished) /\ "IO" # "none"
          /\ Waiting' \subseteq Waiting \ {}
          /\ taken' \subseteq taken \cup (Waiting \ Waiting')
          /\ \A s \in (Waiting \cup taken) \ (Waiting' \cup taken') : s \in {} \/ dones[s] = 1
      BY Zenon, <2>2, <2>4, <3>1
    <3> QED
      BY ZenonT(30), <1>1, <2>1, <3>2, <3>3, PlaceMove
  <2> QED
    BY SMTT(30), <2>5, <2>6
<1>8. CASE ReaderDone
  <2>1. /\ taken' = {} /\ lost' = lost
        /\ UNCHANGED <<pending_tasks, sent_tasks, delay_tasks_queue>>
    BY Zenon, <1>8, ReaderDoneFrame DEF ReleaseTaken, TypeOK, tableVars
  <2>2. PICK r \in {"Ok", "Peer", "Decode", "IO"} : Finish(Unfinished, r)
    BY SMTT(30), <1>8, ReaderDoneFrame DEF TypeOK
  <2>3. Waiting' = Waiting
    BY SMTT(30), <1>1, <2>1, SameLive DEF Waiting
  <2>4. \A s \in taken : s \in Unfinished \/ dones[s] = 1
    BY Zenon DEF Unfinished, PlaceInv, TypeOK, RecvTypeOK
  <2>5. \A s \in Unfinished : s \notin Waiting
    BY Zenon DEF Unfinished, PlaceInv
  <2>6. Unfinished \in SUBSET (Waiting \cup Unfinished) /\ r # "none"
    BY SMTT(30), <2>2
  <2>7. /\ Waiting' \subseteq Waiting \ Unfinished
        /\ taken' \subseteq taken \cup (Waiting \ Waiting')
        /\ \A s \in (Waiting \cup taken) \ (Waiting' \cup taken') :
             s \in Unfinished \/ dones[s] = 1
    BY SMTT(30), <2>1, <2>3, <2>4, <2>5
  <2> QED
    BY ZenonT(30), <1>6, <2>1, <2>2, <2>6, <2>7
<1>9. CASE CleanStep
  <2>1. Finish(Live, "IO") /\ UNCHANGED <<lost, taken>> /\ CleanPendingTasks
    BY SMTT(30), <1>9, CleanFrame DEF CleanPendingTasks
  <2>2. Live' = {}
    BY SMTT(30), <1>9, <2>1, CleanOrder, SenderFrame DEF CleanStep, ReceiverStep, senderVars
  <2>3. Waiting' = Waiting \ Live
    BY SMTT(30), <1>1, <2>2, Apart DEF Waiting
  <2>4. /\ Live \in SUBSET (Waiting \cup Unfinished) /\ "IO" # "none"
        /\ Waiting' \subseteq Waiting \ Live
        /\ taken' \subseteq taken \cup (Waiting \ Waiting')
        /\ \A s \in (Waiting \cup taken) \ (Waiting' \cup taken') : s \in Live \/ dones[s] = 1
    BY Zenon, <2>1, <2>3 DEF Waiting
  <2> QED
    BY ZenonT(30), <1>6, <2>1, <2>4
<1>10. CASE TimeReach
  <2>1. AdjustTaskQueue /\ Finish(Expired, "Timeout") /\ UNCHANGED <<lost, taken>>
    BY Zenon, <1>10 DEF TimeReach, AdjustTaskQueue
  <2>2. Expired \subseteq Live /\ Live' = Live \ Expired
    BY SMTT(30), <2>1, AdjustLive DEF Live
  <2>3. Waiting' = Waiting \ Expired
    BY SMTT(30), <1>1, <2>2, Apart DEF Waiting
  <2>4. /\ Expired \in SUBSET (Waiting \cup Unfinished) /\ "Timeout" # "none"
        /\ Waiting' \subseteq Waiting \ Expired
        /\ taken' \subseteq taken \cup (Waiting \ Waiting')
        /\ \A s \in (Waiting \cup taken) \ (Waiting' \cup taken') : s \in Expired \/ dones[s] = 1
    BY SMTT(30), <2>1, <2>2, <2>3 DEF Waiting
  <2> QED
    BY ZenonT(30), <1>6, <2>1, <2>4
<1> QED
  BY SMTT(30), <1>3, <1>4, <1>5, <1>7, <1>8, <1>9, <1>10
     DEF ReceiverStep, QuietReceiver, DrainStep, ReaderDone, CleanStep

-----------------------------------------------------------------------------
(***************************************************************************)
(* The inductive invariant.                                                 *)
(***************************************************************************)
CallsInv == OrderInv /\ PlaceInv /\ ReaderInv

\* CallsInv is an invariant of the stream.
LEMMA CallsInvariant == Spec => []CallsInv
<1>1. Init => PlaceInv /\ ReaderInv
  <2> SUFFICES ASSUME Init PROVE PlaceInv /\ ReaderInv
    OBVIOUS
  <2>1. /\ pending_tasks = <<>> /\ delay_tasks_queue = <<>> /\ sent_tasks = {}
        /\ dones = [s \in Seqs |-> 0] /\ result = [s \in Seqs |-> "none"]
    BY Zenon DEF Init, TimerInit
  <2>2. /\ spc = "idle" /\ rpc = "loop" /\ seq = 1
        /\ taken = {} /\ lost = {} /\ unencoded = {} /\ pings = {}
    BY Zenon DEF Init
  <2>3. DOMAIN pending_tasks = {} /\ DOMAIN delay_tasks_queue = {}
    BY SMTT(30), <2>1
  <2>4. Waiting = {} /\ Dropped = {}
    BY SMTT(30), <2>1, <2>2, <2>3 DEF Waiting, Dropped, AtSender, Held, Delayed, Live, Range
  <2>5. Issued = {}
    BY SMTT(30), <2>2 DEF Issued, Seqs
  <2> QED
    BY SMTT(30), <2>1, <2>2, <2>4, <2>5 DEF PlaceInv, ReaderInv
<1>2. CallsInv /\ [Next]_vars => (PlaceInv /\ ReaderInv)'
  <2> SUFFICES ASSUME CallsInv, [Next]_vars PROVE (PlaceInv /\ ReaderInv)'
    OBVIOUS
  <2>1. CASE Next
    <3>1. PlaceInv'
      BY ZenonT(30), <2>1, SenderPlaceStep, ReceiverPlaceStep DEF Next, CallsInv
    <3>2. ReaderInv'
      BY ZenonT(30), <2>1, ReaderStep DEF CallsInv, OrderInv
    <3> QED
      BY Zenon, <3>1, <3>2
  <2>2. CASE UNCHANGED vars
    <3>1. UNCHANGED <<timerVars, has_err, lost, senderVars, recvVars>>
      BY Zenon, <2>2 DEF vars
    <3>2. Waiting' = Waiting
      BY Zenon, <3>1, SameLive DEF Waiting, AtSender, timerVars, tableVars, senderVars
    <3>3. PlaceInv'
      BY Zenon, <3>1, <3>2, PlaceSame DEF CallsInv, timerVars, senderVars, recvVars
    <3>4. ReaderInv'
      BY Zenon, <3>1 DEF CallsInv, ReaderInv, Unfinished, recvVars, timerVars, doneVars
    <3> QED
      BY SMTT(30), <3>3, <3>4
  <2> QED
    BY Zenon, <2>1, <2>2
<1> QED
  BY <1>1, <1>2, TypeCorrect, OrderCorrect, PTL DEF Spec, CallsInv, OrderInv

-----------------------------------------------------------------------------
(***************************************************************************)
(* No call vanishes and none ends twice.                                    *)
(***************************************************************************)
\* A set is counted where it has the task.
LEMMA CountIn ==
  ASSUME NEW S, NEW s
  PROVE  Cardinality({T \in {S} : s \in T}) = IF s \in S THEN 1 ELSE 0
<1>1. s \in S => {T \in {S} : s \in T} = {S}
  OBVIOUS
<1>2. ~(s \in S) => {T \in {S} : s \in T} = {}
  OBVIOUS
<1> QED
  BY ZenonT(30), <1>1, <1>2, FS_Singleton, FS_EmptySet

\* The order makes the channel and the batches hold a task once.
LEMMA CountChannel ==
  ASSUME OrderInv, NEW s \in Seqs
  PROVE  /\ Cardinality({i \in DOMAIN pending_tasks : pending_tasks[i] = s})
              = IF s \in Range(pending_tasks) THEN 1 ELSE 0
         /\ Cardinality({i \in DOMAIN delay_tasks_queue : s \in delay_tasks_queue[i]})
              = IF s \in Delayed THEN 1 ELSE 0
<1>0. s \in Int
  BY SMTT(30) DEF Seqs
<1>1. /\ DOMAIN pending_tasks = 1 .. Len(pending_tasks) /\ Len(pending_tasks) \in Nat
      /\ DOMAIN delay_tasks_queue = 1 .. Len(delay_tasks_queue)
      /\ Len(delay_tasks_queue) \in Nat
  BY SMTT(30) DEF OrderInv, TypeOK, TimerTypeOK
<1> DEFINE P == {i \in DOMAIN pending_tasks : pending_tasks[i] = s}
           Q == {i \in DOMAIN delay_tasks_queue : s \in delay_tasks_queue[i]}
<1>2. \A i, j \in P : i = j
  <2> SUFFICES ASSUME NEW i \in P, NEW j \in P, i < j PROVE FALSE
    BY SMTT(30), <1>1
  <2>1. s < s
    BY Zenon DEF OrderInv, TableOrdered, ChannelOrdered
  <2> QED
    BY SMTT(30), <1>0, <2>1
<1>3. \A i, j \in Q : i = j
  <2> SUFFICES ASSUME NEW i \in Q, NEW j \in Q, i < j PROVE FALSE
    BY SMTT(30), <1>1
  <2>1. s < s
    BY Zenon DEF OrderInv, TableOrdered, BatchesOrdered
  <2> QED
    BY SMTT(30), <1>0, <2>1
<1>4. /\ s \in Range(pending_tasks) => P # {}
      /\ ~(s \in Range(pending_tasks)) => P = {}
  BY Zenon DEF Range
<1>5. /\ s \in Delayed => Q # {}
      /\ ~(s \in Delayed) => Q = {}
  BY Zenon DEF Delayed
<1> HIDE DEF P, Q
<1>6. Cardinality(P) = IF s \in Range(pending_tasks) THEN 1 ELSE 0
  <2>1. CASE s \in Range(pending_tasks)
    <3>1. PICK x \in P : TRUE
      BY Zenon, <1>4, <2>1
    <3>2. P = {x}
      BY Zenon, <1>2, <3>1
    <3> QED
      BY SMTT(30), <2>1, <3>2, FS_Singleton
  <2>2. CASE ~(s \in Range(pending_tasks))
    BY SMTT(30), <1>4, <2>2, FS_EmptySet
  <2> QED
    BY Zenon, <2>1, <2>2
<1>7. Cardinality(Q) = IF s \in Delayed THEN 1 ELSE 0
  <2>1. CASE s \in Delayed
    <3>1. PICK x \in Q : TRUE
      BY SMTT(30), <1>5, <2>1
    <3>2. Q = {x}
      BY SMTT(30), <1>3, <3>1
    <3> QED
      BY Zenon, <2>1, <3>2, FS_Singleton
  <2>2. CASE ~(s \in Delayed)
    BY Zenon, <1>5, <2>2, FS_EmptySet
  <2> QED
    BY Zenon, <2>1, <2>2
<1> QED
  BY Zenon, <1>6, <1>7 DEF P, Q

\* Whatever the order of sends, responses, ticks and errors, every task that was
\* given a sequence number is in one place, or was handed back once: for any number
\* of requests, timeout and threshold.
THEOREM ConservationCorrect == Spec => []TaskConservation
<1>1. CallsInv => TaskConservation
  <2> SUFFICES ASSUME CallsInv PROVE TaskConservation
    OBVIOUS
  <2> USE DEF CallsInv
  <2>1. \A s \in Seqs \ Issued : dones[s] = 0
    BY Zenon DEF PlaceInv
  <2>2. ASSUME NEW s \in Issued
        PROVE  Cardinality({i \in DOMAIN pending_tasks : pending_tasks[i] = s})
               + Cardinality({i \in DOMAIN delay_tasks_queue : s \in delay_tasks_queue[i]})
               + Cardinality({S \in {AtSender} : s \in S})
               + Cardinality({S \in {sent_tasks} : s \in S})
               + Cardinality({S \in {Unfinished} : s \in S})
               + Cardinality({S \in {lost} : s \in S})
               + Cardinality({S \in {unencoded} : s \in S})
               + dones[s] = 1
    <3> DEFINE One(b) == IF b THEN 1 ELSE 0
    <3>1. s \in Seqs
      BY Zenon, <2>2 DEF Issued
    <3>2. /\ Cardinality({i \in DOMAIN pending_tasks : pending_tasks[i] = s})
               = One(s \in Range(pending_tasks))
          /\ Cardinality({i \in DOMAIN delay_tasks_queue : s \in delay_tasks_queue[i]})
               = One(s \in Delayed)
      BY Zenon, <3>1, CountChannel
    <3>3. \A S : Cardinality({T \in {S} : s \in T}) = One(s \in S)
      BY Zenon, CountIn
    <3>4. One(s \in Range(pending_tasks)) + One(s \in Delayed) + One(s \in AtSender)
          + One(s \in sent_tasks) + One(s \in Unfinished) + One(s \in lost)
          + One(s \in unencoded) + dones[s] = 1
      <4>1. s \in sent_tasks => s \notin Delayed
        <5>1. \A t \in Delayed, u \in sent_tasks : t < u
          BY Zenon DEF Delayed, OrderInv, TableOrdered, BatchesOrdered
        <5>2. s \in Int
          BY SMTT(30), <3>1 DEF Seqs
        <5> QED
          BY SMTT(30), <5>1, <5>2
      <4>2. /\ s \in sent_tasks \/ s \in Delayed => s \notin Range(pending_tasks)
            /\ s \in AtSender =>
                 s \notin Range(pending_tasks) /\ s \notin sent_tasks /\ s \notin Delayed
        BY Zenon, Apart DEF Live, Held
      <4>3. s \in Waiting <=> \/ s \in Range(pending_tasks) \/ s \in Delayed
                              \/ s \in sent_tasks \/ s \in AtSender
        BY Zenon DEF Waiting, Live, Held
      <4>4. /\ s \in Waiting => /\ dones[s] = 0 /\ s \notin Unfinished
                                /\ s \notin lost /\ s \notin unencoded
            /\ s \in Unfinished => dones[s] = 0 /\ s \notin lost /\ s \notin unencoded
            /\ s \in lost => dones[s] = 0 /\ s \notin unencoded
            /\ s \in unencoded => dones[s] = 0
        BY Zenon DEF PlaceInv, Dropped, Unfinished
      <4>5. \/ s \in Waiting \/ s \in Unfinished \/ s \in lost \/ s \in unencoded
            \/ dones[s] = 1
        BY Zenon, <2>2, <3>1 DEF PlaceInv, Dropped, Unfinished
      <4>6. CASE s \in Waiting
        BY SMTT(30), <4>1, <4>2, <4>3, <4>4, <4>6
      <4>7. CASE ~(s \in Waiting)
        BY SMTT(30), <4>3, <4>4, <4>5, <4>7
      <4> QED
        BY Zenon, <4>6, <4>7
    <3> HIDE DEF One
    <3>5. /\ Cardinality({S \in {AtSender} : s \in S}) = One(s \in AtSender)
          /\ Cardinality({S \in {sent_tasks} : s \in S}) = One(s \in sent_tasks)
          /\ Cardinality({S \in {Unfinished} : s \in S}) = One(s \in Unfinished)
          /\ Cardinality({S \in {lost} : s \in S}) = One(s \in lost)
          /\ Cardinality({S \in {unencoded} : s \in S}) = One(s \in unencoded)
      BY ZenonT(30), <3>3
    <3> QED
      BY Zenon, <3>2, <3>4, <3>5, Zenon
  <2> QED
    BY ZenonT(30), <2>1, <2>2 DEF TaskConservation
<1> QED
  BY <1>1, CallsInvariant, PTL

-----------------------------------------------------------------------------
(***************************************************************************)
(* Only an error drops a call.                                              *)
(***************************************************************************)
\* A task is dropped without its caller being told only on a connection that has
\* failed, whatever has_err and the reader's step race for.
THEOREM LostOnlyOnErrorCorrect == Spec => []LostOnlyOnError
<1>1. Init => LostOnlyOnError
  BY Zenon DEF Init, LostOnlyOnError
<1>2. CallsInv /\ LostOnlyOnError /\ [Next]_vars => LostOnlyOnError'
  <2> SUFFICES ASSUME CallsInv, LostOnlyOnError, [Next]_vars PROVE LostOnlyOnError'
    OBVIOUS
  <2> USE DEF LostOnlyOnError
  <2>1. CASE SenderStep \/ UserCall
    <3>1. lost' = lost
      BY ZenonT(30), <2>1
         DEF SenderStep, UserCall, RefuseTask, EncodeReq, EncodeReqErr, WriteReq,
             WriteReqErr, SetHasErr, Rollback, Register, Throttle, CloseConn, DropStopReg,
             DropClosed, SendTask, FlushReq, FlushReqErr, SendPingReq, SendPingReqErr,
             SetErrorAndExit, Drop
    <3>2. CASE EncodeReqErr
      BY Zenon, <3>2 DEF EncodeReqErr
    <3>3. CASE SetHasErr \/ SetErrorAndExit
      BY Zenon, <3>1, <3>3 DEF SetHasErr, SetErrorAndExit
    <3>4. CASE ~EncodeReqErr /\ ~SetHasErr /\ ~SetErrorAndExit
      <4>1. UNCHANGED <<has_err, unencoded>> /\ spc # "encode_err"
        BY ZenonT(30), <2>1, <3>4
           DEF SenderStep, UserCall, RefuseTask, EncodeReq, WriteReq, WriteReqErr, Rollback,
               Register, Throttle, CloseConn, DropStopReg, DropClosed, SendTask, FlushReq,
               FlushReqErr, SendPingReq, SendPingReqErr, Drop
      <4> QED
        BY Zenon, <3>1, <4>1
    <3> QED
      BY Zenon, <3>2, <3>3, <3>4
  <2>2. CASE RecvExit
    BY Zenon, <2>2 DEF RecvExit, senderVars, CallsInv, ReaderInv
  <2>3. CASE (ReceiverStep /\ ~RecvExit) \/ TimeReach \/ Peer
    <3>1. UNCHANGED <<unencoded, spc>>
      BY Zenon, <2>3, SenderFrame DEF senderVars
    <3>2. UNCHANGED <<lost, has_err>>
      BY ZenonT(30), <2>3, PeerFrame
         DEF ReceiverStep, TimeReach, PollHasErr, PollStart, LoopOpen, LoopClosed, RecvHead,
             RecvLateHead, RecvGarbledHead, WaitRegDone, WaitRegStopped, WaitRegPoll,
             TakeTask, TakeNone, RecvBody, ReadErr, ReadCancelled, ReadPending,
             RecvLoopErr, CleanAgain, InnerDrop
    <3> QED
      BY Zenon, <3>1, <3>2
  <2>4. CASE UNCHANGED vars
    BY Zenon, <2>4 DEF vars, senderVars
  <2> QED
    BY Zenon, <2>1, <2>2, <2>3, <2>4 DEF Next
<1> QED
  BY <1>1, <1>2, CallsInvariant, PTL DEF Spec

-----------------------------------------------------------------------------
(***************************************************************************)
(* Timeouts.                                                                *)
(***************************************************************************)
\* The age of a task is the index of its batch.
AgeInv ==
  /\ \A s \in sent_tasks : age[s] = 0
  /\ \A i \in DOMAIN delay_tasks_queue : \A s \in delay_tasks_queue[i] : age[s] = i
  /\ \A s \in Seqs : processed_seq < s => age[s] = 0
  /\ \A s \in Seqs : result[s] = "Timeout" => age[s] = TaskTimeout + 1

\* Between two ticks tasks enter the current second and leave the table.
LEMMA AgeKeep ==
  ASSUME TypeOK, TableOrdered, AgeInv, age' = age,
         processed_seq' \in Int, processed_seq <= processed_seq',
         sent_tasks' \subseteq sent_tasks \cup Range(pending_tasks),
         DOMAIN delay_tasks_queue' = DOMAIN delay_tasks_queue,
         \A i \in DOMAIN delay_tasks_queue : delay_tasks_queue'[i] \subseteq delay_tasks_queue[i],
         \A s \in Seqs : result'[s] = "Timeout" => result[s] = "Timeout"
  PROVE  AgeInv'
<1>0. processed_seq \in Int
  BY SMTT(30) DEF TypeOK, TimerTypeOK
<1>1. processed_seq \in Int /\ Range(pending_tasks) \in SUBSET Seqs
  BY ZenonT(30), <1>0, LiveTyped DEF TypeOK
<1>2. \A s \in Range(pending_tasks) : processed_seq < s
  BY Zenon DEF TableOrdered, ChannelOrdered, Range
<1>3. \A s \in sent_tasks' : age'[s] = 0
  BY Zenon, <1>1, <1>2 DEF AgeInv
<1>4. \A i \in DOMAIN delay_tasks_queue' : \A s \in delay_tasks_queue'[i] : age'[s] = i
  BY Zenon DEF AgeInv
<1>5. \A s \in Seqs : processed_seq' < s => processed_seq < s
  BY SMTT(30), <1>1 DEF Seqs
<1> QED
  BY ZenonT(30), <1>3, <1>4, <1>5 DEF AgeInv

\* A tick makes every task of the table one older and pushes every batch one back;
\* what it times out was in the batch task_timeout back.
LEMMA AgeTick ==
  ASSUME OrderInv, PlaceInv, AgeInv, AdjustTaskQueue
  PROVE  AgeInv'
<1> DEFINE n == Len(delay_tasks_queue)
           m == Len(delay_tasks_queue')
<1>1. /\ n \in Nat /\ m \in {n, n + 1} /\ DOMAIN delay_tasks_queue' = 1 .. m
      /\ \A i \in 1 .. m : delay_tasks_queue'[i] = AgedQueue[i]
      /\ Expired # {} => n + 1 > TaskTimeout /\ Expired = AgedQueue[n + 1]
  BY ZenonT(30), AdjustBatches DEF OrderInv
<1>2. /\ AgedQueue[1] = sent_tasks
      /\ \A i \in 1 .. n : AgedQueue[i + 1] = delay_tasks_queue[i]
  BY Zenon, AgedQueueProperties DEF OrderInv, TypeOK
<1>3. n <= TaskTimeout /\ TaskTimeout \in Nat /\ DOMAIN delay_tasks_queue = 1 .. n
  BY SMTT(30), TimerAssumption DEF OrderInv, TypeOK, TimerTypeOK
<1>4. \A i \in 1 .. n + 1 : AgedQueue[i] \subseteq Held
  BY Zenon, AgedQueueOrder DEF OrderInv, TableOrdered
<1>5. Held \in SUBSET Seqs /\ processed_seq \in Int /\ age \in [Seqs -> Nat]
  <2>1. processed_seq \in Int /\ age \in [Seqs -> Nat]
    BY SMTT(30) DEF OrderInv, TypeOK, TimerTypeOK
  <2> QED
    BY ZenonT(30), <2>1, LiveTyped DEF OrderInv, TypeOK
<1> HIDE DEF n, m
<1>6. /\ \A s \in Seqs : age'[s] = IF s \in Held THEN age[s] + 1 ELSE age[s]
      /\ \A s \in Seqs : result'[s] = IF s \in Expired THEN "Timeout" ELSE result[s]
      /\ sent_tasks' = {} /\ processed_seq' = processed_seq
  BY Zenon DEF AdjustTaskQueue, Finish
<1>7. \A i \in 1 .. n + 1 : \A s \in AgedQueue[i] : age'[s] = i
  <2> SUFFICES ASSUME NEW i \in 1 .. n + 1, NEW s \in AgedQueue[i] PROVE age'[s] = i
    OBVIOUS
  <2>1. s \in Held /\ s \in Seqs /\ age'[s] = age[s] + 1
    BY Zenon, <1>4, <1>5, <1>6
  <2>2. CASE i = 1
    BY SMTT(30), <1>2, <2>1, <2>2 DEF AgeInv
  <2>3. CASE i # 1
    <3>1. i - 1 \in 1 .. n /\ i = (i - 1) + 1
      BY SMTT(30), <1>1, <2>3
    <3>2. AgedQueue[i] = delay_tasks_queue[i - 1]
      BY Zenon, <1>2, <3>1
    <3>3. age[s] = i - 1
      BY Zenon, <1>3, <3>1, <3>2 DEF AgeInv
    <3> QED
      BY Zenon, <2>1, <3>1, <3>3
  <2> QED
    BY Zenon, <2>2, <2>3
<1>8. \A i \in DOMAIN delay_tasks_queue' : \A s \in delay_tasks_queue'[i] : age'[s] = i
  <2>1. \A i \in 1 .. m : i \in 1 .. n + 1
    BY SMTT(30), <1>1
  <2> QED
    BY Zenon, <1>1, <1>7, <2>1
<1>9. \A s \in Seqs : processed_seq' < s => age'[s] = 0
  <2> SUFFICES ASSUME NEW s \in Seqs, processed_seq < s PROVE age'[s] = 0
    BY Zenon, <1>6
  <2>1. s \in Int
    BY SMTT(30) DEF Seqs
  <2>2. s \notin Held
    BY SMTT(30), <1>5, <2>1 DEF OrderInv, TableOrdered, BatchesOrdered
  <2> QED
    BY Zenon, <1>6, <2>2 DEF AgeInv
<1>10. \A s \in Seqs : result'[s] = "Timeout" => age'[s] = TaskTimeout + 1
  <2> SUFFICES ASSUME NEW s \in Seqs, result'[s] = "Timeout" PROVE age'[s] = TaskTimeout + 1
    OBVIOUS
  <2>1. CASE s \in Expired
    <3>1. n = TaskTimeout /\ n + 1 \in 1 .. n + 1 /\ Expired = AgedQueue[n + 1]
      BY SMTT(30), <1>1, <1>3, <2>1
    <3> QED
      BY Zenon, <1>7, <2>1, <3>1
  <2>2. CASE s \notin Expired
    <3>1. result[s] = "Timeout"
      BY Zenon, <1>6, <2>2
    <3>2. s \notin Held
      BY Zenon, <3>1 DEF PlaceInv, Waiting, Live
    <3> QED
      BY Zenon, <1>6, <3>1, <3>2 DEF AgeInv
  <2> QED
    BY Zenon, <2>1, <2>2
<1> QED
  BY Zenon, <1>6, <1>8, <1>9, <1>10 DEF AgeInv

\* Every step keeps AgeInv.
LEMMA AgeStep ==
  ASSUME CallsInv, AgeInv, Next
  PROVE  AgeInv'
<1> USE DEF CallsInv, OrderInv
<1>1. processed_seq \in Int /\ processed_seq' \in Int
  <2>1. TimerTypeOK /\ TimerTypeOK'
    BY Zenon, TimerTypeStep DEF TypeOK
  <2> QED
    BY SMTT(30), <2>1 DEF TimerTypeOK
<1>2. ASSUME NEW S, NEW r, r # "Timeout", Finish(S, r) \/ UNCHANGED doneVars
      PROVE  \A s \in Seqs : result'[s] = "Timeout" => result[s] = "Timeout"
  BY Zenon, <1>2 DEF Finish, doneVars
<1>3. CASE /\ age' = age /\ UNCHANGED tableVars
           /\ \A s \in Seqs : result'[s] = "Timeout" => result[s] = "Timeout"
  BY SMTT(30), <1>1, <1>3, AgeKeep DEF tableVars
<1>4. CASE \/ QuietSender \/ SendTask \/ RefuseTask \/ Rollback \/ Register \/ SetHasErr
           \/ DropStopReg \/ Peer \/ QuietReceiver
  <2>1. UNCHANGED <<age, tableVars>>
    BY ZenonT(30), <1>4, QuietFrame, PeerFrame
       DEF SendTask, RefuseTask, Rollback, Register, SetHasErr, DropStopReg, timerVars
  <2>2. UNCHANGED doneVars \/ Finish({cur}, "IO")
    BY ZenonT(30), <1>4, QuietFrame, PeerFrame
       DEF SendTask, RefuseTask, Rollback, Register, SetHasErr, DropStopReg, timerVars
  <2>3. \A s \in Seqs : result'[s] = "Timeout" => result[s] = "Timeout"
    BY SMTT(30), <1>2, <2>2
  <2> QED
    BY ZenonT(30), <1>3, <2>1, <2>3
<1>5. CASE DrainStep
  <2>1. PollSentTask /\ UNCHANGED <<delay_tasks_queue, doneVars, age>>
    BY Zenon, <1>5, DrainFrame
  <2>2. processed_seq <= processed_seq'
    BY ZenonT(30), <2>1, DrainOrder DEF PollSentTask, TableOrdered
  <2> QED
    BY Zenon, <1>1, <2>1, <2>2, AgeKeep DEF PollSentTask, doneVars
<1>6. CASE TakeTask
  <2>1. /\ resp.seq \in Held /\ RemoveTask(resp.seq) /\ UNCHANGED <<age, processed_seq>>
        /\ Finish({resp.seq}, Outcome(resp.kind)) \/ UNCHANGED doneVars
    BY Zenon, <1>6 DEF TakeTask
  <2>2. Outcome(resp.kind) # "Timeout"
    <3>1. resp.kind \in AllKinds
      BY Zenon, <1>6 DEF TakeTask, TypeOK, RecvTypeOK, Resps
    <3> QED
      BY Zenon, <3>1 DEF Outcome, AllKinds
  <2>3. \A s \in Seqs : result'[s] = "Timeout" => result[s] = "Timeout"
    BY Zenon, <1>2, <2>1, <2>2
  <2>4. /\ sent_tasks' \subseteq sent_tasks
        /\ DOMAIN delay_tasks_queue' = DOMAIN delay_tasks_queue
        /\ \A i \in DOMAIN delay_tasks_queue :
             delay_tasks_queue'[i] \subseteq delay_tasks_queue[i]
    <3>1. TimerTypeOK
      BY Zenon DEF TypeOK
    <3>2. /\ sent_tasks' \subseteq sent_tasks
          /\ delay_tasks_queue' \in Seq(SUBSET Seqs)
          /\ Len(delay_tasks_queue') = Len(delay_tasks_queue)
          /\ \A i \in 1 .. Len(delay_tasks_queue) :
               delay_tasks_queue'[i] \subseteq delay_tasks_queue[i]
      BY ZenonT(30), <2>1, <3>1, RemoveProperties
    <3>3. /\ DOMAIN delay_tasks_queue' = 1 .. Len(delay_tasks_queue)
          /\ DOMAIN delay_tasks_queue = 1 .. Len(delay_tasks_queue)
      BY Zenon, <3>1, <3>2, LenProperties DEF TimerTypeOK
    <3> QED
      BY ZenonT(30), <3>2, <3>3
  <2> QED
    BY SMTT(30), <1>1, <2>1, <2>3, <2>4, AgeKeep
<1>7. CASE ReaderDone
  <2>1. UNCHANGED <<age, tableVars>>
    BY Zenon, <1>7, ReaderDoneFrame DEF TypeOK
  <2>2. PICK r \in {"Ok", "Peer", "Decode", "IO"} : Finish(Unfinished, r)
    BY Zenon, <1>7, ReaderDoneFrame DEF TypeOK
  <2>3. \A s \in Seqs : result'[s] = "Timeout" => result[s] = "Timeout"
    BY ZenonT(30), <1>2, <2>2
  <2> QED
    BY ZenonT(30), <1>3, <2>1, <2>3
<1>8. CASE CleanStep
  <2>1. CleanPendingTasks /\ age' = age
    BY Zenon, <1>8, CleanFrame
  <2>2. DrainChannel /\ Finish(Live, "IO") /\ sent_tasks' = {}
        /\ delay_tasks_queue' = [i \in DOMAIN delay_tasks_queue |-> {}]
    BY Zenon, <2>1 DEF CleanPendingTasks
  <2>3. processed_seq <= processed_seq'
    BY Zenon, <2>2, DrainOrder DEF TableOrdered
  <2>4. \A s \in Seqs : result'[s] = "Timeout" => result[s] = "Timeout"
    BY Zenon, <1>2, <2>2
  <2> QED
    BY SMTT(30), <1>1, <2>1, <2>2, <2>3, <2>4, AgeKeep
<1>9. CASE TimeReach
  BY Zenon, <1>9, AgeTick DEF TimeReach
<1> QED
  BY ZenonT(30), <1>4, <1>5, <1>6, <1>7, <1>8, <1>9, Steps

\* Whatever the traffic, the ticker times a task out on the tick after task_timeout
\* full ticks in the table, never earlier, and no task stays longer.
THEOREM TimeoutCorrect == Spec => []TimeoutExact
<1>1. Init => AgeInv
  <2> SUFFICES ASSUME Init PROVE AgeInv
    OBVIOUS
  <2>1. /\ sent_tasks = {} /\ delay_tasks_queue = <<>>
        /\ age = [s \in Seqs |-> 0] /\ result = [s \in Seqs |-> "none"]
    BY Zenon DEF Init, TimerInit
  <2>2. DOMAIN delay_tasks_queue = {}
    BY SMTT(30), <2>1
  <2> QED
    BY Zenon, <2>1, <2>2 DEF AgeInv
<1>2. CallsInv /\ AgeInv /\ [Next]_vars => AgeInv'
  <2> SUFFICES ASSUME CallsInv, AgeInv, [Next]_vars PROVE AgeInv'
    OBVIOUS
  <2>1. CASE Next
    BY Zenon, <2>1, AgeStep
  <2>2. CASE UNCHANGED vars
    BY Zenon, <2>2 DEF vars, timerVars, tableVars, doneVars, AgeInv
  <2> QED
    BY Zenon, <2>1, <2>2
<1>3. CallsInv /\ AgeInv => TimeoutExact
  <2> SUFFICES ASSUME CallsInv, AgeInv, NEW s \in Held PROVE age[s] <= TaskTimeout
    BY Zenon DEF TimeoutExact, AgeInv
  <2>1. TaskTimeout \in Nat /\ Len(delay_tasks_queue) <= TaskTimeout
        /\ DOMAIN delay_tasks_queue = 1 .. Len(delay_tasks_queue)
        /\ Len(delay_tasks_queue) \in Nat
    BY SMTT(30), TimerAssumption DEF CallsInv, OrderInv, TypeOK, TimerTypeOK
  <2>2. CASE s \in sent_tasks
    BY SMTT(30), <2>1, <2>2 DEF AgeInv
  <2>3. CASE s \in Delayed
    <3>1. PICK i \in DOMAIN delay_tasks_queue : s \in delay_tasks_queue[i]
      BY Zenon, <2>3 DEF Delayed
    <3>2. age[s] = i
      BY Zenon, <3>1 DEF AgeInv
    <3> QED
      BY SMTT(30), <2>1, <3>1, <3>2
  <2> QED
    BY Zenon, <2>2, <2>3 DEF Held
<1> QED
  BY <1>1, <1>2, <1>3, CallsInvariant, PTL DEF Spec

=============================================================================
