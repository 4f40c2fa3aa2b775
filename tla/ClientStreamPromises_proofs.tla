------------------- MODULE ClientStreamPromises_proofs -------------------
(***************************************************************************)
(* What a client connection promises its callers: it implements RpcCalls;    *)
(* and its own two coroutines: the throttler's window is exact, and the      *)
(* count by which receive_loop leaves is.                                    *)
(***************************************************************************)
EXTENDS ClientStreamCalls_proofs

-----------------------------------------------------------------------------
(***************************************************************************)
(* The connection implements RpcCalls.                                      *)
(***************************************************************************)
\* What is on the wire, and what the reader has read, are responses of the peer to
\* requests that were sent.
AnswerInv ==
  /\ \A s \in arrived \cup wbuf : s < seq
  /\ \A s \in Seqs : replied[s] # {} => s \in arrived
  /\ \A i \in DOMAIN responses : responses[i].kind \in replied[responses[i].seq]
  /\ resp \in Resps => resp.kind \in replied[resp.seq]

\* Only numbers that were given out are written.
LEMMA WireStep ==
  ASSUME OrderInv, \A s \in arrived \cup wbuf : s < seq, Next
  PROVE  \A s \in arrived' \cup wbuf' : s < seq'
<1> USE DEF OrderInv
<1>1. /\ seq \in Int /\ \A s \in arrived \cup wbuf : s \in Int
  BY SMTT(30), TimerAssumption DEF TypeOK, SenderTypeOK, PeerTypeOK, Seqs
<1>2. CASE arrived' \cup wbuf' \subseteq arrived \cup wbuf /\ (seq' = seq \/ seq' = seq + 1)
  BY SMTT(30), <1>1, <1>2
<1>3. CASE ReceiverStep \/ TimeReach \/ Peer
  <2>1. wbuf' = wbuf /\ seq' = seq
    BY Zenon, <1>3, SenderFrame DEF senderVars
  <2>2. arrived' = arrived
    BY ZenonT(30), <1>3
       DEF ReceiverStep, TimeReach, Peer, PollHasErr, PollStart, LoopOpen, LoopClosed, RecvHead,
           RecvLateHead, RecvGarbledHead, WaitRegDone, WaitRegStopped, WaitRegPoll,
           TakeTask, TakeNone, RecvBody, ReadErr, ReadCancelled, ReadPending, RecvLoopErr,
           CleanAgain, RecvExit, InnerDrop, PeerReply, PeerHalfHead, PeerBody, LinkDown, peerVars
  <2> QED
    BY Zenon, <1>2, <2>1, <2>2
<1>4. CASE WriteReq \/ WriteReqErr
  <2>1. cur < seq /\ seq' = seq
    <3>1. cur \in AtSender /\ seq' = seq
      BY Zenon, <1>4 DEF WriteReq, WriteReqErr, AtSender
    <3> QED
      BY Zenon, <3>1 DEF TableOrdered, ChannelOrdered
  <2>2. arrived' \cup wbuf' \subseteq arrived \cup wbuf \cup {cur}
    <3>1. CASE WriteReq
      BY Zenon, <3>1 DEF WriteReq, Deliver
    <3>2. CASE WriteReqErr
      BY Zenon, <3>2 DEF WriteReqErr, Deliver, DeliverPrefixOf
    <3> QED
      BY Zenon, <1>4, <3>1, <3>2
  <2> QED
    BY Zenon, <1>1, <2>1, <2>2
<1>5. CASE SendPingReq \/ SendPingReqErr
  <2>1. seq' = seq + 1 /\ arrived' \cup wbuf' \subseteq arrived \cup wbuf \cup {seq}
    BY Zenon, <1>5 DEF SendPingReq, SendPingReqErr, Deliver, DeliverPrefixOf
  <2> QED
    BY SMTT(30), <1>1, <2>1
<1>6. CASE FlushReq \/ FlushReqErr \/ CloseConn
  <2>1. seq' = seq /\ arrived' \cup wbuf' \subseteq arrived \cup wbuf
    <3>1. CASE FlushReq \/ FlushReqErr
      BY Zenon, <3>1 DEF FlushReq, FlushReqErr, Deliver, DeliverPrefixOf
    <3>2. CASE CloseConn
      BY Zenon, <3>2 DEF CloseConn, Deliver, DeliverPrefixOf
    <3> QED
      BY Zenon, <1>6, <3>1, <3>2
  <2> QED
    BY Zenon, <1>2, <2>1
<1>7. CASE \/ SendTask \/ RefuseTask \/ EncodeReq \/ EncodeReqErr \/ SetHasErr \/ Rollback
           \/ Register \/ Throttle \/ SetErrorAndExit \/ Drop \/ DropStopReg \/ DropClosed
  <2>1. UNCHANGED <<wbuf, arrived>> /\ (seq' = seq \/ seq' = seq + 1)
    BY ZenonT(30), <1>7
       DEF SendTask, RefuseTask, EncodeReq, EncodeReqErr, SetHasErr, Rollback, Register,
           Throttle, SetErrorAndExit, Drop, DropStopReg, DropClosed, peerVars
  <2> QED
    BY Zenon, <1>2, <2>1
<1> QED
  BY ZenonT(30), <1>3, <1>4, <1>5, <1>6, <1>7 DEF Next, SenderStep, UserCall

\* The peer answers requests it has received, and its answers are not taken back.
LEMMA RepliedStep ==
  ASSUME OrderInv, AnswerInv, Next
  PROVE  /\ \A s \in Seqs : replied[s] \subseteq replied'[s]
         /\ \A s \in Seqs : replied'[s] # {} => s \in arrived'
<1> USE DEF OrderInv, AnswerInv
<1>1. CASE Next /\ ~Peer
  <2>1. replied' = replied
    BY ZenonT(30), <1>1
       DEF Next, SenderStep, UserCall, ReceiverStep, TimeReach, RefuseTask, EncodeReq,
           EncodeReqErr, WriteReq, WriteReqErr, SetHasErr, Rollback, Register, Throttle,
           CloseConn, DropStopReg, DropClosed, SendTask, FlushReq, FlushReqErr, SendPingReq,
           SendPingReqErr, SetErrorAndExit, Drop, PollHasErr, PollStart, LoopOpen,
           LoopClosed, RecvHead, RecvLateHead, RecvGarbledHead, WaitRegDone,
           WaitRegStopped, WaitRegPoll, TakeTask, TakeNone, RecvBody, ReadErr,
           ReadCancelled, ReadPending, RecvLoopErr, CleanAgain, RecvExit, InnerDrop, peerVars
  <2>2. arrived \subseteq arrived'
    <3>1. CASE WriteReq \/ WriteReqErr \/ FlushReq \/ FlushReqErr
      BY Zenon, <3>1 DEF WriteReq, WriteReqErr, FlushReq, FlushReqErr, Deliver, DeliverPrefixOf
    <3>2. CASE SendPingReq \/ SendPingReqErr \/ CloseConn
      BY SMTT(30), <3>2 DEF SendPingReq, SendPingReqErr, CloseConn, Deliver, DeliverPrefixOf
    <3>3. CASE ~(WriteReq \/ WriteReqErr \/ FlushReq \/ FlushReqErr)
               /\ ~(SendPingReq \/ SendPingReqErr \/ CloseConn)
      BY ZenonT(30), <1>1, <3>3
         DEF Next, SenderStep, UserCall, ReceiverStep, TimeReach, RefuseTask, EncodeReq,
             EncodeReqErr, SetHasErr, Rollback, Register, Throttle, DropStopReg, DropClosed,
             SendTask, SetErrorAndExit, Drop, PollHasErr, PollStart, LoopOpen,
             LoopClosed, RecvHead, RecvLateHead, RecvGarbledHead, WaitRegDone,
             WaitRegStopped, WaitRegPoll, TakeTask, TakeNone, RecvBody, ReadErr,
             ReadCancelled, ReadPending, RecvLoopErr, CleanAgain, RecvExit, InnerDrop, peerVars
    <3> QED
      BY Zenon, <3>1, <3>2, <3>3
  <2> QED
    BY SMTT(30), <2>1, <2>2
<1>2. CASE PeerHalfHead \/ PeerBody \/ LinkDown
  BY ZenonT(30), <1>2 DEF PeerHalfHead, PeerBody, LinkDown
<1>3. ASSUME NEW s \in Seqs, NEW k, PeerReply(s, k)
      PROVE  /\ \A u \in Seqs : replied[u] \subseteq replied'[u]
             /\ \A u \in Seqs : replied'[u] # {} => u \in arrived'
  BY Zenon, <1>3 DEF PeerReply, TypeOK, PeerTypeOK
<1> QED
  BY Zenon, <1>1, <1>2, <1>3 DEF Peer

\* The headers on the wire are answers of the peer.
LEMMA ResponsesStep ==
  ASSUME OrderInv, AnswerInv, Next
  PROVE  \A i \in DOMAIN responses' : responses'[i].kind \in replied'[responses'[i].seq]
<1> USE DEF OrderInv, AnswerInv
<1>1. \A s \in Seqs : replied[s] \subseteq replied'[s]
  BY Zenon, RepliedStep
<1>2. \A i \in DOMAIN responses : responses[i].seq \in Seqs
  <2>1. \A i \in DOMAIN responses : responses[i] \in Resps
    BY SMTT(30) DEF TypeOK, PeerTypeOK
  <2> QED
    BY Zenon, <2>1 DEF Resps
<1>3. \A i \in DOMAIN responses : responses[i].kind \in replied'[responses[i].seq]
  BY ZenonT(30), <1>1, <1>2
<1>4. responses \in Seq(Resps)
  BY Zenon DEF TypeOK, PeerTypeOK
<1>5. CASE \A i \in DOMAIN responses' : \E j \in DOMAIN responses : responses'[i] = responses[j]
  BY ZenonT(30), <1>3, <1>5
<1>6. CASE RecvHead \/ RecvLateHead
  <2>1. responses # <<>> /\ responses' = Tail(responses)
    BY ZenonT(30), <1>6 DEF RecvHead, RecvLateHead, HeadArrived
  <2>2. \A i \in DOMAIN responses' : i + 1 \in DOMAIN responses /\ responses'[i] = responses[i + 1]
    BY SMTT(30), <1>4, <2>1
  <2> QED
    BY Zenon, <1>5, <2>2, Zenon
<1>7. CASE LinkDown
  <2>1. PICK k \in 0 .. Len(responses) : responses' = SubSeq(responses, 1, k)
    BY Zenon, <1>7 DEF LinkDown
  <2>2. \A i \in DOMAIN responses' : i \in DOMAIN responses /\ responses'[i] = responses[i]
    <3>1. \A i \in 1 .. k : responses[i] \in Resps
      BY SMTT(30), <1>4, <2>1
    <3>2. k \in Nat
      BY SMTT(30), <2>1
    <3>3. /\ SubSeq(responses, 1, k) \in Seq(Resps)
          /\ Len(SubSeq(responses, 1, k)) = IF 1 <= k THEN k - 1 + 1 ELSE 0
          /\ \A i \in 1 .. k - 1 + 1 : SubSeq(responses, 1, k)[i] = responses[1 + i - 1]
      BY SMTT(30), <3>1, <3>2, SubSeqProperties
    <3>4. DOMAIN SubSeq(responses, 1, k) = 1 .. k
      BY SMTT(30), <3>2, <3>3, LenProperties
    <3>5. \A i \in 1 .. k : i \in 1 .. k - 1 + 1 /\ 1 + i - 1 = i
      BY SMTT(30), <3>2
    <3>6. DOMAIN responses = 1 .. Len(responses) /\ Len(responses) \in Nat
      BY SMTT(30), <1>4
    <3>7. \A i \in 1 .. k : i \in 1 .. Len(responses)
      BY SMTT(30), <2>1, <3>6
    <3> QED
      BY SMTT(30), <2>1, <3>3, <3>4, <3>5, <3>6, <3>7
  <2> QED
    BY Zenon, <1>5, <2>2, Zenon
<1>8. ASSUME NEW s \in Seqs, NEW k \in Kinds \cup {"empty"}, PeerReply(s, k)
      PROVE  \A i \in DOMAIN responses' : responses'[i].kind \in replied'[responses'[i].seq]
  <2>1. responses' = Append(responses, [seq |-> s, kind |-> k])
    BY Zenon, <1>8 DEF PeerReply
  <2>2. k \in replied'[s]
    BY Zenon, <1>8 DEF PeerReply, TypeOK, PeerTypeOK
  <2>3. [seq |-> s, kind |-> k] \in Resps
    BY ZenonT(30), StreamAssumption DEF Resps, AllKinds
  <2>4. \A i \in DOMAIN responses' : \/ i \in DOMAIN responses /\ responses'[i] = responses[i]
                                     \/ responses'[i] = [seq |-> s, kind |-> k]
    BY SMTT(30), <1>4, <2>1, <2>3
  <2> QED
    BY SMTT(30), <1>3, <2>2, <2>4
<1>9. CASE Next /\ ~RecvHead /\ ~RecvLateHead /\ ~LinkDown
           /\ ~(\E s \in Seqs, k \in Kinds \cup {"empty"} : PeerReply(s, k))
  <2>1. responses' = responses
    BY ZenonT(30), <1>9
       DEF Next, SenderStep, UserCall, ReceiverStep, TimeReach, RefuseTask, EncodeReq,
           EncodeReqErr, WriteReq, WriteReqErr, SetHasErr, Rollback, Register, Throttle,
           CloseConn, DropStopReg, DropClosed, SendTask, FlushReq, FlushReqErr, SendPingReq,
           SendPingReqErr, SetErrorAndExit, Drop, PollHasErr, PollStart, LoopOpen,
           LoopClosed, RecvGarbledHead, WaitRegDone,
           WaitRegStopped, WaitRegPoll, TakeTask, TakeNone, RecvBody, ReadErr,
           ReadCancelled, ReadPending, RecvLoopErr, CleanAgain, RecvExit, InnerDrop, Peer,
           PeerHalfHead, PeerBody, peerVars
  <2> QED
    BY SMTT(30), <1>3, <2>1
<1> QED
  BY Zenon, <1>6, <1>7, <1>8, <1>9

\* And so is the response the reader works on.
LEMMA RespStep ==
  ASSUME OrderInv, AnswerInv, Next
  PROVE  resp' \in Resps => resp'.kind \in replied'[resp'.seq]
<1> USE DEF OrderInv, AnswerInv
<1>1. \A s \in Seqs : replied[s] \subseteq replied'[s]
  BY SMTT(30), RepliedStep
<1>2. CASE resp' = resp
  BY SMTT(30), <1>1, <1>2 DEF Resps
<1>3. CASE resp' = NoResp
  BY SMTT(30), <1>3 DEF NoResp, Resps, Seqs
<1>4. CASE RecvHead \/ RecvLateHead
  <2>1. responses # <<>> /\ (resp' = Head(responses) \/ resp' = NoResp)
    BY ZenonT(30), <1>4 DEF RecvHead, RecvLateHead, HeadArrived
  <2>2. responses \in Seq(Resps)
    BY SMTT(30) DEF TypeOK, PeerTypeOK
  <2>3. Head(responses) = responses[1] /\ 1 \in DOMAIN responses /\ responses[1] \in Resps
    BY SMTT(30), <2>1, <2>2
  <2>4. responses[1].seq \in Seqs
    BY Zenon, <2>3 DEF Resps
  <2> QED
    BY Zenon, <1>1, <1>3, <2>1, <2>3, <2>4
<1>5. CASE SenderStep \/ UserCall \/ Peer
  BY SMTT(30), <1>2, <1>5, RecvFrame DEF recvVars
<1>6. CASE TimeReach \/ (ReceiverStep /\ ~RecvHead /\ ~RecvLateHead)
  <2>1. resp' = resp \/ resp' = NoResp
    BY ZenonT(30), <1>6
       DEF ReceiverStep, TimeReach, PollHasErr, PollStart, LoopOpen, LoopClosed,
           RecvGarbledHead, WaitRegDone, WaitRegStopped, WaitRegPoll, TakeTask, TakeNone,
           RecvBody, ReadErr, ReadCancelled, ReadPending, RecvLoopErr, CleanAgain, RecvExit,
           InnerDrop, BodyOrLoop, recvVars
  <2> QED
    BY SMTT(30), <1>2, <1>3, <2>1
<1> QED
  BY SMTT(30), <1>4, <1>5, <1>6 DEF Next

\* What the abstract state of a call is, by where the call is.
LEMMA StateOf ==
  ASSUME CallsInv, NEW s \in Seqs
  PROVE  /\ s \in Waiting \cup Unfinished => s \in Issued /\ CallState[s] = "open"
         /\ s \notin Issued => CallState[s] = "new"
         /\ s \in Issued => CallState[s] # "new"
<1> USE DEF CallsInv, PlaceInv, Dropped
<1>1. CallState[s] = IF s \in lost \cup unencoded THEN "lost"
                     ELSE IF result[s] # "none" THEN result[s]
                     ELSE IF s \in Issued THEN "open" ELSE "new"
  BY Zenon DEF CallState
<1>2. result[s] \in Results
  BY Zenon DEF OrderInv, TypeOK, TimerTypeOK
<1>3. s \in Waiting \cup Unfinished => /\ s \in Issued /\ s \notin lost \cup unencoded
                                       /\ dones[s] = 0
  BY Zenon DEF Unfinished
<1>4. s \notin Issued => s \notin lost \cup unencoded /\ dones[s] = 0
  BY Zenon
<1>5. dones[s] = 0 <=> result[s] = "none"
  BY Zenon
<1> QED
  BY SMTT(30), <1>1, <1>2, <1>3, <1>4, <1>5 DEF Results

\* Nothing the caller or the peer can see changes.
LEMMA StateSame ==
  ASSUME UNCHANGED <<lost, unencoded, result, seq, pings>>
  PROVE  CallState' = CallState
<1>1. Issued' = Issued
  BY Zenon DEF Issued
<1> QED
  BY Zenon, <1>1 DEF CallState

\* The answers the peer has given depend only on pings and replied.
LEMMA AnswersSame ==
  ASSUME UNCHANGED <<pings, replied>>
  PROVE  CallAnswers' = CallAnswers
BY Zenon DEF CallAnswers

\* Handing tasks back ends their calls.
LEMMA EndStep ==
  ASSUME CallsInv, NEW S \in SUBSET (Waiting \cup Unfinished), NEW r,
         \/ r \in {"IO", "Timeout"}
         \/ r \in {"Ok", "Peer", "Decode"} /\ \A s \in S : r \in CallAnswers[s],
         Finish(S, r), UNCHANGED <<lost, unencoded, seq, pings, replied>>
  PROVE  Abstract!Next \/ UNCHANGED <<CallState, CallAnswers>>
<1>1. CallAnswers' = CallAnswers /\ Issued' = Issued
  BY Zenon, AnswersSame DEF Issued
<1>2. S \subseteq Seqs /\ \A s \in S : s \notin lost \cup unencoded
  BY Zenon DEF CallsInv, PlaceInv, Issued, Unfinished, Dropped
<1>3. \A s \in S : CallState[s] = "open"
  BY SMTT(30), <1>2, StateOf
<1>4. CallState' = [c \in Seqs |-> IF c \in S THEN r ELSE CallState[c]]
  <2>1. r # "none"
    OBVIOUS
  <2>2. \A c \in Seqs : result'[c] = IF c \in S THEN r ELSE result[c]
    BY Zenon DEF Finish
  <2>3. \A c \in Seqs : (IF c \in lost' \cup unencoded' THEN "lost"
                         ELSE IF result'[c] # "none" THEN result'[c]
                         ELSE IF c \in Issued' THEN "open" ELSE "new")
                        = IF c \in S THEN r ELSE CallState[c]
    BY SMTT(30), <1>1, <1>2, <2>1, <2>2 DEF CallState
  <2> QED
    BY ZenonT(30), <2>3 DEF CallState
<1>5. CASE S = {}
  <2>1. CallState' = CallState
    BY SMTT(30), <1>4, <1>5 DEF CallState
  <2> QED
    BY Zenon, <1>1, <2>1
<1>6. CASE S # {}
  <2>1. Abstract!End(S, r)
    BY SMTT(30), <1>1, <1>3, <1>4, <1>6 DEF Abstract!End, Abstract!LocalOutcomes
  <2> QED
    BY Zenon, <1>2, <2>1 DEF Abstract!Next, Abstract!LocalOutcomes
<1> QED
  BY SMTT(30), <1>5, <1>6

\* seq_update opens a call, loses one that does not encode, or is for a ping.
LEMMA OpenStep ==
  ASSUME CallsInv, AnswerInv, EncodeReq \/ EncodeReqErr \/ SendPingReq \/ SendPingReqErr
  PROVE  Abstract!Next \/ UNCHANGED <<CallState, CallAnswers>>
<1>1. /\ UNCHANGED <<lost, result, replied>> /\ seq <= MaxSeq /\ seq' = seq + 1
  BY Zenon DEF EncodeReq, EncodeReqErr, SendPingReq, SendPingReqErr, timerVars, doneVars,
                  peerVars, CallsInv, OrderInv, TypeOK, SenderTypeOK
<1>2. \/ UNCHANGED <<unencoded, pings>>
      \/ unencoded' = unencoded \cup {seq} /\ UNCHANGED pings
      \/ pings' = pings \cup {seq} /\ UNCHANGED unencoded
  BY ZenonT(30) DEF EncodeReq, EncodeReqErr, SendPingReq, SendPingReqErr
<1>3. seq \in Seqs /\ seq \in Int /\ seq \notin Issued
  BY SMTT(30), <1>1, TimerAssumption DEF CallsInv, OrderInv, TypeOK, SenderTypeOK, Seqs, Issued
<1>4. seq \notin lost \cup unencoded /\ result[seq] = "none" /\ CallState[seq] = "new"
      /\ seq \notin pings
  <2>1. seq \notin pings
    BY SMTT(30), <1>3 DEF CallsInv, PlaceInv
  <2>2. seq \notin lost \cup unencoded /\ result[seq] = "none"
    BY Zenon, <1>3 DEF CallsInv, PlaceInv, Dropped
  <2> QED
    BY SMTT(30), <1>3, <2>1, <2>2, StateOf
<1>5. {s \in Seqs : s < seq'} = {s \in Seqs : s < seq} \cup {seq}
  BY SMTT(30), <1>1, <1>3 DEF Seqs
<1>6. CASE UNCHANGED pings
  <2>1. CallAnswers' = CallAnswers
    BY SMTT(30), <1>1, <1>6, AnswersSame
  <2>2. Issued' = Issued \cup {seq}
    BY SMTT(30), <1>4, <1>5, <1>6 DEF Issued
  <2>3. CASE UNCHANGED unencoded
    <3>1. CallState' = [CallState EXCEPT ![seq] = "open"]
      BY SMTT(30), <1>1, <1>4, <2>2, <2>3 DEF CallState
    <3>2. Abstract!Open(seq)
      BY SMTT(30), <1>4, <2>1, <3>1 DEF Abstract!Open
    <3> QED
      BY SMTT(30), <1>3, <3>2 DEF Abstract!Next
  <2>4. CASE unencoded' = unencoded \cup {seq}
    <3>1. CallState' = [CallState EXCEPT ![seq] = "lost"]
      BY SMTT(30), <1>1, <1>4, <2>2, <2>4 DEF CallState
    <3>2. Abstract!Lose(seq)
      BY SMTT(30), <1>4, <2>1, <3>1 DEF Abstract!Lose
    <3> QED
      BY SMTT(30), <1>3, <3>2 DEF Abstract!Next
  <2> QED
    BY SMTT(30), <1>2, <1>3, <1>4, <1>6, <2>3, <2>4
<1>7. CASE pings' = pings \cup {seq} /\ UNCHANGED unencoded
  <2>1. Issued' = Issued
    BY SMTT(30), <1>3, <1>4, <1>5, <1>7 DEF Issued
  <2>2. CallState' = CallState
    BY SMTT(30), <1>1, <1>7, <2>1 DEF CallState
  <2>3. replied[seq] = {}
    BY SMTT(30), <1>3 DEF AnswerInv
  <2>4. CallAnswers' = CallAnswers
    BY SMTT(30), <1>1, <1>7, <2>3 DEF CallAnswers
  <2> QED
    BY SMTT(30), <2>2, <2>4
<1> QED
  BY SMTT(30), <1>2, <1>6, <1>7

\* A response of the peer is an answer; to a ping it is none.
LEMMA ReplyStep ==
  ASSUME CallsInv, AnswerInv, NEW s \in Seqs, NEW k \in Kinds \cup {"empty"}, PeerReply(s, k)
  PROVE  Abstract!Next \/ UNCHANGED <<CallState, CallAnswers>>
<1>1. /\ UNCHANGED <<lost, unencoded, result, seq, pings>> /\ s \in arrived
      /\ replied' = [replied EXCEPT ![s] = @ \cup {k}]
  BY Zenon DEF PeerReply, timerVars, doneVars, senderVars
<1>2. CallState' = CallState
  BY SMTT(30), <1>1, StateSame
<1>3. replied \in [Seqs -> SUBSET AllKinds]
  BY Zenon DEF CallsInv, OrderInv, TypeOK, PeerTypeOK
<1>4. CASE s \in pings
  <2>1. CallAnswers' = CallAnswers
    BY SMTT(30), <1>1, <1>3, <1>4 DEF CallAnswers
  <2> QED
    BY SMTT(30), <1>2, <2>1
<1>5. CASE s \notin pings
  <2>1. CallState[s] # "new"
    <3>1. s \in Issued
      BY SMTT(30), <1>1, <1>5 DEF AnswerInv, Issued
    <3> QED
      BY SMTT(30), <3>1, StateOf
  <2>2. CallAnswers' = [CallAnswers EXCEPT ![s] = @ \cup {Outcome(k)}]
    <3>1. {Outcome(j) : j \in replied[s] \cup {k}} = {Outcome(j) : j \in replied[s]} \cup {Outcome(k)}
      OBVIOUS
    <3>2. \A u \in Seqs : replied'[u] = IF u = s THEN replied[s] \cup {k} ELSE replied[u]
      BY Zenon, <1>1, <1>3
    <3>3. \A u \in Seqs : (IF u \in pings' THEN {} ELSE {Outcome(j) : j \in replied'[u]})
                          = IF u = s THEN CallAnswers[s] \cup {Outcome(k)} ELSE CallAnswers[u]
      BY ZenonT(30), <1>1, <1>5, <3>1, <3>2 DEF CallAnswers
    <3>4. CallAnswers' = [u \in Seqs |-> IF u = s THEN CallAnswers[s] \cup {Outcome(k)}
                                                  ELSE CallAnswers[u]]
      BY ZenonT(30), <3>3 DEF CallAnswers
    <3> QED
      BY ZenonT(30), <3>4 DEF CallAnswers
  <2>3. Outcome(k) \in {"Ok", "Peer", "Decode"}
    <3>1. k \in AllKinds
      BY Zenon, StreamAssumption DEF AllKinds
    <3> QED
      BY Zenon, <3>1 DEF Outcome, AllKinds
  <2>4. Abstract!Answer(s, Outcome(k))
    BY Zenon, <1>2, <2>1, <2>2 DEF Abstract!Answer
  <2> QED
    BY SMTT(30), <2>3, <2>4 DEF Abstract!Next
<1> QED
  BY SMTT(30), <1>4, <1>5

\* The reader drops at most the one call it holds.
LEMMA LoseStep ==
  ASSUME CallsInv, RecvExit
  PROVE  Abstract!Next \/ UNCHANGED <<CallState, CallAnswers>>
<1>1. /\ UNCHANGED <<unencoded, result, seq, pings, replied>>
      /\ lost' = lost \cup Unfinished
  BY Zenon DEF RecvExit, timerVars, doneVars, senderVars, peerVars
<1>2. CallAnswers' = CallAnswers /\ Issued' = Issued
  BY Zenon, <1>1, AnswersSame DEF Issued
<1>3. CASE Unfinished = {}
  BY SMTT(30), <1>1, <1>2, <1>3, StateSame
<1>4. CASE Unfinished # {}
  <2>1. PICK c \in Unfinished : TRUE
    BY SMTT(30), <1>4
  <2>2. Unfinished = {c} /\ c \in Seqs
    BY SMTT(30), <2>1 DEF Unfinished, CallsInv, ReaderInv, OrderInv, TypeOK, RecvTypeOK
  <2>3. CallState[c] = "open"
    BY Zenon, <2>2, StateOf
  <2>4. CallState' = [CallState EXCEPT ![c] = "lost"]
    BY ZenonT(30), <1>1, <1>2, <2>2 DEF CallState
  <2>5. Abstract!Lose(c)
    BY SMTT(30), <1>2, <2>3, <2>4 DEF Abstract!Lose
  <2> QED
    BY Zenon, <2>2, <2>5 DEF Abstract!Next
<1> QED
  BY Zenon, <1>3, <1>4

\* The response in the reader's hands was answered to the call it is matched with.
LEMMA RespAnswers ==
  ASSUME CallsInv, AnswerInv, resp \in Resps, resp.seq \in Issued
  PROVE  /\ Outcome(resp.kind) \in {"Ok", "Peer", "Decode"}
         /\ Outcome(resp.kind) \in CallAnswers[resp.seq]
<1>1. resp.seq \in Seqs /\ resp.kind \in AllKinds /\ resp.seq \notin pings
  BY Zenon DEF Resps, Issued
<1>2. resp.kind \in replied[resp.seq]
  BY Zenon DEF AnswerInv
<1>3. Outcome(resp.kind) \in {"Ok", "Peer", "Decode"}
  BY Zenon, <1>1 DEF Outcome, AllKinds
<1> QED
  BY SMTT(30), <1>1, <1>2, <1>3 DEF CallAnswers

\* Every step is a step of RpcCalls or changes nothing RpcCalls sees.
LEMMA RefineStep ==
  ASSUME CallsInv, AnswerInv, Next
  PROVE  Abstract!Next \/ UNCHANGED <<CallState, CallAnswers>>
<1>1. CASE UNCHANGED <<lost, unencoded, result, seq, pings, replied>>
  BY SMTT(30), <1>1, StateSame, AnswersSame
<1>2. CASE EncodeReq \/ EncodeReqErr \/ SendPingReq \/ SendPingReqErr
  BY Zenon, <1>2, OpenStep
<1>3. CASE Rollback
  <2>1. /\ Finish({cur}, "IO") /\ UNCHANGED <<lost, unencoded, seq, pings, replied>>
        /\ {cur} \in SUBSET (Waiting \cup Unfinished)
    BY Zenon, <1>3 DEF Rollback, peerVars, Waiting, AtSender
  <2> QED
    BY ZenonT(30), <2>1, EndStep
<1>4. CASE TakeTask
  <2>1. /\ UNCHANGED <<lost, unencoded, seq, pings, replied>>
        /\ \/ Finish({resp.seq}, Outcome(resp.kind))
           \/ UNCHANGED doneVars
    BY Zenon, <1>4 DEF TakeTask, senderVars, peerVars
  <2>2. resp.seq \in Waiting /\ resp \in Resps
    BY Zenon, <1>4 DEF TakeTask, Waiting, Live, CallsInv, OrderInv, TypeOK, RecvTypeOK
  <2>3. resp.seq \in Issued
    BY Zenon, <2>2 DEF CallsInv, PlaceInv
  <2>4. /\ Outcome(resp.kind) \in {"Ok", "Peer", "Decode"}
        /\ Outcome(resp.kind) \in CallAnswers[resp.seq]
    BY SMTT(30), <2>2, <2>3, RespAnswers
  <2>5. CASE UNCHANGED doneVars
    BY SMTT(30), <1>1, <2>1, <2>5 DEF doneVars
  <2>6. CASE Finish({resp.seq}, Outcome(resp.kind))
    <3>1. /\ {resp.seq} \in SUBSET (Waiting \cup Unfinished)
          /\ \A s \in {resp.seq} : Outcome(resp.kind) \in CallAnswers[s]
      BY Zenon, <2>2, <2>4
    <3> QED
      BY ZenonT(30), <2>1, <2>4, <2>6, <3>1, EndStep
  <2> QED
    BY SMTT(30), <2>1, <2>5, <2>6
<1>5. CASE RecvBody
  <2>1. /\ Finish(Unfinished, Outcome(resp.kind))
        /\ UNCHANGED <<lost, unencoded, seq, pings, replied>>
    BY Zenon, <1>5 DEF RecvBody, senderVars, peerVars
  <2>2. resp \in Resps /\ \A s \in Unfinished : s = resp.seq /\ s \in Issued
    BY Zenon, <1>5 DEF RecvBody, Unfinished, CallsInv, PlaceInv, ReaderInv, OrderInv, TypeOK, RecvTypeOK
  <2>3. CASE Unfinished = {}
    <3>1. result' = result
      BY Zenon, <2>1, <2>3 DEF Finish, CallsInv, OrderInv, TypeOK, TimerTypeOK
    <3> QED
      BY Zenon, <1>1, <2>1, <3>1
  <2>4. CASE Unfinished # {}
    <3>1. /\ Outcome(resp.kind) \in {"Ok", "Peer", "Decode"}
          /\ Outcome(resp.kind) \in CallAnswers[resp.seq]
      BY Zenon, <2>2, <2>4, RespAnswers
    <3>2. /\ Unfinished \in SUBSET (Waiting \cup Unfinished)
          /\ \A s \in Unfinished : Outcome(resp.kind) \in CallAnswers[s]
      BY Zenon, <2>2, <3>1
    <3> QED
      BY ZenonT(30), <2>1, <3>1, <3>2, EndStep
  <2> QED
    BY Zenon, <2>3, <2>4
<1>6. CASE ReadErr
  <2>1. /\ Finish(Unfinished, "IO") /\ UNCHANGED <<lost, unencoded, seq, pings, replied>>
        /\ Unfinished \in SUBSET (Waiting \cup Unfinished)
    BY Zenon, <1>6 DEF ReadErr, senderVars, peerVars
  <2> QED
    BY ZenonT(30), <2>1, EndStep
<1>7. CASE CleanStep
  <2>1. /\ Finish(Live, "IO") /\ UNCHANGED <<lost, unencoded, seq, pings, replied>>
    BY ZenonT(30), <1>7 DEF CleanStep, RecvLoopErr, CleanAgain, InnerDrop, CleanPendingTasks, senderVars,
              peerVars
  <2>2. Live \in SUBSET (Waiting \cup Unfinished)
    BY Zenon DEF Waiting
  <2> QED
    BY ZenonT(30), <2>1, <2>2, EndStep
<1>8. CASE TimeReach
  <2>1. /\ AdjustTaskQueue /\ Finish(Expired, "Timeout")
        /\ UNCHANGED <<lost, unencoded, seq, pings, replied>>
    BY Zenon, <1>8 DEF TimeReach, AdjustTaskQueue, senderVars, peerVars
  <2>2. Expired \in SUBSET (Waiting \cup Unfinished)
    BY Zenon, <2>1, AdjustLive DEF CallsInv, Waiting, Live
  <2> QED
    BY ZenonT(30), <2>1, <2>2, EndStep
<1>9. CASE RecvExit
  BY Zenon, <1>9, LoseStep
<1>10. ASSUME NEW s \in Seqs, NEW k \in Kinds \cup {"empty"}, PeerReply(s, k)
       PROVE  Abstract!Next \/ UNCHANGED <<CallState, CallAnswers>>
  BY Zenon, <1>10, ReplyStep
<1>11. CASE \/ SendTask \/ RefuseTask \/ WriteReq \/ WriteReqErr \/ SetHasErr \/ Register
            \/ Throttle \/ FlushReq \/ FlushReqErr \/ SetErrorAndExit \/ CloseConn \/ Drop
            \/ DropStopReg \/ DropClosed
  <2>1. UNCHANGED <<lost, unencoded, result, seq, pings, replied>>
    BY ZenonT(30), <1>11
       DEF SendTask, RefuseTask, WriteReq, WriteReqErr, SetHasErr, Register, Throttle,
           FlushReq, FlushReqErr, SetErrorAndExit, CloseConn, Drop, DropStopReg, DropClosed,
           timerVars, doneVars, senderVars, peerVars
  <2> QED
    BY Zenon, <1>1, <2>1
<1>12. CASE DrainStep \/ (QuietReceiver /\ ~RecvExit)
            \/ PeerHalfHead \/ PeerBody \/ LinkDown
  <2>1. UNCHANGED <<lost, unencoded, result, seq, pings, replied>>
    BY ZenonT(30), <1>12
       DEF DrainStep, PollStart, LoopClosed, WaitRegPoll, QuietReceiver, PollHasErr, LoopOpen,
           RecvHead, RecvLateHead, RecvGarbledHead, WaitRegDone, WaitRegStopped, TakeNone,
           ReadCancelled, ReadPending, PeerHalfHead, PeerBody, LinkDown,
           timerVars, doneVars, senderVars, peerVars
  <2> QED
    BY SMTT(30), <1>1, <2>1
<1>13. Peer => \/ \E s \in Seqs, k \in Kinds \cup {"empty"} : PeerReply(s, k)
               \/ PeerHalfHead \/ PeerBody \/ LinkDown
  BY Zenon DEF Peer
<1> QED
  BY ZenonT(30), <1>2, <1>3, <1>4, <1>5, <1>6, <1>7, <1>8, <1>9, <1>10, <1>11, <1>12, <1>13
     DEF Next, SenderStep, UserCall, ReceiverStep, QuietReceiver, DrainStep, CleanStep

\* What the peer answered stays within what it was asked.
LEMMA AnswerInvariant == Spec => [](CallsInv /\ AnswerInv)
<1>1. Init => AnswerInv
  <2> SUFFICES ASSUME Init PROVE AnswerInv
    OBVIOUS
  <2>1. /\ arrived = {} /\ wbuf = {} /\ replied = [s \in Seqs |-> {}] /\ responses = <<>>
        /\ resp = NoResp
    BY Zenon DEF Init
  <2>2. DOMAIN responses = {}
    BY SMTT(30), <2>1
  <2>3. resp \notin Resps
    BY SMTT(30), <2>1 DEF NoResp, Resps, Seqs
  <2> QED
    BY Zenon, <2>1, <2>2, <2>3 DEF AnswerInv
<1>2. CallsInv /\ AnswerInv /\ [Next]_vars => AnswerInv'
  <2> SUFFICES ASSUME CallsInv, AnswerInv, [Next]_vars PROVE AnswerInv'
    OBVIOUS
  <2>1. CASE Next
    <3>1. OrderInv
      BY Zenon DEF CallsInv
    <3>2. \A s \in arrived' \cup wbuf' : s < seq'
      BY Zenon, <2>1, <3>1, WireStep DEF AnswerInv
    <3>3. \A s \in Seqs : replied'[s] # {} => s \in arrived'
      BY Zenon, <2>1, <3>1, RepliedStep
    <3>4. \A i \in DOMAIN responses' : responses'[i].kind \in replied'[responses'[i].seq]
      BY Zenon, <2>1, <3>1, ResponsesStep
    <3>5. resp' \in Resps => resp'.kind \in replied'[resp'.seq]
      BY Zenon, <2>1, <3>1, RespStep
    <3> QED
      BY Zenon, <3>2, <3>3, <3>4, <3>5 DEF AnswerInv
  <2>2. CASE UNCHANGED vars
    BY Zenon, <2>2 DEF vars, senderVars, recvVars, peerVars, AnswerInv
  <2> QED
    BY Zenon, <2>1, <2>2
<1> QED
  BY <1>1, <1>2, CallsInvariant, PTL DEF Spec

\* A caller sees its call end once, with an answer the peer gave to that very call,
\* or with IO or Timeout, and what it was told never changes: the connection
\* implements RpcCalls, for any number of calls and any interleaving.
THEOREM RpcCallsKept == Spec => ImplementsRpcCalls
<1>1. Init => Abstract!Init
  <2> SUFFICES ASSUME Init PROVE Abstract!Init
    OBVIOUS
  <2>1. /\ lost = {} /\ unencoded = {} /\ pings = {} /\ seq = 1
        /\ result = [s \in Seqs |-> "none"] /\ replied = [s \in Seqs |-> {}]
    BY Zenon DEF Init, TimerInit
  <2>2. Issued = {}
    BY SMTT(30), <2>1 DEF Issued, Seqs
  <2> QED
    BY Zenon, <2>1, <2>2 DEF Abstract!Init, CallState, CallAnswers
<1>2. CallsInv /\ AnswerInv /\ [Next]_vars => [Abstract!Next]_<<CallState, CallAnswers>>
  <2> SUFFICES ASSUME CallsInv, AnswerInv, [Next]_vars
               PROVE  Abstract!Next \/ UNCHANGED <<CallState, CallAnswers>>
    OBVIOUS
  <2>1. CASE Next
    BY Zenon, <2>1, RefineStep
  <2>2. CASE UNCHANGED vars
    <3>1. UNCHANGED <<lost, unencoded, result, seq, pings, replied>>
      BY Zenon, <2>2 DEF vars, timerVars, doneVars, senderVars, peerVars
    <3> QED
      BY Zenon, <3>1, StateSame, AnswersSame
  <2> QED
    BY Zenon, <2>1, <2>2
<1> QED
  BY <1>1, <1>2, AnswerInvariant, PTL DEF Spec, ImplementsRpcCalls, Abstract!Spec

-----------------------------------------------------------------------------
(***************************************************************************)
(* The throttler's window.                                                  *)
(***************************************************************************)
\* The wait group counts the task items alive.
GuardCount ==
  inflight = Cardinality(Live) + Cardinality(taken) + (IF spc = "reg" THEN 1 ELSE 0)

\* What holds between the check of the window in send_task and throttle().
WindowInv ==
  /\ GuardCount
  /\ inflight <= Thresholds + 1
  /\ spc \notin {"reg", "throttle"} => inflight <= Thresholds
  /\ spc \in {"check", "write"} /\ inflight + 1 > Thresholds => need_flush
  /\ spc \in {"reg", "throttle"} /\ inflight > Thresholds => wbuf = {}

\* The task items are finitely many.
LEMMA ItemsFinite ==
  ASSUME TypeOK
  PROVE  /\ IsFiniteSet(Live) /\ Cardinality(Live) \in Nat
         /\ IsFiniteSet(taken) /\ Cardinality(taken) \in Nat
         /\ inflight \in Int
<1>1. Live \in SUBSET Seqs /\ taken \in SUBSET Seqs
  BY Zenon, LiveTyped DEF TypeOK, RecvTypeOK
<1> QED
  BY Zenon, <1>1, SeqSetsFinite DEF TypeOK, SharedTypeOK

\* The sender takes a guard with write_req, and gives it to the table with reg_task.
LEMMA SenderGuardStep ==
  ASSUME CallsInv, GuardCount, SenderStep \/ UserCall
  PROVE  GuardCount' /\ (WriteReq \/ inflight' = inflight)
<1> USE DEF CallsInv, OrderInv
<1>1. UNCHANGED <<sent_tasks, delay_tasks_queue, taken>>
  BY Zenon, TableFrame, RecvFrame DEF tableVars, recvVars
<1>2. CASE WriteReq
  <2>1. /\ inflight' = inflight + 1 /\ spc = "write" /\ spc' = "reg"
        /\ UNCHANGED pending_tasks
    BY Zenon, <1>2 DEF WriteReq, timerVars
  <2>2. Live' = Live
    BY Zenon, <1>1, <2>1, SameLive
  <2> QED
    BY SMTT(30), <1>1, <1>2, <2>1, <2>2, ItemsFinite DEF GuardCount
<1>3. CASE Register
  <2>1. inflight' = inflight /\ spc = "reg" /\ spc' = "throttle"
    BY Zenon, <1>3 DEF Register
  <2>2. Live' = Live \cup {cur} /\ cur \notin Live
    BY Zenon, <1>3, RegisterLive
  <2>3. Cardinality(Live') = Cardinality(Live) + 1
    BY ZenonT(30), <2>2, ItemsFinite, FS_AddElement
  <2> QED
    BY SMTT(30), <1>1, <2>1, <2>3, ItemsFinite DEF GuardCount
<1>4. CASE \/ SendTask \/ RefuseTask \/ EncodeReq \/ EncodeReqErr \/ WriteReqErr \/ SetHasErr
           \/ Rollback \/ Throttle \/ FlushReq \/ FlushReqErr \/ SendPingReq \/ SendPingReqErr
           \/ SetErrorAndExit \/ CloseConn \/ Drop \/ DropStopReg \/ DropClosed
  <2>1. UNCHANGED <<inflight, pending_tasks>>
    BY ZenonT(30), <1>4
       DEF SendTask, RefuseTask, EncodeReq, EncodeReqErr, WriteReqErr, SetHasErr, Rollback,
           Throttle, FlushReq, FlushReqErr, SendPingReq, SendPingReqErr, SetErrorAndExit,
           CloseConn, Drop, DropStopReg, DropClosed, timerVars
  <2>2. spc # "reg" /\ spc' # "reg"
    BY ZenonT(30), <1>4
       DEF SendTask, RefuseTask, EncodeReq, EncodeReqErr, WriteReqErr, SetHasErr, Rollback,
           Throttle, FlushReq, FlushReqErr, SendPingReq, SendPingReqErr, SetErrorAndExit,
           CloseConn, Drop, DropStopReg, DropClosed
  <2>3. Live' = Live
    BY Zenon, <1>1, <2>1, SameLive
  <2> QED
    BY ZenonT(30), <1>1, <2>1, <2>2, <2>3 DEF GuardCount
<1> QED
  BY ZenonT(30), <1>2, <1>3, <1>4 DEF SenderStep, UserCall

\* The receiver lets go of as many guards as task items.
LEMMA ReceiverGuardStep ==
  ASSUME CallsInv, GuardCount, ReceiverStep \/ TimeReach \/ Peer
  PROVE  GuardCount' /\ inflight' <= inflight
<1> USE DEF CallsInv, OrderInv
<1>0. /\ IsFiniteSet(Live) /\ Cardinality(Live) \in Nat
      /\ IsFiniteSet(taken) /\ Cardinality(taken) \in Nat
      /\ inflight \in Int
  BY Zenon, ItemsFinite
<1>1. spc' = spc
  BY Zenon, SenderFrame DEF senderVars
<1>2. CASE Live' = Live /\ UNCHANGED <<taken, inflight>>
  BY SMTT(30), <1>0, <1>1, <1>2 DEF GuardCount
<1>3. CASE Peer \/ (QuietReceiver /\ ~RecvExit)
  <2>1. UNCHANGED <<inflight, timerVars>>
    BY ZenonT(30), <1>3, PeerFrame, QuietFrame
       DEF QuietReceiver, PollHasErr, LoopOpen, RecvHead, RecvLateHead, RecvGarbledHead,
           WaitRegDone, WaitRegStopped, TakeNone, ReadCancelled, ReadPending
  <2>2. UNCHANGED taken
    BY ZenonT(30), <1>3, RecvFrame
       DEF QuietReceiver, PollHasErr, LoopOpen, RecvHead, RecvLateHead, RecvGarbledHead,
           WaitRegDone, WaitRegStopped, TakeNone, ReadCancelled, ReadPending, recvVars
  <2> QED
    BY Zenon, <1>2, <2>1, <2>2, SameLive DEF timerVars, tableVars
<1>4. CASE DrainStep
  BY Zenon, <1>2, <1>4, DrainFrame, DrainLive
<1>5. CASE ReaderDone \/ RecvExit
  <2>1. ReleaseTaken /\ UNCHANGED <<pending_tasks, sent_tasks, delay_tasks_queue>>
    <3>1. CASE ReaderDone
      BY Zenon, <3>1, ReaderDoneFrame DEF TypeOK, tableVars
    <3>2. CASE RecvExit
      BY Zenon, <3>2 DEF RecvExit, timerVars, tableVars
    <3> QED
      BY Zenon, <1>5, <3>1, <3>2
  <2>2. Live' = Live /\ taken' = {} /\ inflight' = inflight - Cardinality(taken)
    BY Zenon, <2>1, SameLive DEF ReleaseTaken
  <2>3. Cardinality(taken') = 0
    BY Zenon, <2>2, FS_EmptySet
  <2> QED
    BY SMTT(30), <1>0, <1>1, <2>2, <2>3 DEF GuardCount
<1>6. CASE TakeTask
  <2>1. /\ resp.seq \in Held /\ RemoveTask(resp.seq) /\ UNCHANGED pending_tasks
        /\ \/ taken' = {resp.seq} /\ inflight' = inflight
           \/ taken' = {} /\ inflight' = inflight - 1
    BY Zenon, <1>6 DEF TakeTask
  <2>2. taken = {}
    BY Zenon, <1>6 DEF TakeTask, ReaderInv
  <2>3. resp.seq \in Live /\ Live' = Live \ {resp.seq}
    BY Zenon, <2>1, RemoveLive DEF Live
  <2>4. Cardinality(Live') = Cardinality(Live) - 1 /\ Cardinality(taken) = 0
    BY ZenonT(30), <1>0, <2>2, <2>3, FS_RemoveElement, FS_EmptySet
  <2>5. \/ Cardinality(taken') = 1 /\ inflight' = inflight
        \/ Cardinality(taken') = 0 /\ inflight' = inflight - 1
    BY ZenonT(30), <2>1, FS_Singleton, FS_EmptySet
  <2> QED
    BY SMTT(30), <1>0, <1>1, <2>4, <2>5 DEF GuardCount
<1>7. CASE CleanStep
  <2>1. CleanPendingTasks /\ inflight' = inflight - Cardinality(Live) /\ UNCHANGED taken
    BY Zenon, <1>7, CleanFrame
  <2>2. Live' = {}
    BY Zenon, <1>7, <2>1, CleanOrder, SenderFrame DEF CleanStep, ReceiverStep, senderVars
  <2>3. Cardinality(Live') = 0
    BY Zenon, <2>2, FS_EmptySet
  <2> QED
    BY SMTT(30), <1>0, <1>1, <2>1, <2>3 DEF GuardCount
<1>8. CASE TimeReach
  <2>1. /\ AdjustTaskQueue /\ inflight' = inflight - Cardinality(Expired) /\ UNCHANGED taken
    BY Zenon, <1>8 DEF TimeReach
  <2>2. Expired \subseteq Live /\ Live' = Live \ Expired
    BY Zenon, <2>1, AdjustLive DEF Live
  <2>3. Live \cap Expired = Expired
    BY Zenon, <2>2
  <2>4. Cardinality(Live') = Cardinality(Live) - Cardinality(Expired)
    <3>1. Cardinality(Live \ Expired) = Cardinality(Live) - Cardinality(Live \cap Expired)
      BY ZenonT(30), <1>0, FS_Difference
    <3> QED
      BY SMTT(30), <2>2, <2>3, <3>1
  <2>5. Cardinality(Expired) \in Nat
    BY Zenon, <1>0, <2>2, FS_Subset, FS_CardinalityType
  <2> QED
    BY SMTT(30), <1>0, <1>1, <2>1, <2>4, <2>5 DEF GuardCount
<1> QED
  BY Zenon, <1>3, <1>4, <1>5, <1>6, <1>7, <1>8
     DEF ReceiverStep, QuietReceiver, DrainStep, ReaderDone, CleanStep

\* Every step keeps WindowInv.
LEMMA WindowStep ==
  ASSUME CallsInv, WindowInv, Next
  PROVE  WindowInv'
<1>0. inflight \in Int /\ inflight' \in Int /\ Thresholds \in Nat
  <2>1. TypeOK /\ SharedTypeOK'
    BY Zenon, SharedTypeStep DEF CallsInv, OrderInv
  <2> QED
    BY Zenon, <2>1, TimerAssumption DEF TypeOK, SharedTypeOK
<1>1. CASE ReceiverStep \/ TimeReach \/ Peer
  <2>0. inflight' <= inflight
    BY Zenon, <1>1, ReceiverGuardStep DEF WindowInv
  <2>1. GuardCount'
    BY Zenon, <1>1, ReceiverGuardStep DEF WindowInv
  <2>2. UNCHANGED <<spc, need_flush, wbuf>>
    BY Zenon, <1>1, SenderFrame DEF senderVars
  <2>3. /\ inflight <= Thresholds + 1 => inflight' <= Thresholds + 1
        /\ inflight <= Thresholds => inflight' <= Thresholds
        /\ inflight' + 1 > Thresholds => inflight + 1 > Thresholds
        /\ inflight' > Thresholds => inflight > Thresholds
    <3>1. \A a, b \in Int, t \in Nat :
            a <= b => /\ b <= t + 1 => a <= t + 1
                      /\ b <= t => a <= t
                      /\ a + 1 > t => b + 1 > t
                      /\ a > t => b > t
      OBVIOUS
    <3> QED
      BY ZenonT(30), <1>0, <2>0, <3>1
  <2> QED
    BY ZenonT(30), <2>1, <2>2, <2>3 DEF WindowInv
<1>2. CASE SenderStep \/ UserCall
  <2>1. GuardCount' /\ (WriteReq \/ inflight' = inflight)
    BY Zenon, <1>2, SenderGuardStep DEF WindowInv
  <2>2. CASE WriteReq
    <3>1. /\ spc = "write" /\ spc' = "reg" /\ inflight' = inflight + 1
          /\ need_flush => wbuf' = {}
      BY Zenon, <2>2 DEF WriteReq
    <3>2. inflight <= Thresholds
      BY Zenon, <3>1 DEF WindowInv
    <3>3. inflight' <= Thresholds + 1 /\ (inflight' > Thresholds => inflight + 1 > Thresholds)
      BY SMTT(30), <1>0, <3>1, <3>2
    <3> QED
      BY ZenonT(30), <2>1, <3>1, <3>3 DEF WindowInv
  <2>3. CASE ~WriteReq /\ spc' \notin {"check", "write", "reg", "throttle"}
    <3>1. spc \notin {"reg", "throttle"} \/ Throttle
      BY ZenonT(60), <1>2, <2>3
         DEF SenderStep, UserCall, SendTask, RefuseTask, EncodeReq, EncodeReqErr, WriteReqErr,
             SetHasErr, Rollback, Register, FlushReq, FlushReqErr, SendPingReq, SendPingReqErr,
             SetErrorAndExit, CloseConn, Drop, DropStopReg, DropClosed
    <3>2. inflight <= Thresholds
      BY SMTT(30), <3>1 DEF WindowInv, Throttle
    <3>3. inflight' <= Thresholds /\ inflight' <= Thresholds + 1
      BY SMTT(30), <1>0, <2>1, <2>3, <3>2
    <3> QED
      BY ZenonT(30), <2>1, <2>3, <3>3 DEF WindowInv
  <2>4. CASE ~WriteReq /\ spc' \in {"check", "write", "reg", "throttle"}
    <3>1. SendTask \/ EncodeReq \/ Register
      BY ZenonT(30), <1>2, <2>4
         DEF SenderStep, UserCall, RefuseTask, EncodeReqErr, WriteReqErr, SetHasErr, Rollback,
             Throttle, FlushReq, FlushReqErr, SendPingReq, SendPingReqErr,
             SetErrorAndExit, CloseConn, Drop, DropStopReg, DropClosed
    <3>2. CASE SendTask
      <4>1. /\ spc = "idle" /\ spc' = "check"
            /\ inflight + 1 > Thresholds => need_flush'
        BY ZenonT(30), <3>2 DEF SendTask, NearlyFull
      <4>2. inflight' <= Thresholds + 1 /\ inflight' <= Thresholds /\ inflight' = inflight
        BY Zenon, <2>1, <2>4, <4>1 DEF WindowInv
      <4> QED
        BY ZenonT(30), <2>1, <4>1, <4>2 DEF WindowInv
    <3>3. CASE EncodeReq
      <4>1. spc = "check" /\ spc' = "write" /\ need_flush' = need_flush
        BY Zenon, <3>3 DEF EncodeReq
      <4>2. inflight' <= Thresholds + 1 /\ inflight' <= Thresholds /\ inflight' = inflight
        BY Zenon, <2>1, <2>4, <4>1 DEF WindowInv
      <4> QED
        BY ZenonT(30), <2>1, <4>1, <4>2 DEF WindowInv
    <3>4. CASE Register
      <4>1. spc = "reg" /\ spc' = "throttle" /\ wbuf' = wbuf
        BY Zenon, <3>4 DEF Register
      <4> QED
        BY Zenon, <1>0, <2>1, <2>4, <4>1 DEF WindowInv
    <3> QED
      BY Zenon, <3>1, <3>2, <3>3, <3>4
  <2> QED
    BY Zenon, <2>2, <2>3, <2>4
<1> QED
  BY Zenon, <1>1, <1>2 DEF Next

\* The channel holds each task once, so it holds no more than there are.
LEMMA ChannelWithinLive ==
  ASSUME OrderInv
  PROVE  Len(pending_tasks) \in Nat /\ Len(pending_tasks) <= Cardinality(Live)
<1> DEFINE n == Len(pending_tasks)
<1>1. /\ n \in Nat /\ DOMAIN pending_tasks = 1 .. n
      /\ pending_tasks = [i \in 1 .. n |-> pending_tasks[i]]
      /\ \A i \in 1 .. n : pending_tasks[i] \in Seqs
  BY SMTT(30) DEF OrderInv, TypeOK, TimerTypeOK
<1>2. \A i \in 1 .. n : pending_tasks[i] \in Live
  BY Zenon, <1>1 DEF Live, Range
<1>3. ASSUME NEW i \in 1 .. n, NEW j \in 1 .. n, pending_tasks[i] = pending_tasks[j]
      PROVE  i = j
  <2>1. pending_tasks[i] \in Int
    BY SMTT(30), <1>1 DEF Seqs
  <2>2. ~(i < j) /\ ~(j < i)
    BY SMTT(30), <1>1, <1>3, <2>1 DEF OrderInv, TableOrdered, ChannelOrdered
  <2> QED
    BY SMTT(30), <2>2
<1> HIDE DEF n
<1>4. pending_tasks \in [1 .. n -> Live]
  BY ZenonT(30), <1>1, <1>2
<1>5. pending_tasks \in Injection(1 .. n, Live)
  <2>1. \A i, j \in DOMAIN pending_tasks : pending_tasks[i] = pending_tasks[j] => i = j
    BY Zenon, <1>1, <1>3
  <2> QED
    BY Zenon, <1>4, <2>1 DEF Injection, IsInjective
<1>6. Cardinality(1 .. n) <= Cardinality(Live)
  BY Zenon, <1>5, ItemsFinite, FS_Injection DEF OrderInv
<1>7. Cardinality(1 .. n) = n
  BY SMTT(30), <1>1, FS_Interval
<1> QED
  BY Zenon, <1>1, <1>6, <1>7 DEF n

\* For any threshold, the throttler keeps the task items at most one above it,
\* reg_task never finds the channel full, and a sender that throttle() holds back
\* has flushed every request it waits for.
THEOREM WindowCorrect == Spec => []WindowExact
<1>1. Init => WindowInv
  <2> SUFFICES ASSUME Init PROVE WindowInv
    OBVIOUS
  <2>1. /\ pending_tasks = <<>> /\ delay_tasks_queue = <<>> /\ sent_tasks = {} /\ taken = {}
        /\ inflight = 0 /\ spc = "idle"
    BY Zenon DEF Init, TimerInit
  <2>2. DOMAIN pending_tasks = {} /\ DOMAIN delay_tasks_queue = {}
    BY SMTT(30), <2>1
  <2>3. Live = {}
    BY Zenon, <2>1, <2>2 DEF Held, Delayed, Live, Range
  <2>4. Cardinality(Live) = 0 /\ Cardinality(taken) = 0
    BY Zenon, <2>1, <2>3, FS_EmptySet
  <2> QED
    BY SMTT(30), <2>1, <2>4, TimerAssumption DEF WindowInv, GuardCount
<1>2. CallsInv /\ WindowInv /\ [Next]_vars => WindowInv'
  <2> SUFFICES ASSUME CallsInv, WindowInv, [Next]_vars PROVE WindowInv'
    OBVIOUS
  <2>1. CASE Next
    BY Zenon, <2>1, WindowStep
  <2>2. CASE UNCHANGED vars
    <3>1. UNCHANGED <<timerVars, inflight, senderVars, recvVars>>
      BY Zenon, <2>2 DEF vars
    <3>2. Live' = Live
      BY SMTT(30), <3>1, SameLive DEF timerVars, tableVars
    <3> QED
      BY Zenon, <3>1, <3>2 DEF WindowInv, GuardCount, senderVars, recvVars
  <2> QED
    BY SMTT(30), <2>1, <2>2
<1>3. CallsInv /\ WindowInv => WindowExact
  <2> SUFFICES ASSUME CallsInv, WindowInv PROVE WindowExact
    OBVIOUS
  <2>1. spc = "reg" => Len(pending_tasks) < ChanCap
    BY SMTT(30), ChannelWithinLive, ItemsFinite, TimerAssumption
       DEF CallsInv, OrderInv, WindowInv, GuardCount, ChanCap
  <2> QED
    BY Zenon, <2>1 DEF WindowInv, GuardCount, WindowExact
<1> QED
  BY <1>1, <1>2, <1>3, CallsInvariant, PTL DEF Spec

-----------------------------------------------------------------------------
(***************************************************************************)
(* How receive_loop may leave: pending_task_count tells it exactly which    *)
(* tasks are still on their way, so that it never leaves one behind.        *)
(***************************************************************************)
\* The invariant.  A sequence number that did not encode was given out, so the
\* next one is not among them.
ExitInv ==
  /\ TypeOK
  /\ \A s \in unencoded : s < seq
  /\ PendingCountExact
  /\ NoneStranded

\* The tasks the sender has counted and not yet registered: none or one.
Counted == IF spc \in {"check", "write", "write_err", "rollback", "reg"} THEN 1 ELSE 0

\* What the steps that touch neither the channel nor the sender leave alone.
LEMMA SameCount ==
  ASSUME PendingCountExact, Counted' = Counted, unencoded' = unencoded,
         UNCHANGED <<pending_tasks, pending_task_count>>
  PROVE  PendingCountExact'
BY Zenon DEF PendingCountExact, Counted

\* Sequence numbers that do not encode are given out in order.
LEMMA UnencodedStep ==
  ASSUME TypeOK, \A s \in unencoded : s < seq, Next
  PROVE  \A s \in unencoded' : s < seq'
<1>1. seq \in Int /\ \A s \in unencoded : s \in Int
  BY SMTT(30) DEF TypeOK, SenderTypeOK, Seqs
<1>2. CASE ReceiverStep \/ TimeReach \/ Peer
  BY Zenon, <1>2, SenderFrame DEF senderVars
<1>3. CASE EncodeReqErr
  BY SMTT(30), <1>1, <1>3 DEF EncodeReqErr
<1>4. CASE EncodeReq \/ SendPingReq \/ SendPingReqErr
  BY SMTT(30), <1>1, <1>4 DEF EncodeReq, SendPingReq, SendPingReqErr
<1>5. CASE \/ SendTask \/ RefuseTask \/ WriteReq \/ WriteReqErr \/ SetHasErr \/ Rollback
           \/ Register \/ Throttle \/ FlushReq \/ FlushReqErr \/ SetErrorAndExit \/ CloseConn
           \/ Drop \/ DropStopReg \/ DropClosed
  BY ZenonT(30), <1>5
     DEF SendTask, RefuseTask, WriteReq, WriteReqErr, SetHasErr, Rollback, Register,
              Throttle, FlushReq, FlushReqErr, SetErrorAndExit, CloseConn, Drop, DropStopReg,
              DropClosed, senderVars
<1> QED
  BY Zenon, <1>2, <1>3, <1>4, <1>5 DEF Next, SenderStep, UserCall

\* The counter.
LEMMA CountStep ==
  ASSUME ExitInv, Next
  PROVE  PendingCountExact'
<1> USE DEF ExitInv
<1>1. /\ pending_task_count \in Int /\ Len(pending_tasks) \in Nat
      /\ Cardinality(unencoded) \in Nat /\ IsFiniteSet(unencoded)
      /\ Counted \in {0, 1}
      /\ pending_task_count = Len(pending_tasks) + Counted + Cardinality(unencoded)
  <2>1. Len(pending_tasks) \in Nat /\ pending_task_count \in Int
    BY SMTT(30) DEF TypeOK, TimerTypeOK
  <2>2. Cardinality(unencoded) \in Nat /\ IsFiniteSet(unencoded)
    BY Zenon, SeqSetsFinite DEF TypeOK, SenderTypeOK
  <2> QED
    BY Zenon, <2>1, <2>2 DEF Counted, PendingCountExact
<1>2. ASSUME pending_task_count' = Len(pending_tasks') + Counted' + Cardinality(unencoded')
      PROVE  PendingCountExact'
  BY Zenon, <1>2 DEF PendingCountExact, Counted
<1>3. CASE Peer \/ TimeReach \/ QuietReceiver \/ ReaderDone \/ TakeTask
  <2>1. UNCHANGED <<pending_tasks, pending_task_count>>
    <3>1. RecvTypeOK
      BY Zenon DEF TypeOK
    <3>2. CASE Peer \/ QuietReceiver
      BY ZenonT(30), <3>2, PeerFrame, QuietFrame DEF timerVars
    <3>3. CASE ReaderDone
      BY ZenonT(30), <3>1, <3>3, ReaderDoneFrame
    <3>4. CASE TimeReach \/ TakeTask
      BY ZenonT(30), <3>4 DEF TimeReach, AdjustTaskQueue, TakeTask
    <3> QED
      BY Zenon, <1>3, <3>2, <3>3, <3>4
  <2>2. UNCHANGED senderVars
    BY Zenon, <1>3, SenderFrame DEF QuietReceiver, ReaderDone, ReceiverStep
  <2> QED
    BY Zenon, <2>1, <2>2, SameCount DEF senderVars, Counted
<1>4. CASE DrainStep \/ CleanStep
  <2>1. /\ pending_task_count' = pending_task_count - Len(pending_tasks)
        /\ pending_tasks' = <<>>
    BY Zenon, <1>4, DrainFrame, CleanFrame DEF PollSentTask, CleanPendingTasks, DrainChannel
  <2>2. UNCHANGED senderVars
    BY SMTT(30), <1>4, SenderFrame DEF DrainStep, CleanStep, ReceiverStep
  <2>3. Counted' = Counted /\ unencoded' = unencoded /\ Len(pending_tasks') = 0
    BY Zenon, <2>1, <2>2 DEF senderVars, Counted
  <2> QED
    BY SMTT(30), <1>1, <1>2, <2>1, <2>3
<1>5. CASE SendTask
  <2>1. /\ pending_task_count' = pending_task_count + 1
        /\ pending_tasks' = pending_tasks /\ unencoded' = unencoded
        /\ Counted = 0 /\ Counted' = 1
    BY Zenon, <1>5 DEF SendTask, Counted
  <2> QED
    BY SMTT(30), <1>1, <1>2, <2>1
<1>6. CASE RefuseTask \/ Rollback
  <2>1. /\ pending_task_count' = pending_task_count - 1
        /\ pending_tasks' = pending_tasks /\ unencoded' = unencoded
        /\ Counted = 1 /\ Counted' = 0
    BY Zenon, <1>6 DEF RefuseTask, Rollback, Counted
  <2> QED
    BY SMTT(30), <1>1, <1>2, <2>1
<1>7. CASE Register
  <2>1. /\ pending_task_count' = pending_task_count /\ unencoded' = unencoded
        /\ pending_tasks' = Append(pending_tasks, cur)
        /\ Counted = 1 /\ Counted' = 0
    BY Zenon, <1>7 DEF Register, RegTask, Counted
  <2>2. Len(pending_tasks') = Len(pending_tasks) + 1
    <3>1. pending_tasks \in Seq(Seqs) /\ cur \in Seqs
      BY Zenon, <1>7 DEF Register, TypeOK, TimerTypeOK, SenderTypeOK
    <3> QED
      BY SMTT(30), <2>1, <3>1
  <2> QED
    BY SMTT(30), <1>1, <1>2, <2>1, <2>2
<1>8. CASE EncodeReqErr
  <2>1. /\ pending_task_count' = pending_task_count
        /\ pending_tasks' = pending_tasks /\ unencoded' = unencoded \cup {seq}
        /\ Counted = 1 /\ Counted' = 0
    BY Zenon, <1>8 DEF EncodeReqErr, Counted, timerVars
  <2>2. seq \notin unencoded
    BY SMTT(30) DEF TypeOK, SenderTypeOK
  <2>3. Cardinality(unencoded') = Cardinality(unencoded) + 1
    BY ZenonT(30), <1>1, <2>1, <2>2, FS_AddElement
  <2> QED
    BY SMTT(30), <1>1, <1>2, <2>1, <2>3
<1>9. CASE QuietSender /\ ~EncodeReqErr
  <2>1. UNCHANGED <<pending_tasks, pending_task_count>>
    BY Zenon, <1>9, QuietFrame DEF timerVars
  <2>2. Counted' = Counted /\ unencoded' = unencoded
    BY ZenonT(30), <1>9 DEF QuietSender, EncodeReq, WriteReq, WriteReqErr, Throttle, CloseConn,
                DropClosed, FlushReq, FlushReqErr, SendPingReq, SendPingReqErr,
                SetErrorAndExit, Drop, Counted
  <2> QED
    BY Zenon, <2>1, <2>2, SameCount
<1>10. CASE SetHasErr \/ DropStopReg
  BY SMTT(30), <1>10, SameCount DEF SetHasErr, DropStopReg, Counted
<1> QED
  BY Zenon, <1>3, <1>4, <1>5, <1>6, <1>7, <1>8, <1>9, <1>10, Steps DEF QuietSender

\* closed is never reset.
LEMMA ClosedStays ==
  ASSUME Next, closed
  PROVE  closed'
BY ZenonT(30)
   DEF Next, SenderStep, UserCall, ReceiverStep, TimeReach, Peer, RefuseTask, EncodeReq,
       EncodeReqErr, WriteReq, WriteReqErr, SetHasErr, Rollback, Register, Throttle,
       CloseConn, DropStopReg, DropClosed, SendTask, FlushReq, FlushReqErr, SendPingReq,
       SendPingReqErr, SetErrorAndExit, Drop, PollHasErr, PollStart, LoopOpen,
       LoopClosed, RecvHead, RecvLateHead, RecvGarbledHead, WaitRegDone,
       WaitRegStopped, WaitRegPoll, TakeTask, TakeNone, RecvBody, ReadErr,
       ReadCancelled, ReadPending, RecvLoopErr, CleanAgain, RecvExit, InnerDrop,
       PeerReply, PeerHalfHead, PeerBody, LinkDown

\* clean_pending_tasks leaves nothing.
LEMMA CleanEmpties ==
  ASSUME CleanPendingTasks
  PROVE  Held' = {} /\ Live' = {}
<1>1. sent_tasks' = {} /\ \A i \in DOMAIN delay_tasks_queue' : delay_tasks_queue'[i] = {}
  BY Zenon DEF CleanPendingTasks
<1>2. Range(pending_tasks') = {}
  BY SMTT(30) DEF CleanPendingTasks, DrainChannel, Range
<1> QED
  BY Zenon, <1>1, <1>2 DEF Live, Held, Delayed

\* What the receiver owns changes only where the table or the channel does.
LEMMA SameHeld ==
  ASSUME UNCHANGED tableVars
  PROVE  /\ Held' = Held
         /\ pending_tasks' = pending_tasks => Live' = Live
BY SMTT(30) DEF tableVars, Held, Delayed, Live

\* The receiver's clean-up.
LEMMA StrandStep ==
  ASSUME ExitInv, Next
  PROVE  NoneStranded'
<1> USE DEF ExitInv
<1>1. CASE SenderStep \/ UserCall \/ Peer
  <2>1. UNCHANGED <<rpc, tableVars>> /\ Held' = Held
    BY Zenon, <1>1, RecvFrame, TableFrame, SameHeld DEF recvVars
  <2>2. rpc \in {"clean", "exited", "freed"} => closed' /\ Held' = {}
    BY Zenon, <2>1, ClosedStays DEF NoneStranded
  <2>3. ASSUME rpc \in {"exited", "freed"}
        PROVE  AtSender' = {} /\ pending_tasks' = pending_tasks
    <3>1. spc \notin {"write", "write_err", "rollback", "reg"} /\ closed
      BY Zenon, <2>3 DEF NoneStranded, AtSender
    <3>2. CASE RefuseTask \/ Throttle \/ SetHasErr \/ CloseConn \/ DropStopReg \/ DropClosed
      BY ZenonT(30), <3>1, <3>2 DEF RefuseTask, Throttle, SetHasErr, CloseConn, DropStopReg,
                        DropClosed, AtSender, timerVars
    <3>3. CASE EncodeReq \/ EncodeReqErr \/ WriteReq \/ WriteReqErr \/ Rollback \/ Register
      BY ZenonT(30), <3>1, <3>3
         DEF EncodeReq, EncodeReqErr, WriteReq, WriteReqErr, Rollback, Register
    <3>4. CASE UserCall
      BY ZenonT(30), <3>1, <3>4 DEF UserCall, SendTask, FlushReq, FlushReqErr, SendPingReq,
                        SendPingReqErr, SetErrorAndExit, Drop, AtSender, timerVars,
                        senderVars
    <3>5. CASE Peer
      BY Zenon, <3>1, <3>5, PeerFrame, SenderFrame DEF timerVars, senderVars, AtSender
    <3> QED
      BY Zenon, <1>1, <3>2, <3>3, <3>4, <3>5 DEF SenderStep
  <2> QED
    BY Zenon, <2>1, <2>2, <2>3, SameHeld DEF NoneStranded
<1>2. CASE CleanStep
  <2>1. Held' = {} /\ Live' = {}
    BY Zenon, <1>2, CleanFrame, CleanEmpties
  <2>2. closed'
    BY Zenon, <1>2, ClosedStays
       DEF CleanStep, RecvLoopErr, CleanAgain, InnerDrop, NoneStranded
  <2>3. rpc' \in {"exited", "freed"} => rpc = "exited"
    BY Zenon, <1>2 DEF CleanStep, RecvLoopErr, CleanAgain, InnerDrop, recvVars
  <2>4. AtSender' = AtSender
    BY Zenon, <1>2, SenderFrame DEF CleanStep, ReceiverStep, senderVars, AtSender
  <2> QED
    BY Zenon, <2>1, <2>2, <2>3, <2>4 DEF NoneStranded
<1>3. CASE RecvExit
  <2>1. rpc = "clean" /\ pending_task_count <= 0 /\ UNCHANGED <<pending_tasks, tableVars>>
    BY Zenon, <1>3 DEF RecvExit, timerVars
  <2>2. Len(pending_tasks) = 0 /\ Counted = 0
    <3>1. /\ Len(pending_tasks) \in Nat /\ Cardinality(unencoded) \in Nat
          /\ Counted \in {0, 1}
      BY SMTT(30), SeqSetsFinite DEF TypeOK, TimerTypeOK, SenderTypeOK, Counted
    <3>2. pending_task_count = Len(pending_tasks) + Counted + Cardinality(unencoded)
      BY Zenon DEF PendingCountExact, Counted
    <3> QED
      BY SMTT(30), <2>1, <3>1, <3>2
  <2>3. Range(pending_tasks) = {}
    BY SMTT(30), <2>2 DEF Range, TypeOK, TimerTypeOK
  <2>4. closed' /\ Held' = {} /\ Live' = {}
    BY Zenon, <2>1, <2>3, SameHeld, ClosedStays DEF NoneStranded, Live
  <2>5. AtSender' = {}
    BY SMTT(30), <1>3, <2>2 DEF RecvExit, senderVars, AtSender, Counted
  <2> QED
    BY Zenon, <2>4, <2>5 DEF NoneStranded
<1>4. CASE TimeReach \/ (ReceiverStep /\ ~CleanStep /\ ~RecvExit)
  <2>1. rpc' \notin {"clean", "exited", "freed"}
    <3>1. CASE TimeReach \/ PollHasErr \/ PollStart
      BY Zenon, <3>1 DEF TimeReach, PollHasErr, PollStart, Receiving
    <3>2. CASE LoopOpen \/ LoopClosed \/ RecvHead \/ RecvLateHead \/ RecvGarbledHead
      BY ZenonT(30), <3>2 DEF LoopOpen, LoopClosed, RecvHead, RecvLateHead, RecvGarbledHead
    <3>3. CASE WaitRegDone \/ WaitRegStopped \/ WaitRegPoll \/ TakeTask \/ TakeNone
      BY ZenonT(30), <3>3
         DEF WaitRegDone, WaitRegStopped, WaitRegPoll, TakeTask, TakeNone, BodyOrLoop
    <3>4. CASE RecvBody \/ ReadErr \/ ReadCancelled \/ ReadPending
      BY Zenon, <3>4 DEF RecvBody, ReadErr, ReadCancelled, ReadPending
    <3> QED
      BY Zenon, <1>4, <3>1, <3>2, <3>3, <3>4 DEF ReceiverStep, CleanStep
  <2> QED
    BY Zenon, <2>1 DEF NoneStranded
<1> QED
  BY Zenon, <1>1, <1>2, <1>3, <1>4 DEF Next

\* pending_task_count is exactly the tasks on their way to the receiver, and the
\* receiver, which leaves when it reads 0, strands none of them: for any number
\* of requests, whatever the order of send_task, drop, I/O errors and clean-up.
THEOREM ExitCorrect == Spec => [](PendingCountExact /\ NoneStranded)
<1>1. Init => (\A s \in unencoded : s < seq) /\ PendingCountExact /\ NoneStranded
  <2> SUFFICES ASSUME Init
               PROVE  (\A s \in unencoded : s < seq) /\ PendingCountExact /\ NoneStranded
    OBVIOUS
  <2>1. pending_tasks = <<>> /\ pending_task_count = 0
    BY Zenon DEF Init, TimerInit
  <2>2. spc = "idle" /\ rpc = "loop" /\ unencoded = {}
    BY Zenon DEF Init
  <2>3. Cardinality(unencoded) = 0
    BY Zenon, <2>2, FS_EmptySet
  <2>4. Len(pending_tasks) = 0
    BY Zenon, <2>1
  <2>5. PendingCountExact
    BY SMTT(30), <2>1, <2>2, <2>3, <2>4 DEF PendingCountExact
  <2> QED
    BY Zenon, <2>2, <2>5 DEF NoneStranded
<1>2. ExitInv /\ [Next]_vars
        => ((\A s \in unencoded : s < seq) /\ PendingCountExact /\ NoneStranded)'
  <2> SUFFICES ASSUME ExitInv, [Next]_vars
               PROVE  ((\A s \in unencoded : s < seq) /\ PendingCountExact /\ NoneStranded)'
    OBVIOUS
  <2>1. CASE Next
    BY Zenon, <2>1, UnencodedStep, CountStep, StrandStep, Zenon DEF ExitInv
  <2>2. CASE UNCHANGED vars
    <3>1. UNCHANGED <<pending_tasks, pending_task_count, tableVars, closed, rpc, seq, spc,
                      cur, unencoded>>
      BY Zenon, <2>2 DEF vars, timerVars, senderVars, recvVars
    <3>2. PendingCountExact'
      BY Zenon, <3>1 DEF ExitInv, PendingCountExact
    <3>3. NoneStranded'
      BY Zenon, <3>1, SameHeld DEF ExitInv, NoneStranded, AtSender
    <3> QED
      BY Zenon, <3>1, <3>2, <3>3 DEF ExitInv
  <2> QED
    BY Zenon, <2>1, <2>2
<1> QED
  BY <1>1, <1>2, TypeCorrect, PTL DEF Spec, ExitInv

\* pending_task_count is exact in every behaviour, which is what receive_loop
\* relies on when it leaves.
THEOREM CountCorrect == Spec => []PendingCountExact
BY ExitCorrect, PTL

=============================================================================
