--------------------------- MODULE RpcServer_proofs ---------------------------
(***************************************************************************)
(* Proofs about RpcServer.tla, for any number of connections and requests:  *)
(* the writer of a connection loses no response (ResponseInv), and a close  *)
(* that counted nothing leaves nothing alive (QuietInv).                    *)
(***************************************************************************)
EXTENDS RpcServer, FiniteSetTheorems, TLAPS

\* The values the proofs need; what is in a sequence is left open.
Shape ==
  /\ server \in {"open", "closing", "closed"}
  /\ listener \in {"listening", "aborted", "gone"}
  /\ link \in [Conns -> {"none", "up", "half", "broken", "closed"}]
  /\ req \in [Conns -> [Reqs -> {"idle", "wire", "reader", "handler", "answered", "dropped"}]]
  /\ reader \in [Conns -> {"none", "head", "body", "dispatch", "quick", "gone"}]
  /\ writer \in [Conns -> {"none", "recv", "drain", "flush", "close", "gone"}]
  /\ werr \in [Conns -> BOOLEAN]
  /\ DOMAIN cur = Conns /\ DOMAIN done_chan = Conns /\ DOMAIN wbuf = Conns

\* What a connection that has not been accepted, a writer that waits and one that is
\* leaving without an error have in common, and which request the reader holds.
ConnInv(c) ==
  /\ link[c] = "none" => wbuf[c] = <<>> /\ writer[c] = "none" /\ reader[c] = "none"
  /\ writer[c] = "recv" => wbuf[c] = <<>>
  /\ werr[c] => writer[c] = "gone"
  /\ \A r \in Reqs : req[c][r] = "reader" =>
       reader[c] \in {"body", "dispatch", "quick"} /\ cur[c] = r
  /\ writer[c] \in {"close", "gone"} /\ ~werr[c] =>
       /\ wbuf[c] = <<>> /\ done_chan[c] = <<>>
       /\ ~Running(reader[c]) /\ link[c] # "none"
       /\ \A r \in Reqs : req[c][r] \notin {"reader", "handler"}

\* The reader, the writer and the handlers of every connection agree on who is left.
ResponseInv == \A c \in Conns : ConnInv(c)

\* Once close has counted nothing, nothing is alive.
QuietInv ==
  /\ server # "open" => listener # "listening"
  /\ server # "open" /\ left = 0 => listener = "gone" /\ \A c \in Conns : ~Alive(c)

-----------------------------------------------------------------------------
\* A step keeps the invariant of a connection it does not touch.
LEMMA OtherConn ==
  ASSUME NEW x \in Conns, ConnInv(x), link'[x] = link[x], req'[x] = req[x],
         reader'[x] = reader[x], cur'[x] = cur[x], done_chan'[x] = done_chan[x],
         UNCHANGED <<writer, werr, wbuf>>
  PROVE  ConnInv(x)'
BY DEF ConnInv, Running

\* The steps of a reader keep the invariant.
LEMMA ReaderKeeps ==
  ASSUME Shape, ResponseInv, NEW c \in Conns,
         \/ ReadHead(c)
         \/ ReadHeadErr(c)
         \/ ReadBody(c)
         \/ ReadBodyErr(c)
         \/ DispatchSpawn(c)
         \/ DispatchInline(c)
         \/ DispatchErr(c)
         \/ QuickResp(c)
         \/ IdleTimeout(c)
  PROVE  Shape' /\ ResponseInv'
<1>1. CASE ReadHead(c)
  <2>1. Shape'
    BY Zenon, <1>1 DEF Shape, ReadHead, SetReq, closeVars
  <2>2. ASSUME NEW x \in Conns, x # c PROVE ConnInv(x)'
    BY Zenon, <1>1, <2>2 DEF Shape, ResponseInv, ConnInv, Running, ReadHead, SetReq
  <2>3. ConnInv(c)'
    BY Zenon, <1>1 DEF Shape, ResponseInv, ConnInv, Running, ReadHead, SetReq
  <2>4. QED  BY Zenon, <2>1, <2>2, <2>3 DEF ResponseInv
<1>2. CASE ReadHeadErr(c)
  <2>1. Shape'
    BY Zenon, <1>2 DEF Shape, ReadHeadErr, ReaderExit, CloseSocket, closeVars
  <2>2. ASSUME NEW x \in Conns, x # c PROVE ConnInv(x)'
    BY <1>2, <2>2 DEF Shape, ResponseInv, ConnInv, Running, ReadHeadErr, ReaderExit, CloseSocket
  <2>3. ConnInv(c)'
    BY Zenon, <1>2 DEF Shape, ResponseInv, ConnInv, Running, ReadHeadErr, ReaderExit, CloseSocket
  <2>4. QED  BY <2>1, <2>2, <2>3 DEF ResponseInv
<1>3. CASE ReadBody(c)
  <2>1. Shape'
    BY <1>3 DEF Shape, ReadBody, closeVars
  <2>2. ASSUME NEW x \in Conns, x # c PROVE ConnInv(x)'
    BY <1>3, <2>2 DEF Shape, ResponseInv, ConnInv, Running, ReadBody
  <2>3. ConnInv(c)'
    BY Zenon, <1>3 DEF Shape, ResponseInv, ConnInv, Running, ReadBody
  <2>4. QED  BY <2>1, <2>2, <2>3 DEF ResponseInv
<1>4. CASE ReadBodyErr(c)
  <2>1. Shape'
    BY Zenon, <1>4 DEF Shape, ReadBodyErr, SetReq, ReaderExit, CloseSocket, closeVars
  <2>2. ASSUME NEW x \in Conns, x # c PROVE ConnInv(x)'
    BY <1>4, <2>2
       DEF Shape, ResponseInv, ConnInv, Running, ReadBodyErr, SetReq, ReaderExit, CloseSocket
  <2>3. ConnInv(c)'
    BY <1>4
       DEF Shape, ResponseInv, ConnInv, Running, ReadBodyErr, SetReq, ReaderExit, CloseSocket
  <2>4. QED  BY <2>1, <2>2, <2>3 DEF ResponseInv
<1>5. CASE DispatchSpawn(c)
  <2>1. Shape'
    BY Zenon, <1>5 DEF Shape, DispatchSpawn, SetReq, Dispatched, closeVars
  <2>2. ASSUME NEW x \in Conns, x # c PROVE ConnInv(x)'
    BY Zenon, <1>5, <2>2 DEF Shape, ResponseInv, ConnInv, Running, DispatchSpawn, SetReq, Dispatched
  <2>3. ConnInv(c)'
    BY Zenon, <1>5 DEF Shape, ResponseInv, ConnInv, Running, DispatchSpawn, SetReq, Dispatched
  <2>4. QED  BY <2>1, <2>2, <2>3 DEF ResponseInv
<1>6. CASE DispatchInline(c)
  <2>1. Shape'
    BY Zenon, <1>6 DEF Shape, DispatchInline, SetReq, Notify, Dispatched, closeVars
  <2>2. ASSUME NEW x \in Conns, x # c PROVE ConnInv(x)'
    BY Zenon, <1>6, <2>2
       DEF Shape, ResponseInv, ConnInv, Running, DispatchInline, SetReq, Notify, Dispatched
  <2>3. ConnInv(c)'
    BY Zenon, <1>6 DEF Shape, ResponseInv, ConnInv, Running, DispatchInline, SetReq, Notify, Dispatched
  <2>4. QED  BY <2>1, <2>2, <2>3 DEF ResponseInv
<1>7. CASE DispatchErr(c)
  <2>0. /\ \A x \in Conns : x # c => req'[x] = req[x]
        /\ req' \in [Conns -> [Reqs -> {"idle", "wire", "reader", "handler", "answered", "dropped"}]]
        /\ \A r \in Reqs : req'[c][r] = "reader" => req[c][r] = "reader"
    <3>1. CASE SetReq(c, cur[c], "handler")
      BY Zenon, <3>1 DEF Shape, SetReq
    <3>2. CASE UNCHANGED req
      BY Zenon, <3>2 DEF Shape
    <3>3. QED  BY Zenon, <1>7, <3>1, <3>2 DEF DispatchErr
  <2>1. Shape'
    BY Zenon, <1>7, <2>0 DEF Shape, DispatchErr, closeVars
  <2>2. ASSUME NEW x \in Conns, x # c PROVE ConnInv(x)'
    <3>1. reader'[x] = reader[x] /\ UNCHANGED <<link, cur, writer, werr, done_chan, wbuf>>
      BY Zenon, <1>7, <2>2 DEF Shape, DispatchErr
    <3>2. QED  BY Zenon, <2>0, <2>2, <3>1, OtherConn DEF ResponseInv
  <2>3. ConnInv(c)'
    <3>1. /\ Running(reader[c]) /\ reader'[c] = "quick"
          /\ UNCHANGED <<link, cur, writer, werr, wbuf>>
      BY Zenon, <1>7 DEF Shape, DispatchErr, Running
    <3>2. link[c] # "none" /\ ~(writer[c] \in {"close", "gone"} /\ ~werr[c])
      BY Zenon, <3>1 DEF ResponseInv, ConnInv, Running
    <3>3. QED  BY Zenon, <2>0, <3>1, <3>2 DEF ResponseInv, ConnInv
  <2>4. QED  BY <2>1, <2>2, <2>3 DEF ResponseInv
<1>8. CASE QuickResp(c)
  <2>0. /\ \A x \in Conns : x # c => req'[x] = req[x]
        /\ req' \in [Conns -> [Reqs -> {"idle", "wire", "reader", "handler", "answered", "dropped"}]]
        /\ \A r \in Reqs : req'[c][r] # "reader"
    <3>1. CASE req[c][cur[c]] \in {"reader", "dropped"}
      <4>1. req' = [req EXCEPT ![c][cur[c]] = "answered"]
        BY Zenon, <1>8, <3>1 DEF QuickResp, SetReq
      <4>2. \A r \in Reqs : req'[c][r] # "reader"
        BY Zenon, <4>1 DEF Shape, ResponseInv, ConnInv
      <4>3. QED  BY Zenon, <4>1, <4>2 DEF Shape
    <3>2. CASE req[c][cur[c]] \notin {"reader", "dropped"}
      <4>1. req' = req
        BY Zenon, <1>8, <3>2 DEF QuickResp
      <4>2. QED  BY Zenon, <3>2, <4>1 DEF Shape, ResponseInv, ConnInv
    <3>3. QED  BY Zenon, <3>1, <3>2
  <2>1. Shape'
    BY Zenon, <1>8, <2>0 DEF Shape, QuickResp, Notify, Dispatched, ReaderExit, CloseSocket, closeVars
  <2>2. ASSUME NEW x \in Conns, x # c PROVE ConnInv(x)'
    <3>1. /\ link'[x] = link[x] /\ reader'[x] = reader[x] /\ cur'[x] = cur[x]
          /\ done_chan'[x] = done_chan[x]
      BY Zenon, <1>8, <2>2 DEF Shape, QuickResp, Notify, Dispatched, ReaderExit, CloseSocket
    <3>2. UNCHANGED <<writer, werr, wbuf>>
      BY Zenon, <1>8 DEF QuickResp
    <3>3. QED  BY Zenon, <2>0, <2>2, <3>1, <3>2, OtherConn DEF ResponseInv
  <2>3. ConnInv(c)'
    <3>1. /\ link[c] # "none" /\ Running(reader[c]) /\ UNCHANGED <<writer, werr, wbuf>>
      BY Zenon, <1>8 DEF ResponseInv, ConnInv, QuickResp, Running
    <3>2. ~(writer[c] \in {"close", "gone"} /\ ~werr[c])
      BY Zenon, <3>1 DEF ResponseInv, ConnInv
    <3>3. link'[c] # "none"
      BY Zenon, <1>8, <3>1 DEF Shape, QuickResp, ReaderExit, CloseSocket
    <3>4. QED  BY Zenon, <2>0, <3>1, <3>2, <3>3 DEF ResponseInv, ConnInv
  <2>4. QED  BY <2>1, <2>2, <2>3 DEF ResponseInv
<1>9. CASE IdleTimeout(c)
  <2>1. Shape'
    BY Zenon, <1>9 DEF Shape, IdleTimeout, ReaderExit, CloseSocket, closeVars
  <2>2. ASSUME NEW x \in Conns, x # c PROVE ConnInv(x)'
    BY <1>9, <2>2 DEF Shape, ResponseInv, ConnInv, Running, IdleTimeout, ReaderExit, CloseSocket
  <2>3. ConnInv(c)'
    BY Zenon, <1>9 DEF Shape, ResponseInv, ConnInv, Running, IdleTimeout, ReaderExit, CloseSocket
  <2>4. QED  BY <2>1, <2>2, <2>3 DEF ResponseInv
<1>10. QED  BY Zenon, <1>1, <1>2, <1>3, <1>4, <1>5, <1>6, <1>7, <1>8, <1>9

\* The steps of a writer keep it.
LEMMA WriterKeeps ==
  ASSUME Shape, ResponseInv, NEW c \in Conns,
         \/ WriteResp(c)
         \/ Drained(c)
         \/ FlushResp(c)
         \/ WriterErr(c)
         \/ WriterRecvEnd(c)
         \/ CloseConn(c)
  PROVE  Shape' /\ ResponseInv'
<1>1. CASE WriteResp(c)
  <2>1. PICK rs : Answer(c, rs)
    BY Zenon, <1>1 DEF WriteResp
  <2>2. /\ req' \in [Conns -> [Reqs -> {"idle", "wire", "reader", "handler", "answered", "dropped"}]]
        /\ \A x \in Conns : x # c => req'[x] = req[x]
        /\ \A r \in Reqs : req'[c][r] \in {"idle", req[c][r]}
    BY Zenon, <2>1 DEF Shape, Answer
  <2>3. /\ DOMAIN wbuf' = Conns /\ DOMAIN done_chan' = Conns
        /\ \A x \in Conns : x # c => wbuf'[x] = wbuf[x] /\ done_chan'[x] = done_chan[x]
    BY Zenon, <1>1 DEF Shape, WriteResp
  <2>4. /\ writer[c] \in {"recv", "drain"} /\ writer' = [writer EXCEPT ![c] = "drain"]
        /\ UNCHANGED <<closeVars, link, reader, cur, werr>>
    BY Zenon, <1>1 DEF WriteResp
  <2>5. Shape'
    BY Zenon, <2>2, <2>3, <2>4 DEF Shape, closeVars
  <2>6. ASSUME NEW x \in Conns, x # c PROVE ConnInv(x)'
    <3>1. ConnInv(x) /\ writer'[x] = writer[x]
      BY Zenon, <2>4, <2>6 DEF Shape, ResponseInv
    <3>2. QED  BY Zenon, <2>2, <2>3, <2>4, <2>6, <3>1 DEF ConnInv, Running
  <2>7. ConnInv(c)'
    <3>1. ConnInv(c) /\ writer'[c] = "drain" /\ ~werr[c]
      BY Zenon, <2>4 DEF Shape, ResponseInv, ConnInv
    <3>2. QED  BY Zenon, <2>2, <2>4, <3>1 DEF ConnInv
  <2>8. QED  BY Zenon, <2>5, <2>6, <2>7 DEF ResponseInv
<1>2. CASE Drained(c)
  <2>1. Shape'
    BY Zenon, <1>2 DEF Shape, Drained, closeVars
  <2>2. ASSUME NEW x \in Conns, x # c PROVE ConnInv(x)'
    BY Zenon, <1>2, <2>2 DEF Shape, ResponseInv, ConnInv, Running, Drained
  <2>3. ConnInv(c)'
    BY Zenon, <1>2 DEF Shape, ResponseInv, ConnInv, Running, Drained
  <2>4. QED  BY <2>1, <2>2, <2>3 DEF ResponseInv
<1>3. CASE FlushResp(c)
  <2>1. Shape'
    BY Zenon, <1>3 DEF Shape, FlushResp, Answer, closeVars
  <2>2. ASSUME NEW x \in Conns, x # c PROVE ConnInv(x)'
    BY Zenon, <1>3, <2>2 DEF Shape, ResponseInv, ConnInv, Running, FlushResp, Answer
  <2>3. ConnInv(c)'
    BY Zenon, <1>3 DEF Shape, ResponseInv, ConnInv, Running, FlushResp, Answer
  <2>4. QED  BY <2>1, <2>2, <2>3 DEF ResponseInv
<1>4. CASE WriterErr(c)
  <2>1. Shape'
    BY Zenon, <1>4 DEF Shape, WriterErr, WriterExit, CloseSocket, closeVars
  <2>2. ASSUME NEW x \in Conns, x # c PROVE ConnInv(x)'
    BY <1>4, <2>2 DEF Shape, ResponseInv, ConnInv, Running, WriterErr, WriterExit, CloseSocket
  <2>3. ConnInv(c)'
    BY <1>4 DEF Shape, ResponseInv, ConnInv, Running, WriterErr, WriterExit, CloseSocket
  <2>4. QED  BY <2>1, <2>2, <2>3 DEF ResponseInv
<1>5. CASE WriterRecvEnd(c)
  <2>1. Shape'
    BY Zenon, <1>5 DEF Shape, WriterRecvEnd, SendersGone, HasSenders, closeVars
  <2>2. ASSUME NEW x \in Conns, x # c PROVE ConnInv(x)'
    BY Zenon, <1>5, <2>2
       DEF Shape, ResponseInv, ConnInv, Running, WriterRecvEnd, SendersGone, HasSenders
  <2>3. ConnInv(c)'
    BY Zenon, <1>5 DEF Shape, ResponseInv, ConnInv, Running, WriterRecvEnd, SendersGone, HasSenders
  <2>4. QED  BY <2>1, <2>2, <2>3 DEF ResponseInv
<1>6. CASE CloseConn(c)
  <2>1. Shape'
    <3>1. req' \in [Conns -> [Reqs -> {"idle", "wire", "reader", "handler", "answered", "dropped"}]]
      <4>1. CASE link[c] = "broken"
        BY Zenon, <1>6, <4>1 DEF Shape, CloseConn
      <4>2. CASE link[c] # "broken"
        <5>1. Answer(c, wbuf[c])
          BY Zenon, <1>6, <4>2 DEF CloseConn
        <5>2. QED  BY <5>1 DEF Shape, Answer
      <4>3. QED  BY Zenon, <4>1, <4>2
    <3>2. DOMAIN wbuf' = Conns
      BY Zenon, <1>6 DEF Shape, CloseConn
    <3>3. /\ link' \in [Conns -> {"none", "up", "half", "broken", "closed"}]
          /\ writer' \in [Conns -> {"none", "recv", "drain", "flush", "close", "gone"}]
      BY Zenon, <1>6 DEF Shape, CloseConn, WriterExit, CloseSocket
    <3>4. QED  BY Zenon, <1>6, <3>1, <3>2, <3>3 DEF Shape, CloseConn, closeVars
  <2>2. ASSUME NEW x \in Conns, x # c PROVE ConnInv(x)'
    BY SMTT(30), <1>6, <2>2
       DEF Shape, ResponseInv, ConnInv, Running, CloseConn, Answer, WriterExit, CloseSocket
  <2>3. ConnInv(c)'
    BY <1>6 DEF Shape, ResponseInv, ConnInv, Running, CloseConn, Answer, WriterExit, CloseSocket
  <2>4. QED  BY <2>1, <2>2, <2>3 DEF ResponseInv
<1>7. QED  BY Zenon, <1>1, <1>2, <1>3, <1>4, <1>5, <1>6

\* So do the listener, and what happens to the link.
LEMMA LinksKeep ==
  ASSUME Shape, ResponseInv, NEW c \in Conns,
         \/ Accept(c)
         \/ ClientShut(c)
         \/ LinkBreaks(c)
  PROVE  Shape' /\ ResponseInv'
<1>1. CASE Accept(c)
  <2>1. Shape'
    BY Zenon, <1>1 DEF Shape, Accept, closeVars
  <2>2. ASSUME NEW x \in Conns, x # c PROVE ConnInv(x)'
    BY Zenon, <1>1, <2>2 DEF Shape, ResponseInv, ConnInv, Running, Accept
  <2>3. ConnInv(c)'
    <3>1. /\ wbuf[c] = <<>> /\ ~werr[c]
          /\ \A r \in Reqs : req[c][r] # "reader"
      BY Zenon, <1>1 DEF ResponseInv, ConnInv, Accept
    <3>2. /\ link'[c] = "up" /\ reader'[c] = "head" /\ writer'[c] = "recv"
          /\ UNCHANGED <<wbuf, werr, req>>
      BY Zenon, <1>1 DEF Shape, Accept
    <3>3. QED  BY Zenon, <3>1, <3>2 DEF ConnInv
  <2>4. QED  BY Zenon, <2>1, <2>2, <2>3 DEF ResponseInv
<1>2. CASE ClientShut(c)
  <2>1. Shape'
    BY Zenon, <1>2 DEF Shape, ClientShut, closeVars
  <2>2. ASSUME NEW x \in Conns, x # c PROVE ConnInv(x)'
    BY Zenon, <1>2, <2>2 DEF Shape, ResponseInv, ConnInv, Running, ClientShut
  <2>3. ConnInv(c)'
    BY Zenon, <1>2 DEF Shape, ResponseInv, ConnInv, Running, ClientShut
  <2>4. QED  BY <2>1, <2>2, <2>3 DEF ResponseInv
<1>3. CASE LinkBreaks(c)
  <2>1. Shape'
    BY Zenon, <1>3 DEF Shape, LinkBreaks, closeVars
  <2>2. ASSUME NEW x \in Conns, x # c PROVE ConnInv(x)'
    BY Zenon, <1>3, <2>2 DEF Shape, ResponseInv, ConnInv, Running, LinkBreaks
  <2>3. ConnInv(c)'
    BY Zenon, <1>3 DEF Shape, ResponseInv, ConnInv, Running, LinkBreaks
  <2>4. QED  BY <2>1, <2>2, <2>3 DEF ResponseInv
<1>4. QED  BY Zenon, <1>1, <1>2, <1>3

\* So do the handlers, and the requests of the client.
LEMMA HandlersKeep ==
  ASSUME Shape, ResponseInv, NEW c \in Conns, NEW r \in Reqs,
         \/ HandlerDone(c, r)
         \/ HandlerForgets(c, r)
         \/ ClientSend(c, r)
  PROVE  Shape' /\ ResponseInv'
<1>1. CASE HandlerDone(c, r)
  <2>1. Shape'
    BY Zenon, <1>1 DEF Shape, HandlerDone, SetReq, Notify, closeVars
  <2>2. ASSUME NEW x \in Conns, x # c PROVE ConnInv(x)'
    BY Zenon, <1>1, <2>2 DEF Shape, ResponseInv, ConnInv, Running, HandlerDone, SetReq, Notify
  <2>3. ConnInv(c)'
    BY <1>1 DEF Shape, ResponseInv, ConnInv, Running, HandlerDone, SetReq, Notify
  <2>4. QED  BY Zenon, <2>1, <2>2, <2>3 DEF ResponseInv
<1>2. CASE HandlerForgets(c, r)
  <2>1. Shape'
    BY Zenon, <1>2 DEF Shape, HandlerForgets, SetReq, closeVars
  <2>2. ASSUME NEW x \in Conns, x # c PROVE ConnInv(x)'
    BY Zenon, <1>2, <2>2 DEF Shape, ResponseInv, ConnInv, Running, HandlerForgets, SetReq
  <2>3. ConnInv(c)'
    BY SMTT(30), <1>2 DEF Shape, ResponseInv, ConnInv, Running, HandlerForgets, SetReq
  <2>4. QED  BY <2>1, <2>2, <2>3 DEF ResponseInv
<1>3. CASE ClientSend(c, r)
  <2>1. Shape'
    BY Zenon, <1>3 DEF Shape, ClientSend, SetReq, closeVars
  <2>2. ASSUME NEW x \in Conns, x # c PROVE ConnInv(x)'
    BY Zenon, <1>3, <2>2 DEF Shape, ResponseInv, ConnInv, Running, ClientSend, SetReq
  <2>3. ConnInv(c)'
    BY Zenon, <1>3 DEF Shape, ResponseInv, ConnInv, Running, ClientSend, SetReq
  <2>4. QED  BY <2>1, <2>2, <2>3 DEF ResponseInv
<1>4. QED  BY Zenon, <1>1, <1>2, <1>3

\* Every step keeps the invariant; what close does touches no connection.
LEMMA ResponseStep ==
  ASSUME Shape, ResponseInv, [Next]_vars
  PROVE  Shape' /\ ResponseInv'
<1>1. CASE Close
  BY <1>1 DEF Shape, ResponseInv, ConnInv, Running, Close, connVars
<1>2. CASE CloseWait
  BY SMTT(30), <1>2 DEF Shape, ResponseInv, ConnInv, Running, CloseWait, connVars
<1>3. CASE ListenerEnds
  BY <1>3 DEF Shape, ResponseInv, ConnInv, Running, ListenerEnds, connVars
<1>4. CASE UNCHANGED vars
  BY <1>4 DEF Shape, ResponseInv, ConnInv, Running, vars, closeVars, connVars
<1>5. ASSUME NEW c \in Conns, ReadStep(c) \/ IdleTimeout(c) PROVE Shape' /\ ResponseInv'
  BY Zenon, <1>5, ReaderKeeps DEF ReadStep
<1>6. ASSUME NEW c \in Conns, WriteStep(c) PROVE Shape' /\ ResponseInv'
  BY Zenon, <1>6, WriterKeeps DEF WriteStep
<1>7. ASSUME NEW c \in Conns, Accept(c) \/ ClientShut(c) \/ LinkBreaks(c)
      PROVE Shape' /\ ResponseInv'
  BY Zenon, <1>7, LinksKeep
<1>8. ASSUME NEW c \in Conns, NEW r \in Reqs,
             HandlerDone(c, r) \/ HandlerForgets(c, r) \/ ClientSend(c, r)
      PROVE Shape' /\ ResponseInv'
  BY Zenon, <1>8, HandlersKeep
<1>9. QED  BY Zenon, <1>1, <1>2, <1>3, <1>4, <1>5, <1>6, <1>7, <1>8 DEF Next, HandleStep

\* The invariants hold initially.
LEMMA ServerInit ==
  ASSUME Init PROVE Shape /\ ResponseInv /\ QuietInv
  BY Zenon DEF Init, Shape, ResponseInv, ConnInv, QuietInv, Running

\* The readers, writers and handlers of all connections keep ResponseInv (server_conn).
THEOREM ResponseInvariant == Spec => [](Shape /\ ResponseInv)
<1>1. Init => Shape /\ ResponseInv
  BY Zenon, ServerInit
<1>2. Shape /\ ResponseInv /\ [Next]_vars => Shape' /\ ResponseInv'
  BY Zenon, ResponseStep
<1>3. QED  BY <1>1, <1>2, PTL DEF Spec

\* A writer waits with an empty buffer (the flush after the inner loop over done_rx).
THEOREM Flushed == Spec => []FlushedBeforeWait
<1>1. Shape /\ ResponseInv => FlushedBeforeWait
  BY Zenon DEF ResponseInv, ConnInv, FlushedBeforeWait
<1>2. QED  BY <1>1, ResponseInvariant, PTL

\* A writer that leaves without an I/O error leaves no request or response behind, since
\* its channel ends with the last RespNoti.
THEOREM NothingLost == Spec => []NoResponseLost
<1>1. Shape /\ ResponseInv => NoResponseLost
  BY Zenon DEF Shape, ResponseInv, ConnInv, NoResponseLost
<1>2. QED  BY <1>1, ResponseInvariant, PTL

-----------------------------------------------------------------------------
\* get_alive_conn returns 0 only when no coroutine is left.
LEMMA NothingCounted ==
  ASSUME AliveConn = 0 PROVE listener = "gone" /\ \A c \in Conns : ~Alive(c)
<1> DEFINE L == {c \in Conns : Alive(c)}
<1>1. IsFiniteSet(L) /\ Cardinality(L) \in Nat
  BY Zenon, FS_Subset, FS_CardinalityType, ServerAssumption, L \in SUBSET Conns
<1>2. listener = "gone" /\ Cardinality(L) = 0
  BY <1>1 DEF AliveConn
<1>3. L = {}
  BY Zenon, <1>1, <1>2, FS_EmptySet
<1>4. QED  BY Zenon, <1>2, <1>3

\* Where nothing is alive and no listener accepts, a coroutine has no step.
LEMMA QuietStays ==
  ASSUME Shape, NEW c \in Conns, listener = "gone", \A x \in Conns : ~Alive(x),
         ReadStep(c) \/ IdleTimeout(c) \/ WriteStep(c) \/ Accept(c)
  PROVE  FALSE
<1>1. ~Running(reader[c]) /\ ~Running(writer[c])
  BY Zenon DEF Alive
<1>2. ~ReadStep(c)
  <2>1. ~ReadHead(c) /\ ~ReadHeadErr(c)
    BY Zenon, <1>1 DEF ReadHead, ReadHeadErr, Running
  <2>2. ~ReadBody(c) /\ ~ReadBodyErr(c)
    BY Zenon, <1>1 DEF ReadBody, ReadBodyErr, Running
  <2>3. ~DispatchSpawn(c) /\ ~DispatchInline(c)
    BY Zenon, <1>1 DEF DispatchSpawn, DispatchInline, Running
  <2>4. ~DispatchErr(c) /\ ~QuickResp(c)
    BY Zenon, <1>1 DEF DispatchErr, QuickResp, Running
  <2>5. QED  BY Zenon, <2>1, <2>2, <2>3, <2>4 DEF ReadStep
<1>3. ~WriteStep(c)
  <2>1. ~WriteResp(c) /\ ~Drained(c)
    BY Zenon, <1>1 DEF WriteResp, Drained, Running
  <2>2. ~FlushResp(c) /\ ~WriterErr(c)
    BY Zenon, <1>1 DEF FlushResp, WriterErr, Running
  <2>3. ~WriterRecvEnd(c) /\ ~CloseConn(c)
    BY Zenon, <1>1 DEF WriterRecvEnd, CloseConn, Running
  <2>4. QED  BY Zenon, <2>1, <2>2, <2>3 DEF WriteStep
<1>4. ~IdleTimeout(c)
  BY Zenon, <1>1 DEF IdleTimeout, Running
<1>5. QED  BY Zenon, <1>2, <1>3, <1>4 DEF Accept

\* Every step keeps QuietInv.
LEMMA QuietStep ==
  ASSUME Shape, QuietInv, [Next]_vars
  PROVE  QuietInv'
<1>1. CASE Close
  <2>1. UNCHANGED connVars /\ left' = AliveConn /\ listener' # "listening"
    BY Zenon, <1>1 DEF Close, Shape
  <2>2. left' = 0 => listener' = "gone" /\ \A c \in Conns : ~Alive(c)'
    BY Zenon, <1>1, <2>1, NothingCounted DEF Close, connVars, Alive
  <2>3. QED  BY Zenon, <2>1, <2>2 DEF QuietInv
<1>2. CASE CloseWait
  <2>1. UNCHANGED <<listener, connVars>> /\ server # "open"
    BY Zenon, <1>2 DEF CloseWait
  <2>2. left' = 0 => listener' = "gone" /\ \A c \in Conns : ~Alive(c)'
    BY Zenon, <1>2, <2>1, NothingCounted DEF CloseWait, QuietInv, connVars, Alive
  <2>3. QED  BY Zenon, <2>1, <2>2 DEF QuietInv
<1>3. CASE ListenerEnds
  BY Zenon, <1>3 DEF ListenerEnds, QuietInv, connVars, Alive
<1>4. CASE UNCHANGED vars
  BY Zenon, <1>4 DEF vars, closeVars, connVars, QuietInv, Alive
<1>5. ASSUME NEW c \in Conns, ReadStep(c) \/ IdleTimeout(c) \/ WriteStep(c) \/ Accept(c)
      PROVE QuietInv'
  <2>1. UNCHANGED closeVars
    <3>1. CASE ReadStep(c)
      <4>1. ReadHead(c) \/ ReadHeadErr(c) \/ ReadBody(c) => UNCHANGED closeVars
        BY Zenon DEF ReadHead, ReadHeadErr, ReadBody
      <4>2. ReadBodyErr(c) \/ DispatchSpawn(c) \/ DispatchInline(c) => UNCHANGED closeVars
        BY Zenon DEF ReadBodyErr, DispatchSpawn, DispatchInline
      <4>3. DispatchErr(c) \/ QuickResp(c) => UNCHANGED closeVars
        BY Zenon DEF DispatchErr, QuickResp
      <4>4. QED  BY Zenon, <3>1, <4>1, <4>2, <4>3 DEF ReadStep
    <3>2. CASE WriteStep(c)
      <4>1. WriteResp(c) \/ Drained(c) \/ FlushResp(c) => UNCHANGED closeVars
        BY Zenon DEF WriteResp, Drained, FlushResp
      <4>2. WriterErr(c) \/ WriterRecvEnd(c) \/ CloseConn(c) => UNCHANGED closeVars
        BY Zenon DEF WriterErr, WriterRecvEnd, CloseConn
      <4>3. QED  BY Zenon, <3>2, <4>1, <4>2 DEF WriteStep
    <3>3. CASE Accept(c) \/ IdleTimeout(c)
      BY Zenon, <3>3 DEF Accept, IdleTimeout
    <3>4. QED  BY Zenon, <1>5, <3>1, <3>2, <3>3
  <2>2. ~(server # "open" /\ left = 0)
    BY Zenon, <1>5, QuietStays DEF QuietInv
  <2>3. QED  BY Zenon, <2>1, <2>2 DEF QuietInv, closeVars
<1>6. ASSUME NEW c \in Conns, ClientShut(c) \/ LinkBreaks(c) PROVE QuietInv'
  <2>1. UNCHANGED <<closeVars, reader, writer>>
    BY Zenon, <1>6 DEF ClientShut, LinkBreaks
  <2>2. QED  BY Zenon, <2>1 DEF QuietInv, closeVars, Alive
<1>7. ASSUME NEW c \in Conns, NEW r \in Reqs,
             HandlerDone(c, r) \/ HandlerForgets(c, r) \/ ClientSend(c, r)
      PROVE QuietInv'
  <2>1. UNCHANGED <<closeVars, reader, writer>>
    BY Zenon, <1>7 DEF HandlerDone, HandlerForgets, ClientSend
  <2>2. QED  BY Zenon, <2>1 DEF QuietInv, closeVars, Alive
<1>8. QED  BY Zenon, <1>1, <1>2, <1>3, <1>4, <1>5, <1>6, <1>7 DEF Next, HandleStep

\* A close that returns with a count of 0 leaves a quiet server, although the listener may
\* accept once more after the abort and connections leave in their own time.
THEOREM Quiet == Spec => []QuietAfterClose
<1>1. Init => QuietInv
  BY Zenon, ServerInit
<1>2. Shape /\ QuietInv /\ [Next]_vars => QuietInv'
  BY Zenon, QuietStep
<1>3. QuietInv => QuietAfterClose
  BY Zenon DEF QuietInv, QuietAfterClose
<1>4. QED  BY <1>1, <1>2, <1>3, ResponseInvariant, PTL DEF Spec

=============================================================================
