----------------------------- MODULE RpcServer ------------------------------
(***************************************************************************)
(* The server (stream/src/server/server.rs) with its transport              *)
(* (transport/tcp/src/server.rs), dispatch and tasks: a listener, and for   *)
(* each connection a reader coroutine, a writer coroutine and the handlers  *)
(* the reader dispatches requests to.  Handlers answer through RespNoti, an *)
(* unbounded channel to the writer that ends when its last sender is        *)
(* dropped.  close aborts the listener, drops the close channel, which the  *)
(* readers listen to, and waits until nothing is alive or for too long.     *)
(*                                                                         *)
(* A request slot of a client is used again once it has been answered, so   *)
(* that a client may go on for ever; a second response to it is read over.  *)
(***************************************************************************)
EXTENDS Integers, Sequences, FiniteSets

CONSTANTS
  Conns,       \* the connections clients make
  Reqs,        \* the request slots of each client
  MaxBacklog   \* bound: responses on their way when a handler fails with its task taken

ASSUME ServerAssumption == IsFiniteSet(Conns) /\ MaxBacklog \in Nat

VARIABLES
  server,      \* "open", "closing", "closed"
  left,        \* what close counted last
  listener,    \* "listening", "aborted" or "gone"
  link,        \* of each connection: "none", "up", "half" (the client has shut its
               \* write side), "broken" or "closed"
  wire,        \* the requests on the way to the server
  req,         \* where each request slot is
  reader, cur, \* the reader and the request it works on
  writer,      \* the writer
  werr,        \* the writer left because of an I/O error
  done_chan,   \* the channel from RespNoti to the writer
  wbuf         \* responses written but not flushed

connVars == <<link, wire, req, reader, cur, writer, werr, done_chan, wbuf>>
closeVars == <<server, left, listener>>
vars == <<closeVars, connVars>>

NoReq == "none"

Init ==
  /\ server = "open" /\ left = 0 /\ listener = "listening"
  /\ link = [c \in Conns |-> "none"]
  /\ wire = [c \in Conns |-> <<>>]
  /\ req = [c \in Conns |-> [r \in Reqs |-> "idle"]]
  /\ reader = [c \in Conns |-> "none"] /\ cur = [c \in Conns |-> NoReq]
  /\ writer = [c \in Conns |-> "none"] /\ werr = [c \in Conns |-> FALSE]
  /\ done_chan = [c \in Conns |-> <<>>] /\ wbuf = [c \in Conns |-> <<>>]

Running(x) == x \notin {"none", "gone"}
Alive(c) == Running(reader[c]) \/ Running(writer[c])

\* Mutant: the listener holds no reference.
AliveConnOnly == Cardinality({c \in Conns : Alive(c)})

\* get_alive_conn: the listener coroutine and each connection hold a reference.
AliveConn ==
  Cardinality({c \in Conns : Alive(c)}) + (IF listener = "gone" THEN 0 ELSE 1)

-----------------------------------------------------------------------------
(***************************************************************************)
(* Listener and close.                                                      *)
(***************************************************************************)
\* accept, new_conn and server_conn.  A poll of the listener that is under way
\* when close aborts it may still accept one.
Accept(c) ==
  /\ listener # "gone" /\ link[c] = "none"
  /\ link' = [link EXCEPT ![c] = "up"]
  /\ reader' = [reader EXCEPT ![c] = "head"]
  /\ writer' = [writer EXCEPT ![c] = "recv"]
  /\ UNCHANGED <<closeVars, wire, req, cur, werr, done_chan, wbuf>>

\* accept fails and the listener returns, or its future is dropped by the abort.
ListenerEnds ==
  /\ listener \in {"aborted", "listening"}
  /\ listener' = "gone"
  /\ UNCHANGED <<server, left, connVars>>

\* close: abort, drop the close channel and count.
Close ==
  /\ server = "open" /\ server' = "closing"
  /\ listener' = IF listener = "gone" THEN "gone" ELSE "aborted"
  /\ left' = AliveConn
  /\ UNCHANGED connVars

\* The loop of close, each second, until the count is 0 or server_close_wait is over.
CloseWait ==
  /\ server = "closing"
  /\ \/ left > 0 /\ left' = AliveConn /\ server' \in {"closing", "closed"}
     \/ left = 0 /\ server' = "closed" /\ UNCHANGED left
  /\ UNCHANGED <<listener, connVars>>

-----------------------------------------------------------------------------
(***************************************************************************)
(* RespNoti.                                                                *)
(***************************************************************************)
SetReq(c, r, s) == req' = [req EXCEPT ![c][r] = s]

\* done and send_err: without a writer the response is dropped.
Notify(c, rs) ==
  done_chan' = [done_chan EXCEPT ![c] = IF Running(writer[c]) THEN @ \o rs ELSE @]

\* Some sender of the channel is left: the reader or a handler.
HasSenders(c) ==
  Running(reader[c]) \/ \E r \in Reqs : req[c][r] = "handler"

\* The socket is closed when neither coroutine holds the connection.
CloseSocket(c) == link' = [link EXCEPT ![c] = "closed"]

-----------------------------------------------------------------------------
(***************************************************************************)
(* The reader.                                                              *)
(***************************************************************************)
ReaderExit(c) ==
  /\ reader' = [reader EXCEPT ![c] = "gone"]
  /\ cur' = [cur EXCEPT ![c] = NoReq]
  /\ IF Running(writer[c]) THEN UNCHANGED link ELSE CloseSocket(c)

\* The header read returns; data that is there wins over the close channel.
ReadHead(c) ==
  /\ reader[c] = "head" /\ wire[c] # <<>> /\ link[c] # "broken"
  /\ cur' = [cur EXCEPT ![c] = Head(wire[c])]
  /\ wire' = [wire EXCEPT ![c] = Tail(@)]
  /\ SetReq(c, Head(wire[c]), "reader")
  /\ reader' = [reader EXCEPT ![c] = "body"]
  /\ UNCHANGED <<closeVars, link, writer, werr, done_chan, wbuf>>

\* Mutant: the readers are not told.
CloseSeenNever(c) == FALSE

\* close has dropped the sender of the close channel, and no header is there to be read.
CloseSeen(c) == server # "open" /\ wire[c] = <<>>

\* read_req fails while it waits for a header: I/O error, end of stream, or the close
\* channel.
ReadHeadErr(c) ==
  /\ reader[c] = "head"
  /\ link[c] = "broken" \/ (link[c] = "half" /\ wire[c] = <<>>) \/ CloseSeen(c)
  /\ ReaderExit(c)
  /\ UNCHANGED <<closeVars, wire, req, writer, werr, done_chan, wbuf>>

\* The idle timer, which may be set to any length, fires.
IdleTimeout(c) ==
  /\ reader[c] = "head" /\ wire[c] = <<>>
  /\ ReaderExit(c)
  /\ UNCHANGED <<closeVars, wire, req, writer, werr, done_chan, wbuf>>

\* Action, message and blob are read.  A ping is answered by the reader itself.
ReadBody(c) ==
  /\ reader[c] = "body" /\ link[c] # "broken"
  /\ \E to \in {"quick", "dispatch"} : reader' = [reader EXCEPT ![c] = to]
  /\ UNCHANGED <<closeVars, link, wire, req, cur, writer, werr, done_chan, wbuf>>

\* They are not: a bad header, I/O error, read_timeout, an action that is no UTF-8, no
\* memory.
ReadBodyErr(c) ==
  /\ reader[c] = "body"
  /\ SetReq(c, cur[c], "dropped")
  /\ ReaderExit(c)
  /\ UNCHANGED <<closeVars, wire, writer, werr, done_chan, wbuf>>

Dispatched(c) ==
  /\ reader' = [reader EXCEPT ![c] = "head"]
  /\ cur' = [cur EXCEPT ![c] = NoReq]

\* dispatch_req returns Ok with the task in the hands of a coroutine.
DispatchSpawn(c) ==
  /\ reader[c] = "dispatch"
  /\ SetReq(c, cur[c], "handler")
  /\ Dispatched(c)
  /\ UNCHANGED <<closeVars, link, wire, writer, werr, done_chan, wbuf>>

\* dispatch_req returns Ok after the handler called set_result.
DispatchInline(c) ==
  /\ reader[c] = "dispatch"
  /\ SetReq(c, cur[c], "answered") /\ Notify(c, <<cur[c]>>)
  /\ Dispatched(c)
  /\ UNCHANGED <<closeVars, link, wire, writer, werr, wbuf>>

\* dispatch_req returns an error: the request does not decode, or the handler fails and has
\* the task, which it may answer or drop, before that or later.
DispatchErr(c) ==
  /\ reader[c] = "dispatch"
  /\ reader' = [reader EXCEPT ![c] = "quick"]
  /\ \/ UNCHANGED req
     \/ Len(done_chan[c]) + Len(wbuf[c]) <= MaxBacklog /\ SetReq(c, cur[c], "handler")
  /\ UNCHANGED <<closeVars, link, wire, cur, writer, werr, done_chan, wbuf>>

\* send_quick_resp, a second response to a request that its handler answers; without a
\* writer the reader gives up.
QuickResp(c) ==
  /\ reader[c] = "quick"
  /\ IF req[c][cur[c]] \in {"reader", "dropped"} THEN SetReq(c, cur[c], "answered") ELSE UNCHANGED req
  /\ Notify(c, <<cur[c]>>)
  /\ IF Running(writer[c]) THEN Dispatched(c) /\ UNCHANGED link ELSE ReaderExit(c)
  /\ UNCHANGED <<closeVars, wire, writer, werr, wbuf>>

\* set_result in a handler that has the task.
HandlerDone(c, r) ==
  /\ req[c][r] = "handler"
  /\ SetReq(c, r, "answered") /\ Notify(c, <<r>>)
  /\ UNCHANGED <<closeVars, link, wire, reader, cur, writer, werr, wbuf>>

\* A handler that drops its task.
HandlerForgets(c, r) ==
  /\ req[c][r] = "handler"
  /\ SetReq(c, r, "dropped")
  /\ UNCHANGED <<closeVars, link, wire, reader, cur, writer, werr, done_chan, wbuf>>

-----------------------------------------------------------------------------
(***************************************************************************)
(* The writer.                                                              *)
(***************************************************************************)
\* The responses rs reach the client, which uses their slots again.
Answer(c, rs) ==
  req' = [req EXCEPT ![c] = [r \in Reqs |->
    IF req[c][r] = "answered" /\ \E i \in DOMAIN rs : rs[i] = r
    THEN "idle" ELSE req[c][r]]]

\* recv or try_recv, and write_resp: the buffer takes the response, after what it
\* held before or even the response itself went out.
WriteResp(c) ==
  /\ writer[c] \in {"recv", "drain"} /\ done_chan[c] # <<>> /\ link[c] # "broken"
  /\ LET all == Append(wbuf[c], Head(done_chan[c]))
     IN \E k \in {0, Len(all) - 1, Len(all)} :
          /\ Answer(c, SubSeq(all, 1, k))
          /\ wbuf' = [wbuf EXCEPT ![c] = SubSeq(all, k + 1, Len(all))]
  /\ done_chan' = [done_chan EXCEPT ![c] = Tail(@)]
  /\ writer' = [writer EXCEPT ![c] = "drain"]
  /\ UNCHANGED <<closeVars, link, wire, reader, cur, werr>>

\* Mutant: the writer goes back to recv without a flush.
DrainedNoFlush(c) ==
  /\ writer[c] = "drain" /\ done_chan[c] = <<>>
  /\ writer' = [writer EXCEPT ![c] = "recv"]
  /\ UNCHANGED <<closeVars, link, wire, req, reader, cur, werr, done_chan, wbuf>>

Drained(c) ==
  /\ writer[c] = "drain" /\ done_chan[c] = <<>>
  /\ writer' = [writer EXCEPT ![c] = "flush"]
  /\ UNCHANGED <<closeVars, link, wire, req, reader, cur, werr, done_chan, wbuf>>

\* flush_resp.
FlushResp(c) ==
  /\ writer[c] = "flush" /\ link[c] # "broken"
  /\ Answer(c, wbuf[c])
  /\ wbuf' = [wbuf EXCEPT ![c] = <<>>]
  /\ writer' = [writer EXCEPT ![c] = "recv"]
  /\ UNCHANGED <<closeVars, link, wire, reader, cur, werr, done_chan>>

WriterExit(c) ==
  /\ writer' = [writer EXCEPT ![c] = "gone"]
  /\ IF Running(reader[c]) THEN UNCHANGED link ELSE CloseSocket(c)

\* A write or a flush fails: the writer returns and drops the channel.
WriterErr(c) ==
  /\ \/ writer[c] \in {"recv", "drain"} /\ done_chan[c] # <<>>
     \/ writer[c] = "flush"
  /\ WriterExit(c)
  /\ werr' = [werr EXCEPT ![c] = TRUE]
  /\ done_chan' = [done_chan EXCEPT ![c] = <<>>]
  /\ UNCHANGED <<closeVars, wire, req, reader, cur, wbuf>>

\* Mutant: the channel is taken to end with the reader.
SendersGoneEarly(c) == ~Running(reader[c])

\* Mutant: the writer holds a sender of its own channel.
SendersNeverGone(c) == FALSE

SendersGone(c) == ~HasSenders(c)

\* recv ends with the last sender.
WriterRecvEnd(c) ==
  /\ writer[c] = "recv" /\ done_chan[c] = <<>> /\ SendersGone(c)
  /\ writer' = [writer EXCEPT ![c] = "close"]
  /\ UNCHANGED <<closeVars, link, wire, req, reader, cur, werr, done_chan, wbuf>>

\* close_conn: flush, and shutdown if that works.
CloseConn(c) ==
  /\ writer[c] = "close"
  /\ IF link[c] = "broken" THEN UNCHANGED <<req, wbuf>>
     ELSE Answer(c, wbuf[c]) /\ wbuf' = [wbuf EXCEPT ![c] = <<>>]
  /\ WriterExit(c)
  /\ UNCHANGED <<closeVars, wire, reader, cur, werr, done_chan>>

-----------------------------------------------------------------------------
(***************************************************************************)
(* The clients.                                                             *)
(***************************************************************************)
ClientSend(c, r) ==
  /\ link[c] = "up" /\ req[c][r] = "idle"
  /\ wire' = [wire EXCEPT ![c] = Append(@, r)]
  /\ SetReq(c, r, "wire")
  /\ UNCHANGED <<closeVars, link, reader, cur, writer, werr, done_chan, wbuf>>

ClientShut(c) ==
  /\ link[c] = "up"
  /\ link' = [link EXCEPT ![c] = "half"]
  /\ UNCHANGED <<closeVars, wire, req, reader, cur, writer, werr, done_chan, wbuf>>

LinkBreaks(c) ==
  /\ link[c] \in {"up", "half"}
  /\ link' = [link EXCEPT ![c] = "broken"]
  /\ UNCHANGED <<closeVars, wire, req, reader, cur, writer, werr, done_chan, wbuf>>

ReadStep(c) ==
  \/ ReadHead(c) \/ ReadHeadErr(c) \/ ReadBody(c) \/ ReadBodyErr(c)
  \/ DispatchSpawn(c) \/ DispatchInline(c) \/ DispatchErr(c)
  \/ QuickResp(c)
HandleStep(c) == \E r \in Reqs : HandlerDone(c, r) \/ HandlerForgets(c, r)
WriteStep(c) ==
  \/ WriteResp(c) \/ Drained(c) \/ FlushResp(c) \/ WriterErr(c)
  \/ WriterRecvEnd(c) \/ CloseConn(c)

Next ==
  \/ Close \/ CloseWait \/ ListenerEnds
  \/ \E c \in Conns :
       \/ Accept(c) \/ ReadStep(c) \/ IdleTimeout(c) \/ HandleStep(c) \/ WriteStep(c)
       \/ ClientShut(c) \/ LinkBreaks(c)
       \/ \E r \in Reqs : ClientSend(c, r)

Spec == Init /\ [][Next]_vars

\* The runtime runs every coroutine, and handlers answer.  Nothing is assumed of the idle
\* timer.
Fairness ==
  /\ \A c \in Conns : WF_vars(ReadStep(c)) /\ WF_vars(WriteStep(c)) /\ WF_vars(HandleStep(c))
  /\ WF_vars(listener = "aborted" /\ ListenerEnds)
  /\ WF_vars(CloseWait)

FairSpec == Spec /\ Fairness

-----------------------------------------------------------------------------
(***************************************************************************)
(* Properties.                                                              *)
(***************************************************************************)
\* The writer never waits for the next response while one it has written is still
\* in the buffer.
FlushedBeforeWait ==
  \A c \in Conns : writer[c] = "recv" => wbuf[c] = <<>>

\* A writer that leaves without an I/O error leaves nothing behind: every handler
\* of the connection has answered and every answer has gone out, even when the
\* reader left first because of close or of the idle timer.
NoResponseLost ==
  \A c \in Conns :
    writer[c] = "gone" /\ ~werr[c] =>
      /\ done_chan[c] = <<>> /\ wbuf[c] = <<>>
      /\ \A r \in Reqs : req[c][r] \notin {"reader", "handler"}

\* When close returns and has counted nothing alive, the server is quiet for good:
\* no listener accepts, no reader reads and no writer writes.
QuietAfterClose ==
  server = "closed" /\ left = 0 =>
    listener = "gone" /\ \A c \in Conns : ~Alive(c)

\* A connection whose client has gone, or that broke, is given up by both its
\* coroutines.
ConnReleased ==
  \A c \in Conns : (link[c] \in {"half", "broken"}) ~> ~Alive(c)

\* After close was called everything comes to an end, once the clients stop sending, even if
\* they stay connected: a reader looks at the close channel when it has nothing to read.
CloseCompletes ==
  <>[][\A c \in Conns, r \in Reqs : ~ClientSend(c, r)]_vars
    => ((server = "closing") ~> (AliveConn = 0))

=============================================================================
