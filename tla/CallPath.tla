----------------------------- MODULE CallPath -------------------------------
(***************************************************************************)
(* The way of a call: the client's task is encoded behind a ReqHead, the    *)
(* server reads it, dispatches it to a handler, encodes the result or the   *)
(* error behind a RespHead, and the client reads it into the task and gives *)
(* the caller its result.  stream/src/proto.rs, core/src/error.rs, the body *)
(* parts of transport/tcp, and two kinds of tasks: those of the API layer   *)
(* (src/client, src/server, the service macros) and those of the stream     *)
(* layer (stream/src/server/task.rs, the task macros).                      *)
(*                                                                         *)
(* The two directions of the connection are sequences of cells.  A head is  *)
(* one cell; an action string, an encoded message, a blob or an error       *)
(* string is a sequence of tokens.  A reader that has lost its place sees a *)
(* token where it expects a head, which fails the test of the magic number. *)
(* u32 has W bits.                                                          *)
(***************************************************************************)
EXTENDS Integers, Sequences

CONSTANTS
  Programs,     \* what is built and asked, a sequence of records with the fields
                \*   kind: "api" or "stream", the kind of task
                \*   mux: the API server serves several services, not just one
                \*   methods: the methods of each service, or the actions of the task enum
                \*   requests: what callers may ask, [action, arg, blob]
                \*   outcomes: how handlers may end
                \*   err_type: the error type of the methods: "num", "unit" or "string"
                \*   junk: what a codec that fails in encode_into has already written
                \*   blob_room: the response blob the client's task has room for
                \*   narrow, signed: the width of the numeric error type, and whether
                \*     it has a sign
                \*   bounds: the values `$t::max as u32`, an address, may have
  MaxCalls,     \* bound: calls and pings
  W             \* the width of u32

\* What a task holds fits the limits: what ReqHead::encode refuses is in ClientStream.
ASSUME CallAssumption ==
  /\ MaxCalls \in Nat /\ W \in Nat \ {0}
  /\ \A i \in DOMAIN Programs : LET p == Programs[i] IN
       /\ p.kind \in {"api", "stream"} /\ p.mux \in BOOLEAN
       /\ p.err_type \in {"num", "unit", "string"}
       /\ p.blob_room \in Nat /\ p.narrow \in Nat \ {0} /\ p.signed \in BOOLEAN
       /\ p.bounds \subseteq 0..(2^W - 1) /\ p.bounds # {}
       /\ \A r \in p.requests : Len(r.blob) < 2^(W - 1) /\ Len(r.action.str) < 2^(W - 1)

VARIABLES
  sent,         \* how many requests were sent; the last one has this seq
  asked,        \* what was asked with each seq
  reg,          \* the seqs of the tasks registered with the timer
  res,          \* the result each caller got
  c2s, s2c,     \* the two directions of the connection
  tasks,        \* the requests handlers work on
  outcome,      \* how each request ended at the server
  client, server, \* "up" or "closed": the two readers
  program       \* which of Programs this is

vars == <<sent, asked, reg, res, c2s, s2c, tasks, outcome, client, server, program>>

Prog == Programs[program]

Seqs == 1..MaxCalls
U32 == 2^W
HighMask == 2^(W - 1)
AsU32(n) == n % U32
AsInt(n, bits, signed) ==
  LET m == n % 2^bits IN IF signed /\ m >= 2^(bits - 1) THEN m - 2^bits ELSE m

First(s, n) == SubSeq(s, 1, n)
After(s, n) == SubSeq(s, n + 1, Len(s))

NumAction(n) == [kind |-> "num", num |-> n, str |-> <<>>]
StrAction(s) == [kind |-> "str", num |-> 0, str |-> s]
Ping == [action |-> NumAction(0), arg |-> "none", blob |-> <<>>]
Ok(v, b) == [tag |-> "ok", val |-> v, blob |-> b]
User(e) == [tag |-> "user", err |-> e]
Rpc(e) == [tag |-> "rpc", int |-> e]
NumErr(n) == [num |-> n, str |-> <<>>]
StrErr(s) == [num |-> 0, str |-> s]
None == [tag |-> "none"]

Init ==
  /\ sent = 0 /\ asked = [q \in Seqs |-> Ping] /\ reg = {}
  /\ res = [q \in Seqs |-> None] /\ outcome = [q \in Seqs |-> None]
  /\ c2s = <<>> /\ s2c = <<>> /\ tasks = {}
  /\ client = "up" /\ server = "up"
  /\ program \in DOMAIN Programs

-----------------------------------------------------------------------------
(***************************************************************************)
(* Codec.  "none" is no message at all, "fat" takes two cells, "odd" cannot *)
(* be encoded; nothing but an encoded value decodes.                        *)
(***************************************************************************)
Encode(v) == IF v = "none" THEN <<>> ELSE IF v = "fat" THEN <<"fat", "tail">> ELSE <<v>>
Encodes(v) == v # "odd"
Decodes(m) == m \in {<<"x">>, <<"y">>, <<"fat", "tail">>}
Decode(m) == IF m = <<>> THEN "none" ELSE Head(m)

\* Tokens on the connection, and back.
Data(s) == [i \in 1..Len(s) |-> [head |-> "data", tok |-> s[i]]]
Tokens(s) == [i \in 1..Len(s) |-> s[i].tok]
HeadCell(dir, a, q, m, b) ==
  <<[head |-> dir, tok |-> "head", action |-> a, seq |-> q, msg_len |-> m, blob_len |-> b]>>

-----------------------------------------------------------------------------
(***************************************************************************)
(* ReqHead.                                                                 *)
(***************************************************************************)
\* Mutant: the length of an action string is not marked.
ActionUnmarked(a) == IF a.kind = "num" THEN AsU32(a.num) ELSE Len(a.str)

\* The action field: a number, or the length of the string and the high bit.
ActionFlag(a) == IF a.kind = "num" THEN AsU32(a.num) ELSE Len(a.str) + HighMask

\* encode: the head, the action string and the message.
EncodeReq(q, r) ==
  HeadCell("req", ActionFlag(r.action), q, Len(Encode(r.arg)), Len(r.blob))
    \o Data(r.action.str \o Encode(r.arg))

\* write_req: the encoded buffer, then the blob.
WriteReq(buf, blob) == buf \o Data(blob)

EncodePing(q) == HeadCell("req", 0, q, 0, 0)

\* get_action: how many cells of action string follow.
ActionLen(h) == IF h.action < HighMask THEN 0 ELSE h.action - HighMask

\* decode_head: the magic number.
IsHead(c, dir) == c.head = dir

-----------------------------------------------------------------------------
(***************************************************************************)
(* RpcErrCodec and RpcIntErr.                                               *)
(***************************************************************************)
IntErrs == {"unreachable", "io_err", "timeout", "method_notfound", "service_notfound",
            "encode", "decode", "internal_err", "invalid_ver"}

NumForm(n) == [flag |-> 1, num |-> n, body |-> <<>>]
BufForm(s) == [flag |-> 2, num |-> 0, body |-> s]

\* encode of (), of the numbers, sign extended to u32, and of String.
EncodeErr(e) ==
  IF Prog.err_type = "string" THEN BufForm(e.str)
  ELSE NumForm(IF Prog.err_type = "unit" THEN 0 ELSE AsU32(e.num))

\* An internal error is sent as its name, with the reserved prefix.
EncodeInt(e) == BufForm(<<"rpc_", e>>)

\* decode of the numbers compares with the address of Ord::max, then truncates.
DecodeNum(n) ==
  {IF n <= b
   THEN User(NumErr(AsInt(n, Prog.narrow, Prog.signed)))
   ELSE Rpc("decode") : b \in Prog.bounds}

DecodeErr(f) ==
  CASE Prog.err_type = "num" /\ f.flag = 1 -> DecodeNum(f.num)
    [] Prog.err_type = "unit" /\ f.flag = 1 /\ f.num = 0 -> {User(NumErr(0))}
    [] Prog.err_type = "string" /\ f.flag = 2 -> {User(StrErr(f.body))}
    [] OTHER -> {Rpc("decode")}

-----------------------------------------------------------------------------
(***************************************************************************)
(* RespHead.                                                                *)
(***************************************************************************)
RespHead(flag, q, m, b) == HeadCell("resp", flag, q, m, b)

\* _encode_error, after what is in the buffer already.
EncodeError(q, buf, f) ==
  RespHead(f.flag, q, f.num, Len(f.body)) \o Data(buf \o f.body)

\* encode of a message and a blob, with the limits of their lengths.
EncodeOk(q, m, b) ==
  IF Len(m) >= U32 \/ Len(b) >= HighMask THEN EncodeError(q, m, EncodeInt("encode"))
  ELSE RespHead(0, q, Len(m), Len(b)) \o Data(m \o b)

\* encode_internal: the answer to a ping, or an error of the framework.
EncodeInternal(q, e) ==
  IF e = "none" THEN RespHead(0, q, 0, 0) ELSE EncodeError(q, <<>>, EncodeInt(e))

\* encode_resp of an API response, which was encoded by set_result or set_error.
EncodeApi(q, o) ==
  CASE o.tag = "user" -> EncodeError(q, <<>>, EncodeErr(o.err))
    [] o.tag = "rpc" -> EncodeError(q, <<>>, EncodeInt(o.int))
    [] o.tag = "ok" /\ Encodes(o.val) -> EncodeOk(q, Encode(o.val), <<>>)
    [] OTHER -> EncodeError(q, <<>>, EncodeInt("encode"))

\* encode_resp of a ServerTaskVariant: the codec writes into the buffer itself.
EncodeVariant(q, o) ==
  CASE o.tag = "user" -> EncodeError(q, <<>>, EncodeErr(o.err))
    [] o.tag = "rpc" -> EncodeError(q, <<>>, EncodeInt(o.int))
    [] o.tag = "ok" /\ Encodes(o.val) -> EncodeOk(q, Encode(o.val), o.blob)
    [] OTHER -> EncodeError(q, Prog.junk, EncodeInt("encode"))

\* encode_resp of a ServerTaskVariantFull, which may have no response message.
EncodeVariantFull(q, o) ==
  IF o.tag = "ok" /\ o.val = "none" THEN EncodeOk(q, <<>>, o.blob) ELSE EncodeVariant(q, o)

\* write_resp.
EncodeResp(q, o) == IF Prog.kind = "api" THEN EncodeApi(q, o) ELSE EncodeVariantFull(q, o)

-----------------------------------------------------------------------------
(***************************************************************************)
(* Client: the calls.                                                       *)
(***************************************************************************)
\* make_req of an endpoint: a string action and a message, never a blob.
MakeReq(path, v) == [action |-> StrAction(path), arg |-> v, blob |-> <<>>]

\* An endpoint calls, or a task is sent, and is registered.
Call(r) ==
  /\ sent < MaxCalls /\ client = "up"
  /\ sent' = sent + 1 /\ asked' = [asked EXCEPT ![sent + 1] = r]
  /\ c2s' = c2s \o WriteReq(EncodeReq(sent + 1, r), r.blob)
  /\ reg' = reg \cup {sent + 1}
  /\ UNCHANGED <<res, s2c, tasks, outcome, client, server, program>>

SendPing ==
  /\ sent < MaxCalls /\ client = "up"
  /\ sent' = sent + 1
  /\ c2s' = c2s \o EncodePing(sent + 1)
  /\ UNCHANGED <<asked, reg, res, s2c, tasks, outcome, client, server, program>>

\* The timer gives a task up; its answer may still come.
TimeOut(q) ==
  /\ q \in reg
  /\ reg' = reg \ {q} /\ res' = [res EXCEPT ![q] = Rpc("timeout")]
  /\ UNCHANGED <<sent, asked, c2s, s2c, tasks, outcome, client, server, program>>

-----------------------------------------------------------------------------
(***************************************************************************)
(* Server.                                                                  *)
(***************************************************************************)
\* split_once('.').
Dots(s) == {i \in 1..Len(s) : s[i] = "."}
FirstDot(s) == CHOOSE i \in Dots(s) : \A j \in Dots(s) : i <= j

\* serve: of the service the name stands for, or of the only one; then the method
\* and the argument.  Gives the error, or "none" when the handler runs.
Serve(service, method, msg) ==
  IF Prog.mux /\ service \notin DOMAIN Prog.methods THEN "service_notfound"
  ELSE LET s == IF Prog.mux THEN service ELSE CHOOSE x \in DOMAIN Prog.methods : TRUE
       IN IF method \notin Prog.methods[s] THEN "method_notfound"
          ELSE IF Decodes(msg) THEN "none" ELSE "decode"

\* dispatch_req of the API layer.
DispatchApi(a, msg) ==
  IF a.kind = "num" \/ Dots(a.str) = {} THEN "decode"
  ELSE Serve(First(a.str, FirstDot(a.str) - 1), After(a.str, FirstDot(a.str)), msg)

\* dispatch_req of DispatchClosure with decode_req of a task enum.
DispatchEnum(a, msg) == IF a \in Prog.methods /\ Decodes(msg) THEN "none" ELSE "decode"

Dispatch(a, msg) == IF Prog.kind = "api" THEN DispatchApi(a, msg) ELSE DispatchEnum(a, msg)

\* Mutant: the reader leaves the blob in the stream.
ReqLenNoBlob(s) == 1 + ActionLen(Head(s)) + Head(s).msg_len

\* How many cells the first request takes.
ReqLen(s) == 1 + ActionLen(Head(s)) + Head(s).msg_len + Head(s).blob_len

\* What it says.
ReadReq(s) ==
  LET h == Head(s)
      a == ActionLen(h)
      str == Tokens(First(After(s, 1), a))
      at == 1 + a + h.msg_len
  IN [seq |-> h.seq,
      action |-> IF h.action < HighMask THEN NumAction(h.action) ELSE StrAction(str),
      msg |-> Tokens(First(After(s, 1 + a), h.msg_len)),
      blob |-> Tokens(First(After(s, at), h.blob_len))]

IsPing(r) == r.action = NumAction(0) /\ r.msg = <<>>

\* The API's Inline dispatch serves a request before the reader goes on.
Reading == server = "up" /\ (Prog.kind = "api" => tasks = {})

\* read_req and the reader's loop: a ping is answered at once, and so is what cannot
\* be dispatched.
ServerRead ==
  /\ Reading /\ c2s # <<>> /\ IsHead(Head(c2s), "req")
  /\ ReqLen(c2s) <= Len(c2s)
  /\ LET r == ReadReq(c2s)
         e == Dispatch(r.action, r.msg)
     IN \/ /\ IsPing(r) /\ s2c' = s2c \o EncodeInternal(r.seq, "none")
           /\ UNCHANGED <<tasks, outcome>>
        \/ /\ ~IsPing(r) /\ e = "none"
           /\ tasks' = tasks \cup {[seq |-> r.seq, action |-> r.action,
                                    arg |-> Decode(r.msg), blob |-> r.blob]}
           /\ UNCHANGED <<outcome, s2c>>
        \/ /\ ~IsPing(r) /\ e # "none" /\ s2c' = s2c \o EncodeInternal(r.seq, e)
           /\ outcome' = [outcome EXCEPT ![r.seq] = Rpc(e)]
           /\ UNCHANGED tasks
  /\ c2s' = After(c2s, ReqLen(c2s))
  /\ UNCHANGED <<sent, asked, reg, res, client, server, program>>

\* The magic number is wrong: the reader gives the connection up.
ServerBadHead ==
  /\ Reading /\ c2s # <<>> /\ ~IsHead(Head(c2s), "req")
  /\ server' = "closed"
  /\ UNCHANGED <<sent, asked, reg, res, c2s, s2c, tasks, outcome, client, program>>

\* A handler ends; set_result, set_error, and the writer.
Handle(t, o) ==
  /\ t \in tasks /\ tasks' = tasks \ {t}
  /\ outcome' = [outcome EXCEPT ![t.seq] = o]
  /\ s2c' = s2c \o EncodeResp(t.seq, o)
  /\ UNCHANGED <<sent, asked, reg, res, c2s, client, server, program>>

-----------------------------------------------------------------------------
(***************************************************************************)
(* Client: the responses.                                                   *)
(***************************************************************************)
\* What the transport hands to the task: an internal error, an encoded error, or a
\* message with its blob.
Enc(f) == [tag |-> "enc", form |-> f]
Raw(m, b) == [tag |-> "raw", msg |-> m, blob |-> b]

\* Mutant: the reserved prefix is not looked for.
RecvErrorNoPrefix(h, body) == Enc([flag |-> h.action, num |-> h.msg_len, body |-> body])

\* _recv_error: an error number, the name of an internal error, or user data.
RecvError(h, body) ==
  IF h.action = 2 /\ Len(body) = 2 /\ Head(body) = "rpc_" /\ body[2] \in IntErrs
  THEN Rpc(body[2])
  ELSE Enc([flag |-> h.action, num |-> h.msg_len, body |-> body])

\* Mutant: a blob without room is dropped and the rest delivered.
RecvOkDropsBlob(msg, blob) == Raw(msg, IF Len(blob) > Prog.blob_room THEN <<>> ELSE blob)

\* A blob needs room in the task.
RecvOk(msg, blob) == IF Len(blob) > Prog.blob_room THEN Rpc("decode") ELSE Raw(msg, blob)

\* decode_resp, unless there is no message, and set_ok.
DecodeResp(msg, blob) ==
  IF msg # <<>> /\ ~Decodes(msg) THEN Rpc("decode") ELSE Ok(Decode(msg), blob)

\* A task of the macros decodes as the response is read: set_custom_error, decode_resp.
SetResult(x) ==
  CASE x.tag = "enc" -> DecodeErr(x.form)
    [] x.tag = "raw" -> {DecodeResp(x.msg, x.blob)}
    [] OTHER -> {x}

\* An API task keeps what was read, and process_res decodes it in the caller; without a
\* message the response is the default.
ProcessRes(x) ==
  CASE x.tag = "rpc" -> {x}
    [] x.tag = "enc" -> DecodeErr(x.form)
    [] x.tag = "raw" /\ x.msg = <<>> -> {Ok("none", <<>>)}
    [] OTHER -> {IF Decodes(x.msg) THEN Ok(Decode(x.msg), <<>>) ELSE Rpc("decode")}

Results(x) == IF Prog.kind = "api" THEN ProcessRes(x) ELSE SetResult(x)

\* The cells of a response; with an error, msg_len is no length.
RespLen(h) == IF h.action = 0 THEN 1 + h.msg_len + h.blob_len ELSE 1 + h.blob_len

\* read_resp and _recv_resp_body.
ClientRead ==
  /\ client = "up" /\ s2c # <<>> /\ IsHead(Head(s2c), "resp")
  /\ RespLen(Head(s2c)) <= Len(s2c)
  /\ LET h == Head(s2c)
         body == Tokens(First(After(s2c, 1), RespLen(h) - 1))
         x == IF h.action > 0 THEN RecvError(h, body)
              ELSE RecvOk(First(body, h.msg_len), After(body, h.msg_len))
     IN /\ s2c' = After(s2c, RespLen(h))
        /\ IF h.seq \in reg
           THEN \E r \in Results(x) : res' = [res EXCEPT ![h.seq] = r]
           ELSE UNCHANGED res
        /\ reg' = reg \ {h.seq}
  /\ UNCHANGED <<sent, asked, c2s, tasks, outcome, client, server, program>>

\* The magic number is wrong: the receiver gives the connection up.
ClientBadHead ==
  /\ client = "up" /\ s2c # <<>> /\ ~IsHead(Head(s2c), "resp")
  /\ client' = "closed"
  /\ UNCHANGED <<sent, asked, reg, res, c2s, s2c, tasks, outcome, server, program>>

-----------------------------------------------------------------------------
Next ==
  \/ \E r \in Prog.requests : Call(r)
  \/ SendPing
  \/ \E q \in Seqs : TimeOut(q)
  \/ ServerRead \/ ServerBadHead
  \/ \E t \in tasks, o \in Prog.outcomes : Handle(t, o)
  \/ ClientRead \/ ClientBadHead

Spec == Init /\ [][Next]_vars

-----------------------------------------------------------------------------
(***************************************************************************)
(* Properties.                                                              *)
(***************************************************************************)
\* What a caller should get when the server finished a request with o: an error number
\* may be lost in its decoding, and a response the client has no room for is.
Expected(o) ==
  CASE o.tag = "ok" /\ ~Encodes(o.val) -> {Rpc("encode")}
    [] o.tag = "ok" /\ Len(o.blob) > Prog.blob_room -> {Rpc("decode")}
    [] o.tag = "user" /\ Prog.err_type = "num" -> {o, Rpc("decode")}
    [] OTHER -> {o}

\* A program in which the code keeps its place: no action number is negative, which
\* get_action would take for a length, and no response fails to encode after something
\* was written to the buffer, which _encode_error would send along.
Sound ==
  /\ \A r \in Prog.requests : r.action.num >= 0
  /\ \A o \in Prog.outcomes : o.tag = "ok" =>
       Len(o.blob) < HighMask /\ (Encodes(o.val) \/ Prog.kind = "api" \/ Prog.junk = <<>>)

\* Every caller gets the outcome of its own request, or a timeout, however requests,
\* answers, pings and timeouts cross: nobody gets a result before the server has one,
\* and an answer that comes after the timeout is not taken for another request's
\* (_recv_resp_body, process_res).
ResultIsOutcome ==
  Sound => \A q \in Seqs : res[q] # None =>
    res[q] = Rpc("timeout") \/ (outcome[q] # None /\ res[q] \in Expected(outcome[q]))

\* A handler works on what was asked with the seq it answers to: the same action,
\* argument and blob; and what the server refuses does not exist (read_req, dispatch_req,
\* serve, decode_req).
Routed ==
  Sound =>
    /\ \A t \in tasks : asked[t.seq] = [action |-> t.action, arg |-> t.arg, blob |-> t.blob]
    /\ \A q \in Seqs : outcome[q].tag = "rpc" /\ outcome[q].int # "internal_err" =>
         LET a == asked[q].action IN
           \/ ~Decodes(Encode(asked[q].arg))
           \/ IF Prog.kind = "stream" THEN a \notin Prog.methods
              ELSE ~\E s \in DOMAIN Prog.methods : \E m \in Prog.methods[s] :
                     a = StrAction(s \o <<".">> \o m)

\* Neither reader ever loses its place: the lengths in a head are those of what follows,
\* on the paths of errors, of pings and of answers nobody waits for as well
\* (_recv_and_dump, _recv_error, _encode_error).
NoDesync == Sound => client = "up" /\ server = "up"

\* Also when a reader has lost its place, a caller that gets a response gets the one its
\* own handler gave: what is left in the stream is never taken for one (decode_head,
\* _recv_resp_body).
OkIsOutcome == \A q \in Seqs : res[q].tag = "ok" => res[q] = outcome[q]

=============================================================================
