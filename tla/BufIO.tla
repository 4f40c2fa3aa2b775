------------------------------- MODULE BufIO --------------------------------
(***************************************************************************)
(* core/src/io/buf_io.rs: AsyncBufStream as the transports use it, one end  *)
(* writing (write_all, flush), the other reading (read_exact,               *)
(* read_at_least), over a socket that takes and gives as few bytes as it    *)
(* likes.  Every await may be cut off by the timer of io_with_timeout, or   *)
(* fail.                                                                    *)
(*                                                                         *)
(* The writer's callers hand over the bytes 1, 2, 3, ... in this order.     *)
(* A read or write that is interrupted is tried again without any change,   *)
(* and takes no step here.                                                  *)
(***************************************************************************)
EXTENDS Integers, Sequences

CONSTANTS
  WCap, RCap,   \* buf_size of the writing and of the reading end
  MaxBytes,     \* bound: how many bytes are handed over
  MaxChunk,     \* bound: the longest write_all and read_exact
  SocketCap     \* what the socket holds

ASSUME BufAssumption ==
  /\ {WCap, RCap, SocketCap} \subseteq Nat \ {0}
  /\ {MaxBytes, MaxChunk} \subseteq Nat

VARIABLES
  next,         \* how many bytes were handed over
  arg,          \* what write_all still has to write
  wbuf,         \* AsyncBufWrite: buf[..pos]
  foff,         \* of these, how many the write_all of flush has written
  w,            \* the writer: "idle", "loop", "flush" or "direct"
  ret,          \* what comes after the flush: "idle", "direct" or "copy"
  werr,         \* a write failed
  closed,       \* the writing end was shut down
  socket,       \* the bytes in the socket
  rbuf,         \* AsyncBufRead: buf[pos..cap]
  out,          \* the bytes the reading callers were given
  r,            \* the reader: "idle", "loop", or how the last read ended: "ok", "eof"
  want, min,    \* length of the buffer and least number of bytes asked for
  got           \* bytes read for this call

wvars == <<next, arg, wbuf, foff, w, ret, werr, closed>>
rvars == <<rbuf, out, r, want, min, got>>
vars == <<wvars, socket, rvars>>

Bytes == 1..MaxBytes

Init ==
  /\ next = 0 /\ arg = <<>> /\ wbuf = <<>> /\ foff = 0
  /\ w = "idle" /\ ret = "idle" /\ werr = FALSE /\ closed = FALSE
  /\ socket = <<>>
  /\ rbuf = <<>> /\ out = <<>> /\ r = "idle" /\ want = 0 /\ min = 0 /\ got = 0

First(s, n) == SubSeq(s, 1, n)
After(s, n) == SubSeq(s, n + 1, Len(s))
Least(a, b) == IF a < b THEN a ELSE b
Upto(n) == [i \in 1..n |-> i]

-----------------------------------------------------------------------------
(***************************************************************************)
(* AsyncBufWrite.                                                           *)
(***************************************************************************)
\* A caller starts write_all with the next n bytes.
WriteCall(n) ==
  /\ w = "idle" /\ ~werr /\ ~closed /\ next + n <= MaxBytes
  /\ arg' = After(Upto(next + n), next) /\ next' = next + n
  /\ w' = "loop"
  /\ UNCHANGED <<wbuf, foff, ret, werr, closed, socket, rvars>>

\* flush: with an empty buffer there is nothing to do.
StartFlush(then) ==
  IF wbuf = <<>> THEN w' = then /\ UNCHANGED <<foff, ret>>
                 ELSE w' = "flush" /\ foff' = 0 /\ ret' = then

\* The bytes fit in the remaining space of the buffer.
Fits(n) == WCap - Len(wbuf) >= n

Copy ==
  /\ wbuf' = wbuf \o arg
  /\ arg' = <<>> /\ w' = "idle"

\* Mutant: a long argument goes out ahead of what is in the buffer.
WriteLoopDirect ==
  /\ w = "loop"
  /\ \/ arg = <<>> /\ w' = "idle" /\ UNCHANGED <<arg, wbuf, foff, ret>>
     \/ /\ arg # <<>> /\ Len(arg) >= WCap
        /\ w' = "direct" /\ UNCHANGED <<arg, wbuf, foff, ret>>
     \/ /\ arg # <<>> /\ Len(arg) < WCap
        /\ IF Fits(Len(arg)) THEN Copy /\ UNCHANGED <<foff, ret>>
           ELSE StartFlush("copy") /\ UNCHANGED <<arg, wbuf>>
  /\ UNCHANGED <<next, werr, closed, socket, rvars>>

\* One turn of write_all's loop: write_buffered.
WriteLoop ==
  /\ w = "loop"
  /\ \/ arg = <<>> /\ w' = "idle" /\ UNCHANGED <<arg, wbuf, foff, ret>>
     \/ /\ arg # <<>> /\ Len(arg) >= WCap
        /\ StartFlush("direct") /\ UNCHANGED <<arg, wbuf>>
     \/ /\ arg # <<>> /\ Len(arg) < WCap
        /\ IF Fits(Len(arg)) THEN Copy /\ UNCHANGED <<foff, ret>>
           ELSE StartFlush("copy") /\ UNCHANGED <<arg, wbuf>>
  /\ UNCHANGED <<next, werr, closed, socket, rvars>>

\* The socket takes n bytes of s.
Socket(s, n) ==
  /\ n \in 1..Least(Len(s), SocketCap - Len(socket))
  /\ socket' = socket \o First(s, n)

\* A write of the write_all inside flush.
FlushWrite ==
  /\ w = "flush" /\ foff < Len(wbuf)
  /\ \E n \in 1..WCap : Socket(After(wbuf, foff), n) /\ foff' = foff + n
  /\ UNCHANGED <<next, arg, wbuf, w, ret, werr, closed, rvars>>

\* Mutant: flush keeps the position.
FlushedKeep ==
  /\ w = "flush" /\ foff = Len(wbuf)
  /\ foff' = 0 /\ UNCHANGED wbuf
  /\ w' = IF ret = "copy" THEN "loop" ELSE ret
  /\ UNCHANGED <<next, arg, ret, werr, closed, socket, rvars>>

\* It is all written: pos = 0, and write_buffered goes on.
Flushed ==
  /\ w = "flush" /\ foff = Len(wbuf)
  /\ wbuf' = <<>> /\ foff' = 0
  /\ w' = IF ret = "copy" THEN "loop" ELSE ret
  /\ UNCHANGED <<next, arg, ret, werr, closed, socket, rvars>>

\* A long argument goes to the socket directly, and write_all goes on with the rest.
DirectWrite ==
  /\ w = "direct"
  /\ \E n \in 1..MaxChunk : Socket(arg, n) /\ arg' = After(arg, n)
  /\ w' = "loop"
  /\ UNCHANGED <<next, wbuf, foff, ret, werr, closed, rvars>>

\* A caller flushes, also after a write that failed, as close_conn does.
FlushCall ==
  /\ w = "idle" /\ ~closed
  /\ wbuf # <<>> /\ StartFlush("idle")
  /\ UNCHANGED <<next, arg, wbuf, werr, closed, socket, rvars>>

\* The write fails, writes nothing, or is cut off by the timer; the position stays.
\* Bound: one failure.
WriteErr ==
  /\ ~werr
  /\ w = "direct" \/ (w = "flush" /\ foff < Len(wbuf))
  /\ werr' = TRUE /\ w' = "idle" /\ arg' = <<>>
  /\ UNCHANGED <<next, wbuf, foff, ret, closed, socket, rvars>>

\* shutdown_write, after a flush, or the stream is dropped.
Shut ==
  /\ w = "idle" /\ (wbuf = <<>> \/ werr) /\ ~closed
  /\ closed' = TRUE
  /\ UNCHANGED <<next, arg, wbuf, foff, w, ret, werr, socket, rvars>>

-----------------------------------------------------------------------------
(***************************************************************************)
(* AsyncBufRead.                                                            *)
(***************************************************************************)
\* read_exact (m = n) or read_at_least of a peer that expects these bytes.
ReadCall(n, m) ==
  /\ r \in {"idle", "ok"} /\ m <= n
  /\ r' = "loop" /\ want' = n /\ min' = m /\ got' = 0
  /\ UNCHANGED <<wvars, socket, rbuf, out>>

Give(s) == out' = out \o s /\ got' = got + Len(s)

\* read_buffered from the buffer.
ReadBuffered ==
  /\ r = "loop" /\ got < min /\ rbuf # <<>>
  /\ LET n == Least(want - got, Len(rbuf))
     IN Give(First(rbuf, n)) /\ rbuf' = After(rbuf, n)
  /\ UNCHANGED <<wvars, socket, r, want, min>>

\* Mutant: the rest of what was read is not kept.
FillForget(n) ==
  /\ Give(First(socket, Least(want - got, n)))
  /\ rbuf' = <<>>

\* The buffer is filled with n bytes, and the first of them are copied.
Fill(n) ==
  /\ Give(First(socket, Least(want - got, n)))
  /\ rbuf' = After(First(socket, n), Least(want - got, n))

\* read_buffered with an empty buffer reads from the socket, long requests directly.
ReadSocket ==
  /\ r = "loop" /\ got < min /\ rbuf = <<>>
  /\ \E n \in 1..Len(socket) :
       /\ \/ want - got >= RCap /\ n <= want - got /\ Give(First(socket, n)) /\ UNCHANGED rbuf
          \/ want - got < RCap /\ n <= RCap /\ Fill(n)
       /\ socket' = After(socket, n)
  /\ UNCHANGED <<wvars, r, want, min>>

\* Enough was read.
ReadDone == r = "loop" /\ got >= min

ReadReturns ==
  /\ ReadDone
  /\ r' = "ok"
  /\ UNCHANGED <<wvars, socket, rbuf, out, want, min, got>>

\* The socket returns 0 bytes: UnexpectedEof.
ReadEof ==
  /\ r = "loop" /\ got < min /\ rbuf = <<>> /\ socket = <<>> /\ closed
  /\ r' = "eof"
  /\ UNCHANGED <<wvars, socket, rbuf, out, want, min, got>>

-----------------------------------------------------------------------------
WriteStep == WriteLoop \/ FlushWrite \/ Flushed \/ DirectWrite
ReadStep == ReadBuffered \/ ReadSocket \/ ReadReturns \/ ReadEof

Next ==
  \/ \E n \in 0..MaxChunk : WriteCall(n)
  \/ WriteStep \/ FlushCall \/ WriteErr \/ Shut
  \/ \E n, m \in 0..MaxChunk : ReadCall(n, m)
  \/ ReadStep

Spec == Init /\ [][Next]_vars

\* Both coroutines are run.  Among their calls the writer's caller flushes now and
\* then, as the transports do when their queue is empty, and the reader's caller
\* asks for the next byte.
Fairness ==
  /\ WF_vars(WriteStep) /\ SF_vars(FlushCall)
  /\ WF_vars(ReadStep) /\ SF_vars(ReadCall(1, 1))

FairSpec == Spec /\ Fairness

-----------------------------------------------------------------------------
(***************************************************************************)
(* Properties.                                                              *)
(***************************************************************************)
\* As long as no write failed, the bytes given to the readers, in the buffers on both
\* sides, in the socket and in the hands of write_all are exactly the bytes handed
\* over, in order: the buffers lose, repeat and reorder nothing, however the socket
\* cuts the stream into pieces.
Conserved ==
  ~werr => out \o rbuf \o socket \o After(wbuf, foff) \o arg = Upto(next)

\* Whatever fails, no byte is skipped: a byte that reaches the reading side follows the
\* one before it, or is a byte that a flush after a failed one sends once more (the
\* position stays when flush fails).
NoneSkipped ==
  LET arrived == out \o rbuf \o socket
  IN \A i \in DOMAIN arrived :
       arrived[i] \in 1..Least(next, IF i = 1 THEN 1 ELSE arrived[i - 1] + 1)

\* Everything handed over reaches the reader unless a write fails, through buffers and a
\* socket that fill up.
AllArrives ==
  \A n \in Bytes : (next >= n) ~> (Len(out) >= n \/ werr)

=============================================================================
