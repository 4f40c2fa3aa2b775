----------------------------- MODULE BufIO_proofs -----------------------------
(***************************************************************************)
(* Proofs about BufIO.tla, for any buffer sizes, socket capacity and        *)
(* lengths: the bytes arrive in order, without one lost or repeated while   *)
(* no write fails, and without one skipped whatever fails.                  *)
(***************************************************************************)
EXTENDS BufIO, SequenceTheorems, TLAPS

\* Bytes are numbered in the order they are handed over.
Byte == Nat

\* What has left the writing end, in order.
Arrived == out \o rbuf \o socket

\* s holds the bytes b + 1, b + 2, ...
Run(s, b) == \A i \in 1..Len(s) : s[i] = b + i

\* The last byte that has arrived.
Top == IF Arrived = <<>> THEN 0 ELSE Arrived[Len(Arrived)]

\* Each byte follows the one before it, or is one sent before.
Climbs(s) ==
  \A i \in 1..Len(s) : 1 <= s[i] /\ s[i] <= next /\ s[i] <= IF i = 1 THEN 1 ELSE s[i - 1] + 1

BufType ==
  /\ next \in Nat /\ {arg, wbuf, socket, rbuf, out} \subseteq Seq(Byte)
  /\ foff \in 0..Len(wbuf)
  /\ w \in {"idle", "loop", "flush", "direct"} /\ ret \in {"idle", "direct", "copy"}
  /\ werr \in BOOLEAN /\ {want, min, got} \subseteq Nat
  /\ r = "loop" => min <= want

\* Where the writer is when no write has failed: the buffer, of which flush has written
\* foff bytes, and the argument follow what has arrived.
Unbroken ==
  /\ Run(Arrived, 0) /\ Run(wbuf, Len(Arrived) - foff)
  /\ Run(arg, Len(Arrived) + Len(wbuf) - foff)
  /\ next = Len(Arrived) + Len(wbuf) - foff + Len(arg)
  /\ foff <= Len(Arrived) /\ (w # "flush" => foff = 0)
  /\ w = "direct" => wbuf = <<>>
  /\ w = "idle" \/ (w = "flush" /\ ret = "idle") => arg = <<>>

\* After a failed write only flush writes, from the start of the buffer, which begins no
\* later than after the last byte that has arrived.
Broken ==
  /\ arg = <<>> /\ w \in {"idle", "flush"} /\ (w = "flush" => ret = "idle")
  /\ \E b \in 0..next :
       /\ Run(wbuf, b) /\ b + Len(wbuf) <= next
       /\ wbuf # <<>> => b <= Top
       /\ w = "flush" /\ foff < Len(wbuf) => b + foff <= Top

BufInv ==
  /\ BufType /\ Climbs(Arrived)
  /\ ~werr => Unbroken
  /\ werr => Broken

-----------------------------------------------------------------------------
(***************************************************************************)
(* Slices of a sequence.                                                    *)
(***************************************************************************)
\* What SubSeq gives for the first n bytes and for the rest.
LEMMA FirstFacts ==
  ASSUME NEW s \in Seq(Byte), NEW n \in 0..Len(s)
  PROVE  /\ First(s, n) \in Seq(Byte) /\ Len(First(s, n)) = n
         /\ \A i \in 1..n : First(s, n)[i] = s[i]
<1>1. Len(s) \in Nat /\ \A i \in 1..n : s[i] \in Byte
  OBVIOUS
<1>2. /\ SubSeq(s, 1, n) \in Seq(Byte) /\ Len(SubSeq(s, 1, n)) = IF 1 <= n THEN n - 1 + 1 ELSE 0
      /\ \A i \in 1..n - 1 + 1 : SubSeq(s, 1, n)[i] = s[1 + i - 1]
  BY <1>1, SubSeqProperties
<1>3. QED  BY <1>1, <1>2 DEF First

\* What is left of a buffer after its first n bytes.
LEMMA AfterFacts ==
  ASSUME NEW s \in Seq(Byte), NEW n \in 0..Len(s)
  PROVE  /\ After(s, n) \in Seq(Byte) /\ Len(After(s, n)) = Len(s) - n
         /\ \A i \in 1..Len(s) - n : After(s, n)[i] = s[n + i]
<1>1. Len(s) \in Nat /\ \A i \in n + 1..Len(s) : s[i] \in Byte
  OBVIOUS
<1>2. /\ SubSeq(s, n + 1, Len(s)) \in Seq(Byte)
      /\ Len(SubSeq(s, n + 1, Len(s))) = IF n + 1 <= Len(s) THEN Len(s) - (n + 1) + 1 ELSE 0
      /\ \A i \in 1..Len(s) - (n + 1) + 1 : SubSeq(s, n + 1, Len(s))[i] = s[n + 1 + i - 1]
  BY <1>1, SubSeqProperties
<1>3. QED  BY <1>1, <1>2 DEF After

\* Concatenation is associative.
LEMMA Associative ==
  ASSUME NEW s \in Seq(Byte), NEW t \in Seq(Byte), NEW u \in Seq(Byte)
  PROVE  (s \o t) \o u = s \o (t \o u)
BY SMTT(30), ConcatAssociative

\* A buffer is its first n bytes followed by the rest.
LEMMA Rejoined ==
  ASSUME NEW s \in Seq(Byte), NEW n \in 0..Len(s)
  PROVE  First(s, n) \o After(s, n) = s
<1>1. 1 \in 1..Len(s) + 1 /\ n \in 1 - 1..Len(s) /\ Len(s) \in n..Len(s)
  OBVIOUS
<1>2. SubSeq(s, 1, n) \o SubSeq(s, n + 1, Len(s)) = SubSeq(s, 1, Len(s))
  BY Zenon, <1>1, ConcatAdjacentSubSeq
<1>3. QED  BY Zenon, <1>2, SubSeqFull DEF First, After

\* Moving the first n bytes from the head of one sequence to the end of another.
LEMMA MovedOn ==
  ASSUME NEW s \in Seq(Byte), NEW t \in Seq(Byte), NEW n \in 0..Len(t)
  PROVE  (s \o First(t, n)) \o After(t, n) = s \o t
<1>1. PICK f \in Seq(Byte), a \in Seq(Byte) : f = First(t, n) /\ a = After(t, n)
  BY Zenon, FirstFacts, AfterFacts
<1>2. f \o a = t
  BY Zenon, <1>1, Rejoined
<1>3. (s \o f) \o a = s \o (f \o a)
  BY SMTT(30), Associative
<1>4. QED  BY Zenon, <1>1, <1>2, <1>3

\* The first k bytes of the first n.
LEMMA FirstOfFirst ==
  ASSUME NEW s \in Seq(Byte), NEW n \in 0..Len(s), NEW k \in 0..n
  PROVE  First(First(s, n), k) = First(s, k)
<1>1. First(s, n) \in Seq(Byte) /\ Len(First(s, n)) = n /\ \A i \in 1..n : First(s, n)[i] = s[i]
  BY Zenon, FirstFacts
<1>2. k \in 0..Len(First(s, n)) /\ k \in 0..Len(s)
  BY <1>1
<1>3. /\ First(First(s, n), k) \in Seq(Byte) /\ Len(First(First(s, n), k)) = k
      /\ \A i \in 1..k : First(First(s, n), k)[i] = First(s, n)[i]
  BY Zenon, <1>1, <1>2, FirstFacts
<1>4. First(s, k) \in Seq(Byte) /\ Len(First(s, k)) = k /\ \A i \in 1..k : First(s, k)[i] = s[i]
  BY Zenon, <1>2, FirstFacts
<1>5. QED  BY <1>1, <1>3, <1>4, SeqEqual

-----------------------------------------------------------------------------
(***************************************************************************)
(* What a step does to the bytes that have arrived.                         *)
(***************************************************************************)
LEMMA ArrivedType ==
  ASSUME BufType
  PROVE  /\ Arrived \in Seq(Byte) /\ Len(Arrived) \in Nat
         /\ \A i \in 1..Len(Arrived) : Arrived[i] \in Nat
<1>1. out \in Seq(Byte) /\ rbuf \in Seq(Byte) /\ socket \in Seq(Byte)
  BY Zenon DEF BufType
<1>2. out \o rbuf \in Seq(Byte)
  BY Zenon, <1>1, ConcatProperties
<1>3. Arrived \in Seq(Byte)
  BY Zenon, <1>1, <1>2, ConcatProperties DEF Arrived
<1>4. QED  BY <1>3 DEF Byte

\* The reading end moves bytes on and changes none.
LEMMA ReadKeeps ==
  ASSUME BufType, ReadStep
  PROVE  Arrived' = Arrived
<1>0. out \in Seq(Byte) /\ rbuf \in Seq(Byte) /\ socket \in Seq(Byte) /\ <<>> \in Seq(Byte)
  BY DEF BufType
<1>1. CASE ReadBuffered
  <2> DEFINE n == Least(want - got, Len(rbuf))
  <2>1. n \in 0..Len(rbuf)
    BY <1>0, <1>1 DEF ReadBuffered, BufType, Least
  <2>2. out' = out \o First(rbuf, n) /\ rbuf' = After(rbuf, n) /\ socket' = socket
    BY Zenon, <1>1 DEF ReadBuffered, Give
  <2>3. (out \o First(rbuf, n)) \o After(rbuf, n) = out \o rbuf
    BY Zenon, <1>0, <2>1, MovedOn
  <2>4. QED  BY Zenon, <2>2, <2>3 DEF Arrived
<1>2. CASE ReadSocket
  <2>1. PICK n \in 1..Len(socket) :
          /\ \/ want - got >= RCap /\ n <= want - got /\ Give(First(socket, n)) /\ UNCHANGED rbuf
             \/ want - got < RCap /\ n <= RCap /\ Fill(n)
          /\ socket' = After(socket, n)
    BY Zenon, <1>2 DEF ReadSocket
  <2>2. n \in 0..Len(socket) /\ rbuf = <<>>
    BY <1>2 DEF ReadSocket
  <2>3. First(socket, n) \in Seq(Byte) /\ Len(First(socket, n)) = n /\ After(socket, n) \in Seq(Byte)
    BY Zenon, <1>0, <2>2, FirstFacts, AfterFacts
  <2>4. out' \o rbuf' = out \o First(socket, n)
    <3>1. CASE Give(First(socket, n)) /\ UNCHANGED rbuf
      <4>1. out \o First(socket, n) \in Seq(Byte)
        BY Zenon, <1>0, <2>3, ConcatProperties
      <4>2. QED  BY Zenon, <2>2, <3>1, <4>1, ConcatEmptySeq DEF Give
    <3>2. CASE Fill(n) /\ want - got < RCap
      <4> DEFINE k == Least(want - got, n)
      <4>1. k \in 0..n
        BY <1>2, <2>2 DEF ReadSocket, BufType, Least
      <4>2. out' = out \o First(socket, k) /\ rbuf' = After(First(socket, n), k)
        BY Zenon, <3>2 DEF Fill, Give
      <4>3. First(socket, k) = First(First(socket, n), k)
        BY Zenon, <1>0, <2>2, <4>1, FirstOfFirst
      <4>4. k \in 0..Len(First(socket, n))
        BY Zenon, <2>3, <4>1
      <4>5. (out \o First(First(socket, n), k)) \o After(First(socket, n), k) = out \o First(socket, n)
        BY Zenon, <1>0, <2>3, <4>4, MovedOn
      <4>6. QED  BY Zenon, <4>2, <4>3, <4>5
    <3>3. QED  BY Zenon, <2>1, <3>1, <3>2
  <2>5. (out \o First(socket, n)) \o After(socket, n) = out \o socket
    BY Zenon, <1>0, <2>2, MovedOn
  <2>6. out \o rbuf = out
    BY Zenon, <1>0, <2>2, ConcatEmptySeq
  <2>7. QED  BY Zenon, <2>1, <2>4, <2>5, <2>6 DEF Arrived
<1>3. CASE ReadReturns \/ ReadEof
  BY Zenon, <1>3 DEF ReadReturns, ReadEof, Arrived
<1>4. QED  BY Zenon, <1>1, <1>2, <1>3 DEF ReadStep

\* The socket takes the first n bytes of what is written.
LEMMA SocketTakes ==
  ASSUME BufType, NEW s \in Seq(Byte), NEW n, Socket(s, n), UNCHANGED <<out, rbuf>>
  PROVE  /\ n \in 1..Len(s) /\ Arrived' = Arrived \o First(s, n) /\ socket' \in Seq(Byte)
<1>1. out \in Seq(Byte) /\ rbuf \in Seq(Byte) /\ socket \in Seq(Byte) /\ out \o rbuf \in Seq(Byte)
  BY Zenon, ConcatProperties DEF BufType
<1>2. n \in 1..Len(s) /\ socket' = socket \o First(s, n)
  BY <1>1, BufAssumption DEF Socket, Least
<1>3. First(s, n) \in Seq(Byte)
  BY <1>2, FirstFacts
<1>4. (out \o rbuf) \o (socket \o First(s, n)) = ((out \o rbuf) \o socket) \o First(s, n)
  <2>1. out \o rbuf \in Seq(Byte) /\ socket \in Seq(Byte)
    BY Zenon, <1>1
  <2>2. QED  BY Zenon, <1>3, <2>1, Associative
<1>5. QED  BY Zenon, <1>1, <1>2, <1>3, <1>4, ConcatProperties DEF Arrived

-----------------------------------------------------------------------------
(***************************************************************************)
(* Runs of bytes.                                                           *)
(***************************************************************************)
LEMMA RunConcat ==
  ASSUME NEW s \in Seq(Byte), NEW t \in Seq(Byte), NEW b \in Int, Run(s, b), Run(t, b + Len(s))
  PROVE  Run(s \o t, b)
<1>1. Len(s) \in Nat /\ Len(t) \in Nat /\ Len(s \o t) = Len(s) + Len(t)
  BY ConcatProperties
<1>2. \A i \in 1..Len(s) + Len(t) : (s \o t)[i] = IF i <= Len(s) THEN s[i] ELSE t[i - Len(s)]
  BY Zenon, ConcatProperties
<1>3. ASSUME NEW i \in 1..Len(s) + Len(t) PROVE (s \o t)[i] = b + i
  <2>1. CASE i <= Len(s)
    BY <1>1, <1>2, <2>1 DEF Run
  <2>2. CASE i > Len(s)
    <3>1. i - Len(s) \in 1..Len(t)
      BY <1>1, <2>2
    <3>2. t[i - Len(s)] = b + Len(s) + (i - Len(s))
      BY Zenon, <3>1 DEF Run
    <3>3. QED  BY <1>1, <1>2, <2>2, <3>2
  <2>3. QED  BY <1>1, <2>1, <2>2
<1>4. QED  BY Zenon, <1>1, <1>3 DEF Run

\* The first bytes of a run of consecutive bytes are a run.
LEMMA RunFirst ==
  ASSUME NEW s \in Seq(Byte), NEW b \in Int, Run(s, b), NEW n \in 0..Len(s)
  PROVE  Run(First(s, n), b)
BY FirstFacts DEF Run

\* The rest of a run of consecutive bytes is a run.
LEMMA RunAfter ==
  ASSUME NEW s \in Seq(Byte), NEW b \in Int, Run(s, b), NEW n \in 0..Len(s)
  PROVE  Run(After(s, n), b + n)
<1>1. Len(s) \in Nat /\ Len(After(s, n)) = Len(s) - n
  BY AfterFacts
<1>2. ASSUME NEW i \in 1..Len(s) - n PROVE After(s, n)[i] = b + n + i
  <2>1. n + i \in 1..Len(s) /\ After(s, n)[i] = s[n + i]
    BY <1>1, AfterFacts
  <2>2. s[n + i] = b + (n + i)
    BY Zenon, <2>1 DEF Run
  <2>3. QED  BY <2>1, <2>2
<1>3. QED  BY Zenon, <1>1, <1>2 DEF Run

\* The bytes handed over are a run.
LEMMA UptoFacts ==
  ASSUME NEW n \in Nat
  PROVE  Upto(n) \in Seq(Byte) /\ Len(Upto(n)) = n /\ Run(Upto(n), 0)
BY DEF Upto, Byte, Run

\* The bytes that have arrived climb as long as they are a run, and when a run that starts
\* no later than after the last of them is added.
LEMMA ClimbsRun ==
  ASSUME BufType', Run(Arrived', 0), Len(Arrived') <= next'
  PROVE  Climbs(Arrived)'
<1>1. Len(Arrived') \in Nat /\ next' \in Nat
  <2>1. out' \in Seq(Byte) /\ rbuf' \in Seq(Byte) /\ socket' \in Seq(Byte) /\ next' \in Nat
    BY Zenon DEF BufType
  <2>2. out' \o rbuf' \in Seq(Byte)
    BY Zenon, <2>1, ConcatProperties
  <2>3. Arrived' \in Seq(Byte)
    BY Zenon, <2>1, <2>2, ConcatProperties DEF Arrived
  <2>4. QED  BY <2>1, <2>3
<1>2. ASSUME NEW i \in 1..Len(Arrived')
      PROVE  1 <= Arrived'[i] /\ Arrived'[i] <= next'
             /\ Arrived'[i] <= IF i = 1 THEN 1 ELSE Arrived'[i - 1] + 1
  <2>1. Arrived'[i] = i
    BY <1>1 DEF Run
  <2>2. i # 1 => Arrived'[i - 1] = i - 1
    <3>1. i # 1 => i - 1 \in 1..Len(Arrived')
      BY <1>1
    <3>2. QED  BY <1>1, <3>1 DEF Run
  <2>3. QED  BY <1>1, <2>1, <2>2
<1>3. QED  BY Zenon, <1>2 DEF Climbs

\* A run that starts no later than one past the last byte keeps Climbs when it arrives.
LEMMA ClimbsAdd ==
  ASSUME BufType, Climbs(Arrived), UNCHANGED next,
         NEW s \in Seq(Byte), s # <<>>, NEW b \in Nat, Run(s, b), b <= Top, b + Len(s) <= next,
         Arrived' = Arrived \o s
  PROVE  /\ Climbs(Arrived)' /\ Top' = b + Len(s) /\ Len(Arrived') = Len(Arrived) + Len(s)
         /\ Arrived' # <<>>
<1> DEFINE a == Len(Arrived)
<1>1. a \in Nat /\ Len(s) \in Nat \ {0} /\ next \in Nat /\ Arrived \in Seq(Byte)
  BY ArrivedType DEF BufType
<1>2. Len(Arrived') = a + Len(s)
  BY Zenon, <1>1, ConcatProperties
<1>3. \A i \in 1..a + Len(s) : Arrived'[i] = IF i <= a THEN Arrived[i] ELSE s[i - a]
  BY Zenon, <1>1, ConcatProperties
<1>4. \A i \in 1..a : Arrived'[i] = Arrived[i]
  BY <1>1, <1>3
<1>5. \A i \in a + 1..a + Len(s) : Arrived'[i] = b + (i - a)
  <2>1. ASSUME NEW i \in a + 1..a + Len(s) PROVE Arrived'[i] = b + (i - a)
    <3>1. i - a \in 1..Len(s) /\ Arrived'[i] = s[i - a]
      BY <1>1, <1>3
    <3>2. QED  BY Zenon, <3>1 DEF Run
  <2>2. QED  BY Zenon, <2>1
<1>6. Arrived' # <<>> /\ Top' = b + Len(s)
  <2>1. Arrived' # <<>>
    BY <1>1, <1>2
  <2>2. a + Len(s) \in a + 1..a + Len(s)
    BY <1>1
  <2>3. Arrived'[a + Len(s)] = b + ((a + Len(s)) - a)
    BY Zenon, <1>5, <2>2
  <2>4. QED  BY <1>1, <1>2, <2>1, <2>3 DEF Top
<1>7. a > 0 => Top = Arrived[a]
  BY <1>1 DEF Top
<1>8. a = 0 => Top = 0
  BY <1>1 DEF Top
<1>9. \A i \in 1..a + Len(s) :
        1 <= Arrived'[i] /\ Arrived'[i] <= next /\ Arrived'[i] <= IF i = 1 THEN 1 ELSE Arrived'[i - 1] + 1
  <2>1. ASSUME NEW i \in 1..a
        PROVE  1 <= Arrived'[i] /\ Arrived'[i] <= next /\ Arrived'[i] <= IF i = 1 THEN 1 ELSE Arrived'[i - 1] + 1
    <3>1. i = 1 \/ i - 1 \in 1..a
      BY <1>1
    <3>2. QED  BY Zenon, <1>4, <3>1 DEF Climbs
  <2>2. ASSUME NEW i \in a + 1..a + Len(s)
        PROVE  1 <= Arrived'[i] /\ Arrived'[i] <= next /\ Arrived'[i] <= IF i = 1 THEN 1 ELSE Arrived'[i - 1] + 1
    <3>1. Arrived'[i] = b + (i - a)
      BY Zenon, <1>5
    <3>2. CASE i > a + 1
      <4>1. i - 1 \in a + 1..a + Len(s)
        BY <1>1, <3>2
      <4>2. Arrived'[i - 1] = b + ((i - 1) - a)
        BY Zenon, <1>5, <4>1
      <4>3. QED  BY SMTT(30), <1>1, <3>1, <3>2, <4>2
    <3>3. CASE i = a + 1 /\ a > 0
      <4>1. Arrived'[i - 1] = Top /\ Top \in Nat
        BY <1>1, <1>4, <1>7, <3>3, ArrivedType
      <4>2. QED  BY <1>1, <3>1, <3>3, <4>1
    <3>4. CASE i = a + 1 /\ a = 0
      BY <1>1, <1>8, <3>1, <3>4
    <3>5. QED  BY <1>1, <3>2, <3>3, <3>4
  <2>3. \A i \in 1..a + Len(s) : i \in 1..a \/ i \in a + 1..a + Len(s)
    BY <1>1
  <2>4. QED  BY Zenon, <2>1, <2>2, <2>3
<1>10. QED  BY Zenon, <1>2, <1>6, <1>9 DEF Climbs

-----------------------------------------------------------------------------
(***************************************************************************)
(* The steps.                                                               *)
(***************************************************************************)
LEMMA ReadInv ==
  ASSUME BufInv, ReadStep \/ \E n, m \in 0..MaxChunk : ReadCall(n, m)
  PROVE  BufInv'
<1>0. BufType /\ MaxChunk \in Nat
  BY Zenon, BufAssumption DEF BufInv
<1>1. Arrived' = Arrived
  BY Zenon, <1>0, ReadKeeps DEF ReadCall, Arrived
<1>2. UNCHANGED wvars
  BY Zenon DEF ReadStep, ReadBuffered, ReadSocket, ReadReturns, ReadEof, ReadCall
<1>3. BufType'
  <2>1. CASE ReadBuffered
    <3>1. PICK n \in 0..Len(rbuf) : Give(First(rbuf, n)) /\ rbuf' = After(rbuf, n)
      BY <1>0, <2>1 DEF ReadBuffered, Least, BufType
    <3>2. PICK f \in Seq(Byte), a \in Seq(Byte) : f = First(rbuf, n) /\ a = After(rbuf, n)
      BY Zenon, <1>0, FirstFacts, AfterFacts DEF BufType
    <3>3. out' \in Seq(Byte) /\ rbuf' \in Seq(Byte) /\ got' \in Nat
      BY SMTT(30), <1>0, <3>1, <3>2, ConcatProperties DEF Give, BufType
    <3>4. QED  BY Zenon, <1>0, <1>2, <2>1, <3>3 DEF BufType, wvars, ReadBuffered
  <2>2. CASE ReadSocket
    <3>1. PICK n \in 1..Len(socket) :
            /\ \/ Give(First(socket, n)) /\ UNCHANGED rbuf
               \/ Fill(n)
            /\ socket' = After(socket, n)
      BY Zenon, <2>2 DEF ReadSocket
    <3>2. PICK f \in Seq(Byte), a \in Seq(Byte) :
            f = First(socket, n) /\ Len(f) = n /\ a = After(socket, n)
      BY <1>0, FirstFacts, AfterFacts DEF BufType
    <3>3. CASE Give(First(socket, n)) /\ UNCHANGED rbuf
      <4>1. out' \in Seq(Byte) /\ got' \in Nat
        BY SMTT(30), <1>0, <3>2, <3>3, ConcatProperties DEF Give, BufType
      <4>2. QED  BY Zenon, <1>0, <1>2, <2>2, <3>1, <3>2, <3>3, <4>1 DEF BufType, wvars, ReadSocket
    <3>4. CASE Fill(n)
      <4>1. PICK k \in 0..n : k = Least(want - got, n)
        BY SMTT(30), <1>0, <2>2 DEF ReadSocket, BufType, Least
      <4>2. PICK g \in Seq(Byte) : g = First(socket, k)
        BY SMTT(30), <1>0, <4>1, FirstFacts DEF BufType
      <4>3. After(First(socket, n), k) \in Seq(Byte)
        BY Zenon, <3>2, <4>1, AfterFacts
      <4>4. out' \in Seq(Byte) /\ rbuf' \in Seq(Byte) /\ got' \in Nat
        <5>1. out' = out \o g /\ got' = got + Len(g) /\ rbuf' = After(First(socket, n), k)
          BY Zenon, <3>4, <4>1, <4>2 DEF Fill, Give
        <5>2. out \in Seq(Byte) /\ got \in Nat /\ Len(g) \in Nat
          BY <1>0 DEF BufType
        <5>3. out \o g \in Seq(Byte)
          BY Zenon, <5>2, ConcatProperties
        <5>4. QED  BY <4>3, <5>1, <5>2, <5>3
      <4>5. QED  BY Zenon, <1>0, <1>2, <2>2, <3>1, <3>2, <4>4 DEF BufType, wvars, ReadSocket
    <3>5. QED  BY Zenon, <3>1, <3>3, <3>4
  <2>3. CASE ReadReturns \/ ReadEof
    BY Zenon, <1>0, <1>2, <2>3 DEF BufType, wvars, ReadReturns, ReadEof
  <2>4. CASE \E n, m \in 0..MaxChunk : ReadCall(n, m)
    BY <1>0, <1>2, <2>4 DEF BufType, wvars, ReadCall
  <2>5. QED  BY Zenon, <2>1, <2>2, <2>3, <2>4 DEF ReadStep
<1>4. QED  BY Zenon, <1>1, <1>2, <1>3 DEF BufInv, Climbs, Unbroken, Broken, Top, Run, wvars

\* The writer's steps that put nothing into the socket.
LEMMA WriteCallInv ==
  ASSUME BufInv, NEW n \in 0..MaxChunk, WriteCall(n)
  PROVE  BufInv'
<1>0. /\ BufType /\ Unbroken /\ ~werr /\ w = "idle" /\ arg = <<>> /\ foff = 0
      /\ n \in Nat /\ next \in Nat
  BY BufAssumption DEF BufInv, WriteCall, Unbroken, BufType
<1>1. Arrived' = Arrived /\ UNCHANGED <<wbuf, foff, werr, socket, rvars>> /\ w' = "loop"
  BY Zenon DEF WriteCall, Arrived, rvars
<1>2. Upto(next + n) \in Seq(Byte) /\ Len(Upto(next + n)) = next + n /\ Run(Upto(next + n), 0)
  BY <1>0, UptoFacts
<1>3. arg' \in Seq(Byte) /\ Len(arg') = n /\ Run(arg', next) /\ next' = next + n
  <2>1. next \in 0..Len(Upto(next + n)) /\ 0 \in Int
    BY <1>0, <1>2
  <2>2. /\ Run(After(Upto(next + n), next), 0 + next)
        /\ After(Upto(next + n), next) \in Seq(Byte)
        /\ Len(After(Upto(next + n), next)) = next + n - next
    BY SMTT(30), <1>2, <2>1, RunAfter, AfterFacts
  <2>3. QED  BY <1>0, <2>2 DEF WriteCall
<1>4. BufType'
  BY <1>0, <1>1, <1>3 DEF WriteCall, BufType, rvars
<1>5. Len(Arrived) \in Nat /\ Len(wbuf) \in Nat
  BY <1>0, ArrivedType DEF BufType
<1>6. next = Len(Arrived) + Len(wbuf)
  BY <1>0, <1>5 DEF Unbroken
<1>7. Unbroken'
  BY <1>0, <1>1, <1>3, <1>5, <1>6 DEF Unbroken
<1>8. Climbs(Arrived)'
  BY <1>0, <1>1, <1>3, ArrivedType DEF Climbs, BufInv
<1>9. QED  BY Zenon, <1>0, <1>1, <1>4, <1>7, <1>8 DEF BufInv

\* The loop of a write that buffers and flushes keeps BufInv.
LEMMA WriteLoopInv ==
  ASSUME BufInv, WriteLoop
  PROVE  BufInv'
<1>0. /\ BufType /\ Unbroken /\ ~werr /\ w = "loop" /\ foff = 0 /\ Climbs(Arrived)
      /\ wbuf \in Seq(Byte) /\ arg \in Seq(Byte)
  BY Zenon DEF BufInv, WriteLoop, Unbroken, Broken, BufType
<1>1. Arrived' = Arrived /\ UNCHANGED <<next, werr, socket, rvars>> /\ ~werr'
  BY Zenon, <1>0 DEF WriteLoop, Arrived, rvars
<1>2. Climbs(Arrived)'
  BY Zenon, <1>0, <1>1 DEF Climbs
<1>3. Len(Arrived) \in Nat /\ Len(wbuf) \in Nat /\ Len(arg) \in Nat /\ WCap \in Nat \ {0}
  BY <1>0, ArrivedType, BufAssumption
<1>4. BufType' /\ Unbroken'
  <2>1. CASE arg = <<>> /\ w' = "idle" /\ UNCHANGED <<arg, wbuf, foff, ret>>
    BY Zenon, <1>0, <1>1, <2>1 DEF BufType, Unbroken, rvars
  <2>2. ASSUME NEW then \in {"direct", "copy"}, StartFlush(then), UNCHANGED <<arg, wbuf>>,
               then = "copy" => wbuf # <<>>
        PROVE  BufType' /\ Unbroken'
    <3>1. foff' = 0
      BY Zenon, <1>0, <2>2 DEF StartFlush
    <3>2. /\ w' \in {"flush", "direct"} /\ (w' = "direct" => wbuf = <<>>)
          /\ ret' \in {"idle", "direct", "copy"} /\ (w' = "flush" => ret' # "idle")
      BY Zenon, <1>0, <2>2 DEF StartFlush, BufType
    <3>3. BufType'
      BY Zenon, <1>0, <1>1, <1>3, <2>2, <3>1, <3>2 DEF BufType, rvars
    <3>4. QED  BY Zenon, <1>0, <1>1, <2>2, <3>1, <3>2, <3>3 DEF Unbroken
  <2>3. CASE Copy /\ UNCHANGED <<foff, ret>>
    <3>1. wbuf' \in Seq(Byte) /\ Len(wbuf') = Len(wbuf) + Len(arg) /\ arg' = <<>> /\ w' = "idle"
      BY Zenon, <1>0, <2>3, ConcatProperties DEF Copy
    <3>2. Run(wbuf', Len(Arrived))
      BY <1>0, <1>3, <2>3, RunConcat DEF Copy, Unbroken
    <3>3. BufType'
      BY <1>0, <1>1, <1>3, <2>3, <3>1 DEF BufType, rvars
    <3>4. QED  BY <1>0, <1>1, <1>3, <2>3, <3>1, <3>2, <3>3 DEF Unbroken, Run
  <2>4. Len(arg) < WCap /\ ~Fits(Len(arg)) => wbuf # <<>>
    BY <1>3 DEF Fits
  <2>5. QED  BY Zenon, <2>1, <2>2, <2>3, <2>4 DEF WriteLoop
<1>5. QED  BY Zenon, <1>1, <1>2, <1>4 DEF BufInv

\* The steps that put bytes into the socket.
LEMMA FlushWriteInv ==
  ASSUME BufInv, FlushWrite
  PROVE  BufInv'
<1> DEFINE t == After(wbuf, foff)
<1>0. /\ BufType /\ Climbs(Arrived) /\ w = "flush" /\ wbuf \in Seq(Byte) /\ foff \in 0..Len(wbuf)
      /\ foff < Len(wbuf) /\ Len(wbuf) \in Nat /\ next \in Nat
  BY DEF BufInv, FlushWrite, BufType
<1>1. PICK n : Socket(t, n) /\ foff' = foff + n
  BY Zenon DEF FlushWrite
<1>2. UNCHANGED <<next, arg, wbuf, w, ret, werr, rvars>>
  BY Zenon DEF FlushWrite
<1>3. t \in Seq(Byte) /\ Len(t) = Len(wbuf) - foff
  BY Zenon, <1>0, AfterFacts
<1>4. n \in 1..Len(t) /\ Arrived' = Arrived \o First(t, n) /\ socket' \in Seq(Byte)
  BY Zenon, <1>0, <1>1, <1>2, <1>3, SocketTakes DEF rvars
<1>5. PICK f \in Seq(Byte) : f = First(t, n) /\ Len(f) = n
  BY <1>3, <1>4, FirstFacts
<1>6. f # <<>> /\ n \in Nat /\ foff + n <= Len(wbuf)
  BY <1>0, <1>3, <1>4, <1>5
<1>7. BufType'
  BY <1>0, <1>1, <1>2, <1>4, <1>6 DEF BufType, rvars
<1>8. ASSUME NEW b \in Int, Run(wbuf, b) PROVE Run(f, b + foff)
  BY <1>0, <1>3, <1>4, <1>5, <1>8, RunAfter, RunFirst
<1>9. Len(Arrived) \in Nat /\ Arrived \in Seq(Byte) /\ Len(Arrived') = Len(Arrived) + n
  BY Zenon, <1>0, <1>4, <1>5, ArrivedType, ConcatProperties
<1>10. CASE ~werr
  <2>1. Unbroken /\ Len(arg) \in Nat
    BY <1>0, <1>10 DEF BufInv, BufType
  <2>2. Run(f, Len(Arrived))
    <3>1. Len(Arrived) - foff \in Int /\ Run(wbuf, Len(Arrived) - foff)
      BY <1>0, <1>9, <2>1 DEF Unbroken
    <3>2. Len(Arrived) - foff + foff = Len(Arrived)
      BY <1>0, <1>9
    <3>3. QED  BY Zenon, <1>8, <3>1, <3>2
  <2>3. Run(Arrived', 0)
    BY <1>4, <1>5, <1>9, <2>1, <2>2, RunConcat DEF Unbroken
  <2>4. /\ Len(Arrived') - foff' = Len(Arrived) - foff
        /\ Len(Arrived') + Len(wbuf) - foff' = Len(Arrived) + Len(wbuf) - foff
        /\ Len(Arrived') + Len(wbuf) - foff' + Len(arg) = Len(Arrived) + Len(wbuf) - foff + Len(arg)
        /\ (foff <= Len(Arrived) => foff' <= Len(Arrived'))
    BY <1>0, <1>1, <1>6, <1>9, <2>1
  <2>5. Unbroken'
    BY Zenon, <1>0, <1>2, <2>1, <2>3, <2>4 DEF Unbroken
  <2>6. Len(Arrived') <= next
    BY SMTT(30), <1>0, <1>1, <1>6, <1>9, <2>1, <2>4 DEF Unbroken
  <2>7. Climbs(Arrived)'
    <3>1. next' = next
      BY Zenon, <1>2
    <3>2. QED  BY Zenon, <1>7, <2>3, <2>6, <3>1, ClimbsRun
  <2>8. QED  BY Zenon, <1>2, <1>7, <1>10, <2>5, <2>7 DEF BufInv
<1>11. CASE werr
  <2>1. PICK b \in 0..next : /\ Run(wbuf, b) /\ b + Len(wbuf) <= next
                             /\ wbuf # <<>> => b <= Top
                             /\ w = "flush" /\ foff < Len(wbuf) => b + foff <= Top
    BY Zenon, <1>11 DEF BufInv, Broken
  <2>2. b + foff \in Nat /\ b \in Int /\ b + foff <= Top /\ b + foff + Len(f) <= next
    BY <1>0, <1>5, <1>6, <2>1
  <2>3. Climbs(Arrived)' /\ Top' = b + foff + n
    BY Zenon, <1>0, <1>2, <1>4, <1>5, <1>6, <1>8, <2>1, <2>2, ClimbsAdd
  <2>4. Broken'
    <3>1. b <= Top' /\ b + foff' <= Top'
      BY <1>0, <1>1, <1>6, <2>2, <2>3
    <3>2. arg = <<>> /\ ret = "idle"
      BY Zenon, <1>0, <1>11 DEF BufInv, Broken
    <3>3. QED  BY Zenon, <1>0, <1>2, <2>1, <3>1, <3>2 DEF Broken
  <2>5. QED  BY Zenon, <1>2, <1>7, <1>11, <2>3, <2>4 DEF BufInv
<1>12. QED  BY Zenon, <1>10, <1>11

\* A write that bypasses the empty buffer keeps BufInv.
LEMMA DirectWriteInv ==
  ASSUME BufInv, DirectWrite
  PROVE  BufInv'
<1>0. /\ BufType /\ Unbroken /\ ~werr /\ w = "direct" /\ wbuf = <<>> /\ foff = 0
      /\ arg \in Seq(Byte) /\ Len(arg) \in Nat /\ next \in Nat /\ Len(wbuf) = 0
  BY DEF BufInv, DirectWrite, Unbroken, Broken, BufType
<1>1. PICK n : Socket(arg, n) /\ arg' = After(arg, n)
  BY Zenon DEF DirectWrite
<1>2. UNCHANGED <<next, wbuf, foff, ret, werr, rvars>> /\ w' = "loop"
  BY Zenon DEF DirectWrite
<1>3. n \in 1..Len(arg) /\ Arrived' = Arrived \o First(arg, n) /\ socket' \in Seq(Byte)
  BY Zenon, <1>0, <1>1, <1>2, SocketTakes DEF rvars
<1>4. PICK f \in Seq(Byte) : f = First(arg, n) /\ Len(f) = n
  BY <1>0, <1>3, FirstFacts
<1>5. arg' \in Seq(Byte) /\ Len(arg') = Len(arg) - n /\ n \in Nat
  BY <1>0, <1>1, <1>3, AfterFacts
<1>6. Len(Arrived) \in Nat /\ Arrived \in Seq(Byte) /\ Len(Arrived') = Len(Arrived) + n
  BY Zenon, <1>0, <1>3, <1>4, ArrivedType, ConcatProperties
<1>7. BufType'
  BY Zenon, <1>0, <1>2, <1>3, <1>5 DEF BufType, rvars
<1>8. Run(arg, Len(Arrived)) /\ Run(Arrived, 0) /\ next = Len(Arrived) + Len(arg)
  BY <1>0, <1>6 DEF Unbroken
<1>9. Run(f, Len(Arrived)) /\ Run(arg', Len(Arrived) + n)
  BY <1>0, <1>1, <1>3, <1>4, <1>6, <1>8, RunFirst, RunAfter
<1>10. Run(Arrived', 0)
  BY <1>3, <1>4, <1>6, <1>8, <1>9, RunConcat
<1>11. Unbroken'
  <2>1. Run(wbuf', Len(Arrived') - foff')
    BY <1>0, <1>2 DEF Run
  <2>2. Len(Arrived') + Len(wbuf') - foff' = Len(Arrived) + n /\ foff' = 0
    BY <1>0, <1>2, <1>6
  <2>3. next' = Len(Arrived') + Len(wbuf') - foff' + Len(arg') /\ foff' <= Len(Arrived')
    BY <1>0, <1>2, <1>5, <1>6, <1>8, <2>2
  <2>4. QED  BY Zenon, <1>2, <1>9, <1>10, <2>1, <2>2, <2>3 DEF Unbroken
<1>12. Climbs(Arrived)'
  <2>1. Len(Arrived') <= next /\ next' = next
    BY <1>0, <1>2, <1>3, <1>6, <1>8
  <2>2. QED  BY Zenon, <1>7, <1>10, <2>1, ClimbsRun
<1>13. QED  BY Zenon, <1>0, <1>2, <1>7, <1>11, <1>12 DEF BufInv

\* The remaining steps of the writer: the end of a flush, its start, a failure.
LEMMA FlushedInv ==
  ASSUME BufInv, Flushed
  PROVE  BufInv'
<1>0. /\ BufType /\ Climbs(Arrived) /\ w = "flush" /\ foff = Len(wbuf) /\ next \in Nat
      /\ Len(Arrived) \in Nat /\ Len(wbuf) \in Nat /\ Len(arg) \in Nat
  BY ArrivedType DEF BufInv, Flushed, BufType
<1>1. /\ Arrived' = Arrived /\ wbuf' = <<>> /\ foff' = 0 /\ UNCHANGED <<next, arg, ret, werr, rvars>>
      /\ socket' = socket
  BY Zenon DEF Flushed, Arrived, rvars
<1>2. w' = (IF ret = "copy" THEN "loop" ELSE ret) /\ w' \in {"idle", "loop", "direct"}
  BY Zenon, <1>0 DEF Flushed, BufType
<1>3. BufType'
  BY <1>0, <1>1, <1>2 DEF BufType, rvars
<1>4. Climbs(Arrived)'
  BY Zenon, <1>0, <1>1 DEF Climbs
<1>5. CASE ~werr
  <2>1. Unbroken
    BY Zenon, <1>5 DEF BufInv
  <2>2. Run(wbuf', Len(Arrived') - foff')
    BY <1>1 DEF Run
  <2>3. /\ Len(Arrived') + Len(wbuf') - foff' = Len(Arrived) + Len(wbuf) - foff
        /\ foff' <= Len(Arrived')
    BY <1>0, <1>1
  <2>4. w' = "idle" => arg' = <<>>
    BY Zenon, <1>0, <1>1, <1>2, <2>1 DEF Unbroken
  <2>5. Unbroken'
    BY Zenon, <1>0, <1>1, <1>2, <2>1, <2>2, <2>3, <2>4 DEF Unbroken
  <2>6. QED  BY Zenon, <1>1, <1>3, <1>4, <1>5, <2>5 DEF BufInv
<1>6. CASE werr
  <2>1. arg = <<>> /\ ret = "idle"
    BY Zenon, <1>0, <1>6 DEF BufInv, Broken
  <2>2. Run(wbuf', 0) /\ 0 + Len(wbuf') <= next /\ 0 \in 0..next
    BY <1>0, <1>1 DEF Run
  <2>3. Broken'
    BY Zenon, <1>1, <1>2, <2>1, <2>2 DEF Broken
  <2>4. QED  BY Zenon, <1>1, <1>3, <1>4, <1>6, <2>3 DEF BufInv
<1>7. QED  BY Zenon, <1>5, <1>6

\* A call of flush keeps BufInv.
LEMMA FlushCallInv ==
  ASSUME BufInv, FlushCall
  PROVE  BufInv'
<1>0. /\ BufType /\ Climbs(Arrived) /\ w = "idle" /\ wbuf # <<>> /\ next \in Nat
      /\ Len(wbuf) \in Nat
  BY DEF BufInv, FlushCall, BufType
<1>1. /\ Arrived' = Arrived /\ w' = "flush" /\ foff' = 0 /\ ret' = "idle"
      /\ UNCHANGED <<next, arg, wbuf, werr, socket, rvars>>
  BY Zenon, <1>0 DEF FlushCall, StartFlush, Arrived, rvars
<1>2. BufType'
  BY <1>0, <1>1 DEF BufType, rvars
<1>3. Climbs(Arrived)'
  BY Zenon, <1>0, <1>1 DEF Climbs
<1>4. CASE ~werr
  <2>1. Unbroken
    BY <1>4 DEF BufInv
  <2>2. Unbroken'
    BY Zenon, <1>0, <1>1, <2>1 DEF Unbroken
  <2>3. QED  BY Zenon, <1>1, <1>2, <1>3, <1>4, <2>2 DEF BufInv
<1>5. CASE werr
  <2>1. PICK b \in 0..next : Run(wbuf, b) /\ b + Len(wbuf) <= next /\ b <= Top
    BY Zenon, <1>0, <1>5 DEF BufInv, Broken
  <2>2. Top' = Top /\ b + foff' = b
    BY <1>1, <2>1 DEF Top
  <2>3. arg = <<>>
    BY Zenon, <1>5 DEF BufInv, Broken
  <2>4. Broken'
    BY Zenon, <1>1, <2>1, <2>2, <2>3 DEF Broken
  <2>5. QED  BY Zenon, <1>1, <1>2, <1>3, <1>5, <2>4 DEF BufInv
<1>6. QED  BY <1>4, <1>5

\* A write that fails keeps BufInv.
LEMMA WriteErrInv ==
  ASSUME BufInv, WriteErr
  PROVE  BufInv'
<1>0. /\ BufType /\ Climbs(Arrived) /\ Unbroken /\ next \in Nat /\ foff \in Nat
      /\ Len(Arrived) \in Nat /\ Len(wbuf) \in Nat /\ Len(arg) \in Nat
  BY ArrivedType DEF BufInv, WriteErr, BufType
<1>1. /\ Arrived' = Arrived /\ w' = "idle" /\ arg' = <<>> /\ werr'
      /\ UNCHANGED <<next, wbuf, foff, ret, socket, rvars>>
  BY Zenon DEF WriteErr, Arrived, rvars
<1>2. BufType'
  <2>1. werr' \in BOOLEAN
    BY Zenon DEF WriteErr
  <2>2. QED  BY <1>0, <1>1, <2>1 DEF BufType, rvars
<1>3. Climbs(Arrived)'
  BY Zenon, <1>0, <1>1 DEF Climbs
<1>4. PICK b \in 0..next : Run(wbuf, b) /\ b + Len(wbuf) <= next /\ (wbuf # <<>> => b <= Top)
  <2>1. CASE wbuf = <<>>
    BY <1>0, <2>1 DEF Run
  <2>2. CASE wbuf # <<>>
    <3>1. Len(Arrived) - foff \in 0..next /\ Len(Arrived) - foff + Len(wbuf) <= next
      BY SMTT(30), <1>0, <2>2 DEF Unbroken, BufType
    <3>2. Top = Len(Arrived)
      BY <1>0 DEF Top, Unbroken, Run
    <3>3. Len(Arrived) - foff <= Top
      BY <1>0, <3>2
    <3>4. QED  BY Zenon, <1>0, <3>1, <3>3 DEF Unbroken
  <2>3. QED  BY Zenon, <2>1, <2>2
<1>5. Top' = Top
  BY Zenon, <1>1 DEF Top
<1>6. Broken'
  BY Zenon, <1>1, <1>4, <1>5 DEF Broken
<1>7. QED  BY Zenon, <1>1, <1>2, <1>3, <1>6 DEF BufInv

\* Every step keeps BufInv.
LEMMA BufStep ==
  ASSUME BufInv, [Next]_vars
  PROVE  BufInv'
<1>1. ASSUME UNCHANGED <<next, arg, wbuf, foff, w, ret, werr, socket, rvars>> PROVE BufInv'
  <2>1. Arrived' = Arrived
    BY Zenon, <1>1 DEF Arrived, rvars
  <2>2. BufType'
    BY Zenon, <1>1 DEF BufInv, BufType, rvars
  <2>3. QED  BY Zenon, <1>1, <2>1, <2>2 DEF BufInv, Climbs, Unbroken, Broken, Top, Run
<1>2. CASE Shut
  BY Zenon, <1>1, <1>2 DEF Shut
<1>3. CASE UNCHANGED vars
  BY Zenon, <1>1, <1>3 DEF vars, wvars
<1>4. QED
  BY Zenon, <1>2, <1>3, WriteCallInv, WriteLoopInv, FlushWriteInv, FlushedInv, DirectWriteInv,
     FlushCallInv, WriteErrInv, ReadInv
  DEF Next, WriteStep

-----------------------------------------------------------------------------
(***************************************************************************)
(* The theorems.                                                            *)
(***************************************************************************)
LEMMA BufAlways == Spec => []BufInv
<1>1. Init => BufInv
  <2> SUFFICES ASSUME Init PROVE BufInv
    OBVIOUS
  <2>1. <<>> \in Seq(Byte) /\ <<>> \o <<>> = <<>>
    BY ConcatEmptySeq
  <2>2. Arrived = <<>>
    BY Zenon, <2>1 DEF Init, Arrived
  <2>3. BufType
    <3>1. {arg, wbuf, socket, rbuf, out} \subseteq Seq(Byte)
      BY Zenon, <2>1 DEF Init
    <3>2. foff \in 0..Len(wbuf)
      BY DEF Init
    <3>3. {want, min, got} \subseteq Nat /\ next \in Nat
      BY DEF Init
    <3>4. werr \in BOOLEAN
      BY Zenon DEF Init
    <3>5. QED  BY Zenon, <3>1, <3>2, <3>3, <3>4 DEF Init, BufType
  <2>4. QED  BY <2>2, <2>3 DEF Init, BufInv, Climbs, Unbroken, Run
<1>2. BufInv /\ [Next]_vars => BufInv'
  BY Zenon, BufStep
<1>3. QED  BY <1>1, <1>2, PTL DEF Spec

\* As long as no write fails nothing is lost, repeated or reordered, for any buffer and
\* socket sizes and any lengths (write_buffered, flush, read_buffered).
THEOREM ConservedCorrect == Spec => []Conserved
<1>1. ASSUME BufInv, ~werr PROVE Arrived \o After(wbuf, foff) \o arg = Upto(next)
  <2>1. BufType /\ Unbroken /\ next \in Nat
    BY Zenon, <1>1 DEF BufInv, BufType
  <2>2. Arrived \in Seq(Byte) /\ wbuf \in Seq(Byte) /\ foff \in 0..Len(wbuf) /\ arg \in Seq(Byte)
    BY Zenon, <2>1, ArrivedType DEF BufType
  <2>3. PICK a \in Seq(Byte) : a = After(wbuf, foff) /\ Len(a) = Len(wbuf) - foff
    BY Zenon, <2>2, AfterFacts
  <2>4. Len(Arrived) \in Nat /\ Len(wbuf) \in Nat /\ Len(arg) \in Nat /\ foff \in Int
    BY <2>2
  <2>5. Run(a, Len(Arrived))
    <3>1. Run(a, Len(Arrived) - foff + foff)
      BY <2>1, <2>2, <2>3, <2>4, RunAfter DEF Unbroken
    <3>2. Len(Arrived) - foff + foff = Len(Arrived)
      BY <2>4
    <3>3. QED  BY Zenon, <3>1, <3>2
  <2>6. PICK s \in Seq(Byte) : s = Arrived \o a /\ Len(s) = Len(Arrived) + Len(a) /\ Run(s, 0)
    <3>1. Run(Arrived, 0) /\ 0 \in Int /\ Run(a, 0 + Len(Arrived))
      BY <2>1, <2>4, <2>5 DEF Unbroken
    <3>2. Run(Arrived \o a, 0)
      BY Zenon, <2>2, <3>1, RunConcat
    <3>3. Arrived \o a \in Seq(Byte) /\ Len(Arrived \o a) = Len(Arrived) + Len(a)
      BY Zenon, <2>2, ConcatProperties
    <3>4. QED  BY Zenon, <3>2, <3>3
  <2>7. Run(arg, Len(s)) /\ next = Len(s) + Len(arg)
    <3>1. Len(s) = Len(Arrived) + Len(wbuf) - foff
      BY Zenon, <2>3, <2>4, <2>6
    <3>2. QED  BY Zenon, <2>1, <3>1 DEF Unbroken
  <2>8. PICK u \in Seq(Byte) : u = s \o arg /\ Len(u) = next /\ Run(u, 0)
    <3>1. 0 \in Int /\ Run(arg, 0 + Len(s))
      BY <2>6, <2>7
    <3>2. Run(s \o arg, 0)
      BY Zenon, <2>2, <2>6, <3>1, RunConcat
    <3>3. s \o arg \in Seq(Byte) /\ Len(s \o arg) = Len(s) + Len(arg)
      BY Zenon, <2>2, <2>6, ConcatProperties
    <3>4. QED  BY Zenon, <2>7, <3>2, <3>3
  <2>9. u = Upto(next)
    <3>1. Upto(next) \in Seq(Byte) /\ Len(Upto(next)) = next /\ Run(Upto(next), 0)
      BY Zenon, <2>1, UptoFacts
    <3>2. \A i \in 1..Len(u) : u[i] = Upto(next)[i]
      BY Zenon, <2>8, <3>1 DEF Run
    <3>3. QED  BY Zenon, <2>8, <3>1, <3>2, SeqEqual
  <2>10. QED  BY Zenon, <2>3, <2>6, <2>8, <2>9
<1>2. BufInv => Conserved
  BY Zenon, <1>1 DEF Conserved, Arrived
<1>3. QED  BY <1>2, BufAlways, PTL

\* Whatever fails, and however often a flush sends its buffer once more, no byte is skipped
\* (flush keeps its position when a write fails).
THEOREM NoneSkippedCorrect == Spec => []NoneSkipped
<1>1. ASSUME BufInv PROVE NoneSkipped
  <2>1. BufType /\ Climbs(Arrived) /\ next \in Nat
    BY Zenon, <1>1 DEF BufInv, BufType
  <2>2. DOMAIN Arrived = 1..Len(Arrived) /\ \A i \in 1..Len(Arrived) : Arrived[i] \in Nat
    BY <2>1, ArrivedType
  <2>3. ASSUME NEW i \in 1..Len(Arrived)
        PROVE  Arrived[i] \in 1..Least(next, IF i = 1 THEN 1 ELSE Arrived[i - 1] + 1)
    <3>1. 1 <= Arrived[i] /\ Arrived[i] <= next /\ Arrived[i] <= IF i = 1 THEN 1 ELSE Arrived[i - 1] + 1
      BY Zenon, <2>1 DEF Climbs
    <3>2. i = 1 \/ i - 1 \in 1..Len(Arrived)
      BY <2>1, ArrivedType
    <3>3. QED  BY <2>1, <2>2, <3>1, <3>2 DEF Least
  <2>4. QED  BY Zenon, <2>2, <2>3 DEF NoneSkipped, Arrived
<1>2. QED  BY <1>1, BufAlways, PTL

===============================================================================
