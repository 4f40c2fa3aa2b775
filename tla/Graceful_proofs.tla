-------------------------- MODULE Graceful_proofs --------------------------
(***************************************************************************)
(* Theorems about Graceful: for any number of addresses, processes and     *)
(* sockets, and for every set of things that may fail, listeners keep      *)
(* their addresses from one generation to the next, paths lead to a live   *)
(* process, and a parent leaves only when it has handed over.              *)
(***************************************************************************)
EXTENDS Graceful, WellFoundedInduction, TLAPS

Phases == {"none", "opening", "starting", "ready", "waiting", "exited", "crashed"}

GracefulType ==
  /\ phase \in [Procs -> Phases] /\ parent \in [Procs -> 0..MaxProcs]
  /\ recover \in [Procs -> Seq(Sockets)] /\ listens \in [Procs -> Seq(Sockets)]
  /\ calls \in [Procs -> 0..NAddrs] /\ open \in [Procs -> SUBSET Sockets]
  /\ owns \in [Procs -> SUBSET (Addrs \X Sockets)]
  /\ addr \in [Sockets -> 0..NAddrs] /\ path \in [Addrs -> 0..MaxSockets]

\* A process that has not been started has nothing.
Blank(p) ==
  phase[p] = "none" =>
    /\ recover[p] = <<>> /\ listens[p] = <<>> /\ calls[p] = 0
    /\ open[p] = {} /\ owns[p] = {}

TypeInv == GracefulType /\ \A p \in Procs : Blank(p)

\* The fds are in the order of the addresses: those the process has are for the first
\* addresses, those it is still to recover for the ones that follow.
InOrder(p) ==
  /\ \A x \in owns[p] : addr[x[2]] = x[1]
  /\ \A i \in 1..Len(listens[p]) : addr[listens[p][i]] = i
  /\ phase[p] = "opening" =>
       /\ Len(listens[p]) = calls[p]
       /\ \A i \in 1..Len(recover[p]) : addr[recover[p][i]] = calls[p] + i
  /\ phase[p] \in {"starting", "ready", "waiting"} => Len(listens[p]) = NAddrs

OrderInv == "skip" \notin faults => \A p \in Procs : InOrder(p)

\* What a live process has got or is still to recover is open, the paths among it lead
\* to it, and a process that has addresses left to bind is the only one alive.
Serves(p) ==
  /\ \A i \in 1..Len(listens[p]) : listens[p][i] \in open[p]
  /\ \A i \in 1..Len(recover[p]) : recover[p][i] \in open[p]
  /\ \A i \in 1..Len(listens[p]) : i \in Unix => path[i] = listens[p][i]
  /\ \A i \in 1..Len(recover[p]) : calls[p] + i \in Unix => path[calls[p] + i] = recover[p][i]
  /\ \A x \in owns[p] : x[1] \in 1..Len(listens[p]) /\ listens[p][x[1]] = x[2]
  /\ phase[p] = "opening" =>
       \/ Len(recover[p]) + calls[p] = NAddrs
       \/ recover[p] = <<>> /\ \A q \in Procs \ {p} : ~Live(q)

ServeInv == Inherits => \A p \in Procs : Live(p) => Serves(p)

\* A child has what its parent had, and the parent no longer opens anything.
Raised(q) ==
  parent[q] # 0 =>
    /\ phase[q] # "none"
    /\ phase[parent[q]] \in {"ready", "waiting", "exited", "crashed"}
    /\ Inherits /\ Live(q) =>
         \A i \in 1..Len(listens[parent[q]]) : listens[parent[q]][i] \in open[q]

FamilyInv ==
  /\ \A q \in Procs : Raised(q)
  /\ \A p \in Procs : phase[p] = "waiting" => Children(p) # {}

GracefulInv == TypeInv /\ OrderInv /\ ServeInv /\ FamilyInv

-----------------------------------------------------------------------------
(***************************************************************************)
(* What the operators choose.                                               *)
(***************************************************************************)
LEMMA LeastOf ==
  ASSUME NEW S \in SUBSET Nat, S # {}
  PROVE  \E x \in S : \A y \in S : x <= y
<1> DEFINE R == OpToRel(<, Nat)
<1>1. IsWellFoundedOn(R, Nat)
  BY Zenon, NatLessThanWellFounded
<1>2. \E x \in S : \A y \in S : ~ (<<y, x>> \in R)
  <2> HIDE DEF R
  <2> QED  BY Zenon, <1>1, WFMin
<1>3. PICK x \in S : \A y \in S : ~ (<<y, x>> \in R)
  BY Zenon, <1>2
<1>4. ASSUME NEW y \in S, y < x PROVE FALSE
  <2>1. <<y, x>> \in R
    BY Zenon, <1>4 DEF OpToRel
  <2> QED  BY Zenon, <1>3, <2>1
<1>5. \A y \in S : x <= y
  BY SMTT(30), <1>4
<1> QED  BY Zenon, <1>5

\* A nonempty set of numbers up to N has a greatest element.
LEMMA GreatestOf ==
  ASSUME NEW N \in Nat, NEW S \in SUBSET (1..N), S # {}
  PROVE  \E x \in S : \A y \in S : y <= x
<1> DEFINE T == {N - y : y \in S}
<1>1. T \in SUBSET Nat /\ T # {}
  <2>1. T # {}
    BY Zenon
  <2>2. ASSUME NEW y \in S PROVE N - y \in Nat
    BY SMTT(30)
  <2>3. QED  BY Zenon, <2>1, <2>2
<1>2. PICK t \in T : \A u \in T : t <= u
  <2> HIDE DEF T
  <2> QED  BY Zenon, <1>1, LeastOf
<1>3. PICK x \in S : t = N - x
  BY Zenon, <1>2
<1>4. \A y \in S : N - x <= N - y
  BY Zenon, <1>2, <1>3
<1>5. \A y \in S : y <= x
  BY SMTT(30), <1>4
<1> QED  BY Zenon, <1>5

\* A new process has not been started before.
LEMMA NextProcFresh ==
  ASSUME Fresh # {}
  PROVE  NextProc \in Procs /\ phase[NextProc] = "none"
<1>1. Fresh \in SUBSET Nat
  BY SMTT(30) DEF Fresh, Procs
<1>2. \E p \in Fresh : \A q \in Fresh : p <= q
  BY Zenon, <1>1, LeastOf
<1>3. NextProc \in Fresh
  BY Zenon, <1>2 DEF NextProc
<1> QED  BY Zenon, <1>3 DEF Fresh

\* A new socket has not been bound before.
LEMMA NextSocketUnbound ==
  ASSUME Unbound # {}
  PROVE  NextSocket \in Sockets /\ addr[NextSocket] = 0
<1>1. Unbound \in SUBSET Nat
  BY SMTT(30) DEF Unbound, Sockets
<1>2. \E s \in Unbound : \A t \in Unbound : s <= t
  BY Zenon, <1>1, LeastOf
<1>3. NextSocket \in Unbound
  BY Zenon, <1>2 DEF NextSocket
<1> QED  BY Zenon, <1>3 DEF Unbound

\* The child of a process that has children is a process with that parent.
LEMMA ChildOfParent ==
  ASSUME NEW p \in Procs, Children(p) # {}
  PROVE  Child(p) \in Procs /\ parent[Child(p)] = p
<1>1. MaxProcs \in Nat /\ Children(p) \in SUBSET (1..MaxProcs)
  BY Zenon, GracefulAssumption DEF Children, Procs
<1>2. \E q \in Children(p) : \A r \in Children(p) : r <= q
  BY Zenon, <1>1, GreatestOf
<1>3. Child(p) \in Children(p)
  BY Zenon, <1>2 DEF Child
<1> QED  BY Zenon, <1>3 DEF Children

-----------------------------------------------------------------------------
(***************************************************************************)
(* Types.                                                                   *)
(***************************************************************************)
LEMMA Updated ==
  ASSUME NEW S, NEW T, NEW f \in [S -> T], NEW x \in S, NEW v \in T
  PROVE  [f EXCEPT ![x] = v] \in [S -> T]
BY SMTT(30)

\* The actions that only change how far a process is, and what it has open.
Moves(p) ==
  /\ \/ /\ \E x \in {"exited", "crashed"} : phase' = [phase EXCEPT ![p] = x]
        /\ open' = [open EXCEPT ![p] = {}]
     \/ /\ phase[p] = "opening" /\ calls[p] = NAddrs
        /\ phase' = [phase EXCEPT ![p] = "starting"] /\ UNCHANGED open
     \/ /\ phase[p] \in {"starting", "waiting"}
        /\ phase' = [phase EXCEPT ![p] = "ready"] /\ UNCHANGED open
  /\ UNCHANGED <<parent, recover, listens, calls, owns, addr, path, faults>>

\* The actions that only move a process on.
LEMMA MoveActions ==
  ASSUME NEW p \in Procs,
         Crash(p) \/ Readies(p) \/ CloseSignal(p) \/ SeeSync(p) \/ TimeOut(p)
  PROVE  Moves(p)
<1>1. CASE Crash(p) \/ CloseSignal(p) \/ SeeSync(p)
  BY ZenonT(30), <1>1 DEF Crash, CloseSignal, SeeSync, Ends, Moves
<1>2. CASE Readies(p)
  BY ZenonT(30), <1>2 DEF Readies, WritePid, WritePidErr, Announce, Ends, Moves
<1>3. CASE TimeOut(p)
  BY ZenonT(30), <1>3 DEF TimeOut, Ends, Moves
<1> QED  BY Zenon, <1>1, <1>2, <1>3

\* They keep the types.
LEMMA TypeMove ==
  ASSUME TypeInv, NEW p \in Procs, Moves(p)
  PROVE  TypeInv'
<1>1. GracefulType'
  BY Zenon DEF TypeInv, GracefulType, Moves, Phases
<1>2. ASSUME NEW r \in Procs PROVE Blank(r)'
  BY Zenon DEF TypeInv, GracefulType, Moves, Phases, Blank
<1> QED  BY Zenon, <1>1, <1>2 DEF TypeInv

\* A call of the listener constructor keeps the types.
LEMMA TypeOpen ==
  ASSUME TypeInv, NEW p \in Procs, Opens(p)
  PROVE  TypeInv'
<1> USE DEF TypeInv
<1>1. calls[p] + 1 \in Addrs /\ calls' = [calls EXCEPT ![p] = calls[p] + 1]
      /\ phase[p] = "opening" /\ calls' \in [Procs -> 0..NAddrs]
  <2>1. /\ calls[p] < NAddrs /\ calls' = [calls EXCEPT ![p] = calls[p] + 1]
        /\ phase[p] = "opening"
    BY ZenonT(30) DEF Opens, Recover, Bind, BindErr, MayBind
  <2>2. NAddrs \in Nat /\ calls[p] \in 0..NAddrs
    BY Zenon, GracefulAssumption DEF GracefulType
  <2>3. calls[p] + 1 \in Addrs /\ calls[p] + 1 \in 0..NAddrs
    BY SMTT(30), <2>1, <2>2 DEF Addrs
  <2> QED  BY Zenon, <2>1, <2>3, Updated DEF GracefulType
<1>2. recover[p] # <<>> => Head(recover[p]) \in Sockets /\ Tail(recover[p]) \in Seq(Sockets)
  BY SMTT(30) DEF GracefulType
<1>3. Dropped(p) \in SUBSET Sockets
  BY Zenon DEF Dropped, GracefulType
<1>4. CASE Recover(p)
  <2>1. /\ owns' = [owns EXCEPT ![p] = owns[p] \cup {<<calls[p] + 1, Head(recover[p])>>}]
        /\ listens' = [listens EXCEPT ![p] = Append(listens[p], Head(recover[p]))]
        /\ recover' = [recover EXCEPT ![p] = Tail(recover[p])] /\ recover[p] # <<>>
        /\ UNCHANGED <<phase, parent, open, addr, path>>
    BY Zenon, <1>4 DEF Recover, Got
  <2>2. GracefulType'
    <3>1. Append(listens[p], Head(recover[p])) \in Seq(Sockets)
      BY SMTT(30), <1>2, <2>1 DEF GracefulType
    <3>2. owns[p] \cup {<<calls[p] + 1, Head(recover[p])>>} \in SUBSET (Addrs \X Sockets)
      BY SMTT(30), <1>1, <1>2, <2>1 DEF GracefulType
    <3> QED  BY ZenonT(30), <1>1, <1>2, <2>1, <3>1, <3>2, Updated DEF GracefulType
  <2>3. ASSUME NEW r \in Procs PROVE Blank(r)'
    BY Zenon, <1>1, <2>1 DEF GracefulType, Blank
  <2> QED  BY Zenon, <2>2, <2>3
<1>5. CASE Bind(p)
  <2>1. NextSocket \in Sockets
    BY Zenon, <1>5, NextSocketUnbound DEF Bind
  <2> DEFINE a == calls[p] + 1
  <2>2. /\ owns' = [owns EXCEPT ![p] = owns[p] \cup {<<a, NextSocket>>}]
        /\ listens' = [listens EXCEPT ![p] = Append(listens[p], NextSocket)]
        /\ recover' = [recover EXCEPT ![p] = IF recover[p] = <<>> THEN recover[p] ELSE Tail(recover[p])]
        /\ addr' = [addr EXCEPT ![NextSocket] = a]
        /\ open' = [open EXCEPT ![p] = Dropped(p) \cup {NextSocket}]
        /\ path' \in {[path EXCEPT ![a] = NextSocket], path}
        /\ UNCHANGED <<phase, parent>>
    BY Zenon, <1>5 DEF Bind, MayBind, Got
  <2>3. GracefulType'
    <3>1. Append(listens[p], NextSocket) \in Seq(Sockets)
      BY SMTT(30), <2>1 DEF GracefulType
    <3>2. owns[p] \cup {<<a, NextSocket>>} \in SUBSET (Addrs \X Sockets)
      BY SMTT(30), <1>1, <2>1 DEF GracefulType
    <3>3. Dropped(p) \cup {NextSocket} \in SUBSET Sockets
      BY Zenon, <1>3, <2>1
    <3>4. (IF recover[p] = <<>> THEN recover[p] ELSE Tail(recover[p])) \in Seq(Sockets)
      BY Zenon, <1>2 DEF GracefulType
    <3>5. a \in Addrs /\ a \in 0..NAddrs /\ NextSocket \in 0..MaxSockets
      BY SMTT(30), <1>1, <2>1 DEF Addrs, Sockets
    <3> HIDE DEF a
    <3>6. path' \in [Addrs -> 0..MaxSockets]
      BY Zenon, <2>2, <3>5 DEF GracefulType
    <3> QED  BY ZenonT(30), <1>1, <2>1, <2>2, <3>1, <3>2, <3>3, <3>4, <3>5, <3>6, Updated DEF GracefulType
  <2>4. ASSUME NEW r \in Procs PROVE Blank(r)'
    BY Zenon, <1>1, <2>2 DEF GracefulType, Blank
  <2> QED  BY Zenon, <2>3, <2>4
<1>6. CASE BindErr(p)
  <2> DEFINE a == calls[p] + 1
  <2>1. /\ recover' = [recover EXCEPT ![p] = IF recover[p] = <<>> THEN recover[p] ELSE Tail(recover[p])]
        /\ path' \in {[path EXCEPT ![a] = 0], path}
        /\ \/ open' = [open EXCEPT ![p] = Dropped(p)] /\ UNCHANGED phase
           \/ open' = [open EXCEPT ![p] = {}] /\ phase' = [phase EXCEPT ![p] = "exited"]
        /\ UNCHANGED <<parent, listens, owns, addr>>
    BY Zenon, <1>6 DEF BindErr, MayBind, Ends
  <2>2. GracefulType'
    <3>1. (IF recover[p] = <<>> THEN recover[p] ELSE Tail(recover[p])) \in Seq(Sockets)
      BY SMTT(30), <1>2 DEF GracefulType
    <3>2. 0 \in 0..MaxSockets /\ "exited" \in Phases /\ {} \in SUBSET Sockets
      BY SMTT(30), GracefulAssumption DEF Phases
    <3>3. a \in Addrs
      BY Zenon, <1>1
    <3> HIDE DEF a
    <3>4. path' \in [Addrs -> 0..MaxSockets]
      BY Zenon, <2>1, <3>2, <3>3 DEF GracefulType
    <3>5. open' \in [Procs -> SUBSET Sockets]
      <4>1. open \in [Procs -> SUBSET Sockets]
        BY Zenon DEF GracefulType
      <4>2. /\ [open EXCEPT ![p] = Dropped(p)] \in [Procs -> SUBSET Sockets]
            /\ [open EXCEPT ![p] = {}] \in [Procs -> SUBSET Sockets]
        BY Zenon, <4>1, <1>3, <3>2, Updated
      <4>3. QED  BY Zenon, <4>2, <2>1
    <3>6. phase' \in [Procs -> Phases]
      BY ZenonT(30), <2>1, <3>2, Updated DEF GracefulType
    <3> QED  BY ZenonT(30), <1>1, <2>1, <3>1, <3>4, <3>5, <3>6, Updated DEF GracefulType
  <2>3. ASSUME NEW r \in Procs PROVE Blank(r)'
    BY SMTT(30), <1>1, <2>1 DEF GracefulType, Blank
  <2> QED  BY Zenon, <2>2, <2>3
<1> QED  BY Zenon, <1>4, <1>5, <1>6 DEF Opens

\* Every step keeps the types.
LEMMA TypeStep ==
  ASSUME TypeInv, Next
  PROVE  TypeInv'
<1> USE DEF TypeInv
<1>1. CASE Boot
  <2>1. NextProc \in Procs /\ phase[NextProc] = "none"
    BY Zenon, <1>1, NextProcFresh DEF Boot
  <2>2. GracefulType'
    BY Zenon, <1>1, <2>1 DEF Boot, GracefulType, Phases
  <2>3. ASSUME NEW r \in Procs PROVE Blank(r)'
    BY Zenon, <1>1, <2>1 DEF Boot, GracefulType, Blank
  <2> QED  BY Zenon, <2>2, <2>3
<1>2. ASSUME NEW p \in Procs, Restart(p) PROVE TypeInv'
  <2> DEFINE q == NextProc
  <2>1. q \in Procs /\ phase[q] = "none" /\ phase[p] = "ready"
    BY Zenon, <1>2, NextProcFresh DEF Restart
  <2> HIDE DEF q
  <2>2. /\ parent' = [parent EXCEPT ![q] = p] /\ recover' = [recover EXCEPT ![q] = listens[p]]
        /\ open' = [open EXCEPT ![q] = Range(listens[p])]
        /\ \E x \in {"exited", "opening"} : phase' = [phase EXCEPT ![p] = "waiting", ![q] = x]
        /\ UNCHANGED <<listens, calls, owns, addr, path>>
    BY Zenon, <1>2 DEF Restart, Passed, q
  <2>3. Range(listens[p]) \in SUBSET Sockets
    BY SMTT(30) DEF GracefulType, Range
  <2>4. GracefulType'
    <3>1. p \in 0..MaxProcs /\ {"waiting", "exited", "opening"} \subseteq Phases
          /\ listens[p] \in Seq(Sockets)
      BY SMTT(30) DEF GracefulType, Phases, Procs
    <3>2. phase' \in [Procs -> Phases]
      BY SMTT(30), <2>1, <2>2, <3>1 DEF GracefulType
    <3> QED  BY ZenonT(30), <2>1, <2>2, <2>3, <3>1, <3>2, Updated DEF GracefulType
  <2>5. ASSUME NEW r \in Procs PROVE Blank(r)'
    BY Zenon, <2>1, <2>2 DEF GracefulType, Blank
  <2> QED  BY Zenon, <2>4, <2>5
<1>3. ASSUME NEW p \in Procs, Opens(p) PROVE TypeInv'
  BY Zenon, <1>3, TypeOpen
<1>4. ASSUME NEW p \in Procs,
             Crash(p) \/ Readies(p) \/ CloseSignal(p) \/ SeeSync(p) \/ TimeOut(p)
      PROVE  TypeInv'
  BY Zenon, <1>4, MoveActions, TypeMove
<1> QED  BY Zenon, <1>1, <1>2, <1>3, <1>4 DEF Next

-----------------------------------------------------------------------------
(***************************************************************************)
(* What the steps do to one process.                                        *)
(***************************************************************************)
Same(r) ==
  /\ phase'[r] = phase[r] /\ parent'[r] = parent[r] /\ recover'[r] = recover[r]
  /\ listens'[r] = listens[r] /\ calls'[r] = calls[r] /\ open'[r] = open[r]
  /\ owns'[r] = owns[r]

Others(p) == \A r \in Procs : r # p => Same(r)

\* What an action that only moves a process on changes.
LEMMA MoveDoes ==
  ASSUME TypeInv, NEW p \in Procs, Moves(p)
  PROVE  /\ Others(p) /\ recover'[p] = recover[p] /\ listens'[p] = listens[p]
         /\ calls'[p] = calls[p] /\ owns'[p] = owns[p] /\ parent'[p] = parent[p]
         /\ \/ phase'[p] \in {"exited", "crashed"}
            \/ phase[p] = "opening" /\ calls[p] = NAddrs /\ phase'[p] = "starting" /\ open'[p] = open[p]
            \/ phase[p] \in {"starting", "waiting"} /\ phase'[p] = "ready" /\ open'[p] = open[p]
         /\ UNCHANGED <<addr, path, faults>>
BY Zenon DEF TypeInv, GracefulType, Moves, Others, Same

\* What recovering an inherited listener changes.
LEMMA RecoverDoes ==
  ASSUME TypeInv, NEW p \in Procs, Recover(p)
  PROVE  /\ phase[p] = "opening" /\ recover[p] # <<>> /\ calls'[p] = calls[p] + 1
         /\ listens'[p] = Append(listens[p], Head(recover[p])) /\ recover'[p] = Tail(recover[p])
         /\ owns'[p] = owns[p] \cup {<<calls[p] + 1, Head(recover[p])>>}
         /\ Others(p) /\ UNCHANGED <<phase, parent, open, addr, path, faults>>
BY Zenon DEF TypeInv, GracefulType, Recover, Got, Others, Same

\* What binding a new listener changes.
LEMMA BindDoes ==
  ASSUME TypeInv, NEW p \in Procs, Bind(p)
  PROVE  /\ phase[p] = "opening" /\ calls[p] < NAddrs /\ calls'[p] = calls[p] + 1
         /\ recover[p] # <<>> => "recover" \in faults
         /\ recover'[p] = IF recover[p] = <<>> THEN <<>> ELSE Tail(recover[p])
         /\ NextSocket \in Sockets /\ addr[NextSocket] = 0
         /\ listens'[p] = Append(listens[p], NextSocket)
         /\ owns'[p] = owns[p] \cup {<<calls[p] + 1, NextSocket>>}
         /\ open'[p] = Dropped(p) \cup {NextSocket}
         /\ addr' = [addr EXCEPT ![NextSocket] = calls[p] + 1]
         /\ path' = IF calls[p] + 1 \in Unix THEN [path EXCEPT ![calls[p] + 1] = NextSocket] ELSE path
         /\ Others(p) /\ UNCHANGED <<phase, parent, faults>>
<1>1. NextSocket \in Sockets /\ addr[NextSocket] = 0
  BY Zenon, NextSocketUnbound DEF Bind
<1> QED  BY Zenon, <1>1 DEF TypeInv, GracefulType, Bind, MayBind, Got, Others, Same

\* What a failed bind changes.
LEMMA BindErrDoes ==
  ASSUME TypeInv, NEW p \in Procs, BindErr(p)
  PROVE  /\ phase[p] = "opening" /\ calls[p] < NAddrs /\ calls'[p] = calls[p] + 1
         /\ recover[p] # <<>> => "recover" \in faults
         /\ "skip" \notin faults => phase'[p] = "exited"
         /\ phase'[p] \in {"opening", "exited"} /\ listens'[p] = listens[p] /\ owns'[p] = owns[p]
         /\ Others(p) /\ UNCHANGED <<parent, addr, faults>>
BY Zenon DEF TypeInv, GracefulType, BindErr, MayBind, Ends, Others, Same

\* What a start of the program changes.
LEMMA BootDoes ==
  ASSUME TypeInv, Boot
  PROVE  /\ \A r \in Procs : ~Live(r)
         /\ NextProc \in Procs /\ phase[NextProc] = "none" /\ phase'[NextProc] = "opening"
         /\ Others(NextProc)
         /\ UNCHANGED <<parent, recover, listens, calls, open, owns, addr, path, faults>>
<1>1. NextProc \in Procs /\ phase[NextProc] = "none"
  BY Zenon, NextProcFresh DEF Boot
<1> QED  BY Zenon, <1>1 DEF TypeInv, GracefulType, Boot, Others, Same

\* What a graceful restart changes.
LEMMA RestartDoes ==
  ASSUME TypeInv, NEW p \in Procs, Restart(p)
  PROVE  \E q \in Procs :
           /\ q # p /\ phase[p] = "ready" /\ phase[q] = "none"
           /\ phase'[p] = "waiting" /\ phase'[q] \in {"opening", "exited"}
           /\ parent'[q] = p /\ parent'[p] = parent[p]
           /\ recover'[q] = listens[p] /\ recover'[p] = recover[p]
           /\ open'[q] = Range(listens[p]) /\ open'[p] = open[p]
           /\ \A r \in Procs : r \notin {p, q} => Same(r)
           /\ UNCHANGED <<listens, calls, owns, addr, path, faults>>
<1>1. NextProc \in Procs /\ phase[NextProc] = "none" /\ phase[p] = "ready"
  BY Zenon, NextProcFresh DEF Restart
<1>2. NextProc # p
  BY Zenon, <1>1
<1> USE <1>1
<1> WITNESS NextProc \in Procs
<1> QED  BY Zenon, <1>2 DEF TypeInv, GracefulType, Restart, Passed, Same

\* The actions other than these keep to one process.
LEMMA StepCases ==
  ASSUME Next
  PROVE  \/ Boot
         \/ \E p \in Procs : Moves(p) \/ Recover(p) \/ Bind(p) \/ BindErr(p) \/ Restart(p)
BY Zenon, MoveActions DEF Next, Opens

\* The switches of a behaviour do not change, and a socket that is bound stays bound.
LEMMA Fixed ==
  ASSUME TypeInv, Next
  PROVE  /\ UNCHANGED faults
         /\ \A s \in Sockets : addr[s] # 0 => addr'[s] = addr[s]
<1>1. CASE Boot
  BY Zenon, <1>1, BootDoes
<1>2. ASSUME NEW p \in Procs, Moves(p) \/ Recover(p) \/ BindErr(p) \/ Restart(p)
      PROVE  UNCHANGED <<faults, addr>>
  BY ZenonT(30), <1>2, MoveDoes, RecoverDoes, BindErrDoes, RestartDoes
<1>3. ASSUME NEW p \in Procs, Bind(p)
      PROVE  UNCHANGED faults /\ \A s \in Sockets : addr[s] # 0 => addr'[s] = addr[s]
  BY Zenon, <1>3, BindDoes DEF TypeInv, GracefulType
<1> QED  BY Zenon, <1>1, <1>2, <1>3, StepCases

-----------------------------------------------------------------------------
(***************************************************************************)
(* The order of the fds.                                                    *)
(***************************************************************************)
\* A process that keeps what it has keeps its order.
LEMMA OrderSame ==
  ASSUME TypeInv, Next, NEW r \in Procs, InOrder(r),
         owns'[r] = owns[r], listens'[r] = listens[r],
         phase'[r] = "opening" => phase[r] = "opening" /\ calls'[r] = calls[r] /\ recover'[r] = recover[r],
         phase'[r] \in {"starting", "ready", "waiting"} => Len(listens[r]) = NAddrs
  PROVE  InOrder(r)'
<1>1. \A s \in Sockets : addr[s] # 0 => addr'[s] = addr[s]
  BY Zenon, Fixed
<1>2. /\ \A x \in owns[r] : x[2] \in Sockets /\ x[1] \in Addrs
      /\ listens[r] \in Seq(Sockets) /\ recover[r] \in Seq(Sockets) /\ calls[r] \in Nat
  BY SMTT(30) DEF TypeInv, GracefulType
<1>3. \A x \in owns[r] : addr'[x[2]] = x[1]
  BY SMTT(30), <1>1, <1>2 DEF InOrder, Addrs
<1>4. \A i \in 1..Len(listens[r]) : addr'[listens[r][i]] = i
  BY SMTT(30), <1>1, <1>2 DEF InOrder
<1>5. phase'[r] = "opening" => /\ Len(listens[r]) = calls[r]
                               /\ \A i \in 1..Len(recover[r]) : addr'[recover[r][i]] = calls[r] + i
  BY SMTT(30), <1>1, <1>2 DEF InOrder
<1> QED  BY Zenon, <1>3, <1>4, <1>5 DEF InOrder

\* new_listener gets fd s for the next address, and s is bound to it.
LEMMA OrderGot ==
  ASSUME TypeInv, Next, NEW p \in Procs, InOrder(p), NEW s \in Sockets,
         phase[p] = "opening", phase'[p] = "opening", calls'[p] = calls[p] + 1,
         addr'[s] = calls[p] + 1, listens'[p] = Append(listens[p], s),
         owns'[p] = owns[p] \cup {<<calls[p] + 1, s>>},
         recover'[p] = IF recover[p] = <<>> THEN <<>> ELSE Tail(recover[p])
  PROVE  InOrder(p)'
<1>1. \A t \in Sockets : addr[t] # 0 => addr'[t] = addr[t]
  BY Zenon, Fixed
<1>2. /\ \A x \in owns[p] : x[2] \in Sockets /\ x[1] \in Addrs
      /\ listens[p] \in Seq(Sockets) /\ recover[p] \in Seq(Sockets) /\ calls[p] \in Nat
  BY SMTT(30) DEF TypeInv, GracefulType
<1>3. \A x \in owns'[p] : addr'[x[2]] = x[1]
  BY SMTT(30), <1>1, <1>2 DEF InOrder, Addrs
<1>4. Len(listens[p]) = calls[p] /\ Len(listens'[p]) = calls[p] + 1
  BY SMTT(30), <1>2 DEF InOrder
<1>5. \A i \in 1..Len(listens'[p]) : addr'[listens'[p][i]] = i
  <2>1. ASSUME NEW i \in 1..calls[p] PROVE addr'[listens'[p][i]] = i
    <3>1. listens'[p][i] = listens[p][i] /\ listens[p][i] \in Sockets /\ i # 0
      BY SMTT(30), <1>2, <1>4
    <3>2. addr[listens[p][i]] = i
      BY Zenon, <1>4 DEF InOrder
    <3> QED  BY Zenon, <1>1, <3>1, <3>2
  <2>2. listens'[p][calls[p] + 1] = s
    BY SMTT(30), <1>2, <1>4
  <2>3. \A i \in 1..calls[p] + 1 : i \in 1..calls[p] \/ i = calls[p] + 1
    BY SMTT(30), <1>2
  <2> QED  BY Zenon, <1>4, <2>1, <2>2, <2>3
<1>6. \A i \in 1..Len(recover'[p]) : addr'[recover'[p][i]] = calls'[p] + i
  <2>1. CASE recover[p] = <<>>
    BY SMTT(30), <2>1
  <2>2. CASE recover[p] # <<>>
    <3>1. /\ Len(recover'[p]) = Len(recover[p]) - 1 /\ Len(recover[p]) \in Nat \ {0}
          /\ \A i \in 1..Len(recover[p]) - 1 : recover'[p][i] = recover[p][i + 1]
      BY SMTT(30), <1>2, <2>2
    <3>2. ASSUME NEW i \in 1..Len(recover[p]) - 1
          PROVE  addr'[recover'[p][i]] = calls'[p] + i
      <4>1. i + 1 \in 1..Len(recover[p]) /\ recover'[p][i] = recover[p][i + 1]
            /\ recover[p][i + 1] \in Sockets
        BY SMTT(30), <1>2, <3>1
      <4>2. addr[recover[p][i + 1]] = calls[p] + (i + 1)
        BY Zenon, <4>1 DEF InOrder
      <4>3. calls[p] + (i + 1) # 0 /\ calls[p] + (i + 1) = calls'[p] + i
        <5>1. i \in Nat /\ calls[p] \in Nat /\ calls'[p] = calls[p] + 1
          BY SMTT(30), <1>2, <3>1
        <5>2. \A a, b \in Nat : a + (b + 1) # 0 /\ a + (b + 1) = (a + 1) + b
          BY SMTT(30)
        <5> QED  BY Zenon, <5>1, <5>2
      <4> QED  BY Zenon, <1>1, <4>1, <4>2, <4>3
    <3> QED  BY Zenon, <3>1, <3>2
  <2> QED  BY Zenon, <2>1, <2>2
<1>7. phase'[p] \notin {"starting", "ready", "waiting"}
  BY SMTT(30)
<1> QED  BY Zenon, <1>3, <1>4, <1>5, <1>6, <1>7 DEF InOrder

\* Every step keeps OrderInv.
LEMMA OrderStep ==
  ASSUME TypeInv, OrderInv, Next
  PROVE  OrderInv'
<1>1. UNCHANGED faults
  BY Zenon, Fixed
<1> SUFFICES ASSUME "skip" \notin faults, \A r \in Procs : InOrder(r), NEW r \in Procs
             PROVE  InOrder(r)'
  BY Zenon, <1>1 DEF OrderInv
<1>0. \A n \in Procs : phase[n] = "none" => /\ recover[n] = <<>> /\ listens[n] = <<>> /\ calls[n] = 0
  BY Zenon DEF TypeInv, Blank
<1>2. CASE Same(r)
  BY Zenon, <1>2, OrderSame DEF Same, InOrder
<1>3. CASE Boot /\ r = NextProc
  <2>1. /\ phase'[r] = "opening" /\ UNCHANGED <<owns, listens, recover, calls>>
        /\ recover[r] = <<>> /\ listens[r] = <<>> /\ calls[r] = 0
    BY Zenon, <1>0, <1>3, BootDoes
  <2>2. \A x \in owns[r] : x[2] \in Sockets /\ addr[x[2]] = x[1] /\ x[1] # 0
    BY SMTT(30) DEF InOrder, TypeInv, GracefulType, Addrs
  <2>3. \A x \in owns[r] : addr'[x[2]] = x[1]
    BY Zenon, <2>2, Fixed
  <2> QED  BY SMTT(30), <2>1, <2>3 DEF InOrder
<1>4. ASSUME NEW p \in Procs, Moves(p), r = p
      PROVE  InOrder(r)'
  <2>1. /\ owns'[r] = owns[r] /\ listens'[r] = listens[r]
        /\ phase'[r] # "opening"
        /\ phase'[r] \in {"starting", "ready", "waiting"} =>
             \/ phase[r] = "opening" /\ calls[r] = NAddrs
             \/ phase[r] \in {"starting", "waiting"}
    BY Zenon, <1>4, MoveDoes
  <2>2. phase'[r] \in {"starting", "ready", "waiting"} => Len(listens[r]) = NAddrs
    BY Zenon, <2>1 DEF InOrder
  <2> QED  BY Zenon, <2>1, <2>2, OrderSame
<1>5. ASSUME NEW p \in Procs, Recover(p), r = p
      PROVE  InOrder(r)'
  <2>1. recover[p] \in Seq(Sockets) /\ recover[p] # <<>> /\ phase[p] = "opening" /\ UNCHANGED addr
    BY Zenon, <1>5, RecoverDoes DEF TypeInv, GracefulType
  <2>2. Head(recover[p]) \in Sockets /\ Head(recover[p]) = recover[p][1] /\ 1 \in 1..Len(recover[p])
    BY SMTT(30), <2>1
  <2>3. addr[Head(recover[p])] = calls[p] + 1
    BY Zenon, <2>1, <2>2 DEF InOrder
  <2>4. addr'[Head(recover[p])] = calls[p] + 1
    BY Zenon, <2>1, <2>3
  <2>5. /\ calls'[p] = calls[p] + 1 /\ phase'[p] = "opening"
        /\ listens'[p] = Append(listens[p], Head(recover[p]))
        /\ owns'[p] = owns[p] \cup {<<calls[p] + 1, Head(recover[p])>>}
        /\ recover'[p] = IF recover[p] = <<>> THEN <<>> ELSE Tail(recover[p])
    BY Zenon, <1>5, <2>1, RecoverDoes
  <2> QED  BY Zenon, <1>5, <2>1, <2>2, <2>4, <2>5, OrderGot
<1>6. ASSUME NEW p \in Procs, Bind(p), r = p
      PROVE  InOrder(r)'
  <2>1. addr'[NextSocket] = calls[p] + 1
    BY Zenon, <1>6, BindDoes DEF TypeInv, GracefulType
  <2> QED  BY ZenonT(30), <1>6, <2>1, BindDoes, OrderGot
<1>7. ASSUME NEW p \in Procs, BindErr(p), r = p
      PROVE  InOrder(r)'
  <2>1. phase'[r] = "exited" /\ owns'[r] = owns[r] /\ listens'[r] = listens[r]
    BY Zenon, <1>7, BindErrDoes
  <2> QED  BY Zenon, <2>1, OrderSame
<1>8. ASSUME NEW p \in Procs, Restart(p), ~Same(r)
      PROVE  InOrder(r)'
  <2>1. PICK q \in Procs :
           /\ q # p /\ phase[p] = "ready" /\ phase[q] = "none"
           /\ phase'[p] = "waiting" /\ phase'[q] \in {"opening", "exited"}
           /\ recover'[q] = listens[p] /\ \A n \in Procs : n \notin {p, q} => Same(n)
           /\ UNCHANGED <<listens, calls, owns, addr>>
    BY Zenon, <1>8, RestartDoes
  <2>2. CASE r = p
    <3>1. Len(listens[p]) = NAddrs
      BY Zenon, <2>1 DEF InOrder
    <3> QED  BY Zenon, <2>1, <2>2, <3>1, OrderSame
  <2>3. CASE r = q
    <3>1. listens[q] = <<>> /\ calls[q] = 0
      BY Zenon, <1>0, <2>1
    <3>2. listens[p] \in Seq(Sockets) /\ \A i \in 1..Len(listens[p]) : addr[listens[p][i]] = 0 + i
      BY SMTT(30) DEF InOrder, TypeInv, GracefulType
    <3> QED  BY SMTT(30), <2>1, <2>3, <3>1, <3>2 DEF InOrder
  <2> QED  BY Zenon, <1>8, <2>1, <2>2, <2>3
<1>9. ASSUME ~Same(r), NEW p \in Procs, Moves(p) \/ Recover(p) \/ Bind(p) \/ BindErr(p)
      PROVE  r = p
  BY ZenonT(30), <1>9, MoveDoes, RecoverDoes, BindDoes, BindErrDoes DEF Others
<1>10. ASSUME ~Same(r), Boot PROVE r = NextProc
  BY Zenon, <1>10, BootDoes DEF Others
<1> QED  BY ZenonT(30), <1>2, <1>3, <1>4, <1>5, <1>6, <1>7, <1>8, <1>9, <1>10, StepCases

-----------------------------------------------------------------------------
(***************************************************************************)
(* Paths and open sockets.                                                  *)
(***************************************************************************)
LEMMA LivePhases ==
  ASSUME TypeInv, NEW p \in Procs
  PROVE  Live(p) <=> phase[p] \in {"opening", "starting", "ready", "waiting"}
BY Zenon DEF TypeInv, GracefulType, Phases, Live

\* Next to a process that is alive alone nothing comes to life unless it says so.
LEMMA AloneStays ==
  ASSUME TypeInv, Next, NEW r \in Procs, Live(r), Same(r), \A q \in Procs \ {r} : ~Live(q)
  PROVE  \A q \in Procs \ {r} : ~Live(q)'
<1> SUFFICES ASSUME NEW q \in Procs \ {r}, Live(q)' PROVE FALSE
  BY Zenon
<1>1. ~Live(q) /\ q \in Procs /\ q # r
  BY SMTT(30)
<1>2. ~Same(q)
  BY Zenon, <1>1 DEF Same, Live
<1>3. ~Boot
  BY Zenon, BootDoes
<1>4. ASSUME NEW p \in Procs, Moves(p) \/ Recover(p) \/ Bind(p) \/ BindErr(p) PROVE FALSE
  <2>1. q = p
    BY ZenonT(30), <1>1, <1>2, <1>4, MoveDoes, RecoverDoes, BindDoes, BindErrDoes DEF Others
  <2>2. phase[q] # "opening" /\ phase[q] # "starting" /\ phase[q] # "waiting"
    BY Zenon, <1>1, LivePhases
  <2>3. phase'[q] \in {"exited", "crashed"}
    BY ZenonT(30), <1>4, <2>1, <2>2, MoveDoes, RecoverDoes, BindDoes, BindErrDoes
  <2> QED  BY Zenon, <2>3 DEF Live
<1>5. ASSUME NEW p \in Procs, Restart(p) PROVE FALSE
  <2>1. phase[p] = "ready" /\ Live(p)
    BY Zenon, <1>5, RestartDoes, LivePhases
  <2>2. p = r
    BY Zenon, <2>1
  <2>3. phase'[p] = "waiting"
    BY Zenon, <1>5, RestartDoes
  <2> QED  BY Zenon, <2>1, <2>2, <2>3 DEF Same
<1> QED  BY Zenon, <1>3, <1>4, <1>5, StepCases

\* Where successors can use what they are given, only a process without parent binds,
\* and then it is the only one.
LEMMA BinderAlone ==
  ASSUME TypeInv, ServeInv, Inherits, NEW p \in Procs, Bind(p) \/ BindErr(p)
  PROVE  /\ phase[p] = "opening" /\ Live(p) /\ Serves(p) /\ recover[p] = <<>>
         /\ "skip" \notin faults /\ \A q \in Procs \ {p} : ~Live(q)
<1>1. "recover" \notin faults /\ "skip" \notin faults
  BY Zenon DEF Inherits
<1>2. phase[p] = "opening" /\ recover[p] = <<>> /\ calls[p] < NAddrs
  BY Zenon, <1>1, BindDoes, BindErrDoes
<1>3. Live(p) /\ Serves(p)
  BY Zenon, <1>2, LivePhases DEF ServeInv
<1>4. Len(recover[p]) + calls[p] # NAddrs
  BY SMTT(30), <1>2, GracefulAssumption DEF TypeInv, GracefulType
<1> QED  BY Zenon, <1>1, <1>2, <1>3, <1>4 DEF Serves

\* A process that the step does not touch.
LEMMA ServeSame ==
  ASSUME TypeInv, ServeInv, Inherits, Next, NEW r \in Procs, Same(r), Live(r)'
  PROVE  Serves(r)'
<1>1. Live(r) /\ Serves(r)
  BY Zenon DEF Same, Live, ServeInv
<1>2. ASSUME NEW p \in Procs, Bind(p) \/ BindErr(p) PROVE UNCHANGED path
  <2>1. ~Same(p) /\ (p # r => ~Live(r))
    <3>1. calls'[p] = calls[p] + 1
      BY Zenon, <1>2, BindDoes, BindErrDoes
    <3>2. calls'[p] # calls[p]
      BY SMTT(30), <3>1 DEF TypeInv, GracefulType
    <3> QED  BY Zenon, <1>2, <3>2, BinderAlone DEF Same
  <2> QED  BY Zenon, <1>1, <2>1
<1>3. UNCHANGED path
  BY ZenonT(30), <1>2, StepCases, BootDoes, MoveDoes, RecoverDoes, RestartDoes
<1>4. (\A q \in Procs \ {r} : ~Live(q)) => \A q \in Procs \ {r} : ~Live(q)'
  BY Zenon, <1>1, AloneStays
<1> QED  BY ZenonT(30), <1>1, <1>3, <1>4 DEF Serves, Same

\* new_listener with an fd of the parent.
LEMMA ServeRecover ==
  ASSUME TypeInv, OrderInv, ServeInv, Inherits, NEW p \in Procs, Recover(p)
  PROVE  Serves(p)'
<1>1. /\ phase[p] = "opening" /\ recover[p] # <<>> /\ calls'[p] = calls[p] + 1
      /\ listens'[p] = Append(listens[p], Head(recover[p])) /\ recover'[p] = Tail(recover[p])
      /\ owns'[p] = owns[p] \cup {<<calls[p] + 1, Head(recover[p])>>}
      /\ UNCHANGED <<phase, open, path>>
  BY Zenon, RecoverDoes
<1>2. Serves(p) /\ Len(listens[p]) = calls[p]
  BY Zenon, <1>1, LivePhases DEF ServeInv, OrderInv, InOrder, Inherits
<1>3. listens[p] \in Seq(Sockets) /\ recover[p] \in Seq(Sockets) /\ calls[p] \in Nat
  BY SMTT(30) DEF TypeInv, GracefulType
<1>4. /\ Len(recover[p]) \in Nat \ {0} /\ Len(recover'[p]) = Len(recover[p]) - 1
      /\ Head(recover[p]) = recover[p][1] /\ 1 \in 1..Len(recover[p])
      /\ \A i \in 1..Len(recover'[p]) : recover'[p][i] = recover[p][i + 1] /\ i + 1 \in 1..Len(recover[p])
  BY SMTT(30), <1>1, <1>3
<1>5. /\ Len(listens'[p]) = calls[p] + 1 /\ listens'[p][calls[p] + 1] = recover[p][1]
      /\ \A i \in 1..calls[p] : listens'[p][i] = listens[p][i] /\ i \in 1..calls[p] + 1
      /\ \A i \in 1..calls[p] + 1 : i \in 1..calls[p] \/ i = calls[p] + 1
      /\ calls[p] + 1 \in 1..calls[p] + 1
  BY SMTT(30), <1>1, <1>2, <1>3, <1>4
<1>6. \A i \in 1..Len(recover'[p]) : calls'[p] + i = calls[p] + (i + 1)
  <2>1. \A c, i \in Nat : (c + 1) + i = c + (i + 1)
    BY SMTT(30)
  <2>2. 1..Len(recover'[p]) \subseteq Nat
    BY SMTT(30), <1>4
  <2> QED  BY Zenon, <1>1, <1>3, <2>1, <2>2
<1>7. /\ \A i \in 1..Len(listens'[p]) : listens'[p][i] \in open'[p]
      /\ \A i \in 1..Len(listens'[p]) : i \in Unix => path'[i] = listens'[p][i]
  BY Zenon, <1>1, <1>2, <1>4, <1>5 DEF Serves
<1>8. \A i \in 1..Len(recover'[p]) :
        recover'[p][i] \in open'[p] /\ (calls'[p] + i \in Unix => path'[calls'[p] + i] = recover'[p][i])
  BY Zenon, <1>1, <1>2, <1>4, <1>6 DEF Serves
<1>9. \A x \in owns'[p] : x[1] \in 1..Len(listens'[p]) /\ listens'[p][x[1]] = x[2]
  <2>1. \A x \in owns[p] : x[1] \in 1..calls[p] /\ listens[p][x[1]] = x[2]
    BY Zenon, <1>2 DEF Serves
  <2>2. \A x \in owns[p] : x[1] \in 1..Len(listens'[p]) /\ listens'[p][x[1]] = x[2]
    BY Zenon, <1>5, <2>1
  <2>3. \A x \in owns'[p] : x \in owns[p] \/ (x[1] = calls[p] + 1 /\ x[2] = recover[p][1])
    BY SMTT(30), <1>1, <1>4
  <2> QED  BY Zenon, <1>5, <2>2, <2>3
<1>10. Len(recover'[p]) + calls'[p] = NAddrs
  <2>1. Len(recover[p]) + calls[p] = NAddrs
    BY Zenon, <1>1, <1>2 DEF Serves
  <2>2. \A n, c \in Nat : (n - 1) + (c + 1) = n + c
    BY SMTT(30)
  <2> QED  BY Zenon, <1>1, <1>3, <1>4, <2>1, <2>2
<1> QED  BY Zenon, <1>7, <1>8, <1>9, <1>10 DEF Serves

\* new_listener of the first generation.
LEMMA ServeBind ==
  ASSUME TypeInv, OrderInv, ServeInv, Inherits, NEW p \in Procs, Bind(p)
  PROVE  Serves(p)'
<1> DEFINE a == calls[p] + 1
           s == NextSocket
<1>1. /\ phase[p] = "opening" /\ recover[p] = <<>> /\ Serves(p)
      /\ \A q \in Procs \ {p} : ~Live(q)
  BY Zenon, BinderAlone
<1>2. /\ recover'[p] = <<>> /\ listens'[p] = Append(listens[p], s) /\ s \in Sockets
      /\ owns'[p] = owns[p] \cup {<<a, s>>} /\ open'[p] = Dropped(p) \cup {s}
      /\ path' = (IF a \in Unix THEN [path EXCEPT ![a] = s] ELSE path)
      /\ calls[p] < NAddrs /\ Others(p)
  BY Zenon, <1>1, BindDoes
<1>3. open[p] \subseteq open'[p] /\ s \in open'[p]
  BY Zenon, <1>1, <1>2 DEF Dropped
<1>4. /\ listens[p] \in Seq(Sockets) /\ calls[p] \in Nat /\ path \in [Addrs -> 0..MaxSockets]
      /\ NAddrs \in Nat
  BY SMTT(30), GracefulAssumption DEF TypeInv, GracefulType
<1>5. Len(listens[p]) = calls[p]
  BY Zenon, <1>1 DEF OrderInv, InOrder, Inherits
<1>6. a \in Addrs
  BY SMTT(30), <1>2, <1>4 DEF Addrs
<1>7. /\ Len(listens'[p]) = a /\ listens'[p][a] = s /\ a \in 1..a
      /\ \A i \in 1..calls[p] : listens'[p][i] = listens[p][i] /\ i \in 1..a /\ i # a
      /\ \A i \in 1..a : i \in 1..calls[p] \/ i = a
  BY SMTT(30), <1>2, <1>4, <1>5
<1> HIDE DEF a, s
<1>8. (a \in Unix => path'[a] = s) /\ \A i \in 1..calls[p] : path'[i] = path[i]
  BY SMTT(30), <1>2, <1>4, <1>6, <1>7
<1>9. /\ \A i \in 1..Len(listens'[p]) : listens'[p][i] \in open'[p]
      /\ \A i \in 1..Len(listens'[p]) : i \in Unix => path'[i] = listens'[p][i]
  BY Zenon, <1>1, <1>3, <1>5, <1>7, <1>8 DEF Serves
<1>10. \A x \in owns'[p] : x[1] \in 1..Len(listens'[p]) /\ listens'[p][x[1]] = x[2]
  <2>1. \A x \in owns[p] : x[1] \in 1..calls[p] /\ listens[p][x[1]] = x[2]
    BY Zenon, <1>1, <1>5 DEF Serves
  <2>2. \A x \in owns[p] : x[1] \in 1..Len(listens'[p]) /\ listens'[p][x[1]] = x[2]
    BY Zenon, <1>7, <2>1
  <2>3. \A x \in owns'[p] : x \in owns[p] \/ (x[1] = a /\ x[2] = s)
    BY SMTT(30), <1>2
  <2> QED  BY Zenon, <1>7, <2>2, <2>3
<1>11. 1..Len(recover'[p]) = {}
  BY SMTT(30), <1>2
<1>12. \A q \in Procs \ {p} : ~Live(q)'
  BY Zenon, <1>1, <1>2 DEF Others, Same, Live
<1> QED  BY Zenon, <1>2, <1>9, <1>10, <1>11, <1>12 DEF Serves

\* Every step keeps ServeInv.
LEMMA ServeStep ==
  ASSUME TypeInv, OrderInv, ServeInv, Next
  PROVE  ServeInv'
<1>1. UNCHANGED faults
  BY Zenon, Fixed
<1> SUFFICES ASSUME Inherits, NEW r \in Procs, Live(r)' PROVE Serves(r)'
  BY Zenon, <1>1 DEF ServeInv, Inherits
<1>2. CASE Same(r)
  BY Zenon, <1>2, ServeSame
<1>3. CASE Boot /\ r = NextProc
  <2>1. /\ UNCHANGED <<recover, listens, owns>> /\ phase[r] = "none"
        /\ Others(r) /\ \A q \in Procs : ~Live(q)
    BY Zenon, <1>3, BootDoes
  <2>2. recover'[r] = <<>> /\ listens'[r] = <<>> /\ owns'[r] = {}
    BY Zenon, <2>1 DEF TypeInv, Blank
  <2>3. \A q \in Procs \ {r} : ~Live(q)'
    BY Zenon, <2>1 DEF Others, Same, Live
  <2>4. 1..Len(recover'[r]) = {} /\ 1..Len(listens'[r]) = {}
    BY SMTT(30), <2>2
  <2> QED  BY Zenon, <2>2, <2>3, <2>4 DEF Serves
<1>4. ASSUME NEW p \in Procs, Moves(p), r = p
      PROVE  Serves(r)'
  <2>1. /\ phase[p] \in {"opening", "starting", "waiting"} /\ phase'[p] # "opening"
        /\ open'[p] = open[p]
    BY Zenon, <1>4, MoveDoes DEF Live
  <2>2. Serves(p)
    BY Zenon, <2>1, LivePhases DEF ServeInv
  <2>3. /\ recover'[p] = recover[p] /\ listens'[p] = listens[p] /\ calls'[p] = calls[p]
        /\ owns'[p] = owns[p] /\ path' = path
    BY Zenon, <1>4, MoveDoes
  <2> QED  BY Zenon, <1>4, <2>1, <2>2, <2>3 DEF Serves
<1>5. ASSUME NEW p \in Procs, Recover(p) \/ Bind(p), r = p
      PROVE  Serves(r)'
  BY Zenon, <1>5, ServeRecover, ServeBind
<1>6. ASSUME NEW p \in Procs, BindErr(p), r = p
      PROVE  FALSE
  <2>1. phase'[p] = "exited"
    BY Zenon, <1>6, BinderAlone, BindErrDoes
  <2> QED  BY Zenon, <1>6, <2>1 DEF Live
<1>7. ASSUME NEW p \in Procs, Restart(p), ~Same(r)
      PROVE  Serves(r)'
  <2>1. PICK q \in Procs :
           /\ q # p /\ phase[p] = "ready" /\ phase[q] = "none"
           /\ phase'[p] = "waiting" /\ phase'[q] \in {"opening", "exited"}
           /\ recover'[q] = listens[p] /\ recover'[p] = recover[p]
           /\ open'[q] = Range(listens[p]) /\ open'[p] = open[p]
           /\ \A n \in Procs : n \notin {p, q} => Same(n)
           /\ UNCHANGED <<listens, calls, owns, path>>
    BY Zenon, <1>7, RestartDoes
  <2>2. Serves(p) /\ Len(listens[p]) = NAddrs
    BY Zenon, <2>1, LivePhases DEF ServeInv, OrderInv, InOrder, Inherits
  <2>3. CASE r = p
    BY ZenonT(30), <2>1, <2>2, <2>3 DEF Serves
  <2>4. CASE r = q
    <3>1. listens[q] = <<>> /\ calls[q] = 0 /\ owns[q] = {}
      BY Zenon, <2>1 DEF TypeInv, Blank
    <3>2. listens[p] \in Seq(Sockets) /\ 1..Len(listens'[q]) = {}
      BY SMTT(30), <2>1, <3>1 DEF TypeInv, GracefulType
    <3>3. \A i \in 1..Len(listens[p]) : listens[p][i] \in open'[q] /\ calls'[q] + i = i
      BY SMTT(30), <2>1, <3>1, <3>2 DEF Range
    <3>4. Len(recover'[q]) + calls'[q] = NAddrs
      BY SMTT(30), <2>1, <2>2, <3>1, <3>2
    <3>5. \A i \in 1..Len(recover'[q]) :
            calls'[q] + i \in Unix => path'[calls'[q] + i] = recover'[q][i]
      BY Zenon, <2>1, <2>2, <3>3 DEF Serves
    <3>6. owns'[q] = {}
      BY Zenon, <2>1, <3>1
    <3> QED  BY Zenon, <2>1, <2>4, <3>2, <3>3, <3>4, <3>5, <3>6 DEF Serves
  <2> QED  BY Zenon, <1>7, <2>1, <2>3, <2>4
<1>8. ASSUME ~Same(r), NEW p \in Procs, Moves(p) \/ Recover(p) \/ Bind(p) \/ BindErr(p)
      PROVE  r = p
  BY ZenonT(30), <1>8, MoveDoes, RecoverDoes, BindDoes, BindErrDoes DEF Others
<1>9. ASSUME ~Same(r), Boot PROVE r = NextProc
  BY Zenon, <1>9, BootDoes DEF Others
<1> QED  BY ZenonT(30), <1>2, <1>3, <1>4, <1>5, <1>6, <1>7, <1>8, <1>9, StepCases

-----------------------------------------------------------------------------
(***************************************************************************)
(* Parents and children.                                                    *)
(***************************************************************************)
\* Once a process is past opening its listeners it does not go back, and keeps them.
LEMMA SettledStays ==
  ASSUME TypeInv, Next, NEW n \in Procs,
         phase[n] \in {"ready", "waiting", "exited", "crashed"}
  PROVE  /\ phase'[n] \in {"ready", "waiting", "exited", "crashed"}
         /\ listens'[n] = listens[n] /\ parent'[n] = parent[n]
<1>1. CASE Same(n)
  BY Zenon, <1>1 DEF Same
<1>2. CASE Boot
  BY Zenon, <1>1, <1>2, BootDoes DEF Others
<1>3. ASSUME NEW p \in Procs, Moves(p)
      PROVE  /\ phase'[n] \in {"ready", "waiting", "exited", "crashed"}
             /\ listens'[n] = listens[n] /\ parent'[n] = parent[n]
  <2>1. CASE n = p
    BY Zenon, <1>3, <2>1, MoveDoes
  <2> QED  BY Zenon, <1>1, <1>3, <2>1, MoveDoes DEF Others
<1>4. ASSUME NEW p \in Procs, Recover(p) \/ Bind(p) \/ BindErr(p) PROVE Same(n)
  <2>1. phase[p] = "opening"
    BY Zenon, <1>4, RecoverDoes, BindDoes, BindErrDoes
  <2>2. n # p
    BY Zenon, <2>1
  <2> QED  BY Zenon, <1>4, <2>2, RecoverDoes, BindDoes, BindErrDoes DEF Others
<1>5. ASSUME NEW p \in Procs, Restart(p)
      PROVE  /\ phase'[n] \in {"ready", "waiting", "exited", "crashed"}
             /\ listens'[n] = listens[n] /\ parent'[n] = parent[n]
  <2>1. PICK q \in Procs :
           /\ phase[q] = "none" /\ phase'[p] = "waiting" /\ parent'[p] = parent[p]
           /\ \A m \in Procs : m \notin {p, q} => Same(m)
           /\ UNCHANGED listens
    BY Zenon, <1>5, RestartDoes
  <2>2. n # q
    BY Zenon, <2>1
  <2>3. CASE n = p
    BY Zenon, <2>1, <2>3
  <2> QED  BY Zenon, <1>1, <2>1, <2>2, <2>3
<1> QED  BY Zenon, <1>1, <1>2, <1>3, <1>4, <1>5, StepCases

\* A process that has been started keeps its parent and, while it lives, the fds it could
\* use from the start.
LEMMA StartedKeeps ==
  ASSUME TypeInv, Next, NEW q \in Procs, phase[q] # "none"
  PROVE  /\ phase'[q] # "none" /\ parent'[q] = parent[q]
         /\ Inherits /\ Live(q)' => Live(q) /\ open[q] \subseteq open'[q]
<1> DEFINE Keeps == /\ phase'[q] # "none" /\ parent'[q] = parent[q]
                    /\ Inherits /\ Live(q)' => Live(q) /\ open[q] \subseteq open'[q]
<1>1. CASE Same(q)
  BY Zenon, <1>1 DEF Same, Live
<1>2. ASSUME NEW p \in Procs, Moves(p), q = p PROVE Keeps
  <2>1. /\ parent'[p] = parent[p] /\ phase'[p] # "none"
        /\ \/ phase'[p] \in {"exited", "crashed"}
           \/ phase[p] \in {"opening", "starting", "waiting"} /\ open'[p] = open[p]
    BY Zenon, <1>2, MoveDoes
  <2> QED  BY Zenon, <1>2, <2>1 DEF Live
<1>3. ASSUME NEW p \in Procs, Recover(p), q = p PROVE Keeps
  BY Zenon, <1>3, RecoverDoes DEF Live
<1>4. ASSUME NEW p \in Procs, Bind(p), q = p PROVE Keeps
  <2>1. /\ UNCHANGED <<phase, parent>> /\ open'[p] = Dropped(p) \cup {NextSocket}
        /\ recover[p] # <<>> => "recover" \in faults
    BY Zenon, <1>4, BindDoes
  <2>2. Inherits => Dropped(p) = open[p]
    BY Zenon, <2>1 DEF Inherits, Dropped
  <2> QED  BY Zenon, <1>4, <2>1, <2>2 DEF Live
<1>5. ASSUME NEW p \in Procs, BindErr(p), q = p PROVE Keeps
  <2>1. /\ UNCHANGED parent /\ phase'[p] \in {"opening", "exited"}
        /\ "skip" \notin faults => phase'[p] = "exited"
    BY Zenon, <1>5, BindErrDoes
  <2> QED  BY Zenon, <1>5, <2>1 DEF Live, Inherits
<1>6. ASSUME NEW p \in Procs, Restart(p), ~Same(q) PROVE Keeps
  <2>1. PICK n \in Procs :
           /\ phase[p] = "ready" /\ phase[n] = "none" /\ phase'[p] = "waiting"
           /\ parent'[p] = parent[p] /\ open'[p] = open[p]
           /\ \A r \in Procs : r \notin {p, n} => Same(r)
    BY Zenon, <1>6, RestartDoes
  <2>2. q = p
    BY Zenon, <1>6, <2>1
  <2> QED  BY Zenon, <2>1, <2>2 DEF Live
<1>7. ASSUME ~Same(q), NEW p \in Procs, Moves(p) \/ Recover(p) \/ Bind(p) \/ BindErr(p)
      PROVE  q = p
  BY ZenonT(30), <1>7, MoveDoes, RecoverDoes, BindDoes, BindErrDoes DEF Others
<1>8. CASE Boot
  BY Zenon, <1>1, <1>8, BootDoes DEF Others
<1> HIDE DEF Keeps
<1>9. Keeps
  BY Zenon, <1>1, <1>2, <1>3, <1>4, <1>5, <1>6, <1>7, <1>8, StepCases DEF Keeps
<1> QED  BY Zenon, <1>9 DEF Keeps

\* Only a restart gives a parent, and only a restart makes a process wait.
LEMMA RestartOnly ==
  ASSUME TypeInv, Next, NEW q \in Procs,
         parent'[q] # parent[q] \/ (phase'[q] = "waiting" /\ phase[q] # "waiting")
  PROVE  \E p \in Procs : Restart(p)
<1>1. ~Same(q)
  BY Zenon DEF Same
<1>2. ASSUME Boot PROVE FALSE
  <2>1. q = NextProc
    BY Zenon, <1>1, <1>2, BootDoes DEF Others
  <2>2. parent' = parent /\ phase'[q] = "opening"
    BY Zenon, <1>2, <2>1, BootDoes
  <2> QED  BY Zenon, <2>2
<1>3. ASSUME NEW p \in Procs, Moves(p) \/ Recover(p) \/ Bind(p) \/ BindErr(p)
      PROVE  FALSE
  <2>1. q = p
    BY ZenonT(30), <1>1, <1>3, MoveDoes, RecoverDoes, BindDoes, BindErrDoes DEF Others
  <2>2. CASE Moves(p)
    BY Zenon, <2>1, <2>2, MoveDoes
  <2>3. CASE Recover(p) \/ Bind(p)
    BY Zenon, <2>1, <2>3, RecoverDoes, BindDoes
  <2>4. CASE BindErr(p)
    <3>1. parent' = parent /\ phase'[p] \in {"opening", "exited"}
      BY Zenon, <2>4, BindErrDoes
    <3> QED  BY Zenon, <2>1, <3>1
  <2> QED  BY Zenon, <1>3, <2>2, <2>3, <2>4
<1> QED  BY Zenon, <1>2, <1>3, StepCases

\* The families stay families.
LEMMA FamilyStep ==
  ASSUME TypeInv, FamilyInv, Next
  PROVE  FamilyInv'
<1>0. UNCHANGED faults
  BY Zenon, Fixed
<1>1. ASSUME NEW q \in Procs, parent[q] # 0 PROVE Raised(q)'
  <2>1. /\ phase[q] # "none" /\ Raised(q)
        /\ phase[parent[q]] \in {"ready", "waiting", "exited", "crashed"}
    BY Zenon, <1>1 DEF FamilyInv, Raised
  <2>2. parent[q] \in Procs
    BY SMTT(30), <1>1, GracefulAssumption DEF TypeInv, GracefulType, Procs
  <2>3. /\ phase'[parent[q]] \in {"ready", "waiting", "exited", "crashed"}
        /\ listens'[parent[q]] = listens[parent[q]]
    BY Zenon, <2>1, <2>2, SettledStays
  <2>4. /\ phase'[q] # "none" /\ parent'[q] = parent[q]
        /\ Inherits /\ Live(q)' => Live(q) /\ open[q] \subseteq open'[q]
    BY Zenon, <2>1, StartedKeeps
  <2>5. Inherits' = Inherits
    BY Zenon, <1>0 DEF Inherits
  <2>6. ASSUME Inherits, Live(q)', NEW i \in 1..Len(listens[parent[q]])
        PROVE  listens[parent[q]][i] \in open'[q]
    BY Zenon, <1>1, <2>1, <2>4, <2>6 DEF Raised
  <2> QED  BY Zenon, <2>3, <2>4, <2>5, <2>6 DEF Raised
<1>2. ASSUME NEW q \in Procs, parent[q] = 0, parent'[q] # 0 PROVE Raised(q)'
  <2>1. PICK p \in Procs : Restart(p)
    BY Zenon, <1>2, RestartOnly
  <2>2. PICK n \in Procs :
           /\ n # p /\ phase'[p] = "waiting" /\ phase'[n] \in {"opening", "exited"}
           /\ parent'[n] = p /\ parent'[p] = parent[p] /\ open'[n] = Range(listens[p])
           /\ \A r \in Procs : r \notin {p, n} => Same(r)
           /\ UNCHANGED listens
    BY Zenon, <2>1, RestartDoes
  <2>3. q = n
    BY Zenon, <1>2, <2>2 DEF Same
  <2>4. \A i \in 1..Len(listens[p]) : listens[p][i] \in open'[n]
    BY SMTT(30), <2>2 DEF TypeInv, GracefulType, Range
  <2> QED  BY Zenon, <2>2, <2>3, <2>4 DEF Raised
<1>3. ASSUME NEW p \in Procs, phase'[p] = "waiting" PROVE Children(p)' # {}
  <2>1. CASE phase[p] = "waiting"
    <3>1. PICK q \in Procs : parent[q] = p
      BY Zenon, <2>1 DEF FamilyInv, Children
    <3>2. p # 0
      BY SMTT(30), GracefulAssumption DEF Procs
    <3>3. parent'[q] = p
      BY Zenon, <3>1, <3>2, StartedKeeps DEF FamilyInv, Raised
    <3> QED  BY Zenon, <3>3 DEF Children
  <2>2. CASE phase[p] # "waiting"
    <3>1. PICK m \in Procs : Restart(m)
      BY Zenon, <1>3, <2>2, RestartOnly
    <3>2. PICK n \in Procs :
             /\ phase'[n] \in {"opening", "exited"} /\ parent'[n] = m
             /\ \A r \in Procs : r \notin {m, n} => Same(r)
      BY Zenon, <3>1, RestartDoes
    <3>3. p # n
      BY Zenon, <1>3, <3>2
    <3>4. p = m
      BY Zenon, <1>3, <2>2, <3>2, <3>3 DEF Same
    <3> QED  BY Zenon, <3>2, <3>4 DEF Children
  <2> QED  BY Zenon, <2>1, <2>2
<1>4. ASSUME NEW q \in Procs PROVE Raised(q)'
  <2>1. CASE parent'[q] = 0
    BY Zenon, <2>1 DEF Raised
  <2> QED  BY Zenon, <1>1, <1>2, <2>1
<1> QED  BY Zenon, <1>3, <1>4 DEF FamilyInv

-----------------------------------------------------------------------------
(***************************************************************************)
(* The theorems.                                                            *)
(***************************************************************************)
LEMMA InitInv ==
  ASSUME Init
  PROVE  GracefulInv
<1>1. <<>> \in Seq(Sockets) /\ 0 \in 0..NAddrs /\ 0 \in 0..MaxProcs /\ 0 \in 0..MaxSockets
  BY SMTT(30), GracefulAssumption
<1>2. TypeInv
  BY Zenon, <1>1 DEF Init, TypeInv, GracefulType, Blank, Phases
<1>3. ASSUME NEW p \in Procs
      PROVE  InOrder(p) /\ ~Live(p) /\ Raised(p) /\ phase[p] # "waiting"
  BY SMTT(30), <1>3 DEF Init, InOrder, Live, Raised
<1> QED  BY Zenon, <1>2, <1>3 DEF GracefulInv, OrderInv, ServeInv, FamilyInv

\* A stuttering step keeps GracefulInv.
LEMMA StutterInv ==
  ASSUME GracefulInv, UNCHANGED vars
  PROVE  GracefulInv'
<1>1. /\ phase' = phase /\ parent' = parent /\ recover' = recover /\ listens' = listens
      /\ calls' = calls /\ open' = open /\ owns' = owns /\ addr' = addr /\ path' = path
      /\ faults' = faults
  BY Zenon DEF vars
<1>2. TypeInv'
  BY Zenon, <1>1 DEF GracefulInv, TypeInv, GracefulType, Blank
<1>3. OrderInv'
  BY Zenon, <1>1 DEF GracefulInv, OrderInv, InOrder
<1>4. ServeInv'
  BY Zenon, <1>1 DEF GracefulInv, ServeInv, Serves, Live, Inherits
<1>5. FamilyInv'
  BY Zenon, <1>1 DEF GracefulInv, FamilyInv, Raised, Children, Live, Inherits
<1> QED  BY Zenon, <1>2, <1>3, <1>4, <1>5 DEF GracefulInv

\* The inductive invariant of the generations: types, the order of the fds, what a live
\* process serves, and what a child has of its parent.
THEOREM GracefulInvariant == Spec => []GracefulInv
<1>1. Init => GracefulInv
  BY Zenon, InitInv
<1>2. GracefulInv /\ [Next]_vars => GracefulInv'
  BY Zenon, TypeStep, OrderStep, ServeStep, FamilyStep, StutterInv DEF GracefulInv
<1> QED  BY <1>1, <1>2, PTL DEF Spec

\* In every generation a listener that new_listener returns for an address is bound to that
\* address, whatever fails but the program's own decision to skip a listener: the fds are
\* handed on and taken in the order of the calls.
THEOREM ListenersMatch == Spec => []ListenerMatches
<1>1. GracefulInv => ListenerMatches
  BY Zenon DEF GracefulInv, OrderInv, InOrder, ListenerMatches
<1> QED  BY <1>1, GracefulInvariant, PTL

\* While a process serves or waits for its successor, every path it got a listener for leads
\* to a socket that a live process has open, if successors can use the fds they are given.
THEOREM PathsReachable == Spec => []Reachable
<1>1. ASSUME GracefulInv PROVE Reachable
  <2> SUFFICES ASSUME Inherits, NEW p \in Procs, phase[p] \in {"ready", "waiting"},
                      NEW x \in owns[p], x[1] \in Unix
               PROVE  \E q \in Procs : Live(q) /\ path[x[1]] \in open[q]
    BY Zenon DEF Reachable
  <2>1. Live(p)
    BY Zenon DEF Live
  <2>2. Serves(p)
    BY Zenon, <1>1, <2>1 DEF GracefulInv, ServeInv
  <2>3. path[x[1]] \in open[p]
    BY Zenon, <2>2 DEF Serves
  <2> QED  BY Zenon, <2>1, <2>3
<1> QED  BY <1>1, GracefulInvariant, PTL

\* A waiting process that exits has seen its successor's file, or ran out of time.
LEMMA WaitEnds ==
  ASSUME TypeInv, Next, NEW p \in Procs, phase[p] = "waiting", phase'[p] = "exited"
  PROVE  SeeSync(p) \/ TimeOut(p)
<1>1. ~Same(p)
  BY Zenon DEF Same
<1>2. ASSUME Boot PROVE FALSE
  BY Zenon, <1>1, <1>2, BootDoes DEF Others
<1>3. ASSUME NEW n \in Procs, Moves(n) \/ Opens(n) PROVE n = p
  BY ZenonT(30), <1>1, <1>3, MoveDoes, RecoverDoes, BindDoes, BindErrDoes DEF Others, Opens
<1>4. ASSUME NEW n \in Procs, Opens(n) PROVE FALSE
  <2>1. n = p /\ phase[n] = "opening"
    BY Zenon, <1>3, <1>4, RecoverDoes, BindDoes, BindErrDoes DEF Opens
  <2> QED  BY Zenon, <2>1
<1>5. ASSUME NEW n \in Procs, Restart(n) PROVE FALSE
  <2>1. PICK q \in Procs :
           /\ phase[q] = "none" /\ phase[n] = "ready"
           /\ \A r \in Procs : r \notin {n, q} => Same(r)
    BY Zenon, <1>5, RestartDoes
  <2>2. p # q /\ p # n
    BY Zenon, <2>1
  <2> QED  BY Zenon, <1>1, <2>1, <2>2
<1>6. ASSUME Crash(p) \/ Readies(p) \/ CloseSignal(p) PROVE FALSE
  <2>1. ~Crash(p)
    BY Zenon DEF Crash, TypeInv, GracefulType
  <2>2. ~Readies(p) /\ ~CloseSignal(p)
    BY Zenon DEF Readies, WritePid, WritePidErr, Announce, CloseSignal
  <2> QED  BY Zenon, <1>6, <2>1, <2>2
<1> QED  BY Zenon, <1>2, <1>3, <1>4, <1>5, <1>6, MoveActions DEF Next

\* A parent that waits for its successor exits only if the successor has written its
\* start-up file, or is alive and has every listener of the parent open.
THEOREM HandOverCorrect == Spec => HandedOver
<1> DEFINE Over(p) == \/ Child(p) \in sync
                      \/ Live(Child(p)) /\ (Inherits => Range(listens[p]) \subseteq open[Child(p)])
<1>1. ASSUME GracefulInv, Next, NEW p \in Procs, phase[p] = "waiting", phase'[p] = "exited"
      PROVE  Over(p)
  <2>1. CASE SeeSync(p)
    BY Zenon, <2>1 DEF SeeSync
  <2>2. CASE TimeOut(p)
    <3>1. Live(Child(p))
      BY Zenon, <1>1, <2>2 DEF TimeOut, GracefulInv, TypeInv, GracefulType
    <3>2. Child(p) \in Procs /\ parent[Child(p)] = p
      BY Zenon, <1>1, ChildOfParent DEF GracefulInv, FamilyInv
    <3>3. p # 0
      BY SMTT(30), GracefulAssumption DEF Procs
    <3>4. Inherits => \A i \in 1..Len(listens[p]) : listens[p][i] \in open[Child(p)]
      BY Zenon, <1>1, <3>1, <3>2, <3>3 DEF GracefulInv, FamilyInv, Raised
    <3>5. listens[p] \in Seq(Sockets)
      BY Zenon, <1>1 DEF GracefulInv, TypeInv, GracefulType
    <3>6. Inherits => Range(listens[p]) \subseteq open[Child(p)]
      BY SMTT(30), <3>4, <3>5 DEF Range
    <3> QED  BY Zenon, <3>1, <3>6
  <2> QED  BY Zenon, <1>1, <2>1, <2>2, WaitEnds DEF GracefulInv
<1>2. ASSUME UNCHANGED vars, NEW p \in Procs, phase[p] = "waiting", phase'[p] = "exited"
      PROVE  FALSE
  BY Zenon, <1>2 DEF vars
<1>3. GracefulInv /\ [Next]_vars =>
        [\A p \in Procs : phase[p] = "waiting" /\ phase'[p] = "exited" => Over(p)]_vars
  BY Zenon, <1>1, <1>2
<1> QED  BY <1>3, GracefulInvariant, PTL DEF Spec, HandedOver
=============================================================================
