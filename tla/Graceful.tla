------------------------------ MODULE Graceful ------------------------------
(***************************************************************************)
(* GracefulServer (core/src/graceful.rs): generations of one program hand   *)
(* their listeners on.  A program opens its listeners in order, writes its  *)
(* pid file and waits for signals; told to restart, it spawns its successor *)
(* with the fds of its listeners in the environment, and waits for the      *)
(* file by which the successor says that it is up.  Listeners are those of  *)
(* transport/tcp/src/net.rs.                                                *)
(*                                                                         *)
(* An inherited fd has the same number in the successor, so a socket stands *)
(* for its fd.  Addresses are 1..NAddrs, in the order of the calls.         *)
(***************************************************************************)
EXTENDS Integers, Sequences, Functions

CONSTANTS
  NAddrs,     \* how many listeners the program opens
  Unix,       \* the addresses that are paths
  MaxProcs,   \* bound: processes ever started
  MaxSockets, \* bound: sockets ever bound
  FaultSets   \* sets of what may fail: "recover" an fd, "bind" an address, write the "pid"
              \* file or the "sync" file, "wait" for the successor, "crash"; with "skip" the
              \* program goes on without a listener that could not be opened

ASSUME GracefulAssumption ==
  /\ {NAddrs, MaxProcs, MaxSockets} \subseteq Nat /\ Unix \subseteq 1..NAddrs
  /\ \A F \in FaultSets : F \subseteq {"recover", "bind", "pid", "sync", "wait", "crash", "skip"}

VARIABLES
  phase,      \* of each process: none, opening, starting, ready, waiting, exited, crashed
  parent,     \* who spawned it, 0: nobody
  recover,    \* recover_listen_fds
  listens,    \* listen_fds
  calls,      \* how often it has called new_listener
  open,       \* the sockets it has open
  owns,       \* the pairs <<address, socket>> new_listener gave it
  addr,       \* the address each socket was bound to, 0: not bound yet
  path,       \* the socket each unix path leads to, 0: the path is gone
  pidfile,    \* the process the pid file names
  sync,       \* the processes whose start-up file exists
  faults      \* what may fail in this behaviour

vars == <<phase, parent, recover, listens, calls, open, owns, addr, path, pidfile, sync, faults>>

Procs == 1..MaxProcs
Sockets == 1..MaxSockets
Addrs == 1..NAddrs
Live(p) == phase[p] \notin {"none", "exited", "crashed"}
Fresh == {p \in Procs : phase[p] = "none"}
NextProc == CHOOSE p \in Fresh : \A q \in Fresh : p <= q
Unbound == {s \in Sockets : addr[s] = 0}
NextSocket == CHOOSE s \in Unbound : \A t \in Unbound : s <= t
Children(p) == {q \in Procs : parent[q] = p}
Child(p) == CHOOSE q \in Children(p) : \A r \in Children(p) : r <= q

Init ==
  /\ phase = [p \in Procs |-> "none"] /\ parent = [p \in Procs |-> 0]
  /\ recover = [p \in Procs |-> <<>>] /\ listens = [p \in Procs |-> <<>>]
  /\ calls = [p \in Procs |-> 0] /\ open = [p \in Procs |-> {}]
  /\ owns = [p \in Procs |-> {}] /\ addr = [s \in Sockets |-> 0]
  /\ path = [a \in Addrs |-> 0] /\ pidfile = 0 /\ sync = {}
  /\ faults \in FaultSets

-----------------------------------------------------------------------------
(***************************************************************************)
(* Start and end of a process.                                              *)
(***************************************************************************)
\* Somebody starts the program, when none of its processes is left.
Boot ==
  /\ Fresh # {} /\ \A p \in Procs : ~Live(p)
  /\ phase' = [phase EXCEPT ![NextProc] = "opening"]
  /\ UNCHANGED <<parent, recover, listens, calls, open, owns, addr, path, pidfile, sync, faults>>

\* A process ends and the kernel closes what it had open.
Ends(p) ==
  /\ phase' = [phase EXCEPT ![p] = "exited"]
  /\ open' = [open EXCEPT ![p] = {}]

Crash(p) ==
  /\ "crash" \in faults /\ Live(p)
  /\ phase' = [phase EXCEPT ![p] = "crashed"] /\ open' = [open EXCEPT ![p] = {}]
  /\ UNCHANGED <<parent, recover, listens, calls, owns, addr, path, pidfile, sync, faults>>

-----------------------------------------------------------------------------
(***************************************************************************)
(* new_listener, for the address after the last one.                        *)
(***************************************************************************)
\* The fd is kept for the next generation, the listener given to the program.
Got(p, a, s) ==
  /\ owns' = [owns EXCEPT ![p] = @ \cup {<<a, s>>}]
  /\ listens' = [listens EXCEPT ![p] = Append(@, s)]

\* Mutant: the fds are taken from the end of the list.
RecoverLast(p) ==
  /\ phase[p] = "opening" /\ calls[p] < NAddrs /\ recover[p] # <<>>
  /\ Got(p, calls[p] + 1, recover[p][Len(recover[p])])
  /\ recover' = [recover EXCEPT ![p] = SubSeq(@, 1, Len(@) - 1)]
  /\ calls' = [calls EXCEPT ![p] = @ + 1]
  /\ UNCHANGED <<phase, parent, open, addr, path, pidfile, sync, faults>>

\* try_from_raw_fd does not look at the address the socket is bound to.
Recover(p) ==
  /\ phase[p] = "opening" /\ calls[p] < NAddrs /\ recover[p] # <<>>
  /\ Got(p, calls[p] + 1, Head(recover[p]))
  /\ recover' = [recover EXCEPT ![p] = Tail(@)]
  /\ calls' = [calls EXCEPT ![p] = @ + 1]
  /\ UNCHANGED <<phase, parent, open, addr, path, pidfile, sync, faults>>

\* What is open once a listener that could not be recovered has been dropped.
Dropped(p) == IF recover[p] = <<>> THEN open[p] ELSE open[p] \ {Head(recover[p])}

\* Mutant: an address is bound although there is an fd for it.
MayBindAlways(p) ==
  /\ phase[p] = "opening" /\ calls[p] < NAddrs
  /\ recover' = [recover EXCEPT ![p] = IF @ = <<>> THEN @ ELSE Tail(@)]
  /\ calls' = [calls EXCEPT ![p] = @ + 1]

\* No fd to recover, or it was no good.
MayBind(p) ==
  /\ phase[p] = "opening" /\ calls[p] < NAddrs
  /\ recover[p] # <<>> => "recover" \in faults
  /\ recover' = [recover EXCEPT ![p] = IF @ = <<>> THEN @ ELSE Tail(@)]
  /\ calls' = [calls EXCEPT ![p] = @ + 1]

\* bind of a TCP address: another socket must not be bound to it.
Free(p, a) ==
  \A s \in Sockets : addr[s] = a => s \notin Dropped(p) /\ \A q \in Procs \ {p} : s \notin open[q]

\* bind of a path removes the path, then links the new socket to it.
Bind(p) ==
  /\ MayBind(p) /\ Unbound # {}
  /\ LET a == calls[p] + 1 IN
     /\ a \in Unix \/ Free(p, a)
     /\ addr' = [addr EXCEPT ![NextSocket] = a]
     /\ open' = [open EXCEPT ![p] = Dropped(p) \cup {NextSocket}]
     /\ path' = IF a \in Unix THEN [path EXCEPT ![a] = NextSocket] ELSE path
     /\ Got(p, a, NextSocket)
  /\ UNCHANGED <<phase, parent, pidfile, sync, faults>>

\* bind fails, before or after it has removed the path; a path linked to the socket that
\* bind then closes leads nowhere either.  The program goes on, or ends.
BindErr(p) ==
  /\ MayBind(p)
  /\ LET a == calls[p] + 1 IN
     /\ "bind" \in faults \/ (a \notin Unix /\ ~Free(p, a))
     /\ path' \in {path} \cup {[path EXCEPT ![b] = 0] : b \in Unix \cap {a}}
  /\ IF "skip" \in faults THEN open' = [open EXCEPT ![p] = Dropped(p)] /\ UNCHANGED phase ELSE Ends(p)
  /\ UNCHANGED <<parent, listens, owns, addr, pidfile, sync, faults>>

-----------------------------------------------------------------------------
(***************************************************************************)
(* ready.                                                                   *)
(***************************************************************************)
WritePid(p) ==
  /\ phase[p] = "opening" /\ calls[p] = NAddrs
  /\ pidfile' = p /\ phase' = [phase EXCEPT ![p] = "starting"]
  /\ UNCHANGED <<parent, recover, listens, calls, open, owns, addr, path, sync, faults>>

WritePidErr(p) ==
  /\ "pid" \in faults /\ phase[p] = "opening" /\ calls[p] = NAddrs /\ Ends(p)
  /\ UNCHANGED <<parent, recover, listens, calls, owns, addr, path, pidfile, sync, faults>>

\* write_child_pid_file, whose failure is passed over, and the wait for signals.
Announce(p) ==
  /\ phase[p] = "starting"
  /\ phase' = [phase EXCEPT ![p] = "ready"]
  /\ \/ sync' = IF parent[p] # 0 THEN sync \cup {p} ELSE sync
     \/ "sync" \in faults /\ UNCHANGED sync
  /\ UNCHANGED <<parent, recover, listens, calls, open, owns, addr, path, pidfile, faults>>

\* A close signal: exit_closure, and the program ends.
CloseSignal(p) ==
  /\ phase[p] = "ready" /\ Ends(p)
  /\ UNCHANGED <<parent, recover, listens, calls, owns, addr, path, pidfile, sync, faults>>

-----------------------------------------------------------------------------
(***************************************************************************)
(* restart.                                                                 *)
(***************************************************************************)
\* Mutant: the last fd is left out of the list.
PassedFront(p) == SubSeq(listens[p], 1, Len(listens[p]) - 1)

\* The fds named in the environment; the fds of the listeners stay open across exec.
Passed(p) == listens[p]

\* spawn, with listen_fds in the environment; when it fails nothing happens.  Without a
\* listener the parse of the empty string ends the successor in check_recover.
Restart(p) ==
  /\ phase[p] = "ready" /\ Fresh # {}
  /\ LET q == NextProc IN
     /\ parent' = [parent EXCEPT ![q] = p]
     /\ recover' = [recover EXCEPT ![q] = Passed(p)]
     /\ phase' = [phase EXCEPT ![p] = "waiting",
                               ![q] = IF Passed(p) = <<>> THEN "exited" ELSE "opening"]
     /\ open' = [open EXCEPT ![q] = Range(listens[p])]
  /\ UNCHANGED <<listens, calls, owns, addr, path, pidfile, sync, faults>>

\* The successor's file is there.
SeeSync(p) ==
  /\ phase[p] = "waiting" /\ Child(p) \in sync
  /\ sync' = sync \ {Child(p)} /\ Ends(p)
  /\ UNCHANGED <<parent, recover, listens, calls, owns, addr, path, pidfile, faults>>

\* Mutant: the parent does not ask whether the successor has exited.
TimeOutBlind(p) ==
  /\ phase[p] = "waiting" /\ Ends(p)
  /\ UNCHANGED <<parent, recover, listens, calls, owns, addr, path, pidfile, sync, faults>>

\* restart_timeout is over: the parent stays when the successor has exited, or when it
\* cannot tell.
TimeOut(p) ==
  /\ phase[p] = "waiting"
  /\ \/ /\ ~Live(Child(p)) \/ "wait" \in faults
        /\ phase' = [phase EXCEPT ![p] = "ready"] /\ UNCHANGED open
     \/ Live(Child(p)) /\ Ends(p)
  /\ UNCHANGED <<parent, recover, listens, calls, owns, addr, path, pidfile, sync, faults>>

-----------------------------------------------------------------------------
Opens(p) == Recover(p) \/ Bind(p) \/ BindErr(p)
Readies(p) == WritePid(p) \/ WritePidErr(p) \/ Announce(p)

Next ==
  \/ Boot
  \/ \E p \in Procs :
       \/ Crash(p) \/ Opens(p) \/ Readies(p) \/ CloseSignal(p)
       \/ Restart(p) \/ SeeSync(p) \/ TimeOut(p)

Spec == Init /\ [][Next]_vars

\* A starting program runs on, and a waiting one comes to the end of its loop.
FairSpec ==
  /\ Spec
  /\ \A p \in Procs : WF_vars(Opens(p)) /\ WF_vars(Readies(p)) /\ WF_vars(SeeSync(p) \/ TimeOut(p))

-----------------------------------------------------------------------------
(***************************************************************************)
(* Properties.                                                              *)
(***************************************************************************)
Inherits == {"recover", "skip"} \cap faults = {}

\* A listener the program got for an address accepts the connections to that address,
\* in every generation (new_listener's order of fds), if a listener that fails ends the
\* program.
ListenerMatches ==
  "skip" \notin faults => \A p \in Procs : \A x \in owns[p] : addr[x[2]] = x[1]

\* While a program serves, whoever connects to one of its paths reaches a socket that a
\* live process has open, whatever a successor has tried meanwhile (restart's failure), if
\* successors can use the fds they are given: bind would remove the path.
Reachable ==
  Inherits => \A p \in Procs : phase[p] \in {"ready", "waiting"} =>
    \A x \in owns[p] : x[1] \in Unix =>
      \E q \in Procs : Live(q) /\ path[x[1]] \in open[q]

\* A parent that waits exits only if its successor has been up, or is alive and, if it can
\* use the fds it was given, has all of them open (restart's try_wait and start-up file).
HandedOver ==
  [][\A p \in Procs : phase[p] = "waiting" /\ phase'[p] = "exited" =>
       LET q == Child(p) IN
         \/ q \in sync
         \/ Live(q) /\ (Inherits => Range(listens[p]) \subseteq open[q])]_vars

\* A successor that is starting comes up, also when its parent has given it up or is
\* still there, holding the sockets it is to take over; the start-up file may fail.
RestartServes ==
  \A q \in Procs :
    parent[q] # 0 /\ phase[q] = "opening" /\ faults \subseteq {"sync"} ~> phase[q] = "ready"

=============================================================================
