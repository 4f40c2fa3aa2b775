-------------------------- MODULE ClientPool_proofs --------------------------
(***************************************************************************)
(* Proofs about ClientPool.tla, for any number of tasks, coroutines and     *)
(* outages, and any channel size: there is one monitor, and the pool keeps  *)
(* what PoolCalls.tla promises.                                             *)
(***************************************************************************)
EXTENDS ClientPool, FiniteSetTheorems, TLAPS

Sending == {"send", "wsend"}
Working == {"enter", "wrecv", "wsend", "wthrottle", "drain", "flush", "wend", "werr"}
Places == Working \cup Sending \cup
          {"free", "connect", "cleanup", "monitor", "ping", "lone_ping", "recv",
           "throttle", "send_err", "exit"}

Outcomes == Ends \cup {"new", "open", "lost"}

LiveSlots == {w \in Slots : Live(w)}

\* The coroutines: worker_count counts them, _run_worker is never entered by the monitor,
\* a coroutine in cleanup has set is_ok to false, there is one monitor at most, and a
\* monitor that is about to end, or has ended, has found the channel empty with no sender
\* left.
RoleInv ==
  /\ pc \in [Slots -> Places] /\ id \in [Slots -> Nat] /\ is_ok \in BOOLEAN
  /\ worker_count = Cardinality(LiveSlots)
  /\ \A w \in Slots : pc[w] \in Working => id[w] # 0
  /\ \A w \in Slots : pc[w] = "cleanup" => ~is_ok
  /\ \A v, w \in Slots : Live(v) /\ Live(w) /\ id[v] = 0 /\ id[w] = 0 => v = w
  /\ \/ \E w \in Slots : Live(w) /\ id[w] = 0 /\ pc[w] # "exit"
     \/ ~open /\ chan = <<>>

\* The tasks: one that is in the channel, in the hands of a coroutine or on a connection
\* has not ended, and is in one of these places only, once.
TaskInv ==
  /\ chan \in Seq(Tasks) /\ conn \in [Tasks -> Slots \cup {NoSlot, Orphan}]
  /\ DOMAIN held = Slots /\ result \in [Tasks -> Outcomes]
  /\ \A i \in 1..Len(chan) : result[chan[i]] = "open" /\ conn[chan[i]] = NoSlot
  /\ \A i, j \in 1..Len(chan) : chan[i] = chan[j] => i = j
  /\ \A w \in Slots : pc[w] \in Sending =>
       /\ held[w] \in Tasks /\ result[held[w]] = "open" /\ conn[held[w]] = NoSlot
       /\ \A i \in 1..Len(chan) : chan[i] # held[w]
  /\ \A v, w \in Slots :
       pc[v] \in Sending /\ pc[w] \in Sending /\ held[v] = held[w] => v = w
  /\ \A t \in Tasks : conn[t] # NoSlot => result[t] = "open"

PoolInv == RoleInv /\ TaskInv

-----------------------------------------------------------------------------
(***************************************************************************)
(* The roles of the coroutines.                                             *)
(***************************************************************************)
\* There are finitely many coroutines.
LEMMA LiveFinite ==
  ASSUME NEW S \in SUBSET Slots
  PROVE  IsFiniteSet(S) /\ Cardinality(S) \in Nat
<1>1. IsFiniteSet(Slots)
  BY FS_Interval, PoolAssumption DEF Slots
<1>2. IsFiniteSet(S)
  BY Zenon, <1>1, FS_Subset
<1>3. QED  BY Zenon, <1>2, FS_CardinalityType

\* While a handle is left worker_count counts at least the monitor, so the id that spawn
\* gives out is not 0.
LEMMA CountPositive ==
  ASSUME RoleInv, open
  PROVE  worker_count \in Nat \ {0}
<1>1. IsFiniteSet(LiveSlots) /\ Cardinality(LiveSlots) \in Nat
  BY Zenon, LiveFinite DEF LiveSlots
<1>2. LiveSlots # {}
  BY Zenon DEF RoleInv, LiveSlots
<1>3. QED  BY Zenon, <1>1, <1>2, FS_EmptySet DEF RoleInv

\* A coroutine goes from one place to another.
LEMMA Moves ==
  ASSUME RoleInv, NEW w \in Slots, NEW p \in Places \ {"free"}, Live(w),
         pc' = [pc EXCEPT ![w] = p], UNCHANGED <<open, id, worker_count>>,
         is_ok' \in BOOLEAN, is_ok' => is_ok, chan = <<>> => chan' = <<>>,
         p \in Working => id[w] # 0, p = "cleanup" => ~is_ok',
         p = "exit" => id[w] # 0 \/ (~open /\ chan = <<>>)
  PROVE  RoleInv'
<1>1. pc' \in [Slots -> Places] /\ id' \in [Slots -> Nat] /\ is_ok' \in BOOLEAN
  BY Zenon DEF RoleInv
<1>2. \A v \in Slots : pc'[v] = IF v = w THEN p ELSE pc[v]
  BY Zenon DEF RoleInv
<1>3. \A v \in Slots : Live(v)' <=> Live(v)
  BY Zenon, <1>2 DEF Live
<1>4. LiveSlots' = LiveSlots
  BY Zenon, <1>3 DEF LiveSlots
<1>5. worker_count' = Cardinality(LiveSlots')
  BY Zenon, <1>4 DEF RoleInv
<1>6. /\ \A v \in Slots : pc'[v] \in Working => id'[v] # 0
      /\ \A v \in Slots : pc'[v] = "cleanup" => ~is_ok'
  <2>1. ASSUME NEW v \in Slots, pc'[v] \in Working PROVE id'[v] # 0
    BY Zenon, <1>2, <2>1 DEF RoleInv
  <2>2. ASSUME NEW v \in Slots, pc'[v] = "cleanup" PROVE ~is_ok'
    BY Zenon, <1>2, <2>2 DEF RoleInv
  <2>3. QED  BY Zenon, <2>1, <2>2
<1>7. \A u, v \in Slots : Live(u)' /\ Live(v)' /\ id'[u] = 0 /\ id'[v] = 0 => u = v
  BY Zenon, <1>3 DEF RoleInv
<1>8. \/ \E v \in Slots : Live(v)' /\ id'[v] = 0 /\ pc'[v] # "exit"
      \/ ~open' /\ chan' = <<>>
  BY Zenon, <1>2, <1>3 DEF RoleInv
<1>9. QED  BY Zenon, <1>1, <1>5, <1>6, <1>7, <1>8 DEF RoleInv

\* Steps that change nothing of the coroutines' roles.
LEMMA RolesStay ==
  ASSUME RoleInv, UNCHANGED <<pc, id, is_ok, worker_count>>,
         open' \in {open, FALSE},
         (\E w \in Slots : Live(w) /\ id[w] = 0 /\ pc[w] # "exit") \/ UNCHANGED <<open, chan>>
  PROVE  RoleInv'
<1>1. \A v \in Slots : Live(v)' <=> Live(v)
  BY Zenon DEF Live
<1>2. LiveSlots' = LiveSlots
  BY Zenon, <1>1 DEF LiveSlots
<1>3. QED  BY <1>1, <1>2 DEF RoleInv

\* spawn.
LEMMA SpawnRoles ==
  ASSUME RoleInv, Spawn
  PROVE  RoleInv'
<1>0. worker_count \in Nat \ {0}
  BY Zenon, CountPositive DEF Spawn
<1>1. PICK w \in Slots : /\ NextSlot(w) /\ pc' = [pc EXCEPT ![w] = "connect"]
                         /\ id' = [id EXCEPT ![w] = worker_count]
  BY Zenon DEF Spawn
<1>2. worker_count' = worker_count + 1 /\ UNCHANGED <<open, is_ok, chan>> /\ ~Live(w)
  BY Zenon, <1>1 DEF Spawn, taskVars, NextSlot
<1>3. pc' \in [Slots -> Places] /\ id' \in [Slots -> Nat] /\ is_ok' \in BOOLEAN
  BY Zenon, <1>0, <1>1, <1>2 DEF RoleInv, Places
<1>4. \A v \in Slots : /\ pc'[v] = (IF v = w THEN "connect" ELSE pc[v])
                       /\ id'[v] = IF v = w THEN worker_count ELSE id[v]
  BY Zenon, <1>1 DEF RoleInv
<1>5. \A v \in Slots : Live(v)' <=> Live(v) \/ v = w
  BY Zenon, <1>4 DEF Live
<1>6. LiveSlots' = LiveSlots \cup {w} /\ w \notin LiveSlots
  BY Zenon, <1>2, <1>5 DEF LiveSlots
<1>7. worker_count' = Cardinality(LiveSlots')
  <2>1. IsFiniteSet(LiveSlots)
    BY Zenon, LiveFinite DEF LiveSlots
  <2>2. Cardinality(LiveSlots \cup {w}) = Cardinality(LiveSlots) + 1
    BY Zenon, <1>6, <2>1, FS_AddElement
  <2>3. QED  BY Zenon, <1>2, <1>6, <2>2 DEF RoleInv
<1>8. /\ \A v \in Slots : pc'[v] \in Working => id'[v] # 0
      /\ \A v \in Slots : pc'[v] = "cleanup" => ~is_ok'
  BY Zenon, <1>0, <1>2, <1>4 DEF RoleInv
<1>9. \A u, v \in Slots : Live(u)' /\ Live(v)' /\ id'[u] = 0 /\ id'[v] = 0 => u = v
  BY Zenon, <1>0, <1>4, <1>5 DEF RoleInv
<1>10. \/ \E v \in Slots : Live(v)' /\ id'[v] = 0 /\ pc'[v] # "exit"
       \/ ~open' /\ chan' = <<>>
  BY Zenon, <1>2, <1>4, <1>5 DEF RoleInv
<1>11. QED  BY Zenon, <1>3, <1>7, <1>8, <1>9, <1>10 DEF RoleInv

\* The monitor becomes a worker and spawns the next monitor: alone, as worker_count is 1.
LEMMA PromoteRoles ==
  ASSUME RoleInv, NEW w \in Slots, Promote(w)
  PROVE  RoleInv'
<1>1. PICK v \in Slots : /\ NextSlot(v)
                         /\ pc' = [pc EXCEPT ![w] = "send", ![v] = "connect"]
                         /\ id' = [id EXCEPT ![w] = 1, ![v] = 0]
  BY Zenon DEF Promote
<1>2. worker_count = 1 /\ worker_count' = 2 /\ UNCHANGED is_ok /\ Live(w) /\ ~Live(v) /\ v # w
  BY Zenon, <1>1 DEF Promote, NextSlot, Live
<1>3. LiveSlots = {w}
  <2>1. IsFiniteSet(LiveSlots) /\ w \in LiveSlots /\ Cardinality(LiveSlots) = 1
    BY Zenon, <1>2, LiveFinite DEF LiveSlots, RoleInv
  <2>2. QED  BY <2>1, FS_Singleton
<1>4. \A u \in Slots :
        /\ pc'[u] = (IF u = v THEN "connect" ELSE IF u = w THEN "send" ELSE pc[u])
        /\ id'[u] = IF u = v THEN 0 ELSE IF u = w THEN 1 ELSE id[u]
  BY Zenon, <1>1, <1>2 DEF RoleInv
<1>5. \A u \in Slots : Live(u)' <=> u \in {v, w}
  BY Zenon, <1>3, <1>4 DEF Live, LiveSlots
<1>6. LiveSlots' = {v, w}
  BY Zenon, <1>5 DEF LiveSlots
<1>7. worker_count' = Cardinality(LiveSlots')
  <2>1. IsFiniteSet({w}) /\ Cardinality({w}) = 1
    BY Zenon, FS_Singleton
  <2>2. Cardinality({w} \cup {v}) = 2
    BY <1>2, <2>1, FS_AddElement
  <2>3. {w} \cup {v} = {v, w}
    OBVIOUS
  <2>4. QED  BY Zenon, <1>2, <1>6, <2>2, <2>3
<1>8. pc' \in [Slots -> Places] /\ id' \in [Slots -> Nat] /\ is_ok' \in BOOLEAN
  BY Zenon, <1>1, <1>2 DEF RoleInv, Places, Sending
<1>9. /\ \A u \in Slots : pc'[u] \in Working => id'[u] # 0
      /\ \A u \in Slots : pc'[u] = "cleanup" => ~is_ok'
  BY Zenon, <1>2, <1>4 DEF RoleInv, Working
<1>10. \A u, x \in Slots : Live(u)' /\ Live(x)' /\ id'[u] = 0 /\ id'[x] = 0 => u = x
  BY <1>2, <1>4, <1>5
<1>11. Live(v)' /\ id'[v] = 0 /\ pc'[v] # "exit"
  BY Zenon, <1>4, <1>5
<1>12. QED  BY Zenon, <1>7, <1>8, <1>9, <1>10, <1>11 DEF RoleInv

\* A coroutine ends.  If it is the last one, and no handle is left, the channel is empty.
LEMMA ExitRoles ==
  ASSUME RoleInv, NEW w \in Slots, Exit(w)
  PROVE  RoleInv' /\ UNCHANGED chan
<1>1. pc[w] = "exit" /\ Live(w) /\ pc' = [pc EXCEPT ![w] = "free"] /\ UNCHANGED <<open, id, is_ok>>
  BY Zenon DEF Exit, Goto, Live
<1>2. UNCHANGED chan
  <2>1. CASE ~open /\ \A v \in Slots \ {w} : ~Live(v)
    BY Zenon, <1>1, <2>1 DEF RoleInv, Exit
  <2>2. CASE ~(~open /\ \A v \in Slots \ {w} : ~Live(v))
    BY Zenon, <2>2 DEF Exit
  <2>3. QED  BY Zenon, <2>1, <2>2
<1>3. \A v \in Slots : pc'[v] = IF v = w THEN "free" ELSE pc[v]
  BY Zenon, <1>1 DEF RoleInv
<1>4. \A v \in Slots : Live(v)' <=> Live(v) /\ v # w
  BY Zenon, <1>3 DEF Live
<1>5. LiveSlots' = LiveSlots \ {w} /\ w \in LiveSlots
  BY Zenon, <1>1, <1>4 DEF LiveSlots
<1>6. worker_count' = Cardinality(LiveSlots')
  <2>1. IsFiniteSet(LiveSlots)
    BY Zenon, LiveFinite DEF LiveSlots
  <2>2. Cardinality(LiveSlots \ {w}) = Cardinality(LiveSlots) - 1
    BY Zenon, <1>5, <2>1, FS_RemoveElement
  <2>3. QED  BY Zenon, <1>5, <2>2 DEF RoleInv, Exit
<1>7. pc' \in [Slots -> Places] /\ id' \in [Slots -> Nat] /\ is_ok' \in BOOLEAN
  BY Zenon, <1>1 DEF RoleInv, Places
<1>8. /\ \A v \in Slots : pc'[v] \in Working => id'[v] # 0
      /\ \A v \in Slots : pc'[v] = "cleanup" => ~is_ok'
  BY Zenon, <1>1, <1>3 DEF RoleInv, Working
<1>9. \A u, v \in Slots : Live(u)' /\ Live(v)' /\ id'[u] = 0 /\ id'[v] = 0 => u = v
  BY Zenon, <1>1, <1>4 DEF RoleInv
<1>10. \/ \E v \in Slots : Live(v)' /\ id'[v] = 0 /\ pc'[v] # "exit"
       \/ ~open' /\ chan' = <<>>
  BY Zenon, <1>1, <1>2, <1>3, <1>4 DEF RoleInv
<1>11. QED  BY Zenon, <1>2, <1>6, <1>7, <1>8, <1>9, <1>10 DEF RoleInv

\* The steps of the monitor.
LEMMA MonitorRoles ==
  ASSUME RoleInv, NEW w \in Slots,
         \/ ConnectOk(w) \/ ConnectErr(w) \/ Cleanup(w) \/ Monitor(w) \/ PingOk(w)
         \/ PingErr(w) \/ RecvTimeout(w) \/ RecvDisconnected(w) \/ RecvTask(w)
  PROVE  RoleInv'
<1>0. is_ok \in BOOLEAN
  BY Zenon DEF RoleInv
<1>1. CASE ConnectOk(w)
  BY Zenon, <1>0, <1>1, Moves DEF ConnectOk, Goto, Live, Places, Working, taskVars, countVars
<1>2. CASE ConnectErr(w)
  BY Zenon, <1>0, <1>2, Moves DEF ConnectErr, Goto, Live, Places, Working, taskVars, countVars
<1>3. CASE Cleanup(w)
  <2>1. CASE chan = <<>>
    BY Zenon, <1>0, <1>3, <2>1, Moves DEF Cleanup, Goto, Live, Places, Working, taskVars, countVars
  <2>2. CASE chan # <<>>
    <3>1. \E v \in Slots : Live(v) /\ id[v] = 0 /\ pc[v] # "exit"
      BY Zenon, <2>2 DEF RoleInv
    <3>2. QED  BY Zenon, <1>3, <2>2, <3>1, RolesStay DEF Cleanup, countVars
  <2>3. QED  BY Zenon, <2>1, <2>2
<1>4. CASE Monitor(w)
  BY Zenon, <1>0, <1>4, Moves DEF Monitor, Goto, Live, Places, Working, taskVars, countVars
<1>5. CASE PingOk(w)
  BY Zenon, <1>0, <1>5, Moves DEF PingOk, Goto, Live, Places, Working, taskVars, countVars
<1>6. CASE PingErr(w)
  BY Zenon, <1>0, <1>6, Moves DEF PingErr, Goto, Live, Places, Working, countVars
<1>7. CASE RecvTimeout(w)
  BY Zenon, <1>0, <1>7, Moves DEF RecvTimeout, Goto, Live, Places, Working, taskVars, countVars
<1>8. CASE RecvDisconnected(w)
  BY Zenon, <1>0, <1>8, Moves DEF RecvDisconnected, Goto, Live, Places, Working, countVars
<1>9. CASE RecvTask(w)
  BY Zenon, <1>0, <1>9, Moves DEF RecvTask, Goto, Live, Places, Sending, Working, countVars
<1>10. QED  BY Zenon, <1>1, <1>2, <1>3, <1>4, <1>5, <1>6, <1>7, <1>8, <1>9

\* send_task.
LEMMA SendRoles ==
  ASSUME RoleInv, NEW w \in Slots,
         SendTaskOk(w) \/ Throttle(w) \/ SendTaskErr(w) \/ SendTaskLost(w) \/ SendErr(w)
  PROVE  RoleInv'
<1>0. is_ok \in BOOLEAN /\ (pc[w] \in Working => id[w] # 0)
  BY Zenon DEF RoleInv
<1>1. CASE SendTaskOk(w)
  BY Zenon, <1>0, <1>1, Moves DEF SendTaskOk, Goto, Live, Places, Working, countVars
<1>2. CASE Throttle(w)
  <2>1. CASE pc[w] = "wthrottle"
    BY Zenon, <1>0, <1>2, <2>1, Moves DEF Throttle, Goto, Live, Places, Working, taskVars, countVars
  <2>2. CASE pc[w] = "throttle" /\ id[w] = 0
    BY Zenon, <1>0, <1>2, <2>2, Moves DEF Throttle, Goto, Live, Places, Working, taskVars, countVars
  <2>3. CASE pc[w] = "throttle" /\ id[w] # 0
    BY Zenon, <1>0, <1>2, <2>3, Moves DEF Throttle, Goto, Live, Places, Working, taskVars, countVars
  <2>4. QED  BY Zenon, <1>2, <2>1, <2>2, <2>3 DEF Throttle
<1>3. CASE SendTaskErr(w)
  BY Zenon, <1>0, <1>3, Moves DEF SendTaskErr, Goto, Live, Places, Working, countVars
<1>4. CASE SendTaskLost(w)
  BY Zenon, <1>0, <1>4, Moves DEF SendTaskLost, Goto, Live, Places, Working, countVars
<1>5. CASE SendErr(w)
  BY Zenon, <1>0, <1>5, Moves DEF SendErr, Goto, Live, Places, Working, countVars
<1>6. QED  BY Zenon, <1>1, <1>2, <1>3, <1>4, <1>5

\* run_worker and _run_worker, which only a coroutine whose id is not 0 runs.
LEMMA WorkerRoles ==
  ASSUME RoleInv, NEW w \in Slots,
         \/ EnterWorker(w) \/ WorkerRecv(w) \/ Drained(w) \/ WorkerDisconnected(w)
         \/ FlushOk(w) \/ FlushErr(w) \/ LeaveWorker(w) \/ LeaveWorkerErr(w)
  PROVE  RoleInv'
<1>0. is_ok \in BOOLEAN /\ (pc[w] \in Working => id[w] # 0)
  BY Zenon DEF RoleInv
<1>1. CASE EnterWorker(w)
  BY Zenon, <1>0, <1>1, Moves DEF EnterWorker, Goto, Live, Places, Working, taskVars
<1>2. CASE WorkerRecv(w)
  BY Zenon, <1>0, <1>2, Moves DEF WorkerRecv, Goto, Live, Places, Working, countVars
<1>3. CASE Drained(w)
  BY Zenon, <1>0, <1>3, Moves DEF Drained, Goto, Live, Places, Working, taskVars, countVars
<1>4. CASE WorkerDisconnected(w)
  BY Zenon, <1>0, <1>4, Moves DEF WorkerDisconnected, Goto, Live, Places, Working, taskVars, countVars
<1>5. CASE FlushOk(w)
  BY Zenon, <1>0, <1>5, Moves DEF FlushOk, Goto, Live, Places, Working, taskVars, countVars
<1>6. CASE FlushErr(w)
  BY Zenon, <1>0, <1>6, Moves DEF FlushErr, Goto, Live, Places, Working, taskVars, countVars
<1>7. CASE LeaveWorker(w)
  BY Zenon, <1>0, <1>7, Moves DEF LeaveWorker, Goto, Live, Places, Working
<1>8. CASE LeaveWorkerErr(w)
  BY Zenon, <1>0, <1>8, Moves DEF LeaveWorkerErr, Goto, Live, Places, Working
<1>9. QED  BY Zenon, <1>1, <1>2, <1>3, <1>4, <1>5, <1>6, <1>7, <1>8

\* Every step keeps RoleInv.
LEMMA RoleStep ==
  ASSUME RoleInv, [Next]_vars
  PROVE  RoleInv'
<1>1. ASSUME NEW w \in Slots, Step(w) PROVE RoleInv'
  BY Zenon, <1>1, MonitorRoles, SendRoles, WorkerRoles, PromoteRoles, ExitRoles DEF Step
<1>2. ASSUME NEW t \in Tasks, SendReq(t) PROVE RoleInv'
  <2>1. \E v \in Slots : Live(v) /\ id[v] = 0 /\ pc[v] # "exit"
    BY Zenon, <1>2 DEF RoleInv, SendReq
  <2>2. QED  BY Zenon, <1>2, <2>1, RolesStay DEF SendReq, workerVars, countVars
<1>3. CASE DropPool
  BY Zenon, <1>3, RolesStay DEF DropPool, workerVars, taskVars, countVars, RoleInv
<1>4. ASSUME UNCHANGED <<pc, id, is_ok, worker_count, open, chan>> PROVE RoleInv'
  BY Zenon, <1>4, RolesStay
<1>5. ASSUME NEW t \in Tasks, TaskEnds(t) PROVE RoleInv'
  BY Zenon, <1>4, <1>5 DEF TaskEnds, workerVars, countVars
<1>6. ASSUME NEW w \in Slots, StreamDies(w) PROVE RoleInv'
  BY Zenon, <1>4, <1>6 DEF StreamDies, taskVars, countVars
<1>7. CASE ServerDown \/ ServerUp
  BY Zenon, <1>4, <1>7 DEF ServerDown, ServerUp, workerVars, taskVars, countVars
<1>8. CASE UNCHANGED vars
  BY Zenon, <1>4, <1>8 DEF vars, workerVars, taskVars, countVars
<1>9. QED  BY Zenon, <1>1, <1>2, <1>3, <1>5, <1>6, <1>7, <1>8, SpawnRoles DEF Next

-----------------------------------------------------------------------------
(***************************************************************************)
(* The places of the tasks.                                                 *)
(***************************************************************************)
\* Nobody begins to send a task.
NoneTakes == \A v \in Slots : pc'[v] \in Sending => pc[v] \in Sending

\* No task comes to a connection or leaves it, but a connection may be dropped.
ConnStays ==
  /\ conn' \in [Tasks -> Slots \cup {NoSlot, Orphan}]
  /\ \A t \in Tasks : conn'[t] = NoSlot <=> conn[t] = NoSlot

\* The steps that leave the tasks where they are.
LEMMA TasksStay ==
  ASSUME TaskInv, NoneTakes, ConnStays, UNCHANGED <<chan, held, result>>
  PROVE  TaskInv'
BY DEF TaskInv, NoneTakes, ConnStays

\* Dropping a stream keeps on a connection the tasks that are on one.
LEMMA DropStreamConn ==
  ASSUME TaskInv, NEW w \in Slots, DropStream(w)
  PROVE  ConnStays
<1>1. NoSlot \notin Slots /\ Orphan # NoSlot
  BY SMTT(30) DEF Slots, NoSlot, Orphan
<1>2. QED  BY Zenon, <1>1 DEF DropStream, ConnStays, TaskInv

\* Tasks that are on a connection stay there when conn does not change.
LEMMA SameConn ==
  ASSUME TaskInv, UNCHANGED conn
  PROVE  ConnStays
BY Zenon DEF ConnStays, TaskInv

\* A coroutine goes to a place where it does not send.
LEMMA NotSending ==
  ASSUME RoleInv, NEW w \in Slots, NEW p \in Places \ Sending, Goto(w, p)
  PROVE  NoneTakes
BY Zenon DEF RoleInv, Goto, NoneTakes

\* What is left when the first task is taken out of the channel.
LEMMA TailFacts ==
  ASSUME TaskInv, chan # <<>>
  PROVE  /\ Head(chan) \in Tasks /\ result[Head(chan)] = "open" /\ conn[Head(chan)] = NoSlot
         /\ Tail(chan) \in Seq(Tasks)
         /\ \A i \in 1..Len(Tail(chan)) :
              /\ i + 1 \in 1..Len(chan) /\ Tail(chan)[i] = chan[i + 1]
              /\ Tail(chan)[i] # Head(chan)
<1>1. chan \in Seq(Tasks) /\ 1 \in 1..Len(chan) /\ Head(chan) = chan[1]
  BY DEF TaskInv
<1>2. Tail(chan) \in Seq(Tasks) /\ \A i \in 1..Len(Tail(chan)) :
        i + 1 \in 1..Len(chan) /\ i + 1 # 1 /\ Tail(chan)[i] = chan[i + 1]
  BY SMTT(30), <1>1
<1>3. QED  BY <1>1, <1>2 DEF TaskInv

\* send_req puts a task into the channel.
LEMMA SendReqTasks ==
  ASSUME TaskInv, NEW t \in Tasks, SendReq(t)
  PROVE  TaskInv'
<1>1. /\ result[t] = "new" /\ chan' = Append(chan, t) /\ UNCHANGED <<pc, held, conn>>
      /\ result' = [result EXCEPT ![t] = "open"]
  BY Zenon DEF SendReq, workerVars
<1>2. /\ chan' \in Seq(Tasks) /\ Len(chan') = Len(chan) + 1 /\ chan'[Len(chan) + 1] = t
      /\ \A i \in 1..Len(chan) : chan'[i] = chan[i] /\ chan[i] # t
  BY <1>1 DEF TaskInv
<1>3. result' \in [Tasks -> Outcomes] /\ \A x \in Tasks : result'[x] = IF x = t THEN "open" ELSE result[x]
  BY Zenon, <1>1 DEF TaskInv, Outcomes
<1>4. conn[t] = NoSlot /\ \A w \in Slots : pc[w] \in Sending => held[w] # t
  BY Zenon, <1>1 DEF TaskInv
<1>5. /\ \A i \in 1..Len(chan') : result'[chan'[i]] = "open" /\ conn'[chan'[i]] = NoSlot
      /\ \A i, j \in 1..Len(chan') : chan'[i] = chan'[j] => i = j
  BY SMTT(30), <1>1, <1>2, <1>3, <1>4 DEF TaskInv
<1>6. \A w \in Slots : pc'[w] \in Sending =>
       /\ held'[w] \in Tasks /\ result'[held'[w]] = "open" /\ conn'[held'[w]] = NoSlot
       /\ \A i \in 1..Len(chan') : chan'[i] # held'[w]
  BY SMTT(30), <1>1, <1>2, <1>3, <1>4 DEF TaskInv
<1>7. QED  BY Zenon, <1>1, <1>2, <1>3, <1>5, <1>6 DEF TaskInv

\* A coroutine takes the first task of the channel into its hands.
LEMMA TakeTasks ==
  ASSUME TaskInv, NEW w \in Slots, chan # <<>>, pc[w] \notin Sending,
         held' = [held EXCEPT ![w] = Head(chan)], chan' = Tail(chan), UNCHANGED <<conn, result>>,
         \A v \in Slots \ {w} : pc'[v] \in Sending => pc[v] \in Sending
  PROVE  TaskInv'
<1>1. \A v \in Slots : held'[v] = IF v = w THEN Head(chan) ELSE held[v]
  BY Zenon DEF TaskInv
<1>2. \A v \in Slots \ {w} : pc'[v] \in Sending => held[v] # Head(chan)
  BY SMTT(30) DEF TaskInv
<1>3. /\ chan' \in Seq(Tasks) /\ \A i, j \in 1..Len(chan') : chan'[i] = chan'[j] => i = j
      /\ \A i \in 1..Len(chan') : result'[chan'[i]] = "open" /\ conn'[chan'[i]] = NoSlot
  BY SMTT(30), TailFacts DEF TaskInv
<1>4. \A v \in Slots : pc'[v] \in Sending =>
       /\ held'[v] \in Tasks /\ result'[held'[v]] = "open" /\ conn'[held'[v]] = NoSlot
       /\ \A i \in 1..Len(chan') : chan'[i] # held'[v]
  BY SMTT(30), <1>1, TailFacts DEF TaskInv
<1>5. \A u, v \in Slots :
       pc'[u] \in Sending /\ pc'[v] \in Sending /\ held'[u] = held'[v] => u = v
  BY SMTT(30), <1>1, <1>2 DEF TaskInv
<1>6. QED  BY Zenon, <1>3, <1>4, <1>5 DEF TaskInv

\* A task that is neither in the channel nor in anybody's hands afterwards moves to or from
\* a connection, or ends.
LEMMA TaskMoves ==
  ASSUME TaskInv, NEW t \in Tasks, NoneTakes,
         chan' \in Seq(Tasks), \A i, j \in 1..Len(chan') : chan'[i] = chan'[j] => i = j,
         \A i \in 1..Len(chan') : chan'[i] # t /\ \E j \in 1..Len(chan) : chan'[i] = chan[j],
         DOMAIN held' = Slots,
         \A v \in Slots : pc'[v] \in Sending => held[v] # t /\ held'[v] = held[v],
         conn' \in [Tasks -> Slots \cup {NoSlot, Orphan}], result' \in [Tasks -> Outcomes],
         \A x \in Tasks \ {t} : conn'[x] = conn[x] /\ result'[x] = result[x],
         conn'[t] # NoSlot => result'[t] = "open"
  PROVE  TaskInv'
<1>1. \A i \in 1..Len(chan') : chan'[i] \in Tasks \ {t} /\ result'[chan'[i]] = "open"
                              /\ conn'[chan'[i]] = NoSlot
  BY DEF TaskInv
<1>2. ASSUME NEW v \in Slots, pc'[v] \in Sending
      PROVE  /\ held'[v] \in Tasks \ {t} /\ held'[v] = held[v] /\ pc[v] \in Sending
             /\ result'[held'[v]] = "open" /\ conn'[held'[v]] = NoSlot
             /\ \A i \in 1..Len(chan') : chan'[i] # held'[v]
  <2>1. pc[v] \in Sending /\ held'[v] = held[v] /\ held[v] # t
    BY Zenon, <1>2 DEF NoneTakes
  <2>2. /\ held[v] \in Tasks /\ result[held[v]] = "open" /\ conn[held[v]] = NoSlot
        /\ \A i \in 1..Len(chan) : chan[i] # held[v]
    BY Zenon, <2>1 DEF TaskInv
  <2>3. QED  BY <2>1, <2>2
<1>3. \A u, v \in Slots :
       pc'[u] \in Sending /\ pc'[v] \in Sending /\ held'[u] = held'[v] => u = v
  BY Zenon, <1>2 DEF TaskInv
<1>4. \A x \in Tasks : conn'[x] # NoSlot => result'[x] = "open"
  BY Zenon DEF TaskInv
<1>5. QED  BY Zenon, <1>1, <1>2, <1>3, <1>4 DEF TaskInv

\* The monitor's steps that take no task keep TaskInv.
LEMMA MonitorTasks ==
  ASSUME PoolInv, NEW w \in Slots,
         \/ ConnectOk(w) \/ ConnectErr(w) \/ Monitor(w) \/ PingOk(w)
         \/ PingErr(w) \/ RecvTimeout(w) \/ RecvDisconnected(w)
  PROVE  TaskInv' /\ UNCHANGED result
<1> USE DEF PoolInv
<1>0. UNCHANGED <<chan, held, result>>
  BY Zenon DEF ConnectOk, ConnectErr, Monitor, PingOk, PingErr, RecvTimeout, RecvDisconnected, taskVars
<1>1. NoneTakes
  <2>1. PICK p \in Places \ Sending : Goto(w, p)
    BY Zenon DEF ConnectOk, ConnectErr, Monitor, PingOk, PingErr, RecvTimeout, RecvDisconnected,
           Places, Working, Sending
  <2>2. QED  BY Zenon, <2>1, NotSending
<1>2. ConnStays
  <2>1. CASE PingErr(w) \/ RecvDisconnected(w)
    BY ZenonT(30), <2>1, DropStreamConn DEF PingErr, RecvDisconnected
  <2>2. CASE ~(PingErr(w) \/ RecvDisconnected(w))
    BY Zenon, <2>2, SameConn DEF ConnectOk, ConnectErr, Monitor, PingOk, RecvTimeout, taskVars
  <2>3. QED  BY Zenon, <2>1, <2>2
<1>3. QED  BY Zenon, <1>0, <1>1, <1>2, TasksStay

\* The worker's steps that take no task keep TaskInv.
LEMMA WorkerTasks ==
  ASSUME PoolInv, NEW w \in Slots,
         \/ Throttle(w) \/ SendErr(w) \/ EnterWorker(w) \/ Drained(w) \/ WorkerDisconnected(w)
         \/ FlushOk(w) \/ FlushErr(w) \/ LeaveWorker(w) \/ LeaveWorkerErr(w)
  PROVE  TaskInv' /\ UNCHANGED result
<1> USE DEF PoolInv
<1>0. UNCHANGED <<chan, held, result>>
  BY Zenon DEF Throttle, SendErr, EnterWorker, Drained, WorkerDisconnected, FlushOk, FlushErr,
         LeaveWorker, LeaveWorkerErr, taskVars
<1>1. NoneTakes
  <2>1. PICK p \in Places \ Sending : Goto(w, p)
    <3>1. CASE Throttle(w)
      BY Zenon, <3>1 DEF Throttle, Places, Working, Sending
    <3>2. CASE ~Throttle(w)
      BY Zenon, <3>2 DEF SendErr, EnterWorker, Drained, WorkerDisconnected, FlushOk, FlushErr,
                  LeaveWorker, LeaveWorkerErr, Places, Working, Sending
    <3>3. QED  BY Zenon, <3>1, <3>2
  <2>2. QED  BY Zenon, <2>1, NotSending
<1>2. ConnStays
  <2>1. CASE SendErr(w) \/ LeaveWorker(w) \/ LeaveWorkerErr(w)
    BY Zenon, <2>1, DropStreamConn DEF SendErr, LeaveWorker, LeaveWorkerErr
  <2>2. CASE ~(SendErr(w) \/ LeaveWorker(w) \/ LeaveWorkerErr(w))
    BY Zenon, <2>2, SameConn DEF Throttle, EnterWorker, Drained, WorkerDisconnected, FlushOk, FlushErr,
                          taskVars
  <2>3. QED  BY Zenon, <2>1, <2>2
<1>3. QED  BY Zenon, <1>0, <1>1, <1>2, TasksStay

\* The steps that take a task out of the channel to send it.
LEMMA RecvTasks ==
  ASSUME PoolInv, NEW w \in Slots, RecvTask(w) \/ WorkerRecv(w) \/ Promote(w)
  PROVE  TaskInv' /\ UNCHANGED result
<1>1. /\ chan # <<>> /\ pc[w] \notin Sending /\ held' = [held EXCEPT ![w] = Head(chan)]
      /\ chan' = Tail(chan) /\ UNCHANGED <<conn, result>>
  BY Zenon DEF RecvTask, WorkerRecv, Promote, Sending
<1>2. \A v \in Slots \ {w} : pc'[v] \in Sending => pc[v] \in Sending
  <2>1. CASE RecvTask(w) \/ WorkerRecv(w)
    BY Zenon, <2>1 DEF RecvTask, WorkerRecv, Goto, PoolInv, RoleInv
  <2>2. CASE Promote(w)
    BY Zenon, <2>2 DEF Promote, PoolInv, RoleInv, Sending
  <2>3. QED  BY Zenon, <2>1, <2>2
<1>3. QED  BY Zenon, <1>1, <1>2, TakeTasks DEF PoolInv

\* cleanup ends the first task of the channel.
LEMMA CleanupTasks ==
  ASSUME PoolInv, NEW w \in Slots, Cleanup(w)
  PROVE  TaskInv'
<1> USE DEF PoolInv
<1>1. CASE chan = <<>>
  <2>1. Goto(w, "connect") /\ UNCHANGED <<chan, held, result, conn>>
    BY Zenon, <1>1 DEF Cleanup
  <2>2. QED  BY Zenon, <2>1, NotSending, SameConn, TasksStay DEF Places, Working, Sending
<1>2. CASE chan # <<>>
  <2> DEFINE t == Head(chan)
  <2>1. /\ chan' = Tail(chan) /\ result' = [result EXCEPT ![t] = "Unreachable"]
        /\ UNCHANGED <<pc, held, conn>>
    BY Zenon, <1>2 DEF Cleanup
  <2>2. /\ t \in Tasks /\ conn[t] = NoSlot /\ chan' \in Seq(Tasks)
        /\ \A i \in 1..Len(chan') :
             i + 1 \in 1..Len(chan) /\ chan'[i] = chan[i + 1] /\ chan'[i] # t
    BY Zenon, <1>2, <2>1, TailFacts
  <2>3. /\ \A i, j \in 1..Len(chan') : chan'[i] = chan'[j] => i = j
        /\ \A i \in 1..Len(chan') : chan'[i] # t /\ \E j \in 1..Len(chan) : chan'[i] = chan[j]
    BY <2>2 DEF TaskInv
  <2>4. \A v \in Slots : pc'[v] \in Sending => held[v] # t /\ held'[v] = held[v]
    BY <1>2, <2>1 DEF TaskInv
  <2>5. NoneTakes /\ DOMAIN held' = Slots
    BY Zenon, <2>1 DEF NoneTakes, TaskInv
  <2>6. /\ conn' \in [Tasks -> Slots \cup {NoSlot, Orphan}] /\ result' \in [Tasks -> Outcomes]
        /\ \A x \in Tasks \ {t} : conn'[x] = conn[x] /\ result'[x] = result[x]
        /\ conn'[t] = NoSlot
    BY Zenon, <2>1, <2>2 DEF TaskInv, Outcomes, Ends
  <2>7. QED  BY Zenon, <2>2, <2>3, <2>4, <2>5, <2>6, TaskMoves
<1>3. QED  BY Zenon, <1>1, <1>2

\* send_task gives the task in the coroutine's hands to its connection, or ends it.
LEMMA SendTasks ==
  ASSUME PoolInv, NEW w \in Slots, SendTaskOk(w) \/ SendTaskErr(w) \/ SendTaskLost(w)
  PROVE  TaskInv'
<1> USE DEF PoolInv
<1> DEFINE t == held[w]
<1>1. /\ pc[w] \in Sending /\ held' = [held EXCEPT ![w] = NoTask] /\ UNCHANGED chan
      /\ \E p \in Places \ Sending : Goto(w, p)
  BY Zenon DEF SendTaskOk, SendTaskErr, SendTaskLost, Sending, Places, Working
<1>2. /\ t \in Tasks /\ result[t] = "open" /\ conn[t] = NoSlot
      /\ \A i \in 1..Len(chan) : chan[i] # t
  BY Zenon, <1>1 DEF TaskInv
<1>3. NoneTakes
  BY Zenon, <1>1, NotSending
<1>4. pc'[w] \notin Sending
  BY Zenon, <1>1 DEF Goto, RoleInv
<1>5. /\ DOMAIN held' = Slots
      /\ \A v \in Slots : pc'[v] \in Sending => held[v] # t /\ held'[v] = held[v]
  BY Zenon, <1>1, <1>3, <1>4 DEF TaskInv, NoneTakes
<1>6. /\ conn' \in [Tasks -> Slots \cup {NoSlot, Orphan}] /\ result' \in [Tasks -> Outcomes]
      /\ \A x \in Tasks \ {t} : conn'[x] = conn[x] /\ result'[x] = result[x]
      /\ conn'[t] # NoSlot => result'[t] = "open"
  BY <1>2 DEF TaskInv, SendTaskOk, SendTaskErr, SendTaskLost, Outcomes, Ends
<1>7. /\ chan' \in Seq(Tasks) /\ \A i, j \in 1..Len(chan') : chan'[i] = chan'[j] => i = j
      /\ \A i \in 1..Len(chan') : chan'[i] # t /\ \E j \in 1..Len(chan) : chan'[i] = chan[j]
  BY Zenon, <1>1, <1>2 DEF TaskInv
<1>8. QED  BY Zenon, <1>2, <1>3, <1>5, <1>6, <1>7, TaskMoves

\* The receiver ends a task that is on a connection.
LEMMA EndTasks ==
  ASSUME PoolInv, NEW t \in Tasks, TaskEnds(t)
  PROVE  TaskInv'
<1> USE DEF PoolInv
<1>1. /\ conn[t] # NoSlot /\ conn' = [conn EXCEPT ![t] = NoSlot] /\ UNCHANGED <<pc, held, chan>>
      /\ \E r \in Outcomes : result' = [result EXCEPT ![t] = r]
  BY Zenon DEF TaskEnds, workerVars, EndsOn, Outcomes, Ends
<1>2. /\ conn' \in [Tasks -> Slots \cup {NoSlot, Orphan}] /\ result' \in [Tasks -> Outcomes]
      /\ \A x \in Tasks \ {t} : conn'[x] = conn[x] /\ result'[x] = result[x]
      /\ conn'[t] = NoSlot
  BY SMTT(30), <1>1 DEF TaskInv
<1>3. NoneTakes /\ DOMAIN held' = Slots
  BY Zenon, <1>1 DEF NoneTakes, TaskInv
<1>4. \A v \in Slots : pc'[v] \in Sending => held[v] # t /\ held'[v] = held[v]
  BY Zenon, <1>1 DEF TaskInv
<1>5. /\ chan' \in Seq(Tasks) /\ \A i, j \in 1..Len(chan') : chan'[i] = chan'[j] => i = j
      /\ \A i \in 1..Len(chan') : chan'[i] # t /\ \E j \in 1..Len(chan) : chan'[i] = chan[j]
  BY <1>1 DEF TaskInv
<1>6. QED  BY Zenon, <1>2, <1>3, <1>4, <1>5, TaskMoves

\* The last coroutine has nothing to clean up.
LEMMA ExitTasks ==
  ASSUME PoolInv, NEW w \in Slots, Exit(w)
  PROVE  TaskInv' /\ UNCHANGED result
<1> USE DEF PoolInv
<1>1. UNCHANGED <<chan, held, conn>> /\ Goto(w, "free")
  BY Zenon, ExitRoles DEF Exit
<1>2. UNCHANGED result
  <2>1. result = [t \in Tasks |-> result[t]]
    BY Zenon DEF TaskInv
  <2>2. CASE ~open /\ \A v \in Slots \ {w} : ~Live(v)
    <3>1. chan = <<>>
      BY Zenon, <1>1, <2>2 DEF Exit
    <3>2. \A t \in Tasks : ~\E i \in 1 .. Len(chan) : chan[i] = t
      BY <3>1
    <3>3. QED  BY Zenon, <2>1, <3>2 DEF Exit
  <2>3. CASE ~(~open /\ \A v \in Slots \ {w} : ~Live(v))
    BY Zenon, <2>1, <2>3 DEF Exit
  <2>4. QED  BY Zenon, <2>2, <2>3
<1>3. QED  BY Zenon, <1>1, <1>2, NotSending, SameConn, TasksStay DEF Places, Sending, Working

\* Every step keeps PoolInv.
LEMMA PoolStep ==
  ASSUME PoolInv, [Next]_vars
  PROVE  PoolInv'
<1> SUFFICES TaskInv'
  BY Zenon, RoleStep DEF PoolInv
<1>1. ASSUME NEW w \in Slots, Step(w) PROVE TaskInv'
  BY Zenon, <1>1, MonitorTasks, WorkerTasks, RecvTasks, CleanupTasks, SendTasks, ExitTasks DEF Step
<1>2. ASSUME NEW t \in Tasks, SendReq(t) \/ TaskEnds(t) PROVE TaskInv'
  BY Zenon, <1>2, SendReqTasks, EndTasks DEF PoolInv
<1>3. CASE Spawn
  <2>1. NoneTakes /\ UNCHANGED <<chan, held, result, conn>>
    BY Zenon, <1>3 DEF Spawn, taskVars, NoneTakes, Sending, PoolInv, RoleInv
  <2>2. QED  BY Zenon, <2>1, SameConn, TasksStay DEF PoolInv
<1>4. ASSUME UNCHANGED <<pc, chan, held, result, conn>> PROVE TaskInv'
  BY Zenon, <1>4, SameConn, TasksStay DEF PoolInv, NoneTakes
<1>5. ASSUME NEW w \in Slots, StreamDies(w) PROVE TaskInv'
  BY Zenon, <1>4, <1>5 DEF StreamDies, taskVars
<1>6. CASE DropPool \/ ServerDown \/ ServerUp
  BY Zenon, <1>4, <1>6 DEF DropPool, ServerDown, ServerUp, workerVars, taskVars
<1>7. CASE UNCHANGED vars
  BY Zenon, <1>4, <1>7 DEF vars, workerVars, taskVars
<1>8. QED  BY Zenon, <1>1, <1>2, <1>3, <1>5, <1>6, <1>7 DEF Next

\* PoolInv holds initially.
LEMMA PoolStart ==
  ASSUME Init
  PROVE  PoolInv
<1>1. 1 \in Slots
  BY PoolAssumption DEF Slots
<1>2. LiveSlots = {1}
  BY Zenon, <1>1 DEF Init, LiveSlots, Live
<1>3. worker_count = Cardinality(LiveSlots)
  BY Zenon, <1>2, FS_Singleton DEF Init
<1>4. RoleInv
  BY Zenon, <1>1, <1>3 DEF Init, RoleInv, Places, Working, Sending, Live
<1>5. TaskInv
  BY DEF Init, TaskInv, Sending, Outcomes, NoSlot
<1>6. QED  BY Zenon, <1>4, <1>5 DEF PoolInv

-----------------------------------------------------------------------------
(***************************************************************************)
(* The theorems.                                                            *)
(***************************************************************************)
\* What RoleInv says of the monitors is OneMonitor.
LEMMA RolesAreOne ==
  ASSUME RoleInv
  PROVE  OneMonitor
<1>1. IsFiniteSet(Monitors) /\ Cardinality(Monitors) \in Nat
  BY Zenon, LiveFinite DEF Monitors
<1>2. ASSUME NEW w \in Monitors PROVE Cardinality(Monitors) = 1
  <2>1. Monitors = {w}
    BY Zenon, <1>2 DEF RoleInv, Monitors
  <2>2. QED  BY Zenon, <2>1, FS_Singleton
<1>3. CASE Monitors = {}
  <2>1. ~open
    BY Zenon, <1>3 DEF RoleInv, Monitors
  <2>2. QED  BY <1>3, <2>1, FS_EmptySet DEF OneMonitor
<1>4. QED  BY <1>2, <1>3 DEF OneMonitor

\* There is never a second monitor, and there is one as long as a handle is left, for any
\* number of coroutines and spawns (spawn_worker, the promotion in run).
THEOREM OneMonitorCorrect == Spec => []OneMonitor
<1>1. Spec => []PoolInv
  BY PoolStart, PoolStep, PTL DEF Spec
<1>2. PoolInv => OneMonitor
  BY Zenon, RolesAreOne DEF PoolInv
<1>3. QED  BY <1>1, <1>2, PTL

\* A step that ends an open task, as PoolCalls sees it.
LEMMA EndsTask ==
  ASSUME PoolInv, NEW t \in Tasks, NEW r \in {"Ok", "Timeout", "IO", "Unreachable", "lost"},
         result[t] = "open", r = "Unreachable" => ~is_ok,
         result' = [result EXCEPT ![t] = r], UNCHANGED is_ok
  PROVE  Calls!Next
BY Zenon DEF Calls!Next, Calls!End

\* A step that may make the pool unhealthy and leaves the tasks alone.
LEMMA MayFail ==
  ASSUME PoolInv, UNCHANGED result, is_ok' = FALSE
  PROVE  [Calls!Next]_<<result, is_ok>>
<1>1. CASE is_ok
  BY Zenon, <1>1 DEF Calls!Next, Calls!Fail
<1>2. CASE ~is_ok
  BY Zenon, <1>2 DEF PoolInv, RoleInv
<1>3. QED  BY Zenon, <1>1, <1>2

\* A coroutine's step is a step of PoolCalls or changes nothing PoolCalls sees.
LEMMA StepRefines ==
  ASSUME PoolInv, NEW w \in Slots, Step(w)
  PROVE  [Calls!Next]_<<result, is_ok>>
<1>1. ASSUME UNCHANGED <<result, is_ok>> PROVE [Calls!Next]_<<result, is_ok>>
  BY Zenon, <1>1
<1>2. CASE ConnectErr(w) \/ PingErr(w) \/ SendErr(w) \/ LeaveWorkerErr(w)
  <2>1. UNCHANGED result /\ is_ok' = FALSE
    BY Zenon, <1>2 DEF ConnectErr, PingErr, SendErr, LeaveWorkerErr, taskVars
  <2>2. QED  BY Zenon, <2>1, MayFail
<1>3. CASE Cleanup(w)
  <2>1. CASE chan = <<>>
    BY Zenon, <1>1, <1>3, <2>1 DEF Cleanup
  <2>2. CASE chan # <<>>
    <3>1. Head(chan) \in Tasks /\ result[Head(chan)] = "open"
      BY Zenon, <2>2, TailFacts DEF PoolInv
    <3>2. ~is_ok
      BY Zenon, <1>3 DEF PoolInv, RoleInv, Cleanup
    <3>3. QED  BY Zenon, <1>3, <2>2, <3>1, <3>2, EndsTask DEF Cleanup
  <2>3. QED  BY Zenon, <2>1, <2>2
<1>4. CASE SendTaskErr(w) \/ SendTaskLost(w)
  <2>1. held[w] \in Tasks /\ result[held[w]] = "open"
    BY Zenon, <1>4 DEF PoolInv, TaskInv, SendTaskErr, SendTaskLost, Sending
  <2>2. QED  BY Zenon, <1>4, <2>1, EndsTask DEF SendTaskErr, SendTaskLost
<1>5. CASE Exit(w)
  BY Zenon, <1>1, <1>5, ExitTasks DEF Exit
<1>6. CASE ConnectOk(w) \/ Monitor(w) \/ PingOk(w) \/ RecvTimeout(w) \/ RecvDisconnected(w)
  BY Zenon, <1>1, <1>6 DEF ConnectOk, Monitor, PingOk, RecvTimeout, RecvDisconnected, taskVars
<1>7. CASE RecvTask(w) \/ Promote(w) \/ SendTaskOk(w) \/ Throttle(w)
  BY Zenon, <1>1, <1>7 DEF RecvTask, Promote, SendTaskOk, Throttle, taskVars
<1>8. CASE EnterWorker(w) \/ WorkerRecv(w) \/ Drained(w) \/ WorkerDisconnected(w)
  BY Zenon, <1>1, <1>8 DEF EnterWorker, WorkerRecv, Drained, WorkerDisconnected, taskVars
<1>9. CASE FlushOk(w) \/ FlushErr(w) \/ LeaveWorker(w)
  BY Zenon, <1>1, <1>9 DEF FlushOk, FlushErr, LeaveWorker, taskVars
<1>10. QED  BY Zenon, <1>2, <1>3, <1>4, <1>5, <1>6, <1>7, <1>8, <1>9 DEF Step

\* Every step is a step of PoolCalls or changes nothing PoolCalls sees.
LEMMA NextRefines ==
  ASSUME PoolInv, [Next]_vars
  PROVE  [Calls!Next]_<<result, is_ok>>
<1>1. ASSUME NEW t \in Tasks, SendReq(t) PROVE Calls!Next
  BY Zenon, <1>1 DEF SendReq, Calls!Next, Calls!Take
<1>2. ASSUME NEW t \in Tasks, TaskEnds(t) PROVE Calls!Next
  <2>1. result[t] = "open" /\ UNCHANGED is_ok
    BY Zenon, <1>2 DEF TaskEnds, PoolInv, TaskInv
  <2>2. PICK r \in {"Ok", "Timeout", "IO", "lost"} : result' = [result EXCEPT ![t] = r]
    BY Zenon, <1>2 DEF TaskEnds, EndsOn
  <2>3. QED  BY Zenon, <2>1, <2>2, EndsTask
<1>3. ASSUME NEW w \in Slots, StreamDies(w) PROVE UNCHANGED <<result, is_ok>>
  BY Zenon, <1>3 DEF StreamDies, taskVars
<1>4. CASE Spawn \/ DropPool \/ ServerDown \/ ServerUp \/ UNCHANGED vars
  BY Zenon, <1>4 DEF Spawn, DropPool, ServerDown, ServerUp, vars, taskVars
<1>5. QED  BY Zenon, <1>1, <1>2, <1>3, <1>4, StepRefines DEF Next

\* The pool keeps its contract with its callers, for any number of tasks, coroutines,
\* spawns and outages: a task ends at most once, in one way, and Unreachable only once
\* connect has failed or a connection was lost (send_req, cleanup, run).
THEOREM PoolCallsKept == Spec => ImplementsPoolCalls
<1>1. Spec => []PoolInv
  BY PoolStart, PoolStep, PTL DEF Spec
<1>2. Init => Calls!Init
  BY Zenon DEF Init, Calls!Init
<1>3. PoolInv /\ [Next]_vars => [Calls!Next]_<<result, is_ok>>
  BY Zenon, NextRefines
<1>4. QED  BY <1>1, <1>2, <1>3, PTL DEF Spec, ImplementsPoolCalls, Calls!Spec

=============================================================================
