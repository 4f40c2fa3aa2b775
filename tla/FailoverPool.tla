---------------------------- MODULE FailoverPool ----------------------------
(***************************************************************************)
(* Failover between server addresses (stream/src/client/failover.rs): the   *)
(* callers of send_req, update_addrs and drop, the retry worker, and one    *)
(* ClientPool for each address, used here by its contract (PoolCalls.tla):  *)
(* a task it takes ends at most once or is lost, it may become unhealthy    *)
(* for good, and only then does it end a task with Unreachable.             *)
(*                                                                         *)
(* A caller or the retry worker works on the cluster it loaded, which may   *)
(* be replaced meanwhile, and waits for room in the channel of the pool it  *)
(* selected, which may become unhealthy meanwhile.                          *)
(***************************************************************************)
EXTENDS Integers, Sequences, FiniteSets

CONSTANTS
  Tasks,        \* the tasks the callers send
  Addrs,        \* the server addresses
  Updaters,     \* the callers of update_addrs
  MaxUpdates,   \* bound: calls of update_addrs
  RoundRobin,   \* round_robin
  RetryLimit,   \* retry_limit
  PoolRoom,     \* tasks a pool holds before send_req waits
  Fails         \* bound: pools that become unhealthy

ASSUME FailoverAssumption ==
  /\ MaxUpdates \in Nat /\ RoundRobin \in BOOLEAN /\ RetryLimit \in Nat
  /\ PoolRoom \in Nat \ {0} /\ Fails \in Nat

VARIABLES
  pools,        \* the ClientPools created so far: address, is_ok, coroutines left
  clusters,     \* the pools (indices) of every ClusterConfig by its version
  current,      \* the version stored in FailoverPoolInner.pools, or None
  ver,          \* the version counter
  rr_counter,
  updater,      \* of each update_addrs call: where it is and what it will store
  updates,      \* how many calls were made
  task,         \* the FailoverTask of each task and where it is
  retry_chan,   \* the channel to the retry worker
  worker,       \* the retry worker: where it is, its task, the cluster it loaded
  dropped,      \* the FailoverPool has been dropped
  picks         \* selections of each pool that started from rr_counter

poolVars == <<pools, picks>>
clusterVars == <<clusters, current, ver>>
updateVars == <<updater, updates>>
vars == <<poolVars, clusterVars, rr_counter, updateVars, task, retry_chan, worker, dropped>>

\* The lists of addresses given to new and update_addrs.
AddrLists == {list \in UNION {[1 .. n -> Addrs] : n \in 0 .. Cardinality(Addrs)} :
                \A i, j \in DOMAIN list : list[i] = list[j] => i = j}

None == -1
NoVer == None
PoolIds == 1 .. Len(pools)

\* The kinds of error a pool ends a task with: RpcIntErr below Method, and others.
Retriable == {"Unreachable", "IO", "Timeout"}
Final == {"Ok", "Custom"}

Idle == [pc |-> "idle", list |-> <<>>, ver |-> NoVer]
NewTask == [pc |-> "new", snap |-> NoVer, at |-> 0, last_index |-> 0,
            cluster_ver |-> NoVer, retry |-> 0, sends |-> 0, res |-> "none"]
Resting == [pc |-> "recv", t |-> "none", snap |-> NoVer]

NewPool(a) == [addr |-> a, ok |-> TRUE, live |-> TRUE]

-----------------------------------------------------------------------------
(***************************************************************************)
(* new and update_addrs.                                                    *)
(***************************************************************************)
\* new: a pool for each address, in a cluster of version 0; ver starts at 1.
Init ==
  /\ \E list \in AddrLists :
       /\ pools = [i \in 1 .. Len(list) |-> NewPool(list[i])]
       /\ clusters = [v \in {0} |-> [i \in 1 .. Len(list) |-> i]]
  /\ picks = [p \in 1 .. Len(pools) |-> 0]
  /\ current = 0 /\ ver = 1 /\ rr_counter = 0
  /\ updater = [u \in Updaters |-> Idle] /\ updates = 0
  /\ task = [t \in Tasks |-> NewTask]
  /\ retry_chan = <<>> /\ worker = Resting
  /\ dropped = FALSE

\* The pool of the loaded cluster that update_addrs keeps for the i-th address.
\* Each old pool is used once, as remove takes it out of the map.
Kept(old, list, i) ==
  {p \in {old[j] : j \in DOMAIN old} :
     pools[p].addr = list[i] /\ \A k \in 1 .. i - 1 : list[k] # list[i]}

\* update_addrs up to the new list of pools: one of the old for an address that
\* stays, a new one otherwise.
MakePools(u) ==
  /\ ~dropped /\ updater[u].pc = "idle" /\ updates < MaxUpdates
  /\ \E list \in AddrLists :
       LET old == clusters[current]
           added == {i \in DOMAIN list : Kept(old, list, i) = {}}
           rank(i) == Cardinality({k \in added : k <= i})
           nth(n) == CHOOSE i \in added : rank(i) = n
       IN /\ pools' = pools \o [n \in 1 .. Cardinality(added) |-> NewPool(list[nth(n)])]
          /\ picks' = picks \o [n \in 1 .. Cardinality(added) |-> 0]
          /\ updater' = [updater EXCEPT ![u] =
               [pc |-> "made", ver |-> NoVer,
                list |-> [i \in DOMAIN list |->
                            IF i \in added THEN Len(pools) + rank(i)
                            ELSE CHOOSE p \in Kept(old, list, i) : TRUE]]]
  /\ updates' = updates + 1
  /\ UNCHANGED <<clusterVars, rr_counter, task, retry_chan, worker, dropped>>

\* Mutant: the version is taken from the cluster that is replaced.
StampFromCurrent(u) ==
  /\ updater[u].pc = "made"
  /\ ver' = ver + 1
  /\ updater' = [updater EXCEPT ![u].pc = "stamped", ![u].ver = current + 1]
  /\ UNCHANGED <<poolVars, clusters, current, rr_counter, updates, task, retry_chan,
                 worker, dropped>>

\* fetch_add on ver.
Stamp(u) ==
  /\ updater[u].pc = "made"
  /\ ver' = ver + 1
  /\ updater' = [updater EXCEPT ![u].pc = "stamped", ![u].ver = ver + 1]
  /\ UNCHANGED <<poolVars, clusters, current, rr_counter, updates, task, retry_chan,
                 worker, dropped>>

\* The new cluster is stored, possibly over a later one.
Store(u) ==
  /\ updater[u].pc = "stamped"
  /\ clusters' = [v \in DOMAIN clusters \cup {updater[u].ver} |->
                    IF v = updater[u].ver THEN updater[u].list ELSE clusters[v]]
  /\ current' = updater[u].ver
  /\ updater' = [updater EXCEPT ![u] = Idle]
  /\ UNCHANGED <<poolVars, ver, rr_counter, updates, task, retry_chan, worker, dropped>>

\* Mutant: the drop leaves the cluster in place.
DropKeepsPools ==
  /\ ~dropped
  /\ \A u \in Updaters : updater[u].pc = "idle"
  /\ \A t \in Tasks : task[t].pc \notin {"loaded", "picked"}
  /\ dropped' = TRUE
  /\ UNCHANGED <<poolVars, clusterVars, rr_counter, updateVars, task, retry_chan, worker>>

\* drop: no call is in progress any more.
DropFailover ==
  /\ ~dropped
  /\ \A u \in Updaters : updater[u].pc = "idle"
  /\ \A t \in Tasks : task[t].pc \notin {"loaded", "picked"}
  /\ dropped' = TRUE /\ current' = None
  /\ UNCHANGED <<poolVars, clusters, ver, rr_counter, updateVars, task, retry_chan, worker>>

-----------------------------------------------------------------------------
(***************************************************************************)
(* select: the first healthy pool from the seed on.                         *)
(***************************************************************************)
PoolAt(v, i) == clusters[v][(i % Len(clusters[v])) + 1]

HealthyFrom(v, seed) ==
  {i \in seed .. seed + Len(clusters[v]) - 1 : pools[PoolAt(v, i)].ok}

Least(S) == CHOOSE i \in S : \A j \in S : i <= j

\* The seed of a selection that does not follow an earlier one.
FreshSeed == IF RoundRobin THEN rr_counter ELSE 0

\* Mutant: the counter does not move.
NoCountFresh(v) == rr_counter' = rr_counter

\* rr_counter after such a selection in the cluster of version v.
CountFresh(v) ==
  rr_counter' = IF RoundRobin /\ clusters[v] # <<>> THEN rr_counter + 1 ELSE rr_counter

Pick(p) == picks' = [picks EXCEPT ![p] = @ + 1]

Room(p) == Cardinality({t \in Tasks : task[t].pc = "open" /\ task[t].at = p}) < PoolRoom

-----------------------------------------------------------------------------
(***************************************************************************)
(* send_req and send_req_blocking.                                          *)
(***************************************************************************)
LoadCluster(t) ==
  /\ ~dropped /\ task[t].pc = "new"
  /\ task' = [task EXCEPT ![t].pc = "loaded", ![t].snap = current]
  /\ UNCHANGED <<poolVars, clusterVars, rr_counter, updateVars, retry_chan, worker, dropped>>

SelectFirst(t) ==
  /\ task[t].pc = "loaded"
  /\ LET v == task[t].snap
         found == HealthyFrom(v, FreshSeed)
     IN /\ CountFresh(v)
        /\ IF found = {}
           THEN /\ task' = [task EXCEPT ![t].pc = "done", ![t].res = "Unreachable"]
                /\ UNCHANGED picks
           ELSE /\ task' = [task EXCEPT ![t].pc = "picked", ![t].at = PoolAt(v, Least(found)),
                              ![t].last_index = Least(found), ![t].cluster_ver = v]
                /\ Pick(PoolAt(v, Least(found)))
  /\ UNCHANGED <<pools, clusterVars, updateVars, retry_chan, worker, dropped>>

\* The pool's send_req returns: the task is in its channel.
SendFirst(t) ==
  /\ task[t].pc = "picked" /\ Room(task[t].at)
  /\ task' = [task EXCEPT ![t].pc = "open", ![t].sends = @ + 1]
  /\ UNCHANGED <<poolVars, clusterVars, rr_counter, updateVars, retry_chan, worker, dropped>>

-----------------------------------------------------------------------------
(***************************************************************************)
(* A pool ends a task: FailoverTask and error_handle.                       *)
(***************************************************************************)
\* Mutant: the count starts at the second failure.
RetryLate(k) == k <= RetryLimit + 1

\* error_handle: may a task that failed k times be sent again?
MayRetry(k) == k <= RetryLimit

\* The answer, or an error of the server or of the codec: not retried.
TaskDone(t) ==
  /\ task[t].pc = "open"
  /\ \E r \in Final : task' = [task EXCEPT ![t].pc = "done", ![t].res = r]
  /\ UNCHANGED <<poolVars, clusterVars, rr_counter, updateVars, retry_chan, worker, dropped>>

\* set_rpc_error with a retriable error, then error_handle.
TaskFails(t) ==
  /\ task[t].pc = "open"
  /\ \E r \in Retriable :
       /\ r = "Unreachable" => ~pools[task[t].at].ok
       /\ LET k == task[t].retry + 1
              to == IF MayRetry(k) THEN "retry" ELSE "done"
          IN /\ task' = [task EXCEPT ![t].pc = to, ![t].res = r, ![t].retry = k]
             /\ retry_chan' = IF MayRetry(k) THEN Append(retry_chan, t) ELSE retry_chan
  /\ UNCHANGED <<poolVars, clusterVars, rr_counter, updateVars, worker, dropped>>

\* The pool drops the task: its request does not encode, or the connection failed when its
\* response was half read.  Neither set_rpc_error nor error_handle is called.
TaskLost(t) ==
  /\ task[t].pc = "open"
  /\ task' = [task EXCEPT ![t].pc = "lost"]
  /\ UNCHANGED <<poolVars, clusterVars, rr_counter, updateVars, retry_chan, worker, dropped>>

-----------------------------------------------------------------------------
(***************************************************************************)
(* retry_worker.                                                            *)
(***************************************************************************)
\* The inner pool is kept by the handle and by the coroutines of the pools.
InnerFreed == dropped /\ \A p \in PoolIds : ~pools[p].live

\* Mutant: a task without a cluster is forgotten.
RetryRecvForgets ==
  /\ worker.pc = "recv" /\ retry_chan # <<>>
  /\ retry_chan' = Tail(retry_chan)
  /\ LET t == Head(retry_chan)
     IN IF InnerFreed \/ current = None
        THEN UNCHANGED <<task, worker>>
        ELSE /\ task' = [task EXCEPT ![t].pc = "worker"]
             /\ worker' = [pc |-> "loaded", t |-> t, snap |-> current]
  /\ UNCHANGED <<poolVars, clusterVars, rr_counter, updateVars, dropped>>

\* recv, upgrade and load: without a cluster the task ends with its last error.
RetryRecv ==
  /\ worker.pc = "recv" /\ retry_chan # <<>>
  /\ retry_chan' = Tail(retry_chan)
  /\ LET t == Head(retry_chan)
     IN IF InnerFreed \/ current = None
        THEN /\ task' = [task EXCEPT ![t].pc = "done"]
             /\ UNCHANGED worker
        ELSE /\ task' = [task EXCEPT ![t].pc = "worker"]
             /\ worker' = [pc |-> "loaded", t |-> t, snap |-> current]
  /\ UNCHANGED <<poolVars, clusterVars, rr_counter, updateVars, dropped>>

\* Mutant: a retry starts from the pool that has just failed.
NextSeedSame(i) == i

\* The seed of a retry in the same cluster.
NextSeed(i) == i + 1

\* The version the task carries after a selection in the loaded cluster.
RetryVer(t) == worker.snap

\* select, from the next pool on if the cluster is still the one the task was last
\* sent in, otherwise afresh.
RetrySelect ==
  /\ worker.pc = "loaded"
  /\ LET t == worker.t
         v == worker.snap
         same == v = task[t].cluster_ver
         found == HealthyFrom(v, IF same THEN NextSeed(task[t].last_index) ELSE FreshSeed)
     IN /\ IF same THEN UNCHANGED rr_counter ELSE CountFresh(v)
        /\ IF found = {}
           THEN /\ task' = [task EXCEPT ![t].pc = "done", ![t].cluster_ver = RetryVer(t)]
                /\ worker' = Resting /\ UNCHANGED picks
           ELSE /\ task' = [task EXCEPT ![t].at = PoolAt(v, Least(found)),
                              ![t].last_index = Least(found),
                              ![t].cluster_ver = RetryVer(t)]
                /\ worker' = [worker EXCEPT !.pc = "picked"]
                /\ IF same THEN UNCHANGED picks ELSE Pick(PoolAt(v, Least(found)))
  /\ UNCHANGED <<pools, clusterVars, updateVars, retry_chan, dropped>>

RetrySend ==
  /\ worker.pc = "picked" /\ Room(task[worker.t].at)
  /\ task' = [task EXCEPT ![worker.t].pc = "open", ![worker.t].sends = @ + 1]
  /\ worker' = Resting
  /\ UNCHANGED <<poolVars, clusterVars, rr_counter, updateVars, retry_chan, dropped>>

\* All senders of the retry channel are gone.
RetryExit ==
  /\ worker.pc = "recv" /\ retry_chan = <<>> /\ InnerFreed
  /\ worker' = [worker EXCEPT !.pc = "gone"]
  /\ UNCHANGED <<poolVars, clusterVars, rr_counter, updateVars, task, retry_chan, dropped>>

-----------------------------------------------------------------------------
(***************************************************************************)
(* The pools.                                                               *)
(***************************************************************************)
PoolFails(p) ==
  /\ pools[p].ok /\ Cardinality({q \in PoolIds : ~pools[q].ok}) < Fails
  /\ pools' = [pools EXCEPT ![p].ok = FALSE]
  /\ UNCHANGED <<picks, clusterVars, rr_counter, updateVars, task, retry_chan, worker, dropped>>

InList(p, list) == \E i \in DOMAIN list : list[i] = p

\* A cluster that is stored, about to be, or in use refers to the pool.
Referenced(p) ==
  \/ current # None /\ InList(p, clusters[current])
  \/ \E u \in Updaters : InList(p, updater[u].list)
  \/ \E t \in Tasks : task[t].pc \in {"loaded", "picked"} /\ InList(p, clusters[task[t].snap])
  \/ worker.pc \in {"loaded", "picked"} /\ InList(p, clusters[worker.snap])

\* The coroutines of a pool without handles have ended its tasks and exit.  They may never
\* do so: worker 0 stays in its loop as long as the server refuses connections.
PoolExits(p) ==
  /\ pools[p].live /\ ~Referenced(p)
  /\ \A t \in Tasks : ~(task[t].pc = "open" /\ task[t].at = p)
  /\ pools' = [pools EXCEPT ![p].live = FALSE]
  /\ UNCHANGED <<picks, clusterVars, rr_counter, updateVars, task, retry_chan, worker, dropped>>

RetryStep == RetryRecv \/ RetrySelect \/ RetrySend \/ RetryExit
TaskStep(t) == SelectFirst(t) \/ SendFirst(t) \/ TaskDone(t) \/ TaskFails(t) \/ TaskLost(t)
UpdateStep(u) == Stamp(u) \/ Store(u)

Next ==
  \/ \E t \in Tasks : LoadCluster(t) \/ TaskStep(t)
  \/ \E u \in Updaters : MakePools(u) \/ UpdateStep(u)
  \/ RetryStep \/ DropFailover
  \/ \E p \in PoolIds : PoolFails(p) \/ PoolExits(p)

Spec == Init /\ [][Next]_vars

\* The runtime runs every coroutine, and a pool ends or loses every task it took.
Fairness ==
  /\ WF_vars(RetryStep)
  /\ \A t \in Tasks : WF_vars(TaskStep(t))
  /\ \A u \in Updaters : WF_vars(UpdateStep(u))

FairSpec == Spec /\ Fairness

-----------------------------------------------------------------------------
(***************************************************************************)
(* Properties.                                                              *)
(***************************************************************************)
\* A task is given to pools at most retry_limit + 1 times, however often the
\* cluster changes and whatever errors the pools report.
SendsBounded == \A t \in Tasks : task[t].sends <= RetryLimit + 1

\* The index and the version a task carries name the pool it was last given to.
\* Otherwise a retry that finds the same version would start from a wrong pool:
\* versions must be unique under concurrent update_addrs, and every selection
\* must renew both.
IndexNamesPool ==
  \A t \in Tasks :
    task[t].at # 0 /\ task[t].pc # "done" =>
      /\ task[t].cluster_ver \in DOMAIN clusters /\ clusters[task[t].cluster_ver] # <<>>
      /\ PoolAt(task[t].cluster_ver, task[t].last_index) = task[t].at

\* A retry in the same cluster goes back to the pool that failed only if no other
\* pool of the cluster is healthy.
RetryMovesOn ==
  [][worker.pc = "loaded" /\ worker'.pc = "picked"
       /\ worker.snap = task[worker.t].cluster_ver
       /\ task'[worker.t].at = task[worker.t].at
     => \A i \in DOMAIN clusters[worker.snap] :
          clusters[worker.snap][i] = task[worker.t].at
            \/ ~pools[clusters[worker.snap][i]].ok]_vars

\* As long as the cluster has not changed and its pools are healthy, round robin gives
\* each the same number of first selections, up to one, although the callers race on
\* the counter.
RoundRobinBalanced ==
  LET members == {clusters[0][i] : i \in DOMAIN clusters[0]} IN
    RoundRobin /\ current = 0 /\ (\A p \in members : pools[p].ok)
      => \A p, q \in members : picks[p] <= picks[q] + 1

\* Every task given to send_req is done in the end, unless the pool that has it loses it:
\* retries are limited, and a drop or an emptied cluster ends the tasks that wait for the
\* retry worker.  The failover pool itself loses none.
EveryTaskDone ==
  \A t \in Tasks : (task[t].pc = "loaded") ~> (task[t].pc \in {"done", "lost"})

\* The pools nobody refers to exit, which they do once their server takes connections.
PoolsLeave == WF_vars(\E p \in PoolIds : PoolExits(p))

\* After the drop the retry worker exits, provided the pools do: the cycle between the
\* inner pool and its ClientPools is broken.
DropEndsRetryWorker == PoolsLeave => (dropped ~> (worker.pc = "gone"))

=============================================================================
