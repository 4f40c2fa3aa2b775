------------------------- MODULE FailoverPool_proofs -------------------------
(***************************************************************************)
(* Proofs about FailoverPool.tla, for any number of tasks, addresses,       *)
(* updates and retries: a task is sent at most retry_limit + 1 times, the   *)
(* index it carries names the pool it was last given to, a retry moves on   *)
(* to another pool, and round robin is balanced.                            *)
(***************************************************************************)
EXTENDS FailoverPool, FiniteSetTheorems, SequenceTheorems, WellFoundedInduction, TLAPS

Fields == {"pc", "snap", "at", "last_index", "cluster_ver", "retry", "sends", "res"}

\* How often a task was sent follows from how often it failed and where it is.
Counted(k) ==
  /\ DOMAIN k = Fields /\ k.retry \in Nat /\ k.sends \in Nat
  /\ k.pc \in {"new", "loaded", "picked", "open", "retry", "worker", "done", "lost"}
  /\ k.pc \in {"new", "loaded", "picked"} => k.retry = 0 /\ k.sends = 0
  /\ k.pc = "open" => k.sends = k.retry + 1 /\ k.retry <= RetryLimit
  /\ k.pc \in {"retry", "worker"} => k.sends = k.retry /\ k.retry <= RetryLimit
  /\ k.pc \in {"done", "lost"} => k.sends <= RetryLimit + 1

\* A task is in the retry channel once, and nowhere else meanwhile; the retry worker has
\* its task for itself.
RetryInv ==
  /\ DOMAIN task = Tasks /\ \A t \in Tasks : Counted(task[t])
  /\ retry_chan \in Seq(Tasks)
  /\ \A i \in 1..Len(retry_chan) : task[retry_chan[i]].pc = "retry"
  /\ \A i, j \in 1..Len(retry_chan) : retry_chan[i] = retry_chan[j] => i = j
  /\ worker.pc \in {"loaded", "picked"} => worker.t \in Tasks /\ task[worker.t].pc = "worker"

-----------------------------------------------------------------------------
\* Only the task t changes.
Only(t) ==
  DOMAIN task' = Tasks /\ \A x \in Tasks \ {t} : task'[x] = task[x]

\* A step on a task that is neither in the channel nor with the retry worker.
LEMMA CallerStep ==
  ASSUME RetryInv, NEW t \in Tasks, Only(t), Counted(task'[t]),
         task[t].pc \notin {"retry", "worker"}, UNCHANGED <<retry_chan, worker>>
  PROVE  RetryInv'
<1>1. \A i \in 1..Len(retry_chan) : retry_chan[i] \in Tasks \ {t}
  BY DEF RetryInv
<1>2. worker.pc \in {"loaded", "picked"} => worker.t \in Tasks \ {t}
  BY Zenon DEF RetryInv
<1>3. QED  BY Zenon, <1>1, <1>2 DEF RetryInv, Only

\* The steps of a task before its first failure, and its end, keep RetryInv.
LEMMA TaskSteps ==
  ASSUME RetryInv, NEW t \in Tasks,
         LoadCluster(t) \/ SelectFirst(t) \/ SendFirst(t) \/ TaskDone(t) \/ TaskLost(t)
  PROVE  RetryInv'
<1> USE FailoverAssumption
<1>0. Counted(task[t]) /\ DOMAIN task = Tasks
  BY Zenon DEF RetryInv
<1>1. CASE LoadCluster(t)
  <2>1. Only(t) /\ Counted(task'[t])
    BY Zenon, <1>0, <1>1 DEF LoadCluster, Only, Counted, Fields
  <2>2. QED  BY Zenon, <1>1, <2>1, CallerStep DEF LoadCluster
<1>2. CASE SelectFirst(t)
  <2>1. Only(t) /\ task[t].pc = "loaded" /\ UNCHANGED <<retry_chan, worker>>
    BY Zenon, <1>0, <1>2 DEF SelectFirst, Only
  <2>2. Counted(task'[t])
    BY <1>0, <1>2 DEF SelectFirst, Counted, Fields
  <2>3. QED  BY Zenon, <2>1, <2>2, CallerStep
<1>3. CASE SendFirst(t)
  <2>1. Only(t) /\ Counted(task'[t])
    BY <1>0, <1>3 DEF SendFirst, Only, Counted, Fields
  <2>2. QED  BY Zenon, <1>3, <2>1, CallerStep DEF SendFirst
<1>4. CASE TaskDone(t)
  <2>1. Only(t) /\ Counted(task'[t])
    BY <1>0, <1>4 DEF TaskDone, Only, Counted, Fields, Final
  <2>2. QED  BY Zenon, <1>4, <2>1, CallerStep DEF TaskDone
<1>5. CASE TaskLost(t)
  <2>1. Only(t) /\ Counted(task'[t])
    BY <1>0, <1>5 DEF TaskLost, Only, Counted, Fields
  <2>2. QED  BY Zenon, <1>5, <2>1, CallerStep DEF TaskLost
<1>6. QED  BY Zenon, <1>1, <1>2, <1>3, <1>4, <1>5

\* error_handle sends a task to the retry worker only while retry <= retry_limit.
LEMMA FailStep ==
  ASSUME RetryInv, NEW t \in Tasks, TaskFails(t)
  PROVE  RetryInv'
<1> USE FailoverAssumption
<1>0. Counted(task[t]) /\ DOMAIN task = Tasks /\ task[t].pc = "open" /\ UNCHANGED worker
  BY Zenon DEF RetryInv, TaskFails
<1>1. Only(t) /\ Counted(task'[t])
  BY <1>0 DEF TaskFails, Only, Counted, Fields, MayRetry, Retriable
<1>2. CASE ~MayRetry(task[t].retry + 1)
  <2>1. UNCHANGED retry_chan
    BY Zenon, <1>2 DEF TaskFails
  <2>2. QED  BY Zenon, <1>0, <1>1, <2>1, CallerStep
<1>3. CASE MayRetry(task[t].retry + 1)
  <2>1. retry_chan' = Append(retry_chan, t) /\ task'[t].pc = "retry"
    BY <1>0, <1>3 DEF TaskFails, Counted, Fields
  <2>2. \A i \in 1..Len(retry_chan) : retry_chan[i] \in Tasks \ {t}
    BY <1>0 DEF RetryInv
  <2>3. worker.pc \in {"loaded", "picked"} => worker.t \in Tasks \ {t}
    BY Zenon, <1>0 DEF RetryInv
  <2>4. /\ retry_chan' \in Seq(Tasks) /\ Len(retry_chan') = Len(retry_chan) + 1
        /\ retry_chan'[Len(retry_chan) + 1] = t
        /\ \A i \in 1..Len(retry_chan) : retry_chan'[i] = retry_chan[i]
    BY <2>1 DEF RetryInv
  <2>5. \A i \in 1..Len(retry_chan') : task'[retry_chan'[i]].pc = "retry"
    BY <1>1, <2>1, <2>2, <2>4 DEF RetryInv, Only
  <2>6. \A i, j \in 1..Len(retry_chan') : retry_chan'[i] = retry_chan'[j] => i = j
    BY <2>2, <2>4 DEF RetryInv
  <2>7. QED  BY Zenon, <1>0, <1>1, <2>3, <2>4, <2>5, <2>6 DEF RetryInv, Only
<1>4. QED  BY Zenon, <1>2, <1>3

-----------------------------------------------------------------------------
(***************************************************************************)
(* The retry worker.                                                        *)
(***************************************************************************)
LEMMA RecvStep ==
  ASSUME RetryInv, RetryRecv
  PROVE  RetryInv'
<1> USE FailoverAssumption
<1> DEFINE t == Head(retry_chan)
<1>1. t \in Tasks /\ t = retry_chan[1] /\ Len(retry_chan) >= 1 /\ task[t].pc = "retry"
  BY DEF RetryInv, RetryRecv
<1>2. Counted(task[t]) /\ DOMAIN task = Tasks
  BY Zenon, <1>1 DEF RetryInv
<1>3. Only(t) /\ Counted(task'[t])
  <2>1. PICK to \in {"done", "worker"} : task' = [task EXCEPT ![t].pc = to]
    BY Zenon DEF RetryRecv
  <2>2. Only(t)
    BY Zenon, <1>1, <1>2, <2>1 DEF Only
  <2>3. task'[t] = [task[t] EXCEPT !.pc = to]
    BY Zenon, <1>1, <1>2, <2>1
  <2>4. QED  BY <1>1, <1>2, <2>2, <2>3 DEF Counted, Fields
<1>4. /\ retry_chan' \in Seq(Tasks) /\ Len(retry_chan') = Len(retry_chan) - 1
      /\ \A i \in 1..Len(retry_chan') : retry_chan'[i] = retry_chan[i + 1]
  BY <1>1 DEF RetryInv, RetryRecv
<1>5. \A i \in 1..Len(retry_chan') : i + 1 \in 1..Len(retry_chan) /\ retry_chan'[i] \in Tasks \ {t}
  BY <1>1, <1>4 DEF RetryInv
<1>6. \A i \in 1..Len(retry_chan') : task'[retry_chan'[i]].pc = "retry"
  BY <1>3, <1>4, <1>5 DEF RetryInv, Only
<1>7. \A i, j \in 1..Len(retry_chan') : retry_chan'[i] = retry_chan'[j] => i = j
  BY <1>4, <1>5 DEF RetryInv
<1>8. worker'.pc \in {"loaded", "picked"} => worker'.t \in Tasks /\ task'[worker'.t].pc = "worker"
  BY <1>1, <1>2 DEF RetryRecv, Counted, Fields
<1>9. QED  BY Zenon, <1>2, <1>3, <1>4, <1>6, <1>7, <1>8 DEF RetryInv, Only

\* The steps of the retry worker on the task it has taken.
LEMMA WorkerStep ==
  ASSUME RetryInv, RetrySelect \/ RetrySend
  PROVE  RetryInv'
<1> USE FailoverAssumption
<1> DEFINE t == worker.t
<1>1. t \in Tasks /\ task[t].pc = "worker" /\ worker.pc \in {"loaded", "picked"} /\ UNCHANGED retry_chan
  BY Zenon DEF RetryInv, RetrySelect, RetrySend
<1>2. Counted(task[t]) /\ DOMAIN task = Tasks
  BY Zenon, <1>1 DEF RetryInv
<1>3. Only(t) /\ Counted(task'[t])
  <2>1. CASE RetrySelect
    BY SMTT(30), <1>1, <1>2, <2>1 DEF RetrySelect, Only, Counted, Fields
  <2>2. CASE RetrySend
    BY <1>1, <1>2, <2>2 DEF RetrySend, Only, Counted, Fields
  <2>3. QED  BY Zenon, <2>1, <2>2
<1>4. \A i \in 1..Len(retry_chan) : retry_chan[i] \in Tasks \ {t}
  BY <1>1 DEF RetryInv
<1>5. worker'.pc \in {"loaded", "picked"} => worker'.t = t /\ task'[t].pc = "worker"
  <2>1. CASE RetrySend
    BY Zenon, <2>1 DEF RetrySend, Resting
  <2>2. CASE RetrySelect
    <3>1. CASE worker' = Resting
      BY Zenon, <3>1 DEF Resting
    <3>2. CASE worker' # Resting
      <4>1. worker' = [worker EXCEPT !.pc = "picked"]
        BY ZenonT(30), <2>2, <3>2 DEF RetrySelect
      <4>2. task'[t].pc = "worker"
        BY <1>1, <1>2, <2>2, <3>2 DEF RetrySelect, Counted, Fields
      <4>3. QED  BY <4>1, <4>2
    <3>3. QED  BY Zenon, <3>1, <3>2
  <2>3. QED  BY Zenon, <2>1, <2>2
<1>6. QED  BY ZenonT(30), <1>1, <1>3, <1>4, <1>5 DEF RetryInv, Only

\* Every step keeps RetryInv.
LEMMA FailoverStep ==
  ASSUME RetryInv, [Next]_vars
  PROVE  RetryInv'
<1>1. ASSUME UNCHANGED <<task, retry_chan, worker>> PROVE RetryInv'
  BY <1>1 DEF RetryInv, Counted
<1>2. ASSUME NEW u \in Updaters, MakePools(u) \/ UpdateStep(u) PROVE RetryInv'
  BY Zenon, <1>1, <1>2 DEF MakePools, UpdateStep, Stamp, Store
<1>3. ASSUME NEW q \in PoolIds, PoolFails(q) \/ PoolExits(q) PROVE RetryInv'
  BY Zenon, <1>1, <1>3 DEF PoolFails, PoolExits
<1>4. CASE DropFailover \/ UNCHANGED vars
  BY Zenon, <1>1, <1>4 DEF DropFailover, vars
<1>5. CASE RetryExit
  BY <1>5 DEF RetryExit, RetryInv, Counted
<1>6. QED  BY Zenon, <1>2, <1>3, <1>4, <1>5, TaskSteps, FailStep, RecvStep, WorkerStep
           DEF Next, TaskStep, RetryStep

\* A task is given to pools at most retry_limit + 1 times, whatever fails and however often
\* update_addrs replaces the cluster (error_handle, retry_worker).
THEOREM Bounded == Spec => []SendsBounded
<1>1. Init => RetryInv
  BY FailoverAssumption DEF Init, RetryInv, Counted, NewTask, Fields, Resting
<1>2. RetryInv /\ [Next]_vars => RetryInv'
  BY Zenon, FailoverStep
<1>3. RetryInv => SendsBounded
  <2>1. ASSUME NEW k, Counted(k) PROVE k.sends <= RetryLimit + 1
    BY <2>1, FailoverAssumption DEF Counted
  <2>2. QED  BY Zenon, <2>1 DEF RetryInv, SendsBounded
<1>4. QED  BY <1>1, <1>2, <1>3, PTL DEF Spec

-----------------------------------------------------------------------------
(***************************************************************************)
(* Versions and clusters.                                                   *)
(***************************************************************************)
PoolRecords == [addr : Addrs, ok : BOOLEAN, live : BOOLEAN]

\* A cluster: some of the first n pools, each once.
Listed(l, n) ==
  /\ l \in Seq(1..n)
  /\ \A i, j \in 1..Len(l) : l[i] = l[j] => i = j

\* The versions that the updates have drawn are not stored yet.
Updating(k) ==
  /\ DOMAIN k = {"pc", "list", "ver"} /\ k.pc \in {"idle", "made", "stamped"}
  /\ Listed(k.list, Len(pools))
  /\ k.pc = "stamped" => k.ver \in 1..ver /\ k.ver \notin DOMAIN clusters

\* A cluster once stored stays as it is, under a version drawn for it alone.
ClusterInv ==
  /\ pools \in Seq(PoolRecords) /\ ver \in Nat /\ rr_counter \in Nat
  /\ 0 \in DOMAIN clusters /\ DOMAIN clusters \subseteq 0..ver
  /\ \A v \in DOMAIN clusters : Listed(clusters[v], Len(pools))
  /\ current \in DOMAIN clusters \cup {None} /\ (~dropped => current # None)
  /\ DOMAIN updater = Updaters /\ \A u \in Updaters : Updating(updater[u])
  /\ \A u, x \in Updaters :
       updater[u].pc = "stamped" /\ updater[x].pc = "stamped" /\ updater[u].ver = updater[x].ver => u = x

\* What a task carries names a cluster that was stored and a pool of it.
Named(k) ==
  /\ k.pc \in {"loaded", "picked"} => k.snap \in DOMAIN clusters
  /\ k.last_index \in Nat
  /\ k.at # 0 /\ k.pc # "done" =>
       /\ k.cluster_ver \in DOMAIN clusters /\ clusters[k.cluster_ver] # <<>>
       /\ PoolAt(k.cluster_ver, k.last_index) = k.at

NameInv ==
  /\ \A t \in Tasks : Named(task[t])
  /\ worker.pc \in {"loaded", "picked"} => worker.snap \in DOMAIN clusters

-----------------------------------------------------------------------------
\* A list of pools stays one when pools are added.
LEMMA ListedGrows ==
  ASSUME NEW l, NEW n \in Nat, NEW m \in Nat, n <= m, Listed(l, n)
  PROVE  Listed(l, m)
<1>1. 1..n \subseteq 1..m
  OBVIOUS
<1>2. l \in Seq(1..m)
  BY Zenon, <1>1, SeqMonotonic DEF Listed
<1>3. QED  BY Zenon, <1>2 DEF Listed

\* A step that leaves the clusters alone and at most adds pools.
LEMMA ClusterFrame ==
  ASSUME ClusterInv, pools' \in Seq(PoolRecords), Len(pools) <= Len(pools'), rr_counter' \in Nat,
         UNCHANGED <<clusters, ver, updater>>,
         current' \in {current, None}, ~dropped' => current' = current /\ ~dropped
  PROVE  ClusterInv'
<1>1. Len(pools) \in Nat /\ Len(pools') \in Nat
  BY DEF ClusterInv
<1>2. \A v \in DOMAIN clusters : Listed(clusters[v], Len(pools'))
  BY Zenon, <1>1, ListedGrows DEF ClusterInv
<1>3. \A u \in Updaters : Listed(updater[u].list, Len(pools'))
  BY Zenon, <1>1, ListedGrows DEF ClusterInv, Updating
<1>4. \A u \in Updaters : Updating(updater[u])'
  BY Zenon, <1>3 DEF ClusterInv, Updating
<1>5. QED  BY Zenon, <1>2, <1>4 DEF ClusterInv

\* A step of one update.
LEMMA UpdaterFrame ==
  ASSUME ClusterInv, NEW u \in Updaters, Updating(updater[u])', DOMAIN updater' = Updaters,
         \A x \in Updaters \ {u} : updater'[x] = updater[x],
         UNCHANGED <<clusters, current, rr_counter, dropped>>,
         pools' \in Seq(PoolRecords), Len(pools) <= Len(pools'), ver' \in Nat, ver <= ver',
         updater'[u].pc = "stamped" =>
           \A x \in Updaters \ {u} : updater[x].pc = "stamped" => updater[x].ver # updater'[u].ver
  PROVE  ClusterInv'
<1>1. Len(pools) \in Nat /\ Len(pools') \in Nat
  BY DEF ClusterInv
<1>2. \A v \in DOMAIN clusters : Listed(clusters[v], Len(pools'))
  BY Zenon, <1>1, ListedGrows DEF ClusterInv
<1>3. \A x \in Updaters : Listed(updater[x].list, Len(pools'))
  BY Zenon, <1>1, ListedGrows DEF ClusterInv, Updating
<1>4. \A x \in Updaters \ {u} : Updating(updater[x])'
  BY <1>3 DEF ClusterInv, Updating
<1>5. \A x \in Updaters : Updating(updater[x])'
  BY Zenon, <1>4
<1>6. QED  BY SMTT(30), <1>2, <1>5 DEF ClusterInv

-----------------------------------------------------------------------------
(***************************************************************************)
(* update_addrs.                                                            *)
(***************************************************************************)
\* The members of a set of indices are numbered from 1 on.
LEMMA RankFacts ==
  ASSUME NEW n \in Nat, NEW A \in SUBSET (1..n)
  PROVE  LET rank(i) == Cardinality({k \in A : k <= i})
         IN /\ Cardinality(A) \in Nat
            /\ \A i \in A : rank(i) \in 1..Cardinality(A)
            /\ \A i, j \in A : rank(i) = rank(j) => i = j
            /\ \A m \in 1..Cardinality(A) : \E i \in A : rank(i) = m
<1> DEFINE below(i) == {k \in A : k <= i}
           N == Cardinality(A)
           r == [i \in A |-> Cardinality(below(i))]
<1>1. IsFiniteSet(A) /\ N \in Nat
  <2>1. IsFiniteSet(1..n)
    BY FS_Interval
  <2>2. IsFiniteSet(A)
    BY Zenon, <2>1, FS_Subset
  <2>3. QED  BY Zenon, <2>2, FS_CardinalityType
<1>2. ASSUME NEW i \in A PROVE IsFiniteSet(below(i)) /\ Cardinality(below(i)) \in 1..N
  <2>1. below(i) \in SUBSET A /\ below(i) # {}
    OBVIOUS
  <2>2. IsFiniteSet(below(i)) /\ Cardinality(below(i)) <= N
    BY Zenon, <1>1, <2>1, FS_Subset
  <2>3. Cardinality(below(i)) \in Nat /\ Cardinality(below(i)) # 0
    BY Zenon, <2>1, <2>2, FS_CardinalityType, FS_EmptySet
  <2>4. QED  BY <1>1, <2>2, <2>3
<1>3. ASSUME NEW i \in A, NEW j \in A, i < j PROVE Cardinality(below(i)) # Cardinality(below(j))
  <2>1. A \subseteq Int
    OBVIOUS
  <2>2. \A k \in A : k <= i => k <= j
    BY <1>3, <2>1
  <2>3. below(i) \in SUBSET below(j)
    BY Zenon, <2>2
  <2>4. j <= j /\ ~(j <= i)
    BY <1>3, <2>1
  <2>5. below(i) # below(j)
    BY Zenon, <2>4
  <2>6. QED  BY Zenon, <1>2, <2>3, <2>5, FS_Subset
<1>4. \A i, j \in A : Cardinality(below(i)) = Cardinality(below(j)) => i = j
  BY <1>3
<1>5. r \in Injection(A, 1..N)
  <2>1. r \in [A -> 1..N]
    BY Zenon, <1>2
  <2>2. \A i, j \in A : r[i] = r[j] => i = j
    BY Zenon, <1>4
  <2> HIDE DEF r
  <2>3. QED  BY Zenon, <2>1, <2>2 DEF Injection, IsInjective
<1>6. IsFiniteSet(1..N) /\ Cardinality(1..N) = N
  BY <1>1, FS_Interval
<1>7. r \in Surjection(A, 1..N)
  <2> HIDE DEF r
  <2>1. QED  BY Zenon, <1>1, <1>5, <1>6, FS_Injection
<1>8. \A m \in 1..N : \E i \in A : r[i] = m
  <2> HIDE DEF r
  <2>1. QED  BY Zenon, <1>7 DEF Surjection
<1>9. QED  BY Zenon, <1>1, <1>2, <1>4, <1>8

\* The pools that update_addrs creates, one for each address whose index is in A.
LEMMA NewPools ==
  ASSUME NEW list \in AddrLists, NEW A \in SUBSET DOMAIN list
  PROVE  LET rank(i) == Cardinality({k \in A : k <= i})
             nth(n) == CHOOSE i \in A : rank(i) = n
             new == [n \in 1 .. Cardinality(A) |-> NewPool(list[nth(n)])]
         IN new \in Seq(PoolRecords) /\ Len(new) = Cardinality(A) /\ Cardinality(A) \in Nat
<1> DEFINE rank(i) == Cardinality({k \in A : k <= i})
           nth(n) == CHOOSE i \in A : rank(i) = n
           new == [n \in 1 .. Cardinality(A) |-> NewPool(list[nth(n)])]
<1>1. PICK m \in Nat : list \in [1..m -> Addrs]
  BY DEF AddrLists
<1>2. /\ Cardinality(A) \in Nat
      /\ \A n \in 1..Cardinality(A) : \E i \in A : rank(i) = n
  BY Zenon, <1>1, RankFacts
<1>3. \A n \in 1..Cardinality(A) : nth(n) \in A
  BY Zenon, <1>2
<1>4. \A n \in 1..Cardinality(A) : NewPool(list[nth(n)]) \in PoolRecords
  BY Zenon, <1>1, <1>3 DEF NewPool, PoolRecords
<1>5. new \in [1..Cardinality(A) -> PoolRecords]
  BY Zenon, <1>4
<1> HIDE DEF new
<1>6. new \in Seq(PoolRecords) /\ Len(new) = Cardinality(A)
  BY <1>2, <1>5
<1>7. QED  BY Zenon, <1>2, <1>6 DEF new

\* The list that update_addrs makes: every pool once, because the addresses differ.
LEMMA MakeStep ==
  ASSUME ClusterInv, NEW u \in Updaters, MakePools(u)
  PROVE  ClusterInv'
<1>1. PICK list \in AddrLists :
        LET old == clusters[current]
            added == {i \in DOMAIN list : Kept(old, list, i) = {}}
            rank(i) == Cardinality({k \in added : k <= i})
            nth(n) == CHOOSE i \in added : rank(i) = n
        IN /\ pools' = pools \o [n \in 1 .. Cardinality(added) |-> NewPool(list[nth(n)])]
           /\ updater' = [updater EXCEPT ![u] =
               [pc |-> "made", ver |-> NoVer,
                list |-> [i \in DOMAIN list |->
                            IF i \in added THEN Len(pools) + rank(i)
                            ELSE CHOOSE p \in Kept(old, list, i) : TRUE]]]
  BY Zenon DEF MakePools
<1> DEFINE old == clusters[current]
           added == {i \in DOMAIN list : Kept(old, list, i) = {}}
           rank(i) == Cardinality({k \in added : k <= i})
           nth(n) == CHOOSE i \in added : rank(i) = n
           kept(i) == CHOOSE p \in Kept(old, list, i) : TRUE
           new == [n \in 1 .. Cardinality(added) |-> NewPool(list[nth(n)])]
           made == [i \in DOMAIN list |-> IF i \in added THEN Len(pools) + rank(i) ELSE kept(i)]
           k == [pc |-> "made", ver |-> NoVer, list |-> made]
<1>2. PICK m \in Nat : list \in [1..m -> Addrs] /\ \A i, j \in 1..m : list[i] = list[j] => i = j
  BY DEF AddrLists
<1>3. added \in SUBSET (1..m) /\ DOMAIN list = 1..m
  BY Zenon, <1>2
<1> HIDE DEF added
<1>4. /\ Cardinality(added) \in Nat
      /\ \A i \in added : rank(i) \in 1..Cardinality(added)
      /\ \A i, j \in added : rank(i) = rank(j) => i = j
      /\ \A n \in 1..Cardinality(added) : \E i \in added : rank(i) = n
  BY Zenon, <1>3, RankFacts
<1>5. new \in Seq(PoolRecords) /\ Len(new) = Cardinality(added)
  BY Zenon, <1>3, NewPools
<1>6. pools' \in Seq(PoolRecords) /\ Len(pools') = Len(pools) + Cardinality(added) /\ Len(pools) \in Nat
  <2>1. pools' = pools \o new
    BY Zenon, <1>1 DEF added
  <2>2. pools \in Seq(PoolRecords)
    BY Zenon DEF ClusterInv
  <2> HIDE DEF new
  <2>3. pools \o new \in Seq(PoolRecords) /\ Len(pools \o new) = Len(pools) + Len(new)
    BY Zenon, <1>5, <2>2, ConcatProperties
  <2>4. Len(pools) \in Nat
    BY SMTT(30), <2>2
  <2>5. QED  BY Zenon, <1>5, <2>1, <2>3, <2>4, Zenon
<1>7. Listed(old, Len(pools))
  BY Zenon DEF ClusterInv, MakePools
<1>8. ASSUME NEW i \in (1..m) \ added
      PROVE  kept(i) \in 1..Len(pools) /\ pools[kept(i)].addr = list[i]
  <2>1. kept(i) \in Kept(old, list, i)
    BY Zenon, <1>3, <1>8 DEF added
  <2>2. kept(i) \in {old[j] : j \in DOMAIN old} /\ pools[kept(i)].addr = list[i]
    BY Zenon, <2>1 DEF Kept
  <2>3. \A j \in DOMAIN old : old[j] \in 1..Len(pools)
    BY <1>7 DEF Listed
  <2> HIDE DEF kept, old
  <2>4. QED  BY Zenon, <2>2, <2>3
<1>9. ASSUME NEW i \in 1..m
      PROVE  /\ i \in added => made[i] \in Len(pools) + 1..Len(pools')
             /\ i \notin added => made[i] = kept(i) /\ made[i] \in 1..Len(pools)
             /\ made[i] \in 1..Len(pools')
  BY SMTT(30), <1>3, <1>4, <1>6, <1>8
<1>10. ASSUME NEW i \in 1..m, NEW j \in 1..m, made[i] = made[j] PROVE i = j
  <2>1. CASE i \in added /\ j \in added
    BY SMTT(30), <1>3, <1>4, <1>6, <1>10, <2>1
  <2> HIDE DEF made, kept
  <2>2. CASE i \notin added /\ j \notin added
    BY <1>2, <1>8, <1>9, <1>10, <2>2
  <2>3. CASE i \in added /\ j \notin added
    BY <1>6, <1>9, <1>10, <2>3
  <2>4. CASE i \notin added /\ j \in added
    BY <1>6, <1>9, <1>10, <2>4
  <2>5. QED  BY Zenon, <2>1, <2>2, <2>3, <2>4
<1>11. Listed(made, Len(pools'))
  <2>1. made \in [1..m -> 1..Len(pools')]
    BY Zenon, <1>3, <1>9
  <2> HIDE DEF made
  <2>2. QED  BY <1>10, <2>1 DEF Listed
<1>12. updater' = [updater EXCEPT ![u] = k] /\ DOMAIN updater = Updaters
  BY Zenon, <1>1 DEF added, ClusterInv
<1>13. DOMAIN updater' = Updaters /\ updater'[u] = k /\ \A x \in Updaters \ {u} : updater'[x] = updater[x]
  <2> HIDE DEF k
  <2>1. QED  BY Zenon, <1>12
<1>14. Updating(updater[u])' /\ updater'[u].pc = "made"
  <2> HIDE DEF made
  <2>1. QED  BY SMTT(30), <1>11, <1>13 DEF Updating
<1>15. UNCHANGED <<clusters, current, rr_counter, dropped, ver>>
  BY Zenon DEF MakePools, clusterVars
<1>16. ver \in Nat /\ Len(pools) <= Len(pools')
  BY <1>4, <1>6 DEF ClusterInv
<1> HIDE DEF k
<1>17. QED  BY <1>6, <1>13, <1>14, <1>15, <1>16, UpdaterFrame

\* fetch_add draws a version that nobody has.
LEMMA StampStep ==
  ASSUME ClusterInv, NEW u \in Updaters, Stamp(u)
  PROVE  ClusterInv'
<1> DEFINE k == [updater[u] EXCEPT !.pc = "stamped", !.ver = ver + 1]
<1>1. Updating(updater[u]) /\ ver \in Nat /\ DOMAIN clusters \subseteq 0..ver /\ Len(pools) \in Nat
  BY DEF ClusterInv
<1>2. updater' = [updater EXCEPT ![u] = k] /\ DOMAIN updater = Updaters
  BY Zenon DEF ClusterInv, Stamp
<1>3. k.pc = "stamped" /\ k.ver = ver + 1 /\ k.list = updater[u].list /\ DOMAIN k = {"pc", "list", "ver"}
  BY Zenon, <1>1 DEF Updating
<1> HIDE DEF k
<1>4. DOMAIN updater' = Updaters /\ updater'[u] = k /\ \A x \in Updaters \ {u} : updater'[x] = updater[x]
  BY Zenon, <1>2
<1>5. UNCHANGED <<clusters, current, rr_counter, dropped, pools>> /\ ver' = ver + 1
  BY Zenon DEF Stamp, poolVars
<1>6. Updating(updater[u])'
  BY SMTT(30), <1>1, <1>3, <1>4, <1>5 DEF Updating
<1>7. \A x \in Updaters : updater[x].pc = "stamped" => updater[x].ver # k.ver
  BY SMTT(30), <1>1, <1>3 DEF ClusterInv, Updating
<1>8. pools' \in Seq(PoolRecords) /\ Len(pools) <= Len(pools') /\ ver' \in Nat /\ ver <= ver'
  BY <1>1, <1>5 DEF ClusterInv
<1>9. QED  BY Zenon, <1>4, <1>5, <1>6, <1>7, <1>8, UpdaterFrame

\* Storing adds a cluster; those stored before stay as they are.
Extended ==
  \A v \in DOMAIN clusters : v \in DOMAIN clusters' /\ clusters'[v] = clusters[v]

\* Storing a new cluster keeps ClusterInv and the clusters stored before.
LEMMA StoreStep ==
  ASSUME ClusterInv, NEW u \in Updaters, Store(u)
  PROVE  ClusterInv' /\ Extended /\ DOMAIN clusters' # {0} /\ current' # 0
<1> DEFINE w == updater[u].ver
<1>1. Updating(updater[u]) /\ ver \in Nat /\ DOMAIN updater = Updaters
  BY Zenon DEF ClusterInv
<1>2. w \in 1..ver /\ w \notin DOMAIN clusters /\ Listed(updater[u].list, Len(pools))
  BY Zenon, <1>1 DEF Updating, Store
<1>3. /\ DOMAIN clusters' = DOMAIN clusters \cup {w} /\ clusters'[w] = updater[u].list
      /\ \A v \in DOMAIN clusters : clusters'[v] = clusters[v]
  BY Zenon, <1>2 DEF Store
<1>4. /\ DOMAIN updater' = Updaters /\ updater'[u] = Idle
      /\ \A x \in Updaters \ {u} : updater'[x] = updater[x]
  BY Zenon, <1>1 DEF Store
<1>5. UNCHANGED <<pools, ver, rr_counter, dropped>> /\ current' = w
  BY Zenon DEF Store, poolVars
<1>6. Extended
  BY Zenon, <1>3 DEF Extended
<1>7. \A x \in Updaters : Updating(updater[x])'
  <2>1. Updating(updater[u])'
    <3>1. Listed(<<>>, Len(pools))
      BY DEF Listed
    <3>2. QED  BY <1>4, <1>5, <3>1 DEF Updating, Idle
  <2>2. ASSUME NEW x \in Updaters \ {u} PROVE Updating(updater[x])'
    <3>1. Updating(updater[x]) /\ (updater[x].pc = "stamped" => updater[x].ver # w)
      BY Zenon, <2>2 DEF ClusterInv, Store
    <3>2. QED  BY Zenon, <1>3, <1>4, <1>5, <3>1 DEF Updating
  <2>3. QED  BY Zenon, <2>1, <2>2
<1>8. \A v \in DOMAIN clusters' : Listed(clusters[v], Len(pools))'
  BY Zenon, <1>2, <1>3, <1>5 DEF ClusterInv
<1>9. \A x, y \in Updaters :
       updater'[x].pc = "stamped" /\ updater'[y].pc = "stamped" /\ updater'[x].ver = updater'[y].ver => x = y
  BY SMTT(30), <1>4 DEF ClusterInv, Idle
<1>10. DOMAIN clusters' \subseteq 0..ver' /\ 0 \in DOMAIN clusters'
  BY SMTT(30), <1>1, <1>2, <1>3, <1>5 DEF ClusterInv
<1>11. current' \in DOMAIN clusters' /\ current' # None /\ current' # 0
  BY SMTT(30), <1>1, <1>2, <1>3, <1>5 DEF None
<1>12. pools' \in Seq(PoolRecords) /\ ver' \in Nat /\ rr_counter' \in Nat
  BY Zenon, <1>5 DEF ClusterInv
<1>13. ClusterInv'
  BY Zenon, <1>4, <1>7, <1>8, <1>9, <1>10, <1>11, <1>12 DEF ClusterInv
<1>14. QED  BY Zenon, <1>3, <1>6, <1>11, <1>13

\* A pool that fails or exits keeps ClusterInv.
LEMMA PoolStep ==
  ASSUME ClusterInv, NEW p \in PoolIds, PoolFails(p) \/ PoolExits(p)
  PROVE  ClusterInv' /\ Len(pools') = Len(pools)
<1>1. pools \in Seq(PoolRecords) /\ p \in 1..Len(pools) /\ rr_counter \in Nat
  BY Zenon DEF ClusterInv, PoolIds
<1>2. pools[p] \in PoolRecords
  BY <1>1
<1>3. PICK r \in PoolRecords : pools' = [pools EXCEPT ![p] = r]
  <2>1. CASE PoolFails(p)
    <3>1. [pools[p] EXCEPT !.ok = FALSE] \in PoolRecords
      BY Zenon, <1>2 DEF PoolRecords
    <3>2. QED  BY Zenon, <2>1, <3>1 DEF PoolFails
  <2>2. CASE PoolExits(p)
    <3>1. [pools[p] EXCEPT !.live = FALSE] \in PoolRecords
      BY Zenon, <1>2 DEF PoolRecords
    <3>2. QED  BY Zenon, <2>2, <3>1 DEF PoolExits
  <2>3. QED  BY Zenon, <2>1, <2>2
<1>4. pools' \in Seq(PoolRecords) /\ Len(pools') = Len(pools)
  BY <1>1, <1>3
<1>5. UNCHANGED <<clusters, ver, updater, current, dropped, rr_counter>>
  BY Zenon DEF PoolFails, PoolExits, clusterVars, updateVars
<1>6. Len(pools) <= Len(pools')
  BY <1>1, <1>4
<1>7. QED  BY Zenon, <1>1, <1>4, <1>5, <1>6, ClusterFrame

-----------------------------------------------------------------------------
(***************************************************************************)
(* select.                                                                  *)
(***************************************************************************)
LEMMA LeastFacts ==
  ASSUME NEW S \in SUBSET Nat, S # {}
  PROVE  Least(S) \in S /\ \A j \in S : Least(S) <= j
<1> DEFINE R == OpToRel(<, Nat)
<1>1. \E x \in S : \A y \in S : ~ (<<y, x>> \in R)
  <2>1. IsWellFoundedOn(R, Nat)
    BY Zenon, NatLessThanWellFounded
  <2> HIDE DEF R
  <2>2. QED  BY Zenon, <2>1, WFMin
<1>2. PICK x \in S : \A y \in S : ~ (<<y, x>> \in R)
  BY Zenon, <1>1
<1>3. \A y \in S : x <= y
  <2>1. ASSUME NEW y \in S, y < x PROVE FALSE
    <3>1. <<y, x>> \in Nat \X Nat
      OBVIOUS
    <3>2. <<y, x>> \in R
      BY Zenon, <2>1, <3>1 DEF OpToRel
    <3>3. QED BY Zenon, <1>2, <3>2
  <2>2. QED BY <2>1
<1>4. QED  BY Zenon, <1>3 DEF Least

\* Division with a given remainder.
LEMMA ModUnique ==
  ASSUME NEW L \in Nat \ {0}, NEW q \in Nat, NEW k \in 0..L - 1
  PROVE  (L * q + k) % L = k /\ (L * q + k) \div L = q
OBVIOUS

\* Division with remainder.
LEMMA ModFacts ==
  ASSUME NEW L \in Nat \ {0}, NEW n \in Nat
  PROVE  /\ n % L \in 0..L - 1 /\ n \div L \in Nat /\ n = L * (n \div L) + (n % L)
<1>1. n % L \in 0..L - 1
  OBVIOUS
<1>2. n \div L \in Int /\ n = L * (n \div L) + (n % L)
  OBVIOUS
<1>3. n \div L >= 0
  OBVIOUS
<1>4. QED BY <1>1, <1>2, <1>3

\* Within one round of L counts only the last has the remainder of the first.
LEMMA ModNext ==
  ASSUME NEW L \in Nat \ {0}, NEW n \in Nat, NEW m \in n + 1..n + L, m % L = n % L
  PROVE  m = n + L
<1>0. m \in Nat
  OBVIOUS
<1>1. PICK q \in Nat, k \in 0..L - 1 : n = L * q + k /\ k = n % L
  BY Zenon, ModFacts
<1>2. PICK p \in Nat : m = L * p + k
  BY Zenon, <1>0, <1>1, ModFacts
<1>3. PICK d \in Int : p = q + d
  BY <1>1, <1>2
<1>4. m - n = L * d
  BY <1>1, <1>2, <1>3
<1>5. QED BY <1>4

\* Every remainder occurs among L successive numbers.
LEMMA ModReach ==
  ASSUME NEW L \in Nat \ {0}, NEW n \in Nat, NEW k \in 0..L - 1
  PROVE  \E j \in n..n + L - 1 : j % L = k
<1>1. PICK q \in Nat, x \in 0..L - 1 : n = L * q + x
  BY Zenon, ModFacts
<1>2. CASE k >= x
  <2>1. L * q + k \in n..n + L - 1
    BY <1>1, <1>2
  <2>2. QED BY Zenon, <1>1, <2>1, ModUnique
<1>3. CASE k < x
  <2>1. L * (q + 1) + k = L * q + L + k
    BY <1>1
  <2>2. L * (q + 1) + k \in n..n + L - 1
    BY <1>1, <1>3, <2>1
  <2>3. PICK p \in Nat : p = q + 1
    OBVIOUS
  <2>4. (L * p + k) % L = k
    BY Zenon, ModUnique
  <2>5. QED BY Zenon, <2>2, <2>3, <2>4
<1>4. QED BY <1>2, <1>3


\* select finds the first healthy pool from the seed on.
LEMMA SelectFacts ==
  ASSUME ClusterInv, NEW v \in DOMAIN clusters, NEW seed \in Nat, HealthyFrom(v, seed) # {}
  PROVE  LET m == Least(HealthyFrom(v, seed))
         IN /\ clusters[v] # <<>> /\ Len(clusters[v]) \in Nat \ {0}
            /\ m \in Nat /\ m \in seed..seed + Len(clusters[v]) - 1
            /\ PoolAt(v, m) \in 1..Len(pools) /\ pools[PoolAt(v, m)].ok
            /\ \A j \in seed..m - 1 : ~pools[PoolAt(v, j)].ok
<1> DEFINE L == Len(clusters[v])
           found == HealthyFrom(v, seed)
<1>1. clusters[v] \in Seq(1..Len(pools)) /\ L \in Nat
  BY DEF ClusterInv, Listed
<1>2. found \subseteq Nat /\ found \subseteq seed..seed + L - 1
  BY <1>1 DEF HealthyFrom
<1>3. L # 0
  BY <1>1, <1>2
<1>4. PICK m \in found : m = Least(found) /\ \A j \in found : m <= j
  BY Zenon, <1>2, LeastFacts
<1>5. PoolAt(v, m) \in 1..Len(pools)
  <2>1. m % L \in 0..L - 1
    BY Zenon, <1>1, <1>2, <1>3, ModFacts
  <2>2. QED  BY <1>1, <2>1 DEF PoolAt
<1>6. \A j \in seed..m - 1 : ~pools[PoolAt(v, j)].ok
  <2>1. ASSUME NEW j \in seed..m - 1, pools[PoolAt(v, j)].ok PROVE FALSE
    <3>1. j \in seed..seed + L - 1 /\ ~(m <= j)
      BY <1>1, <1>2
    <3>2. j \in found
      BY Zenon, <2>1, <3>1 DEF HealthyFrom
    <3>3. QED  BY Zenon, <1>4, <3>1, <3>2
  <2>2. QED  BY Zenon, <2>1
<1>7. pools[PoolAt(v, m)].ok
  BY Zenon DEF HealthyFrom
<1>8. QED  BY SMTT(30), <1>1, <1>2, <1>3, <1>4, <1>5, <1>6, <1>7

\* The round-robin seed is a natural number, before and after a count.
LEMMA SeedFacts ==
  ASSUME ClusterInv
  PROVE  FreshSeed \in Nat /\ \A v : CountFresh(v) => rr_counter' \in Nat
BY DEF ClusterInv, FreshSeed, CountFresh

\* Every step keeps ClusterInv and the clusters stored before.
LEMMA ClusterStep ==
  ASSUME ClusterInv, [Next]_vars
  PROVE  ClusterInv' /\ Extended
<1>1. pools \in Seq(PoolRecords) /\ Len(pools) <= Len(pools) /\ rr_counter \in Nat
  BY DEF ClusterInv
<1>2. ASSUME UNCHANGED <<pools, clusterVars, updateVars, dropped>>, rr_counter' \in Nat
      PROVE  ClusterInv' /\ Extended
  BY Zenon, <1>1, <1>2, ClusterFrame DEF clusterVars, updateVars, Extended
<1>3. ASSUME NEW t \in Tasks, LoadCluster(t) \/ SendFirst(t) \/ TaskDone(t) \/ TaskFails(t) \/ TaskLost(t)
      PROVE  ClusterInv' /\ Extended
  BY Zenon, <1>1, <1>2, <1>3 DEF LoadCluster, SendFirst, TaskDone, TaskFails, TaskLost, poolVars
<1>4. ASSUME NEW t \in Tasks, SelectFirst(t) PROVE ClusterInv' /\ Extended
  BY Zenon, <1>2, <1>4, SeedFacts DEF SelectFirst
<1>5. CASE RetryRecv \/ RetrySend \/ RetryExit \/ UNCHANGED vars
  BY Zenon, <1>1, <1>2, <1>5 DEF RetryRecv, RetrySend, RetryExit, vars, poolVars
<1>6. CASE RetrySelect
  BY Zenon, <1>1, <1>2, <1>6, SeedFacts DEF RetrySelect
<1>7. ASSUME NEW u \in Updaters, MakePools(u) \/ UpdateStep(u) PROVE ClusterInv' /\ Extended
  <2>1. CASE MakePools(u)
    BY Zenon, <2>1, MakeStep DEF MakePools, clusterVars, Extended
  <2>2. CASE Stamp(u)
    BY Zenon, <2>2, StampStep DEF Stamp, Extended
  <2>3. CASE Store(u)
    BY Zenon, <2>3, StoreStep
  <2>4. QED  BY Zenon, <1>7, <2>1, <2>2, <2>3 DEF UpdateStep
<1>8. ASSUME NEW p \in PoolIds, PoolFails(p) \/ PoolExits(p) PROVE ClusterInv' /\ Extended
  BY ZenonT(30), <1>8, PoolStep DEF PoolFails, PoolExits, clusterVars, Extended
<1>9. CASE DropFailover
  BY Zenon, <1>1, <1>9, ClusterFrame DEF DropFailover, poolVars, updateVars, Extended
<1>10. QED  BY Zenon, <1>3, <1>4, <1>5, <1>6, <1>7, <1>8, <1>9 DEF Next, TaskStep, RetryStep

-----------------------------------------------------------------------------
(***************************************************************************)
(* What the tasks carry.                                                    *)
(***************************************************************************)
\* A step of one task.
LEMMA NameFrame ==
  ASSUME NameInv, NEW t \in Tasks, Only(t), Named(task[t])', UNCHANGED clusters,
         worker'.pc \in {"loaded", "picked"} => worker'.snap \in DOMAIN clusters
  PROVE  NameInv'
BY ZenonT(30) DEF NameInv, Only, Named, PoolAt

\* A task's steps other than its first selection keep NameInv.
LEMMA NameTaskSteps ==
  ASSUME RetryInv, ClusterInv, NameInv, NEW t \in Tasks,
         LoadCluster(t) \/ SendFirst(t) \/ TaskDone(t) \/ TaskFails(t) \/ TaskLost(t)
  PROVE  NameInv'
<1>1. Counted(task[t]) /\ DOMAIN task = Tasks /\ Named(task[t])
  BY Zenon DEF RetryInv, NameInv
<1>2. UNCHANGED <<clusters, worker>>
  BY ZenonT(30) DEF LoadCluster, SendFirst, TaskDone, TaskFails, TaskLost, clusterVars
<1>3. Only(t)
  BY Zenon, <1>1 DEF LoadCluster, SendFirst, TaskDone, TaskFails, TaskLost, Only
<1>4. CASE LoadCluster(t)
  <2>1. current \in DOMAIN clusters
    BY Zenon, <1>4 DEF LoadCluster, ClusterInv
  <2>2. Named(task[t])'
    BY Zenon, <1>1, <1>2, <1>4, <2>1 DEF LoadCluster, Counted, Fields, Named, PoolAt
  <2>3. QED  BY Zenon, <1>2, <1>3, <2>2, NameFrame DEF NameInv
<1>5. CASE SendFirst(t)
  <2>1. Named(task[t])'
    BY Zenon, <1>1, <1>2, <1>5 DEF SendFirst, Counted, Fields, Named, PoolAt
  <2>2. QED  BY <1>2, <1>3, <2>1, NameFrame DEF NameInv
<1>6. CASE TaskDone(t)
  <2>1. Named(task[t])'
    BY ZenonT(30), <1>1, <1>2, <1>6 DEF TaskDone, Counted, Fields, Named, PoolAt
  <2>2. QED  BY <1>2, <1>3, <2>1, NameFrame DEF NameInv
<1>7. CASE TaskFails(t)
  <2>1. PICK to \in {"retry", "done"}, r \in Retriable :
          task' = [task EXCEPT ![t].pc = to, ![t].res = r, ![t].retry = task[t].retry + 1]
    BY Zenon, <1>7 DEF TaskFails
  <2>2. task'[t] = [task[t] EXCEPT !.pc = to, !.res = r, !.retry = task[t].retry + 1]
    BY Zenon, <1>1, <2>1
  <2>3. /\ task'[t].pc = to /\ task'[t].at = task[t].at /\ task'[t].last_index = task[t].last_index
        /\ task'[t].cluster_ver = task[t].cluster_ver /\ task[t].pc # "done"
    BY ZenonT(30), <1>1, <1>7, <2>2 DEF Counted, Fields, TaskFails
  <2>4. Named(task[t])'
    BY Zenon, <1>1, <1>2, <2>3 DEF Named, PoolAt
  <2>5. QED  BY Zenon, <1>2, <1>3, <2>4, NameFrame DEF NameInv
<1>8. CASE TaskLost(t)
  <2>1. Named(task[t])'
    BY ZenonT(30), <1>1, <1>2, <1>8 DEF TaskLost, Counted, Fields, Named, PoolAt
  <2>2. QED  BY <1>2, <1>3, <2>1, NameFrame DEF NameInv
<1>9. QED  BY Zenon, <1>4, <1>5, <1>6, <1>7, <1>8

\* The first selection of a pool keeps NameInv.
LEMMA NameSelect ==
  ASSUME RetryInv, ClusterInv, NameInv, NEW t \in Tasks, SelectFirst(t)
  PROVE  NameInv'
<1> DEFINE v == task[t].snap
           found == HealthyFrom(v, FreshSeed)
<1>1. Counted(task[t]) /\ DOMAIN task = Tasks /\ Named(task[t]) /\ v \in DOMAIN clusters
  BY Zenon DEF RetryInv, NameInv, Named, SelectFirst
<1>2. UNCHANGED <<clusters, worker>> /\ Only(t)
  BY Zenon, <1>1 DEF SelectFirst, clusterVars, Only
<1>3. CASE found = {}
  <2>1. task'[t] = [task[t] EXCEPT !.pc = "done", !.res = "Unreachable"]
    BY Zenon, <1>1, <1>3 DEF SelectFirst
  <2>2. Named(task[t])'
    BY Zenon, <1>1, <2>1 DEF Counted, Fields, Named
  <2>3. QED  BY Zenon, <1>2, <2>2, NameFrame DEF NameInv
<1>4. CASE found # {}
  <2>1. PICK m \in Nat : m = Least(found) /\ clusters[v] # <<>>
    BY Zenon, <1>1, <1>4, SeedFacts, SelectFacts
  <2>2. task'[t] = [task[t] EXCEPT !.pc = "picked", !.at = PoolAt(v, m),
                                   !.last_index = m, !.cluster_ver = v]
    BY Zenon, <1>1, <1>4, <2>1 DEF SelectFirst
  <2>3. /\ task'[t].pc = "picked" /\ task'[t].at = PoolAt(v, m) /\ task'[t].last_index = m
        /\ task'[t].cluster_ver = v /\ task'[t].snap = v
    BY Zenon, <1>1, <2>2 DEF Counted, Fields
  <2>4. Named(task[t])'
    BY Zenon, <1>1, <1>2, <2>1, <2>3 DEF Named, PoolAt
  <2>5. QED  BY Zenon, <1>2, <2>4, NameFrame DEF NameInv
<1>5. QED  BY Zenon, <1>3, <1>4

\* The retry worker's receive keeps NameInv.
LEMMA NameRecv ==
  ASSUME RetryInv, ClusterInv, NameInv, RetryRecv
  PROVE  NameInv'
<1>1. PICK t \in Tasks : t = Head(retry_chan) /\ task[t].pc = "retry"
  BY DEF RetryInv, RetryRecv
<1>2. Counted(task[t]) /\ DOMAIN task = Tasks /\ Named(task[t]) /\ UNCHANGED clusters
  BY Zenon, <1>1 DEF RetryInv, NameInv, RetryRecv, clusterVars
<1>3. PICK to \in {"done", "worker"} : task' = [task EXCEPT ![t].pc = to]
  BY Zenon, <1>1 DEF RetryRecv
<1>4. worker'.pc \in {"loaded", "picked"} => worker'.snap \in DOMAIN clusters
  <2>1. CASE InnerFreed \/ current = None
    BY Zenon, <2>1 DEF RetryRecv, NameInv
  <2>2. CASE ~(InnerFreed \/ current = None)
    BY <2>2 DEF RetryRecv, ClusterInv
  <2>3. QED  BY Zenon, <2>1, <2>2
<1>5. Only(t) /\ task'[t] = [task[t] EXCEPT !.pc = to]
  BY Zenon, <1>1, <1>2, <1>3 DEF Only
<1>6. Named(task[t])'
  BY Zenon, <1>1, <1>2, <1>5 DEF Counted, Fields, Named, PoolAt
<1>7. QED  BY Zenon, <1>1, <1>2, <1>4, <1>5, <1>6, NameFrame

\* The seed of a selection by the retry worker.
RetrySeed == IF worker.snap = task[worker.t].cluster_ver
             THEN NextSeed(task[worker.t].last_index) ELSE FreshSeed

\* What the retry worker's selection does to its task.
LEMMA RetrySelectFacts ==
  ASSUME RetryInv, ClusterInv, NameInv, RetrySelect
  PROVE  LET t == worker.t
             v == worker.snap
             found == HealthyFrom(v, RetrySeed)
         IN /\ t \in Tasks /\ v \in DOMAIN clusters /\ RetrySeed \in Nat /\ Only(t)
            /\ task[t].pc = "worker" /\ UNCHANGED <<clusters, pools>>
            /\ found = {} => task'[t].pc = "done" /\ worker' = Resting
                              /\ task'[t].last_index = task[t].last_index
            /\ found # {} =>
                 /\ worker' = [worker EXCEPT !.pc = "picked"] /\ task'[t].pc = "worker"
                 /\ task'[t].at = PoolAt(v, Least(found)) /\ task'[t].last_index = Least(found)
                 /\ task'[t].cluster_ver = v
<1> DEFINE t == worker.t
           v == worker.snap
           found == HealthyFrom(v, RetrySeed)
<1>1. t \in Tasks /\ task[t].pc = "worker" /\ v \in DOMAIN clusters /\ UNCHANGED <<clusters, pools>>
  BY Zenon DEF RetryInv, NameInv, RetrySelect, clusterVars
<1>2. Counted(task[t]) /\ DOMAIN task = Tasks /\ Named(task[t])
  BY Zenon, <1>1 DEF RetryInv, NameInv
<1>3. RetrySeed \in Nat
  BY <1>2, SeedFacts DEF RetrySeed, NextSeed, Named
<1>4. CASE found = {}
  <2>1. task' = [task EXCEPT ![t].pc = "done", ![t].cluster_ver = v] /\ worker' = Resting
    BY Zenon, <1>4 DEF RetrySelect, RetrySeed, RetryVer
  <2>2. Only(t) /\ task'[t] = [task[t] EXCEPT !.pc = "done", !.cluster_ver = v]
    BY Zenon, <1>1, <1>2, <2>1 DEF Only
  <2>3. task'[t].pc = "done" /\ task'[t].last_index = task[t].last_index
    BY Zenon, <1>2, <2>2 DEF Counted, Fields
  <2>4. QED  BY Zenon, <1>1, <1>3, <1>4, <2>1, <2>2, <2>3
<1>5. CASE found # {}
  <2> DEFINE m == Least(found)
  <2>1. /\ task' = [task EXCEPT ![t].at = PoolAt(v, m), ![t].last_index = m, ![t].cluster_ver = v]
        /\ worker' = [worker EXCEPT !.pc = "picked"]
    BY Zenon, <1>5 DEF RetrySelect, RetrySeed, RetryVer
  <2> HIDE DEF m
  <2>2. /\ Only(t)
        /\ task'[t] = [task[t] EXCEPT !.at = PoolAt(v, m), !.last_index = m, !.cluster_ver = v]
    BY Zenon, <1>1, <1>2, <2>1 DEF Only
  <2>3. /\ task'[t].pc = "worker" /\ task'[t].at = PoolAt(v, m) /\ task'[t].last_index = m
        /\ task'[t].cluster_ver = v
    BY Zenon, <1>1, <1>2, <2>2 DEF Counted, Fields
  <2>4. QED  BY Zenon, <1>1, <1>3, <1>5, <2>1, <2>2, <2>3 DEF m
<1>6. QED  BY Zenon, <1>4, <1>5

\* The retry worker's selection keeps NameInv.
LEMMA NameRetrySelect ==
  ASSUME RetryInv, ClusterInv, NameInv, RetrySelect
  PROVE  NameInv'
<1> DEFINE found == HealthyFrom(worker.snap, RetrySeed)
<1>1. PICK t \in Tasks, v \in DOMAIN clusters : t = worker.t /\ v = worker.snap
  BY Zenon, RetrySelectFacts
<1>2. RetrySeed \in Nat /\ Only(t) /\ UNCHANGED clusters
  BY Zenon, <1>1, RetrySelectFacts
<1>3. CASE found = {}
  <2>1. task'[t].pc = "done" /\ worker' = Resting /\ task'[t].last_index = task[t].last_index
    BY Zenon, <1>1, <1>3, RetrySelectFacts
  <2>2. Named(task[t])'
    BY Zenon, <1>1, <2>1 DEF NameInv, Named
  <2>3. QED  BY Zenon, <1>2, <2>1, <2>2, NameFrame DEF Resting
<1>4. CASE found # {}
  <2>1. PICK m \in Nat : m = Least(found) /\ clusters[v] # <<>>
    BY Zenon, <1>1, <1>2, <1>4, SelectFacts
  <2>2. /\ worker' = [worker EXCEPT !.pc = "picked"] /\ task'[t].pc = "worker"
        /\ task'[t].at = PoolAt(v, m) /\ task'[t].last_index = m /\ task'[t].cluster_ver = v
    BY Zenon, <1>1, <1>4, <2>1, RetrySelectFacts
  <2>3. Named(task[t])'
    BY Zenon, <1>2, <2>1, <2>2 DEF Named, PoolAt
  <2>4. worker'.pc \in {"loaded", "picked"} => worker'.snap \in DOMAIN clusters
    <3>1. worker.pc = "loaded"
      BY Zenon DEF RetrySelect
    <3>2. QED  BY SMTT(30), <1>1, <2>2
  <2>5. QED  BY Zenon, <1>2, <2>3, <2>4, NameFrame
<1>5. QED  BY Zenon, <1>3, <1>4

\* The retry worker's send keeps NameInv.
LEMMA NameRetrySend ==
  ASSUME RetryInv, ClusterInv, NameInv, RetrySend
  PROVE  NameInv'
<1>1. PICK t \in Tasks : t = worker.t /\ task[t].pc = "worker"
  BY Zenon DEF RetryInv, RetrySend
<1>2. Counted(task[t]) /\ DOMAIN task = Tasks /\ Named(task[t]) /\ UNCHANGED clusters
  BY Zenon, <1>1 DEF RetryInv, NameInv, RetrySend, clusterVars
<1>3. Only(t) /\ task'[t] = [task[t] EXCEPT !.pc = "open", !.sends = @ + 1]
  BY Zenon, <1>1, <1>2 DEF RetrySend, Only
<1>4. Named(task[t])'
  BY ZenonT(30), <1>1, <1>2, <1>3 DEF Counted, Fields, Named, PoolAt
<1>5. QED  BY Zenon, <1>2, <1>3, <1>4, NameFrame DEF RetrySend, Resting

\* Every step keeps NameInv.
LEMMA NameStep ==
  ASSUME RetryInv, ClusterInv, NameInv, [Next]_vars
  PROVE  NameInv'
<1>1. ASSUME UNCHANGED <<task, worker>>, Extended PROVE NameInv'
  <2>1. \A t \in Tasks : Named(task[t])'
    BY Zenon, <1>1 DEF NameInv, Named, Extended, PoolAt
  <2>2. QED  BY Zenon, <1>1, <2>1 DEF NameInv, Extended
<1>2. Extended
  BY Zenon, ClusterStep
<1>3. ASSUME NEW u \in Updaters, MakePools(u) \/ UpdateStep(u) PROVE NameInv'
  BY Zenon, <1>1, <1>2, <1>3 DEF MakePools, UpdateStep, Stamp, Store
<1>4. ASSUME NEW q \in PoolIds, PoolFails(q) \/ PoolExits(q) PROVE NameInv'
  BY Zenon, <1>1, <1>2, <1>4 DEF PoolFails, PoolExits
<1>5. CASE DropFailover \/ UNCHANGED vars
  BY Zenon, <1>1, <1>2, <1>5 DEF DropFailover, vars
<1>6. CASE RetryExit
  BY <1>6 DEF RetryExit, NameInv, Named, clusterVars, PoolAt
<1>7. QED  BY Zenon, <1>3, <1>4, <1>5, <1>6, NameTaskSteps, NameSelect, NameRecv, NameRetrySelect, NameRetrySend
           DEF Next, TaskStep, RetryStep

\* ClusterInv and NameInv hold initially.
LEMMA NameInit ==
  ASSUME Init
  PROVE  ClusterInv /\ NameInv
<1>1. PICK list \in AddrLists : /\ pools = [i \in 1..Len(list) |-> NewPool(list[i])]
                                 /\ clusters = [v \in {0} |-> [i \in 1..Len(list) |-> i]]
  BY Zenon DEF Init
<1>2. PICK m \in Nat : list \in [1..m -> Addrs]
  BY DEF AddrLists
<1>3. Len(list) = m /\ \A i \in 1..m : NewPool(list[i]) \in PoolRecords
  BY <1>2 DEF NewPool, PoolRecords
<1>4. pools \in Seq(PoolRecords) /\ Len(pools) = m
  <2>1. pools \in [1..m -> PoolRecords]
    BY Zenon, <1>1, <1>3
  <2>2. QED  BY <2>1
<1>5. Listed([i \in 1..m |-> i], m)
  <2> DEFINE id == [i \in 1..m |-> i]
  <2>1. id \in [1..m -> 1..m] /\ \A i \in 1..m : id[i] = i
    OBVIOUS
  <2> HIDE DEF id
  <2>2. id \in Seq(1..m) /\ Len(id) = m
    BY <2>1
  <2>3. Listed(id, m)
    BY Zenon, <2>1, <2>2 DEF Listed
  <2>4. QED  BY Zenon, <2>3 DEF id
<1>6. Listed(<<>>, m)
  BY DEF Listed
<1>7. DOMAIN clusters = {0} /\ Listed(clusters[0], m)
  BY Zenon, <1>1, <1>3, <1>5
<1>8. DOMAIN updater = Updaters /\ \A u \in Updaters : updater[u] = Idle
  BY Zenon DEF Init
<1>9. \A u \in Updaters : Updating(updater[u])
  BY SMTT(30), <1>4, <1>6, <1>8 DEF Updating, Idle
<1>10. ClusterInv
  <2>1. current = 0 /\ ver = 1 /\ rr_counter = 0
    BY Zenon DEF Init
  <2>2. \A u \in Updaters : updater[u].pc # "stamped"
    BY <1>8 DEF Idle
  <2>3. DOMAIN clusters \subseteq 0..ver /\ current # None
    BY <1>7, <2>1 DEF None
  <2>4. \A v \in DOMAIN clusters : Listed(clusters[v], Len(pools))
    BY Zenon, <1>4, <1>7
  <2>5. QED  BY Zenon, <1>4, <1>7, <1>8, <1>9, <2>1, <2>2, <2>3, <2>4 DEF ClusterInv
<1>11. NameInv
  BY Zenon DEF Init, NameInv, Named, NewTask, Resting
<1>12. QED  BY Zenon, <1>10, <1>11

\* What the theorems about clusters rest on.
FailoverInv == RetryInv /\ ClusterInv /\ NameInv

\* FailoverInv is an invariant of the failover pool.
LEMMA FailoverInvariant == Spec => []FailoverInv
<1>1. Init => FailoverInv
  <2>1. Init => RetryInv
    BY FailoverAssumption DEF Init, RetryInv, Counted, NewTask, Fields, Resting
  <2>2. QED  BY Zenon, <2>1, NameInit DEF FailoverInv
<1>2. FailoverInv /\ [Next]_vars => FailoverInv'
  BY Zenon, FailoverStep, ClusterStep, NameStep DEF FailoverInv
<1>3. QED  BY <1>1, <1>2, PTL DEF Spec

\* The index and the version that a task carries name the pool it was last given to, however
\* many calls of update_addrs race and store their clusters out of order (select, retry_worker).
THEOREM IndexNamed == Spec => []IndexNamesPool
<1>1. FailoverInv => IndexNamesPool
  BY Zenon DEF FailoverInv, NameInv, Named, IndexNamesPool
<1>2. QED  BY <1>1, FailoverInvariant, PTL

-----------------------------------------------------------------------------
(***************************************************************************)
(* Retries.                                                                 *)
(***************************************************************************)
\* Only a selection gives the retry worker a pool.
LEMMA OnlySelectPicks ==
  ASSUME [Next]_vars, worker.pc = "loaded", worker'.pc = "picked"
  PROVE  RetrySelect
<1>1. worker' # worker
  OBVIOUS
<1>2. ~UNCHANGED vars /\ ~DropFailover
  BY Zenon, <1>1 DEF vars, DropFailover
<1>3. \A t \in Tasks : ~(LoadCluster(t) \/ TaskStep(t))
  BY ZenonT(30), <1>1 DEF LoadCluster, TaskStep, SelectFirst, SendFirst, TaskDone, TaskFails, TaskLost
<1>4. \A u \in Updaters : ~(MakePools(u) \/ UpdateStep(u))
  BY Zenon, <1>1 DEF MakePools, UpdateStep, Stamp, Store
<1>5. \A p \in PoolIds : ~(PoolFails(p) \/ PoolExits(p))
  BY Zenon, <1>1 DEF PoolFails, PoolExits
<1>6. ~RetryRecv /\ ~RetryExit /\ ~RetrySend
  BY Zenon DEF RetryRecv, RetryExit, RetrySend
<1>7. QED  BY Zenon, <1>2, <1>3, <1>4, <1>5, <1>6 DEF Next, RetryStep

\* From the index after the last one on, the pool that failed comes last.
LEMMA MovesOn ==
  ASSUME FailoverInv, [Next]_vars, worker.pc = "loaded", worker'.pc = "picked",
         worker.snap = task[worker.t].cluster_ver, task'[worker.t].at = task[worker.t].at,
         NEW i \in DOMAIN clusters[worker.snap]
  PROVE  clusters[worker.snap][i] = task[worker.t].at \/ ~pools[clusters[worker.snap][i]].ok
<1> USE DEF FailoverInv
<1>1. RetrySelect
  BY Zenon, OnlySelectPicks
<1>2. PICK t \in Tasks, v \in DOMAIN clusters : t = worker.t /\ v = worker.snap
  BY Zenon, <1>1, RetrySelectFacts
<1>3. PICK last \in Nat : last = task[t].last_index /\ RetrySeed = last + 1
  BY Zenon, <1>2 DEF NameInv, Named, RetrySeed, NextSeed
<1>4. HealthyFrom(v, last + 1) # {}
  BY SMTT(30), <1>1, <1>2, <1>3, RetrySelectFacts DEF Resting
<1>5. PICK m \in Nat : m = Least(HealthyFrom(v, last + 1)) /\ task'[t].at = PoolAt(v, m)
  BY SMTT(30), <1>1, <1>2, <1>3, <1>4, RetrySelectFacts, SelectFacts
<1>6. PICK L \in Nat \ {0} : L = Len(clusters[v]) /\ m \in last + 1..last + 1 + L - 1
  BY SMTT(30), <1>3, <1>4, <1>5, SelectFacts
<1>7. PoolAt(v, m) # 0 /\ \A j \in last + 1..m - 1 : ~pools[PoolAt(v, j)].ok
  BY SMTT(30), <1>3, <1>4, <1>5, SelectFacts
<1>8. PoolAt(v, m) = PoolAt(v, last)
  <2>1. task[t].at = PoolAt(v, m) /\ task[t].pc = "worker" /\ task[t].cluster_ver = v
    BY Zenon, <1>1, <1>2, <1>5, RetrySelectFacts
  <2>2. QED  BY Zenon, <1>3, <1>7, <2>1 DEF NameInv, Named
<1>9. m % L \in 0..L - 1 /\ last % L \in 0..L - 1
  BY Zenon, ModFacts
<1>10. m % L = last % L
  <2>1. \A x, y \in 1..L : clusters[v][x] = clusters[v][y] => x = y
    BY Zenon, <1>6 DEF ClusterInv, Listed
  <2>2. (m % L) + 1 \in 1..L /\ (last % L) + 1 \in 1..L
    BY <1>9
  <2>3. (m % L) + 1 = (last % L) + 1
    BY Zenon, <1>6, <1>8, <2>1, <2>2 DEF PoolAt
  <2>4. QED  BY SMTT(30), <1>9, <2>3
<1>11. m = last + L
  <2>1. m \in last + 1..last + L
    BY SMTT(30), <1>6
  <2>2. QED  BY Zenon, <1>10, <2>1, ModNext
<1>12. i \in 1..L
  BY SMTT(30), <1>2, <1>6 DEF ClusterInv, Listed
<1>13. PICK j \in last + 1..last + 1 + L - 1 : j % L = i - 1
  <2>1. i - 1 \in 0..L - 1 /\ last + 1 \in Nat
    BY SMTT(30), <1>12
  <2>2. QED  BY ZenonT(30), <2>1, ModReach
<1>14. PoolAt(v, j) = clusters[v][i]
  BY SMTT(30), <1>6, <1>12, <1>13 DEF PoolAt
<1>15. CASE j = m
  BY Zenon, <1>2, <1>5, <1>14, <1>15
<1>16. CASE j # m
  <2>1. j \in last + 1..m - 1
    BY SMTT(30), <1>11, <1>13, <1>16
  <2>2. QED  BY Zenon, <1>2, <1>7, <1>14, <2>1
<1>17. QED  BY Zenon, <1>15, <1>16

\* A retry in the same cluster goes back to the pool that failed only if no other pool of
\* the cluster is healthy (retry_worker, select with the last index plus one).
THEOREM MovesOnCorrect == Spec => RetryMovesOn
<1>1. FailoverInv /\ [Next]_vars =>
        [worker.pc = "loaded" /\ worker'.pc = "picked"
           /\ worker.snap = task[worker.t].cluster_ver
           /\ task'[worker.t].at = task[worker.t].at
         => \A i \in DOMAIN clusters[worker.snap] :
              clusters[worker.snap][i] = task[worker.t].at
                \/ ~pools[clusters[worker.snap][i]].ok]_vars
  BY Zenon, MovesOn
<1>2. QED  BY <1>1, FailoverInvariant, PTL DEF Spec, RetryMovesOn

-----------------------------------------------------------------------------
(***************************************************************************)
(* Round robin.                                                             *)
(***************************************************************************)
\* How many of the first r selections fall on the i-th of L pools, and one more.
LEMMA DivNext ==
  ASSUME NEW L \in Nat \ {0}, NEW r \in Nat, NEW i \in 1..L
  PROVE  (r + 1 + L - i) \div L = ((r + L - i) \div L) + (IF i = (r % L) + 1 THEN 1 ELSE 0)
<1>1. PICK q \in Nat, k \in 0..L - 1 : r = L * q + k /\ k = r % L
  BY Zenon, ModFacts
<1>2. PICK p \in Nat : p = q + 1 /\ L * p = L * q + L
  BY <1>1
<1>3. CASE i = k + 1
  <2>1. r + L - i = L * q + (L - 1) /\ r + 1 + L - i = L * p + 0 /\ L - 1 \in 0..L - 1 /\ 0 \in 0..L - 1
    BY SMTT(30), <1>1, <1>2, <1>3
  <2>2. (L * q + (L - 1)) \div L = q
    BY Zenon, <2>1, ModUnique
  <2>3. (L * p + 0) \div L = p
    BY Zenon, <2>1, ModUnique
  <2>4. QED  BY Zenon, <1>1, <1>2, <1>3, <2>1, <2>2, <2>3
<1>4. CASE i < k + 1
  <2>0. k - i \in 0..L - 1 /\ k - i + 1 \in 0..L - 1
    BY SMTT(30), <1>1, <1>4
  <2>1. PICK x \in 0..L - 1 : x = k - i /\ x + 1 \in 0..L - 1
    BY Zenon, <2>0
  <2>2. r + L - i = L * p + x /\ r + 1 + L - i = L * p + (x + 1)
    BY SMTT(30), <1>1, <1>2, <2>1
  <2>3. (L * p + x) \div L = p /\ (L * p + (x + 1)) \div L = p
    BY Zenon, <2>1, ModUnique
  <2>4. QED  BY SMTT(30), <1>1, <1>2, <1>4, <2>2, <2>3
<1>5. CASE i > k + 1
  <2>1. PICK x \in 0..L - 1 : x = k + L - i /\ x + 1 \in 0..L - 1
    BY SMTT(30), <1>1, <1>5
  <2>2. r + L - i = L * q + x /\ r + 1 + L - i = L * q + (x + 1)
    BY <1>1, <2>1
  <2>3. (L * q + x) \div L = q /\ (L * q + (x + 1)) \div L = q
    BY Zenon, <2>1, ModUnique
  <2>4. QED  BY SMTT(30), <1>1, <1>5, <2>2, <2>3
<1>6. QED  BY <1>3, <1>4, <1>5

\* Counts less than L apart are at most one round apart.
LEMMA DivClose ==
  ASSUME NEW L \in Nat \ {0}, NEW a \in Nat, NEW b \in Nat, a <= b + L - 1
  PROVE  a \div L <= (b \div L) + 1
<1>1. PICK q \in Nat, k \in 0..L - 1 : a = L * q + k /\ a \div L = q
  BY Zenon, ModFacts
<1>2. PICK p \in Nat, l \in 0..L - 1 : b = L * p + l /\ b \div L = p
  BY Zenon, ModFacts
<1>3. SUFFICES ASSUME q > p + 1 PROVE FALSE
  BY <1>1, <1>2
<1>4. PICK d \in Nat : q = p + 2 + d
  BY <1>3
<1>5. L * q = L * p + 2 * L + L * d /\ L * d \in Nat
  BY SMTT(30), <1>4
<1>6. QED  BY <1>1, <1>2, <1>5

Count == Nat

\* While the first cluster is the only one and its pools are healthy, the number of
\* selections of the i-th pool follows from rr_counter.
BalanceInv ==
  LET list == clusters[0] IN
  /\ picks \in Seq(Count) /\ Len(picks) = Len(pools)
  /\ current = 0 => DOMAIN clusters = {0}
  /\ RoundRobin /\ DOMAIN clusters = {0} /\ (\A i \in 1..Len(list) : pools[list[i]].ok) =>
       \A i \in 1..Len(list) : picks[list[i]] = (rr_counter + Len(list) - i) \div Len(list)

\* A step that selects nothing afresh: pools only become unhealthy.
LEMMA BalanceFrame ==
  ASSUME ClusterInv, BalanceInv, Extended, UNCHANGED rr_counter,
         picks' \in Seq(Count), Len(picks') = Len(pools'), current' = 0 => DOMAIN clusters' = {0},
         \A p \in 1..Len(pools) : picks'[p] = picks[p] /\ (pools'[p].ok => pools[p].ok)
  PROVE  BalanceInv'
<1> DEFINE list == clusters[0]
<1>1. 0 \in DOMAIN clusters /\ list \in Seq(1..Len(pools)) /\ clusters'[0] = list
  BY Zenon DEF ClusterInv, Listed, Extended
<1>2. \A i \in 1..Len(list) : list[i] \in 1..Len(pools)
  BY <1>1
<1>3. DOMAIN clusters' = {0} => DOMAIN clusters = {0}
  BY Zenon, <1>1 DEF Extended
<1>4. ASSUME RoundRobin, DOMAIN clusters' = {0}, \A i \in 1..Len(list) : pools'[list[i]].ok,
             NEW i \in 1..Len(list)
      PROVE  picks'[list[i]] = (rr_counter + Len(list) - i) \div Len(list)
  BY Zenon, <1>2, <1>3, <1>4 DEF BalanceInv
<1>5. QED  BY Zenon, <1>1, <1>4 DEF BalanceInv

\* A selection that starts from rr_counter.
LEMMA FreshBalance ==
  ASSUME ClusterInv, BalanceInv, NEW v \in DOMAIN clusters, UNCHANGED <<pools, clusters, current>>,
         CountFresh(v),
         IF HealthyFrom(v, FreshSeed) = {} THEN UNCHANGED picks
         ELSE Pick(PoolAt(v, Least(HealthyFrom(v, FreshSeed))))
  PROVE  BalanceInv'
<1> DEFINE list == clusters[0]
           found == HealthyFrom(v, FreshSeed)
<1>1. /\ 0 \in DOMAIN clusters /\ list \in Seq(1..Len(pools)) /\ rr_counter \in Nat
      /\ \A i, j \in 1..Len(list) : list[i] = list[j] => i = j
  BY Zenon DEF ClusterInv, Listed
<1>2. picks \in Seq(Count) /\ Len(picks) = Len(pools) /\ (current = 0 => DOMAIN clusters = {0})
  BY Zenon DEF BalanceInv
<1>3. picks' \in Seq(Count) /\ Len(picks') = Len(pools)
  <2>1. CASE found = {}
    BY Zenon, <1>2, <2>1
  <2>2. CASE found # {}
    <3>1. PICK p \in 1..Len(pools) : p = PoolAt(v, Least(found))
      BY Zenon, <2>2, SeedFacts, SelectFacts
    <3>2. picks' = [picks EXCEPT ![p] = picks[p] + 1]
      BY Zenon, <2>2, <3>1 DEF Pick
    <3>3. picks[p] \in Count
      BY <1>2, <3>1
    <3>4. picks[p] + 1 \in Count
      BY SMTT(30), <3>3 DEF Count
    <3>5. QED  BY SMTT(30), <1>2, <3>2, <3>4
  <2>3. QED  BY Zenon, <2>1, <2>2
<1>4. ASSUME RoundRobin, DOMAIN clusters = {0}, \A i \in 1..Len(list) : pools[list[i]].ok,
             NEW i \in 1..Len(list)
      PROVE  picks'[list[i]] = (rr_counter' + Len(list) - i) \div Len(list)
  <2>1. PICK L \in Nat \ {0} : L = Len(list) /\ i \in 1..L
    BY SMTT(30), <1>1
  <2>2. v = 0 /\ FreshSeed = rr_counter /\ rr_counter' = rr_counter + 1
    BY SMTT(30), <1>1, <1>4, <2>1 DEF FreshSeed, CountFresh
  <2>3. \A j \in Nat : PoolAt(0, j) = list[(j % L) + 1] /\ (j % L) + 1 \in 1..L
    <3>1. TAKE j \in Nat
    <3>2. j % L \in 0..L - 1
      BY Zenon, ModFacts
    <3>3. (j % L) + 1 \in 1..L
      BY <3>2
    <3>4. QED  BY Zenon, <2>1, <3>3 DEF PoolAt
  <2>4. \A j \in Nat : pools[PoolAt(0, j)].ok
    BY Zenon, <1>4, <2>1, <2>3
  <2>5. rr_counter \in found
    BY SMTT(30), <1>1, <2>1, <2>2, <2>4 DEF HealthyFrom
  <2>6. PICK m \in Nat : /\ m = Least(found) /\ m \in rr_counter..rr_counter + L - 1
                         /\ \A j \in rr_counter..m - 1 : ~pools[PoolAt(0, j)].ok
    BY Zenon, <1>1, <2>1, <2>2, <2>5, SelectFacts
  <2>7. m = rr_counter
    <3>1. SUFFICES ASSUME m # rr_counter PROVE FALSE
      OBVIOUS
    <3>2. rr_counter \in rr_counter..m - 1
      BY SMTT(30), <1>1, <2>6, <3>1
    <3>3. QED  BY Zenon, <1>1, <2>4, <2>6, <3>2
  <2> HIDE DEF list
  <2>8. PICK p \in 1..Len(pools), x \in 1..L :
          p = list[x] /\ p = PoolAt(0, m) /\ x = (rr_counter % L) + 1
    <3>1. PICK x \in 1..L : x = (rr_counter % L) + 1 /\ PoolAt(0, m) = list[x]
      BY Zenon, <1>1, <2>3, <2>7
    <3>2. list[x] \in 1..Len(pools)
      BY SMTT(30), <1>1, <2>1
    <3>3. QED  BY Zenon, <3>1, <3>2
  <2>9. picks' = [picks EXCEPT ![p] = picks[p] + 1]
    BY Zenon, <2>2, <2>5, <2>6, <2>8 DEF Pick
  <2>10. list[i] \in 1..Len(pools) /\ (list[i] = p <=> i = x)
    <3>1. list[i] \in 1..Len(pools)
      BY SMTT(30), <1>1
    <3>2. x \in 1..Len(list) /\ p = list[x]
      BY Zenon, <2>1, <2>8
    <3>3. list[i] = list[x] => i = x
      BY Zenon, <1>1, <3>2, Zenon
    <3>4. QED  BY Zenon, <3>1, <3>2, <3>3, Zenon
  <2>11. picks[list[i]] = (rr_counter + L - i) \div L
    BY Zenon, <1>4, <2>1 DEF BalanceInv, list
  <2>12. (rr_counter + 1 + L - i) \div L
           = ((rr_counter + L - i) \div L) + (IF i = (rr_counter % L) + 1 THEN 1 ELSE 0)
    BY ZenonT(30), <1>1, <2>1, DivNext
  <2>13. picks'[list[i]] = IF i = x THEN picks[list[i]] + 1 ELSE picks[list[i]]
    BY <1>2, <2>9, <2>10
  <2>14. (rr_counter + L - i) \div L \in Int
    BY SMTT(30), <1>1, <2>1
  <2>15. QED  BY SMTT(30), <2>1, <2>2, <2>8, <2>11, <2>12, <2>13, <2>14
<1>5. QED  BY Zenon, <1>1, <1>2, <1>3, <1>4 DEF BalanceInv

\* Every step keeps BalanceInv.
LEMMA BalanceStep ==
  ASSUME FailoverInv, BalanceInv, [Next]_vars
  PROVE  BalanceInv'
<1> USE DEF FailoverInv
<1>1. /\ pools \in Seq(PoolRecords) /\ picks \in Seq(Count) /\ Len(picks) = Len(pools)
      /\ (current = 0 => DOMAIN clusters = {0}) /\ Extended
  BY Zenon, ClusterStep DEF ClusterInv, BalanceInv
<1>2. ASSUME UNCHANGED <<pools, picks, rr_counter, clusters>>, current' \in {current, None}
      PROVE  BalanceInv'
  BY <1>1, <1>2, BalanceFrame DEF None
<1>3. ASSUME NEW t \in Tasks, LoadCluster(t) \/ SendFirst(t) \/ TaskDone(t) \/ TaskFails(t) \/ TaskLost(t)
      PROVE  BalanceInv'
  BY Zenon, <1>2, <1>3 DEF LoadCluster, SendFirst, TaskDone, TaskFails, TaskLost, poolVars, clusterVars
<1>4. ASSUME NEW t \in Tasks, SelectFirst(t) PROVE BalanceInv'
  <2>1. PICK v \in DOMAIN clusters : v = task[t].snap
    BY Zenon, <1>4 DEF NameInv, Named, SelectFirst
  <2>2. /\ CountFresh(v) /\ UNCHANGED <<pools, clusters, current>>
        /\ IF HealthyFrom(v, FreshSeed) = {} THEN UNCHANGED picks
           ELSE Pick(PoolAt(v, Least(HealthyFrom(v, FreshSeed))))
    BY Zenon, <1>4, <2>1 DEF SelectFirst, clusterVars
  <2>3. QED  BY Zenon, <2>1, <2>2, FreshBalance
<1>5. CASE RetryRecv \/ RetrySend \/ RetryExit \/ UNCHANGED vars
  BY Zenon, <1>2, <1>5 DEF RetryRecv, RetrySend, RetryExit, vars, poolVars, clusterVars
<1>6. CASE RetrySelect
  <2>1. PICK v \in DOMAIN clusters : v = worker.snap
    BY Zenon, <1>6 DEF NameInv, RetrySelect
  <2>2. UNCHANGED <<pools, clusters, current>>
    BY Zenon, <1>6 DEF RetrySelect, clusterVars
  <2>3. CASE v = task[worker.t].cluster_ver
    <3>1. UNCHANGED <<rr_counter, picks>>
      BY Zenon, <1>6, <2>1, <2>3 DEF RetrySelect
    <3>2. QED  BY Zenon, <1>2, <2>2, <3>1
  <2>4. CASE v # task[worker.t].cluster_ver
    <3>1. /\ CountFresh(v)
          /\ IF HealthyFrom(v, FreshSeed) = {} THEN UNCHANGED picks
             ELSE Pick(PoolAt(v, Least(HealthyFrom(v, FreshSeed))))
      BY Zenon, <1>6, <2>1, <2>4 DEF RetrySelect
    <3>2. QED  BY Zenon, <2>2, <3>1, FreshBalance
  <2>5. QED  BY Zenon, <2>3, <2>4
<1>7. ASSUME NEW u \in Updaters, MakePools(u) PROVE BalanceInv'
  <2>1. PICK c \in Nat, new \in Seq(PoolRecords) :
          pools' = pools \o new /\ Len(new) = c /\ picks' = picks \o [n \in 1..c |-> 0]
    <3>1. PICK list \in AddrLists :
            LET added == {i \in DOMAIN list : Kept(clusters[current], list, i) = {}}
                rank(i) == Cardinality({k \in added : k <= i})
                nth(n) == CHOOSE i \in added : rank(i) = n
            IN /\ pools' = pools \o [n \in 1 .. Cardinality(added) |-> NewPool(list[nth(n)])]
               /\ picks' = picks \o [n \in 1 .. Cardinality(added) |-> 0]
      BY Zenon, <1>7 DEF MakePools
    <3>2. {i \in DOMAIN list : Kept(clusters[current], list, i) = {}} \in SUBSET DOMAIN list
      OBVIOUS
    <3>3. QED  BY ZenonT(30), <3>1, <3>2, NewPools
  <2> DEFINE zeros == [n \in 1..c |-> 0]
  <2>2. zeros \in Seq(Count) /\ Len(zeros) = c
    BY DEF Count
  <2> HIDE DEF zeros
  <2>3. picks' = picks \o zeros
    BY Zenon, <2>1 DEF zeros
  <2>4. /\ picks' \in Seq(Count) /\ Len(picks') = Len(picks) + c
        /\ \A p \in 1..Len(picks) : picks'[p] = picks[p]
    <3>1. picks \o zeros \in Seq(Count) /\ Len(picks \o zeros) = Len(picks) + Len(zeros)
      BY Zenon, <1>1, <2>2, ConcatProperties
    <3>2. ASSUME NEW p \in 1..Len(picks) PROVE (picks \o zeros)[p] = picks[p]
      BY <1>1, <2>2
    <3>3. QED  BY Zenon, <2>2, <2>3, <3>1, <3>2, Zenon
  <2>5. Len(pools') = Len(pools) + c /\ \A p \in 1..Len(pools) : pools'[p] = pools[p]
    BY SMTT(30), <1>1, <2>1, ConcatProperties
  <2>6. UNCHANGED <<rr_counter, clusters, current>>
    BY Zenon, <1>7 DEF MakePools, clusterVars
  <2>7. QED  BY Zenon, <1>1, <2>4, <2>5, <2>6, BalanceFrame
<1>8. ASSUME NEW u \in Updaters, Stamp(u) PROVE BalanceInv'
  BY Zenon, <1>2, <1>8 DEF Stamp, poolVars
<1>9. ASSUME NEW u \in Updaters, Store(u) PROVE BalanceInv'
  <2>1. current' # 0
    BY Zenon, <1>9, StoreStep
  <2>2. UNCHANGED <<pools, picks, rr_counter>>
    BY Zenon, <1>9 DEF Store, poolVars
  <2>3. QED  BY Zenon, <1>1, <2>1, <2>2, BalanceFrame
<1>10. ASSUME NEW p \in PoolIds, PoolFails(p) \/ PoolExits(p) PROVE BalanceInv'
  <2>1. Len(pools') = Len(pools) /\ UNCHANGED <<rr_counter, clusters, current, picks>>
    BY Zenon, <1>10, PoolStep DEF PoolFails, PoolExits, clusterVars
  <2>2. \A q \in 1..Len(pools) : pools'[q].ok => pools[q].ok
    <3>1. TAKE q \in 1..Len(pools)
    <3>2. pools[q] \in PoolRecords
      BY <1>1
    <3>3. CASE PoolFails(p)
      BY <1>1, <3>2, <3>3 DEF PoolFails, PoolRecords, PoolIds
    <3>4. CASE PoolExits(p)
      BY SMTT(30), <1>1, <3>2, <3>4 DEF PoolExits, PoolRecords, PoolIds
    <3>5. QED  BY Zenon, <1>10, <3>3, <3>4
  <2>3. QED  BY Zenon, <1>1, <2>1, <2>2, BalanceFrame
<1>11. CASE DropFailover
  BY Zenon, <1>2, <1>11 DEF DropFailover, poolVars
<1>12. QED  BY Zenon, <1>3, <1>4, <1>5, <1>6, <1>7, <1>8, <1>9, <1>10, <1>11
            DEF Next, TaskStep, RetryStep, UpdateStep

\* Round robin gives the healthy pools of the first cluster the same number of first
\* selections, up to one, whatever the callers and the retry worker interleave (select).
THEOREM BalancedCorrect == Spec => []RoundRobinBalanced
<1>1. Init => BalanceInv
  <2> SUFFICES ASSUME Init PROVE BalanceInv
    OBVIOUS
  <2>2. ClusterInv /\ DOMAIN clusters = {0} /\ rr_counter = 0
    BY Zenon, NameInit DEF Init
  <2>3. picks = [p \in 1..Len(pools) |-> 0] /\ Len(pools) \in Nat
    BY <2>2 DEF Init, ClusterInv
  <2>4. picks \in Seq(Count) /\ Len(picks) = Len(pools)
    BY <2>3 DEF Count
  <2>5. ASSUME NEW i \in 1..Len(clusters[0])
        PROVE  picks[clusters[0][i]] = (0 + Len(clusters[0]) - i) \div Len(clusters[0])
    <3>1. clusters[0] \in Seq(1..Len(pools))
      BY Zenon, <2>2 DEF ClusterInv, Listed
    <3>2. PICK L \in Nat \ {0} : L = Len(clusters[0]) /\ i \in 1..L
      BY <3>1
    <3>3. picks[clusters[0][i]] = 0
      BY <2>3, <3>1
    <3>4. PICK x \in 0..L - 1 : x = L - i
      BY <3>2
    <3>5. (L * 0 + x) \div L = 0
      BY Zenon, ModUnique
    <3>6. L * 0 + x = 0 + L - i
      BY <3>2, <3>4
    <3>7. QED  BY Zenon, <3>2, <3>3, <3>5, <3>6
  <2>6. QED  BY Zenon, <2>2, <2>4, <2>5 DEF BalanceInv
<1>2. FailoverInv /\ BalanceInv /\ [Next]_vars => BalanceInv'
  BY Zenon, BalanceStep
<1>3. FailoverInv /\ BalanceInv => RoundRobinBalanced
  <2> SUFFICES ASSUME FailoverInv, BalanceInv, RoundRobin, current = 0,
                        NEW i \in DOMAIN clusters[0], NEW j \in DOMAIN clusters[0],
                        \A x \in DOMAIN clusters[0] : pools[clusters[0][x]].ok
                 PROVE  picks[clusters[0][i]] <= picks[clusters[0][j]] + 1
    BY Zenon DEF RoundRobinBalanced
  <2>2. clusters[0] \in Seq(1..Len(pools)) /\ rr_counter \in Nat
    BY Zenon DEF FailoverInv, ClusterInv, Listed
  <2>3. PICK L \in Nat \ {0} : L = Len(clusters[0]) /\ DOMAIN clusters[0] = 1..L
    BY <2>2
  <2>4. picks[clusters[0][i]] = (rr_counter + L - i) \div L /\ picks[clusters[0][j]] = (rr_counter + L - j) \div L
    BY Zenon, <2>3 DEF BalanceInv
  <2>5. /\ rr_counter + L - i \in Nat /\ rr_counter + L - j \in Nat
        /\ rr_counter + L - i <= rr_counter + L - j + L - 1
    <3>1. i \in 1..L /\ j \in 1..L
      BY Zenon, <2>3
    <3>2. \A r \in Nat, m \in 1..L, n \in 1..L :
            /\ r + L - m \in Nat /\ r + L - n \in Nat
            /\ r + L - m <= r + L - n + L - 1
      OBVIOUS
    <3>3. QED  BY Zenon, <2>2, <3>1, <3>2
  <2>6. PICK a \in Nat, b \in Nat : a = rr_counter + L - i /\ b = rr_counter + L - j
    BY Zenon, <2>5
  <2>7. a <= b + L - 1
    BY Zenon, <2>5, <2>6
  <2>8. a \div L <= (b \div L) + 1
    BY Zenon, <2>7, DivClose
  <2>9. QED  BY Zenon, <2>4, <2>6, <2>8
<1>4. QED  BY <1>1, <1>2, <1>3, FailoverInvariant, PTL DEF Spec

=============================================================================
