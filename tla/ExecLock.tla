------------------------------ MODULE ExecLock ------------------------------
(***************************************************************************)
(* The execution lock: task.Run asks CanRunTask before every execution of a *)
(* task (dcron.go), and CanRunTask creates a key made of the task's name    *)
(* and of the second at which the node read its own clock, which all but    *)
(* etcd write in the node's time zone.  The key is not kept: Redis expires  *)
(* it, and with etcd, Consul and ZooKeeper the node that created it deletes *)
(* it some time later (EventCleaner), as does any node's sweep of old keys. *)
(* ForceCleanupAllTasks deletes all keys at once, except with Redis.        *)
(*                                                                         *)
(* One task.  During a change of nodes several nodes have it scheduled, so  *)
(* each node may fire it at each instant.  Time is counted in small units;  *)
(* a node's clock is ahead of the slowest one by its Offset.                *)
(***************************************************************************)
EXTENDS Integers

CONSTANTS
  Node,
  Backends,     \* the registries to look at, see TimeAssumption
  Instant,      \* when the schedule fires, on a node's clock: whole seconds
  Second,       \* units in a second
  KeyLife,      \* how long a key is kept: 5 seconds in every backend
  Threshold,    \* CleanupHistoryExecKeysThresholdDuration
  Offset,       \* Offset[n]: how far n's clock is ahead
  MaxOffset,
  Zone,         \* Zone[n]: the time zone of n, as the difference from UTC
  MayStop,      \* MayStop[b]: the nodes that may be shut down, with backend b
  MaxLate,      \* bound: from an instant to the job's time.Now()
  MaxCall,      \* bound: from time.Now() to the backend's answer
  MaxNow        \* bound on the time that is explored

ASSUME TimeAssumption ==
  /\ Backends \subseteq {"etcd", "redis", "consul", "zookeeper"}
  /\ Second \in Nat \ {0} /\ KeyLife \in Nat /\ Threshold \in Nat
  /\ MaxOffset \in Nat /\ MaxLate \in Nat /\ MaxCall \in Nat /\ MaxNow \in Nat
  /\ Instant \subseteq Nat
  /\ \A i \in Instant : i % Second = 0
  /\ Offset \in [Node -> 0 .. MaxOffset]
  /\ Zone \in [Node -> Int]
  /\ MayStop \in [Backends -> SUBSET Node]

VARIABLES
  backend,  \* the registry of the cluster
  now,      \* the time on the slowest clock
  pc,       \* pc[n][i]: the run of the task that n fires at instant i
  execTime, \* execTime[n][i]: what that run read from n's clock, until it ends
  keys,     \* the keys of the backend, and when Redis lets them expire
  events,   \* what the event cleaners know: a key, the node that created it, and
            \* when it is due on that node's clock
  stopped,  \* the nodes that have shut down
  wiped     \* history: the instants whose keys ForceCleanupAllTasks has deleted

vars == <<backend, now, pc, execTime, keys, events, stopped, wiped>>

Clock(n) == now + Offset[n]

Name == [second : Nat, zone : Int]
Key == [name : Name, expires : Nat]
Event == [name : Name, node : Node, at : Nat]

(* "granted": the job runs.  "failed": the call failed and did nothing.         *)
(* "lost": it created the key, but the answer was an error or did not arrive.   *)
Run == {"waiting", "calling", "granted", "refused", "failed", "lost"}

(* Every variable holds a value of its type. *)
TypeOK ==
  /\ backend \in Backends
  /\ now \in Nat
  /\ pc \in [Node -> [Instant -> Run]]
  /\ execTime \in [Node -> [Instant -> Nat]]
  /\ keys \subseteq Key
  /\ events \subseteq Event
  /\ stopped \subseteq MayStop[backend]
  /\ wiped \subseteq Instant

Init ==
  /\ backend \in Backends
  /\ now = 0
  /\ pc = [n \in Node |-> [i \in Instant |-> "waiting"]]
  /\ execTime = [n \in Node |-> [i \in Instant |-> 0]]
  /\ keys = {} /\ events = {}
  /\ stopped = {}
  /\ wiped = {}

Advance ==
  /\ now < MaxNow
  /\ now' = now + 1
  /\ UNCHANGED <<backend, pc, execTime, keys, events, stopped, wiped>>

Goto(n, i, where) == pc' = [pc EXCEPT ![n][i] = where]

(* The cron engine of n starts the job and the job reads the clock. *)
Fire(n, i) ==
  /\ pc[n][i] = "waiting" /\ n \notin stopped
  /\ i <= Clock(n) /\ Clock(n) <= i + MaxLate
  /\ execTime' = [execTime EXCEPT ![n][i] = Clock(n)]
  /\ Goto(n, i, "calling")
  /\ UNCHANGED <<backend, now, keys, events, stopped, wiped>>

(* Mutant of KeyOf: the key names two seconds at once. *)
KeyOfCoarse(n, time) == [second |-> time \div (2 * Second), zone |-> 0]

(* The key: Unix seconds in etcd, in the others RFC 3339, with the zone. *)
KeyOf(n, time) ==
  [second |-> time \div Second, zone |-> IF backend = "etcd" THEN 0 ELSE Zone[n]]

MyKey(n, i) == KeyOf(n, execTime[n][i])

(* Mutant of Created: no expiry is set, of which Redis' TTL says -1. *)
CreatedForever(n, i) == [name |-> MyKey(n, i), expires |-> -1]

(* Redis counts from the arrival of SETNX; the others keep a key until it is   *)
(* deleted.                                                                    *)
Created(n, i) ==
  [name |-> MyKey(n, i), expires |-> IF backend = "redis" THEN now + KeyLife ELSE 0]

Held(k) ==
  \E key \in keys : key.name = k /\ (backend = "redis" => now < key.expires)

InTime(n, i) == Clock(n) <= execTime[n][i] + MaxCall

(* What SendEvent gives to the event cleaner, which Redis does without: the     *)
(* key is due when the node's clock is eventDelay past execTime.                *)
SendEvent(n, i) ==
  events' = IF backend = "redis" THEN events
            ELSE events \cup {[name |-> MyKey(n, i), node |-> n,
                               at |-> execTime[n][i] + KeyLife]}

(* The call is answered. *)
Answer(n, i, where) ==
  /\ pc[n][i] = "calling" /\ InTime(n, i)
  /\ Goto(n, i, where)
  /\ execTime' = [execTime EXCEPT ![n][i] = 0]

(* One atomic step at the backend: an etcd transaction, SETNX, a CAS with      *)
(* index 0 or a Create.  The node that has created the key runs the task.      *)
CanRunTask(n, i) ==
  /\ Answer(n, i, "granted")
  /\ ~ Held(MyKey(n, i))
  /\ keys' = keys \cup {Created(n, i)}
  /\ SendEvent(n, i)
  /\ UNCHANGED <<backend, now, stopped, wiped>>

CanRunTaskRefused(n, i) ==
  /\ Answer(n, i, "refused")
  /\ Held(MyKey(n, i))
  /\ UNCHANGED <<backend, now, keys, events, stopped, wiped>>

(* The call returns an error and Run gives up.  The key may have been created, *)
(* and then no event cleaner hears of it.                                      *)
CanRunTaskFails(n, i) ==
  /\ \/ Answer(n, i, "failed") /\ UNCHANGED keys
     \/ Answer(n, i, "lost") /\ ~ Held(MyKey(n, i)) /\ keys' = keys \cup {Created(n, i)}
  /\ UNCHANGED <<backend, now, events, stopped, wiped>>

Without(name) == {key \in keys : key.name # name}

(* Mutant of batchDeleteExecKeys: the cleaner does not wait. *)
batchDeleteExecKeysEarly(e) ==
  /\ events' = events \ {e}
  /\ keys' = Without(e.name)
  /\ UNCHANGED <<backend, now, pc, execTime, stopped, wiped>>

(* The event cleaner of the node that was told of the key: at any time after   *)
(* the delay, or at once when the node shuts down.  It is not tried again when *)
(* it fails, as ZooKeeper's does if one key of the batch is not there.         *)
batchDeleteExecKeys(e) ==
  /\ Clock(e.node) >= e.at \/ e.node \in stopped
  /\ events' = events \ {e}
  /\ keys' \in {keys, Without(e.name)}
  /\ UNCHANGED <<backend, now, pc, execTime, stopped, wiped>>

(* Mutant of Old: the time is cut out as if it were always written in UTC. *)
OldUTC(n) ==
  {key \in keys : key.name.zone = 0 /\ Clock(n) - key.name.second * Second >= Threshold}

(* Mutant of Old: a key that no event cleaner knows of is taken for a leftover. *)
OldUnknown(n) == {key \in keys : backend # "redis" /\ \A e \in events : e.name # key.name}

(* The keys that the sweep of node n finds old.  etcd compares seconds.  Consul *)
(* and ZooKeeper parse the time, and pass over the times of UTC: these end in   *)
(* a Z and are shorter than the 25 characters that are cut out.                 *)
EtcdOld(n) == {key \in keys : key.name.second < (Clock(n) - Threshold) \div Second}

ConsulOld(n) ==
  {key \in keys : key.name.zone # 0 /\ Clock(n) - key.name.second * Second >= Threshold}

ZkOld(n) ==
  {key \in keys : key.name.zone # 0 /\ Clock(n) - key.name.second * Second > Threshold}

Old(n) ==
  {key \in EtcdOld(n) : backend = "etcd"}
    \cup {key \in ConsulOld(n) : backend = "consul"}
    \cup {key \in ZkOld(n) : backend = "zookeeper"}

(* The sweep: etcd deletes them at once, Consul in batches and ZooKeeper one   *)
(* after the other, some of which may fail.                                    *)
tryCleanupHistoryExecKeys(n) ==
  /\ n \notin stopped
  /\ \E S \in SUBSET Old(n) :
       /\ S # {}
       /\ backend = "etcd" => S = Old(n)
       /\ keys' = keys \ S
  /\ UNCHANGED <<backend, now, pc, execTime, events, stopped, wiped>>

(* A call of ForceCleanupAllTasks, by anybody and at any time: etcd and Consul  *)
(* delete all keys in one request, ZooKeeper one after the other, and Redis     *)
(* names only the two hashes of tasks.                                          *)
ForceCleanupAllTasks ==
  /\ backend # "redis"
  /\ \E S \in SUBSET keys :
       /\ S # {}
       /\ backend # "zookeeper" => S = keys
       /\ keys' = keys \ S
       /\ wiped' = wiped \cup {i \in Instant : \E n \in Node, key \in S : key.name = KeyOf(n, i)}
  /\ UNCHANGED <<backend, now, pc, execTime, events, stopped>>

(* waitForShutdown: the cron engine stops once its jobs are over, then the     *)
(* context is cancelled, and the event cleaner flushes the keys it holds.      *)
Stop(n) ==
  /\ n \in MayStop[backend] \ stopped
  /\ \A i \in Instant : pc[n][i] # "calling"
  /\ stopped' = stopped \cup {n}
  /\ UNCHANGED <<backend, now, pc, execTime, keys, events, wiped>>

Next ==
  \/ Advance
  \/ \E n \in Node, i \in Instant :
       \/ Fire(n, i)
       \/ CanRunTask(n, i) \/ CanRunTaskRefused(n, i) \/ CanRunTaskFails(n, i)
  \/ \E e \in events : batchDeleteExecKeys(e)
  \/ \E n \in Node : tryCleanupHistoryExecKeys(n) \/ Stop(n)
  \/ ForceCleanupAllTasks

Spec == Init /\ [][Next]_vars

(* Time passes, and the event cleaners and the tickers of the sweeps run. *)
FairSpec ==
  /\ Spec
  /\ WF_vars(Advance)
  /\ WF_vars(\E e \in events : batchDeleteExecKeys(e))
  /\ \A n \in Node : WF_vars(tryCleanupHistoryExecKeys(n))

-----------------------------------------------------------------------------
(* What the promise rests on: clocks and zones that agree, jobs and calls that *)
(* are not late, and, except with Redis, nodes that are not shut down.         *)
Punctual ==
  /\ MaxOffset + MaxLate + MaxCall < KeyLife
  /\ MaxLate < Second
  /\ KeyLife <= Threshold
  /\ Backends # {"etcd"} => \A m, n \in Node : Zone[m] = Zone[n]
  /\ \A b \in Backends \ {"redis"} : MayStop[b] = {}

(* README.md:419: the task "is executed only once at a given time point       *)
(* across the cluster": no two nodes are granted the same instant, unless      *)
(* ForceCleanupAllTasks (dcron.go:85, "for testing only") has deleted its key.  *)
AtMostOnce ==
  \A i \in Instant \ wiped : \A m, n \in Node :
    pc[m][i] = "granted" /\ pc[n][i] = "granted" => m = n

(* A node is refused only because another one got there first for the same    *)
(* instant: the key of an earlier execution never makes the cluster miss one. *)
RefusedOnlyOnce ==
  \A n \in Node, i \in Instant :
    pc[n][i] = "refused" => \E m \in Node \ {n} : pc[m][i] \in {"granted", "lost"}

(* No key stays for ever, not even one that was created by a call that then   *)
(* failed, so that no event cleaner knows of it, or one whose deletion failed: *)
(* outside UTC, where Consul's and ZooKeeper's sweeps do nothing, the sweep     *)
(* finds it.                                                                    *)
KeysGo ==
  backend # "redis" /\ (\A n \in Node : Zone[n] # 0) => <>[](keys = {})

(* Keys that come and go, in four backends and under clocks that differ, act   *)
(* as one bit for each instant that is set once, whoever set it and whether or *)
(* not he has learnt of it: an instant that a failed call has taken is not     *)
(* given to another node later, which a key that went too early would allow    *)
(* although nobody executes twice.                                             *)
Answered(n, i) == IF pc[n][i] \in {"waiting", "calling"} THEN "none" ELSE pc[n][i]
Promise == INSTANCE ExecOnce
             WITH answer <- [i \in Instant |-> [n \in Node |-> Answered(n, i)]]
ImplementsExecOnce == Promise!Spec

=============================================================================
