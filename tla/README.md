# dcron: specifications, model checking and proofs

dcron is a Go library for distributed cron. Every process of a cluster embeds a
`Dcron` node; the nodes share a registry (etcd, Redis, Consul or ZooKeeper) that
holds the list of nodes, the metadata of the dynamic tasks and the tombstones of
deleted tasks. Each node decides by itself, from the list of working nodes, which
tasks it schedules on its cron engine, and takes a lock in the registry before
every execution. This directory holds TLA+ specifications of that core, the TLC
configurations that check them and theorems that TLAPS proves.

## Inventory

| Component | State | Operations | What is hard |
|---|---|---|---|
| Dcron API (`dcron.go`) | `allTasks`, `assignedTasks`, `deletedTasks`, the cron engine | `AddTask`..., `AddTaskMeta`, `ForceAdd*`, `ReuseDeletedTask`, `MarkTaskDeleted`, `CleanupTask`, `ForceCleanupAllTasks` | a registry call outside the lock, then a critical section: anything may happen in between |
| Watchers (`task.go`, `dcron_internal.go`) | `nodes`, `rebalancedChan`, answers read and not yet applied | `watchTaskEvent`, `watchDeletedTaskEvent`, `watchNodeEvent` and their reloads | stale answers, lost events, three senders and one reader of a bounded channel |
| Rebalance (`task.go`) | task ids, entries of the engine | `doRebalanced` | stale ids, tasks replaced between two rebalances |
| Job runs (`dcron.go`) | runs in progress | `task.Run` | overlap with updates, deletions and the next tick |
| Task registries (the four registry files) | metadata, tombstones, the streams and channels of the watches | `TaskRegistry` of `driver.go` | non-atomic calls, failures after the effect, events that are never sent, one-time watches, bounded channels |
| Assigners (`assigner.go`) | the node list of the last `UpdateNodes`, slots, ring, weights | `UpdateNodes`, `ShouldRun` | boundaries, different views on different nodes |
| Execution lock (`CanRunTask`) | keys of the last executions | `CanRunTask`, expiry, cleaner, sweep | clocks, time zones, keys that go too early |
| Event cleaner (`event_cleaner.go`) | two channels, a heap and its lock, batches | `SendEvent`, four goroutines, handlers | a lock held over a blocking send, shutdown in any state |
| Node registries (the four registry files) | node records, leases, scores, sessions, health checks | `Register`, `Unregister`, `UpdateStatus`, `UpdateHeartbeat`, `GetWorkingNodes`, `CleanupExpiredNodes`, `WatchNodes` | read-modify-write, leases, late heartbeats |
| Lifecycle (`dcron.go`, `dcron_internal.go`) | `running`, `shutdownChan`, the context, the heartbeat goroutine | `Start`, `Stop`, `waitForShutdown`, signals | sequences of starts and stops, failing calls in the middle, crashes |

The components meet in four places: API calls, watchers and the rebalance share the
maps of a node under `tasksRWMux`; the watchers wake the rebalance through
`rebalancedChan`; nodes influence one another only through the registry; and a job
run asks the registry for the lock and, when it ends, calls the API again.

A node is correct when its maps and its cron engine agree in every state, when what
the registry holds eventually decides what the engine runs, when a settled cluster
schedules each task on exactly one node, and when the lock lets only one node
execute a task for one instant.

## Modules

```
TaskRegistry <- DcronNode <- MCDcronNode          TaskWatch <- MCTaskWatch
                    ^                                 ^
              DcronNodeProofs                     TaskWatchProofs

                                                  ChangeWatch <- ChangeWatchProofs

NodeRegistry <- NodeLife <- MCNodeLife            Assigner <- Cluster <- MCCluster
                  : ^                                    .....:  ^
                  : NodeLifeProofs                       :   ClusterProofs
              (refinement)                           (INSTANCE)
                  :............> Membership <............:

ExecOnce <..(refinement).. ExecLock <- MCExecLock   EventCleaner <- EventCleanerProofs
                              ^
                        ExecLockProofs              Ranks (lemmas on finite sets of
                                                    numbers, for Assigner and NodeLife)
```

**TaskRegistry** is the task half of a registry: `regTasks` and `regDeleted` are the
two prefixes (etcd) or hashes (Redis), `taskEvents` the events under way to the node
that is modelled. The two backends differ where the code differs: etcd reports every
change of a key but only once its watch is established, after a `Get` of the initial
tasks; Redis delivers what the writer publishes, and the cleanups publish nothing;
`RemoveTaskDeleted` removes one key in etcd and the whole hash in Redis;
`ForceCleanupAllTasks` takes one request for each prefix in etcd and may fail between
them. Its third prefix, that of the execution keys, is in ExecLock.

**DcronNode** is one node on top of it. A critical section under `tasksRWMux` is one
step. A registry call outside the lock is a step of its own, and the call in progress
is kept in `calls[g]` for a goroutine slot `g`; job runs use the same slots. A reload
is two steps, the read and the apply (`taskRead`, `deletedRead`). A send to the full
`rebalancedChan` leaves the watcher in its `"signal"` state. A task object is its
metadata and its cron id; `assignedTasks[t]` is the cron id of the object that the map
refers to, which after an update may be an older object than the one in `allTasks`.
`entries` is the cron engine: removal of an unknown id is ignored, `AddJob` refuses an
invalid format and hands out fresh ids. The other nodes are the registry calls they
may make at any time (`RemoteCall`), the assigner is a constant function `Owns` of the
view and of the tasks offered. A registry failure is a disjunct of the call, with the
effect it may have had.

**Assigner** defines the six strategies as operators on a sorted list of nodes; names
are numbers because only order and hashes matter, and the hash, the weights and the
points of the ring are constants. The ring itself (`consistenthash`) is a library and
is modelled from its use. **Cluster** composes the rebalances of all nodes: each has
its own view of the working nodes and of the tasks, its own pending signal and its own
assigner. The list of working nodes changes in every way that **Membership** allows, and
in no other: a node that runs enters it by its own step, nodes leave it alone or
together (although they may still run), and a node that has died may stay in it. `Start`
asks more than `Membership!Boot`: a node that starts is not on the list. Its id is fresh
(`generateNodeID`), so the only exception is a second `Start` of the same `Dcron` after an
`Unregister` that failed. Its context is cancelled, so it rebalances nothing and the tasks
of its share run nowhere until it has left the list: `OwnedOnce` is not about that case,
and is violated if such a start is admitted.

**NodeRegistry** and **NodeLife** show that this is what the registries do. NodeRegistry
is the node half of the four, one step per request. An update is a transaction in etcd,
a compare-and-set on the version in ZooKeeper, a removal and an addition of what was
read in Redis, a second registration in Consul; `call[n][th]` is the update of goroutine
`th` between two requests. A record `expires` if it goes when its process is silent
(lease, session, score, check). NodeLife adds `Start` with its calls and error returns,
`Stop`, signals, `waitForShutdown` and the heartbeat; requests fail with or without
effect, processes crash, and a slow one may be taken for dead. Cancelling the context
ends the wait for the ticker but not a heartbeat under way: Consul, ZooKeeper and etcd's
`NewSTM` do not look at that context, and with Redis the next request fails. Its
refinement mapping sends the nodes with goroutines to `up` and the answer of
`GetWorkingNodes` to `working`.

**TaskWatch** is `WatchTaskEvent` of the four registries: how what is stored becomes
events on a bounded channel. etcd reads, then opens a stream; Redis hears what writers
publish after their write; Consul compares snapshots when its index has moved; ZooKeeper
compares lists of names when a watch has fired that must then be set again. `told` is
what the events say so far, `missed` records the changes that fall in a gap of the
protocol, at the place in the code where they do. **ChangeWatch** is `WatchNodes` and
`WatchDeletedTaskEvent` with the readers `watchNodeEvent` and `watchDeletedTaskEvent`.
There an event only causes a reload, so the events are counted; channels that drop when
full and channels that block are told apart as in the code, and the context may be
cancelled in any state. `missed` is set where a change goes unreported: by a change that is
undone before a snapshot is taken, and by a reload that fails, since nothing repeats it
before the ticker. A failing answer is taken for an empty one by the reload of the
tombstones; what a node makes of that is in DcronNode (`DeletedConverges`). DcronNode
has these watches in a simpler form, for etcd and Redis, and goes into what a node makes
of an event.

**ExecOnce** is the abstract promise: for each instant one bit, which the first call that
gets through sets and which nothing resets but the application; `answer` keeps what each
node's call came to, and an answer that is lost may have set the bit.
**ExecLock** is what the code does: each node reads its own clock, builds the key from
the second (all but etcd: with its time zone), and creates the key in one atomic step.
Redis expires the key; with the others the creator's event cleaner is told (`events`) and
deletes it after the delay, or at once if the node shuts down, and the sweep of any node
deletes keys older than the threshold, in one request (etcd), in batches (Consul) or one
by one (ZooKeeper). The sweeps of Consul and ZooKeeper cut 25 characters out of the key,
which a time in UTC does not have, and so leave those keys alone. `ForceCleanupAllTasks`
deletes all keys whenever the application asks for it (etcd and Consul in one request,
ZooKeeper one by one; Redis deletes only the two hashes of tasks). It is documented "for
testing only" (`dcron.go:85`), and the instants whose keys it deletes are `wiped`: the
promise is given up for them and for no other. `AtMostOnce` and the refinement hold under
`Punctual`. The refinement says more than `AtMostOnce`: that is about two nodes that
execute, while a bit that a lost answer has set stays set too, although nobody executes.
A sweep or an expiry that took such a key early would satisfy `AtMostOnce` in every run in
which only one later node comes, and violates the refinement.

In the modules that cover several registries `Backends` holds those to look at; the
variable `backend` is the one of the behaviour and never changes.

**EventCleaner** is the cleaner behind it: `SendEvent` -> `eventCh` -> heap ->
`batchCh` -> a handler goroutine per batch. `processHeap` holds the lock of the heap in
its states `"scan"` and `"sendFull"`. Cancellation may come in any state. Its property
`DeletedWhenDue` is what `batchDeleteExecKeys` of ExecLock relies on.

The MC modules hold the values of constants that a configuration cannot write.
Definitions whose comment starts with "Mutant of" are deliberate mistakes: with one in
place of the original, the property that is meant to catch it is violated.

## Runs

Runs that pass:

| Run | Shows | Bounds |
|---|---|---|
| `node_etcd` | every API call, job runs with post-execution flags, calls of other nodes, failing requests (a forced cleanup may fail half done) and restarts on etcd, against watchers and rebalance: one entry per task, no orphan entry, the schedule is current | 1 task, 2 schedules, 2 goroutines (symmetric), 2 calls or failures |
| `node_redis` | the same facts and more (`CronConsistent`) on Redis with a one-shot task and an invalid schedule; every rebalance leaves exactly the wanted tasks scheduled; tombstones and tasks are discovered, the engine converges | 1 task, 1 goroutine, 3 calls or failures, then quiet; the calls are `AddTaskMeta`, `ReuseDeletedTask`, `MarkTaskDeleted`, `CleanupTask` and other nodes' changes of tombstones, the rest is left to `node_etcd` (TLC) and the proofs |
| `nodes` | each registry: the list of working nodes implements Membership, a status is not undone, a removed node stays removed (etcd, ZooKeeper), a dead one is forgotten (all but etcd), a serving one keeps its place, a stopped one ends | 2 nodes, one of them steady; 2 starts and 2 failures or delays, with Redis 1 and 1 |
| `watch` | each registry: the task events end up telling what is stored, but for changes in a gap; Consul and ZooKeeper tell of every removal; `WatchTaskEvent` returns while the tasks fit into its channel | 2 tasks, 2 values, 2 writers, 3 writes or faults; a channel of 1 (etcd, Redis) or 2 |
| `changes` | each registry, nodes and tombstones: a node with an old list has a wake-up coming and sees the current list without its ticker, but for changes that are never reported; which watchers end with the node | 2 items, a channel of 1, 3 writes or faults |
| `cluster` | all strategies: exactly one owner once settled, disjoint with equal lists, even slots, survivors keep their tasks | 3 nodes, 2 tasks, 2 changes from every initial membership |
| `cluster_live` | every task ends up on one node for good | 2 nodes, 2 tasks, 3 changes |
| `lock` | each registry, with calls that fail or whose answer is lost and with forced cleanups: at most once unless the key was wiped, refused only for the same instant, the keys act as one bit per instant (ExecOnce), no key stays; Redis nodes may shut down | 2 nodes with clocks 2 units apart, 2 instants one second apart, time up to 14 |
| `cleaner` | no event lost or doubled, none early; every event is handled; everything returns after a shutdown | 3 events of one time, channels of 1, batches of 2 |

Runs that show a disagreement between the code and what its documentation or comments
say. Each checks one property; `PROJECT.json` quotes the text.

| Run | What the code does |
|---|---|
| `put_unknown` | a Put event for a task the node does not know dereferences nil and kills the process |
| `lock_stop` | a node that shuts down (etcd, Consul, ZooKeeper) flushes keys that are not due, and two nodes execute one instant |
| `etcd_crash` | `UpdateStatus(working)` in `Start`, and every heartbeat after it, detaches the key of an etcd node from its lease: the key of a crashed node stays among the working nodes |

*Further disagreements.* The modules do these as the code does, unless it is said
otherwise; the runs above are kept to the ones with the widest effect, and no run is
spent on the rest.

Tasks of a node:

- Redis: reusing one deleted task drops all tombstones (`redis.go:469`; `driver.go:91`),
  and a task that another node has cleaned up stays known for ever, since the cleanup
  publishes nothing (`redis.go:433`; `task.go:128`);
- an outdated answer of `GetDeletedTaskNames` makes the node forget a tombstone, and a
  failing one is taken for an empty answer and clears them all (`task.go:190`, :186);
- a run of the old configuration deletes the task that `ForceAddTaskMeta` has just
  stored (`dcron.go:160`; README.md:679);
- a one-shot task whose run outlasts its period is started again before the first run
  has marked it (`dcron.go:93`: "task runs only once");
- a task with both flags is marked, not cleaned up (`dcron.go:158`; README.md:599 says
  that `ExecutedAndCleanup` takes precedence);
- an update that keeps the cron format leaves the engine running the old object, with
  its old payload and flags (`task.go:87`; README.md:679);
- `MarkTaskDeleted` of an unknown task answers with an error after it has stored the
  tombstone (`dcron.go:426`).

Watches:

- with etcd, a delete between the initial `Get` and the watch is never delivered
  (`etcd.go:308`), and a reload does not remove the task either;
- `WatchTaskEvent` of Consul and ZooKeeper sends the stored tasks before it returns the
  channel: with more tasks than the channel holds it never returns, and the periodic
  reload of the node never starts (`consul.go:453`). `WatchReturns` holds for channels
  that are large enough;
- Redis `GetAllTasks` declares a new cursor inside its loop (`redis.go:265`), so that a
  hash that HSCAN answers in several pages is read from the start for ever (not modelled:
  the answer is one read);
- ZooKeeper's task watcher does not see new data of a known name, and its node watcher
  no change of status; Redis publishes no removal of a tombstone. The node notices only
  with the periodic reload;
- with Consul and ZooKeeper, a task that is stored and removed between two snapshots is
  in neither: a node whose reload has read it in between keeps it (not modelled: TaskWatch
  has no reload);
- ZooKeeper's tombstone watcher ends after a failed `ChildrenW`, although
  `zookeeper.go:635` logs that a retry will be attempted;
- Consul's node watcher starts with an empty snapshot (`consul.go:287`): a node that is
  gone between the first reload and the first query is not reported;
- Consul's plans, and a node watcher that waits for room in its channel, outlive the
  context. `WatcherEnds` states which watchers end;
- a watch channel that etcd closes makes the readers loop on zero values.

Nodes and the lock:

- Redis: `updateNodeField` says "atomically" (`redis.go:107`), but a heartbeat that has
  read the record before a status update undoes the update or leaves two records
  (`StatusKept` excludes exactly that);
- `Stop` after a `Start` that failed in `UpdateStatus` leaves its goroutines running
  (`dcron.go:500`), and a second `Stop` closes a closed channel (`dcron.go:513`);
- clocks that differ by more than the life of a key, or nodes in different time zones
  with any registry but etcd, make two nodes execute one instant (`redis.go:457`):
  `Punctual` excludes both. `ForceCleanupAllTasks` does so too, when it deletes a key that
  is still needed; `wiped` excludes those instants;
- keys written in UTC are never swept by Consul and ZooKeeper, and in ZooKeeper a name
  that is shorter than 25 characters makes the slice panic; `KeysGo` is about the other
  zones. A UTC key that a failed call has created thus stays;
- the lists of nodes are compared by a CRC-32 of their ids (`dcron_internal.go:109`); the
  models compare the lists.

*Bounds.* The actions of a node interact through one task or through shared state (the
channel, the ids, the tombstone hash), so one task, a channel of one and two
concurrent calls or runs reach the cases; `MaxOps` bounds calls, failures and
restarts, never the steps of the goroutines that react to them. What depends on more
is proved for every size. In NodeLife one node goes through everything while the other
stays and cleans up, and two starts reach a restart after each kind of end (with
Redis, whose updates take three requests, one start has to do). The channels of the
watches are full after one event, the smallest at which they drop or block, and three
writes are one to miss, one to report and one more to repair it. Three nodes are
needed in Cluster for a middle range and an uneven division of the slots. In ExecLock
a second is 2 units and a key lives 5, so that `Punctual` holds with no slack
(`MaxOffset + MaxLate + MaxCall = KeyLife - 1`). The events of `cleaner` are all
created before the clock moves, some before and some after a tick: a heap that holds
both due and later events is beyond what TLC finishes together with the liveness
properties, and is covered by the proofs of `Conserved` and `DeletedWhenDue`.

*Deadlock.* It is not checked in these instances because they may stop: an application
need not start its node, a node may have panicked or been shut down, writes are
bounded, the bounded time of ExecLock ends, the cleaner has returned. That nothing
waits for ever is stated by the liveness properties.

*Fairness.* Weak fairness for the steps of a goroutine that is ready and for tickers:
the Go scheduler runs every ready goroutine. Strong fairness where a step is enabled
again and again but not continuously: a case of a `select` that is ready at each turn is
eventually picked since Go picks at random, and blocked senders and waiters for a mutex
are served in turn. Of the backends it is assumed that they forget who is silent
(NodeLife) and deliver what they have accepted (TaskWatch, ChangeWatch: a publisher ends
its call, a watch that has fired is handled), and of ExecLock that time passes and that
cleaners and sweeps get their turn. `StopEnds` assumes of the application that its jobs
return (weak fairness of `Drain`), since `waitForShutdown` waits for them without a
limit. `changes` does not assume the ticker: the question is
what the events alone achieve. Nothing else is assumed of the application or its
Runners, and nothing of other nodes, of failures, restarts or shutdowns; the properties
say "once they have ceased".

## Proofs

Proved for every value of the constants, under the named assumptions of the modules:

- `DcronNodeProofs`: `TypeCorrect` (`TypeOK`), `CronEngineConsistent`
  (`CronConsistent`) and its parts `NeverScheduledTwice` (`OneEntryPerTask`),
  `NoEntryOutOfReach` (`NoOrphanEntry`), `AssignedAlwaysScheduled`
  (`AssignedIsScheduled`, a conjunct of `CronConsistent`) and `ScheduleAlwaysCurrent`
  (`FormatCurrent`).
  `OneEntryPerTask` alone is not inductive: a rebalance could add a second entry if
  the id in `allTasks` were not the one of the entry. The inductive invariant is
  `TypeOK` with `CronConsistent`, which adds that every entry is found from both maps
  under its own id, that assigned tasks have an entry, that ids are distinct and were
  handed out, and the bounds on ids that make a fresh id fresh. The proof has a lemma
  for each way in which an action changes the maps (unschedule, replace, add, update,
  delete, rebalance) and one case per action. `RebalanceAlwaysSettles`
  (`RebalanceSettles`) is the step that `CronConverges` waits for: whatever state a
  rebalance starts from, it leaves exactly the wanted tasks scheduled. It needs the whole
  of `CronConsistent`, since an id without entry or an entry without id would make the
  rebalance skip a task, and `ValidEntries`: the engine never holds an entry of an invalid
  format, so that what the rebalance keeps is wanted. `ValidEntries` is inductive because
  only the rebalance adds entries (`OnlyRebalanceAdds`).
- `ClusterProofs` starts with the strategies themselves: who owns a task, as a statement
  that does not mention how the list is searched, and `OwnerListed`: every strategy gives
  every task to a node of the list, unless it panics. Range and the ring choose a least
  name at or after a hash, or wrap around; the weighted strategies go through the partial
  sums, which add up to the total; a slot belongs to the interval that the integer
  division and its remainder give it, so that two nodes' shares differ by at most one
  (`SlotsSpread`). `RangeStable` and `ConsistentStable` say that an owner that stays in a
  smaller list stays the owner. `Ranks` has the facts on finite sets of numbers behind
  them (the rank of an element, least and greatest elements).
  On these rest `ClusterTypeCorrect` (`TypeOK`), `SameListNeverTwice`
  (`SameListDisjoint`), `TasksOwnedOnce` (`OwnedOnce`), `SlotsAlwaysEven` (`SlotsEven`)
  and `SurvivorsAlwaysKeepTasks` (`SurvivorsKeepTasks`). What a node has assigned is
  determined by the list its assigner holds and the tasks it was offered, because the
  owner of a task is a function of strategy, list and task; two nodes cannot both be that
  owner. `OwnedOnce` also needs that somebody is: the inductive part `AssignedExactly` says
  that a node without a pending signal that finds itself on its list has assigned exactly
  what the strategy gives it of that list and of the tasks it was offered, and once the
  views agree `OwnerListed` names the node.
- `EventCleanerProofs`: `CleanerTypeCorrect` (`TypeOK`), `EventsConserved` (`Conserved`)
  and `NeverDeletedEarly` (`DeletedWhenDue`), for any events, times, capacities and batch
  sizes. The inductive invariant adds what the goroutines have in their hands in which
  state (`HandsEmpty`), that an event that was not sent is nowhere (`UnsentNowhere`), and
  that what has left the heap before a shutdown was due (`DueSinceTick`).
- `NodeLifeProofs`: `LifeTypeCorrect` (`TypeOK`), `LifeImplementsMembership`
  (`ImplementsMembership`), `GoneForGood` (`GoneStaysGone`) and `StatusNeverUndone`
  (`StatusKept`), for any nodes, numbers of starts and failures and each registry. For the
  refinement every step is shown to be one of Membership or none: a step of a running
  node on its own records is a `Join` or a `Drop` (`OwnStep`), what the backends forget
  and clean up only drops (`ForgetStep`, `CleanupStep`), and the lifecycle only boots or
  kills (`LifeStep`). `StatusKept` rests on the inductive invariant `StatusInv`: etcd and
  Consul have one record for an id, the session of every znode can end (otherwise what
  remains after a lapse could be an older record), and a node that is about to join never
  has a record that says leaving (otherwise `UpdateStatus(working)` would take it back).
- `ChangeWatchProofs`: `ChangeTypeCorrect` (`TypeOK`) and `WakeUpNeverLost`
  (`NoWakeUpLost`), for any items, channel size and number of writes. This is the safety
  half of `SeenConverges`. The inductive invariant looks at the answer of a reload in
  progress too (`Awake`), says that between two reloads the reader holds the last answer
  (`Applied`), counts messages against writes (`Spent`), and says that etcd's watcher
  has no state in which it is neither reading nor closed (`Places`).
- `TaskWatchProofs`: `WatchTypeCorrect` (`TypeOK`), and the safety halves of the liveness
  properties of `watch`, for any tasks, values, writers and channel sizes.
  `QuietAlwaysTold`: whenever the watch is up and nothing is under way, the reader holds
  what the registry holds of every task that is not `missed`, and with Consul and ZooKeeper
  no task that is gone, so that `ToldConverges` and `RemovalsTold` only leave it to fairness
  that the stream, the watcher and the channel are emptied. Such a fact is not inductive
  since it says nothing while events are under way. `WatchInv` does: `Telling(t, v)` looks
  through the stream, what the watcher has in hand and the channel, in that order, and says
  what the reader will hold of `t` when it has read them all. With etcd and Redis that is
  what is stored (`StreamTells`); with Consul it is the snapshot, which is the store's
  unless a query is due (`ConsulTells`); with ZooKeeper it is the names of the snapshot,
  and of each the data or a `Get` still to be made (`ZkTells`). `StartNeverBlocks`:
  while Consul and ZooKeeper send the initial events to a channel that nobody reads yet,
  there is room for the next one if the listed tasks fit, because events sent and events
  to be sent are together never more than those tasks (`Fits`). TLC agrees with
  `WatchInv`, `Fits` and both statements on the instance of `watch` with `MaxOps = 4`.
- `ExecLockProofs`: `LockTypeCorrect`, `LockAtMostOnce`, `LockRefusesOnlyOnce` and
  `LockImplementsExecOnce`, for all four registries, under `Punctual`: clock offset,
  delay of the job and delay of the call together are shorter than the life of a key,
  a job reads the clock within its second, the sweep's threshold is not below the life
  of a key, nodes share a zone (unless etcd is the only registry), and nodes are not
  shut down except with Redis. The inductive invariant adds `Timely` (a run read the
  clock soon after its instant), `Patient` (an event cleaner knows no due time before a
  key's life is over), `Guarded` (while a call for an instant that was taken, and not
  wiped, can still arrive, its key is there) and `Justified` (each key stems from a call
  for its own second). `KeyTells` says that two instants never have the same key, and
  `NotTwice` that a call for a taken instant finds its key. For the refinement every
  step is one of ExecOnce or none (`PromiseStep`): answers are `Take`, `Refuse` or
  `Fail`, forced cleanups are `Reset`, and expiry, cleaners and sweeps change no bit.
  That `Punctual` cannot do without its clause about shutdown is what `lock_stop` shows.

Only model-checked: everything about liveness (out of the prover's reach: `ENABLED` and
fairness). Every invariant and every action property of a run that passes is also
proved. `KeptType` of NodeLifeProofs stands for the library's `SelectSeq`, which the
provers do not know: `Kept` of NodeRegistry defines the same subsequence by positions.

## Not modelled, and the plan

Not modelled:

- getters (they copy), logging, options, the making of node ids, hash functions, and
  the paging of Redis' `GetAllTasks`;
- a watch of tasks that fails to start: its goroutine returns (`task.go:54`), and the node
  is left with what it has. A call that hangs is modelled (`WatchReturns`);
- in NodeLife a second heartbeat goroutine after a second `Start` counts as one, and
  ZooKeeper's `GetNodes`, a list and a read per name, is one step;
- in TaskWatch the returns on a cancelled context (they are in ChangeWatch), and the
  same task twice in a Redis page.

What is left: the cursor of Redis' `GetAllTasks`, and a task watch that fails to start.
