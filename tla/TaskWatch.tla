------------------------------ MODULE TaskWatch ------------------------------
(***************************************************************************)
(* WatchTaskEvent of the four registries (etcd.go, redis.go, consul.go,      *)
(* zookeeper.go): how what is stored under the tasks' prefix becomes events   *)
(* on a bounded channel, which watchTaskEvent (task.go) reads.  What a node   *)
(* makes of an event is the subject of DcronNode; here the reader folds the   *)
(* events it gets into told.                                                  *)
(*                                                                         *)
(* The four differ.  etcd reads the tasks, then opens a stream of changes.    *)
(* Redis has only the messages that writers publish.  Consul reports that     *)
(* something changed, and the watcher compares snapshots.  ZooKeeper reports  *)
(* once that the names have changed, and the watcher compares lists of names. *)
(***************************************************************************)
EXTENDS Naturals, SequencesExt

CONSTANTS
  Task, Value,
  None,
  Writer,      \* callers of PutTask, at this node and at others
  Backends,    \* the registries to look at
  ChanSize,    \* ChanSize[b]: TaskEventChannelSize, 100 with etcd
  MaxOps       \* bound on calls and faults

ASSUME WatchAssumption ==
  /\ Backends \subseteq {"etcd", "redis", "consul", "zookeeper"}
  /\ ChanSize \in [Backends -> Nat] /\ MaxOps \in Nat /\ None \notin Value
  /\ IsFiniteSet(Task)

VARIABLES
  backend,
  stored,      \* stored[t]: the metadata of t in the registry, or None
  writer,      \* writer[w]: the second half of a PutTask of two calls
  watch,       \* where WatchTaskEvent and its goroutine are
  returned,    \* WatchTaskEvent has given the channel to watchTaskEvent
  snapshot,    \* currentPairs of Consul, currentTasks (names only) of ZooKeeper
  feed,        \* what etcd or Redis has sent to the watcher
  fired,       \* Consul's index has moved, or ZooKeeper's watch has fired
  todo,        \* the events that the watcher has still to send
  eventChan,
  told,        \* told[t]: what the events read so far say of t
  missed,      \* history: the tasks whose last change no event reports
  ops

vars == <<backend, stored, writer, watch, returned, snapshot, feed, fired, todo,
          eventChan, told, missed, ops>>

Stored == {t \in Task : stored[t] # None}
Put(t, v) == [type |-> "Put", task |-> t, value |-> v]
Delete(t) == [type |-> "Delete", task |-> t, value |-> None]
Get(t) == [type |-> "Get", task |-> t, value |-> None]
Event == [type : {"Put", "Delete", "Get"}, task : Task, value : Value \cup {None}]
Idle == [op |-> "idle"]
Pending == {Idle} \cup [op : {"Set", "Create", "Publish"}, task : Task, value : Value]

(* Every variable holds a value of its type, and the channel its bound. *)
TypeOK ==
  /\ backend \in Backends
  /\ stored \in [Task -> Value \cup {None}]
  /\ writer \in [Writer -> Pending]
  /\ watch \in {"off", "initial", "watching", "dead"}
  /\ returned \in BOOLEAN
  /\ snapshot \in [Task -> Value \cup {None}]
  /\ feed \in Seq(Event)
  /\ fired \in BOOLEAN
  /\ todo \subseteq Event
  /\ eventChan \in Seq(Event) /\ Len(eventChan) <= ChanSize[backend]
  /\ told \in [Task -> Value \cup {None}]
  /\ missed \subseteq Task
  /\ ops \in 0 .. MaxOps

Nothing == [t \in Task |-> None]

(* Some tasks may be stored before the node starts. *)
Init ==
  /\ backend \in Backends
  /\ \E v \in Value : stored \in [Task -> {v, None}]
  /\ writer = [w \in Writer |-> Idle]
  /\ watch = "off" /\ returned = FALSE
  /\ snapshot = Nothing
  /\ feed = <<>> /\ fired = FALSE /\ todo = {} /\ eventChan = <<>>
  /\ told = Nothing
  /\ missed = {}
  /\ ops = 0

Spend == ops < MaxOps /\ ops' = ops + 1

-----------------------------------------------------------------------------
(* Writers.  A change of the tasks in S reaches the watcher as events, or as   *)
(* the bare fact that something has changed; lost are those it will not learn. *)
Change(S, events, wakes, lost) ==
  /\ feed' = IF watch = "watching" THEN feed \o events ELSE feed
  /\ fired' = (fired \/ wakes)
  /\ missed' = (missed \ S) \cup lost

(* etcd: what falls between the first read and the start of the stream. *)
Unwatched(S) == IF watch = "initial" THEN S ELSE {}

watcherVars == <<watch, returned, snapshot, todo, eventChan, told>>

(* etcd and Consul: one Put. *)
EtcdPutTask(t, v) ==
  /\ backend = "etcd" /\ Spend
  /\ stored' = [stored EXCEPT ![t] = v]
  /\ Change({t}, <<Put(t, v)>>, FALSE, Unwatched({t}))
  /\ UNCHANGED <<backend, writer, watcherVars>>

ConsulPutTask(t, v) ==
  /\ backend = "consul" /\ Spend
  /\ stored' = [stored EXCEPT ![t] = v]
  /\ Change({t}, <<>>, TRUE, {})
  /\ UNCHANGED <<backend, writer, watcherVars>>

(* Redis: HSET, and then PUBLISH... *)
HSet(w, t, v) ==
  /\ backend = "redis" /\ writer[w] = Idle /\ Spend
  /\ stored' = [stored EXCEPT ![t] = v]
  /\ writer' = [writer EXCEPT ![w] = [op |-> "Publish", task |-> t, value |-> v]]
  /\ Change({t}, <<>>, FALSE, {t})
  /\ UNCHANGED <<backend, watcherVars>>

(* ...which can tell of a value that another writer has replaced meanwhile,    *)
(* and which may fail.                                                         *)
publishTaskEvent(w) ==
  /\ writer[w].op = "Publish"
  /\ writer' = [writer EXCEPT ![w] = Idle]
  /\ LET t == writer[w].task  v == writer[w].value IN
       \/ Change({t}, <<Put(t, v)>>, FALSE,
                 IF watch = "watching" /\ v = stored[t] THEN {} ELSE {t})
       \/ Change({t}, <<>>, FALSE, {t})
  /\ UNCHANGED <<backend, stored, watcherVars, ops>>

(* ZooKeeper: Exists, and then Set or Create... *)
Exists(w, t, v) ==
  /\ backend = "zookeeper" /\ writer[w] = Idle /\ Spend
  /\ writer' = [writer EXCEPT
       ![w] = [op |-> IF t \in Stored THEN "Set" ELSE "Create", task |-> t, value |-> v]]
  /\ UNCHANGED <<backend, stored, feed, fired, missed, watcherVars>>

(* ...which fails when the task has come or gone in between.  Only a Create    *)
(* wakes the watcher; it sees nothing new in a name that it still lists.       *)
SetOrCreate(w) ==
  /\ writer[w].op \in {"Set", "Create"}
  /\ writer' = [writer EXCEPT ![w] = Idle]
  /\ LET t == writer[w].task
         create == writer[w].op = "Create"
     IN  IF create = (t \in Stored)
         THEN UNCHANGED <<stored, feed, fired, missed>>
         ELSE /\ stored' = [stored EXCEPT ![t] = writer[w].value]
              /\ Change({t}, <<>>, create /\ watch # "off",
                        IF create /\ snapshot[t] = None THEN {} ELSE {t})
  /\ UNCHANGED <<backend, watcherVars, ops>>

(* ForceCleanupTask of one task and ForceCleanupAllTasks of all. *)
CleanUp(S) ==
  /\ S # {} /\ S \subseteq Stored /\ Spend
  /\ stored' = [t \in Task |-> IF t \in S THEN None ELSE stored[t]]
  /\ UNCHANGED <<backend, writer, watcherVars>>

OneOrAll(S) == Cardinality(S) = 1 \/ S = Stored

EtcdForceCleanup(S) ==
  /\ backend = "etcd" /\ OneOrAll(S) /\ CleanUp(S)
  /\ Change(S, SetToSeq({Delete(t) : t \in S}), FALSE, Unwatched(S))

ConsulForceCleanup(S) ==
  /\ backend = "consul" /\ OneOrAll(S) /\ CleanUp(S)
  /\ Change(S, <<>>, TRUE, {})

(* Redis publishes nothing. *)
RedisForceCleanup(S) ==
  /\ backend = "redis" /\ OneOrAll(S) /\ CleanUp(S)
  /\ Change(S, <<>>, FALSE, S)

(* ZooKeeper deletes one znode after the other. *)
ZkForceCleanup(S) ==
  /\ backend = "zookeeper" /\ Cardinality(S) = 1 /\ CleanUp(S)
  /\ Change(S, <<>>, watch # "off", {})

-----------------------------------------------------------------------------
(* The watcher. *)
registryVars == <<backend, stored, writer>>

(* WatchTaskEvent is called: events are what it reads first.  When it returns   *)
(* at once, a goroutine sends them.                                            *)
Open(b, events, atOnce, first, gap) ==
  /\ backend = b /\ watch = "off"
  /\ watch' = "initial"
  /\ returned' = atOnce
  /\ snapshot' = first
  /\ todo' = events
  /\ missed' = gap
  /\ UNCHANGED <<registryVars, feed, fired, eventChan, told, ops>>

EtcdWatchTaskEvent == Open("etcd", {Put(t, stored[t]) : t \in Stored}, TRUE, Nothing, {})

(* Redis reads nothing: what is stored before is left to the reloads. *)
RedisWatchTaskEvent == Open("redis", {}, TRUE, Nothing, Stored)

(* Consul and ZooKeeper send the initial events before anybody can read them;  *)
(* ZooKeeper has the names, and reads the data of each.                        *)
ConsulWatchTaskEvent ==
  Open("consul", {Put(t, stored[t]) : t \in Stored}, FALSE, stored, {})

ZkWatchTaskEvent == Open("zookeeper", {Get(t) : t \in Stored}, FALSE, stored, {})

WatchTaskEvent ==
  EtcdWatchTaskEvent \/ RedisWatchTaskEvent \/ ConsulWatchTaskEvent \/ ZkWatchTaskEvent

(* The initial events are sent: etcd's Watch starts from the revision of this  *)
(* moment, Redis has the subscription, Consul's plan makes its first query.    *)
StartWatch ==
  /\ watch = "initial" /\ todo = {}
  /\ watch' = "watching"
  /\ returned' = TRUE
  /\ fired' = (fired \/ backend = "consul")
  /\ UNCHANGED <<registryVars, snapshot, feed, todo, eventChan, told, missed, ops>>

(* Mutant of Diff: a task that is no longer there is not looked for. *)
DiffWithoutDeletes ==
  {Put(t, stored[t]) : t \in {u \in Stored : snapshot[u] # stored[u]}}

(* Mutant of Diff: only the names are compared. *)
DiffNames ==
  {IF backend = "consul" THEN Put(t, stored[t]) ELSE Get(t)
     : t \in {u \in Stored : snapshot[u] = None}}
    \cup {Delete(t) : t \in {u \in Task \ Stored : snapshot[u] # None}}

(* Consul's handler compares the values of two snapshots... *)
ConsulDiff ==
  {Put(t, stored[t]) : t \in {u \in Stored : snapshot[u] # stored[u]}}
    \cup {Delete(t) : t \in {u \in Task \ Stored : snapshot[u] # None}}

(* ...and ZooKeeper's watcher the names. *)
ZkDiff ==
  {Get(t) : t \in {u \in Stored : snapshot[u] = None}}
    \cup {Delete(t) : t \in {u \in Task \ Stored : snapshot[u] # None}}

Diff == IF backend = "consul" THEN ConsulDiff ELSE ZkDiff

(* plan.Handler, and EventNodeChildrenChanged with the new watch.  The other   *)
(* two cases of ZooKeeper's watcher never happen: a watch on the children      *)
(* reports neither the data of a child nor its deletion.                       *)
Compare ==
  /\ watch = "watching" /\ todo = {} /\ fired
  /\ todo' = Diff
  /\ snapshot' = stored
  /\ fired' = FALSE
  /\ UNCHANGED <<registryVars, watch, returned, feed, eventChan, told, missed, ops>>

(* The next of what the backend has sent. *)
Receive ==
  /\ watch = "watching" /\ todo = {} /\ feed # <<>>
  /\ todo' = {Head(feed)}
  /\ feed' = Tail(feed)
  /\ UNCHANGED <<registryVars, watch, returned, snapshot, fired, eventChan, told, missed, ops>>

(* A change of etcd's stream, a message of Redis' subscription. *)
EtcdReceive == backend = "etcd" /\ Receive
RedisReceive == backend = "redis" /\ Receive

(* ZooKeeper: the data of a name, one at a time; a name that has gone, or      *)
(* whose read fails, is passed over and stays listed.                          *)
GetData(e) ==
  /\ e \in todo /\ e.type = "Get"
  /\ ~ \E d \in todo : d.type = "Put"
  /\ \/ /\ e.task \in Stored
        /\ todo' = (todo \ {e}) \cup {Put(e.task, stored[e.task])}
        /\ UNCHANGED <<missed, ops>>
     \/ /\ e.task \notin Stored
        /\ todo' = todo \ {e}
        /\ UNCHANGED <<missed, ops>>
     \/ /\ todo' = todo \ {e}
        /\ missed' = missed \cup {e.task}
        /\ Spend
  /\ UNCHANGED <<registryVars, watch, returned, snapshot, feed, fired, eventChan, told>>

(* Mutant of Room: a queue without a bound. *)
RoomAlways == TRUE

(* Mutant of Room: a channel without a buffer. *)
RoomForReaderOnly == returned /\ Len(eventChan) < ChanSize[backend]

Room == Len(eventChan) < ChanSize[backend]

(* Deletes are sent after the rest.  A full channel blocks the watcher. *)
Send(e) ==
  /\ e \in todo /\ e.type # "Get"
  /\ e.type = "Delete" => \A d \in todo : d.type = "Delete"
  /\ Room
  /\ eventChan' = Append(eventChan, e)
  /\ todo' = todo \ {e}
  /\ UNCHANGED <<registryVars, watch, returned, snapshot, feed, fired, told, missed, ops>>

(* The stream breaks.  etcd's channel is closed and read for ever; so is       *)
(* ZooKeeper's after a lost session, and after a failed ChildrenW it is nil.   *)
WatchLost ==
  /\ backend \in {"etcd", "zookeeper"} /\ watch = "watching" /\ todo = {} /\ Spend
  /\ watch' = "dead"
  /\ missed' = Task
  /\ UNCHANGED <<registryVars, returned, snapshot, feed, fired, todo, eventChan, told>>

(* A reconnection, or a slow reader, loses a message of Redis. *)
MessageLost ==
  /\ backend = "redis" /\ feed # <<>> /\ Spend
  /\ feed' = Tail(feed)
  /\ missed' = missed \cup {Head(feed).task}
  /\ UNCHANGED <<registryVars, watch, returned, snapshot, fired, todo, eventChan, told>>

(* watchTaskEvent reads an event. *)
handleTaskEvent ==
  /\ returned /\ eventChan # <<>>
  /\ told' = [told EXCEPT ![Head(eventChan).task] = Head(eventChan).value]
  /\ eventChan' = Tail(eventChan)
  /\ UNCHANGED <<registryVars, watch, returned, snapshot, feed, fired, todo, missed, ops>>

WatcherStep ==
  \/ WatchTaskEvent \/ StartWatch \/ Compare \/ EtcdReceive \/ RedisReceive
  \/ \E e \in todo : GetData(e) \/ Send(e)

Next ==
  \/ \E t \in Task, v \in Value :
       \/ EtcdPutTask(t, v) \/ ConsulPutTask(t, v)
       \/ \E w \in Writer : HSet(w, t, v) \/ Exists(w, t, v)
  \/ \E w \in Writer : publishTaskEvent(w) \/ SetOrCreate(w)
  \/ \E S \in SUBSET Task :
       EtcdForceCleanup(S) \/ ConsulForceCleanup(S) \/ RedisForceCleanup(S) \/ ZkForceCleanup(S)
  \/ WatcherStep \/ WatchLost \/ MessageLost
  \/ handleTaskEvent

Spec == Init /\ [][Next]_vars

(* The goroutines run and the backends deliver.  Nothing is assumed of calls   *)
(* and faults.                                                                 *)
FairSpec == Spec /\ WF_vars(WatcherStep) /\ WF_vars(handleTaskEvent)

-----------------------------------------------------------------------------
(* Where the watch stays up, the events end up telling of every task what the  *)
(* registry holds, whatever the order of writes, reads, comparisons and sends: *)
(* with Consul of every task, with the others of all but those whose last      *)
(* change falls in a gap of the protocol (missed).                             *)
ToldConverges ==
  <>[](watch = "watching") => <>[](\A t \in Task \ missed : told[t] = stored[t])

(* With Consul and ZooKeeper the events never leave the reader with a task     *)
(* that is gone: even what ZooKeeper's watcher has missed of a task's data is  *)
(* taken back when the task is removed.                                        *)
RemovalsTold ==
  backend \in {"consul", "zookeeper"} =>
    (<>[](watch = "watching") => <>[](\A t \in Task : told[t] # None => t \in Stored))

(* WatchTaskEvent returns, as long as no more tasks are stored than the        *)
(* channel has room for.  With more, Consul's and ZooKeeper's never do: they   *)
(* fill the channel before anybody reads it.                                   *)
WatchReturns == watch = "initial" ~> returned

=============================================================================
