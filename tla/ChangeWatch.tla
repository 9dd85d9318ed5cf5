----------------------------- MODULE ChangeWatch -----------------------------
(***************************************************************************)
(* WatchNodes and WatchDeletedTaskEvent of the four registries (etcd.go,     *)
(* redis.go, consul.go, zookeeper.go), and their readers watchNodeEvent       *)
(* (dcron_internal.go) and watchDeletedTaskEvent (task.go).  An event only    *)
(* says that something has changed: whatever it holds, the reader fetches     *)
(* the whole list again.  So events may be dropped and merged, as long as     *)
(* one that comes after the last change is left.                              *)
(*                                                                         *)
(* Both readers also reload on a ticker.  The question here is what they see *)
(* without it.                                                                *)
(***************************************************************************)
EXTENDS Naturals, FiniteSets

CONSTANTS
  Item,       \* ids of nodes, or names of tasks
  Backends, Topics,
  ChanSize,   \* NodeEventChannelSize, TaskEventChannelSize
  MaxOps      \* bound on writes and faults

ASSUME ChangeAssumption ==
  /\ Backends \subseteq {"etcd", "redis", "consul", "zookeeper"}
  /\ Topics \subseteq {"nodes", "deleted"}
  /\ IsFiniteSet(Item) /\ ChanSize \in Nat \ {0} /\ MaxOps \in Nat

VARIABLES
  backend, topic,
  stored,     \* stored[i]: "listed" if GetWorkingNodes or GetDeletedTaskNames
              \* returns i, "other" if i is a node of another status
  publishing, \* Redis: writes that are still to be published
  watch,      \* where the watcher is
  snapshot,   \* Consul: the services that the handler has seen last
  feed,       \* how many changes etcd or Redis has sent to the watcher
  fired,      \* Consul's index has moved, or ZooKeeper's watch has fired
  todo,       \* how many events the watcher has still to send
  eventChan,  \* how many events the channel holds
  reader,     \* where the reader is
  answer,     \* what its reload has read
  seen,       \* dc.nodes or dc.deletedTasks
  missed,     \* history: since the last read, a change that no event reports
  cancelled,  \* dc.ctx is cancelled
  ops

vars == <<backend, topic, stored, publishing, watch, snapshot, feed, fired, todo,
          eventChan, reader, answer, seen, missed, cancelled, ops>>

Content == [Item -> {"none", "other", "listed"}]

(* Every variable holds a value of its type, and the channel its bound. *)
TypeOK ==
  /\ backend \in Backends /\ topic \in Topics
  /\ stored \in Content /\ snapshot \in Content
  /\ publishing \in 0 .. MaxOps /\ feed \in 0 .. MaxOps
  /\ watch \in {"off", "opening", "watching", "lost", "dead", "closed", "over"}
  /\ fired \in BOOLEAN
  /\ todo \in Nat /\ (todo <= 1 \/ todo <= Cardinality(Item))
  /\ eventChan \in 0 .. ChanSize
  /\ reader \in {"idle", "read", "over"}
  /\ answer \subseteq Item /\ seen \subseteq Item
  /\ missed \in BOOLEAN /\ cancelled \in BOOLEAN
  /\ ops \in 0 .. MaxOps

Nothing == [i \in Item |-> "none"]

Init ==
  /\ backend \in Backends /\ topic \in Topics
  /\ stored \in [Item -> {"none", "listed"}]
  /\ publishing = 0
  /\ watch = "off" /\ snapshot = Nothing /\ feed = 0 /\ fired = FALSE
  /\ todo = 0 /\ eventChan = 0
  /\ reader = "idle" /\ answer = {} /\ seen = {}
  /\ missed = FALSE /\ cancelled = FALSE /\ ops = 0

Spend == ops < MaxOps /\ ops' = ops + 1

Listed == {i \in Item : stored[i] = "listed"}

-----------------------------------------------------------------------------
(* Writers, at this node and at others. *)

(* A node is registered with another status than working.  Its Consul check    *)
(* may bring it back as it was, and Redis' updateNodeField takes the old entry  *)
(* away before it adds the new one.                                             *)
MayBecome(old, new) ==
  /\ old = "none" => new # "none"
  /\ topic = "deleted" => new # "other"
  /\ topic = "nodes" /\ backend \in {"etcd", "zookeeper"} =>
       ~ (old = "none" /\ new = "listed")

(* What one call may leave: one item changed, or written again as it was (by a *)
(* heartbeat, or a second mark), or all tombstones gone.                       *)
Writes ==
  {[stored EXCEPT ![p[1]] = p[2]] : p \in
     {q \in Item \X {"none", "other", "listed"} : MayBecome(stored[q[1]], q[2])}}
    \cup {c \in {Nothing} : topic = "deleted" /\ stored # Nothing}

watcherVars == <<watch, snapshot, todo, eventChan>>
readerVars == <<reader, answer, seen, cancelled>>

Write(b, new) ==
  /\ backend = b /\ Spend
  /\ stored' = new
  /\ UNCHANGED <<backend, topic, watcherVars, readerVars>>

(* etcd: every key that is written is an event of the stream. *)
EtcdWrite(new) ==
  /\ Write("etcd", new)
  /\ feed' = IF watch = "watching" THEN feed + 1 ELSE feed
  /\ UNCHANGED <<publishing, fired, missed>>

(* Redis: only the writes of nodes and MarkTaskDeleted publish, afterwards. The *)
(* removal in updateNodeField has no publication but the one after the entry is *)
(* added again: that of one of the two fails here.                              *)
RedisWrite(new) ==
  /\ Write("redis", new)
  /\ IF topic = "deleted" /\ \E i \in Item : stored[i] # "none" /\ new[i] = "none"
     THEN missed' = TRUE /\ UNCHANGED publishing
     ELSE publishing' = publishing + 1 /\ UNCHANGED missed
  /\ UNCHANGED <<feed, fired>>

ConsulWrite(new) ==
  /\ Write("consul", new)
  /\ fired' = TRUE
  /\ UNCHANGED <<publishing, feed, missed>>

(* ZooKeeper: a watch on the children does not report a Set. *)
ZkWrite(new) ==
  /\ Write("zookeeper", new)
  /\ LET names == \E i \in Item : (stored[i] = "none") # (new[i] = "none") IN
       IF names /\ watch = "watching"
       THEN fired' = TRUE /\ UNCHANGED missed
       ELSE missed' = (missed \/ new # stored) /\ UNCHANGED fired
  /\ UNCHANGED <<publishing, feed>>

(* PUBLISH may fail, and reaches only those who have subscribed by then. *)
Publish ==
  /\ publishing > 0 /\ publishing' = publishing - 1
  /\ \/ watch = "watching" /\ feed' = feed + 1 /\ UNCHANGED missed
     \/ missed' = TRUE /\ UNCHANGED feed
  /\ UNCHANGED <<backend, topic, stored, fired, watcherVars, readerVars, ops>>

-----------------------------------------------------------------------------
(* Watchers. *)
storeVars == <<backend, topic, stored, publishing>>

(* The call: the node watchers put the first event into the channel            *)
(* themselves, the goroutines of the others send it.                           *)
Open(b, tp, where) ==
  /\ backend = b /\ topic = tp /\ watch = "off" /\ ~ cancelled
  /\ watch' = where
  /\ fired' = (b = "consul")
  /\ IF tp = "nodes" THEN eventChan' = 1 /\ UNCHANGED todo
                     ELSE todo' = 1 /\ UNCHANGED eventChan
  /\ UNCHANGED <<storeVars, snapshot, feed, readerVars, missed, ops>>

EtcdWatchNodes == Open("etcd", "nodes", "watching")
EtcdWatchDeletedTaskEvent == Open("etcd", "deleted", "watching")

(* Redis' Subscribe does not wait for the server. *)
RedisWatchNodes == Open("redis", "nodes", "opening")
RedisWatchDeletedTaskEvent == Open("redis", "deleted", "opening")

(* Consul's plan calls its handler at least once. *)
ConsulWatchNodes == Open("consul", "nodes", "watching")
ConsulWatchDeletedTaskEvent == Open("consul", "deleted", "watching")

ZkWatchNodes == Open("zookeeper", "nodes", "watching")
ZkWatchDeletedTaskEvent == Open("zookeeper", "deleted", "watching")

Subscribed ==
  /\ watch = "opening"
  /\ watch' = "watching"
  /\ UNCHANGED <<storeVars, snapshot, feed, fired, todo, eventChan, readerVars, missed, ops>>

(* Mutant of Room: a queue without a bound. *)
RoomAlways == TRUE

Room == eventChan < ChanSize

(* The event that is to be sent; without room the goroutine waits. *)
Send ==
  /\ todo > 0 /\ Room
  /\ todo' = todo - 1
  /\ eventChan' = eventChan + 1
  /\ UNCHANGED <<storeVars, watch, snapshot, feed, fired, readerVars, missed, ops>>

(* The goroutine waits for something that b reports about tp. *)
Waiting(b, tp) == backend = b /\ topic = tp /\ watch = "watching" /\ todo = 0

(* A change is received, and an event is to be sent... *)
Receive ==
  /\ feed > 0 /\ feed' = feed - 1
  /\ todo' = 1
  /\ UNCHANGED <<storeVars, watch, snapshot, fired, eventChan, readerVars, missed, ops>>

EtcdNodesReceive == Waiting("etcd", "nodes") /\ Receive
EtcdDeletedReceive == Waiting("etcd", "deleted") /\ Receive
RedisNodesReceive == Waiting("redis", "nodes") /\ Receive

(* Mutant of Offer: one place of the channel is never used. *)
OfferOneShort == eventChan' = IF eventChan + 1 < ChanSize THEN eventChan + 1 ELSE eventChan

(* ...or one is sent only if there is room. *)
Offer == eventChan' = IF Room THEN eventChan + 1 ELSE eventChan

RedisDeletedReceive ==
  /\ Waiting("redis", "deleted")
  /\ feed > 0 /\ feed' = feed - 1
  /\ Offer
  /\ UNCHANGED <<storeVars, watch, snapshot, fired, todo, readerVars, missed, ops>>

(* The services that are new, changed or gone. *)
Different == {i \in Item : snapshot[i] # stored[i]}

(* Consul's handlers: one compares, and says nothing of what was undone before *)
(* it looked, though the reader, with no event left, may have seen it...       *)
ConsulNodesHandler ==
  /\ Waiting("consul", "nodes")
  /\ fired /\ fired' = FALSE
  /\ todo' = Cardinality(Different)
  /\ snapshot' = stored
  /\ missed' = (missed \/ (snapshot = stored /\ answer # Listed /\ eventChan = 0))
  /\ UNCHANGED <<storeVars, watch, feed, eventChan, readerVars, ops>>

(* ...the other only tells. *)
ConsulDeletedHandler ==
  /\ Waiting("consul", "deleted")
  /\ fired /\ fired' = FALSE
  /\ Offer
  /\ UNCHANGED <<storeVars, watch, snapshot, feed, todo, readerVars, missed, ops>>

(* ZooKeeper: the watch has fired, a new one is set and an event is to be sent. *)
ChildrenW ==
  /\ fired /\ fired' = FALSE
  /\ todo' = 1
  /\ UNCHANGED <<storeVars, watch, snapshot, feed, eventChan, readerVars, missed, ops>>

(* There is no watch any more: it fired and ChildrenW failed, or the session   *)
(* was interrupted.  No event is sent.                                         *)
WatchGone(where) ==
  /\ Spend
  /\ fired' = FALSE
  /\ missed' = (missed \/ fired)
  /\ watch' = where
  /\ UNCHANGED <<storeVars, snapshot, feed, todo, eventChan, readerVars>>

(* The watcher of the nodes sets it again, and sends no event either; that of  *)
(* the tombstones reads a closed channel for ever.                             *)
ZkNodesHandler == Waiting("zookeeper", "nodes") /\ (ChildrenW \/ WatchGone("lost"))
ZkDeletedHandler == Waiting("zookeeper", "deleted") /\ (ChildrenW \/ WatchGone("dead"))

reestablishWatch ==
  /\ watch = "lost"
  /\ watch' = "watching"
  /\ UNCHANGED <<storeVars, snapshot, feed, fired, todo, eventChan, readerVars, missed, ops>>

(* etcd gives up the stream: the goroutine returns and closes the channel, and *)
(* its reader reads zero values from then on.                                  *)
EtcdClosed ==
  /\ backend = "etcd" /\ watch = "watching" /\ todo = 0 /\ Spend
  /\ watch' = "closed"
  /\ feed' = 0
  /\ UNCHANGED <<storeVars, snapshot, fired, todo, eventChan, readerVars, missed>>

(* A reconnection, or a slow reader, loses a message of Redis. *)
MessageLost ==
  /\ backend = "redis" /\ feed > 0 /\ Spend
  /\ feed' = feed - 1
  /\ missed' = TRUE
  /\ UNCHANGED <<storeVars, watch, snapshot, fired, todo, eventChan, readerVars>>

-----------------------------------------------------------------------------
(* Readers. *)
Reload(chan) ==
  /\ reader = "idle" /\ ~ cancelled /\ watch # "off"
  /\ reader' = "read"
  /\ answer' = Listed
  /\ missed' = FALSE
  /\ eventChan' = chan
  /\ UNCHANGED <<storeVars, watch, snapshot, feed, fired, todo, seen, cancelled, ops>>

OnEvent ==
  \/ eventChan > 0 /\ Reload(eventChan - 1)
  \/ watch = "closed" /\ eventChan = 0 /\ Reload(0)

OnTicker == Reload(eventChan)

(* The read fails: reloadNodes keeps its list, but GetDeletedTaskNames returns *)
(* an empty one, which is applied.                                             *)
ReloadFails ==
  /\ reader = "idle" /\ ~ cancelled /\ eventChan > 0 /\ Spend
  /\ eventChan' = eventChan - 1
  /\ missed' = TRUE
  /\ IF topic = "nodes" THEN UNCHANGED <<reader, answer>> ELSE reader' = "read" /\ answer' = {}
  /\ UNCHANGED <<storeVars, watch, snapshot, feed, fired, todo, seen, cancelled>>

(* Mutant of Apply: the events that wait are taken as done. *)
ApplyAndDrain ==
  /\ reader = "read" /\ reader' = "idle"
  /\ seen' = answer
  /\ eventChan' = 0
  /\ UNCHANGED <<storeVars, watch, snapshot, feed, fired, todo, answer, missed, cancelled, ops>>

Apply ==
  /\ reader = "read" /\ reader' = "idle"
  /\ seen' = answer
  /\ UNCHANGED <<storeVars, watcherVars, feed, fired, answer, missed, cancelled, ops>>

(* waitForShutdown cancels the context... *)
Cancel ==
  /\ ~ cancelled /\ watch # "off"
  /\ cancelled' = TRUE
  /\ UNCHANGED <<storeVars, watcherVars, feed, fired, reader, answer, seen, missed, ops>>

(* ...and the reader returns. *)
ReaderReturns ==
  /\ cancelled /\ reader = "idle"
  /\ reader' = "over"
  /\ UNCHANGED <<storeVars, watcherVars, feed, fired, answer, seen, cancelled, missed, ops>>

(* Mutant of HearsCancel: the sends do not look at the context. *)
HearsCancelIdle == todo = 0

(* The watchers of the tombstones look at the context when they wait and when  *)
(* they send, those of the nodes only when they wait.                          *)
HearsCancel == topic = "deleted" \/ todo = 0

(* Consul's plans are not told; only the first send of the tombstones' watcher *)
(* looks.                                                                      *)
WatcherReturns ==
  /\ cancelled /\ HearsCancel
  /\ backend = "consul" => todo > 0
  /\ watch \notin {"off", "over"}
  /\ watch' = "over"
  /\ todo' = 0
  /\ UNCHANGED <<storeVars, snapshot, feed, fired, eventChan, readerVars, missed, ops>>

-----------------------------------------------------------------------------
WatcherStep ==
  \/ EtcdWatchNodes \/ RedisWatchNodes \/ ConsulWatchNodes \/ ZkWatchNodes
  \/ EtcdWatchDeletedTaskEvent \/ RedisWatchDeletedTaskEvent
  \/ ConsulWatchDeletedTaskEvent \/ ZkWatchDeletedTaskEvent
  \/ Subscribed \/ Send
  \/ EtcdNodesReceive \/ EtcdDeletedReceive \/ RedisNodesReceive \/ RedisDeletedReceive
  \/ ConsulNodesHandler \/ ConsulDeletedHandler \/ ZkNodesHandler \/ ZkDeletedHandler
  \/ reestablishWatch \/ WatcherReturns

ReaderStep == OnEvent \/ Apply \/ ReaderReturns

Next ==
  \/ \E new \in Writes :
       EtcdWrite(new) \/ RedisWrite(new) \/ ConsulWrite(new) \/ ZkWrite(new)
  \/ Publish
  \/ WatcherStep
  \/ EtcdClosed \/ MessageLost
  \/ ReaderStep \/ OnTicker \/ ReloadFails
  \/ Cancel

Spec == Init /\ [][Next]_vars

(* The goroutines run, the backends deliver and publishers end their call.     *)
(* Nothing is assumed of the ticker, of writes and of faults.                  *)
FairSpec == Spec /\ WF_vars(WatcherStep) /\ WF_vars(ReaderStep) /\ WF_vars(Publish)

-----------------------------------------------------------------------------
(* Something that will make the reader look again. *)
UnderWay ==
  \/ publishing > 0 \/ feed > 0 \/ fired \/ todo > 0 \/ eventChan > 0
  \/ watch \in {"off", "closed"}

(* No wake-up is lost: while a node that waits for the next event holds an      *)
(* old list, a publication, a message, a watch that has fired or an event is    *)
(* still on its way to it, however the channel was filled and drained, unless   *)
(* the change is one that no event reports (missed).                            *)
NoWakeUpLost ==
  ~ cancelled /\ reader = "idle" /\ seen # Listed => missed \/ UnderWay

(* The node ends up with the list that the registry holds, even if the ticker  *)
(* never comes and whatever events are merged or dropped because the channel   *)
(* is full: unless the last change since the reader's read is one that no      *)
(* event reports (missed), for which the ticker is needed.                     *)
SeenConverges ==
  <>[](watch \in {"watching", "closed"} /\ ~ cancelled) => <>[](missed \/ seen = Listed)

(* A node that shuts down leaves no watcher behind, except Consul's plans and  *)
(* a node watcher that waits for room in a channel that nobody reads any more. *)
WatcherEnds ==
  backend # "consul" =>
    (cancelled ~> \/ watch = "over"
                  \/ topic = "nodes" /\ todo > 0 /\ eventChan = ChanSize)

=============================================================================
