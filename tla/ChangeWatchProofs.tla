-------------------------- MODULE ChangeWatchProofs --------------------------
(* What ChangeWatch keeps for every set of items, channels of any size and    *)
(* any number of writes and faults.                                           *)
EXTENDS ChangeWatch, FiniteSetTheorems, TLAPS

(* Every message and every publication under way stems from a write. *)
Spent == publishing + feed <= ops

(* The list that the reader has, or is about to apply. *)
Current == IF reader = "read" THEN answer ELSE seen

(* NoWakeUpLost, with a reload in the middle too. *)
Awake == ~ cancelled => missed \/ Current = Listed \/ UnderWay

(* A watcher of etcd is never in between, and ends only with its node. *)
Places ==
  /\ backend = "etcd" => watch \in {"off", "watching", "closed", "over"}
  /\ watch = "over" => cancelled

(* Between two reloads the reader has the answer of the last one. *)
Applied == reader # "read" => seen = answer

(* The inductive invariant. *)
Core == TypeOK /\ Spent /\ Awake /\ Places
IInv == Core /\ Applied

-----------------------------------------------------------------------------
(* A bound on a sum, after one more. *)
LEMMA OneMore ==
  ASSUME NEW a \in Nat, NEW b \in Nat, NEW c \in Nat, NEW d \in Nat, a + b <= c, d <= a + 1
  PROVE  d <= c + 1 /\ d + b <= c + 1
  OBVIOUS

(* What a call stores is the content of a registry. *)
LEMMA WritesType ==
  ASSUME TypeOK, NEW new \in Writes
  PROVE  new \in Content
  <1>1. stored \in [Item -> {"none", "other", "listed"}]
    BY DEF TypeOK, Content
  <1>2. CASE new = Nothing
    BY <1>2 DEF Nothing, Content
  <1>3. ASSUME NEW i \in Item, NEW v \in {"none", "other", "listed"},
               new = [stored EXCEPT ![i] = v]
        PROVE  new \in Content
    BY <1>1, <1>3 DEF Content
  <1> QED
    BY <1>2, <1>3 DEF Writes

(* The services that differ are no more than there are, and none only when    *)
(* the snapshot is what is stored.                                            *)
LEMMA DifferentCount ==
  ASSUME TypeOK
  PROVE  /\ Cardinality(Different) \in Nat /\ Cardinality(Item) \in Nat
         /\ Cardinality(Different) <= Cardinality(Item)
         /\ Cardinality(Different) = 0 => snapshot = stored
  <1>1. IsFiniteSet(Item)
    BY ChangeAssumption
  <1>2. Different \subseteq Item
    BY DEF Different
  <1>3. /\ IsFiniteSet(Different) /\ Cardinality(Different) <= Cardinality(Item)
    BY <1>1, <1>2, FS_Subset
  <1>4. Cardinality(Different) \in Nat /\ Cardinality(Item) \in Nat
    BY <1>1, <1>3, FS_CardinalityType
  <1>5. Different = {} => snapshot = stored
    BY DEF Different, TypeOK, Content
  <1>6. Cardinality(Different) = 0 => Different = {}
    BY <1>3, FS_EmptySet
  <1> QED
    BY <1>3, <1>4, <1>5, <1>6

LEMMA InitInv == Init => IInv
  <1> SUFFICES ASSUME Init PROVE IInv
    OBVIOUS
  <1>1. MaxOps \in Nat /\ ChanSize \in Nat
    BY ChangeAssumption
  <1>2. stored \in Content /\ snapshot \in Content
    BY DEF Init, Content, Nothing
  <1>3. TypeOK
    <2>1. todo \in Nat /\ todo <= 1 /\ ops \in 0 .. MaxOps /\ eventChan \in 0 .. ChanSize
          /\ publishing \in 0 .. MaxOps /\ feed \in 0 .. MaxOps
      BY <1>1 DEF Init
    <2> QED
      BY <1>2, <2>1 DEF Init, TypeOK
  <1>4. Spent /\ Awake /\ Places /\ Applied
    BY DEF Init, Spent, Awake, UnderWay, Places, Applied
  <1> QED
    BY <1>3, <1>4 DEF IInv, Core

-----------------------------------------------------------------------------
(* Every step keeps its first four parts... *)
LEMMA CoreNext ==
  ASSUME IInv, [Next]_vars
  PROVE  Core'
  <1>1. /\ TypeOK /\ Spent /\ Awake /\ Places /\ MaxOps \in Nat
        /\ ChanSize \in Nat /\ ChanSize # 0
    BY ChangeAssumption DEF IInv, Core
  <1> USE DEF Core, Spent, Awake, Places, Current, UnderWay, TypeOK
  <1>2. ASSUME NEW new \in Writes, EtcdWrite(new) PROVE Core'
    BY <1>1, <1>2, WritesType DEF EtcdWrite, Write, Spend, watcherVars, readerVars
  <1>3. ASSUME NEW new \in Writes, RedisWrite(new) PROVE Core'
    <2>1. ops' = ops + 1 /\ ops' \in 0 .. MaxOps /\ feed' = feed
      BY <1>1, <1>3 DEF RedisWrite, Write, Spend
    <2>2. /\ missed' \in BOOLEAN /\ publishing' \in {publishing, publishing + 1}
          /\ missed' = TRUE \/ publishing' = publishing + 1
      BY <1>1, <1>3 DEF RedisWrite
    <2>3. publishing' \in 0 .. MaxOps /\ Spent'
      <3>1. /\ publishing \in Nat /\ feed \in Nat /\ ops \in Nat /\ MaxOps \in Nat
            /\ ops + 1 <= MaxOps /\ publishing + feed <= ops
        BY <1>1, <2>1
      <3>2. publishing' \in Nat /\ publishing' <= publishing + 1
        BY <2>2, <3>1
      <3> HIDE DEF Core, Awake, Places, Current, UnderWay, TypeOK
      <3>3. publishing' <= ops + 1 /\ publishing' + feed <= ops + 1
        BY <3>1, <3>2, OneMore, Zenon
      <3>4. publishing' <= MaxOps
        BY <3>1, <3>2, <3>3
      <3>5. publishing' + feed' <= ops'
        BY <2>1, <3>3, Zenon
      <3> QED
        BY <3>1, <3>2, <3>4, <3>5
    <2>4. TypeOK' /\ Places'
      BY <1>1, <1>3, <2>1, <2>2, <2>3, WritesType
      DEF RedisWrite, Write, watcherVars, readerVars
    <2>5. Awake'
      BY <1>1, <2>2
    <2> QED
      BY <2>3, <2>4, <2>5
  <1>4. ASSUME NEW new \in Writes, ConsulWrite(new) PROVE Core'
    BY <1>1, <1>4, WritesType DEF ConsulWrite, Write, Spend, watcherVars, readerVars
  <1>5. ASSUME NEW new \in Writes, ZkWrite(new) PROVE Core'
    <2>1. /\ ops' = ops + 1 /\ ops' \in 0 .. MaxOps /\ feed' = feed /\ publishing' = publishing
          /\ stored' = new
      BY <1>1, <1>5 DEF ZkWrite, Write, Spend
    <2>2. fired' = fired \/ fired' = TRUE
      BY <1>5 DEF ZkWrite
    <2>3. missed' = missed \/ missed' = TRUE
      BY <1>1, <1>5 DEF ZkWrite
    <2>4. (fired' = TRUE) \/ (missed' = TRUE) \/ (new = stored /\ fired' = fired /\ missed' = missed)
      BY <1>1, <1>5 DEF ZkWrite
    <2>5. fired' \in BOOLEAN /\ missed' \in BOOLEAN
      BY <1>1, <2>2, <2>3
    <2>6. TypeOK' /\ Places' /\ Spent'
      BY <1>1, <1>5, <2>1, <2>5, WritesType DEF ZkWrite, Write, watcherVars, readerVars
    <2>7. Awake'
      BY <1>1, <1>5, <2>1, <2>4 DEF ZkWrite, Write, watcherVars, readerVars, Listed
    <2> QED
      BY <2>6, <2>7
  <1>6. CASE Publish
    <2>1. /\ publishing > 0 /\ publishing' = publishing - 1
          /\ (feed' = feed + 1 /\ missed' = missed) \/ (missed' = TRUE /\ feed' = feed)
          /\ ops' = ops
      BY <1>6 DEF Publish
    <2>2. publishing' \in 0 .. MaxOps /\ feed' \in 0 .. MaxOps /\ Spent'
      BY <1>1, <2>1
    <2>3. TypeOK' /\ Places'
      BY <1>1, <1>6, <2>1, <2>2 DEF Publish, watcherVars, readerVars
    <2>4. Awake'
      BY <1>1, <2>1
    <2> QED
      BY <2>2, <2>3, <2>4
  <1>7. ASSUME NEW b, NEW tp, NEW where \in {"opening", "watching"}, Open(b, tp, where),
               where = "opening" => b # "etcd"
        PROVE  Core'
    BY <1>1, <1>7 DEF Open, storeVars, readerVars, Listed
  <1>8. CASE Subscribed
    BY <1>1, <1>8 DEF Subscribed, storeVars, readerVars, Listed
  <1>9. CASE Send
    <2>1. todo' = todo - 1 /\ eventChan' = eventChan + 1 /\ todo > 0 /\ eventChan < ChanSize
      BY <1>9 DEF Send, Room
    <2>2. /\ todo' \in Nat /\ todo' <= todo /\ eventChan' \in 0 .. ChanSize /\ eventChan' > 0
      BY <1>1, <2>1
    <2>3. todo' <= 1 \/ todo' <= Cardinality(Item)
      <3>1. Cardinality(Item) \in Nat
        BY <1>1, DifferentCount
      <3> QED
        BY <1>1, <2>2, <3>1
    <2>4. TypeOK' /\ Places' /\ Spent'
      BY <1>1, <1>9, <2>2, <2>3 DEF Send, storeVars, readerVars
    <2>5. Awake'
      BY <2>2
    <2> QED
      BY <2>4, <2>5
  <1>10. CASE Receive
    BY <1>1, <1>10 DEF Receive, storeVars, readerVars, Listed
  <1>11. CASE RedisDeletedReceive
    BY <1>1, <1>11 DEF RedisDeletedReceive, Offer, Room, storeVars, readerVars, Listed
  <1>12. CASE ConsulNodesHandler
    <2> DEFINE d == Cardinality(Different)
    <2>1. d \in Nat /\ d <= Cardinality(Item) /\ (d = 0 => snapshot = stored)
      BY <1>1, DifferentCount
    <2>2. /\ todo' = d /\ fired' = FALSE /\ snapshot' = stored
          /\ missed' = missed \/ missed' = TRUE
          /\ snapshot = stored /\ answer # Listed /\ eventChan = 0 => missed' = TRUE
          /\ UNCHANGED <<stored, eventChan, reader, answer, seen>>
      BY <1>1, <1>12 DEF ConsulNodesHandler, storeVars, readerVars
    <2> HIDE DEF d
    <2>3. /\ todo' \in Nat /\ (todo' <= 1 \/ todo' <= Cardinality(Item))
          /\ snapshot = stored \/ todo' > 0
          /\ missed' \in BOOLEAN
      <3>1. missed' \in BOOLEAN
        BY <1>1, <2>2
      <3> HIDE DEF Core, Spent, Awake, Places, Current, UnderWay, TypeOK
      <3>2. todo' \in Nat /\ todo' <= Cardinality(Item)
        BY <2>1, <2>2
      <3>3. snapshot = stored \/ todo' > 0
        BY <2>1, <2>2
      <3> QED
        BY <3>1, <3>2, <3>3
    <2>4. TypeOK' /\ Places' /\ Spent'
      BY <1>1, <1>12, <2>2, <2>3 DEF ConsulNodesHandler, storeVars, readerVars
    <2>5. Current = answer
      BY DEF Current, IInv, Applied
    <2>6. missed' = TRUE \/ answer = Listed \/ todo' > 0 \/ eventChan > 0
      BY <1>1, <2>2, <2>3
    <2>7. Current' = answer /\ Listed' = Listed
      BY <2>2, <2>5 DEF Current, Listed, IInv, Applied
    <2>8. Awake'
      BY <2>2, <2>6, <2>7 DEF Awake, UnderWay
    <2> QED
      BY <2>4, <2>8
  <1>13. CASE ConsulDeletedHandler
    <2>1. eventChan' \in 0 .. ChanSize /\ eventChan' > 0
      BY <1>1, <1>13 DEF ConsulDeletedHandler, Offer, Room
    <2>2. TypeOK' /\ Places' /\ Spent'
      BY <1>1, <1>13, <2>1 DEF ConsulDeletedHandler, storeVars, readerVars
    <2>3. Awake'
      BY <2>1
    <2> QED
      BY <2>2, <2>3
  <1>14. CASE ChildrenW
    <2>1. todo' \in Nat /\ todo' <= 1 /\ todo' > 0 /\ fired' = FALSE
      BY <1>14 DEF ChildrenW
    <2>2. TypeOK' /\ Places' /\ Spent'
      BY <1>1, <1>14, <2>1 DEF ChildrenW, storeVars, readerVars
    <2>3. Awake'
      BY <2>1
    <2> QED
      BY <2>2, <2>3
  <1>15. ASSUME NEW where \in {"lost", "dead"}, WatchGone(where), backend = "zookeeper",
                watch = "watching"
         PROVE  Core'
    <2>1. ops' = ops + 1 /\ ops' \in 0 .. MaxOps /\ fired' = FALSE
      BY <1>1, <1>15 DEF WatchGone, Spend
    <2>2. (missed' = missed /\ fired = FALSE) \/ missed' = TRUE
      BY <1>1, <1>15 DEF WatchGone
    <2>3. missed' \in BOOLEAN
      BY <1>1, <2>2
    <2>4. TypeOK' /\ Places' /\ Spent'
      <3>1. Places' /\ Spent'
        BY <1>1, <1>15, <2>1 DEF WatchGone, storeVars, readerVars
      <3>2. watch' \in {"off", "opening", "watching", "lost", "dead", "closed", "over"}
        BY <1>15 DEF WatchGone
      <3> QED
        BY <1>1, <1>15, <2>1, <2>3, <3>1, <3>2 DEF WatchGone, storeVars, readerVars
    <2>5. Awake'
      BY <1>1, <1>15, <2>2 DEF WatchGone, storeVars, readerVars, Listed
    <2> QED
      BY <2>4, <2>5
  <1>16. CASE reestablishWatch
    BY <1>1, <1>16 DEF reestablishWatch, storeVars, readerVars, Listed
  <1>17. CASE EtcdClosed
    BY <1>1, <1>17 DEF EtcdClosed, Spend, storeVars, readerVars, Listed
  <1>18. CASE MessageLost
    BY <1>1, <1>18 DEF MessageLost, Spend, storeVars, readerVars, Listed
  <1>19. ASSUME NEW chan \in 0 .. ChanSize, Reload(chan) PROVE Core'
    BY <1>1, <1>19 DEF Reload, storeVars, Listed
  <1>20. CASE ReloadFails
    BY <1>1, <1>20 DEF ReloadFails, Spend, storeVars, Listed
  <1>21. CASE Apply
    BY <1>1, <1>21 DEF Apply, storeVars, watcherVars, Listed
  <1>22. CASE Cancel \/ ReaderReturns
    BY <1>1, <1>22 DEF Cancel, ReaderReturns, storeVars, watcherVars, Listed
  <1>23. CASE WatcherReturns
    BY <1>1, <1>23 DEF WatcherReturns, storeVars, readerVars, Listed
  <1>24. CASE UNCHANGED vars
    BY <1>1, <1>24 DEF vars, Listed
  <1> HIDE DEF Core, Spent, Awake, Places, Current, UnderWay, TypeOK
  <1>25. OnEvent \/ OnTicker => \E chan \in 0 .. ChanSize : Reload(chan)
    BY <1>1 DEF OnEvent, OnTicker, TypeOK
  <1>26. CASE WatcherStep
    <2>1. \/ \E b, tp : Open(b, tp, "watching")
          \/ \E tp : Open("redis", tp, "opening")
          \/ Subscribed \/ Send \/ Receive \/ RedisDeletedReceive
          \/ ConsulNodesHandler \/ ConsulDeletedHandler
          \/ ChildrenW
          \/ backend = "zookeeper" /\ watch = "watching" /\ (WatchGone("lost") \/ WatchGone("dead"))
          \/ reestablishWatch \/ WatcherReturns
      BY <1>26 DEF WatcherStep, EtcdWatchNodes, RedisWatchNodes, ConsulWatchNodes, ZkWatchNodes,
         EtcdWatchDeletedTaskEvent, RedisWatchDeletedTaskEvent, ConsulWatchDeletedTaskEvent,
         ZkWatchDeletedTaskEvent, EtcdNodesReceive, EtcdDeletedReceive, RedisNodesReceive,
         ZkNodesHandler, ZkDeletedHandler, Waiting
    <2> QED
      BY <2>1, <1>7, <1>8, <1>9, <1>10, <1>11, <1>12, <1>13, <1>14, <1>15, <1>16, <1>23
  <1> QED
    BY <1>2, <1>3, <1>4, <1>5, <1>6, <1>17, <1>18, <1>19, <1>20, <1>21, <1>22, <1>24, <1>25,
       <1>26 DEF Next, ReaderStep

(* ...and the last: only a reload, a failing one of tombstones and Apply touch *)
(* what the reader has.                                                        *)
LEMMA AppliedNext ==
  ASSUME IInv, [Next]_vars
  PROVE  Applied'
  <1>1. Applied
    BY DEF IInv
  <1>2. CASE UNCHANGED <<reader, answer, seen>>
    BY <1>1, <1>2 DEF Applied
  <1>3. CASE reader' = "read"
    BY <1>3 DEF Applied
  <1>4. CASE Apply
    BY <1>4 DEF Applied, Apply
  <1>5. CASE ReaderReturns
    BY <1>1, <1>5 DEF Applied, ReaderReturns
  <1>6. ASSUME \E new \in Writes :
                 EtcdWrite(new) \/ RedisWrite(new) \/ ConsulWrite(new) \/ ZkWrite(new)
        PROVE  UNCHANGED <<reader, answer, seen>>
    BY <1>6 DEF EtcdWrite, RedisWrite, ConsulWrite, ZkWrite, Write, readerVars
  <1>7. ASSUME WatcherStep
        PROVE  UNCHANGED <<reader, answer, seen>>
    BY <1>7 DEF WatcherStep, EtcdWatchNodes, RedisWatchNodes, ConsulWatchNodes, ZkWatchNodes,
       EtcdWatchDeletedTaskEvent, RedisWatchDeletedTaskEvent, ConsulWatchDeletedTaskEvent,
       ZkWatchDeletedTaskEvent, Open, Subscribed, Send, EtcdNodesReceive, EtcdDeletedReceive,
       RedisNodesReceive, Receive, RedisDeletedReceive, ConsulNodesHandler,
       ConsulDeletedHandler, ZkNodesHandler, ZkDeletedHandler, ChildrenW, WatchGone,
       reestablishWatch, WatcherReturns, readerVars
  <1>8. ASSUME Publish \/ EtcdClosed \/ MessageLost \/ Cancel \/ UNCHANGED vars
        PROVE  UNCHANGED <<reader, answer, seen>>
    BY <1>8 DEF Publish, EtcdClosed, MessageLost, Cancel, vars, readerVars
  <1>9. ASSUME OnEvent \/ OnTicker \/ ReloadFails
        PROVE  reader' = "read" \/ UNCHANGED <<reader, answer, seen>>
    BY <1>9 DEF OnEvent, OnTicker, Reload, ReloadFails
  <1> QED
    BY <1>2, <1>3, <1>4, <1>5, <1>6, <1>7, <1>8, <1>9 DEF Next, ReaderStep

(* Every step keeps the inductive invariant. *)
LEMMA InvNext == IInv /\ [Next]_vars => IInv'
  BY CoreNext, AppliedNext DEF IInv

-----------------------------------------------------------------------------
(* The invariant holds in every behaviour. *)
LEMMA Inductive == Spec => []IInv
  BY InitInv, InvNext, PTL DEF Spec

(* The counters of messages and events, the channel and the lists keep their  *)
(* types and their bounds.                                                    *)
THEOREM ChangeTypeCorrect == Spec => []TypeOK
  <1>1. IInv => TypeOK
    BY DEF IInv, Core
  <1> QED
    BY <1>1, Inductive, PTL

(* However writes, messages, merged and dropped events, reloads and failures  *)
(* interleave, a node with an old list has a wake-up coming, unless its       *)
(* registry never reports the change.                                         *)
THEOREM WakeUpNeverLost == Spec => []NoWakeUpLost
  <1>1. IInv => NoWakeUpLost
    BY DEF IInv, Core, Awake, Current, NoWakeUpLost
  <1> QED
    BY <1>1, Inductive, PTL

=============================================================================
