---------------------------- MODULE TaskRegistry ----------------------------
(***************************************************************************)
(* The task half of a Registry backend (driver.go, TaskRegistry), as one   *)
(* dcron node uses it: the task metadata and the tombstones every node     *)
(* shares, and the stream of task events that the backend delivers to the  *)
(* node this model follows.                                                *)
(*                                                                         *)
(* Two backends are modelled.  etcd (etcd.go) sends every stored task as an *)
(* initial Put event, then watches the key prefix, so that each write and   *)
(* each delete of a key reaches the node.  Redis (redis.go) relies on what  *)
(* the writer publishes: PutTask publishes, the cleanups publish nothing.   *)
(***************************************************************************)
EXTENDS Integers, Sequences, FiniteSets

CONSTANTS
  Task,       \* task names
  Meta,       \* TaskMeta values, without the name: records with the fields
              \*   CronFormat, OneShot, ExecutedAndMarkDeleted,
              \*   ExecutedAndCleanup and Payload
  None,       \* "no metadata": an absent key
  Backend     \* which Registry implementation the node was given

ASSUME TaskAssumption == IsFiniteSet(Task)
ASSUME NoneAssumption == None \notin Meta
ASSUME BackendAssumption == Backend \in {"etcd", "redis"}

VARIABLES
  regTasks,    \* task metadata stored in the registry, or None
  regDeleted,  \* names under the deleted-tasks prefix or hash
  watchState,  \* goroutine of WatchTaskEvent: "off", "initial", "watching"
  initial,     \* stored tasks that goroutine has still to send
  taskEvents   \* events on their way to the node, oldest first

regVars == <<regTasks, regDeleted, watchState, initial, taskEvents>>

TaskEvent == [type : {"put"}, name : Task, meta : Meta]
               \cup [type : {"delete"}, name : Task, meta : {None}]

RegTypeOK ==
  /\ regTasks \in [Task -> Meta \cup {None}]
  /\ regDeleted \subseteq Task
  /\ watchState \in {"off", "initial", "watching"}
  /\ initial \in [Task -> Meta \cup {None}]
  /\ taskEvents \in Seq(TaskEvent)

NoTasks == [t \in Task |-> None]

RegInit ==
  /\ regTasks = NoTasks
  /\ regDeleted = {}
  /\ watchState = "off"
  /\ initial = NoTasks
  /\ taskEvents = <<>>

Stored == {t \in Task : regTasks[t] # None}

PutEvent(t, m) == [type |-> "put", name |-> t, meta |-> m]
DeleteEvent(t) == [type |-> "delete", name |-> t, meta |-> None]

(* Events reach the node only once its watch is established. *)
Deliver(events) ==
  taskEvents' = IF watchState = "watching" THEN taskEvents \o events ELSE taskEvents

-----------------------------------------------------------------------------
(* Writes.  An operator constrains regTasks', regDeleted' and taskEvents'. *)

EtcdPutTask(t, m) ==
  /\ regTasks' = [regTasks EXCEPT ![t] = m]
  /\ Deliver(<<PutEvent(t, m)>>)
  /\ UNCHANGED regDeleted

RedisPutTask(t, m) ==
  /\ regTasks' = [regTasks EXCEPT ![t] = m]
  /\ Deliver(<<PutEvent(t, m)>>)
  /\ UNCHANGED regDeleted

RegPutTask(t, m) ==
  IF Backend = "etcd" THEN EtcdPutTask(t, m) ELSE RedisPutTask(t, m)

(* PutTask stored the task and still returned an error: the answer of etcd  *)
(* was lost, or Redis answered HSET and then refused PUBLISH.               *)
RegPutTaskFails(t, m) ==
  IF Backend = "etcd"
  THEN EtcdPutTask(t, m)
  ELSE /\ regTasks' = [regTasks EXCEPT ![t] = m]
       /\ UNCHANGED <<regDeleted, taskEvents>>

EtcdMarkTaskDeleted(t) ==
  /\ regDeleted' = regDeleted \cup {t}
  /\ UNCHANGED <<regTasks, taskEvents>>

RedisMarkTaskDeleted(t) ==
  /\ regDeleted' = regDeleted \cup {t}
  /\ UNCHANGED <<regTasks, taskEvents>>

RegMarkTaskDeleted(t) ==
  IF Backend = "etcd" THEN EtcdMarkTaskDeleted(t) ELSE RedisMarkTaskDeleted(t)

EtcdRemoveTaskDeleted(t) ==
  /\ regDeleted' = regDeleted \ {t}
  /\ UNCHANGED <<regTasks, taskEvents>>

(* DEL of the hash itself: every tombstone goes, not the one of t. *)
RedisRemoveTaskDeleted(t) ==
  /\ regDeleted' = {}
  /\ UNCHANGED <<regTasks, taskEvents>>

RegRemoveTaskDeleted(t) ==
  IF Backend = "etcd" THEN EtcdRemoveTaskDeleted(t) ELSE RedisRemoveTaskDeleted(t)

(* One transaction; etcd reports the deletion of a key only if it existed. *)
EtcdForceCleanupTask(t) ==
  /\ regTasks' = [regTasks EXCEPT ![t] = None]
  /\ regDeleted' = regDeleted \ {t}
  /\ Deliver(IF t \in Stored THEN <<DeleteEvent(t)>> ELSE <<>>)

(* One pipeline, and nothing is published. *)
RedisForceCleanupTask(t) ==
  /\ regTasks' = [regTasks EXCEPT ![t] = None]
  /\ regDeleted' = regDeleted \ {t}
  /\ UNCHANGED taskEvents

RegForceCleanupTask(t) ==
  IF Backend = "etcd" THEN EtcdForceCleanupTask(t) ELSE RedisForceCleanupTask(t)

(* etcd deletes the task prefix and the tombstone prefix in two requests, and   *)
(* in a third one the keys of the execution lock, as ExecLock has it.           *)
EtcdForceCleanupAllTasks(step) ==
  \/ /\ step = "tasks"
     /\ regTasks' = NoTasks
     /\ \E s \in [1 .. Cardinality(Stored) -> Stored] :
          /\ \A i, j \in DOMAIN s : i # j => s[i] # s[j]
          /\ Deliver([i \in DOMAIN s |-> DeleteEvent(s[i])])
     /\ UNCHANGED regDeleted
  \/ /\ step = "deleted"
     /\ regDeleted' = {}
     /\ UNCHANGED <<regTasks, taskEvents>>

(* Redis deletes both hashes with one DEL: the second step has no effect. *)
RedisForceCleanupAllTasks(step) ==
  \/ /\ step = "tasks"
     /\ regTasks' = NoTasks
     /\ regDeleted' = {}
     /\ UNCHANGED taskEvents
  \/ /\ step = "deleted"
     /\ UNCHANGED <<regTasks, regDeleted, taskEvents>>

RegForceCleanupAllTasks(step) ==
  IF Backend = "etcd"
  THEN EtcdForceCleanupAllTasks(step)
  ELSE RedisForceCleanupAllTasks(step)

-----------------------------------------------------------------------------
(* The goroutine that WatchTaskEvent starts. *)

(* The Get that etcd makes for the initial state; Redis only subscribes. *)
WatchTaskEvent ==
  /\ watchState = "off"
  /\ watchState' = "initial"
  /\ initial' = IF Backend = "etcd" THEN regTasks ELSE NoTasks
  /\ UNCHANGED <<regTasks, regDeleted, taskEvents>>

SendInitial(t) ==
  /\ watchState = "initial"
  /\ initial[t] # None
  /\ taskEvents' = Append(taskEvents, PutEvent(t, initial[t]))
  /\ initial' = [initial EXCEPT ![t] = None]
  /\ UNCHANGED <<regTasks, regDeleted, watchState>>

(* The watch starts at the current revision: what was written after the Get *)
(* is never delivered.                                                      *)
EstablishWatch ==
  /\ watchState = "initial"
  /\ initial = NoTasks
  /\ watchState' = "watching"
  /\ UNCHANGED <<regTasks, regDeleted, initial, taskEvents>>

=============================================================================
