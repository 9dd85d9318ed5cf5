--------------------------- MODULE DcronNodeProofs ---------------------------
(* Proofs about DcronNode, for every value of its constants. *)
EXTENDS DcronNode, FiniteSetTheorems, TLAPS

-----------------------------------------------------------------------------
(* Type correctness of the registry operators. *)

(* Deliver keeps the queue of task events a sequence of task events. *)
LEMMA DeliverType ==
  ASSUME NEW events \in Seq(TaskEvent), taskEvents \in Seq(TaskEvent), Deliver(events)
  PROVE  taskEvents' \in Seq(TaskEvent)
  BY DEF Deliver

(* The two kinds of events are task events, alone or as one-element sequences. *)
LEMMA EventType ==
  ASSUME NEW t \in Task
  PROVE  /\ DeleteEvent(t) \in TaskEvent
         /\ <<DeleteEvent(t)>> \in Seq(TaskEvent)
         /\ \A m \in Meta : PutEvent(t, m) \in TaskEvent /\ <<PutEvent(t, m)>> \in Seq(TaskEvent)
  <1>1. DeleteEvent(t) \in TaskEvent
    BY DEF DeleteEvent, TaskEvent
  <1>2. \A m \in Meta : PutEvent(t, m) \in TaskEvent
    BY DEF PutEvent, TaskEvent
  <1> QED
    BY <1>1, <1>2

(* The part of the registry that its writes change. *)
StoreType ==
  /\ regTasks \in [Task -> Meta \cup {None}]
  /\ regDeleted \subseteq Task
  /\ taskEvents \in Seq(TaskEvent)

(* Every write of the registry keeps the store well typed. *)
LEMMA WriteType ==
  ASSUME StoreType, NEW t \in Task
  PROVE  /\ \A m \in Meta : RegPutTask(t, m) => StoreType'
         /\ \A m \in Meta : RegPutTaskFails(t, m) => StoreType'
         /\ RegMarkTaskDeleted(t) => StoreType'
         /\ RegRemoveTaskDeleted(t) => StoreType'
         /\ RegForceCleanupTask(t) => StoreType'
  <1>1. ASSUME NEW m \in Meta, EtcdPutTask(t, m) PROVE StoreType'
    <2>1. taskEvents' \in Seq(TaskEvent)
      BY <1>1, EventType, DeliverType DEF StoreType, EtcdPutTask
    <2> QED
      BY <1>1, <2>1 DEF StoreType, EtcdPutTask
  <1>2. ASSUME NEW m \in Meta, RedisPutTask(t, m) PROVE StoreType'
    <2>1. taskEvents' \in Seq(TaskEvent)
      BY <1>2, EventType, DeliverType DEF StoreType, RedisPutTask
    <2> QED
      BY <1>2, <2>1 DEF StoreType, RedisPutTask
  <1>3. ASSUME NEW m \in Meta, RegPutTask(t, m) PROVE StoreType'
    BY <1>1, <1>2, <1>3 DEF RegPutTask
  <1>4. ASSUME NEW m \in Meta, RegPutTaskFails(t, m) PROVE StoreType'
    BY <1>1, <1>4 DEF RegPutTaskFails, StoreType
  <1>5. ASSUME RegMarkTaskDeleted(t) PROVE StoreType'
    BY <1>5 DEF RegMarkTaskDeleted, EtcdMarkTaskDeleted, RedisMarkTaskDeleted, StoreType
  <1>6. ASSUME RegRemoveTaskDeleted(t) PROVE StoreType'
    BY <1>6 DEF RegRemoveTaskDeleted, EtcdRemoveTaskDeleted, RedisRemoveTaskDeleted, StoreType
  <1>7. ASSUME EtcdForceCleanupTask(t) PROVE StoreType'
    <2>1. taskEvents' \in Seq(TaskEvent)
      <3> DEFINE evs == IF t \in Stored THEN <<DeleteEvent(t)>> ELSE <<>>
      <3>1. evs \in Seq(TaskEvent)
        BY EventType
      <3>2. Deliver(evs)
        BY <1>7 DEF EtcdForceCleanupTask
      <3> HIDE DEF evs
      <3> QED
        BY <3>1, <3>2, DeliverType DEF StoreType
    <2> QED
      BY <1>7, <2>1 DEF StoreType, EtcdForceCleanupTask
  <1>8. ASSUME RegForceCleanupTask(t) PROVE StoreType'
    BY <1>7, <1>8 DEF RegForceCleanupTask, RedisForceCleanupTask, StoreType
  <1> QED
    BY <1>3, <1>4, <1>5, <1>6, <1>8

(* So do the two steps of ForceCleanupAllTasks. *)
LEMMA WriteAllType ==
  ASSUME StoreType, NEW step, RegForceCleanupAllTasks(step)
  PROVE  StoreType'
  <1>1. NoTasks \in [Task -> Meta \cup {None}]
    BY DEF NoTasks
  <1>2. ASSUME EtcdForceCleanupAllTasks(step), step = "tasks" PROVE StoreType'
    <2>1. PICK s \in [1 .. Cardinality(Stored) -> Stored] :
            Deliver([i \in DOMAIN s |-> DeleteEvent(s[i])])
      BY <1>2 DEF EtcdForceCleanupAllTasks
    <2> DEFINE evs == [i \in DOMAIN s |-> DeleteEvent(s[i])]
    <2>2. Cardinality(Stored) \in Nat
      BY TaskAssumption, FS_Subset, FS_CardinalityType DEF Stored
    <2>3. \A i \in 1 .. Cardinality(Stored) : DeleteEvent(s[i]) \in TaskEvent
      BY EventType DEF Stored
    <2>4. evs \in Seq(TaskEvent)
      BY <2>2, <2>3
    <2> HIDE DEF evs
    <2>5. taskEvents' \in Seq(TaskEvent)
      BY <2>1, <2>4, DeliverType DEF StoreType, evs
    <2> QED
      BY <1>1, <1>2, <2>5 DEF StoreType, EtcdForceCleanupAllTasks
  <1>3. ASSUME EtcdForceCleanupAllTasks(step), step = "deleted" PROVE StoreType'
    BY <1>3 DEF StoreType, EtcdForceCleanupAllTasks
  <1>4. ASSUME RedisForceCleanupAllTasks(step) PROVE StoreType'
    BY <1>1, <1>4 DEF StoreType, RedisForceCleanupAllTasks
  <1> QED
    BY <1>2, <1>3, <1>4 DEF RegForceCleanupAllTasks, EtcdForceCleanupAllTasks

-----------------------------------------------------------------------------
(* Type correctness of the node. *)

(* Entering or leaving a call keeps the calls in progress well typed. *)
LEMMA CallType ==
  ASSUME calls \in [Goroutine -> Calls], NEW g \in Goroutine
  PROVE  /\ Return(g) => calls' \in [Goroutine -> Calls]
         /\ \A pc \in MetaCall, t \in Task, m \in Meta :
              Enter(g, pc, t, m) => calls' \in [Goroutine -> Calls]
         /\ \A pc \in NameCall, t \in Task :
              Enter(g, pc, t, None) => calls' \in [Goroutine -> Calls]
         /\ \A pc \in AllCall :
              Enter(g, pc, None, None) => calls' \in [Goroutine -> Calls]
  BY DEF Return, Enter, Call, Calls

(* What the control point of a call says of its arguments. *)
LEMMA CallArguments ==
  ASSUME calls \in [Goroutine -> Calls], NEW g \in Goroutine
  PROVE  /\ calls[g].pc \in MetaCall => calls[g].name \in Task /\ calls[g].meta \in Meta
         /\ calls[g].pc \in NameCall => calls[g].name \in Task
  <1>1. calls[g] \in Calls
    OBVIOUS
  <1> QED
    BY <1>1 DEF Calls, Idle, MetaCall, NameCall, AllCall

(* A new task object is a task object. *)
LEMMA ObjectType ==
  ASSUME NEW m \in Meta, NEW id \in Nat
  PROVE  [meta |-> m, id |-> id] \in [meta : Meta, id : Nat]
  OBVIOUS

(* Known means "with metadata", for a well-typed cache. *)
LEMMA KnownType ==
  ASSUME TypeOK, NEW t \in Task
  PROVE  /\ t \in Known <=> allTasks[t].meta \in Meta
         /\ t \notin Known => allTasks[t] = Absent
         /\ allTasks[t].id \in Nat
         /\ t \in Known => allTasks[t] \in [meta : Meta, id : Nat]
  BY NoneAssumption DEF TypeOK, Known, Absent

(* A signal keeps the channel within its capacity. *)
LEMMA SignalType ==
  ASSUME rebalancedChan \in 0 .. RebalancedChanelSize, Room
  PROVE  rebalancedChan + 1 \in 0 .. RebalancedChanelSize
  BY ChanAssumption DEF Room

(* The ids of one rebalance are natural numbers above every earlier one. *)
LEMMA NewIDsType ==
  ASSUME nextID \in Nat, NEW S \in SUBSET Task, NEW ids \in NewIDs(S)
  PROVE  /\ Cardinality(S) \in Nat
         /\ ids \in [S -> nextID + 1 .. nextID + Cardinality(S)]
         /\ \A t \in S : /\ ids[t] \in Nat \ {0}
                         /\ ids[t] > nextID
                         /\ ids[t] <= nextID + Cardinality(S)
         /\ \A r, t \in S : r # t => ids[r] # ids[t]
  <1>1. Cardinality(S) \in Nat
    BY TaskAssumption, FS_Subset, FS_CardinalityType
  <1>2. ids \in [S -> nextID + 1 .. nextID + Cardinality(S)]
    BY DEF NewIDs
  <1>3. \A t \in S : ids[t] \in nextID + 1 .. nextID + Cardinality(S)
    BY <1>2
  <1> QED
    BY <1>1, <1>2, <1>3 DEF NewIDs

(* A node that has just been created is well typed. *)
LEMMA InitType == Init => TypeOK
  BY NodesAssumption, ChanAssumption
     DEF Init, RegInit, NewDcron, TypeOK, RegTypeOK, NoTasks, Calls, Idle, Absent

(* A step that touches only the store and the calls in progress. *)
LEMMA StoreStepType ==
  ASSUME TypeOK, StoreType', calls' \in [Goroutine -> Calls], ops' \in Nat,
         UNCHANGED <<watchState, initial, phase, nodeVars, watchVars>>
  PROVE  TypeOK'
  BY DEF TypeOK, RegTypeOK, StoreType, nodeVars, watchVars

(* A step that touches only the maps, the engine and the calls in progress. *)
LEMMA MapStepType ==
  ASSUME TypeOK,
         allTasks' \in [Task -> {Absent} \cup [meta : Meta, id : Nat]],
         assignedTasks' \in [Task -> Nat],
         deletedTasks' \subseteq Task,
         entries' \subseteq Entry,
         calls' \in [Goroutine -> Calls],
         ops' \in Nat,
         UNCHANGED <<regVars, phase, nextID, watchVars>>
  PROVE  TypeOK'
  BY DEF TypeOK, RegTypeOK, regVars, watchVars

(* Spending one unit of the budget. *)
LEMMA SpendType ==
  ASSUME TypeOK
  PROVE  /\ Spend => ops' \in Nat
         /\ \A k : Op(k) => ops' \in Nat
         /\ \A k : Fault(k) => ops' \in Nat
  BY DEF TypeOK, Spend, Op, Fault

LEMMA TypeStore ==
  ASSUME TypeOK
  PROVE  StoreType /\ calls \in [Goroutine -> Calls] /\ ops \in Nat
  BY DEF TypeOK, RegTypeOK, StoreType

(* The critical section of the ForceAdd calls. *)
LEMMA ReplaceType ==
  ASSUME TypeOK, NEW t \in Task, NEW m \in Meta, Replace(t, m)
  PROVE  /\ allTasks' \in [Task -> {Absent} \cup [meta : Meta, id : Nat]]
         /\ assignedTasks' \in [Task -> Nat]
         /\ deletedTasks' \subseteq Task
         /\ entries' \subseteq Entry
         /\ UNCHANGED nextID
  BY DEF TypeOK, Replace, Without

(* The API preserves the types. *)
LEMMA ApiType ==
  ASSUME TypeOK, Api
  PROVE  TypeOK'
  <1> USE TypeStore, SpendType
  <1>1. ASSUME NEW t \in Task, NEW m \in StaticMeta, addJob(t, m) PROVE TypeOK'
    <2>1. allTasks' \in [Task -> {Absent} \cup [meta : Meta, id : Nat]]
      BY <1>1 DEF addJob, TypeOK, StaticMeta
    <2>2. /\ ops' \in Nat
          /\ UNCHANGED <<regVars, phase, assignedTasks, deletedTasks, entries, nextID,
                         watchVars, calls>>
      BY <1>1 DEF addJob
    <2> QED
      BY <2>1, <2>2, MapStepType DEF TypeOK
  <1>2. ASSUME NEW t \in Task, NEW m \in Meta, AddTaskMeta(t, m) PROVE TypeOK'
    <2>1. StoreType'
      BY <1>2, WriteType DEF AddTaskMeta
    <2>2. allTasks' \in [Task -> {Absent} \cup [meta : Meta, id : Nat]]
      BY <1>2 DEF AddTaskMeta, TypeOK
    <2>3. ops' \in Nat
      BY <1>2 DEF AddTaskMeta
    <2> QED
      BY <1>2, <2>1, <2>2, <2>3
         DEF AddTaskMeta, TypeOK, RegTypeOK, StoreType, watchVars
  <1>3. ASSUME NEW t \in Task, ReuseDeletedTask(t) PROVE TypeOK'
    <2>1. StoreType'
      BY <1>3, WriteType DEF ReuseDeletedTask, StoreType
    <2>2. ops' \in Nat
      BY <1>3 DEF ReuseDeletedTask
    <2> QED
      BY <1>3, <2>1, <2>2 DEF ReuseDeletedTask, TypeOK, RegTypeOK, StoreType, watchVars
  <1>4. ASSUME NEW g \in Goroutine, NEW t \in Task, NEW m \in Meta,
               ForceAddTask(g, t, m) \/ ForceAddTaskMeta(g, t, m)
        PROVE  TypeOK'
    <2>1. StoreType'
      BY <1>4, WriteType DEF ForceAddTask, ForceAddTaskMeta
    <2>2. calls' \in [Goroutine -> Calls]
      BY <1>4, CallType DEF ForceAddTask, ForceAddTaskMeta, MetaCall
    <2> QED
      BY <1>4, <2>1, <2>2, StoreStepType DEF ForceAddTask, ForceAddTaskMeta
  <1>5. ASSUME NEW g \in Goroutine, NEW t \in Task, MarkTaskDeleted(g, t) PROVE TypeOK'
    <2>1. StoreType' /\ calls' \in [Goroutine -> Calls]
      BY <1>5, WriteType, CallType DEF MarkTaskDeleted, MarkInRegistry, NameCall
    <2> QED
      BY <1>5, <2>1, StoreStepType DEF MarkTaskDeleted
  <1>6. ASSUME NEW g \in Goroutine, NEW t \in Task, CleanupTask(g, t) PROVE TypeOK'
    <2>1. StoreType' /\ calls' \in [Goroutine -> Calls]
      BY <1>6, WriteType, CallType DEF CleanupTask, NameCall
    <2> QED
      BY <1>6, <2>1, StoreStepType DEF CleanupTask
  <1>7. ASSUME NEW g \in Goroutine, ForceCleanupAllTasks(g) \/ ForceCleanupAllDeleted(g)
        PROVE  TypeOK'
    <2>1. StoreType'
      BY <1>7, WriteAllType DEF ForceCleanupAllTasks, ForceCleanupAllDeleted, StoreType
    <2>2. calls' \in [Goroutine -> Calls]
      BY <1>7, CallType DEF ForceCleanupAllTasks, ForceCleanupAllDeleted, AllCall
    <2>3. ops' \in Nat
      BY <1>7 DEF ForceCleanupAllTasks, ForceCleanupAllDeleted
    <2> QED
      BY <1>7, <2>1, <2>2, <2>3, StoreStepType DEF ForceCleanupAllTasks, ForceCleanupAllDeleted
  <1>8. ASSUME NEW g \in Goroutine, ForceAddTaskLocal(g) \/ ForceAddTaskMetaLocal(g)
        PROVE  TypeOK'
    <2>1. calls[g].name \in Task /\ calls[g].meta \in Meta
      BY <1>8, CallArguments DEF ForceAddTaskLocal, ForceAddTaskMetaLocal, At, MetaCall
    <2>2. calls' \in [Goroutine -> Calls]
      BY <1>8, CallType DEF ForceAddTaskLocal, ForceAddTaskMetaLocal
    <2>3. /\ Replace(calls[g].name, calls[g].meta)
          /\ UNCHANGED <<regVars, phase, watchVars, ops>>
      BY <1>8 DEF ForceAddTaskLocal, ForceAddTaskMetaLocal
    <2> QED
      BY <2>1, <2>2, <2>3, ReplaceType, MapStepType
  <1>9. ASSUME NEW g \in Goroutine, ForceAddTaskMetaPut(g) PROVE TypeOK'
    <2>1. calls[g].name \in Task /\ calls[g].meta \in Meta
      BY <1>9, CallArguments DEF ForceAddTaskMetaPut, At, MetaCall
    <2>2. StoreType'
      BY <1>9, <2>1, WriteType DEF ForceAddTaskMetaPut, StoreType
    <2>3. calls' \in [Goroutine -> Calls]
      BY <1>9, <2>1, CallType DEF ForceAddTaskMetaPut, MetaCall
    <2>4. ops' \in Nat
      BY <1>9 DEF ForceAddTaskMetaPut
    <2> QED
      BY <1>9, <2>2, <2>3, <2>4, StoreStepType DEF ForceAddTaskMetaPut
  <1>10. ASSUME NEW g \in Goroutine, MarkTaskDeletedLocal(g) PROVE TypeOK'
    <2>1. calls[g].name \in Task
      BY <1>10, CallArguments DEF MarkTaskDeletedLocal, At, NameCall
    <2>2. calls' \in [Goroutine -> Calls]
      BY <1>10, CallType DEF MarkTaskDeletedLocal
    <2>3. /\ assignedTasks' \in [Task -> Nat]
          /\ deletedTasks' \subseteq Task
          /\ entries' \subseteq Entry
      BY <1>10, <2>1 DEF MarkTaskDeletedLocal, TypeOK, Without
    <2> QED
      BY <1>10, <2>2, <2>3, MapStepType DEF MarkTaskDeletedLocal, TypeOK
  <1>11. ASSUME NEW g \in Goroutine, CleanupTaskLocal(g) PROVE TypeOK'
    <2>1. calls[g].name \in Task
      BY <1>11, CallArguments DEF CleanupTaskLocal, At, NameCall
    <2>2. calls' \in [Goroutine -> Calls]
      BY <1>11, CallType DEF CleanupTaskLocal
    <2>3. /\ allTasks' \in [Task -> {Absent} \cup [meta : Meta, id : Nat]]
          /\ assignedTasks' \in [Task -> Nat]
          /\ deletedTasks' \subseteq Task
          /\ entries' \subseteq Entry
      BY <1>11, <2>1 DEF CleanupTaskLocal, TypeOK, Without
    <2> QED
      BY <1>11, <2>2, <2>3, MapStepType DEF CleanupTaskLocal
  <1>12. ASSUME NEW g \in Goroutine, ForceCleanupAllTasksLocal(g) PROVE TypeOK'
    <2>1. calls' \in [Goroutine -> Calls]
      BY <1>12, CallType DEF ForceCleanupAllTasksLocal
    <2>2. /\ allTasks' \in [Task -> {Absent} \cup [meta : Meta, id : Nat]]
          /\ assignedTasks' \in [Task -> Nat]
          /\ deletedTasks' \subseteq Task
          /\ entries' \subseteq Entry
      BY <1>12 DEF ForceCleanupAllTasksLocal, TypeOK
    <2> QED
      BY <1>12, <2>1, <2>2, MapStepType DEF ForceCleanupAllTasksLocal
  <1>13. ASSUME NEW g \in Goroutine, ApiLocal(g) PROVE TypeOK'
    BY <1>7, <1>8, <1>9, <1>10, <1>11, <1>12, <1>13 DEF ApiLocal
  <1>14. StaticMeta \subseteq Meta
    BY DEF StaticMeta
  <1> QED
    BY <1>1, <1>2, <1>3, <1>4, <1>5, <1>6, <1>7, <1>13, <1>14 DEF Api

(* Job runs preserve the types. *)
LEMMA RunType ==
  ASSUME TypeOK, NEW g \in Goroutine, Run(g)
  PROVE  TypeOK'
  <1> USE TypeStore
  <1>1. CASE Fire(g)
    <2>1. PICK e \in entries : Enter(g, "Run", e.name, e.meta)
      BY <1>1 DEF Fire
    <2>2. e.name \in Task /\ e.meta \in Meta
      BY DEF TypeOK, Entry
    <2>3. calls' \in [Goroutine -> Calls]
      BY <2>1, <2>2, CallType DEF MetaCall
    <2> QED
      BY <1>1, <2>3, StoreStepType DEF Fire, regVars, StoreType
  <1>2. CASE RunCheck(g) \/ RunReturn(g)
    <2>1. calls[g].name \in Task /\ calls[g].meta \in Meta
      BY <1>2, CallArguments DEF RunCheck, RunReturn, At, MetaCall
    <2>2. calls' \in [Goroutine -> Calls]
      BY <1>2, <2>1, CallType DEF RunCheck, RunReturn, MetaCall
    <2> QED
      BY <1>2, <2>2, StoreStepType DEF RunCheck, RunReturn, regVars, StoreType
  <1>3. CASE RunPost(g)
    <2>1. calls[g].name \in Task
      BY <1>3, CallArguments DEF RunPost, At, MetaCall
    <2>2. StoreType'
      BY <1>3, <2>1, WriteType DEF RunPost, MarkInRegistry
    <2>3. calls' \in [Goroutine -> Calls]
      BY <1>3, <2>1, CallType DEF RunPost, MarkInRegistry, NameCall
    <2> QED
      BY <1>3, <2>2, <2>3, StoreStepType DEF RunPost
  <1> QED
    BY <1>1, <1>2, <1>3 DEF Run

(* A watcher's signal keeps its control point and the channel well typed. *)
LEMMA SignalFromType ==
  ASSUME TypeOK
  PROVE  /\ SignalFrom(taskPc) => /\ taskPc' \in {"idle", "apply", "signal"}
                                  /\ rebalancedChan' \in 0 .. RebalancedChanelSize
         /\ SignalFrom(deletedPc) => /\ deletedPc' \in {"idle", "apply", "signal"}
                                     /\ rebalancedChan' \in 0 .. RebalancedChanelSize
         /\ SignalFrom(nodePc) => /\ nodePc' \in {"idle", "signal"}
                                  /\ rebalancedChan' \in 0 .. RebalancedChanelSize
  BY SignalType DEF TypeOK, SignalFrom

(* The watchers, and the rebalance they ask for, preserve the types. *)
LEMMA WatchersType ==
  ASSUME TypeOK, Watchers
  PROVE  TypeOK'
  <1> USE TypeStore, SpendType
  <1>n. NoTasks \in [Task -> Meta \cup {None}]
    BY DEF NoTasks
  <1>1. CASE WatchTasks
    BY <1>1, <1>n DEF WatchTasks, WatchTaskEvent, TypeOK, RegTypeOK, nodeVars, watchVars
  <1>2. CASE SendInitialTask
    <2>1. PICK t \in Task : SendInitial(t)
      BY <1>2 DEF SendInitialTask
    <2>2. initial[t] \in Meta
      BY <2>1 DEF SendInitial, TypeOK, RegTypeOK
    <2>3. taskEvents' \in Seq(TaskEvent)
      BY <2>1, <2>2, EventType DEF SendInitial, TypeOK, RegTypeOK
    <2>4. initial' \in [Task -> Meta \cup {None}]
      BY <2>1 DEF SendInitial, TypeOK, RegTypeOK
    <2> QED
      BY <1>2, <2>1, <2>3, <2>4
         DEF SendInitialTask, SendInitial, TypeOK, RegTypeOK, nodeVars, watchVars
  <1>3. CASE StartWatching
    BY <1>3 DEF StartWatching, EstablishWatch, TypeOK, RegTypeOK, nodeVars, watchVars
  <1>4. CASE reloadTasksRead
    <2>1. /\ taskPc' \in {"idle", "apply", "signal"}
          /\ rebalancedChan' \in 0 .. RebalancedChanelSize
          /\ phase' \in {"new", "reloadTasks", "reloadDeleted", "running", "panicked"}
      BY <1>4, SignalFromType DEF reloadTasksRead, AfterReloadTasks, TypeOK
    <2>2. taskRead' \in [Task -> Meta \cup {None}] /\ ops' \in Nat
      BY <1>4 DEF reloadTasksRead, TypeOK, RegTypeOK
    <2> QED
      BY <1>4, <2>1, <2>2 DEF reloadTasksRead, TypeOK, RegTypeOK, regVars, nodeVars
  <1>5. CASE reloadTasks
    <2>1. /\ taskPc' \in {"idle", "apply", "signal"}
          /\ rebalancedChan' \in 0 .. RebalancedChanelSize
          /\ phase' \in {"new", "reloadTasks", "reloadDeleted", "running", "panicked"}
      BY <1>5, SignalFromType DEF reloadTasks, AfterReloadTasks, TypeOK
    <2>2. allTasks' \in [Task -> {Absent} \cup [meta : Meta, id : Nat]]
      BY <1>5 DEF reloadTasks, TypeOK
    <2> QED
      BY <1>5, <1>n, <2>1, <2>2 DEF reloadTasks, TypeOK, RegTypeOK, regVars
  <1>6. CASE handleTaskEvent
    <2> DEFINE ev == Head(taskEvents)
    <2>1. taskEvents' \in Seq(TaskEvent) /\ ev \in TaskEvent
      BY <1>6 DEF handleTaskEvent, TypeOK, RegTypeOK
    <2>2. ev.name \in Task /\ (ev.type = "put" => ev.meta \in Meta)
      BY <2>1 DEF TaskEvent
    <2> HIDE DEF ev
    <2>3. CASE ev.name \in Known /\ ev.meta \in Meta /\ handlePut(ev.name, ev.meta)
      <3>1. /\ allTasks' \in [Task -> {Absent} \cup [meta : Meta, id : Nat]]
            /\ assignedTasks' \in [Task -> Nat]
            /\ entries' \subseteq Entry
        BY <2>2, <2>3, KnownType DEF handlePut, TypeOK, Without
      <3>2. SignalFrom(taskPc) /\ UNCHANGED phase
        BY <2>3 DEF handlePut
      <3> QED
        BY <1>6, <2>1, <3>1, <3>2, SignalFromType DEF handleTaskEvent, TypeOK, RegTypeOK
    <2>4. CASE handlePutUnknown
      BY <1>6, <2>1, <2>4 DEF handleTaskEvent, handlePutUnknown, TypeOK, RegTypeOK
    <2>5. CASE handleDelete(ev.name)
      <3>1. /\ allTasks' \in [Task -> {Absent} \cup [meta : Meta, id : Nat]]
            /\ assignedTasks' \in [Task -> Nat]
            /\ entries' \subseteq Entry
        BY <2>2, <2>5 DEF handleDelete, TypeOK, Without
      <3>2. SignalFrom(taskPc) /\ UNCHANGED phase
        BY <2>5 DEF handleDelete
      <3> QED
        BY <1>6, <2>1, <3>1, <3>2, SignalFromType DEF handleTaskEvent, TypeOK, RegTypeOK
    <2> QED
      BY <1>6, <2>2, <2>3, <2>4, <2>5 DEF handleTaskEvent, ev
  <1>7. CASE SignalTasks \/ SignalDeleted \/ SignalNodes
    BY <1>7, SignalFromType
       DEF SignalTasks, SignalDeleted, SignalNodes, Unblock, TypeOK, RegTypeOK, regVars, nodeVars
  <1>8. CASE reloadDeletedTasksRead
    <2>1. deletedRead' \subseteq Task /\ ops' \in Nat
      BY <1>8 DEF reloadDeletedTasksRead, TypeOK, RegTypeOK
    <2> QED
      BY <1>8, <2>1 DEF reloadDeletedTasksRead, TypeOK, RegTypeOK, regVars, nodeVars
  <1>9. CASE reloadDeletedTasks
    BY <1>9, SignalFromType DEF reloadDeletedTasks, TypeOK, RegTypeOK, regVars
  <1>10. CASE reloadNodes
    <2>1. ops' \in Nat
      BY <1>10 DEF reloadNodes
    <2> QED
      BY <1>10, <2>1, SignalFromType DEF reloadNodes, TypeOK, RegTypeOK, regVars, nodeVars
  <1>11. CASE doRebalanced
    <2>1. rebalancedChan' \in 0 .. RebalancedChanelSize
      BY <1>11, ChanAssumption DEF doRebalanced, TypeOK
    <2>2. /\ allTasks' \in [Task -> {Absent} \cup [meta : Meta, id : Nat]]
          /\ assignedTasks' \in [Task -> Nat]
          /\ entries' \subseteq Entry
          /\ nextID' \in Nat
      <3>1. CASE nodes = NoNodes
        BY <1>11, <3>1 DEF doRebalanced, TypeOK
      <3>2. CASE nodes # NoNodes
        <4>1. PICK ids \in NewIDs(ToSchedule) :
                /\ entries' = {e \in entries : \A t \in ToRemove : e.id # allTasks[t].id}
                       \cup {[id |-> ids[t], name |-> t, meta |-> allTasks[t].meta] :
                                t \in ToSchedule}
                /\ allTasks' = [t \in Task |-> IF t \in ToSchedule
                                          THEN [meta |-> allTasks[t].meta, id |-> ids[t]]
                                          ELSE allTasks[t]]
                /\ assignedTasks' = [t \in Task |-> IF t \in ToSchedule THEN ids[t]
                                                    ELSE IF t \in ToRemove THEN 0
                                                    ELSE assignedTasks[t]]
                /\ nextID' = nextID + Cardinality(ToSchedule)
          BY <1>11, <3>2 DEF doRebalanced
        <4>2. ToSchedule \subseteq Known /\ ToSchedule \subseteq Task
          BY DEF ToSchedule, shouldRunTasks, Known
        <4>3. /\ Cardinality(ToSchedule) \in Nat
              /\ \A t \in ToSchedule : ids[t] \in Nat \ {0}
          BY <4>1, <4>2, NewIDsType DEF TypeOK
        <4>4. \A t \in ToSchedule : allTasks[t].meta \in Meta
          BY <4>2, KnownType
        <4> QED
          BY <4>1, <4>2, <4>3, <4>4 DEF TypeOK, Entry
      <3> QED
        BY <3>1, <3>2
    <2> QED
      BY <1>11, <2>1, <2>2 DEF doRebalanced, TypeOK, RegTypeOK, regVars
  <1> QED
    BY <1>1, <1>2, <1>3, <1>4, <1>5, <1>6, <1>7, <1>8, <1>9, <1>10, <1>11 DEF Watchers

(* Every step preserves the types. *)
LEMMA NextType == TypeOK /\ [Next]_vars => TypeOK'
  <1> SUFFICES ASSUME TypeOK, [Next]_vars PROVE TypeOK'
    OBVIOUS
  <1> USE TypeStore, SpendType
  <1>1. CASE Start
    BY <1>1 DEF Start, TypeOK, RegTypeOK, regVars, nodeVars
  <1>2. CASE RemoteCall
    <2>1. StoreType'
      BY <1>2, WriteType DEF RemoteCall
    <2>2. ops' \in Nat
      BY <1>2 DEF RemoteCall
    <2> QED
      BY <1>2, <2>1, <2>2, StoreStepType DEF RemoteCall
  <1>3. CASE Restart
    <2>1. ops' \in Nat
      BY <1>3 DEF Restart
    <2> QED
      BY <1>3, <2>1, NodesAssumption, ChanAssumption
         DEF Restart, TypeOK, RegTypeOK, NoTasks, Calls
  <1>4. CASE UNCHANGED vars
    BY <1>4 DEF vars, TypeOK, RegTypeOK, regVars, nodeVars, watchVars
  <1> QED
    BY <1>1, <1>2, <1>3, <1>4, ApiType, RunType, WatchersType DEF Next

(* DcronNode is type correct: the node's maps, its cron engine, its watchers *)
(* and the registry hold what the code can put there, whatever the calls,    *)
(* failures and restarts.                                                    *)
THEOREM TypeCorrect == Spec => []TypeOK
  BY InitType, NextType, PTL DEF Spec

-----------------------------------------------------------------------------
(* The maps of the node and its cron engine agree.  CronConsistent together  *)
(* with the types is inductive: an entry leads, by name, to the id under     *)
(* which every operation will remove it (NoOrphanEntry), and the ids of two  *)
(* tasks differ (IDsDistinct), so that removing by id takes away the entry   *)
(* of the right task and nothing else.                                       *)
IInv == TypeOK /\ CronConsistent

cronVars == <<allTasks, assignedTasks, entries, nextID>>

(* CronConsistent is about four variables only. *)
LEMMA CronUnchanged ==
  ASSUME CronConsistent, UNCHANGED cronVars
  PROVE  CronConsistent'
  BY DEF CronConsistent, OneEntryPerTask, NoOrphanEntry, AssignedIsScheduled,
         FormatCurrent, IDsDistinct, Known, cronVars

(* An assigned id is the id of the task object, and the entry's. *)
LEMMA AssignedID ==
  ASSUME IInv, NEW t \in Task, assignedTasks[t] # 0
  PROVE  t \in Known /\ assignedTasks[t] = allTasks[t].id
  BY DEF IInv, CronConsistent, AssignedIsScheduled, NoOrphanEntry

(* Unscheduling one task: its entry goes, its id is no longer assigned, its  *)
(* object becomes `object', whose id is 0 or the one it had, and every other *)
(* task is left alone.                                                       *)
LEMMA Unschedule ==
  ASSUME IInv, NEW t \in Task, NEW object \in {Absent} \cup [meta : Meta, id : Nat],
         object.id \in {0, allTasks[t].id},
         allTasks' = [allTasks EXCEPT ![t] = object],
         assignedTasks' = [assignedTasks EXCEPT ![t] = 0],
         entries' = Without(entries, allTasks[t].id),
         UNCHANGED nextID
  PROVE  CronConsistent'
  <1>1. \A e \in entries' : e \in entries /\ e.name # t /\ e.name \in Task
    BY DEF IInv, CronConsistent, NoOrphanEntry, Without, TypeOK, Entry
  <1>2. \A u \in Task : u # t => allTasks'[u] = allTasks[u] /\ assignedTasks'[u] = assignedTasks[u]
    BY DEF IInv, TypeOK
  <1>3. allTasks'[t] = object /\ assignedTasks'[t] = 0
    BY DEF IInv, TypeOK
  <1>4. OneEntryPerTask'
    BY <1>1 DEF IInv, CronConsistent, OneEntryPerTask
  <1>5. NoOrphanEntry'
    BY <1>1, <1>2 DEF IInv, CronConsistent, NoOrphanEntry, Known
  <1>6. AssignedIsScheduled'
    <2> SUFFICES ASSUME NEW u \in Task, assignedTasks'[u] # 0
                 PROVE  \E e \in entries' : e.name = u /\ e.id = assignedTasks'[u]
      BY DEF AssignedIsScheduled
    <2>1. u # t /\ assignedTasks'[u] = assignedTasks[u]
      BY <1>2, <1>3
    <2>2. PICK e \in entries : e.name = u /\ e.id = assignedTasks[u]
      BY <2>1 DEF IInv, CronConsistent, AssignedIsScheduled
    <2>3. e.id = allTasks[u].id /\ e.id # 0
      BY <2>1, <2>2 DEF IInv, CronConsistent, NoOrphanEntry
    <2>4. e.id # allTasks[t].id
      BY <2>1, <2>3 DEF IInv, CronConsistent, IDsDistinct
    <2> QED
      BY <2>1, <2>2, <2>4 DEF Without
  <1>7. FormatCurrent'
    BY <1>1, <1>2 DEF IInv, CronConsistent, FormatCurrent
  <1>8. IDsDistinct'
    <2>1. \A u \in Task : allTasks'[u].id \in {0, allTasks[u].id}
      BY <1>2, <1>3
    <2>2. \A u \in Task : allTasks'[u].id \in Nat /\ allTasks[u].id \in Nat /\ nextID \in Nat
      BY <2>1, KnownType DEF IInv, TypeOK
    <2> QED
      BY <2>1, <2>2 DEF IInv, CronConsistent, IDsDistinct
  <1> QED
    BY <1>4, <1>5, <1>6, <1>7, <1>8 DEF CronConsistent

(* Removing the assigned id is removing the id of the object: without an      *)
(* assigned id the task has no entry, and no other task has that id.          *)
LEMMA RemoveAssigned ==
  ASSUME IInv, NEW t \in Task
  PROVE  Without(entries, allTasks[t].id)
           = IF assignedTasks[t] # 0 THEN Without(entries, assignedTasks[t]) ELSE entries
  <1>1. CASE assignedTasks[t] # 0
    BY <1>1, AssignedID
  <1>2. CASE assignedTasks[t] = 0
    <2>1. \A e \in entries : e.id # allTasks[t].id
      BY <1>2, KnownType DEF IInv, CronConsistent, NoOrphanEntry, IDsDistinct, TypeOK, Entry
    <2> QED
      BY <1>2, <2>1 DEF Without
  <1> QED
    BY <1>1, <1>2

(* The critical section of the ForceAdd calls. *)
LEMMA ReplaceConsistent ==
  ASSUME IInv, NEW t \in Task, NEW m \in Meta, Replace(t, m)
  PROVE  CronConsistent'
  <1>1. entries' = Without(entries, allTasks[t].id)
    BY RemoveAssigned DEF Replace
  <1>2. [meta |-> m, id |-> 0] \in [meta : Meta, id : Nat]
    OBVIOUS
  <1> QED
    BY <1>1, <1>2, Unschedule DEF Replace

(* New, unscheduled objects for tasks the node did not know. *)
LEMMA AddUnknown ==
  ASSUME IInv,
         allTasks' \in [Task -> {Absent} \cup [meta : Meta, id : Nat]],
         \A t \in Task : allTasks'[t] # allTasks[t] => t \notin Known /\ allTasks'[t].id = 0,
         UNCHANGED <<assignedTasks, entries, nextID>>
  PROVE  CronConsistent'
  <1>1. \A e \in entries : e.name \in Task /\ allTasks'[e.name] = allTasks[e.name]
    BY DEF IInv, CronConsistent, NoOrphanEntry, TypeOK, Entry
  <1>2. OneEntryPerTask' /\ AssignedIsScheduled'
    BY DEF IInv, CronConsistent, OneEntryPerTask, AssignedIsScheduled
  <1>3. NoOrphanEntry' /\ FormatCurrent'
    BY <1>1 DEF IInv, CronConsistent, NoOrphanEntry, FormatCurrent, Known
  <1>4. IDsDistinct'
    <2>1. \A t \in Task : /\ allTasks'[t].id \in {0, allTasks[t].id}
                         /\ allTasks[t].id \in Nat /\ nextID \in Nat
      BY KnownType DEF IInv, TypeOK
    <2> QED
      BY <2>1 DEF IInv, CronConsistent, IDsDistinct
  <1> QED
    BY <1>2, <1>3, <1>4 DEF CronConsistent

(* A Put event for a known task. *)
LEMMA PutConsistent ==
  ASSUME IInv, NEW t \in Known, NEW m \in Meta, handlePut(t, m), UNCHANGED nextID
  PROVE  CronConsistent'
  <1> DEFINE old == allTasks[t]
             resched == old.id # 0 /\ old.meta.CronFormat # m.CronFormat
  <1>t. t \in Task /\ old.id \in Nat
    BY KnownType DEF Known, IInv
  <1>1. CASE resched
    <2>1. [meta |-> m, id |-> 0] \in [meta : Meta, id : Nat]
      OBVIOUS
    <2> QED
      BY <1>t, <1>1, <2>1, Unschedule DEF handlePut
  <1>2. CASE ~ resched
    <2>1. /\ allTasks' = [allTasks EXCEPT ![t] = [meta |-> m, id |-> old.id]]
          /\ UNCHANGED <<assignedTasks, entries>>
      BY <1>2 DEF handlePut
    <2>2. /\ \A u \in Task : u # t => allTasks'[u] = allTasks[u]
          /\ allTasks'[t] = [meta |-> m, id |-> old.id]
      BY <1>t, <2>1 DEF IInv, TypeOK
    <2>3. \A u \in Task : allTasks'[u].id = allTasks[u].id
      BY <2>2
    <2>4. \A u \in Known : allTasks'[u].meta # None
      BY <2>2, NoneAssumption DEF Known
    <2>5. \A e \in entries : e.name \in Task /\ e.id # 0
      BY DEF IInv, TypeOK, Entry
    <2>6. NoOrphanEntry'
      BY <2>1, <2>3, <2>4, <2>5 DEF IInv, CronConsistent, NoOrphanEntry, Known
    <2>7. FormatCurrent'
      <3> SUFFICES ASSUME NEW e \in entries
                   PROVE  e.meta.CronFormat = allTasks'[e.name].meta.CronFormat
        BY <2>1 DEF FormatCurrent
      <3>1. CASE e.name = t
        <4>1. old.id # 0
          BY <2>5, <3>1 DEF IInv, CronConsistent, NoOrphanEntry
        <4>2. old.meta.CronFormat = m.CronFormat
          BY <1>2, <4>1
        <4> QED
          BY <2>2, <3>1, <4>2 DEF IInv, CronConsistent, FormatCurrent
      <3>2. CASE e.name # t
        BY <2>2, <2>5, <3>2 DEF IInv, CronConsistent, FormatCurrent
      <3> QED
        BY <3>1, <3>2
    <2>8. OneEntryPerTask' /\ AssignedIsScheduled'
      BY <2>1 DEF IInv, CronConsistent, OneEntryPerTask, AssignedIsScheduled
    <2>9. IDsDistinct'
      BY <2>3 DEF IInv, CronConsistent, IDsDistinct, handlePut
    <2> QED
      BY <2>6, <2>7, <2>8, <2>9 DEF CronConsistent
  <1> QED
    BY <1>1, <1>2

(* A Delete event. *)
LEMMA DeleteConsistent ==
  ASSUME IInv, NEW t \in Task, handleDelete(t), UNCHANGED nextID
  PROVE  CronConsistent'
  <1>1. CASE t \in Known
    <2>1. \A e \in entries : e.id # 0
      BY DEF IInv, TypeOK, Entry
    <2>2. entries' = Without(entries, allTasks[t].id)
      BY <1>1, <2>1 DEF handleDelete, Without
    <2>3. Absent.id \in {0, allTasks[t].id}
      BY DEF Absent
    <2> QED
      BY <1>1, <2>2, <2>3, Unschedule DEF handleDelete
  <1>2. CASE t \notin Known
    <2>1. allTasks[t] = Absent
      BY <1>2, KnownType DEF IInv
    <2>2. UNCHANGED <<allTasks, assignedTasks, entries>>
      BY <1>2, <2>1 DEF handleDelete, IInv, TypeOK
    <2> QED
      BY <2>2, CronUnchanged DEF cronVars, IInv
  <1> QED
    BY <1>1, <1>2

(* A rebalance: the tasks it schedules had no entry, get fresh and different *)
(* ids, and the entries it removes are those of the tasks it unassigns.      *)
LEMMA RebalanceConsistent ==
  ASSUME IInv, doRebalanced
  PROVE  CronConsistent'
  <1>1. CASE nodes = NoNodes
    BY <1>1, CronUnchanged DEF doRebalanced, cronVars, IInv
  <1>2. CASE nodes # NoNodes
    <2> DEFINE kept == {e \in entries : \A t \in ToRemove : e.id # allTasks[t].id}
    <2>1. PICK ids \in NewIDs(ToSchedule) :
            /\ entries' = kept \cup
                  {[id |-> ids[t], name |-> t, meta |-> allTasks[t].meta] : t \in ToSchedule}
            /\ allTasks' = [t \in Task |-> IF t \in ToSchedule
                                      THEN [meta |-> allTasks[t].meta, id |-> ids[t]]
                                      ELSE allTasks[t]]
            /\ assignedTasks' = [t \in Task |-> IF t \in ToSchedule THEN ids[t]
                                                ELSE IF t \in ToRemove THEN 0
                                                ELSE assignedTasks[t]]
            /\ nextID' = nextID + Cardinality(ToSchedule)
      BY <1>2 DEF doRebalanced
    <2>2. /\ ToSchedule \subseteq Known /\ ToSchedule \subseteq Task
          /\ ToRemove \subseteq Known /\ ToRemove \subseteq Task
          /\ ToSchedule \cap ToRemove = {}
      BY DEF ToSchedule, ToRemove, shouldRunTasks, Known
    <2>3. /\ Cardinality(ToSchedule) \in Nat
          /\ \A t \in ToSchedule : /\ ids[t] \in Nat \ {0}
                                  /\ ids[t] > nextID
                                  /\ ids[t] <= nextID + Cardinality(ToSchedule)
          /\ \A r, t \in ToSchedule : r # t => ids[r] # ids[t]
      BY <2>2, NewIDsType DEF IInv, TypeOK
    <2>4. nextID \in Nat /\ \A t \in Task : allTasks[t].id \in Nat /\ allTasks[t].id <= nextID
      BY KnownType DEF IInv, TypeOK, CronConsistent, IDsDistinct
    <2>5. \A e \in entries : /\ e.name \in Task /\ e.id # 0
                            /\ e.name \notin ToSchedule
      BY DEF IInv, TypeOK, Entry, CronConsistent, NoOrphanEntry, ToSchedule, existedInCron
    <2>6. \A e \in kept : e \in entries /\ e.name \notin ToRemove
      BY DEF IInv, CronConsistent, NoOrphanEntry
    <2>7. \A t \in Task : t \notin ToSchedule => allTasks'[t] = allTasks[t]
      BY <2>1
    <2>8. \A t \in ToSchedule : /\ allTasks'[t] = [meta |-> allTasks[t].meta, id |-> ids[t]]
                               /\ assignedTasks'[t] = ids[t]
      BY <2>1, <2>2
    <2>8a. \A t \in ToSchedule : /\ allTasks'[t].meta = allTasks[t].meta
                                /\ allTasks'[t].id = ids[t]
      <3> TAKE t \in ToSchedule
      <3>1. allTasks'[t] = [meta |-> allTasks[t].meta, id |-> ids[t]]
        BY <2>8
      <3> QED
        BY <3>1
    <2>9. \A e \in entries' : \/ e \in kept
                            \/ /\ e.name \in ToSchedule
                               /\ e = [id |-> ids[e.name], name |-> e.name,
                                       meta |-> allTasks[e.name].meta]
      BY <2>1
    <2>9a. \A e \in entries' : \/ e \in kept
                             \/ /\ e.name \in ToSchedule
                                /\ e.id = ids[e.name]
                                /\ e.meta = allTasks[e.name].meta
      BY <2>1
    <2>10. \A e \in kept : e \in entries'
      BY <2>1
    <2>11. \A t \in ToSchedule :
             [id |-> ids[t], name |-> t, meta |-> allTasks[t].meta] \in entries'
      BY <2>1
    <2>12. OneEntryPerTask'
      BY <2>5, <2>6, <2>9 DEF IInv, CronConsistent, OneEntryPerTask
    <2>13. NoOrphanEntry'
      <3> SUFFICES ASSUME NEW e \in entries'
                   PROVE  /\ e.name \in Task /\ allTasks'[e.name].meta # None
                          /\ allTasks'[e.name].id = e.id
                          /\ assignedTasks'[e.name] = e.id
        BY DEF NoOrphanEntry, Known
      <3>1. CASE e \in kept
        <4>1. /\ e \in entries /\ e.name \in Task
              /\ e.name \notin ToSchedule /\ e.name \notin ToRemove
          BY <2>5, <2>6, <3>1
        <4>2. assignedTasks'[e.name] = assignedTasks[e.name]
          BY <2>1, <4>1
        <4> QED
          BY <2>7, <4>1, <4>2 DEF IInv, CronConsistent, NoOrphanEntry, Known
      <3>2. CASE /\ e.name \in ToSchedule
                 /\ e.id = ids[e.name]
                 /\ e.meta = allTasks[e.name].meta
        BY <2>2, <2>8, <2>8a, <3>2 DEF Known
      <3> QED
        BY <2>9a, <3>1, <3>2
    <2>14. AssignedIsScheduled'
      <3> SUFFICES ASSUME NEW t \in Task, assignedTasks'[t] # 0
                   PROVE  \E e \in entries' : e.name = t /\ e.id = assignedTasks'[t]
        BY DEF AssignedIsScheduled
      <3>1. CASE t \in ToSchedule
        BY <2>8, <2>11, <3>1
      <3>2. CASE t \notin ToSchedule
        <4>1. t \notin ToRemove /\ assignedTasks'[t] = assignedTasks[t]
          BY <2>1, <3>2
        <4>2. PICK e \in entries : e.name = t /\ e.id = assignedTasks[t]
          BY <4>1 DEF IInv, CronConsistent, AssignedIsScheduled
        <4>3. e.id = allTasks[t].id /\ e.id # 0
          BY <4>1, <4>2 DEF IInv, CronConsistent, NoOrphanEntry
        <4>4. e \in kept
          BY <2>2, <4>1, <4>3 DEF IInv, CronConsistent, IDsDistinct
        <4> QED
          BY <2>10, <4>1, <4>2, <4>4
      <3> QED
        BY <3>1, <3>2
    <2>15. FormatCurrent'
      <3> SUFFICES ASSUME NEW e \in entries'
                   PROVE  e.meta.CronFormat = allTasks'[e.name].meta.CronFormat
        BY DEF FormatCurrent
      <3>1. CASE e \in kept
        BY <2>5, <2>6, <2>7, <3>1 DEF IInv, CronConsistent, FormatCurrent
      <3>2. CASE /\ e.name \in ToSchedule
                 /\ e.id = ids[e.name]
                 /\ e.meta = allTasks[e.name].meta
        BY <2>8a, <3>2
      <3> QED
        BY <2>9a, <3>1, <3>2
    <2>16. IDsDistinct'
      <3>1. \A t \in Task : allTasks'[t].id = IF t \in ToSchedule THEN ids[t] ELSE allTasks[t].id
        BY <2>7, <2>8a
      <3>2. nextID' = nextID + Cardinality(ToSchedule)
        BY <2>1
      <3>3. \A t \in Task : allTasks'[t].id <= nextID'
        BY <2>3, <2>4, <3>1, <3>2
      <3>4. ASSUME NEW r \in Task, NEW t \in Task, r # t, allTasks'[r].id # 0
            PROVE  allTasks'[r].id # allTasks'[t].id
        <4>1. CASE r \in ToSchedule /\ t \in ToSchedule
          BY <2>3, <3>1, <3>4, <4>1
        <4>2. CASE r \in ToSchedule /\ t \notin ToSchedule
          BY <2>3, <2>4, <3>1, <4>2
        <4>3. CASE r \notin ToSchedule /\ t \in ToSchedule
          BY <2>3, <2>4, <3>1, <4>3
        <4>4. CASE r \notin ToSchedule /\ t \notin ToSchedule
          BY <3>1, <3>4, <4>4 DEF IInv, CronConsistent, IDsDistinct
        <4> QED
          BY <4>1, <4>2, <4>3, <4>4
      <3> QED
        BY <3>3, <3>4 DEF IDsDistinct
    <2> QED
      BY <2>12, <2>13, <2>14, <2>15, <2>16 DEF CronConsistent
  <1> QED
    BY <1>1, <1>2

(* An empty engine with empty maps is consistent. *)
LEMMA EmptyConsistent ==
  ASSUME entries' = {}, allTasks' = [t \in Task |-> Absent],
         assignedTasks' = [t \in Task |-> 0], nextID' \in Nat
  PROVE  CronConsistent'
  BY DEF CronConsistent, OneEntryPerTask, NoOrphanEntry, AssignedIsScheduled,
         FormatCurrent, IDsDistinct, Absent

(* Every step preserves the agreement of the maps and the engine. *)
LEMMA NextConsistent == IInv /\ [Next]_vars => CronConsistent'
  <1> SUFFICES ASSUME IInv, [Next]_vars PROVE CronConsistent'
    OBVIOUS
  <1>typ. TypeOK'
    BY NextType DEF IInv
  <1>same. ASSUME UNCHANGED cronVars PROVE CronConsistent'
    BY <1>same, CronUnchanged DEF IInv
  <1>1. ASSUME NEW t \in Task, NEW m \in Meta, addJob(t, m) \/ AddTaskMeta(t, m)
        PROVE  CronConsistent'
    <2>1. \A u \in Task : allTasks'[u] # allTasks[u] => u \notin Known /\ allTasks'[u].id = 0
      BY <1>1 DEF addJob, AddTaskMeta, IInv, TypeOK
    <2> QED
      BY <1>1, <1>typ, <2>1, AddUnknown DEF addJob, AddTaskMeta, TypeOK
  <1>2. ASSUME NEW g \in Goroutine, ForceAddTaskLocal(g) \/ ForceAddTaskMetaLocal(g)
        PROVE  CronConsistent'
    <2>1. calls[g].name \in Task /\ calls[g].meta \in Meta
      BY <1>2, CallArguments DEF ForceAddTaskLocal, ForceAddTaskMetaLocal, At, MetaCall, IInv, TypeOK
    <2> QED
      BY <1>2, <2>1, ReplaceConsistent DEF ForceAddTaskLocal, ForceAddTaskMetaLocal
  <1>3. ASSUME NEW g \in Goroutine, MarkTaskDeletedLocal(g) PROVE CronConsistent'
    <2> DEFINE t == calls[g].name
    <2>1. t \in Task
      BY <1>3, CallArguments DEF MarkTaskDeletedLocal, At, NameCall, IInv, TypeOK
    <2>2. CASE t \in Known
      <3>1. entries' = Without(entries, allTasks[t].id)
        BY <1>3, <2>1, <2>2, AssignedID, RemoveAssigned DEF MarkTaskDeletedLocal
      <3>2. /\ allTasks' = [allTasks EXCEPT ![t] = allTasks[t]]
            /\ allTasks[t] \in {Absent} \cup [meta : Meta, id : Nat]
        BY <1>3, <2>1 DEF MarkTaskDeletedLocal, IInv, TypeOK
      <3> QED
        BY <1>3, <2>1, <2>2, <3>1, <3>2, Unschedule DEF MarkTaskDeletedLocal
    <2>3. CASE t \notin Known
      BY <1>3, <1>same, <2>3 DEF MarkTaskDeletedLocal, cronVars
    <2> QED
      BY <2>2, <2>3
  <1>4. ASSUME NEW g \in Goroutine, CleanupTaskLocal(g) PROVE CronConsistent'
    <2> DEFINE t == calls[g].name
    <2>1. t \in Task
      BY <1>4, CallArguments DEF CleanupTaskLocal, At, NameCall, IInv, TypeOK
    <2>2. entries' = Without(entries, allTasks[t].id)
      BY <1>4, <2>1, RemoveAssigned DEF CleanupTaskLocal
    <2>3. Absent.id = 0
      BY DEF Absent
    <2> QED
      BY <1>4, <2>1, <2>2, <2>3, Unschedule DEF CleanupTaskLocal
  <1>5. ASSUME NEW g \in Goroutine, ForceCleanupAllTasksLocal(g) PROVE CronConsistent'
    <2>1. entries' = {}
      BY <1>5 DEF ForceCleanupAllTasksLocal, IInv, CronConsistent, NoOrphanEntry, TypeOK, Entry
    <2> QED
      BY <1>5, <1>typ, <2>1, EmptyConsistent DEF ForceCleanupAllTasksLocal, TypeOK
  <1>6. ASSUME reloadTasks PROVE CronConsistent'
    <2>1. \A u \in Task : allTasks'[u] # allTasks[u] => u \notin Known /\ allTasks'[u].id = 0
      BY <1>6 DEF reloadTasks
    <2> QED
      BY <1>6, <1>typ, <2>1, AddUnknown DEF reloadTasks, TypeOK
  <1>7. ASSUME handleTaskEvent PROVE CronConsistent'
    <2> DEFINE ev == Head(taskEvents)
    <2>1. ev \in TaskEvent
      BY <1>7 DEF handleTaskEvent, IInv, TypeOK, RegTypeOK
    <2>2. ev.name \in Task /\ (ev.type = "put" => ev.meta \in Meta)
      BY <2>1 DEF TaskEvent
    <2> HIDE DEF ev
    <2>3. CASE ev.type = "put" /\ ev.name \in Known /\ handlePut(ev.name, ev.meta)
      BY <1>7, <2>2, <2>3, PutConsistent DEF handleTaskEvent
    <2>4. CASE handlePutUnknown
      BY <1>7, <1>same, <2>4 DEF handleTaskEvent, handlePutUnknown, cronVars
    <2>5. CASE handleDelete(ev.name)
      BY <1>7, <2>2, <2>5, DeleteConsistent DEF handleTaskEvent
    <2> QED
      BY <1>7, <2>3, <2>4, <2>5 DEF handleTaskEvent, ev
  <1>8. ASSUME Restart PROVE CronConsistent'
    BY <1>8, EmptyConsistent DEF Restart
  <1>9. ASSUME NEW t \in Task, ReuseDeletedTask(t) PROVE CronConsistent'
    BY <1>9, <1>same DEF ReuseDeletedTask, cronVars
  <1>10. ASSUME NEW g \in Goroutine,
                \/ \E t \in Task : \/ \E m \in Meta : ForceAddTask(g, t, m) \/ ForceAddTaskMeta(g, t, m)
                                   \/ MarkTaskDeleted(g, t) \/ CleanupTask(g, t)
                \/ ForceCleanupAllTasks(g) \/ ForceCleanupAllDeleted(g)
                \/ ForceAddTaskMetaPut(g)
         PROVE  CronConsistent'
    BY <1>10, <1>same DEF ForceAddTask, ForceAddTaskMeta, MarkTaskDeleted, CleanupTask,
       ForceCleanupAllTasks, ForceCleanupAllDeleted, ForceAddTaskMetaPut, nodeVars, cronVars
  <1>11. CASE Api
    <2>1. StaticMeta \subseteq Meta
      BY DEF StaticMeta
    <2>2. ASSUME NEW g \in Goroutine, ApiLocal(g) PROVE CronConsistent'
      BY <1>2, <1>3, <1>4, <1>5, <1>10, <2>2 DEF ApiLocal
    <2> QED
      BY <1>1, <1>9, <1>10, <1>11, <2>1, <2>2 DEF Api
  <1>12. ASSUME NEW g \in Goroutine, Run(g) PROVE CronConsistent'
    BY <1>12, <1>same DEF Run, Fire, RunCheck, RunReturn, RunPost, nodeVars, cronVars
  <1>13. CASE Start \/ RemoteCall
    BY <1>13, <1>same DEF Start, RemoteCall, nodeVars, cronVars
  <1>14. CASE Watchers
    <2>1. CASE \/ WatchTasks \/ SendInitialTask \/ StartWatching \/ reloadTasksRead
               \/ SignalTasks \/ SignalDeleted \/ SignalNodes
               \/ reloadDeletedTasksRead \/ reloadDeletedTasks \/ reloadNodes
      BY <2>1, <1>same
         DEF WatchTasks, SendInitialTask, StartWatching, reloadTasksRead, SignalTasks,
             SignalDeleted, SignalNodes, Unblock, reloadDeletedTasksRead, reloadDeletedTasks,
             reloadNodes, nodeVars, cronVars
    <2> QED
      BY <1>6, <1>7, <1>14, <2>1, RebalanceConsistent DEF Watchers
  <1>15. CASE UNCHANGED vars
    BY <1>15, <1>same DEF vars, nodeVars, cronVars
  <1> QED
    BY <1>8, <1>11, <1>12, <1>13, <1>14, <1>15 DEF Next

(* Whatever the interleaving of API calls, job runs, events, reloads and     *)
(* rebalances, with any failures and restarts: the cron engine has at most   *)
(* one entry per task, each entry belongs to a known task that is recorded   *)
(* as assigned under that entry's id and runs on the task's current          *)
(* schedule, every assigned task has its entry, and no two tasks share an id. *)
THEOREM CronEngineConsistent == Spec => []CronConsistent
  <1>1. Init => IInv
    BY InitType
       DEF Init, NewDcron, IInv, CronConsistent, OneEntryPerTask, NoOrphanEntry,
           AssignedIsScheduled, FormatCurrent, IDsDistinct, Absent
  <1>2. IInv /\ [Next]_vars => IInv'
    BY NextType, NextConsistent DEF IInv
  <1>3. IInv => CronConsistent
    BY DEF IInv
  <1> QED
    BY <1>1, <1>2, <1>3, PTL DEF Spec

(* The consequence a user sees: no task is ever scheduled twice on a node,   *)
(* so one tick of the engine starts it at most once there.                   *)
THEOREM NeverScheduledTwice == Spec => []OneEntryPerTask
  <1>1. CronConsistent => OneEntryPerTask
    BY DEF CronConsistent
  <1> QED
    BY <1>1, CronEngineConsistent, PTL

(* No entry is ever out of reach: the maps lead to each one under its own id, *)
(* so that MarkTaskDeleted, CleanupTask or a rebalance can remove it.         *)
THEOREM NoEntryOutOfReach == Spec => []NoOrphanEntry
  <1>1. CronConsistent => NoOrphanEntry
    BY DEF CronConsistent
  <1> QED
    BY <1>1, CronEngineConsistent, PTL

(* What the node reports as assigned has an entry in the engine. *)
THEOREM AssignedAlwaysScheduled == Spec => []AssignedIsScheduled
  <1>1. CronConsistent => AssignedIsScheduled
    BY DEF CronConsistent
  <1> QED
    BY <1>1, CronEngineConsistent, PTL

(* No entry runs on a schedule that handleTaskEvent or a ForceAdd call has    *)
(* replaced.                                                                  *)
THEOREM ScheduleAlwaysCurrent == Spec => []FormatCurrent
  <1>1. CronConsistent => FormatCurrent
    BY DEF CronConsistent
  <1> QED
    BY <1>1, CronEngineConsistent, PTL

-----------------------------------------------------------------------------
(* What one rebalance achieves. *)

(* The engine holds only formats that the parser accepts. *)
ValidEntries == \A e \in entries : e.meta.CronFormat \in ValidFormat

(* Only a rebalance adds entries. *)
LEMMA OnlyRebalanceAdds ==
  ASSUME [Next]_vars
  PROVE  doRebalanced \/ entries' \subseteq entries
  <1>1. ASSUME NEW t, NEW m, addJob(t, m) \/ AddTaskMeta(t, m) \/ ReuseDeletedTask(t)
        PROVE  entries' = entries
    BY <1>1 DEF addJob, AddTaskMeta, ReuseDeletedTask
  <1>2. ASSUME NEW t, NEW m, Replace(t, m)
        PROVE  entries' \subseteq entries
    BY <1>2 DEF Replace, Without
  <1>3. ASSUME NEW g, ApiLocal(g)
        PROVE  entries' \subseteq entries
    <2>1. CASE ForceAddTaskLocal(g) \/ ForceAddTaskMetaLocal(g)
      BY <1>2, <2>1 DEF ForceAddTaskLocal, ForceAddTaskMetaLocal
    <2>2. CASE ForceAddTaskMetaPut(g) \/ ForceCleanupAllDeleted(g)
      BY <2>2 DEF ForceAddTaskMetaPut, ForceCleanupAllDeleted, nodeVars
    <2>3. CASE MarkTaskDeletedLocal(g) \/ CleanupTaskLocal(g) \/ ForceCleanupAllTasksLocal(g)
      BY <2>3 DEF MarkTaskDeletedLocal, CleanupTaskLocal, ForceCleanupAllTasksLocal, Without
    <2> QED
      BY <1>3, <2>1, <2>2, <2>3 DEF ApiLocal
  <1>4. CASE Api
    <2>1. ASSUME NEW g,
                 \/ \E t, m : ForceAddTask(g, t, m) \/ ForceAddTaskMeta(g, t, m)
                 \/ \E t : MarkTaskDeleted(g, t) \/ CleanupTask(g, t)
                 \/ ForceCleanupAllTasks(g)
          PROVE  entries' = entries
      BY <2>1 DEF ForceAddTask, ForceAddTaskMeta, MarkTaskDeleted, CleanupTask,
                  ForceCleanupAllTasks, nodeVars
    <2> QED
      BY <1>1, <1>3, <1>4, <2>1 DEF Api
  <1>5. ASSUME NEW g, Run(g)
        PROVE  entries' = entries
    BY <1>5 DEF Run, Fire, RunCheck, RunReturn, RunPost, nodeVars
  <1>6. CASE Start \/ RemoteCall
    BY <1>6 DEF Start, RemoteCall, nodeVars
  <1>7. CASE Watchers
    <2>1. CASE handleTaskEvent
      BY <2>1 DEF handleTaskEvent, handlePut, handlePutUnknown, handleDelete, Without
    <2>2. CASE \/ WatchTasks \/ SendInitialTask \/ StartWatching \/ reloadTasksRead
               \/ reloadTasks \/ SignalTasks \/ SignalDeleted \/ SignalNodes
               \/ reloadDeletedTasksRead \/ reloadDeletedTasks \/ reloadNodes
      BY <2>2
         DEF WatchTasks, SendInitialTask, StartWatching, reloadTasksRead, reloadTasks,
             SignalTasks, SignalDeleted, SignalNodes, Unblock, reloadDeletedTasksRead,
             reloadDeletedTasks, reloadNodes, nodeVars
    <2> QED
      BY <1>7, <2>1, <2>2 DEF Watchers
  <1>8. CASE Restart
    BY <1>8 DEF Restart
  <1>9. CASE UNCHANGED vars
    BY <1>9 DEF vars, nodeVars
  <1> QED
    BY <1>4, <1>5, <1>6, <1>7, <1>8, <1>9 DEF Next

(* What a rebalance adds is valid. *)
LEMMA ValidStep ==
  ASSUME ValidEntries, [Next]_vars
  PROVE  ValidEntries'
  <1>1. CASE entries' \subseteq entries
    BY <1>1 DEF ValidEntries
  <1>2. CASE doRebalanced
    <2>1. CASE nodes = NoNodes
      BY <1>2, <2>1 DEF doRebalanced, ValidEntries
    <2>2. CASE nodes # NoNodes
      <3>1. PICK ids \in NewIDs(ToSchedule) :
              entries' = {e \in entries : \A t \in ToRemove : e.id # allTasks[t].id} \cup
                  {[id |-> ids[t], name |-> t, meta |-> allTasks[t].meta] : t \in ToSchedule}
        BY <1>2, <2>2 DEF doRebalanced
      <3>2. \A e \in entries' : e \in entries \/ \E t \in ToSchedule : e.meta = allTasks[t].meta
        BY <3>1
      <3>3. \A t \in ToSchedule : allTasks[t].meta.CronFormat \in ValidFormat
        BY DEF ToSchedule
      <3> QED
        BY <3>2, <3>3 DEF ValidEntries
    <2> QED
      BY <2>1, <2>2
  <1> QED
    BY <1>1, <1>2, OnlyRebalanceAdds

(* From consistent maps, whatever they hold, a rebalance schedules exactly     *)
(* what it should.                                                            *)
LEMMA RebalanceExact ==
  ASSUME IInv, ValidEntries, doRebalanced, nodes # NoNodes
  PROVE  (Scheduled = Wanted)'
  <1> DEFINE kept == {e \in entries : \A t \in ToRemove : e.id # allTasks[t].id}
  <1>1. PICK ids \in NewIDs(ToSchedule) :
          /\ entries' = kept \cup
                {[id |-> ids[t], name |-> t, meta |-> allTasks[t].meta] : t \in ToSchedule}
          /\ allTasks' = [t \in Task |-> IF t \in ToSchedule
                                    THEN [meta |-> allTasks[t].meta, id |-> ids[t]]
                                    ELSE allTasks[t]]
          /\ nodes' = nodes /\ deletedTasks' = deletedTasks
    BY DEF doRebalanced
  <1>2. \A t \in Task : allTasks'[t].meta = allTasks[t].meta
    BY <1>1
  <1>3. Known' = Known /\ Wanted' = Wanted
    <2>1. Known' = Known
      BY <1>2 DEF Known
    <2>2. Known \subseteq Task
      BY DEF Known
    <2> QED
      BY <1>1, <1>2, <2>1, <2>2 DEF Wanted
  <1>4. Wanted = {t \in shouldRunTasks : allTasks[t].meta.CronFormat \in ValidFormat}
    BY DEF Wanted, shouldRunTasks
  <1>5. \A e \in entries : /\ e.name \in Known /\ allTasks[e.name].id = e.id /\ e.id # 0
                           /\ allTasks[e.name].meta.CronFormat \in ValidFormat
    BY DEF IInv, TypeOK, Entry, CronConsistent, NoOrphanEntry, FormatCurrent, ValidEntries
  <1>6. ASSUME NEW e \in entries
        PROVE  e \in kept <=> e.name \in shouldRunTasks
    <2>1. CASE e.name \in shouldRunTasks
      <3>1. ASSUME NEW t \in ToRemove
            PROVE  e.id # allTasks[t].id
        <4>1. t # e.name /\ t \in Task /\ e.name \in Task /\ allTasks[t].id # 0
          BY <1>5, <2>1, <3>1 DEF ToRemove, Known
        <4> QED
          BY <1>5, <4>1 DEF IInv, CronConsistent, IDsDistinct
      <3> QED
        BY <2>1, <3>1
    <2>2. CASE e.name \notin shouldRunTasks
      <3>1. e.name \in ToRemove
        BY <1>5, <2>2 DEF ToRemove, existedInCron
      <3> QED
        BY <1>5, <2>2, <3>1
    <2> QED
      BY <2>1, <2>2
  <1>7. ASSUME NEW t \in Scheduled'
        PROVE  t \in Wanted
    <2>1. PICK e \in entries' : e.name = t
      BY DEF Scheduled
    <2>2. CASE e \in kept
      BY <1>4, <1>5, <1>6, <2>1, <2>2
    <2>3. CASE e \notin kept
      <3>1. t \in ToSchedule
        BY <1>1, <2>1, <2>3
      <3> QED
        BY <1>4, <3>1 DEF ToSchedule
    <2> QED
      BY <2>2, <2>3
  <1>8. ASSUME NEW t \in Wanted
        PROVE  t \in Scheduled'
    <2>1. t \in shouldRunTasks /\ allTasks[t].meta.CronFormat \in ValidFormat
      BY <1>4
    <2>2. CASE t \in ToSchedule
      <3>1. [id |-> ids[t], name |-> t, meta |-> allTasks[t].meta] \in entries'
        BY <1>1, <2>2
      <3> QED
        BY <3>1 DEF Scheduled
    <2>3. CASE t \notin ToSchedule
      <3>1. PICK e \in entries : allTasks[t].id = e.id /\ e.id # 0
        BY <2>1, <2>3 DEF ToSchedule, existedInCron
      <3>2. e.name = t
        <4>1. e.name \in Task /\ t \in Task /\ allTasks[e.name].id = e.id
          BY <1>5, <2>1 DEF Known, shouldRunTasks
        <4> QED
          BY <3>1, <4>1 DEF IInv, CronConsistent, IDsDistinct
      <3>3. e \in entries'
        BY <1>1, <1>6, <2>1, <3>2
      <3> QED
        BY <3>2, <3>3 DEF Scheduled
    <2> QED
      BY <2>2, <2>3
  <1> QED
    BY <1>3, <1>7, <1>8

(* A rebalance of a node that sees working nodes leaves its engine with        *)
(* exactly the known tasks that are not deleted, have a valid format and are   *)
(* the node's own, whatever interleaving of calls, events and reloads came     *)
(* before it.                                                                  *)
THEOREM RebalanceAlwaysSettles == Spec => RebalanceSettles
  <1>1. Init => IInv /\ ValidEntries
    BY InitType
       DEF Init, NewDcron, IInv, CronConsistent, OneEntryPerTask, NoOrphanEntry,
           AssignedIsScheduled, FormatCurrent, IDsDistinct, Absent, ValidEntries
  <1>2. IInv /\ ValidEntries /\ [Next]_vars => IInv' /\ ValidEntries'
    BY NextType, NextConsistent, ValidStep DEF IInv
  <1>3. IInv /\ ValidEntries =>
          [doRebalanced /\ nodes # NoNodes => (Scheduled = Wanted)']_vars
    BY RebalanceExact
  <1> QED
    BY <1>1, <1>2, <1>3, PTL DEF Spec, RebalanceSettles

=============================================================================
