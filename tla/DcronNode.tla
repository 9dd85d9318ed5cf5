------------------------------ MODULE DcronNode ------------------------------
(***************************************************************************)
(* One dcron node (dcron.go, dcron_internal.go, task.go) on top of the      *)
(* shared registry of TaskRegistry.  The node's goroutines are              *)
(*   - the callers of the Dcron API and the jobs the cron engine fires      *)
(*     (Goroutine), each between its registry call and its critical section; *)
(*   - watchTaskEvent, watchDeletedTaskEvent and watchNodeEvent;             *)
(*   - rebalanced.                                                           *)
(* A critical section under tasksRWMux is one step.  A registry call made    *)
(* outside the lock is a step of its own, because its result is used after   *)
(* other goroutines have moved.  The other nodes of the cluster appear as    *)
(* the registry calls they may make at any time (RemoteCall).                *)
(***************************************************************************)
EXTENDS TaskRegistry

CONSTANTS
  ValidFormat,     \* the cron expressions that the cron parser accepts
  View,            \* the node lists that GetWorkingNodes may return
  NoNodes,         \* the empty node list
  Owns,            \* Owns[v][S]: the tasks among S, presented to the assigner
                   \* in one rebalance, that it gives to this node when the
                   \* working nodes are v
  Goroutine,       \* slots for API calls and job runs in progress
  RebalancedChanelSize,
  Enabled,         \* what the environment does in this instance, see OpKind
  Faults,          \* which registry calls may fail, see FaultKind
  MaxOps           \* bound on API calls, remote calls, faults and restarts

OpKind == {"addJob", "AddTaskMeta", "ForceAddTask", "ForceAddTaskMeta",
           "ReuseDeletedTask", "MarkTaskDeleted", "CleanupTask", "ForceCleanupAllTasks",
           "remote PutTask", "remote MarkTaskDeleted", "remote RemoveTaskDeleted",
           "remote ForceCleanupTask", "nodes change", "cron fires", "restart"}

FaultKind == {"PutTask", "MarkTaskDeleted", "RemoveTaskDeleted", "ForceCleanupAllTasks",
              "GetAllTasks", "GetDeletedTaskNames"}

ASSUME NodesAssumption ==
  /\ NoNodes \in View
  /\ Owns \in [View -> [SUBSET Task -> SUBSET Task]]
ASSUME ChanAssumption == RebalancedChanelSize \in Nat \ {0}
ASSUME BoundAssumption == 
  MaxOps \in Nat /\ Enabled \subseteq OpKind /\ Faults \subseteq FaultKind

VARIABLES
  phase,           \* where Start has got to, or "panicked"
  allTasks,        \* dc.allTasks: metadata and cron id of each task object
  assignedTasks,   \* dc.assignedTasks: the cron id of the assigned object, or 0
  deletedTasks,    \* dc.deletedTasks
  entries,         \* the entries of dc.cr: id, and the task object that runs
  nextID,          \* the last cron.EntryID handed out
  nodes,           \* dc.nodes
  rebalancedChan,  \* number of signals waiting in dc.rebalancedChan
  taskPc, taskRead,       \* watchTaskEvent: control and GetAllTasks' answer
  deletedPc, deletedRead, \* watchDeletedTaskEvent, GetDeletedTaskNames' answer
  nodePc,          \* watchNodeEvent
  calls,           \* API calls and job runs in progress
  ops              \* budget used so far

nodeVars == <<allTasks, assignedTasks, deletedTasks, entries, nextID>>
watchVars == <<nodes, rebalancedChan, taskPc, taskRead, deletedPc, deletedRead, nodePc>>
vars == <<regVars, phase, nodeVars, watchVars, calls, ops>>

-----------------------------------------------------------------------------
Absent == [meta |-> None, id |-> 0]
Known == {t \in Task : allTasks[t].meta # None}

(* The metadata addJob builds for a static task: no flags, no payload. *)
StaticMeta == {m \in Meta : /\ ~ m.ExecutedAndMarkDeleted
                            /\ ~ m.ExecutedAndCleanup
                            /\ m.Payload = None}

Idle == [pc |-> "idle", name |-> None, meta |-> None]
MetaCall == {"ForceAddTask", "ForceAddTaskMeta", "ForceAddTaskMetaLocal", "Run", "Runner"}
NameCall == {"MarkTaskDeleted", "CleanupTask"}
AllCall == {"ForceCleanupDeleted", "ForceCleanupAllTasks"}
Call(pc, t, m) == [pc |-> pc, name |-> t, meta |-> m]
Calls == {Idle} \cup [pc : MetaCall, name : Task, meta : Meta]
                \cup [pc : NameCall, name : Task, meta : {None}]
                \cup [pc : AllCall, name : {None}, meta : {None}]

Entry == [id : Nat \ {0}, name : Task, meta : Meta]

(* Every variable holds a value of its type. *)
TypeOK ==
  /\ RegTypeOK
  /\ phase \in {"new", "reloadTasks", "reloadDeleted", "running", "panicked"}
  /\ allTasks \in [Task -> {Absent} \cup [meta : Meta, id : Nat]]
  /\ assignedTasks \in [Task -> Nat]
  /\ deletedTasks \subseteq Task
  /\ entries \subseteq Entry
  /\ nextID \in Nat
  /\ nodes \in View
  /\ rebalancedChan \in 0 .. RebalancedChanelSize
  /\ taskPc \in {"idle", "apply", "signal"}
  /\ taskRead \in [Task -> Meta \cup {None}]
  /\ deletedPc \in {"idle", "apply", "signal"}
  /\ deletedRead \subseteq Task
  /\ nodePc \in {"idle", "signal"}
  /\ calls \in [Goroutine -> Calls]
  /\ ops \in Nat

(* NewDcron: what a process starts with. *)
NewDcron ==
  /\ phase = "new"
  /\ allTasks = [t \in Task |-> Absent]
  /\ assignedTasks = [t \in Task |-> 0]
  /\ deletedTasks = {}
  /\ entries = {}
  /\ nextID = 0
  /\ nodes = NoNodes
  /\ rebalancedChan = 0
  /\ taskPc = "idle" /\ taskRead = NoTasks
  /\ deletedPc = "idle" /\ deletedRead = {}
  /\ nodePc = "idle"
  /\ calls = [g \in Goroutine |-> Idle]

Init == RegInit /\ NewDcron /\ ops = 0

Alive == phase # "panicked"
Spend == ops < MaxOps /\ ops' = ops + 1
Op(kind) == kind \in Enabled /\ Spend
Fault(kind) == kind \in Faults /\ Spend

(* cr.Remove: an id that is not scheduled is ignored. *)
Without(es, id) == {e \in es : e.id # id}

-----------------------------------------------------------------------------
(* The Dcron API. *)

(* AddTask, AddFunc, AddOneShotTask, AddOneShotFunc. *)
addJob(t, m) ==
  /\ Alive /\ Op("addJob")
  /\ t \notin deletedTasks
  /\ t \notin Known
  /\ allTasks' = [allTasks EXCEPT ![t] = [meta |-> m, id |-> 0]]
  /\ UNCHANGED <<regVars, phase, assignedTasks, deletedTasks, entries, nextID,
                 watchVars, calls>>

(* PutTask is called with the lock held. *)
AddTaskMeta(t, m) ==
  /\ Alive /\ Op("AddTaskMeta")
  /\ t \notin deletedTasks
  /\ t \notin Known
  /\ \/ /\ RegPutTask(t, m)
        /\ allTasks' = [allTasks EXCEPT ![t] = [meta |-> m, id |-> 0]]
     \/ /\ "PutTask" \in Faults
        /\ RegPutTaskFails(t, m)
        /\ UNCHANGED allTasks
  /\ UNCHANGED <<watchState, initial, phase, assignedTasks, deletedTasks, entries,
                 nextID, watchVars, calls>>

(* Mutant of Replace: the old entry is left in the engine. *)
ReplaceKeepsEntry(t, m) ==
  /\ deletedTasks' = deletedTasks \ {t}
  /\ assignedTasks' = [assignedTasks EXCEPT ![t] = 0]
  /\ allTasks' = [allTasks EXCEPT ![t] = [meta |-> m, id |-> 0]]
  /\ UNCHANGED <<entries, nextID>>

(* Removes the task's entry and puts a fresh, unscheduled object in its place. *)
Replace(t, m) ==
  /\ deletedTasks' = deletedTasks \ {t}
  /\ entries' = IF assignedTasks[t] # 0 THEN Without(entries, assignedTasks[t]) ELSE entries
  /\ assignedTasks' = [assignedTasks EXCEPT ![t] = 0]
  /\ allTasks' = [allTasks EXCEPT ![t] = [meta |-> m, id |-> 0]]
  /\ UNCHANGED nextID

Enter(g, pc, t, m) == calls' = [calls EXCEPT ![g] = Call(pc, t, m)]
Return(g) == calls' = [calls EXCEPT ![g] = Idle]
At(g, pc) == Alive /\ calls[g].pc = pc

(* ForceAddTask, ForceAddFunc and their one-shot forms: the registry call... *)
ForceAddTask(g, t, m) ==
  /\ At(g, "idle") /\ Op("ForceAddTask")
  /\ RegForceCleanupTask(t)
  /\ Enter(g, "ForceAddTask", t, m)
  /\ UNCHANGED <<watchState, initial, phase, nodeVars, watchVars>>

(* ...and the critical section; addJobLocked cannot refuse after the deletes. *)
ForceAddTaskLocal(g) ==
  /\ At(g, "ForceAddTask")
  /\ Replace(calls[g].name, calls[g].meta)
  /\ Return(g)
  /\ UNCHANGED <<regVars, phase, watchVars, ops>>

ForceAddTaskMeta(g, t, m) ==
  /\ At(g, "idle") /\ Op("ForceAddTaskMeta")
  /\ RegForceCleanupTask(t)
  /\ Enter(g, "ForceAddTaskMeta", t, m)
  /\ UNCHANGED <<watchState, initial, phase, nodeVars, watchVars>>

ForceAddTaskMetaPut(g) ==
  /\ At(g, "ForceAddTaskMeta")
  /\ \/ /\ RegPutTask(calls[g].name, calls[g].meta)
        /\ Enter(g, "ForceAddTaskMetaLocal", calls[g].name, calls[g].meta)
        /\ UNCHANGED ops
     \/ /\ Fault("PutTask")
        /\ \/ RegPutTaskFails(calls[g].name, calls[g].meta)
           \/ UNCHANGED <<regTasks, regDeleted, taskEvents>>
        /\ Return(g)
  /\ UNCHANGED <<watchState, initial, phase, nodeVars, watchVars>>

ForceAddTaskMetaLocal(g) ==
  /\ At(g, "ForceAddTaskMetaLocal")
  /\ Replace(calls[g].name, calls[g].meta)
  /\ Return(g)
  /\ UNCHANGED <<regVars, phase, watchVars, ops>>

(* The lock is held throughout.  The local tombstone goes before the *)
(* registry is asked to drop its own.                                 *)
ReuseDeletedTask(t) ==
  /\ Alive /\ Op("ReuseDeletedTask")
  /\ t \in deletedTasks
  /\ t \in Known
  /\ deletedTasks' = deletedTasks \ {t}
  /\ \/ RegRemoveTaskDeleted(t)
     \/ /\ "RemoveTaskDeleted" \in Faults
        /\ UNCHANGED <<regTasks, regDeleted, taskEvents>>
  /\ UNCHANGED <<watchState, initial, phase, allTasks, assignedTasks, entries, nextID,
                 watchVars, calls>>

(* The registry call of MarkTaskDeleted, from the API or after a run; when  *)
(* it reports an error the tombstone may be stored all the same.            *)
MarkInRegistry(g, t) ==
  /\ RegMarkTaskDeleted(t)
  /\ \/ Enter(g, "MarkTaskDeleted", t, None)
     \/ "MarkTaskDeleted" \in Faults /\ Return(g)

MarkTaskDeleted(g, t) ==
  /\ At(g, "idle") /\ Op("MarkTaskDeleted")
  /\ MarkInRegistry(g, t)
  /\ UNCHANGED <<watchState, initial, phase, nodeVars, watchVars>>

MarkTaskDeletedLocal(g) ==
  LET t == calls[g].name IN
  /\ At(g, "MarkTaskDeleted")
  /\ IF t \in Known
     THEN /\ entries' = IF assignedTasks[t] # 0
                        THEN Without(entries, allTasks[t].id) ELSE entries
          /\ assignedTasks' = [assignedTasks EXCEPT ![t] = 0]
          /\ deletedTasks' = deletedTasks \cup {t}
     ELSE UNCHANGED <<entries, assignedTasks, deletedTasks>>
  /\ Return(g)
  /\ UNCHANGED <<regVars, phase, allTasks, nextID, watchVars, ops>>

CleanupTask(g, t) ==
  /\ At(g, "idle") /\ Op("CleanupTask")
  /\ RegForceCleanupTask(t)
  /\ Enter(g, "CleanupTask", t, None)
  /\ UNCHANGED <<watchState, initial, phase, nodeVars, watchVars>>

CleanupTaskLocal(g) ==
  LET t == calls[g].name IN
  /\ At(g, "CleanupTask")
  /\ entries' = IF assignedTasks[t] # 0 THEN Without(entries, assignedTasks[t]) ELSE entries
  /\ allTasks' = [allTasks EXCEPT ![t] = Absent]
  /\ assignedTasks' = [assignedTasks EXCEPT ![t] = 0]
  /\ deletedTasks' = deletedTasks \ {t}
  /\ Return(g)
  /\ UNCHANGED <<regVars, phase, nextID, watchVars, ops>>

ForceCleanupAllTasks(g) ==
  /\ At(g, "idle") /\ Op("ForceCleanupAllTasks")
  /\ RegForceCleanupAllTasks("tasks")
  /\ Enter(g, "ForceCleanupDeleted", None, None)
  /\ UNCHANGED <<watchState, initial, phase, nodeVars, watchVars>>

(* When this request or a later one fails, so does the call, half done. *)
ForceCleanupAllDeleted(g) ==
  /\ At(g, "ForceCleanupDeleted")
  /\ \/ /\ RegForceCleanupAllTasks("deleted")
        /\ Enter(g, "ForceCleanupAllTasks", None, None)
        /\ UNCHANGED ops
     \/ /\ Fault("ForceCleanupAllTasks")
        /\ RegForceCleanupAllTasks("deleted") \/ UNCHANGED <<regTasks, regDeleted, taskEvents>>
        /\ Return(g)
  /\ UNCHANGED <<watchState, initial, phase, nodeVars, watchVars>>

ForceCleanupAllTasksLocal(g) ==
  /\ At(g, "ForceCleanupAllTasks")
  /\ entries' = {e \in entries : \A t \in Task : assignedTasks[t] # e.id}
  /\ allTasks' = [t \in Task |-> Absent]
  /\ assignedTasks' = [t \in Task |-> 0]
  /\ deletedTasks' = {}
  /\ Return(g)
  /\ UNCHANGED <<regVars, phase, nextID, watchVars, ops>>

(* Calls that other nodes of the cluster make on the shared registry. *)
RemoteCall ==
  /\ \E t \in Task :
       \/ Op("remote PutTask") /\ \E m \in Meta : RegPutTask(t, m)
       \/ Op("remote MarkTaskDeleted") /\ RegMarkTaskDeleted(t)
       \/ Op("remote RemoveTaskDeleted") /\ RegRemoveTaskDeleted(t)
       \/ Op("remote ForceCleanupTask") /\ RegForceCleanupTask(t)
  /\ UNCHANGED <<watchState, initial, phase, nodeVars, watchVars, calls>>

-----------------------------------------------------------------------------
(* Start: prepareWork loads the nodes, the tasks and the tombstones one     *)
(* after the other, then asyncWork starts the goroutines.                   *)

Start ==
  /\ phase = "new"
  /\ nodes' \in View
  /\ phase' = "reloadTasks"
  /\ UNCHANGED <<regVars, nodeVars, rebalancedChan, taskPc, taskRead, deletedPc,
                 deletedRead, nodePc, calls, ops>>

WatchTasks ==
  /\ phase = "running"
  /\ WatchTaskEvent
  /\ UNCHANGED <<phase, nodeVars, watchVars, calls, ops>>

SendInitialTask ==
  /\ Alive
  /\ \E t \in Task : SendInitial(t)
  /\ UNCHANGED <<phase, nodeVars, watchVars, calls, ops>>

StartWatching ==
  /\ Alive
  /\ EstablishWatch
  /\ UNCHANGED <<phase, nodeVars, watchVars, calls, ops>>

(* dc.rebalancedChan <- struct{}{}, the last thing a watcher does before it  *)
(* waits again: with room in the channel the send is part of the same step,  *)
(* otherwise the watcher stays blocked in it.                                *)
Room == rebalancedChan < RebalancedChanelSize
SignalFrom(pc) ==
  IF Room
  THEN pc' = "idle" /\ rebalancedChan' = rebalancedChan + 1
  ELSE pc' = "signal" /\ UNCHANGED rebalancedChan

(* Mutant of MayReloadTasks: no ticker. *)
ReloadTasksOnlyAtStart == phase = "reloadTasks"

(* reloadTasks, on a tick of watchTaskEvent or from prepareWork. *)
MayReloadTasks ==
  \/ phase = "reloadTasks"
  \/ phase = "running" /\ watchState # "off"

AfterReloadTasks ==
  IF phase = "running"
  THEN SignalFrom(taskPc) /\ UNCHANGED phase
  ELSE taskPc' = "idle" /\ phase' = "reloadDeleted" /\ UNCHANGED rebalancedChan

reloadTasksRead ==
  /\ taskPc = "idle" /\ MayReloadTasks
  /\ \/ /\ taskPc' = "apply"
        /\ taskRead' = regTasks
        /\ UNCHANGED <<phase, rebalancedChan, ops>>
     \/ /\ Fault("GetAllTasks")
        /\ AfterReloadTasks
        /\ UNCHANGED taskRead
  /\ UNCHANGED <<regVars, nodeVars, nodes, deletedPc, deletedRead, nodePc, calls>>

(* Only adds: a known task is neither updated nor removed. *)
reloadTasks ==
  /\ taskPc = "apply" /\ Alive
  /\ allTasks' = [t \in Task |-> IF t \notin Known /\ taskRead[t] # None
                                 THEN [meta |-> taskRead[t], id |-> 0]
                                 ELSE allTasks[t]]
  /\ AfterReloadTasks
  /\ taskRead' = NoTasks
  /\ UNCHANGED <<regVars, assignedTasks, deletedTasks, entries, nextID, nodes,
                 deletedPc, deletedRead, nodePc, calls, ops>>

(* reloadDeletedTasks, on an event, a tick or from prepareWork.  A failing   *)
(* GetDeletedTaskNames answers like a registry without tombstones.           *)
reloadDeletedTasksRead ==
  /\ deletedPc = "idle" /\ phase \in {"reloadDeleted", "running"}
  /\ deletedPc' = "apply"
  /\ \/ deletedRead' = regDeleted /\ UNCHANGED ops
     \/ deletedRead' = {} /\ Fault("GetDeletedTaskNames")
  /\ UNCHANGED <<regVars, phase, nodeVars, nodes, rebalancedChan, taskPc, taskRead,
                 nodePc, calls>>

(* Mutant of reloadDeletedTasks: adds to the set instead of replacing it. *)
reloadDeletedTasksMerges ==
  /\ deletedPc = "apply" /\ Alive
  /\ deletedTasks' = deletedTasks \cup deletedRead
  /\ deletedRead' = {}
  /\ IF phase = "running"
     THEN SignalFrom(deletedPc) /\ UNCHANGED phase
     ELSE deletedPc' = "idle" /\ phase' = "running" /\ UNCHANGED rebalancedChan
  /\ UNCHANGED <<regVars, allTasks, assignedTasks, entries, nextID, nodes, taskPc,
                 taskRead, nodePc, calls, ops>>

reloadDeletedTasks ==
  /\ deletedPc = "apply" /\ Alive
  /\ deletedTasks' = deletedRead
  /\ deletedRead' = {}
  /\ IF phase = "running"
     THEN SignalFrom(deletedPc) /\ UNCHANGED phase
     ELSE deletedPc' = "idle" /\ phase' = "running" /\ UNCHANGED rebalancedChan
  /\ UNCHANGED <<regVars, allTasks, assignedTasks, entries, nextID, nodes, taskPc, taskRead, nodePc, calls, ops>>

(* watchNodeEvent: signals only when the list has changed. *)
reloadNodes ==
  /\ nodePc = "idle" /\ phase = "running" /\ Op("nodes change")
  /\ nodes' \in View \ {nodes}
  /\ SignalFrom(nodePc)
  /\ UNCHANGED <<regVars, phase, nodeVars, taskPc, taskRead,
                 deletedPc, deletedRead, calls>>

-----------------------------------------------------------------------------
(* watchTaskEvent. *)

(* Mutant of handlePut: never unschedules the task. *)
handlePutKeepsSchedule(t, m) ==
  /\ allTasks' = [allTasks EXCEPT ![t].meta = m]
  /\ SignalFrom(taskPc)
  /\ UNCHANGED <<phase, entries, assignedTasks>>

(* Mutant of handlePut: the new object does not inherit the cron id. *)
handlePutDropsID(t, m) ==
  /\ allTasks' = [allTasks EXCEPT ![t] = [meta |-> m, id |-> 0]]
  /\ SignalFrom(taskPc)
  /\ UNCHANGED <<phase, entries, assignedTasks>>

(* Put for a task the node knows.  A scheduled task whose cron format is the *)
(* same keeps its entry, and the entry keeps running the old object.         *)
handlePut(t, m) ==
  LET old == allTasks[t]
      needReschedule == old.id # 0 /\ old.meta.CronFormat # m.CronFormat
  IN  /\ entries' = IF needReschedule THEN Without(entries, old.id) ELSE entries
      /\ assignedTasks' = IF needReschedule THEN [assignedTasks EXCEPT ![t] = 0]
                          ELSE assignedTasks
      /\ allTasks' = [allTasks EXCEPT
                        ![t] = [meta |-> m, id |-> IF needReschedule THEN 0 ELSE old.id]]
      /\ SignalFrom(taskPc)
      /\ UNCHANGED phase

(* Put for a task the node does not know: existingTask is nil when its id is *)
(* read, and nothing recovers the panic.                                     *)
handlePutUnknown ==
  /\ phase' = "panicked"
  /\ UNCHANGED <<entries, assignedTasks, allTasks, taskPc, rebalancedChan>>

(* Mutant of handleDelete: the task is forgotten but not its cron id. *)
handleDeleteKeepsID(t) ==
  /\ entries' = Without(entries, allTasks[t].id)
  /\ assignedTasks' = [assignedTasks EXCEPT ![t] = 0]
  /\ allTasks' = [allTasks EXCEPT ![t].meta = None]
  /\ SignalFrom(taskPc)
  /\ UNCHANGED phase

handleDelete(t) ==
  /\ entries' = IF t \in Known /\ allTasks[t].id # 0
                THEN Without(entries, allTasks[t].id) ELSE entries
  /\ assignedTasks' = IF t \in Known THEN [assignedTasks EXCEPT ![t] = 0] ELSE assignedTasks
  /\ allTasks' = [allTasks EXCEPT ![t] = Absent]
  /\ SignalFrom(taskPc)
  /\ UNCHANGED phase

handleTaskEvent ==
  /\ phase = "running" /\ taskPc = "idle"
  /\ taskEvents # <<>>
  /\ LET ev == Head(taskEvents) IN
       \/ ev.type = "put" /\ ev.name \in Known /\ handlePut(ev.name, ev.meta)
       \/ ev.type = "put" /\ ev.name \notin Known /\ handlePutUnknown
       \/ ev.type = "delete" /\ handleDelete(ev.name)
  /\ taskEvents' = Tail(taskEvents)
  /\ UNCHANGED <<regTasks, regDeleted, watchState, initial, deletedTasks, nextID, nodes,
                 taskRead, deletedPc, deletedRead, nodePc, calls, ops>>

(* A watcher blocked in its send gets on once rebalanced has made room. *)
Unblock(pc) ==
  /\ pc = "signal" /\ Room /\ Alive
  /\ SignalFrom(pc)
  /\ UNCHANGED <<regVars, phase, nodeVars, nodes, taskRead, deletedRead, calls, ops>>

SignalTasks == Unblock(taskPc) /\ UNCHANGED <<deletedPc, nodePc>>
SignalDeleted == Unblock(deletedPc) /\ UNCHANGED <<taskPc, nodePc>>
SignalNodes == Unblock(nodePc) /\ UNCHANGED <<taskPc, deletedPc>>

-----------------------------------------------------------------------------
(* rebalanced. *)

existedInCron(id) == \E e \in entries : e.id = id

(* Mutant of shouldRunTasks: a task with a tombstone is offered too. *)
shouldRunTasksDeletedToo == Owns[nodes][Known]

(* The tasks that the assigner gives to this node. *)
shouldRunTasks ==
  LET offered == Known \ deletedTasks IN Owns[nodes][offered] \cap offered

(* Mutant of ToSchedule: existedInCron is not asked. *)
ToScheduleAgain ==
  {t \in shouldRunTasks : allTasks[t].meta.CronFormat \in ValidFormat}

(* AddJob refuses a format it cannot parse, and the task is skipped. *)
ToSchedule ==
  {t \in shouldRunTasks : /\ ~ (allTasks[t].id # 0 /\ existedInCron(allTasks[t].id))
                          /\ allTasks[t].meta.CronFormat \in ValidFormat}

(* Mutant of ToRemove: a task is never unassigned. *)
ToRemoveNothing == {}

ToRemove ==
  {t \in Known \ shouldRunTasks : allTasks[t].id # 0 /\ existedInCron(allTasks[t].id)}

(* The ids AddJob hands out to the tasks of S: fresh, and all different. *)
NewIDs(S) ==
  {f \in [S -> nextID + 1 .. nextID + Cardinality(S)] :
     \A s, t \in S : s # t => f[s] # f[t]}

doRebalanced ==
  /\ phase = "running"
  /\ rebalancedChan > 0
  /\ rebalancedChan' = rebalancedChan - 1
  /\ IF nodes = NoNodes
     THEN UNCHANGED <<allTasks, assignedTasks, entries, nextID>>
     ELSE \E ids \in NewIDs(ToSchedule) :
            /\ entries' = {e \in entries : \A t \in ToRemove : e.id # allTasks[t].id}
                            \cup {[id |-> ids[t], name |-> t, meta |-> allTasks[t].meta] :
                                    t \in ToSchedule}
            /\ allTasks' = [t \in Task |-> IF t \in ToSchedule
                                           THEN [meta |-> allTasks[t].meta, id |-> ids[t]]
                                           ELSE allTasks[t]]
            /\ assignedTasks' = [t \in Task |-> IF t \in ToSchedule THEN ids[t]
                                                ELSE IF t \in ToRemove THEN 0
                                                ELSE assignedTasks[t]]
            /\ nextID' = nextID + Cardinality(ToSchedule)
  /\ UNCHANGED <<regVars, phase, deletedTasks, nodes, taskPc, taskRead, deletedPc,
                 deletedRead, nodePc, calls, ops>>

-----------------------------------------------------------------------------
(* task.Run, on a goroutine of the cron engine. *)

(* The engine fires an entry; cr.Remove does not stop a job already fired. *)
Fire(g) ==
  /\ At(g, "idle") /\ phase = "running" /\ "cron fires" \in Enabled
  /\ \E e \in entries : Enter(g, "Run", e.name, e.meta)
  /\ UNCHANGED <<regVars, phase, nodeVars, watchVars, ops>>

(* Skips a task with a tombstone; else CanRunTask grants the execution, or  *)
(* refuses it or fails.                                                      *)
RunCheck(g) ==
  /\ At(g, "Run")
  /\ \/ /\ calls[g].name \notin deletedTasks
        /\ Enter(g, "Runner", calls[g].name, calls[g].meta)
     \/ Return(g)
  /\ UNCHANGED <<regVars, phase, nodeVars, watchVars, ops>>

(* The Runner returns and the task has no flags, or it panics: Run recovers *)
(* and the post-execution action is skipped, whatever the flags.            *)
RunReturn(g) ==
  /\ At(g, "Runner")
  /\ Return(g)
  /\ UNCHANGED <<regVars, phase, nodeVars, watchVars, ops>>

(* The Runner returns, with or without an error, and the task has flags. *)
RunPost(g) ==
  LET t == calls[g].name
      m == calls[g].meta
  IN /\ At(g, "Runner")
     /\ \/ /\ m.OneShot \/ m.ExecutedAndMarkDeleted
           /\ MarkInRegistry(g, t)
        \/ /\ ~ (m.OneShot \/ m.ExecutedAndMarkDeleted)
           /\ m.ExecutedAndCleanup
           /\ RegForceCleanupTask(t)
           /\ Enter(g, "CleanupTask", t, None)
     /\ UNCHANGED <<watchState, initial, phase, nodeVars, watchVars, ops>>

-----------------------------------------------------------------------------
(* The process dies, or has panicked, and is started again. *)
Restart ==
  /\ phase # "new" /\ Op("restart")
  /\ phase' = "new"
  /\ allTasks' = [t \in Task |-> Absent]
  /\ assignedTasks' = [t \in Task |-> 0]
  /\ deletedTasks' = {} /\ entries' = {} /\ nextID' = 0
  /\ nodes' = NoNodes /\ rebalancedChan' = 0
  /\ taskPc' = "idle" /\ taskRead' = NoTasks
  /\ deletedPc' = "idle" /\ deletedRead' = {} /\ nodePc' = "idle"
  /\ calls' = [g \in Goroutine |-> Idle]
  /\ watchState' = "off" /\ initial' = NoTasks /\ taskEvents' = <<>>
  /\ UNCHANGED <<regTasks, regDeleted>>

ApiLocal(g) ==
  \/ ForceAddTaskLocal(g) \/ ForceAddTaskMetaPut(g) \/ ForceAddTaskMetaLocal(g)
  \/ MarkTaskDeletedLocal(g) \/ CleanupTaskLocal(g)
  \/ ForceCleanupAllDeleted(g) \/ ForceCleanupAllTasksLocal(g)

Api ==
  \/ \E t \in Task :
       \/ \E m \in StaticMeta : addJob(t, m)
       \/ \E m \in Meta : AddTaskMeta(t, m)
       \/ ReuseDeletedTask(t)
  \/ \E g \in Goroutine :
       \/ \E t \in Task :
            \/ \E m \in StaticMeta : ForceAddTask(g, t, m)
            \/ \E m \in Meta : ForceAddTaskMeta(g, t, m)
            \/ MarkTaskDeleted(g, t)
            \/ CleanupTask(g, t)
       \/ ForceCleanupAllTasks(g)
       \/ ApiLocal(g)

Run(g) ==
  \/ Fire(g) \/ RunCheck(g) \/ RunReturn(g) \/ RunPost(g)

Watchers ==
  \/ WatchTasks \/ SendInitialTask \/ StartWatching
  \/ reloadTasksRead \/ reloadTasks \/ handleTaskEvent \/ SignalTasks
  \/ reloadDeletedTasksRead \/ reloadDeletedTasks \/ SignalDeleted
  \/ reloadNodes \/ SignalNodes
  \/ doRebalanced

Next ==
  \/ Api
  \/ \E g \in Goroutine : Run(g)
  \/ Start
  \/ Watchers
  \/ RemoteCall
  \/ Restart

Spec == Init /\ [][Next]_vars

-----------------------------------------------------------------------------
(* Fairness.  Go runs every ready goroutine, its tickers keep ticking, and a *)
(* select with several ready cases picks one at random, so a case that is    *)
(* ready again and again is taken.  A sender blocked on the full channel is  *)
(* served in turn.  Registry calls return.  Nothing is assumed of the        *)
(* application (API calls, Start), of its Runners or of the other nodes.     *)
Fairness ==
  /\ WF_vars(WatchTasks) /\ WF_vars(SendInitialTask) /\ WF_vars(StartWatching)
  /\ WF_vars(reloadTasksRead) /\ WF_vars(reloadTasks)
  /\ SF_vars(handleTaskEvent) /\ SF_vars(SignalTasks)
  /\ WF_vars(reloadDeletedTasksRead) /\ WF_vars(reloadDeletedTasks)
  /\ SF_vars(SignalDeleted) /\ SF_vars(SignalNodes)
  /\ WF_vars(doRebalanced)
  /\ \A g \in Goroutine : WF_vars(ApiLocal(g))

FairSpec == Spec /\ Fairness

-----------------------------------------------------------------------------
(* A task has at most one entry in the cron engine, whatever races with the *)
(* rebalance: two would fire the task twice at every tick.                  *)
OneEntryPerTask ==
  \A d, e \in entries : d.name = e.name => d = e

(* Every entry can still be found from the maps of the node: it belongs to  *)
(* a known task that is recorded as assigned under the entry's own id.      *)
(* An entry that no map leads to can never be removed again.                *)
NoOrphanEntry ==
  \A e \in entries : /\ e.name \in Known
                     /\ allTasks[e.name].id = e.id
                     /\ assignedTasks[e.name] = e.id

(* What GetMyselfRunningTasks reports is what the engine runs: an assigned  *)
(* task has an entry.                                                       *)
AssignedIsScheduled ==
  \A t \in Task : assignedTasks[t] # 0 =>
    \E e \in entries : e.name = t /\ e.id = assignedTasks[t]

(* The engine never keeps an entry on a schedule that the node has already  *)
(* replaced: handleTaskEvent and the ForceAdd calls unschedule the task     *)
(* whenever its cron format changes.                                        *)
FormatCurrent ==
  \A e \in entries : e.meta.CronFormat = allTasks[e.name].meta.CronFormat

(* The ids that the node remembers, live or stale, were handed out by the   *)
(* engine, and no two tasks remember the same one: a stale id can never be  *)
(* taken for another task's entry.                                          *)
IDsDistinct ==
  /\ \A t \in Task : allTasks[t].id <= nextID
  /\ \A s, t \in Task : s # t /\ allTasks[s].id # 0 => allTasks[s].id # allTasks[t].id

(* The maps of the node and its cron engine agree. *)
CronConsistent ==
  /\ OneEntryPerTask
  /\ NoOrphanEntry
  /\ AssignedIsScheduled
  /\ FormatCurrent
  /\ IDsDistinct

(* Once calls, failures and restarts have ceased and the node runs, its     *)
(* tombstones are those of the registry for good.                           *)
DeletedConverges ==
  <>[](phase = "running") => <>[](deletedTasks = regDeleted)

(* ... every task stored in the registry is known to the node ...           *)
TasksDiscovered ==
  <>[](phase = "running") => <>[](Stored \subseteq Known)

(* ... and, while some node works, the engine schedules exactly the known   *)
(* tasks with a valid format, not deleted, that the assigner gives it.      *)
Scheduled == {e.name : e \in entries}
Wanted ==
  {t \in Known \ deletedTasks : /\ t \in Owns[nodes][Known \ deletedTasks]
                                /\ allTasks[t].meta.CronFormat \in ValidFormat}
CronConverges ==
  <>[](phase = "running" /\ nodes # NoNodes) => <>[](Scheduled = Wanted)

(* One rebalance is enough, from whatever the calls, events and reloads       *)
(* before it have left in the maps: it unschedules, keeps and adds entries so *)
(* that exactly the wanted tasks are scheduled.  A stale cron id that looks    *)
(* alive, or a live one that looks stale, would leave a task out.              *)
RebalanceSettles ==
  [][doRebalanced /\ nodes # NoNodes => (Scheduled = Wanted)']_vars

-----------------------------------------------------------------------------
(* Promises of the documentation that the code does not keep. *)

(* task.go:83 and :96 announce that a Put event finds the "existing task     *)
(* (if any)" and "create/update"s it: the node survives any event.           *)
NoPanic == Alive

=============================================================================
