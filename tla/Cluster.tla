------------------------------- MODULE Cluster -------------------------------
(***************************************************************************)
(* The nodes of a cluster, each rebalancing on its own view of the working  *)
(* nodes and of the tasks (dcron_internal.go, task.go), with one strategy   *)
(* of Assigner.  How a node comes to its view of the tasks is the subject   *)
(* of DcronNode; here the view is what a reload has read, and it may be old. *)
(* Nodes come and go as Membership says, which NodeLife shows of the four    *)
(* registries.                                                               *)
(***************************************************************************)
EXTENDS Assigner

CONSTANT MaxOps   \* bound on starts, deaths, drops from the list and task changes

ASSUME ClusterAssumption == MaxOps \in Nat

VARIABLES
  strategy,       \* the strategy every node was configured with
  up,             \* the nodes whose process runs
  working,        \* the nodes the registry lists as working
  live,           \* the tasks of the registry that carry no tombstone
  nodes,          \* nodes[n]: the members of dc.nodes of node n
  offered,        \* offered[n]: the keys of dc.allTasks not in dc.deletedTasks
  signal,         \* signal[n]: a signal waits in dc.rebalancedChan
  assignerNodes,  \* assignerNodes[n]: the nodes UpdateNodes gave n's assigner
  assigned,       \* assigned[n]: the keys of dc.assignedTasks
  ops

vars == <<strategy, up, working, live, nodes, offered, signal, assignerNodes,
          assigned, ops>>

(* Every variable holds a value of its type. *)
TypeOK ==
  /\ strategy \in Strategy
  /\ up \subseteq Node /\ working \subseteq Node
  /\ live \subseteq Task
  /\ nodes \in [Node -> SUBSET Node]
  /\ offered \in [Node -> SUBSET Task]
  /\ signal \in [Node -> BOOLEAN]
  /\ assignerNodes \in [Node -> SUBSET Node]
  /\ assigned \in [Node -> SUBSET Task]
  /\ ops \in 0 .. MaxOps

List == INSTANCE Membership

(* Some nodes have just been started together: each has loaded the tasks, and   *)
(* the list of working nodes when there was none.                              *)
Init ==
  /\ strategy \in Strategy
  /\ List!Init /\ working = up
  /\ live = Task
  /\ nodes = [n \in Node |-> {}]
  /\ offered = [n \in Node |-> IF n \in up THEN live ELSE {}]
  /\ signal = [n \in Node |-> FALSE]
  /\ assignerNodes = [n \in Node |-> {}]
  /\ assigned = [n \in Node |-> {}]
  /\ ops = 0

Spend == ops < MaxOps /\ ops' = ops + 1

(* prepareWork and asyncWork: the node loads its views, without a signal.  The  *)
(* id is that of a new process (generateNodeID), so it is not on the list yet:  *)
(* a node that finds itself there assigns nothing before the first event or     *)
(* tick.  A process that is started again after its Unregister has failed is    *)
(* listed, but its goroutines return at once, and it rebalances nothing.        *)
Start(n) ==
  /\ List!Boot(n) /\ n \notin working /\ Spend
  /\ nodes' = [nodes EXCEPT ![n] = working]
  /\ offered' = [offered EXCEPT ![n] = live]
  /\ UNCHANGED <<strategy, live, signal, assignerNodes, assigned>>

(* UpdateStatus(working), or a heartbeat after the registry had dropped n. *)
Join(n) ==
  /\ List!Join(n) /\ Spend
  /\ UNCHANGED <<strategy, live, nodes, offered, signal, assignerNodes, assigned>>

(* UpdateStatus(leaving) and Unregister, or heartbeats that are late: the      *)
(* processes are dead, or only slow and still running their tasks.             *)
Drop(S) ==
  /\ List!Drop(S) /\ Spend
  /\ UNCHANGED <<strategy, live, nodes, offered, signal, assignerNodes, assigned>>

(* Mutant of Forget: the map of assigned tasks is dropped, not emptied. *)
ForgetDropsMap(n) ==
  /\ nodes' = [nodes EXCEPT ![n] = {}]
  /\ offered' = [offered EXCEPT ![n] = {}]
  /\ signal' = [signal EXCEPT ![n] = FALSE]
  /\ assignerNodes' = [assignerNodes EXCEPT ![n] = {}]
  /\ assigned' = [m \in Node \ {n} |-> assigned[m]]

(* What dies with the process of n. *)
Forget(n) ==
  /\ nodes' = [nodes EXCEPT ![n] = {}]
  /\ offered' = [offered EXCEPT ![n] = {}]
  /\ signal' = [signal EXCEPT ![n] = FALSE]
  /\ assignerNodes' = [assignerNodes EXCEPT ![n] = {}]
  /\ assigned' = [assigned EXCEPT ![n] = {}]

(* A shutdown or a crash: the cron engine stops. *)
Die(n) ==
  /\ List!Die(n) /\ Spend
  /\ Forget(n)
  /\ UNCHANGED <<strategy, live>>

(* An instance outside the cluster stores a task, marks it as deleted or      *)
(* takes the mark back.  What such a call does at a node is in DcronNode.     *)
ChangeTask(t) ==
  /\ Spend
  /\ live' = IF t \in live THEN live \ {t} ELSE live \cup {t}
  /\ UNCHANGED <<strategy, up, working, nodes, offered, signal, assignerNodes, assigned>>

(* watchNodeEvent: an event or the ticker, and a list that has changed. *)
reloadNodes(n) ==
  /\ n \in up
  /\ nodes[n] # working
  /\ nodes' = [nodes EXCEPT ![n] = working]
  /\ signal' = [signal EXCEPT ![n] = TRUE]
  /\ UNCHANGED <<strategy, up, working, live, offered, assignerNodes, assigned, ops>>

(* watchTaskEvent and watchDeletedTaskEvent: every event and every tick sends *)
(* a signal, whether the reload has found anything new or not.                *)
reloadTasks(n) ==
  /\ n \in up
  /\ offered[n] # live \/ ~ signal[n]
  /\ offered' = [offered EXCEPT ![n] = live]
  /\ signal' = [signal EXCEPT ![n] = TRUE]
  /\ UNCHANGED <<strategy, up, working, live, nodes, assignerNodes, assigned, ops>>

(* Mutant of doRebalanced: the assigner is not given the new list. *)
doRebalancedKeepsNodes(n) ==
  /\ n \in up /\ signal[n]
  /\ signal' = [signal EXCEPT ![n] = FALSE]
  /\ LET list == IF assignerNodes[n] = {} THEN nodes[n] ELSE assignerNodes[n] IN
       /\ list # {} /\ ~ Panics(strategy, Sorted(list), offered[n])
       /\ assignerNodes' = [assignerNodes EXCEPT ![n] = list]
       /\ assigned' = [assigned EXCEPT
                         ![n] = {t \in offered[n] :
                                   ShouldRun(strategy, Sorted(list), t, offered[n], n)}]
  /\ UNCHANGED <<strategy, up, working, live, nodes, offered, ops>>

(* Mutant of doRebalanced: a task is never unassigned. *)
doRebalancedOnlyAdds(n) ==
  /\ n \in up /\ signal[n]
  /\ signal' = [signal EXCEPT ![n] = FALSE]
  /\ nodes[n] # {} /\ ~ Panics(strategy, Sorted(nodes[n]), offered[n])
  /\ assignerNodes' = [assignerNodes EXCEPT ![n] = nodes[n]]
  /\ assigned' = [assigned EXCEPT
       ![n] = @ \cup {t \in offered[n] :
                        ShouldRun(strategy, Sorted(nodes[n]), t, offered[n], n)}]
  /\ UNCHANGED <<strategy, up, working, live, nodes, offered, ops>>

doRebalanced(n) ==
  /\ n \in up /\ signal[n]
  /\ signal' = [signal EXCEPT ![n] = FALSE]
  /\ nodes[n] = {} \/ ~ Panics(strategy, Sorted(nodes[n]), offered[n])
  /\ IF nodes[n] = {}
     THEN UNCHANGED <<assignerNodes, assigned>>
     ELSE /\ assignerNodes' = [assignerNodes EXCEPT ![n] = nodes[n]]
          /\ assigned' = [assigned EXCEPT
               ![n] = {t \in offered[n] :
                         ShouldRun(strategy, Sorted(nodes[n]), t, offered[n], n)}]
  /\ UNCHANGED <<strategy, up, working, live, nodes, offered, ops>>

(* No node of the list has a weight: the process dies of a division by zero. *)
doRebalancedPanics(n) ==
  /\ n \in up /\ signal[n]
  /\ nodes[n] # {} /\ Panics(strategy, Sorted(nodes[n]), offered[n])
  /\ List!Die(n) /\ Forget(n)
  /\ UNCHANGED <<strategy, live, ops>>

Change ==
  \/ \E n \in Node : Start(n) \/ Join(n) \/ Die(n)
  \/ \E S \in SUBSET Node : Drop(S)
  \/ \E t \in Task : ChangeTask(t)

Work(n) ==
  reloadNodes(n) \/ reloadTasks(n) \/ doRebalanced(n) \/ doRebalancedPanics(n)

Next == Change \/ \E n \in Node : Work(n)

Spec == Init /\ [][Next]_vars

(* Go runs every ready goroutine, and the tickers keep ticking.  Nothing is   *)
(* assumed of starts, stops, crashes and changes.                             *)
Fairness ==
  \A n \in Node : /\ WF_vars(reloadNodes(n))
                  /\ WF_vars(reloadTasks(n))
                  /\ WF_vars(doRebalanced(n) \/ doRebalancedPanics(n))

FairSpec == Spec /\ Fairness

-----------------------------------------------------------------------------
(* The nodes that run t. *)
Runs(t) == {n \in up : t \in assigned[n]}

Settled ==
  /\ up = working /\ up # {}
  /\ \A n \in up : nodes[n] = working /\ offered[n] = live /\ ~ signal[n]

(* No task is lost between the nodes and none is scheduled twice: once every  *)
(* node has the current lists and no signal is left, each live task is        *)
(* scheduled on exactly one node, whatever the strategy and whatever crashes, *)
(* expiries and reloads came before.                                          *)
OwnedOnce ==
  Settled => /\ \A t \in live : Cardinality(Runs(t)) = 1
             /\ \A n \in up : assigned[n] \subseteq live

(* Even in the middle of a change: two nodes whose assigners hold the same    *)
(* list never schedule one task, although they may know different tasks.      *)
(* Round robin is the exception, its choice depends on the tasks offered.     *)
SameListDisjoint ==
  strategy # "round-robin" =>
    \A m, n \in up : /\ m # n
                     /\ assignerNodes[m] = assignerNodes[n]
                     => assigned[m] \cap assigned[n] = {}

(* Stability of the consistent and range strategies when nodes leave: a node  *)
(* that stays in the list keeps every task that it is offered again.          *)
SurvivorsKeepTasks ==
  [][\A n \in Node :
       /\ strategy \in {"consistent", "range"}
       /\ n \in up /\ n \in up'
       /\ n \in assignerNodes'[n]
       /\ assignerNodes'[n] \subseteq assignerNodes[n]
       => assigned[n] \cap offered'[n] \subseteq assigned'[n]]_vars

(* The hash slots of a list are spread as evenly as possible, and none is     *)
(* left without an owner.                                                     *)
SlotsEven ==
  strategy = "hash-slot" =>
    \A n \in up : assignerNodes[n] # {} =>
      LET slots == Slots(Sorted(assignerNodes[n]))
          count(m) == Cardinality({k \in DOMAIN slots : slots[k] = m})
      IN  /\ count(Nobody) = 0
          /\ \A l, m \in assignerNodes[n] : count(l) <= count(m) + 1

(* When the cluster comes to rest with every working node up, each live task  *)
(* ends up scheduled on exactly one node and stays there.                     *)
OwnedOnceForGood ==
  <>[](up = working /\ up # {}) => <>[](\A t \in live : Cardinality(Runs(t)) = 1)

=============================================================================
