------------------------------ MODULE NodeLife ------------------------------
(***************************************************************************)
(* The life of the nodes of a cluster: Start, Stop and waitForShutdown      *)
(* (dcron.go, dcron_internal.go) and the heartbeat goroutine, over the node *)
(* half of a registry.  Calls may fail, processes may crash or be too slow  *)
(* to be heard of.                                                           *)
(***************************************************************************)
EXTENDS NodeRegistry

CONSTANTS
  Steady,      \* the nodes that have started before, and stay
  MaxStarts,   \* MaxStarts[b], bound: calls of Start by one process
  MaxTroubles  \* MaxTroubles[b], bound: requests that fail or whose answer is
               \* lost, and times that a running process is not heard of

ASSUME LifeAssumption ==
  /\ Steady \subseteq Node
  /\ MaxStarts \in [Backends -> Nat] /\ MaxTroubles \in [Backends -> Nat]

VARIABLES
  main,        \* main[n]: where the goroutine that called Start is
  beat,        \* beat[n]: where the heartbeat goroutine is
  running,     \* running[n]: dc.running
  closed,      \* closed[n]: dc.shutdownChan is closed
  cancelled,   \* cancelled[n]: dc.ctx is cancelled
  starts, troubles

lifeVars == <<main, beat, running, closed, cancelled, starts, troubles>>
vars == <<registryVars, lifeVars>>

(* "failed": Start has returned an error before its goroutines were started,   *)
(* "stuck": after.  "over": Start has returned.  "dead": there is no process.  *)
Main == {"idle", "registering", "preparing", "joining", "serving", "leaving", "draining",
         "unregistering", "cancelling", "over", "failed", "stuck", "dead"}

(* Every variable holds a value of its type. *)
TypeOK ==
  /\ RegistryTypeOK
  /\ main \in [Node -> Main]
  /\ beat \in [Node -> {"off", "waiting", "cleaning"}]
  /\ running \in [Node -> BOOLEAN] /\ closed \in [Node -> BOOLEAN]
  /\ cancelled \in [Node -> BOOLEAN]
  /\ starts \in [Node -> 0 .. MaxStarts[backend]]
  /\ troubles \in 0 .. MaxTroubles[backend]

(* The record of a node that serves. *)
Serving == [status |-> "working", data |-> 0, expires |-> backend # "etcd", fresh |-> TRUE]

Init ==
  /\ backend \in Backends
  /\ records = [n \in Node |-> IF n \in Steady THEN <<Serving>> ELSE <<>>]
  /\ call = [n \in Node |-> [th \in Thread |-> Idle]]
  /\ main = [n \in Node |-> IF n \in Steady THEN "serving" ELSE "idle"]
  /\ beat = [n \in Node |-> IF n \in Steady THEN "waiting" ELSE "off"]
  /\ running = [n \in Node |-> n \in Steady] /\ closed = [n \in Node |-> FALSE]
  /\ cancelled = [n \in Node |-> FALSE]
  /\ starts = [n \in Node |-> 0] /\ troubles = 0

Goto(n, where) == main' = [main EXCEPT ![n] = where]

Trouble == troubles < MaxTroubles[backend] /\ troubles' = troubles + 1

-----------------------------------------------------------------------------
(* Start while dc.running is set returns an error and changes nothing. *)
Start(n) ==
  /\ main[n] \in {"idle", "over", "failed", "stuck"} /\ ~ running[n]
  /\ starts[n] < MaxStarts[backend] /\ starts' = [starts EXCEPT ![n] = @ + 1]
  /\ running' = [running EXCEPT ![n] = TRUE]
  /\ Goto(n, "registering")
  /\ UNCHANGED <<registryVars, beat, closed, cancelled, troubles>>

(* The etcd and Redis clients refuse a cancelled context, the others ignore it. *)
CtxOK(n) == cancelled[n] => backend \in {"consul", "zookeeper"}

Register(n) ==
  /\ main[n] = "registering" /\ CtxOK(n)
  /\ RegRegister(n)
  /\ Goto(n, "preparing")
  /\ UNCHANGED <<backend, call, beat, running, closed, cancelled, starts, troubles>>

(* Start returns the error and leaves dc.running set. *)
RegisterFails(n) ==
  /\ main[n] = "registering"
  /\ \/ ~ CtxOK(n) /\ UNCHANGED <<records, troubles>>
     \/ CtxOK(n) /\ Trouble /\ (UNCHANGED records \/ RegRegister(n))
  /\ Goto(n, "failed")
  /\ UNCHANGED <<backend, call, beat, running, closed, cancelled, starts>>

(* prepareWork, asyncWork and cr.Start.  On a cancelled context the goroutines *)
(* return at once.                                                             *)
asyncWork(n) ==
  /\ main[n] = "preparing"
  /\ Goto(n, "joining")
  /\ beat' = [beat EXCEPT ![n] = IF cancelled[n] \/ @ # "off" THEN @ ELSE "waiting"]
  /\ UNCHANGED <<registryVars, running, closed, cancelled, starts, troubles>>

(* Where Start and waitForShutdown go when a call has been answered.  Only the *)
(* error of UpdateStatus(working) is not just logged.                          *)
After(where, answer) ==
  CASE where = "joining" -> IF answer = "ok" THEN "serving" ELSE "stuck"
    [] where = "leaving" -> "draining"
    [] where = "unregistering" -> "cancelling"

Proceed(n, answer) == Goto(n, IF answer = "more" THEN main[n] ELSE After(main[n], answer))

Request(n, answer) ==
  CASE main[n] = "joining" -> updateNodeField(n, "main", "working", answer)
    [] main[n] = "leaving" -> updateNodeField(n, "main", "leaving", answer)
    [] main[n] = "unregistering" -> Unregister(n, answer)

Calling(n) == main[n] \in {"joining", "leaving", "unregistering"}

(* UpdateStatus and Unregister, one request at a time. *)
MainCall(n) ==
  /\ Calling(n) /\ CtxOK(n)
  /\ \E answer \in Answer : Request(n, answer) /\ Proceed(n, answer)
  /\ UNCHANGED <<backend, beat, running, closed, cancelled, starts, troubles>>

(* The request is lost, or it is the last and its answer is. *)
MainCallFails(n) ==
  /\ Calling(n) /\ Trouble
  /\ \/ UNCHANGED records /\ Return(n, "main")
     \/ CtxOK(n) /\ Request(n, "ok")
  /\ Proceed(n, "error")
  /\ UNCHANGED <<backend, beat, running, closed, cancelled, starts>>

(* waitForShutdown: a signal of the operating system, or the closed channel. *)
Signal(n) ==
  /\ main[n] = "serving"
  /\ Goto(n, "leaving")
  /\ UNCHANGED <<registryVars, beat, running, closed, cancelled, starts, troubles>>

(* Mutant of ShutdownChan: only signals are heard. *)
ShutdownChanIgnored(n) == closed[n] /\ Signal(n) /\ n \in Steady

ShutdownChan(n) == closed[n] /\ Signal(n)

(* cr.Stop, and the wait for the jobs that run. *)
Drain(n) ==
  /\ main[n] = "draining"
  /\ Goto(n, "unregistering")
  /\ UNCHANGED <<registryVars, beat, running, closed, cancelled, starts, troubles>>

(* dc.cancel. *)
Cancel(n) ==
  /\ main[n] = "cancelling"
  /\ Goto(n, "over")
  /\ cancelled' = [cancelled EXCEPT ![n] = TRUE]
  /\ UNCHANGED <<registryVars, beat, running, closed, starts, troubles>>

(* Stop when dc.running is not set returns an error and changes nothing. *)
Stop(n) ==
  /\ main[n] # "dead" /\ running[n] /\ ~ closed[n]
  /\ running' = [running EXCEPT ![n] = FALSE]
  /\ closed' = [closed EXCEPT ![n] = TRUE]
  /\ UNCHANGED <<registryVars, main, beat, cancelled, starts, troubles>>

(* What goes with the process. *)
Dies(n) ==
  /\ Goto(n, "dead")
  /\ running' = [running EXCEPT ![n] = FALSE]
  /\ closed' = [closed EXCEPT ![n] = FALSE]
  /\ cancelled' = [cancelled EXCEPT ![n] = FALSE]
  /\ beat' = [beat EXCEPT ![n] = "off"]
  /\ call' = [call EXCEPT ![n] = [th \in Thread |-> Idle]]

(* A second Stop, after a second Start, closes the channel again: a panic. *)
StopPanics(n) ==
  /\ main[n] # "dead" /\ running[n] /\ closed[n]
  /\ Dies(n)
  /\ UNCHANGED <<backend, records, starts, troubles>>

(* The process ends, at any point. *)
Crash(n) ==
  /\ main[n] \notin {"idle", "dead"}
  /\ Dies(n)
  /\ UNCHANGED <<backend, records, starts, troubles>>

-----------------------------------------------------------------------------
(* Redis' calls need the context; the update of etcd does not have it. *)
BeatCtxOK(n) == cancelled[n] => backend # "redis"

(* heartbeat: UpdateHeartbeat, an error of which is logged... *)
UpdateHeartbeat(n) ==
  /\ beat[n] = "waiting" /\ BeatCtxOK(n)
  /\ \E answer \in Answer :
       /\ updateNodeField(n, "beat", "", answer)
       /\ beat' = [beat EXCEPT ![n] = IF answer = "more" THEN @ ELSE "cleaning"]
  /\ UNCHANGED <<backend, main, running, closed, cancelled, starts, troubles>>

UpdateHeartbeatFails(n) ==
  /\ beat[n] = "waiting" /\ Trouble
  /\ Return(n, "beat")
  /\ beat' = [beat EXCEPT ![n] = "cleaning"]
  /\ UNCHANGED <<backend, records, main, running, closed, cancelled, starts>>

(* ...and CleanupExpiredNodes. *)
heartbeat(n) ==
  /\ beat[n] = "cleaning" /\ BeatCtxOK(n)
  /\ CleanupExpiredNodes
  /\ beat' = [beat EXCEPT ![n] = "waiting"]
  /\ UNCHANGED <<backend, call, main, running, closed, cancelled, starts, troubles>>

(* The context is cancelled: the goroutine returns, when the calls that it has *)
(* under way are over; those of Redis fail.                                    *)
heartbeatReturns(n) ==
  /\ cancelled[n] /\ beat[n] # "off"
  /\ BeatCtxOK(n) => beat[n] = "waiting" /\ call[n]["beat"] = Idle
  /\ Return(n, "beat")
  /\ beat' = [beat EXCEPT ![n] = "off"]
  /\ UNCHANGED <<backend, records, main, running, closed, cancelled, starts, troubles>>

(* n refreshes nothing any more.  A ZooKeeper session lives as long as the     *)
(* process, the others end with the context.                                   *)
Silent(n) ==
  main[n] = "dead" \/ (main[n] = "over" /\ beat[n] = "off" /\ backend # "zookeeper")

Forget(n) == Lapse(n) \/ DeregisterCritical(n)

ForgetSilent(n) ==
  /\ Silent(n) /\ Forget(n)
  /\ UNCHANGED <<backend, call, lifeVars>>

(* A running process is too slow, or cut off from the backend. *)
ForgetSlow(n) ==
  /\ ~ Silent(n) /\ Forget(n)
  /\ Trouble
  /\ UNCHANGED <<backend, call, main, beat, running, closed, cancelled, starts>>

-----------------------------------------------------------------------------
MainStep(n) ==
  \/ Register(n) \/ RegisterFails(n) \/ asyncWork(n)
  \/ MainCall(n) \/ MainCallFails(n)
  \/ ShutdownChan(n) \/ Drain(n) \/ Cancel(n)

BeatStep(n) ==
  UpdateHeartbeat(n) \/ UpdateHeartbeatFails(n) \/ heartbeat(n) \/ heartbeatReturns(n)

Environment(n) ==
  Start(n) \/ Stop(n) \/ StopPanics(n) \/ Signal(n) \/ Crash(n) \/ ForgetSlow(n)

Next ==
  \/ \E n \in Node : MainStep(n) \/ BeatStep(n) \/ ForgetSilent(n)
  \/ \E n \in Node \ Steady : Environment(n)

Spec == Init /\ [][Next]_vars

(* Go runs the goroutines, jobs end, the ticker ticks and the backends forget  *)
(* who is silent.  Nothing is assumed of calls, signals, crashes and delays.   *)
Fairness ==
  \A n \in Node : /\ WF_vars(MainStep(n))
                  /\ WF_vars(BeatStep(n))
                  /\ WF_vars(ForgetSilent(n))

FairSpec == Spec /\ Fairness

-----------------------------------------------------------------------------
(* The nodes whose goroutines run. *)
Up == {n \in Node : \/ beat[n] # "off"
                    \/ main[n] \in {"joining", "serving", "leaving", "draining",
                                    "unregistering", "cancelling", "stuck"}}

(* The list that GetWorkingNodes returns changes as Membership says, with       *)
(* every registry and whatever fails: a process that is gone never enters it,   *)
(* and no step brings two nodes in.                                             *)
List == INSTANCE Membership WITH up <- Up, working <- Working
ImplementsMembership == List!Spec

Rank(status) == CASE status = "starting" -> 0 [] status = "working" -> 1 [] status = "leaving" -> 2

(* A status that UpdateStatus has written is not undone: until a node          *)
(* registers again, its status only goes from starting to working to leaving.  *)
(* With Redis a heartbeat that has read the record before does undo it, or     *)
(* leaves a second record behind, and nothing but that leads to it.            *)
StatusKept ==
  [][\A n \in Node :
       /\ Has(n) /\ Has(n)'
       /\ main[n] \notin {"registering", "unregistering"}
       /\ backend = "redis" => call[n]["beat"] = Idle /\ Len(records[n]) = 1
       => Rank(Target(n).status) <= Rank(Target(n)'.status)]_vars

(* A node that has been removed, by Unregister or by the backend, is not       *)
(* brought back by a call that was under way, unless it registers again (etcd  *)
(* and ZooKeeper; the others store what they have read).                        *)
GoneStaysGone ==
  [][\A n \in Node :
       /\ backend \in {"etcd", "zookeeper"}
       /\ ~ Has(n) /\ Has(n)'
       => main[n] = "registering"]_vars

(* The cleanup that etcd.go:47 and the comments of CleanupExpiredNodes promise: *)
(* where a steady node lives, the record of a dead one goes.                    *)
CrashedForgotten ==
  Steady # {} => \A n \in Node \ Steady : main[n] = "dead" ~> ~ Has(n)

(* ...with every registry but etcd. *)
DeadForgotten ==
  Steady # {} => \A n \in Node \ Steady : (main[n] = "dead" /\ backend # "etcd") ~> ~ Has(n)

(* A node that serves, no call of which failed and which was heard of in time,  *)
(* is listed as working again and again: the heartbeats do not lose it.         *)
ServingListed ==
  \A n \in Node \ Steady : []<>(main[n] = "serving" /\ troubles = 0 => n \in Working)

(* Stop ends the service unless Start has failed: the channel is closed before *)
(* or while Start waits for it, and both ways it shuts down.                    *)
StopEnds ==
  \A n \in Node \ Steady : closed[n] ~> main[n] \in {"over", "dead", "failed", "stuck"}

=============================================================================
