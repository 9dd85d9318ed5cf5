---------------------------- MODULE NodeRegistry ----------------------------
(***************************************************************************)
(* The node half of the four registries (etcd.go, redis.go, consul.go,      *)
(* zookeeper.go): the records that stand for the nodes, and what each call  *)
(* does to them, one step per request to the backend.                        *)
(*                                                                         *)
(* An update of a node is a read, a change and a write.  etcd does it in    *)
(* one transaction; ZooKeeper writes only if the version is still the one   *)
(* it read; Redis removes the record that it read and adds another; Consul  *)
(* reads the service and registers it again.                                 *)
(***************************************************************************)
EXTENDS Naturals, FiniteSets, SequencesExt

CONSTANTS
  Node,
  Backends   \* the registries to look at

ASSUME BackendsAssumption == Backends \subseteq {"etcd", "redis", "consul", "zookeeper"}

VARIABLES
  backend,   \* the registry of the cluster
  records,   \* records[n]: its records of n, in the order of the Redis scores
  call       \* call[n][th]: the update of n's record under way in goroutine th

registryVars == <<backend, records, call>>

Status == {"starting", "working", "leaving"}

(* The goroutines of a node that write its record: Start, and heartbeat. *)
Thread == {"main", "beat"}

(* data tells two writes of one node apart: LastAlive, or the znode's version. *)
(* expires: the record goes when nothing is heard of its process.  Only an     *)
(* etcd key without a lease does not.                                          *)
(* fresh: heard of in time (the Consul check passes, the Redis score is young). *)
Record == [status : Status, data : Nat, expires : BOOLEAN, fresh : BOOLEAN]

Idle == [step |-> "none"]

(* The value that a call has read. *)
Value(r) == [status |-> r.status, data |-> r.data]

Call == {Idle} \cup [step : {"read", "removed"}, rec : [status : Status, data : Nat]]

RegistryTypeOK ==
  /\ backend \in Backends
  /\ records \in [Node -> Seq(Record)]
  /\ call \in [Node -> [Thread -> Call]]

-----------------------------------------------------------------------------
Has(n) == records[n] # <<>>

(* The record that a call for n works on: the znode created last, elsewhere    *)
(* the first that the scan finds.                                              *)
Target(n) == IF backend = "zookeeper" THEN Last(records[n]) ELSE Head(records[n])

(* The same stored value, whatever the backend has learnt about its age. *)
Same(r, s) == Value(r) = Value(s)

(* The records of s at the positions K, in their order: SelectSeq, in a form   *)
(* that TLAPS can reason about.                                                *)
Kept(s, K) ==
  [i \in 1 .. Cardinality(K) |-> s[CHOOSE k \in K : Cardinality({j \in K : j < k}) = i - 1]]

Without(n, r) == Kept(records[n], {k \in DOMAIN records[n] : ~ Same(r, records[n][k])})

Replaced(n, old, new) ==
  [k \in DOMAIN records[n] |-> IF Same(records[n][k], old) THEN new ELSE records[n][k]]

(* A LastAlive or a version that nothing has that is compared with it: the     *)
(* records but the one that is replaced, and the call of the other goroutine.  *)
NewData(n, th, replaced) ==
  LET calls == {t \in Thread \ {th} : call[n][t] # Idle}
      used == {r.data : r \in {s \in ToSet(records[n]) : ~ \E o \in replaced : Same(s, o)}}
              \cup {call[n][t].rec.data : t \in calls}
  IN  CHOOSE k \in 0 .. Cardinality(used) : k \notin used

(* Mutant of Registered: the status is left out. *)
RegisteredNoStatus(n) ==
  [status |-> "", data |-> NewData(n, "main", {}), expires |-> TRUE, fresh |-> TRUE]

(* Mutant of Registered: the node is working from the start. *)
RegisteredWorking(n) ==
  [status |-> "working", data |-> NewData(n, "main", {}), expires |-> TRUE, fresh |-> TRUE]

(* The node that Start hands to Register. *)
Registered(n) ==
  [status |-> "starting", data |-> NewData(n, "main", {}), expires |-> TRUE, fresh |-> TRUE]

Store(n, new) == records' = [records EXCEPT ![n] = new]

(* etcd and Consul keep one record for an id, Redis and ZooKeeper add another.  *)
(* A Consul check is critical at first.                                        *)
EtcdRegister(n) == Store(n, <<Registered(n)>>)
ConsulRegister(n) == Store(n, <<[Registered(n) EXCEPT !.fresh = FALSE]>>)
RedisRegister(n) == Store(n, Append(records[n], Registered(n)))
ZkRegister(n) == Store(n, Append(records[n], Registered(n)))

RegRegister(n) ==
  CASE backend = "etcd" -> EtcdRegister(n)
    [] backend = "redis" -> RedisRegister(n)
    [] backend = "consul" -> ConsulRegister(n)
    [] backend = "zookeeper" -> ZkRegister(n)

(* GetWorkingNodes; Consul leaves out the services whose check does not pass. *)
WithWorkingRecord == {n \in Node : \E r \in ToSet(records[n]) : r.status = "working"}

ConsulWorking == {n \in Node : \E r \in ToSet(records[n]) : r.status = "working" /\ r.fresh}

Working == IF backend = "consul" THEN ConsulWorking ELSE WithWorkingRecord

-----------------------------------------------------------------------------
(* What an update makes of r: UpdateStatus gives it a status, UpdateHeartbeat  *)
(* a new LastAlive.  The transaction of etcd writes the key without a lease.   *)
(* The health of a service that is registered again is the agent's choice.     *)
Updated(n, th, r, status) ==
  {[status |-> IF th = "main" THEN status ELSE r.status, data |-> NewData(n, th, {r}),
    expires |-> backend # "etcd", fresh |-> f] :
     f \in IF backend = "consul" THEN {FALSE} \cup {s.fresh : s \in ToSet(records[n])}
                                ELSE {TRUE}}

Answer == {"more", "ok", "error"}

GoOn(n, th, step, r) == call' = [call EXCEPT ![n][th] = [step |-> step, rec |-> r]]
Return(n, th) == call' = [call EXCEPT ![n][th] = Idle]

(* The update starts with a read, and fails if the node is not there. *)
Fetch(n, th, answer) ==
  /\ call[n][th] = Idle
  /\ IF Has(n) THEN answer = "more" /\ GoOn(n, th, "read", Value(Target(n)))
               ELSE answer = "error" /\ Return(n, th)
  /\ UNCHANGED records

(* Mutant of STM: a node that is not found is created. *)
STMCreates(n, th, status, answer) ==
  /\ answer = "ok"
  /\ \E r \in Updated(n, th, IF Has(n) THEN Value(Target(n))
                                     ELSE [status |-> "working", data |-> 0], status) :
       Store(n, <<r>>)
  /\ UNCHANGED call

(* etcd: read and write are one transaction, retried until it has no conflict. *)
STM(n, th, status, answer) ==
  /\ IF Has(n)
     THEN /\ answer = "ok"
          /\ \E r \in Updated(n, th, Target(n), status) : Store(n, Replaced(n, Target(n), r))
     ELSE answer = "error" /\ UNCHANGED records
  /\ UNCHANGED call

(* Redis: the record that was read is removed, if it is still there... *)
ZRem(n, th, answer) ==
  /\ call[n][th].step = "read" /\ answer = "more"
  /\ Store(n, Without(n, call[n][th].rec))
  /\ GoOn(n, th, "removed", call[n][th].rec)

(* ...and the changed one added with a new score. *)
ZAdd(n, th, status, answer) ==
  /\ call[n][th].step = "removed" /\ answer = "ok"
  /\ \E r \in Updated(n, th, call[n][th].rec, status) : Store(n, Append(records[n], r))
  /\ Return(n, th)

(* Mutant of ZkSet: the version is not compared. *)
ZkSetAnyVersion(n, th, status, answer) ==
  /\ call[n][th].step = "read"
  /\ IF Has(n)
     THEN /\ answer = "ok"
          /\ \E r \in Updated(n, th, call[n][th].rec, status) : Store(n, Replaced(n, Target(n), r))
     ELSE answer = "error" /\ UNCHANGED records
  /\ Return(n, th)

(* ZooKeeper: the write is refused if the version has changed. *)
ZkSet(n, th, status, answer) ==
  /\ call[n][th].step = "read"
  /\ LET old == call[n][th].rec IN
       IF \E r \in ToSet(records[n]) : Same(r, old)
       THEN /\ answer = "ok"
            /\ \E r \in Updated(n, th, old, status) : Store(n, Replaced(n, old, r))
       ELSE answer = "error" /\ UNCHANGED records
  /\ Return(n, th)

(* Consul: the service is stored again, even if it has gone since. *)
ServiceRegister(n, th, status, answer) ==
  /\ call[n][th].step = "read" /\ answer = "ok"
  /\ \E r \in Updated(n, th, call[n][th].rec, status) : Store(n, <<r>>)
  /\ Return(n, th)

(* Mutant of UpdateTTL: the check is not passed. *)
UpdateTTLNothing(n, answer) ==
  /\ answer = IF Has(n) THEN "ok" ELSE "error"
  /\ UNCHANGED <<records, call>>

(* Consul: UpdateHeartbeat and maintainSession only pass the check. *)
UpdateTTL(n, answer) ==
  /\ answer = IF Has(n) THEN "ok" ELSE "error"
  /\ Store(n, [k \in DOMAIN records[n] |-> [records[n][k] EXCEPT !.fresh = TRUE]])
  /\ UNCHANGED call

(* Consul: UpdateStatus reads the service, and registers it again. *)
ConsulUpdateStatus(n, status, answer) ==
  Fetch(n, "main", answer) \/ ServiceRegister(n, "main", status, answer)

RedisUpdateNodeField(n, th, status, answer) ==
  Fetch(n, th, answer) \/ ZRem(n, th, answer) \/ ZAdd(n, th, status, answer)

ZkUpdateNodeField(n, th, status, answer) ==
  Fetch(n, th, answer) \/ ZkSet(n, th, status, answer)

(* The next request of UpdateStatus(status), th = "main", or UpdateHeartbeat. *)
updateNodeField(n, th, status, answer) ==
  CASE backend = "etcd" -> STM(n, th, status, answer)
    [] backend = "redis" -> RedisUpdateNodeField(n, th, status, answer)
    [] backend = "zookeeper" -> ZkUpdateNodeField(n, th, status, answer)
    [] backend = "consul" /\ th = "main" -> ConsulUpdateStatus(n, status, answer)
    [] backend = "consul" /\ th = "beat" -> UpdateTTL(n, answer)

(* Unregister. *)
EtcdUnregister(n, answer) == answer = "ok" /\ Store(n, <<>>) /\ UNCHANGED call

ConsulUnregister(n, answer) == answer = "ok" /\ Store(n, <<>>) /\ UNCHANGED call

(* ZooKeeper deletes the znode that Register created... *)
ZkUnregister(n, answer) ==
  /\ IF Has(n) THEN answer = "ok" /\ Store(n, Without(n, Target(n)))
               ELSE answer = "error" /\ UNCHANGED records
  /\ UNCHANGED call

(* ...and Redis, in a second request, the first record that it has read. *)
RedisUnregister(n, answer) ==
  \/ Fetch(n, "main", answer)
  \/ /\ call[n]["main"] # Idle /\ answer = "ok"
     /\ Store(n, Without(n, call[n]["main"].rec))
     /\ Return(n, "main")

(* The next request of Unregister. *)
Unregister(n, answer) ==
  CASE backend = "etcd" -> EtcdUnregister(n, answer)
    [] backend = "redis" -> RedisUnregister(n, answer)
    [] backend = "consul" -> ConsulUnregister(n, answer)
    [] backend = "zookeeper" -> ZkUnregister(n, answer)

(* Mutant of CleanupExpiredNodes: Redis too is left to itself. *)
CleanupExpiredNodesNever == UNCHANGED records

(* Redis: what nobody has refreshed for the timeout; elsewhere nothing. *)
CleanupExpiredNodes ==
  records' = IF backend = "redis"
             THEN [n \in Node |->
                     Kept(records[n], {k \in DOMAIN records[n] : records[n][k].fresh})]
             ELSE records

(* Nothing has been heard of n in time: its lease or session ends, its check   *)
(* turns critical, its scores fall behind, the oldest first.                   *)
Lapse(n) ==
  \/ /\ backend \in {"etcd", "zookeeper"}
     /\ \E r \in ToSet(records[n]) : r.expires
     /\ Store(n, Kept(records[n], {k \in DOMAIN records[n] : ~ records[n][k].expires}))
  \/ /\ backend \in {"redis", "consul"}
     /\ \E k \in DOMAIN records[n] :
          /\ records[n][k].fresh /\ \A j \in 1 .. k - 1 : ~ records[n][j].fresh
          /\ records' = [records EXCEPT ![n][k].fresh = FALSE]

(* Consul: a service that has been critical for a minute is removed. *)
DeregisterCritical(n) ==
  /\ backend = "consul"
  /\ \E r \in ToSet(records[n]) : ~ r.fresh
  /\ Store(n, <<>>)

=============================================================================
