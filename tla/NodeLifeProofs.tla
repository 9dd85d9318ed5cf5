--------------------------- MODULE NodeLifeProofs ---------------------------
(* What NodeLife keeps for every set of nodes, each of the four registries    *)
(* and any number of starts, crashes, lost requests and late heartbeats.      *)
EXTENDS NodeLife, Ranks

-----------------------------------------------------------------------------
(* The operators of the registry. *)

(* Kept yields a sequence of elements of s, each from a position of K. *)
LEMMA KeptType ==
  ASSUME NEW S, NEW s \in Seq(S), NEW K \in SUBSET DOMAIN s
  PROVE  /\ Kept(s, K) \in Seq(S)
         /\ \A i \in DOMAIN Kept(s, K) : \E k \in K : Kept(s, K)[i] = s[k]
         /\ K = {} => Kept(s, K) = <<>>
         /\ Len(s) = 1 /\ K # {} => Kept(s, K) = s
  <1> DEFINE c == Cardinality(K)
             At(i) == CHOOSE k \in K : Cardinality({j \in K : j < k}) = i - 1
             r == Kept(s, K)
  <1>1. DOMAIN s = 1 .. Len(s) /\ Len(s) \in Nat
    OBVIOUS
  <1>2. IsFiniteSet(DOMAIN s)
    BY <1>1, FS_Interval
  <1>3. IsFiniteSet(K) /\ K \in SUBSET Nat
    BY <1>1, <1>2, FS_Subset
  <1>4. c \in Nat /\ (c = 0 <=> K = {})
    BY <1>3, FS_CardinalityType, FS_EmptySet
  <1>5. \A i \in 1 .. c : At(i) \in K
    <2> SUFFICES ASSUME NEW i \in 1 .. c PROVE At(i) \in K
      OBVIOUS
    <2>1. i - 1 \in 0 .. c - 1
      BY <1>4
    <2>2. \E k \in K : Cardinality({j \in K : j < k}) = i - 1
      BY <1>3, <2>1, RankOnto DEF RankIn
    <2> QED
      BY <2>2
  <1>6. r = [i \in 1 .. c |-> s[At(i)]]
    BY DEF Kept
  <1> HIDE DEF At, r, c
  <1>7. \A i \in 1 .. c : s[At(i)] \in S
    BY <1>5
  <1>8. r \in Seq(S)
    BY <1>4, <1>6, <1>7
  <1>9. \A i \in DOMAIN r : \E k \in K : r[i] = s[k]
    BY <1>5, <1>6
  <1>10. K = {} => r = <<>>
    BY <1>4, <1>6
  <1>11. ASSUME Len(s) = 1, K # {} PROVE r = s
    <2>1. K = {1}
      BY <1>1, <1>11
    <2>2. c = 1
      BY <2>1, FS_Singleton DEF c
    <2>3. At(1) = 1
      BY <1>5, <2>1, <2>2
    <2>4. r = [i \in 1 .. 1 |-> s[i]]
      BY <1>6, <2>2, <2>3
    <2> QED
      BY <1>1, <1>11, <2>4
  <1> QED
    BY <1>8, <1>9, <1>10, <1>11 DEF r

(* There is always a LastAlive or a version that is not in use. *)
LEMMA NewDataType ==
  ASSUME RegistryTypeOK, NEW n \in Node, NEW th \in Thread, NEW replaced
  PROVE  NewData(n, th, replaced) \in Nat
  <1> DEFINE P == {k \in DOMAIN records[n] : ~ \E o \in replaced : Same(records[n][k], o)}
             D == {records[n][k].data : k \in P}
             f == [k \in P |-> records[n][k].data]
             calls == {t \in Thread \ {th} : call[n][t] # Idle}
             E == {call[n][t].rec.data : t \in calls}
             g == [t \in calls |-> call[n][t].rec.data]
             used == {r.data : r \in {s \in ToSet(records[n]) :
                                        ~ \E o \in replaced : Same(s, o)}}
                     \cup {call[n][t].rec.data : t \in calls}
  <1>1. used = D \cup E
    BY DEF ToSet
  <1>2. IsFiniteSet(D)
    <2>1. records[n] \in Seq(Record)
      BY DEF RegistryTypeOK
    <2>2. PICK m \in Nat : DOMAIN records[n] = 1 .. m
      BY <2>1
    <2>3. IsFiniteSet(DOMAIN records[n])
      <3>1. IsFiniteSet(1 .. m)
        BY FS_Interval
      <3> QED
        BY <2>2, <3>1
    <2>4. IsFiniteSet(P)
      BY <2>3, FS_Subset
    <2>5. f \in Surjection(P, D)
      BY DEF Surjection
    <2> HIDE DEF f, P, D
    <2> QED
      BY <2>4, <2>5, FS_Surjection
  <1>3. IsFiniteSet(E)
    <2>1. IsFiniteSet(Thread)
      <3>1. IsFiniteSet({"main"})
        BY FS_Singleton
      <3>2. IsFiniteSet({"main"} \cup {"beat"})
        BY <3>1, FS_AddElement
      <3>3. Thread = {"main"} \cup {"beat"}
        BY DEF Thread
      <3> QED
        BY <3>2, <3>3
    <2>2. IsFiniteSet(calls)
      BY <2>1, FS_Subset
    <2>3. g \in Surjection(calls, E)
      BY DEF Surjection
    <2> HIDE DEF g, calls, E
    <2> QED
      BY <2>2, <2>3, FS_Surjection
  <1>4. IsFiniteSet(used) /\ Cardinality(used) \in Nat
    <2> HIDE DEF D, E, used
    <2> QED
      BY <1>1, <1>2, <1>3, FS_Union, FS_CardinalityType
  <1>5. NewData(n, th, replaced) = CHOOSE k \in 0 .. Cardinality(used) : k \notin used
    BY DEF NewData
  <1> HIDE DEF used
  <1>6. \E k \in 0 .. Cardinality(used) : k \notin used
    <2> DEFINE N == 0 .. Cardinality(used)
    <2> SUFFICES ASSUME N \subseteq used PROVE FALSE
      OBVIOUS
    <2>1. Cardinality(N) <= Cardinality(used)
      <3> HIDE DEF N
      <3> QED
        BY <1>4, FS_Subset
    <2>2. Cardinality(N) = Cardinality(used) + 1
      <3>1. 0 \in Int /\ Cardinality(used) \in Int
        BY <1>4
      <3>2. Cardinality(N) = IF 0 > Cardinality(used) THEN 0 ELSE Cardinality(used) - 0 + 1
        BY <3>1, FS_Interval
      <3> HIDE DEF N
      <3> QED
        BY <1>4, <3>2
    <2> HIDE DEF N
    <2> QED
      BY <1>4, <2>1, <2>2
  <1> QED
    BY <1>4, <1>5, <1>6

-----------------------------------------------------------------------------
(* What the requests do to the records: each changes those of one node only. *)

(* n's records become those of some sequence, the others stay. *)
OnlyOf(n) == \E s \in Seq(Record) : records' = [records EXCEPT ![n] = s]

(* The record that Start registers. *)
LEMMA RegisteredType ==
  ASSUME RegistryTypeOK, NEW n \in Node
  PROVE  Registered(n) \in Record /\ Registered(n).status = "starting" /\ Registered(n).expires
  <1>1. NewData(n, "main", {}) \in Nat
    BY NewDataType DEF Thread
  <1> QED
    BY <1>1 DEF Registered, Record, Status

(* The records that an update may write. *)
LEMMA UpdatedType ==
  ASSUME RegistryTypeOK, NEW n \in Node, NEW th \in Thread, NEW r, NEW status,
         r.status \in Status, th = "main" => status \in Status,
         NEW u \in Updated(n, th, r, status)
  PROVE  /\ u \in Record /\ u.expires = (backend # "etcd")
         /\ u.status = IF th = "main" THEN status ELSE r.status
  <1> DEFINE d == NewData(n, th, {r})
             F == IF backend = "consul" THEN {FALSE} \cup {s.fresh : s \in ToSet(records[n])}
                                        ELSE {TRUE}
  <1>1. d \in Nat
    BY NewDataType
  <1>2. F \subseteq BOOLEAN
    <2>1. \A k \in DOMAIN records[n] : records[n][k] \in Record
      BY DEF RegistryTypeOK
    <2>2. \A k \in DOMAIN records[n] : records[n][k].fresh \in BOOLEAN
      BY <2>1 DEF Record
    <2>3. {s.fresh : s \in ToSet(records[n])} \subseteq BOOLEAN
      BY <2>2 DEF ToSet
    <2> QED
      BY <2>3
  <1>3. PICK f \in F : u = [status |-> IF th = "main" THEN status ELSE r.status, data |-> d,
                            expires |-> backend # "etcd", fresh |-> f]
    BY DEF Updated
  <1> HIDE DEF d, F
  <1> QED
    BY <1>1, <1>2, <1>3 DEF Record

(* The record that a call works on is one of the node's. *)
LEMMA TargetType ==
  ASSUME RegistryTypeOK, NEW n \in Node, Has(n)
  PROVE  Target(n) \in Record /\ \E k \in DOMAIN records[n] : Target(n) = records[n][k]
  <1>1. records[n] \in Seq(Record) /\ records[n] # <<>>
    BY DEF RegistryTypeOK, Has
  <1>2. /\ Len(records[n]) \in DOMAIN records[n] /\ 1 \in DOMAIN records[n]
        /\ Head(records[n]) = records[n][1]
        /\ \A k \in DOMAIN records[n] : records[n][k] \in Record
    BY <1>1
  <1> QED
    BY <1>2 DEF Target, Last

(* Without and Replaced yield sequences of records. *)
LEMMA EditType ==
  ASSUME RegistryTypeOK, NEW n \in Node
  PROVE  /\ \A r : Without(n, r) \in Seq(Record)
         /\ \A old : \A new \in Record : Replaced(n, old, new) \in Seq(Record)
  <1>1. records[n] \in Seq(Record)
    BY DEF RegistryTypeOK
  <1>2. \A r : Without(n, r) \in Seq(Record)
    BY <1>1, KeptType DEF Without
  <1>3. ASSUME NEW old, NEW new \in Record PROVE Replaced(n, old, new) \in Seq(Record)
    <2>1. PICK m \in Nat : DOMAIN records[n] = 1 .. m
      BY <1>1
    <2>2. \A k \in 1 .. m : records[n][k] \in Record
      BY <1>1, <2>1
    <2> QED
      BY <2>1, <2>2 DEF Replaced
  <1> QED
    BY <1>2, <1>3

(* The types after a step that stores some records of n. *)
LEMMA StoreType ==
  ASSUME RegistryTypeOK, NEW n \in Node, OnlyOf(n)
  PROVE  records' \in [Node -> Seq(Record)] /\ \A m \in Node \ {n} : records'[m] = records[m]
  BY DEF RegistryTypeOK, OnlyOf

(* Register. *)
LEMMA RegRegisterType ==
  ASSUME RegistryTypeOK, NEW n \in Node, RegRegister(n)
  PROVE  OnlyOf(n)
  <1>1. Registered(n) \in Record
    BY RegisteredType
  <1>2. /\ <<Registered(n)>> \in Seq(Record)
        /\ <<[Registered(n) EXCEPT !.fresh = FALSE]>> \in Seq(Record)
        /\ Append(records[n], Registered(n)) \in Seq(Record)
    <2>1. [Registered(n) EXCEPT !.fresh = FALSE] \in Record
      BY <1>1 DEF Record
    <2>2. records[n] \in Seq(Record)
      BY DEF RegistryTypeOK
    <2> QED
      BY <1>1, <2>1, <2>2
  <1>3. backend \in {"etcd", "redis", "consul", "zookeeper"}
    BY BackendsAssumption DEF RegistryTypeOK
  <1> QED
    BY <1>2, <1>3 DEF RegRegister, EtcdRegister, ConsulRegister, RedisRegister, ZkRegister,
       Store, OnlyOf

(* What a call has in its hands. *)
LEMMA CallType ==
  ASSUME RegistryTypeOK, NEW n \in Node, NEW th \in Thread,
         call[n][th].step \in {"read", "removed"}
  PROVE  call[n][th].rec \in [status : Status, data : Nat]
  <1>1. call[n][th] \in Call
    BY DEF RegistryTypeOK
  <1>2. call[n][th] # Idle
    BY DEF Idle
  <1> QED
    BY <1>1, <1>2 DEF Call

(* Steps of a call. *)
LEMMA GoOnType ==
  ASSUME RegistryTypeOK, NEW n \in Node, NEW th \in Thread
  PROVE  /\ Return(n, th) => call' \in [Node -> [Thread -> Call]]
         /\ \A step \in {"read", "removed"} : \A r \in [status : Status, data : Nat] :
              GoOn(n, th, step, r) => call' \in [Node -> [Thread -> Call]]
  <1>1. call \in [Node -> [Thread -> Call]]
    BY DEF RegistryTypeOK
  <1>2. Idle \in Call
    BY DEF Call
  <1>3. \A step \in {"read", "removed"} : \A r \in [status : Status, data : Nat] :
          [step |-> step, rec |-> r] \in Call
    BY DEF Call
  <1>4. \A c \in Call : [call EXCEPT ![n][th] = c] \in [Node -> [Thread -> Call]]
    BY <1>1
  <1>5. Return(n, th) => call' \in [Node -> [Thread -> Call]]
    BY <1>2, <1>4 DEF Return
  <1>6. ASSUME NEW step \in {"read", "removed"}, NEW r \in [status : Status, data : Nat],
               GoOn(n, th, step, r)
        PROVE  call' \in [Node -> [Thread -> Call]]
    BY <1>3, <1>4, <1>6, Zenon DEF GoOn
  <1> QED
    BY <1>5, <1>6

(* The first request of an update. *)
LEMMA FetchType ==
  ASSUME RegistryTypeOK, NEW n \in Node, NEW th \in Thread, NEW answer, Fetch(n, th, answer)
  PROVE  records' = records /\ call' \in [Node -> [Thread -> Call]]
  <1>1. CASE Has(n)
    <2>1. Value(Target(n)) \in [status : Status, data : Nat]
      BY <1>1, TargetType DEF Value, Record
    <2> QED
      BY <1>1, <2>1, GoOnType DEF Fetch
  <1>2. CASE ~ Has(n)
    BY <1>2, GoOnType DEF Fetch
  <1> QED
    BY <1>1, <1>2

(* The transaction of etcd. *)
LEMMA STMType ==
  ASSUME RegistryTypeOK, NEW n \in Node, NEW th \in Thread, NEW status, NEW answer,
         th = "main" => status \in Status, STM(n, th, status, answer)
  PROVE  OnlyOf(n) /\ call' = call
  <1>1. CASE Has(n)
    <2>1. PICK r \in Updated(n, th, Target(n), status) :
            Store(n, Replaced(n, Target(n), r))
      BY <1>1 DEF STM
    <2>2. Target(n).status \in Status
      BY <1>1, TargetType DEF Record
    <2>3. r \in Record
      BY <2>1, <2>2, UpdatedType
    <2>4. Replaced(n, Target(n), r) \in Seq(Record)
      BY <2>3, EditType
    <2> QED
      BY <2>1, <2>4 DEF Store, OnlyOf, STM
  <1>2. CASE ~ Has(n)
    BY <1>2 DEF STM, OnlyOf, RegistryTypeOK
  <1> QED
    BY <1>1, <1>2

(* The requests that follow on the read of an update. *)
LEMMA WriteType ==
  ASSUME RegistryTypeOK, NEW n \in Node, NEW th \in Thread, NEW status, NEW answer,
         th = "main" => status \in Status,
         \/ ZRem(n, th, answer) \/ ZAdd(n, th, status, answer)
         \/ ZkSet(n, th, status, answer) \/ ServiceRegister(n, th, status, answer)
  PROVE  OnlyOf(n) /\ call' \in [Node -> [Thread -> Call]]
  <1> DEFINE old == call[n][th].rec
  <1>1. call[n][th].step \in {"read", "removed"}
    BY DEF ZRem, ZAdd, ZkSet, ServiceRegister
  <1>2. old \in [status : Status, data : Nat] /\ old.status \in Status
    BY <1>1, CallType
  <1> HIDE DEF old
  <1>3. \A r \in Updated(n, th, old, status) : r \in Record
    BY <1>2, UpdatedType
  <1>4. records[n] \in Seq(Record) /\ records \in [Node -> Seq(Record)]
    BY DEF RegistryTypeOK
  <1>5. CASE ZRem(n, th, answer)
    BY <1>2, <1>5, EditType, GoOnType DEF ZRem, Store, OnlyOf, old
  <1>6. CASE ZAdd(n, th, status, answer)
    <2>1. PICK r \in Updated(n, th, old, status) : Store(n, Append(records[n], r))
      BY <1>6 DEF ZAdd, old
    <2>2. Append(records[n], r) \in Seq(Record)
      BY <1>3, <1>4
    <2>3. Return(n, th)
      BY <1>6 DEF ZAdd
    <2> QED
      BY <2>1, <2>2, <2>3, GoOnType DEF Store, OnlyOf
  <1>7. CASE ZkSet(n, th, status, answer)
    <2>1. Return(n, th)
      BY <1>7 DEF ZkSet
    <2>2. CASE records' = records
      BY <1>4, <2>1, <2>2, GoOnType DEF OnlyOf
    <2>3. CASE \E r \in Updated(n, th, old, status) : Store(n, Replaced(n, old, r))
      <3>1. PICK r \in Updated(n, th, old, status) : Store(n, Replaced(n, old, r))
        BY <2>3
      <3>2. Replaced(n, old, r) \in Seq(Record)
        BY <1>3, EditType
      <3> QED
        BY <2>1, <3>1, <3>2, GoOnType DEF Store, OnlyOf
    <2> QED
      BY <1>7, <2>2, <2>3 DEF ZkSet, old
  <1>8. CASE ServiceRegister(n, th, status, answer)
    <2>1. PICK r \in Updated(n, th, old, status) : Store(n, <<r>>)
      BY <1>8 DEF ServiceRegister, old
    <2>2. <<r>> \in Seq(Record)
      BY <1>3
    <2>3. Return(n, th)
      BY <1>8 DEF ServiceRegister
    <2> QED
      BY <2>1, <2>2, <2>3, GoOnType DEF Store, OnlyOf
  <1> QED
    BY <1>5, <1>6, <1>7, <1>8

(* A passed check. *)
LEMMA TTLType ==
  ASSUME RegistryTypeOK, NEW n \in Node, NEW answer, UpdateTTL(n, answer)
  PROVE  OnlyOf(n) /\ call' = call
  <1> DEFINE s == [k \in DOMAIN records[n] |-> [records[n][k] EXCEPT !.fresh = TRUE]]
  <1>1. records[n] \in Seq(Record)
    BY DEF RegistryTypeOK
  <1>2. PICK m \in Nat : DOMAIN records[n] = 1 .. m
    BY <1>1
  <1>3. \A k \in 1 .. m : records[n][k] \in Record
    BY <1>1, <1>2
  <1>4. \A k \in 1 .. m : [records[n][k] EXCEPT !.fresh = TRUE] \in Record
    BY <1>3 DEF Record
  <1>5. s \in Seq(Record)
    BY <1>2, <1>4
  <1> HIDE DEF s
  <1> QED
    BY <1>5 DEF UpdateTTL, Store, OnlyOf, s

(* Any request of an update. *)
LEMMA UpdateFieldType ==
  ASSUME RegistryTypeOK, NEW n \in Node, NEW th \in Thread, NEW status, NEW answer,
         th = "main" => status \in Status, updateNodeField(n, th, status, answer)
  PROVE  OnlyOf(n) /\ call' \in [Node -> [Thread -> Call]]
  <1>1. backend \in {"etcd", "redis", "consul", "zookeeper"} /\ th \in {"main", "beat"}
    BY BackendsAssumption DEF RegistryTypeOK, Thread
  <1>2. call \in [Node -> [Thread -> Call]] /\ records \in [Node -> Seq(Record)]
    BY DEF RegistryTypeOK
  <1>3. CASE STM(n, th, status, answer)
    BY <1>2, <1>3, STMType
  <1>4. CASE Fetch(n, th, answer)
    BY <1>2, <1>4, FetchType DEF OnlyOf
  <1>5. CASE UpdateTTL(n, answer)
    BY <1>2, <1>5, TTLType
  <1>6. CASE \/ ZRem(n, th, answer) \/ ZAdd(n, th, status, answer)
             \/ ZkSet(n, th, status, answer) \/ ServiceRegister(n, th, status, answer)
    BY <1>6, WriteType
  <1> QED
    BY <1>1, <1>3, <1>4, <1>5, <1>6 DEF updateNodeField, RedisUpdateNodeField,
       ZkUpdateNodeField, ConsulUpdateStatus

(* Any request of Unregister. *)
LEMMA UnregisterType ==
  ASSUME RegistryTypeOK, NEW n \in Node, NEW answer, Unregister(n, answer)
  PROVE  OnlyOf(n) /\ call' \in [Node -> [Thread -> Call]]
  <1>1. backend \in {"etcd", "redis", "consul", "zookeeper"} /\ "main" \in Thread
    BY BackendsAssumption DEF RegistryTypeOK, Thread
  <1>2. /\ call \in [Node -> [Thread -> Call]] /\ records \in [Node -> Seq(Record)]
        /\ <<>> \in Seq(Record)
    BY DEF RegistryTypeOK
  <1>3. CASE EtcdUnregister(n, answer) \/ ConsulUnregister(n, answer)
    BY <1>2, <1>3 DEF EtcdUnregister, ConsulUnregister, Store, OnlyOf
  <1>4. CASE ZkUnregister(n, answer)
    BY <1>2, <1>4, EditType DEF ZkUnregister, Store, OnlyOf
  <1>5. CASE Fetch(n, "main", answer)
    BY <1>1, <1>2, <1>5, FetchType DEF OnlyOf
  <1>6. CASE Store(n, Without(n, call[n]["main"].rec)) /\ Return(n, "main")
    BY <1>1, <1>6, EditType, GoOnType DEF Store, OnlyOf
  <1> QED
    BY <1>1, <1>3, <1>4, <1>5, <1>6 DEF Unregister, RedisUnregister

(* A backend that forgets a node. *)
LEMMA ForgetType ==
  ASSUME RegistryTypeOK, NEW n \in Node, Forget(n)
  PROVE  OnlyOf(n)
  <1>1. records[n] \in Seq(Record) /\ <<>> \in Seq(Record)
    BY DEF RegistryTypeOK
  <1>2. CASE Store(n, Kept(records[n], {k \in DOMAIN records[n] : ~ records[n][k].expires}))
    BY <1>1, <1>2, KeptType DEF Store, OnlyOf
  <1>3. CASE Store(n, <<>>)
    BY <1>1, <1>3 DEF Store, OnlyOf
  <1>4. ASSUME NEW k \in DOMAIN records[n], records' = [records EXCEPT ![n][k].fresh = FALSE]
        PROVE  OnlyOf(n)
    <2> DEFINE s == [records[n] EXCEPT ![k].fresh = FALSE]
    <2>1. records[n][k] \in Record
      BY <1>1
    <2>2. [records[n][k] EXCEPT !.fresh = FALSE] \in Record
      BY <2>1 DEF Record
    <2>3. s \in Seq(Record)
      BY <1>1, <2>2
    <2>4. records' = [records EXCEPT ![n] = s]
      BY <1>4 DEF RegistryTypeOK
    <2> QED
      BY <2>3, <2>4 DEF OnlyOf
  <1> QED
    BY <1>2, <1>3, <1>4 DEF Forget, Lapse, DeregisterCritical

(* The cleanup of a heartbeat only takes records away. *)
LEMMA CleanupType ==
  ASSUME RegistryTypeOK, CleanupExpiredNodes
  PROVE  records' \in [Node -> Seq(Record)]
  <1>1. \A n \in Node : records[n] \in Seq(Record)
    BY DEF RegistryTypeOK
  <1>2. \A n \in Node :
          Kept(records[n], {k \in DOMAIN records[n] : records[n][k].fresh}) \in Seq(Record)
    BY <1>1, KeptType
  <1> QED
    BY <1>2 DEF CleanupExpiredNodes, RegistryTypeOK

-----------------------------------------------------------------------------
(* Types. *)

(* Where Start and waitForShutdown go from a call: their goroutines run on. *)
LEMMA ProceedType ==
  ASSUME TypeOK, NEW n \in Node, Calling(n), NEW answer \in Answer, Proceed(n, answer)
  PROVE  /\ main' \in [Node -> Main]
         /\ \A m \in Node \ {n} : main'[m] = main[m]
         /\ main'[n] \in {"joining", "serving", "stuck", "leaving", "draining",
                          "unregistering", "cancelling"}
  BY DEF TypeOK, Calling, Proceed, After, Goto, Main, Answer

(* A request of the main goroutine. *)
LEMMA RequestType ==
  ASSUME TypeOK, NEW n \in Node, Calling(n), NEW answer, Request(n, answer)
  PROVE  OnlyOf(n) /\ call' \in [Node -> [Thread -> Call]]
  <1>1. RegistryTypeOK /\ "main" \in Thread /\ {"working", "leaving"} \subseteq Status
    BY DEF TypeOK, Thread, Status
  <1>2. \/ updateNodeField(n, "main", "working", answer)
        \/ updateNodeField(n, "main", "leaving", answer)
        \/ Unregister(n, answer)
    BY DEF Request, Calling
  <1> QED
    BY <1>1, <1>2, UpdateFieldType, UnregisterType

(* What goes with a process leaves the types alone. *)
LEMMA DiesType ==
  ASSUME TypeOK, NEW n \in Node, Dies(n), UNCHANGED <<backend, records, starts, troubles>>
  PROVE  TypeOK'
  <1>1. call' \in [Node -> [Thread -> Call]]
    <2>1. [th \in Thread |-> Idle] \in [Thread -> Call]
      BY DEF Call
    <2> QED
      BY <2>1 DEF TypeOK, RegistryTypeOK, Dies
  <1>2. main' \in [Node -> Main]
    BY DEF TypeOK, Dies, Goto, Main
  <1> QED
    BY <1>1, <1>2 DEF TypeOK, RegistryTypeOK, Dies

(* The initial state: the steady nodes serve. *)
LEMMA InitType == Init => TypeOK
  <1> SUFFICES ASSUME Init PROVE TypeOK
    OBVIOUS
  <1>1. Serving \in Record
    BY DEF Serving, Record, Status
  <1>2. <<Serving>> \in Seq(Record) /\ <<>> \in Seq(Record)
    BY <1>1
  <1>3. records \in [Node -> Seq(Record)]
    BY <1>2 DEF Init
  <1>4. call \in [Node -> [Thread -> Call]]
    BY DEF Init, Call
  <1>5. MaxStarts[backend] \in Nat /\ MaxTroubles[backend] \in Nat
    BY LifeAssumption DEF Init
  <1>6. starts \in [Node -> 0 .. MaxStarts[backend]] /\ troubles \in 0 .. MaxTroubles[backend]
    BY <1>5 DEF Init
  <1>7. main \in [Node -> Main]
    BY DEF Init, Main
  <1> QED
    BY <1>3, <1>4, <1>6, <1>7 DEF Init, TypeOK, RegistryTypeOK

(* Every step keeps the types. *)
LEMMA TypeNext == TypeOK /\ [Next]_vars => TypeOK'
  <1> SUFFICES ASSUME TypeOK, [Next]_vars PROVE TypeOK'
    OBVIOUS
  <1>1. /\ RegistryTypeOK /\ MaxStarts[backend] \in Nat /\ MaxTroubles[backend] \in Nat
        /\ "main" \in Thread /\ "beat" \in Thread
    BY LifeAssumption DEF TypeOK, RegistryTypeOK, Thread
  <1>2. Trouble => troubles' \in 0 .. MaxTroubles[backend]
    BY <1>1 DEF TypeOK, Trouble
  <1>3. \A n \in Node : OnlyOf(n) => records' \in [Node -> Seq(Record)]
    BY <1>1, StoreType
  <1>4. ASSUME NEW n \in Node, Register(n) \/ RegisterFails(n) PROVE TypeOK'
    <2>1. records' \in [Node -> Seq(Record)]
      BY <1>1, <1>3, <1>4, RegRegisterType DEF Register, RegisterFails, TypeOK, RegistryTypeOK
    <2>2. main' \in [Node -> Main]
      BY <1>4 DEF Register, RegisterFails, Goto, Main, TypeOK
    <2>3. troubles' \in 0 .. MaxTroubles[backend]
      BY <1>2, <1>4 DEF Register, RegisterFails, TypeOK
    <2> QED
      BY <1>4, <2>1, <2>2, <2>3 DEF Register, RegisterFails, TypeOK, RegistryTypeOK
  <1>5. ASSUME NEW n \in Node, asyncWork(n) PROVE TypeOK'
    BY <1>5 DEF asyncWork, Goto, Main, TypeOK, RegistryTypeOK, registryVars
  <1>6. ASSUME NEW n \in Node, MainCall(n) PROVE TypeOK'
    <2>1. PICK answer \in Answer : Request(n, answer) /\ Proceed(n, answer)
      BY <1>6 DEF MainCall
    <2>2. Calling(n)
      BY <1>6 DEF MainCall
    <2>3. /\ records' \in [Node -> Seq(Record)] /\ call' \in [Node -> [Thread -> Call]]
          /\ main' \in [Node -> Main]
      BY <1>3, <2>1, <2>2, RequestType, ProceedType
    <2> QED
      BY <1>6, <2>3 DEF MainCall, TypeOK, RegistryTypeOK
  <1>7. ASSUME NEW n \in Node, MainCallFails(n) PROVE TypeOK'
    <2>1. Calling(n) /\ Proceed(n, "error") /\ "error" \in Answer
      BY <1>7 DEF MainCallFails, Answer
    <2>2. main' \in [Node -> Main]
      BY <2>1, ProceedType
    <2>3. records' \in [Node -> Seq(Record)] /\ call' \in [Node -> [Thread -> Call]]
      <3>1. CASE UNCHANGED records /\ Return(n, "main")
        BY <1>1, <3>1, GoOnType DEF RegistryTypeOK
      <3>2. CASE Request(n, "ok")
        BY <1>3, <2>1, <3>2, RequestType
      <3> QED
        BY <1>7, <3>1, <3>2 DEF MainCallFails
    <2>4. troubles' \in 0 .. MaxTroubles[backend]
      BY <1>2, <1>7 DEF MainCallFails
    <2> QED
      BY <1>7, <2>2, <2>3, <2>4 DEF MainCallFails, TypeOK, RegistryTypeOK
  <1>8. ASSUME NEW n \in Node, Signal(n) \/ Drain(n) \/ Cancel(n) PROVE TypeOK'
    BY <1>8 DEF Signal, Drain, Cancel, Goto, Main, TypeOK, RegistryTypeOK, registryVars
  <1>9. ASSUME NEW n \in Node, heartbeatReturns(n) PROVE TypeOK'
    <2>1. call' \in [Node -> [Thread -> Call]]
      BY <1>1, <1>9, GoOnType DEF heartbeatReturns
    <2> QED
      BY <1>9, <2>1 DEF heartbeatReturns, TypeOK, RegistryTypeOK
  <1>10. ASSUME NEW n \in Node, UpdateHeartbeat(n) PROVE TypeOK'
    <2>1. PICK answer \in Answer :
            /\ updateNodeField(n, "beat", "", answer)
            /\ beat' = [beat EXCEPT ![n] = IF answer = "more" THEN @ ELSE "cleaning"]
      BY <1>10 DEF UpdateHeartbeat
    <2>2. records' \in [Node -> Seq(Record)] /\ call' \in [Node -> [Thread -> Call]]
      BY <1>1, <1>3, <2>1, UpdateFieldType
    <2>3. beat' \in [Node -> {"off", "waiting", "cleaning"}]
      BY <2>1 DEF TypeOK
    <2> QED
      BY <1>10, <2>2, <2>3 DEF UpdateHeartbeat, TypeOK, RegistryTypeOK
  <1>11. ASSUME NEW n \in Node, UpdateHeartbeatFails(n) PROVE TypeOK'
    <2>1. call' \in [Node -> [Thread -> Call]]
      BY <1>1, <1>11, GoOnType DEF UpdateHeartbeatFails
    <2>2. troubles' \in 0 .. MaxTroubles[backend]
      BY <1>2, <1>11 DEF UpdateHeartbeatFails
    <2> QED
      BY <1>11, <2>1, <2>2 DEF UpdateHeartbeatFails, TypeOK, RegistryTypeOK
  <1>12. ASSUME NEW n \in Node, heartbeat(n) PROVE TypeOK'
    <2>1. records' \in [Node -> Seq(Record)]
      BY <1>1, <1>12, CleanupType DEF heartbeat
    <2> QED
      BY <1>12, <2>1 DEF heartbeat, TypeOK, RegistryTypeOK
  <1>13. ASSUME NEW n \in Node, ForgetSilent(n) \/ ForgetSlow(n) PROVE TypeOK'
    <2>1. records' \in [Node -> Seq(Record)]
      BY <1>1, <1>3, <1>13, ForgetType DEF ForgetSilent, ForgetSlow
    <2>2. troubles' \in 0 .. MaxTroubles[backend]
      BY <1>2, <1>13 DEF ForgetSilent, ForgetSlow, lifeVars, TypeOK
    <2> QED
      BY <1>13, <2>1, <2>2 DEF ForgetSilent, ForgetSlow, lifeVars, TypeOK, RegistryTypeOK
  <1>14. ASSUME NEW n \in Node, Start(n) PROVE TypeOK'
    <2>1. starts' \in [Node -> 0 .. MaxStarts[backend]]
      BY <1>1, <1>14 DEF Start, TypeOK
    <2>2. main' \in [Node -> Main]
      BY <1>14 DEF Start, Goto, Main, TypeOK
    <2> QED
      BY <1>14, <2>1, <2>2 DEF Start, TypeOK, RegistryTypeOK, registryVars
  <1>15. ASSUME NEW n \in Node, Stop(n) PROVE TypeOK'
    BY <1>15 DEF Stop, TypeOK, RegistryTypeOK, registryVars
  <1>16. ASSUME NEW n \in Node, StopPanics(n) \/ Crash(n) PROVE TypeOK'
    BY <1>16, DiesType DEF StopPanics, Crash
  <1>17. CASE UNCHANGED vars
    BY <1>17 DEF vars, registryVars, lifeVars, TypeOK, RegistryTypeOK
  <1> QED
    BY <1>4, <1>5, <1>6, <1>7, <1>8, <1>9, <1>10, <1>11, <1>12, <1>13, <1>14, <1>15,
       <1>16, <1>17 DEF Next, MainStep, BeatStep, Environment, ShutdownChan

(* The records of every registry and the state of every process keep their    *)
(* types, whatever requests are lost and whichever update is interrupted.     *)
THEOREM LifeTypeCorrect == Spec => []TypeOK
  BY InitType, TypeNext, PTL DEF Spec

-----------------------------------------------------------------------------
(* The list of working nodes. *)

(* A record that puts its node on the list. *)
Lists(b, r) == r.status = "working" /\ (b = "consul" => r.fresh)

(* Who is on the list. *)
LEMMA WorkingIs ==
  /\ Working \subseteq Node
  /\ \A n \in Node : n \in Working <=> \E k \in DOMAIN records[n] : Lists(backend, records[n][k])
  BY DEF Working, ConsulWorking, WithWorkingRecord, ToSet, Lists

(* The same in the next state. *)
LEMMA WorkingIsNext ==
  /\ Working' \subseteq Node
  /\ \A n \in Node : n \in Working' <=> \E k \in DOMAIN records'[n] : Lists(backend', records'[n][k])
  <1>1. ( /\ Working \subseteq Node
          /\ \A n \in Node :
               n \in Working <=> \E k \in DOMAIN records[n] : Lists(backend, records[n][k]) )'
    BY WorkingIs, PTL
  <1> QED
    BY <1>1

(* A step of Membership, or none. *)
ListStep == List!Next \/ UNCHANGED <<Up, Working>>

(* Nodes leave the list. *)
LEMMA DropStep ==
  ASSUME Up' = Up, Working' \subseteq Working
  PROVE  ListStep
  <1> DEFINE S == Working \ Working'
  <1>1. Working \subseteq Node
    BY WorkingIs
  <1>2. CASE S = {}
    BY <1>2 DEF ListStep
  <1>3. CASE S # {}
    <2>1. S \in SUBSET Node /\ S \subseteq Working /\ Working' = Working \ S
      BY <1>1
    <2> HIDE DEF S
    <2>2. List!Drop(S)
      BY <1>3, <2>1 DEF List!Drop
    <2> QED
      BY <2>1, <2>2 DEF List!Next, ListStep
  <1> QED
    BY <1>2, <1>3

(* A running node changes its own records. *)
LEMMA OwnStep ==
  ASSUME TypeOK, NEW n \in Node, n \in Up, Up' = Up, backend' = backend, OnlyOf(n)
  PROVE  ListStep
  <1>1. \A m \in Node \ {n} : records'[m] = records[m]
    BY StoreType DEF TypeOK
  <1>2. \A m \in Node \ {n} : m \in Working' <=> m \in Working
    BY <1>1, WorkingIs, WorkingIsNext DEF Lists
  <1>3. Working \subseteq Node /\ Working' \subseteq Node
    BY WorkingIs, WorkingIsNext
  <1>4. CASE n \in Working' /\ n \notin Working
    <2>1. Working' = Working \cup {n}
      BY <1>2, <1>3, <1>4
    <2>2. List!Join(n)
      BY <1>4, <2>1 DEF List!Join
    <2> QED
      BY <2>2 DEF List!Next, ListStep
  <1>5. CASE n \notin Working' \/ n \in Working
    <2>1. Working' \subseteq Working
      BY <1>2, <1>3, <1>5
    <2> QED
      BY <2>1, DropStep
  <1> QED
    BY <1>4, <1>5

(* A process starts or ends its goroutines; the list stays. *)
LEMMA LifeStep ==
  ASSUME NEW n \in Node, records' = records, backend' = backend,
         \A m \in Node \ {n} : m \in Up' <=> m \in Up
  PROVE  ListStep
  <1>1. Working' = Working
    BY WorkingIs, WorkingIsNext DEF Lists
  <1>2. Up \subseteq Node /\ Up' \subseteq Node
    BY DEF Up
  <1>3. CASE n \in Up' /\ n \notin Up
    <2>1. Up' = Up \cup {n}
      BY <1>2, <1>3
    <2>2. List!Boot(n)
      BY <1>1, <1>3, <2>1 DEF List!Boot
    <2> QED
      BY <2>2 DEF List!Next, ListStep
  <1>4. CASE n \notin Up' /\ n \in Up
    <2>1. Up' = Up \ {n}
      BY <1>2, <1>4
    <2>2. List!Die(n)
      BY <1>1, <1>4, <2>1 DEF List!Die
    <2> QED
      BY <2>2 DEF List!Next, ListStep
  <1>5. CASE n \in Up' <=> n \in Up
    <2>1. Up' = Up
      BY <1>2, <1>5
    <2> QED
      BY <1>1, <2>1 DEF ListStep
  <1> QED
    BY <1>3, <1>4, <1>5

(* Records that a backend forgets, or finds to be old, list nobody. *)
LEMMA ForgetStep ==
  ASSUME TypeOK, NEW n \in Node, Forget(n), backend' = backend, Up' = Up
  PROVE  ListStep
  <1>1. RegistryTypeOK /\ records \in [Node -> Seq(Record)] /\ records[n] \in Seq(Record)
    BY DEF TypeOK, RegistryTypeOK
  <1>2. \A m \in Node \ {n} : records'[m] = records[m]
    BY <1>1, ForgetType, StoreType
  <1>3. \A m \in Node \ {n} : m \in Working' => m \in Working
    BY <1>2, WorkingIs, WorkingIsNext DEF Lists
  <1>4. \A k \in DOMAIN records'[n] : Lists(backend', records'[n][k]) =>
          \E j \in DOMAIN records[n] : Lists(backend, records[n][j])
    <2>1. CASE Store(n, Kept(records[n], {k \in DOMAIN records[n] : ~ records[n][k].expires}))
      <3> DEFINE K == {k \in DOMAIN records[n] : ~ records[n][k].expires}
      <3>1. K \in SUBSET DOMAIN records[n] /\ records'[n] = Kept(records[n], K)
        BY <1>1, <2>1 DEF Store
      <3> HIDE DEF K
      <3>2. \A i \in DOMAIN records'[n] : \E k \in K : records'[n][i] = records[n][k]
        BY <1>1, <3>1, KeptType
      <3> QED
        BY <3>1, <3>2 DEF Lists
    <2>2. CASE Store(n, <<>>)
      BY <1>1, <2>2 DEF Store
    <2>3. ASSUME NEW j \in DOMAIN records[n], records' = [records EXCEPT ![n][j].fresh = FALSE],
                 NEW k \in DOMAIN records'[n], Lists(backend', records'[n][k])
          PROVE  Lists(backend, records[n][k]) /\ k \in DOMAIN records[n]
      <3>1. records'[n] = [records[n] EXCEPT ![j].fresh = FALSE]
        BY <1>1, <2>3
      <3>2. DOMAIN records'[n] = DOMAIN records[n]
        BY <1>1, <3>1
      <3>3. records[n][k] \in Record /\ records[n][j] \in Record
        BY <1>1, <2>3, <3>2
      <3>4. CASE k # j
        <4>1. records'[n][k] = records[n][k]
          BY <1>1, <2>3, <3>1, <3>2, <3>4
        <4> QED
          BY <2>3, <3>2, <4>1 DEF Lists
      <3>5. CASE k = j
        <4>1. records'[n][k] = [records[n][k] EXCEPT !.fresh = FALSE]
          BY <1>1, <2>3, <3>1, <3>2, <3>5
        <4>2. records'[n][k].status = records[n][k].status /\ records'[n][k].fresh = FALSE
          BY <3>3, <4>1 DEF Record
        <4> QED
          BY <2>3, <3>2, <4>2 DEF Lists
      <3> QED
        BY <3>4, <3>5
    <2> QED
      BY <2>1, <2>2, <2>3 DEF Forget, Lapse, DeregisterCritical
  <1>5. n \in Working' => n \in Working
    BY <1>4, WorkingIs, WorkingIsNext
  <1>6. Working' \subseteq Working
    BY <1>3, <1>5, WorkingIs, WorkingIsNext
  <1> QED
    BY <1>6, DropStep

(* So do those that CleanupExpiredNodes removes. *)
LEMMA CleanupStep ==
  ASSUME TypeOK, CleanupExpiredNodes, backend' = backend, Up' = Up
  PROVE  ListStep
  <1>1. \A n \in Node : records[n] \in Seq(Record)
    BY DEF TypeOK, RegistryTypeOK
  <1>2. ASSUME NEW n \in Node, NEW k \in DOMAIN records'[n], Lists(backend', records'[n][k])
        PROVE  \E j \in DOMAIN records[n] : Lists(backend, records[n][j])
    <2>1. CASE records' = records
      BY <1>2, <2>1 DEF Lists
    <2>2. CASE records'[n] = Kept(records[n], {j \in DOMAIN records[n] : records[n][j].fresh})
      <3> DEFINE K == {j \in DOMAIN records[n] : records[n][j].fresh}
      <3>1. K \in SUBSET DOMAIN records[n] /\ records'[n] = Kept(records[n], K)
        BY <2>2
      <3> HIDE DEF K
      <3>2. PICK j \in K : records'[n][k] = records[n][j]
        BY <1>1, <1>2, <3>1, KeptType
      <3> QED
        BY <1>2, <3>1, <3>2 DEF Lists
    <2> QED
      BY <2>1, <2>2 DEF CleanupExpiredNodes
  <1>3. Working' \subseteq Working
    BY <1>2, WorkingIs, WorkingIsNext
  <1> QED
    BY <1>3, DropStep

(* Every step of the nodes and of the registry is one of Membership, or none. *)
LEMMA NextListStep == TypeOK /\ [Next]_vars => ListStep
  <1> SUFFICES ASSUME TypeOK, [Next]_vars PROVE ListStep
    OBVIOUS
  <1> DEFINE Busy == {"joining", "serving", "leaving", "draining",
                      "unregistering", "cancelling", "stuck"}
  <1>1. /\ RegistryTypeOK /\ main \in [Node -> Main] /\ beat \in [Node -> {"off", "waiting", "cleaning"}]
        /\ "main" \in Thread /\ "beat" \in Thread
    BY DEF TypeOK, Thread
  <1>2. ASSUME NEW n \in Node, main' = main, beat' = beat PROVE Up' = Up
    BY <1>2 DEF Up
  <1>3. ASSUME NEW n \in Node, NEW where, Goto(n, where), beat' = beat,
               main[n] \in Busy <=> where \in Busy
        PROVE  Up' = Up
    BY <1>1, <1>3 DEF Up, Goto
  <1>4. ASSUME NEW n \in Node, Register(n) \/ RegisterFails(n) PROVE ListStep
    <2>1. CASE records' = records
      <3>1. \A m \in Node \ {n} : m \in Up' <=> m \in Up
        BY <1>1, <1>4 DEF Register, RegisterFails, Goto, Up
      <3> QED
        BY <1>4, <2>1, <3>1, LifeStep DEF Register, RegisterFails
    <2>2. CASE RegRegister(n)
      <3>1. Up' = Up /\ backend' = backend
        BY <1>1, <1>4 DEF Register, RegisterFails, Goto, Up
      <3>2. \A m \in Node \ {n} : records'[m] = records[m]
        BY <1>1, <2>2, RegRegisterType, StoreType
      <3>3. \A m \in Node \ {n} : m \in Working' => m \in Working
        BY <3>1, <3>2, WorkingIs, WorkingIsNext DEF Lists
      <3>4. ASSUME NEW k \in DOMAIN records'[n], Lists(backend', records'[n][k])
            PROVE  k \in DOMAIN records[n] /\ Lists(backend, records[n][k])
        <4> DEFINE r == Registered(n)
        <4>1. r \in Record /\ r.status = "starting"
          BY <1>1, RegisteredType
        <4>2. records \in [Node -> Seq(Record)] /\ records[n] \in Seq(Record)
          BY <1>1 DEF RegistryTypeOK
        <4>3. backend \in {"etcd", "redis", "consul", "zookeeper"}
          BY <1>1, BackendsAssumption DEF RegistryTypeOK
        <4> HIDE DEF r
        <4>4. CASE records'[n] = <<r>>
          BY <3>4, <4>1, <4>4 DEF Lists
        <4>5. CASE records'[n] = <<[r EXCEPT !.fresh = FALSE]>>
          <5> DEFINE q == [r EXCEPT !.fresh = FALSE]
          <5>1. q.status = "starting" /\ records'[n] = <<q>>
            BY <4>1, <4>5 DEF Record
          <5> HIDE DEF q
          <5>2. k = 1 /\ records'[n][k] = q
            BY <3>4, <5>1
          <5> QED
            BY <3>4, <5>1, <5>2 DEF Lists
        <4>6. CASE records'[n] = Append(records[n], r)
          <5>1. k \in 1 .. Len(records[n]) + 1
            BY <3>4, <4>2, <4>6
          <5>2. CASE k = Len(records[n]) + 1
            <6>1. records'[n][k] = r
              BY <4>2, <4>6, <5>2
            <6> QED
              BY <3>4, <4>1, <6>1 DEF Lists
          <5>3. CASE k # Len(records[n]) + 1
            <6>1. k \in DOMAIN records[n] /\ records'[n][k] = records[n][k]
              BY <4>2, <4>6, <5>1, <5>3
            <6> QED
              BY <3>1, <3>4, <6>1 DEF Lists
          <5> QED
            BY <5>2, <5>3
        <4> QED
          BY <2>2, <4>2, <4>3, <4>4, <4>5, <4>6 DEF RegRegister, EtcdRegister, ConsulRegister,
             RedisRegister, ZkRegister, Store, r
      <3>5. n \in Working' => n \in Working
        BY <3>4, WorkingIs, WorkingIsNext
      <3>6. Working' \subseteq Working
        BY <3>3, <3>5, WorkingIs, WorkingIsNext
      <3> QED
        BY <3>1, <3>6, DropStep
    <2> QED
      BY <1>4, <2>1, <2>2 DEF Register, RegisterFails
  <1>5. ASSUME NEW n \in Node, asyncWork(n) \/ Start(n) \/ Cancel(n) \/ StopPanics(n) \/ Crash(n)
        PROVE  ListStep
    <2>1. \A m \in Node \ {n} : m \in Up' <=> m \in Up
      BY <1>1, <1>5 DEF asyncWork, Start, Cancel, StopPanics, Crash, Dies, Goto, Up
    <2> QED
      BY <1>5, <2>1, LifeStep DEF asyncWork, Start, Cancel, StopPanics, Crash, registryVars
  <1>6. ASSUME NEW n \in Node, MainCall(n) PROVE ListStep
    <2>1. PICK answer \in Answer : Request(n, answer) /\ Proceed(n, answer)
      BY <1>6 DEF MainCall
    <2>2. Calling(n) /\ backend' = backend /\ beat' = beat
      BY <1>6 DEF MainCall
    <2>3. OnlyOf(n) /\ main' \in [Node -> Main]
          /\ (\A m \in Node \ {n} : main'[m] = main[m]) /\ main'[n] \in Busy
      BY <2>1, <2>2, RequestType, ProceedType
    <2>4. n \in Up /\ Up' = Up
      BY <2>2, <2>3 DEF Up, Calling
    <2> QED
      BY <2>2, <2>3, <2>4, OwnStep
  <1>7. ASSUME NEW n \in Node, MainCallFails(n) PROVE ListStep
    <2>1. Calling(n) /\ backend' = backend /\ beat' = beat /\ Proceed(n, "error")
          /\ "error" \in Answer
      BY <1>7 DEF MainCallFails, Answer
    <2>2. (\A m \in Node \ {n} : main'[m] = main[m]) /\ main'[n] \in Busy
      BY <2>1, ProceedType
    <2>3. n \in Up /\ Up' = Up
      BY <2>1, <2>2 DEF Up, Calling
    <2>4. CASE records' = records
      BY <2>1, <2>3, <2>4, LifeStep
    <2>5. CASE Request(n, "ok")
      BY <2>1, <2>3, <2>5, RequestType, OwnStep
    <2> QED
      BY <1>7, <2>4, <2>5 DEF MainCallFails
  <1>8. ASSUME NEW n \in Node, Signal(n) \/ Drain(n) PROVE ListStep
    <2>1. \A m \in Node \ {n} : m \in Up' <=> m \in Up
      BY <1>1, <1>8 DEF Signal, Drain, Goto, Up
    <2> QED
      BY <1>8, <2>1, LifeStep DEF Signal, Drain, registryVars
  <1>9. ASSUME NEW n \in Node, UpdateHeartbeat(n) PROVE ListStep
    <2>1. PICK answer \in Answer :
            /\ updateNodeField(n, "beat", "", answer)
            /\ beat' = [beat EXCEPT ![n] = IF answer = "more" THEN @ ELSE "cleaning"]
      BY <1>9 DEF UpdateHeartbeat
    <2>2. OnlyOf(n)
      BY <1>1, <2>1, UpdateFieldType
    <2>3. n \in Up /\ Up' = Up /\ backend' = backend
      BY <1>1, <1>9, <2>1 DEF UpdateHeartbeat, Up
    <2> QED
      BY <2>2, <2>3, OwnStep
  <1>10. ASSUME NEW n \in Node, UpdateHeartbeatFails(n) \/ heartbeatReturns(n) PROVE ListStep
    <2>1. \A m \in Node \ {n} : m \in Up' <=> m \in Up
      BY <1>1, <1>10 DEF UpdateHeartbeatFails, heartbeatReturns, Up
    <2> QED
      BY <1>10, <2>1, LifeStep DEF UpdateHeartbeatFails, heartbeatReturns
  <1>11. ASSUME NEW n \in Node, heartbeat(n) PROVE ListStep
    <2>1. Up' = Up /\ backend' = backend /\ CleanupExpiredNodes
      BY <1>1, <1>11 DEF heartbeat, Up
    <2> QED
      BY <2>1, CleanupStep
  <1>12. ASSUME NEW n \in Node, ForgetSilent(n) \/ ForgetSlow(n) PROVE ListStep
    <2>1. Up' = Up /\ backend' = backend /\ Forget(n)
      BY <1>12 DEF ForgetSilent, ForgetSlow, lifeVars, Up
    <2> QED
      BY <2>1, ForgetStep
  <1>13. ASSUME NEW n \in Node, Stop(n) PROVE ListStep
    <2>1. \A m \in Node \ {n} : m \in Up' <=> m \in Up
      BY <1>13 DEF Stop, Up
    <2> QED
      BY <1>13, <2>1, LifeStep DEF Stop, registryVars
  <1>14. CASE UNCHANGED vars
    <2>1. records' = records /\ backend' = backend /\ main' = main /\ beat' = beat
      BY <1>14 DEF vars, registryVars, lifeVars
    <2>2. Working' = Working
      BY <2>1, WorkingIs, WorkingIsNext DEF Lists
    <2>3. Up' = Up
      BY <2>1 DEF Up
    <2> QED
      BY <2>2, <2>3 DEF ListStep
  <1> QED
    BY <1>4, <1>5, <1>6, <1>7, <1>8, <1>9, <1>10, <1>11, <1>12, <1>13, <1>14
    DEF Next, MainStep, BeatStep, Environment, ShutdownChan

(* The steady nodes run and are listed, and nobody else. *)
LEMMA InitList == Init => List!Init
  <1> SUFFICES ASSUME Init PROVE List!Init
    OBVIOUS
  <1>1. Up = Steady
    BY LifeAssumption DEF Init, Up
  <1>2. \A n \in Node : n \in Working => n \in Steady
    BY WorkingIs DEF Init
  <1>3. Working \subseteq Up
    BY <1>1, <1>2, WorkingIs
  <1> QED
    BY <1>1, <1>3, LifeAssumption DEF List!Init

(* With each of the four registries, and whatever requests, answers and       *)
(* heartbeats are lost or late, GetWorkingNodes changes as Membership says:   *)
(* only a node whose goroutines run comes onto the list, one at a time.       *)
THEOREM LifeImplementsMembership == Spec => ImplementsMembership
  <1>1. TypeOK /\ [Next]_vars => [List!Next]_<<Up, Working>>
    BY NextListStep DEF ListStep
  <1> QED
    BY <1>1, InitList, InitType, TypeNext, PTL DEF Spec, ImplementsMembership, List!Spec

-----------------------------------------------------------------------------
(* Nodes that are gone. *)

(* With etcd and ZooKeeper no call but Register stores a record of a node     *)
(* that has none.                                                             *)
LEMMA NothingFromNothing ==
  ASSUME RegistryTypeOK, NEW n \in Node, ~ Has(n), backend \in {"etcd", "zookeeper"},
         \/ \E th \in Thread : \E status, answer : updateNodeField(n, th, status, answer)
         \/ \E answer : Unregister(n, answer)
         \/ Forget(n)
         \/ CleanupExpiredNodes
  PROVE  records' = records
  <1>1. ToSet(records[n]) = {}
    BY DEF Has, ToSet
  <1>2. ASSUME NEW th \in Thread, NEW status, NEW answer, updateNodeField(n, th, status, answer)
        PROVE  records' = records
    BY <1>1, <1>2 DEF updateNodeField, STM, ZkUpdateNodeField, Fetch, ZkSet
  <1>3. ASSUME NEW answer, Unregister(n, answer) PROVE records' = records
    <2>1. CASE backend = "etcd"
      BY <1>3, <2>1 DEF Unregister, EtcdUnregister, Store, Has, RegistryTypeOK
    <2>2. CASE backend = "zookeeper"
      BY <1>3, <2>2 DEF Unregister, ZkUnregister
    <2> QED
      BY <2>1, <2>2
  <1>4. CASE Forget(n)
    BY <1>1, <1>4 DEF Forget, Lapse, DeregisterCritical
  <1>5. CASE CleanupExpiredNodes
    BY <1>5 DEF CleanupExpiredNodes
  <1> QED
    BY <1>2, <1>3, <1>4, <1>5

(* The steps that change no record, the calls of Register, and the steps that *)
(* the other goroutines and the backend take on the records of one node.      *)
LEMMA StepsOnRecords ==
  ASSUME TypeOK, [Next]_vars
  PROVE  /\ backend' = backend
         /\ \/ records' = records
            \/ CleanupExpiredNodes
            \/ \E m \in Node : \/ main[m] = "registering" /\ RegRegister(m)
                               \/ Calling(m) /\ \E answer : Request(m, answer)
                               \/ \E answer : updateNodeField(m, "beat", "", answer)
                               \/ Forget(m)
  <1>1. CASE UNCHANGED vars
    BY <1>1 DEF vars, registryVars
  <1>2. ASSUME NEW m \in Node,
               \/ asyncWork(m) \/ Drain(m) \/ Cancel(m) \/ Signal(m) \/ Start(m) \/ Stop(m)
               \/ StopPanics(m) \/ Crash(m) \/ UpdateHeartbeatFails(m) \/ heartbeatReturns(m)
        PROVE  backend' = backend /\ records' = records
    BY <1>2 DEF asyncWork, Drain, Cancel, Signal, Start, Stop, StopPanics, Crash,
       UpdateHeartbeatFails, heartbeatReturns, registryVars
  <1>3. ASSUME NEW m \in Node, Register(m) \/ RegisterFails(m)
        PROVE  /\ backend' = backend
               /\ records' = records \/ (main[m] = "registering" /\ RegRegister(m))
    BY <1>3 DEF Register, RegisterFails
  <1>4. ASSUME NEW m \in Node, MainCall(m) \/ MainCallFails(m)
        PROVE  /\ backend' = backend
               /\ records' = records \/ (Calling(m) /\ \E answer : Request(m, answer))
    BY <1>4 DEF MainCall, MainCallFails
  <1>5. ASSUME NEW m \in Node, UpdateHeartbeat(m)
        PROVE  backend' = backend /\ \E answer : updateNodeField(m, "beat", "", answer)
    BY <1>5 DEF UpdateHeartbeat
  <1>6. ASSUME NEW m \in Node, heartbeat(m) PROVE backend' = backend /\ CleanupExpiredNodes
    BY <1>6 DEF heartbeat
  <1>7. ASSUME NEW m \in Node, ForgetSilent(m) \/ ForgetSlow(m) PROVE backend' = backend /\ Forget(m)
    BY <1>7 DEF ForgetSilent, ForgetSlow
  <1> QED
    BY <1>1, <1>2, <1>3, <1>4, <1>5, <1>6, <1>7
    DEF Next, MainStep, BeatStep, Environment, ShutdownChan

(* A step on the records of m leaves those of the others as they are. *)
LEMMA OthersKept ==
  ASSUME TypeOK, NEW m \in Node,
         \/ RegRegister(m) \/ Forget(m)
         \/ Calling(m) /\ \E answer : Request(m, answer)
         \/ \E answer : updateNodeField(m, "beat", "", answer)
  PROVE  \A n \in Node \ {m} : records'[n] = records[n]
  <1>1. RegistryTypeOK /\ "beat" \in Thread
    BY DEF TypeOK, Thread
  <1>2. OnlyOf(m)
    <2>1. CASE RegRegister(m)
      BY <1>1, <2>1, RegRegisterType
    <2>2. CASE Forget(m)
      BY <1>1, <2>2, ForgetType
    <2>3. ASSUME NEW answer, Calling(m), Request(m, answer) PROVE OnlyOf(m)
      BY <2>3, RequestType
    <2>4. ASSUME NEW answer, updateNodeField(m, "beat", "", answer) PROVE OnlyOf(m)
      BY <1>1, <2>4, UpdateFieldType
    <2> QED
      BY <2>1, <2>2, <2>3, <2>4
  <1> QED
    BY <1>1, <1>2, StoreType

(* With etcd and ZooKeeper, no update, heartbeat or cleanup that was under    *)
(* way brings back a node that Unregister or the backend has removed.         *)
THEOREM GoneForGood == Spec => GoneStaysGone
  <1> DEFINE Comeback(n) == /\ backend \in {"etcd", "zookeeper"}
                            /\ ~ Has(n) /\ Has(n)'
             Gone == \A n \in Node : Comeback(n) => main[n] = "registering"
  <1>1. ASSUME TypeOK, [Next]_vars PROVE Gone
    <2> SUFFICES ASSUME NEW n \in Node, Comeback(n) PROVE main[n] = "registering"
      OBVIOUS
    <2>1. /\ RegistryTypeOK /\ "main" \in Thread /\ "beat" \in Thread
          /\ ~ Has(n) /\ backend \in {"etcd", "zookeeper"} /\ records'[n] # records[n]
      BY <1>1 DEF TypeOK, Thread, Has
    <2>2. ~ CleanupExpiredNodes
      BY <2>1, NothingFromNothing
    <2>3. PICK m \in Node : \/ main[m] = "registering" /\ RegRegister(m)
                            \/ Calling(m) /\ \E answer : Request(m, answer)
                            \/ \E answer : updateNodeField(m, "beat", "", answer)
                            \/ Forget(m)
      BY <1>1, <2>1, <2>2, StepsOnRecords
    <2>4. m = n
      BY <1>1, <2>1, <2>3, OthersKept
    <2>5. ASSUME NEW answer, Calling(n), Request(n, answer) PROVE FALSE
      <3>1. \/ updateNodeField(n, "main", "working", answer)
            \/ updateNodeField(n, "main", "leaving", answer)
            \/ Unregister(n, answer)
        BY <2>5 DEF Request, Calling
      <3> QED
        BY <2>1, <3>1, NothingFromNothing
    <2>6. ASSUME NEW answer, updateNodeField(n, "beat", "", answer) PROVE FALSE
      BY <2>1, <2>6, NothingFromNothing
    <2>7. ~ Forget(n)
      BY <2>1, NothingFromNothing
    <2> QED
      BY <2>3, <2>4, <2>5, <2>6, <2>7
  <1>2. TypeOK /\ [Next]_vars => [Gone]_vars
    BY <1>1
  <1> QED
    BY <1>2, InitType, TypeNext, PTL DEF Spec, GoneStaysGone

-----------------------------------------------------------------------------
(* The status of a node. *)

(* The record that a call works on, of the records s of a registry b. *)
TargetIn(b, s) == IF b = "zookeeper" THEN Last(s) ELSE Head(s)

(* etcd and Consul have one record for an id; the session of every znode can  *)
(* end.                                                                       *)
RecordsOK(b, s) ==
  /\ b \in {"etcd", "consul"} => Len(s) <= 1
  /\ b = "zookeeper" => \A k \in DOMAIN s : s[k].expires

(* No node that is about to join has the record of one that leaves. *)
NotLeft(n) ==
  main[n] \in {"preparing", "joining"} /\ Has(n) /\ backend # "redis"
    => TargetIn(backend, records[n]).status # "leaving"

(* The inductive invariant. *)
StatusInv ==
  /\ TypeOK
  /\ \A n \in Node : RecordsOK(backend, records[n]) /\ NotLeft(n)

(* The position of the target. *)
LEMMA TargetInIs ==
  ASSUME NEW b, NEW s \in Seq(Record), s # <<>>
  PROVE  /\ Len(s) \in DOMAIN s /\ 1 \in DOMAIN s
         /\ TargetIn(b, s) = s[IF b = "zookeeper" THEN Len(s) ELSE 1]
         /\ TargetIn(b, s) \in Record
  <1>1. Len(s) \in DOMAIN s /\ 1 \in DOMAIN s /\ Head(s) = s[1]
    OBVIOUS
  <1>2. TargetIn(b, s) = s[IF b = "zookeeper" THEN Len(s) ELSE 1]
    BY <1>1 DEF TargetIn, Last
  <1> QED
    BY <1>1, <1>2

(* What the removal of records leaves. *)
LEMMA KeptStatus ==
  ASSUME NEW b, NEW s \in Seq(Record), RecordsOK(b, s), NEW K \in SUBSET DOMAIN s
  PROVE  /\ RecordsOK(b, Kept(s, K))
         /\ Len(s) <= 1 => Kept(s, K) = <<>> \/ Kept(s, K) = s
  <1>1. Kept(s, K) \in Seq(Record)
    BY KeptType
  <1>2. ASSUME Len(s) <= 1 PROVE Kept(s, K) = <<>> \/ Kept(s, K) = s
    <2>1. CASE K = {}
      BY <2>1, KeptType
    <2>2. CASE K # {}
      <3>1. Len(s) \in Nat /\ DOMAIN s = 1 .. Len(s)
        OBVIOUS
      <3>2. Len(s) = 1
        BY <1>2, <2>2, <3>1
      <3> QED
        BY <2>2, <3>2, KeptType
    <2> QED
      BY <2>1, <2>2
  <1>3. b \in {"etcd", "consul"} => Len(Kept(s, K)) <= 1
    BY <1>2 DEF RecordsOK
  <1>4. b = "zookeeper" => \A k \in DOMAIN Kept(s, K) : Kept(s, K)[k].expires
    BY KeptType DEF RecordsOK
  <1> QED
    BY <1>2, <1>3, <1>4 DEF RecordsOK

(* What a replaced record changes. *)
LEMMA ReplacedStatus ==
  ASSUME RegistryTypeOK, NEW n \in Node, Has(n), NEW old, NEW new \in Record,
         RecordsOK(backend, records[n]), backend = "zookeeper" => new.expires
  PROVE  /\ RecordsOK(backend, Replaced(n, old, new))
         /\ TargetIn(backend, Replaced(n, old, new)) =
              IF Same(TargetIn(backend, records[n]), old)
              THEN new ELSE TargetIn(backend, records[n])
  <1> DEFINE s == records[n]
             t == Replaced(n, old, new)
             at == IF backend = "zookeeper" THEN Len(s) ELSE 1
  <1>1. s \in Seq(Record) /\ s # <<>> /\ t \in Seq(Record)
    BY EditType DEF RegistryTypeOK, Has
  <1>2. t = [k \in DOMAIN s |-> IF Same(s[k], old) THEN new ELSE s[k]]
    BY DEF Replaced
  <1> HIDE DEF s, t
  <1>3. DOMAIN t = DOMAIN s
    BY <1>2
  <1>4. Len(t) = Len(s) /\ t # <<>>
    BY <1>1, <1>3
  <1>5. /\ at \in DOMAIN s /\ TargetIn(backend, s) = s[at]
        /\ TargetIn(backend, t) = t[at]
    BY <1>1, <1>4, TargetInIs
  <1> HIDE DEF at
  <1>6. TargetIn(backend, t) = IF Same(TargetIn(backend, s), old) THEN new ELSE TargetIn(backend, s)
    BY <1>2, <1>5
  <1>7. backend \in {"etcd", "consul"} => Len(t) <= 1
    BY <1>4 DEF RecordsOK, s
  <1>8. backend = "zookeeper" => \A k \in DOMAIN t : t[k].expires
    <2>1. backend = "zookeeper" => \A k \in DOMAIN s : s[k].expires
      BY DEF RecordsOK, s
    <2> QED
      BY <1>2, <1>3, <2>1
  <1> QED
    BY <1>6, <1>7, <1>8 DEF RecordsOK, s, t

(* A request of an update writes no status but the one it was given, and      *)
(* with Redis it never changes the only record in place.                      *)
LEMMA UpdateStatusOf ==
  ASSUME RegistryTypeOK, NEW n \in Node, RecordsOK(backend, records[n]),
         NEW th \in Thread, NEW status, NEW answer, th = "main" => status \in Status,
         updateNodeField(n, th, status, answer)
  PROVE  /\ RecordsOK(backend, records'[n])
         /\ answer = "more" /\ backend # "redis" => records' = records
         /\ th = "beat" /\ backend # "redis" /\ ~ Has(n) => records'[n] = <<>>
         /\ Has(n) /\ records'[n] # <<>> /\ (backend = "redis" => Len(records[n]) = 1)
              => \/ TargetIn(backend, records'[n]).status = TargetIn(backend, records[n]).status
                 \/ /\ th = "main" /\ backend # "redis"
                    /\ TargetIn(backend, records'[n]).status = status
  <1> DEFINE s == records[n]
             t == records'[n]
             old == call[n][th].rec
             Kind == TargetIn(backend, t).status = TargetIn(backend, s).status
             Given == /\ th = "main" /\ backend # "redis"
                      /\ TargetIn(backend, t).status = status
             Goal == /\ RecordsOK(backend, t)
                     /\ answer = "more" /\ backend # "redis" => records' = records
                     /\ th = "beat" /\ backend # "redis" /\ ~ Has(n) => t = <<>>
                     /\ Has(n) /\ t # <<>> /\ (backend = "redis" => Len(s) = 1) => Kind \/ Given
  <1> SUFFICES Goal
    OBVIOUS
  <1>1. /\ backend \in {"etcd", "redis", "consul", "zookeeper"} /\ th \in {"main", "beat"}
        /\ records \in [Node -> Seq(Record)] /\ s \in Seq(Record)
    BY BackendsAssumption DEF RegistryTypeOK, Thread
  <1>2. CASE records' = records
    BY <1>2 DEF Has
  <1>3. ASSUME NEW r \in Record, NEW from, Has(n), answer = "ok",
               Store(n, Replaced(n, from, r)), backend # "redis",
               backend = "zookeeper" => r.expires,
               r.status = IF th = "main" THEN status ELSE from.status
        PROVE  Goal
    <2>1. t = Replaced(n, from, r)
      BY <1>1, <1>3 DEF Store
    <2>2. /\ RecordsOK(backend, t)
          /\ TargetIn(backend, t) = IF Same(TargetIn(backend, s), from)
                                    THEN r ELSE TargetIn(backend, s)
      BY <1>3, <2>1, ReplacedStatus
    <2>3. Same(TargetIn(backend, s), from) => TargetIn(backend, s).status = from.status
      BY DEF Same, Value
    <2> HIDE DEF s, t
    <2>4. Kind \/ Given
      BY <1>1, <1>3, <2>2, <2>3
    <2> QED
      BY <1>3, <2>2, <2>4
  <1>4. CASE backend = "etcd"
    <2>1. STM(n, th, status, answer)
      BY <1>4 DEF updateNodeField
    <2>2. CASE Has(n)
      <3>1. PICK r \in Updated(n, th, Target(n), status) : Store(n, Replaced(n, Target(n), r))
        BY <2>1, <2>2 DEF STM
      <3>2. Target(n).status \in Status
        BY <2>2, TargetType DEF Record
      <3>3. r \in Record /\ r.status = IF th = "main" THEN status ELSE Target(n).status
        BY <3>2, UpdatedType
      <3>4. answer = "ok"
        BY <2>1, <2>2 DEF STM
      <3> HIDE DEF Goal
      <3> QED
        BY <1>3, <1>4, <2>2, <3>1, <3>3, <3>4
    <2>3. CASE ~ Has(n)
      BY <1>2, <2>1, <2>3 DEF STM
    <2> QED
      BY <2>2, <2>3
  <1>5. CASE Fetch(n, th, answer)
    BY <1>2, <1>5 DEF Fetch
  <1>6. CASE ZkSet(n, th, status, answer) /\ backend = "zookeeper"
    <2>1. call[n][th].step = "read"
      BY <1>6 DEF ZkSet
    <2>2. old.status \in Status
      BY <2>1, CallType
    <2>3. CASE \E r \in ToSet(records[n]) : Same(r, old)
      <3>1. PICK r \in Updated(n, th, old, status) : Store(n, Replaced(n, old, r))
        BY <1>6, <2>3 DEF ZkSet
      <3>2. answer = "ok"
        BY <1>6, <2>3 DEF ZkSet
      <3>3. Has(n)
        BY <2>3 DEF Has, ToSet
      <3> HIDE DEF old, Goal
      <3>4. /\ r \in Record /\ r.status = IF th = "main" THEN status ELSE old.status
            /\ r.expires = (backend # "etcd")
        BY <2>2, UpdatedType
      <3> QED
        BY <1>3, <1>6, <3>1, <3>2, <3>3, <3>4
    <2>4. CASE ~ \E r \in ToSet(records[n]) : Same(r, old)
      BY <1>2, <1>6, <2>4 DEF ZkSet
    <2> QED
      BY <2>3, <2>4
  <1>7. CASE ServiceRegister(n, th, status, answer) /\ backend = "consul" /\ th = "main"
    <2>1. call[n][th].step = "read" /\ answer = "ok"
      BY <1>7 DEF ServiceRegister
    <2>2. old.status \in Status
      BY <2>1, CallType
    <2>3. PICK r \in Updated(n, th, old, status) : Store(n, <<r>>)
      BY <1>7 DEF ServiceRegister
    <2>4. t = <<r>>
      BY <1>1, <2>3 DEF Store
    <2> HIDE DEF old
    <2>5. r.status = status
      BY <1>7, <2>2, UpdatedType
    <2> HIDE DEF t
    <2>6. RecordsOK(backend, t) /\ TargetIn(backend, t) = r
      BY <1>7, <2>4 DEF RecordsOK, TargetIn
    <2> QED
      BY <1>7, <2>1, <2>5, <2>6
  <1>8. CASE UpdateTTL(n, answer) /\ backend = "consul"
    <2>1. t = [k \in DOMAIN s |-> [s[k] EXCEPT !.fresh = TRUE]] /\ answer # "more"
      BY <1>1, <1>8 DEF UpdateTTL, Store
    <2>2. \A k \in DOMAIN s : s[k] \in Record
      BY <1>1
    <2>3. \A k \in DOMAIN s : t[k].status = s[k].status
      BY <2>1, <2>2 DEF Record
    <2>4. t \in Seq(Record)
      BY <1>8, TTLType, StoreType
    <2>5. DOMAIN t = DOMAIN s
      BY <2>1
    <2>6. RecordsOK(backend, s)
      OBVIOUS
    <2>7. s = <<>> <=> ~ Has(n)
      BY DEF Has
    <2> HIDE DEF s, t
    <2>8. Len(t) = Len(s) /\ (s = <<>> <=> t = <<>>)
      BY <1>1, <2>4, <2>5
    <2>9. RecordsOK(backend, t)
      BY <1>8, <2>6, <2>8 DEF RecordsOK
    <2>10. s # <<>> => Kind
      BY <1>1, <1>8, <2>3, <2>4, <2>8, TargetInIs
    <2> QED
      BY <2>1, <2>7, <2>8, <2>9, <2>10
  <1>9. CASE ZRem(n, th, answer) /\ backend = "redis"
    <2> DEFINE K == {k \in DOMAIN s : ~ Same(old, s[k])}
    <2>1. t = Kept(s, K) /\ K \in SUBSET DOMAIN s
      BY <1>1, <1>9 DEF ZRem, Store, Without
    <2> HIDE DEF K
    <2>2. Len(s) = 1 => t = <<>> \/ t = s
      BY <1>1, <2>1, KeptType
    <2> QED
      BY <1>9, <2>2 DEF RecordsOK
  <1>10. CASE ZAdd(n, th, status, answer) /\ backend = "redis"
    <2>1. PICK r : Store(n, Append(s, r))
      BY <1>10 DEF ZAdd
    <2>2. t = Append(s, r)
      BY <1>1, <2>1 DEF Store
    <2>3. t \in Seq(Record)
      BY <1>10, WriteType, StoreType
    <2> HIDE DEF s, t
    <2>4. Len(s) = 1 => Head(t) = Head(s)
      BY <1>1, <2>2, <2>3
    <2> QED
      BY <1>10, <2>4 DEF RecordsOK, TargetIn
  <1> QED
    BY <1>1, <1>4, <1>5, <1>6, <1>7, <1>8, <1>9, <1>10 DEF updateNodeField,
       RedisUpdateNodeField, ZkUpdateNodeField, ConsulUpdateStatus

(* A backend that forgets records changes no status. *)
LEMMA ForgetStatus ==
  ASSUME RegistryTypeOK, NEW n \in Node, RecordsOK(backend, records[n]), Forget(n)
  PROVE  /\ RecordsOK(backend, records'[n])
         /\ records'[n] # <<>> =>
              /\ Has(n)
              /\ TargetIn(backend, records'[n]).status = TargetIn(backend, records[n]).status
  <1> DEFINE s == records[n]
             t == records'[n]
             Goal == /\ RecordsOK(backend, t)
                     /\ t # <<>> => /\ s # <<>>
                                    /\ TargetIn(backend, t).status = TargetIn(backend, s).status
  <1> SUFFICES Goal
    BY DEF Has
  <1>1. records \in [Node -> Seq(Record)] /\ s \in Seq(Record) /\ t \in Seq(Record)
    BY ForgetType, StoreType DEF RegistryTypeOK
  <1>2. RecordsOK(backend, s)
    OBVIOUS
  <1>3. CASE Store(n, <<>>)
    <2>1. t = <<>>
      BY <1>1, <1>3 DEF Store
    <2> HIDE DEF s, t
    <2> QED
      BY <2>1 DEF RecordsOK
  <1>4. CASE /\ backend \in {"etcd", "zookeeper"}
             /\ Store(n, Kept(s, {k \in DOMAIN s : ~ s[k].expires}))
    <2> DEFINE K == {k \in DOMAIN s : ~ s[k].expires}
    <2>1. t = Kept(s, K) /\ K \in SUBSET DOMAIN s
      BY <1>1, <1>4 DEF Store
    <2>2. backend = "zookeeper" => K = {}
      BY <1>2 DEF RecordsOK
    <2> HIDE DEF K, s, t
    <2>3. RecordsOK(backend, t) /\ (Len(s) <= 1 => t = <<>> \/ t = s)
      BY <1>1, <1>2, <2>1, KeptStatus
    <2>4. CASE backend = "etcd"
      BY <1>2, <2>3, <2>4 DEF RecordsOK
    <2>5. CASE backend = "zookeeper"
      <3>1. t = <<>>
        BY <1>1, <2>1, <2>2, <2>5, KeptType
      <3> QED
        BY <2>3, <3>1
    <2> QED
      BY <1>4, <2>4, <2>5
  <1>5. ASSUME backend \in {"redis", "consul"}, NEW k \in DOMAIN s,
               records' = [records EXCEPT ![n][k].fresh = FALSE]
        PROVE  Goal
    <2>1. t = [s EXCEPT ![k].fresh = FALSE]
      BY <1>1, <1>5
    <2>2. \A j \in DOMAIN s : s[j] \in Record
      BY <1>1
    <2> HIDE DEF s, t
    <2>3. DOMAIN t = DOMAIN s
      BY <2>1
    <2>4. \A j \in DOMAIN s : t[j].status = s[j].status
      BY <2>1, <2>2 DEF Record
    <2>5. Len(t) = Len(s) /\ s # <<>> /\ t # <<>>
      BY <1>1, <1>5, <2>3
    <2>6. RecordsOK(backend, t)
      BY <1>2, <1>5, <2>5 DEF RecordsOK
    <2>7. TargetIn(backend, t).status = TargetIn(backend, s).status
      BY <1>1, <1>5, <2>4, <2>5, TargetInIs
    <2> QED
      BY <2>5, <2>6, <2>7
  <1> HIDE DEF Goal
  <1> QED
    BY <1>3, <1>4, <1>5 DEF Forget, Lapse, DeregisterCritical

(* Nor does the cleanup, where a node has one record. *)
LEMMA CleanupStatus ==
  ASSUME RegistryTypeOK, NEW n \in Node, RecordsOK(backend, records[n]), CleanupExpiredNodes
  PROVE  /\ RecordsOK(backend, records'[n])
         /\ backend # "redis" => records'[n] = records[n]
         /\ Len(records[n]) = 1 => records'[n] = <<>> \/ records'[n] = records[n]
  <1> DEFINE K == {k \in DOMAIN records[n] : records[n][k].fresh}
  <1>1. records[n] \in Seq(Record) /\ K \in SUBSET DOMAIN records[n]
    BY DEF RegistryTypeOK
  <1>2. \/ records'[n] = records[n]
        \/ records'[n] = Kept(records[n], K) /\ backend = "redis"
    BY DEF CleanupExpiredNodes
  <1> HIDE DEF K
  <1>3. /\ RecordsOK(backend, Kept(records[n], K))
        /\ Len(records[n]) = 1 => Kept(records[n], K) = <<>> \/ Kept(records[n], K) = records[n]
    BY <1>1, KeptStatus
  <1> QED
    BY <1>2, <1>3

(* Register: the record that a call works on is the new one, but with Redis. *)
LEMMA RegisterStatus ==
  ASSUME RegistryTypeOK, NEW n \in Node, RecordsOK(backend, records[n]), RegRegister(n)
  PROVE  /\ RecordsOK(backend, records'[n])
         /\ backend # "redis" => TargetIn(backend, records'[n]).status = "starting"
  <1> DEFINE r == Registered(n)
             s == records[n]
             t == records'[n]
             q == [r EXCEPT !.fresh = FALSE]
             Goal == /\ RecordsOK(backend, t)
                     /\ backend # "redis" => TargetIn(backend, t).status = "starting"
  <1> SUFFICES Goal
    OBVIOUS
  <1>1. r \in Record /\ r.status = "starting" /\ r.expires
    BY RegisteredType
  <1>2. records \in [Node -> Seq(Record)] /\ s \in Seq(Record) /\ RecordsOK(backend, s)
    BY DEF RegistryTypeOK
  <1>3. backend \in {"etcd", "redis", "consul", "zookeeper"}
    BY BackendsAssumption DEF RegistryTypeOK
  <1> HIDE DEF r
  <1>4. q.status = "starting"
    BY <1>1 DEF Record
  <1>5. CASE backend = "etcd"
    <2>1. t = <<r>>
      BY <1>2, <1>5 DEF RegRegister, EtcdRegister, Store, r
    <2> HIDE DEF t
    <2> QED
      BY <1>1, <1>5, <2>1 DEF RecordsOK, TargetIn
  <1>6. CASE backend = "consul"
    <2>1. t = <<q>>
      BY <1>2, <1>6 DEF RegRegister, ConsulRegister, Store, r
    <2> HIDE DEF t, q
    <2> QED
      BY <1>4, <1>6, <2>1 DEF RecordsOK, TargetIn
  <1>7. CASE backend = "redis"
    BY <1>7 DEF RecordsOK
  <1>8. CASE backend = "zookeeper"
    <2>1. t = Append(s, r)
      BY <1>2, <1>8 DEF RegRegister, ZkRegister, Store, r
    <2> HIDE DEF s, t
    <2>2. t \in Seq(Record) /\ t # <<>> /\ Len(t) = Len(s) + 1 /\ t[Len(t)] = r
      <3>1. Len(s) \in Nat /\ t \in Seq(Record) /\ Len(t) = Len(s) + 1
        BY <1>1, <1>2, <2>1
      <3>2. t[Len(s) + 1] = r
        BY <1>1, <1>2, <2>1
      <3>3. t # <<>>
        BY <3>1
      <3> QED
        BY <3>1, <3>2, <3>3
    <2>3. \A k \in DOMAIN t : t[k] = r \/ (k \in DOMAIN s /\ t[k] = s[k])
      <3> SUFFICES ASSUME NEW k \in DOMAIN t, k # Len(t)
                   PROVE  k \in DOMAIN s /\ t[k] = s[k]
        BY <2>2
      <3>1. k \in 1 .. Len(s) /\ Len(s) \in Nat
        BY <1>2, <2>2
      <3> QED
        BY <1>1, <1>2, <2>1, <3>1
    <2>4. RecordsOK(backend, t)
      BY <1>1, <1>2, <1>8, <2>3 DEF RecordsOK
    <2>5. TargetIn(backend, t) = r
      BY <1>8, <2>2, TargetInIs
    <2> QED
      BY <1>1, <2>4, <2>5
  <1> QED
    BY <1>3, <1>5, <1>6, <1>7, <1>8

(* Unregister. *)
LEMMA UnregisterStatus ==
  ASSUME RegistryTypeOK, NEW n \in Node, RecordsOK(backend, records[n]), NEW answer,
         Unregister(n, answer)
  PROVE  RecordsOK(backend, records'[n])
  <1>1. records \in [Node -> Seq(Record)] /\ records[n] \in Seq(Record)
    BY DEF RegistryTypeOK
  <1>2. backend \in {"etcd", "redis", "consul", "zookeeper"}
    BY BackendsAssumption DEF RegistryTypeOK
  <1>3. RecordsOK(backend, <<>>)
    BY DEF RecordsOK
  <1>4. CASE backend \in {"etcd", "consul"}
    <2>1. records'[n] = <<>>
      BY <1>1, <1>4 DEF Unregister, EtcdUnregister, ConsulUnregister, Store
    <2> QED
      BY <1>3, <2>1
  <1>5. CASE backend = "redis"
    BY <1>5 DEF RecordsOK
  <1>6. CASE backend = "zookeeper"
    <2> DEFINE K == {k \in DOMAIN records[n] : ~ Same(Target(n), records[n][k])}
    <2>1. records'[n] = records[n] \/ records'[n] = Kept(records[n], K)
      BY <1>1, <1>6 DEF Unregister, ZkUnregister, Store, Without
    <2>2. K \in SUBSET DOMAIN records[n]
      OBVIOUS
    <2> HIDE DEF K
    <2> QED
      BY <1>1, <2>1, <2>2, KeptStatus
  <1> QED
    BY <1>2, <1>4, <1>5, <1>6

(* One record for an id, and sessions that can end, in every step. *)
LEMMA RecordsNext ==
  ASSUME TypeOK, \A n \in Node : RecordsOK(backend, records[n]), [Next]_vars, NEW n \in Node
  PROVE  RecordsOK(backend', records'[n])
  <1>1. /\ RegistryTypeOK /\ "main" \in Thread /\ "beat" \in Thread
        /\ {"working", "leaving"} \subseteq Status /\ "main" # "beat"
    BY DEF TypeOK, Thread, Status
  <1>2. backend' = backend /\ RecordsOK(backend, records[n])
    BY StepsOnRecords
  <1>3. CASE records' = records
    BY <1>2, <1>3
  <1>4. CASE CleanupExpiredNodes
    BY <1>1, <1>2, <1>4, CleanupStatus
  <1>5. ASSUME NEW m \in Node \ {n},
               \/ main[m] = "registering" /\ RegRegister(m)
               \/ Calling(m) /\ \E answer : Request(m, answer)
               \/ \E answer : updateNodeField(m, "beat", "", answer)
               \/ Forget(m)
        PROVE  RecordsOK(backend', records'[n])
    BY <1>2, <1>5, OthersKept
  <1>6. CASE RegRegister(n)
    BY <1>1, <1>2, <1>6, RegisterStatus
  <1>7. ASSUME NEW answer, Calling(n), Request(n, answer)
        PROVE  RecordsOK(backend', records'[n])
    <2>1. \/ updateNodeField(n, "main", "working", answer)
          \/ updateNodeField(n, "main", "leaving", answer)
          \/ Unregister(n, answer)
      BY <1>7 DEF Request, Calling
    <2> QED
      BY <1>1, <1>2, <2>1, UpdateStatusOf, UnregisterStatus
  <1>8. ASSUME NEW answer, updateNodeField(n, "beat", "", answer)
        PROVE  RecordsOK(backend', records'[n])
    BY <1>1, <1>2, <1>8, UpdateStatusOf
  <1>9. CASE Forget(n)
    BY <1>1, <1>2, <1>9, ForgetStatus
  <1> QED
    BY <1>3, <1>4, <1>5, <1>6, <1>7, <1>8, <1>9, StepsOnRecords

(* How a node comes to be about to join, and what may happen to its records   *)
(* while it is.                                                               *)
LEMMA BeforeJoining ==
  ASSUME TypeOK, [Next]_vars, NEW n \in Node, main'[n] \in {"preparing", "joining"}
  PROVE  \/ RegRegister(n)
         \/ /\ main[n] \in {"preparing", "joining"}
            /\ \/ records'[n] = records[n]
               \/ CleanupExpiredNodes
               \/ Forget(n)
               \/ \E answer : updateNodeField(n, "beat", "", answer)
               \/ updateNodeField(n, "main", "working", "more")
  <1> DEFINE Joins(m) == main[m] \in {"preparing", "joining"}
             Touched == \/ records'[n] = records[n]
                        \/ CleanupExpiredNodes
                        \/ Forget(n)
                        \/ \E answer : updateNodeField(n, "beat", "", answer)
                        \/ updateNodeField(n, "main", "working", "more")
             Goal == RegRegister(n) \/ (Joins(n) /\ Touched)
  <1> SUFFICES Goal
    OBVIOUS
  <1>1. main \in [Node -> Main] /\ records \in [Node -> Seq(Record)]
    BY DEF TypeOK, RegistryTypeOK
  <1>2. ASSUME NEW m \in Node, main' = main,
               \/ records' = records
               \/ CleanupExpiredNodes
               \/ Forget(m)
               \/ \E answer : updateNodeField(m, "beat", "", answer)
        PROVE  Goal
    BY <1>2, OthersKept
  <1>3. CASE UNCHANGED vars
    BY <1>3 DEF vars, registryVars, lifeVars
  <1>4. ASSUME NEW m \in Node, Register(m) \/ RegisterFails(m) PROVE Goal
    <2>1. CASE m = n
      BY <1>1, <1>4, <2>1 DEF Register, RegisterFails, Goto
    <2>2. CASE m # n
      <3>1. main'[n] = main[n]
        BY <1>1, <1>4, <2>2 DEF Register, RegisterFails, Goto
      <3>2. records'[n] = records[n]
        BY <1>4, <2>2, OthersKept DEF Register, RegisterFails
      <3> QED
        BY <3>1, <3>2
    <2> QED
      BY <2>1, <2>2
  <1>5. ASSUME NEW m \in Node, asyncWork(m) PROVE Goal
    BY <1>1, <1>5 DEF asyncWork, Goto, registryVars
  <1>6. ASSUME NEW m \in Node, MainCall(m) PROVE Goal
    <2>1. PICK answer \in Answer : Request(m, answer) /\ Proceed(m, answer)
      BY <1>6 DEF MainCall
    <2>2. Calling(m)
      BY <1>6 DEF MainCall
    <2>3. CASE m # n
      <3>1. main'[n] = main[n]
        BY <2>1, <2>2, <2>3, ProceedType
      <3>2. records'[n] = records[n]
        BY <2>1, <2>2, <2>3, OthersKept
      <3> QED
        BY <3>1, <3>2
    <2>4. CASE m = n
      <3>1. main[n] = "joining" /\ answer = "more"
        BY <1>1, <2>1, <2>2, <2>4 DEF Proceed, After, Goto, Calling, Answer
      <3>2. updateNodeField(n, "main", "working", "more")
        BY <2>1, <2>4, <3>1 DEF Request
      <3> QED
        BY <3>1, <3>2
    <2> QED
      BY <2>3, <2>4
  <1>7. ASSUME NEW m \in Node, MainCallFails(m) PROVE Goal
    <2>1. Calling(m) /\ Proceed(m, "error") /\ "error" \in Answer
      BY <1>7 DEF MainCallFails, Answer
    <2>2. m # n
      BY <1>1, <2>1 DEF Proceed, After, Goto, Calling
    <2>3. main'[n] = main[n]
      BY <2>1, <2>2, ProceedType
    <2>4. records'[n] = records[n]
      BY <1>7, <2>1, <2>2, OthersKept DEF MainCallFails
    <2> QED
      BY <2>3, <2>4
  <1>8. ASSUME NEW m \in Node,
               Signal(m) \/ Drain(m) \/ Cancel(m) \/ Start(m) \/ StopPanics(m) \/ Crash(m)
        PROVE  Goal
    <2>1. records' = records /\ main'[n] \in {main[n], "leaving", "unregistering", "over",
                                              "registering", "dead"}
      BY <1>1, <1>8 DEF Signal, Drain, Cancel, Start, StopPanics, Crash, Dies, Goto, registryVars
    <2> QED
      BY <2>1
  <1>9. ASSUME NEW m \in Node, Stop(m) \/ UpdateHeartbeatFails(m) \/ heartbeatReturns(m)
        PROVE  Goal
    BY <1>9 DEF Stop, UpdateHeartbeatFails, heartbeatReturns, registryVars
  <1>10. ASSUME NEW m \in Node,
                UpdateHeartbeat(m) \/ heartbeat(m) \/ ForgetSilent(m) \/ ForgetSlow(m)
         PROVE  Goal
    <2>1. main' = main
      BY <1>10 DEF UpdateHeartbeat, heartbeat, ForgetSilent, ForgetSlow, lifeVars
    <2>2. \/ CleanupExpiredNodes \/ Forget(m)
          \/ \E answer : updateNodeField(m, "beat", "", answer)
      BY <1>10 DEF UpdateHeartbeat, heartbeat, ForgetSilent, ForgetSlow
    <2> HIDE DEF Goal
    <2> QED
      BY <1>2, <2>1, <2>2
  <1> HIDE DEF Goal
  <1> QED
    BY <1>3, <1>4, <1>5, <1>6, <1>7, <1>8, <1>9, <1>10
    DEF Next, MainStep, BeatStep, Environment, ShutdownChan

(* Every step keeps the inductive invariant. *)
LEMMA StatusNext == StatusInv /\ [Next]_vars => StatusInv'
  <1> SUFFICES ASSUME StatusInv, [Next]_vars PROVE StatusInv'
    OBVIOUS
  <1>1. /\ TypeOK /\ RegistryTypeOK /\ "main" \in Thread /\ "beat" \in Thread
        /\ "working" \in Status /\ "main" # "beat"
    BY DEF StatusInv, TypeOK, Thread, Status
  <1>2. \A n \in Node : RecordsOK(backend, records[n]) /\ NotLeft(n)
    BY DEF StatusInv
  <1>3. TypeOK'
    BY <1>1, TypeNext
  <1>4. \A n \in Node : RecordsOK(backend', records'[n])
    BY <1>1, <1>2, RecordsNext
  <1>5. backend' = backend
    BY <1>1, StepsOnRecords
  <1>6. ASSUME NEW n \in Node, main'[n] \in {"preparing", "joining"}, records'[n] # <<>>,
               backend # "redis"
        PROVE  TargetIn(backend, records'[n]).status # "leaving"
    <2> DEFINE s == TargetIn(backend, records[n]).status
               t == TargetIn(backend, records'[n]).status
    <2>1. RecordsOK(backend, records[n])
          /\ (main[n] \in {"preparing", "joining"} /\ records[n] # <<>> => s # "leaving")
      BY <1>2, <1>6 DEF NotLeft, Has
    <2>2. CASE RegRegister(n)
      BY <1>1, <1>6, <2>1, <2>2, RegisterStatus
    <2>3. CASE main[n] \in {"preparing", "joining"} /\ records'[n] = records[n]
      BY <1>6, <2>1, <2>3
    <2>4. CASE main[n] \in {"preparing", "joining"} /\ CleanupExpiredNodes
      BY <1>1, <1>6, <2>1, <2>4, CleanupStatus
    <2>5. CASE main[n] \in {"preparing", "joining"} /\ Forget(n)
      BY <1>1, <1>6, <2>1, <2>5, ForgetStatus DEF Has
    <2>6. ASSUME main[n] \in {"preparing", "joining"},
                 NEW answer, updateNodeField(n, "beat", "", answer)
          PROVE  t # "leaving"
      <3>1. Has(n) /\ t = s
        BY <1>1, <1>6, <2>1, <2>6, UpdateStatusOf
      <3> QED
        BY <2>1, <2>6, <3>1 DEF Has
    <2>7. CASE /\ main[n] \in {"preparing", "joining"}
               /\ updateNodeField(n, "main", "working", "more")
      <3>1. records' = records
        BY <1>1, <1>6, <2>1, <2>7, UpdateStatusOf
      <3> QED
        BY <1>6, <2>1, <2>7, <3>1
    <2> QED
      BY <1>1, <1>6, <2>2, <2>3, <2>4, <2>5, <2>6, <2>7, BeforeJoining
  <1>7. \A n \in Node : NotLeft(n)'
    BY <1>5, <1>6 DEF NotLeft, Has
  <1> QED
    BY <1>3, <1>4, <1>7 DEF StatusInv

(* Initially nobody is about to join. *)
LEMMA InitStatus == Init => StatusInv
  <1> SUFFICES ASSUME Init PROVE StatusInv
    OBVIOUS
  <1>1. TypeOK
    BY InitType
  <1>2. ASSUME NEW n \in Node PROVE RecordsOK(backend, records[n]) /\ NotLeft(n)
    <2>1. NotLeft(n)
      BY DEF Init, NotLeft
    <2>2. RecordsOK(backend, <<>>)
      BY DEF RecordsOK
    <2>3. RecordsOK(backend, <<Serving>>)
      <3>1. Serving.expires = (backend # "etcd")
        BY DEF Serving
      <3>2. Len(<<Serving>>) = 1 /\ \A k \in DOMAIN <<Serving>> : <<Serving>>[k] = Serving
        OBVIOUS
      <3>3. Len(<<Serving>>) <= 1
        BY <3>2
      <3> QED
        BY <3>1, <3>2, <3>3 DEF RecordsOK
    <2>4. records[n] = <<>> \/ records[n] = <<Serving>>
      BY DEF Init
    <2> QED
      BY <2>1, <2>2, <2>3, <2>4
  <1> QED
    BY <1>1, <1>2 DEF StatusInv

(* A status that UpdateStatus has written is not undone: neither by the       *)
(* transactions of etcd, nor by the compared versions of ZooKeeper, nor by    *)
(* the second registration of Consul, nor by Redis where one record is left   *)
(* and no heartbeat is in the middle of its update.                           *)
THEOREM StatusNeverUndone == Spec => StatusKept
  <1> DEFINE Pre(n) == /\ Has(n) /\ Has(n)'
                       /\ main[n] \notin {"registering", "unregistering"}
                       /\ backend = "redis" => call[n]["beat"] = Idle /\ Len(records[n]) = 1
             KeptAll == \A n \in Node : Pre(n) => Rank(Target(n).status) <= Rank(Target(n)'.status)
  <1>1. ASSUME StatusInv, [Next]_vars PROVE KeptAll
    <2> SUFFICES ASSUME NEW n \in Node, Pre(n)
                 PROVE  Rank(Target(n).status) <= Rank(Target(n)'.status)
      OBVIOUS
    <2> DEFINE s == TargetIn(backend, records[n]).status
               t == TargetIn(backend, records'[n]).status
    <2>1. /\ TypeOK /\ RegistryTypeOK /\ "main" \in Thread /\ "beat" \in Thread
          /\ "working" \in Status /\ "leaving" \in Status /\ "main" # "beat"
      BY <1>1 DEF StatusInv, TypeOK, Thread, Status
    <2>2. backend' = backend /\ RecordsOK(backend, records[n]) /\ NotLeft(n)
      BY <1>1, <2>1, StepsOnRecords DEF StatusInv
    <2>3. records[n] # <<>> /\ records'[n] # <<>> /\ Has(n)
          /\ main[n] \notin {"registering", "unregistering"}
          /\ (backend = "redis" => Len(records[n]) = 1)
      BY DEF Has
    <2>4. Target(n).status = s /\ Target(n)'.status = t
      BY <2>2 DEF Target, TargetIn
    <2>5. s \in Status
      <3>1. records[n] \in Seq(Record)
        BY <2>1 DEF RegistryTypeOK
      <3>2. TargetIn(backend, records[n]) \in Record
        BY <2>3, <3>1, TargetInIs
      <3> QED
        BY <3>2 DEF Record
    <2>6. t = s \/ t = "leaving" \/ (t = "working" /\ s # "leaving")
      <3> DEFINE Fine == t = s \/ t = "leaving" \/ (t = "working" /\ s # "leaving")
      <3> SUFFICES Fine
        OBVIOUS
      <3>1. CASE records'[n] = records[n]
        BY <3>1
      <3>2. CASE CleanupExpiredNodes
        BY <2>1, <2>2, <2>3, <3>2, CleanupStatus
      <3>3. CASE Forget(n)
        BY <2>1, <2>2, <2>3, <3>3, ForgetStatus
      <3>4. ASSUME NEW answer, updateNodeField(n, "beat", "", answer) PROVE Fine
        BY <2>1, <2>2, <2>3, <3>4, UpdateStatusOf
      <3>5. ASSUME NEW answer, Calling(n), Request(n, answer) PROVE Fine
        <4>1. CASE main[n] = "joining"
          <5>1. updateNodeField(n, "main", "working", answer)
            BY <3>5, <4>1 DEF Request
          <5>2. t = s \/ (backend # "redis" /\ t = "working")
            BY <2>1, <2>2, <2>3, <5>1, UpdateStatusOf
          <5>3. backend # "redis" => s # "leaving"
            BY <2>2, <2>3, <4>1 DEF NotLeft
          <5> QED
            BY <5>2, <5>3
        <4>2. CASE main[n] = "leaving"
          <5>1. updateNodeField(n, "main", "leaving", answer)
            BY <3>5, <4>2 DEF Request
          <5> QED
            BY <2>1, <2>2, <2>3, <5>1, UpdateStatusOf
        <4> QED
          BY <2>3, <3>5, <4>1, <4>2 DEF Calling
      <3>6. ASSUME NEW m \in Node,
                   \/ main[m] = "registering" /\ RegRegister(m)
                   \/ Calling(m) /\ \E answer : Request(m, answer)
                   \/ \E answer : updateNodeField(m, "beat", "", answer)
                   \/ Forget(m)
            PROVE  Fine
        <4>1. CASE m # n
          BY <2>1, <3>1, <3>6, <4>1, OthersKept
        <4>2. CASE m = n
          BY <2>3, <3>3, <3>4, <3>5, <3>6, <4>2
        <4> QED
          BY <4>1, <4>2
      <3> HIDE DEF Fine
      <3> QED
        BY <1>1, <2>1, <3>1, <3>2, <3>6, StepsOnRecords
    <2> HIDE DEF s, t
    <2>7. Rank(s) <= Rank(t)
      BY <2>5, <2>6 DEF Rank, Status
    <2> QED
      BY <2>4, <2>7
  <1>2. StatusInv /\ [Next]_vars => [KeptAll]_vars
    BY <1>1
  <1> QED
    BY <1>2, InitStatus, StatusNext, PTL DEF Spec, StatusKept

=============================================================================
